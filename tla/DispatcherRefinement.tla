------------------------- MODULE DispatcherRefinement -------------------------
(***************************************************************************)
(* Dispatcher implements RequestReply: through queue, drain, drop and      *)
(* mailbox a request is answered at most once, and what a client takes is  *)
(* an answer that was given to one of its requests.                        *)
(*                                                                         *)
(* The invariant of DispatcherProofs tells the status of a request by what *)
(* became of it and by the mailbox of its client; each step of Dispatcher  *)
(* is then a step of one request, the end of the dispatcher, or none.      *)
(***************************************************************************)
EXTENDS DispatcherProofs

USE DEF Busy

\* The status of a request by what became of it and by the responses for its client.
StatusIn(c, i, becomes, box) ==
    IF becomes[c][i] = "unsent" THEN "unsent"
    ELSE IF becomes[c][i] \in OpenFates THEN "open"
    ELSE IF \E m \in InSeq(box[c]) : m.id = i /\ m.ok THEN "ok"
    ELSE IF \E m \in InSeq(box[c]) : m.id = i /\ ~m.ok THEN "error"
    ELSE "closed"

cur  == [c \in Clients |-> Awaited(c)]
stat == [c \in Clients |-> [i \in RequestIds |-> Status(c, i)]]

Step == [Promise!Next]_(Promise!vars)

-------------------------------------------------------------------------------
(* What a client waits for.                                                *)

\* Only the client itself changes what it waits for.
LEMMA AwaitedKept ==
    ASSUME UNCHANGED call, \A c \in Clients : client'[c] \in Busy <=> client[c] \in Busy
    PROVE  cur' = cur
  BY DEF cur, Awaited

\* It stops to wait when request_for returns.
LEMMA AwaitedEnds ==
    ASSUME IInv, NEW c \in Clients, NEW from, NEW ok, ReturnFrom(c, from, ok), client[c] \in Busy
    PROVE  cur[c] = call[c].id /\ cur[c] # 0 /\ cur' = [cur EXCEPT ![c] = 0]
  <1>1. /\ client \in [Clients -> {"idle", "panicked"} \cup Busy]
        /\ call \in [Clients -> [id : {0} \cup RequestIds, op : AllOps,
                                 dst : ActorIds \cup {INVALID}]]
        /\ call[c].id \in RequestIds /\ \A i \in RequestIds : i # 0
    BY Types, RequestsFinite DEF IInv, Refusals
  <1>2. cur[c] = call[c].id /\ call[c].id # 0
    BY <1>1 DEF cur, Awaited
  <1>3. client'[c] \notin Busy /\ \A d \in Clients \ {c} : client'[d] = client[d] /\ call'[d] = call[d]
    BY <1>1 DEF ReturnFrom
  <1>4. cur' = [d \in Clients |-> IF d = c THEN 0 ELSE cur[d]]
    BY <1>3 DEF cur, Awaited
  <1>. QED
    BY <1>2, <1>4 DEF cur

-------------------------------------------------------------------------------
(* The statuses of requests.                                               *)

LEMMA StatusMeans ==
    ASSUME IInv, NEW c \in Clients, NEW i \in RequestIds
    PROVE  /\ Status(c, i) = StatusIn(c, i, fate, mailbox)
           /\ stat[c][i] = StatusIn(c, i, fate, mailbox)
  <1>1. /\ fate[c][i] = "queued" <=> \E r \in InSeq(queue) \cup stop : Asks(r, c, i)
        /\ fate[c][i] = "unsent" <=> i > call[c].id
    BY DEF IInv, InPlace, Placed
  <1>3. /\ fate[c][i] = "taken" <=> \E k \in kept : Asks(k.request, c, i)
        /\ fate[c][i] = "refused" <=> client[c] = "refused" /\ i = call[c].id
    BY DEF IInv, KeptOK, Refusals, Asks
  <1>4. fate[c][i] \in OpenFates <=> \E r \in Unanswered : Asks(r, c, i)
    <2>1. (\E r \in {Call(d) : d \in {d \in Clients : client[d] = "refused"}} : Asks(r, c, i))
              <=> client[c] = "refused" /\ i = call[c].id
      <3>1. \A d \in Clients : Asks(Call(d), c, i) <=> d = c /\ call[c].id = i
        BY DEF Call, Asks
      <3>. QED
        BY <3>1
    <2>2. (\E r \in {k.request : k \in kept} : Asks(r, c, i))
              <=> \E k \in kept : Asks(k.request, c, i)
      OBVIOUS
    <2>. QED
      BY <1>1, <1>3, <2>1, <2>2 DEF OpenFates, Unanswered
  <1>2. Status(c, i) = StatusIn(c, i, fate, mailbox)
    BY <1>1, <1>4 DEF Status, StatusIn, Asks
  <1>. QED
    BY <1>2 DEF stat

LEMMA StatusMeansNext ==
    ASSUME IInv, [Next]_vars, NEW c \in Clients, NEW i \in RequestIds
    PROVE  Status(c, i)' = StatusIn(c, i, fate', mailbox')
  <1>1. /\ fate'[c][i] = "queued" <=> \E r \in InSeq(queue') \cup stop' : Asks(r, c, i)
        /\ fate'[c][i] = "unsent" <=> i > call'[c].id
    BY InPlaceNext DEF Placed
  <1>2. /\ fate'[c][i] = "taken" <=> \E k \in kept' : Asks(k.request, c, i)
        /\ fate'[c][i] = "refused" <=> client'[c] = "refused" /\ i = call'[c].id
    BY KeptNext DEF KeptOK, Refusals, Asks
  <1>3. fate'[c][i] \in OpenFates <=> \E r \in Unanswered' : Asks(r, c, i)
    <2>1. (\E r \in {Call(d)' : d \in {d \in Clients : client'[d] = "refused"}} : Asks(r, c, i))
              <=> client'[c] = "refused" /\ i = call'[c].id
      <3>1. \A d \in Clients : Asks(Call(d)', c, i) <=> d = c /\ call'[c].id = i
        BY DEF Call, Asks
      <3>. QED
        BY <3>1
    <2>2. (\E r \in {k.request : k \in kept'} : Asks(r, c, i))
              <=> \E k \in kept' : Asks(k.request, c, i)
      OBVIOUS
    <2>. QED
      BY <1>1, <1>2, <2>1, <2>2 DEF OpenFates, Unanswered
  <1>. QED
    BY <1>1, <1>3 DEF Status, StatusIn, Asks

\* A status changes with what becomes of the request, or with a response for it.
LEMMA StatusKept ==
    ASSUME NEW c, NEW i, NEW becomes, NEW later, NEW box, NEW box2,
           later[c][i] = becomes[c][i],
           \A m : m.id = i => (m \in InSeq(box2[c]) <=> m \in InSeq(box[c]))
    PROVE  StatusIn(c, i, later, box2) = StatusIn(c, i, becomes, box)
  <1>1. /\ (\E m \in InSeq(box2[c]) : m.id = i /\ m.ok) <=> (\E m \in InSeq(box[c]) : m.id = i /\ m.ok)
        /\ (\E m \in InSeq(box2[c]) : m.id = i /\ ~m.ok) <=> (\E m \in InSeq(box[c]) : m.id = i /\ ~m.ok)
    OBVIOUS
  <1>. QED
    BY <1>1 DEF StatusIn

\* A response put into a mailbox leaves the other requests alone.
LEMMA DeliveredElements ==
    ASSUME NEW box \in [Clients -> Seq(Responses)], NEW box2, NEW r \in Requests, NEW why,
           Delivered(box, box2, r, why)
    PROVE  \A d \in Clients, j \in RequestIds : d # r.src \/ j # r.id =>
               \A m : m.id = j => (m \in InSeq(box2[d]) <=> m \in InSeq(box[d]))
  <1>0. r.src \in Clients
    BY DEF Requests
  <1>1. CASE box2 = box
    BY <1>1
  <1>2. ASSUME NEW x \in Responses, x.id = r.id,
               box2 = [box EXCEPT ![r.src] = Append(@, x)]
        PROVE  \A d \in Clients, j \in RequestIds : d # r.src \/ j # r.id =>
                   \A m : m.id = j => (m \in InSeq(box2[d]) <=> m \in InSeq(box[d]))
    <2>1. InSeq(Append(box[r.src], x)) = InSeq(box[r.src]) \cup {x}
      BY <1>0, AppendElements
    <2>2. /\ box2[r.src] = Append(box[r.src], x)
          /\ \A d \in Clients \ {r.src} : box2[d] = box[d]
      BY <1>0, <1>2
    <2>3. InSeq(box2[r.src]) = InSeq(box[r.src]) \cup {x}
      BY <2>1, <2>2
    <2>. QED
      BY <1>2, <2>2, <2>3
  <1>. QED
    BY <1>1, <1>2 DEF Delivered

\* One status changes.
LEMMA StatBecomes ==
    ASSUME IInv, [Next]_vars,
           NEW c \in Clients, NEW i \in RequestIds, NEW statuses,
           StatusIn(c, i, fate', mailbox') \in statuses,
           \A d \in Clients, j \in RequestIds : d # c \/ j # i =>
               StatusIn(d, j, fate', mailbox') = StatusIn(d, j, fate, mailbox)
    PROVE  Promise!Becomes(c, i, statuses)
  <1>1. PICK s \in statuses : s = StatusIn(c, i, fate', mailbox')
    OBVIOUS
  <1>2. \A d \in Clients, j \in RequestIds :
            Status(d, j)' = IF d = c /\ j = i THEN s ELSE Status(d, j)
    <2>. TAKE d \in Clients, j \in RequestIds
    <2>1. /\ Status(d, j)' = StatusIn(d, j, fate', mailbox')
          /\ Status(d, j) = StatusIn(d, j, fate, mailbox)
      BY StatusMeans, StatusMeansNext
    <2>. QED
      BY <1>1, <2>1
  <1>3. stat' = [stat EXCEPT ![c][i] = s]
    BY <1>2 DEF stat
  <1>. QED
    BY <1>1, <1>3 DEF Promise!Becomes, stat

\* None does.
LEMMA StatFixed ==
    ASSUME IInv, [Next]_vars, UNCHANGED <<fate, mailbox>>
    PROVE  stat' = stat
  <1>1. \A d \in Clients, j \in RequestIds : Status(d, j)' = Status(d, j)
    <2>. TAKE d \in Clients, j \in RequestIds
    <2>1. /\ Status(d, j)' = StatusIn(d, j, fate', mailbox')
          /\ Status(d, j) = StatusIn(d, j, fate, mailbox)
      BY StatusMeans, StatusMeansNext
    <2>. QED
      BY <2>1
  <1>. QED
    BY <1>1 DEF stat

-------------------------------------------------------------------------------
(* Each step is one of RequestReply.                                       *)

LEMMA PromiseInit == Init => Promise!Init
  <1>. SUFFICES ASSUME Init PROVE Promise!Init
    OBVIOUS
  <1>1. ASSUME NEW c \in Clients, NEW i \in RequestIds PROVE Status(c, i) = "unsent"
    <2>1. fate[c][i] = "unsent" /\ IInv
      BY InvInit DEF Init
    <2>. QED
      BY <2>1, StatusMeans DEF StatusIn
  <1>2. \A c \in Clients : Awaited(c) = 0
    BY DEF Init, Awaited
  <1>. QED
    BY <1>1, <1>2 DEF Promise!Init

\* Neither a status nor what a client waits for changes.
LEMMA Stutters ==
    ASSUME IInv, [Next]_vars, UNCHANGED <<fate, mailbox, client, call>>
    PROVE  Step
  <1>1. stat' = stat /\ cur' = cur
    BY StatFixed, AwaitedKept
  <1>. QED
    BY <1>1 DEF Step, stat, cur, Promise!vars

\* An open request is answered, or not: its response is lost, or there is none.  It stays
\* open when a behavior takes it.
LEMMA SettlesStep ==
    ASSUME IInv, [Next]_vars, NEW r \in Requests, fate[r.src][r.id] \in OpenFates, NEW version,
           Settles(r, version), cur' = cur
    PROVE  Step
  <1>0. /\ mailbox \in [Clients -> Seq(Responses)] /\ fate \in [Clients -> [RequestIds -> Fates]]
        /\ \A c \in Clients : Len(mailbox[c]) <= MailboxSize
        /\ r.src \in Clients /\ r.id \in RequestIds
    BY Types DEF IInv, Requests
  <1>1. PICK why \in Fates \ {"unsent", "queued", "refused"} :
            Became(fate, fate', r, why) /\ Delivered(mailbox, mailbox', r, why)
    BY <1>0, SettlesType
  <1>2. \A c \in Clients, i \in RequestIds :
            /\ fate'[c][i] = "queued" => fate[c][i] = "queued" /\ ~Asks(r, c, i)
            /\ fate'[c][i] = "unsent" => fate[c][i] = "unsent"
            /\ ~Asks(r, c, i) => fate'[c][i] = fate[c][i]
            /\ Asks(r, c, i) => fate'[c][i] = why
    <2>1. fate \in [Clients -> [RequestIds -> Fates]] /\ Became(fate, fate', r, why)
      BY <1>0, <1>1
    <2>. QED
      BY <2>1, BecameSettled
  <1>3. StatusIn(r.src, r.id, fate', mailbox') \in
             IF why = "taken" THEN {"open"} ELSE Promise!Answers \cup {"closed"}
    <2>1. fate'[r.src][r.id] = why /\ why \notin {"unsent", "queued", "refused"}
      BY <1>0, <1>2 DEF Asks
    <2>. QED
      BY <2>1 DEF StatusIn, OpenFates, Promise!Answers
  <1>4. ASSUME NEW d \in Clients, NEW j \in RequestIds, d # r.src \/ j # r.id
        PROVE  StatusIn(d, j, fate', mailbox') = StatusIn(d, j, fate, mailbox)
    <2>1. fate'[d][j] = fate[d][j]
      BY <1>2, <1>4 DEF Asks
    <2>2. \A m : m.id = j => (m \in InSeq(mailbox'[d]) <=> m \in InSeq(mailbox[d]))
      BY <1>0, <1>1, <1>4, DeliveredElements
    <2>. QED
      BY <2>1, <2>2, StatusKept
  <1>5. /\ StatusIn(r.src, r.id, fate, mailbox) = "open"
        /\ stat[r.src][r.id] = "open"
    BY <1>0, StatusMeans DEF StatusIn, OpenFates
  <1>6. CASE why = "taken"
    <2>1. \A d \in Clients, j \in RequestIds :
             StatusIn(d, j, fate', mailbox') = StatusIn(d, j, fate, mailbox)
      BY <1>3, <1>4, <1>5, <1>6
    <2>2. \A d \in Clients, j \in RequestIds : Status(d, j)' = Status(d, j)
      BY <2>1, StatusMeans, StatusMeansNext
    <2>3. stat' = stat
      BY <2>2 DEF stat
    <2>. QED
      BY <2>3 DEF Step, stat, cur, Promise!vars
  <1>7. CASE why # "taken"
    <2>1. Promise!Becomes(r.src, r.id, Promise!Answers \cup {"closed"})
      BY <1>0, <1>3, <1>4, <1>7, StatBecomes
    <2>2. Promise!Answer(r.src, r.id)
      BY <1>5, <2>1 DEF Promise!Answer, stat, cur
    <2>. QED
      BY <1>0, <2>2 DEF Step, Promise!Next
  <1>. QED
    BY <1>6, <1>7

\* The channel closes on what was queued late.
LEMMA CloseStep ==
    ASSUME IInv, Close
    PROVE  Step
  <1>0. IInv /\ [Next]_vars
    BY DEF Next, DispatcherStep
  <1>. DEFINE lost == {p \in Clients \X RequestIds : fate[p[1]][p[2]] = "queued"}
  <1>1. /\ UNCHANGED <<mailbox, client, call>>
        /\ \A c \in Clients, i \in RequestIds :
              fate'[c][i] = IF fate[c][i] = "queued" THEN "discarded" ELSE fate[c][i]
    BY <1>0, Closing DEF clientVars
  <1>2. ASSUME NEW c \in Clients, NEW i \in RequestIds
        PROVE  Status(c, i)' = IF <<c, i>> \in lost THEN "closed" ELSE Status(c, i)
    <2>1. /\ Status(c, i)' = StatusIn(c, i, fate', mailbox')
          /\ Status(c, i) = StatusIn(c, i, fate, mailbox)
      BY <1>0, StatusMeans, StatusMeansNext
    <2>2. <<c, i>> \in lost <=> fate[c][i] = "queued"
      OBVIOUS
    <2>3. CASE fate[c][i] = "queued"
      <3>1. fate'[c][i] = "discarded"
        BY <1>1, <2>3
      <3>2. \A m \in InSeq(mailbox'[c]) : m.id # i
        BY <1>0, <1>1, <2>3 DEF IInv, InPlace, Placed
      <3>. QED
        BY <2>1, <2>2, <2>3, <3>1, <3>2 DEF StatusIn, OpenFates
    <2>4. CASE fate[c][i] # "queued"
      <3>1. fate'[c][i] = fate[c][i] /\ mailbox' = mailbox
        BY <1>1, <2>4
      <3>. QED
        BY <2>1, <2>2, <2>4, <3>1 DEF StatusIn
    <2>. QED
      BY <2>3, <2>4
  <1>3. lost \in SUBSET Promise!Losable
    <2>1. ASSUME NEW p \in lost PROVE p \in Promise!Losable
      <3>1. p \in Clients \X RequestIds /\ fate[p[1]][p[2]] = "queued"
        OBVIOUS
      <3>2. stat[p[1]][p[2]] = "open"
        BY <1>0, <3>1, StatusMeans DEF StatusIn, OpenFates
      <3>. QED
        BY <3>1, <3>2 DEF Promise!Losable, stat
    <2>. QED
      BY <2>1
  <1>4. cur' = cur
    BY <1>1, AwaitedKept
  <1>5. Promise!End(lost, {})
    <2>1. stat' = [c \in Clients |-> [i \in RequestIds |->
                      IF <<c, i>> \in lost THEN "closed" ELSE stat[c][i]]]
      <3>. HIDE DEF lost
      <3>. QED
        BY <1>2 DEF stat
    <2>2. cur' = [c \in Clients |-> IF c \in {} THEN 0 ELSE cur[c]]
      BY <1>4 DEF cur
    <2>. HIDE DEF lost
    <2>. QED
      BY <2>1, <2>2 DEF Promise!End, stat, cur
  <1>. HIDE DEF lost
  <1>6. Promise!Next
    <2>1. {} \in SUBSET {}
      OBVIOUS
    <2>. QED
      BY <1>3, <1>5, <2>1 DEF Promise!Next
  <1>. QED
    BY <1>6 DEF Step

\* A client asks: the request is queued or refused, and open.
LEMMA RequestStep ==
    ASSUME IInv, NEW c \in Clients, NEW op \in Ops, NEW dst \in Targets(op), Request(c, op, dst)
    PROVE  Step
  <1>0. /\ IInv /\ TypeInv /\ [Next]_vars
        /\ mailbox \in [Clients -> Seq(Responses)] /\ fate \in [Clients -> [RequestIds -> Fates]]
        /\ \A d \in Clients : Len(mailbox[d]) <= MailboxSize
        /\ call \in [Clients -> [id : {0} \cup RequestIds, op : AllOps,
                                 dst : ActorIds \cup {INVALID}]]
        /\ client \in [Clients -> {"idle", "panicked"} \cup Busy]
        /\ \A i \in RequestIds : i \in Nat
    BY Types DEF IInv, Next
  <1>1. PICK r \in Requests :
            Makes(c, r) /\ (Queued(r) \/ Refused(r))
    BY <1>0, Requesting
  <1>2. /\ r.src = c /\ r.id \in RequestIds /\ r.id = call[c].id + 1 /\ client[c] = "idle"
        /\ call' = [call EXCEPT ![c] = [id |-> r.id, op |-> r.op, dst |-> r.dst]]
        /\ \E busy \in Busy : client' = [client EXCEPT ![c] = busy]
    BY <1>1 DEF Makes, Requests
  <1>3. fate[c][r.id] = "unsent" /\ \A m \in InSeq(mailbox[c]) : m.id # r.id
    BY <1>0, <1>1, MadeUnsent
  <1>4. cur[c] = 0 /\ cur' = [cur EXCEPT ![c] = r.id]
    <2>1. /\ client'[c] \in Busy /\ call'[c].id = r.id
          /\ \A d \in Clients \ {c} : client'[d] = client[d] /\ call'[d] = call[d]
      BY <1>0, <1>2
    <2>2. cur' = [d \in Clients |-> IF d = c THEN r.id ELSE cur[d]]
      BY <2>1 DEF cur, Awaited
    <2>3. cur[c] = 0
      BY <1>2 DEF cur, Awaited
    <2>. QED
      BY <2>2, <2>3 DEF cur
  <1>5. ASSUME NEW j \in RequestIds, j >= r.id PROVE stat[c][j] = "unsent"
    <2>1. j > call[c].id
      BY <1>0, <1>1, <1>2, <1>5 DEF Makes
    <2>2. fate[c][j] = "unsent"
      BY <1>0, <2>1 DEF IInv, InPlace, Placed
    <2>. QED
      BY <1>0, <2>2, StatusMeans DEF StatusIn
  <1>6. PICK why \in OpenFates :
            /\ mailbox' = mailbox
            /\ \A d \in Clients, i \in RequestIds :
                  fate'[d][i] = IF Asks(r, d, i) THEN why ELSE fate[d][i]
    <2>0. fate \in [Clients -> [RequestIds -> Fates]]
      BY <1>0
    <2>1. CASE Queued(r)
      <3>1. mailbox' = mailbox /\ Became(fate, fate', r, "queued") /\ "queued" \in OpenFates
        BY <2>1 DEF Queued, OpenFates
      <3>. QED
        BY <2>0, <3>1, BecameMade
    <2>2. CASE Refused(r)
      <3>1. mailbox' = mailbox /\ Became(fate, fate', r, "refused") /\ "refused" \in OpenFates
        BY <2>2 DEF Refused, OpenFates
      <3>. QED
        BY <2>0, <3>1, BecameMade
    <2>. QED
      BY <1>1, <2>1, <2>2
  <1>9. StatusIn(c, r.id, fate', mailbox') = "open"
    BY <1>2, <1>6 DEF StatusIn, Asks, OpenFates
  <1>10. ASSUME NEW d \in Clients, NEW j \in RequestIds, d # c \/ j # r.id
         PROVE  StatusIn(d, j, fate', mailbox') = StatusIn(d, j, fate, mailbox)
    <2>1. fate'[d][j] = fate[d][j]
      BY <1>2, <1>6, <1>10 DEF Asks
    <2>. QED
      BY <1>6, <2>1, StatusKept
  <1>7. Promise!Becomes(c, r.id, {"open", "error", "closed"})
    BY <1>0, <1>2, <1>9, <1>10, StatBecomes
  <1>8. Promise!Ask(c, r.id)
    BY <1>4, <1>5, <1>7 DEF Promise!Ask, stat, cur
  <1>. QED
    BY <1>2, <1>8 DEF Step, Promise!Next

\* A client takes a response: an ok one to the request it waits for or an error of any,
\* or it passes over an ok one to another.
LEMMA ReceiveStep ==
    ASSUME IInv, NEW c \in Clients, ReceiveResponse(c)
    PROVE  Step
  <1>0. IInv /\ [Next]_vars
    BY DEF Next
  <1>1. PICK m : m = Head(mailbox[c])
    OBVIOUS
  <1>2. /\ client[c] = "waiting" /\ m \in InSeq(mailbox[c]) /\ m \in Responses
        /\ mailbox[c] # <<>> /\ mailbox'[c] = Tail(mailbox[c])
        /\ \A x \in InSeq(mailbox'[c]) : x.id # m.id
        /\ \A d \in Clients \ {c} : mailbox'[d] = mailbox[d]
        /\ fate' = fate
    BY <1>0, <1>1, Receiving
  <1>3. InSeq(mailbox[c]) = InSeq(mailbox'[c]) \cup {m}
    <2>1. mailbox[c] \in Seq(Responses)
      BY Types DEF IInv
    <2>. QED
      BY <1>1, <1>2, <2>1, TailElements
  <1>4. /\ m.id \in RequestIds /\ m.ok \in BOOLEAN /\ fate[c][m.id] = "answered"
        /\ \A x \in InSeq(mailbox[c]) : x.id = m.id => x = m
    BY <1>0, <1>2, <1>3 DEF Responses, IInv, InPlace, Placed
  <1>5. stat[c][m.id] = IF m.ok THEN "ok" ELSE "error"
    BY <1>0, <1>2, <1>4, StatusMeans DEF StatusIn, OpenFates
  <1>6. StatusIn(c, m.id, fate', mailbox') = "closed"
    BY <1>2, <1>4 DEF StatusIn, OpenFates
  <1>7. ASSUME NEW d \in Clients, NEW j \in RequestIds, d # c \/ j # m.id
        PROVE  StatusIn(d, j, fate', mailbox') = StatusIn(d, j, fate, mailbox)
    <2>1. \A x : x.id = j => (x \in InSeq(mailbox'[d]) <=> x \in InSeq(mailbox[d]))
      BY <1>2, <1>3, <1>7
    <2>. QED
      BY <1>2, <2>1, StatusKept
  <1>8. Promise!Becomes(c, m.id, {"closed"})
    BY <1>0, <1>4, <1>6, <1>7, StatBecomes
  <1>9. cur[c] = call[c].id
    BY <1>2 DEF cur, Awaited
  <1>10. CASE /\ m.ok /\ m.id = call[c].id
              /\ ReturnFrom(c, m.id, TRUE)
    <2>1. cur[c] # 0 /\ cur' = [cur EXCEPT ![c] = 0]
      BY <1>2, <1>10, AwaitedEnds
    <2>2. Promise!TakeOk(c)
      BY <1>5, <1>8, <1>9, <1>10, <2>1 DEF Promise!TakeOk, Promise!Stops, stat, cur
    <2>. QED
      BY <2>2 DEF Step, Promise!Next
  <1>11. CASE m.ok /\ m.id # call[c].id /\ UNCHANGED <<client, call>>
    <2>1. cur' = cur
      BY <1>11, AwaitedKept
    <2>2. Promise!PassOver(c, m.id)
      BY <1>5, <1>8, <1>9, <1>11, <2>1 DEF Promise!PassOver, Promise!Answers, stat, cur
    <2>. QED
      BY <1>4, <2>2 DEF Step, Promise!Next
  <1>12. CASE ~m.ok /\ ReturnFrom(c, m.id, FALSE)
    <2>1. cur[c] # 0 /\ cur' = [cur EXCEPT ![c] = 0]
      BY <1>2, <1>12, AwaitedEnds
    <2>2. Promise!TakeError(c, m.id)
      BY <1>5, <1>8, <1>12, <2>1 DEF Promise!TakeError, Promise!Stops, stat, cur
    <2>. QED
      BY <1>4, <2>2 DEF Step, Promise!Next
  <1>13. \/ m.ok /\ m.id = call[c].id /\ ReturnFrom(c, m.id, TRUE)
         \/ m.ok /\ m.id # call[c].id /\ UNCHANGED <<client, call>>
         \/ ~m.ok /\ ReturnFrom(c, m.id, FALSE)
    BY <1>1 DEF ReceiveResponse, IsOwn
  <1>. QED
    BY <1>10, <1>11, <1>12, <1>13

\* A client gives up, with no answer there.
LEMMA TimeoutStep ==
    ASSUME IInv, NEW c \in Clients, Timeout(c)
    PROVE  Step
  <1>0. IInv /\ [Next]_vars
    BY DEF Next
  <1>1. /\ client[c] = "waiting" /\ mailbox[c] = <<>> /\ ReturnFrom(c, call[c].id, FALSE)
        /\ UNCHANGED <<mailbox, fate>>
    BY DEF Timeout
  <1>2. /\ cur[c] = call[c].id /\ cur[c] # 0 /\ cur' = [cur EXCEPT ![c] = 0]
        /\ call[c].id \in RequestIds
    BY <1>1, AwaitedEnds DEF IInv, Refusals
  <1>3. stat[c][cur[c]] \notin Promise!Answers
    <2>1. InSeq(mailbox[c]) = {}
      BY <1>1 DEF InSeq
    <2>. QED
      BY <1>0, <1>2, <2>1, StatusMeans DEF StatusIn, Promise!Answers
  <1>4. stat' = stat
    BY <1>0, <1>1, StatFixed
  <1>5. Promise!GiveUp(c)
    BY <1>2, <1>3, <1>4 DEF Promise!GiveUp, Promise!Stops, stat, cur
  <1>. QED
    BY <1>5 DEF Step, Promise!Next

LEMMA PromiseNext == IInv /\ [Next]_vars => Step
  <1>. SUFFICES ASSUME IInv, [Next]_vars PROVE Step
    OBVIOUS
  <1>0. IInv /\ TypeInv
    BY DEF IInv
  <1>1. CASE TakesHead
    <2>1. PICK r : r = Head(queue)
      OBVIOUS
    <2>2. /\ queue # <<>> /\ Settles(r, VersionIn(reactive_list', r.dst))
          /\ UNCHANGED <<client, call>>
      BY <1>1, <2>1 DEF TakesHead, clientVars
    <2>3. r \in Requests /\ fate[r.src][r.id] = "queued"
      BY <1>0, <2>1, <2>2, QueueHead, HeadQueued
    <2>. QED
      BY <1>0, <2>2, <2>3, SettlesStep, AwaitedKept DEF OpenFates
  <1>2. CASE FinishStop
    <2>1. PICK r \in Requests :
              Settles(r, 0) /\ UNCHANGED <<client, call>> /\ fate[r.src][r.id] = "queued"
      BY <1>0, <1>2, Stopping DEF clientVars
    <2>. QED
      BY <1>0, <2>1, SettlesStep, AwaitedKept DEF OpenFates
  <1>3. CASE (queue # <<>> /\ ServeStop(Head(queue))) \/ QueueDropped \/ UNCHANGED vars
    <2>1. UNCHANGED <<fate, mailbox, client, call>>
      BY <1>3 DEF ServeStop, QueueDropped, vars, clientVars
    <2>. QED
      BY <1>0, <2>1, Stutters
  <1>4. ASSUME NEW r \in Requests, NEW version \in Nat, AnswersLate(r, version)
        PROVE  Step
    <2>1. /\ Settles(r, version) /\ fate[r.src][r.id] \in OpenFates /\ UNCHANGED call
          /\ \/ UNCHANGED client
             \/ client[r.src] \in Busy /\ client' = [client EXCEPT ![r.src] = "waiting"]
      BY <1>4 DEF AnswersLate, OpenFates
    <2>2. \A c \in Clients : client'[c] \in Busy <=> client[c] \in Busy
      BY <1>0, <2>1, Types
    <2>. QED
      BY <1>0, <2>1, <2>2, SettlesStep, AwaitedKept
  <1>. QED
    BY <1>0, <1>1, <1>2, <1>3, <1>4, CloseStep, RequestStep, ReceiveStep, TimeoutStep, Steps

\* Requests to a dispatcher and its reactives keep the promise of RequestReply, for any
\* clients, operations, capacities and bounds, whoever times out, panics or stops it.
THEOREM RequestsKeepPromise == Spec => KeepsPromise
  <1>1. Init => Promise!Init
    BY PromiseInit
  <1>2. IInv /\ [Next]_vars => [Promise!Next]_(Promise!vars)
    BY PromiseNext DEF Step
  <1>. QED
    BY <1>1, <1>2, Inv, PTL DEF Spec, KeepsPromise, Promise!Spec
===============================================================================
