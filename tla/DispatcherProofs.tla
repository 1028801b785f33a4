--------------------------- MODULE DispatcherProofs ---------------------------
(***************************************************************************)
(* Proofs about Dispatcher for any clients, operations, capacities and     *)
(* bounds: type correctness, that a request is in one place, what a client *)
(* was told, the order of a stop, and the room of a patient client.        *)
(*                                                                         *)
(* One inductive invariant carries them all: its parts need each other.    *)
(***************************************************************************)
EXTENDS Dispatcher, FiniteSetTheorems, TLAPS

USE ClientsAssumption, PatientAssumption, OpsAssumption, SizesAssumption, BoundsAssumption
    DEF Busy

\* TypeOK does not say that there are no other mailboxes.
TypeInv == TypeOK /\ mailbox \in [Clients -> Seq(Responses)]

\* The request or response m is about the request i of c.
Asks(r, c, i) == r.src = c /\ r.id = i

\* No two requests of a queue, no two responses of a mailbox are about the same request.
QueueOnce(s)   == \A n, k \in 1 .. Len(s) : s[n].src = s[k].src /\ s[n].id = s[k].id => n = k
MailboxOnce(s) == \A n, k \in 1 .. Len(s) : s[n].id = s[k].id => n = k

\* Where the requests of c are, by what became of them: in the queue q or with the
\* StopDispatcher st, and once, until they are settled.
Placed(q, st, box, becomes, made) ==
    /\ QueueOnce(q)
    /\ \A r1, r2 \in st : r1 = r2
    /\ \A r1 \in InSeq(q), r2 \in st : ~Asks(r1, r2.src, r2.id)
    /\ \A c \in Clients, i \in RequestIds :
        /\ becomes[c][i] = "queued" <=> \E r \in InSeq(q) \cup st : Asks(r, c, i)
        /\ becomes[c][i] = "unsent" <=> i > made[c].id
    /\ \A c \in Clients :
        /\ MailboxOnce(box[c])
        /\ \A m \in InSeq(box[c]) : becomes[c][m.id] = "answered"

InPlace == Placed(queue, stop, mailbox, fate, call)

\* The StopDispatcher request is there while its execution lasts.
StopWithPc == stop # {} <=> pc \in {"drain", "clear"}

\* What was queued behind StopDispatcher is still queued or settled.
Owed ==
    /\ pc = "serve" => owed = {}
    /\ \A r \in owed : fate[r.src][r.id] # "unsent"
    /\ pc = "drain" => \A r \in owed : fate[r.src][r.id] = "queued" => r \in InSeq(queue)
    /\ pc \notin {"serve", "drain"} => \A r \in owed : fate[r.src][r.id] # "queued"

\* The bound of the versions: a reactive is replaced by a request, once settled.
Settled(becomes) ==
    {p \in Clients \X RequestIds : becomes[p[1]][p[2]] \notin {"unsent", "queued"}}

VersionsCounted ==
    \A a \in DOMAIN reactive_list : reactive_list[a] <= Cardinality(Settled(fate)) + 1

\* The bound of the ids.
Registrations(q) == {n \in 1 .. Len(q) : q[n].op = "RegisterReactive"}
IdsCounted == next_actor_id + Cardinality(Registrations(queue)) <= MaxActors + 1

\* Version, for a given list of reactives.
VersionIn(list, a) == IF a \in DOMAIN list THEN list[a] ELSE Gone

\* What a client was or will be told about the reactive it asked, which is one that was
\* registered, is true by now.
Told ==
    /\ \A a \in DOMAIN reactive_list : a < next_actor_id
    /\ \A a \in ActorIds : acked[a] <= VersionIn(reactive_list, a)
    /\ \A a \in ActorIds : a >= next_actor_id => acked[a] = 0
    /\ \A c \in Clients : client[c] \in Busy => call[c].dst < next_actor_id
    /\ \A c \in Clients : \A m \in InSeq(mailbox[c]) :
        /\ m.version <= Gone
        /\ client[c] \in Busy /\ m.id = call[c].id =>
               m.version <= VersionIn(reactive_list, call[c].dst)
    /\ \A r \in InSeq(queue) :
        client[r.src] \in Busy /\ r.id = call[r.src].id => r.dst = call[r.src].dst

\* Requests with these fates are unanswered, and may be answered.
OpenFates == {"queued", "refused", "taken"}

\* A patient client has no request or response but for the one it waits for.
Calm(c) ==
    /\ \A i \in RequestIds :
        fate[c][i] \in OpenFates => client[c] \in Busy /\ i = call[c].id
    /\ \A m \in InSeq(mailbox[c]) : client[c] \in Busy /\ m.id = call[c].id

Patience == \A c \in Patient : Calm(c)

\* What the behaviors have of requests: those that were taken and not answered, once, with
\* a version that is not above that of the reactive by now.
KeptOK ==
    /\ \A k \in kept :
        /\ fate[k.request.src][k.request.id] = "taken"
        /\ k.request.dst < next_actor_id
        /\ k.version <= VersionIn(reactive_list, k.request.dst)
        /\ client[k.request.src] \in Busy /\ k.request.id = call[k.request.src].id =>
               k.request.dst = call[k.request.src].dst
    /\ \A k1, k2 \in kept : Asks(k1.request, k2.request.src, k2.request.id) => k1 = k2
    /\ \A c \in Clients, i \in RequestIds :
        fate[c][i] = "taken" => \E k \in kept : Asks(k.request, c, i)

\* A client waits for a request that it made; the request that is refused is its last.
Refusals ==
    \A c \in Clients :
        /\ client[c] \in Busy => call[c].id \in RequestIds
        /\ client[c] = "refused" => fate[c][call[c].id] = "refused"
        /\ \A i \in RequestIds :
               fate[c][i] = "refused" => client[c] = "refused" /\ i = call[c].id

IInv ==
    /\ TypeInv
    /\ InPlace
    /\ StopWithPc
    /\ Owed
    /\ VersionsCounted
    /\ IdsCounted
    /\ Told
    /\ Patience
    /\ PatientMailboxHasRoom
    /\ KeptOK
    /\ Refusals

-------------------------------------------------------------------------------
(* Queues.                                                                 *)

\* Appending adds one element, at the end.
LEMMA AppendElements ==
    ASSUME NEW S, NEW s \in Seq(S), NEW x \in S
    PROVE  /\ Append(s, x) \in Seq(S)
           /\ Len(s) \in Nat /\ Len(Append(s, x)) = Len(s) + 1
           /\ \A n \in 1 .. Len(s) : Append(s, x)[n] = s[n] /\ s[n] \in InSeq(s)
           /\ Append(s, x)[Len(s) + 1] = x
           /\ InSeq(Append(s, x)) = InSeq(s) \cup {x}
  <1>1. Append(s, x) \in Seq(S) /\ Len(Append(s, x)) = Len(s) + 1 /\ Len(s) \in Nat
    OBVIOUS
  <1>2. \A n \in 1 .. Len(s) : Append(s, x)[n] = s[n]
    OBVIOUS
  <1>3. Append(s, x)[Len(s) + 1] = x
    OBVIOUS
  <1>. QED
    BY <1>1, <1>2, <1>3 DEF InSeq

\* Taking the head leaves the other elements, one place further to the front.
LEMMA TailElements ==
    ASSUME NEW S, NEW s \in Seq(S), s # <<>>
    PROVE  /\ Head(s) \in S /\ Head(s) \in InSeq(s) /\ Head(s) = s[1]
           /\ Tail(s) \in Seq(S)
           /\ Len(s) \in Nat \ {0} /\ Len(Tail(s)) = Len(s) - 1
           /\ \A n \in 1 .. Len(Tail(s)) : Tail(s)[n] = s[n + 1]
           /\ InSeq(s) = InSeq(Tail(s)) \cup {Head(s)}
  <1>1. Len(s) \in Nat \ {0} /\ Head(s) = s[1] /\ Head(s) \in S
    OBVIOUS
  <1>2. Tail(s) \in Seq(S) /\ Len(Tail(s)) = Len(s) - 1
    OBVIOUS
  <1>3. \A n \in 1 .. Len(Tail(s)) : Tail(s)[n] = s[n + 1]
    OBVIOUS
  <1>4. \A n \in 2 .. Len(s) : n - 1 \in 1 .. Len(Tail(s)) /\ s[n] = Tail(s)[n - 1]
    BY <1>1, <1>2, <1>3
  <1>5. InSeq(s) \subseteq InSeq(Tail(s)) \cup {Head(s)}
    <2>. SUFFICES ASSUME NEW n \in 1 .. Len(s), s[n] # Head(s)
                  PROVE  s[n] \in InSeq(Tail(s))
      BY DEF InSeq
    <2>1. n \in 2 .. Len(s)
      BY <1>1
    <2>. QED
      BY <2>1, <1>4 DEF InSeq
  <1>6. InSeq(Tail(s)) \cup {Head(s)} \subseteq InSeq(s)
    BY <1>1, <1>2, <1>3 DEF InSeq
  <1>. QED
    BY <1>1, <1>2, <1>3, <1>5, <1>6

\* The elements of a sequence over S are in S; an empty one has none.
LEMMA ElementsType ==
    ASSUME NEW S, NEW s \in Seq(S)
    PROVE  InSeq(s) \subseteq S /\ (s = <<>> => InSeq(s) = {})
  BY DEF InSeq

\* A queue without two requests alike has none like its head behind it.
LEMMA QueueTail ==
    ASSUME NEW s \in Seq(Requests), s # <<>>, QueueOnce(s)
    PROVE  /\ QueueOnce(Tail(s))
           /\ \A x \in InSeq(Tail(s)) : ~Asks(x, Head(s).src, Head(s).id)
  <1>1. /\ Head(s) = s[1]
        /\ Len(s) \in Nat \ {0} /\ Len(Tail(s)) = Len(s) - 1
        /\ \A n \in 1 .. Len(Tail(s)) : Tail(s)[n] = s[n + 1] /\ n + 1 \in 1 .. Len(s)
    BY TailElements
  <1>2. QueueOnce(Tail(s))
    <2>. SUFFICES ASSUME NEW n \in 1 .. Len(Tail(s)), NEW k \in 1 .. Len(Tail(s)),
                         Tail(s)[n].src = Tail(s)[k].src, Tail(s)[n].id = Tail(s)[k].id
                  PROVE  n = k
      BY DEF QueueOnce
    <2>1. n + 1 = k + 1
      BY <1>1 DEF QueueOnce
    <2>. QED
      BY <2>1
  <1>3. ASSUME NEW n \in 1 .. Len(Tail(s)) PROVE ~Asks(Tail(s)[n], Head(s).src, Head(s).id)
    <2>1. n + 1 # 1 /\ 1 \in 1 .. Len(s)
      BY <1>1
    <2>. QED
      BY <1>1, <2>1 DEF QueueOnce, Asks
  <1>. QED
    BY <1>2, <1>3 DEF InSeq

LEMMA QueueAppend ==
    ASSUME NEW s \in Seq(Requests), NEW r \in Requests, QueueOnce(s),
           \A x \in InSeq(s) : ~Asks(x, r.src, r.id)
    PROVE  QueueOnce(Append(s, r))
  <1>1. /\ Len(s) \in Nat /\ Len(Append(s, r)) = Len(s) + 1
        /\ \A n \in 1 .. Len(s) : Append(s, r)[n] = s[n] /\ ~Asks(s[n], r.src, r.id)
        /\ Append(s, r)[Len(s) + 1] = r
    BY AppendElements
  <1>. SUFFICES ASSUME NEW n \in 1 .. Len(s) + 1, NEW k \in 1 .. Len(s) + 1,
                       Append(s, r)[n].src = Append(s, r)[k].src,
                       Append(s, r)[n].id = Append(s, r)[k].id
                PROVE  n = k
    BY <1>1 DEF QueueOnce
  <1>2. CASE n \in 1 .. Len(s) /\ k \in 1 .. Len(s)
    BY <1>1, <1>2 DEF QueueOnce
  <1>3. CASE n = Len(s) + 1 /\ k \in 1 .. Len(s)
    BY <1>1, <1>3 DEF Asks
  <1>4. CASE k = Len(s) + 1 /\ n \in 1 .. Len(s)
    BY <1>1, <1>4 DEF Asks
  <1>. QED
    BY <1>1, <1>2, <1>3, <1>4

LEMMA MailboxTail ==
    ASSUME NEW s \in Seq(Responses), s # <<>>, MailboxOnce(s)
    PROVE  MailboxOnce(Tail(s)) /\ \A x \in InSeq(Tail(s)) : x.id # Head(s).id
  <1>1. /\ Head(s) = s[1]
        /\ Len(s) \in Nat \ {0} /\ Len(Tail(s)) = Len(s) - 1
        /\ \A n \in 1 .. Len(Tail(s)) : Tail(s)[n] = s[n + 1] /\ n + 1 \in 1 .. Len(s)
    BY TailElements
  <1>2. MailboxOnce(Tail(s))
    <2>. SUFFICES ASSUME NEW n \in 1 .. Len(Tail(s)), NEW k \in 1 .. Len(Tail(s)),
                         Tail(s)[n].id = Tail(s)[k].id
                  PROVE  n = k
      BY DEF MailboxOnce
    <2>1. n + 1 = k + 1
      BY <1>1 DEF MailboxOnce
    <2>. QED
      BY <2>1
  <1>3. ASSUME NEW n \in 1 .. Len(Tail(s)) PROVE Tail(s)[n].id # Head(s).id
    <2>1. n + 1 # 1 /\ 1 \in 1 .. Len(s)
      BY <1>1
    <2>. QED
      BY <1>1, <2>1 DEF MailboxOnce
  <1>. QED
    BY <1>2, <1>3 DEF InSeq

LEMMA MailboxAppend ==
    ASSUME NEW s \in Seq(Responses), NEW r \in Responses, MailboxOnce(s),
           \A x \in InSeq(s) : x.id # r.id
    PROVE  MailboxOnce(Append(s, r))
  <1>1. /\ Len(s) \in Nat /\ Len(Append(s, r)) = Len(s) + 1
        /\ \A n \in 1 .. Len(s) : Append(s, r)[n] = s[n] /\ s[n].id # r.id
        /\ Append(s, r)[Len(s) + 1] = r
    BY AppendElements
  <1>. SUFFICES ASSUME NEW n \in 1 .. Len(s) + 1, NEW k \in 1 .. Len(s) + 1,
                       Append(s, r)[n].id = Append(s, r)[k].id
                PROVE  n = k
    BY <1>1 DEF MailboxOnce
  <1>2. CASE n \in 1 .. Len(s) /\ k \in 1 .. Len(s)
    BY <1>1, <1>2 DEF MailboxOnce
  <1>3. CASE n = Len(s) + 1 /\ k \in 1 .. Len(s)
    BY <1>1, <1>3
  <1>4. CASE k = Len(s) + 1 /\ n \in 1 .. Len(s)
    BY <1>1, <1>4
  <1>. QED
    BY <1>1, <1>2, <1>3, <1>4

-------------------------------------------------------------------------------
(* Counting.                                                               *)

\* There are finitely many requests: Gone is a number.
LEMMA RequestsFinite ==
    /\ IsFiniteSet(Clients \X RequestIds)
    /\ Gone \in Nat /\ Gone >= 2
    /\ Cardinality(Clients \X RequestIds) = Gone - 2
    /\ RequestIds \subseteq Nat \ {0}
  <1>. DEFINE ids == [c \in Clients |-> 1 .. MaxRequests[c]]
              families == {ids[c] : c \in Clients}
  <1>1. RequestIds = UNION families /\ RequestIds \subseteq Nat \ {0}
    BY DEF RequestIds
  <1>2. IsFiniteSet(families)
    <2>1. ids \in Surjection(Clients, families)
      BY DEF Surjection
    <2>. QED
      BY <2>1, FS_Surjection
  <1>3. \A T \in families : IsFiniteSet(T)
    BY FS_Interval
  <1>. HIDE DEF families
  <1>4. IsFiniteSet(RequestIds)
    BY <1>1, <1>2, <1>3, FS_UNION
  <1>5. /\ IsFiniteSet(Clients \X RequestIds)
        /\ Cardinality(Clients \X RequestIds) = Cardinality(Clients) * Cardinality(RequestIds)
    BY <1>4, FS_Product
  <1>6. Cardinality(Clients) \in Nat /\ Cardinality(RequestIds) \in Nat
    BY <1>4, FS_CardinalityType
  <1>. DEFINE m == Cardinality(Clients)
              n == Cardinality(RequestIds)
  <1>7. m * n = n * m /\ n * m \in Nat
    <2>. HIDE DEF m, n
    <2>. QED
      BY <1>6 DEF m, n
  <1>8. Gone = n * m + 2
    BY DEF Gone
  <1>. QED
    BY <1>1, <1>5, <1>7, <1>8

LEMMA SettledFinite ==
    ASSUME NEW becomes
    PROVE  /\ IsFiniteSet(Settled(becomes))
           /\ Cardinality(Settled(becomes)) \in Nat
           /\ Cardinality(Settled(becomes)) <= Gone - 2
  <1>1. Settled(becomes) \in SUBSET (Clients \X RequestIds)
    BY DEF Settled
  <1>2. /\ IsFiniteSet(Settled(becomes))
        /\ Cardinality(Settled(becomes)) <= Cardinality(Clients \X RequestIds)
    BY <1>1, RequestsFinite, FS_Subset
  <1>. QED
    BY <1>2, RequestsFinite, FS_CardinalityType

\* Settling a queued request adds one, and other changes take none away.
LEMMA SettledOneMore ==
    ASSUME NEW becomes \in [Clients -> [RequestIds -> Fates]],
           NEW c \in Clients, NEW i \in RequestIds, NEW why, becomes[c][i] = "queued",
           why \notin {"unsent", "queued"}
    PROVE  Cardinality(Settled([becomes EXCEPT ![c][i] = why])) = Cardinality(Settled(becomes)) + 1
  <1>. DEFINE later == [becomes EXCEPT ![c][i] = why]
  <1>1. \A d \in Clients, j \in RequestIds :
           later[d][j] = IF d = c /\ j = i THEN why ELSE becomes[d][j]
    OBVIOUS
  <1>2. Settled(later) = Settled(becomes) \cup {<<c, i>>}
    BY <1>1 DEF Settled
  <1>3. <<c, i>> \notin Settled(becomes)
    BY DEF Settled
  <1>. QED
    BY <1>2, <1>3, SettledFinite, FS_AddElement

LEMMA SettledNoFewer ==
    ASSUME NEW becomes, NEW later,
           \A c \in Clients, i \in RequestIds :
               becomes[c][i] \notin {"unsent", "queued"} => later[c][i] \notin {"unsent", "queued"}
    PROVE  Cardinality(Settled(becomes)) <= Cardinality(Settled(later))
  <1>1. Settled(becomes) \in SUBSET Settled(later)
    BY DEF Settled
  <1>. QED
    BY <1>1, SettledFinite, FS_Subset

\* RegisterReactive requests in a queue.
LEMMA RegistrationsFinite ==
    ASSUME NEW s \in Seq(Requests)
    PROVE  /\ IsFiniteSet(Registrations(s))
           /\ Cardinality(Registrations(s)) \in Nat
           /\ s = <<>> => Cardinality(Registrations(s)) = 0
  <1>1. Len(s) \in Nat /\ IsFiniteSet(1 .. Len(s))
    BY FS_Interval
  <1>2. Registrations(s) \in SUBSET (1 .. Len(s))
    BY DEF Registrations
  <1>3. IsFiniteSet(Registrations(s))
    BY <1>1, <1>2, FS_Subset
  <1>4. s = <<>> => Registrations(s) = {}
    BY DEF Registrations
  <1>. QED
    BY <1>3, <1>4, FS_CardinalityType, FS_EmptySet

LEMMA RegistrationsTail ==
    ASSUME NEW s \in Seq(Requests), s # <<>>
    PROVE  Cardinality(Registrations(Tail(s))) + (IF Head(s).op = "RegisterReactive" THEN 1 ELSE 0)
               <= Cardinality(Registrations(s))
  <1>. DEFINE before == Registrations(s) \ {1}
              after == Registrations(Tail(s))
              shift == [n \in after |-> n + 1]
  <1>1. /\ Head(s) = s[1] /\ Tail(s) \in Seq(Requests)
        /\ Len(s) \in Nat \ {0} /\ Len(Tail(s)) = Len(s) - 1
        /\ \A n \in 1 .. Len(Tail(s)) : Tail(s)[n] = s[n + 1]
    BY TailElements
  <1>2. shift \in Injection(after, before)
    <2>1. \A n \in after : n \in Nat \ {0} /\ n + 1 \in before
      BY <1>1 DEF Registrations
    <2>2. shift \in [after -> before]
      BY <2>1
    <2>3. \A n, k \in after : shift[n] = shift[k] => n = k
      BY <2>1
    <2>. QED
      BY <2>2, <2>3 DEF Injection, IsInjective
  <1>3. /\ IsFiniteSet(Registrations(s)) /\ Cardinality(Registrations(s)) \in Nat
        /\ Cardinality(after) \in Nat
    BY <1>1, RegistrationsFinite
  <1>4. /\ IsFiniteSet(before)
        /\ Cardinality(before) = IF 1 \in Registrations(s) THEN Cardinality(Registrations(s)) - 1
                                 ELSE Cardinality(Registrations(s))
    BY <1>3, FS_RemoveElement
  <1>5. Cardinality(after) <= Cardinality(before)
    <2>. HIDE DEF after, before, shift
    <2>. QED
      BY <1>2, <1>4, FS_Injection
  <1>6. 1 \in Registrations(s) <=> Head(s).op = "RegisterReactive"
    BY <1>1 DEF Registrations
  <1>. HIDE DEF after, before
  <1>. QED
    BY <1>3, <1>4, <1>5, <1>6 DEF after

LEMMA RegistrationsAppend ==
    ASSUME NEW s \in Seq(Requests), NEW r \in Requests
    PROVE  Cardinality(Registrations(Append(s, r)))
               <= Cardinality(Registrations(s)) + (IF r.op = "RegisterReactive" THEN 1 ELSE 0)
  <1>1. /\ Append(s, r) \in Seq(Requests)
        /\ Len(s) \in Nat /\ Len(Append(s, r)) = Len(s) + 1
        /\ \A n \in 1 .. Len(s) : Append(s, r)[n] = s[n]
        /\ Append(s, r)[Len(s) + 1] = r
    BY AppendElements
  <1>2. /\ IsFiniteSet(Registrations(s)) /\ Cardinality(Registrations(s)) \in Nat
        /\ Cardinality(Registrations(Append(s, r))) \in Nat
    BY <1>1, RegistrationsFinite
  <1>3. CASE r.op = "RegisterReactive"
    <2>1. Registrations(Append(s, r)) = Registrations(s) \cup {Len(s) + 1}
      BY <1>1, <1>3 DEF Registrations
    <2>2. Len(s) + 1 \notin Registrations(s)
      BY <1>1 DEF Registrations
    <2>. HIDE DEF Registrations
    <2>3. Cardinality(Registrations(s) \cup {Len(s) + 1}) = Cardinality(Registrations(s)) + 1
      BY <1>2, <2>2, FS_AddElement
    <2>. QED
      BY <1>2, <1>3, <2>1, <2>3
  <1>4. CASE r.op # "RegisterReactive"
    <2>1. Registrations(Append(s, r)) = Registrations(s)
      BY <1>1, <1>4 DEF Registrations
    <2>. QED
      BY <1>2, <1>4, <2>1
  <1>. QED
    BY <1>3, <1>4

-------------------------------------------------------------------------------
(* Where requests and responses are.                                       *)

\* The fate of the request r changes, and no other.
Became(becomes, later, r, why) == later = [becomes EXCEPT ![r.src][r.id] = why]

\* The request r is settled: as answered if its response is in the mailbox.
Delivered(box, box2, r, why) ==
    \/ box2 = box
    \/ /\ why = "answered"
       /\ \E m \in Responses : m.id = r.id /\ box2 = [box EXCEPT ![r.src] = Append(@, m)]

\* What Placed says of the mailboxes.
Boxed(box, becomes) ==
    \A c \in Clients :
        MailboxOnce(box[c]) /\ \A m \in InSeq(box[c]) : becomes[c][m.id] = "answered"

\* The mailboxes when a request that was not answered is settled.
LEMMA DeliveredPlaced ==
    ASSUME NEW box \in [Clients -> Seq(Responses)], NEW box2,
           NEW becomes \in [Clients -> [RequestIds -> Fates]],
           Boxed(box, becomes),
           NEW r \in Requests, becomes[r.src][r.id] # "answered", NEW why,
           NEW later, Became(becomes, later, r, why),
           Delivered(box, box2, r, why)
    PROVE  Boxed(box2, later)
  <1>. DEFINE d == r.src
  <1>1. d \in Clients /\ r.id \in RequestIds
    BY DEF Requests
  <1>2. \A c \in Clients, i \in RequestIds :
           later[c][i] = IF c = d /\ i = r.id THEN why ELSE becomes[c][i]
    BY <1>1 DEF Became
  <1>4. \A m \in InSeq(box[d]) : m.id # r.id
    BY <1>1 DEF Boxed
  <1>6. ASSUME NEW c \in Clients, box2[c] = box[c]
        PROVE  MailboxOnce(box2[c]) /\ \A m \in InSeq(box2[c]) : later[c][m.id] = "answered"
    <2>0. box[c] \in Seq(Responses) /\ InSeq(box[c]) \subseteq Responses
      BY ElementsType
    <2>1. /\ MailboxOnce(box[c])
          /\ \A m \in InSeq(box[c]) : becomes[c][m.id] = "answered" /\ m.id \in RequestIds
      BY <2>0 DEF Boxed, Responses
    <2>2. \A m \in InSeq(box[c]) : ~(c = d /\ m.id = r.id)
      BY <1>4
    <2>3. \A m \in InSeq(box[c]) : later[c][m.id] = "answered"
      BY <1>2, <2>1, <2>2
    <2>. QED
      BY <1>6, <2>1, <2>3
  <1>7. ASSUME why = "answered", NEW m \in Responses, m.id = r.id,
               box2 = [box EXCEPT ![d] = Append(@, m)]
        PROVE  MailboxOnce(box2[d]) /\ \A x \in InSeq(box2[d]) : later[d][x.id] = "answered"
    <2>1. box2[d] = Append(box[d], m) /\ box[d] \in Seq(Responses)
      BY <1>1, <1>7
    <2>2. InSeq(box2[d]) = InSeq(box[d]) \cup {m} /\ InSeq(box[d]) \subseteq Responses
      BY <2>1, AppendElements, ElementsType
    <2>3. MailboxOnce(box2[d])
      BY <1>1, <1>4, <1>7, <2>1, MailboxAppend DEF Boxed
    <2>4. \A x \in InSeq(box[d]) : x.id \in RequestIds /\ becomes[d][x.id] = "answered"
      BY <1>1, <2>2 DEF Boxed, Responses
    <2>. QED
      BY <1>1, <1>2, <1>4, <1>7, <2>2, <2>3, <2>4
  <1>. SUFFICES ASSUME NEW c \in Clients
                PROVE  MailboxOnce(box2[c]) /\ \A m \in InSeq(box2[c]) : later[c][m.id] = "answered"
    BY DEF Boxed
  <1>8. CASE box2 = box
    BY <1>6, <1>8
  <1>9. ASSUME why = "answered", NEW m \in Responses, m.id = r.id,
               box2 = [box EXCEPT ![d] = Append(@, m)]
        PROVE  MailboxOnce(box2[c]) /\ \A x \in InSeq(box2[c]) : later[c][x.id] = "answered"
    <2>1. CASE c = d
      BY <1>7, <1>9, <2>1
    <2>2. CASE c # d
      BY <1>6, <1>9, <2>2
    <2>. QED
      BY <2>1, <2>2
  <1>. QED
    BY <1>8, <1>9 DEF Delivered

\* A request leaves queue and execution: what became of it is known, and if it was
\* answered, the response is in the mailbox.
LEMMA SettledPlaced ==
    ASSUME NEW q \in Seq(Requests), NEW q2 \in Seq(Requests),
           NEW st, NEW st2 \in SUBSET st,
           NEW box \in [Clients -> Seq(Responses)], NEW box2,
           NEW becomes \in [Clients -> [RequestIds -> Fates]], NEW made,
           Placed(q, st, box, becomes, made),
           NEW r \in Requests, QueueOnce(q2), InSeq(q2) \subseteq InSeq(q),
           InSeq(q) \cup st = InSeq(q2) \cup st2 \cup {r},
           \A x \in InSeq(q2) \cup st2 : ~Asks(x, r.src, r.id),
           NEW why \in Fates \ {"unsent", "queued"},
           NEW later, Became(becomes, later, r, why),
           Delivered(box, box2, r, why)
    PROVE  Placed(q2, st2, box2, later, made)
  <1>. DEFINE d == r.src
  <1>1. d \in Clients /\ r.id \in RequestIds
    BY DEF Requests
  <1>2. \A c \in Clients, i \in RequestIds :
           later[c][i] = IF c = d /\ i = r.id THEN why ELSE becomes[c][i]
    BY <1>1 DEF Became
  <1>3. becomes[d][r.id] = "queued"
    BY <1>1 DEF Placed, Asks
  <1>5. \A c \in Clients, i \in RequestIds :
           /\ later[c][i] = "queued" <=> \E x \in InSeq(q2) \cup st2 : Asks(x, c, i)
           /\ later[c][i] = "unsent" <=> i > made[c].id
    <2>. TAKE c \in Clients, i \in RequestIds
    <2>1. /\ becomes[c][i] = "queued" <=> \E x \in InSeq(q) \cup st : Asks(x, c, i)
          /\ becomes[c][i] = "unsent" <=> i > made[c].id
      BY DEF Placed
    <2>2. CASE c = d /\ i = r.id
      BY <1>2, <1>3, <2>1, <2>2
    <2>3. CASE ~(c = d /\ i = r.id)
      <3>1. ~Asks(r, c, i)
        BY <2>3 DEF Asks
      <3>. QED
        BY <1>2, <2>1, <2>3, <3>1
    <2>. QED
      BY <2>2, <2>3
  <1>8. ASSUME NEW c \in Clients
        PROVE  MailboxOnce(box2[c]) /\ \A m \in InSeq(box2[c]) : later[c][m.id] = "answered"
    <2>1. Boxed(box, becomes)
      BY DEF Placed, Boxed
    <2>2. becomes[r.src][r.id] # "answered"
      BY <1>3
    <2>3. Boxed(box2, later)
      BY <2>1, <2>2, DeliveredPlaced
    <2>. QED
      BY <2>3 DEF Boxed
  <1>9. (\A r1, r2 \in st2 : r1 = r2) /\ (\A r1 \in InSeq(q2), r2 \in st2 : ~Asks(r1, r2.src, r2.id))
    BY DEF Placed
  <1>. QED
    BY <1>5, <1>8, <1>9 DEF Placed

\* A request that has left them is answered, or not, later.
LEMMA LatePlaced ==
    ASSUME NEW q, NEW st, NEW box \in [Clients -> Seq(Responses)], NEW box2,
           NEW becomes \in [Clients -> [RequestIds -> Fates]], NEW made,
           Placed(q, st, box, becomes, made),
           NEW r \in Requests, becomes[r.src][r.id] \in {"taken", "refused"},
           NEW why \in Fates \ {"unsent", "queued"},
           NEW later, Became(becomes, later, r, why),
           Delivered(box, box2, r, why)
    PROVE  Placed(q, st, box2, later, made)
  <1>1. r.src \in Clients /\ r.id \in RequestIds
    BY DEF Requests
  <1>2. \A c \in Clients, i \in RequestIds :
           later[c][i] = IF c = r.src /\ i = r.id THEN why ELSE becomes[c][i]
    BY <1>1 DEF Became
  <1>3. \A c \in Clients, i \in RequestIds :
           /\ later[c][i] = "queued" <=> becomes[c][i] = "queued"
           /\ later[c][i] = "unsent" <=> becomes[c][i] = "unsent"
    BY <1>2
  <1>4. \A c \in Clients :
           MailboxOnce(box2[c]) /\ \A m \in InSeq(box2[c]) : later[c][m.id] = "answered"
    <2>1. Boxed(box, becomes)
      BY DEF Placed, Boxed
    <2>2. becomes[r.src][r.id] # "answered"
      OBVIOUS
    <2>3. Boxed(box2, later)
      BY <2>1, <2>2, DeliveredPlaced
    <2>. QED
      BY <2>3 DEF Boxed
  <1>. QED
    BY <1>3, <1>4 DEF Placed

\* A request that was not made yet is queued.
LEMMA SentPlaced ==
    ASSUME NEW q \in Seq(Requests), NEW st \in SUBSET Requests,
           NEW box \in [Clients -> Seq(Responses)],
           NEW becomes \in [Clients -> [RequestIds -> Fates]], NEW made, NEW made2,
           Placed(q, st, box, becomes, made),
           NEW r \in Requests, made[r.src].id \in Nat, r.id = made[r.src].id + 1,
           made2[r.src].id = r.id,
           \A c \in Clients \ {r.src} : made2[c].id = made[c].id,
           NEW later, Became(becomes, later, r, "queued")
    PROVE  Placed(Append(q, r), st, box, later, made2)
  <1>. DEFINE d == r.src
  <1>1. d \in Clients /\ r.id \in RequestIds /\ RequestIds \subseteq Nat
    BY RequestsFinite DEF Requests
  <1>2. \A c \in Clients, i \in RequestIds :
           later[c][i] = IF c = d /\ i = r.id THEN "queued" ELSE becomes[c][i]
    BY <1>1 DEF Became
  <1>3. becomes[d][r.id] = "unsent"
    BY <1>1 DEF Placed
  <1>4. \A x \in InSeq(q) \cup st : ~Asks(x, d, r.id)
    BY <1>1, <1>3 DEF Placed
  <1>5. QueueOnce(Append(q, r)) /\ InSeq(Append(q, r)) = InSeq(q) \cup {r}
    BY <1>4, QueueAppend, AppendElements DEF Placed
  <1>6. \A c \in Clients, i \in RequestIds :
           /\ later[c][i] = "queued" <=> \E x \in InSeq(q) \cup {r} \cup st : Asks(x, c, i)
           /\ later[c][i] = "unsent" <=> i > made2[c].id
    <2>. TAKE c \in Clients, i \in RequestIds
    <2>1. /\ becomes[c][i] = "queued" <=> \E x \in InSeq(q) \cup st : Asks(x, c, i)
          /\ becomes[c][i] = "unsent" <=> i > made[c].id
      BY DEF Placed
    <2>2. CASE c = d /\ i = r.id
      BY <1>1, <1>2, <2>1, <2>2 DEF Asks
    <2>3. CASE c = d /\ i # r.id
      <3>0. /\ i \in Nat /\ made[c].id \in Nat /\ i # made[c].id + 1
            /\ made2[c].id = made[c].id + 1
        BY <1>1, <2>3
      <3>1. ~Asks(r, c, i)
        BY <2>3 DEF Asks
      <3>2. i > made2[c].id <=> i > made[c].id
        BY <3>0
      <3>. QED
        BY <1>2, <2>1, <2>3, <3>1, <3>2
    <2>4. CASE c # d
      <3>1. ~Asks(r, c, i) /\ made2[c].id = made[c].id
        BY <2>4 DEF Asks
      <3>. QED
        BY <1>2, <2>1, <2>4, <3>1
    <2>. QED
      BY <2>2, <2>3, <2>4
  <1>7. ASSUME NEW c \in Clients
        PROVE  MailboxOnce(box[c]) /\ \A m \in InSeq(box[c]) : later[c][m.id] = "answered"
    <2>0. box[c] \in Seq(Responses) /\ InSeq(box[c]) \subseteq Responses
      BY ElementsType
    <2>1. /\ MailboxOnce(box[c])
          /\ \A m \in InSeq(box[c]) : becomes[c][m.id] = "answered" /\ m.id \in RequestIds
      BY <2>0 DEF Placed, Responses
    <2>. QED
      BY <1>2, <1>3, <2>1
  <1>8. (\A r1, r2 \in st : r1 = r2) /\ (\A r1 \in InSeq(q) \cup {r}, r2 \in st : ~Asks(r1, r2.src, r2.id))
    BY <1>4 DEF Placed, Asks
  <1>. QED
    BY <1>5, <1>6, <1>7, <1>8 DEF Placed

\* One that was not made yet is answered at once, by the client itself.
LEMMA RefusedPlaced ==
    ASSUME NEW q \in Seq(Requests), NEW st \in SUBSET Requests,
           NEW box \in [Clients -> Seq(Responses)], NEW box2,
           NEW becomes \in [Clients -> [RequestIds -> Fates]], NEW made, NEW made2,
           Placed(q, st, box, becomes, made),
           NEW r \in Requests, made[r.src].id \in Nat, r.id = made[r.src].id + 1,
           made2[r.src].id = r.id,
           \A c \in Clients \ {r.src} : made2[c].id = made[c].id,
           NEW why \in Fates \ {"unsent", "queued"},
           NEW later, Became(becomes, later, r, why),
           Delivered(box, box2, r, why)
    PROVE  Placed(q, st, box2, later, made2)
  <1>. DEFINE between == [becomes EXCEPT ![r.src][r.id] = "queued"]
  <1>1. Placed(Append(q, r), st, box, between, made2)
    <2>1. Became(becomes, between, r, "queued")
      BY DEF Became
    <2>. HIDE DEF between
    <2>. QED
      BY <2>1, SentPlaced
  <1>2. /\ between \in [Clients -> [RequestIds -> Fates]]
        /\ Became(between, later, r, why)
    BY DEF Fates, Requests, Became
  <1>3. r.src \in Clients /\ r.id \in RequestIds /\ becomes[r.src][r.id] = "unsent"
    BY RequestsFinite DEF Requests, Placed
  <1>4. \A x \in InSeq(q) \cup st : ~Asks(x, r.src, r.id)
    BY <1>3 DEF Placed
  <1>5. InSeq(Append(q, r)) = InSeq(q) \cup {r} /\ Append(q, r) \in Seq(Requests) /\ QueueOnce(q)
    BY AppendElements DEF Placed
  <1>. HIDE DEF between
  <1>6. InSeq(Append(q, r)) \cup st = InSeq(q) \cup st \cup {r}
    BY <1>5
  <1>. DEFINE longer == Append(q, r)
  <1>7. /\ longer \in Seq(Requests) /\ InSeq(q) \subseteq InSeq(longer) /\ st \in SUBSET st
        /\ Placed(longer, st, box, between, made2)
        /\ InSeq(longer) \cup st = InSeq(q) \cup st \cup {r}
    BY <1>1, <1>5, <1>6
  <1>. HIDE DEF longer
  <1>. QED
    BY <1>2, <1>4, <1>5, <1>7, SettledPlaced

\* A response is taken out of a mailbox.
LEMMA ReceivedPlaced ==
    ASSUME NEW q, NEW st, NEW box \in [Clients -> Seq(Responses)],
           NEW becomes, NEW made, NEW made2,
           Placed(q, st, box, becomes, made),
           NEW c \in Clients, box[c] # <<>>,
           \A d \in Clients : made2[d].id = made[d].id
    PROVE  Placed(q, st, [box EXCEPT ![c] = Tail(@)], becomes, made2)
  <1>. DEFINE box2 == [box EXCEPT ![c] = Tail(@)]
  <1>1. box[c] \in Seq(Responses) /\ box2[c] = Tail(box[c])
    OBVIOUS
  <1>2. MailboxOnce(box2[c]) /\ InSeq(box2[c]) \subseteq InSeq(box[c])
    BY <1>1, MailboxTail, TailElements DEF Placed
  <1>3. \A d \in Clients : MailboxOnce(box2[d]) /\ InSeq(box2[d]) \subseteq InSeq(box[d])
    BY <1>2 DEF Placed
  <1>. HIDE DEF box2
  <1>. QED
    BY <1>3 DEF Placed, box2

-------------------------------------------------------------------------------
(* What a step does: taking a request out of the queue and settling it is  *)
(* what most of them have in common.                                       *)

\* The request r is answered, with a version that is not above the given one, or not: it
\* finds no room, or gets no answer.
Settles(r, version) ==
    \E why \in Fates \ {"unsent", "queued", "refused"} :
        /\ Became(fate, fate', r, why)
        /\ why = "mailbox full" => ~HasRoom(r.src)
        /\ \/ UNCHANGED mailbox
           \/ /\ why = "answered"
              /\ HasRoom(r.src)
              /\ \E m \in Responses : /\ m.id = r.id /\ m.version <= version
                                      /\ mailbox' = [mailbox EXCEPT ![r.src] = Append(@, m)]

LEMMA AnswerSettles ==
    ASSUME NEW r \in Requests, NEW m \in Responses, m.id = r.id,
           NEW version, m.version <= version, Answer(r, m)
    PROVE  Settles(r, version)
  <1>1. CASE HasRoom(r.src)
    <2>1. "answered" \in Fates \ {"unsent", "queued", "refused"} /\ "answered" # "mailbox full"
      BY DEF Fates
    <2>2. /\ fate' = [fate EXCEPT ![r.src][r.id] = "answered"]
          /\ mailbox' = [mailbox EXCEPT ![r.src] = Append(@, m)]
      BY <1>1 DEF Answer
    <2>. QED
      BY <1>1, <2>1, <2>2 DEF Settles, Became
  <1>2. CASE ~HasRoom(r.src)
    <2>1. "mailbox full" \in Fates \ {"unsent", "queued", "refused"}
      BY DEF Fates
    <2>2. fate' = [fate EXCEPT ![r.src][r.id] = "mailbox full"] /\ UNCHANGED mailbox
      BY <1>2 DEF Answer
    <2>. QED
      BY <1>2, <2>1, <2>2 DEF Settles, Became
  <1>. QED
    BY <1>1, <1>2

\* An answer is not among what a behavior keeps.
LEMMA AnswerFate ==
    ASSUME fate \in [Clients -> [RequestIds -> Fates]], NEW r \in Requests, NEW m, Answer(r, m)
    PROVE  fate'[r.src][r.id] \in {"answered", "mailbox full"}
  <1>1. r.src \in Clients /\ r.id \in RequestIds
    BY DEF Requests
  <1>2. CASE HasRoom(r.src)
    <2>1. fate' = [fate EXCEPT ![r.src][r.id] = "answered"]
      BY <1>2 DEF Answer
    <2>. QED
      BY <1>1, <2>1
  <1>3. CASE ~HasRoom(r.src)
    <2>1. fate' = [fate EXCEPT ![r.src][r.id] = "mailbox full"]
      BY <1>3 DEF Answer
    <2>. QED
      BY <1>1, <2>1
  <1>. QED
    BY <1>2, <1>3

LEMMA NoAnswerSettles ==
    ASSUME NEW r, NEW why \in {"panic", "ignored", "taken"}, NEW version, NoAnswer(r, why)
    PROVE  Settles(r, version)
  <1>1. why \in Fates \ {"unsent", "queued", "refused"} /\ why # "mailbox full"
    BY DEF Fates
  <1>. QED
    BY <1>1 DEF Settles, NoAnswer, Became

\* What settling a request does to the mailboxes and fates.
LEMMA SettlesType ==
    ASSUME mailbox \in [Clients -> Seq(Responses)], fate \in [Clients -> [RequestIds -> Fates]],
           \A c \in Clients : Len(mailbox[c]) <= MailboxSize,
           NEW r \in Requests, NEW version, Settles(r, version)
    PROVE  /\ mailbox' \in [Clients -> Seq(Responses)]
           /\ fate' \in [Clients -> [RequestIds -> Fates]]
           /\ \A c \in Clients : Len(mailbox'[c]) <= MailboxSize
           /\ \A c \in Clients : \A m \in InSeq(mailbox'[c]) :
                 m \in InSeq(mailbox[c]) \/ (c = r.src /\ m.id = r.id /\ m.version <= version)
           /\ \E why \in Fates \ {"unsent", "queued", "refused"} :
                 Became(fate, fate', r, why) /\ Delivered(mailbox, mailbox', r, why)
  <1>1. PICK why \in Fates \ {"unsent", "queued", "refused"} :
            /\ Became(fate, fate', r, why)
            /\ \/ UNCHANGED mailbox
               \/ /\ why = "answered"
                  /\ HasRoom(r.src)
                  /\ \E m \in Responses : /\ m.id = r.id /\ m.version <= version
                                          /\ mailbox' = [mailbox EXCEPT ![r.src] = Append(@, m)]
    BY DEF Settles
  <1>2. r.src \in Clients /\ r.id \in RequestIds
    BY DEF Requests
  <1>3. fate' \in [Clients -> [RequestIds -> Fates]]
    BY <1>1, <1>2 DEF Became
  <1>4. Delivered(mailbox, mailbox', r, why)
    BY <1>1 DEF Delivered
  <1>5. CASE UNCHANGED mailbox
    BY <1>1, <1>3, <1>4, <1>5
  <1>6. ASSUME HasRoom(r.src), NEW m \in Responses, m.id = r.id, m.version <= version,
               mailbox' = [mailbox EXCEPT ![r.src] = Append(@, m)]
        PROVE  /\ mailbox' \in [Clients -> Seq(Responses)]
               /\ \A c \in Clients : Len(mailbox'[c]) <= MailboxSize
               /\ \A c \in Clients : \A x \in InSeq(mailbox'[c]) :
                     x \in InSeq(mailbox[c]) \/ (c = r.src /\ x.id = r.id /\ x.version <= version)
    <2>. DEFINE s == mailbox[r.src]
    <2>1. s \in Seq(Responses) /\ Len(s) \in Nat /\ Len(s) < MailboxSize
      BY <1>2, <1>6 DEF HasRoom
    <2>2. /\ Append(s, m) \in Seq(Responses) /\ Len(Append(s, m)) = Len(s) + 1
          /\ InSeq(Append(s, m)) = InSeq(s) \cup {m}
      BY <2>1, AppendElements
    <2>3. /\ mailbox'[r.src] = Append(s, m)
          /\ \A c \in Clients \ {r.src} : mailbox'[c] = mailbox[c]
      BY <1>2, <1>6
    <2>4. Len(mailbox'[r.src]) <= MailboxSize
      BY <2>1, <2>2, <2>3
    <2>5. mailbox' \in [Clients -> Seq(Responses)]
      BY <1>2, <1>6, <2>2
    <2>6. \A x \in InSeq(mailbox'[r.src]) : x \in InSeq(s) \/ (x.id = r.id /\ x.version <= version)
      BY <1>6, <2>2, <2>3
    <2>. QED
      BY <2>3, <2>4, <2>5, <2>6
  <1>. QED
    BY <1>1, <1>3, <1>4, <1>5, <1>6

\* Versions only grow, by one, and a new reactive has a new id.
ListGrows ==
    /\ \A a \in DOMAIN reactive_list' :
        \/ /\ a \in DOMAIN reactive_list
           /\ reactive_list'[a] \in reactive_list[a] .. reactive_list[a] + 1
        \/ a = next_actor_id /\ reactive_list'[a] = 1 /\ next_actor_id' = next_actor_id + 1
    /\ \/ next_actor_id' = next_actor_id
       \/ Head(queue).op = "RegisterReactive" /\ next_actor_id' = next_actor_id + 1

\* The first request in the queue is taken and settled.
TakesHead ==
    /\ queue # <<>>
    /\ queue' = Tail(queue)
    /\ Settles(Head(queue), VersionIn(reactive_list', Head(queue).dst))
    /\ ListGrows
    /\ pc' = pc \/ (pc = "serve" /\ pc' = "drop")
    /\ \/ UNCHANGED kept /\ fate'[Head(queue).src][Head(queue).id] # "taken"
       \/ /\ Head(queue).dst \in DOMAIN reactive_list /\ UNCHANGED <<reactive_list, next_actor_id>>
          /\ Keep(Head(queue))
    /\ UNCHANGED <<stop, owed, clientVars>>

\* The reactives, with their versions.
ListOK ==
    /\ \A a \in DOMAIN reactive_list : reactive_list[a] \in 1 .. Gone - 1
    /\ next_actor_id \in Nat

LEMMA ServeTakes ==
    ASSUME ListOK, fate \in [Clients -> [RequestIds -> Fates]],
           NEW r \in Requests, r = Head(queue), queue # <<>>, Serve(r), ~ServeStop(r)
    PROVE  TakesHead
  <1>0. Gone \in Nat /\ Gone >= 2 /\ r.id \in RequestIds
    BY RequestsFinite DEF Requests
  <1>1. ASSUME NEW version \in Nat, version <= Gone PROVE OkResponse(r, version) \in Responses
    BY <1>0, <1>1 DEF OkResponse, Responses
  <1>2. ErrResponse(r) \in Responses
    BY <1>0 DEF ErrResponse, Responses
  <1>3. UNCHANGED <<reactive_list, next_actor_id>> => ListGrows
    BY <1>0 DEF ListOK, ListGrows
  <1>4. CASE ServeWork(r) \/ BehaviorPanics(r)
    <2>1. /\ UNCHANGED <<reactive_list, next_actor_id>> /\ r.dst \in DOMAIN reactive_list
          /\ Keep(r)
          /\ pc' = pc \/ (pc = "serve" /\ pc' = "drop")
          /\ UNCHANGED <<stop, owed, clientVars>> /\ queue' = Tail(queue)
      BY <1>4 DEF ServeWork, BehaviorPanics, Serving, dispVars
    <2>2. Settles(r, VersionIn(reactive_list', r.dst))
      BY <2>1, NoAnswerSettles DEF Keep
    <2>. QED
      BY <1>3, <2>1, <2>2 DEF TakesHead
  <1>5. CASE ServeUnknown(r)
    <2>1. /\ reactive_list' = reactive_list /\ r.dst \notin DOMAIN reactive_list
          /\ Answer(r, ErrResponse(r))
      BY <1>5 DEF ServeUnknown, dispVars
    <2>2. ErrResponse(r).id = r.id /\ ErrResponse(r).version <= VersionIn(reactive_list', r.dst)
      BY <1>0, <2>1 DEF VersionIn, ErrResponse
    <2>3. Settles(r, VersionIn(reactive_list', r.dst))
      BY <1>2, <2>1, <2>2, AnswerSettles
    <2>. QED
      BY <1>3, <1>5, <2>1, <2>3, AnswerFate DEF ServeUnknown, Serving, dispVars, TakesHead
  <1>6. CASE FunctionPanics(r)
    <2>1. Settles(r, VersionIn(reactive_list', r.dst))
      BY <1>6, NoAnswerSettles DEF FunctionPanics
    <2>2. fate'[r.src][r.id] = "panic"
      BY <1>6 DEF FunctionPanics, NoAnswer, Requests
    <2>. QED
      BY <1>3, <1>6, <2>1, <2>2 DEF FunctionPanics, Serving, TakesHead
  <1>7. CASE ServeStopReactive(r)
    <2>1. Settles(r, VersionIn(reactive_list', r.dst))
      BY <1>7, NoAnswerSettles DEF ServeStopReactive
    <2>2. fate'[r.src][r.id] = "ignored"
      BY <1>7 DEF ServeStopReactive, NoAnswer, Requests
    <2>. QED
      BY <1>3, <1>7, <2>1, <2>2 DEF ServeStopReactive, Serving, dispVars, TakesHead
  <1>8. CASE ServeRegister(r)
    <2>1. /\ reactive_list' = WithReactive(next_actor_id) /\ next_actor_id' = next_actor_id + 1
          /\ Answer(r, OkResponse(r, 0)) /\ r.op = "RegisterReactive"
      BY <1>8 DEF ServeRegister, GenerateActorId
    <2>2. /\ DOMAIN reactive_list' = DOMAIN reactive_list \cup {next_actor_id}
          /\ \A a \in DOMAIN reactive_list' :
                reactive_list'[a] = IF a = next_actor_id THEN 1 ELSE reactive_list[a]
      BY <2>1 DEF WithReactive
    <2>3. ListGrows
      BY <2>1, <2>2 DEF ListGrows, ListOK
    <2>4. OkResponse(r, 0).id = r.id /\ OkResponse(r, 0).version <= VersionIn(reactive_list', r.dst)
      BY <1>0, <2>2 DEF VersionIn, OkResponse, ListOK
    <2>5. Settles(r, VersionIn(reactive_list', r.dst))
      BY <1>0, <1>1, <2>1, <2>4, AnswerSettles
    <2>. QED
      BY <1>8, <2>1, <2>3, <2>5, AnswerFate DEF ServeRegister, Serving, TakesHead
  <1>9. CASE ServeReplace(r)
    <2>. DEFINE v == IF r.dst \in DOMAIN reactive_list THEN reactive_list'[r.dst] ELSE 0
    <2>1. /\ reactive_list' = WithReplaced(r.dst) /\ next_actor_id' = next_actor_id
          /\ Answer(r, OkResponse(r, v))
      BY <1>9 DEF ServeReplace
    <2>2. /\ DOMAIN reactive_list' = DOMAIN reactive_list
          /\ \A a \in DOMAIN reactive_list :
                reactive_list'[a] = IF a = r.dst THEN reactive_list[a] + 1 ELSE reactive_list[a]
      BY <2>1 DEF WithReplaced
    <2>3. ListGrows
      BY <2>1, <2>2 DEF ListGrows, ListOK
    <2>4. v \in Nat /\ v <= Gone /\ v <= VersionIn(reactive_list', r.dst)
      BY <1>0, <2>2 DEF VersionIn, ListOK
    <2>5. OkResponse(r, v).id = r.id /\ OkResponse(r, v).version = v /\ OkResponse(r, v) \in Responses
      BY <1>1, <2>4 DEF OkResponse
    <2>. HIDE DEF v
    <2>6. Settles(r, VersionIn(reactive_list', r.dst))
      BY <2>1, <2>4, <2>5, AnswerSettles
    <2>. QED
      BY <1>9, <2>1, <2>3, <2>6, AnswerFate DEF ServeReplace, Serving, TakesHead
  <1>10. CASE ServeUnregister(r)
    <2>1. /\ reactive_list' = WithoutReactive(r.dst) /\ next_actor_id' = next_actor_id
          /\ Answer(r, OkResponse(r, Gone))
      BY <1>10 DEF ServeUnregister
    <2>2. /\ DOMAIN reactive_list' = DOMAIN reactive_list \ {r.dst}
          /\ \A a \in DOMAIN reactive_list' : reactive_list'[a] = reactive_list[a]
      BY <2>1 DEF WithoutReactive
    <2>3. ListGrows
      BY <1>0, <2>1, <2>2 DEF ListGrows, ListOK
    <2>4. VersionIn(reactive_list', r.dst) = Gone
      BY <2>2 DEF VersionIn
    <2>5. OkResponse(r, Gone).id = r.id /\ OkResponse(r, Gone).version = Gone /\ OkResponse(r, Gone) \in Responses
      BY <1>0, <1>1 DEF OkResponse
    <2>6. Settles(r, VersionIn(reactive_list', r.dst))
      BY <1>0, <2>1, <2>4, <2>5, AnswerSettles
    <2>. QED
      BY <1>10, <2>1, <2>3, <2>6, AnswerFate DEF ServeUnregister, Serving, TakesHead
  <1>. QED
    BY <1>4, <1>5, <1>6, <1>7, <1>8, <1>9, <1>10 DEF Serve

\* An error response to a request that is not made to wait in the queue.
LEMMA ErrorSettles ==
    ASSUME NEW r \in Requests, Answer(r, ErrResponse(r)), NEW version, 0 <= version
    PROVE  Settles(r, version)
  <1>1. ErrResponse(r) \in Responses /\ ErrResponse(r).id = r.id /\ ErrResponse(r).version = 0
    BY DEF ErrResponse, Responses, Requests
  <1>. QED
    BY <1>1, AnswerSettles

LEMMA VersionBound ==
    ASSUME TypeInv, NEW a
    PROVE  /\ VersionIn(reactive_list, a) \in Nat /\ VersionIn(reactive_list, a) <= Gone
           /\ ListOK
  BY RequestsFinite DEF VersionIn, TypeInv, TypeOK, ListOK

\* The queue and its head.
LEMMA QueueHead ==
    ASSUME TypeInv, queue # <<>>
    PROVE  /\ Head(queue) \in Requests /\ Head(queue) \in InSeq(queue)
           /\ Tail(queue) \in Seq(Requests)
           /\ InSeq(queue) = InSeq(Tail(queue)) \cup {Head(queue)}
           /\ Len(Tail(queue)) <= QueueSize
  <1>1. queue \in Seq(Requests) /\ Len(queue) <= QueueSize
    BY DEF TypeInv, TypeOK
  <1>. QED
    BY <1>1, TailElements

\* An answer to a request that has left the queue: the behavior that took it responds, or
\* the client does it itself because the request was refused.
AnswersLate(r, version) ==
    /\ Settles(r, version)
    /\ fate'[r.src][r.id] \in {"answered", "mailbox full"}
    /\ version <= Gone
    /\ client[r.src] \in Busy /\ r.id = call[r.src].id =>
           version <= VersionIn(reactive_list, call[r.src].dst)
    /\ \/ /\ fate[r.src][r.id] = "taken"
          /\ \E k \in kept : k.request = r /\ kept' = kept \ {k}
          /\ UNCHANGED client
       \/ /\ fate[r.src][r.id] = "refused"
          /\ client[r.src] = "refused" /\ client' = [client EXCEPT ![r.src] = "waiting"]
          /\ UNCHANGED kept
    /\ UNCHANGED <<queue, dispVars, call, result, acked>>

LEMMA RespondIsLate ==
    ASSUME IInv, NEW k \in kept, Respond(k)
    PROVE  \E r \in Requests, version \in Nat : AnswersLate(r, version)
  <1>0. /\ Gone \in Nat /\ kept \subseteq [request : Requests, version : 1 .. Gone - 1]
        /\ fate \in [Clients -> [RequestIds -> Fates]]
    BY RequestsFinite DEF IInv, TypeInv, TypeOK
  <1>1. PICK r, v : r = k.request /\ v = k.version
    OBVIOUS
  <1>2. r \in Requests /\ v \in Nat /\ v <= Gone
    BY <1>0, <1>1
  <1>3. /\ fate[r.src][r.id] = "taken"
        /\ client[r.src] \in Busy /\ r.id = call[r.src].id =>
               v <= VersionIn(reactive_list, call[r.src].dst)
    BY <1>1 DEF IInv, KeptOK
  <1>4. /\ Answer(r, OkResponse(r, v)) /\ kept' = kept \ {k}
        /\ UNCHANGED <<queue, dispVars, clientVars>>
    BY <1>1 DEF Respond
  <1>5. PICK m : m = OkResponse(r, v)
    OBVIOUS
  <1>6. m \in Responses /\ m.id = r.id /\ m.version <= v
    BY <1>2, <1>5 DEF OkResponse, Responses, Requests
  <1>7. Answer(r, m)
    BY <1>4, <1>5
  <1>8. Settles(r, v)
    BY <1>2, <1>6, <1>7, AnswerSettles
  <1>9. fate'[r.src][r.id] \in {"answered", "mailbox full"}
    BY <1>0, <1>2, <1>7, AnswerFate
  <1>. QED
    BY <1>1, <1>2, <1>3, <1>4, <1>8, <1>9 DEF AnswersLate, clientVars

LEMMA AnswerRefusedIsLate ==
    ASSUME IInv, NEW c \in Clients, AnswerRefused(c)
    PROVE  \E r \in Requests, version \in Nat : AnswersLate(r, version)
  <1>0. /\ Gone \in Nat /\ fate \in [Clients -> [RequestIds -> Fates]]
        /\ call \in [Clients -> [id : {0} \cup RequestIds, op : AllOps,
                                 dst : ActorIds \cup {INVALID}]]
    BY RequestsFinite DEF IInv, TypeInv, TypeOK
  <1>1. PICK r : r = Call(c)
    OBVIOUS
  <1>2. client[c] = "refused" /\ client[c] \in Busy
    BY DEF AnswerRefused
  <1>3. call[c].id \in RequestIds /\ fate[c][call[c].id] = "refused"
    BY <1>2 DEF IInv, Refusals
  <1>4. r \in Requests /\ r.src = c /\ r.id = call[c].id
    BY <1>0, <1>1, <1>3 DEF Call, Requests
  <1>5. /\ Answer(r, ErrResponse(r)) /\ client' = [client EXCEPT ![c] = "waiting"]
        /\ UNCHANGED <<queue, dispVars, kept, call, result, acked>>
    BY <1>1 DEF AnswerRefused
  <1>6. Settles(r, 0)
    BY <1>4, <1>5, ErrorSettles
  <1>7. fate'[r.src][r.id] \in {"answered", "mailbox full"}
    BY <1>0, <1>4, <1>5, AnswerFate
  <1>8. 0 <= VersionIn(reactive_list, call[c].dst)
    BY VersionBound DEF IInv
  <1>9. AnswersLate(r, 0)
    <2>1. /\ fate[r.src][r.id] = "refused" /\ client[r.src] = "refused"
          /\ client' = [client EXCEPT ![r.src] = "waiting"]
          /\ UNCHANGED <<queue, dispVars, kept, call, result, acked>>
      BY <1>2, <1>3, <1>4, <1>5
    <2>2. 0 <= VersionIn(reactive_list, call[r.src].dst) /\ 0 <= Gone
      BY <1>0, <1>4, <1>8
    <2>. QED
      BY <1>6, <1>7, <2>1, <2>2 DEF AnswersLate
  <1>. QED
    BY <1>4, <1>9

\* The steps of Dispatcher: those that take a request from the queue are alike, and those
\* that answer one later.
LEMMA Steps ==
    ASSUME IInv, [Next]_vars
    PROVE  \/ TakesHead
           \/ queue # <<>> /\ ServeStop(Head(queue))
           \/ QueueDropped
           \/ FinishStop
           \/ Close
           \/ \E r \in Requests, version \in Nat : AnswersLate(r, version)
           \/ \E c \in Clients :
                \/ \E op \in Ops : \E dst \in Targets(op) : Request(c, op, dst)
                \/ ReceiveResponse(c)
                \/ Timeout(c)
           \/ UNCHANGED vars
  <1>0. TypeInv /\ fate \in [Clients -> [RequestIds -> Fates]]
    BY DEF IInv, TypeInv, TypeOK
  <1>1. ASSUME DropQueued PROVE TakesHead
    <2>1. PICK r : r = Head(queue)
      OBVIOUS
    <2>2. /\ queue # <<>> /\ queue' = Tail(queue) /\ Answer(r, ErrResponse(r))
          /\ UNCHANGED dispVars /\ UNCHANGED clientVars /\ UNCHANGED kept
      BY <1>1, <2>1 DEF DropQueued
    <2>3. r \in Requests
      BY <1>0, <2>1, <2>2, QueueHead
    <2>4. 0 <= VersionIn(reactive_list', r.dst)
      BY <1>0, <2>2, VersionBound DEF dispVars
    <2>5. Settles(r, VersionIn(reactive_list', r.dst)) /\ fate'[r.src][r.id] # "taken"
      BY <1>0, <2>2, <2>3, <2>4, ErrorSettles, AnswerFate
    <2>6. ListGrows
      BY <1>0, <2>2, VersionBound, RequestsFinite DEF dispVars, ListGrows, ListOK
    <2>. QED
      BY <2>1, <2>2, <2>5, <2>6 DEF TakesHead, dispVars
  <1>2. ASSUME queue # <<>>, Serve(Head(queue)), ~ServeStop(Head(queue)) PROVE TakesHead
    <2>1. PICK r : r = Head(queue)
      OBVIOUS
    <2>. QED
      BY <1>0, <1>2, <2>1, QueueHead, VersionBound, ServeTakes
  <1>. QED
    BY <1>1, <1>2, RespondIsLate, AnswerRefusedIsLate DEF Next, DispatcherStep, Done

\* The new request r is queued.
Queued(r) ==
    /\ queue' = Append(queue, r) /\ Len(queue) < QueueSize
    /\ Became(fate, fate', r, "queued") /\ UNCHANGED mailbox
    /\ client' = [client EXCEPT ![r.src] = "waiting"]

\* ... or refused.
Refused(r) ==
    /\ UNCHANGED <<queue, mailbox>>
    /\ Became(fate, fate', r, "refused")
    /\ client' = [client EXCEPT ![r.src] = "refused"]

\* The client c makes the request r.
Makes(c, r) ==
    /\ r.src = c /\ r.id = call[c].id + 1 /\ call[c].id \in Nat
    /\ r.op \in Ops /\ r.dst \in Targets(r.op)
    /\ client[c] = "idle"
    /\ call' = [call EXCEPT ![c] = [id |-> r.id, op |-> r.op, dst |-> r.dst]]
    /\ \E busy \in Busy : client' = [client EXCEPT ![c] = busy]
    /\ result' = [result EXCEPT ![c] = NoResult]
    /\ UNCHANGED <<dispVars, kept, acked>>

\* A request is queued or refused.
LEMMA Requesting ==
    ASSUME TypeInv, NEW c \in Clients, NEW op \in Ops, NEW dst \in Targets(op), Request(c, op, dst)
    PROVE  \E r \in Requests :
             /\ Makes(c, r)
             /\ Queued(r) \/ Refused(r)
             /\ r.op = "RegisterReactive" =>
                   next_actor_id + Cardinality(Registrations(queue)) <= MaxActors
  <1>1. PICK r : r = [src |-> c, id |-> call[c].id + 1, op |-> op, dst |-> dst]
    OBVIOUS
  <1>2. /\ client[c] = "idle" /\ call[c].id < MaxRequests[c]
        /\ op = "RegisterReactive" =>
              next_actor_id + Cardinality(QueuedRegistrations) <= MaxActors
        /\ SendRequest(r)
        /\ call' = [call EXCEPT ![c] = [id |-> r.id, op |-> op, dst |-> dst]]
        /\ result' = [result EXCEPT ![c] = NoResult]
        /\ UNCHANGED <<dispVars, kept, mailbox, acked>>
    BY <1>1 DEF Request
  <1>3. r \in Requests /\ call[c].id \in Nat
    <2>1. call[c].id \in {0} \cup RequestIds /\ call[c].id \in Nat
      BY RequestsFinite DEF TypeInv, TypeOK
    <2>2. call[c].id + 1 \in RequestIds
      BY <1>2, <2>1 DEF RequestIds
    <2>3. dst \in ActorIds \cup {INVALID}
      BY DEF Targets
    <2>. QED
      BY <1>1, <2>1, <2>2, <2>3 DEF Requests
  <1>4. Queued(r) \/ Refused(r)
    <2>1. Len(queue) \in Nat
      BY DEF TypeInv, TypeOK
    <2>. QED
      BY <1>2, <2>1 DEF SendRequest, Became, Queued, Refused
  <1>5. \E busy \in Busy : client' = [client EXCEPT ![c] = busy]
    BY <1>1, <1>4 DEF Queued, Refused
  <1>6. Makes(c, r) /\ r.op = op
    BY <1>1, <1>2, <1>3, <1>5 DEF Makes
  <1>7. QueuedRegistrations = Registrations(queue)
    BY DEF QueuedRegistrations, Registrations
  <1>. QED
    BY <1>2, <1>3, <1>4, <1>6, <1>7

-------------------------------------------------------------------------------
(* A request stays in one place.                                           *)

LEMMA InPlaceNext ==
    ASSUME IInv, [Next]_vars
    PROVE  Placed(queue', stop', mailbox', fate', call')
  <1>1. /\ TypeInv /\ StopWithPc /\ Placed(queue, stop, mailbox, fate, call)
        /\ queue \in Seq(Requests) /\ stop \in SUBSET Requests
        /\ mailbox \in [Clients -> Seq(Responses)] /\ fate \in [Clients -> [RequestIds -> Fates]]
        /\ \A c \in Clients : Len(mailbox[c]) <= MailboxSize
    BY DEF IInv, TypeInv, TypeOK, InPlace
  <1>2. CASE TakesHead
    <2>1. PICK r : r = Head(queue)
      OBVIOUS
    <2>2. /\ queue # <<>> /\ queue' = Tail(queue) /\ UNCHANGED <<stop, call>>
          /\ Settles(r, VersionIn(reactive_list', r.dst))
      BY <1>2, <2>1 DEF TakesHead, clientVars
    <2>3. /\ r \in Requests /\ Tail(queue) \in Seq(Requests)
          /\ InSeq(queue) = InSeq(Tail(queue)) \cup {r}
      BY <1>1, <2>1, <2>2, QueueHead
    <2>4. QueueOnce(Tail(queue)) /\ \A x \in InSeq(Tail(queue)) : ~Asks(x, r.src, r.id)
      BY <1>1, <2>1, <2>2, QueueTail DEF Placed
    <2>5. \A x \in stop : ~Asks(x, r.src, r.id)
      BY <1>1, <2>3 DEF Placed, Asks
    <2>6. PICK why \in Fates \ {"unsent", "queued", "refused"} :
              Became(fate, fate', r, why) /\ Delivered(mailbox, mailbox', r, why)
      BY <1>1, <2>2, <2>3, SettlesType
    <2>7. stop \in SUBSET stop /\ InSeq(queue) \cup stop = InSeq(Tail(queue)) \cup stop \cup {r}
      BY <2>3
    <2>8. Placed(Tail(queue), stop, mailbox', fate', call)
      BY <1>1, <2>3, <2>4, <2>5, <2>6, <2>7, SettledPlaced
    <2>. QED
      BY <2>2, <2>8
  <1>3. CASE queue # <<>> /\ ServeStop(Head(queue))
    <2>1. PICK r : r = Head(queue)
      OBVIOUS
    <2>2. /\ queue # <<>> /\ queue' = Tail(queue) /\ stop' = {r} /\ pc = "serve"
          /\ UNCHANGED <<mailbox, fate, call>>
      BY <1>3, <2>1 DEF ServeStop, Serving, clientVars
    <2>3. stop = {}
      BY <1>1, <2>2 DEF StopWithPc
    <2>4. InSeq(queue) = InSeq(Tail(queue)) \cup {r}
      BY <1>1, <2>1, <2>2, QueueHead
    <2>5. QueueOnce(Tail(queue)) /\ \A x \in InSeq(Tail(queue)) : ~Asks(x, r.src, r.id)
      BY <1>1, <2>1, <2>2, QueueTail DEF Placed
    <2>6. InSeq(queue) \cup stop = InSeq(Tail(queue)) \cup {r}
      BY <2>3, <2>4
    <2>7. Placed(Tail(queue), {r}, mailbox, fate, call)
      BY <1>1, <2>5, <2>6 DEF Placed
    <2>. QED
      BY <2>2, <2>7
  <1>4. CASE FinishStop
    <2>1. PICK r \in stop : Answer(r, OkResponse(r, 0))
      BY <1>4 DEF FinishStop
    <2>2. stop' = {} /\ queue' = queue /\ call' = call
      BY <1>4 DEF FinishStop, clientVars
    <2>3. r \in Requests /\ stop = {r} /\ \A x \in InSeq(queue) : ~Asks(x, r.src, r.id)
      BY <1>1 DEF Placed
    <2>4. Settles(r, 0)
      <3>1. OkResponse(r, 0) \in Responses /\ OkResponse(r, 0).id = r.id /\ OkResponse(r, 0).version = 0
        BY <2>3 DEF OkResponse, Responses, Requests
      <3>. QED
        BY <2>1, <2>3, <3>1, AnswerSettles
    <2>5. PICK why \in Fates \ {"unsent", "queued", "refused"} :
              Became(fate, fate', r, why) /\ Delivered(mailbox, mailbox', r, why)
      BY <1>1, <2>3, <2>4, SettlesType
    <2>6. /\ {} \in SUBSET stop /\ InSeq(queue) \cup stop = InSeq(queue) \cup {} \cup {r}
          /\ QueueOnce(queue) /\ InSeq(queue) \subseteq InSeq(queue)
          /\ \A x \in InSeq(queue) \cup {} : ~Asks(x, r.src, r.id)
      BY <1>1, <2>3 DEF Placed
    <2>7. Placed(queue, {}, mailbox', fate', call)
      BY <1>1, <2>3, <2>5, <2>6, SettledPlaced
    <2>. QED
      BY <2>2, <2>7
  <1>5. CASE Close
    <2>1. /\ pc = "close" /\ queue' = <<>> /\ UNCHANGED <<stop, mailbox, call>>
          /\ fate' = [c \in Clients |-> [i \in RequestIds |->
                         IF \E n \in 1 .. Len(queue) : queue[n].src = c /\ queue[n].id = i
                         THEN "discarded" ELSE fate[c][i]]]
      BY <1>5 DEF Close, clientVars
    <2>2. stop = {}
      BY <1>1, <2>1 DEF StopWithPc
    <2>3. \A c \in Clients, i \in RequestIds :
             fate'[c][i] = IF fate[c][i] = "queued" THEN "discarded" ELSE fate[c][i]
      <3>1. \A c \in Clients, i \in RequestIds :
               fate[c][i] = "queued" <=>
                   \E n \in 1 .. Len(queue) : queue[n].src = c /\ queue[n].id = i
        <4>. TAKE c \in Clients, i \in RequestIds
        <4>1. fate[c][i] = "queued" <=> \E r \in InSeq(queue) : Asks(r, c, i)
          BY <1>1, <2>2 DEF Placed
        <4>. QED
          BY <4>1 DEF InSeq, Asks
      <3>. QED
        BY <2>1, <3>1
    <2>4. InSeq(<<>>) = {} /\ QueueOnce(<<>>)
      BY DEF InSeq, QueueOnce
    <2>5. \A c \in Clients, i \in RequestIds :
             /\ fate'[c][i] # "queued"
             /\ fate'[c][i] = "unsent" <=> fate[c][i] = "unsent"
             /\ fate[c][i] = "answered" => fate'[c][i] = "answered"
      BY <2>3
    <2>6. \A c \in Clients : \A m \in InSeq(mailbox[c]) : m.id \in RequestIds
      <3>. TAKE c \in Clients
      <3>1. InSeq(mailbox[c]) \subseteq Responses
        BY <1>1, ElementsType
      <3>. QED
        BY <3>1 DEF Responses
    <2>7. Placed(<<>>, {}, mailbox, fate', call)
      BY <1>1, <2>4, <2>5, <2>6 DEF Placed
    <2>. QED
      BY <2>1, <2>2, <2>7
  <1>6. ASSUME NEW c \in Clients, NEW op \in Ops, NEW dst \in Targets(op), Request(c, op, dst)
        PROVE  Placed(queue', stop', mailbox', fate', call')
    <2>1. PICK r \in Requests : Makes(c, r) /\ (Queued(r) \/ Refused(r))
      BY <1>1, <1>6, Requesting
    <2>2. /\ r.id = call[r.src].id + 1 /\ call[r.src].id \in Nat
          /\ call'[r.src].id = r.id
          /\ \A d \in Clients \ {r.src} : call'[d].id = call[d].id
          /\ stop' = stop
      BY <1>1, <2>1 DEF TypeInv, TypeOK, Makes, dispVars
    <2>3. CASE Queued(r)
      BY <1>1, <2>2, <2>3, SentPlaced DEF Queued
    <2>4. CASE Refused(r)
      <3>1. /\ "refused" \in Fates \ {"unsent", "queued"} /\ UNCHANGED queue
            /\ Became(fate, fate', r, "refused") /\ Delivered(mailbox, mailbox', r, "refused")
        BY <2>4 DEF Refused, Delivered, Fates
      <3>2. Placed(queue, stop, mailbox', fate', call')
        BY <1>1, <2>2, <3>1, RefusedPlaced
      <3>. QED
        BY <2>2, <3>1, <3>2
    <2>. QED
      BY <2>1, <2>3, <2>4
  <1>7. ASSUME NEW c \in Clients, call' = call \/ call' = [call EXCEPT ![c] = NoCall(@.id)]
        PROVE  \A d \in Clients : call'[d].id = call[d].id
    <2>1. CASE call' = [call EXCEPT ![c] = NoCall(@.id)]
      <3>1. call'[c] = NoCall(call[c].id) /\ \A d \in Clients \ {c} : call'[d] = call[d]
        BY <1>1, <2>1 DEF TypeInv, TypeOK
      <3>. QED
        BY <3>1 DEF NoCall
    <2>. QED
      BY <1>7, <2>1
  <1>8. ASSUME NEW c \in Clients, ReceiveResponse(c)
        PROVE  Placed(queue', stop', mailbox', fate', call')
    <2>1. /\ mailbox[c] # <<>> /\ mailbox' = [mailbox EXCEPT ![c] = Tail(@)]
          /\ UNCHANGED <<queue, stop, fate>>
          /\ call' = call \/ call' = [call EXCEPT ![c] = NoCall(@.id)]
      BY <1>8 DEF ReceiveResponse, ReturnFrom, dispVars
    <2>2. \A d \in Clients : call'[d].id = call[d].id
      BY <1>7, <2>1
    <2>. QED
      BY <1>1, <2>1, <2>2, ReceivedPlaced
  <1>9. ASSUME NEW c \in Clients, Timeout(c)
        PROVE  Placed(queue', stop', mailbox', fate', call')
    <2>1. /\ UNCHANGED <<queue, stop, mailbox, fate>>
          /\ call' = [call EXCEPT ![c] = NoCall(@.id)]
      BY <1>9 DEF Timeout, ReturnFrom, dispVars
    <2>2. \A d \in Clients : call'[d].id = call[d].id
      BY <1>7, <2>1
    <2>. QED
      BY <1>1, <2>1, <2>2 DEF Placed
  <1>10. CASE QueueDropped
    BY <1>1, <1>10 DEF QueueDropped, clientVars
  <1>11. CASE UNCHANGED vars
    BY <1>1, <1>11 DEF vars
  <1>12. ASSUME NEW r \in Requests, NEW version \in Nat, AnswersLate(r, version)
         PROVE  Placed(queue', stop', mailbox', fate', call')
    <2>1. /\ fate[r.src][r.id] \in {"taken", "refused"} /\ Settles(r, version)
          /\ UNCHANGED <<queue, stop, call>>
      BY <1>12 DEF AnswersLate, dispVars
    <2>2. PICK why \in Fates \ {"unsent", "queued", "refused"} :
              Became(fate, fate', r, why) /\ Delivered(mailbox, mailbox', r, why)
      BY <1>1, <2>1, SettlesType
    <2>. QED
      BY <1>1, <2>1, <2>2, LatePlaced
  <1>. QED
    BY <1>1, <1>2, <1>3, <1>4, <1>5, <1>6, <1>8, <1>9, <1>10, <1>11, <1>12, Steps

-------------------------------------------------------------------------------
(* What becomes of requests.                                               *)

\* The typing of the state that most of the steps need.
LEMMA Types ==
    ASSUME TypeInv
    PROVE  /\ queue \in Seq(Requests) /\ InSeq(queue) \subseteq Requests
           /\ stop \in SUBSET Requests /\ owed \in SUBSET Requests
           /\ mailbox \in [Clients -> Seq(Responses)]
           /\ \A c \in Clients : InSeq(mailbox[c]) \subseteq Responses
           /\ \A c \in Clients : Len(mailbox[c]) <= MailboxSize
           /\ fate \in [Clients -> [RequestIds -> Fates]]
           /\ call \in [Clients -> [id : {0} \cup RequestIds, op : AllOps,
                                    dst : ActorIds \cup {INVALID}]]
           /\ client \in [Clients -> {"idle", "panicked"} \cup Busy]
           /\ \A c \in Clients : call[c].id \in Nat
           /\ RequestIds \subseteq Nat
  <1>1. /\ queue \in Seq(Requests)
        /\ stop \in SUBSET Requests /\ owed \in SUBSET Requests
        /\ mailbox \in [Clients -> Seq(Responses)]
        /\ \A c \in Clients : Len(mailbox[c]) <= MailboxSize
        /\ fate \in [Clients -> [RequestIds -> Fates]]
        /\ call \in [Clients -> [id : {0} \cup RequestIds, op : AllOps,
                                 dst : ActorIds \cup {INVALID}]]
        /\ client \in [Clients -> {"idle", "panicked"} \cup Busy]
    BY DEF TypeInv, TypeOK
  <1>2. InSeq(queue) \subseteq Requests
    BY <1>1, ElementsType
  <1>3. ASSUME NEW c \in Clients PROVE InSeq(mailbox[c]) \subseteq Responses
    <2>1. mailbox[c] \in Seq(Responses)
      BY <1>1
    <2>. QED
      BY <2>1, ElementsType
  <1>4. \A i \in RequestIds : i \in Nat
    BY RequestsFinite
  <1>5. ASSUME NEW c \in Clients PROVE call[c].id \in Nat
    <2>1. call[c] \in [id : {0} \cup RequestIds, op : AllOps, dst : ActorIds \cup {INVALID}]
      BY <1>1
    <2>2. call[c].id = 0 \/ call[c].id \in RequestIds
      BY <2>1
    <2>. QED
      BY <1>4, <2>2
  <1>. QED
    BY <1>1, <1>2, <1>3, <1>4, <1>5

\* Settling a request takes it out of those that are queued, and nothing else.
LEMMA BecameSettled ==
    ASSUME NEW becomes \in [Clients -> [RequestIds -> Fates]], NEW later,
           NEW r \in Requests, NEW why \in Fates \ {"unsent", "queued"},
           Became(becomes, later, r, why)
    PROVE  \A c \in Clients, i \in RequestIds :
             /\ later[c][i] = "queued" => becomes[c][i] = "queued" /\ ~Asks(r, c, i)
             /\ later[c][i] = "unsent" => becomes[c][i] = "unsent"
             /\ ~Asks(r, c, i) => later[c][i] = becomes[c][i]
             /\ Asks(r, c, i) => later[c][i] = why
  <1>1. r.src \in Clients /\ r.id \in RequestIds
    BY DEF Requests
  <1>2. \A c \in Clients, i \in RequestIds :
           later[c][i] = IF c = r.src /\ i = r.id THEN why ELSE becomes[c][i]
    BY <1>1 DEF Became
  <1>. QED
    BY <1>2 DEF Asks

LEMMA BecameMade ==
    ASSUME NEW becomes \in [Clients -> [RequestIds -> Fates]], NEW later,
           NEW r \in Requests, NEW why \in {"queued", "refused"}, Became(becomes, later, r, why)
    PROVE  /\ \A c \in Clients, i \in RequestIds :
                later[c][i] = IF Asks(r, c, i) THEN why ELSE becomes[c][i]
           /\ later \in [Clients -> [RequestIds -> Fates]]
  <1>1. r.src \in Clients /\ r.id \in RequestIds /\ why \in Fates
    BY DEF Requests, Fates
  <1>. QED
    BY <1>1 DEF Became, Asks

\* The request taken from the queue was queued, one that is made was not sent before.
LEMMA HeadQueued ==
    ASSUME IInv, queue # <<>>
    PROVE  fate[Head(queue).src][Head(queue).id] = "queued"
  <1>1. Head(queue) \in Requests /\ Head(queue) \in InSeq(queue)
    BY QueueHead DEF IInv
  <1>. QED
    BY <1>1 DEF IInv, InPlace, Placed, Asks, Requests

LEMMA MadeUnsent ==
    ASSUME IInv, NEW c \in Clients, NEW r \in Requests, Makes(c, r)
    PROVE  /\ fate[c][r.id] = "unsent"
           /\ \A m \in InSeq(mailbox[c]) : m.id # r.id
           /\ \A q \in InSeq(queue) : ~Asks(q, c, r.id)
  <1>1. r.id \in RequestIds /\ r.id > call[c].id
    BY DEF Makes, Requests
  <1>. QED
    BY <1>1 DEF IInv, InPlace, Placed

\* The StopDispatcher request that is executed.
LEMMA Stopping ==
    ASSUME IInv, FinishStop
    PROVE  \E r \in Requests :
             /\ stop = {r} /\ stop' = {} /\ UNCHANGED <<queue, next_actor_id, kept, owed, clientVars>>
             /\ fate'[r.src][r.id] # "taken" /\ Settles(r, 0) /\ DOMAIN reactive_list' = {}
             /\ fate[r.src][r.id] = "queued"
  <1>1. PICK r \in stop : Answer(r, OkResponse(r, 0))
    BY DEF FinishStop
  <1>2. r \in Requests /\ stop = {r}
    BY <1>1, Types DEF IInv, InPlace, Placed
  <1>3. OkResponse(r, 0) \in Responses /\ OkResponse(r, 0).id = r.id /\ OkResponse(r, 0).version = 0
    BY <1>2 DEF OkResponse, Responses, Requests
  <1>4. Settles(r, 0)
    BY <1>1, <1>2, <1>3, AnswerSettles
  <1>5. fate[r.src][r.id] = "queued"
    BY <1>2 DEF IInv, InPlace, Placed, Asks, Requests
  <1>6. fate'[r.src][r.id] # "taken"
    BY <1>1, <1>2, Types, AnswerFate DEF IInv
  <1>. QED
    BY <1>2, <1>4, <1>5, <1>6 DEF FinishStop

\* When the channel closes nothing is left in it.
LEMMA Closing ==
    ASSUME IInv, Close
    PROVE  /\ pc = "close" /\ pc' = "ended" /\ queue' = <<>> /\ DOMAIN reactive_list' = {}
           /\ UNCHANGED <<next_actor_id, stop, kept, owed, mailbox, clientVars>>
           /\ fate' \in [Clients -> [RequestIds -> Fates]]
           /\ \A c \in Clients, i \in RequestIds :
                fate'[c][i] = IF fate[c][i] = "queued" THEN "discarded" ELSE fate[c][i]
  <1>1. /\ pc = "close" /\ pc' = "ended" /\ queue' = <<>> /\ DOMAIN reactive_list' = {}
        /\ UNCHANGED <<next_actor_id, stop, kept, owed, mailbox, clientVars>>
        /\ fate' = [c \in Clients |-> [i \in RequestIds |->
                       IF \E n \in 1 .. Len(queue) : queue[n].src = c /\ queue[n].id = i
                       THEN "discarded" ELSE fate[c][i]]]
    BY DEF Close
  <1>2. stop = {}
    BY <1>1 DEF IInv, StopWithPc
  <1>3. \A c \in Clients, i \in RequestIds :
           fate[c][i] = "queued" <=> \E n \in 1 .. Len(queue) : queue[n].src = c /\ queue[n].id = i
    <2>. TAKE c \in Clients, i \in RequestIds
    <2>1. fate[c][i] = "queued" <=> \E r \in InSeq(queue) : Asks(r, c, i)
      BY <1>2 DEF IInv, InPlace, Placed
    <2>. QED
      BY <2>1 DEF InSeq, Asks
  <1>4. \A c \in Clients, i \in RequestIds :
           fate'[c][i] = IF fate[c][i] = "queued" THEN "discarded" ELSE fate[c][i]
    <2>. TAKE c \in Clients, i \in RequestIds
    <2>1. fate'[c][i] = IF \E n \in 1 .. Len(queue) : queue[n].src = c /\ queue[n].id = i
                        THEN "discarded" ELSE fate[c][i]
      BY <1>1
    <2>. QED
      BY <1>3, <2>1
  <1>5. fate' \in [Clients -> [RequestIds -> Fates]]
    <2>1. fate \in [Clients -> [RequestIds -> Fates]] /\ "discarded" \in Fates
      BY Types DEF IInv, Fates
    <2>. QED
      BY <1>1, <2>1
  <1>. QED
    BY <1>1, <1>4, <1>5

\* A client takes the first message of its mailbox.
LEMMA Receiving ==
    ASSUME IInv, NEW c \in Clients, ReceiveResponse(c)
    PROVE  /\ client[c] = "waiting" /\ mailbox[c] # <<>>
           /\ Head(mailbox[c]) \in InSeq(mailbox[c]) /\ Head(mailbox[c]) \in Responses
           /\ mailbox' \in [Clients -> Seq(Responses)]
           /\ mailbox'[c] = Tail(mailbox[c]) /\ InSeq(mailbox'[c]) \subseteq InSeq(mailbox[c])
           /\ \A m \in InSeq(mailbox'[c]) : m.id # Head(mailbox[c]).id
           /\ Len(mailbox'[c]) <= MailboxSize
           /\ \A d \in Clients \ {c} : mailbox'[d] = mailbox[d]
           /\ UNCHANGED <<queue, dispVars, kept, fate>>
  <1>1. /\ client[c] = "waiting" /\ mailbox[c] # <<>>
        /\ mailbox' = [mailbox EXCEPT ![c] = Tail(@)]
        /\ UNCHANGED <<queue, dispVars, kept, fate>>
    BY DEF ReceiveResponse
  <1>2. /\ mailbox \in [Clients -> Seq(Responses)] /\ mailbox[c] \in Seq(Responses)
        /\ Len(mailbox[c]) <= MailboxSize
    BY Types DEF IInv
  <1>3. /\ Head(mailbox[c]) \in InSeq(mailbox[c]) /\ Head(mailbox[c]) \in Responses
        /\ Tail(mailbox[c]) \in Seq(Responses)
        /\ InSeq(Tail(mailbox[c])) \subseteq InSeq(mailbox[c])
        /\ Len(Tail(mailbox[c])) <= MailboxSize
    BY <1>1, <1>2, TailElements
  <1>4. mailbox'[c] = Tail(mailbox[c]) /\ \A d \in Clients \ {c} : mailbox'[d] = mailbox[d]
    BY <1>1, <1>2
  <1>5. mailbox' \in [Clients -> Seq(Responses)]
    BY <1>1, <1>2, <1>3
  <1>6. \A m \in InSeq(Tail(mailbox[c])) : m.id # Head(mailbox[c]).id
    BY <1>1, <1>2, MailboxTail DEF IInv, InPlace, Placed
  <1>. QED
    BY <1>1, <1>3, <1>4, <1>5, <1>6

-------------------------------------------------------------------------------
(* The bounds of versions and ids.                                         *)

LEMMA VersionsNext ==
    ASSUME IInv, [Next]_vars
    PROVE  /\ VersionsCounted'
           /\ \A a \in DOMAIN reactive_list' : reactive_list'[a] \in 1 .. Gone - 1
  <1>0. /\ TypeInv /\ fate \in [Clients -> [RequestIds -> Fates]]
        /\ \A a \in DOMAIN reactive_list :
              /\ reactive_list[a] \in Nat \ {0}
              /\ reactive_list[a] <= Cardinality(Settled(fate)) + 1
    BY RequestsFinite, Types DEF IInv, TypeInv, TypeOK, VersionsCounted
  <1>1. /\ Cardinality(Settled(fate)) \in Nat
        /\ Cardinality(Settled(fate')) \in Nat /\ Cardinality(Settled(fate')) <= Gone - 2
        /\ Gone \in Nat
    BY SettledFinite, RequestsFinite
  <1>. SUFFICES \A a \in DOMAIN reactive_list' :
                   /\ reactive_list'[a] \in Nat \ {0}
                   /\ reactive_list'[a] <= Cardinality(Settled(fate')) + 1
    BY <1>1 DEF VersionsCounted
  <1>2. CASE TakesHead
    <2>1. PICK r : r = Head(queue)
      OBVIOUS
    <2>2. /\ queue # <<>> /\ ListGrows /\ Settles(r, VersionIn(reactive_list', r.dst))
      BY <1>2, <2>1 DEF TakesHead
    <2>3. r \in Requests /\ fate[r.src][r.id] = "queued"
      BY <1>0, <2>1, <2>2, QueueHead, HeadQueued
    <2>4. PICK why \in Fates \ {"unsent", "queued", "refused"} : Became(fate, fate', r, why)
      BY <2>2 DEF Settles
    <2>5. Cardinality(Settled(fate')) = Cardinality(Settled(fate)) + 1
      <3>1. /\ r.src \in Clients /\ r.id \in RequestIds /\ why \notin {"unsent", "queued"}
            /\ fate' = [fate EXCEPT ![r.src][r.id] = why]
        BY <2>3, <2>4 DEF Became, Requests
      <3>. QED
        BY <1>0, <2>3, <3>1, SettledOneMore
    <2>. QED
      BY <1>0, <1>1, <2>2, <2>5 DEF ListGrows
  <1>3. ASSUME UNCHANGED reactive_list,
               \A c \in Clients, i \in RequestIds :
                   fate[c][i] \notin {"unsent", "queued"} => fate'[c][i] \notin {"unsent", "queued"}
        PROVE  \A a \in DOMAIN reactive_list' :
                   /\ reactive_list'[a] \in Nat \ {0}
                   /\ reactive_list'[a] <= Cardinality(Settled(fate')) + 1
    <2>1. Cardinality(Settled(fate)) <= Cardinality(Settled(fate'))
      BY <1>3, SettledNoFewer
    <2>. QED
      BY <1>0, <1>1, <1>3, <2>1
  <1>4. CASE queue # <<>> /\ ServeStop(Head(queue))
    BY <1>3, <1>4 DEF ServeStop
  <1>5. CASE QueueDropped
    BY <1>3, <1>5 DEF QueueDropped
  <1>6. CASE FinishStop \/ Close
    BY <1>6 DEF FinishStop, Close
  <1>7. ASSUME NEW c \in Clients, NEW op \in Ops, NEW dst \in Targets(op), Request(c, op, dst)
        PROVE  \A a \in DOMAIN reactive_list' :
                   /\ reactive_list'[a] \in Nat \ {0}
                   /\ reactive_list'[a] <= Cardinality(Settled(fate')) + 1
    <2>1. PICK r \in Requests : Makes(c, r) /\ (Queued(r) \/ Refused(r))
      BY <1>0, <1>7, Requesting
    <2>2. fate[c][r.id] = "unsent" /\ UNCHANGED reactive_list /\ r.src = c
      BY <2>1, MadeUnsent DEF Makes, dispVars
    <2>3. CASE Queued(r)
      <3>1. \A d \in Clients, i \in RequestIds :
               fate'[d][i] = IF Asks(r, d, i) THEN "queued" ELSE fate[d][i]
        BY <1>0, <2>3, BecameMade DEF Queued
      <3>2. \A d \in Clients, i \in RequestIds : Asks(r, d, i) => fate[d][i] = "unsent"
        BY <2>2 DEF Asks
      <3>. QED
        BY <1>3, <2>2, <3>1, <3>2
    <2>4. CASE Refused(r)
      <3>1. \A d \in Clients, i \in RequestIds :
               fate'[d][i] = IF Asks(r, d, i) THEN "refused" ELSE fate[d][i]
        BY <1>0, <2>4, BecameMade DEF Refused
      <3>. QED
        BY <1>3, <2>2, <3>1
    <2>. QED
      BY <2>1, <2>3, <2>4
  <1>8. ASSUME NEW c \in Clients, ReceiveResponse(c) \/ Timeout(c)
        PROVE  UNCHANGED <<reactive_list, fate>>
    BY <1>8 DEF ReceiveResponse, Timeout, dispVars
  <1>9. CASE UNCHANGED vars
    BY <1>3, <1>9 DEF vars
  <1>10. ASSUME NEW r \in Requests, NEW version \in Nat, AnswersLate(r, version)
         PROVE  \A a \in DOMAIN reactive_list' :
                    /\ reactive_list'[a] \in Nat \ {0}
                    /\ reactive_list'[a] <= Cardinality(Settled(fate')) + 1
    <2>1. PICK why \in Fates \ {"unsent", "queued", "refused"} : Became(fate, fate', r, why)
      BY <1>10 DEF AnswersLate, Settles
    <2>2. \A c \in Clients, i \in RequestIds :
             /\ fate'[c][i] = "queued" => fate[c][i] = "queued" /\ ~Asks(r, c, i)
             /\ fate'[c][i] = "unsent" => fate[c][i] = "unsent"
      BY <1>0, <2>1, BecameSettled
    <2>3. UNCHANGED reactive_list
      BY <1>10 DEF AnswersLate, dispVars
    <2>. QED
      BY <1>3, <2>2, <2>3
  <1>. QED
    BY <1>0, <1>2, <1>3, <1>4, <1>5, <1>6, <1>7, <1>8, <1>9, <1>10, Steps

LEMMA IdsNext ==
    ASSUME IInv, [Next]_vars
    PROVE  IdsCounted' /\ queue' \in Seq(Requests) /\ next_actor_id' \in 1 .. MaxActors + 1
  <1>0. /\ TypeInv /\ queue \in Seq(Requests) /\ next_actor_id \in Nat \ {0}
        /\ next_actor_id + Cardinality(Registrations(queue)) <= MaxActors + 1
        /\ Cardinality(Registrations(queue)) \in Nat
    BY RegistrationsFinite DEF IInv, TypeInv, TypeOK, IdsCounted
  <1>. SUFFICES /\ queue' \in Seq(Requests) /\ next_actor_id' \in Nat \ {0}
                /\ next_actor_id' + Cardinality(Registrations(queue')) <= MaxActors + 1
    BY RegistrationsFinite DEF IdsCounted
  <1>1. ASSUME queue # <<>>
        PROVE  /\ Tail(queue) \in Seq(Requests)
               /\ Cardinality(Registrations(Tail(queue))) \in Nat
               /\ Cardinality(Registrations(Tail(queue)))
                     + (IF Head(queue).op = "RegisterReactive" THEN 1 ELSE 0)
                  <= Cardinality(Registrations(queue))
    BY <1>0, <1>1, QueueHead, RegistrationsTail, RegistrationsFinite
  <1>2. CASE TakesHead
    BY <1>0, <1>1, <1>2 DEF TakesHead, ListGrows
  <1>3. CASE queue # <<>> /\ ServeStop(Head(queue))
    BY <1>0, <1>1, <1>3 DEF ServeStop, Serving
  <1>4. CASE QueueDropped
    BY <1>0, <1>4 DEF QueueDropped
  <1>5. CASE FinishStop
    BY <1>0, <1>5 DEF FinishStop
  <1>6. CASE Close
    <2>1. <<>> \in Seq(Requests)
      OBVIOUS
    <2>2. Cardinality(Registrations(<<>>)) = 0
      BY <2>1, RegistrationsFinite
    <2>. QED
      BY <1>0, <1>6, <2>1, <2>2 DEF Close
  <1>7. ASSUME NEW c \in Clients, NEW op \in Ops, NEW dst \in Targets(op), Request(c, op, dst)
        PROVE  /\ queue' \in Seq(Requests) /\ next_actor_id' = next_actor_id
               /\ next_actor_id + Cardinality(Registrations(queue')) <= MaxActors + 1
    <2>1. PICK r \in Requests :
              /\ Makes(c, r) /\ (Queued(r) \/ Refused(r))
              /\ r.op = "RegisterReactive" =>
                    next_actor_id + Cardinality(Registrations(queue)) <= MaxActors
      BY <1>0, <1>7, Requesting
    <2>2. next_actor_id' = next_actor_id
      BY <2>1 DEF Makes, dispVars
    <2>3. /\ Append(queue, r) \in Seq(Requests)
          /\ Cardinality(Registrations(Append(queue, r))) \in Nat
          /\ Cardinality(Registrations(Append(queue, r)))
                <= Cardinality(Registrations(queue)) + (IF r.op = "RegisterReactive" THEN 1 ELSE 0)
      BY <1>0, AppendElements, RegistrationsAppend, RegistrationsFinite
    <2>4. next_actor_id + Cardinality(Registrations(Append(queue, r))) <= MaxActors + 1
      BY <1>0, <2>1, <2>3
    <2>. QED
      BY <1>0, <2>1, <2>2, <2>3, <2>4 DEF Queued, Refused
  <1>8. ASSUME NEW c \in Clients, ReceiveResponse(c) \/ Timeout(c)
        PROVE  UNCHANGED <<queue, next_actor_id>>
    BY <1>8 DEF ReceiveResponse, Timeout, dispVars
  <1>9. CASE UNCHANGED vars
    BY <1>0, <1>9 DEF vars
  <1>10. ASSUME NEW r \in Requests, NEW version \in Nat, AnswersLate(r, version)
         PROVE  UNCHANGED <<queue, next_actor_id>>
    BY <1>10 DEF AnswersLate, dispVars
  <1>. QED
    BY <1>0, <1>2, <1>3, <1>4, <1>5, <1>6, <1>7, <1>8, <1>9, <1>10, Steps

-------------------------------------------------------------------------------
(* The order of a stop.                                                    *)

LEMMA StopNext ==
    ASSUME IInv, [Next]_vars
    PROVE  StopWithPc' /\ pc' \in {"serve", "drain", "clear", "drop", "close", "ended"}
  <1>0. /\ TypeInv /\ (stop # {} <=> pc \in {"drain", "clear"})
        /\ pc \in {"serve", "drain", "clear", "drop", "close", "ended"}
    BY DEF IInv, TypeInv, TypeOK, StopWithPc
  <1>1. CASE TakesHead
    BY <1>0, <1>1 DEF TakesHead, StopWithPc
  <1>2. CASE queue # <<>> /\ ServeStop(Head(queue))
    <2>1. pc' = "drain" /\ stop' # {}
      BY <1>2 DEF ServeStop
    <2>. QED
      BY <2>1 DEF StopWithPc
  <1>3. CASE QueueDropped
    <2>1. /\ (pc = "drain" /\ pc' = "clear") \/ (pc = "drop" /\ pc' = "close")
          /\ stop' = stop
      BY <1>3 DEF QueueDropped, AfterDrain
    <2>. QED
      BY <1>0, <2>1 DEF StopWithPc
  <1>4. CASE FinishStop
    BY <1>0, <1>4 DEF FinishStop, StopWithPc
  <1>5. CASE Close
    BY <1>0, <1>5 DEF Close, StopWithPc
  <1>6. ASSUME NEW c \in Clients, NEW op \in Ops, NEW dst \in Targets(op), Request(c, op, dst)
        PROVE  UNCHANGED <<stop, pc>>
    BY <1>6 DEF Request, dispVars
  <1>7. ASSUME NEW c \in Clients, ReceiveResponse(c) \/ Timeout(c)
        PROVE  UNCHANGED <<stop, pc>>
    BY <1>7 DEF ReceiveResponse, Timeout, dispVars
  <1>8. CASE UNCHANGED vars
    BY <1>0, <1>8 DEF vars, StopWithPc
  <1>9. ASSUME NEW r \in Requests, NEW version \in Nat, AnswersLate(r, version)
        PROVE  UNCHANGED <<stop, pc>>
    BY <1>9 DEF AnswersLate, dispVars
  <1>. QED
    BY <1>0, <1>1, <1>2, <1>3, <1>4, <1>5, <1>6, <1>7, <1>8, <1>9, Steps DEF StopWithPc

LEMMA OwedNext ==
    ASSUME IInv, [Next]_vars
    PROVE  Owed' /\ owed' \in SUBSET Requests
  <1>0. /\ TypeInv /\ Owed /\ owed \in SUBSET Requests
        /\ fate \in [Clients -> [RequestIds -> Fates]]
        /\ InSeq(queue) \subseteq Requests
        /\ \A r \in Requests : r.src \in Clients /\ r.id \in RequestIds
    BY Types DEF IInv, Requests
  <1>1. CASE TakesHead
    <2>1. PICK r : r = Head(queue)
      OBVIOUS
    <2>2. /\ queue # <<>> /\ queue' = Tail(queue) /\ UNCHANGED owed
          /\ pc' = pc \/ (pc = "serve" /\ pc' = "drop")
          /\ Settles(r, VersionIn(reactive_list', r.dst))
      BY <1>1, <2>1 DEF TakesHead
    <2>3. r \in Requests /\ InSeq(queue) = InSeq(queue') \cup {r}
      BY <1>0, <2>1, <2>2, QueueHead
    <2>4. PICK why \in Fates \ {"unsent", "queued", "refused"} : Became(fate, fate', r, why)
      BY <2>2 DEF Settles
    <2>5. \A q \in owed :
             /\ fate'[q.src][q.id] = "queued" => fate[q.src][q.id] = "queued" /\ q # r
             /\ fate'[q.src][q.id] # "unsent"
      BY <1>0, <2>3, <2>4, BecameSettled DEF Asks, Owed
    <2>. QED
      BY <1>0, <2>2, <2>3, <2>5 DEF Owed
  <1>2. CASE queue # <<>> /\ ServeStop(Head(queue))
    <2>1. /\ queue # <<>> /\ queue' = Tail(queue) /\ owed' = InSeq(queue') /\ pc' = "drain"
          /\ fate' = fate
      BY <1>2 DEF ServeStop, Serving, InSeq
    <2>2. InSeq(queue') \subseteq InSeq(queue)
      BY <1>0, <2>1, QueueHead
    <2>3. \A q \in InSeq(queue) : fate[q.src][q.id] = "queued"
      BY <1>0 DEF IInv, InPlace, Placed, Asks
    <2>. QED
      BY <1>0, <2>1, <2>2, <2>3 DEF Owed
  <1>3. CASE QueueDropped
    <2>1. /\ (pc = "drain" /\ pc' = "clear") \/ (pc = "drop" /\ pc' = "close")
          /\ queue = <<>> /\ UNCHANGED <<owed, fate, queue>>
      BY <1>3 DEF QueueDropped, AfterDrain
    <2>2. InSeq(queue) = {}
      BY <2>1 DEF InSeq
    <2>. QED
      BY <1>0, <2>1, <2>2 DEF Owed
  <1>4. CASE FinishStop
    <2>1. PICK r \in Requests : Settles(r, 0) /\ UNCHANGED owed
      BY <1>4, Stopping
    <2>2. pc = "clear" /\ pc' = "drop"
      BY <1>4 DEF FinishStop
    <2>3. PICK why \in Fates \ {"unsent", "queued", "refused"} : Became(fate, fate', r, why)
      BY <2>1 DEF Settles
    <2>4. \A q \in owed :
             /\ fate'[q.src][q.id] = "queued" => fate[q.src][q.id] = "queued"
             /\ fate'[q.src][q.id] # "unsent"
      BY <1>0, <2>3, BecameSettled DEF Owed
    <2>. QED
      BY <1>0, <2>1, <2>2, <2>4 DEF Owed
  <1>5. CASE Close
    <2>1. /\ pc' = "ended" /\ owed' = owed
          /\ \A c \in Clients, i \in RequestIds :
                fate'[c][i] = IF fate[c][i] = "queued" THEN "discarded" ELSE fate[c][i]
      BY <1>5, Closing
    <2>2. \A q \in owed : fate'[q.src][q.id] \notin {"unsent", "queued"}
      <3>. TAKE q \in owed
      <3>1. q.src \in Clients /\ q.id \in RequestIds /\ fate[q.src][q.id] # "unsent"
        BY <1>0 DEF Owed
      <3>. QED
        BY <2>1, <3>1
    <2>. QED
      BY <1>0, <2>1, <2>2 DEF Owed
  <1>6. ASSUME NEW c \in Clients, NEW op \in Ops, NEW dst \in Targets(op), Request(c, op, dst)
        PROVE  Owed' /\ owed' = owed
    <2>1. PICK r \in Requests : Makes(c, r) /\ (Queued(r) \/ Refused(r))
      BY <1>0, <1>6, Requesting
    <2>2. UNCHANGED <<owed, pc>> /\ fate[c][r.id] = "unsent" /\ r.src = c
      BY <2>1, MadeUnsent DEF Makes, dispVars
    <2>3. \A q \in owed : ~Asks(r, q.src, q.id)
      BY <1>0, <2>2 DEF Owed, Asks
    <2>4. /\ InSeq(queue) \subseteq InSeq(queue')
          /\ \A q \in owed : fate'[q.src][q.id] = fate[q.src][q.id]
      <3>1. CASE Queued(r)
        <4>1. queue \in Seq(Requests)
          BY <1>0, Types
        <4>. QED
          BY <1>0, <2>3, <3>1, <4>1, BecameMade, AppendElements DEF Queued
      <3>2. CASE Refused(r)
        BY <1>0, <2>3, <3>2, BecameMade DEF Refused
      <3>. QED
        BY <2>1, <3>1, <3>2
    <2>. QED
      BY <1>0, <2>2, <2>4 DEF Owed
  <1>7. ASSUME NEW c \in Clients, ReceiveResponse(c) \/ Timeout(c)
        PROVE  UNCHANGED <<queue, pc, fate, owed>>
    BY <1>7 DEF ReceiveResponse, Timeout, dispVars
  <1>8. CASE UNCHANGED vars
    BY <1>0, <1>8 DEF vars, Owed
  <1>9. ASSUME UNCHANGED <<queue, pc, fate, owed>> PROVE Owed' /\ owed' \in SUBSET Requests
    BY <1>0, <1>9 DEF Owed
  <1>10. ASSUME NEW r \in Requests, NEW version \in Nat, AnswersLate(r, version)
         PROVE  Owed' /\ owed' = owed
    <2>1. PICK why \in Fates \ {"unsent", "queued", "refused"} : Became(fate, fate', r, why)
      BY <1>10 DEF AnswersLate, Settles
    <2>2. \A q \in owed :
             /\ fate'[q.src][q.id] = "queued" => fate[q.src][q.id] = "queued"
             /\ fate'[q.src][q.id] # "unsent"
      BY <1>0, <2>1, BecameSettled DEF Owed
    <2>3. UNCHANGED <<queue, pc, owed>>
      BY <1>10 DEF AnswersLate, dispVars
    <2>. QED
      BY <1>0, <2>2, <2>3 DEF Owed
  <1>. QED
    BY <1>0, <1>1, <1>2, <1>3, <1>4, <1>5, <1>6, <1>7, <1>8, <1>9, <1>10, Steps

-------------------------------------------------------------------------------
(* What clients are told.                                                  *)

\* A reactive is never again what a client was told it is not any more.
LEMMA VersionsGrow ==
    ASSUME IInv, [Next]_vars
    PROVE  /\ \A a \in DOMAIN reactive_list' : a \in Nat \ {0} /\ a < next_actor_id'
           /\ next_actor_id \in Nat /\ next_actor_id' \in Nat /\ next_actor_id <= next_actor_id'
           /\ \A a : VersionIn(reactive_list', a) \in Nat /\ VersionIn(reactive_list', a) <= Gone
           /\ \A a \in Nat : a < next_actor_id =>
                 VersionIn(reactive_list, a) <= VersionIn(reactive_list', a)
  <1>0. /\ TypeInv /\ next_actor_id \in Nat \ {0} /\ Gone \in Nat
        /\ \A a \in DOMAIN reactive_list :
              a \in Nat \ {0} /\ a < next_actor_id /\ reactive_list[a] \in Nat /\ reactive_list[a] <= Gone
    <2>1. TypeInv /\ Told /\ MaxActors \in Nat /\ Gone \in Nat
      BY RequestsFinite, BoundsAssumption DEF IInv
    <2>2. TypeOK
      BY <2>1 DEF TypeInv
    <2>3. next_actor_id \in Nat \ {0}
      BY <2>1, <2>2 DEF TypeOK
    <2>4. \A a \in DOMAIN reactive_list : a \in Nat \ {0} /\ a < next_actor_id
      <3>1. DOMAIN reactive_list \subseteq 1 .. MaxActors
        BY <2>2 DEF TypeOK, ActorIds
      <3>2. \A a \in DOMAIN reactive_list : a < next_actor_id
        BY <2>1 DEF Told
      <3>. QED
        BY <2>1, <3>1, <3>2
    <2>5. \A a \in DOMAIN reactive_list : reactive_list[a] \in Nat /\ reactive_list[a] <= Gone
      <3>1. \A a \in DOMAIN reactive_list : reactive_list[a] \in 1 .. Gone - 1
        BY <2>2 DEF TypeOK
      <3>. QED
        BY <2>1, <3>1
    <2>. QED
      BY <2>1, <2>3, <2>4, <2>5
  <1>1. \A a \in DOMAIN reactive_list' : reactive_list'[a] \in Nat /\ reactive_list'[a] <= Gone
    BY <1>0, VersionsNext
  <1>2. \A a : /\ VersionIn(reactive_list', a) \in Nat /\ VersionIn(reactive_list', a) <= Gone
               /\ VersionIn(reactive_list, a) \in Nat /\ VersionIn(reactive_list, a) <= Gone
    BY <1>0, <1>1 DEF VersionIn
  <1>3. CASE UNCHANGED <<reactive_list, next_actor_id>>
    BY <1>0, <1>2, <1>3
  <1>4. CASE DOMAIN reactive_list' = {} /\ UNCHANGED next_actor_id
    BY <1>0, <1>2, <1>4 DEF VersionIn
  <1>5. CASE ListGrows
    <2>1. next_actor_id' = next_actor_id \/ next_actor_id' = next_actor_id + 1
      BY <1>5 DEF ListGrows
    <2>2. \A a \in DOMAIN reactive_list' : a \in Nat \ {0} /\ a < next_actor_id'
      BY <1>0, <1>5, <2>1 DEF ListGrows
    <2>3. \A a \in DOMAIN reactive_list' : a < next_actor_id =>
             a \in DOMAIN reactive_list /\ reactive_list[a] <= reactive_list'[a]
      BY <1>0, <1>5 DEF ListGrows
    <2>4. \A a \in Nat : a < next_actor_id =>
             VersionIn(reactive_list, a) <= VersionIn(reactive_list', a)
      BY <1>0, <1>2, <2>3 DEF VersionIn
    <2>. QED
      BY <1>0, <1>2, <2>1, <2>2, <2>4
  <1>6. \/ ListGrows
        \/ UNCHANGED <<reactive_list, next_actor_id>>
        \/ DOMAIN reactive_list' = {} /\ UNCHANGED next_actor_id
    <2>1. TakesHead => ListGrows
      BY DEF TakesHead
    <2>2. ASSUME NEW c \in Clients, NEW op \in Ops, NEW dst \in Targets(op), Request(c, op, dst)
          PROVE  UNCHANGED <<reactive_list, next_actor_id>>
      BY <2>2 DEF Request, dispVars
    <2>3. ASSUME NEW c \in Clients, ReceiveResponse(c) \/ Timeout(c)
          PROVE  UNCHANGED <<reactive_list, next_actor_id>>
      BY <2>3 DEF ReceiveResponse, Timeout, dispVars
    <2>4. ASSUME NEW r \in Requests, NEW version \in Nat, AnswersLate(r, version)
          PROVE  UNCHANGED <<reactive_list, next_actor_id>>
      BY <2>4 DEF AnswersLate, dispVars
    <2>. QED
      BY <1>0, <2>1, <2>2, <2>3, <2>4, Steps DEF ServeStop, QueueDropped, FinishStop, Close, vars
  <1>. QED
    BY <1>3, <1>4, <1>5, <1>6

\* What Told says of one client, of its request and of the responses for it.
ToldIn(c, list, next, box, waits, asked) ==
    /\ waits[c] \in Busy => asked[c].dst < next
    /\ \A m \in InSeq(box[c]) :
        /\ m.version <= Gone
        /\ waits[c] \in Busy /\ m.id = asked[c].id =>
               m.version <= VersionIn(list, asked[c].dst)

LEMMA ToldMeans ==
    Told <=>
      /\ \A a \in DOMAIN reactive_list : a < next_actor_id
      /\ \A a \in ActorIds : acked[a] <= VersionIn(reactive_list, a)
      /\ \A a \in ActorIds : a >= next_actor_id => acked[a] = 0
      /\ \A c \in Clients :
            ToldIn(c, reactive_list, next_actor_id, mailbox, client, call)
      /\ \A r \in InSeq(queue) :
            client[r.src] \in Busy /\ r.id = call[r.src].id => r.dst = call[r.src].dst
  BY DEF Told, ToldIn

LEMMA ToldMeansNext ==
    Told' <=>
      /\ \A a \in DOMAIN reactive_list' : a < next_actor_id'
      /\ \A a \in ActorIds : acked'[a] <= VersionIn(reactive_list', a)
      /\ \A a \in ActorIds : a >= next_actor_id' => acked'[a] = 0
      /\ \A c \in Clients :
            ToldIn(c, reactive_list', next_actor_id', mailbox', client', call')
      /\ \A r \in InSeq(queue') :
            client'[r.src] \in Busy /\ r.id = call'[r.src].id => r.dst = call'[r.src].dst
  BY DEF Told, ToldIn, VersionIn

\* What was true for a client stays true while it waits for the same request, whatever
\* leaves its mailbox.
LEMMA ToldKept ==
    ASSUME IInv, [Next]_vars, NEW c \in Clients,
           NEW box, NEW waits, NEW asked,
           \A m \in InSeq(box[c]) :
               \/ m \in InSeq(mailbox[c])
               \/ /\ m.version <= Gone
                  /\ waits[c] \in Busy /\ m.id = asked[c].id =>
                         m.version <= VersionIn(reactive_list', asked[c].dst),
           waits[c] \in Busy => client[c] \in Busy /\ asked[c] = call[c]
    PROVE  ToldIn(c, reactive_list', next_actor_id', box, waits, asked)
  <1>1. ToldIn(c, reactive_list, next_actor_id, mailbox, client, call)
    BY ToldMeans DEF IInv
  <1>2. /\ call[c].dst \in Nat
        /\ \A m \in InSeq(mailbox[c]) : m.version \in Nat
    <2>1. call[c].dst \in ActorIds \cup {INVALID} /\ InSeq(mailbox[c]) \subseteq Responses
      BY Types DEF IInv
    <2>. QED
      BY <2>1 DEF ActorIds, INVALID, Responses
  <1>3. /\ next_actor_id \in Nat /\ next_actor_id' \in Nat /\ next_actor_id <= next_actor_id'
        /\ VersionIn(reactive_list', call[c].dst) \in Nat
        /\ call[c].dst < next_actor_id =>
              VersionIn(reactive_list, call[c].dst) <= VersionIn(reactive_list', call[c].dst)
        /\ VersionIn(reactive_list, call[c].dst) \in Nat
    BY <1>2, VersionsGrow, VersionBound DEF IInv
  <1>4. waits[c] \in Busy => asked[c].dst < next_actor_id'
    BY <1>1, <1>2, <1>3 DEF ToldIn
  <1>5. ASSUME NEW m \in InSeq(mailbox[c])
        PROVE  /\ m.version <= Gone
               /\ waits[c] \in Busy /\ m.id = asked[c].id =>
                      m.version <= VersionIn(reactive_list', asked[c].dst)
    BY <1>1, <1>2, <1>3 DEF ToldIn
  <1>. QED
    BY <1>4, <1>5 DEF ToldIn

\* A request of a client that is settled tells it no more than is true.
LEMMA ToldSettled ==
    ASSUME IInv, [Next]_vars, NEW r \in Requests, NEW version,
           Settles(r, version), version <= Gone,
           client[r.src] \in Busy /\ r.id = call[r.src].id =>
               version <= VersionIn(reactive_list', call[r.src].dst),
           version \in Nat, UNCHANGED call,
           \A c \in Clients : client'[c] \in Busy => client[c] \in Busy
    PROVE  \A c \in Clients :
             ToldIn(c, reactive_list', next_actor_id', mailbox', client', call')
  <1>0. /\ mailbox \in [Clients -> Seq(Responses)] /\ fate \in [Clients -> [RequestIds -> Fates]]
        /\ \A c \in Clients : Len(mailbox[c]) <= MailboxSize
    BY Types DEF IInv
  <1>. TAKE c \in Clients
  <1>1. /\ \A m \in InSeq(mailbox'[c]) :
              m \in InSeq(mailbox[c]) \/ (c = r.src /\ m.id = r.id /\ m.version <= version)
        /\ mailbox'[c] \in Seq(Responses)
    BY <1>0, SettlesType
  <1>2. /\ \A m \in InSeq(mailbox'[c]) : m.version \in Nat
        /\ Gone \in Nat
        /\ VersionIn(reactive_list', call[r.src].dst) \in Nat
    <2>1. InSeq(mailbox'[c]) \subseteq Responses
      BY <1>1, ElementsType
    <2>. QED
      BY <2>1, RequestsFinite, VersionsGrow DEF Responses
  <1>3. \A m \in InSeq(mailbox'[c]) :
           \/ m \in InSeq(mailbox[c])
           \/ /\ m.version <= Gone
              /\ client'[c] \in Busy /\ m.id = call'[c].id =>
                     m.version <= VersionIn(reactive_list', call'[c].dst)
    BY <1>1, <1>2
  <1>. QED
    BY <1>3, ToldKept

LEMMA ToldNext ==
    ASSUME IInv, [Next]_vars
    PROVE  Told' /\ acked' \in [ActorIds -> 0 .. Gone]
  <1>0. /\ TypeInv /\ Gone \in Nat /\ acked \in [ActorIds -> 0 .. Gone]
        /\ ActorIds \subseteq Nat
        /\ \A a \in ActorIds : VersionIn(reactive_list, a) \in Nat
    <2>1. TypeInv /\ acked \in [ActorIds -> 0 .. Gone]
      BY DEF IInv, TypeInv, TypeOK
    <2>. QED
      BY <2>1, RequestsFinite, VersionBound DEF ActorIds
  <1>1. /\ \A a \in DOMAIN reactive_list' : a < next_actor_id'
        /\ next_actor_id \in Nat /\ next_actor_id' \in Nat /\ next_actor_id <= next_actor_id'
        /\ \A a : VersionIn(reactive_list', a) \in Nat /\ VersionIn(reactive_list', a) <= Gone
        /\ \A a \in Nat : a < next_actor_id =>
              VersionIn(reactive_list, a) <= VersionIn(reactive_list', a)
    BY VersionsGrow
  <1>2. /\ \A a \in ActorIds : acked[a] <= VersionIn(reactive_list, a)
        /\ \A a \in ActorIds : a >= next_actor_id => acked[a] = 0
        /\ \A c \in Clients : ToldIn(c, reactive_list, next_actor_id, mailbox, client, call)
        /\ \A r \in InSeq(queue) :
              client[r.src] \in Busy /\ r.id = call[r.src].id => r.dst = call[r.src].dst
    BY ToldMeans DEF IInv
  <1>3. /\ \A a \in ActorIds : acked[a] <= VersionIn(reactive_list', a)
        /\ \A a \in ActorIds : a >= next_actor_id' => acked[a] = 0
    <2>. SUFFICES ASSUME NEW a \in ActorIds
                  PROVE  /\ acked[a] <= VersionIn(reactive_list', a)
                         /\ a >= next_actor_id' => acked[a] = 0
      OBVIOUS
    <2>1. a \in Nat /\ acked[a] \in Nat
      BY <1>0
    <2>2. CASE a < next_actor_id
      BY <1>0, <1>1, <1>2, <2>1, <2>2
    <2>3. CASE a >= next_actor_id
      BY <1>0, <1>1, <1>2, <2>1, <2>3
    <2>. QED
      BY <1>1, <2>1, <2>2, <2>3
  <1>4. ASSUME UNCHANGED <<acked, call>>,
               \A c \in Clients : client'[c] \in Busy => client[c] \in Busy,
               InSeq(queue') \subseteq InSeq(queue),
               \A c \in Clients :
                   ToldIn(c, reactive_list', next_actor_id', mailbox', client', call')
        PROVE  Told' /\ acked' \in [ActorIds -> 0 .. Gone]
    <2>1. \A r \in InSeq(queue') :
             client'[r.src] \in Busy /\ r.id = call'[r.src].id => r.dst = call'[r.src].dst
      <3>1. \A r \in InSeq(queue') : r.src \in Clients
        BY <1>0, <1>4, Types DEF Requests
      <3>. QED
        BY <1>2, <1>4, <3>1
    <2>2. /\ \A a \in ActorIds : acked'[a] <= VersionIn(reactive_list', a)
          /\ \A a \in ActorIds : a >= next_actor_id' => acked'[a] = 0
      BY <1>3, <1>4
    <2>. QED
      BY <1>0, <1>1, <1>4, <2>1, <2>2, ToldMeansNext
  <1>5. CASE TakesHead
    <2>1. PICK r : r = Head(queue)
      OBVIOUS
    <2>2. PICK v : v = VersionIn(reactive_list', r.dst)
      OBVIOUS
    <2>3. /\ queue # <<>> /\ queue' = Tail(queue) /\ Settles(r, v)
          /\ UNCHANGED <<acked, client, call>>
      BY <1>5, <2>1, <2>2 DEF TakesHead, clientVars
    <2>4. r \in Requests /\ r \in InSeq(queue) /\ InSeq(queue') \subseteq InSeq(queue)
      BY <1>0, <2>1, <2>3, QueueHead
    <2>5. /\ v <= Gone /\ v \in Nat
          /\ client[r.src] \in Busy /\ r.id = call[r.src].id =>
                v <= VersionIn(reactive_list', call[r.src].dst)
      BY <1>1, <1>2, <2>2, <2>4
    <2>6. \A c \in Clients :
             ToldIn(c, reactive_list', next_actor_id', mailbox', client', call')
      BY <2>3, <2>4, <2>5, ToldSettled
    <2>. QED
      BY <1>4, <2>3, <2>4, <2>6
  <1>6. CASE FinishStop
    <2>1. PICK r \in Requests : Settles(r, 0) /\ UNCHANGED <<queue, acked, client, call>>
      BY <1>6, Stopping DEF clientVars
    <2>2. \A c \in Clients :
             ToldIn(c, reactive_list', next_actor_id', mailbox', client', call')
      <3>1. 0 <= VersionIn(reactive_list', call[r.src].dst) /\ 0 <= Gone
        BY <1>0, <1>1
      <3>. QED
        BY <2>1, <3>1, ToldSettled
    <2>. QED
      BY <1>4, <2>1, <2>2
  <1>7. ASSUME UNCHANGED <<acked, client, call, mailbox>>, InSeq(queue') \subseteq InSeq(queue)
        PROVE  Told' /\ acked' \in [ActorIds -> 0 .. Gone]
    <2>1. \A c \in Clients :
             ToldIn(c, reactive_list', next_actor_id', mailbox, client, call)
      BY ToldKept
    <2>. QED
      BY <1>4, <1>7, <2>1
  <1>8. CASE queue # <<>> /\ ServeStop(Head(queue))
    <2>1. InSeq(queue') \subseteq InSeq(queue)
      BY <1>0, <1>8, QueueHead DEF ServeStop, Serving
    <2>. QED
      BY <1>7, <1>8, <2>1 DEF ServeStop, clientVars
  <1>9. CASE Close
    <2>1. InSeq(<<>>) = {}
      BY DEF InSeq
    <2>. QED
      BY <1>7, <1>9, <2>1 DEF Close, clientVars
  <1>10. CASE QueueDropped \/ UNCHANGED vars
    BY <1>7, <1>10 DEF QueueDropped, clientVars, vars
  <1>11. ASSUME NEW c \in Clients, NEW op \in Ops, NEW dst \in Targets(op), Request(c, op, dst)
         PROVE  Told' /\ acked' \in [ActorIds -> 0 .. Gone]
    <2>1. PICK r \in Requests : Makes(c, r) /\ (Queued(r) \/ Refused(r))
      BY <1>0, <1>11, Requesting
    <2>2. /\ fate[c][r.id] = "unsent"
          /\ \A m \in InSeq(mailbox[c]) : m.id # r.id
          /\ \A q \in InSeq(queue) : ~Asks(q, c, r.id)
      BY <2>1, MadeUnsent
    <2>3. /\ r.src = c /\ UNCHANGED <<acked, reactive_list, next_actor_id>>
          /\ call'[c].id = r.id /\ call'[c].dst = r.dst
          /\ \A d \in Clients \ {c} : call'[d] = call[d] /\ client'[d] = client[d]
          /\ r.dst \in Targets(r.op)
      BY <1>0, <2>1, Types DEF Makes, dispVars
    <2>4. r.dst < next_actor_id
      <3>1. next_actor_id >= 1
        BY <1>0 DEF TypeInv, TypeOK
      <3>. QED
        BY <1>1, <2>3, <3>1 DEF Targets, INVALID
    <2>5. /\ InSeq(queue') \subseteq InSeq(queue) \cup {r}
          /\ mailbox' \in [Clients -> Seq(Responses)]
          /\ \A d \in Clients : \A m \in InSeq(mailbox'[d]) :
                m \in InSeq(mailbox[d]) \/ (d = c /\ m.id = r.id /\ m.version <= 0)
      <3>0. /\ mailbox \in [Clients -> Seq(Responses)] /\ fate \in [Clients -> [RequestIds -> Fates]]
            /\ \A d \in Clients : Len(mailbox[d]) <= MailboxSize
            /\ queue \in Seq(Requests)
        BY <1>0, Types
      <3>1. CASE Queued(r)
        BY <3>0, <3>1, AppendElements DEF Queued
      <3>2. CASE Refused(r)
        BY <3>0, <3>2 DEF Refused
      <3>. QED
        BY <2>1, <3>1, <3>2
    <2>6. ASSUME NEW d \in Clients \ {c}
          PROVE  ToldIn(d, reactive_list', next_actor_id', mailbox', client', call')
      BY <2>3, <2>5, ToldKept
    <2>7. ToldIn(c, reactive_list', next_actor_id', mailbox', client', call')
      <3>1. call'[c].dst < next_actor_id'
        BY <2>3, <2>4
      <3>2. ASSUME NEW m \in InSeq(mailbox'[c])
            PROVE  /\ m.version <= Gone
                   /\ m.id = call'[c].id => m.version <= VersionIn(reactive_list', call'[c].dst)
        <4>1. m.version \in Nat
          <5>1. InSeq(mailbox'[c]) \subseteq Responses
            BY <2>5, ElementsType
          <5>. QED
            BY <5>1 DEF Responses
        <4>2. CASE m \in InSeq(mailbox[c])
          BY <1>2, <2>2, <2>3, <4>2 DEF ToldIn
        <4>3. CASE m.version <= 0
          <5>1. VersionIn(reactive_list', call'[c].dst) \in Nat
            BY <1>1
          <5>. QED
            BY <1>0, <4>1, <4>3, <5>1
        <4>. QED
          BY <2>5, <4>2, <4>3
      <3>. QED
        BY <3>1, <3>2 DEF ToldIn
    <2>8. ASSUME NEW q \in InSeq(queue')
          PROVE  client'[q.src] \in Busy /\ q.id = call'[q.src].id => q.dst = call'[q.src].dst
      <3>1. CASE q = r
        BY <2>3, <3>1
      <3>2. CASE q \in InSeq(queue)
        <4>1. q.src \in Clients
          BY <1>0, <3>2, Types DEF Requests
        <4>2. CASE q.src = c
          BY <2>2, <2>3, <3>2, <4>2 DEF Asks
        <4>3. CASE q.src # c
          BY <1>2, <2>3, <3>2, <4>1, <4>3
        <4>. QED
          BY <4>2, <4>3
      <3>. QED
        BY <2>5, <3>1, <3>2
    <2>. QED
      BY <1>0, <1>1, <1>3, <2>3, <2>6, <2>7, <2>8, ToldMeansNext
  <1>12. ASSUME NEW c \in Clients,
                InSeq(mailbox'[c]) \subseteq InSeq(mailbox[c]),
                \A d \in Clients \ {c} :
                    mailbox'[d] = mailbox[d] /\ client'[d] = client[d] /\ call'[d] = call[d],
                client'[c] \notin Busy \/ UNCHANGED <<client, call>>,
                UNCHANGED <<queue, reactive_list, next_actor_id>>
         PROVE  /\ \A d \in Clients :
                      ToldIn(d, reactive_list', next_actor_id', mailbox', client', call')
                /\ \A r \in InSeq(queue') :
                      client'[r.src] \in Busy /\ r.id = call'[r.src].id =>
                          r.dst = call'[r.src].dst
    <2>1. ASSUME NEW d \in Clients
          PROVE  ToldIn(d, reactive_list', next_actor_id', mailbox', client', call')
      <3>1. \A m \in InSeq(mailbox'[d]) : m \in InSeq(mailbox[d])
        BY <1>12
      <3>2. client'[d] \in Busy => client[d] \in Busy /\ call'[d] = call[d]
        BY <1>12
      <3>. QED
        BY <3>1, <3>2, ToldKept
    <2>2. \A r \in InSeq(queue) : r.src \in Clients
      BY <1>0, Types DEF Requests
    <2>. QED
      BY <1>2, <1>12, <2>1, <2>2
  <1>13. ASSUME NEW c \in Clients, NEW from, NEW ok, ReturnFrom(c, from, ok)
         PROVE  /\ client'[c] \notin Busy
                /\ \A d \in Clients \ {c} : client'[d] = client[d] /\ call'[d] = call[d]
    BY <1>0, <1>13, Types DEF ReturnFrom
  <1>14. ASSUME NEW c \in Clients, ReceiveResponse(c)
         PROVE  Told' /\ acked' \in [ActorIds -> 0 .. Gone]
    <2>1. PICK m : m = Head(mailbox[c])
      OBVIOUS
    <2>2. /\ client[c] = "waiting" /\ m \in InSeq(mailbox[c]) /\ m \in Responses
          /\ InSeq(mailbox'[c]) \subseteq InSeq(mailbox[c])
          /\ \A d \in Clients \ {c} : mailbox'[d] = mailbox[d]
          /\ UNCHANGED <<queue, reactive_list, next_actor_id>>
      BY <1>14, <2>1, Receiving DEF dispVars
    <2>3. \/ m.id = call[c].id /\ ReturnFrom(c, m.id, TRUE) /\ Acknowledge(c, m.version)
          \/ UNCHANGED <<client, call, acked>>
          \/ ReturnFrom(c, m.id, FALSE) /\ UNCHANGED acked
      BY <1>14, <2>1 DEF ReceiveResponse, IsOwn
    <2>4. /\ client'[c] \notin Busy \/ UNCHANGED <<client, call>>
          /\ \A d \in Clients \ {c} : client'[d] = client[d] /\ call'[d] = call[d]
      BY <1>13, <2>3
    <2>5. /\ \A d \in Clients :
                ToldIn(d, reactive_list', next_actor_id', mailbox', client', call')
          /\ \A r \in InSeq(queue') :
                client'[r.src] \in Busy /\ r.id = call'[r.src].id =>
                    r.dst = call'[r.src].dst
      BY <1>12, <2>2, <2>4
    <2>6. CASE UNCHANGED acked
      BY <1>0, <1>1, <1>3, <2>5, <2>6, ToldMeansNext
    <2>7. CASE m.id = call[c].id /\ Acknowledge(c, m.version)
      <3>1. PICK a : a = call[c].dst
        OBVIOUS
      <3>2. /\ a < next_actor_id /\ m.version <= VersionIn(reactive_list', a)
            /\ m.version \in Nat /\ m.version <= Gone
        BY <1>2, <2>2, <2>7, <3>1 DEF ToldIn, Responses
      <3>3. a \in ActorIds \cup {INVALID}
        BY <1>0, <3>1, Types
      <3>4. acked' = acked \/ (a \in ActorIds /\ acked' = [acked EXCEPT ![a] = m.version])
        BY <2>7, <3>1, <3>3 DEF Acknowledge
      <3>5. CASE a \in ActorIds /\ acked' = [acked EXCEPT ![a] = m.version]
        <4>1. m.version \in 0 .. Gone
          BY <1>0, <3>2
        <4>2. acked' \in [ActorIds -> 0 .. Gone]
          BY <1>0, <3>5, <4>1
        <4>3. acked'[a] = m.version /\ \A b \in ActorIds \ {a} : acked'[b] = acked[b]
          BY <1>0, <3>5
        <4>4. \A b \in ActorIds : acked'[b] <= VersionIn(reactive_list', b)
          BY <1>3, <3>2, <4>3
        <4>5. \A b \in ActorIds : b >= next_actor_id' => acked'[b] = 0
          <5>1. ~(a >= next_actor_id')
            BY <1>0, <1>1, <3>2, <3>5
          <5>. QED
            BY <1>3, <4>3, <5>1
        <4>. QED
          BY <1>1, <2>5, <4>2, <4>4, <4>5, ToldMeansNext
      <3>. QED
        BY <2>6, <3>4, <3>5
    <2>. QED
      BY <2>3, <2>6, <2>7
  <1>15. ASSUME NEW c \in Clients, Timeout(c)
         PROVE  Told' /\ acked' \in [ActorIds -> 0 .. Gone]
    <2>1. /\ ReturnFrom(c, call[c].id, FALSE)
          /\ UNCHANGED <<queue, reactive_list, next_actor_id, mailbox, acked>>
      BY <1>15 DEF Timeout, dispVars
    <2>2. /\ client'[c] \notin Busy
          /\ \A d \in Clients \ {c} : client'[d] = client[d] /\ call'[d] = call[d]
      BY <1>13, <2>1
    <2>3. /\ \A d \in Clients :
                ToldIn(d, reactive_list', next_actor_id', mailbox', client', call')
          /\ \A r \in InSeq(queue') :
                client'[r.src] \in Busy /\ r.id = call'[r.src].id =>
                    r.dst = call'[r.src].dst
      BY <1>12, <2>1, <2>2
    <2>. QED
      BY <1>0, <1>1, <1>3, <2>1, <2>3, ToldMeansNext
  <1>16. ASSUME NEW r \in Requests, NEW version \in Nat, AnswersLate(r, version)
         PROVE  Told' /\ acked' \in [ActorIds -> 0 .. Gone]
    <2>1. /\ Settles(r, version) /\ version <= Gone
          /\ client[r.src] \in Busy /\ r.id = call[r.src].id =>
                 version <= VersionIn(reactive_list, call[r.src].dst)
          /\ UNCHANGED <<queue, reactive_list, acked, call>>
          /\ client' = client \/ (client[r.src] \in Busy /\ client' = [client EXCEPT ![r.src] = "waiting"])
      BY <1>16 DEF AnswersLate, dispVars
    <2>2. \A c \in Clients : client'[c] \in Busy => client[c] \in Busy
      BY <1>0, <2>1, Types
    <2>3. \A c \in Clients :
             ToldIn(c, reactive_list', next_actor_id', mailbox', client', call')
      BY <2>1, <2>2, ToldSettled
    <2>. QED
      BY <1>4, <2>1, <2>2, <2>3
  <1>. QED
    BY <1>0, <1>5, <1>6, <1>8, <1>9, <1>10, <1>11, <1>14, <1>15, <1>16, Steps

-------------------------------------------------------------------------------
(* Patient clients.                                                        *)

\* Calm, of explicit fates, mailboxes and calls.
CalmIn(c, becomes, box, waits, asked) ==
    /\ \A i \in RequestIds :
        becomes[c][i] \in OpenFates => waits[c] \in Busy /\ i = asked[c].id
    /\ \A m \in InSeq(box[c]) : waits[c] \in Busy /\ m.id = asked[c].id

LEMMA CalmMeans ==
    ASSUME NEW c
    PROVE  /\ Calm(c) <=> CalmIn(c, fate, mailbox, client, call)
           /\ Calm(c)' <=> CalmIn(c, fate', mailbox', client', call')
  BY DEF Calm, CalmIn

\* While it makes a request, or while one is queued, its mailbox is empty.
LEMMA CalmRoom ==
    ASSUME IInv, NEW c \in Patient,
           \/ client[c] = "idle"
           \/ \E i \in RequestIds : fate[c][i] \in OpenFates
    PROVE  HasRoom(c) /\ InSeq(mailbox[c]) = {} /\ client[c] # "panicked"
  <1>1. /\ CalmIn(c, fate, mailbox, client, call) /\ mailbox[c] \in Seq(Responses)
        /\ \A m \in InSeq(mailbox[c]) : m.id \in RequestIds /\ fate[c][m.id] = "answered"
    <2>1. InSeq(mailbox[c]) \subseteq Responses /\ mailbox[c] \in Seq(Responses) /\ c \in Clients
      BY Types DEF IInv
    <2>. QED
      BY <2>1, CalmMeans DEF IInv, Patience, InPlace, Placed, Responses
  <1>2. InSeq(mailbox[c]) = {} /\ client[c] # "panicked"
    BY <1>1 DEF CalmIn, OpenFates
  <1>3. mailbox[c] = <<>>
    <2>. SUFFICES ASSUME mailbox[c] # <<>> PROVE FALSE
      OBVIOUS
    <2>. QED
      BY <1>1, <1>2, TailElements
  <1>. QED
    BY <1>2, <1>3 DEF HasRoom

\* Settling an open request leaves patient clients calm, and finds room there.
LEMMA CalmSettled ==
    ASSUME IInv, NEW r \in Requests, fate[r.src][r.id] \in OpenFates, NEW version,
           Settles(r, version), UNCHANGED call,
           \A c \in Clients : client[c] \in Busy => client'[c] \in Busy
    PROVE  Patience' /\ PatientMailboxHasRoom'
  <1>0. /\ mailbox \in [Clients -> Seq(Responses)] /\ fate \in [Clients -> [RequestIds -> Fates]]
        /\ \A c \in Clients : Len(mailbox[c]) <= MailboxSize
        /\ r.src \in Clients /\ r.id \in RequestIds
    BY Types DEF IInv, Requests
  <1>1. PICK why \in Fates \ {"unsent", "queued", "refused"} :
            Became(fate, fate', r, why) /\ (why = "mailbox full" => ~HasRoom(r.src))
    BY DEF Settles
  <1>2. \A c \in Clients, i \in RequestIds :
             /\ fate'[c][i] = "queued" => fate[c][i] = "queued" /\ ~Asks(r, c, i)
             /\ fate'[c][i] = "unsent" => fate[c][i] = "unsent"
             /\ ~Asks(r, c, i) => fate'[c][i] = fate[c][i]
             /\ Asks(r, c, i) => fate'[c][i] = why
    <2>1. fate \in [Clients -> [RequestIds -> Fates]] /\ Became(fate, fate', r, why)
      BY <1>0, <1>1
    <2>. QED
      BY <2>1, BecameSettled
  <1>3. \A c \in Clients : \A m \in InSeq(mailbox'[c]) :
             m \in InSeq(mailbox[c]) \/ (c = r.src /\ m.id = r.id)
    BY <1>0, SettlesType
  <1>4. ASSUME NEW c \in Patient PROVE CalmIn(c, fate', mailbox', client', call')
    <2>1. c \in Clients /\ CalmIn(c, fate, mailbox, client, call)
      BY CalmMeans DEF IInv, Patience
    <2>2. ASSUME NEW i \in RequestIds, fate'[c][i] \in OpenFates
          PROVE  client'[c] \in Busy /\ i = call'[c].id
      <3>1. fate[c][i] \in OpenFates
        BY <1>2, <2>1, <2>2 DEF Asks
      <3>. QED
        BY <2>1, <3>1 DEF CalmIn
    <2>3. ASSUME NEW m \in InSeq(mailbox'[c])
          PROVE  client'[c] \in Busy /\ m.id = call'[c].id
      <3>1. CASE m \in InSeq(mailbox[c])
        BY <2>1, <3>1 DEF CalmIn
      <3>2. CASE c = r.src /\ m.id = r.id
        BY <1>0, <2>1, <3>2 DEF CalmIn
      <3>. QED
        BY <1>3, <2>1, <3>1, <3>2
    <2>. QED
      BY <2>2, <2>3 DEF CalmIn
  <1>5. ASSUME NEW c \in Patient, NEW i \in RequestIds PROVE fate'[c][i] # "mailbox full"
    <2>1. c \in Clients /\ fate[c][i] # "mailbox full"
      BY DEF IInv, PatientMailboxHasRoom
    <2>2. CASE Asks(r, c, i)
      <3>1. HasRoom(r.src)
        BY <1>0, <2>2, CalmRoom DEF Asks
      <3>. QED
        BY <1>1, <1>2, <2>1, <2>2, <3>1
    <2>3. CASE ~Asks(r, c, i)
      BY <1>2, <2>1, <2>3
    <2>. QED
      BY <2>2, <2>3
  <1>. QED
    BY <1>4, <1>5, CalmMeans DEF Patience, PatientMailboxHasRoom

LEMMA PatienceNext ==
    ASSUME IInv, [Next]_vars
    PROVE  Patience' /\ PatientMailboxHasRoom'
  <1>0. /\ TypeInv
        /\ mailbox \in [Clients -> Seq(Responses)] /\ fate \in [Clients -> [RequestIds -> Fates]]
        /\ \A c \in Clients : Len(mailbox[c]) <= MailboxSize
        /\ client \in [Clients -> {"idle", "panicked"} \cup Busy]
        /\ call \in [Clients -> [id : {0} \cup RequestIds, op : AllOps,
                                 dst : ActorIds \cup {INVALID}]]
    BY Types DEF IInv
  <1>1. /\ \A c \in Patient : CalmIn(c, fate, mailbox, client, call)
        /\ \A c \in Patient, i \in RequestIds : fate[c][i] # "mailbox full"
    BY CalmMeans DEF IInv, Patience, PatientMailboxHasRoom
  <1>2. CASE TakesHead
    <2>1. PICK r : r = Head(queue)
      OBVIOUS
    <2>2. /\ queue # <<>> /\ Settles(r, VersionIn(reactive_list', r.dst))
          /\ UNCHANGED <<client, call>>
      BY <1>2, <2>1 DEF TakesHead, clientVars
    <2>3. r \in Requests /\ fate[r.src][r.id] = "queued"
      BY <1>0, <2>1, <2>2, QueueHead, HeadQueued
    <2>. QED
      BY <2>2, <2>3, CalmSettled DEF OpenFates
  <1>3. CASE FinishStop
    <2>1. PICK r \in Requests :
              Settles(r, 0) /\ UNCHANGED <<client, call>> /\ fate[r.src][r.id] = "queued"
      BY <1>3, Stopping DEF clientVars
    <2>. QED
      BY <2>1, CalmSettled DEF OpenFates
  <1>4. ASSUME UNCHANGED <<mailbox, client, call>>,
               \A c \in Patient, i \in RequestIds :
                   /\ fate'[c][i] \in OpenFates => fate[c][i] \in OpenFates
                   /\ fate'[c][i] = "mailbox full" => fate[c][i] = "mailbox full"
        PROVE  Patience' /\ PatientMailboxHasRoom'
    <2>1. \A c \in Patient : CalmIn(c, fate', mailbox', client', call')
      BY <1>1, <1>4 DEF CalmIn
    <2>. QED
      BY <1>1, <1>4, <2>1, CalmMeans DEF Patience, PatientMailboxHasRoom
  <1>5. CASE Close
    <2>1. \A c \in Clients, i \in RequestIds :
             fate'[c][i] = IF fate[c][i] = "queued" THEN "discarded" ELSE fate[c][i]
      BY <1>5, Closing
    <2>2. \A c \in Patient, i \in RequestIds :
             /\ fate'[c][i] \in OpenFates => fate[c][i] \in OpenFates
             /\ fate'[c][i] = "mailbox full" => fate[c][i] = "mailbox full"
      <3>. TAKE c \in Patient, i \in RequestIds
      <3>1. c \in Clients
        OBVIOUS
      <3>. QED
        BY <2>1, <3>1 DEF OpenFates
    <2>. QED
      BY <1>4, <1>5, <2>2 DEF Close, clientVars
  <1>6. CASE (queue # <<>> /\ ServeStop(Head(queue))) \/ QueueDropped \/ UNCHANGED vars
    BY <1>4, <1>6 DEF ServeStop, QueueDropped, clientVars, vars
  <1>7. ASSUME NEW c \in Clients, NEW op \in Ops, NEW dst \in Targets(op), Request(c, op, dst)
        PROVE  Patience' /\ PatientMailboxHasRoom'
    <2>1. PICK r \in Requests : Makes(c, r) /\ (Queued(r) \/ Refused(r))
      BY <1>0, <1>7, Requesting
    <2>2. /\ r.src = c /\ client[c] = "idle" /\ client'[c] \in Busy /\ call'[c].id = r.id
          /\ \A d \in Clients \ {c} : client'[d] = client[d] /\ call'[d] = call[d]
      BY <1>0, <2>1 DEF Makes
    <2>3. PICK why \in {"queued", "refused"} :
              /\ \A d \in Clients, i \in RequestIds :
                    fate'[d][i] = IF Asks(r, d, i) THEN why ELSE fate[d][i]
              /\ UNCHANGED mailbox
      <3>1. CASE Queued(r)
        <4>1. \A d \in Clients, i \in RequestIds :
                 fate'[d][i] = IF Asks(r, d, i) THEN "queued" ELSE fate[d][i]
          BY <1>0, <3>1, BecameMade DEF Queued
        <4>. QED
          BY <3>1, <4>1 DEF Queued
      <3>2. CASE Refused(r)
        <4>1. \A d \in Clients, i \in RequestIds :
                 fate'[d][i] = IF Asks(r, d, i) THEN "refused" ELSE fate[d][i]
          <5>1. fate \in [Clients -> [RequestIds -> Fates]] /\ Became(fate, fate', r, "refused")
            BY <1>0, <3>2 DEF Refused
          <5>. QED
            BY <5>1, BecameMade
        <4>. QED
          BY <3>2, <4>1 DEF Refused
      <3>. QED
        BY <2>1, <3>1, <3>2
    <2>4. ASSUME NEW d \in Patient
          PROVE  /\ CalmIn(d, fate', mailbox', client', call')
                 /\ \A i \in RequestIds : fate'[d][i] # "mailbox full"
      <3>0. d \in Clients
        OBVIOUS
      <3>1. CASE d = c
        <4>1. /\ HasRoom(c) /\ InSeq(mailbox[c]) = {}
              /\ \A i \in RequestIds : fate[c][i] \notin OpenFates /\ fate[c][i] # "mailbox full"
          BY <1>1, <2>2, <3>1, CalmRoom DEF CalmIn
        <4>2. \A i \in RequestIds : Asks(r, c, i) <=> i = r.id
          BY <2>2 DEF Asks
        <4>3. ASSUME NEW i \in RequestIds
              PROVE  /\ fate'[c][i] \in OpenFates => i = r.id
                     /\ fate'[c][i] # "mailbox full"
          <5>1. CASE i = r.id
            <6>1. fate'[c][i] = why
              BY <2>3, <4>2, <5>1
            <6>. QED
              BY <2>3, <4>1, <5>1, <6>1
          <5>2. CASE i # r.id
            <6>1. fate'[c][i] = fate[c][i]
              BY <2>3, <4>2, <5>2
            <6>. QED
              BY <4>1, <5>2, <6>1
          <5>. QED
            BY <5>1, <5>2
        <4>4. \A m \in InSeq(mailbox'[c]) : m.id = r.id
          BY <2>3, <4>1
        <4>. QED
          BY <2>2, <3>1, <4>3, <4>4 DEF CalmIn
      <3>2. CASE d # c
        <4>1. \A i \in RequestIds : fate'[d][i] = fate[d][i]
          BY <2>2, <2>3, <3>0, <3>2 DEF Asks
        <4>2. \A m \in InSeq(mailbox'[d]) : m \in InSeq(mailbox[d])
          BY <2>3, <3>0, <3>2
        <4>3. client'[d] = client[d] /\ call'[d] = call[d]
          BY <2>2, <3>0, <3>2
        <4>4. CalmIn(d, fate, mailbox, client, call)
          BY <1>1
        <4>5. CalmIn(d, fate', mailbox', client', call')
          BY <4>1, <4>2, <4>3, <4>4 DEF CalmIn
        <4>. QED
          BY <1>1, <4>1, <4>5
      <3>. QED
        BY <3>1, <3>2
    <2>. QED
      BY <2>4, CalmMeans DEF Patience, PatientMailboxHasRoom
  <1>8. ASSUME NEW c \in Clients, NEW from, NEW ok, ReturnFrom(c, from, ok)
        PROVE  \A d \in Clients \ {c} : client'[d] = client[d] /\ call'[d] = call[d]
    BY <1>0, <1>8 DEF ReturnFrom
  <1>9. ASSUME NEW c \in Clients, UNCHANGED fate,
               \A d \in Clients \ {c} :
                   mailbox'[d] = mailbox[d] /\ client'[d] = client[d] /\ call'[d] = call[d],
               c \in Patient => CalmIn(c, fate', mailbox', client', call')
        PROVE  Patience' /\ PatientMailboxHasRoom'
    <2>1. ASSUME NEW d \in Patient \ {c} PROVE CalmIn(d, fate', mailbox', client', call')
      <3>1. /\ CalmIn(d, fate, mailbox, client, call) /\ fate' = fate
            /\ mailbox'[d] = mailbox[d] /\ client'[d] = client[d] /\ call'[d] = call[d]
        <4>1. d \in Clients \ {c}
          OBVIOUS
        <4>. QED
          BY <1>1, <1>9, <4>1
      <3>. QED
        BY <3>1 DEF CalmIn
    <2>. QED
      BY <1>1, <1>9, <2>1, CalmMeans DEF Patience, PatientMailboxHasRoom
  <1>10. ASSUME NEW c \in Clients, ReceiveResponse(c) PROVE Patience' /\ PatientMailboxHasRoom'
    <2>1. PICK m : m = Head(mailbox[c])
      OBVIOUS
    <2>2. /\ m \in InSeq(mailbox[c]) /\ m \in Responses
          /\ InSeq(mailbox'[c]) \subseteq InSeq(mailbox[c])
          /\ \A x \in InSeq(mailbox'[c]) : x.id # m.id
          /\ \A d \in Clients \ {c} : mailbox'[d] = mailbox[d]
          /\ UNCHANGED fate
      BY <1>10, <2>1, Receiving
    <2>3. \/ UNCHANGED <<client, call>>
          \/ \E ok \in BOOLEAN : ReturnFrom(c, m.id, ok)
      BY <1>10, <2>1 DEF ReceiveResponse
    <2>4. \A d \in Clients \ {c} : client'[d] = client[d] /\ call'[d] = call[d]
      BY <1>8, <2>3
    <2>5. ASSUME c \in Patient PROVE CalmIn(c, fate', mailbox', client', call')
      <3>1. m.id = call[c].id /\ InSeq(mailbox'[c]) = {}
        BY <1>1, <2>2, <2>5 DEF CalmIn
      <3>2. m.id \in RequestIds /\ fate[c][m.id] = "answered"
        BY <2>2 DEF IInv, InPlace, Placed, Responses
      <3>3. \A i \in RequestIds : fate[c][i] \notin OpenFates
        BY <1>1, <2>5, <3>1, <3>2 DEF CalmIn, OpenFates
      <3>. QED
        BY <2>2, <3>1, <3>3 DEF CalmIn
    <2>. QED
      BY <1>9, <2>2, <2>4, <2>5
  <1>11. ASSUME NEW c \in Clients, Timeout(c) PROVE Patience' /\ PatientMailboxHasRoom'
    <2>1. c \notin Patient /\ ReturnFrom(c, call[c].id, FALSE) /\ UNCHANGED <<mailbox, fate>>
      BY <1>11 DEF Timeout
    <2>2. \A d \in Clients \ {c} : client'[d] = client[d] /\ call'[d] = call[d]
      BY <1>8, <2>1
    <2>. QED
      BY <1>9, <2>1, <2>2
  <1>12. ASSUME NEW r \in Requests, NEW version \in Nat, AnswersLate(r, version)
         PROVE  Patience' /\ PatientMailboxHasRoom'
    <2>1. /\ Settles(r, version) /\ fate[r.src][r.id] \in OpenFates /\ UNCHANGED call
          /\ client' = client \/ client' = [client EXCEPT ![r.src] = "waiting"]
      BY <1>12 DEF AnswersLate, OpenFates
    <2>2. \A c \in Clients : client[c] \in Busy => client'[c] \in Busy
      BY <1>0, <2>1
    <2>. QED
      BY <2>1, <2>2, CalmSettled
  <1>. QED
    BY <1>0, <1>2, <1>3, <1>5, <1>6, <1>7, <1>10, <1>11, <1>12, Steps

-------------------------------------------------------------------------------
(* What a client has made and got.                                         *)

ClientTypes ==
    /\ client \in [Clients -> {"idle", "panicked"} \cup Busy]
    /\ call \in [Clients -> [id : {0} \cup RequestIds, op : AllOps,
                             dst : ActorIds \cup {INVALID}]]
    /\ result \in [Clients -> [own : {0} \cup RequestIds, from : {0} \cup RequestIds,
                               ok : BOOLEAN]]

\* request_for returns.
LEMMA Returns ==
    ASSUME IInv, NEW c \in Clients, NEW from \in RequestIds \cup {0}, NEW ok \in BOOLEAN,
           ReturnFrom(c, from, ok)
    PROVE  ClientTypes'
  <1>1. /\ client \in [Clients -> {"idle", "panicked"} \cup Busy]
        /\ call \in [Clients -> [id : {0} \cup RequestIds, op : AllOps,
                                 dst : ActorIds \cup {INVALID}]]
        /\ result \in [Clients -> [own : {0} \cup RequestIds, from : {0} \cup RequestIds,
                                   ok : BOOLEAN]]
    BY DEF IInv, TypeInv, TypeOK
  <1>2. client' \in [Clients -> {"idle", "panicked"} \cup Busy]
    BY <1>1 DEF ReturnFrom
  <1>3. call' \in [Clients -> [id : {0} \cup RequestIds, op : AllOps,
                               dst : ActorIds \cup {INVALID}]]
    <2>1. /\ call[c].id \in {0} \cup RequestIds /\ "Work" \in AllOps
          /\ INVALID \in ActorIds \cup {INVALID}
      BY <1>1 DEF AllOps
    <2>2. NoCall(call[c].id) \in [id : {0} \cup RequestIds, op : AllOps,
                                  dst : ActorIds \cup {INVALID}]
      BY <2>1 DEF NoCall
    <2>. QED
      BY <1>1, <2>2 DEF ReturnFrom
  <1>4. /\ result' = [result EXCEPT ![c] = [own |-> call[c].id, from |-> from, ok |-> ok]]
        /\ call[c].id \in {0} \cup RequestIds
    BY <1>1 DEF ReturnFrom
  <1>5. result' \in [Clients -> [own : {0} \cup RequestIds, from : {0} \cup RequestIds,
                                 ok : BOOLEAN]]
    BY <1>1, <1>4
  <1>. QED
    BY <1>2, <1>3, <1>5 DEF ClientTypes

LEMMA ClientsNext ==
    ASSUME IInv, [Next]_vars
    PROVE  ClientTypes'
  <1>0. TypeInv /\ ClientTypes
    BY DEF IInv, TypeInv, TypeOK, ClientTypes
  <1>1. ASSUME UNCHANGED <<client, call, result>>
        PROVE  ClientTypes'
    BY <1>0, <1>1 DEF ClientTypes
  <1>2. CASE \/ TakesHead
             \/ (queue # <<>> /\ ServeStop(Head(queue))) \/ QueueDropped \/ FinishStop \/ Close
             \/ UNCHANGED vars
    BY <1>1, <1>2 DEF TakesHead, ServeStop, QueueDropped, FinishStop, Close, vars, clientVars
  <1>3. ASSUME NEW c \in Clients, NEW op \in Ops, NEW dst \in Targets(op), Request(c, op, dst)
        PROVE  ClientTypes'
    <2>1. PICK r \in Requests : Makes(c, r)
      BY <1>0, <1>3, Requesting
    <2>2. /\ r.id \in RequestIds /\ r.op \in AllOps /\ r.dst \in ActorIds \cup {INVALID}
          /\ \E busy \in Busy : client' = [client EXCEPT ![c] = busy]
          /\ call' = [call EXCEPT ![c] = [id |-> r.id, op |-> r.op, dst |-> r.dst]]
          /\ result' = [result EXCEPT ![c] = NoResult]
      BY <2>1 DEF Makes, Requests
    <2>3. NoResult \in [own : {0} \cup RequestIds, from : {0} \cup RequestIds, ok : BOOLEAN]
      BY DEF NoResult
    <2>4. client' \in [Clients -> {"idle", "panicked"} \cup Busy]
      BY <1>0, <2>2 DEF ClientTypes
    <2>5. call' \in [Clients -> [id : {0} \cup RequestIds, op : AllOps,
                                 dst : ActorIds \cup {INVALID}]]
      BY <1>0, <2>2 DEF ClientTypes
    <2>6. result' \in [Clients -> [own : {0} \cup RequestIds, from : {0} \cup RequestIds,
                                   ok : BOOLEAN]]
      BY <1>0, <2>2, <2>3 DEF ClientTypes
    <2>. QED
      BY <2>4, <2>5, <2>6 DEF ClientTypes
  <1>4. ASSUME NEW c \in Clients, ReceiveResponse(c)
        PROVE  ClientTypes'
    <2>1. PICK m : m = Head(mailbox[c])
      OBVIOUS
    <2>2. m \in Responses
      BY <1>4, <2>1, Receiving
    <2>3. \/ UNCHANGED <<client, call, result>>
          \/ \E ok \in BOOLEAN : ReturnFrom(c, m.id, ok)
      BY <1>4, <2>1 DEF ReceiveResponse
    <2>4. m.id \in RequestIds \cup {0}
      BY <2>2 DEF Responses
    <2>. QED
      BY <1>1, <2>3, <2>4, Returns
  <1>5. ASSUME NEW c \in Clients, Timeout(c)
        PROVE  ClientTypes'
    <2>1. call[c].id \in RequestIds \cup {0} /\ ReturnFrom(c, call[c].id, FALSE)
      BY <1>0, <1>5 DEF ClientTypes, Timeout
    <2>. QED
      BY <2>1, Returns
  <1>6. ASSUME NEW r \in Requests, NEW version \in Nat, AnswersLate(r, version)
        PROVE  ClientTypes'
    <2>1. /\ UNCHANGED <<call, result>>
          /\ client' = client \/ client' = [client EXCEPT ![r.src] = "waiting"]
      BY <1>6 DEF AnswersLate
    <2>. QED
      BY <1>0, <2>1 DEF ClientTypes
  <1>. QED
    BY <1>0, <1>2, <1>3, <1>4, <1>5, <1>6, Steps

-------------------------------------------------------------------------------
(* The types of the rest.                                                  *)

ChannelTypes ==
    /\ Len(queue) <= QueueSize /\ stop \in SUBSET Requests
    /\ mailbox \in [Clients -> Seq(Responses)]
    /\ \A c \in Clients : Len(mailbox[c]) <= MailboxSize
    /\ fate \in [Clients -> [RequestIds -> Fates]]

LEMMA ChannelsNext ==
    ASSUME IInv, [Next]_vars
    PROVE  ChannelTypes'
  <1>0. /\ TypeInv /\ queue \in Seq(Requests) /\ Len(queue) <= QueueSize
        /\ stop \in SUBSET Requests
        /\ mailbox \in [Clients -> Seq(Responses)]
        /\ \A c \in Clients : Len(mailbox[c]) <= MailboxSize
        /\ fate \in [Clients -> [RequestIds -> Fates]]
    BY DEF IInv, TypeInv, TypeOK
  <1>1. ASSUME NEW r \in Requests, NEW version, Settles(r, version)
        PROVE  /\ mailbox' \in [Clients -> Seq(Responses)]
               /\ \A c \in Clients : Len(mailbox'[c]) <= MailboxSize
               /\ fate' \in [Clients -> [RequestIds -> Fates]]
    BY <1>0, <1>1, SettlesType
  <1>2. queue # <<>> => Head(queue) \in Requests /\ Len(Tail(queue)) <= QueueSize
    BY <1>0, QueueHead
  <1>3. CASE TakesHead
    <2>1. PICK r \in Requests : Settles(r, VersionIn(reactive_list', r.dst))
      BY <1>2, <1>3 DEF TakesHead
    <2>2. Len(queue') <= QueueSize /\ stop' = stop
      BY <1>2, <1>3 DEF TakesHead
    <2>. QED
      BY <1>0, <1>1, <2>1, <2>2 DEF ChannelTypes
  <1>4. CASE queue # <<>> /\ ServeStop(Head(queue))
    BY <1>0, <1>2, <1>4 DEF ServeStop, Serving, ChannelTypes
  <1>5. CASE QueueDropped
    BY <1>0, <1>5 DEF QueueDropped, ChannelTypes
  <1>6. CASE FinishStop
    <2>1. PICK r \in Requests : stop' = {} /\ UNCHANGED queue /\ Settles(r, 0)
      BY <1>6, Stopping
    <2>. QED
      BY <1>0, <1>1, <2>1 DEF ChannelTypes
  <1>7. CASE Close
    <2>1. /\ queue' = <<>> /\ UNCHANGED <<stop, mailbox>>
          /\ fate' \in [Clients -> [RequestIds -> Fates]]
      BY <1>7, Closing
    <2>2. Len(queue') <= QueueSize
      BY <2>1
    <2>. QED
      BY <1>0, <2>1, <2>2 DEF ChannelTypes
  <1>8. ASSUME NEW c \in Clients, NEW op \in Ops, NEW dst \in Targets(op), Request(c, op, dst)
        PROVE  ChannelTypes'
    <2>1. PICK r \in Requests : Makes(c, r) /\ (Queued(r) \/ Refused(r))
      BY <1>0, <1>8, Requesting
    <2>2. stop' = stop
      BY <2>1 DEF Makes, dispVars
    <2>3. CASE Queued(r)
      <3>1. Len(Append(queue, r)) = Len(queue) + 1 /\ Len(queue) \in Nat
        BY <1>0, AppendElements
      <3>2. fate' \in [Clients -> [RequestIds -> Fates]]
        BY <1>0, <2>3, BecameMade DEF Queued
      <3>. QED
        BY <1>0, <2>2, <2>3, <3>1, <3>2 DEF Queued, ChannelTypes
    <2>4. CASE Refused(r)
      <3>1. fate' \in [Clients -> [RequestIds -> Fates]]
        BY <1>0, <2>4, BecameMade DEF Refused
      <3>. QED
        BY <1>0, <2>2, <2>4, <3>1 DEF Refused, ChannelTypes
    <2>. QED
      BY <2>1, <2>3, <2>4
  <1>9. ASSUME NEW c \in Clients, ReceiveResponse(c)
        PROVE  ChannelTypes'
    <2>1. /\ mailbox' \in [Clients -> Seq(Responses)]
          /\ Len(mailbox'[c]) <= MailboxSize
          /\ \A d \in Clients \ {c} : mailbox'[d] = mailbox[d]
          /\ UNCHANGED <<queue, stop, fate>>
      BY <1>9, Receiving DEF dispVars
    <2>. QED
      BY <1>0, <2>1 DEF ChannelTypes
  <1>10. ASSUME NEW c \in Clients, Timeout(c)
         PROVE  ChannelTypes'
    BY <1>0, <1>10 DEF Timeout, dispVars, ChannelTypes
  <1>11. CASE UNCHANGED vars
    BY <1>0, <1>11 DEF vars, ChannelTypes
  <1>12. ASSUME NEW r \in Requests, NEW version \in Nat, AnswersLate(r, version)
         PROVE  ChannelTypes'
    <2>1. Settles(r, version) /\ UNCHANGED <<queue, stop>>
      BY <1>12 DEF AnswersLate, dispVars
    <2>. QED
      BY <1>0, <1>1, <2>1 DEF ChannelTypes
  <1>. QED
    BY <1>0, <1>3, <1>4, <1>5, <1>6, <1>7, <1>8, <1>9, <1>10, <1>11, <1>12, Steps

-------------------------------------------------------------------------------
(* Behaviors with requests, and clients with a refused one.                *)

\* A kept request that is not answered by the step stays one.
LEMMA KeptStays ==
    ASSUME IInv, [Next]_vars, NEW k \in kept,
           fate'[k.request.src][k.request.id] = "taken",
           \/ client'[k.request.src] \notin Busy
           \/ k.request.id # call'[k.request.src].id
           \/ /\ client[k.request.src] \in Busy
              /\ call'[k.request.src] = call[k.request.src]
    PROVE  /\ k.request.dst < next_actor_id'
           /\ k.version <= VersionIn(reactive_list', k.request.dst)
           /\ client'[k.request.src] \in Busy /\ k.request.id = call'[k.request.src].id =>
                  k.request.dst = call'[k.request.src].dst
  <1>1. k.request \in Requests /\ k.version \in Nat
    BY DEF IInv, TypeInv, TypeOK
  <1>2. k.request.dst \in Nat
    BY <1>1 DEF Requests, ActorIds, INVALID
  <1>3. /\ k.request.dst < next_actor_id /\ k.version <= VersionIn(reactive_list, k.request.dst)
        /\ client[k.request.src] \in Busy /\ k.request.id = call[k.request.src].id =>
               k.request.dst = call[k.request.src].dst
    BY DEF IInv, KeptOK
  <1>4. /\ next_actor_id \in Nat /\ next_actor_id' \in Nat /\ next_actor_id <= next_actor_id'
        /\ VersionIn(reactive_list', k.request.dst) \in Nat
        /\ VersionIn(reactive_list, k.request.dst) \in Nat
        /\ VersionIn(reactive_list, k.request.dst) <= VersionIn(reactive_list', k.request.dst)
    BY <1>2, <1>3, VersionsGrow, VersionBound DEF IInv
  <1>. QED
    BY <1>1, <1>2, <1>3, <1>4

\* Which requests behaviors have and which are refused, after a step that changes neither.
LEMMA KeptUnchanged ==
    ASSUME IInv, [Next]_vars, UNCHANGED kept,
           \A c \in Clients, i \in RequestIds :
               /\ fate'[c][i] = "taken" <=> fate[c][i] = "taken"
               /\ fate'[c][i] = "refused" <=> fate[c][i] = "refused",
           \A c \in Clients :
               /\ client'[c] = "refused" <=> client[c] = "refused"
               /\ client'[c] \in Busy => client[c] \in Busy /\ call'[c] = call[c]
    PROVE  KeptOK' /\ Refusals'
  <1>0. \A k \in kept : k.request.src \in Clients /\ k.request.id \in RequestIds
    BY DEF IInv, TypeInv, TypeOK, Requests
  <1>1. KeptOK /\ Refusals
    BY DEF IInv
  <1>2. ASSUME NEW k \in kept
        PROVE  /\ fate'[k.request.src][k.request.id] = "taken"
               /\ k.request.dst < next_actor_id'
               /\ k.version <= VersionIn(reactive_list', k.request.dst)
               /\ client'[k.request.src] \in Busy /\ k.request.id = call'[k.request.src].id =>
                      k.request.dst = call'[k.request.src].dst
    <2>1. fate'[k.request.src][k.request.id] = "taken"
      BY <1>0, <1>1 DEF KeptOK
    <2>. QED
      BY <1>0, <2>1, KeptStays
  <1>3. KeptOK'
    BY <1>1, <1>2 DEF KeptOK, VersionIn
  <1>4. Refusals'
    BY <1>1 DEF Refusals
  <1>. QED
    BY <1>3, <1>4

LEMMA KeptNext ==
    ASSUME IInv, [Next]_vars
    PROVE  KeptOK' /\ Refusals'
  <1>0. /\ TypeInv /\ KeptOK /\ Refusals
        /\ fate \in [Clients -> [RequestIds -> Fates]]
        /\ client \in [Clients -> {"idle", "panicked"} \cup Busy]
        /\ call \in [Clients -> [id : {0} \cup RequestIds, op : AllOps,
                                 dst : ActorIds \cup {INVALID}]]
        /\ \A k \in kept :
              k.request \in Requests /\ k.request.src \in Clients /\ k.request.id \in RequestIds
    BY DEF IInv, TypeInv, TypeOK, Requests
  <1>1. CASE TakesHead
    <2>1. PICK r : r = Head(queue)
      OBVIOUS
    <2>2. /\ queue # <<>> /\ Settles(r, VersionIn(reactive_list', r.dst))
          /\ UNCHANGED <<client, call>>
      BY <1>1, <2>1 DEF TakesHead, clientVars
    <2>3. r \in Requests /\ fate[r.src][r.id] = "queued" /\ r \in InSeq(queue)
      BY <1>0, <2>1, <2>2, QueueHead, HeadQueued
    <2>4. PICK why \in Fates \ {"unsent", "queued", "refused"} : Became(fate, fate', r, why)
      BY <2>2 DEF Settles
    <2>5. \A c \in Clients, i \in RequestIds :
             /\ ~Asks(r, c, i) => fate'[c][i] = fate[c][i]
             /\ Asks(r, c, i) => fate'[c][i] = why
      BY <1>0, <2>3, <2>4, BecameSettled
    <2>6. /\ \A c \in Clients, i \in RequestIds : Asks(r, c, i) => fate[c][i] = "queued"
          /\ \A c \in Clients, i \in RequestIds : fate'[c][i] = "refused" <=> fate[c][i] = "refused"
      BY <2>3, <2>5 DEF Asks
    <2>7. CASE UNCHANGED kept /\ fate'[r.src][r.id] # "taken"
      <3>1. why # "taken"
        BY <2>3, <2>5, <2>7 DEF Asks, Requests
      <3>. QED
        BY <2>2, <2>5, <2>6, <2>7, <3>1, KeptUnchanged
    <2>8. CASE r.dst \in DOMAIN reactive_list /\ UNCHANGED <<reactive_list, next_actor_id>> /\ Keep(r)
      <3>. DEFINE new == [request |-> r, version |-> reactive_list[r.dst]]
      <3>1. kept' = kept \cup {new} /\ new.request = r /\ new.version = reactive_list[r.dst]
        BY <2>8 DEF Keep
      <3>. HIDE DEF new
      <3>2. fate'[r.src][r.id] = "taken"
        BY <1>0, <2>3, <2>8 DEF Keep, NoAnswer, Requests
      <3>3. ASSUME NEW k \in kept
            PROVE  ~Asks(r, k.request.src, k.request.id)
        BY <1>0, <2>3, <2>6 DEF KeptOK, Asks
      <3>4. ASSUME NEW k \in kept
            PROVE  /\ fate'[k.request.src][k.request.id] = "taken"
                   /\ k.request.dst < next_actor_id'
                   /\ k.version <= VersionIn(reactive_list', k.request.dst)
                   /\ client'[k.request.src] \in Busy /\ k.request.id = call'[k.request.src].id =>
                          k.request.dst = call'[k.request.src].dst
        <4>1. fate'[k.request.src][k.request.id] = "taken"
          BY <1>0, <2>5, <3>3 DEF KeptOK
        <4>. QED
          BY <1>0, <2>8, <2>2, <4>1 DEF KeptOK
      <3>5. /\ r.dst < next_actor_id' /\ new.version <= VersionIn(reactive_list', r.dst)
            /\ client'[r.src] \in Busy /\ r.id = call'[r.src].id => r.dst = call'[r.src].dst
        <4>1. Told
          BY DEF IInv
        <4>2. reactive_list[r.dst] \in Nat
          BY <1>0, <2>8, RequestsFinite DEF TypeInv, TypeOK
        <4>. QED
          BY <2>2, <2>3, <2>8, <3>1, <4>1, <4>2 DEF Told, VersionIn
      <3>6. \A k1, k2 \in kept' : Asks(k1.request, k2.request.src, k2.request.id) => k1 = k2
        BY <1>0, <3>1, <3>3 DEF KeptOK, Asks
      <3>7. \A c \in Clients, i \in RequestIds :
               fate'[c][i] = "taken" => \E k \in kept' : Asks(k.request, c, i)
        BY <1>0, <2>5, <3>1 DEF KeptOK
      <3>8. KeptOK'
        BY <3>1, <3>2, <3>4, <3>5, <3>6, <3>7 DEF KeptOK, VersionIn
      <3>9. Refusals'
        BY <1>0, <2>2, <2>6 DEF Refusals
      <3>. QED
        BY <3>8, <3>9
    <2>. QED
      BY <1>1, <2>1, <2>7, <2>8 DEF TakesHead
  <1>2. ASSUME UNCHANGED <<kept, fate>>,
               \A c \in Clients :
                   /\ client'[c] = "refused" <=> client[c] = "refused"
                   /\ client'[c] \in Busy => client[c] \in Busy /\ call'[c] = call[c]
        PROVE  KeptOK' /\ Refusals'
    BY <1>2, KeptUnchanged
  <1>3. CASE queue # <<>> /\ ServeStop(Head(queue))
    BY <1>2, <1>3 DEF ServeStop, clientVars
  <1>4. CASE QueueDropped
    BY <1>2, <1>4 DEF QueueDropped, clientVars
  <1>5. CASE UNCHANGED vars
    BY <1>2, <1>5 DEF vars
  <1>6. CASE FinishStop
    <2>1. PICK r \in Requests :
              /\ UNCHANGED <<kept, client, call>> /\ fate'[r.src][r.id] # "taken"
              /\ Settles(r, 0) /\ fate[r.src][r.id] = "queued"
      BY <1>6, Stopping DEF clientVars
    <2>2. PICK why \in Fates \ {"unsent", "queued", "refused"} : Became(fate, fate', r, why)
      BY <2>1 DEF Settles
    <2>3. \A c \in Clients, i \in RequestIds :
             /\ ~Asks(r, c, i) => fate'[c][i] = fate[c][i]
             /\ Asks(r, c, i) => fate'[c][i] = why
      BY <1>0, <2>1, <2>2, BecameSettled
    <2>4. \A c \in Clients, i \in RequestIds : Asks(r, c, i) => fate[c][i] = "queued"
      BY <2>1 DEF Asks
    <2>5. why # "taken"
      BY <2>1, <2>3 DEF Asks, Requests
    <2>. QED
      BY <2>1, <2>3, <2>4, <2>5, KeptUnchanged
  <1>7. CASE Close
    <2>1. /\ UNCHANGED <<kept, client, call>>
          /\ \A c \in Clients, i \in RequestIds :
                fate'[c][i] = IF fate[c][i] = "queued" THEN "discarded" ELSE fate[c][i]
      BY <1>7, Closing DEF clientVars
    <2>. QED
      BY <2>1, KeptUnchanged
  <1>8. ASSUME NEW c \in Clients, NEW op \in Ops, NEW dst \in Targets(op), Request(c, op, dst)
        PROVE  KeptOK' /\ Refusals'
    <2>1. PICK r \in Requests : Makes(c, r) /\ (Queued(r) \/ Refused(r))
      BY <1>0, <1>8, Requesting
    <2>2. /\ r.src = c /\ UNCHANGED kept /\ call'[c].id = r.id /\ r.id \in RequestIds
          /\ \A d \in Clients \ {c} : call'[d] = call[d] /\ client'[d] = client[d]
          /\ client[c] = "idle" /\ fate[c][r.id] = "unsent"
      BY <1>0, <2>1, MadeUnsent DEF Makes, Requests
    <2>3. PICK why \in {"queued", "refused"} :
              /\ \A d \in Clients, i \in RequestIds :
                    fate'[d][i] = IF Asks(r, d, i) THEN why ELSE fate[d][i]
              /\ client'[c] = IF why = "refused" THEN "refused" ELSE "waiting"
      BY <1>0, <2>1, <2>2, BecameMade DEF Queued, Refused
    <2>4. \A d \in Clients, i \in RequestIds : fate'[d][i] = "taken" <=> fate[d][i] = "taken"
      BY <2>2, <2>3 DEF Asks
    <2>5. ASSUME NEW k \in kept
          PROVE  /\ fate'[k.request.src][k.request.id] = "taken"
                 /\ k.request.dst < next_actor_id'
                 /\ k.version <= VersionIn(reactive_list', k.request.dst)
                 /\ client'[k.request.src] \in Busy /\ k.request.id = call'[k.request.src].id =>
                        k.request.dst = call'[k.request.src].dst
      <3>1. fate[k.request.src][k.request.id] = "taken"
        BY <1>0 DEF KeptOK
      <3>2. fate'[k.request.src][k.request.id] = "taken"
        BY <1>0, <2>4, <3>1
      <3>3. k.request.src = c => k.request.id # call'[c].id
        BY <2>2, <3>1
      <3>4. k.request.src # c =>
               client'[k.request.src] = client[k.request.src] /\ call'[k.request.src] = call[k.request.src]
        BY <1>0, <2>2
      <3>. QED
        BY <3>2, <3>3, <3>4, KeptStays
    <2>6. KeptOK'
      BY <1>0, <2>2, <2>4, <2>5 DEF KeptOK, VersionIn
    <2>7. Refusals'
      <3>1. ASSUME NEW d \in Clients
            PROVE  /\ client'[d] \in Busy => call'[d].id \in RequestIds
                   /\ client'[d] = "refused" => fate'[d][call'[d].id] = "refused"
                   /\ \A i \in RequestIds :
                          fate'[d][i] = "refused" => client'[d] = "refused" /\ i = call'[d].id
        <4>1. CASE d = c
          <5>1. \A i \in RequestIds : Asks(r, c, i) <=> i = r.id
            BY <2>2 DEF Asks
          <5>2. \A i \in RequestIds : fate[c][i] # "refused"
            BY <1>0, <2>2 DEF Refusals
          <5>. QED
            BY <2>2, <2>3, <4>1, <5>1, <5>2
        <4>2. CASE d # c
          <5>1. client'[d] = client[d] /\ call'[d] = call[d]
            BY <2>2, <4>2
          <5>2. \A i \in RequestIds : fate'[d][i] = fate[d][i]
            BY <2>2, <2>3, <4>2 DEF Asks
          <5>. QED
            BY <1>0, <5>1, <5>2 DEF Refusals
        <4>. QED
          BY <4>1, <4>2
      <3>. QED
        BY <3>1 DEF Refusals
    <2>. QED
      BY <2>6, <2>7
  <1>9. ASSUME NEW c \in Clients, NEW from, NEW ok, ReturnFrom(c, from, ok), client[c] = "waiting"
        PROVE  \A d \in Clients :
                  /\ client'[d] = "refused" <=> client[d] = "refused"
                  /\ client'[d] \in Busy => client[d] \in Busy /\ call'[d] = call[d]
    BY <1>0, <1>9 DEF ReturnFrom
  <1>10. ASSUME NEW c \in Clients, ReceiveResponse(c)
         PROVE  KeptOK' /\ Refusals'
    <2>1. /\ client[c] = "waiting" /\ UNCHANGED <<kept, fate>>
          /\ UNCHANGED <<client, call>> \/ \E from, ok : ReturnFrom(c, from, ok)
      BY <1>10 DEF ReceiveResponse
    <2>. QED
      BY <1>2, <1>9, <2>1
  <1>11. ASSUME NEW c \in Clients, Timeout(c)
         PROVE  KeptOK' /\ Refusals'
    <2>1. /\ client[c] = "waiting" /\ UNCHANGED <<kept, fate>>
          /\ ReturnFrom(c, call[c].id, FALSE)
      BY <1>11 DEF Timeout
    <2>. QED
      BY <1>2, <1>9, <2>1
  <1>12. ASSUME NEW r \in Requests, NEW version \in Nat, AnswersLate(r, version)
         PROVE  KeptOK' /\ Refusals'
    <2>1. /\ Settles(r, version) /\ fate'[r.src][r.id] \in {"answered", "mailbox full"}
          /\ UNCHANGED <<reactive_list, next_actor_id, call>>
          /\ r.src \in Clients /\ r.id \in RequestIds
      BY <1>12 DEF AnswersLate, dispVars, Requests
    <2>2. PICK why \in Fates \ {"unsent", "queued", "refused"} : Became(fate, fate', r, why)
      BY <2>1 DEF Settles
    <2>3. \A c \in Clients, i \in RequestIds :
             /\ ~Asks(r, c, i) => fate'[c][i] = fate[c][i]
             /\ Asks(r, c, i) => fate'[c][i] \notin {"taken", "refused"}
      <3>1. \A c \in Clients, i \in RequestIds :
               /\ ~Asks(r, c, i) => fate'[c][i] = fate[c][i]
               /\ Asks(r, c, i) => fate'[c][i] = why
        BY <1>0, <2>2, BecameSettled
      <3>2. why \in {"answered", "mailbox full"}
        BY <2>1, <3>1 DEF Asks
      <3>. QED
        BY <3>1, <3>2
    <2>4. CASE UNCHANGED client /\ fate[r.src][r.id] = "taken"
               /\ \E k \in kept : k.request = r /\ kept' = kept \ {k}
      <3>1. PICK gone \in kept : gone.request = r /\ kept' = kept \ {gone}
        BY <2>4
      <3>2. \A k \in kept' : k \in kept /\ ~Asks(r, k.request.src, k.request.id)
        BY <1>0, <3>1 DEF KeptOK
      <3>3. \A k \in kept' :
               /\ fate'[k.request.src][k.request.id] = "taken"
               /\ k.request.dst < next_actor_id'
               /\ k.version <= VersionIn(reactive_list', k.request.dst)
               /\ client'[k.request.src] \in Busy /\ k.request.id = call'[k.request.src].id =>
                      k.request.dst = call'[k.request.src].dst
        <4>. TAKE k \in kept'
        <4>1. fate'[k.request.src][k.request.id] = "taken"
          BY <1>0, <2>3, <3>2 DEF KeptOK
        <4>. QED
          BY <1>0, <2>1, <2>4, <3>2, <4>1 DEF KeptOK
      <3>4. \A c \in Clients, i \in RequestIds :
               fate'[c][i] = "taken" => \E k \in kept' : Asks(k.request, c, i)
        <4>. SUFFICES ASSUME NEW c \in Clients, NEW i \in RequestIds, fate'[c][i] = "taken"
                      PROVE  \E k \in kept' : Asks(k.request, c, i)
          OBVIOUS
        <4>1. ~Asks(r, c, i) /\ fate[c][i] = "taken"
          BY <2>3
        <4>2. PICK k \in kept : Asks(k.request, c, i)
          BY <1>0, <4>1 DEF KeptOK
        <4>3. k # gone
          BY <3>1, <4>1, <4>2
        <4>. QED
          BY <3>1, <4>2, <4>3
      <3>5. \A k1, k2 \in kept' : Asks(k1.request, k2.request.src, k2.request.id) => k1 = k2
        BY <1>0, <3>2 DEF KeptOK
      <3>6. KeptOK'
        BY <3>3, <3>4, <3>5 DEF KeptOK, VersionIn
      <3>7. \A c \in Clients, i \in RequestIds : fate'[c][i] = "refused" <=> fate[c][i] = "refused"
        BY <2>3, <2>4 DEF Asks
      <3>8. Refusals'
        <4>. SUFFICES ASSUME NEW c \in Clients
                      PROVE  /\ client'[c] \in Busy => call'[c].id \in RequestIds
                             /\ client'[c] = "refused" => fate'[c][call'[c].id] = "refused"
                             /\ \A i \in RequestIds :
                                    fate'[c][i] = "refused" => client'[c] = "refused" /\ i = call'[c].id
          BY DEF Refusals
        <4>1. client'[c] = client[c] /\ call'[c] = call[c]
          BY <2>1, <2>4
        <4>. QED
          BY <1>0, <3>7, <4>1 DEF Refusals
      <3>. QED
        BY <3>6, <3>8
    <2>5. CASE /\ UNCHANGED kept /\ fate[r.src][r.id] = "refused"
               /\ client[r.src] = "refused" /\ client' = [client EXCEPT ![r.src] = "waiting"]
      <3>1. /\ client'[r.src] = "waiting"
            /\ \A c \in Clients \ {r.src} : client'[c] = client[c]
            /\ \A c \in Clients : client'[c] \in Busy <=> client[c] \in Busy
        BY <1>0, <2>1, <2>5
      <3>2. \A c \in Clients, i \in RequestIds : fate'[c][i] = "taken" <=> fate[c][i] = "taken"
        BY <2>3, <2>5 DEF Asks
      <3>3. \A k \in kept' :
               /\ fate'[k.request.src][k.request.id] = "taken"
               /\ k.request.dst < next_actor_id'
               /\ k.version <= VersionIn(reactive_list', k.request.dst)
               /\ client'[k.request.src] \in Busy /\ k.request.id = call'[k.request.src].id =>
                      k.request.dst = call'[k.request.src].dst
        <4>. TAKE k \in kept'
        <4>1. k \in kept /\ call'[k.request.src] = call[k.request.src]
          BY <2>1, <2>5
        <4>2. fate'[k.request.src][k.request.id] = "taken"
          BY <1>0, <3>2, <4>1 DEF KeptOK
        <4>3. client'[k.request.src] \in Busy => client[k.request.src] \in Busy
          BY <1>0, <3>1, <4>1
        <4>. QED
          BY <1>0, <2>1, <4>1, <4>2, <4>3 DEF KeptOK
      <3>4. KeptOK'
        BY <1>0, <2>5, <3>2, <3>3 DEF KeptOK, VersionIn
      <3>5. r.id = call[r.src].id
        BY <1>0, <2>1, <2>5 DEF Refusals
      <3>6. Refusals'
        <4>. SUFFICES ASSUME NEW c \in Clients
                      PROVE  /\ client'[c] \in Busy => call'[c].id \in RequestIds
                             /\ client'[c] = "refused" => fate'[c][call'[c].id] = "refused"
                             /\ \A i \in RequestIds :
                                    fate'[c][i] = "refused" => client'[c] = "refused" /\ i = call'[c].id
          BY DEF Refusals
        <4>1. CASE c = r.src
          <5>1. call'[c].id = r.id /\ client'[c] = "waiting"
            BY <2>1, <3>1, <3>5, <4>1
          <5>2. \A i \in RequestIds : fate'[c][i] # "refused"
            <6>. TAKE i \in RequestIds
            <6>1. CASE i = r.id
              BY <2>3, <4>1, <6>1 DEF Asks
            <6>2. CASE i # r.id
              <7>1. fate'[c][i] = fate[c][i]
                BY <2>3, <4>1, <6>2 DEF Asks
              <7>. QED
                BY <1>0, <3>5, <4>1, <6>2, <7>1 DEF Refusals
            <6>. QED
              BY <6>1, <6>2
          <5>. QED
            BY <2>1, <5>1, <5>2
        <4>2. CASE c # r.src
          <5>1. \A i \in RequestIds : fate'[c][i] = fate[c][i]
            BY <2>3, <4>2 DEF Asks
          <5>. QED
            <6>1. call'[c] = call[c] /\ client'[c] = client[c]
              BY <2>1, <3>1, <4>2
            <6>. QED
              BY <1>0, <5>1, <6>1 DEF Refusals
        <4>. QED
          BY <4>1, <4>2
      <3>. QED
        BY <3>4, <3>6
    <2>. QED
      BY <1>12, <2>4, <2>5 DEF AnswersLate
  <1>. QED
    BY <1>1, <1>3, <1>4, <1>5, <1>6, <1>7, <1>8, <1>10, <1>11, <1>12, Steps

LEMMA KeptType ==
    ASSUME IInv, [Next]_vars
    PROVE  kept' \subseteq [request : Requests, version : 1 .. Gone - 1]
  <1>0. /\ TypeInv /\ kept \subseteq [request : Requests, version : 1 .. Gone - 1]
        /\ \A a \in DOMAIN reactive_list : reactive_list[a] \in 1 .. Gone - 1
    BY DEF IInv, TypeInv, TypeOK
  <1>1. CASE TakesHead
    <2>1. PICK r : r = Head(queue)
      OBVIOUS
    <2>2. r \in Requests
      BY <1>0, <1>1, <2>1, QueueHead DEF TakesHead
    <2>. QED
      BY <1>0, <1>1, <2>1, <2>2 DEF TakesHead, Keep
  <1>2. ASSUME NEW r \in Requests, NEW version \in Nat, AnswersLate(r, version)
        PROVE  kept' \subseteq kept
    BY <1>2 DEF AnswersLate
  <1>3. ASSUME NEW c \in Clients, NEW op \in Ops, NEW dst \in Targets(op), Request(c, op, dst)
        PROVE  kept' = kept
    BY <1>3 DEF Request
  <1>4. ASSUME NEW c \in Clients, ReceiveResponse(c) \/ Timeout(c)
        PROVE  kept' = kept
    BY <1>4 DEF ReceiveResponse, Timeout
  <1>5. CASE \/ (queue # <<>> /\ ServeStop(Head(queue))) \/ QueueDropped \/ FinishStop \/ Close
             \/ UNCHANGED vars
    BY <1>0, <1>5 DEF ServeStop, QueueDropped, FinishStop, Close, vars
  <1>. QED
    BY <1>0, <1>1, <1>2, <1>3, <1>4, <1>5, Steps

-------------------------------------------------------------------------------
(* All types together.                                                     *)

LEMMA TypeNext ==
    ASSUME IInv, [Next]_vars
    PROVE  TypeInv'
  <1>1. /\ DOMAIN reactive_list' \subseteq ActorIds
        /\ \A a \in DOMAIN reactive_list' : reactive_list'[a] \in 1 .. Gone - 1
    <2>1. \A a \in DOMAIN reactive_list' : reactive_list'[a] \in 1 .. Gone - 1
      BY VersionsNext
    <2>2. DOMAIN reactive_list' \subseteq ActorIds
      <3>1. /\ \A a \in DOMAIN reactive_list' : a \in Nat \ {0} /\ a < next_actor_id'
            /\ next_actor_id' \in 1 .. MaxActors + 1
        BY VersionsGrow, IdsNext
      <3>. QED
        BY <3>1 DEF ActorIds
    <2>. QED
      BY <2>1, <2>2
  <1>2. /\ queue' \in Seq(Requests) /\ next_actor_id' \in 1 .. MaxActors + 1
        /\ pc' \in {"serve", "drain", "clear", "drop", "close", "ended"}
        /\ owed' \in SUBSET Requests /\ acked' \in [ActorIds -> 0 .. Gone]
    BY IdsNext, StopNext, OwedNext, ToldNext
  <1>3. ChannelTypes' /\ ClientTypes'
    BY ChannelsNext, ClientsNext
  <1>4. kept' \subseteq [request : Requests, version : 1 .. Gone - 1]
    BY KeptType
  <1>. QED
    BY <1>1, <1>2, <1>3, <1>4 DEF TypeInv, TypeOK, ChannelTypes, ClientTypes

-------------------------------------------------------------------------------
(* The invariant.                                                          *)

LEMMA InvInit == Init => IInv
  <1>. SUFFICES ASSUME Init PROVE IInv
    OBVIOUS
  <1>. USE DEF Init
  <1>0. /\ Gone \in Nat /\ Gone >= 2
        /\ InSeq(<<>>) = {} /\ <<>> \in Seq(Requests) /\ <<>> \in Seq(Responses)
    BY RequestsFinite DEF InSeq
  <1>1. /\ DOMAIN reactive_list = {}
        /\ \A c \in Clients : mailbox[c] = <<>> /\ client[c] = "idle" /\ call[c] = NoCall(0)
        /\ \A c \in Clients, i \in RequestIds : fate[c][i] = "unsent"
        /\ \A c \in Clients : InSeq(mailbox[c]) = {}
    BY <1>0
  <1>2. TypeInv
    <2>1. NoCall(0) \in [id : {0} \cup RequestIds, op : AllOps, dst : ActorIds \cup {INVALID}]
      BY DEF NoCall, AllOps
    <2>2. NoResult \in [own : {0} \cup RequestIds, from : {0} \cup RequestIds, ok : BOOLEAN]
      BY DEF NoResult
    <2>3. mailbox \in [Clients -> Seq(Responses)]
      BY <1>0
    <2>4. /\ fate \in [Clients -> [RequestIds -> Fates]] /\ acked \in [ActorIds -> 0 .. Gone]
      BY <1>0 DEF Fates
    <2>5. Len(queue) <= QueueSize /\ \A c \in Clients : Len(mailbox[c]) <= MailboxSize
      BY <1>1
    <2>6. /\ client \in [Clients -> {"idle", "panicked"} \cup Busy]
          /\ call \in [Clients -> [id : {0} \cup RequestIds, op : AllOps,
                                   dst : ActorIds \cup {INVALID}]]
          /\ result \in [Clients -> [own : {0} \cup RequestIds, from : {0} \cup RequestIds,
                                     ok : BOOLEAN]]
      BY <2>1, <2>2
    <2>7. next_actor_id \in 1 .. MaxActors + 1
      OBVIOUS
    <2>. QED
      BY <1>0, <1>1, <2>3, <2>4, <2>5, <2>6, <2>7 DEF TypeInv, TypeOK
  <1>3. InPlace
    <2>1. QueueOnce(queue) /\ \A c \in Clients : MailboxOnce(mailbox[c])
      BY <1>1 DEF QueueOnce, MailboxOnce
    <2>2. \A c \in Clients, i \in RequestIds : i > call[c].id
      BY <1>1, RequestsFinite DEF NoCall
    <2>3. InSeq(queue) \cup stop = {}
      BY <1>0
    <2>. QED
      BY <1>0, <1>1, <2>1, <2>2, <2>3 DEF InPlace, Placed
  <1>4. StopWithPc /\ Owed
    BY DEF StopWithPc, Owed
  <1>5. VersionsCounted
    BY <1>1 DEF VersionsCounted
  <1>6. IdsCounted
    <2>1. Cardinality(Registrations(queue)) = 0
      BY <1>0, RegistrationsFinite
    <2>. QED
      BY <2>1 DEF IdsCounted
  <1>7. Told
    <2>1. \A a \in ActorIds : acked[a] = 0 /\ VersionIn(reactive_list, a) = Gone
      BY <1>1 DEF VersionIn
    <2>. QED
      BY <1>0, <1>1, <2>1 DEF Told
  <1>8. Patience /\ PatientMailboxHasRoom
    <2>1. \A c \in Patient : c \in Clients
      OBVIOUS
    <2>. QED
      BY <1>1, <2>1 DEF Patience, Calm, PatientMailboxHasRoom, OpenFates
  <1>9. KeptOK /\ Refusals
    BY <1>1 DEF KeptOK, Refusals
  <1>. QED
    BY <1>2, <1>3, <1>4, <1>5, <1>6, <1>7, <1>8, <1>9 DEF IInv

LEMMA InvNext == IInv /\ [Next]_vars => IInv'
  <1>. SUFFICES ASSUME IInv, [Next]_vars PROVE IInv'
    OBVIOUS
  <1>1. TypeInv' /\ StopWithPc' /\ Owed' /\ VersionsCounted' /\ IdsCounted' /\ Told'
    BY TypeNext, StopNext, OwedNext, VersionsNext, IdsNext, ToldNext
  <1>2. Patience' /\ PatientMailboxHasRoom' /\ KeptOK' /\ Refusals'
    BY PatienceNext, KeptNext
  <1>3. InPlace'
    BY InPlaceNext DEF InPlace
  <1>. QED
    BY <1>1, <1>2, <1>3 DEF IInv

LEMMA Inv == Spec => []IInv
  BY InvInit, InvNext, PTL DEF Spec

-------------------------------------------------------------------------------
(* The properties.                                                         *)

\* Every variable stays in its type: in particular neither the queue nor a mailbox
\* outgrows its capacity, and generate_actor_id stays below its bound.
THEOREM TypeCorrect == Spec => []TypeOK
  <1>1. IInv => TypeOK
    BY DEF IInv, TypeInv
  <1>. QED
    BY <1>1, Inv, PTL

\* A request that is not settled is in the queue, is the StopDispatcher under way or is
\* with a behavior, once; a response is in a mailbox only for an answered request, once.
THEOREM InOnePlace == Spec => []RequestInOnePlace
  <1>1. ASSUME IInv PROVE RequestInOnePlace
    <2>0. /\ queue \in Seq(Requests) /\ stop \in SUBSET Requests
          /\ mailbox \in [Clients -> Seq(Responses)]
          /\ Placed(queue, stop, mailbox, fate, call)
      BY <1>1, Types DEF IInv, InPlace
    <2>1. \A S : (\A x, y \in S : x = y) =>
              IF S = {} THEN Cardinality(S) = 0 ELSE Cardinality(S) = 1
      <3>. SUFFICES ASSUME NEW S, \A x, y \in S : x = y, S # {} PROVE Cardinality(S) = 1
        BY FS_EmptySet
      <3>1. PICK x : x \in S
        OBVIOUS
      <3>2. S = {x}
        BY <3>1
      <3>. QED
        BY <3>2, FS_Singleton
    <2>2. ASSUME NEW c \in Clients, NEW i \in RequestIds
          PROVE  Cardinality(QueuePlaces(c, i)) + Cardinality(StopPlaces(c, i))
                     = (IF fate[c][i] = "queued" THEN 1 ELSE 0)
      <3>1. /\ \A n, k \in QueuePlaces(c, i) : n = k
            /\ \A r1, r2 \in StopPlaces(c, i) : r1 = r2
        BY <2>0 DEF QueuePlaces, StopPlaces, Placed, QueueOnce
      <3>2. /\ QueuePlaces(c, i) # {} <=> \E r \in InSeq(queue) : Asks(r, c, i)
            /\ StopPlaces(c, i) # {} <=> \E r \in stop : Asks(r, c, i)
        BY DEF QueuePlaces, StopPlaces, InSeq, Asks
      <3>3. fate[c][i] = "queued" <=> \E r \in InSeq(queue) \cup stop : Asks(r, c, i)
        BY <2>0 DEF Placed
      <3>4. ~(\E r \in InSeq(queue) : Asks(r, c, i)) \/ ~(\E r \in stop : Asks(r, c, i))
        <4>1. \A r1 \in InSeq(queue), r2 \in stop : ~Asks(r1, r2.src, r2.id)
          BY <2>0 DEF Placed
        <4>. QED
          BY <4>1 DEF Asks
      <3>. QED
        BY <2>1, <3>1, <3>2, <3>3, <3>4
    <2>3. ASSUME NEW c \in Clients, NEW i \in RequestIds
          PROVE  Cardinality(MailboxPlaces(c, i)) <= (IF fate[c][i] = "answered" THEN 1 ELSE 0)
      <3>1. \A n, k \in MailboxPlaces(c, i) : n = k
        BY <2>0 DEF MailboxPlaces, Placed, MailboxOnce
      <3>2. MailboxPlaces(c, i) # {} => fate[c][i] = "answered"
        BY <2>0 DEF MailboxPlaces, Placed, InSeq
      <3>. QED
        BY <2>1, <3>1, <3>2
    <2>4. ASSUME NEW c \in Clients, NEW i \in RequestIds
          PROVE  Cardinality(KeptPlaces(c, i)) = (IF fate[c][i] = "taken" THEN 1 ELSE 0)
      <3>0. KeptOK
        BY <1>1 DEF IInv
      <3>1. \A k1, k2 \in KeptPlaces(c, i) : k1 = k2
        BY <3>0 DEF KeptOK, KeptPlaces, Asks
      <3>2. KeptPlaces(c, i) # {} <=> fate[c][i] = "taken"
        BY <3>0 DEF KeptOK, KeptPlaces, Asks
      <3>. QED
        BY <2>1, <3>1, <3>2
    <2>. QED
      BY <2>2, <2>3, <2>4 DEF RequestInOnePlace
  <1>. QED
    BY <1>1, Inv, PTL

\* When StopDispatcher is answered, every request that was queued behind it has been
\* settled and no behavior is left.
THEOREM StopInOrder == Spec => StopOrder
  <1>1. ASSUME IInv, [Next]_vars
        PROVE  stop # {} /\ stop' = {} =>
                   /\ \A r \in owed : fate[r.src][r.id] # "queued"
                   /\ DOMAIN reactive_list' = {}
    <2>. SUFFICES ASSUME stop # {}, stop' = {}
                  PROVE  /\ \A r \in owed : fate[r.src][r.id] # "queued"
                         /\ DOMAIN reactive_list' = {}
      OBVIOUS
    <2>0. IInv /\ Owed
      BY <1>1 DEF IInv
    <2>1. ASSUME NEW c \in Clients, NEW op \in Ops, NEW dst \in Targets(op), Request(c, op, dst)
          PROVE  stop' = stop
      BY <2>1 DEF Request, dispVars
    <2>2. ASSUME NEW c \in Clients, ReceiveResponse(c) \/ Timeout(c)
          PROVE  stop' = stop
      BY <2>2 DEF ReceiveResponse, Timeout, dispVars
    <2>3. (queue # <<>> /\ ServeStop(Head(queue))) => stop' # {}
      BY DEF ServeStop
    <2>6. ASSUME NEW r \in Requests, NEW version \in Nat, AnswersLate(r, version)
          PROVE  stop' = stop
      BY <2>6 DEF AnswersLate, dispVars
    <2>4. FinishStop
      BY <1>1, <2>0, <2>1, <2>2, <2>3, <2>6, Steps DEF TakesHead, QueueDropped, Close, vars
    <2>5. pc = "clear" /\ DOMAIN reactive_list' = {}
      BY <2>4 DEF FinishStop
    <2>. QED
      BY <2>0, <2>5 DEF Owed
  <1>. QED
    BY <1>1, Inv, PTL DEF Spec, StopOrder

\* What a client was told of a reactive, that it is gone or has a new behavior, is true
\* ever after, for every copy of its address.
THEOREM ToldIsTrue == Spec => []EffectsLast
  <1>1. IInv => EffectsLast
    BY DEF IInv, Told, EffectsLast, Version, VersionIn
  <1>. QED
    BY <1>1, Inv, PTL

\* A client that waits with Duration::MAX never loses a response to its full mailbox.
THEOREM PatientHasRoom == Spec => []PatientMailboxHasRoom
  <1>1. IInv => PatientMailboxHasRoom
    BY DEF IInv
  <1>. QED
    BY <1>1, Inv, PTL
===============================================================================
