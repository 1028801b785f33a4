---------------------------- MODULE MailboxProofs ----------------------------
(***************************************************************************)
(* Proofs about Mailbox for any mailboxes, types and capacities and any    *)
(* number of requests and notifications: type correctness; the awaited     *)
(* response is neither set aside nor passed over; every message is in one  *)
(* place, once; notifications overtake only among what was set aside; and  *)
(* Mailbox implements RequestReply.                                        *)
(***************************************************************************)
EXTENDS Mailbox, FiniteSetTheorems, TLAPS

USE KindsAssumption, TypesAssumption, QueueSizeAssumption, BoundsAssumption DEF Responded

\* A mailbox's channel within its capacity, and the messages set aside.
ChannelsOK ==
    /\ channel \in [Mailboxes -> Seq(Messages)]
    /\ \A m \in Mailboxes : Len(channel[m]) <= QueueSize

-------------------------------------------------------------------------------
(* Sequences of messages.                                                  *)

\* Appending adds one element.
LEMMA AppendElements ==
    ASSUME NEW s \in Seq(Messages), NEW x \in Messages
    PROVE  /\ Append(s, x) \in Seq(Messages)
           /\ Len(Append(s, x)) = Len(s) + 1
           /\ InSeq(Append(s, x)) = InSeq(s) \cup {x}
  <1>1. Append(s, x) \in Seq(Messages) /\ Len(Append(s, x)) = Len(s) + 1 /\ Len(s) \in Nat
    OBVIOUS
  <1>2. \A i \in 1 .. Len(s) : Append(s, x)[i] = s[i]
    OBVIOUS
  <1>3. Append(s, x)[Len(s) + 1] = x
    OBVIOUS
  <1>. QED
    BY <1>1, <1>2, <1>3 DEF InSeq

\* Taking the head leaves the other elements.
LEMMA TailElements ==
    ASSUME NEW s \in Seq(Messages), s # <<>>
    PROVE  /\ Head(s) \in Messages /\ Head(s) \in InSeq(s)
           /\ Tail(s) \in Seq(Messages)
           /\ Len(Tail(s)) = Len(s) - 1
           /\ InSeq(s) = InSeq(Tail(s)) \cup {Head(s)}
  <1>1. Len(s) \in Nat \ {0} /\ Head(s) = s[1] /\ Head(s) \in Messages
    OBVIOUS
  <1>2. Tail(s) \in Seq(Messages) /\ Len(Tail(s)) = Len(s) - 1
    OBVIOUS
  <1>3. \A i \in 1 .. Len(Tail(s)) : Tail(s)[i] = s[i + 1]
    OBVIOUS
  <1>4. \A i \in 2 .. Len(s) : i - 1 \in 1 .. Len(Tail(s)) /\ s[i] = Tail(s)[i - 1]
    BY <1>1, <1>2, <1>3
  <1>5. InSeq(s) \subseteq InSeq(Tail(s)) \cup {Head(s)}
    <2>. SUFFICES ASSUME NEW i \in 1 .. Len(s), s[i] # Head(s)
                  PROVE  s[i] \in InSeq(Tail(s))
      BY DEF InSeq
    <2>1. i \in 2 .. Len(s)
      BY <1>1
    <2>. QED
      BY <2>1, <1>4 DEF InSeq
  <1>6. InSeq(Tail(s)) \cup {Head(s)} \subseteq InSeq(s)
    BY <1>1, <1>2, <1>3 DEF InSeq
  <1>. QED
    BY <1>1, <1>2, <1>5, <1>6

\* Taking the last element leaves the other elements.
LEMMA RestElements ==
    ASSUME NEW s \in Seq(Messages), s # <<>>
    PROVE  /\ s[Len(s)] \in Messages /\ s[Len(s)] \in InSeq(s)
           /\ Rest(s) \in Seq(Messages)
           /\ InSeq(Rest(s)) \subseteq InSeq(s)
  <1>1. Len(s) \in Nat \ {0} /\ s[Len(s)] \in Messages
    OBVIOUS
  <1>2. /\ Rest(s) \in Seq(Messages) /\ Len(Rest(s)) = Len(s) - 1
        /\ \A i \in 1 .. Len(s) - 1 : Rest(s)[i] = s[i]
    <2>. DEFINE n == Len(s) - 1
    <2>1. n \in Nat /\ n <= Len(s) /\ Rest(s) = SubSeq(s, 1, n)
      BY <1>1 DEF Rest
    <2>. HIDE DEF n
    <2>2. \A i \in 1 .. n : s[i] \in Messages
      BY <1>1, <2>1
    <2>3. SubSeq(s, 1, n) \in Seq(Messages)
      BY <1>1, <2>1, <2>2
    <2>4. Len(SubSeq(s, 1, n)) = n
      BY <1>1, <2>1
    <2>5. \A i \in 1 .. n : SubSeq(s, 1, n)[i] = s[i]
      BY <1>1, <2>1
    <2>. QED
      BY <2>1, <2>3, <2>4, <2>5 DEF n
  <1>. QED
    BY <1>1, <1>2 DEF InSeq

\* The elements of a sequence of messages are messages.
LEMMA ElementsType == ASSUME NEW s \in Seq(Messages) PROVE InSeq(s) \subseteq Messages
  BY DEF InSeq

-------------------------------------------------------------------------------
(* What sending does to the channels.                                      *)

\* A message that was accepted is in the channel of its addressee, and the others
\* are as they were.
LEMMA Delivered ==
    ASSUME ChannelsOK, NEW m \in Mailboxes, NEW x \in Messages, Accepts(m), Deliver(m, x)
    PROVE  /\ ChannelsOK'
           /\ InSeq(channel'[m]) = InSeq(channel[m]) \cup {x}
           /\ \A n \in Mailboxes \ {m} : channel'[n] = channel[n]
  <1>1. channel[m] \in Seq(Messages) /\ Len(channel[m]) < QueueSize
    BY DEF ChannelsOK, Accepts
  <1>2. channel' = [channel EXCEPT ![m] = Append(channel[m], x)]
    BY DEF Deliver
  <1>3. channel'[m] = Append(channel[m], x) /\ \A n \in Mailboxes \ {m} : channel'[n] = channel[n]
    BY <1>2 DEF ChannelsOK
  <1>4. /\ Append(channel[m], x) \in Seq(Messages)
        /\ Len(Append(channel[m], x)) = Len(channel[m]) + 1
        /\ InSeq(Append(channel[m], x)) = InSeq(channel[m]) \cup {x}
    BY <1>1, AppendElements
  <1>5. Len(channel[m]) \in Nat
    BY <1>1
  <1>6. channel' \in [Mailboxes -> Seq(Messages)]
    BY <1>2, <1>4 DEF ChannelsOK
  <1>7. Len(channel'[m]) <= QueueSize
    BY <1>1, <1>3, <1>4, <1>5
  <1>8. \A n \in Mailboxes \ {m} : Len(channel'[n]) <= QueueSize
    BY <1>3 DEF ChannelsOK
  <1>. QED
    BY <1>3, <1>4, <1>6, <1>7, <1>8 DEF ChannelsOK

\* Taking the first message out of a channel.
LEMMA Received ==
    ASSUME ChannelsOK, NEW m \in Mailboxes, channel[m] # <<>>, Receive(m)
    PROVE  /\ ChannelsOK'
           /\ Head(channel[m]) \in Messages
           /\ InSeq(channel[m]) = InSeq(channel'[m]) \cup {Head(channel[m])}
           /\ \A n \in Mailboxes \ {m} : channel'[n] = channel[n]
  <1>1. channel[m] \in Seq(Messages) /\ Len(channel[m]) <= QueueSize /\ Len(channel[m]) \in Nat
    BY DEF ChannelsOK
  <1>2. channel' = [channel EXCEPT ![m] = Tail(channel[m])]
    BY DEF Receive
  <1>3. channel'[m] = Tail(channel[m]) /\ \A n \in Mailboxes \ {m} : channel'[n] = channel[n]
    BY <1>2 DEF ChannelsOK
  <1>4. /\ Head(channel[m]) \in Messages
        /\ Tail(channel[m]) \in Seq(Messages)
        /\ Len(Tail(channel[m])) = Len(channel[m]) - 1
        /\ InSeq(channel[m]) = InSeq(Tail(channel[m])) \cup {Head(channel[m])}
    BY <1>1, TailElements
  <1>5. channel' \in [Mailboxes -> Seq(Messages)]
    BY <1>2, <1>4 DEF ChannelsOK
  <1>6. Len(channel'[m]) <= QueueSize
    BY <1>1, <1>3, <1>4
  <1>7. \A n \in Mailboxes \ {m} : Len(channel'[n]) <= QueueSize
    BY <1>3 DEF ChannelsOK
  <1>. QED
    BY <1>3, <1>4, <1>5, <1>6, <1>7 DEF ChannelsOK

\* The fate of every request of every mailbox.
FatesOK == fate \in [Mailboxes -> [RequestIds -> Fates]]

LEMMA Settled ==
    ASSUME FatesOK, NEW r \in Requests, NEW how \in Fates, Settle(r, how)
    PROVE  /\ FatesOK'
           /\ fate'[r.src][r.id] = how
           /\ \A c \in Mailboxes, i \in RequestIds :
                c # r.src \/ i # r.id => fate'[c][i] = fate[c][i]
  <1>1. r.src \in Mailboxes /\ r.id \in RequestIds
    BY DEF Requests
  <1>. QED
    BY <1>1 DEF Settle, FatesOK

\* Responding to a request: the response is in the mailbox of its sender and the
\* request counts as answered, or neither.
LEMMA Answered ==
    ASSUME ChannelsOK, FatesOK, NEW r \in Requests, NEW x \in Responses, Answer(r, x)
    PROVE  /\ ChannelsOK' /\ FatesOK'
           /\ \A m \in Mailboxes : /\ InSeq(channel[m]) \subseteq InSeq(channel'[m])
                                   /\ InSeq(channel'[m]) \subseteq InSeq(channel[m]) \cup {x}
                                   /\ m # r.src => channel'[m] = channel[m]
           /\ fate'[r.src][r.id] \in Responded => x \in InSeq(channel'[r.src])
           /\ fate'[r.src][r.id] = "answered" => x.type = r.type
           /\ \A c \in Mailboxes, i \in RequestIds :
                c # r.src \/ i # r.id => fate'[c][i] = fate[c][i]
  <1>1. r.src \in Mailboxes /\ r.id \in RequestIds /\ r.type \in Types
    BY DEF Requests
  <1>2. x \in Messages
    BY DEF Messages
  <1>3. CASE Accepts(r.src)
    <2>0. PICK how \in Fates : /\ how = IF x.type = r.type THEN "answered" ELSE "mistyped"
                               /\ Deliver(r.src, x) /\ Settle(r, how)
      BY <1>3 DEF Answer, Fates
    <2>2. /\ ChannelsOK'
          /\ InSeq(channel'[r.src]) = InSeq(channel[r.src]) \cup {x}
          /\ \A n \in Mailboxes \ {r.src} : channel'[n] = channel[n]
      BY <1>1, <1>2, <1>3, <2>0, Delivered
    <2>3. /\ FatesOK' /\ fate'[r.src][r.id] = how
          /\ \A c \in Mailboxes, i \in RequestIds :
                c # r.src \/ i # r.id => fate'[c][i] = fate[c][i]
      BY <2>0, Settled
    <2>. QED
      BY <2>0, <2>2, <2>3
  <1>4. CASE ~Accepts(r.src)
    <2>1. channel' = channel /\ Settle(r, "refused")
      BY <1>4 DEF Answer
    <2>2. /\ FatesOK' /\ fate'[r.src][r.id] = "refused"
          /\ \A c \in Mailboxes, i \in RequestIds :
                c # r.src \/ i # r.id => fate'[c][i] = fate[c][i]
      BY <2>1, Settled DEF Fates
    <2>. QED
      BY <2>1, <2>2 DEF ChannelsOK
  <1>. QED
    BY <1>3, <1>4

-------------------------------------------------------------------------------
(* Type correctness.                                                       *)

\* Ids of requests and of notifications are within the bounds.
LEMMA IdsType ==
    /\ \A m \in Mailboxes : \A i \in 1 .. MaxRequests[m] : i \in RequestIds
    /\ \A m \in Mailboxes : \A n \in 1 .. MaxNotifications[m] : n \in UpTo(MaxNotifications)
    /\ RequestIds \subseteq Nat /\ UpTo(MaxNotifications) \subseteq Nat
  BY DEF RequestIds, UpTo

\* New mailboxes are well typed.
LEMMA InitTypeOK == Init => TypeOK
  <1>. SUFFICES ASSUME Init PROVE TypeOK
    OBVIOUS
  <1>1. <<>> \in Seq(Messages) /\ Len(<<>>) = 0
    OBVIOUS
  <1>2. channel \in [Mailboxes -> Seq(Messages)] /\ message_list \in [Mailboxes -> Seq(Messages)]
    BY <1>1 DEF Init
  <1>3. \A m \in Mailboxes : Len(channel[m]) <= QueueSize
    BY <1>1 DEF Init
  <1>4. call \in [Mailboxes -> [id : {0} \cup RequestIds, type : Types, waiting : BOOLEAN]]
    BY DEF Init, NoCall
  <1>5. fate \in [Mailboxes -> [RequestIds -> Fates]]
    BY DEF Init, Fates
  <1>. QED
    BY <1>2, <1>3, <1>4, <1>5 DEF Init, TypeOK

\* The parts of the state that sending does not touch.
OwnersOK ==
    /\ message_list \in [Mailboxes -> Seq(Messages)]
    /\ open \subseteq Mailboxes
    /\ call \in [Mailboxes -> [id : {0} \cup RequestIds, type : Types, waiting : BOOLEAN]]
    /\ held \in [Mailboxes -> SUBSET Requests]
    /\ accepted \in [Mailboxes -> {0} \cup UpTo(MaxNotifications)]
    /\ taken \in [Mailboxes -> SUBSET (Responses \cup Notifications)]

\* The id of the last request is a number, 0 before the first.
LEMMA CallIdType == ASSUME OwnersOK, NEW m \in Mailboxes PROVE call[m].id \in Nat
  <1>1. call[m] \in [id : {0} \cup RequestIds, type : Types, waiting : BOOLEAN]
    BY DEF OwnersOK
  <1>2. call[m].id = 0 \/ call[m].id \in RequestIds
    BY <1>1
  <1>3. \A i \in RequestIds : i \in Nat
    BY IdsType
  <1>. QED
    BY <1>2, <1>3

\* The owner leaves request_for.
LEMMA Returned ==
    ASSUME OwnersOK, NEW m \in Mailboxes, Returns(m)
    PROVE  /\ call' \in [Mailboxes -> [id : {0} \cup RequestIds, type : Types, waiting : BOOLEAN]]
           /\ ~call'[m].waiting /\ call'[m].id = call[m].id
           /\ \A n \in Mailboxes \ {m} : call'[n] = call[n]
  <1>1. call[m] \in [id : {0} \cup RequestIds, type : Types, waiting : BOOLEAN]
    BY DEF OwnersOK
  <1>2. call' = [call EXCEPT ![m] = NoCall(call[m].id)]
    BY DEF Returns
  <1>3. NoCall(call[m].id) \in [id : {0} \cup RequestIds, type : Types, waiting : BOOLEAN]
    BY <1>1 DEF NoCall
  <1>4. NoCall(call[m].id).id = call[m].id /\ ~NoCall(call[m].id).waiting
    BY DEF NoCall
  <1>. QED
    BY <1>2, <1>3, <1>4 DEF OwnersOK

\* The owners make requests with types of responses.
LEMMA AskedTypes == \A m \in Mailboxes : Asked[m] \subseteq Types
  BY AskedAssumption

\* What the kinds of messages are.
LEMMA Kinds ==
    ASSUME NEW x \in Messages
    PROVE  /\ x.kind = "Request" => x \in Requests
           /\ x.kind = "Response" => x \in Responses
           /\ x.kind # "Request" => x \in Responses \cup Notifications
  BY DEF Messages, Requests, Responses, Notifications

LEMMA TypeParts == TypeOK <=> ChannelsOK /\ FatesOK /\ OwnersOK
  BY DEF TypeOK, ChannelsOK, FatesOK, OwnersOK

\* A request that is sent is in the channel of its addressee, or answered with an error.
LEMMA RequestSent ==
    ASSUME ChannelsOK, FatesOK, NEW dst \in Mailboxes, NEW r \in Requests, SendRequest(dst, r)
    PROVE  /\ ChannelsOK' /\ FatesOK'
           /\ \A m \in Mailboxes :
                /\ InSeq(channel[m]) \subseteq InSeq(channel'[m])
                /\ InSeq(channel'[m]) \subseteq InSeq(channel[m]) \cup {r, ErrResponse(r)}
                /\ m # r.src /\ ErrResponse(r) \in InSeq(channel'[m]) =>
                        ErrResponse(r) \in InSeq(channel[m])
           /\ fate'[r.src][r.id] \in Responded => ErrResponse(r) \in InSeq(channel'[r.src])
           /\ fate'[r.src][r.id] # "mistyped"
           /\ \A c \in Mailboxes, i \in RequestIds :
                c # r.src \/ i # r.id => fate'[c][i] = fate[c][i]
  <1>0. r # ErrResponse(r) /\ ErrResponse(r) \in Responses /\ ErrResponse(r).type = r.type
    BY DEF Requests, Responses, ErrResponse
  <1>1. CASE Accepts(dst)
    <2>1. Deliver(dst, r) /\ Settle(r, "asked") /\ r \in Messages
      BY <1>1 DEF SendRequest, Messages
    <2>2. /\ ChannelsOK'
          /\ InSeq(channel'[dst]) = InSeq(channel[dst]) \cup {r}
          /\ \A n \in Mailboxes \ {dst} : channel'[n] = channel[n]
      BY <1>1, <2>1, Delivered
    <2>3. /\ FatesOK' /\ fate'[r.src][r.id] = "asked"
          /\ \A c \in Mailboxes, i \in RequestIds :
                c # r.src \/ i # r.id => fate'[c][i] = fate[c][i]
      BY <2>1, Settled DEF Fates
    <2>. QED
      BY <1>0, <2>2, <2>3
  <1>2. CASE ~Accepts(dst)
    <2>1. Answer(r, ErrResponse(r))
      BY <1>2 DEF SendRequest
    <2>2. fate'[r.src][r.id] # "mistyped"
      <3>1. \E how \in {"answered", "refused"} : Settle(r, how)
        BY <1>0, <2>1 DEF Answer
      <3>. QED
        BY <3>1, Settled DEF Fates
    <2>. QED
      BY <1>0, <2>1, <2>2, Answered
  <1>. QED
    BY <1>1, <1>2

\* Every reachable state has its type, and no channel more messages than it has room for.
THEOREM TypeCorrect == Spec => []TypeOK
<1>1. Init => TypeOK
  BY InitTypeOK
<1>2. TypeOK /\ [Next]_vars => TypeOK'
  <2>. SUFFICES ASSUME TypeOK, [Next]_vars PROVE TypeOK'
    OBVIOUS
  <2>0. ChannelsOK /\ FatesOK /\ OwnersOK
    BY TypeParts
  <2>. SUFFICES (ChannelsOK /\ FatesOK /\ OwnersOK)'
    BY TypeParts DEF TypeOK, ChannelsOK, FatesOK, OwnersOK
  <2>1. CASE UNCHANGED vars
    BY <2>0, <2>1 DEF vars, ChannelsOK, FatesOK, OwnersOK
  <2>2. ASSUME NEW m \in Mailboxes, Notify(m) PROVE (ChannelsOK /\ FatesOK /\ OwnersOK)'
    <3>0. accepted[m] \in Nat /\ MaxNotifications[m] \in Nat /\ accepted[m] < MaxNotifications[m]
      BY <2>0, <2>2, IdsType DEF Notify, OwnersOK
    <3>1. accepted[m] + 1 \in UpTo(MaxNotifications)
      BY <3>0, IdsType
    <3>2. accepted' = [accepted EXCEPT ![m] = accepted[m] + 1] /\ accepted'[m] = accepted[m] + 1
      BY <2>0, <2>2 DEF Notify, OwnersOK
    <3>3. Notification(accepted'[m]) \in Messages
      BY <3>1, <3>2 DEF Notification, Notifications, Messages
    <3>4. ChannelsOK'
      BY <2>0, <2>2, <3>3, Delivered DEF Notify
    <3>. QED
      BY <2>0, <2>2, <3>1, <3>2, <3>4 DEF Notify, FatesOK, OwnersOK
  <2>3. ASSUME NEW m \in Mailboxes, NEW dst \in Mailboxes, NEW type \in Types,
               RequestFor(m, dst, type)
        PROVE  (ChannelsOK /\ FatesOK /\ OwnersOK)'
    <3>. DEFINE r == [kind |-> "Request", src |-> m, id |-> call'[m].id, type |-> type]
    <3>0. /\ call[m].id \in Nat /\ MaxRequests[m] \in Nat
          /\ call[m].id < MaxRequests[m]
      <4>1. call[m].id \in Nat
        BY <2>0, CallIdType
      <4>2. call[m].id < MaxRequests[m]
        BY <2>3 DEF RequestFor
      <4>. QED
        BY <4>1, <4>2, BoundsAssumption
    <3>1. call[m].id + 1 \in RequestIds
      BY <3>0, IdsType
    <3>2. /\ call' = [call EXCEPT ![m] = [id |-> call[m].id + 1, type |-> type, waiting |-> TRUE]]
          /\ call'[m].id = call[m].id + 1
      BY <2>0, <2>3 DEF RequestFor, OwnersOK
    <3>3. r \in Requests
      BY <3>1, <3>2 DEF Requests
    <3>4. ChannelsOK' /\ FatesOK'
      BY <2>0, <2>3, <3>3, RequestSent DEF RequestFor
    <3>. QED
      BY <2>0, <2>3, <3>1, <3>2, <3>4 DEF RequestFor, OwnersOK
  <2>4. ASSUME NEW m \in Mailboxes, channel[m] # <<>>, Receive(m),
               UNCHANGED <<open, accepted, fate>>, OwnersOK'
        PROVE  (ChannelsOK /\ FatesOK /\ OwnersOK)'
    BY <2>0, <2>4, Received DEF FatesOK
  <2>5. ASSUME NEW m \in Mailboxes, ReceiveResult(m) \/ ReceiveLate(m) \/ ReceiveOther(m)
        PROVE  (ChannelsOK /\ FatesOK /\ OwnersOK)'
    <3>1. /\ channel[m] # <<>> /\ Receive(m)
          /\ UNCHANGED <<open, accepted, fate, held>>
      BY <2>5 DEF ReceiveResult, ReceiveLate, ReceiveOther
    <3>2. Head(channel[m]) \in Messages
      BY <2>0, <3>1, Received
    <3>3. CASE ReceiveOther(m)
      <4>1. message_list' = [message_list EXCEPT ![m] = Append(message_list[m], Head(channel[m]))]
        BY <3>3 DEF ReceiveOther, SetAside
      <4>2. Append(message_list[m], Head(channel[m])) \in Seq(Messages)
        BY <2>0, <3>2 DEF OwnersOK
      <4>3. OwnersOK'
        BY <2>0, <3>1, <3>3, <4>1, <4>2 DEF ReceiveOther, OwnersOK
      <4>. QED
        BY <2>4, <3>1, <4>3
    <3>4. CASE ReceiveResult(m) \/ ReceiveLate(m)
      <4>1. Head(channel[m]) \in Responses
        BY <3>2, <3>4, Kinds DEF ReceiveResult, ReceiveLate, IsForCall
      <4>2. taken' = [taken EXCEPT ![m] = taken[m] \cup {Head(channel[m])}]
        BY <3>4 DEF ReceiveResult, ReceiveLate
      <4>3. call' \in [Mailboxes -> [id : {0} \cup RequestIds, type : Types, waiting : BOOLEAN]]
        BY <2>0, <3>4, Returned DEF ReceiveResult, ReceiveLate, OwnersOK
      <4>4. OwnersOK'
        BY <2>0, <3>1, <3>4, <4>1, <4>2, <4>3 DEF ReceiveResult, ReceiveLate, OwnersOK
      <4>. QED
        BY <2>4, <3>1, <4>4
    <3>. QED
      BY <2>5, <3>3, <3>4
  <2>6. ASSUME NEW m \in Mailboxes, GiveUp(m) \/ Cancel(m)
        PROVE  (ChannelsOK /\ FatesOK /\ OwnersOK)'
    BY <2>0, <2>6, Returned DEF GiveUp, Cancel, ChannelsOK, FatesOK, OwnersOK
  <2>7. ASSUME NEW m \in Mailboxes, NEW x \in Messages, Hand(m, x)
        PROVE  held' \in [Mailboxes -> SUBSET Requests]
               /\ taken' \in [Mailboxes -> SUBSET (Responses \cup Notifications)]
    <3>1. CASE x.kind = "Request"
      <4>1. x \in Requests /\ held' = [held EXCEPT ![m] = held[m] \cup {x}] /\ taken' = taken
        BY <2>7, <3>1, Kinds DEF Hand
      <4>. QED
        BY <2>0, <4>1 DEF OwnersOK
    <3>2. CASE x.kind # "Request"
      <4>1. /\ x \in Responses \cup Notifications
            /\ taken' = [taken EXCEPT ![m] = taken[m] \cup {x}] /\ held' = held
        BY <2>7, <3>2, Kinds DEF Hand
      <4>. QED
        BY <2>0, <4>1 DEF OwnersOK
    <3>. QED
      BY <3>1, <3>2
  <2>8. ASSUME NEW m \in Mailboxes, GetAside(m)
        PROVE  (ChannelsOK /\ FatesOK /\ OwnersOK)'
    <3>1. /\ message_list[m][Len(message_list[m])] \in Messages
          /\ Rest(message_list[m]) \in Seq(Messages)
      BY <2>0, <2>8, RestElements DEF GetAside, OwnersOK
    <3>2. message_list' = [message_list EXCEPT ![m] = Rest(message_list[m])]
      BY <2>8 DEF GetAside
    <3>. QED
      BY <2>0, <2>7, <2>8, <3>1, <3>2 DEF GetAside, ChannelsOK, FatesOK, OwnersOK
  <2>9. ASSUME NEW m \in Mailboxes, GetNext(m)
        PROVE  (ChannelsOK /\ FatesOK /\ OwnersOK)'
    <3>1. channel[m] # <<>> /\ Receive(m) /\ Hand(m, Head(channel[m]))
          /\ UNCHANGED <<message_list, open, call, accepted, fate>>
      BY <2>9 DEF GetNext
    <3>2. Head(channel[m]) \in Messages
      BY <2>0, <3>1, Received
    <3>3. OwnersOK'
      BY <2>0, <2>7, <3>1, <3>2 DEF OwnersOK
    <3>. QED
      BY <2>4, <3>1, <3>3
  <2>10. ASSUME NEW m \in Mailboxes, NEW r \in held[m], NEW type \in Types, Responds(m, r, type)
         PROVE  (ChannelsOK /\ FatesOK /\ OwnersOK)'
    <3>1. r \in Requests
      BY <2>0 DEF OwnersOK
    <3>2. ChannelsOK' /\ FatesOK'
      <4>1. OkResponse(r, type) \in Responses /\ Answer(r, OkResponse(r, type))
        BY <2>10, <3>1 DEF Responds, OkResponse, Requests, Responses
      <4>. QED
        BY <2>0, <3>1, <4>1, Answered
    <3>. QED
      BY <2>0, <2>10, <3>2 DEF Responds, OwnersOK
  <2>11. ASSUME NEW m \in Mailboxes, Drop(m)
         PROVE  (ChannelsOK /\ FatesOK /\ OwnersOK)'
    <3>1. <<>> \in Seq(Messages) /\ Len(<<>>) = 0
      OBVIOUS
    <3>2. ChannelsOK'
      BY <2>0, <2>11, <3>1 DEF Drop, ChannelsOK
    <3>3. FatesOK'
      BY <2>0, <2>11 DEF Drop, FatesOK, Fates
    <3>4. OwnersOK'
      BY <2>0, <2>11, <3>1 DEF Drop, OwnersOK
    <3>. QED
      BY <3>2, <3>3, <3>4
  <2>. QED
    BY <2>1, <2>2, <2>3, <2>5, <2>6, <2>8, <2>9, <2>10, <2>11, AskedTypes DEF Next, Waiting
<1>. QED
  BY <1>1, <1>2, PTL DEF Spec

-------------------------------------------------------------------------------
(* The awaited response.                                                   *)

\* A request that somebody has still to respond to is the last one of its sender, or
\* an earlier one.
RequestsKnown ==
    \A m \in Mailboxes : \A r \in Unanswered(m) :
        /\ r.id <= call[r.src].id
        /\ r.id = call[r.src].id /\ call[r.src].waiting => r.type = call[r.src].type

\* So is the request of a response in a channel.
ResponsesKnown ==
    \A m \in Mailboxes : \A x \in InSeq(channel[m]) \cap Responses : x.id <= call[m].id

WaitingHasId == \A m \in Mailboxes : call[m].waiting => call[m].id \in RequestIds

IInv ==
    /\ ChannelsOK /\ FatesOK /\ OwnersOK
    /\ RequestsKnown
    /\ ResponsesKnown
    /\ WaitingHasId
    /\ AnswerNotMissed

\* What is unanswered are requests.
LEMMA UnansweredType ==
    ASSUME OwnersOK, NEW m \in Mailboxes PROVE Unanswered(m) \subseteq Requests
  BY DEF Unanswered, OwnersOK

\* A step that sends neither requests nor responses keeps what is known of them.
LEMMA KnownKept ==
    ASSUME RequestsKnown, ResponsesKnown, WaitingHasId, OwnersOK,
           \A m \in Mailboxes : /\ call'[m].id = call[m].id
                                /\ call'[m].waiting => call'[m] = call[m],
           \A m \in Mailboxes : Unanswered(m)' \subseteq Unanswered(m),
           \A m \in Mailboxes :
             InSeq(channel'[m]) \cap Responses \subseteq InSeq(channel[m])
    PROVE  RequestsKnown' /\ ResponsesKnown' /\ WaitingHasId'
  <1>1. RequestsKnown'
    <2>. SUFFICES ASSUME NEW m \in Mailboxes, NEW r \in Unanswered(m)'
                  PROVE  /\ r.id <= call'[r.src].id
                         /\ r.id = call'[r.src].id /\ call'[r.src].waiting =>
                                r.type = call'[r.src].type
      BY DEF RequestsKnown
    <2>1. r \in Unanswered(m) /\ r.src \in Mailboxes
      BY UnansweredType DEF Requests
    <2>. QED
      BY <2>1 DEF RequestsKnown
  <1>2. ResponsesKnown'
    BY DEF ResponsesKnown
  <1>3. WaitingHasId'
    BY DEF WaitingHasId
  <1>. QED
    BY <1>1, <1>2, <1>3

\* A mailbox whose channel and fate stay as they are, or whose owner does not wait,
\* keeps its answer.
AnswerOf(m) ==
    call[m].waiting /\ fate[m][call[m].id] = "answered" =>
        \E x \in InSeq(channel[m]) :
            x.kind = "Response" /\ x.id = call[m].id /\ (x.ok => x.type = call[m].type)

LEMMA AnswerParts == AnswerNotMissed <=> \A m \in Mailboxes : AnswerOf(m)
  BY DEF AnswerNotMissed, AnswerOf

LEMMA AnswerKept ==
    ASSUME NEW m \in Mailboxes, AnswerOf(m),
           \/ ~call'[m].waiting
           \/ /\ call'[m] = call[m] /\ InSeq(channel[m]) \subseteq InSeq(channel'[m])
              /\ \/ fate'[m][call[m].id] = fate[m][call[m].id]
                 \/ fate'[m][call[m].id] # "answered"
    PROVE  AnswerOf(m)'
  BY DEF AnswerOf

\* The messages of a mailbox that are not requests in it afterwards were none before.
LEMMA NoNewRequests ==
    ASSUME NEW m \in Mailboxes,
           InSeq(channel'[m]) \cap Requests \subseteq InSeq(channel[m]),
           UNCHANGED message_list,
           held'[m] \subseteq held[m]
    PROVE  Unanswered(m)' \subseteq Unanswered(m)
  BY DEF Unanswered

\* Every reachable state has the inductive invariant of the awaited response.
LEMMA Answerable == Spec => []IInv
<1>1. Init => IInv
  <2>. SUFFICES ASSUME Init PROVE IInv
    OBVIOUS
  <2>1. ChannelsOK /\ FatesOK /\ OwnersOK
    BY InitTypeOK, TypeParts
  <2>2. InSeq(<<>>) = {}
    <3>1. Len(<<>>) = 0
      OBVIOUS
    <3>. QED
      BY <3>1 DEF InSeq
  <2>3. \A m \in Mailboxes : channel[m] = <<>> /\ message_list[m] = <<>> /\ held[m] = {}
    BY DEF Init
  <2>4. \A m \in Mailboxes : InSeq(channel[m]) = {} /\ Unanswered(m) = {}
    BY <2>2, <2>3 DEF Unanswered
  <2>5. \A m \in Mailboxes : ~call[m].waiting
    BY DEF Init, NoCall
  <2>. QED
    BY <2>1, <2>4, <2>5 DEF IInv, RequestsKnown, ResponsesKnown, WaitingHasId, AnswerNotMissed
<1>2. IInv /\ (ChannelsOK /\ FatesOK /\ OwnersOK)' /\ [Next]_vars => IInv'
  <2>. SUFFICES ASSUME IInv, (ChannelsOK /\ FatesOK /\ OwnersOK)', [Next]_vars
                PROVE  (RequestsKnown /\ ResponsesKnown /\ WaitingHasId)' /\ AnswerNotMissed'
    BY DEF IInv
  <2>0. /\ ChannelsOK /\ FatesOK /\ OwnersOK /\ RequestsKnown /\ ResponsesKnown /\ WaitingHasId
        /\ \A m \in Mailboxes : AnswerOf(m)
    BY AnswerParts DEF IInv
  <2>. SUFFICES (RequestsKnown /\ ResponsesKnown /\ WaitingHasId)' /\ \A n \in Mailboxes : AnswerOf(n)'
    BY DEF AnswerNotMissed, AnswerOf
  <2>. DEFINE Kept == (RequestsKnown /\ ResponsesKnown /\ WaitingHasId)'
                      /\ \A n \in Mailboxes : AnswerOf(n)'
  <2>1. CASE UNCHANGED vars
    BY <2>0, <2>1 DEF vars, RequestsKnown, ResponsesKnown, WaitingHasId, AnswerOf, Unanswered
  <2>2. ASSUME NEW m \in Mailboxes, Notify(m) PROVE Kept
    <3>1. PICK x \in Messages : Accepts(m) /\ Deliver(m, x) /\ x.kind = "Notification"
      <4>0. accepted[m] \in Nat /\ MaxNotifications[m] \in Nat /\ accepted[m] < MaxNotifications[m]
        BY <2>0, <2>2, IdsType DEF Notify, OwnersOK
      <4>1. accepted[m] + 1 \in UpTo(MaxNotifications)
        BY <4>0, IdsType
      <4>2. accepted'[m] = accepted[m] + 1
        BY <2>0, <2>2 DEF Notify, OwnersOK
      <4>3. Notification(accepted'[m]) \in Messages /\ Notification(accepted'[m]).kind = "Notification"
        BY <4>1, <4>2 DEF Notification, Notifications, Messages
      <4>. QED
        BY <2>2, <4>3 DEF Notify
    <3>2. /\ InSeq(channel'[m]) = InSeq(channel[m]) \cup {x}
          /\ \A n \in Mailboxes \ {m} : channel'[n] = channel[n]
      BY <2>0, <3>1, Delivered
    <3>3. UNCHANGED <<message_list, call, held, fate>>
      BY <2>2 DEF Notify
    <3>4. x \notin Requests /\ x \notin Responses
      BY <3>1 DEF Requests, Responses
    <3>5. \A n \in Mailboxes : Unanswered(n)' \subseteq Unanswered(n)
      BY <3>2, <3>3, <3>4, NoNewRequests
    <3>6. (RequestsKnown /\ ResponsesKnown /\ WaitingHasId)'
      BY <2>0, <3>2, <3>3, <3>4, <3>5, KnownKept
    <3>. QED
      BY <2>0, <3>2, <3>3, <3>6, AnswerKept
  <2>3. ASSUME NEW m \in Mailboxes, NEW dst \in Mailboxes, NEW type \in Types,
               RequestFor(m, dst, type)
        PROVE  Kept
    <3>. DEFINE r == [kind |-> "Request", src |-> m, id |-> call'[m].id, type |-> type]
                e == ErrResponse(r)
    <3>1. /\ call'[m].id = call[m].id + 1 /\ call'[m].type = type /\ call'[m].waiting
          /\ \A n \in Mailboxes \ {m} : call'[n] = call[n]
          /\ SendRequest(dst, r)
          /\ UNCHANGED <<message_list, held>>
      BY <2>0, <2>3 DEF RequestFor, OwnersOK
    <3>2. call[m].id \in Nat /\ call'[m].id \in RequestIds
      <4>1. call[m].id \in Nat
        BY <2>0, CallIdType
      <4>2. call[m].id < MaxRequests[m]
        BY <2>3 DEF RequestFor
      <4>3. call[m].id + 1 \in 1 .. MaxRequests[m]
        BY <4>1, <4>2, BoundsAssumption
      <4>. QED
        BY <3>1, <4>1, <4>3, IdsType
    <3>3. /\ r \in Requests /\ r.kind = "Request"
          /\ r.src = m /\ r.id = call'[m].id /\ r.type = type
      BY <3>2 DEF Requests
    <3>4. e.kind = "Response" /\ e.id = call'[m].id /\ ~e.ok
      BY DEF ErrResponse
    <3>. HIDE DEF r
    <3>5. /\ \A n \in Mailboxes :
                /\ InSeq(channel[n]) \subseteq InSeq(channel'[n])
                /\ InSeq(channel'[n]) \subseteq InSeq(channel[n]) \cup {r, e}
                /\ n # r.src /\ e \in InSeq(channel'[n]) => e \in InSeq(channel[n])
          /\ fate'[r.src][r.id] \in Responded => e \in InSeq(channel'[r.src])
          /\ \A c \in Mailboxes, i \in RequestIds :
                c # r.src \/ i # r.id => fate'[c][i] = fate[c][i]
      <4>1. ChannelsOK /\ FatesOK /\ SendRequest(dst, r) /\ r \in Requests
        BY <2>0, <3>1, <3>3
      <4>. QED
        BY <4>1, RequestSent
    <3>. HIDE DEF e
    <3>6. RequestsKnown'
      <4>. SUFFICES ASSUME NEW n \in Mailboxes, NEW q \in Unanswered(n)'
                    PROVE  /\ q.id <= call'[q.src].id
                           /\ q.id = call'[q.src].id /\ call'[q.src].waiting =>
                                  q.type = call'[q.src].type
        BY DEF RequestsKnown
      <4>1. q \in Requests /\ e \notin Requests
        <5>1. held'[n] \subseteq Requests
          BY <2>0, <3>1 DEF OwnersOK
        <5>2. e \notin Requests
          BY <3>4 DEF Requests
        <5>. QED
          BY <5>1, <5>2 DEF Unanswered
      <4>2. q \in Unanswered(n) \cup {r}
        BY <3>1, <3>5, <4>1 DEF Unanswered
      <4>3. CASE q = r
        BY <3>1, <3>2, <3>3, <4>3
      <4>4. CASE q \in Unanswered(n)
        <5>1. /\ q.id <= call[q.src].id
              /\ q.id = call[q.src].id /\ call[q.src].waiting =>
                     q.type = call[q.src].type
          BY <2>0, <4>4 DEF RequestsKnown
        <5>2. q.src \in Mailboxes /\ q.id \in Nat
          BY <4>1, IdsType DEF Requests
        <5>3. CASE q.src = m
          BY <3>1, <3>2, <5>1, <5>2, <5>3
        <5>4. CASE q.src # m
          BY <3>1, <5>1, <5>2, <5>4
        <5>. QED
          BY <5>3, <5>4
      <4>. QED
        BY <4>2, <4>3, <4>4
    <3>7. ResponsesKnown'
      <4>. SUFFICES ASSUME NEW n \in Mailboxes, NEW x \in InSeq(channel'[n]), x \in Responses
                    PROVE  x.id <= call'[n].id
        BY DEF ResponsesKnown
      <4>1. x # r /\ x.id \in Nat
        BY <3>3, IdsType DEF Responses
      <4>2. x \in InSeq(channel[n]) \/ (x = e /\ n = m)
        BY <3>3, <3>5, <4>1
      <4>3. CASE x = e /\ n = m
        BY <3>1, <3>2, <3>4, <4>3
      <4>4. CASE x \in InSeq(channel[n])
        <5>1. x.id <= call[n].id
          BY <2>0, <4>4 DEF ResponsesKnown
        <5>2. CASE n = m
          BY <3>1, <3>2, <4>1, <5>1, <5>2
        <5>3. CASE n # m
          BY <3>1, <5>1, <5>3
        <5>. QED
          BY <5>2, <5>3
      <4>. QED
        BY <4>2, <4>3, <4>4
    <3>8. WaitingHasId'
      BY <2>0, <3>1, <3>2 DEF WaitingHasId
    <3>9. AnswerOf(m)'
      BY <3>3, <3>4, <3>5 DEF AnswerOf
    <3>10. ASSUME NEW n \in Mailboxes \ {m} PROVE AnswerOf(n)'
      <4>1. CASE call[n].waiting
        <5>1. call[n].id \in RequestIds
          BY <2>0, <4>1 DEF WaitingHasId
        <5>2. fate'[n][call[n].id] = fate[n][call[n].id]
          BY <3>3, <3>5, <3>10, <5>1
        <5>. QED
          BY <2>0, <3>1, <3>5, <3>10, <5>2, AnswerKept
      <4>2. CASE ~call[n].waiting
        BY <3>1, <4>2 DEF AnswerOf
      <4>. QED
        BY <4>1, <4>2
    <3>. QED
      BY <3>6, <3>7, <3>8, <3>9, <3>10
  <2>4. ASSUME NEW m \in Mailboxes, ReceiveResult(m) PROVE Kept
    <3>1. channel[m] # <<>> /\ Receive(m) /\ Returns(m) /\ UNCHANGED <<message_list, held, fate>>
      BY <2>4 DEF ReceiveResult
    <3>2. /\ InSeq(channel'[m]) \subseteq InSeq(channel[m])
          /\ \A n \in Mailboxes \ {m} : channel'[n] = channel[n]
      BY <2>0, <3>1, Received
    <3>3. /\ ~call'[m].waiting /\ call'[m].id = call[m].id
          /\ \A n \in Mailboxes \ {m} : call'[n] = call[n]
      BY <2>0, <3>1, Returned
    <3>4. \A n \in Mailboxes : Unanswered(n)' \subseteq Unanswered(n)
      BY <3>1, <3>2, NoNewRequests
    <3>5. (RequestsKnown /\ ResponsesKnown /\ WaitingHasId)'
      BY <2>0, <3>2, <3>3, <3>4, KnownKept
    <3>. QED
      BY <2>0, <3>1, <3>2, <3>3, <3>5, AnswerKept
  <2>5. ASSUME NEW m \in Mailboxes, ReceiveLate(m) PROVE Kept
    <3>1. channel[m] # <<>> /\ Receive(m) /\ UNCHANGED <<message_list, call, held, fate>>
      BY <2>5 DEF ReceiveLate
    <3>2. /\ InSeq(channel[m]) = InSeq(channel'[m]) \cup {Head(channel[m])}
          /\ \A n \in Mailboxes \ {m} : channel'[n] = channel[n]
      BY <2>0, <3>1, Received
    <3>3. \A n \in Mailboxes : Unanswered(n)' \subseteq Unanswered(n)
      BY <3>1, <3>2, NoNewRequests
    <3>4. (RequestsKnown /\ ResponsesKnown /\ WaitingHasId)'
      BY <2>0, <3>1, <3>2, <3>3, KnownKept
    <3>5. AnswerOf(m)'
      <4>1. Head(channel[m]).id # call[m].id
        BY <2>5 DEF ReceiveLate
      <4>. QED
        BY <2>0, <3>1, <3>2, <4>1 DEF AnswerOf
    <3>6. \A n \in Mailboxes \ {m} : AnswerOf(n)'
      BY <2>0, <3>1, <3>2, AnswerKept
    <3>. QED
      BY <3>4, <3>5, <3>6
  <2>6. ASSUME NEW m \in Mailboxes, ReceiveOther(m) PROVE Kept
    <3>. DEFINE h == Head(channel[m])
    <3>1. /\ channel[m] # <<>> /\ Receive(m) /\ SetAside(m, h) /\ ~IsForCall(m, h)
          /\ UNCHANGED <<call, held, fate>>
      BY <2>6 DEF ReceiveOther
    <3>2. /\ InSeq(channel[m]) = InSeq(channel'[m]) \cup {h} /\ h \in Messages
          /\ \A n \in Mailboxes \ {m} : channel'[n] = channel[n]
      BY <2>0, <3>1, Received
    <3>. HIDE DEF h
    <3>3. /\ InSeq(message_list'[m]) = InSeq(message_list[m]) \cup {h}
          /\ \A n \in Mailboxes \ {m} : message_list'[n] = message_list[n]
      <4>1. message_list[m] \in Seq(Messages)
        BY <2>0 DEF OwnersOK
      <4>2. InSeq(Append(message_list[m], h)) = InSeq(message_list[m]) \cup {h}
        BY <3>2, <4>1, AppendElements
      <4>3. /\ message_list'[m] = Append(message_list[m], h)
            /\ \A n \in Mailboxes \ {m} : message_list'[n] = message_list[n]
        BY <2>0, <3>1 DEF SetAside, OwnersOK
      <4>. QED
        BY <4>2, <4>3
    <3>4. \A n \in Mailboxes : Unanswered(n)' \subseteq Unanswered(n)
      BY <3>1, <3>2, <3>3 DEF Unanswered
    <3>5. (RequestsKnown /\ ResponsesKnown /\ WaitingHasId)'
      BY <2>0, <3>1, <3>2, <3>4, KnownKept
    <3>6. AnswerOf(m)'
      <4>. SUFFICES ASSUME NEW x \in InSeq(channel[m]), x.kind = "Response",
                           x.ok => x.type = call[m].type
                    PROVE  x \in InSeq(channel'[m])
        BY <2>0, <3>1 DEF AnswerOf
      <4>3. IsForCall(m, x)
        BY DEF IsForCall
      <4>. QED
        BY <3>1, <3>2, <4>3
    <3>7. \A n \in Mailboxes \ {m} : AnswerOf(n)'
      BY <2>0, <3>1, <3>2, AnswerKept
    <3>. QED
      BY <3>5, <3>6, <3>7
  <2>7. ASSUME NEW m \in Mailboxes, GiveUp(m) \/ Cancel(m) PROVE Kept
    <3>1. Returns(m) /\ UNCHANGED <<channel, message_list, held, fate>>
      BY <2>7 DEF GiveUp, Cancel
    <3>2. /\ ~call'[m].waiting /\ call'[m].id = call[m].id
          /\ \A n \in Mailboxes \ {m} : call'[n] = call[n]
      BY <2>0, <3>1, Returned
    <3>3. \A n \in Mailboxes : Unanswered(n)' \subseteq Unanswered(n)
      BY <3>1, NoNewRequests
    <3>4. (RequestsKnown /\ ResponsesKnown /\ WaitingHasId)'
      BY <2>0, <3>1, <3>2, <3>3, KnownKept
    <3>. QED
      BY <2>0, <3>1, <3>2, <3>4, AnswerKept
  <2>8. ASSUME NEW m \in Mailboxes, NEW x \in Messages, Hand(m, x)
        PROVE  /\ held'[m] \subseteq held[m] \cup ({x} \cap Requests)
               /\ \A n \in Mailboxes \ {m} : held'[n] = held[n]
    <3>1. CASE x.kind = "Request"
      BY <2>0, <2>8, <3>1, Kinds DEF Hand, OwnersOK
    <3>2. CASE x.kind # "Request"
      BY <2>8, <3>2 DEF Hand
    <3>. QED
      BY <3>1, <3>2
  <2>9. ASSUME NEW m \in Mailboxes, GetAside(m) PROVE Kept
    <3>. DEFINE x == message_list[m][Len(message_list[m])]
    <3>1. /\ message_list[m] # <<>> /\ Hand(m, x)
          /\ message_list' = [message_list EXCEPT ![m] = Rest(message_list[m])]
          /\ UNCHANGED <<channel, call, fate>>
      BY <2>9 DEF GetAside
    <3>2. /\ x \in Messages /\ x \in InSeq(message_list[m])
          /\ InSeq(Rest(message_list[m])) \subseteq InSeq(message_list[m])
      BY <2>0, <3>1, RestElements DEF OwnersOK
    <3>. HIDE DEF x
    <3>3. /\ message_list'[m] = Rest(message_list[m])
          /\ \A n \in Mailboxes \ {m} : message_list'[n] = message_list[n]
      BY <2>0, <3>1 DEF OwnersOK
    <3>4. \A n \in Mailboxes : Unanswered(n)' \subseteq Unanswered(n)
      BY <2>8, <3>1, <3>2, <3>3 DEF Unanswered
    <3>5. (RequestsKnown /\ ResponsesKnown /\ WaitingHasId)'
      BY <2>0, <3>1, <3>4, KnownKept
    <3>. QED
      BY <2>0, <3>1, <3>5, AnswerKept
  <2>10. ASSUME NEW m \in Mailboxes, GetNext(m) PROVE Kept
    <3>. DEFINE x == Head(channel[m])
    <3>1. /\ channel[m] # <<>> /\ Receive(m) /\ Hand(m, x) /\ ~call[m].waiting
          /\ UNCHANGED <<message_list, call, fate>>
      BY <2>10 DEF GetNext, Idle
    <3>2. /\ x \in Messages /\ InSeq(channel[m]) = InSeq(channel'[m]) \cup {x}
          /\ \A n \in Mailboxes \ {m} : channel'[n] = channel[n]
      BY <2>0, <3>1, Received
    <3>. HIDE DEF x
    <3>3. \A n \in Mailboxes : Unanswered(n)' \subseteq Unanswered(n)
      BY <2>8, <3>1, <3>2 DEF Unanswered
    <3>4. (RequestsKnown /\ ResponsesKnown /\ WaitingHasId)'
      BY <2>0, <3>1, <3>2, <3>3, KnownKept
    <3>. QED
      BY <2>0, <3>1, <3>2, <3>4, AnswerKept
  <2>11. ASSUME NEW m \in Mailboxes, NEW r \in held[m], NEW type \in Types,
                Responds(m, r, type)
         PROVE  Kept
    <3>. DEFINE a == OkResponse(r, type)
    <3>1. /\ Answer(r, a) /\ held' = [held EXCEPT ![m] = held[m] \ {r}]
          /\ UNCHANGED <<message_list, call>>
      BY <2>11 DEF Responds
    <3>2. r \in Requests /\ r.src \in Mailboxes /\ r.id \in RequestIds
      BY <2>0 DEF OwnersOK, Requests
    <3>3. a.kind = "Response" /\ a.id = r.id /\ a \in Responses /\ a \notin Requests
      BY <3>2 DEF OkResponse, Requests, Responses
    <3>. HIDE DEF a
    <3>4. /\ \A n \in Mailboxes :
                /\ InSeq(channel[n]) \subseteq InSeq(channel'[n])
                /\ InSeq(channel'[n]) \subseteq InSeq(channel[n]) \cup {a}
                /\ n # r.src => channel'[n] = channel[n]
          /\ fate'[r.src][r.id] = "answered" => a \in InSeq(channel'[r.src]) /\ a.type = r.type
          /\ \A c \in Mailboxes, i \in RequestIds :
                c # r.src \/ i # r.id => fate'[c][i] = fate[c][i]
      BY <2>0, <3>1, <3>2, <3>3, Answered
    <3>8. /\ r.id <= call[r.src].id
          /\ r.id = call[r.src].id /\ call[r.src].waiting => r.type = call[r.src].type
      BY <2>0 DEF RequestsKnown, Unanswered
    <3>5. RequestsKnown' /\ WaitingHasId'
      <4>1. \A n \in Mailboxes : held'[n] \subseteq held[n]
        BY <2>0, <3>1 DEF OwnersOK
      <4>2. \A n \in Mailboxes : Unanswered(n)' \subseteq Unanswered(n)
        BY <3>1, <3>3, <3>4, <4>1, NoNewRequests
      <4>. QED
        BY <2>0, <3>1, <4>2 DEF RequestsKnown, WaitingHasId
    <3>6. ResponsesKnown'
      <4>2. ASSUME NEW n \in Mailboxes, NEW x \in InSeq(channel'[n]), x \in Responses
            PROVE  x \in InSeq(channel[n]) \/ (x = a /\ n = r.src)
        BY <3>4
      <4>. QED
        BY <2>0, <3>1, <3>3, <3>8, <4>2 DEF ResponsesKnown
    <3>7. ASSUME NEW n \in Mailboxes PROVE AnswerOf(n)'
      <4>1. CASE ~call[n].waiting
        BY <3>1, <4>1 DEF AnswerOf
      <4>2. CASE call[n].waiting /\ n = r.src /\ call[n].id = r.id
        BY <3>1, <3>3, <3>4, <3>8, <4>2 DEF AnswerOf
      <4>3. CASE call[n].waiting /\ ~(n = r.src /\ call[n].id = r.id)
        <5>1. fate'[n][call[n].id] = fate[n][call[n].id]
          BY <2>0, <3>4, <4>3 DEF WaitingHasId
        <5>. QED
          BY <2>0, <3>1, <3>4, <5>1, AnswerKept
      <4>. QED
        BY <4>1, <4>2, <4>3
    <3>. QED
      BY <3>5, <3>6, <3>7
  <2>12. ASSUME NEW m \in Mailboxes, Drop(m) PROVE Kept
    <3>1. /\ ~call[m].waiting /\ UNCHANGED call
          /\ channel' = [channel EXCEPT ![m] = <<>>]
          /\ message_list' = [message_list EXCEPT ![m] = <<>>]
          /\ held' = [held EXCEPT ![m] = {}]
      BY <2>12 DEF Drop, Idle
    <3>2. InSeq(<<>>) = {}
      <4>1. Len(<<>>) = 0
        OBVIOUS
      <4>. QED
        BY <4>1 DEF InSeq
    <3>3. /\ channel'[m] = <<>> /\ message_list'[m] = <<>> /\ held'[m] = {}
          /\ \A n \in Mailboxes \ {m} : /\ channel'[n] = channel[n] /\ held'[n] = held[n]
                                        /\ message_list'[n] = message_list[n]
      BY <2>0, <3>1 DEF ChannelsOK, OwnersOK
    <3>4. \A n \in Mailboxes : Unanswered(n)' \subseteq Unanswered(n)
      BY <3>2, <3>3 DEF Unanswered
    <3>5. \A n \in Mailboxes : InSeq(channel'[n]) \subseteq InSeq(channel[n])
      BY <3>2, <3>3
    <3>6. (RequestsKnown /\ ResponsesKnown /\ WaitingHasId)'
      BY <2>0, <3>1, <3>4, <3>5, KnownKept
    <3>7. \A c \in Mailboxes, i \in RequestIds : fate'[c][i] \in {"dropped", fate[c][i]}
      BY <2>12 DEF Drop
    <3>8. ASSUME NEW n \in Mailboxes PROVE AnswerOf(n)'
      <4>1. CASE ~call[n].waiting
        BY <3>1, <4>1 DEF AnswerOf
      <4>2. CASE call[n].waiting
        <5>1. n # m /\ call[n].id \in RequestIds
          BY <2>0, <3>1, <4>2 DEF WaitingHasId
        <5>2. fate'[n][call[n].id] = fate[n][call[n].id] \/ fate'[n][call[n].id] # "answered"
          BY <3>7, <5>1
        <5>. QED
          BY <2>0, <3>1, <3>3, <5>1, <5>2, AnswerKept
      <4>. QED
        BY <4>1, <4>2
    <3>. QED
      BY <3>6, <3>8
  <2>. QED
    BY <2>1, <2>2, <2>3, <2>4, <2>5, <2>6, <2>7, <2>9, <2>10, <2>11, <2>12, AskedTypes DEF Next, Waiting
<1>3. TypeOK' => (ChannelsOK /\ FatesOK /\ OwnersOK)'
  BY TypeParts, PTL
<1>. QED
  BY <1>1, <1>2, <1>3, TypeCorrect, PTL DEF Spec

\* An owner that waits for the response to its request finds it in the channel once it
\* was sent, whatever it set aside and passed over before.
THEOREM AnswerNeverMissed == Spec => []AnswerNotMissed
<1>1. IInv => AnswerNotMissed
  BY DEF IInv
<1>. QED
  BY <1>1, Answerable, PTL

-------------------------------------------------------------------------------
(* Where messages are.                                                     *)

Distinct(s) == \A i, j \in 1 .. Len(s) : s[i] = s[j] => i = j

\* What is in the channel or set aside is there once, and not handed to the owner yet.
Once(ch, list, handed) ==
    /\ Distinct(ch) /\ Distinct(list)
    /\ InSeq(ch) \cap InSeq(list) = {}
    /\ (InSeq(ch) \cup InSeq(list)) \cap handed = {}

\* Notifications are in the order of their arrival, what was set aside came before.
InOrder(ch, list) ==
    /\ \A i, j \in 1 .. Len(ch) :
        i < j /\ {ch[i], ch[j]} \subseteq Notifications => ch[i].n < ch[j].n
    /\ \A x \in InSeq(list) \cap Notifications, y \in InSeq(ch) \cap Notifications : x.n < y.n

PlacedOnce ==
    \A m \in Mailboxes : /\ Once(channel[m], message_list[m], held[m] \cup taken[m])
                         /\ InOrder(channel[m], message_list[m])

\* What reached a mailbox and is not a request.
Reached(m) == (InSeq(channel[m]) \cup InSeq(message_list[m]) \cup taken[m]) \ Requests

\* A mailbox has had the notifications it accepted and no others.
NotificationsKept == \A m \in open : Reached(m) \cap Notifications = NotificationsOf(m)

\* It has had one response to each request that was responded to, and no others.
ResponsesKept ==
    \A c \in open :
        /\ \A x \in Reached(c) \cap Responses : fate[c][x.id] \in Responded
        /\ \A i \in RequestIds :
            fate[c][i] \in Responded => \E x \in Reached(c) \cap Responses : x.id = i
        /\ \A x, y \in Reached(c) \cap Responses : x.id = y.id => x = y

Is(r, c, i) == r.src = c /\ r.id = i

\* A request that waits for its response is with one mailbox.
RequestsKept ==
    /\ \A m \in Mailboxes : \A r \in Unanswered(m) : fate[r.src][r.id] = "asked"
    /\ \A c \in Mailboxes, i \in RequestIds :
        fate[c][i] = "asked" => \E m \in Mailboxes : \E r \in Unanswered(m) : Is(r, c, i)
    /\ \A m, n \in Mailboxes : \A r \in Unanswered(m), s \in Unanswered(n) :
        Is(r, s.src, s.id) => m = n /\ r = s

\* Requests that were not made yet are unsent; a mailbox that was dropped is empty, and
\* its owner does not wait.
Made ==
    /\ \A c \in Mailboxes, i \in RequestIds : fate[c][i] = "unsent" <=> i > call[c].id
    /\ \A m \in Mailboxes \ open :
        ~call[m].waiting /\ channel[m] = <<>> /\ message_list[m] = <<>>

Places == PlacedOnce /\ NotificationsKept /\ ResponsesKept /\ RequestsKept /\ Made

\* The responses in a mailbox that its owner has not seen the last of.
Pending(m) == (InSeq(channel[m]) \cup InSeq(message_list[m])) \cap Responses

\* A response of another type is an ok one, and not one that request_for returns.
MistypedKnown ==
    \A c \in Mailboxes : \A x \in Pending(c) :
        fate[c][x.id] = "mistyped" =>
            x.ok /\ (x.id = call[c].id /\ call[c].waiting => x.type # call[c].type)

PInv == IInv /\ Places /\ MistypedKnown

-------------------------------------------------------------------------------
(* What the owner and the senders do to the two queues.                    *)

\* A message arrives that is not with the mailbox yet.
LEMMA ArrivesOnce ==
    ASSUME NEW ch \in Seq(Messages), NEW list \in Seq(Messages), NEW handed, NEW x \in Messages,
           Once(ch, list, handed), InOrder(ch, list), x \notin InSeq(ch) \cup InSeq(list) \cup handed,
           x \in Notifications =>
               \A y \in (InSeq(ch) \cup InSeq(list)) \cap Notifications : y.n < x.n
    PROVE  Once(Append(ch, x), list, handed) /\ InOrder(Append(ch, x), list)
  <1>1. PICK s : s = Append(ch, x)
    OBVIOUS
  <1>2. /\ Len(ch) \in Nat /\ Len(s) = Len(ch) + 1 /\ s[Len(ch) + 1] = x
        /\ \A i \in 1 .. Len(ch) : s[i] = ch[i]
    BY <1>1
  <1>3. InSeq(s) = InSeq(ch) \cup {x}
    BY <1>1, AppendElements
  <1>4. \A i \in 1 .. Len(s) : i \in 1 .. Len(ch) \/ i = Len(ch) + 1
    BY <1>2
  <1>5. \A i \in 1 .. Len(ch) : ch[i] \in InSeq(ch)
    BY DEF InSeq
  <1>6. Distinct(s)
    <2>. SUFFICES ASSUME NEW i \in 1 .. Len(s), NEW j \in 1 .. Len(s), s[i] = s[j]
                  PROVE  i = j
      BY DEF Distinct
    <2>1. CASE i \in 1 .. Len(ch) /\ j \in 1 .. Len(ch)
      BY <1>2, <2>1 DEF Once, Distinct
    <2>2. CASE i = Len(ch) + 1 /\ j = Len(ch) + 1
      BY <2>2
    <2>3. CASE i \in 1 .. Len(ch) /\ j = Len(ch) + 1
      BY <1>2, <1>5, <2>3
    <2>4. CASE j \in 1 .. Len(ch) /\ i = Len(ch) + 1
      BY <1>2, <1>5, <2>4
    <2>. QED
      BY <1>4, <2>1, <2>2, <2>3, <2>4
  <1>7. ASSUME NEW i \in 1 .. Len(s), NEW j \in 1 .. Len(s), i < j,
               {s[i], s[j]} \subseteq Notifications
        PROVE  s[i].n < s[j].n
    <2>1. CASE j \in 1 .. Len(ch)
      <3>1. i \in 1 .. Len(ch)
        BY <1>2, <1>7, <2>1
      <3>. QED
        BY <1>2, <1>7, <2>1, <3>1 DEF InOrder
    <2>2. CASE j = Len(ch) + 1
      <3>1. i \in 1 .. Len(ch)
        BY <1>2, <1>7, <2>2
      <3>. QED
        BY <1>2, <1>5, <1>7, <2>2, <3>1
    <2>. QED
      BY <1>4, <2>1, <2>2
  <1>8. Once(s, list, handed)
    BY <1>3, <1>6 DEF Once
  <1>9. InOrder(s, list)
    BY <1>3, <1>7 DEF InOrder
  <1>. QED
    BY <1>1, <1>8, <1>9

\* The positions of a sequence without its head.
LEMMA TailPositions ==
    ASSUME NEW s \in Seq(Messages), s # <<>>
    PROVE  /\ Len(s) \in Nat \ {0} /\ Len(Tail(s)) = Len(s) - 1 /\ Head(s) = s[1]
           /\ \A i \in 1 .. Len(Tail(s)) : i + 1 \in 1 .. Len(s) /\ Tail(s)[i] = s[i + 1]
  <1>1. Len(s) \in Nat \ {0} /\ Len(Tail(s)) = Len(s) - 1 /\ Head(s) = s[1]
    OBVIOUS
  <1>2. \A i \in 1 .. Len(s) - 1 : Tail(s)[i] = s[i + 1]
    OBVIOUS
  <1>. QED
    BY <1>1, <1>2

\* The head of the channel is taken out of it.
LEMMA HeadTaken ==
    ASSUME NEW ch \in Seq(Messages), ch # <<>>, NEW list \in Seq(Messages), NEW handed,
           Once(ch, list, handed), InOrder(ch, list)
    PROVE  /\ Tail(ch) \in Seq(Messages) /\ Head(ch) \in Messages
           /\ InSeq(ch) = InSeq(Tail(ch)) \cup {Head(ch)} /\ Head(ch) \notin InSeq(Tail(ch))
           /\ Once(Tail(ch), list, handed \cup {Head(ch)}) /\ InOrder(Tail(ch), list)
           /\ Head(ch) \in Notifications =>
                \A y \in InSeq(Tail(ch)) \cap Notifications : Head(ch).n < y.n
  <1>1. PICK s, h : s = Tail(ch) /\ h = Head(ch)
    OBVIOUS
  <1>2. s \in Seq(Messages) /\ h \in Messages /\ InSeq(ch) = InSeq(s) \cup {h}
    BY <1>1, TailElements
  <1>3. /\ Len(ch) \in Nat \ {0} /\ Len(s) = Len(ch) - 1 /\ h = ch[1]
        /\ \A i \in 1 .. Len(s) : i + 1 \in 1 .. Len(ch) /\ s[i] = ch[i + 1]
    BY <1>1, TailPositions
  <1>4. 1 \in 1 .. Len(ch)
    BY <1>3
  <1>5. Distinct(s)
    <2>. SUFFICES ASSUME NEW i \in 1 .. Len(s), NEW j \in 1 .. Len(s), s[i] = s[j]
                  PROVE  i = j
      BY DEF Distinct
    <2>1. i + 1 = j + 1
      BY <1>3 DEF Once, Distinct
    <2>. QED
      BY <2>1
  <1>6. h \notin InSeq(s)
    <2>. SUFFICES ASSUME NEW i \in 1 .. Len(s), s[i] = h PROVE FALSE
      BY DEF InSeq
    <2>1. i + 1 = 1
      BY <1>3, <1>4 DEF Once, Distinct
    <2>. QED
      BY <2>1
  <1>7. Once(s, list, handed \cup {h})
    BY <1>2, <1>5, <1>6 DEF Once
  <1>8. InOrder(s, list)
    <2>1. \A i, j \in 1 .. Len(s) :
              i < j /\ {s[i], s[j]} \subseteq Notifications => s[i].n < s[j].n
      <3>. SUFFICES ASSUME NEW i \in 1 .. Len(s), NEW j \in 1 .. Len(s), i < j,
                           {s[i], s[j]} \subseteq Notifications
                    PROVE  s[i].n < s[j].n
        OBVIOUS
      <3>1. i + 1 < j + 1
        OBVIOUS
      <3>. QED
        BY <1>3, <3>1 DEF InOrder
    <2>. QED
      BY <1>2, <2>1 DEF InOrder
  <1>9. h \in Notifications => \A y \in InSeq(s) \cap Notifications : h.n < y.n
    <2>. SUFFICES ASSUME h \in Notifications, NEW i \in 1 .. Len(s), s[i] \in Notifications
                  PROVE  h.n < s[i].n
      BY DEF InSeq
    <2>1. 1 < i + 1
      OBVIOUS
    <2>. QED
      BY <1>3, <1>4, <2>1 DEF InOrder
  <1>. QED
    BY <1>1, <1>2, <1>6, <1>7, <1>8, <1>9

\* The head of the channel is set aside.
LEMMA HeadSetAside ==
    ASSUME NEW ch \in Seq(Messages), ch # <<>>, NEW list \in Seq(Messages), NEW handed,
           Once(ch, list, handed), InOrder(ch, list)
    PROVE  /\ Once(Tail(ch), Append(list, Head(ch)), handed)
           /\ InOrder(Tail(ch), Append(list, Head(ch)))
  <1>1. PICK s, h : s = Tail(ch) /\ h = Head(ch)
    OBVIOUS
  <1>2. /\ s \in Seq(Messages) /\ h \in Messages
        /\ InSeq(ch) = InSeq(s) \cup {h} /\ h \notin InSeq(s)
        /\ Once(s, list, handed \cup {h}) /\ InOrder(s, list)
        /\ h \in Notifications => \A y \in InSeq(s) \cap Notifications : h.n < y.n
    BY <1>1, HeadTaken
  <1>3. PICK l : l = Append(list, h)
    OBVIOUS
  <1>4. InSeq(l) = InSeq(list) \cup {h}
    BY <1>2, <1>3, AppendElements
  <1>5. h \notin InSeq(list) /\ h \notin handed
    BY <1>2 DEF Once
  <1>6. Distinct(l)
    <2>1. /\ Len(list) \in Nat /\ Len(l) = Len(list) + 1 /\ l[Len(list) + 1] = h
          /\ \A i \in 1 .. Len(list) : l[i] = list[i]
      BY <1>3
    <2>2. \A i \in 1 .. Len(l) : i \in 1 .. Len(list) \/ i = Len(list) + 1
      BY <2>1
    <2>3. \A i \in 1 .. Len(list) : l[i] # h
      BY <1>5, <2>1 DEF InSeq
    <2>. SUFFICES ASSUME NEW i \in 1 .. Len(l), NEW j \in 1 .. Len(l), l[i] = l[j]
                  PROVE  i = j
      BY DEF Distinct
    <2>4. CASE i \in 1 .. Len(list) /\ j \in 1 .. Len(list)
      BY <2>1, <2>4 DEF Once, Distinct
    <2>. QED
      BY <2>1, <2>2, <2>3, <2>4
  <1>7. Once(s, l, handed)
    BY <1>2, <1>4, <1>5, <1>6 DEF Once
  <1>8. InOrder(s, l)
    BY <1>2, <1>4 DEF InOrder
  <1>. QED
    BY <1>1, <1>3, <1>7, <1>8

\* The message that was set aside last is taken.
LEMMA LastTaken ==
    ASSUME NEW ch \in Seq(Messages), NEW list \in Seq(Messages), list # <<>>, NEW handed,
           Once(ch, list, handed), InOrder(ch, list)
    PROVE  /\ list[Len(list)] \in Messages /\ list[Len(list)] \in InSeq(list)
           /\ InSeq(list) = InSeq(Rest(list)) \cup {list[Len(list)]}
           /\ Once(ch, Rest(list), handed \cup {list[Len(list)]}) /\ InOrder(ch, Rest(list))
  <1>1. PICK s, h, n : s = Rest(list) /\ n = Len(list) /\ h = list[n]
    OBVIOUS
  <1>2. /\ h \in Messages /\ h \in InSeq(list)
        /\ s \in Seq(Messages) /\ InSeq(s) \subseteq InSeq(list)
    BY <1>1, RestElements
  <1>3. n \in Nat \ {0}
    BY <1>1
  <1>4. Len(s) = n - 1 /\ \A i \in 1 .. n - 1 : s[i] = list[i]
    <2>1. n - 1 \in Nat /\ s = SubSeq(list, 1, n - 1)
      BY <1>1, <1>3 DEF Rest
    <2>. QED
      BY <1>1, <1>3, <2>1
  <1>5. \A i \in 1 .. n : i \in 1 .. n - 1 \/ i = n
    BY <1>3
  <1>6. InSeq(list) = InSeq(s) \cup {h}
    <2>1. InSeq(list) = {list[i] : i \in 1 .. n}
      BY <1>1 DEF InSeq
    <2>2. InSeq(s) = {list[i] : i \in 1 .. n - 1}
      BY <1>4 DEF InSeq
    <2>. QED
      BY <1>1, <1>2, <1>5, <2>1, <2>2
  <1>7. Distinct(s)
    <2>1. \A i \in 1 .. Len(s) : i \in 1 .. n
      BY <1>3, <1>4
    <2>. QED
      BY <1>1, <1>4, <2>1 DEF Once, Distinct
  <1>8. h \notin InSeq(s)
    <2>. SUFFICES ASSUME NEW i \in 1 .. n - 1, list[i] = h PROVE FALSE
      BY <1>4 DEF InSeq
    <2>1. i \in 1 .. n /\ n \in 1 .. n /\ i # n
      BY <1>3
    <2>. QED
      BY <1>1, <2>1 DEF Once, Distinct
  <1>9. Once(ch, s, handed \cup {h})
    BY <1>2, <1>6, <1>7, <1>8 DEF Once
  <1>10. InOrder(ch, s)
    BY <1>2 DEF InOrder
  <1>. QED
    BY <1>1, <1>2, <1>6, <1>9, <1>10

\* Less may be kept as handed than was.
LEMMA OnceLess ==
    ASSUME NEW ch, NEW list, NEW handed, NEW less \in SUBSET handed, Once(ch, list, handed)
    PROVE  Once(ch, list, less)
  BY DEF Once

\* What hands a message to the owner.
LEMMA Handed ==
    ASSUME OwnersOK, NEW m \in Mailboxes, NEW x \in Messages, Hand(m, x)
    PROVE  /\ held'[m] \cup taken'[m] = held[m] \cup taken[m] \cup {x}
           /\ held'[m] \cap Requests = (held[m] \cup {x}) \cap Requests
           /\ taken'[m] \ Requests = (taken[m] \cup {x}) \ Requests
           /\ held'[m] \subseteq held[m] \cup ({x} \cap Requests)
           /\ taken[m] \subseteq taken'[m] /\ taken'[m] \subseteq taken[m] \cup {x}
           /\ \A n \in Mailboxes \ {m} : held'[n] = held[n] /\ taken'[n] = taken[n]
  <1>1. CASE x.kind = "Request"
    <2>1. held' = [held EXCEPT ![m] = held[m] \cup {x}] /\ taken' = taken
      BY <1>1 DEF Hand
    <2>2. x \in Requests
      BY <1>1, Kinds
    <2>. QED
      BY <2>1, <2>2 DEF OwnersOK
  <1>2. CASE x.kind # "Request"
    <2>1. taken' = [taken EXCEPT ![m] = taken[m] \cup {x}] /\ held' = held
      BY <1>2 DEF Hand
    <2>2. x \notin Requests
      BY <1>2 DEF Requests
    <2>. QED
      BY <2>1, <2>2 DEF OwnersOK
  <1>. QED
    BY <1>1, <1>2

\* Nothing but the two queues of one mailbox and what its owner was handed changes.
LEMMA OneMailbox ==
    ASSUME PlacedOnce, NEW m \in Mailboxes,
           Once(channel'[m], message_list'[m], held'[m] \cup taken'[m]),
           InOrder(channel'[m], message_list'[m]),
           \A n \in Mailboxes \ {m} :
               /\ channel'[n] = channel[n] /\ message_list'[n] = message_list[n]
               /\ held'[n] = held[n] /\ taken'[n] = taken[n]
    PROVE  PlacedOnce'
  <1>. SUFFICES ASSUME NEW n \in Mailboxes
                PROVE  /\ Once(channel'[n], message_list'[n], held'[n] \cup taken'[n])
                       /\ InOrder(channel'[n], message_list'[n])
    BY DEF PlacedOnce, Once, InOrder
  <1>1. CASE n = m
    BY <1>1
  <1>2. CASE n # m
    BY <1>2 DEF PlacedOnce
  <1>. QED
    BY <1>1, <1>2

\* A message goes on within its mailbox: what the mailbox has is what it had.
LEMMA NothingNew ==
    ASSUME Places, UNCHANGED <<open, accepted, fate>>, PlacedOnce',
           \A m \in Mailboxes : /\ Unanswered(m)' = Unanswered(m)
                                /\ Reached(m)' = Reached(m)
                                /\ call'[m].id = call[m].id
                                /\ call'[m].waiting => call[m].waiting,
           \A m \in Mailboxes \ open : channel'[m] = channel[m] /\ message_list'[m] = message_list[m],
           open \subseteq Mailboxes
    PROVE  Places'
  <1>1. NotificationsKept'
    BY DEF Places, NotificationsKept, NotificationsOf
  <1>2. ResponsesKept'
    <2>. SUFFICES ASSUME NEW c \in open
                  PROVE  /\ \A x \in Reached(c) \cap Responses : fate[c][x.id] \in Responded
                         /\ \A i \in RequestIds :
                             fate[c][i] \in Responded => \E x \in Reached(c) \cap Responses : x.id = i
                         /\ \A x, y \in Reached(c) \cap Responses : x.id = y.id => x = y
      BY DEF ResponsesKept
    <2>. QED
      BY DEF Places, ResponsesKept
  <1>3. RequestsKept'
    <2>1. \A m \in Mailboxes : \A r \in Unanswered(m)' : fate[r.src][r.id] = "asked"
      BY DEF Places, RequestsKept
    <2>2. \A c \in Mailboxes, i \in RequestIds :
            fate[c][i] = "asked" => \E m \in Mailboxes : \E r \in Unanswered(m)' : Is(r, c, i)
      BY DEF Places, RequestsKept
    <2>3. \A m, n \in Mailboxes : \A r \in Unanswered(m)', s \in Unanswered(n)' :
            Is(r, s.src, s.id) => m = n /\ r = s
      BY DEF Places, RequestsKept
    <2>. QED
      BY <2>1, <2>2, <2>3 DEF RequestsKept
  <1>4. Made'
    BY DEF Places, Made
  <1>. QED
    BY <1>1, <1>2, <1>3, <1>4 DEF Places

\* The steps that take a message out of the channel.
LEMMA ReceivedPlaces ==
    ASSUME ChannelsOK, OwnersOK, Places, NEW m \in Mailboxes, m \in open, channel[m] # <<>>, Receive(m),
           UNCHANGED <<open, accepted, fate>>,
           \A n \in Mailboxes : call'[n].id = call[n].id /\ (call'[n].waiting => call[n].waiting),
           \/ SetAside(m, Head(channel[m])) /\ UNCHANGED <<held, taken>>
           \/ Hand(m, Head(channel[m])) /\ UNCHANGED message_list
           \/ /\ UNCHANGED <<held, message_list>> /\ Head(channel[m]) \notin Requests
              /\ taken' = [taken EXCEPT ![m] = @ \cup {Head(channel[m])}]
    PROVE  Places'
  <1>1. PICK ch, h : ch = channel[m] /\ h = Head(channel[m])
    OBVIOUS
  <1>2. /\ ch \in Seq(Messages) /\ ch # <<>> /\ message_list[m] \in Seq(Messages)
        /\ Once(ch, message_list[m], held[m] \cup taken[m]) /\ InOrder(ch, message_list[m])
    BY <1>1 DEF ChannelsOK, OwnersOK, Places, PlacedOnce
  <1>3. channel'[m] = Tail(ch) /\ \A n \in Mailboxes \ {m} : channel'[n] = channel[n]
    BY <1>1 DEF Receive, ChannelsOK
  <1>4. h \in Messages /\ InSeq(ch) = InSeq(Tail(ch)) \cup {h}
        /\ Once(Tail(ch), message_list[m], held[m] \cup taken[m] \cup {h})
        /\ InOrder(Tail(ch), message_list[m])
    BY <1>1, <1>2, HeadTaken
  <1>5. CASE SetAside(m, h) /\ UNCHANGED <<held, taken>>
    <2>1. /\ message_list'[m] = Append(message_list[m], h)
          /\ \A n \in Mailboxes \ {m} : message_list'[n] = message_list[n]
      BY <1>5 DEF SetAside, OwnersOK
    <2>2. InSeq(message_list'[m]) = InSeq(message_list[m]) \cup {h}
      BY <1>2, <1>4, <2>1, AppendElements
    <2>3. Once(channel'[m], message_list'[m], held'[m] \cup taken'[m])
          /\ InOrder(channel'[m], message_list'[m])
      BY <1>1, <1>2, <1>3, <1>5, <2>1, HeadSetAside
    <2>4. PlacedOnce'
      BY <1>3, <1>5, <2>1, <2>3, OneMailbox DEF Places
    <2>5. \A n \in Mailboxes : Unanswered(n)' = Unanswered(n) /\ Reached(n)' = Reached(n)
      <3>1. Unanswered(m)' = Unanswered(m) /\ Reached(m)' = Reached(m)
        BY <1>1, <1>3, <1>4, <1>5, <2>2 DEF Unanswered, Reached
      <3>2. \A n \in Mailboxes \ {m} : Unanswered(n)' = Unanswered(n) /\ Reached(n)' = Reached(n)
        BY <1>3, <1>5, <2>1 DEF Unanswered, Reached
      <3>. QED
        BY <3>1, <3>2
    <2>. QED
      BY <1>3, <2>1, <2>4, <2>5, NothingNew DEF OwnersOK
  <1>6. ASSUME held'[m] \cup taken'[m] = held[m] \cup taken[m] \cup {h},
               held'[m] \cap Requests = (held[m] \cup {h}) \cap Requests,
               taken'[m] \ Requests = (taken[m] \cup {h}) \ Requests,
               held'[m] \subseteq Requests, held[m] \subseteq Requests,
               \A n \in Mailboxes \ {m} : held'[n] = held[n] /\ taken'[n] = taken[n],
               UNCHANGED message_list
        PROVE  Places'
    <2>1. PlacedOnce'
      BY <1>3, <1>4, <1>6, OneMailbox DEF Places
    <2>2. \A n \in Mailboxes : Unanswered(n)' = Unanswered(n) /\ Reached(n)' = Reached(n)
      <3>1. Unanswered(m)' = Unanswered(m)
        BY <1>1, <1>3, <1>4, <1>6 DEF Unanswered
      <3>2. Reached(m)' = Reached(m)
        BY <1>1, <1>3, <1>4, <1>6 DEF Reached
      <3>3. \A n \in Mailboxes \ {m} : Unanswered(n)' = Unanswered(n) /\ Reached(n)' = Reached(n)
        BY <1>3, <1>6 DEF Unanswered, Reached
      <3>. QED
        BY <3>1, <3>2, <3>3
    <2>. QED
      BY <1>3, <1>6, <2>1, <2>2, NothingNew DEF OwnersOK
  <1>7. held[m] \subseteq Requests
    BY DEF OwnersOK
  <1>8. CASE Hand(m, h) /\ UNCHANGED message_list
    BY <1>4, <1>6, <1>7, <1>8, Handed
  <1>9. CASE /\ UNCHANGED <<held, message_list>> /\ h \notin Requests
             /\ taken' = [taken EXCEPT ![m] = @ \cup {h}]
    <2>1. taken'[m] = taken[m] \cup {h} /\ \A n \in Mailboxes \ {m} : taken'[n] = taken[n]
      BY <1>9 DEF OwnersOK
    <2>. QED
      BY <1>6, <1>7, <1>9, <2>1
  <1>. QED
    BY <1>1, <1>5, <1>8, <1>9

\* ... and the one that takes a message back from the list.
LEMMA GetAsidePlaces ==
    ASSUME ChannelsOK, OwnersOK, Places, NEW m \in Mailboxes, GetAside(m)
    PROVE  Places'
  <1>1. PICK list, h : list = message_list[m] /\ h = list[Len(list)]
    OBVIOUS
  <1>2. /\ list \in Seq(Messages) /\ list # <<>> /\ channel[m] \in Seq(Messages)
        /\ Once(channel[m], list, held[m] \cup taken[m]) /\ InOrder(channel[m], list)
        /\ m \in open /\ Hand(m, h)
        /\ UNCHANGED <<channel, open, call, accepted, fate>>
    BY <1>1 DEF GetAside, Idle, ChannelsOK, OwnersOK, Places, PlacedOnce
  <1>3. message_list'[m] = Rest(list) /\ \A n \in Mailboxes \ {m} : message_list'[n] = message_list[n]
    BY <1>1 DEF GetAside, OwnersOK
  <1>4. h \in Messages /\ InSeq(list) = InSeq(Rest(list)) \cup {h}
        /\ Once(channel[m], Rest(list), held[m] \cup taken[m] \cup {h})
        /\ InOrder(channel[m], Rest(list))
    BY <1>1, <1>2, LastTaken
  <1>5. /\ held'[m] \cup taken'[m] = held[m] \cup taken[m] \cup {h}
        /\ held'[m] \cap Requests = (held[m] \cup {h}) \cap Requests
        /\ taken'[m] \ Requests = (taken[m] \cup {h}) \ Requests
        /\ held'[m] \subseteq Requests /\ held[m] \subseteq Requests
        /\ \A n \in Mailboxes \ {m} : held'[n] = held[n] /\ taken'[n] = taken[n]
    <2>1. held[m] \subseteq Requests
      BY DEF OwnersOK
    <2>. QED
      BY <1>2, <1>4, <2>1, Handed
  <1>6. PlacedOnce'
    BY <1>2, <1>3, <1>4, <1>5, OneMailbox DEF Places
  <1>7. \A n \in Mailboxes : Unanswered(n)' = Unanswered(n) /\ Reached(n)' = Reached(n)
    <2>1. Unanswered(m)' = Unanswered(m)
      BY <1>1, <1>2, <1>3, <1>4, <1>5 DEF Unanswered
    <2>2. Reached(m)' = Reached(m)
      BY <1>1, <1>2, <1>3, <1>4, <1>5 DEF Reached
    <2>3. \A n \in Mailboxes \ {m} : Unanswered(n)' = Unanswered(n) /\ Reached(n)' = Reached(n)
      BY <1>2, <1>3, <1>5 DEF Unanswered, Reached
    <2>. QED
      BY <2>1, <2>2, <2>3
  <1>. QED
    BY <1>2, <1>3, <1>6, <1>7, NothingNew DEF OwnersOK

\* A message that was accepted is once in the channel, if it was not with the mailbox.
LEMMA Arrives ==
    ASSUME ChannelsOK, OwnersOK, PlacedOnce, NEW m \in Mailboxes, NEW x \in Messages,
           Accepts(m), Deliver(m, x), UNCHANGED <<message_list, taken>>,
           \A n \in Mailboxes : held'[n] \subseteq held[n],
           x \notin InSeq(channel[m]) \cup InSeq(message_list[m]) \cup held[m] \cup taken[m],
           x \in Notifications =>
               \A y \in (InSeq(channel[m]) \cup InSeq(message_list[m])) \cap Notifications : y.n < x.n
    PROVE  /\ PlacedOnce'
           /\ InSeq(channel'[m]) = InSeq(channel[m]) \cup {x}
           /\ Reached(m)' = Reached(m) \cup ({x} \ Requests)
           /\ \A n \in Mailboxes \ {m} : channel'[n] = channel[n] /\ Reached(n)' = Reached(n)
  <1>1. /\ InSeq(channel'[m]) = InSeq(channel[m]) \cup {x}
        /\ \A n \in Mailboxes \ {m} : channel'[n] = channel[n]
    BY Delivered
  <1>2. channel'[m] = Append(channel[m], x)
    BY DEF Deliver, ChannelsOK
  <1>3. channel[m] \in Seq(Messages) /\ message_list[m] \in Seq(Messages)
    BY DEF ChannelsOK, OwnersOK
  <1>4. /\ Once(channel[m], message_list[m], held[m] \cup taken[m])
        /\ InOrder(channel[m], message_list[m])
    BY DEF PlacedOnce
  <1>5. /\ Once(Append(channel[m], x), message_list[m], held[m] \cup taken[m])
        /\ InOrder(Append(channel[m], x), message_list[m])
    BY <1>3, <1>4, ArrivesOnce
  <1>6. ASSUME NEW n \in Mailboxes
        PROVE  /\ Once(channel'[n], message_list'[n], held'[n] \cup taken'[n])
               /\ InOrder(channel'[n], message_list'[n])
    <2>1. held'[n] \cup taken'[n] \in SUBSET (held[n] \cup taken[n])
      OBVIOUS
    <2>2. CASE n = m
      <3>1. held'[m] \cup taken'[m] \in SUBSET (held[m] \cup taken[m])
        OBVIOUS
      <3>2. Once(Append(channel[m], x), message_list[m], held'[m] \cup taken'[m])
        BY <1>5, <3>1, OnceLess
      <3>. QED
        BY <1>2, <1>5, <2>2, <3>2
    <2>3. CASE n # m
      <3>1. /\ Once(channel[n], message_list[n], held[n] \cup taken[n])
            /\ InOrder(channel[n], message_list[n])
        BY DEF PlacedOnce
      <3>2. Once(channel[n], message_list[n], held'[n] \cup taken'[n])
        BY <2>1, <3>1, OnceLess
      <3>3. channel'[n] = channel[n]
        BY <1>1, <2>3
      <3>. QED
        BY <3>1, <3>2, <3>3
    <2>. QED
      BY <2>2, <2>3
  <1>7. PlacedOnce'
    BY <1>6 DEF PlacedOnce, Once, InOrder
  <1>8. Reached(m)' = Reached(m) \cup ({x} \ Requests)
    BY <1>1 DEF Reached
  <1>9. \A n \in Mailboxes \ {m} : Reached(n)' = Reached(n)
    BY <1>1 DEF Reached
  <1>. QED
    BY <1>1, <1>7, <1>8, <1>9

\* What is with a mailbox, but for its requests, are responses and notifications.
LEMMA ReachedType ==
    ASSUME NEW m \in Mailboxes
    PROVE  /\ \A x \in InSeq(channel[m]) \cup InSeq(message_list[m]) \cup taken[m] :
                 x \notin Requests => x \in Reached(m)
           /\ Notifications \cap Responses = {} /\ Notifications \cap Requests = {}
           /\ Requests \cap Responses = {}
  BY DEF Reached, Notifications, Responses, Requests

\* What was accepted are numbers up to the last one.
LEMMA NotificationsNumbered ==
    ASSUME OwnersOK, NEW m \in Mailboxes, NEW x \in NotificationsOf(m)
    PROVE  x.n \in 1 .. accepted[m] /\ x = Notification(x.n) /\ x.n \in Nat
  <1>1. PICK n \in 1 .. accepted[m] : x = Notification(n)
    BY DEF NotificationsOf
  <1>. QED
    BY <1>1 DEF Notification

\* A notification is accepted.
LEMMA NotifyPlaces ==
    ASSUME ChannelsOK, OwnersOK, Places, NEW m \in Mailboxes, Notify(m)
    PROVE  Places'
  <1>1. PICK k : k = accepted[m] + 1
    OBVIOUS
  <1>2. /\ Accepts(m) /\ Deliver(m, Notification(k)) /\ accepted' = [accepted EXCEPT ![m] = k]
        /\ UNCHANGED <<message_list, open, call, held, taken, fate>>
        /\ accepted'[m] = k /\ \A n \in Mailboxes \ {m} : accepted'[n] = accepted[n]
    BY <1>1 DEF Notify, OwnersOK
  <1>3. accepted[m] \in Nat /\ k \in UpTo(MaxNotifications)
    <2>1. accepted[m] \in Nat /\ MaxNotifications[m] \in Nat /\ accepted[m] < MaxNotifications[m]
      BY IdsType DEF Notify, OwnersOK
    <2>. QED
      BY <1>1, <2>1, IdsType
  <1>4. PICK x : x = Notification(k)
    OBVIOUS
  <1>5. x \in Notifications /\ x \in Messages /\ x \notin Requests /\ x \notin Responses /\ x.n = k
    BY <1>3, <1>4, ReachedType DEF Notification, Notifications, Messages
  <1>6. m \in open
    BY <1>2 DEF Accepts
  <1>7. Reached(m) \cap Notifications = NotificationsOf(m)
    BY <1>6 DEF Places, NotificationsKept
  <1>8. \A y \in Reached(m) \cap Notifications : y.n < k
    BY <1>1, <1>3, <1>7, NotificationsNumbered
  <1>9. \A y \in (InSeq(channel[m]) \cup InSeq(message_list[m]) \cup taken[m]) \cap Notifications :
            y.n < x.n
    BY <1>5, <1>8, ReachedType
  <1>10. x \notin InSeq(channel[m]) \cup InSeq(message_list[m]) \cup taken[m]
    BY <1>3, <1>1, <1>5, <1>9
  <1>11. held[m] \subseteq Requests
    BY DEF OwnersOK
  <1>12. /\ PlacedOnce'
         /\ InSeq(channel'[m]) = InSeq(channel[m]) \cup {x}
         /\ Reached(m)' = Reached(m) \cup ({x} \ Requests)
         /\ \A n \in Mailboxes \ {m} : channel'[n] = channel[n] /\ Reached(n)' = Reached(n)
    BY <1>2, <1>4, <1>5, <1>9, <1>10, <1>11, Arrives DEF Places
  <1>13. NotificationsKept'
    <2>1. NotificationsOf(m)' = NotificationsOf(m) \cup {x}
      <3>1. 1 .. k = (1 .. accepted[m]) \cup {k}
        BY <1>1, <1>3
      <3>. QED
        BY <1>2, <1>4, <3>1 DEF NotificationsOf
    <2>2. \A n \in Mailboxes \ {m} : NotificationsOf(n)' = NotificationsOf(n)
      BY <1>2 DEF NotificationsOf
    <2>. SUFFICES ASSUME NEW n \in open PROVE Reached(n)' \cap Notifications = NotificationsOf(n)'
      BY <1>2 DEF NotificationsKept
    <2>3. n \in Mailboxes
      BY DEF OwnersOK
    <2>4. CASE n = m
      BY <1>5, <1>7, <1>12, <2>1, <2>4
    <2>5. CASE n # m
      <3>1. Reached(n) \cap Notifications = NotificationsOf(n)
        BY DEF Places, NotificationsKept
      <3>. QED
        BY <1>12, <2>2, <2>3, <2>5, <3>1
    <2>. QED
      BY <2>4, <2>5
  <1>14. ResponsesKept'
    <2>1. \A n \in Mailboxes : Reached(n)' \cap Responses = Reached(n) \cap Responses
      BY <1>5, <1>12
    <2>2. \A n \in open : n \in Mailboxes
      BY DEF OwnersOK
    <2>. SUFFICES ASSUME NEW c \in open
                  PROVE  /\ \A y \in Reached(c)' \cap Responses : fate[c][y.id] \in Responded
                         /\ \A i \in RequestIds :
                             fate[c][i] \in Responded => \E y \in Reached(c)' \cap Responses : y.id = i
                         /\ \A y, z \in Reached(c)' \cap Responses : y.id = z.id => y = z
      BY <1>2 DEF ResponsesKept
    <2>. QED
      BY <2>1, <2>2 DEF Places, ResponsesKept
  <1>15. RequestsKept'
    <2>1. \A n \in Mailboxes : Unanswered(n)' = Unanswered(n)
      BY <1>2, <1>5, <1>12 DEF Unanswered
    <2>. QED
      BY <1>2, <2>1 DEF Places, RequestsKept
  <1>16. Made'
    BY <1>2, <1>6, <1>12 DEF Places, Made
  <1>. QED
    BY <1>12, <1>13, <1>14, <1>15, <1>16 DEF Places

\* A request that was not answered yet is answered, or its response is refused.
LEMMA AnswerPlaces ==
    ASSUME ChannelsOK, FatesOK, OwnersOK, PlacedOnce, NotificationsKept, ResponsesKept,
           NEW r \in Requests, NEW response \in Responses, response.id = r.id,
           Answer(r, response), fate[r.src][r.id] \notin Responded,
           UNCHANGED <<message_list, open, taken, accepted>>,
           \A n \in Mailboxes : held'[n] \subseteq held[n]
    PROVE  /\ PlacedOnce' /\ NotificationsKept' /\ ResponsesKept'
           /\ \A n \in Mailboxes : InSeq(channel'[n]) \cap Requests = InSeq(channel[n]) \cap Requests
           /\ \A n \in Mailboxes \ open : channel'[n] = channel[n]
           /\ fate'[r.src][r.id] \in Responded \cup {"refused"}
  <1>0. /\ \A n \in open : n \in Mailboxes
        /\ \A n \in Mailboxes : held[n] \subseteq Requests
    BY DEF OwnersOK
  <1>1. r.src \in Mailboxes /\ r.id \in RequestIds /\ r.type \in Types
    BY DEF Requests
  <1>2. PICK x, c : x = response /\ c = r.src
    OBVIOUS
  <1>3. x \in Responses /\ x \in Messages /\ x \notin Requests /\ x \notin Notifications /\ x.id = r.id
    <2>1. x \in Responses /\ x.id = r.id
      BY <1>2
    <2>. QED
      BY <2>1 DEF Messages, Requests, Responses, Notifications
  <1>4. CASE Accepts(c)
    <2>1. PICK how \in Responded : Deliver(c, x) /\ Settle(r, how)
      BY <1>2, <1>4 DEF Answer
    <2>2. /\ fate'[c][r.id] \in Responded
          /\ \A d \in Mailboxes, i \in RequestIds : d # c \/ i # r.id => fate'[d][i] = fate[d][i]
      BY <1>2, <2>1, Settled DEF Fates
    <2>3. c \in open /\ c \in Mailboxes
      BY <1>1, <1>2, <1>4 DEF Accepts
    <2>4. x \notin Reached(c)
      BY <1>2, <1>3, <2>3 DEF ResponsesKept
    <2>5. x \notin InSeq(channel[c]) \cup InSeq(message_list[c]) \cup held[c] \cup taken[c]
      BY <1>0, <1>3, <2>3, <2>4, ReachedType
    <2>6. /\ PlacedOnce'
          /\ InSeq(channel'[c]) = InSeq(channel[c]) \cup {x}
          /\ Reached(c)' = Reached(c) \cup ({x} \ Requests)
          /\ \A n \in Mailboxes \ {c} : channel'[n] = channel[n] /\ Reached(n)' = Reached(n)
      BY <1>3, <1>4, <2>1, <2>3, <2>5, Arrives
    <2>7. NotificationsKept'
      <3>. SUFFICES ASSUME NEW n \in open PROVE Reached(n)' \cap Notifications = NotificationsOf(n)
        BY DEF NotificationsKept, NotificationsOf
      <3>1. Reached(n)' \cap Notifications = Reached(n) \cap Notifications
        BY <1>0, <1>3, <2>6
      <3>. QED
        BY <3>1 DEF NotificationsKept
    <2>8. ResponsesKept'
      <3>. SUFFICES ASSUME NEW n \in open
                    PROVE  /\ \A y \in Reached(n)' \cap Responses : fate'[n][y.id] \in Responded
                           /\ \A i \in RequestIds :
                               fate'[n][i] \in Responded => \E y \in Reached(n)' \cap Responses : y.id = i
                           /\ \A y, z \in Reached(n)' \cap Responses : y.id = z.id => y = z
        BY DEF ResponsesKept
      <3>1. /\ \A y \in Reached(n) \cap Responses : fate[n][y.id] \in Responded /\ y.id \in RequestIds
            /\ \A i \in RequestIds :
                  fate[n][i] \in Responded => \E y \in Reached(n) \cap Responses : y.id = i
            /\ \A y, z \in Reached(n) \cap Responses : y.id = z.id => y = z
        BY DEF ResponsesKept, Responses
      <3>2. CASE n # c
        <4>1. Reached(n)' = Reached(n) /\ \A i \in RequestIds : fate'[n][i] = fate[n][i]
          BY <1>0, <2>2, <2>6, <3>2
        <4>. QED
          BY <3>1, <4>1
      <3>3. CASE n = c
        <4>1. /\ Reached(n)' = Reached(n) \cup {x}
              /\ \A y \in Reached(n) \cap Responses : y.id # r.id
              /\ \A i \in RequestIds \ {r.id} : fate'[n][i] = fate[n][i]
          BY <1>2, <1>3, <2>2, <2>3, <2>6, <3>1, <3>3
        <4>2. \A y \in Reached(n)' \cap Responses : fate'[n][y.id] \in Responded
          BY <1>3, <2>2, <3>1, <3>3, <4>1
        <4>3. \A i \in RequestIds :
                  fate'[n][i] \in Responded => \E y \in Reached(n)' \cap Responses : y.id = i
          BY <1>3, <3>1, <4>1
        <4>4. \A y, z \in Reached(n)' \cap Responses : y.id = z.id => y = z
          BY <1>3, <3>1, <4>1
        <4>. QED
          BY <4>2, <4>3, <4>4
      <3>. QED
        BY <3>2, <3>3
    <2>. QED
      BY <1>2, <1>3, <2>2, <2>3, <2>6, <2>7, <2>8
  <1>5. CASE ~Accepts(c)
    <2>1. channel' = channel /\ Settle(r, "refused")
      BY <1>2, <1>5 DEF Answer
    <2>2. /\ fate'[c][r.id] = "refused"
          /\ \A d \in Mailboxes, i \in RequestIds : d # c \/ i # r.id => fate'[d][i] = fate[d][i]
      BY <1>2, <2>1, Settled DEF Fates
    <2>3. \A d \in Mailboxes, i \in RequestIds : fate'[d][i] \in Responded <=> fate[d][i] \in Responded
      BY <1>1, <1>2, <2>2
    <2>4. PlacedOnce'
      <3>. SUFFICES ASSUME NEW n \in Mailboxes
                    PROVE  Once(channel[n], message_list[n], held'[n] \cup taken[n])
                           /\ InOrder(channel[n], message_list[n])
        BY <2>1 DEF PlacedOnce, Once, InOrder
      <3>1. held'[n] \cup taken[n] \in SUBSET (held[n] \cup taken[n])
        OBVIOUS
      <3>. QED
        BY <3>1, OnceLess DEF PlacedOnce
    <2>5. \A n \in Mailboxes : Reached(n)' = Reached(n)
      BY <2>1 DEF Reached
    <2>6. NotificationsKept'
      <3>. SUFFICES ASSUME NEW n \in open PROVE Reached(n)' \cap Notifications = NotificationsOf(n)
        BY DEF NotificationsKept, NotificationsOf
      <3>. QED
        BY <1>0, <2>5 DEF NotificationsKept
    <2>7. ResponsesKept'
      <3>. SUFFICES ASSUME NEW n \in open
                    PROVE  /\ \A y \in Reached(n)' \cap Responses : fate'[n][y.id] \in Responded
                           /\ \A i \in RequestIds :
                               fate'[n][i] \in Responded => \E y \in Reached(n)' \cap Responses : y.id = i
                           /\ \A y, z \in Reached(n)' \cap Responses : y.id = z.id => y = z
        BY DEF ResponsesKept
      <3>1. /\ \A y \in Reached(n) \cap Responses : fate[n][y.id] \in Responded /\ y.id \in RequestIds
            /\ \A i \in RequestIds :
                  fate[n][i] \in Responded => \E y \in Reached(n) \cap Responses : y.id = i
            /\ \A y, z \in Reached(n) \cap Responses : y.id = z.id => y = z
        BY DEF ResponsesKept, Responses
      <3>. QED
        BY <1>0, <2>3, <2>5, <3>1
    <2>. QED
      BY <1>2, <2>1, <2>2, <2>4, <2>6, <2>7
  <1>. QED
    BY <1>4, <1>5

\* The owner responds to a request that it has.
LEMMA RespondsPlaces ==
    ASSUME ChannelsOK, FatesOK, OwnersOK, Places,
           NEW m \in Mailboxes, NEW r \in held[m], NEW type \in Types,
           Responds(m, r, type)
    PROVE  Places'
  <1>1. /\ Answer(r, OkResponse(r, type)) /\ held' = [held EXCEPT ![m] = held[m] \ {r}]
        /\ UNCHANGED <<message_list, open, call, accepted, taken>>
    BY DEF Responds
  <1>2. /\ held'[m] = held[m] \ {r}
        /\ \A n \in Mailboxes \ {m} : held'[n] = held[n]
        /\ r \in Requests /\ r \in Unanswered(m)
    BY <1>1 DEF OwnersOK, Unanswered
  <1>3. fate[r.src][r.id] = "asked" /\ r.src \in Mailboxes /\ r.id \in RequestIds
    BY <1>2 DEF Places, RequestsKept, Requests
  <1>10. OkResponse(r, type) \in Responses /\ OkResponse(r, type).id = r.id
    BY <1>3 DEF OkResponse, Responses
  <1>4. /\ PlacedOnce' /\ NotificationsKept' /\ ResponsesKept'
        /\ \A n \in Mailboxes : InSeq(channel'[n]) \cap Requests = InSeq(channel[n]) \cap Requests
        /\ \A n \in Mailboxes \ open : channel'[n] = channel[n]
        /\ fate'[r.src][r.id] \in Responded \cup {"refused"}
    <2>1. \A n \in Mailboxes : held'[n] \subseteq held[n]
      BY <1>2
    <2>. QED
      BY <1>1, <1>2, <1>3, <1>10, <2>1, AnswerPlaces DEF Places
  <1>5. \A c \in Mailboxes, i \in RequestIds : c # r.src \/ i # r.id => fate'[c][i] = fate[c][i]
    BY <1>1, <1>2, <1>10, Answered
  <1>6. ASSUME NEW n \in Mailboxes PROVE Unanswered(n)' = Unanswered(n) \ {r}
    <2>1. CASE n = m
      <3>1. r \notin InSeq(channel[m]) \cup InSeq(message_list[m])
        BY DEF Places, PlacedOnce, Once
      <3>. QED
        BY <1>1, <1>2, <1>4, <2>1, <3>1 DEF Unanswered
    <2>2. CASE n # m
      <3>1. r \notin Unanswered(n)
        BY <1>2, <2>2 DEF Places, RequestsKept, Is
      <3>. QED
        BY <1>1, <1>2, <1>4, <2>2, <3>1 DEF Unanswered
    <2>. QED
      BY <2>1, <2>2
  <1>7. \A n \in Mailboxes : \A q \in Unanswered(n) :
            /\ q \in Requests /\ q.src \in Mailboxes /\ q.id \in RequestIds
            /\ Is(q, r.src, r.id) => q = r
    BY <1>2, UnansweredType DEF Places, RequestsKept, Is, Requests
  <1>8. RequestsKept'
    <2>1. \A n \in Mailboxes : \A q \in Unanswered(n)' : fate'[q.src][q.id] = "asked"
      BY <1>5, <1>6, <1>7 DEF Places, RequestsKept, Is
    <2>2. ASSUME NEW c \in Mailboxes, NEW i \in RequestIds, fate'[c][i] = "asked"
          PROVE  \E n \in Mailboxes : \E q \in Unanswered(n)' : Is(q, c, i)
      <3>1. ~Is(r, c, i) /\ fate[c][i] = "asked"
        BY <1>3, <1>4, <1>5, <2>2 DEF Is
      <3>2. PICK n \in Mailboxes : \E q \in Unanswered(n) : Is(q, c, i)
        BY <3>1 DEF Places, RequestsKept
      <3>. QED
        BY <1>6, <3>1, <3>2
    <2>3. \A n, k \in Mailboxes : \A q \in Unanswered(n)', s \in Unanswered(k)' :
            Is(q, s.src, s.id) => n = k /\ q = s
      BY <1>6 DEF Places, RequestsKept
    <2>. QED
      BY <2>1, <2>2, <2>3 DEF RequestsKept
  <1>9. Made'
    <2>1. \A c \in Mailboxes, i \in RequestIds : fate'[c][i] = "unsent" <=> fate[c][i] = "unsent"
      BY <1>3, <1>4, <1>5
    <2>. QED
      BY <1>1, <1>4, <2>1 DEF Places, Made
  <1>. QED
    BY <1>4, <1>8, <1>9 DEF Places

\* What RequestFor sends: a request with a new id.
LEMMA RequestNew ==
    ASSUME OwnersOK, NEW m \in Mailboxes, NEW dst \in Mailboxes, NEW type \in Types,
           RequestFor(m, dst, type)
    PROVE  \E r \in Requests :
             /\ r.kind = "Request" /\ r.src = m /\ r.id = call[m].id + 1 /\ r.type = type
             /\ r.src \in Mailboxes /\ r.id \in RequestIds /\ r.id \in Nat
             /\ SendRequest(dst, r)
             /\ call'[m] = [id |-> r.id, type |-> type, waiting |-> TRUE]
             /\ \A n \in Mailboxes \ {m} : call'[n] = call[n]
  <1>1. /\ call'[m] = [id |-> call[m].id + 1, type |-> type, waiting |-> TRUE]
        /\ \A n \in Mailboxes \ {m} : call'[n] = call[n]
        /\ call[m].id < MaxRequests[m]
    BY DEF RequestFor, OwnersOK
  <1>2. PICK r : r = [kind |-> "Request", src |-> m, id |-> call'[m].id, type |-> type]
    OBVIOUS
  <1>3. SendRequest(dst, r)
    BY <1>2 DEF RequestFor
  <1>4. call[m].id \in Nat
    BY CallIdType
  <1>5. call[m].id + 1 \in 1 .. MaxRequests[m]
    BY <1>1, <1>4, BoundsAssumption
  <1>6. call[m].id + 1 \in RequestIds
    BY <1>5, IdsType
  <1>7. /\ r \in Requests /\ r.kind = "Request" /\ r.src = m /\ r.type = type
        /\ r.id = call[m].id + 1 /\ call'[m] = [id |-> r.id, type |-> type, waiting |-> TRUE]
    BY <1>1, <1>2, <1>6 DEF Requests
  <1>8. r.src \in Mailboxes /\ r.id \in RequestIds /\ r.id \in Nat
    BY <1>4, <1>6, <1>7
  <1>. QED
    BY <1>1, <1>3, <1>7, <1>8

\* A request is sent.
LEMMA RequestForPlaces ==
    ASSUME ChannelsOK, FatesOK, OwnersOK, Places,
           NEW m \in Mailboxes, NEW dst \in Mailboxes, NEW type \in Types,
           RequestFor(m, dst, type)
    PROVE  Places'
  <1>1. PICK r \in Requests :
             /\ r.kind = "Request" /\ r.src = m /\ r.id = call[m].id + 1 /\ r.type = type
             /\ r.src \in Mailboxes /\ r.id \in RequestIds /\ r.id \in Nat
             /\ SendRequest(dst, r)
             /\ call'[m] = [id |-> r.id, type |-> type, waiting |-> TRUE]
             /\ \A n \in Mailboxes \ {m} : call'[n] = call[n]
    BY RequestNew
  <1>2. UNCHANGED <<message_list, open, held, accepted, taken>> /\ m \in open
    BY DEF RequestFor, Idle
  <1>3. fate[m][r.id] = "unsent"
    <2>1. call[m].id \in Nat
      BY CallIdType
    <2>. QED
      BY <1>1, <2>1 DEF Places, Made
  <1>4. \A n \in Mailboxes : \A q \in Unanswered(n) :
            /\ q \in Requests /\ q.src \in Mailboxes /\ q.id \in RequestIds
            /\ ~Is(q, m, r.id)
    BY <1>3, UnansweredType DEF Places, RequestsKept, Is, Requests
  <1>5. \A c \in Mailboxes, i \in RequestIds : c # m \/ i # r.id => fate'[c][i] = fate[c][i]
    <2>1. \A c \in Mailboxes, i \in RequestIds :
            c # r.src \/ i # r.id => fate'[c][i] = fate[c][i]
      BY <1>1, RequestSent
    <2>. QED
      BY <1>1, <2>1
  <1>6. ASSUME fate'[m][r.id] # "unsent", \A n \in Mailboxes \ open : channel'[n] = channel[n]
        PROVE  Made'
    <2>1. ASSUME NEW c \in Mailboxes, NEW i \in RequestIds
          PROVE  fate'[c][i] = "unsent" <=> i > call'[c].id
      <3>1. fate[c][i] = "unsent" <=> i > call[c].id
        BY DEF Places, Made
      <3>2. call[c].id \in Nat /\ i \in Nat
        BY CallIdType, IdsType
      <3>3. CASE c = m /\ i = r.id
        BY <1>1, <1>6, <3>2, <3>3
      <3>4. CASE c = m /\ i # r.id
        BY <1>1, <1>5, <3>1, <3>2, <3>4
      <3>5. CASE c # m
        BY <1>1, <1>5, <3>1, <3>5
      <3>. QED
        BY <3>3, <3>4, <3>5
    <2>2. \A n \in Mailboxes \ open :
            ~call'[n].waiting /\ channel'[n] = <<>> /\ message_list'[n] = <<>>
      BY <1>1, <1>2, <1>6 DEF Places, Made
    <2>. QED
      BY <1>2, <2>1, <2>2 DEF Made
  <1>7. CASE Accepts(dst)
    <2>1. Deliver(dst, r) /\ Settle(r, "asked") /\ r \in Messages /\ r \notin Notifications
      BY <1>1, <1>7, ReachedType DEF SendRequest, Messages
    <2>2. fate'[m][r.id] = "asked"
      BY <1>1, <2>1, Settled DEF Fates
    <2>3. r \notin InSeq(channel[dst]) \cup InSeq(message_list[dst]) \cup held[dst] \cup taken[dst]
      <3>1. r \notin Unanswered(dst)
        BY <1>1, <1>4 DEF Is
      <3>2. taken[dst] \subseteq Responses \cup Notifications
        BY DEF OwnersOK
      <3>. QED
        BY <3>1, <3>2, ReachedType DEF Unanswered
    <2>4. /\ PlacedOnce'
          /\ InSeq(channel'[dst]) = InSeq(channel[dst]) \cup {r}
          /\ Reached(dst)' = Reached(dst) \cup ({r} \ Requests)
          /\ \A n \in Mailboxes \ {dst} : channel'[n] = channel[n] /\ Reached(n)' = Reached(n)
      BY <1>2, <1>7, <2>1, <2>3, Arrives DEF Places
    <2>5. \A n \in Mailboxes : Reached(n)' = Reached(n)
      BY <2>4
    <2>6. \A n \in open : n \in Mailboxes
      BY DEF OwnersOK
    <2>7. NotificationsKept'
      <3>. SUFFICES ASSUME NEW n \in open PROVE Reached(n)' \cap Notifications = NotificationsOf(n)
        BY <1>2 DEF NotificationsKept, NotificationsOf
      <3>. QED
        BY <2>5, <2>6 DEF Places, NotificationsKept
    <2>8. \A c \in Mailboxes, i \in RequestIds : fate'[c][i] \in Responded <=> fate[c][i] \in Responded
      BY <1>3, <1>5, <2>2
    <2>9. ResponsesKept'
      <3>. SUFFICES ASSUME NEW n \in open
                    PROVE  /\ \A y \in Reached(n)' \cap Responses : fate'[n][y.id] \in Responded
                           /\ \A i \in RequestIds :
                               fate'[n][i] \in Responded => \E y \in Reached(n)' \cap Responses : y.id = i
                           /\ \A y, z \in Reached(n)' \cap Responses : y.id = z.id => y = z
        BY <1>2 DEF ResponsesKept
      <3>1. /\ \A y \in Reached(n) \cap Responses : fate[n][y.id] \in Responded /\ y.id \in RequestIds
            /\ \A i \in RequestIds :
                  fate[n][i] \in Responded => \E y \in Reached(n) \cap Responses : y.id = i
            /\ \A y, z \in Reached(n) \cap Responses : y.id = z.id => y = z
        BY DEF Places, ResponsesKept, Responses
      <3>. QED
        BY <2>5, <2>6, <2>8, <3>1
    <2>10. /\ Unanswered(dst)' = Unanswered(dst) \cup {r}
           /\ \A n \in Mailboxes \ {dst} : Unanswered(n)' = Unanswered(n)
      BY <1>2, <2>4 DEF Unanswered
    <2>11. RequestsKept'
      <3>1. \A n \in Mailboxes : \A q \in Unanswered(n)' : q \in Unanswered(n) \/ (q = r /\ n = dst)
        BY <2>10
      <3>2. \A n \in Mailboxes : \A q \in Unanswered(n)' : fate'[q.src][q.id] = "asked"
        BY <1>1, <1>4, <1>5, <2>2, <3>1 DEF Places, RequestsKept, Is
      <3>3. ASSUME NEW c \in Mailboxes, NEW i \in RequestIds, fate'[c][i] = "asked"
            PROVE  \E n \in Mailboxes : \E q \in Unanswered(n)' : Is(q, c, i)
        <4>1. CASE c = m /\ i = r.id
          BY <1>1, <2>10, <4>1 DEF Is
        <4>2. CASE c # m \/ i # r.id
          <5>1. PICK n \in Mailboxes : \E q \in Unanswered(n) : Is(q, c, i)
            BY <1>5, <3>3, <4>2 DEF Places, RequestsKept
          <5>. QED
            BY <2>10, <5>1
        <4>. QED
          BY <4>1, <4>2
      <3>4. ASSUME NEW n \in Mailboxes, NEW k \in Mailboxes,
                   NEW q \in Unanswered(n)', NEW s \in Unanswered(k)', Is(q, s.src, s.id)
            PROVE  n = k /\ q = s
        <4>1. CASE q \in Unanswered(n) /\ s \in Unanswered(k)
          BY <3>4, <4>1 DEF Places, RequestsKept
        <4>2. CASE q = r /\ n = dst /\ s = r /\ k = dst
          BY <4>2
        <4>3. CASE q \in Unanswered(n) /\ s = r
          BY <1>1, <1>4, <3>4, <4>3
        <4>4. CASE s \in Unanswered(k) /\ q = r
          <5>1. Is(s, m, r.id)
            BY <1>1, <3>4, <4>4 DEF Is
          <5>. QED
            BY <1>4, <4>4, <5>1
        <4>. QED
          BY <3>1, <4>1, <4>2, <4>3, <4>4
      <3>. QED
        BY <3>2, <3>3, <3>4 DEF RequestsKept
    <2>12. Made'
      BY <1>6, <1>7, <2>2, <2>4 DEF Accepts
    <2>. QED
      BY <2>4, <2>7, <2>9, <2>11, <2>12 DEF Places
  <1>8. CASE ~Accepts(dst)
    <2>1. /\ Answer(r, ErrResponse(r))
          /\ ErrResponse(r) \in Responses /\ ErrResponse(r).id = r.id
      BY <1>1, <1>8 DEF SendRequest, ErrResponse, Requests, Responses
    <2>2. fate[r.src][r.id] \notin Responded /\ \A n \in Mailboxes : held'[n] \subseteq held[n]
      BY <1>1, <1>2, <1>3
    <2>3. /\ PlacedOnce' /\ NotificationsKept' /\ ResponsesKept'
          /\ \A n \in Mailboxes : InSeq(channel'[n]) \cap Requests = InSeq(channel[n]) \cap Requests
          /\ \A n \in Mailboxes \ open : channel'[n] = channel[n]
          /\ fate'[r.src][r.id] \in Responded \cup {"refused"}
      BY <1>2, <2>1, <2>2, AnswerPlaces DEF Places
    <2>4. \A n \in Mailboxes : Unanswered(n)' = Unanswered(n)
      BY <1>2, <2>3 DEF Unanswered
    <2>5. RequestsKept'
      <3>1. \A n \in Mailboxes : \A q \in Unanswered(n)' : fate'[q.src][q.id] = "asked"
        BY <1>4, <1>5, <2>4 DEF Places, RequestsKept, Is
      <3>2. \A c \in Mailboxes, i \in RequestIds :
              fate'[c][i] = "asked" => \E n \in Mailboxes : \E q \in Unanswered(n)' : Is(q, c, i)
        BY <1>1, <1>5, <2>3, <2>4 DEF Places, RequestsKept
      <3>3. \A n, k \in Mailboxes : \A q \in Unanswered(n)', s \in Unanswered(k)' :
              Is(q, s.src, s.id) => n = k /\ q = s
        BY <2>4 DEF Places, RequestsKept
      <3>. QED
        BY <3>1, <3>2, <3>3 DEF RequestsKept
    <2>6. Made'
      BY <1>1, <1>6, <2>3
    <2>. QED
      BY <2>3, <2>5, <2>6 DEF Places
  <1>. QED
    BY <1>7, <1>8

\* A mailbox is dropped, with the requests that are with it.
LEMMA DropPlaces ==
    ASSUME ChannelsOK, FatesOK, OwnersOK, Places, NEW m \in Mailboxes, Drop(m)
    PROVE  Places'
  <1>1. /\ m \in open /\ ~call[m].waiting /\ open' = open \ {m}
        /\ channel'[m] = <<>> /\ message_list'[m] = <<>> /\ held'[m] = {}
        /\ UNCHANGED <<call, accepted>>
        /\ \A n \in Mailboxes \ {m} : /\ channel'[n] = channel[n] /\ held'[n] = held[n]
                                      /\ message_list'[n] = message_list[n] /\ taken'[n] = taken[n]
    BY DEF Drop, Idle, ChannelsOK, OwnersOK
  <1>2. InSeq(<<>>) = {} /\ \A i \in 1 .. Len(<<>>) : FALSE
    <2>1. Len(<<>>) = 0
      OBVIOUS
    <2>. QED
      BY <2>1 DEF InSeq
  <1>3. /\ Unanswered(m)' = {}
        /\ \A n \in Mailboxes \ {m} : Unanswered(n)' = Unanswered(n) /\ Reached(n)' = Reached(n)
    BY <1>1, <1>2 DEF Unanswered, Reached
  <1>4. \A c \in Mailboxes, i \in RequestIds :
          fate'[c][i] = IF \E r \in Unanswered(m) : Is(r, c, i) THEN "dropped" ELSE fate[c][i]
    BY DEF Drop, Is
  <1>5. \A n \in Mailboxes : \A r \in Unanswered(n) :
            /\ fate[r.src][r.id] = "asked"
            /\ r.src \in Mailboxes /\ r.id \in RequestIds /\ Is(r, r.src, r.id)
            /\ \A q \in Unanswered(m) : Is(q, r.src, r.id) => n = m
    BY UnansweredType DEF Places, RequestsKept, Requests, Is
  <1>6. \A c \in Mailboxes, i \in RequestIds :
          (\E r \in Unanswered(m) : Is(r, c, i)) => fate[c][i] = "asked"
    BY <1>5 DEF Is
  <1>7. \A c \in Mailboxes, i \in RequestIds :
          /\ fate'[c][i] = "unsent" <=> fate[c][i] = "unsent"
          /\ fate'[c][i] \in Responded <=> fate[c][i] \in Responded
          /\ fate'[c][i] = "asked" => fate[c][i] = "asked" /\ \A r \in Unanswered(m) : ~Is(r, c, i)
    BY <1>4, <1>6
  <1>8. PlacedOnce'
    <2>1. Once(<<>>, <<>>, held'[m] \cup taken'[m]) /\ InOrder(<<>>, <<>>)
      BY <1>2 DEF Once, Distinct, InOrder
    <2>2. /\ Once(channel'[m], message_list'[m], held'[m] \cup taken'[m])
          /\ InOrder(channel'[m], message_list'[m])
      BY <1>1, <2>1
    <2>. QED
      BY <1>1, <2>2, OneMailbox DEF Places
  <1>9. \A n \in open' : n \in open /\ n # m /\ n \in Mailboxes
    BY <1>1 DEF OwnersOK
  <1>10. NotificationsKept'
    <2>. SUFFICES ASSUME NEW n \in open' PROVE Reached(n)' \cap Notifications = NotificationsOf(n)
      BY <1>1 DEF NotificationsKept, NotificationsOf
    <2>. QED
      BY <1>3, <1>9 DEF Places, NotificationsKept
  <1>11. ResponsesKept'
    <2>. SUFFICES ASSUME NEW n \in open'
                  PROVE  /\ \A y \in Reached(n)' \cap Responses : fate'[n][y.id] \in Responded
                         /\ \A i \in RequestIds :
                             fate'[n][i] \in Responded => \E y \in Reached(n)' \cap Responses : y.id = i
                         /\ \A y, z \in Reached(n)' \cap Responses : y.id = z.id => y = z
      BY DEF ResponsesKept
    <2>1. n \in open /\ n \in Mailboxes /\ Reached(n)' = Reached(n)
      BY <1>3, <1>9
    <2>2. /\ \A y \in Reached(n) \cap Responses : fate[n][y.id] \in Responded /\ y.id \in RequestIds
          /\ \A i \in RequestIds :
                fate[n][i] \in Responded => \E y \in Reached(n) \cap Responses : y.id = i
          /\ \A y, z \in Reached(n) \cap Responses : y.id = z.id => y = z
      BY <2>1 DEF Places, ResponsesKept, Responses
    <2>. QED
      BY <1>7, <2>1, <2>2
  <1>12. RequestsKept'
    <2>1. \A n \in Mailboxes : \A r \in Unanswered(n)' : n # m /\ r \in Unanswered(n)
      BY <1>3
    <2>2. \A n \in Mailboxes : \A r \in Unanswered(n)' : fate'[r.src][r.id] = "asked"
      BY <1>4, <1>5, <2>1
    <2>3. ASSUME NEW c \in Mailboxes, NEW i \in RequestIds, fate'[c][i] = "asked"
          PROVE  \E n \in Mailboxes : \E r \in Unanswered(n)' : Is(r, c, i)
      <3>1. PICK n \in Mailboxes : \E r \in Unanswered(n) : Is(r, c, i)
        BY <1>7, <2>3 DEF Places, RequestsKept
      <3>2. n # m
        BY <1>7, <2>3, <3>1
      <3>. QED
        BY <1>3, <3>1, <3>2
    <2>4. \A n, k \in Mailboxes : \A r \in Unanswered(n)', s \in Unanswered(k)' :
            Is(r, s.src, s.id) => n = k /\ r = s
      BY <2>1 DEF Places, RequestsKept
    <2>. QED
      BY <2>2, <2>3, <2>4 DEF RequestsKept
  <1>13. Made'
    <2>1. \A c \in Mailboxes, i \in RequestIds : fate'[c][i] = "unsent" <=> i > call'[c].id
      BY <1>1, <1>7 DEF Places, Made
    <2>2. \A n \in Mailboxes \ open' :
            ~call'[n].waiting /\ channel'[n] = <<>> /\ message_list'[n] = <<>>
      <3>1. \A n \in Mailboxes \ open' : n = m \/ (n \in Mailboxes \ open /\ n # m)
        BY <1>1
      <3>. QED
        BY <1>1, <3>1 DEF Places, Made
    <2>. QED
      BY <2>1, <2>2 DEF Made
  <1>. QED
    BY <1>8, <1>10, <1>11, <1>12, <1>13 DEF Places

\* Nothing is anywhere in the beginning.
LEMMA InitPlaces == Init => Places
  <1>. SUFFICES ASSUME Init PROVE Places
    OBVIOUS
  <1>1. InSeq(<<>>) = {} /\ \A i \in 1 .. Len(<<>>) : FALSE
    <2>1. Len(<<>>) = 0
      OBVIOUS
    <2>. QED
      BY <2>1 DEF InSeq
  <1>2. \A m \in Mailboxes :
          /\ channel[m] = <<>> /\ message_list[m] = <<>> /\ held[m] = {} /\ taken[m] = {}
          /\ accepted[m] = 0 /\ call[m].id = 0 /\ ~call[m].waiting
    BY DEF Init, NoCall
  <1>3. open = Mailboxes /\ \A c \in Mailboxes, i \in RequestIds : fate[c][i] = "unsent"
    BY DEF Init
  <1>4. \A m \in Mailboxes : Unanswered(m) = {} /\ Reached(m) = {} /\ NotificationsOf(m) = {}
    BY <1>1, <1>2 DEF Unanswered, Reached, NotificationsOf
  <1>5. \A handed : Once(<<>>, <<>>, handed) /\ InOrder(<<>>, <<>>)
    BY <1>1 DEF Once, Distinct, InOrder
  <1>6. PlacedOnce
    BY <1>2, <1>5 DEF PlacedOnce
  <1>7. NotificationsKept /\ ResponsesKept /\ RequestsKept
    BY <1>3, <1>4 DEF NotificationsKept, ResponsesKept, RequestsKept
  <1>8. Made
    <2>1. \A i \in RequestIds : i \in Nat /\ i > 0
      BY BoundsAssumption DEF RequestIds, UpTo
    <2>. QED
      BY <1>2, <1>3, <2>1 DEF Made
  <1>. QED
    BY <1>6, <1>7, <1>8 DEF Places

\* Every step keeps the messages in their places.
LEMMA NextPlaces ==
    ASSUME IInv, Places, [Next]_vars
    PROVE  Places'
  <1>0. ChannelsOK /\ FatesOK /\ OwnersOK
    BY DEF IInv
  <1>1. ASSUME UNCHANGED <<channel, message_list, open, held, accepted, taken, fate>>,
               \A m \in Mailboxes : call'[m].id = call[m].id /\ (call'[m].waiting => call[m].waiting)
        PROVE  Places'
    <2>1. PlacedOnce'
      BY <1>1 DEF Places, PlacedOnce
    <2>2. \A m \in Mailboxes : Unanswered(m)' = Unanswered(m) /\ Reached(m)' = Reached(m)
      BY <1>1 DEF Unanswered, Reached
    <2>. QED
      BY <1>0, <1>1, <2>1, <2>2, NothingNew DEF OwnersOK
  <1>2. CASE UNCHANGED vars
    BY <1>1, <1>2 DEF vars
  <1>3. ASSUME NEW m \in Mailboxes, GiveUp(m) \/ Cancel(m) PROVE Places'
    <2>1. Returns(m) /\ UNCHANGED <<channel, message_list, open, held, accepted, taken, fate>>
      BY <1>3 DEF GiveUp, Cancel
    <2>2. /\ ~call'[m].waiting /\ call'[m].id = call[m].id
          /\ \A n \in Mailboxes \ {m} : call'[n] = call[n]
      BY <1>0, <2>1, Returned
    <2>. QED
      BY <1>1, <2>1, <2>2
  <1>4. ASSUME NEW m \in Mailboxes, Waiting(m) \/ Cancel(m) PROVE m \in open
    <2>1. call[m].waiting
      BY <1>4 DEF Waiting, ReceiveResult, ReceiveLate, ReceiveOther, GiveUp, Cancel
    <2>. QED
      BY <2>1 DEF Places, Made
  <1>5. ASSUME NEW m \in Mailboxes, ReceiveResult(m) \/ ReceiveLate(m) PROVE Places'
    <2>1. /\ m \in open /\ channel[m] # <<>> /\ Receive(m)
          /\ UNCHANGED <<message_list, open, held, accepted, fate>>
          /\ taken' = [taken EXCEPT ![m] = @ \cup {Head(channel[m])}]
          /\ Head(channel[m]).kind = "Response"
      BY <1>4, <1>5 DEF Waiting, ReceiveResult, ReceiveLate, IsForCall
    <2>2. Head(channel[m]) \notin Requests
      BY <2>1 DEF Requests
    <2>3. \A n \in Mailboxes : call'[n].id = call[n].id /\ (call'[n].waiting => call[n].waiting)
      BY <1>0, <1>5, Returned DEF ReceiveResult, ReceiveLate
    <2>. QED
      BY <1>0, <2>1, <2>2, <2>3, ReceivedPlaces
  <1>6. ASSUME NEW m \in Mailboxes, ReceiveOther(m) PROVE Places'
    <2>1. /\ m \in open /\ channel[m] # <<>> /\ Receive(m) /\ SetAside(m, Head(channel[m]))
          /\ UNCHANGED <<open, call, held, accepted, taken, fate>>
      BY <1>4, <1>6 DEF Waiting, ReceiveOther
    <2>. QED
      BY <1>0, <2>1, ReceivedPlaces
  <1>7. ASSUME NEW m \in Mailboxes, GetNext(m) PROVE Places'
    <2>1. /\ m \in open /\ channel[m] # <<>> /\ Receive(m) /\ Hand(m, Head(channel[m]))
          /\ UNCHANGED <<message_list, open, call, accepted, fate>>
      BY <1>7 DEF GetNext, Idle
    <2>. QED
      BY <1>0, <2>1, ReceivedPlaces
  <1>. QED
    BY <1>0, <1>2, <1>3, <1>5, <1>6, <1>7, NotifyPlaces, RequestForPlaces, GetAsidePlaces,
       RespondsPlaces, DropPlaces, AskedTypes DEF Next, Waiting

\* A step after which no response is new and no owner waits that did not before.
LEMMA MistypedLess ==
    ASSUME MistypedKnown,
           \A c \in Mailboxes : Pending(c)' \subseteq Pending(c),
           \A c \in Mailboxes, i \in RequestIds : fate'[c][i] = "mistyped" => fate[c][i] = "mistyped",
           \A c \in Mailboxes : call'[c].waiting => call'[c] = call[c]
    PROVE  MistypedKnown'
  <1>. SUFFICES ASSUME NEW c \in Mailboxes, NEW x \in Pending(c)', fate'[c][x.id] = "mistyped"
                PROVE  x.ok /\ (x.id = call'[c].id /\ call'[c].waiting => x.type # call'[c].type)
    BY DEF MistypedKnown
  <1>1. x \in Pending(c) /\ x.id \in RequestIds
    BY DEF Pending, Responses
  <1>2. fate[c][x.id] = "mistyped"
    BY <1>1
  <1>. QED
    BY <1>1, <1>2 DEF MistypedKnown

\* Every step keeps what is known of the responses of another type.
LEMMA MistypedNext ==
    ASSUME IInv, Places, MistypedKnown, [Next]_vars
    PROVE  MistypedKnown'
  <1>0. ChannelsOK /\ FatesOK /\ OwnersOK
    BY DEF IInv
  <1>1. CASE UNCHANGED vars
    BY <1>1, MistypedLess DEF vars, Pending
  <1>2. ASSUME NEW m \in Mailboxes, ReceiveResult(m) \/ ReceiveLate(m) \/ GetNext(m)
        PROVE  MistypedKnown'
    <2>1. channel[m] # <<>> /\ Receive(m) /\ UNCHANGED <<message_list, fate>>
      BY <1>2 DEF ReceiveResult, ReceiveLate, GetNext
    <2>2. \A c \in Mailboxes : InSeq(channel'[c]) \subseteq InSeq(channel[c])
      BY <1>0, <2>1, Received
    <2>3. \A c \in Mailboxes : call'[c].waiting => call'[c] = call[c]
      BY <1>0, <1>2, Returned DEF ReceiveResult, ReceiveLate, GetNext
    <2>4. \A c \in Mailboxes : Pending(c)' \subseteq Pending(c)
      BY <2>1, <2>2 DEF Pending
    <2>. QED
      BY <2>1, <2>3, <2>4, MistypedLess
  <1>3. ASSUME NEW m \in Mailboxes, ReceiveOther(m) PROVE MistypedKnown'
    <2>1. PICK h : h = Head(channel[m])
      OBVIOUS
    <2>2. /\ channel[m] # <<>> /\ Receive(m) /\ SetAside(m, h) /\ UNCHANGED <<call, fate>>
          /\ message_list[m] \in Seq(Messages)
      BY <1>0, <1>3, <2>1 DEF ReceiveOther, OwnersOK
    <2>3. /\ h \in Messages /\ InSeq(channel[m]) = InSeq(channel'[m]) \cup {h}
          /\ \A n \in Mailboxes \ {m} : channel'[n] = channel[n]
      BY <1>0, <2>1, <2>2, Received
    <2>4. /\ message_list'[m] = Append(message_list[m], h)
          /\ \A n \in Mailboxes \ {m} : message_list'[n] = message_list[n]
      BY <1>0, <2>2 DEF SetAside, OwnersOK
    <2>5. InSeq(message_list'[m]) = InSeq(message_list[m]) \cup {h}
      BY <2>2, <2>3, <2>4, AppendElements
    <2>6. \A c \in Mailboxes : Pending(c)' \subseteq Pending(c)
      BY <2>3, <2>4, <2>5 DEF Pending
    <2>. QED
      BY <2>2, <2>6, MistypedLess
  <1>4. ASSUME NEW m \in Mailboxes, GiveUp(m) \/ Cancel(m) PROVE MistypedKnown'
    <2>1. Returns(m) /\ UNCHANGED <<channel, message_list, fate>>
      BY <1>4 DEF GiveUp, Cancel
    <2>2. \A c \in Mailboxes : call'[c].waiting => call'[c] = call[c]
      BY <1>0, <2>1, Returned
    <2>. QED
      BY <2>1, <2>2, MistypedLess DEF Pending
  <1>5. ASSUME NEW m \in Mailboxes, GetAside(m) PROVE MistypedKnown'
    <2>1. /\ message_list[m] \in Seq(Messages) /\ message_list[m] # <<>>
          /\ message_list'[m] = Rest(message_list[m])
          /\ \A n \in Mailboxes \ {m} : message_list'[n] = message_list[n]
          /\ UNCHANGED <<channel, call, fate>>
      BY <1>0, <1>5 DEF GetAside, OwnersOK
    <2>2. InSeq(message_list'[m]) \subseteq InSeq(message_list[m])
      BY <2>1, RestElements
    <2>3. \A c \in Mailboxes : Pending(c)' \subseteq Pending(c)
      BY <2>1, <2>2 DEF Pending
    <2>. QED
      BY <2>1, <2>3, MistypedLess
  <1>6. ASSUME NEW m \in Mailboxes, Notify(m) PROVE MistypedKnown'
    <2>1. PICK x : x = Notification(accepted'[m])
      OBVIOUS
    <2>2. Accepts(m) /\ Deliver(m, x) /\ UNCHANGED <<message_list, call, fate>>
      BY <1>6, <2>1 DEF Notify
    <2>3. x \in Messages /\ x \notin Responses
      <3>1. accepted'[m] \in UpTo(MaxNotifications)
        <4>1. accepted'[m] = accepted[m] + 1 /\ accepted[m] < MaxNotifications[m]
          BY <1>0, <1>6 DEF Notify, OwnersOK
        <4>2. accepted[m] \in Nat /\ MaxNotifications[m] \in Nat
          BY <1>0, IdsType DEF OwnersOK
        <4>. QED
          BY <4>1, <4>2, IdsType
      <3>. QED
        BY <2>1, <3>1 DEF Notification, Notifications, Messages, Responses
    <2>4. /\ InSeq(channel'[m]) = InSeq(channel[m]) \cup {x}
          /\ \A n \in Mailboxes \ {m} : channel'[n] = channel[n]
      BY <1>0, <2>2, <2>3, Delivered
    <2>5. \A c \in Mailboxes : Pending(c)' \subseteq Pending(c)
      BY <2>2, <2>3, <2>4 DEF Pending
    <2>. QED
      BY <2>2, <2>5, MistypedLess
  <1>7. ASSUME NEW m \in Mailboxes, NEW dst \in Mailboxes, NEW type \in Types,
               RequestFor(m, dst, type)
        PROVE  MistypedKnown'
    <2>1. PICK r \in Requests :
             /\ r.src = m /\ r.id = call[m].id + 1 /\ r.id \in RequestIds
             /\ SendRequest(dst, r) /\ r.src \in Mailboxes
             /\ \A n \in Mailboxes \ {m} : call'[n] = call[n]
      BY <1>0, <1>7, RequestNew
    <2>2. PICK e : e = ErrResponse(r)
      OBVIOUS
    <2>3. /\ \A n \in Mailboxes :
               /\ InSeq(channel'[n]) \subseteq InSeq(channel[n]) \cup {r, e}
               /\ n # m /\ e \in InSeq(channel'[n]) => e \in InSeq(channel[n])
          /\ fate'[m][r.id] # "mistyped"
          /\ \A c \in Mailboxes, i \in RequestIds :
               c # m \/ i # r.id => fate'[c][i] = fate[c][i]
          /\ UNCHANGED message_list
      <3>1. /\ \A n \in Mailboxes :
                 /\ InSeq(channel'[n]) \subseteq InSeq(channel[n]) \cup {r, ErrResponse(r)}
                 /\ n # r.src /\ ErrResponse(r) \in InSeq(channel'[n]) =>
                        ErrResponse(r) \in InSeq(channel[n])
            /\ fate'[r.src][r.id] # "mistyped"
            /\ \A c \in Mailboxes, i \in RequestIds :
                 c # r.src \/ i # r.id => fate'[c][i] = fate[c][i]
        <4>1. ChannelsOK /\ FatesOK /\ SendRequest(dst, r) /\ r \in Requests
          BY <1>0, <2>1
        <4>. QED
          BY <4>1, RequestSent
      <3>. QED
        BY <1>7, <2>1, <2>2, <3>1 DEF RequestFor
    <2>4. r \notin Responses /\ e.id = r.id
      BY <2>1, <2>2, ReachedType DEF ErrResponse
    <2>5. ASSUME NEW c \in Mailboxes, NEW x \in Pending(c)', fate'[c][x.id] = "mistyped"
          PROVE  x.ok /\ (x.id = call'[c].id /\ call'[c].waiting => x.type # call'[c].type)
      <3>1. x \in Responses /\ x.id \in RequestIds /\ x.id \in Nat
        BY IdsType DEF Pending, Responses
      <3>2. c # m \/ x.id # r.id
        BY <2>3, <2>5
      <3>3. x \in Pending(c) /\ fate[c][x.id] = "mistyped"
        BY <2>3, <2>4, <2>5, <3>1, <3>2 DEF Pending
      <3>4. CASE c # m
        BY <2>1, <3>3, <3>4 DEF MistypedKnown
      <3>5. CASE c = m
        <4>1. call'[m].id = r.id
          BY <1>0, <1>7, <2>1 DEF RequestFor, OwnersOK
        <4>. QED
          BY <3>2, <3>3, <3>5, <4>1 DEF MistypedKnown
      <3>. QED
        BY <3>4, <3>5
    <2>. QED
      BY <2>5 DEF MistypedKnown
  <1>8. ASSUME NEW m \in Mailboxes, NEW r \in held[m], NEW type \in Types, Responds(m, r, type)
        PROVE  MistypedKnown'
    <2>1. PICK a : a = OkResponse(r, type)
      OBVIOUS
    <2>2. /\ r \in Requests /\ r.src \in Mailboxes /\ r.id \in RequestIds /\ r \in Unanswered(m)
          /\ Answer(r, a) /\ UNCHANGED <<message_list, call>>
      BY <1>0, <1>8, <2>1 DEF Responds, OwnersOK, Requests, Unanswered
    <2>3. a \in Responses /\ a.id = r.id /\ a.ok
      BY <2>1, <2>2 DEF OkResponse, Responses
    <2>4. /\ \A n \in Mailboxes : /\ InSeq(channel'[n]) \subseteq InSeq(channel[n]) \cup {a}
                                  /\ n # r.src => channel'[n] = channel[n]
          /\ \A c \in Mailboxes, i \in RequestIds :
                c # r.src \/ i # r.id => fate'[c][i] = fate[c][i]
      <3>1. ChannelsOK /\ FatesOK /\ r \in Requests /\ a \in Responses /\ Answer(r, a)
        BY <1>0, <2>2, <2>3
      <3>. QED
        BY <3>1, Answered
    <2>5. fate'[r.src][r.id] = "mistyped" => a.type # r.type
      <3>1. PICK how \in Fates : /\ Settle(r, how)
                                 /\ how = "mistyped" => a.type # r.type
        BY <2>2 DEF Answer, Fates
      <3>. QED
        BY <1>0, <2>2, <3>1, Settled
    <2>6. fate[r.src][r.id] = "asked"
      BY <2>2 DEF Places, RequestsKept
    <2>7. r.id = call[r.src].id /\ call[r.src].waiting => r.type = call[r.src].type
      BY <2>2 DEF IInv, RequestsKnown
    <2>8. ASSUME NEW x \in Pending(r.src) PROVE x.id # r.id
      <3>1. r.src \in open
        <4>1. InSeq(<<>>) = {}
          <5>1. Len(<<>>) = 0
            OBVIOUS
          <5>. QED
            BY <5>1 DEF InSeq
        <4>. QED
          BY <2>2, <2>8, <4>1 DEF Places, Made, Pending
      <3>2. x \in Reached(r.src) \cap Responses
        BY <2>2, ReachedType DEF Pending
      <3>. QED
        BY <2>6, <3>1, <3>2 DEF Places, ResponsesKept
    <2>9. ASSUME NEW c \in Mailboxes, NEW x \in Pending(c)', fate'[c][x.id] = "mistyped"
          PROVE  x.ok /\ (x.id = call'[c].id /\ call'[c].waiting => x.type # call'[c].type)
      <3>1. x \in Responses /\ x.id \in RequestIds
        BY DEF Pending, Responses
      <3>2. x \in Pending(c) \/ (x = a /\ c = r.src)
        BY <2>2, <2>4 DEF Pending
      <3>3. CASE x = a /\ c = r.src
        BY <2>2, <2>3, <2>5, <2>7, <2>9, <3>3
      <3>4. CASE x \in Pending(c)
        <4>1. c # r.src \/ x.id # r.id
          BY <2>8, <3>4
        <4>2. fate[c][x.id] = "mistyped"
          BY <2>4, <2>9, <3>1, <4>1
        <4>. QED
          BY <2>2, <3>4, <4>2 DEF MistypedKnown
      <3>. QED
        BY <3>2, <3>3, <3>4
    <2>. QED
      BY <2>9 DEF MistypedKnown
  <1>9. ASSUME NEW m \in Mailboxes, Drop(m) PROVE MistypedKnown'
    <2>1. InSeq(<<>>) = {}
      <3>1. Len(<<>>) = 0
        OBVIOUS
      <3>. QED
        BY <3>1 DEF InSeq
    <2>2. /\ UNCHANGED call /\ channel'[m] = <<>> /\ message_list'[m] = <<>>
          /\ \A n \in Mailboxes \ {m} : /\ channel'[n] = channel[n]
                                        /\ message_list'[n] = message_list[n]
      BY <1>0, <1>9 DEF Drop, ChannelsOK, OwnersOK
    <2>3. \A c \in Mailboxes : Pending(c)' \subseteq Pending(c)
      BY <2>1, <2>2 DEF Pending
    <2>4. \A c \in Mailboxes, i \in RequestIds :
            fate'[c][i] = "mistyped" => fate[c][i] = "mistyped"
      BY <1>9 DEF Drop
    <2>. QED
      BY <2>2, <2>3, <2>4, MistypedLess
  <1>. QED
    BY <1>1, <1>2, <1>3, <1>4, <1>5, <1>6, <1>7, <1>8, <1>9, AskedTypes DEF Next, Waiting

\* Every reachable state has the messages in their places.
LEMMA InPlaces == Spec => []PInv
  <1>1. Init => Places /\ MistypedKnown
    <2>1. ASSUME Init PROVE MistypedKnown
      <3>1. \A c \in Mailboxes, i \in RequestIds : fate[c][i] = "unsent"
        BY <2>1 DEF Init
      <3>. QED
        BY <3>1 DEF MistypedKnown, Pending, Responses
    <2>. QED
      BY <2>1, InitPlaces
  <1>2. IInv /\ Places /\ MistypedKnown /\ [Next]_vars => (Places /\ MistypedKnown)'
    BY NextPlaces, MistypedNext
  <1>3. IInv /\ Places /\ MistypedKnown => PInv
    BY DEF PInv
  <1>. QED
    BY <1>1, <1>2, <1>3, Answerable, PTL DEF Spec

-------------------------------------------------------------------------------
(* How often a message is somewhere.                                       *)

\* A sequence without repetitions has an element at one position.
LEMMA PositionOnce ==
    ASSUME NEW s \in Seq(Messages), NEW x, Distinct(s)
    PROVE  Cardinality(Positions(s, x)) = IF x \in InSeq(s) THEN 1 ELSE 0
  <1>1. CASE x \in InSeq(s)
    <2>1. PICK i \in 1 .. Len(s) : s[i] = x
      BY <1>1 DEF InSeq
    <2>2. Positions(s, x) = {i}
      BY <2>1 DEF Positions, Distinct
    <2>. QED
      BY <1>1, <2>2, FS_Singleton
  <1>2. CASE x \notin InSeq(s)
    <2>1. Positions(s, x) = {}
      BY <1>2 DEF Positions, InSeq
    <2>. QED
      BY <1>2, <2>1, FS_EmptySet
  <1>. QED
    BY <1>1, <1>2

\* A message that is with a mailbox or was with its owner is there once.
LEMMA CopiesOnce ==
    ASSUME ChannelsOK, OwnersOK, PlacedOnce, NEW m \in Mailboxes, NEW x
    PROVE  Copies(m, x) =
             IF x \in InSeq(channel[m]) \cup InSeq(message_list[m]) \cup held[m] \cup taken[m]
             THEN 1 ELSE 0
  <1>1. /\ channel[m] \in Seq(Messages) /\ message_list[m] \in Seq(Messages)
        /\ Distinct(channel[m]) /\ Distinct(message_list[m])
        /\ InSeq(channel[m]) \cap InSeq(message_list[m]) = {}
        /\ (InSeq(channel[m]) \cup InSeq(message_list[m])) \cap (held[m] \cup taken[m]) = {}
    BY DEF ChannelsOK, OwnersOK, PlacedOnce, Once
  <1>2. /\ Cardinality(Positions(channel[m], x)) = IF x \in InSeq(channel[m]) THEN 1 ELSE 0
        /\ Cardinality(Positions(message_list[m], x)) = IF x \in InSeq(message_list[m]) THEN 1 ELSE 0
    BY <1>1, PositionOnce
  <1>3. CASE x \in InSeq(channel[m])
    BY <1>1, <1>2, <1>3 DEF Copies
  <1>4. CASE x \in InSeq(message_list[m])
    BY <1>1, <1>2, <1>4 DEF Copies
  <1>5. CASE x \notin InSeq(channel[m]) \cup InSeq(message_list[m])
    BY <1>1, <1>2, <1>5 DEF Copies
  <1>. QED
    BY <1>3, <1>4, <1>5

\* Nothing that a mailbox accepted is lost or handed over twice while it exists: not a
\* notification, not a request that waits for its response, not a response.
THEOREM MessagesOnce == Spec => []EachMessageOnce
<1>1. PInv => EachMessageOnce
  <2>. SUFFICES ASSUME PInv PROVE EachMessageOnce
    OBVIOUS
  <2>0. /\ ChannelsOK /\ OwnersOK /\ PlacedOnce /\ NotificationsKept /\ ResponsesKept /\ RequestsKept
        /\ \A n \in open : n \in Mailboxes
    BY DEF PInv, IInv, Places, OwnersOK
  <2>1. ASSUME NEW m \in open, NEW x \in NotificationsOf(m) PROVE Copies(m, x) = 1
    <3>1. x \in Reached(m)
      BY <2>0 DEF NotificationsKept
    <3>2. x \in InSeq(channel[m]) \cup InSeq(message_list[m]) \cup taken[m]
      BY <3>1 DEF Reached
    <3>. QED
      BY <2>0, <3>2, CopiesOnce
  <2>2. ASSUME NEW c \in Mailboxes, NEW i \in RequestIds
        PROVE  Cardinality(RequestCopies(c, i)) = (IF fate[c][i] = "asked" THEN 1 ELSE 0)
    <3>1. ASSUME NEW m \in Mailboxes, NEW r \in Requests
          PROVE  Copies(m, r) > 0 <=> r \in Unanswered(m)
      <4>1. r \notin taken[m]
        BY <2>0, ReachedType DEF OwnersOK
      <4>. QED
        BY <2>0, <4>1, CopiesOnce DEF Unanswered
    <3>2. \A m \in Mailboxes : \A r \in Unanswered(m) : r \in Requests
      BY <2>0, UnansweredType
    <3>3. RequestCopies(c, i) =
            {p \in Mailboxes \X Requests : Is(p[2], c, i) /\ p[2] \in Unanswered(p[1])}
      BY <3>1 DEF RequestCopies, Is
    <3>4. CASE fate[c][i] = "asked"
      <4>1. PICK m \in Mailboxes : \E q \in Unanswered(m) : Is(q, c, i)
        BY <2>0, <3>4 DEF RequestsKept
      <4>2. PICK r \in Unanswered(m) : Is(r, c, i)
        BY <4>1
      <4>3. <<m, r>> \in RequestCopies(c, i)
        BY <3>2, <3>3, <4>2
      <4>4. ASSUME NEW p \in RequestCopies(c, i) PROVE p = <<m, r>>
        <5>1. p \in Mailboxes \X Requests /\ Is(p[2], c, i) /\ p[2] \in Unanswered(p[1])
          BY <3>3
        <5>2. p = <<p[1], p[2]>> /\ p[1] \in Mailboxes
          BY <5>1
        <5>3. p[1] = m /\ p[2] = r
          BY <2>0, <4>2, <5>1, <5>2 DEF RequestsKept, Is
        <5>. QED
          BY <5>2, <5>3
      <4>5. RequestCopies(c, i) = {<<m, r>>}
        BY <4>3, <4>4
      <4>. QED
        BY <3>4, <4>5, FS_Singleton
    <3>5. CASE fate[c][i] # "asked"
      <4>1. \A m \in Mailboxes : \A r \in Unanswered(m) : ~Is(r, c, i)
        BY <2>0, <3>5 DEF RequestsKept, Is
      <4>2. RequestCopies(c, i) = {}
        BY <3>3, <4>1
      <4>. QED
        BY <3>5, <4>2, FS_EmptySet
    <3>. QED
      BY <3>4, <3>5
  <2>3. ASSUME NEW c \in Mailboxes, NEW i \in RequestIds, c \in open
        PROVE  Cardinality(ResponseCopies(c, i)) = (IF fate[c][i] \in Responded THEN 1 ELSE 0)
    <3>1. ASSUME NEW r \in Responses PROVE Copies(c, r) > 0 <=> r \in Reached(c)
      <4>1. r \notin held[c] /\ r \notin Requests
        BY <2>0, ReachedType DEF OwnersOK
      <4>. QED
        BY <2>0, <4>1, CopiesOnce DEF Reached
    <3>2. ResponseCopies(c, i) = {r \in Reached(c) \cap Responses : r.id = i}
      BY <3>1 DEF ResponseCopies
    <3>3. CASE fate[c][i] \in Responded
      <4>1. PICK r \in Reached(c) \cap Responses : r.id = i
        BY <2>0, <2>3, <3>3 DEF ResponsesKept
      <4>2. ResponseCopies(c, i) = {r}
        BY <2>0, <2>3, <3>2, <4>1 DEF ResponsesKept
      <4>. QED
        BY <3>3, <4>2, FS_Singleton
    <3>4. CASE fate[c][i] \notin Responded
      <4>1. ResponseCopies(c, i) = {}
        BY <2>0, <2>3, <3>2, <3>4 DEF ResponsesKept
      <4>. QED
        BY <3>4, <4>1, FS_EmptySet
    <3>. QED
      BY <3>3, <3>4
  <2>4. ASSUME NEW m \in Mailboxes, NEW x \in InSeq(channel[m]) \cup InSeq(message_list[m])
        PROVE  Copies(m, x) = 1
    BY <2>0, CopiesOnce
  <2>. QED
    BY <2>1, <2>2, <2>3, <2>4 DEF EachMessageOnce
<1>. QED
  BY <1>1, InPlaces, PTL

-------------------------------------------------------------------------------
(* The order of the notifications.                                         *)

\* A notification overtakes an older one only when both had been set aside.
THEOREM OvertakingOnlyAside == Spec => OvertakesOnlyAside
<1>. DEFINE Kept == \A m \in open :
              \A x \in (taken'[m] \ taken[m]) \cap Notifications, y \in NotificationsOf(m) :
                  y.n < x.n /\ y \notin taken[m] => {x, y} \subseteq InSeq(message_list[m])
<1>1. PInv /\ [Next]_vars => Kept
  <2>. SUFFICES ASSUME PInv, [Next]_vars, NEW m \in open,
                       NEW x \in (taken'[m] \ taken[m]) \cap Notifications,
                       NEW y \in NotificationsOf(m), y.n < x.n, y \notin taken[m]
                PROVE  x \in InSeq(message_list[m]) /\ y \in InSeq(message_list[m])
    OBVIOUS
  <2>0. /\ ChannelsOK /\ OwnersOK /\ PlacedOnce /\ NotificationsKept /\ m \in Mailboxes
    BY DEF PInv, IInv, Places, OwnersOK
  <2>1. /\ channel[m] \in Seq(Messages) /\ message_list[m] \in Seq(Messages)
        /\ Once(channel[m], message_list[m], held[m] \cup taken[m])
        /\ InOrder(channel[m], message_list[m])
        /\ x \notin Responses
    BY <2>0, ReachedType DEF ChannelsOK, OwnersOK, PlacedOnce
  <2>2. y \in Notifications /\ y \in Reached(m) /\ y.n \in Nat /\ x.n \in Nat
    <3>1. y \in Notifications /\ y \in Reached(m)
      BY <2>0 DEF NotificationsKept
    <3>. QED
      BY <3>1, IdsType DEF Notifications
  <2>3. y \in InSeq(channel[m]) \cup InSeq(message_list[m])
    BY <2>2 DEF Reached
  <2>4. ASSUME NEW n \in Mailboxes, taken' = [taken EXCEPT ![n] = @ \cup {Head(channel[n])}],
               Head(channel[n]).kind = "Response"
        PROVE  FALSE
    <3>1. taken'[m] \subseteq taken[m] \cup {Head(channel[n])}
      BY <2>0, <2>4 DEF OwnersOK
    <3>2. x.kind = "Response"
      BY <2>4, <3>1
    <3>. QED
      BY <3>2 DEF Notifications
  <2>5. ASSUME NEW n \in Mailboxes, GetNext(n) PROVE FALSE
    <3>1. /\ channel[n] # <<>> /\ message_list[n] = <<>> /\ Hand(n, Head(channel[n]))
          /\ channel[n] \in Seq(Messages)
      BY <2>0, <2>5 DEF GetNext, ChannelsOK
    <3>2. PICK h : h = Head(channel[n])
      OBVIOUS
    <3>3. h \in Messages
      BY <3>1, <3>2, TailElements
    <3>4. taken'[n] \subseteq taken[n] \cup {h} /\ \A k \in Mailboxes \ {n} : taken'[k] = taken[k]
      BY <2>0, <3>1, <3>2, <3>3, Handed
    <3>5. n = m /\ x = h
      BY <2>0, <3>4
    <3>6. InSeq(message_list[m]) = {}
      <4>1. Len(<<>>) = 0
        OBVIOUS
      <4>. QED
        BY <3>1, <3>5, <4>1 DEF InSeq
    <3>7. /\ InSeq(channel[m]) = InSeq(Tail(channel[m])) \cup {h}
          /\ h \in Notifications => \A z \in InSeq(Tail(channel[m])) \cap Notifications : h.n < z.n
      BY <2>1, <3>1, <3>2, <3>5, HeadTaken
    <3>8. y # x
      BY <2>2
    <3>9. x.n < y.n
      BY <2>2, <2>3, <3>5, <3>6, <3>7, <3>8
    <3>. QED
      BY <2>2, <3>9
  <2>6. ASSUME NEW n \in Mailboxes, GetAside(n)
        PROVE  x \in InSeq(message_list[m]) /\ y \in InSeq(message_list[m])
    <3>1. PICK h : h = message_list[n][Len(message_list[n])]
      OBVIOUS
    <3>2. message_list[n] # <<>> /\ Hand(n, h) /\ message_list[n] \in Seq(Messages)
      BY <2>0, <2>6, <3>1 DEF GetAside, OwnersOK
    <3>3. h \in Messages /\ h \in InSeq(message_list[n])
      BY <3>1, <3>2, RestElements
    <3>4. taken'[n] \subseteq taken[n] \cup {h} /\ \A k \in Mailboxes \ {n} : taken'[k] = taken[k]
      BY <2>0, <3>2, <3>3, Handed
    <3>5. n = m /\ x = h
      BY <2>0, <3>4
    <3>6. x \in InSeq(message_list[m])
      BY <3>3, <3>5
    <3>7. y \notin InSeq(channel[m])
      BY <2>1, <2>2, <3>6 DEF InOrder
    <3>. QED
      BY <2>3, <3>6, <3>7
  <2>7. ASSUME UNCHANGED taken PROVE FALSE
    BY <2>7
  <2>8. ASSUME NEW n \in Mailboxes, Drop(n) PROVE FALSE
    <3>1. taken' = [taken EXCEPT ![n] = {}]
      BY <2>8 DEF Drop
    <3>. QED
      BY <2>0, <3>1 DEF OwnersOK
  <2>9. ASSUME NEW n \in Mailboxes, ReceiveResult(n) \/ ReceiveLate(n) PROVE FALSE
    <3>1. /\ taken' = [taken EXCEPT ![n] = @ \cup {Head(channel[n])}]
          /\ Head(channel[n]).kind = "Response"
      BY <2>9 DEF ReceiveResult, ReceiveLate, IsForCall
    <3>. QED
      BY <2>4, <3>1
  <2>. QED
    BY <2>5, <2>6, <2>7, <2>8, <2>9 DEF Next, vars, Waiting, Notify, RequestFor, ReceiveOther,
       GiveUp, Cancel, Responds
<1>. QED
  BY <1>1, InPlaces, PTL DEF Spec, OvertakesOnlyAside

-------------------------------------------------------------------------------
(* What a request is to its owner.                                         *)

\* The status of the request i by its fate and by these responses.
StatusBy(f, i, pending) ==
    IF f = "unsent" THEN "unsent"
    ELSE IF f = "asked" THEN "open"
    ELSE IF f = "mistyped" THEN "closed"
    ELSE IF \E x \in pending : x.id = i /\ x.ok THEN "ok"
    ELSE IF \E x \in pending : x.id = i /\ ~x.ok THEN "error"
    ELSE "closed"

cur  == [c \in Mailboxes |-> IF call[c].waiting THEN call[c].id ELSE 0]
stat == [c \in Mailboxes |-> [i \in RequestIds |-> Status(c, i)]]

Step == [Promise!Next]_(Promise!vars)

LEMMA StatusMeans ==
    PInv => \A c \in Mailboxes, i \in RequestIds : Status(c, i) = StatusBy(fate[c][i], i, Pending(c))
  <1>. SUFFICES ASSUME PInv, NEW c \in Mailboxes, NEW i \in RequestIds
                PROVE  Status(c, i) = StatusBy(fate[c][i], i, Pending(c))
    OBVIOUS
  <1>1. fate[c][i] = "unsent" <=> i > call[c].id
    BY DEF PInv, Places, Made
  <1>2. channel[c] \in Seq(Messages) /\ message_list[c] \in Seq(Messages)
    BY DEF PInv, IInv, ChannelsOK, OwnersOK
  <1>3. InSeq(channel[c]) \subseteq Messages /\ InSeq(message_list[c]) \subseteq Messages
    BY <1>2, ElementsType
  <1>4. \A x \in InSeq(channel[c]) \cup InSeq(message_list[c]) :
            x.kind = "Response" <=> x \in Responses
    BY <1>3, Kinds DEF Responses
  <1>5. \A x \in Responses : (x.ok = TRUE <=> x.ok) /\ (x.ok = FALSE <=> ~x.ok)
    BY DEF Responses
  <1>6. /\ ResponseWith(c, i, TRUE) <=> \E x \in Pending(c) : x.id = i /\ x.ok
        /\ ResponseWith(c, i, FALSE) <=> \E x \in Pending(c) : x.id = i /\ ~x.ok
    BY <1>4, <1>5 DEF ResponseWith, Pending
  <1>. QED
    BY <1>1, <1>6 DEF Status, StatusBy

LEMMA StatusMeansNext ==
    PInv' => (\A c \in Mailboxes, i \in RequestIds :
                  Status(c, i) = StatusBy(fate[c][i], i, Pending(c)))'
  BY StatusMeans, PTL

\* A status changes with the fate of the request, or with a response to it.
LEMMA StatusKept ==
    ASSUME NEW f, NEW i, NEW pending, NEW later,
           \A x : x.id = i => (x \in later <=> x \in pending)
    PROVE  StatusBy(f, i, later) = StatusBy(f, i, pending)
  <1>1. /\ (\E x \in later : x.id = i /\ x.ok) <=> (\E x \in pending : x.id = i /\ x.ok)
        /\ (\E x \in later : x.id = i /\ ~x.ok) <=> (\E x \in pending : x.id = i /\ ~x.ok)
    OBVIOUS
  <1>. QED
    BY <1>1 DEF StatusBy

\* One status changes.
LEMMA StatBecomes ==
    ASSUME PInv, PInv', NEW c \in Mailboxes, NEW i \in RequestIds, NEW statuses,
           StatusBy(fate'[c][i], i, Pending(c)') \in statuses,
           \A d \in Mailboxes, j \in RequestIds : d # c \/ j # i =>
               /\ fate'[d][j] = fate[d][j]
               /\ \A x : x.id = j => (x \in Pending(d)' <=> x \in Pending(d))
    PROVE  Promise!Becomes(c, i, statuses)
  <1>1. /\ \A d \in Mailboxes, j \in RequestIds : Status(d, j) = StatusBy(fate[d][j], j, Pending(d))
        /\ \A d \in Mailboxes, j \in RequestIds : Status(d, j)' = StatusBy(fate'[d][j], j, Pending(d)')
    BY StatusMeans, StatusMeansNext
  <1>2. PICK s \in statuses : s = StatusBy(fate'[c][i], i, Pending(c)')
    OBVIOUS
  <1>3. \A d \in Mailboxes, j \in RequestIds :
            Status(d, j)' = IF d = c /\ j = i THEN s ELSE Status(d, j)
    <2>. TAKE d \in Mailboxes, j \in RequestIds
    <2>1. CASE d = c /\ j = i
      BY <1>1, <1>2, <2>1
    <2>2. CASE d # c \/ j # i
      <3>1. PICK pending, later : pending = Pending(d) /\ later = Pending(d)'
        OBVIOUS
      <3>2. \A x : x.id = j => (x \in later <=> x \in pending)
        BY <2>2, <3>1
      <3>3. StatusBy(fate[d][j], j, later) = StatusBy(fate[d][j], j, pending)
        BY <3>2, StatusKept
      <3>. QED
        BY <1>1, <2>2, <3>1, <3>3
    <2>. QED
      BY <2>1, <2>2
  <1>4. stat' = [stat EXCEPT ![c][i] = s]
    <2>1. stat' = [d \in Mailboxes |-> [j \in RequestIds |->
                      IF d = c /\ j = i THEN s ELSE Status(d, j)]]
      BY <1>3 DEF stat
    <2>. QED
      BY <2>1 DEF stat
  <1>. QED
    BY <1>2, <1>4 DEF Promise!Becomes, stat

\* None does.
LEMMA StatFixed ==
    ASSUME PInv, PInv', UNCHANGED fate, \A d \in Mailboxes : Pending(d)' = Pending(d)
    PROVE  stat' = stat
  <1>1. \A d \in Mailboxes, j \in RequestIds : Status(d, j)' = StatusBy(fate'[d][j], j, Pending(d)')
    BY StatusMeansNext
  <1>2. \A d \in Mailboxes, j \in RequestIds : Status(d, j)' = Status(d, j)
    <2>. TAKE d \in Mailboxes, j \in RequestIds
    <2>1. Status(d, j) = StatusBy(fate[d][j], j, Pending(d))
      BY StatusMeans
    <2>2. Status(d, j)' = StatusBy(fate'[d][j], j, Pending(d)')
      BY <1>1
    <2>. QED
      BY <2>1, <2>2
  <1>. QED
    BY <1>2 DEF stat

\* One response to a request is on its way at most, and only when it was responded to.
LEMMA OnePending ==
    ASSUME PInv, NEW m \in Mailboxes, NEW x \in Pending(m)
    PROVE  /\ x.id \in RequestIds /\ x.ok \in BOOLEAN /\ fate[m][x.id] \in Responded
           /\ \A y \in Pending(m) : y.id = x.id => y = x
           /\ stat[m][x.id] = IF fate[m][x.id] = "mistyped" THEN "closed"
                              ELSE IF x.ok THEN "ok" ELSE "error"
  <1>1. x \in Responses /\ x.id \in RequestIds /\ x.ok \in BOOLEAN
    BY DEF Pending, Responses
  <1>2. m \in open
    <2>1. InSeq(<<>>) = {}
      <3>1. Len(<<>>) = 0
        OBVIOUS
      <3>. QED
        BY <3>1 DEF InSeq
    <2>. QED
      BY <2>1 DEF PInv, Places, Made, Pending
  <1>3. Pending(m) \subseteq Reached(m) \cap Responses
    BY ReachedType DEF Pending
  <1>4. fate[m][x.id] \in Responded /\ \A y \in Pending(m) : y.id = x.id => y = x
    BY <1>2, <1>3 DEF PInv, Places, ResponsesKept
  <1>5. Status(m, x.id) = StatusBy(fate[m][x.id], x.id, Pending(m))
    BY <1>1, StatusMeans
  <1>6. Status(m, x.id) = IF fate[m][x.id] = "mistyped" THEN "closed"
                          ELSE IF x.ok THEN "ok" ELSE "error"
    BY <1>4, <1>5 DEF StatusBy
  <1>. QED
    BY <1>1, <1>4, <1>6 DEF stat

\* A response that is taken closes its request, if it was an answer.
LEMMA ResponseTaken ==
    ASSUME PInv, PInv', NEW m \in Mailboxes, NEW x \in Responses, x \in taken'[m],
           InSeq(channel[m]) \cup InSeq(message_list[m])
               = InSeq(channel'[m]) \cup InSeq(message_list'[m]) \cup {x},
           \A n \in Mailboxes \ {m} : channel'[n] = channel[n] /\ message_list'[n] = message_list[n],
           UNCHANGED fate
    PROVE  /\ x.id \in RequestIds /\ x.ok \in BOOLEAN /\ x \in Pending(m)
           /\ IF fate[m][x.id] = "mistyped" THEN stat' = stat
              ELSE /\ stat[m][x.id] = IF x.ok THEN "ok" ELSE "error"
                   /\ Promise!Becomes(m, x.id, {"closed"})
  <1>1. x \in Pending(m)
    BY DEF Pending
  <1>2. /\ x.id \in RequestIds /\ x.ok \in BOOLEAN /\ fate[m][x.id] \in Responded
        /\ \A y \in Pending(m) : y.id = x.id => y = x
        /\ stat[m][x.id] = IF fate[m][x.id] = "mistyped" THEN "closed"
                           ELSE IF x.ok THEN "ok" ELSE "error"
    BY <1>1, OnePending
  <1>3. x \notin InSeq(channel'[m]) \cup InSeq(message_list'[m])
    BY DEF PInv, Places, PlacedOnce, Once
  <1>4. /\ Pending(m)' = Pending(m) \ {x}
        /\ \A n \in Mailboxes \ {m} : Pending(n)' = Pending(n)
    BY <1>3 DEF Pending
  <1>5. StatusBy(fate'[m][x.id], x.id, Pending(m)') \in {"closed"}
    BY <1>2, <1>4 DEF StatusBy
  <1>6. \A d \in Mailboxes, j \in RequestIds : d # m \/ j # x.id =>
               /\ fate'[d][j] = fate[d][j]
               /\ \A y : y.id = j => (y \in Pending(d)' <=> y \in Pending(d))
    BY <1>4
  <1>7. PICK i : i = x.id
    OBVIOUS
  <1>8. Promise!Becomes(m, i, {"closed"})
    BY <1>2, <1>5, <1>6, <1>7, StatBecomes
  <1>9. ASSUME fate[m][x.id] = "mistyped" PROVE stat' = stat
    <2>1. stat[m][i] = "closed" /\ stat' = [stat EXCEPT ![m][i] = "closed"]
      BY <1>2, <1>7, <1>8, <1>9 DEF Promise!Becomes, stat
    <2>2. stat = [c \in Mailboxes |-> [j \in RequestIds |-> stat[c][j]]]
      BY DEF stat
    <2>. HIDE DEF stat
    <2>. QED
      BY <2>1, <2>2
  <1>. QED
    BY <1>1, <1>2, <1>7, <1>8, <1>9

-------------------------------------------------------------------------------
(* Each step is one of RequestReply.                                       *)

\* Neither a status nor what an owner waits for changes.
LEMMA Stutters ==
    ASSUME PInv, PInv', UNCHANGED <<call, fate>>, \A d \in Mailboxes : Pending(d)' = Pending(d)
    PROVE  Step
  <1>1. stat' = stat
    BY StatFixed
  <1>2. cur' = cur
    BY DEF cur
  <1>. QED
    BY <1>1, <1>2 DEF Step, stat, cur, Promise!vars

LEMMA PromiseInit == Init => Promise!Init
  <1>. SUFFICES ASSUME Init PROVE Promise!Init
    OBVIOUS
  <1>1. ASSUME NEW c \in Mailboxes, NEW i \in RequestIds PROVE Status(c, i) = "unsent"
    <2>1. i \in Nat /\ i > 0
      BY BoundsAssumption DEF RequestIds, UpTo
    <2>2. call[c].id = 0
      BY DEF Init, NoCall
    <2>. QED
      BY <2>1, <2>2 DEF Status
  <1>2. \A c \in Mailboxes : ~call[c].waiting
    BY DEF Init, NoCall
  <1>. QED
    BY <1>1, <1>2 DEF Promise!Init

\* The owner leaves request_for.
LEMMA CallEnds ==
    ASSUME PInv, NEW m \in Mailboxes, call[m].waiting, Returns(m)
    PROVE  /\ cur[m] = call[m].id /\ cur[m] # 0 /\ cur[m] \in RequestIds
           /\ cur' = [cur EXCEPT ![m] = 0]
  <1>1. call[m].id \in RequestIds
    BY DEF PInv, IInv, WaitingHasId
  <1>2. call[m].id # 0
    BY <1>1, BoundsAssumption DEF RequestIds, UpTo
  <1>3. ~call'[m].waiting /\ \A n \in Mailboxes \ {m} : call'[n] = call[n]
    BY Returned DEF PInv, IInv
  <1>4. cur' = [c \in Mailboxes |-> IF c = m THEN 0 ELSE cur[c]]
    BY <1>3 DEF cur
  <1>. QED
    BY <1>1, <1>2, <1>4 DEF cur

\* A request is sent, or refused with an error or with nothing.
LEMMA RequestStep ==
    ASSUME PInv, PInv', NEW m \in Mailboxes, NEW dst \in Mailboxes, NEW type \in Types,
           RequestFor(m, dst, type)
    PROVE  Step
  <1>0. ChannelsOK /\ FatesOK /\ OwnersOK /\ m \in open /\ ~call[m].waiting
        /\ UNCHANGED message_list
    BY DEF PInv, IInv, RequestFor, Idle
  <1>1. PICK r \in Requests :
             /\ r.kind = "Request" /\ r.src = m /\ r.id = call[m].id + 1 /\ r.type = type
             /\ r.src \in Mailboxes /\ r.id \in RequestIds /\ r.id \in Nat
             /\ SendRequest(dst, r)
             /\ call'[m] = [id |-> r.id, type |-> type, waiting |-> TRUE]
             /\ \A n \in Mailboxes \ {m} : call'[n] = call[n]
    BY <1>0, RequestNew
  <1>2. PICK i, e : i = r.id /\ e = ErrResponse(r)
    OBVIOUS
  <1>3. /\ \A n \in Mailboxes :
                /\ InSeq(channel[n]) \subseteq InSeq(channel'[n])
                /\ InSeq(channel'[n]) \subseteq InSeq(channel[n]) \cup {r, e}
                /\ n # m /\ e \in InSeq(channel'[n]) => e \in InSeq(channel[n])
        /\ \A c \in Mailboxes, j \in RequestIds : c # m \/ j # i => fate'[c][j] = fate[c][j]
    <2>1. /\ \A n \in Mailboxes :
                /\ InSeq(channel[n]) \subseteq InSeq(channel'[n])
                /\ InSeq(channel'[n]) \subseteq InSeq(channel[n]) \cup {r, ErrResponse(r)}
                /\ n # r.src /\ ErrResponse(r) \in InSeq(channel'[n]) =>
                        ErrResponse(r) \in InSeq(channel[n])
          /\ \A c \in Mailboxes, j \in RequestIds :
                c # r.src \/ j # r.id => fate'[c][j] = fate[c][j]
      <3>1. ChannelsOK /\ FatesOK /\ SendRequest(dst, r) /\ r \in Requests
        BY <1>0, <1>1
      <3>2. \A n \in Mailboxes :
                /\ InSeq(channel[n]) \subseteq InSeq(channel'[n])
                /\ InSeq(channel'[n]) \subseteq InSeq(channel[n]) \cup {r, ErrResponse(r)}
                /\ n # r.src /\ ErrResponse(r) \in InSeq(channel'[n]) =>
                        ErrResponse(r) \in InSeq(channel[n])
        BY <3>1, RequestSent
      <3>3. \A c \in Mailboxes, j \in RequestIds :
                c # r.src \/ j # r.id => fate'[c][j] = fate[c][j]
        BY <3>1, RequestSent
      <3>. QED
        BY <3>2, <3>3
    <2>. QED
      BY <1>1, <1>2, <2>1
  <1>4. r \notin Responses /\ e.id = i /\ ~e.ok
    BY <1>1, <1>2, ReachedType DEF ErrResponse
  <1>5. \A j \in RequestIds : j >= i => fate[m][j] = "unsent"
    <2>1. call[m].id \in Nat /\ \A j \in RequestIds : j \in Nat
      BY <1>0, CallIdType, IdsType
    <2>. QED
      BY <1>1, <1>2, <2>1 DEF PInv, Places, Made
  <1>6. \A x \in Pending(m) : x.id # i
    BY <1>1, <1>2, <1>5, OnePending
  <1>7. \A n \in Mailboxes : \A x : x \in Pending(n)' => x \in Pending(n) \/ (n = m /\ x = e)
    BY <1>0, <1>3, <1>4 DEF Pending
  <1>8. \A n \in Mailboxes : Pending(n) \subseteq Pending(n)'
    BY <1>0, <1>3 DEF Pending
  <1>9. StatusBy(fate'[m][i], i, Pending(m)') \in {"open", "error", "closed"}
    <2>1. fate'[m][i] # "unsent"
      <3>1. ~(i > call'[m].id)
        BY <1>1, <1>2
      <3>. QED
        BY <1>1, <1>2, <3>1 DEF PInv, Places, Made
    <2>2. ~ \E x \in Pending(m)' : x.id = i /\ x.ok
      BY <1>4, <1>6, <1>7
    <2>. QED
      BY <2>1, <2>2 DEF StatusBy
  <1>10. \A d \in Mailboxes, j \in RequestIds : d # m \/ j # i =>
               /\ fate'[d][j] = fate[d][j]
               /\ \A x : x.id = j => (x \in Pending(d)' <=> x \in Pending(d))
    BY <1>3, <1>4, <1>7, <1>8
  <1>11. Promise!Becomes(m, i, {"open", "error", "closed"})
    BY <1>1, <1>2, <1>9, <1>10, StatBecomes
  <1>12. cur[m] = 0 /\ cur' = [cur EXCEPT ![m] = i]
    <2>1. cur' = [c \in Mailboxes |-> IF c = m THEN i ELSE cur[c]]
      <3>1. call'[m].waiting /\ call'[m].id = i
        BY <1>1, <1>2
      <3>. QED
        BY <1>1, <3>1 DEF cur
    <2>. QED
      BY <1>0, <2>1 DEF cur
  <1>13. \A j \in RequestIds : j >= i => stat[m][j] = "unsent"
    BY <1>5, StatusMeans DEF stat, StatusBy
  <1>14. Promise!Ask(m, i)
    BY <1>11, <1>12, <1>13 DEF Promise!Ask, stat, cur
  <1>. QED
    BY <1>1, <1>2, <1>14 DEF Step, Promise!Next

\* A request is answered: the response is on its way to its owner, or refused.
LEMMA RespondsStep ==
    ASSUME PInv, PInv', NEW m \in Mailboxes, NEW r \in held[m], NEW type \in Types,
           Responds(m, r, type)
    PROVE  Step
  <1>0. /\ ChannelsOK /\ FatesOK /\ OwnersOK
        /\ Answer(r, OkResponse(r, type)) /\ UNCHANGED <<message_list, call>>
    BY DEF PInv, IInv, Responds
  <1>1. r \in Requests /\ r.src \in Mailboxes /\ r.id \in RequestIds /\ r \in Unanswered(m)
    BY <1>0 DEF OwnersOK, Requests, Unanswered
  <1>2. fate[r.src][r.id] = "asked"
    BY <1>1 DEF PInv, Places, RequestsKept
  <1>3. PICK c, i, a : c = r.src /\ i = r.id /\ a = OkResponse(r, type)
    OBVIOUS
  <1>6. a \in Responses /\ a.id = i
    BY <1>1, <1>3 DEF OkResponse, Responses
  <1>4. /\ \A n \in Mailboxes : /\ InSeq(channel[n]) \subseteq InSeq(channel'[n])
                                /\ InSeq(channel'[n]) \subseteq InSeq(channel[n]) \cup {a}
                                /\ n # c => channel'[n] = channel[n]
        /\ \A d \in Mailboxes, j \in RequestIds : d # c \/ j # i => fate'[d][j] = fate[d][j]
    <2>1. r \in Requests /\ a \in Responses /\ Answer(r, a)
      BY <1>0, <1>1, <1>3, <1>6
    <2>2. /\ \A n \in Mailboxes : /\ InSeq(channel[n]) \subseteq InSeq(channel'[n])
                                  /\ InSeq(channel'[n]) \subseteq InSeq(channel[n]) \cup {a}
                                  /\ n # r.src => channel'[n] = channel[n]
          /\ \A d \in Mailboxes, j \in RequestIds :
                d # r.src \/ j # r.id => fate'[d][j] = fate[d][j]
      BY <1>0, <2>1, Answered
    <2>. QED
      BY <1>3, <2>2
  <1>5. fate'[c][i] \in Responded \cup {"refused"}
    <2>1. \A n \in Mailboxes : held'[n] \subseteq held[n]
      BY <1>0 DEF Responds, OwnersOK
    <2>2. UNCHANGED <<message_list, open, taken, accepted>> /\ fate[r.src][r.id] \notin Responded
      BY <1>2 DEF Responds
    <2>. QED
      BY <1>0, <1>1, <1>3, <1>6, <2>1, <2>2, AnswerPlaces DEF PInv, Places
  <1>7. \A n \in Mailboxes : \A x : x.id # i \/ n # c => (x \in Pending(n)' <=> x \in Pending(n))
    BY <1>0, <1>4, <1>6 DEF Pending
  <1>8. StatusBy(fate'[c][i], i, Pending(c)') \in {"ok", "error", "closed"}
    BY <1>5 DEF StatusBy
  <1>9. \A d \in Mailboxes, j \in RequestIds : d # c \/ j # i =>
               /\ fate'[d][j] = fate[d][j]
               /\ \A x : x.id = j => (x \in Pending(d)' <=> x \in Pending(d))
    BY <1>4, <1>7
  <1>10. Promise!Becomes(c, i, {"ok", "error", "closed"})
    BY <1>1, <1>3, <1>8, <1>9, StatBecomes
  <1>11. cur' = cur
    BY <1>0 DEF cur
  <1>12. stat[c][i] = "open"
    BY <1>1, <1>2, <1>3, StatusMeans DEF stat, StatusBy
  <1>13. Promise!Answers \cup {"closed"} = {"ok", "error", "closed"}
    BY DEF Promise!Answers
  <1>14. Promise!Answer(c, i)
    BY <1>10, <1>11, <1>12, <1>13 DEF Promise!Answer, stat, cur
  <1>. QED
    BY <1>1, <1>3, <1>14 DEF Step, Promise!Next

\* What receiving leaves in the two queues.
LEMMA ReceivedQueues ==
    ASSUME PInv, NEW m \in Mailboxes, channel[m] # <<>>, Receive(m), UNCHANGED message_list
    PROVE  /\ Head(channel[m]) \in Messages
           /\ InSeq(channel[m]) \cup InSeq(message_list[m])
                  = InSeq(channel'[m]) \cup InSeq(message_list'[m]) \cup {Head(channel[m])}
           /\ \A n \in Mailboxes \ {m} : channel'[n] = channel[n] /\ message_list'[n] = message_list[n]
  BY Received DEF PInv, IInv

\* The owner that waits takes the response, an error, or a late response.
LEMMA ReceiveStep ==
    ASSUME PInv, PInv', NEW m \in Mailboxes, ReceiveResult(m) \/ ReceiveLate(m)
    PROVE  Step
  <1>1. PICK x : x = Head(channel[m])
    OBVIOUS
  <1>2. /\ channel[m] # <<>> /\ Receive(m) /\ UNCHANGED <<message_list, fate>>
        /\ call[m].waiting /\ x.kind = "Response" /\ x \in taken'[m]
    BY <1>1 DEF ReceiveResult, ReceiveLate, IsForCall, PInv, IInv, OwnersOK
  <1>3. /\ x \in Messages
        /\ InSeq(channel[m]) \cup InSeq(message_list[m])
               = InSeq(channel'[m]) \cup InSeq(message_list'[m]) \cup {x}
        /\ \A n \in Mailboxes \ {m} : channel'[n] = channel[n] /\ message_list'[n] = message_list[n]
    BY <1>1, <1>2, ReceivedQueues
  <1>4. x \in Responses
    BY <1>2, <1>3, Kinds
  <1>5. /\ x.id \in RequestIds /\ x.ok \in BOOLEAN
        /\ x \in Pending(m)
        /\ IF fate[m][x.id] = "mistyped" THEN stat' = stat
           ELSE /\ stat[m][x.id] = IF x.ok THEN "ok" ELSE "error"
                /\ Promise!Becomes(m, x.id, {"closed"})
    BY <1>2, <1>3, <1>4, ResponseTaken
  <1>6. CASE ReceiveResult(m)
    <2>1. /\ cur[m] = call[m].id /\ cur[m] # 0 /\ cur[m] \in RequestIds
          /\ cur' = [cur EXCEPT ![m] = 0]
      BY <1>2, <1>6, CallEnds DEF ReceiveResult
    <2>4. fate[m][x.id] # "mistyped"
      BY <1>1, <1>2, <1>5, <1>6 DEF ReceiveResult, IsForCall, PInv, MistypedKnown
    <2>2. CASE x.ok
      <3>1. x.id = cur[m]
        BY <1>1, <1>6, <2>1, <2>2 DEF ReceiveResult
      <3>2. Promise!TakeOk(m)
        BY <1>5, <2>1, <2>2, <2>4, <3>1 DEF Promise!TakeOk, Promise!Stops, stat, cur
      <3>. QED
        BY <3>2 DEF Step, Promise!Next
    <2>3. CASE ~x.ok
      <3>1. Promise!TakeError(m, x.id)
        BY <1>5, <2>1, <2>3, <2>4 DEF Promise!TakeError, Promise!Stops, stat, cur
      <3>. QED
        BY <1>5, <3>1 DEF Step, Promise!Next
    <2>. QED
      BY <2>2, <2>3
  <1>7. CASE ReceiveLate(m)
    <2>1. cur' = cur
      BY <1>7 DEF ReceiveLate, cur
    <2>2. x.id # cur[m]
      BY <1>1, <1>2, <1>7 DEF ReceiveLate, cur
    <2>3. CASE fate[m][x.id] = "mistyped"
      BY <1>5, <2>1, <2>3 DEF Step, stat, cur, Promise!vars
    <2>4. CASE fate[m][x.id] # "mistyped"
      <3>1. Promise!PassOver(m, x.id)
        BY <1>5, <2>1, <2>2, <2>4 DEF Promise!PassOver, Promise!Answers, stat, cur
      <3>. QED
        BY <1>5, <3>1 DEF Step, Promise!Next
    <2>. QED
      BY <2>3, <2>4
  <1>. QED
    BY <1>6, <1>7

\* A message that is handed to the owner passes a response over, or changes nothing.
LEMMA HandStep ==
    ASSUME PInv, PInv', NEW m \in Mailboxes, Idle(m), NEW x \in Messages, Hand(m, x),
           InSeq(channel[m]) \cup InSeq(message_list[m])
               = InSeq(channel'[m]) \cup InSeq(message_list'[m]) \cup {x},
           \A n \in Mailboxes \ {m} : channel'[n] = channel[n] /\ message_list'[n] = message_list[n],
           UNCHANGED <<call, fate>>
    PROVE  Step
  <1>1. CASE x \in Responses
    <2>1. x \in taken'[m]
      BY <1>1 DEF Hand, Responses, PInv, IInv, OwnersOK
    <2>2. /\ x.id \in RequestIds /\ x.ok \in BOOLEAN
          /\ IF fate[m][x.id] = "mistyped" THEN stat' = stat
             ELSE /\ stat[m][x.id] = IF x.ok THEN "ok" ELSE "error"
                  /\ Promise!Becomes(m, x.id, {"closed"})
      BY <1>1, <2>1, ResponseTaken
    <2>3. cur' = cur
      BY DEF cur
    <2>4. x.id # cur[m]
      BY <2>2, BoundsAssumption DEF Idle, cur, RequestIds, UpTo
    <2>5. CASE fate[m][x.id] = "mistyped"
      BY <2>2, <2>3, <2>5 DEF Step, stat, cur, Promise!vars
    <2>6. CASE fate[m][x.id] # "mistyped"
      <3>1. Promise!PassOver(m, x.id)
        BY <2>2, <2>3, <2>4, <2>6 DEF Promise!PassOver, Promise!Answers, stat, cur
      <3>. QED
        BY <2>2, <3>1 DEF Step, Promise!Next
    <2>. QED
      BY <2>5, <2>6
  <1>2. CASE x \notin Responses
    <2>1. Pending(m)' = Pending(m)
      BY <1>2 DEF Pending
    <2>2. \A n \in Mailboxes \ {m} : Pending(n)' = Pending(n)
      BY DEF Pending
    <2>. QED
      BY <2>1, <2>2, Stutters
  <1>. QED
    BY <1>1, <1>2

\* The owner asks for a message.
LEMMA GetStep ==
    ASSUME PInv, PInv', NEW m \in Mailboxes, GetAside(m) \/ GetNext(m)
    PROVE  Step
  <1>1. CASE GetNext(m)
    <2>1. PICK x : x = Head(channel[m])
      OBVIOUS
    <2>2. /\ channel[m] # <<>> /\ Receive(m) /\ Idle(m) /\ Hand(m, x)
          /\ UNCHANGED <<message_list, call, fate>>
      BY <1>1, <2>1 DEF GetNext
    <2>3. /\ x \in Messages
          /\ InSeq(channel[m]) \cup InSeq(message_list[m])
                 = InSeq(channel'[m]) \cup InSeq(message_list'[m]) \cup {x}
          /\ \A n \in Mailboxes \ {m} : channel'[n] = channel[n] /\ message_list'[n] = message_list[n]
      BY <2>1, <2>2, ReceivedQueues
    <2>. QED
      BY <2>2, <2>3, HandStep
  <1>2. CASE GetAside(m)
    <2>1. PICK list, x : list = message_list[m] /\ x = list[Len(list)]
      OBVIOUS
    <2>2. /\ list \in Seq(Messages) /\ list # <<>> /\ channel[m] \in Seq(Messages)
          /\ Once(channel[m], list, held[m] \cup taken[m]) /\ InOrder(channel[m], list)
          /\ Idle(m) /\ Hand(m, x) /\ UNCHANGED <<channel, call, fate>>
      BY <1>2, <2>1 DEF GetAside, PInv, IInv, ChannelsOK, OwnersOK, Places, PlacedOnce
    <2>3. /\ message_list'[m] = Rest(list)
          /\ \A n \in Mailboxes \ {m} : message_list'[n] = message_list[n]
      BY <1>2, <2>1 DEF GetAside, PInv, IInv, OwnersOK
    <2>4. x \in Messages /\ InSeq(list) = InSeq(Rest(list)) \cup {x}
      BY <2>1, <2>2, LastTaken
    <2>5. InSeq(channel[m]) \cup InSeq(message_list[m])
                 = InSeq(channel'[m]) \cup InSeq(message_list'[m]) \cup {x}
      BY <2>1, <2>2, <2>3, <2>4
    <2>. QED
      BY <2>2, <2>3, <2>4, <2>5, HandStep
  <1>. QED
    BY <1>1, <1>2

\* What is set aside and what arrives from outside are no matter of requests.
LEMMA OtherStep ==
    ASSUME PInv, PInv', NEW m \in Mailboxes, ReceiveOther(m) \/ Notify(m)
    PROVE  Step
  <1>0. ChannelsOK /\ OwnersOK
    BY DEF PInv, IInv
  <1>1. CASE ReceiveOther(m)
    <2>1. PICK x : x = Head(channel[m])
      OBVIOUS
    <2>2. /\ channel[m] # <<>> /\ Receive(m) /\ SetAside(m, x) /\ UNCHANGED <<call, fate>>
          /\ message_list[m] \in Seq(Messages)
      BY <1>0, <1>1, <2>1 DEF ReceiveOther, OwnersOK
    <2>3. /\ x \in Messages
          /\ InSeq(channel[m]) = InSeq(channel'[m]) \cup {x}
          /\ \A n \in Mailboxes \ {m} : channel'[n] = channel[n]
      BY <1>0, <2>1, <2>2, Received
    <2>4. /\ message_list'[m] = Append(message_list[m], x)
          /\ \A n \in Mailboxes \ {m} : message_list'[n] = message_list[n]
      BY <1>0, <2>2 DEF SetAside, OwnersOK
    <2>5. InSeq(message_list'[m]) = InSeq(message_list[m]) \cup {x}
      BY <2>2, <2>3, <2>4, AppendElements
    <2>6. \A n \in Mailboxes : Pending(n)' = Pending(n)
      <3>1. Pending(m)' = Pending(m)
        BY <2>3, <2>5 DEF Pending
      <3>2. \A n \in Mailboxes \ {m} : Pending(n)' = Pending(n)
        BY <2>3, <2>4 DEF Pending
      <3>. QED
        BY <3>1, <3>2
    <2>. QED
      BY <2>2, <2>6, Stutters
  <1>2. CASE Notify(m)
    <2>1. PICK x : x = Notification(accepted'[m])
      OBVIOUS
    <2>2. /\ Accepts(m) /\ Deliver(m, x) /\ UNCHANGED <<message_list, call, fate>>
          /\ channel[m] \in Seq(Messages)
      BY <1>0, <1>2, <2>1 DEF Notify, ChannelsOK
    <2>3. x \in Messages /\ x \notin Responses
      <3>1. accepted'[m] \in UpTo(MaxNotifications)
        <4>1. accepted'[m] = accepted[m] + 1 /\ accepted[m] < MaxNotifications[m]
          BY <1>0, <1>2 DEF Notify, OwnersOK
        <4>2. accepted[m] \in Nat /\ MaxNotifications[m] \in Nat
          BY <1>0, IdsType DEF OwnersOK
        <4>. QED
          BY <4>1, <4>2, IdsType
      <3>. QED
        BY <2>1, <3>1 DEF Notification, Notifications, Messages, Responses
    <2>4. /\ InSeq(channel'[m]) = InSeq(channel[m]) \cup {x}
          /\ \A n \in Mailboxes \ {m} : channel'[n] = channel[n]
      BY <1>0, <2>2, <2>3, Delivered
    <2>5. \A n \in Mailboxes : Pending(n)' = Pending(n)
      <3>1. Pending(m)' = Pending(m)
        BY <2>2, <2>3, <2>4 DEF Pending
      <3>2. \A n \in Mailboxes \ {m} : Pending(n)' = Pending(n)
        BY <2>2, <2>4 DEF Pending
      <3>. QED
        BY <3>1, <3>2
    <2>. QED
      BY <2>2, <2>5, Stutters
  <1>. QED
    BY <1>1, <1>2

\* The time of the request is over, and its response is not there; or its future is dropped.
LEMMA ReturnStep ==
    ASSUME PInv, PInv', NEW m \in Mailboxes, GiveUp(m) \/ Cancel(m)
    PROVE  Step
  <1>1. /\ call[m].waiting /\ Returns(m) /\ UNCHANGED <<channel, message_list, fate>>
        /\ GiveUp(m) => channel[m] = <<>>
        /\ m \in Async \/ GiveUp(m)
    BY DEF GiveUp, Cancel
  <1>2. /\ cur[m] = call[m].id /\ cur[m] # 0 /\ cur[m] \in RequestIds
        /\ cur' = [cur EXCEPT ![m] = 0]
    BY <1>1, CallEnds
  <1>3. stat' = stat
    <2>1. \A n \in Mailboxes : Pending(n)' = Pending(n)
      BY <1>1 DEF Pending
    <2>. QED
      BY <1>1, <2>1, StatFixed
  <1>4. ASSUME GiveUp(m) PROVE stat[m][cur[m]] \notin Promise!Answers
    <2>1. InSeq(channel[m]) = {}
      <3>1. Len(<<>>) = 0
        OBVIOUS
      <3>. QED
        BY <1>1, <1>4, <3>1 DEF InSeq
    <2>2. fate[m][call[m].id] # "answered"
      BY <1>1, <2>1 DEF PInv, IInv, AnswerNotMissed
    <2>3. fate[m][call[m].id] = "mistyped" \/ \A x \in Pending(m) : x.id # call[m].id
      BY <2>2, OnePending
    <2>4. Status(m, cur[m]) = StatusBy(fate[m][cur[m]], cur[m], Pending(m))
      BY <1>2, StatusMeans
    <2>5. Status(m, cur[m]) \notin {"ok", "error"}
      BY <1>2, <2>3, <2>4 DEF StatusBy
    <2>. QED
      BY <1>2, <2>5 DEF stat, Promise!Answers
  <1>5. Promise!GiveUp(m)
    BY <1>1, <1>2, <1>3, <1>4 DEF Promise!GiveUp, Promise!Stops, stat, cur
  <1>. QED
    BY <1>5 DEF Step, Promise!Next

\* A mailbox is dropped, with the requests that are with it and the responses for it.
LEMMA DropStep ==
    ASSUME PInv, PInv', NEW m \in Mailboxes, Drop(m)
    PROVE  Step
  <1>0. ChannelsOK /\ FatesOK /\ OwnersOK
    BY DEF PInv, IInv
  <1>. DEFINE Lost(c, i) == \/ \E r \in Unanswered(m) : Is(r, c, i)
                            \/ c = m /\ stat[c][i] \in {"ok", "error"}
              lost == {p \in Mailboxes \X RequestIds : Lost(p[1], p[2])}
  <1>1. /\ ~call[m].waiting /\ UNCHANGED call
        /\ channel'[m] = <<>> /\ message_list'[m] = <<>>
        /\ \A n \in Mailboxes \ {m} : channel'[n] = channel[n] /\ message_list'[n] = message_list[n]
    BY <1>0 DEF Drop, Idle, ChannelsOK, OwnersOK
  <1>2. /\ Pending(m)' = {}
        /\ \A n \in Mailboxes \ {m} : Pending(n)' = Pending(n)
    <2>1. InSeq(<<>>) = {}
      <3>1. Len(<<>>) = 0
        OBVIOUS
      <3>. QED
        BY <3>1 DEF InSeq
    <2>. QED
      BY <1>1, <2>1 DEF Pending
  <1>3. \A c \in Mailboxes, i \in RequestIds :
          fate'[c][i] = IF \E r \in Unanswered(m) : Is(r, c, i) THEN "dropped" ELSE fate[c][i]
    BY DEF Drop, Is
  <1>4. \A c \in Mailboxes, i \in RequestIds :
          (\E r \in Unanswered(m) : Is(r, c, i)) => fate[c][i] = "asked"
    BY DEF PInv, Places, RequestsKept, Is
  <1>5. ASSUME NEW c \in Mailboxes, NEW i \in RequestIds
        PROVE  /\ stat[c][i] = StatusBy(fate[c][i], i, Pending(c))
               /\ stat[c][i] = Status(c, i)
               /\ Status(c, i)' = StatusBy(fate'[c][i], i, Pending(c)')
    BY StatusMeans, StatusMeansNext DEF stat
  <1>6. ASSUME NEW c \in Mailboxes, NEW i \in RequestIds
        PROVE  Status(c, i)' = IF Lost(c, i) THEN "closed" ELSE stat[c][i]
    <2>1. CASE \E r \in Unanswered(m) : Is(r, c, i)
      <3>1. fate'[c][i] = "dropped" /\ fate[c][i] = "asked"
        BY <1>3, <1>4, <2>1
      <3>2. \A x \in Pending(c) : x.id # i
        BY <3>1, OnePending
      <3>3. \A x \in Pending(c)' : x.id # i
        BY <1>2, <3>2
      <3>4. Status(c, i)' = "closed"
        BY <1>5, <3>1, <3>3 DEF StatusBy
      <3>. QED
        BY <2>1, <3>4
    <2>2. CASE ~(\E r \in Unanswered(m) : Is(r, c, i)) /\ c # m
      <3>1. fate'[c][i] = fate[c][i] /\ Pending(c)' = Pending(c)
        BY <1>2, <1>3, <2>2
      <3>2. Status(c, i)' = stat[c][i]
        BY <1>5, <3>1
      <3>. QED
        BY <2>2, <3>2
    <2>3. CASE ~(\E r \in Unanswered(m) : Is(r, c, i)) /\ c = m
      <3>1. fate'[c][i] = fate[c][i] /\ Pending(c)' = {}
        BY <1>2, <1>3, <2>3
      <3>2. Status(c, i)' = IF stat[c][i] \in {"ok", "error"} THEN "closed" ELSE stat[c][i]
        BY <1>5, <3>1 DEF StatusBy
      <3>. QED
        BY <2>3, <3>2
    <2>. QED
      BY <2>1, <2>2, <2>3
  <1>7. cur[m] = 0 /\ cur' = cur
    BY <1>1 DEF cur
  <1>8. ASSUME NEW p \in lost PROVE p \in Promise!Losable
    <2>1. p \in Mailboxes \X RequestIds /\ Lost(p[1], p[2])
      OBVIOUS
    <2>2. PICK c \in Mailboxes, i \in RequestIds : p = <<c, i>>
      BY <2>1
    <2>3. stat[c][i] = "open" \/ (stat[c][i] \in {"ok", "error"} /\ cur[c] = 0)
      <3>1. CASE \E r \in Unanswered(m) : Is(r, c, i)
        BY <1>4, <1>5, <3>1 DEF StatusBy
      <3>2. CASE c = m /\ stat[c][i] \in {"ok", "error"}
        BY <1>7, <3>2
      <3>. QED
        BY <2>1, <2>2, <3>1, <3>2
    <2>4. \/ stat[p[1]][p[2]] = "open"
          \/ stat[p[1]][p[2]] \in {"ok", "error"} /\ cur[p[1]] = 0
      BY <2>2, <2>3
    <2>. HIDE DEF lost, Lost
    <2>. QED
      BY <2>1, <2>4 DEF Promise!Losable, Promise!Answers, stat, cur
  <1>9. stat' = [c \in Mailboxes |-> [i \in RequestIds |->
                    IF <<c, i>> \in lost THEN "closed" ELSE stat[c][i]]]
    <2>1. \A c \in Mailboxes, i \in RequestIds : <<c, i>> \in lost <=> Lost(c, i)
      OBVIOUS
    <2>. HIDE DEF lost, Lost
    <2>2. \A c \in Mailboxes, i \in RequestIds :
            Status(c, i)' = IF <<c, i>> \in lost THEN "closed" ELSE stat[c][i]
      BY <1>6, <2>1
    <2>3. stat' = [c \in Mailboxes |-> [i \in RequestIds |-> Status(c, i)']]
      BY DEF stat
    <2>. QED
      BY <2>2, <2>3
  <1>. HIDE DEF lost, Lost
  <1>10. Promise!End(lost, {})
    <2>1. cur' = [c \in Mailboxes |-> IF c \in {} THEN 0 ELSE cur[c]]
      BY <1>7 DEF cur
    <2>. QED
      BY <1>9, <2>1 DEF Promise!End, stat, cur
  <1>11. lost \in SUBSET Promise!Losable /\ {} \in SUBSET Async
    BY <1>8
  <1>. QED
    BY <1>10, <1>11 DEF Step, Promise!Next

LEMMA PromiseNext == PInv /\ PInv' /\ [Next]_vars => Step
  <1>. SUFFICES ASSUME PInv, PInv', [Next]_vars PROVE Step
    OBVIOUS
  <1>1. CASE UNCHANGED vars
    <2>1. UNCHANGED <<call, fate>> /\ \A n \in Mailboxes : Pending(n)' = Pending(n)
      BY <1>1 DEF vars, Pending
    <2>. QED
      BY <2>1, Stutters
  <1>. QED
    BY <1>1, RequestStep, RespondsStep, ReceiveStep, GetStep, OtherStep, ReturnStep, DropStep, AskedTypes
       DEF Next, Waiting

\* Requests between mailboxes keep the promise of RequestReply, for any mailboxes, types,
\* capacities and bounds: through channels, lists, futures and mailboxes that are dropped.
THEOREM MailboxesKeepPromise == Spec => KeepsPromise
  <1>1. Init => Promise!Init
    BY PromiseInit
  <1>2. PInv /\ PInv' /\ [Next]_vars => [Promise!Next]_(Promise!vars)
    BY PromiseNext DEF Step
  <1>. QED
    BY <1>1, <1>2, InPlaces, PTL DEF Spec, KeepsPromise, Promise!Spec

=============================================================================
