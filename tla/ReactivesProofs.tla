--------------------------- MODULE ReactivesProofs ---------------------------
(***************************************************************************)
(* Proofs about Reactives for any dispatchers, reactives and capacities    *)
(* and any number of messages: type correctness, that a behavior takes the *)
(* response to its own last request for that and nothing else, and that it *)
(* does not wait for a response that cannot come.                          *)
(***************************************************************************)
EXTENDS Reactives, FiniteSetTheorems, TLAPS

USE HomeAssumption, QueueSizeAssumption, IdSpaceAssumption, BoundsAssumption

Messages == Requests \cup Responses \cup [kind : Calls, dst : Reactives]

QueuesOK(queues) ==
    /\ queues \in [Dispatchers -> Seq(Messages)]
    /\ \A d \in Dispatchers :
        /\ Len(queues[d]) <= QueueSize
        /\ \A m \in InSeq(queues[d]) : Home[m.dst] = d

CalledOK ==
    /\ reactive_list \subseteq Reactives
    /\ own_actor_id \in [Dispatchers -> SUBSET Reactives]
    /\ \A d \in Dispatchers :
        own_actor_id[d] = {} \/ \E a \in Reactives : Home[a] = d /\ own_actor_id[d] = {a}

HandsOK ==
    /\ refused \in [Dispatchers -> SUBSET Requests]
    /\ \A d \in Dispatchers : refused[d] = {} \/ \E r \in Requests : refused[d] = {r}
    /\ held \in [Reactives -> SUBSET Requests]
    /\ lost \subseteq Reactives \X Numbers

IdsOK ==
    /\ request_id_counter \in [Dispatchers -> RequestIds]
    /\ made \in [Dispatchers -> Seq(Reactives)]
    /\ \A d \in Dispatchers : Len(made[d]) <= MaxRequests[d]
    /\ awaited \in [Reactives -> SUBSET RequestIds]
    /\ last \in [Reactives -> {0} \cup Numbers]
    /\ \A a \in Reactives : last[a] = 0 <=> awaited[a] = {}

TypeInv == QueuesOK(queue) /\ CalledOK /\ HandsOK /\ IdsOK

\* An id of the counter is the number of the request, as long as it does not wrap around.
NumberedIn(queues) ==
    \A d \in Dispatchers : \A m \in InSeq(queues[d]) :
        m.kind \in {"Request", "Response"} => m.id = m.n

\* So it is with requests and responses wherever they are, and with what is awaited.
Numbered ==
    /\ NumberedIn(queue)
    /\ \A d \in Dispatchers : request_id_counter[d] = Len(made[d])
    /\ \A d \in Dispatchers : \A r \in refused[d] : r.id = r.n
    /\ \A a \in Reactives : \A r \in held[a] : r.id = r.n
    /\ \A a \in Reactives : awaited[a] \subseteq {last[a]}

\* Fewer than 2^32 requests are made by the reactives of a dispatcher.
NoIdReuse == \A d \in Dispatchers : MaxRequests[d] < IdSpace

-------------------------------------------------------------------------------
(* Messages and queues.                                                    *)

\* The kinds tell the messages apart.
LEMMA MessageKinds ==
    ASSUME NEW m \in Messages
    PROVE  /\ m.kind = "Request" => m \in Requests
           /\ m.kind = "Response" => m \in Responses
           /\ m.kind \in Calls => m \in [kind : Calls, dst : Reactives]
  BY DEF Messages, Requests, Responses, Calls

\* A response to a request is a message for its sender, and has its id and number.
LEMMA ResponseFacts ==
    ASSUME NEW r \in Requests, NEW ok \in BOOLEAN
    PROVE  /\ Response(r, ok) \in Messages
           /\ Response(r, ok).dst = r.src /\ r.src \in Reactives
           /\ Response(r, ok).id = r.id /\ Response(r, ok).n = r.n
           /\ Name(r) = <<r.src, r.n>> /\ Name(r) \in Reactives \X Numbers
  BY DEF Response, Messages, Requests, Responses, Name

\* Appending adds one element.
LEMMA AppendElements ==
    ASSUME NEW s \in Seq(Messages), NEW m \in Messages
    PROVE  /\ Append(s, m) \in Seq(Messages)
           /\ Len(Append(s, m)) = Len(s) + 1
           /\ InSeq(Append(s, m)) = InSeq(s) \cup {m}
  <1>1. Append(s, m) \in Seq(Messages) /\ Len(Append(s, m)) = Len(s) + 1 /\ Len(s) \in Nat
    OBVIOUS
  <1>2. /\ \A i \in 1 .. Len(s) : Append(s, m)[i] = s[i]
        /\ Append(s, m)[Len(s) + 1] = m
    OBVIOUS
  <1>. QED
    BY <1>1, <1>2 DEF InSeq

\* The head is an element, and the tail has no others.
LEMMA TailElements ==
    ASSUME NEW s \in Seq(Messages), s # <<>>
    PROVE  /\ Head(s) \in Messages /\ Head(s) \in InSeq(s)
           /\ Tail(s) \in Seq(Messages)
           /\ Len(Tail(s)) <= Len(s)
           /\ InSeq(Tail(s)) \subseteq InSeq(s)
  <1>1. Len(s) \in Nat \ {0} /\ Head(s) = s[1] /\ Head(s) \in Messages
    OBVIOUS
  <1>2. Tail(s) \in Seq(Messages) /\ Len(Tail(s)) = Len(s) - 1
    OBVIOUS
  <1>3. \A i \in 1 .. Len(Tail(s)) : Tail(s)[i] = s[i + 1]
    OBVIOUS
  <1>. QED
    BY <1>1, <1>2, <1>3 DEF InSeq

\* Sending to a reactive keeps the queues well-formed and adds the message at most.
LEMMA Sending ==
    ASSUME NEW queues, QueuesOK(queues), NEW m \in Messages, m.dst \in Reactives
    PROVE  /\ QueuesOK(Sent(queues, m))
           /\ \A d \in Dispatchers : InSeq(Sent(queues, m)[d]) \subseteq InSeq(queues[d]) \cup {m}
  <1>1. CASE ~HasRoom(queues, m.dst)
    BY <1>1 DEF Sent
  <1>2. CASE HasRoom(queues, m.dst)
    <2>. DEFINE h == Home[m.dst]
                s == queues[h]
    <2>1. h \in Dispatchers /\ s \in Seq(Messages) /\ Len(s) < QueueSize /\ Len(s) \in Nat
      BY <1>2 DEF HasRoom, QueuesOK
    <2>2. Sent(queues, m) = [queues EXCEPT ![h] = Append(s, m)]
      BY <1>2 DEF Sent
    <2>3. /\ Append(s, m) \in Seq(Messages)
          /\ Len(Append(s, m)) = Len(s) + 1
          /\ InSeq(Append(s, m)) = InSeq(s) \cup {m}
      BY <2>1, AppendElements
    <2>4. /\ Sent(queues, m) \in [Dispatchers -> Seq(Messages)]
          /\ Sent(queues, m)[h] = Append(s, m)
          /\ \A d \in Dispatchers \ {h} : Sent(queues, m)[d] = queues[d]
      BY <2>1, <2>2, <2>3 DEF QueuesOK
    <2>5. ASSUME NEW d \in Dispatchers
          PROVE  /\ Len(Sent(queues, m)[d]) <= QueueSize
                 /\ \A x \in InSeq(Sent(queues, m)[d]) : Home[x.dst] = d
                 /\ InSeq(Sent(queues, m)[d]) \subseteq InSeq(queues[d]) \cup {m}
      <3>1. CASE d = h
        <4>1. Sent(queues, m)[d] = Append(s, m) /\ InSeq(Append(s, m)) = InSeq(queues[d]) \cup {m}
          BY <2>3, <2>4, <3>1
        <4>2. Len(Append(s, m)) <= QueueSize
          BY <2>1, <2>3
        <4>3. \A x \in InSeq(queues[d]) \cup {m} : Home[x.dst] = d
          BY <3>1 DEF QueuesOK
        <4>. QED
          BY <4>1, <4>2, <4>3
      <3>2. CASE d # h
        BY <2>4, <3>2 DEF QueuesOK
      <3>. QED
        BY <3>1, <3>2
    <2>. QED
      BY <2>4, <2>5 DEF QueuesOK
  <1>. QED
    BY <1>1, <1>2

\* Taking the first message keeps them well-formed, too.
LEMMA Receiving ==
    ASSUME QueuesOK(queue), NEW d \in Dispatchers, queue[d] # <<>>
    PROVE  /\ QueuesOK(Rest(d))
           /\ \A e \in Dispatchers : InSeq(Rest(d)[e]) \subseteq InSeq(queue[e])
           /\ Head(queue[d]) \in Messages /\ Head(queue[d]) \in InSeq(queue[d])
           /\ Home[Head(queue[d]).dst] = d
  <1>1. /\ Head(queue[d]) \in Messages /\ Head(queue[d]) \in InSeq(queue[d])
        /\ Tail(queue[d]) \in Seq(Messages)
        /\ Len(Tail(queue[d])) <= Len(queue[d])
        /\ InSeq(Tail(queue[d])) \subseteq InSeq(queue[d])
    BY TailElements DEF QueuesOK
  <1>2. /\ Rest(d) \in [Dispatchers -> Seq(Messages)]
        /\ Rest(d)[d] = Tail(queue[d])
        /\ \A e \in Dispatchers \ {d} : Rest(d)[e] = queue[e]
    BY <1>1 DEF Rest, QueuesOK
  <1>3. Len(Tail(queue[d])) <= QueueSize
    <2>1. Len(queue[d]) \in Nat /\ Len(Tail(queue[d])) \in Nat /\ Len(queue[d]) <= QueueSize
      BY <1>1 DEF QueuesOK
    <2>. QED
      BY <1>1, <2>1
  <1>. QED
    BY <1>1, <1>2, <1>3 DEF QueuesOK

\* An answer reaches the queue of the sender, or its request counts as lost.
LEMMA Answering ==
    ASSUME NEW queues, QueuesOK(queues), HandsOK, NEW r \in Requests, NEW ok \in BOOLEAN,
           Answer(queues, r, ok)
    PROVE  /\ QueuesOK(queue)'
           /\ lost' \subseteq Reactives \X Numbers
           /\ \A d \in Dispatchers :
                  InSeq(queue'[d]) \subseteq InSeq(queues[d]) \cup {Response(r, ok)}
  <1>1. /\ Response(r, ok) \in Messages /\ Response(r, ok).dst \in Reactives
        /\ Name(r) \in Reactives \X Numbers
    BY ResponseFacts
  <1>2. queue' = Sent(queues, Response(r, ok)) /\ lost' \subseteq lost \cup {Name(r)}
    BY DEF Answer
  <1>3. /\ QueuesOK(Sent(queues, Response(r, ok)))
        /\ \A d \in Dispatchers :
               InSeq(Sent(queues, Response(r, ok))[d]) \subseteq InSeq(queues[d]) \cup {Response(r, ok)}
    BY <1>1, Sending
  <1>4. QueuesOK(queue)'
    BY <1>2, <1>3 DEF QueuesOK
  <1>. QED
    BY <1>1, <1>2, <1>3, <1>4 DEF HandsOK

-------------------------------------------------------------------------------
(* Type correctness.                                                       *)

\* The type invariant holds in the beginning.
LEMMA TypeInvInit == Init => TypeInv
  <1>. SUFFICES ASSUME Init PROVE TypeInv
    OBVIOUS
  <1>1. InSeq(<<>>) = {} /\ Len(<<>>) = 0 /\ <<>> \in Seq(Messages) /\ <<>> \in Seq(Reactives)
    BY DEF InSeq
  <1>2. QueuesOK(queue)
    BY <1>1 DEF Init, QueuesOK
  <1>3. CalledOK
    BY DEF Init, CalledOK
  <1>4. HandsOK
    BY DEF Init, HandsOK
  <1>5. IdsOK
    <2>1. 0 \in RequestIds
      BY DEF RequestIds
    <2>. QED
      BY <1>1, <2>1 DEF Init, IdsOK
  <1>. QED
    BY <1>2, <1>3, <1>4, <1>5 DEF TypeInv

\* The dispatcher takes a message and calls the behavior it is for.
LEMMA Calling ==
    ASSUME TypeInv, NEW d \in Dispatchers, queue[d] # <<>>, CallBehavior(d)
    PROVE  /\ QueuesOK(queue)'
           /\ UNCHANGED reactive_list => CalledOK'
           /\ Head(queue[d]) \in Messages /\ Head(queue[d]).dst \in Reactives
           /\ \A e \in Dispatchers : InSeq(queue'[e]) \subseteq InSeq(queue[e])
  <1>1. /\ QueuesOK(Rest(d))
        /\ \A e \in Dispatchers : InSeq(Rest(d)[e]) \subseteq InSeq(queue[e])
        /\ Head(queue[d]) \in Messages /\ Home[Head(queue[d]).dst] = d
    BY Receiving DEF TypeInv
  <1>2. /\ queue' = Rest(d)
        /\ own_actor_id' = [own_actor_id EXCEPT ![d] = {Head(queue[d]).dst}]
        /\ Head(queue[d]).dst \in reactive_list
    BY DEF CallBehavior
  <1>3. QueuesOK(queue)'
    BY <1>1, <1>2 DEF QueuesOK
  <1>4. Head(queue[d]).dst \in Reactives
    BY <1>2 DEF TypeInv, CalledOK
  <1>5. ASSUME UNCHANGED reactive_list PROVE CalledOK'
    <2>. DEFINE a == Head(queue[d]).dst
    <2>1. a \in Reactives /\ Home[a] = d /\ own_actor_id' = [own_actor_id EXCEPT ![d] = {a}]
      BY <1>1, <1>2, <1>4
    <2>. HIDE DEF a
    <2>. QED
      BY <2>1, <1>5 DEF TypeInv, CalledOK
  <1>. QED
    BY <1>1, <1>2, <1>3, <1>4, <1>5

\* A behavior that is dropped leaves nothing behind.
LEMMA Dropping ==
    ASSUME TypeInv, NEW a \in Reactives, DropBehavior(a),
           UNCHANGED <<request_id_counter, made, refused>>
    PROVE  HandsOK' /\ IdsOK'
  <1>1. \A r \in held[a] : Name(r) \in Reactives \X Numbers
    BY ResponseFacts DEF TypeInv, HandsOK
  <1>2. HandsOK'
    BY <1>1 DEF DropBehavior, TypeInv, HandsOK
  <1>3. IdsOK'
    BY DEF DropBehavior, TypeInv, IdsOK
  <1>. QED
    BY <1>2, <1>3

\* A request that a behavior makes is a request, with a number that no other has.
LEMMA Requesting ==
    ASSUME TypeInv, NEW d \in Dispatchers, NEW a \in Reactives,
           NEW dst \in Reactives \cup {INVALID}, SendRequest(d, a, dst)
    PROVE  /\ Request(a, NextRequestId(d), Len(made[d]) + 1, dst) \in Requests
           /\ request_id_counter' = [request_id_counter EXCEPT ![d] = NextRequestId(d)]
           /\ NextRequestId(d) \in RequestIds
           /\ made' = [made EXCEPT ![d] = Append(@, a)]
           /\ made' \in [Dispatchers -> Seq(Reactives)]
           /\ Len(made[d]) + 1 \in Numbers
           /\ Len(made'[d]) = Len(made[d]) + 1 /\ Len(made'[d]) <= MaxRequests[d]
           /\ Len(made[d]) \in Nat
  <1>1. made[d] \in Seq(Reactives) /\ Len(made[d]) \in Nat /\ MaxRequests[d] \in Nat
    BY DEF TypeInv, IdsOK
  <1>2. /\ Len(made[d]) < MaxRequests[d]
        /\ made' = [made EXCEPT ![d] = Append(@, a)]
        /\ request_id_counter' = [request_id_counter EXCEPT ![d] = NextRequestId(d)]
    BY DEF SendRequest
  <1>3. NextRequestId(d) \in RequestIds
    <2>1. request_id_counter[d] \in Nat
      BY DEF TypeInv, IdsOK, RequestIds
    <2>. QED
      BY <2>1 DEF NextRequestId, RequestIds
  <1>4. Append(made[d], a) \in Seq(Reactives) /\ Len(Append(made[d], a)) = Len(made[d]) + 1
    BY <1>1
  <1>5. made'[d] = Append(made[d], a) /\ made' \in [Dispatchers -> Seq(Reactives)]
    BY <1>2, <1>4 DEF TypeInv, IdsOK
  <1>6. Len(made[d]) + 1 \in 1 .. MaxRequests[d]
    BY <1>1, <1>2
  <1>7. Len(made[d]) + 1 \in Numbers
    BY <1>6 DEF Numbers
  <1>8. Request(a, NextRequestId(d), Len(made[d]) + 1, dst) \in Requests
    BY <1>3, <1>7 DEF Request, Requests
  <1>. QED
    BY <1>1, <1>2, <1>3, <1>4, <1>5, <1>6, <1>7, <1>8

\* Each step keeps the type invariant.
LEMMA TypeInvNext == TypeInv /\ [Next]_vars => TypeInv'
  <1>. SUFFICES ASSUME TypeInv, [Next]_vars PROVE TypeInv'
    OBVIOUS
  <1>. USE DEF TypeInv
  <1>1. CASE UNCHANGED vars
    BY <1>1 DEF vars, behaviorVars, QueuesOK, CalledOK, HandsOK, IdsOK
  <1>2. ASSUME NEW d \in Dispatchers, TakeNotification(d) PROVE TypeInv'
    <2>1. QueuesOK(queue)' /\ CalledOK'
      BY <1>2, Calling DEF TakeNotification, Taking
    <2>. QED
      BY <1>2, <2>1 DEF TakeNotification, behaviorVars, HandsOK, IdsOK
  <1>3. ASSUME NEW d \in Dispatchers, TakeRequest(d) PROVE TypeInv'
    <2>. DEFINE r == Head(queue[d])
    <2>1. QueuesOK(queue)' /\ CalledOK' /\ r \in Messages /\ r.dst \in Reactives
      BY <1>3, Calling DEF TakeRequest, Taking
    <2>2. r \in Requests
      BY <1>3, <2>1, MessageKinds DEF TakeRequest, Taking
    <2>3. held' = [held EXCEPT ![r.dst] = @ \cup {r}] /\ UNCHANGED <<refused, lost>>
      BY <1>3 DEF TakeRequest
    <2>. HIDE DEF r
    <2>4. HandsOK'
      BY <2>1, <2>2, <2>3 DEF HandsOK
    <2>5. IdsOK'
      BY <1>3 DEF TakeRequest, IdsOK
    <2>. QED
      BY <2>1, <2>4, <2>5
  <1>4. ASSUME NEW d \in Dispatchers, TakeResponse(d) PROVE TypeInv'
    <2>. DEFINE m == Head(queue[d])
    <2>1. QueuesOK(queue)' /\ CalledOK' /\ m.dst \in Reactives
      BY <1>4, Calling DEF TakeResponse, Taking
    <2>2. /\ UNCHANGED <<request_id_counter, made, refused, held, lost>>
          /\ \/ /\ awaited' = [awaited EXCEPT ![m.dst] = {}]
                /\ last' = [last EXCEPT ![m.dst] = 0]
             \/ UNCHANGED <<awaited, last>>
      BY <1>4 DEF TakeResponse
    <2>. HIDE DEF m
    <2>3. IdsOK'
      BY <2>1, <2>2 DEF IdsOK
    <2>. QED
      BY <2>1, <2>2, <2>3 DEF HandsOK
  <1>5. ASSUME NEW d \in Dispatchers, TakeUnknown(d) PROVE TypeInv'
    <2>1. queue[d] # <<>>
      BY <1>5 DEF TakeUnknown, Taking
    <2>2. QueuesOK(Rest(d)) /\ Head(queue[d]) \in Messages
      BY <2>1, Receiving
    <2>3. QueuesOK(queue)' /\ lost' \subseteq Reactives \X Numbers
      <3>1. CASE Head(queue[d]).kind = "Request"
        <4>1. Head(queue[d]) \in Requests /\ Answer(Rest(d), Head(queue[d]), FALSE)
          BY <1>5, <2>2, <3>1, MessageKinds DEF TakeUnknown
        <4>. QED
          BY <2>2, <4>1, Answering
      <3>2. CASE Head(queue[d]).kind # "Request"
        BY <1>5, <2>2, <3>2 DEF TakeUnknown, QueuesOK, HandsOK
      <3>. QED
        BY <3>1, <3>2
    <2>. QED
      BY <1>5, <2>3 DEF TakeUnknown, behaviorVars, CalledOK, HandsOK, IdsOK
  <1>6. ASSUME NEW d \in Dispatchers, TakeReplace(d) \/ TakeUnregister(d) PROVE TypeInv'
    <2>. DEFINE m == Head(queue[d])
    <2>1. queue[d] # <<>> /\ m.kind \in {"Replace", "Unregister"}
      BY <1>6 DEF TakeReplace, TakeUnregister, Taking
    <2>2. QueuesOK(Rest(d)) /\ m \in Messages
      BY <2>1, Receiving
    <2>3. m.dst \in Reactives
      BY <2>1, <2>2, MessageKinds DEF Calls
    <2>4. /\ queue' = Rest(d)
          /\ DropBehavior(m.dst)
          /\ UNCHANGED <<request_id_counter, made, refused, own_actor_id>>
          /\ reactive_list' \subseteq reactive_list
      BY <1>6 DEF TakeReplace, TakeUnregister
    <2>. HIDE DEF m
    <2>5. HandsOK' /\ IdsOK'
      BY <2>3, <2>4, Dropping
    <2>6. QueuesOK(queue)'
      BY <2>2, <2>4 DEF QueuesOK
    <2>. QED
      BY <2>4, <2>5, <2>6 DEF CalledOK
  <1>7. ASSUME NEW d \in Dispatchers, NEW a \in Reactives, NEW dst \in Reactives \cup {INVALID},
               SendRequest(d, a, dst)
        PROVE  TypeInv'
    <2>. DEFINE r == Request(a, NextRequestId(d), Len(made[d]) + 1, dst)
    <2>1. /\ r \in Requests
          /\ request_id_counter' = [request_id_counter EXCEPT ![d] = NextRequestId(d)]
          /\ NextRequestId(d) \in RequestIds
          /\ made' = [made EXCEPT ![d] = Append(@, a)] /\ made' \in [Dispatchers -> Seq(Reactives)]
          /\ Len(made[d]) + 1 \in Numbers /\ Len(made[d]) \in Nat
          /\ Len(made'[d]) = Len(made[d]) + 1 /\ Len(made'[d]) <= MaxRequests[d]
      BY <1>7, Requesting
    <2>2. /\ \/ dst # INVALID /\ queue' = Sent(queue, r) /\ UNCHANGED refused
             \/ refused' = [refused EXCEPT ![d] = {r}] /\ UNCHANGED queue
          /\ awaited' = [awaited EXCEPT ![a] = {r.id}]
          /\ last' = [last EXCEPT ![a] = r.n]
          /\ UNCHANGED <<reactive_list, own_actor_id, held, lost>>
      BY <1>7, <2>1 DEF SendRequest
    <2>3. /\ r.id = NextRequestId(d) /\ r.n = Len(made[d]) + 1 /\ r.dst = dst
          /\ r \in Messages
      BY <2>1 DEF Request, Messages
    <2>. HIDE DEF r
    <2>4. QueuesOK(queue)'
      <3>1. CASE dst # INVALID /\ queue' = Sent(queue, r)
        <4>1. QueuesOK(Sent(queue, r))
          BY <2>3, <3>1, Sending
        <4>. QED
          BY <3>1, <4>1 DEF QueuesOK
      <3>2. CASE UNCHANGED queue
        BY <3>2 DEF QueuesOK
      <3>. QED
        BY <2>2, <3>1, <3>2
    <2>5. HandsOK'
      <3>1. CASE refused' = [refused EXCEPT ![d] = {r}]
        <4>1. refused'[d] = {r} /\ \A e \in Dispatchers \ {d} : refused'[e] = refused[e]
          BY <3>1 DEF HandsOK
        <4>2. \A e \in Dispatchers : refused'[e] = {} \/ \E q \in Requests : refused'[e] = {q}
          BY <2>1, <4>1 DEF HandsOK
        <4>3. refused' \in [Dispatchers -> SUBSET Requests]
          BY <2>1, <3>1 DEF HandsOK
        <4>. QED
          BY <2>2, <4>2, <4>3 DEF HandsOK
      <3>2. CASE UNCHANGED refused
        BY <2>2, <3>2 DEF HandsOK
      <3>. QED
        BY <2>2, <3>1, <3>2
    <2>6. IdsOK'
      <3>1. \A e \in Dispatchers : Len(made'[e]) <= MaxRequests[e]
        BY <2>1 DEF IdsOK
      <3>2. awaited' \in [Reactives -> SUBSET RequestIds]
        BY <2>1, <2>2, <2>3 DEF IdsOK
      <3>3. last' \in [Reactives -> {0} \cup Numbers]
        BY <2>1, <2>2, <2>3 DEF IdsOK
      <3>4. ASSUME NEW b \in Reactives PROVE last'[b] = 0 <=> awaited'[b] = {}
        <4>1. CASE b = a
          <5>1. last'[b] = r.n /\ awaited'[b] = {r.id}
            BY <2>2, <4>1 DEF IdsOK
          <5>2. r.n # 0
            BY <2>1, <2>3
          <5>. QED
            BY <5>1, <5>2
        <4>2. CASE b # a
          BY <2>2, <4>2 DEF IdsOK
        <4>. QED
          BY <4>1, <4>2
      <3>5. request_id_counter' \in [Dispatchers -> RequestIds]
        BY <2>1 DEF IdsOK
      <3>. QED
        BY <2>1, <3>1, <3>2, <3>3, <3>4, <3>5 DEF IdsOK
    <2>7. CalledOK'
      BY <2>2 DEF CalledOK
    <2>. QED
      BY <2>4, <2>5, <2>6, <2>7
  <1>8. ASSUME NEW d \in Dispatchers, AnswerRefused(d) PROVE TypeInv'
    <2>1. PICK r \in refused[d] : Answer(queue, r, FALSE)
      BY <1>8 DEF AnswerRefused
    <2>2. r \in Requests
      BY DEF HandsOK
    <2>3. QueuesOK(queue)' /\ lost' \subseteq Reactives \X Numbers
      BY <2>1, <2>2, Answering
    <2>4. refused' = [refused EXCEPT ![d] = {}]
      BY <1>8 DEF AnswerRefused
    <2>5. HandsOK'
      <3>1. refused'[d] = {} /\ \A e \in Dispatchers \ {d} : refused'[e] = refused[e]
        BY <2>4 DEF HandsOK
      <3>2. refused' \in [Dispatchers -> SUBSET Requests]
        BY <2>4 DEF HandsOK
      <3>3. \A e \in Dispatchers : refused'[e] = {} \/ \E q \in Requests : refused'[e] = {q}
        BY <3>1 DEF HandsOK
      <3>. QED
        BY <1>8, <2>3, <3>2, <3>3 DEF AnswerRefused, behaviorVars, HandsOK
    <2>6. UNCHANGED <<reactive_list, request_id_counter, own_actor_id, awaited, last, made>>
      BY <1>8 DEF AnswerRefused, behaviorVars
    <2>7. CalledOK'
      BY <2>6 DEF CalledOK
    <2>8. IdsOK'
      BY <2>6 DEF IdsOK
    <2>. QED
      BY <2>3, <2>5, <2>7, <2>8
  <1>9. ASSUME NEW d \in Dispatchers, NEW a \in Reactives, NEW r \in held[a], SendResponse(d, a, r)
        PROVE  TypeInv'
    <2>1. r \in Requests
      BY DEF HandsOK
    <2>2. QueuesOK(queue)' /\ lost' \subseteq Reactives \X Numbers
      BY <1>9, <2>1, Answering DEF SendResponse
    <2>. QED
      BY <1>9, <2>2 DEF SendResponse, CalledOK, HandsOK, IdsOK
  <1>10. ASSUME NEW d \in Dispatchers, Return(d) PROVE TypeInv'
    BY <1>10 DEF Return, behaviorVars, QueuesOK, CalledOK, HandsOK, IdsOK
  <1>11. ASSUME NEW kind \in Calls, NEW a \in Reactives, Send(Call(kind, a)) PROVE TypeInv'
    <2>. DEFINE m == Call(kind, a)
    <2>1. m \in Messages /\ m.dst \in Reactives
      BY DEF Call, Messages
    <2>2. queue' = Sent(queue, m)
      BY <1>11 DEF Send
    <2>. HIDE DEF m
    <2>3. QueuesOK(Sent(queue, m))
      BY <2>1, Sending
    <2>4. QueuesOK(queue)'
      BY <2>2, <2>3 DEF QueuesOK
    <2>. QED
      BY <1>11, <2>4 DEF Send, behaviorVars, CalledOK, HandsOK, IdsOK
  <1>. QED
    BY <1>1, <1>2, <1>3, <1>4, <1>5, <1>6, <1>7, <1>8, <1>9, <1>10, <1>11 DEF Next, Take

\* What TypeInv says of the variables is what TypeOK asks of them.
LEMMA TypeInvTypes == TypeInv => TypeOK
  <1>. SUFFICES ASSUME TypeInv PROVE TypeOK
    OBVIOUS
  <1>1. ASSUME NEW d \in Dispatchers
        PROVE  /\ InSeq(queue[d]) \subseteq Requests \cup Responses \cup [kind : Calls, dst : Reactives]
               /\ Len(queue[d]) <= QueueSize
               /\ \A m \in InSeq(queue[d]) : Home[m.dst] = d
    BY DEF TypeInv, QueuesOK, Messages, InSeq
  <1>2. ASSUME NEW d \in Dispatchers
        PROVE  /\ own_actor_id[d] \subseteq {a \in Reactives : Home[a] = d}
               /\ Cardinality(own_actor_id[d]) <= 1
    <2>1. CASE own_actor_id[d] = {}
      BY <2>1, FS_EmptySet
    <2>2. CASE own_actor_id[d] # {}
      <3>1. PICK a \in Reactives : Home[a] = d /\ own_actor_id[d] = {a}
        BY <2>2 DEF TypeInv, CalledOK
      <3>2. Cardinality(own_actor_id[d]) = 1
        BY <3>1, FS_Singleton
      <3>. QED
        BY <3>1, <3>2
    <2>. QED
      BY <2>1, <2>2
  <1>3. ASSUME NEW d \in Dispatchers
        PROVE  refused[d] \subseteq Requests /\ Cardinality(refused[d]) <= 1
    <2>1. CASE refused[d] = {}
      BY <2>1, FS_EmptySet
    <2>2. CASE refused[d] # {}
      <3>1. PICK r \in Requests : refused[d] = {r}
        BY <2>2 DEF TypeInv, HandsOK
      <3>2. Cardinality(refused[d]) = 1
        BY <3>1, FS_Singleton
      <3>. QED
        BY <3>1, <3>2
    <2>. QED
      BY <2>1, <2>2
  <1>4. /\ reactive_list \subseteq Reactives
        /\ request_id_counter \in [Dispatchers -> RequestIds]
        /\ awaited \in [Reactives -> SUBSET RequestIds]
        /\ held \in [Reactives -> SUBSET Requests]
        /\ \A a \in Reactives : last[a] \in {0} \cup Numbers /\ (last[a] = 0 <=> awaited[a] = {})
        /\ lost \subseteq Reactives \X Numbers
    BY DEF TypeInv, CalledOK, HandsOK, IdsOK
  <1>. QED
    BY <1>1, <1>2, <1>3, <1>4 DEF TypeOK

\* So it holds always.
LEMMA TypeInvariant == Spec => []TypeInv
  BY TypeInvInit, TypeInvNext, PTL DEF Spec

\* Every reachable state has its type: queues stay within their capacity and hold messages
\* for the reactives of their dispatcher, which calls one of them at a time.
THEOREM TypeCorrect == Spec => []TypeOK
  BY TypeInvariant, TypeInvTypes, PTL

-------------------------------------------------------------------------------
(* Responses are told apart by their ids.                                  *)

IInv == TypeInv /\ Numbered

\* Queues that hold nothing new, or one message with its number as id, stay numbered.
LEMMA NumberedKept ==
    ASSUME NumberedIn(queue), NEW m, m.kind \in {"Request", "Response"} => m.id = m.n,
           \A d \in Dispatchers : InSeq(queue'[d]) \subseteq InSeq(queue[d]) \cup {m}
    PROVE  NumberedIn(queue)'
  BY DEF NumberedIn

\* In the beginning no request has a number.
LEMMA NumberedInit == Init => Numbered
  <1>1. InSeq(<<>>) = {} /\ Len(<<>>) = 0
    BY DEF InSeq
  <1>. QED
    BY <1>1 DEF Init, Numbered, NumberedIn

\* Each step keeps ids and numbers the same, while there are ids left.
LEMMA NumberedNext == NoIdReuse /\ IInv /\ [Next]_vars => Numbered'
  <1>. SUFFICES ASSUME NoIdReuse, IInv, [Next]_vars PROVE Numbered'
    OBVIOUS
  <1>0. TypeInv /\ QueuesOK(queue) /\ Numbered /\ NumberedIn(queue)
    BY DEF IInv, TypeInv, Numbered
  <1>1. CASE UNCHANGED vars
    BY <1>0, <1>1 DEF vars, behaviorVars, Numbered, NumberedIn
  <1>2. ASSUME NEW d \in Dispatchers, TakeNotification(d) \/ TakeRequest(d) \/ TakeResponse(d)
        PROVE  Numbered'
    <2>. DEFINE m == Head(queue[d])
    <2>1. queue[d] # <<>> /\ CallBehavior(d)
      BY <1>2 DEF TakeNotification, TakeRequest, TakeResponse, Taking
    <2>2. /\ m \in InSeq(queue[d]) /\ m.dst \in Reactives
          /\ \A e \in Dispatchers : InSeq(queue'[e]) \subseteq InSeq(queue[e])
      BY <1>0, <2>1, Calling, Receiving
    <2>3. NumberedIn(queue)'
      BY <1>0, <2>2 DEF NumberedIn
    <2>4. m.kind = "Request" => m.id = m.n
      BY <1>0, <2>2 DEF NumberedIn
    <2>5. /\ UNCHANGED <<request_id_counter, made, refused>>
          /\ UNCHANGED held \/ (m.kind = "Request" /\ held' = [held EXCEPT ![m.dst] = @ \cup {m}])
          /\ \/ UNCHANGED <<awaited, last>>
             \/ /\ awaited' = [awaited EXCEPT ![m.dst] = {}]
                /\ last' = [last EXCEPT ![m.dst] = 0]
      BY <1>2 DEF TakeNotification, TakeRequest, TakeResponse, Taking, behaviorVars
    <2>. HIDE DEF m
    <2>6. \A a \in Reactives : \A r \in held'[a] : r.id = r.n
      BY <1>0, <2>4, <2>5 DEF Numbered, TypeInv, HandsOK
    <2>7. \A a \in Reactives : awaited'[a] \subseteq {last'[a]}
      BY <1>0, <2>2, <2>5 DEF Numbered, TypeInv, IdsOK
    <2>. QED
      BY <1>0, <2>3, <2>5, <2>6, <2>7 DEF Numbered
  <1>3. ASSUME NEW d \in Dispatchers, TakeUnknown(d) PROVE Numbered'
    <2>. DEFINE m == Head(queue[d])
    <2>1. queue[d] # <<>>
      BY <1>3 DEF TakeUnknown, Taking
    <2>2. /\ QueuesOK(Rest(d)) /\ m \in Messages /\ m \in InSeq(queue[d])
          /\ \A e \in Dispatchers : InSeq(Rest(d)[e]) \subseteq InSeq(queue[e])
      BY <1>0, <2>1, Receiving
    <2>3. NumberedIn(queue)'
      <3>1. CASE m.kind = "Request"
        <4>1. m \in Requests /\ Answer(Rest(d), m, FALSE)
          BY <1>3, <2>2, <3>1, MessageKinds DEF TakeUnknown
        <4>2. /\ \A e \in Dispatchers : InSeq(queue'[e]) \subseteq InSeq(Rest(d)[e]) \cup {Response(m, FALSE)}
              /\ Response(m, FALSE).id = Response(m, FALSE).n
          <5>1. HandsOK
            BY <1>0 DEF TypeInv
          <5>2. m.id = m.n
            BY <1>0, <2>2, <3>1 DEF NumberedIn
          <5>. QED
            BY <2>2, <4>1, <5>1, <5>2, Answering, ResponseFacts
        <4>. QED
          BY <1>0, <2>2, <4>2, NumberedKept
      <3>2. CASE m.kind # "Request"
        <4>1. queue' = Rest(d)
          BY <1>3, <3>2 DEF TakeUnknown
        <4>. QED
          BY <1>0, <2>2, <4>1 DEF NumberedIn
      <3>. QED
        BY <3>1, <3>2
    <2>. QED
      BY <1>0, <1>3, <2>3 DEF TakeUnknown, behaviorVars, Numbered
  <1>4. ASSUME NEW d \in Dispatchers, TakeReplace(d) \/ TakeUnregister(d) PROVE Numbered'
    <2>. DEFINE a == Head(queue[d]).dst
    <2>1. queue[d] # <<>> /\ queue' = Rest(d)
      BY <1>4 DEF TakeReplace, TakeUnregister, Taking
    <2>2. NumberedIn(queue)'
      <3>1. \A e \in Dispatchers : InSeq(Rest(d)[e]) \subseteq InSeq(queue[e])
        BY <1>0, <2>1, Receiving
      <3>. QED
        BY <1>0, <2>1, <3>1 DEF NumberedIn
    <2>3. /\ awaited' = [awaited EXCEPT ![a] = {}]
          /\ last' = [last EXCEPT ![a] = 0]
          /\ held' = [held EXCEPT ![a] = {}]
          /\ UNCHANGED <<request_id_counter, made, refused>>
      BY <1>4 DEF TakeReplace, TakeUnregister, DropBehavior
    <2>. HIDE DEF a
    <2>4. \A b \in Reactives : awaited'[b] \subseteq {last'[b]} /\ held'[b] \subseteq held[b]
      BY <1>0, <2>3 DEF Numbered, TypeInv, IdsOK, HandsOK
    <2>. QED
      BY <1>0, <2>2, <2>3, <2>4 DEF Numbered
  <1>5. ASSUME NEW d \in Dispatchers, NEW a \in Reactives, NEW dst \in Reactives \cup {INVALID},
               SendRequest(d, a, dst)
        PROVE  Numbered'
    <2>. DEFINE n == Len(made[d]) + 1
                r == Request(a, NextRequestId(d), n, dst)
    <2>1. /\ r \in Requests
          /\ request_id_counter' = [request_id_counter EXCEPT ![d] = NextRequestId(d)]
          /\ made' = [made EXCEPT ![d] = Append(@, a)]
          /\ Len(made[d]) \in Nat /\ Len(made'[d]) = n /\ Len(made'[d]) <= MaxRequests[d]
      BY <1>0, <1>5, Requesting
    <2>2. NextRequestId(d) = n
      <3>1. request_id_counter[d] + 1 = n /\ n \in Nat /\ n < IdSpace /\ IdSpace \in Nat \ {0}
        BY <1>0, <2>1 DEF Numbered, NoIdReuse
      <3>. HIDE DEF n
      <3>2. n % IdSpace = n
        BY <3>1
      <3>. QED
        BY <3>1, <3>2 DEF NextRequestId
    <2>3. /\ \/ dst # INVALID /\ queue' = Sent(queue, r) /\ UNCHANGED refused
             \/ refused' = [refused EXCEPT ![d] = {r}] /\ UNCHANGED queue
          /\ awaited' = [awaited EXCEPT ![a] = {r.id}]
          /\ last' = [last EXCEPT ![a] = r.n]
          /\ UNCHANGED held
      BY <1>5, <2>1 DEF SendRequest
    <2>4. r.id = r.n /\ r.dst = dst /\ r \in Messages
      BY <2>1, <2>2 DEF Request, Messages
    <2>5. \A e \in Dispatchers : request_id_counter'[e] = Len(made'[e])
      <3>1. request_id_counter'[d] = n
        BY <1>0, <2>1, <2>2 DEF TypeInv, IdsOK
      <3>2. \A e \in Dispatchers \ {d} : request_id_counter'[e] = request_id_counter[e] /\ made'[e] = made[e]
        BY <1>0, <2>1 DEF TypeInv, IdsOK
      <3>. QED
        BY <1>0, <2>1, <3>1, <3>2 DEF Numbered
    <2>. HIDE DEF r
    <2>6. NumberedIn(queue)'
      <3>1. CASE dst # INVALID /\ queue' = Sent(queue, r)
        <4>1. \A e \in Dispatchers : InSeq(queue'[e]) \subseteq InSeq(queue[e]) \cup {r}
          BY <1>0, <2>4, <3>1, Sending
        <4>. QED
          BY <1>0, <2>4, <4>1, NumberedKept
      <3>2. CASE UNCHANGED queue
        BY <1>0, <3>2 DEF NumberedIn
      <3>. QED
        BY <2>3, <3>1, <3>2
    <2>7. \A e \in Dispatchers : \A q \in refused'[e] : q.id = q.n
      <3>1. CASE refused' = [refused EXCEPT ![d] = {r}]
        <4>1. refused'[d] = {r} /\ \A e \in Dispatchers \ {d} : refused'[e] = refused[e]
          BY <1>0, <3>1 DEF TypeInv, HandsOK
        <4>. QED
          BY <1>0, <2>4, <4>1 DEF Numbered
      <3>2. CASE UNCHANGED refused
        BY <1>0, <3>2 DEF Numbered
      <3>. QED
        BY <2>3, <3>1, <3>2
    <2>8. \A b \in Reactives : awaited'[b] \subseteq {last'[b]}
      BY <1>0, <2>3, <2>4 DEF Numbered, TypeInv, IdsOK
    <2>. QED
      BY <1>0, <2>3, <2>5, <2>6, <2>7, <2>8 DEF Numbered
  <1>6. ASSUME NEW r \in Requests, r.id = r.n, NEW ok \in BOOLEAN, Answer(queue, r, ok)
        PROVE  NumberedIn(queue)'
    <2>1. HandsOK
      BY <1>0 DEF TypeInv
    <2>2. \A e \in Dispatchers : InSeq(queue'[e]) \subseteq InSeq(queue[e]) \cup {Response(r, ok)}
      BY <1>0, <1>6, <2>1, Answering
    <2>3. Response(r, ok).id = Response(r, ok).n
      BY <1>6, ResponseFacts
    <2>. QED
      BY <1>0, <2>2, <2>3, NumberedKept
  <1>7. ASSUME NEW d \in Dispatchers, AnswerRefused(d) PROVE Numbered'
    <2>1. PICK r \in refused[d] : Answer(queue, r, FALSE)
      BY <1>7 DEF AnswerRefused
    <2>2. r \in Requests /\ r.id = r.n
      BY <1>0 DEF TypeInv, HandsOK, Numbered
    <2>3. NumberedIn(queue)'
      BY <1>6, <2>1, <2>2
    <2>4. /\ refused' = [refused EXCEPT ![d] = {}]
          /\ UNCHANGED <<request_id_counter, made, held, awaited, last>>
      BY <1>7 DEF AnswerRefused, behaviorVars
    <2>5. \A e \in Dispatchers : refused'[e] \subseteq refused[e]
      BY <1>0, <2>4 DEF TypeInv, HandsOK
    <2>. QED
      BY <1>0, <2>3, <2>4, <2>5 DEF Numbered
  <1>8. ASSUME NEW d \in Dispatchers, NEW a \in Reactives, NEW r \in held[a], SendResponse(d, a, r)
        PROVE  Numbered'
    <2>1. r \in Requests /\ r.id = r.n
      BY <1>0 DEF TypeInv, HandsOK, Numbered
    <2>2. NumberedIn(queue)'
      BY <1>6, <1>8, <2>1 DEF SendResponse
    <2>3. /\ held' = [held EXCEPT ![a] = @ \ {r}]
          /\ UNCHANGED <<request_id_counter, made, refused, awaited, last>>
      BY <1>8 DEF SendResponse
    <2>4. \A b \in Reactives : held'[b] \subseteq held[b]
      BY <1>0, <2>3 DEF TypeInv, HandsOK
    <2>. QED
      BY <1>0, <2>2, <2>3, <2>4 DEF Numbered
  <1>9. ASSUME NEW d \in Dispatchers, Return(d) PROVE Numbered'
    BY <1>0, <1>9 DEF Return, behaviorVars, Numbered, NumberedIn
  <1>10. ASSUME NEW kind \in Calls, NEW a \in Reactives, Send(Call(kind, a)) PROVE Numbered'
    <2>. DEFINE m == Call(kind, a)
    <2>1. m \in Messages /\ m.dst \in Reactives /\ m.kind \notin {"Request", "Response"}
      BY DEF Call, Messages, Calls
    <2>2. queue' = Sent(queue, m)
      BY <1>10 DEF Send
    <2>. HIDE DEF m
    <2>3. \A e \in Dispatchers : InSeq(queue'[e]) \subseteq InSeq(queue[e]) \cup {m}
      BY <1>0, <2>1, <2>2, Sending
    <2>4. NumberedIn(queue)'
      BY <1>0, <2>1, <2>3, NumberedKept
    <2>5. UNCHANGED <<request_id_counter, made, refused, held, awaited, last>>
      BY <1>10 DEF Send, behaviorVars
    <2>. QED
      BY <1>0, <2>4, <2>5 DEF Numbered
  <1>. QED
    BY <1>1, <1>2, <1>3, <1>4, <1>5, <1>7, <1>8, <1>9, <1>10 DEF Next, Take

\* Where ids are numbers, a behavior that compares ids compares numbers.
LEMMA NumberedAccepts == IInv => AcceptsOwnOnly
  <1>. SUFFICES ASSUME IInv, NEW d \in Dispatchers, NEW m \in InSeq(queue[d]),
                       m.kind = "Response", m.id \in awaited[m.dst]
                PROVE  m.n = last[m.dst]
    BY DEF AcceptsOwnOnly
  <1>1. m \in Messages /\ m.id = m.n
    BY DEF IInv, TypeInv, QueuesOK, InSeq, Numbered, NumberedIn
  <1>2. m.dst \in Reactives
    BY <1>1, MessageKinds DEF Responses
  <1>. QED
    BY <1>1, <1>2 DEF IInv, Numbered

\* As long as the ids do not wrap around, a behavior that compares the id of a response with
\* that of its last request takes the response to this request and to no other, although
\* the reactives of a dispatcher share the counter and behaviors are replaced.
THEOREM ResponsesToldApart == ASSUME NoIdReuse PROVE Spec => []AcceptsOwnOnly
  <1>1. Init => IInv
    BY TypeInvInit, NumberedInit DEF IInv
  <1>2. IInv /\ [Next]_vars => IInv'
    BY NumberedNext, TypeInvNext DEF IInv
  <1>3. IInv => AcceptsOwnOnly
    BY NumberedAccepts
  <1>. QED
    BY <1>1, <1>2, <1>3, PTL DEF Spec

-------------------------------------------------------------------------------
(* A behavior does not await in vain.                                      *)

\* The request is still with somebody, or it was answered or lost.
Somewhere(a, n) ==
    Open(a, n) \/ Answered(a, n, TRUE) \/ Answered(a, n, FALSE) \/ <<a, n>> \in lost

\* m is the request n of a, or a response to it.
About(m, a, n) ==
    /\ \/ m.kind = "Request" /\ m.src = a
       \/ m.kind = "Response" /\ m.dst = a
    /\ m.n = n

\* A step that takes away no other messages than gone.
KeepsAllBut(gone) ==
    /\ \A d \in Dispatchers : InSeq(queue[d]) \ gone \subseteq InSeq(queue'[d])
    /\ \A d \in Dispatchers : refused[d] \ gone \subseteq refused'[d]
    /\ \A b \in Reactives : held[b] \ gone \subseteq held'[b]
    /\ lost \subseteq lost'

\* A behavior that is called exists, and one that does not exist awaits nothing.
RegisteredOK ==
    /\ \A d \in Dispatchers : own_actor_id[d] \subseteq reactive_list
    /\ \A a \in Reactives \ reactive_list : last[a] = 0

AwaitedOK ==
    \A a \in Reactives :
        last[a] # 0 => last[a] \in 1 .. Len(made[Home[a]]) /\ made[Home[a]][last[a]] = a
                       /\ Somewhere(a, last[a])

WInv == IInv /\ RegisteredOK /\ AwaitedOK

\* Sending loses nothing that is queued, and queues the message if there is room.
LEMMA SendingKeeps ==
    ASSUME NEW queues, QueuesOK(queues), NEW m \in Messages, m.dst \in Reactives
    PROVE  /\ \A d \in Dispatchers : InSeq(queues[d]) \subseteq InSeq(Sent(queues, m)[d])
           /\ HasRoom(queues, m.dst) => m \in InSeq(Sent(queues, m)[Home[m.dst]])
  <1>1. CASE ~HasRoom(queues, m.dst)
    BY <1>1 DEF Sent
  <1>2. CASE HasRoom(queues, m.dst)
    <2>. DEFINE h == Home[m.dst]
                s == queues[h]
    <2>1. h \in Dispatchers /\ s \in Seq(Messages)
      BY DEF QueuesOK
    <2>2. Sent(queues, m) = [queues EXCEPT ![h] = Append(s, m)]
      BY <1>2 DEF Sent
    <2>3. InSeq(Append(s, m)) = InSeq(s) \cup {m}
      BY <2>1, AppendElements
    <2>4. /\ Sent(queues, m)[h] = Append(s, m)
          /\ \A d \in Dispatchers \ {h} : Sent(queues, m)[d] = queues[d]
      BY <2>1, <2>2 DEF QueuesOK
    <2>. QED
      BY <2>3, <2>4
  <1>. QED
    BY <1>1, <1>2

\* Receiving takes the first message and no other.
LEMMA ReceivingKeeps ==
    ASSUME QueuesOK(queue), NEW d \in Dispatchers, queue[d] # <<>>
    PROVE  \A e \in Dispatchers : InSeq(queue[e]) \ {Head(queue[d])} \subseteq InSeq(Rest(d)[e])
  <1>. DEFINE s == queue[d]
  <1>1. s \in Seq(Messages) /\ s # <<>> /\ Len(s) \in Nat \ {0} /\ Head(s) = s[1]
    BY DEF QueuesOK
  <1>2. /\ Len(Tail(s)) = Len(s) - 1
        /\ \A i \in 1 .. Len(Tail(s)) : Tail(s)[i] = s[i + 1]
    BY <1>1
  <1>3. \A i \in 2 .. Len(s) : i - 1 \in 1 .. Len(Tail(s)) /\ s[i] = Tail(s)[i - 1]
    BY <1>1, <1>2
  <1>4. InSeq(s) \ {Head(s)} \subseteq InSeq(Tail(s))
    <2>. SUFFICES ASSUME NEW i \in 1 .. Len(s), s[i] # Head(s)
                  PROVE  s[i] \in InSeq(Tail(s))
      BY DEF InSeq
    <2>1. i \in 2 .. Len(s)
      BY <1>1
    <2>. QED
      BY <2>1, <1>3 DEF InSeq
  <1>5. Rest(d)[d] = Tail(s) /\ \A e \in Dispatchers \ {d} : Rest(d)[e] = queue[e]
    BY DEF Rest, QueuesOK
  <1>. QED
    BY <1>4, <1>5

\* Where a request is looked for.
LEMMA OpenMeans ==
    ASSUME NEW a, NEW n
    PROVE  Open(a, n) <=>
             \/ \E d \in Dispatchers : \E r \in InSeq(queue[d]) :
                    r.kind = "Request" /\ r.src = a /\ r.n = n
             \/ \E d \in Dispatchers : \E r \in refused[d] :
                    r.kind = "Request" /\ r.src = a /\ r.n = n
             \/ \E b \in Reactives : \E r \in held[b] :
                    r.kind = "Request" /\ r.src = a /\ r.n = n
  BY DEF Open

\* The same in the next state.
LEMMA OpenMeansNext ==
    ASSUME NEW a, NEW n
    PROVE  Open(a, n)' <=>
             \/ \E d \in Dispatchers : \E r \in InSeq(queue'[d]) :
                    r.kind = "Request" /\ r.src = a /\ r.n = n
             \/ \E d \in Dispatchers : \E r \in refused'[d] :
                    r.kind = "Request" /\ r.src = a /\ r.n = n
             \/ \E b \in Reactives : \E r \in held'[b] :
                    r.kind = "Request" /\ r.src = a /\ r.n = n
  BY DEF Open

\* A step that takes some messages away keeps a request somewhere if it does so for
\* those that it takes away.
LEMMA SomewhereKept ==
    ASSUME NEW a \in Reactives, NEW n, NEW gone, Somewhere(a, n), KeepsAllBut(gone),
           \A m \in gone : About(m, a, n) => Somewhere(a, n)'
    PROVE  Somewhere(a, n)'
  <1>1. CASE Open(a, n)
    <2>1. CASE \E d \in Dispatchers : \E r \in InSeq(queue[d]) :
                  r.kind = "Request" /\ r.src = a /\ r.n = n
      <3>0. PICK d \in Dispatchers : \E r \in InSeq(queue[d]) : r.kind = "Request" /\ r.src = a /\ r.n = n
        BY <2>1
      <3>1. PICK r \in InSeq(queue[d]) : r.kind = "Request" /\ r.src = a /\ r.n = n
        BY <3>0
      <3>2. r \in gone \/ r \in InSeq(queue'[d])
        BY <3>1 DEF KeepsAllBut
      <3>. QED
        BY <3>1, <3>2, OpenMeansNext DEF Somewhere, About
    <2>2. CASE \E d \in Dispatchers : \E r \in refused[d] :
                  r.kind = "Request" /\ r.src = a /\ r.n = n
      <3>0. PICK d \in Dispatchers : \E r \in refused[d] : r.kind = "Request" /\ r.src = a /\ r.n = n
        BY <2>2
      <3>1. PICK r \in refused[d] : r.kind = "Request" /\ r.src = a /\ r.n = n
        BY <3>0
      <3>2. r \in gone \/ r \in refused'[d]
        BY <3>1 DEF KeepsAllBut
      <3>. QED
        BY <3>1, <3>2, OpenMeansNext DEF Somewhere, About
    <2>3. CASE \E b \in Reactives : \E r \in held[b] :
                  r.kind = "Request" /\ r.src = a /\ r.n = n
      <3>0. PICK b \in Reactives : \E r \in held[b] : r.kind = "Request" /\ r.src = a /\ r.n = n
        BY <2>3
      <3>1. PICK r \in held[b] : r.kind = "Request" /\ r.src = a /\ r.n = n
        BY <3>0
      <3>2. r \in gone \/ r \in held'[b]
        BY <3>1 DEF KeepsAllBut
      <3>. QED
        BY <3>1, <3>2, OpenMeansNext DEF Somewhere, About
    <2>. QED
      BY <1>1, <2>1, <2>2, <2>3, OpenMeans
  <1>2. ASSUME NEW ok \in BOOLEAN, Answered(a, n, ok)
        PROVE  Somewhere(a, n)' \/ Answered(a, n, ok)'
    <2>1. PICK m \in InSeq(queue[Home[a]]) :
             m.kind = "Response" /\ m.dst = a /\ m.n = n /\ m.ok = ok
      BY <1>2 DEF Answered
    <2>2. m \in gone \/ m \in InSeq(queue'[Home[a]])
      BY <2>1 DEF KeepsAllBut
    <2>. QED
      BY <2>1, <2>2 DEF Answered, About
  <1>3. Answered(a, n, TRUE) \/ Answered(a, n, FALSE) => Somewhere(a, n)'
    BY <1>2 DEF Somewhere
  <1>4. <<a, n>> \in lost => Somewhere(a, n)'
    BY DEF Somewhere, KeepsAllBut
  <1>. QED
    BY <1>1, <1>3, <1>4 DEF Somewhere

\* An answered request is settled, and nothing else is lost.
LEMMA AnswerSettles ==
    ASSUME NEW queues, QueuesOK(queues), NEW r \in Requests, NEW ok \in BOOLEAN,
           Answer(queues, r, ok)
    PROVE  /\ Somewhere(r.src, r.n)'
           /\ \A d \in Dispatchers : InSeq(queues[d]) \subseteq InSeq(queue'[d])
           /\ lost \subseteq lost'
  <1>. DEFINE m == Response(r, ok)
  <1>1. /\ m \in Messages /\ m.dst = r.src /\ r.src \in Reactives /\ m.n = r.n
        /\ m.kind = "Response" /\ m.ok = ok /\ Name(r) = <<r.src, r.n>>
    BY ResponseFacts DEF Response
  <1>2. queue' = Sent(queues, m) /\ lost' = IF HasRoom(queues, r.src) THEN lost ELSE lost \cup {Name(r)}
    BY DEF Answer
  <1>. HIDE DEF m
  <1>3. /\ \A d \in Dispatchers : InSeq(queues[d]) \subseteq InSeq(queue'[d])
        /\ HasRoom(queues, r.src) => m \in InSeq(queue'[Home[r.src]])
    BY <1>1, <1>2, SendingKeeps
  <1>4. CASE HasRoom(queues, r.src)
    <2>1. Answered(r.src, r.n, ok)'
      BY <1>1, <1>3, <1>4 DEF Answered
    <2>. QED
      BY <1>2, <1>3, <2>1 DEF Somewhere
  <1>5. CASE ~HasRoom(queues, r.src)
    BY <1>1, <1>2, <1>3, <1>5 DEF Somewhere
  <1>. QED
    BY <1>4, <1>5

\* A step that makes no request keeps what is awaited somewhere, if it does so for the
\* messages that it takes away.
LEMMA AwaitedKept ==
    ASSUME AwaitedOK, NEW gone, UNCHANGED made, KeepsAllBut(gone),
           \A a \in Reactives : last'[a] \in {0, last[a]},
           \A m \in gone : \A a \in Reactives : \A n :
               About(m, a, n) /\ n # 0 /\ last[a] = n /\ last'[a] = n => Somewhere(a, n)'
    PROVE  AwaitedOK'
  <1>. SUFFICES ASSUME NEW a \in Reactives, NEW n, last'[a] = n, n # 0
                PROVE  /\ n \in 1 .. Len(made'[Home[a]]) /\ made'[Home[a]][n] = a
                       /\ Somewhere(a, n)'
    <2>1. \A a \in Reactives : \A n : last'[a] = n /\ n # 0 =>
             n \in 1 .. Len(made'[Home[a]]) /\ made'[Home[a]][n] = a /\ Somewhere(a, n)'
      OBVIOUS
    <2>. QED
      BY <2>1 DEF AwaitedOK, Somewhere, Open, Answered
  <1>1. /\ last[a] = n /\ n \in 1 .. Len(made[Home[a]]) /\ made[Home[a]][n] = a
        /\ Somewhere(a, n)
    BY DEF AwaitedOK, Somewhere, Open, Answered
  <1>2. \A m \in gone : About(m, a, n) => Somewhere(a, n)'
    BY <1>1
  <1>3. Somewhere(a, n)'
    BY <1>1, <1>2, SomewhereKept
  <1>. QED
    BY <1>1, <1>3

\* A behavior that is called is one of the dispatcher's reactives.
LEMMA RegisteredNext == TypeInv /\ RegisteredOK /\ [Next]_vars => RegisteredOK'
  <1>. SUFFICES ASSUME TypeInv, RegisteredOK, [Next]_vars PROVE RegisteredOK'
    OBVIOUS
  <1>0. CalledOK /\ IdsOK
    BY DEF TypeInv
  <1>1. CASE UNCHANGED vars
    BY <1>1 DEF vars, behaviorVars, RegisteredOK
  <1>2. ASSUME NEW d \in Dispatchers, TakeNotification(d) \/ TakeRequest(d) \/ TakeResponse(d)
        PROVE  RegisteredOK'
    <2>. DEFINE b == Head(queue[d]).dst
    <2>1. /\ b \in reactive_list /\ UNCHANGED reactive_list
          /\ own_actor_id' = [own_actor_id EXCEPT ![d] = {b}]
          /\ UNCHANGED last \/ last' = [last EXCEPT ![b] = 0]
      BY <1>2 DEF TakeNotification, TakeRequest, TakeResponse, CallBehavior, behaviorVars
    <2>. HIDE DEF b
    <2>. QED
      BY <1>0, <2>1 DEF RegisteredOK, CalledOK, IdsOK
  <1>3. ASSUME NEW d \in Dispatchers, TakeUnknown(d) PROVE RegisteredOK'
    BY <1>3 DEF TakeUnknown, behaviorVars, RegisteredOK
  <1>4. ASSUME NEW d \in Dispatchers, TakeReplace(d) PROVE RegisteredOK'
    <2>1. /\ UNCHANGED <<reactive_list, own_actor_id>>
          /\ last' = [last EXCEPT ![Head(queue[d]).dst] = 0]
      BY <1>4 DEF TakeReplace, DropBehavior
    <2>. QED
      BY <1>0, <2>1 DEF RegisteredOK, IdsOK
  <1>5. ASSUME NEW d \in Dispatchers, TakeUnregister(d) PROVE RegisteredOK'
    <2>. DEFINE b == Head(queue[d]).dst
    <2>1. /\ reactive_list' = reactive_list \ {b} /\ UNCHANGED own_actor_id
          /\ last' = [last EXCEPT ![b] = 0]
          /\ queue[d] # <<>> /\ own_actor_id[d] = {}
      BY <1>5 DEF TakeUnregister, Taking, Idle, DropBehavior
    <2>2. Home[b] = d
      BY <2>1, Receiving DEF TypeInv
    <2>. HIDE DEF b
    <2>3. \A e \in Dispatchers : b \notin own_actor_id[e]
      BY <1>0, <2>1, <2>2 DEF CalledOK
    <2>. QED
      BY <1>0, <2>1, <2>3 DEF RegisteredOK, IdsOK
  <1>6. ASSUME NEW d \in Dispatchers, NEW a \in Reactives, NEW dst \in Reactives \cup {INVALID},
               SendRequest(d, a, dst)
        PROVE  RegisteredOK'
    <2>1. /\ UNCHANGED <<reactive_list, own_actor_id>> /\ own_actor_id[d] = {a}
          /\ last' = [last EXCEPT ![a] = Request(a, NextRequestId(d), Len(made'[d]), dst).n]
      BY <1>6 DEF SendRequest, Handling
    <2>. QED
      BY <1>0, <2>1 DEF RegisteredOK, IdsOK
  <1>7. ASSUME NEW d \in Dispatchers, AnswerRefused(d) PROVE RegisteredOK'
    BY <1>7 DEF AnswerRefused, behaviorVars, RegisteredOK
  <1>8. ASSUME NEW d \in Dispatchers, NEW a \in Reactives, NEW r \in held[a], SendResponse(d, a, r)
        PROVE  RegisteredOK'
    BY <1>8 DEF SendResponse, RegisteredOK
  <1>9. ASSUME NEW d \in Dispatchers, Return(d) PROVE RegisteredOK'
    BY <1>0, <1>9 DEF Return, behaviorVars, RegisteredOK, CalledOK
  <1>10. ASSUME NEW kind \in Calls, NEW a \in Reactives, Send(Call(kind, a)) PROVE RegisteredOK'
    BY <1>10 DEF Send, behaviorVars, RegisteredOK
  <1>. QED
    BY <1>1, <1>2, <1>3, <1>4, <1>5, <1>6, <1>7, <1>8, <1>9, <1>10 DEF Next, Take

\* What is awaited stays somewhere, whatever step is taken.
LEMMA AwaitedNext == WInv /\ [Next]_vars => AwaitedOK'
  <1>. SUFFICES ASSUME WInv, [Next]_vars PROVE AwaitedOK'
    OBVIOUS
  <1>0. /\ TypeInv /\ QueuesOK(queue) /\ CalledOK /\ HandsOK /\ IdsOK
        /\ Numbered /\ NumberedIn(queue) /\ RegisteredOK /\ AwaitedOK
    BY DEF WInv, IInv, TypeInv, Numbered
  <1>1. CASE UNCHANGED vars
    BY <1>0, <1>1 DEF vars, behaviorVars, AwaitedOK, Somewhere, Open, Answered
  <1>2. ASSUME NEW d \in Dispatchers, TakeNotification(d) PROVE AwaitedOK'
    <2>1. /\ queue[d] # <<>> /\ Head(queue[d]).kind = "Notification" /\ queue' = Rest(d)
          /\ UNCHANGED <<made, refused, held, lost, last>>
      BY <1>2 DEF TakeNotification, Taking, CallBehavior, behaviorVars
    <2>2. KeepsAllBut({Head(queue[d])})
      BY <1>0, <2>1, ReceivingKeeps DEF KeepsAllBut
    <2>. QED
      BY <1>0, <2>1, <2>2, AwaitedKept DEF About
  <1>3. ASSUME NEW d \in Dispatchers, TakeRequest(d) PROVE AwaitedOK'
    <2>. DEFINE m == Head(queue[d])
    <2>1. /\ queue[d] # <<>> /\ m.kind = "Request" /\ m.dst \in reactive_list /\ queue' = Rest(d)
          /\ held' = [held EXCEPT ![m.dst] = @ \cup {m}]
          /\ UNCHANGED <<made, refused, lost, last>>
      BY <1>3 DEF TakeRequest, Taking, CallBehavior
    <2>2. \A e \in Dispatchers : InSeq(queue[e]) \ {m} \subseteq InSeq(queue'[e])
      BY <1>0, <2>1, ReceivingKeeps
    <2>. HIDE DEF m
    <2>3. m.dst \in Reactives /\ m \in held'[m.dst] /\ \A b \in Reactives : held[b] \subseteq held'[b]
      BY <1>0, <2>1 DEF CalledOK, HandsOK
    <2>4. KeepsAllBut({m})
      BY <2>1, <2>2, <2>3 DEF KeepsAllBut
    <2>5. ASSUME NEW a \in Reactives, NEW n, About(m, a, n) PROVE Somewhere(a, n)'
      BY <2>1, <2>3, <2>5, OpenMeansNext DEF Somewhere, About
    <2>. QED
      BY <1>0, <2>1, <2>4, <2>5, AwaitedKept
  <1>4. ASSUME NEW d \in Dispatchers, TakeResponse(d) PROVE AwaitedOK'
    <2>. DEFINE m == Head(queue[d])
    <2>1. /\ queue[d] # <<>> /\ m.kind = "Response" /\ m.dst \in reactive_list /\ queue' = Rest(d)
          /\ \/ IsAwaited(m) /\ last' = [last EXCEPT ![m.dst] = 0]
             \/ ~IsAwaited(m) /\ UNCHANGED last
          /\ UNCHANGED <<made, refused, held, lost>>
      BY <1>4 DEF TakeResponse, Taking, CallBehavior
    <2>2. /\ \A e \in Dispatchers : InSeq(queue[e]) \ {m} \subseteq InSeq(queue'[e])
          /\ m \in InSeq(queue[d])
      BY <1>0, <2>1, ReceivingKeeps, Receiving
    <2>. HIDE DEF m
    <2>3. m.dst \in Reactives /\ m.id = m.n
      BY <1>0, <2>1, <2>2 DEF CalledOK, NumberedIn
    <2>4. KeepsAllBut({m})
      BY <2>1, <2>2 DEF KeepsAllBut
    <2>5. \A a \in Reactives : last'[a] \in {0, last[a]}
      BY <1>0, <2>1 DEF IdsOK
    <2>6. ASSUME NEW a \in Reactives, NEW n, About(m, a, n), n # 0, last[a] = n, last'[a] = n
          PROVE  FALSE
      <3>1. a = m.dst /\ m.id = n
        BY <2>1, <2>3, <2>6 DEF About
      <3>2. awaited[a] = {n}
        BY <1>0, <2>6 DEF IdsOK, Numbered
      <3>. QED
        BY <1>0, <2>1, <2>6, <3>1, <3>2 DEF IsAwaited, IdsOK
    <2>. QED
      BY <1>0, <2>1, <2>4, <2>5, <2>6, AwaitedKept
  <1>5. ASSUME NEW d \in Dispatchers, TakeUnknown(d) PROVE AwaitedOK'
    <2>0. PICK m : m = Head(queue[d])
      OBVIOUS
    <2>1. /\ queue[d] # <<>> /\ m.dst \notin reactive_list
          /\ UNCHANGED <<made, refused, held, last>>
      BY <1>5, <2>0 DEF TakeUnknown, Taking, behaviorVars
    <2>2. /\ \A e \in Dispatchers : InSeq(queue[e]) \ {m} \subseteq InSeq(Rest(d)[e])
          /\ QueuesOK(Rest(d)) /\ m \in Messages
      BY <1>0, <2>0, <2>1, ReceivingKeeps, Receiving
    <2>3. CASE m.kind = "Request"
      <3>1. m \in Requests /\ Answer(Rest(d), m, FALSE)
        BY <1>5, <2>0, <2>2, <2>3, MessageKinds DEF TakeUnknown
      <3>2. /\ Somewhere(m.src, m.n)'
            /\ \A e \in Dispatchers : InSeq(Rest(d)[e]) \subseteq InSeq(queue'[e])
            /\ lost \subseteq lost'
        BY <2>2, <3>1, AnswerSettles
      <3>3. KeepsAllBut({m})
        BY <2>1, <2>2, <3>2 DEF KeepsAllBut
      <3>4. ASSUME NEW a \in Reactives, NEW n, About(m, a, n) PROVE Somewhere(a, n)'
        BY <2>3, <3>2, <3>4 DEF About, Somewhere, Open, Answered
      <3>. QED
        BY <1>0, <2>1, <3>3, <3>4, AwaitedKept
    <2>4. CASE m.kind # "Request"
      <3>1. queue' = Rest(d) /\ UNCHANGED lost
        BY <1>5, <2>0, <2>4 DEF TakeUnknown
      <3>2. KeepsAllBut({m})
        BY <2>1, <2>2, <3>1 DEF KeepsAllBut
      <3>3. ASSUME NEW a \in Reactives, NEW n, About(m, a, n), n # 0, last[a] = n PROVE FALSE
        BY <1>0, <2>1, <2>4, <3>3 DEF About, RegisteredOK
      <3>. QED
        BY <1>0, <2>1, <3>2, <3>3, AwaitedKept
    <2>. QED
      BY <2>3, <2>4
  <1>6. ASSUME NEW d \in Dispatchers, TakeReplace(d) \/ TakeUnregister(d) PROVE AwaitedOK'
    <2>. DEFINE m == Head(queue[d])
    <2>1. /\ queue[d] # <<>> /\ m.kind \in {"Replace", "Unregister"} /\ queue' = Rest(d)
          /\ DropBehavior(m.dst) /\ UNCHANGED <<made, refused>>
      BY <1>6 DEF TakeReplace, TakeUnregister, Taking
    <2>2. /\ \A e \in Dispatchers : InSeq(queue[e]) \ {m} \subseteq InSeq(queue'[e])
          /\ m \in Messages
      BY <1>0, <2>1, ReceivingKeeps, Receiving
    <2>. DEFINE b == m.dst
                gone == {m} \cup held[b]
    <2>3. /\ last' = [last EXCEPT ![b] = 0]
          /\ held' = [held EXCEPT ![b] = {}]
          /\ lost' = lost \cup {Name(r) : r \in held[b]}
      BY <2>1 DEF DropBehavior
    <2>4. b \in Reactives
      BY <2>1, <2>2, MessageKinds DEF Calls
    <2>. HIDE DEF m, b
    <2>5. KeepsAllBut(gone)
      BY <1>0, <2>1, <2>2, <2>3, <2>4 DEF KeepsAllBut, HandsOK
    <2>6. ASSUME NEW r \in gone, NEW a \in Reactives, NEW n, About(r, a, n)
          PROVE  Somewhere(a, n)'
      <3>1. r \in held[b]
        BY <2>1, <2>6 DEF About
      <3>2. r \in Requests /\ Name(r) = <<r.src, r.n>>
        BY <1>0, <2>4, <3>1, ResponseFacts DEF HandsOK
      <3>3. r.kind = "Request" /\ Name(r) \in lost'
        BY <2>3, <3>1, <3>2 DEF Requests
      <3>. QED
        BY <2>6, <3>2, <3>3 DEF About, Somewhere
    <2>7. \A a \in Reactives : last'[a] \in {0, last[a]}
      BY <1>0, <2>3 DEF IdsOK
    <2>. HIDE DEF gone
    <2>. QED
      BY <1>0, <2>1, <2>5, <2>6, <2>7, AwaitedKept
  <1>7. ASSUME NEW d \in Dispatchers, NEW a \in Reactives, NEW dst \in Reactives \cup {INVALID},
               SendRequest(d, a, dst)
        PROVE  AwaitedOK'
    <2>0. PICK n, r : n = Len(made[d]) + 1 /\ r = Request(a, NextRequestId(d), n, dst)
      OBVIOUS
    <2>1. /\ r \in Requests /\ n \in Nat \ {0} /\ n = Len(made[d]) + 1 /\ Len(made'[d]) = n
          /\ Len(made[d]) \in Nat
          /\ made' = [made EXCEPT ![d] = Append(@, a)]
      BY <1>0, <1>7, <2>0, Requesting
    <2>2. /\ own_actor_id[d] = {a} /\ refused[d] = {}
          /\ \/ dst # INVALID /\ HasRoom(queue, dst) /\ queue' = Sent(queue, r) /\ UNCHANGED refused
             \/ refused' = [refused EXCEPT ![d] = {r}] /\ UNCHANGED queue
          /\ last' = [last EXCEPT ![a] = r.n]
          /\ UNCHANGED <<held, lost>>
      BY <1>7, <2>0, <2>1 DEF SendRequest, Handling
    <2>3. Home[a] = d /\ d \in Dispatchers
      BY <1>0, <2>2 DEF CalledOK
    <2>4. r.kind = "Request" /\ r.src = a /\ r.n = n /\ r.dst = dst /\ r \in Messages
      BY <2>0, <2>1 DEF Request, Messages
    <2>5. /\ KeepsAllBut({})
          /\ r \in refused'[d] \/ \E e \in Dispatchers : r \in InSeq(queue'[e])
      <3>1. CASE dst # INVALID /\ HasRoom(queue, dst) /\ queue' = Sent(queue, r) /\ UNCHANGED refused
        <4>1. /\ \A e \in Dispatchers : InSeq(queue[e]) \subseteq InSeq(queue'[e])
              /\ r \in InSeq(queue'[Home[dst]]) /\ Home[dst] \in Dispatchers
          BY <1>0, <2>4, <3>1, SendingKeeps
        <4>. QED
          BY <2>2, <3>1, <4>1 DEF KeepsAllBut
      <3>2. CASE refused' = [refused EXCEPT ![d] = {r}] /\ UNCHANGED queue
        BY <1>0, <2>2, <3>2 DEF KeepsAllBut, HandsOK
      <3>. QED
        BY <2>2, <3>1, <3>2
    <2>6. Somewhere(a, n)'
      BY <2>4, <2>5, OpenMeansNext DEF Somewhere
    <2>7. /\ made[d] \in Seq(Reactives) /\ made'[d] = Append(made[d], a)
          /\ \A e \in Dispatchers \ {d} : made'[e] = made[e]
      BY <1>0, <2>1 DEF IdsOK
    <2>8. made'[d][n] = a /\ \A i \in 1 .. Len(made[d]) : made'[d][i] = made[d][i]
      BY <2>1, <2>7
    <2>9. ASSUME NEW b \in Reactives \ {a}, NEW k, last'[b] = k, k # 0
          PROVE  k \in 1 .. Len(made'[Home[b]]) /\ made'[Home[b]][k] = b /\ Somewhere(b, k)'
      <3>1. /\ last[b] = k /\ k \in 1 .. Len(made[Home[b]]) /\ made[Home[b]][k] = b
            /\ Somewhere(b, k)
        BY <1>0, <2>2, <2>9 DEF AwaitedOK, IdsOK, Somewhere, Open, Answered
      <3>2. Somewhere(b, k)'
        BY <2>5, <3>1, SomewhereKept
      <3>3. CASE Home[b] = d
        BY <2>1, <2>8, <3>1, <3>2, <3>3
      <3>4. CASE Home[b] # d
        BY <2>7, <3>1, <3>2, <3>4
      <3>. QED
        BY <3>3, <3>4
    <2>10. last'[a] = n /\ n \in 1 .. Len(made'[Home[a]]) /\ made'[Home[a]][n] = a
      BY <1>0, <2>1, <2>2, <2>3, <2>4, <2>8 DEF IdsOK
    <2>11. \A b \in Reactives : \A k : last'[b] = k /\ k # 0 =>
              k \in 1 .. Len(made'[Home[b]]) /\ made'[Home[b]][k] = b /\ Somewhere(b, k)'
      <3>1. \A k : last'[a] = k => k = n
        BY <2>10
      <3>2. \A k : k = n => Somewhere(a, k)'
        BY <2>6 DEF Somewhere, Open, Answered
      <3>. QED
        BY <2>9, <2>10, <3>1, <3>2
    <2>. QED
      BY <2>11 DEF AwaitedOK, Somewhere, Open, Answered
  <1>8. ASSUME NEW r \in Requests, NEW ok \in BOOLEAN, Answer(queue, r, ok),
               UNCHANGED <<made, last>>,
               \A e \in Dispatchers : refused[e] \ {r} \subseteq refused'[e],
               \A b \in Reactives : held[b] \ {r} \subseteq held'[b]
        PROVE  AwaitedOK'
    <2>1. /\ Somewhere(r.src, r.n)'
          /\ \A e \in Dispatchers : InSeq(queue[e]) \subseteq InSeq(queue'[e])
          /\ lost \subseteq lost'
      BY <1>0, <1>8, AnswerSettles
    <2>2. KeepsAllBut({r})
      BY <1>8, <2>1 DEF KeepsAllBut
    <2>3. r.kind = "Request"
      BY DEF Requests
    <2>4. ASSUME NEW a \in Reactives, NEW n, About(r, a, n) PROVE Somewhere(a, n)'
      BY <2>1, <2>3, <2>4 DEF About, Somewhere, Open, Answered
    <2>. QED
      BY <1>0, <1>8, <2>2, <2>4, AwaitedKept
  <1>9. ASSUME NEW d \in Dispatchers, AnswerRefused(d) PROVE AwaitedOK'
    <2>1. PICK r \in refused[d] : Answer(queue, r, FALSE)
      BY <1>9 DEF AnswerRefused
    <2>2. /\ refused' = [refused EXCEPT ![d] = {}]
          /\ UNCHANGED <<made, held, last>>
      BY <1>9 DEF AnswerRefused, behaviorVars
    <2>3. r \in Requests /\ refused[d] = {r}
      BY <1>0, <2>1 DEF HandsOK
    <2>4. \A e \in Dispatchers : refused[e] \ {r} \subseteq refused'[e]
      BY <1>0, <2>2, <2>3 DEF HandsOK
    <2>. QED
      BY <1>8, <2>1, <2>2, <2>3, <2>4
  <1>10. ASSUME NEW d \in Dispatchers, NEW a \in Reactives, NEW r \in held[a], SendResponse(d, a, r)
         PROVE  AwaitedOK'
    <2>1. /\ Answer(queue, r, TRUE) /\ held' = [held EXCEPT ![a] = @ \ {r}]
          /\ UNCHANGED <<made, refused, last>>
      BY <1>10 DEF SendResponse
    <2>2. r \in Requests /\ \A b \in Reactives : held[b] \ {r} \subseteq held'[b]
      BY <1>0, <2>1 DEF HandsOK
    <2>. QED
      BY <1>8, <2>1, <2>2
  <1>11. ASSUME NEW d \in Dispatchers, Return(d) PROVE AwaitedOK'
    BY <1>0, <1>11 DEF Return, behaviorVars, AwaitedOK, Somewhere, Open, Answered
  <1>12. ASSUME NEW kind \in Calls, NEW a \in Reactives, Send(Call(kind, a)) PROVE AwaitedOK'
    <2>. DEFINE m == Call(kind, a)
    <2>1. m \in Messages /\ m.dst \in Reactives
      BY DEF Call, Messages, Calls
    <2>2. queue' = Sent(queue, m) /\ UNCHANGED <<made, refused, held, lost, last>>
      BY <1>12 DEF Send, behaviorVars
    <2>. HIDE DEF m
    <2>3. KeepsAllBut({})
      BY <1>0, <2>1, <2>2, SendingKeeps DEF KeepsAllBut
    <2>. QED
      BY <1>0, <2>2, <2>3, AwaitedKept
  <1>. QED
    BY <1>1, <1>2, <1>3, <1>4, <1>5, <1>6, <1>7, <1>9, <1>10, <1>11, <1>12 DEF Next, Take

\* In the beginning nobody waits.
LEMMA WaitingInit == Init => RegisteredOK /\ AwaitedOK
  BY DEF Init, RegisteredOK, AwaitedOK

\* What is somewhere is not closed.
LEMMA WaitingExists == WInv => AwaitedExists
  <1>. SUFFICES ASSUME WInv, NEW a \in Reactives, last[a] # 0, <<a, last[a]>> \notin lost
                PROVE  Status(a, last[a]) # "closed"
    BY DEF AwaitedExists
  <1>1. /\ last[a] \in 1 .. Len(made[Home[a]]) /\ made[Home[a]][last[a]] = a
        /\ Open(a, last[a]) \/ Answered(a, last[a], TRUE) \/ Answered(a, last[a], FALSE)
    BY DEF WInv, AwaitedOK, Somewhere
  <1>2. MadeBy(a, last[a])
    BY <1>1 DEF MadeBy
  <1>. QED
    BY <1>1, <1>2 DEF Status

\* As long as the ids do not wrap around, a behavior that waits for a response does not wait
\* in vain: the request or its response is somewhere, whatever was replaced, unregistered
\* or refused meanwhile, except when the response found the queue of the sender's
\* dispatcher full or the behavior that had the request is gone.
THEOREM NoVainWait == ASSUME NoIdReuse PROVE Spec => []AwaitedExists
  <1>1. Init => WInv
    BY TypeInvInit, NumberedInit, WaitingInit DEF WInv, IInv
  <1>2. WInv /\ [Next]_vars => WInv'
    BY NumberedNext, TypeInvNext, RegisteredNext, AwaitedNext DEF WInv, IInv
  <1>3. WInv => AwaitedExists
    BY WaitingExists
  <1>. QED
    BY <1>1, <1>2, <1>3, PTL DEF Spec
===============================================================================
