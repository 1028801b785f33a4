------------------------------ MODULE Reactives -------------------------------
(***************************************************************************)
(* Reactives that make requests of each other, across several dispatchers  *)
(* with bounded queues.  A dispatcher thread calls one behavior at a time; *)
(* each send inside process_message is a step of its own, and nothing that *)
(* is sent waits for room.  A refused request is answered by its sender,   *)
(* with an error into the sender's own queue.                              *)
(*                                                                         *)
(* The behaviors are those of the README and the tests: they keep the id   *)
(* of the last request they made, take a response with that id and ignore  *)
(* any other, and respond at once or later.                                *)
(***************************************************************************)
EXTENDS Integers, Sequences, FiniteSets

CONSTANTS Dispatchers,
          Reactives,
          Home,         \* [Reactives -> Dispatchers]
          QueueSize,    \* capacity of each queue
          IdSpace,      \* number of request ids, 2^32 in the code
          MaxRequests,  \* bound: [Dispatchers -> requests made by its reactives]
          MaxSends      \* bound: how many messages other than requests are sent

ASSUME HomeAssumption == Home \in [Reactives -> Dispatchers]
ASSUME QueueSizeAssumption == QueueSize \in Nat \ {0}
ASSUME IdSpaceAssumption == IdSpace \in Nat \ {0}
ASSUME BoundsAssumption == MaxRequests \in [Dispatchers -> Nat] /\ MaxSends \in Nat

VARIABLES queue,               \* [Dispatchers -> channel]
          reactive_list,       \* the reactives that are registered
          request_id_counter,  \* [Dispatchers -> that of its ProcessContext]
          own_actor_id,        \* [Dispatchers -> {} or the reactive that is called]
          refused,             \* [Dispatchers -> {} or a request that found no room]
          awaited,             \* [Reactives -> {} or the id of the last request]
          held,                \* [Reactives -> requests it did not respond to yet]
          sends,               \* counted for the bound
          \* History, read by the properties only:
          made,                \* [Dispatchers -> [number -> who made the request]]
          last,                \* [Reactives -> number of the request awaited, or 0]
          lost                 \* requests and responses that found no room or no holder

behaviorVars == <<awaited, held, last>>
vars == <<queue, reactive_list, request_id_counter, own_actor_id, refused, awaited, held,
          sends, made, last, lost>>

INVALID == "Addr::INVALID"
RequestIds == 0 .. IdSpace - 1
Numbers == UNION {1 .. MaxRequests[d] : d \in Dispatchers}

\* n is history: the requests of a dispatcher are numbered from 1 and never alike.
Request(src, id, n, dst) == [kind |-> "Request", src |-> src, id |-> id, n |-> n, dst |-> dst]
Response(r, ok) == [kind |-> "Response", dst |-> r.src, id |-> r.id, n |-> r.n, ok |-> ok]
\* A notification, or an ExecuteFn that replaces or unregisters a reactive.
Call(kind, a) == [kind |-> kind, dst |-> a]
Calls == {"Notification", "Replace", "Unregister"}

Init ==
    /\ queue = [d \in Dispatchers |-> <<>>]
    /\ reactive_list = Reactives
    /\ request_id_counter = [d \in Dispatchers |-> 0]
    /\ own_actor_id = [d \in Dispatchers |-> {}]
    /\ refused = [d \in Dispatchers |-> {}]
    /\ awaited = [a \in Reactives |-> {}]
    /\ held = [a \in Reactives |-> {}]
    /\ sends = 0
    /\ made = [d \in Dispatchers |-> <<>>]
    /\ last = [a \in Reactives |-> 0]
    /\ lost = {}

-------------------------------------------------------------------------------
(* Sending.                                                                *)

HasRoom(queues, a) == Len(queues[Home[a]]) < QueueSize

\* Mutant of Sent: a queue without a capacity.
SentAlways(queues, m) == [queues EXCEPT ![Home[m.dst]] = Append(@, m)]

\* try_send: what finds no room is not queued.
Sent(queues, m) ==
    IF HasRoom(queues, m.dst)
    THEN [queues EXCEPT ![Home[m.dst]] = Append(@, m)] ELSE queues

Name(m) == <<IF m.kind = "Request" THEN m.src ELSE m.dst, m.n>>

\* receive_ok_response and receive_err_response, called with the result ignored.
Answer(queues, r, ok) ==
    /\ queue' = Sent(queues, Response(r, ok))
    /\ lost' = IF HasRoom(queues, r.src) THEN lost ELSE lost \cup {Name(r)}

-------------------------------------------------------------------------------
(* The dispatcher threads: process_current_message.                        *)

Idle(d) == own_actor_id[d] = {}

Taking(d, kinds) ==
    /\ Idle(d)
    /\ queue[d] # <<>>
    /\ Head(queue[d]).kind \in kinds

Rest(d) == [queue EXCEPT ![d] = Tail(@)]

\* The behavior is called with the message.
CallBehavior(d) ==
    /\ Head(queue[d]).dst \in reactive_list
    /\ own_actor_id' = [own_actor_id EXCEPT ![d] = {Head(queue[d]).dst}]
    /\ queue' = Rest(d)

TakeNotification(d) ==
    /\ Taking(d, {"Notification"})
    /\ CallBehavior(d)
    /\ UNCHANGED <<reactive_list, request_id_counter, refused, behaviorVars, sends, made, lost>>

TakeRequest(d) ==
    /\ Taking(d, {"Request"})
    /\ CallBehavior(d)
    /\ LET r == Head(queue[d]) IN held' = [held EXCEPT ![r.dst] = @ \cup {r}]
    /\ UNCHANGED <<reactive_list, request_id_counter, refused, awaited, sends, made, last, lost>>

\* Mutant of IsAwaited: the id of the response is not looked at.
IsAwaitedAny(m) == awaited[m.dst] # {}

\* Response::id_eq with the id of the last request.
IsAwaited(m) == m.id \in awaited[m.dst]

\* The behavior accepts the response, or ignores it.
TakeResponse(d) ==
    /\ Taking(d, {"Response"})
    /\ CallBehavior(d)
    /\ LET m == Head(queue[d])
       IN  IF IsAwaited(m)
           THEN /\ awaited' = [awaited EXCEPT ![m.dst] = {}]
                /\ last' = [last EXCEPT ![m.dst] = 0]
           ELSE UNCHANGED <<awaited, last>>
    /\ UNCHANGED <<reactive_list, request_id_counter, refused, held, sends, made, lost>>

\* Mutant of TakeUnknown: requests are dropped as the other messages are.
TakeUnknownSilently(d) ==
    /\ Taking(d, {"Request", "Response", "Notification"})
    /\ Head(queue[d]).dst \notin reactive_list
    /\ queue' = Rest(d)
    /\ UNCHANGED <<reactive_list, request_id_counter, own_actor_id, refused, behaviorVars,
                   sends, made, lost>>

\* No such behavior: only a request is answered.
TakeUnknown(d) ==
    /\ Taking(d, {"Request", "Response", "Notification"})
    /\ Head(queue[d]).dst \notin reactive_list
    /\ IF Head(queue[d]).kind = "Request"
       THEN Answer(Rest(d), Head(queue[d]), FALSE)
       ELSE queue' = Rest(d) /\ UNCHANGED lost
    /\ UNCHANGED <<reactive_list, request_id_counter, own_actor_id, refused, behaviorVars,
                   sends, made>>

\* The behavior of a is dropped, with what it held.
DropBehavior(a) ==
    /\ awaited' = [awaited EXCEPT ![a] = {}]
    /\ last' = [last EXCEPT ![a] = 0]
    /\ held' = [held EXCEPT ![a] = {}]
    /\ lost' = lost \cup {Name(r) : r \in held[a]}

\* ExecuteFn with replace_reactive: a behavior that made no request yet takes the place.
TakeReplace(d) ==
    /\ Taking(d, {"Replace"})
    /\ queue' = Rest(d)
    /\ DropBehavior(Head(queue[d]).dst)
    /\ UNCHANGED <<reactive_list, request_id_counter, own_actor_id, refused, sends, made>>

\* ExecuteFn with unregister_reactive.
TakeUnregister(d) ==
    /\ Taking(d, {"Unregister"})
    /\ queue' = Rest(d)
    /\ DropBehavior(Head(queue[d]).dst)
    /\ reactive_list' = reactive_list \ {Head(queue[d]).dst}
    /\ UNCHANGED <<request_id_counter, own_actor_id, refused, sends, made>>

-------------------------------------------------------------------------------
(* The behaviors, inside process_message.                                  *)

Handling(d, a) == own_actor_id[d] = {a} /\ refused[d] = {}

\* Mutant of NextRequestId: each call of a behavior starts with the same counter.
SameRequestId(d) == 1

\* The counter belongs to the context, all the reactives of a dispatcher share it.
NextRequestId(d) == (request_id_counter[d] + 1) % IdSpace

\* send_request: the request is queued, or refused for want of room or of an address.
SendRequest(d, a, dst) ==
    /\ Handling(d, a)
    /\ Len(made[d]) < MaxRequests[d]
    /\ request_id_counter' = [request_id_counter EXCEPT ![d] = NextRequestId(d)]
    /\ made' = [made EXCEPT ![d] = Append(@, a)]
    /\ LET r == Request(a, NextRequestId(d), Len(made'[d]), dst)
       IN  /\ IF dst # INVALID /\ HasRoom(queue, dst)
              THEN queue' = Sent(queue, r) /\ UNCHANGED refused
              ELSE refused' = [refused EXCEPT ![d] = {r}] /\ UNCHANGED queue
           /\ awaited' = [awaited EXCEPT ![a] = {r.id}]
           /\ last' = [last EXCEPT ![a] = r.n]
    /\ UNCHANGED <<reactive_list, own_actor_id, held, sends, lost>>

\* Mutant of AnswerRefused: the error waits for room.
AnswerRefusedWaits(d) ==
    \E r \in refused[d] :
        /\ HasRoom(queue, r.src)
        /\ Answer(queue, r, FALSE)
        /\ refused' = [refused EXCEPT ![d] = {}]
        /\ UNCHANGED <<reactive_list, request_id_counter, own_actor_id, behaviorVars, sends, made>>

\* receive_request, when try_send failed: "try to send an error response to himself".
\* Others may have taken or made room since.
AnswerRefused(d) ==
    \E r \in refused[d] :
        /\ Answer(queue, r, FALSE)
        /\ refused' = [refused EXCEPT ![d] = {}]
        /\ UNCHANGED <<reactive_list, request_id_counter, own_actor_id, behaviorVars, sends, made>>

\* send_response and send_addr_id_response, to the request just taken or to an older one.
SendResponse(d, a, r) ==
    /\ Handling(d, a)
    /\ held' = [held EXCEPT ![a] = @ \ {r}]
    /\ Answer(queue, r, TRUE)
    /\ UNCHANGED <<reactive_list, request_id_counter, own_actor_id, refused, awaited, sends,
                   made, last>>

Return(d) ==
    /\ ~Idle(d)
    /\ refused[d] = {}
    /\ own_actor_id' = [own_actor_id EXCEPT ![d] = {}]
    /\ UNCHANGED <<queue, reactive_list, request_id_counter, refused, behaviorVars, sends,
                   made, lost>>

\* Behaviors send notifications, other threads also ExecuteFn; without room they are told.
Send(m) ==
    /\ sends < MaxSends
    /\ sends' = sends + 1
    /\ HasRoom(queue, m.dst)
    /\ queue' = Sent(queue, m)
    /\ UNCHANGED <<reactive_list, request_id_counter, own_actor_id, refused, behaviorVars,
                   made, lost>>

-------------------------------------------------------------------------------

Take(d) ==
    \/ TakeNotification(d) \/ TakeRequest(d) \/ TakeResponse(d) \/ TakeUnknown(d)
    \/ TakeReplace(d) \/ TakeUnregister(d)

Next ==
    \/ \E d \in Dispatchers :
        \/ Take(d)
        \/ AnswerRefused(d)
        \/ \E a \in Reactives :
            \/ \E dst \in Reactives \cup {INVALID} : SendRequest(d, a, dst)
            \/ \E r \in held[a] : SendResponse(d, a, r)
        \/ Return(d)
    \/ \E kind \in Calls, a \in Reactives : Send(Call(kind, a))

Spec == Init /\ [][Next]_vars

\* The dispatcher threads run, and behaviors return; what they send is up to them.
Fairness == \A d \in Dispatchers : WF_vars(Take(d) \/ AnswerRefused(d) \/ Return(d))

FairSpec == Spec /\ Fairness

-------------------------------------------------------------------------------
(* Properties.                                                             *)

InSeq(s) == {s[i] : i \in 1 .. Len(s)}

Requests == [kind : {"Request"}, src : Reactives, id : RequestIds, n : Numbers,
             dst : Reactives \cup {INVALID}]
Responses == [kind : {"Response"}, dst : Reactives, id : RequestIds, n : Numbers, ok : BOOLEAN]

TypeOK ==
    /\ \A d \in Dispatchers :
        /\ InSeq(queue[d]) \subseteq Requests \cup Responses \cup [kind : Calls, dst : Reactives]
        /\ Len(queue[d]) <= QueueSize
        /\ \A m \in InSeq(queue[d]) : Home[m.dst] = d
        /\ own_actor_id[d] \subseteq {a \in Reactives : Home[a] = d}
        /\ refused[d] \subseteq Requests /\ Cardinality(refused[d]) <= 1
        /\ Cardinality(own_actor_id[d]) <= 1
    /\ reactive_list \subseteq Reactives
    /\ request_id_counter \in [Dispatchers -> RequestIds]
    /\ awaited \in [Reactives -> SUBSET RequestIds]
    /\ held \in [Reactives -> SUBSET Requests]
    /\ \A a \in Reactives : last[a] \in {0} \cup Numbers /\ (last[a] = 0 <=> awaited[a] = {})
    /\ lost \subseteq Reactives \X Numbers

\* A response that its behavior would accept is to the request this behavior made last,
\* not to an older one, to one of the behavior it replaced, or to one that another
\* reactive of the dispatcher made with the same counter.
AcceptsOwnOnly ==
    \A d \in Dispatchers : \A m \in InSeq(queue[d]) :
        m.kind = "Response" /\ m.id \in awaited[m.dst] => m.n = last[m.dst]

\* What a request is to its sender, by where it or its response is now.
Open(a, n) ==
    \E r \in UNION ({InSeq(queue[d]) : d \in Dispatchers} \cup {refused[d] : d \in Dispatchers}
                    \cup {held[b] : b \in Reactives}) :
        r.kind = "Request" /\ r.src = a /\ r.n = n
Answered(a, n, ok) ==
    \E m \in InSeq(queue[Home[a]]) :
        m.kind = "Response" /\ m.dst = a /\ m.n = n /\ m.ok = ok
MadeBy(a, n) == n <= Len(made[Home[a]]) /\ made[Home[a]][n] = a
Status(a, n) ==
    IF ~MadeBy(a, n) THEN "unsent"
    ELSE IF Open(a, n) THEN "open"
    ELSE IF Answered(a, n, TRUE) THEN "ok"
    ELSE IF Answered(a, n, FALSE) THEN "error"
    ELSE "closed"

\* A behavior does not await in vain: the request or its response is somewhere, except
\* when the response found the queue of the dispatcher full or the behavior that had
\* the request is gone.
AwaitedExists ==
    \A a \in Reactives :
        last[a] # 0 /\ <<a, last[a]>> \notin lost => Status(a, last[a]) # "closed"

Promise == INSTANCE RequestReply
    WITH Clients <- Reactives, Ids <- Numbers, Droppable <- Reactives,
         current <- last,
         status <- [a \in Reactives |-> [n \in Numbers |-> Status(a, n)]]

\* Requests between reactives keep the promise of RequestReply, although reactives make
\* new requests while they wait and are replaced and unregistered.
KeepsPromise == Promise!Spec

\* Dispatchers whose queues are full of messages for each other, or of their own, never
\* wait for each other: every queue is worked off.
QueuesDrain == \A d \in Dispatchers : queue[d] # <<>> ~> queue[d] = <<>>
===============================================================================
