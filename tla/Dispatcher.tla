------------------------------ MODULE Dispatcher ------------------------------
(***************************************************************************)
(* The life of one MpscDispatcher and of the requests sent to it: clients  *)
(* (an ActiveMailbox each, as in dispatcher::SyncAccessor) register,       *)
(* replace and unregister reactives, send them requests and stop the       *)
(* dispatcher; the dispatcher thread serves its bounded queue, and on stop *)
(* or panic answers what is still queued before its channel closes.  A     *)
(* behavior answers the requests it takes when it likes to, or never.      *)
(*                                                                         *)
(* Each step of a thread is one call on a channel together with what the   *)
(* thread does to its own data.  Notifications and timers are the subject  *)
(* of Timers.                                                              *)
(***************************************************************************)
EXTENDS Integers, Sequences, FiniteSets

CONSTANTS Clients,      \* threads that own an ActiveMailbox
          Patient,      \* clients that wait with Duration::MAX
          Ops,          \* the requests the clients make, a subset of AllOps
          QueueSize,    \* capacity of the queue of the dispatcher
          MailboxSize,  \* capacity of the queue of a mailbox, 1 for SyncAccessor
          MaxActors,    \* bound: how many reactives are registered
          MaxRequests   \* bound: how many requests each client makes

DispatcherOps == {"RegisterReactive", "StopReactive", "StopDispatcher"}
\* ExecuteFn requests of SyncAccessor::execute_fn: the function that is executed.
ExecuteFnOps  == {"Replace", "Unregister"}
AllOps == DispatcherOps \cup ExecuteFnOps \cup {"Work"}

ASSUME ClientsAssumption == IsFiniteSet(Clients)
ASSUME PatientAssumption == Patient \subseteq Clients
ASSUME OpsAssumption == Ops \subseteq AllOps
ASSUME SizesAssumption == QueueSize \in Nat \ {0} /\ MailboxSize \in Nat \ {0}
ASSUME BoundsAssumption == MaxActors \in Nat /\ MaxRequests \in [Clients -> Nat]

VARIABLES
    queue,          \* the channel of the dispatcher
    reactive_list,  \* MpscDispatcher::reactive_list: id -> version of the behavior
    next_actor_id,  \* generate_actor_id()
    pc,             \* where the dispatcher thread is
    stop,           \* the StopDispatcher request being executed: {} or a singleton
    kept,           \* requests that behaviors took and did not respond to, with the
                    \* version of the behavior
    mailbox,        \* [Clients -> queue of responses]
    client,         \* [Clients -> {"idle", "refused", "waiting", "panicked"}]
    call,           \* [Clients -> the last request made]
    \* History, read by the properties only:
    fate,           \* [Clients -> [request id -> what became of the request]]
    result,         \* [Clients -> what request_for returned last]
    owed,           \* requests queued behind StopDispatcher when it was taken
    acked           \* [actor id -> least version a client was told of]

dispVars == <<reactive_list, next_actor_id, pc, stop, owed>>
clientVars == <<client, call, result, acked>>
vars == <<queue, reactive_list, next_actor_id, pc, stop, kept, mailbox, client, call,
          fate, result, owed, acked>>

ActorIds   == 1 .. MaxActors
INVALID    == 0                    \* INVALID_ACTOR_ID, the address Addr::INVALID
RequestIds == UNION {1 .. MaxRequests[c] : c \in Clients}
Requests   == [src : Clients, id : RequestIds, op : AllOps, dst : ActorIds \cup {INVALID}]
Responses  == [id : RequestIds, ok : BOOLEAN, version : Nat]
Fates == {"unsent", "queued", "refused", "taken", "answered", "mailbox full", "discarded",
          "panic", "ignored"}

\* request_for has been called and has not returned.
Busy == {"refused", "waiting"}

\* The version of a reactive that was unregistered or destroyed.
Gone == Cardinality(RequestIds) * Cardinality(Clients) + 2
Version(a) == IF a \in DOMAIN reactive_list THEN reactive_list[a] ELSE Gone

\* A response, with the version of the addressee at that time (0 if there is none).
OkResponse(r, version) == [id |-> r.id, ok |-> TRUE, version |-> version]
ErrResponse(r)         == [id |-> r.id, ok |-> FALSE, version |-> 0]

\* Between two requests a mailbox only keeps its last request id.
NoCall(id) == [id |-> id, op |-> "Work", dst |-> INVALID]
NoResult   == [own |-> 0, from |-> 0, ok |-> FALSE]

Init ==
    /\ queue = <<>>
    /\ reactive_list = [a \in {} |-> 0]
    /\ next_actor_id = 1
    /\ pc = "serve"
    /\ stop = {}
    /\ kept = {}
    /\ mailbox = [c \in Clients |-> <<>>]
    /\ client = [c \in Clients |-> "idle"]
    /\ call = [c \in Clients |-> NoCall(0)]
    /\ fate = [c \in Clients |-> [i \in RequestIds |-> "unsent"]]
    /\ result = [c \in Clients |-> NoResult]
    /\ owed = {}
    /\ acked = [a \in ActorIds |-> 0]

-------------------------------------------------------------------------------
(* Messages.                                                               *)

HasRoom(c) == client[c] # "panicked" /\ Len(mailbox[c]) < MailboxSize

\* ActiveAddr::receive_ok_response and receive_err_response, called with the result
\* ignored: without room in the mailbox the response is lost.
Answer(r, response) ==
    IF HasRoom(r.src)
    THEN /\ mailbox' = [mailbox EXCEPT ![r.src] = Append(@, response)]
         /\ fate' = [fate EXCEPT ![r.src][r.id] = "answered"]
    ELSE /\ fate' = [fate EXCEPT ![r.src][r.id] = "mailbox full"]
         /\ UNCHANGED mailbox

NoAnswer(r, why) ==
    /\ fate' = [fate EXCEPT ![r.src][r.id] = why]
    /\ UNCHANGED mailbox

-------------------------------------------------------------------------------
(* The dispatcher thread.                                                  *)

Serving(r) ==
    /\ pc = "serve"
    /\ queue' = Tail(queue)

\* The request is with the behavior now.
Keep(r) ==
    /\ kept' = kept \cup {[request |-> r, version |-> reactive_list[r.dst]]}
    /\ NoAnswer(r, "taken")

\* process_current_message, a reactive with this id is registered.
ServeWork(r) ==
    /\ Serving(r)
    /\ r.op = "Work"
    /\ r.dst \in DOMAIN reactive_list
    /\ Keep(r)
    /\ UNCHANGED <<dispVars, clientVars>>

\* send_response, in process_message or any time later, by the behavior or by whom it
\* passed the request on to.
Respond(k) ==
    /\ Answer(k.request, OkResponse(k.request, k.version))
    /\ kept' = kept \ {k}
    /\ UNCHANGED <<queue, dispVars, clientVars>>

\* Mutant of ServeUnknown: the request is dropped as a notification would be.
ServeUnknownSilently(r) ==
    /\ Serving(r)
    /\ r.op = "Work"
    /\ r.dst \notin DOMAIN reactive_list
    /\ UNCHANGED <<dispVars, kept, clientVars, mailbox, fate>>

\* ... and none is.
ServeUnknown(r) ==
    /\ Serving(r)
    /\ r.op = "Work"
    /\ r.dst \notin DOMAIN reactive_list
    /\ Answer(r, ErrResponse(r))
    /\ UNCHANGED <<dispVars, kept, clientVars>>

\* The behavior panics: the dispatcher is dropped while the thread unwinds.
BehaviorPanics(r) ==
    /\ Serving(r)
    /\ r.op = "Work"
    /\ r.dst \in DOMAIN reactive_list
    /\ pc' = "drop"
    /\ Keep(r)
    /\ UNCHANGED <<reactive_list, next_actor_id, stop, owed, clientVars>>

\* So it is when the function of an ExecuteFn panics.
FunctionPanics(r) ==
    /\ Serving(r)
    /\ r.op \in ExecuteFnOps
    /\ pc' = "drop"
    /\ NoAnswer(r, "panic")
    /\ UNCHANGED <<reactive_list, next_actor_id, stop, kept, owed, clientVars>>

\* Mutant of GenerateActorId: the id of an unregistered reactive is used again.
ReuseActorId == CHOOSE a \in 1 .. next_actor_id : a \notin DOMAIN reactive_list

\* generate_actor_id
GenerateActorId == next_actor_id

\* register_reactive: the list with a new behavior.
WithReactive(id) ==
    [a \in DOMAIN reactive_list \cup {id} |-> IF a = id THEN 1 ELSE reactive_list[a]]

\* unregister_reactive_by_id
WithoutReactive(id) == [a \in DOMAIN reactive_list \ {id} |-> reactive_list[a]]

\* replace_reactive_by_id gives the new behavior back when there is none to replace.
WithReplaced(id) ==
    IF id \in DOMAIN reactive_list
    THEN [reactive_list EXCEPT ![id] = @ + 1]
    ELSE reactive_list

ServeRegister(r) ==
    /\ Serving(r)
    /\ r.op = "RegisterReactive"
    /\ reactive_list' = WithReactive(GenerateActorId)
    /\ next_actor_id' = next_actor_id + 1
    /\ Answer(r, OkResponse(r, 0))
    /\ UNCHANGED <<pc, stop, kept, owed, clientVars>>

\* ExecuteFn with the function of replace_reactive_for; its result is 0 for Err(()).
ServeReplace(r) ==
    /\ Serving(r)
    /\ r.op = "Replace"
    /\ reactive_list' = WithReplaced(r.dst)
    /\ Answer(r, OkResponse(r, IF r.dst \in DOMAIN reactive_list
                                THEN reactive_list'[r.dst] ELSE 0))
    /\ UNCHANGED <<next_actor_id, pc, stop, kept, owed, clientVars>>

\* ExecuteFn with a function that calls unregister_reactive.
ServeUnregister(r) ==
    /\ Serving(r)
    /\ r.op = "Unregister"
    /\ reactive_list' = WithoutReactive(r.dst)
    /\ Answer(r, OkResponse(r, Gone))
    /\ UNCHANGED <<next_actor_id, pc, stop, kept, owed, clientVars>>

\* The deprecated Request::StopReactive has no effect and no response.
ServeStopReactive(r) ==
    /\ Serving(r)
    /\ r.op = "StopReactive"
    /\ NoAnswer(r, "ignored")
    /\ UNCHANGED <<dispVars, kept, clientVars>>

\* Mutant of ServeStop: the response is also sent before the queue is emptied.
ServeStopAnswersFirst(r) ==
    /\ Serving(r)
    /\ r.op = "StopDispatcher"
    /\ stop' = {r}
    /\ pc' = "drain"
    /\ owed' = {queue'[i] : i \in 1 .. Len(queue')}
    /\ Answer(r, OkResponse(r, 0))
    /\ UNCHANGED <<reactive_list, next_actor_id, kept, clientVars>>

\* StopDispatcher: the queue is emptied first ...
ServeStop(r) ==
    /\ Serving(r)
    /\ r.op = "StopDispatcher"
    /\ stop' = {r}
    /\ pc' = "drain"
    /\ owed' = {queue'[i] : i \in 1 .. Len(queue')}
    /\ UNCHANGED <<reactive_list, next_actor_id, kept, mailbox, fate, clientVars>>

\* Mutant of AfterDrain: the destructor starts over.
AfterDrainAgain == [drain |-> "clear", drop |-> "drain"]

\* Where drop_queued_messages goes when try_recv finds the queue empty.
AfterDrain == [drain |-> "clear", drop |-> "close"]

\* Mutant of DropQueued: the requests are thrown away.
DropSilently ==
    /\ pc \in DOMAIN AfterDrain
    /\ queue # <<>>
    /\ queue' = Tail(queue)
    /\ UNCHANGED <<dispVars, kept, clientVars, mailbox, fate>>

\* drop_queued_messages, one turn of its loop
DropQueued ==
    /\ pc \in DOMAIN AfterDrain
    /\ queue # <<>>
    /\ queue' = Tail(queue)
    /\ Answer(Head(queue), ErrResponse(Head(queue)))
    /\ UNCHANGED <<dispVars, kept, clientVars>>

\* Mutant of QueueDropped: a single message is dropped, if any.
QueueDroppedEarly ==
    /\ pc \in DOMAIN AfterDrain
    /\ pc' = AfterDrain[pc]
    /\ UNCHANGED <<queue, reactive_list, next_actor_id, stop, kept, owed, mailbox, fate,
                   clientVars>>

QueueDropped ==
    /\ pc \in DOMAIN AfterDrain
    /\ queue = <<>>
    /\ pc' = AfterDrain[pc]
    /\ UNCHANGED <<queue, reactive_list, next_actor_id, stop, kept, owed, mailbox, fate,
                   clientVars>>

\* ... then the behaviors are destroyed and the response is sent; process() returns.
FinishStop ==
    /\ pc = "clear"
    /\ reactive_list' = [a \in {} |-> 0]
    /\ \E r \in stop : Answer(r, OkResponse(r, 0))
    /\ stop' = {}
    /\ pc' = "drop"
    /\ UNCHANGED <<queue, next_actor_id, kept, owed, clientVars>>

\* The fields of the dropped dispatcher go: the behaviors (after a panic they are
\* still there), and the receiver with what was sent since Drop emptied the queue.
Close ==
    /\ pc = "close"
    /\ pc' = "ended"
    /\ reactive_list' = [a \in {} |-> 0]
    /\ queue' = <<>>
    /\ fate' = [c \in Clients |-> [i \in RequestIds |->
                    IF \E n \in 1 .. Len(queue) : queue[n].src = c /\ queue[n].id = i
                    THEN "discarded" ELSE fate[c][i]]]
    /\ UNCHANGED <<next_actor_id, stop, kept, owed, mailbox, clientVars>>

-------------------------------------------------------------------------------
(* The clients: ActiveMailbox::request_for and the functions of            *)
(* SyncAccessor above it.                                                  *)

\* The address is Addr::INVALID; a request for the dispatcher itself is never sent there.
ToInvalid(r) == r.op = "Work" /\ r.dst = INVALID

\* Mutant of SendRequest: the queue has no limit.
SendUnbounded(r) ==
    IF ToInvalid(r) \/ pc = "ended"
    THEN /\ fate' = [fate EXCEPT ![r.src][r.id] = "refused"]
         /\ client' = [client EXCEPT ![r.src] = "refused"]
         /\ UNCHANGED queue
    ELSE /\ queue' = Append(queue, r)
         /\ fate' = [fate EXCEPT ![r.src][r.id] = "queued"]
         /\ client' = [client EXCEPT ![r.src] = "waiting"]

\* Addr::receive_request: the address may be INVALID, the queue full or closed, ...
SendRequest(r) ==
    IF \/ ToInvalid(r)
       \/ pc = "ended"
       \/ Len(queue) >= QueueSize
    THEN /\ fate' = [fate EXCEPT ![r.src][r.id] = "refused"]
         /\ client' = [client EXCEPT ![r.src] = "refused"]
         /\ UNCHANGED queue
    ELSE /\ queue' = Append(queue, r)
         /\ fate' = [fate EXCEPT ![r.src][r.id] = "queued"]
         /\ client' = [client EXCEPT ![r.src] = "waiting"]

Call(c) == [src |-> c, id |-> call[c].id, op |-> call[c].op, dst |-> call[c].dst]

\* ... and then the client itself sends an error response into its own mailbox.
AnswerRefused(c) ==
    /\ client[c] = "refused"
    /\ Answer(Call(c), ErrResponse(Call(c)))
    /\ client' = [client EXCEPT ![c] = "waiting"]
    /\ UNCHANGED <<queue, dispVars, kept, call, result, acked>>

\* An address can be used by any client once the reactive is registered.
Targets(op) ==
    IF op \in DispatcherOps THEN {INVALID}
    ELSE {a \in ActorIds : a < next_actor_id} \cup (IF op = "Work" THEN {INVALID} ELSE {})

QueuedRegistrations == {n \in 1 .. Len(queue) : queue[n].op = "RegisterReactive"}

Request(c, op, dst) ==
    /\ client[c] = "idle"
    /\ call[c].id < MaxRequests[c]
    /\ op = "RegisterReactive" => next_actor_id + Cardinality(QueuedRegistrations) <= MaxActors
    /\ LET r == [src |-> c, id |-> call[c].id + 1, op |-> op, dst |-> dst]
       IN  /\ SendRequest(r)
           /\ call' = [call EXCEPT ![c] = [id |-> r.id, op |-> op, dst |-> dst]]
    /\ result' = [result EXCEPT ![c] = NoResult]
    /\ UNCHANGED <<dispVars, kept, mailbox, acked>>

\* request_for returns; execute_fn panics on any error it returns.
ReturnFrom(c, from, ok) ==
    /\ client' = [client EXCEPT ![c] =
                    IF ~ok /\ call[c].op \in ExecuteFnOps THEN "panicked" ELSE "idle"]
    /\ result' = [result EXCEPT ![c] = [own |-> call[c].id, from |-> from, ok |-> ok]]
    /\ call' = [call EXCEPT ![c] = NoCall(@.id)]

\* The client learns which version of a behavior its addressee has by now.
Acknowledge(c, version) ==
    LET a == call[c].dst
    IN  acked' = IF a # INVALID /\ version > acked[a]
                 THEN [acked EXCEPT ![a] = version] ELSE acked

IsOwn(c, response) == response.id = call[c].id

\* A response is received: an ok one is returned if it has the id of the request and
\* is passed over if not, an error is returned whichever request it is about.
ReceiveResponse(c) ==
    /\ client[c] = "waiting"
    /\ mailbox[c] # <<>>
    /\ mailbox' = [mailbox EXCEPT ![c] = Tail(@)]
    /\ LET response == Head(mailbox[c])
       IN  \/ /\ response.ok /\ IsOwn(c, response)
              /\ ReturnFrom(c, response.id, TRUE)
              /\ Acknowledge(c, response.version)
           \/ /\ response.ok /\ ~IsOwn(c, response)
              /\ UNCHANGED <<client, call, result, acked>>
           \/ /\ ~response.ok
              /\ ReturnFrom(c, response.id, FALSE)
              /\ UNCHANGED acked
    /\ UNCHANGED <<queue, dispVars, kept, fate>>

\* Mutant of Timeout: the time is looked at before the mailbox.
TimeoutFirst(c) ==
    /\ client[c] = "waiting"
    /\ c \notin Patient
    /\ ReturnFrom(c, call[c].id, FALSE)
    /\ UNCHANGED <<queue, dispVars, kept, mailbox, fate, acked>>

\* recv_timeout gives up.
Timeout(c) ==
    /\ client[c] = "waiting"
    /\ c \notin Patient
    /\ mailbox[c] = <<>>
    /\ ReturnFrom(c, call[c].id, FALSE)
    /\ UNCHANGED <<queue, dispVars, kept, mailbox, fate, acked>>

-------------------------------------------------------------------------------

Serve(r) ==
    \/ ServeWork(r) \/ ServeUnknown(r) \/ BehaviorPanics(r) \/ FunctionPanics(r)
    \/ ServeRegister(r) \/ ServeReplace(r) \/ ServeUnregister(r)
    \/ ServeStopReactive(r) \/ ServeStop(r)

DispatcherStep ==
    \/ queue # <<>> /\ Serve(Head(queue))
    \/ DropQueued
    \/ QueueDropped
    \/ FinishStop
    \/ Close

\* The dispatcher is gone and every client has made its requests or is stuck.
Done ==
    /\ \A c \in Clients : \/ client[c] = "idle" /\ call[c].id = MaxRequests[c]
                          \/ client[c] = "panicked"
                          \/ client[c] = "waiting" /\ c \in Patient /\ mailbox[c] = <<>>
    /\ UNCHANGED vars

Next ==
    \/ DispatcherStep
    \/ \E k \in kept : Respond(k)
    \/ \E c \in Clients :
        \/ \E op \in Ops : \E dst \in Targets(op) : Request(c, op, dst)
        \/ AnswerRefused(c)
        \/ ReceiveResponse(c)
        \/ Timeout(c)
    \/ Done

Spec == Init /\ [][Next]_vars

\* The threads of the dispatcher and of the clients keep running.  Nothing makes a
\* behavior respond.
Fairness ==
    /\ WF_vars(DispatcherStep)
    /\ \A c \in Clients :
        WF_vars(AnswerRefused(c)) /\ WF_vars(ReceiveResponse(c)) /\ WF_vars(Timeout(c))

FairSpec == Spec /\ Fairness

-------------------------------------------------------------------------------
(* Properties.                                                             *)

TypeOK ==
    /\ queue \in Seq(Requests) /\ Len(queue) <= QueueSize
    /\ DOMAIN reactive_list \subseteq ActorIds
    /\ \A a \in DOMAIN reactive_list : reactive_list[a] \in 1 .. Gone - 1
    /\ next_actor_id \in 1 .. MaxActors + 1
    /\ pc \in {"serve", "drain", "clear", "drop", "close", "ended"}
    /\ stop \subseteq Requests
    /\ kept \subseteq [request : Requests, version : 1 .. Gone - 1]
    /\ \A c \in Clients : mailbox[c] \in Seq(Responses) /\ Len(mailbox[c]) <= MailboxSize
    /\ client \in [Clients -> {"idle", "panicked"} \cup Busy]
    /\ call \in [Clients -> [id : {0} \cup RequestIds, op : AllOps, dst : ActorIds \cup {INVALID}]]
    /\ fate \in [Clients -> [RequestIds -> Fates]]
    /\ result \in [Clients -> [own : {0} \cup RequestIds, from : {0} \cup RequestIds, ok : BOOLEAN]]
    /\ owed \subseteq Requests
    /\ acked \in [ActorIds -> 0 .. Gone]

\* The places where the request i of c is, or its answer is.
QueuePlaces(c, i)   == {n \in 1 .. Len(queue) : queue[n].src = c /\ queue[n].id = i}
StopPlaces(c, i)    == {r \in stop : r.src = c /\ r.id = i}
KeptPlaces(c, i)    == {k \in kept : k.request.src = c /\ k.request.id = i}
MailboxPlaces(c, i) == {n \in 1 .. Len(mailbox[c]) : mailbox[c][n].id = i}

\* No request vanishes and none is answered twice: an unanswered request is in the
\* queue, is the StopDispatcher being executed, or is with a behavior, once and in one
\* place only, and a response is in a mailbox only for an answered request, once.
RequestInOnePlace ==
    \A c \in Clients, i \in RequestIds :
        /\ Cardinality(QueuePlaces(c, i)) + Cardinality(StopPlaces(c, i))
               = (IF fate[c][i] = "queued" THEN 1 ELSE 0)
        /\ Cardinality(KeptPlaces(c, i)) = (IF fate[c][i] = "taken" THEN 1 ELSE 0)
        /\ Cardinality(MailboxPlaces(c, i)) <= (IF fate[c][i] = "answered" THEN 1 ELSE 0)

\* "All Request not processed are responded [...]. Then all registered behavior are
\* destroyed. Finally a Response::StopDispatcher is sent": when that response is
\* sent, whatever was queued behind the request has been settled, and no behavior
\* is left.
StopOrder ==
    [][stop # {} /\ stop' = {} =>
        /\ \A r \in owed : fate[r.src][r.id] # "queued"
        /\ DOMAIN reactive_list' = {}]_vars

\* What a client was told stays true: a reactive reported as unregistered is never
\* reached again through any copy of its address, and one reported as replaced
\* answers with the new behavior; ids are not used twice.
EffectsLast == \A a \in ActorIds : acked[a] <= Version(a)

\* A client that never gives up never loses a response to its own full mailbox, even
\* one with room for a single message (the size SyncAccessor gives it).
PatientMailboxHasRoom ==
    \A c \in Patient, i \in RequestIds : fate[c][i] # "mailbox full"

InSeq(s) == {s[n] : n \in 1 .. Len(s)}

\* What a request is to its client, by where it or its answer is now.
Awaited(c) == IF client[c] \in Busy THEN call[c].id ELSE 0
Unanswered == InSeq(queue) \cup stop \cup {k.request : k \in kept}
              \cup {Call(c) : c \in {d \in Clients : client[d] = "refused"}}
Status(c, i) ==
    IF i > call[c].id THEN "unsent"
    ELSE IF \E r \in Unanswered : r.src = c /\ r.id = i THEN "open"
    ELSE IF \E r \in InSeq(mailbox[c]) : r.id = i /\ r.ok THEN "ok"
    ELSE IF \E r \in InSeq(mailbox[c]) : r.id = i /\ ~r.ok THEN "error"
    ELSE "closed"

Promise == INSTANCE RequestReply
    WITH Ids <- RequestIds, Droppable <- {},
         current <- [c \in Clients |-> Awaited(c)],
         status <- [c \in Clients |-> [i \in RequestIds |-> Status(c, i)]]

\* Requests to a dispatcher and its reactives keep the promise of RequestReply, through
\* queue, behavior, drain, drop and mailbox: one answer each, none from nowhere, none that
\* comes back; an ok result is the client's own, whatever late responses are still in the
\* mailbox, and no client gives up with its answer there.
KeepsPromise == Promise!Spec

\* A client that waits without limit gets its result, unless a behavior took the request
\* and does not respond, or the request was thrown away: by the closing channel, by a
\* function that panics, or as StopReactive.
PatientReturns ==
    \A c \in Patient, i \in RequestIds :
        client[c] = "waiting" /\ call[c].id = i ~>
            \/ client[c] # "waiting" \/ call[c].id # i
            \/ fate[c][i] \in {"taken", "discarded", "panic", "ignored"}

\* A dispatcher that took StopDispatcher ends, and its thread can be joined.
StopEnds == pc # "serve" ~> pc = "ended"

-------------------------------------------------------------------------------
(* What documentation says, and the code does not do.                      *)

\* "All Request not processed are responded with a Error::ActorDisappeared."
AllResponded == \A c \in Clients, i \in RequestIds : fate[c][i] # "discarded"

\* RequestId: "Identifier of a request that allows to drop response not part of the
\* transaction", so what request_for returns is about the request it made.
ErrorIsOwn == \A c \in Clients : result[c].from = result[c].own
===============================================================================
