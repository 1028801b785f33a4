------------------------------- MODULE Mailbox --------------------------------
(***************************************************************************)
(* ActiveMailbox and AsyncMailbox: a bounded channel, a list of messages   *)
(* that request_for took out of it and set aside, and the owner that       *)
(* requests, receives and responds.  The owners of several mailboxes talk  *)
(* to each other, other threads send them notifications.                   *)
(*                                                                         *)
(* The two differ in their channel and in the error that reports the end   *)
(* of the time; a request_for of an AsyncMailbox is a future, which its    *)
(* owner can also drop while it waits.                                     *)
(***************************************************************************)
EXTENDS Integers, Sequences, FiniteSets

CONSTANTS Mailboxes,
          Async,            \* the AsyncMailboxes among them
          Limited,          \* those whose owners do not wait with Duration::MAX
          Types,            \* the types of responses: T of responds
          Asked,            \* those each owner makes requests with: TResponse of request_for
          QueueSize,        \* capacity given to new()
          MaxRequests,      \* bound: how many requests each owner makes
          MaxNotifications  \* bound: how many notifications each mailbox accepts

ASSUME KindsAssumption == Async \subseteq Mailboxes /\ Limited \subseteq Mailboxes
ASSUME TypesAssumption == Types # {}
ASSUME AskedAssumption == Asked \in [Mailboxes -> SUBSET Types]
ASSUME QueueSizeAssumption == QueueSize \in Nat \ {0}
ASSUME BoundsAssumption ==
    MaxRequests \in [Mailboxes -> Nat] /\ MaxNotifications \in [Mailboxes -> Nat]

VARIABLES channel,       \* [Mailboxes -> queue of messages]
          message_list,  \* [Mailboxes -> messages set aside by request_for]
          open,          \* the mailboxes that still exist
          call,          \* [Mailboxes -> the last request and whether it is waited for]
          held,          \* [Mailboxes -> requests the owner took and did not respond to]
          accepted,      \* [Mailboxes -> number of notifications that were accepted]
          \* History, read by the properties only:
          taken,         \* [open mailboxes -> notifications and responses handed to the
                         \* owner, and responses that request_for passed over]
          fate           \* [Mailboxes -> [request id -> what became of the request]]

vars == <<channel, message_list, open, call, held, accepted, taken, fate>>

UpTo(bound) == UNION {1 .. bound[m] : m \in Mailboxes}
RequestIds == UpTo(MaxRequests)
Requests == [kind : {"Request"}, src : Mailboxes, id : RequestIds, type : Types]
Responses == [kind : {"Response"}, id : RequestIds, type : Types, ok : BOOLEAN]
Notifications == [kind : {"Notification"}, n : UpTo(MaxNotifications)]
Messages == Requests \cup Responses \cup Notifications
Fates == {"unsent", "asked", "answered", "mistyped", "refused", "dropped"}
\* There was a response; a "mistyped" one is of another type than the request was made with.
Responded == {"answered", "mistyped"}

Notification(n) == [kind |-> "Notification", n |-> n]
\* An error has no data, its type is that of the request.
OkResponse(r, type) == [kind |-> "Response", id |-> r.id, type |-> type, ok |-> TRUE]
ErrResponse(r) == [kind |-> "Response", id |-> r.id, type |-> r.type, ok |-> FALSE]

\* Between two requests a mailbox only keeps its last request id.
NoCall(id) == [id |-> id, type |-> CHOOSE type \in Types : TRUE, waiting |-> FALSE]

Init ==
    /\ channel = [m \in Mailboxes |-> <<>>]
    /\ message_list = [m \in Mailboxes |-> <<>>]
    /\ open = Mailboxes
    /\ call = [m \in Mailboxes |-> NoCall(0)]
    /\ held = [m \in Mailboxes |-> {}]
    /\ accepted = [m \in Mailboxes |-> 0]
    /\ taken = [m \in Mailboxes |-> {}]
    /\ fate = [m \in Mailboxes |-> [i \in RequestIds |-> "unsent"]]

Idle(m) == m \in open /\ ~call[m].waiting

-------------------------------------------------------------------------------
(* Sending.                                                                *)

\* Mutant of Accepts: a channel without a capacity.
AcceptsAlways(m) == m \in open

\* try_send: the channel is neither closed nor full.
Accepts(m) == m \in open /\ Len(channel[m]) < QueueSize

Deliver(m, message) == channel' = [channel EXCEPT ![m] = Append(@, message)]

Settle(r, how) == fate' = [fate EXCEPT ![r.src][r.id] = how]

\* receive_ok_response and receive_err_response: a response that finds no room is lost.
\* Nothing keeps an ok response from having another type than the requester waits for.
Answer(r, response) ==
    IF Accepts(r.src)
    THEN /\ Deliver(r.src, response)
         /\ Settle(r, IF response.type = r.type THEN "answered" ELSE "mistyped")
    ELSE UNCHANGED channel /\ Settle(r, "refused")

\* receive_notification
Notify(m) ==
    /\ Accepts(m)
    /\ accepted[m] < MaxNotifications[m]
    /\ accepted' = [accepted EXCEPT ![m] = @ + 1]
    /\ Deliver(m, Notification(accepted'[m]))
    /\ UNCHANGED <<message_list, open, call, held, taken, fate>>

\* receive_request: what the addressee does not accept is answered with an error, by
\* the sender to itself.
SendRequest(dst, r) ==
    IF Accepts(dst)
    THEN Deliver(dst, r) /\ Settle(r, "asked")
    ELSE Answer(r, ErrResponse(r))

-------------------------------------------------------------------------------
(* request_for.                                                            *)

RequestFor(m, dst, type) ==
    /\ Idle(m)
    /\ call[m].id < MaxRequests[m]
    /\ call' = [call EXCEPT ![m] = [id |-> @.id + 1, type |-> type, waiting |-> TRUE]]
    /\ SendRequest(dst, [kind |-> "Request", src |-> m, id |-> call'[m].id, type |-> type])
    /\ UNCHANGED <<message_list, open, held, accepted, taken>>

Returns(m) == call' = [call EXCEPT ![m] = NoCall(@.id)]

\* Mutant of IsForCall: an error is taken for a response of another type.
IsOkForCall(m, message) ==
    message.kind = "Response" /\ message.ok /\ message.type = call[m].type

\* A response with Err, or with Ok data that can be downcast to TResponse: it is
\* never set aside.
IsForCall(m, message) ==
    message.kind = "Response" /\ (message.ok => message.type = call[m].type)

\* Mutant of SetAside: only a response is set aside, anything else is forgotten.
SetAsideResponse(m, message) ==
    IF message.kind = "Response"
    THEN message_list' = [message_list EXCEPT ![m] = Append(@, message)]
    ELSE UNCHANGED message_list

\* message_list.push_back
SetAside(m, message) == message_list' = [message_list EXCEPT ![m] = Append(@, message)]

Receive(m) == channel' = [channel EXCEPT ![m] = Tail(@)]

\* One turn of the loop: the response, an error (of any request), ...
ReceiveResult(m) ==
    /\ call[m].waiting
    /\ channel[m] # <<>>
    /\ LET message == Head(channel[m])
       IN  /\ IsForCall(m, message)
           /\ message.ok => message.id = call[m].id
           /\ taken' = [taken EXCEPT ![m] = @ \cup {message}]
    /\ Receive(m)
    /\ Returns(m)
    /\ UNCHANGED <<message_list, open, held, accepted, fate>>

\* ... the late response to an earlier request, which is passed over, ...
ReceiveLate(m) ==
    /\ call[m].waiting
    /\ channel[m] # <<>>
    /\ LET message == Head(channel[m])
       IN  /\ IsForCall(m, message)
           /\ message.ok /\ message.id # call[m].id
           /\ taken' = [taken EXCEPT ![m] = @ \cup {message}]
    /\ Receive(m)
    /\ UNCHANGED <<message_list, open, call, held, accepted, fate>>

\* ... or anything else.
ReceiveOther(m) ==
    /\ call[m].waiting
    /\ channel[m] # <<>>
    /\ ~IsForCall(m, Head(channel[m]))
    /\ SetAside(m, Head(channel[m]))
    /\ Receive(m)
    /\ UNCHANGED <<open, call, held, accepted, taken, fate>>

\* Mutant of GiveUp: the time is not over while messages are set aside.
GiveUpWithoutAside(m) ==
    /\ call[m].waiting
    /\ m \in Limited
    /\ channel[m] = <<>>
    /\ message_list[m] = <<>>
    /\ Returns(m)
    /\ UNCHANGED <<channel, message_list, open, held, accepted, taken, fate>>

\* Mutant of GiveUp: the time is looked at before the channel.
GiveUpFirst(m) ==
    /\ call[m].waiting
    /\ m \in Limited
    /\ Returns(m)
    /\ UNCHANGED <<channel, message_list, open, held, accepted, taken, fate>>

\* recv_timeout gives up.
GiveUp(m) ==
    /\ call[m].waiting
    /\ m \in Limited
    /\ channel[m] = <<>>
    /\ Returns(m)
    /\ UNCHANGED <<channel, message_list, open, held, accepted, taken, fate>>

\* The future is dropped at its await.
Cancel(m) ==
    /\ call[m].waiting
    /\ m \in Async
    /\ Returns(m)
    /\ UNCHANGED <<channel, message_list, open, held, accepted, taken, fate>>

-------------------------------------------------------------------------------
(* The other functions of the owner.                                       *)

Hand(m, message) ==
    IF message.kind = "Request"
    THEN held' = [held EXCEPT ![m] = @ \cup {message}] /\ UNCHANGED taken
    ELSE taken' = [taken EXCEPT ![m] = @ \cup {message}] /\ UNCHANGED held

\* What pop_back leaves.
Rest(s) == SubSeq(s, 1, Len(s) - 1)

\* try_get_message, wait_message and wait_message_for: first the list, from its back, ...
GetAside(m) ==
    /\ Idle(m)
    /\ message_list[m] # <<>>
    /\ message_list' = [message_list EXCEPT ![m] = Rest(@)]
    /\ Hand(m, message_list[m][Len(message_list[m])])
    /\ UNCHANGED <<channel, open, call, accepted, fate>>

\* Mutant of GetNext: the channel is looked at first.
GetNextFirst(m) ==
    /\ Idle(m)
    /\ channel[m] # <<>>
    /\ Receive(m)
    /\ Hand(m, Head(channel[m]))
    /\ UNCHANGED <<message_list, open, call, accepted, fate>>

\* ... then the channel.  With nothing in either they return an error or wait.
GetNext(m) ==
    /\ Idle(m)
    /\ message_list[m] = <<>>
    /\ channel[m] # <<>>
    /\ Receive(m)
    /\ Hand(m, Head(channel[m]))
    /\ UNCHANGED <<message_list, open, call, accepted, fate>>

\* responds consumes the request, also when the response finds no room.
Responds(m, r, type) ==
    /\ Idle(m)
    /\ held' = [held EXCEPT ![m] = @ \ {r}]
    /\ Answer(r, OkResponse(r, type))
    /\ UNCHANGED <<message_list, open, call, accepted, taken>>

InSeq(s) == {s[i] : i \in 1 .. Len(s)}

\* The requests that nobody responded to yet.
Unanswered(m) == held[m] \cup ((InSeq(channel[m]) \cup InSeq(message_list[m])) \cap Requests)

\* The mailbox is dropped, with the requests in it: nobody responds to them.
Drop(m) ==
    /\ Idle(m)
    /\ open' = open \ {m}
    /\ channel' = [channel EXCEPT ![m] = <<>>]
    /\ message_list' = [message_list EXCEPT ![m] = <<>>]
    /\ held' = [held EXCEPT ![m] = {}]
    /\ fate' = [c \in Mailboxes |-> [i \in RequestIds |->
                    IF \E r \in Unanswered(m) : r.src = c /\ r.id = i
                    THEN "dropped" ELSE fate[c][i]]]
    /\ taken' = [taken EXCEPT ![m] = {}]
    /\ UNCHANGED <<call, accepted>>

-------------------------------------------------------------------------------

Waiting(m) == ReceiveResult(m) \/ ReceiveLate(m) \/ ReceiveOther(m) \/ GiveUp(m)

Next ==
    \E m \in Mailboxes :
        \/ Notify(m)
        \/ \E dst \in Mailboxes, type \in Asked[m] : RequestFor(m, dst, type)
        \/ Waiting(m)
        \/ Cancel(m)
        \/ GetAside(m)
        \/ GetNext(m)
        \/ \E r \in held[m], type \in Types : Responds(m, r, type)
        \/ Drop(m)

Spec == Init /\ [][Next]_vars

\* An owner in request_for takes what arrives, and gives up when the time is over.
\* Whether it looks at its messages otherwise, and responds, is up to the program.
Fairness == \A m \in Mailboxes : WF_vars(Waiting(m))

FairSpec == Spec /\ Fairness

-------------------------------------------------------------------------------
(* Properties.                                                             *)

TypeOK ==
    /\ channel \in [Mailboxes -> Seq(Messages)]
    /\ \A m \in Mailboxes : Len(channel[m]) <= QueueSize
    /\ message_list \in [Mailboxes -> Seq(Messages)]
    /\ open \subseteq Mailboxes
    /\ call \in [Mailboxes -> [id : {0} \cup RequestIds, type : Types, waiting : BOOLEAN]]
    /\ held \in [Mailboxes -> SUBSET Requests]
    /\ accepted \in [Mailboxes -> {0} \cup UpTo(MaxNotifications)]
    /\ taken \in [Mailboxes -> SUBSET (Responses \cup Notifications)]
    /\ fate \in [Mailboxes -> [RequestIds -> Fates]]

Positions(s, x) == {i \in 1 .. Len(s) : s[i] = x}

\* How often x is on its way to the owner of m, or with it.
Copies(m, x) ==
    Cardinality(Positions(channel[m], x)) + Cardinality(Positions(message_list[m], x))
    + (IF x \in held[m] \cup taken[m] THEN 1 ELSE 0)

NotificationsOf(m) == {Notification(n) : n \in 1 .. accepted[m]}
\* The request i of c may be with any mailbox, the response to it with c only.
RequestCopies(c, i) ==
    {p \in Mailboxes \X Requests : p[2].src = c /\ p[2].id = i /\ Copies(p[1], p[2]) > 0}
ResponseCopies(c, i) == {r \in Responses : r.id = i /\ Copies(c, r) > 0}

\* Nothing that a mailbox accepted is lost or handed over twice while it exists,
\* however request_for, the list and the channel pass it on: not a notification, not a
\* request that waits for its response, not a response.
EachMessageOnce ==
    /\ \A m \in open : \A x \in NotificationsOf(m) : Copies(m, x) = 1
    /\ \A c \in Mailboxes, i \in RequestIds :
        /\ Cardinality(RequestCopies(c, i)) = (IF fate[c][i] = "asked" THEN 1 ELSE 0)
        /\ c \in open =>
               Cardinality(ResponseCopies(c, i))
                   = (IF fate[c][i] \in Responded THEN 1 ELSE 0)
    /\ \A m \in Mailboxes : \A x \in InSeq(channel[m]) \cup InSeq(message_list[m]) :
           Copies(m, x) = 1

\* The response to the request that request_for waits for, an error or an ok one of the
\* awaited type, is never set aside and never passed over: once it was sent successfully
\* it is found in the channel.
AnswerNotMissed ==
    \A m \in Mailboxes :
        call[m].waiting /\ fate[m][call[m].id] = "answered" =>
            \E x \in InSeq(channel[m]) :
                x.kind = "Response" /\ x.id = call[m].id /\ (x.ok => x.type = call[m].type)

\* What was set aside is newest first, but otherwise the order of arrival is kept: a
\* notification overtakes an older one only when both had been set aside.
OvertakesOnlyAside ==
    [][\A m \in open :
        \A x \in (taken'[m] \ taken[m]) \cap Notifications, y \in NotificationsOf(m) :
            y.n < x.n /\ y \notin taken[m] =>
                {x, y} \subseteq InSeq(message_list[m])]_vars

ResponseWith(c, i, ok) ==
    \E x \in InSeq(channel[c]) \cup InSeq(message_list[c]) :
        x.kind = "Response" /\ x.id = i /\ x.ok = ok

\* What a request is to its owner: EachMessageOnce says where it is while it is "asked".
\* An ok response of another type is no answer to it.
Status(c, i) ==
    IF i > call[c].id THEN "unsent"
    ELSE IF fate[c][i] = "asked" THEN "open"
    ELSE IF fate[c][i] = "mistyped" THEN "closed"
    ELSE IF ResponseWith(c, i, TRUE) THEN "ok"
    ELSE IF ResponseWith(c, i, FALSE) THEN "error"
    ELSE "closed"

Promise == INSTANCE RequestReply
    WITH Clients <- Mailboxes, Ids <- RequestIds, Droppable <- Async,
         current <- [c \in Mailboxes |-> IF call[c].waiting THEN call[c].id ELSE 0],
         status <- [c \in Mailboxes |-> [i \in RequestIds |-> Status(c, i)]]

\* Requests between mailboxes keep the promise of RequestReply, through channels, lists,
\* the hands of the owners, futures and mailboxes that are dropped: one answer each and
\* none that comes back, an ok result is the owner's own, and the time of a request is
\* not over for an owner that has the response, unless it has another type.
KeepsPromise == Promise!Spec

\* A request_for with a time limit returns, also when the owners of two mailboxes wait
\* for each other or an owner waits for itself.
LimitedReturns == \A m \in Limited : call[m].waiting ~> ~call[m].waiting
===============================================================================
