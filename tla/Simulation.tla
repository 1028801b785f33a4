------------------------------ MODULE Simulation ------------------------------
(***************************************************************************)
(* SimulationDispatcher: the timers and the queue of a dispatcher whose    *)
(* loop runs inside the calls of one program, on a time of its own.  The   *)
(* loop handles all messages, then queues a mature Timeout, and only when  *)
(* there is none lets the time jump to the next deadline or to the end of  *)
(* the call.  Between the calls the time stands still.                     *)
(*                                                                         *)
(* The program processes until an instant, or with an ActiveMailbox, for   *)
(* which it waits for a message or makes a request; between the calls it   *)
(* may replace a behavior.  StopDispatcher ends a call and destroys the    *)
(* behaviors; the program may go on with what is left.                     *)
(*                                                                         *)
(* The handles, the list of timers and what behaviors do with them are     *)
(* those of Timers; its clock and its waiting (Tick, waitVars) have no     *)
(* part here.  Others may send while the program is anywhere in the loop,  *)
(* also between its looks at the queue, at the mailbox and at the time.    *)
(***************************************************************************)
EXTENDS Timers

CONSTANTS Ends,         \* instants given to process_until, active_request_until, ...
          Spans,        \* durations given to process_for, active_request_for, ...
          MailboxSize,  \* capacity of the program's ActiveMailbox
          MaxCalls,     \* bound: how many of these calls the program makes
          MaxSends      \* bound: how many notifications are sent

ASSUME SpansAssumption == Ends \subseteq Instants /\ Spans \subseteq Durations
ASSUME MailboxSizeAssumption == MailboxSize \in Nat \ {0}
ASSUME CallBoundsAssumption == MaxCalls \in Nat /\ MaxSends \in Nat

\* The ActiveMailbox has an address of its own.
Program == "program"
ASSUME ProgramAssumption == Program \notin Actors

VARIABLES call,               \* "process", "wait" or "request": the last call
          instant,            \* ... and when it ends
          message_processed,  \* whether a message was handled since the last check
          result,             \* what the last call returned, "none" while it runs
          request_id,         \* of the last request
          mailbox,            \* the channel of the ActiveMailbox
          reactive_list,      \* the actors that are registered
          held,               \* requests that behaviors took and did not respond to
          calls, sends,       \* counted for the bounds
          late,               \* history: messages sent since the queue was seen empty
          overdue             \* history: ids scheduled with a deadline in the past

callVars == <<call, instant, result, request_id, calls>>
actorVars == <<reactive_list, held>>
senderVars == <<sends, late, overdue>>
simVars == <<callVars, message_processed, mailbox, actorVars, senderVars>>
timerVars == <<timer, schedulerVars, tested, matched>>
allVars == <<vars, simVars>>

Request(id, dst) == [kind |-> "Request", id |-> id, dst |-> dst]
Response(id, ok) == [kind |-> "Response", id |-> id, ok |-> ok]
\* StopDispatcher; the id matters to the program only.
Stop(src, id) == [kind |-> "Stop", id |-> id, src |-> src]
Notice == [kind |-> "Notification"]

\* Timer::new
NewTimer == [id |-> 0, deadline |-> Infinity]

SimInit ==
    /\ now = 0
    /\ timer = [t \in Timers |-> NewTimer]
    /\ next_timeout_id = 0 /\ timeout_list = [k \in {} |-> 0] /\ schedulings = 0
    /\ queue = <<>>
    /\ pc = "outside" /\ msg = Notification(CHOOSE a \in Actors : TRUE)
    /\ duration = DurationMax /\ wake = Infinity /\ lost = 0
    /\ tested = {} /\ matched = {}
    /\ call = "process" /\ instant = 0 /\ result = "elapsed" /\ request_id = 0 /\ calls = 0
    /\ message_processed = FALSE
    /\ mailbox = <<>>
    /\ reactive_list = Actors
    /\ held = {}
    /\ sends = 0
    /\ late = 0
    /\ overdue = {}

-------------------------------------------------------------------------------
(* The calls of the program.                                               *)

\* The calls with a duration end at now + duration.
CallEnds == Ends \cup {Plus(now, d) : d \in Spans}

Begin(kind, end) ==
    /\ pc = "outside"
    /\ calls < MaxCalls
    /\ calls' = calls + 1
    /\ call' = kind
    /\ instant' = end
    /\ result' = "none"
    /\ pc' = "try"
    /\ UNCHANGED <<now, timerVars, waitVars, msg, message_processed, senderVars>>

Process(end) == Begin("process", end) /\ UNCHANGED <<queue, request_id, mailbox, actorVars>>

\* active_wait_message_until
WaitUntil(end) == Begin("wait", end) /\ UNCHANGED <<queue, request_id, mailbox, actorVars>>

\* Mutant of Post: a mailbox without a capacity.
PostAlways(ms) == mailbox' = mailbox \o ms

\* try_send to the ActiveMailbox, one message after the other: what finds no room is lost.
Post(ms) ==
    LET all == mailbox \o ms
    IN  mailbox' = SubSeq(all, 1, IF Len(all) < MailboxSize THEN Len(all) ELSE MailboxSize)

\* active_request_until: a request that finds no room in the queue of the dispatcher is
\* answered with an error in the mailbox.
RequestUntil(request, end) ==
    /\ Begin("request", end)
    /\ request_id' = request_id + 1
    /\ IF Len(queue) < QueueSize
       THEN queue' = Append(queue, request) /\ UNCHANGED mailbox
       ELSE Post(<<Response(request_id', FALSE)>>) /\ UNCHANGED queue
    /\ UNCHANGED actorVars

\* The requests of the program: to an actor, or to stop the dispatcher.
NextRequests ==
    {Request(request_id + 1, a) : a \in Actors} \cup {Stop(Program, request_id + 1)}

\* replace_reactive: the timers are the new behavior's own, the list keeps the entries of
\* the old one, and requests that it held are never answered.
Replace(a) ==
    /\ pc = "outside"
    /\ a \in reactive_list
    /\ calls < MaxCalls
    /\ timer' = [t \in Timers |-> IF Owner[t] = a THEN NewTimer ELSE timer[t]]
    /\ held' = {h \in held : h.dst # a}
    /\ UNCHANGED <<now, schedulerVars, queue, loopVars, tested, matched, callVars,
                   message_processed, mailbox, reactive_list, senderVars>>

-------------------------------------------------------------------------------
(* The loop of process_until_cond.                                         *)

\* try_process_message finds no message, ...
TryEmpty ==
    /\ pc = "try"
    /\ queue = <<>>
    /\ message_processed' = FALSE
    /\ late' = 0
    /\ pc' = "check"
    /\ UNCHANGED <<now, timerVars, queue, waitVars, msg, callVars, mailbox, actorVars,
                   sends, overdue>>

Taking == pc = "try" /\ queue # <<>>

\* ... or one for a behavior, ...
SimDispatch ==
    /\ Taking
    /\ Head(queue).kind # "Stop"
    /\ Head(queue).dst \in reactive_list
    /\ Dispatch
    /\ held' = held \cup (IF Head(queue).kind = "Request" THEN {Head(queue)} ELSE {})
    /\ UNCHANGED <<callVars, message_processed, mailbox, reactive_list, senderVars>>

\* ... or for none any more, which only a request gets an answer to, ...
DispatchToNone ==
    /\ Taking
    /\ Head(queue).kind # "Stop"
    /\ Head(queue).dst \notin reactive_list
    /\ queue' = Tail(queue)
    /\ IF Head(queue).kind = "Request"
       THEN Post(<<Response(Head(queue).id, FALSE)>>) ELSE UNCHANGED mailbox
    /\ message_processed' = TRUE
    /\ pc' = "check"
    /\ UNCHANGED <<now, timerVars, waitVars, msg, callVars, actorVars, senderVars>>

\* A message that is answered to the mailbox when it is dropped.  The error for the
\* StopDispatcher of a behavior goes into the queue that is being emptied.
IsOfProgram(m) == m.kind = "Request" \/ (m.kind = "Stop" /\ m.src = Program)

\* drop_queued_messages: the requests that are queued behind StopDispatcher.
Dropped ==
    LET dropped[n \in 0 .. Len(queue)] ==
            IF n <= 1 THEN <<>>
            ELSE IF IsOfProgram(queue[n]) THEN Append(dropped[n - 1], queue[n])
            ELSE dropped[n - 1]
    IN  dropped[Len(queue)]

\* Mutant of AfterStop: what break_func returns takes the place of the stop.
AfterStopGoOn == "check"

\* The loop is left after break_func was called once more.
AfterStop == "stop"

\* ... or StopDispatcher: the queue is emptied, the behaviors are destroyed, and the
\* response is sent, to the mailbox or to a behavior that is gone as well.
SimStop ==
    /\ Taking
    /\ Head(queue).kind = "Stop"
    /\ LET stop == Head(queue)
           errors == [n \in 1 .. Len(Dropped) |-> Response(Dropped[n].id, FALSE)]
       IN  IF stop.src = Program
           THEN queue' = <<>> /\ Post(Append(errors, Response(stop.id, TRUE)))
           ELSE queue' = <<Notification(stop.src)>> /\ Post(errors)
    /\ reactive_list' = {}
    /\ held' = {}
    /\ message_processed' = TRUE
    /\ pc' = AfterStop
    /\ UNCHANGED <<now, timerVars, waitVars, msg, callVars, senderVars>>

\* The behavior that got the message returns.
SimReturn ==
    /\ ReturnTo("check")
    /\ message_processed' = TRUE
    /\ UNCHANGED <<callVars, mailbox, actorVars, senderVars>>

ReturnWith(r) ==
    /\ pc' = "outside"
    /\ result' = r
    /\ message_processed' = FALSE
    /\ late' = 0
    /\ UNCHANGED <<now, timerVars, queue, waitVars, msg, call, instant, request_id, calls,
                   actorVars, sends, overdue>>

Takes == call # "process" /\ mailbox # <<>>

ResultOf(m) ==
    CASE call = "wait" -> "message"
      [] call = "request" /\ m.kind = "Response" ->
             IF m.id = request_id THEN "response" ELSE "NoMessage"
      [] OTHER -> "NoMessage"

\* try_get_message takes a message out of the mailbox: whatever it is, the call is over.
BreakWithMessage ==
    /\ pc \in {"check", "stop"}
    /\ Takes
    /\ mailbox' = Tail(mailbox)
    /\ ReturnWith(ResultOf(Head(mailbox)))

\* Mutant of NoMessage: the time may be looked at before the mailbox.
NoLook ==
    /\ pc = "check"
    /\ pc' = "cond"
    /\ UNCHANGED <<now, timerVars, queue, waitVars, msg, simVars>>

\* It finds none, and the break_func of the program is called, ...
NoMessage ==
    /\ pc = "check"
    /\ ~Takes
    /\ pc' = "cond"
    /\ UNCHANGED <<now, timerVars, queue, waitVars, msg, simVars>>

\* ... which breaks, ...
Break == pc = "cond" /\ ReturnWith("broken") /\ UNCHANGED mailbox

\* Mutants of TimeIsOver: the last messages of the instant are left in the queue; a
\* call that reaches its instant goes on.
TimeIsOverAtOnce == ~Before(now, instant)
TimeIsOverAfter == Before(instant, now)

\* Messages are handled until the queue is empty at the instant, but when it has
\* passed before the call no more than one.
TimeIsOver == Before(instant, now) \/ (~message_processed /\ now = instant)

\* ... or not, and the time is looked at: neither the queue nor the mailbox is again.
Elapse == pc = "cond" /\ TimeIsOver /\ ReturnWith("elapsed") /\ UNCHANGED mailbox

Continue ==
    /\ pc = "cond"
    /\ ~TimeIsOver
    /\ pc' = IF message_processed THEN "try" ELSE "timeout"
    /\ message_processed' = FALSE
    /\ late' = 0
    /\ UNCHANGED <<now, timerVars, queue, waitVars, msg, callVars, mailbox, actorVars,
                   sends, overdue>>

\* StopDispatcher ends the call, whatever its instant.
ReturnStopped == pc = "stop" /\ ~Takes /\ ReturnWith("stopped") /\ UNCHANGED mailbox

\* Mutant of NextInstant: the time jumps to the end of the call at once.
EndOfCall(delay) == IF instant = Infinity THEN now ELSE instant

\* How far the time advances when the next Timeout is a delay away.
NextInstant(delay) ==
    IF delay # DurationMax /\ Before(Plus(now, delay), instant) THEN now + delay
    ELSE IF instant = Infinity THEN now
    ELSE instant

\* The time that is left until the first timer of the list.
ToNext ==
    IF DOMAIN timeout_list = {} THEN DurationMax
    ELSE SaturatingSub((CHOOSE k \in DOMAIN timeout_list : IsFirst(k)).deadline, now)

\* try_send_next_pending_timeout breaks: no timer is mature.
Advance ==
    /\ pc = "timeout"
    /\ ToNext # 0
    /\ now' = NextInstant(ToNext)
    /\ pc' = "try"
    /\ UNCHANGED <<timerVars, queue, waitVars, msg, simVars>>

SimTimeout == (SendTimeout \/ SendTimeoutFull) /\ UNCHANGED simVars

-------------------------------------------------------------------------------
(* The behaviors, and others who send.                                     *)

SimIsScheduling(t) == IsScheduling(t) /\ UNCHANGED simVars

SimUnschedule(t) == Unschedule(t) /\ UNCHANGED simVars

SimScheduleUntil(t, deadline) ==
    /\ ScheduleUntil(t, deadline)
    /\ overdue' = IF Before(deadline, now) THEN overdue \cup {next_timeout_id} ELSE overdue
    /\ UNCHANGED <<callVars, message_processed, mailbox, actorVars, sends, late>>

\* send_response, to this request at once or to an earlier one, ...
Respond(request) ==
    /\ pc = "handle"
    /\ request.dst = msg.dst
    /\ Post(<<Response(request.id, TRUE)>>)
    /\ held' = held \ {request}
    /\ UNCHANGED <<vars, callVars, message_processed, reactive_list, senderVars>>

\* Behaviors, the program, its break_func and other threads send notifications to the
\* mailbox, ...
NotifyMailbox ==
    /\ sends < MaxSends
    /\ sends' = sends + 1
    /\ Len(mailbox) < MailboxSize
    /\ Post(<<Notice>>)
    /\ UNCHANGED <<vars, callVars, message_processed, actorVars, late, overdue>>

\* ... and to actors.
SimSend(a) ==
    /\ sends < MaxSends
    /\ sends' = sends + 1
    /\ OtherSend(a)
    /\ late' = IF pc \in {"check", "cond"} /\ ~message_processed THEN late + 1 ELSE late
    /\ UNCHANGED <<callVars, message_processed, mailbox, actorVars, overdue>>

\* A behavior stops its dispatcher.
SendStop ==
    /\ pc = "handle"
    /\ Len(queue) < QueueSize
    /\ queue' = Append(queue, Stop(msg.dst, 0))
    /\ UNCHANGED <<now, timerVars, loopVars, callVars, message_processed, mailbox,
                   actorVars, senderVars>>

-------------------------------------------------------------------------------

SimLoopStep ==
    \/ TryEmpty
    \/ SimDispatch
    \/ DispatchToNone
    \/ SimStop
    \/ ReturnStopped
    \/ BreakWithMessage
    \/ NoMessage
    \/ Elapse
    \/ Continue
    \/ SimTimeout
    \/ Advance

SimNext ==
    \/ SimLoopStep
    \/ Break
    \/ SimReturn
    \/ \E end \in CallEnds :
        Process(end) \/ WaitUntil(end) \/ \E r \in NextRequests : RequestUntil(r, end)
    \/ \E r \in held : Respond(r)
    \/ NotifyMailbox
    \/ SendStop
    \/ \E a \in Actors : SimSend(a) \/ Replace(a)
    \/ \E t \in Timers :
        \/ SimIsScheduling(t)
        \/ SimUnschedule(t)
        \/ \E i \in Deadlines : SimScheduleUntil(t, i)
        \/ \E d \in Delays : SimScheduleUntil(t, Plus(now, d))

SimSpec == SimInit /\ [][SimNext]_allVars

\* The program goes through the loop, and behaviors through their handlers.
SimFairness ==
    /\ WF_allVars(SimLoopStep)
    /\ WF_allVars(SimReturn \/ \E t \in Timers : SimIsScheduling(t))

SimFairSpec == SimSpec /\ SimFairness

-------------------------------------------------------------------------------
(* Properties.                                                             *)

MailboxMessages == [kind : {"Response"}, id : 1 .. MaxCalls, ok : BOOLEAN] \cup {Notice}
Results == {"none", "elapsed", "broken", "stopped", "message", "response", "NoMessage"}

SimRequests == [kind : {"Request"}, id : 1 .. MaxCalls, dst : Actors]
               \cup [kind : {"Stop"}, id : 0 .. MaxCalls, src : Actors \cup {Program}]

SimTypeOK ==
    /\ now \in Nat
    /\ timer \in [Timers -> Handles]
    /\ timeout_list \in [DOMAIN timeout_list -> Actors] /\ DOMAIN timeout_list \subseteq Handles
    /\ queue \in Seq(Messages \cup SimRequests)
    /\ Len(queue) <= QueueSize
    /\ pc \in {"outside", "try", "handle", "check", "cond", "timeout", "stop"}
    /\ call \in {"process", "wait", "request"}
    /\ instant \in Instants
    /\ message_processed \in BOOLEAN
    /\ result \in Results /\ (result = "none" <=> pc # "outside")
    /\ mailbox \in Seq(MailboxMessages) /\ Len(mailbox) <= MailboxSize
    /\ reactive_list \subseteq Actors
    /\ held \subseteq {Request(i, a) : i \in 1 .. request_id, a \in reactive_list}
    /\ late \in Nat
    /\ overdue \subseteq TimeoutIds

\* In simulated time a running timer fires exactly at its deadline, however the calls
\* of the program cut the time into pieces and whatever is sent in between: not
\* earlier, and later only if the deadline was in the past when it was scheduled.
FiresOnTime ==
    [][\A t \in Timers : Fires(t) /\ Armed(t) =>
        now = timer[t].deadline \/ timer[t].id \in overdue]_allVars

Elapses == pc = "cond" /\ pc' = "outside" /\ result' = "elapsed"

\* A call that returns because its time is over has simulated all of it: it is the
\* instant, nothing is left to process but what was sent after the queue was seen
\* empty, and no timer that was due before the instant is left in the list (those due
\* at the instant fire in the next call).
ElapsedIsComplete ==
    [][Elapses /\ ~Before(instant, now) =>
        /\ now = instant
        /\ Len(queue) <= late
        /\ \A k \in DOMAIN timeout_list : Before(k.deadline, instant) => k.id \in overdue]_allVars

\* A request whose time is over was not answered: its response is not in the mailbox,
\* and, unless the instant was in the past, the behavior has got the request and still
\* has it.  The request is not left in the queue, and no answer to it was lost.
ElapsedIsUnanswered ==
    [][Elapses /\ call = "request" =>
        /\ \A n \in 1 .. Len(mailbox) :
               ~(mailbox[n].kind = "Response" /\ mailbox[n].id = request_id)
        /\ ~Before(instant, now) => \E h \in held : h.id = request_id]_allVars

\* A call until a finite instant returns, once behaviors and senders leave the
\* simulated time a chance to advance (MaxSchedulings and MaxSends end their activity).
CallReturns == instant # Infinity /\ pc # "outside" ~> pc = "outside"

\* "Process messages until the dispatcher is stopped": a call, also one without an end,
\* returns when there is a StopDispatcher for it to meet, from whomever it is.
StopReturns ==
    pc # "outside" /\ (\E n \in 1 .. Len(queue) : queue[n].kind = "Stop") ~> pc = "outside"

-------------------------------------------------------------------------------
(* What documentation says, and the code does not do.                      *)

\* "Execute a request with a `ActiveMailbox` until either the response arrives,
\* `break_func` breaks or `instant` is reached."
RequestRunsUntilResponse ==
    [][call = "request" /\ pc # "outside" /\ pc' = "outside" =>
        \/ result' \in {"response", "broken", "stopped"}
        \/ ~Before(now, instant)]_allVars
===============================================================================
