-------------------------------- MODULE Timers --------------------------------
(***************************************************************************)
(* The timers of one dispatcher: TimeoutScheduler, the Timer handles that  *)
(* behaviors keep, the loop of MpscDispatcher::process that turns mature   *)
(* timers into Timeout notifications, and the bounded queue those share    *)
(* with the notifications of every other thread.                           *)
(*                                                                         *)
(* One dispatcher thread runs the loop and the behaviors it calls; the     *)
(* clock and the senders of other notifications interleave with its steps. *)
(***************************************************************************)
EXTENDS Instants, Sequences

CONSTANTS Actors,          \* ids of the reactives of the dispatcher
          Timers,          \* the Timer handles, each a field of one behavior
          Owner,           \* [Timers -> Actors]
          QueueSize,       \* capacity given to Builder::new
          IdSpace,         \* TimeoutId is a u32: 2^32 in the code
          Deadlines,       \* instants given to schedule_until
          Delays,          \* durations given to schedule_for
          MaxTime,         \* bound: the clock stops there when nobody waits for it
          MaxSchedulings   \* bound: how often the behaviors schedule

ASSUME ActorsAssumption == Actors # {}
ASSUME OwnerAssumption == Owner \in [Timers -> Actors]
\* With a rendezvous channel try_send only succeeds while the dispatcher itself
\* waits in recv, so a queue of size 0 never takes a Timeout.
ASSUME QueueSizeAssumption == QueueSize \in Nat \ {0}
ASSUME IdSpaceAssumption == IdSpace \in Nat \ {0}
ASSUME ChoicesAssumption == Deadlines \subseteq Instants /\ Delays \subseteq Durations
ASSUME BoundsAssumption == MaxTime \in Nat /\ MaxSchedulings \in Nat

VARIABLES now,              \* the monotonic clock
          timer,            \* [Timers -> handle]: the Timer structs of the behaviors
          next_timeout_id,  \* TimeoutScheduler::next_timeout_id
          timeout_list,     \* TimeoutScheduler::timeout_list: handle -> ActorId
          queue,            \* the channel of the dispatcher
          pc,               \* where the dispatcher thread is
          duration,         \* duration_to_next_timeout, given to recv_timeout
          wake,             \* the instant at which recv_timeout gives up
          lost,             \* history: the time between computing duration and waiting
          msg,              \* the message handed to process_message
          tested,           \* timers whose is_scheduling(msg) was called
          matched,          \* ... and returned true
          schedulings       \* how many ids were generated (counted for the bound only)

schedulerVars == <<next_timeout_id, timeout_list, schedulings>>
waitVars == <<duration, wake, lost>>
loopVars == <<pc, waitVars, msg>>
vars == <<now, timer, next_timeout_id, timeout_list, queue, pc, duration, wake, lost,
          msg, tested, matched, schedulings>>

TimeoutIds == 0 .. IdSpace - 1
\* A Timer is also the key of its entry in the BTreeMap.
Handles == [id : TimeoutIds, deadline : Instants]

Timeout(id, dst)  == [kind |-> "Timeout", id |-> id, dst |-> dst]
Notification(dst) == [kind |-> "Notification", dst |-> dst]
Messages == [kind : {"Timeout"}, id : TimeoutIds, dst : Actors]
            \cup [kind : {"Notification"}, dst : Actors]

IsTimeout(m) == m.kind = "Timeout"

\* Mutant of Precedes: entries sorted by their ids.
PrecedesById(k, l) == k.id < l.id

\* The order of the keys in the BTreeMap: by deadline, then by id.
Precedes(k, l) ==
    \/ Before(k.deadline, l.deadline)
    \/ k.deadline = l.deadline /\ k.id < l.id

\* Mutant of IsFirst: any mature timer is taken, not the first one.
AnyEntry(k) == TRUE
IsFirst(k) == \A l \in DOMAIN timeout_list \ {k} : Precedes(k, l)

\* Mutants of Mature: off by one in either direction.
MatureTooEarly(k) == k.deadline # Infinity /\ k.deadline - now <= 1
MatureTooLate(k)  == Before(k.deadline, now)
\* duration_to_next == Duration::ZERO
Mature(k) == SaturatingSub(k.deadline, now) = 0

\* Mutant of RemoveKey: the entry stays in the list.
KeepKey(list, k)   == list
RemoveKey(list, k) == [l \in DOMAIN list \ {k} |-> list[l]]
InsertKey(list, k, a) == [l \in DOMAIN list \cup {k} |-> IF l = k THEN a ELSE list[l]]

-------------------------------------------------------------------------------
(* The state of the dispatcher once Builder::build and process() have run  *)
(* their first lines, with behaviors registered and no timer scheduled.    *)

Init ==
    /\ now = 0
    /\ timer = [t \in Timers |-> [id |-> 0, deadline |-> Infinity]]   \* Timer::new
    /\ next_timeout_id = 0
    /\ timeout_list = [k \in {} |-> 0]
    /\ queue = <<>>
    /\ pc = "try"
    /\ duration = DurationMax
    /\ wake = Infinity
    /\ lost = 0
    /\ msg = Notification(CHOOSE a \in Actors : TRUE)
    /\ tested = {}
    /\ matched = {}
    /\ schedulings = 0

-------------------------------------------------------------------------------
(* The loop of MpscDispatcher::process.                                    *)

NotWaiting == duration' = DurationMax /\ wake' = Infinity /\ lost' = 0

\* process_current_message: call the behavior with the head of the queue.
Dispatch ==
    /\ msg' = Head(queue)
    /\ queue' = Tail(queue)
    /\ pc' = "handle"
    /\ NotWaiting
    /\ UNCHANGED <<now, timer, schedulerVars, tested, matched>>

TryProcessMessage ==
    /\ pc = "try"
    /\ queue # <<>>
    /\ Dispatch

TryProcessEmpty ==
    /\ pc = "try"
    /\ queue = <<>>
    /\ pc' = "timeout"
    /\ UNCHANGED <<now, timer, schedulerVars, queue, waitVars, msg, tested, matched>>

\* Mutant of AfterTimeoutSent: all the mature timers are sent at once.
NextTimerAtOnce == "timeout"

\* ControlFlow::Continue: the queue is processed before the next timer is looked at.
AfterTimeoutSent == "try"

\* try_send_next_pending_timeout, the first timer is mature and the queue takes
\* the Timeout.
SendTimeout ==
    /\ pc = "timeout"
    /\ Len(queue) < QueueSize
    /\ \E k \in DOMAIN timeout_list :
        /\ IsFirst(k)
        /\ Mature(k)
        /\ timeout_list' = RemoveKey(timeout_list, k)
        /\ queue' = Append(queue, Timeout(k.id, timeout_list[k]))
    /\ pc' = AfterTimeoutSent
    /\ UNCHANGED <<now, timer, next_timeout_id, schedulings, waitVars, msg, tested, matched>>

\* Mutant of Reinsert: a timer whose Timeout finds no room is dropped.
NoReinsert(k) == RemoveKey(timeout_list, k)

\* The entry goes back into the list when try_send fails.
Reinsert(k) == InsertKey(RemoveKey(timeout_list, k), k, timeout_list[k])

\* try_send_next_pending_timeout, other threads filled the queue since it was
\* seen empty: the loop is continued as if the Timeout had been sent.
SendTimeoutFull ==
    /\ pc = "timeout"
    /\ Len(queue) >= QueueSize
    /\ \E k \in DOMAIN timeout_list :
        /\ IsFirst(k)
        /\ Mature(k)
        /\ timeout_list' = Reinsert(k)
    /\ pc' = "try"
    /\ UNCHANGED <<now, timer, next_timeout_id, schedulings, queue, waitVars, msg,
                   tested, matched>>

\* No mature timer: the loop is left with the time to the first deadline, or with
\* Duration::MAX ...
NoneMature ==
    /\ pc = "timeout"
    /\ IF DOMAIN timeout_list = {}
       THEN duration' = DurationMax
       ELSE \E k \in DOMAIN timeout_list :
                /\ IsFirst(k)
                /\ ~Mature(k)
                /\ duration' = SaturatingSub(k.deadline, now)
    /\ pc' = "block"
    /\ UNCHANGED <<now, timer, schedulerVars, queue, wake, lost, msg, tested, matched>>

\* ... and block_process_message called with it: recv_timeout counts from its own start,
\* by when the clock may have moved on.
BeginWait ==
    /\ pc = "block"
    /\ wake' = Plus(now, duration)
    /\ pc' = "wait"
    /\ UNCHANGED <<now, timer, schedulerVars, queue, duration, lost, msg, tested, matched>>

\* recv_timeout: a message arrives first ...
WaitMessage ==
    /\ pc = "wait"
    /\ queue # <<>>
    /\ Dispatch

\* ... or the time is over; how late the thread wakes up is left open.
WaitTimeout ==
    /\ pc = "wait"
    /\ queue = <<>>
    /\ ~Before(now, wake)
    /\ pc' = "try"
    /\ NotWaiting
    /\ UNCHANGED <<now, timer, schedulerVars, queue, msg, tested, matched>>

-------------------------------------------------------------------------------
(* What the behavior that got msg does inside process_message: it asks     *)
(* is_scheduling of each of its timers once, in any order, and in between  *)
(* schedules and unschedules them as it likes.                             *)

IsHandling(t) == pc = "handle" /\ Owner[t] = msg.dst

Disarmed(handle) == [handle EXCEPT !.deadline = Infinity]

\* Timer::is_scheduling looks at the id only.
IsSchedulingMatches(t) == IsTimeout(msg) /\ msg.id = timer[t].id

IsScheduling(t) ==
    /\ IsHandling(t)
    /\ t \notin tested
    /\ tested' = tested \cup {t}
    /\ IF IsSchedulingMatches(t)
       THEN /\ timer' = [timer EXCEPT ![t] = Disarmed(@)]
            /\ matched' = matched \cup {t}
       ELSE UNCHANGED <<timer, matched>>
    /\ UNCHANGED <<now, schedulerVars, queue, loopVars>>

\* TimeoutScheduler::unschedule, the effect on the list: only an entry of the
\* same actor is removed, and none for a timer whose deadline is infinite.
ListAfterUnschedule(t) ==
    LET k == timer[t]
    IN  IF k.deadline # Infinity /\ k \in DOMAIN timeout_list
                                 /\ timeout_list[k] = Owner[t]
        THEN RemoveKey(timeout_list, k)
        ELSE timeout_list

Unschedule(t) ==
    /\ IsHandling(t)
    /\ timeout_list' = ListAfterUnschedule(t)
    /\ timer' = [timer EXCEPT ![t] = Disarmed(@)]
    /\ UNCHANGED <<now, next_timeout_id, schedulings, queue, loopVars, tested, matched>>

\* schedule_until: unschedule, take a new id, insert.
ScheduleUntil(t, instant) ==
    /\ IsHandling(t)
    /\ schedulings < MaxSchedulings
    /\ LET k == [id |-> next_timeout_id, deadline |-> instant]
       IN  /\ timer' = [timer EXCEPT ![t] = k]
           /\ timeout_list' = InsertKey(ListAfterUnschedule(t), k, Owner[t])
    /\ next_timeout_id' = (next_timeout_id + 1) % IdSpace
    /\ schedulings' = schedulings + 1
    /\ UNCHANGED <<now, queue, loopVars, tested, matched>>

ScheduleFor(t, delay) == ScheduleUntil(t, Plus(now, delay))

\* process_message returns once every timer of the behavior was asked.
ReturnTo(next) ==
    /\ pc = "handle"
    /\ \A t \in Timers : Owner[t] = msg.dst => t \in tested
    /\ pc' = next
    /\ tested' = {}
    /\ matched' = {}
    /\ UNCHANGED <<now, timer, schedulerVars, queue, waitVars, msg>>

Return == ReturnTo("try")

-------------------------------------------------------------------------------
(* The environment.                                                        *)

\* Mutant of OtherSend: an unbounded channel.
SendWithoutRoom(a) ==
    /\ queue' = Append(queue, Notification(a))
    /\ UNCHANGED <<now, timer, schedulerVars, loopVars, tested, matched>>

\* Another actor, or a behavior of this dispatcher, sends a notification.
OtherSend(a) ==
    /\ Len(queue) < QueueSize
    /\ queue' = Append(queue, Notification(a))
    /\ UNCHANGED <<now, timer, schedulerVars, loopVars, tested, matched>>

\* The bound of the clock does not cut a wait short.
ClockRuns == now < MaxTime \/ (pc = "wait" /\ wake # Infinity /\ Before(now, wake))

Tick ==
    /\ ClockRuns
    /\ now' = now + 1
    /\ lost' = IF pc = "block" THEN lost + 1 ELSE lost
    /\ UNCHANGED <<timer, schedulerVars, queue, pc, duration, wake, msg, tested, matched>>

-------------------------------------------------------------------------------

LoopStep ==
    \/ TryProcessMessage
    \/ TryProcessEmpty
    \/ SendTimeout
    \/ SendTimeoutFull
    \/ NoneMature
    \/ BeginWait
    \/ WaitMessage
    \/ WaitTimeout

Next ==
    \/ LoopStep
    \/ Return
    \/ Tick
    \/ \E a \in Actors : OtherSend(a)
    \/ \E t \in Timers :
        \/ IsScheduling(t)
        \/ Unschedule(t)
        \/ \E i \in Deadlines : ScheduleUntil(t, i)
        \/ \E d \in Delays : ScheduleFor(t, d)

Spec == Init /\ [][Next]_vars

\* The dispatcher thread and the clock advance, a behavior gets through its
\* handler, and a Timeout that meets a free slot again and again is queued.
Fairness ==
    /\ WF_vars(LoopStep)
    /\ SF_vars(SendTimeout)
    /\ WF_vars(Return \/ \E t \in Timers : IsScheduling(t))
    /\ WF_vars(Tick)

FairSpec == Spec /\ Fairness

-------------------------------------------------------------------------------
(* Properties.                                                             *)

TypeOK ==
    /\ now \in Nat
    /\ timer \in [Timers -> Handles]
    /\ next_timeout_id \in TimeoutIds
    /\ DOMAIN timeout_list \subseteq Handles
    /\ timeout_list \in [DOMAIN timeout_list -> Actors]
    /\ queue \in Seq(Messages)
    /\ Len(queue) <= QueueSize
    /\ pc \in {"try", "timeout", "block", "wait", "handle"}
    /\ duration \in Durations
    /\ wake \in Instants
    /\ lost \in Nat
    /\ msg \in Messages
    /\ tested \subseteq Timers
    /\ matched \subseteq tested
    /\ schedulings \in 0 .. MaxSchedulings

Armed(t) == timer[t].deadline # Infinity

Listed(t) == timer[t] \in DOMAIN timeout_list /\ timeout_list[timer[t]] = Owner[t]

OwnTimeout(t) == Timeout(timer[t].id, Owner[t])

Queued(t) == \E i \in 1 .. Len(queue) : queue[i] = OwnTimeout(t)

\* The Timeout of t is being handled and t was not asked about it yet.
Delivered(t) == pc = "handle" /\ msg = OwnTimeout(t) /\ t \notin tested

\* A timer that a behavior believes to be running is not lost: until it fires or
\* is unscheduled its entry is in the list or its Timeout is on its way, also
\* when try_send met a full queue (try_send_next_pending_timeout, schedule_until).
ArmedTimerNotLost == \A t \in Timers : Armed(t) => Listed(t) \/ Queued(t) \/ Delivered(t)

TimeoutPositions == {i \in 1 .. Len(queue) : IsTimeout(queue[i])}

\* Timeouts are queued one at a time, so that they do not overfill the queue, and
\* what one of them causes is processed before the next one is looked for
\* (the comment in MpscDispatcher::process).
OneTimeoutInQueue ==
    /\ \A i, j \in TimeoutPositions : i = j
    /\ pc \in {"timeout", "block", "wait"} => TimeoutPositions = {}

IdsListed   == {k.id : k \in DOMAIN timeout_list}
IdsInFlight == {queue[i].id : i \in TimeoutPositions}
               \cup (IF pc = "handle" /\ IsTimeout(msg) THEN {msg.id} ELSE {})
IdsArmed    == {timer[t].id : t \in {t \in Timers : Armed(t)}}

\* One scheduling gives one Timeout: an id is in one entry of the list or in one
\* message, no two running timers answer to the same id, and all of them are ids
\* that were generated. It holds until the u32 wraps around.
OneTimeoutPerScheduling ==
    /\ \A k, l \in DOMAIN timeout_list : k.id = l.id => k = l
    /\ IdsListed \cap IdsInFlight = {}
    /\ \A t, u \in Timers : Armed(t) /\ Armed(u) /\ timer[t].id = timer[u].id => t = u
    /\ \A id \in IdsListed \cup IdsInFlight \cup IdsArmed : id < schedulings

\* Timers come due in the order of their deadlines: when the Timeout of t is on
\* its way its deadline is reached, and no timer scheduled before t with an earlier
\* deadline is left behind (the order of the BTreeMap, Timer::cmp).
DeadlineOrder ==
    \A t \in Timers : Armed(t) /\ (Queued(t) \/ Delivered(t)) =>
        /\ ~Before(now, timer[t].deadline)
        /\ \A k \in DOMAIN timeout_list :
            k.id < timer[t].id => ~Before(k.deadline, timer[t].deadline)

Fires(t) == t \in matched' \ matched

\* An armed timer never fires before its deadline, whatever Timeouts of its
\* earlier schedulings are still in the queue when it is scheduled again.
NeverEarly ==
    [][\A t \in Timers : Fires(t) /\ Armed(t) => ~Before(now, timer[t].deadline)]_vars

\* The dispatcher does not sleep past a deadline by more than the time that it lost
\* between computing how long to wait and waiting: its list does not change meanwhile,
\* and it waits at most until the first deadline.
NoOversleep ==
    pc = "wait" => \A k \in DOMAIN timeout_list : ~Before(Plus(k.deadline, lost), wake)

\* t runs with this id towards a deadline that the bounded clock reaches.
RunsWith(t, id) == timer[t].id = id /\ timer[t].deadline \in 0 .. MaxTime

\* Every timer that is due comes to an end (it fires, or the behavior unschedules
\* or reschedules it), provided the queue is drained again and again: as long as
\* messages keep coming the loop does not look at the timers at all.
ArmedTimerSettles ==
    []<>(pc = "timeout") =>
        \A t \in Timers, id \in TimeoutIds : RunsWith(t, id) ~> ~RunsWith(t, id)

-------------------------------------------------------------------------------
(* What the documentation of Timer::is_scheduling says, and the code does  *)
(* not do.                                                                 *)

\* "It takes care of race conditions like timer unscheduled after the timeout
\* notification was send to the queue": no Timeout for which is_scheduling returns
\* true is handed to the behavior of a timer that is not running any more.
UnscheduledDoesNotFire ==
    [][pc # "handle" /\ pc' = "handle" =>
        \A t \in Timers : Owner[t] = msg'.dst /\ IsSchedulingMatches(t)' => Armed(t)]_vars

\* "Check that a notification was created to schedule this timer timeout event":
\* a Timeout, created for one timer, makes one timer fire at most.
OneTimerPerTimeout == \A t, u \in matched : t = u
===============================================================================
