# TLA+ specifications of rtactor

`rtactor` is a library of actors for real-time programs. *Reactive* actors are
behaviors called by a dispatcher thread for each message in its bounded queue;
*active* and *async* actors are mailboxes that their owner reads. This directory
holds TLA+ modules translated from the source, TLC configurations that check
them on small instances, and TLAPS proofs. Paths below are relative to the
repository.

    tlc -config MCTimers.cfg MCTimers        # check one run
    tlapm TimersProofs.tla                   # check the proofs of one module

## The system

| part | state | operations | who it talks to |
|---|---|---|---|
| `Addr`, messages (`src/actor.rs`) | the next actor id (a global) | `receive_notification`, `receive_request`, `receive_*_response`, `generate_actor_id` | the channel of the addressee |
| `ProcessContext`, `ReactiveAddr` (`src/reactive.rs`) | request id counter, id of the reactive being called | send requests, responses, notifications; schedule timers | channels; `TimeoutScheduler` |
| `TimeoutScheduler`, `Timer`, `Instant` (`src/reactive.rs`) | `next_timeout_id`, `timeout_list`; `id` and `deadline` of each handle | `schedule_until/for`, `unschedule`, `is_scheduling`, `try_send_next_pending_timeout` | the queue of its own dispatcher |
| `MpscDispatcher` (`src/mpsc_dispatcher.rs`) | channel, `reactive_list` | `process`, register, replace, unregister, stop, `drop` | behaviors (calls), senders of requests |
| `SyncAccessor` (`src/dispatcher.rs`) | a mailbox of size 1 | `register_reactive_for`, `replace_reactive_for`, `execute_fn`, `stop_dispatcher` | the dispatcher, by requests |
| `ActiveMailbox` (`src/active.rs`), `AsyncMailbox` (`src/async_actor.rs`) | channel, `last_request_id`, `message_list` | `request_for`, `try_get_message`, `wait_message(_for)`, `responds` | any address |
| `SimulationDispatcher` (`src/simulation.rs`) | a dispatcher, its scheduler, a simulated clock | `process_until_cond`, `active_wait_message…`, `active_request…` | behaviors, mailboxes of the test |
| `ProfilingAggregator` (`src/profiling_aggregator.rs`) | registered actors, observers, snapshot in progress | registrations, `SnapshotMetrics`, responses | profiled actors, observers |
| `profiled_actor` metrics (`src/profiled_actor.rs`) | sums and counts | `records`, `snapshot` | the aggregator |
| `ReactiveMocker`, macros, crate root | – | test helper, code generation, re-exports | – |

What is hard:

* *Concurrency.* The dispatcher thread, the threads of clients and the clock
  interleave at every channel operation. A full queue is met between two steps of
  the dispatcher; a request may arrive while the dispatcher stops.
* *Stale messages.* A `Timeout` stays in the queue when its timer is scheduled
  again or unscheduled; the response to a request that timed out arrives during
  the next one. Ids (`TimeoutId`, `RequestId`) are meant to sort them out.
* *Limits.* All channels are bounded, nobody blocks on sending, and the result of
  sending a response is ignored.
* *Time.* Waits are computed before they begin, deadlines can be infinite.
* *Failure.* A behavior may panic; the dispatcher is then dropped while the thread
  unwinds.

What makes the parts correct:

* Timers: a running timer is never lost, fires once, not early, in the order of the
  deadlines, and eventually if the queue is drained; the dispatcher sleeps past a
  deadline by no more than the time that it lost before it began to sleep.
* Dispatcher: no request vanishes, none is answered twice; after a stop everything
  queued is settled and the behaviors are gone before the answer; an address never
  reaches another behavior than its own.
* Requests: a result is about the request that was made; who waits gets an answer.
* Reactives: a response is taken for the request it answers, although the reactives of a
  dispatcher share a counter and behaviors are replaced; dispatchers with full queues
  do not block each other.
* Mailboxes: what was accepted reaches the owner once, whichever of the two queues it
  goes through; the response that answers the awaited request is not set aside; a time
  limit is a limit.
* Simulation: simulated time is exact, a call simulates all of its time and returns.
* Aggregator: a report is of one snapshot and complete; a snapshot ends.

## Modules

| module | models |
|---|---|
| `Instants` | `Instant` and `Duration` with their infinite values |
| `Timers` | timers, the loop of `MpscDispatcher::process`, its queue, the clock |
| `MCTimers` | instances of `Timers` for TLC |
| `TimersProofs` | theorems about `Timers` |
| `Dispatcher` | registry, requests, stop and drop of `MpscDispatcher`, and its clients |
| `DispatcherProofs` | theorems about `Dispatcher` |
| `DispatcherRefinement` | the proof that `Dispatcher` implements `RequestReply` |
| `Mailbox` | `ActiveMailbox`, `AsyncMailbox`, their owners and the requests between them |
| `MailboxProofs` | theorems about `Mailbox`, that it implements `RequestReply` included |
| `Reactives` | reactives of several dispatchers that make requests of each other |
| `ReactivesProofs` | theorems about `Reactives` |
| `ReactivesRefinement` | the proof that `Reactives` implements `RequestReply` |
| `RequestReply` | what a request promises to its sender; `Dispatcher`, `Mailbox` and `Reactives` implement it |
| `Simulation` | the loop and the clock of `SimulationDispatcher`, on top of `Timers` |
| `SimulationProofs` | theorems about `Simulation`, on top of `TimersProofs` |
| `Aggregator` | `ProfilingAggregator` with the actors it asks |
| `AggregatorProofs` | theorems about `Aggregator` |
| `MCDispatcher`, `MCMailbox`, `MCReactives`, `MCSimulation`, `MCAggregator` | instances for TLC |

### Timers

The variables are the fields of the code: `timer[t]` is the `Timer` struct of a
behavior (`id`, `deadline`), `next_timeout_id` and `timeout_list` are those of the
`TimeoutScheduler`, `queue` is the channel. `pc` says where the dispatcher thread
is: before `try_recv` (`try`), before `try_send_next_pending_timeout` (`timeout`),
before `recv_timeout` with the computed `duration` (`block`), inside it until `wake`
(`wait`), or in `process_message` with `msg` (`handle`). Each action is one call on the channel or on the scheduler with
everything that the thread does to its own data around it, so other threads
interleave where they can in the code. In particular the queue is seen empty in one
step (`TryProcessEmpty`) and the Timeout is sent in a later one (`SendTimeout`), with
other senders in between (`SendTimeoutFull`). So are the two ends of a wait: `NoneMature`
reads the clock and computes the duration, `BeginWait` starts `recv_timeout`, which counts
from its own start. The clock may have moved on in between; `lost` is history and says by
how much, and `NoOversleep` allows exactly that.

In `handle` the behavior asks `is_scheduling` of each of its timers once, in any
order, and schedules or unschedules any of them in between, as often as it likes.
A behavior asks all its timers because the documentation requires the check. What
else it sends to its own dispatcher is covered by `OtherSend`, which any thread may
do at any time. `matched` records for which timers `is_scheduling` returned true.

Left out: the data of notifications; requests and responses (`Dispatcher`); a
`Timer` handle that is copied or dropped; the time a step takes (the clock may tick
between any two steps); an `Instant` so far in the future that the addition panics
(`Plus` has no limit). A queue of size 0 is excluded (`QueueSizeAssumption`):
`try_send` on a rendezvous channel succeeds only while somebody receives, and the
thread that sends the Timeouts is the receiver, so with such a queue no timer would
ever fire.

### RequestReply

The abstract specification of a request. `status` is what a request is to the one who
made it: `unsent`, `open` while somebody may answer it, `ok` or `error` while the
answer is on its way, then `closed`. `current` is the request its sender waits for.
An open request is answered once or never; the answer may find no room. Who waits
takes the ok answer to its own request only, but any error (`TakeError`, see
`dispatcher_stale_error`), and does not give up while the answer is there. When a
participant ends, the requests that were with it are lost.

Three modules implement it, each under the name `Promise`, with `KeepsPromise ==
Promise!Spec` as a property of its run:

| | `current` | `status` | may stop waiting at any time |
|---|---|---|---|
| `Dispatcher` | the request of a client inside `request_for` | open while it is queued, refused but not yet answered, with a behavior, or is the StopDispatcher being executed; then by the response in the client's mailbox | none |
| `Mailbox` | the request of an owner inside `request_for` | open while it has no answer and its holder exists; then by the responses in channel and list; an ok response of another type than the awaited one is no answer and closes it | owners of an `AsyncMailbox`, whose future is dropped |
| `Reactives` | the request whose id the behavior keeps | open while it is queued, refused or held; then by the responses in the queue of its sender's dispatcher | all: a behavior makes a new request when it likes |

So each step of a component is one step of a request or none. A response may not turn
up twice, nor for a request that was closed; an ok answer may not end another
request; a result is not an error or a time limit while the client's own ok answer is
in its mailbox.

### Dispatcher

`queue` and `reactive_list` are the fields of `MpscDispatcher`; a behavior is its
version: 1 when registered, one more for each `replace_reactive`. `pc` is where the
thread is: serving, emptying the queue for `StopDispatcher` (`drain`), about to
destroy the behaviors and answer (`clear`), emptying the queue in `drop`, about to
close the channel (`close`), or `ended`. A panic, of a behavior (`BehaviorPanics`) or of
the function of an `ExecuteFn` (`FunctionPanics`), leads from serving to `drop`.

A behavior that gets a request has it from then on (`kept`, `ServeWork`). It responds
inside `process_message`, later, or never; it may also have passed the request on, so a
response (`Respond`) can come at any time, also after the behavior was replaced or
destroyed. What it says is from the version of the behavior that took the request.

A client is a thread with an `ActiveMailbox` in `request_for`: idle, refused, waiting, or
panicked (`execute_fn` does `todo!()` on an error). `call` is its last request. The
clients in `Patient` wait with `Duration::MAX`; for the others `recv_timeout` may
give up whenever the mailbox is empty. A request to an address that is `INVALID`,
full or closed is answered by the sender itself, in a step of its own (`refused`, then
`AnswerRefused`), before which other responses may arrive in its mailbox.

Four variables are history, read by the properties only: `fate` (what became of each
request), `result` (what `request_for` returned), `owed` (what was queued behind a
`StopDispatcher`) and `acked` (the version a client was told of).

Left out: the kinds of errors, the data of requests, notifications and timers,
reactives that make requests themselves (`Reactives`), messages other than responses in
a mailbox, and the types of responses, which are free in `Mailbox`. The dispatcher panics
when it gets a request of a foreign type, a response or a notification for itself; the
effect is that of `FunctionPanics`. A `RegisterReactive` whose behavior was taken out
before would be answered with `Addr::INVALID`; here each brings a behavior of its own.
`next_actor_id` counts reactives only: mailboxes and dispatchers take ids of the same
counter, which makes no difference to the uniqueness of ids.

### Mailbox

`channel` and `message_list` are the two queues of a mailbox. `call` is the last
request of its owner and whether `request_for` still waits; each turn of its loop is
one of `ReceiveResult`, `ReceiveLate` and `ReceiveOther`, and `GiveUp` is the end of
`recv_timeout`. The owners in `Limited` have time limits. `Cancel` drops the future of
an `AsyncMailbox`. Outside `request_for` the owner takes messages (`GetAside` from the
back of the list, then `GetNext` from the channel), responds to requests it holds,
and may drop its mailbox. `taken` and `fate` are history.

A response with data may have any type (`Responds`); that of a request (`type`) is the
one its sender waits for. Two types stand for all: `request_for` sets an ok response of
another type aside, also when it is to the awaited request, which then is never answered
(its `fate` is `mistyped`). An error has no data and is never set aside. `Asked` says which
types an owner waits for. `taken` holds what was handed to the owner and the late responses
that `request_for` passed over. A refused request is answered by its own thread
to its own channel; the two `try_send`s are one step here and two in `Dispatcher` and
`Reactives`. Left out: which error a call returns (the async
`request_for` reports the end of the time as `BrokenReceive`) and how long the time
limit lasts. `request_for` starts `recv_timeout` with the full duration after every
message, so its time limit holds from the last message on; `LimitedReturns` says
that it ends at all.

### Reactives

Several dispatcher threads, each with a bounded queue and the `request_id_counter` of
its `ProcessContext`, call the behaviors of the reactives in `Home`. `own_actor_id` is
the reactive whose `process_message` is running. Inside it every `try_send` is a step
of its own: `SendRequest` queues the request or finds that it is `refused` (queue full
or `Addr::INVALID`), and `AnswerRefused` is the second `try_send`, of the error, into
the sender's own queue, by which time other threads may have filled it or made room.
`SendResponse` responds to a request taken now or earlier. Behaviors follow the
convention of the repository's README: they keep the id of the last request
(`awaited`) and ignore a response with another (`IsAwaited`). `TakeReplace` and
`TakeUnregister` are `ExecuteFn` requests that replace or remove a behavior, with
everything it held and awaited; a request for a behavior that is gone is answered with
an error (`TakeUnknown`).

`made`, `last` and `lost` are history: they tell requests with the same id apart, and
name the requests whose answer found no room or whose holder is gone.
`AwaitedExists` says that these are the only ones whose sender waits in vain. The
repository's README calls the `Response` mandatory; a sender whose own queue is full
does not get it, not even the error.

Left out: timers (`Timers`), StopDispatcher and panics (`Dispatcher`), the closing of a
channel, which to a sender looks like a full queue. Requests that wait for each other
are not assumed to be answered: whether a behavior responds is up to the program.

### Simulation

`Simulation` extends `Timers`: handles, list, queue, `is_scheduling` and scheduling
are the same code and the same operators. The loop is `process_until_cond`, run inside
a call of the program: `pc` is `outside` between the calls. One turn of the loop is:

1. `try`: the queue is looked at once. `TryEmpty` finds nothing; `SimDispatch`, `SimReturn`,
   `DispatchToNone` and `SimStop` handle a message. `message_processed`, the variable of the
   code, keeps the outcome for the rest of the turn.
2. `check`: the mailbox is looked at once, by the closure of the call.
   `BreakWithMessage` takes what is there, `NoMessage` goes on to
3. `cond`: the `break_func` of the program breaks (`Break`) or not, and then the time is
   looked at, with `message_processed` and not with the queue: the call is over (`Elapse`)
   or goes on (`Continue`).
4. `timeout`, when no message was processed: a Timeout is queued (`SimTimeout`) or the time
   jumps (`Advance`).

Others may send to the queue (`SimSend`) and to the mailbox (`NotifyMailbox`) between any
two of these steps: the behaviors, the program in its `break_func`, and other threads. So a
call may elapse with a message in its queue or its mailbox that came too late to be
seen. `late` is history and counts what was sent since the queue was seen empty: no more
than that is left (`ElapsedIsComplete`). `overdue` is history too: the ids of timers whose
deadline was in the past when they were scheduled, which fire late.

A call with a mailbox ends with the first message in it, whatever it is: a
notification, or the late response to an earlier request, makes a request return
`NoMessage`, and the message is gone; see `simulation_request`.

`Replace` is `replace_reactive`, which the program may call between its calls: the new
behavior has timers of its own, the list and the queue keep what the old one scheduled.
`StopDispatcher` comes from the program, as a simulated request, or from a behavior.
`SimStop` empties the queue, answering with errors the program's requests in it, the further
`StopDispatcher` included (`Dropped`; those of behaviors are answered into the queue of a
dispatcher that has no behaviors any more), destroys the behaviors and responds; then `break_func` is
called once more (`BreakWithMessage`, which is how the program gets the response) and
the call returns (`ReturnStopped`) whatever the time is. The program may make further
calls on what is left: `DispatchToNone` answers requests for actors that are gone.

Left out: `register_reactive`, which is that of `MpscDispatcher` (actors are registered
from the beginning); clients in other threads and what they send while `StopDispatcher`
empties the queue (`Dispatcher`); requests between reactives (`Reactives`).

### Aggregator

Each action of the aggregator is one call of its `process_message`. `state` and the
three variables after it are `State::Processing { .. }`, `actor_entry_dict` and
`observer_set` its fields. A metric list is abstracted to the snapshot (`round`) in
which the actor filled it. `network` holds requests and responses: an actor answers,
answers with an error (its queue is full or closed, or it has disappeared), or never.
`renewed`, `wanted`, `report` and `failed` are history.

A response is stored under its name even if that name was registered again with
another address while the request was out; the report then holds metrics of the old
actor. Left out: responses to the registration requests and the timestamp.

## Runs

| run | instance | checks |
|---|---|---|
| `timers` | 2 timers of one behavior, another behavior without, queue of 2, 3 schedulings, clock up to 3 | `ArmedTimerNotLost`, `OneTimeoutInQueue`, `OneTimeoutPerScheduling`, `DeadlineOrder`, `NoOversleep`, `NeverEarly`, `ArmedTimerSettles` |
| `timers_unscheduled` | one timer | finds `UnscheduledDoesNotFire` violated |
| `timers_never_scheduled` | 2 timers | finds `OneTimerPerTimeout` violated |
| `dispatcher` | a client with time limits and 3 requests, one without and 1, 2 actors, queue of 2, mailboxes of 1 | `RequestInOnePlace`, `StopOrder`, `EffectsLast`, `PatientMailboxHasRoom`, `KeepsPromise`, `PatientReturns`, `StopEnds` |
| `dispatcher_closing` | registrations and stops only | finds `AllResponded` violated |
| `dispatcher_stale_error` | no stops | finds `ErrorIsOwn` violated |
| `mailbox` | an `ActiveMailbox` with time limits (2 requests of either of 2 types, 2 notifications), an `AsyncMailbox` without (1 request of one type), responses of both types, queues of 2 | `EachMessageOnce`, `AnswerNotMissed`, `OvertakesOnlyAside`, `LimitedReturns`, `KeepsPromise` |
| `reactives` | 2 reactives of one dispatcher with 2 requests, 1 of another with 1, 2 other messages (notifications, replacements, removals), queues of 2 | `AcceptsOwnOnly`, `AwaitedExists`, `KeepsPromise`, `QueuesDrain` |
| `aggregator` | 2 names, an actor that answers, one that may fail, an observer, 3 snapshots | `OneRequestOut`, `ReportIsFresh`, `ReportIsComplete`, `SnapshotEnds` |
| `aggregator_failing` | the same, 2 snapshots | finds `ObserversNotified` violated |
| `simulation` | 2 timers, 2 schedulings, 2 calls until the past, now, later or without end, a notification to queue or mailbox at any time, replacements and stops, queue of 2, mailbox of 1 | `FiresOnTime`, `ElapsedIsComplete`, `ElapsedIsUnanswered`, `CallReturns`, `StopReturns` |
| `simulation_request` | the same, queue of 1 | finds `RequestRunsUntilResponse` violated |

Why the bounds are enough. Two timers are needed for order and for one Timeout
meeting the wrong timer, and more would only repeat this; a queue of two has room for
a Timeout and a message before and behind it, and is full with two messages; three
units of time put deadlines before, at and after each other and the clock; three
schedulings let a timer be scheduled again while its first Timeout is queued and the
other runs. `IdSpace` is as large as the number of schedulings, so ids are used up but
do not wrap. The clock stops at `MaxTime`, but not before a wait that has begun
is over, and liveness is asked only of deadlines up to it. Two clients are needed for requests of one to arrive while the
other's are executed, a queue of two for a request behind a `StopDispatcher`, and
three requests for a late response to one of the first two to meet a later one (a
client without time limit never gets a late response, so one is enough for it). Two
mailboxes can wait for each other and one for itself; two notifications can be set
aside together or apart; a second type lets a response have the wrong one, and one
owner that asks for both is enough because types are interchangeable. Two reactives of one dispatcher share a counter and a third
belongs to the other; two requests let a late response to the first meet the second,
or one of a behavior that replaced the first; queues of two are full with messages for
each other. `IdSpace` there exceeds the number of requests: an id comes again after
2^32 requests in the code, and a response that late is out of scope. Two names let one be
skipped, renewed or removed before, while and after it is asked, three snapshots follow
or extend each other. Two calls of a simulation leave timers, responses and time between
them; in a queue of two there can be something behind a `StopDispatcher`, another
`StopDispatcher` included, and a mailbox of one is full with one message.

Deadlock is not checked for `mailbox`, `reactives`, `simulation` and
`simulation_request`. Owners without time limit may wait for each other for ever and
mailboxes may all be dropped; reactives that have sent all their messages, and a
program that has made its calls, stop.

The properties of the passing runs are accompanied by mutants: operators in the
modules, marked "Mutant of", which change one definition as a plausible bug would.
With the mutant in the place of the definition the same run finds the property
violated. They belong to no specification.

### Fairness

`Timers!Fairness`: the dispatcher thread takes its next step (weak fairness of
`LoopStep`: it never blocks, except in `recv_timeout`, which ends when the time is
over); a behavior returns from `process_message`; the clock advances. Strong fairness
of `SendTimeout`: between the step that finds the queue empty and `try_send` other
threads may fill the queue, again and again; the code has no defence, and the
assumption is that they do not win this race for ever. `ArmedTimerSettles` has a
further premise, that the loop comes to look at the timers again and again: with a
flood of messages it never does, as the repository's README says under its
limitations.

`Dispatcher!Fairness`: the dispatcher thread keeps running (behaviors return), and a
client answers its own refused request, takes what is in its mailbox and, with a time
limit, gives up at some time. Clients need not make requests, and behaviors need not
respond: `PatientReturns` excepts the requests that a behavior took and still has, and
those that were thrown away by the closing channel, by a function that panics, or as
`StopReactive`. That clients make a bounded number of requests
matters to `StopEnds`: `drop_queued_messages` runs as long as there is a message, and
clients that send again as soon as they are answered could keep it from ending.

`Mailbox!Fairness`: an owner inside `request_for` takes what arrives and, with a time
limit, gives up at some time. Nothing is assumed about owners outside it: they need
not read or respond. That requests and notifications are bounded matters: messages
that never stop would keep `request_for` from giving up.

`SimFairness`: the program goes through the loop and behaviors return. `CallReturns`
also needs that behaviors do not schedule at the same instant for ever; their number
of schedulings and of sends is bounded.

A call without an end also returns when a `StopDispatcher` is in the queue: that is
`StopReturns`.

`Reactives!Fairness`: each dispatcher thread takes messages, answers what was refused,
and its behaviors return; whether they send or respond is up to them. No fairness is
assumed between the dispatchers. `QueuesDrain` needs that messages end, as every queue
does that is fed as fast as it is worked off.

`Aggregator!FairSpec`: messages are handled at some time. `SnapshotEnds` excepts the
snapshots in which an actor failed.

## Disagreements between code and documentation

* `timers_unscheduled`: `Timer::is_scheduling` says that it takes care of a "timer
  unscheduled after the timeout notification was send to the queue". `unschedule`
  removes the entry and sets the deadline to infinity, but `is_scheduling` compares
  only ids, and the id is kept. Schedule, let the Timeout be queued, unschedule in the
  handler of a message before it: the Timeout still matches. (A timer scheduled
  *again* is safe, because it gets a new id: `NeverEarly`.)
* `timers_never_scheduled`: ids start at 0, and so does the id in `Timer::new()`. The
  first Timeout of a dispatcher makes `is_scheduling` true also for a timer that was
  never scheduled.
* `dispatcher_closing`: `StopDispatcher` promises that requests not processed are
  answered with an error. Between the end of `drop_queued_messages` in `drop` and the
  destruction of the receiver a request can still be queued; it is thrown away.
* `dispatcher_stale_error`: `request_for` checks the request id of ok responses but
  not of errors. A client whose request timed out and was answered with an error later
  gets that error for its next request, although that one may have succeeded.
* `aggregator_failing`: observers are said to be notified at the end of the snapshot.
  When an actor answers with an error, the aggregator looks for a `Response` in the
  data of the failed request and finds none; it stays in `State::Processing`, and
  later `SnapshotMetrics` only add names. One actor that is gone ends all reports.
* `simulation_request`: `active_request_until_cond` is said to run until "the response
  arrives, `break_func` breaks or `instant` is reached". Any message that is in the
  mailbox or arrives there ends it, with `NoMessage`; the message is thrown away, and the
  response stays behind for the next call.

Seen in the code, but outside what the models tell apart: the async `request_for` returns
`BrokenReceive` at the end of its time (`src/async_actor.rs:278`), where `ActiveMailbox`
returns `Timeout`, the error that `src/actor.rs:62` documents for it. And
`profiled_actor::try_process_request` has reset the metrics when its response finds no
room, so what was recorded since the last snapshot is gone.

Some hazards in `PROJECT.json` name no property because the code promises nothing: a flood of
messages keeps all timers from firing, ids come again after 2^32, clients that never stop
sending keep a dispatcher in `drop_queued_messages`, messages that never stop keep
`request_for` from giving up, and `StopReactive` is never answered. What the properties say
about them is under a bound or a premise, named at each.

## Proofs

Every invariant, action property and refinement that a passing run checks on a small
instance is a theorem for all values of the constants. What remains with TLC is liveness;
see the end of this section.

| module | theorems (the property of the run) |
|---|---|
| `TimersProofs` | `TypeCorrect`, `TimersCorrect` with four corollaries, `TimersNeverEarly`, `DispatcherNoOversleep`, `NextTimeoutDetermined` |
| `DispatcherProofs` | `TypeCorrect`, `InOnePlace` (`RequestInOnePlace`), `StopInOrder` (`StopOrder`), `ToldIsTrue` (`EffectsLast`), `PatientHasRoom` (`PatientMailboxHasRoom`) |
| `DispatcherRefinement` | `RequestsKeepPromise` (`KeepsPromise`) |
| `MailboxProofs` | `TypeCorrect`, `AnswerNeverMissed` (`AnswerNotMissed`), `MessagesOnce` (`EachMessageOnce`), `OvertakingOnlyAside` (`OvertakesOnlyAside`), `MailboxesKeepPromise` (`KeepsPromise`) |
| `ReactivesProofs` | `TypeCorrect`, `ResponsesToldApart` (`AcceptsOwnOnly`), `NoVainWait` (`AwaitedExists`) |
| `ReactivesRefinement` | `RequestsKeepPromise` (`KeepsPromise`) |
| `SimulationProofs` | `SimTypeCorrect`, `ElapsedRequestsUnanswered` (`ElapsedIsUnanswered`), `ElapsedCallsComplete` (`ElapsedIsComplete`), `TimersFireOnTime` (`FiresOnTime`) |
| `AggregatorProofs` | `TypeCorrect`, `OneRequestAtATime` (`OneRequestOut`), `ReportsFresh` (`ReportIsFresh`), `ReportsComplete` (`ReportIsComplete`) |

The proofs rest on the `ASSUME`s of the modules, which TLC evaluates in every run: the
capacities of channels are positive, bounds are natural numbers, the choices of
deadlines, operations and names come from the sets that their comments name, and
`Infinity` and `DurationMax` are not numbers (`NoClockValue`). Two were added for the
proofs: a dispatcher has finitely many clients (`ClientsAssumption`; they are threads),
and the program that drives a simulation is not one of its actors (`ProgramAssumption`).
`NoIdReuse` is no assumption of a module but a hypothesis of the theorems that need it:
ids that wrap around after 2^32 are the one way in which those properties can fail.

Two of the provers' limits shape the modules. Recursion is written as recursive
functions (`Dropped` of `Simulation`, `Extended` of `Aggregator`), and facts about lists of
any length are shown without an induction theorem: suppose that the claim fails somewhere,
take the first place (`LeastNatural`, `LeastOf`, from `WFMin` of the library), and find an
earlier one. That such a function satisfies its own equation is shown in the same way
(`TurnsExist`, `DropTurnsExist`).

### Timers

`TimersProofs` proves, for any set of actors and timers, any capacity of the queue
and any deadlines and durations:

* `TypeCorrect`: `Spec => []TypeOK`.
* `TimersCorrect`: `Spec => []Safe`, where `Safe` is the conjunction of
  `ArmedTimerNotLost`, `OneTimeoutInQueue`, `OneTimeoutPerScheduling` and
  `DeadlineOrder`, under `NoIdReuse` (`MaxSchedulings <= IdSpace`: fewer than 2^32
  schedulings in the life of a dispatcher). One corollary for each part.
* `TimersNeverEarly`: no running timer fires before its deadline (same assumption).
* `DispatcherNoOversleep`: the dispatcher waits past the first deadline by at most `lost`,
  what the clock moved between reading it and waiting. It needs no assumption on ids. From
  `NoneMature` to the end of the wait the list does not change, and `NoLongWait` says that
  before the wait now plus the duration is at most the first deadline plus `lost`.
* `NextTimeoutDetermined`: a list that is not empty has exactly one first entry. The
  model chooses an entry with `IsFirst`; the code takes the first of a `BTreeMap`.
  Without this theorem the model could stop where the code goes on, or choose where the
  code cannot.

The inductive invariant is `IInv`: `TypeOK`, `Safe`, and two facts. `FreshIds`: while
schedulings are left, the next id is the number of schedulings, so that it is not in
use; this is where `NoIdReuse` is needed. `NoTestsOutsideHandler`: no timer counts as
asked before a handler starts, so a Timeout that was just taken from the queue is
`Delivered` to its timer. The parts of `Safe` depend on each other: a timer is not
lost when another one fires because ids are distinct; ids are distinct in flight
because one Timeout is queued at a time. The lemmas treat first what can be done to
the queue (`AppendFacts`, `TailFacts`, `InFlightIds`), then each action.

The lemmas on the list are about its order: `BeforeOrder` and `PrecedesOrder` (instants
with the infinite one, and then keys, are in a strict total order), `FirstExists` and
`FirstUnique`, and `WaitIsExact` (now plus the saturating difference is the deadline, or
now when it has passed), which `Simulation` needs for its jumps.

### Dispatcher

`DispatcherProofs` proves, for any finite set of clients, any of the operations and any
capacities, numbers of actors and numbers of requests, five theorems from one inductive
invariant `IInv`, whose parts need each other:

* `InPlace`: by what became of a request (`fate`) it is in the queue or with the
  `StopDispatcher` under execution, once, or a response to it is in its client's mailbox,
  at most once.
* `StopWithPc`: there is a `StopDispatcher` under execution just where the thread is
  `drain` or `clear`.
* `Owed`: what was queued behind it is still in the queue or settled; with `clear` that
  means settled, which is `StopOrder`.
* `VersionsCounted`, `IdsCounted`: versions and ids are below their counters.
* `Told`: what a client was told or will be told by a response in its mailbox is true
  of `reactive_list`. `EffectsLast` speaks of those told only; it is not inductive, since
  the response is sent while the registry changes and read much later.
* `KeptOK`: a behavior has a request that was taken and not answered, once, and the version
  that took it is not above that of the reactive by now, so a late response tells nothing false.
* `Refusals`: a request whose error answer is still to be sent is the last one of a client that
  is about to send it.
* `Patience`, `PatientMailboxHasRoom`: what a client without time limit has in the queue,
  refused, with a behavior or in its mailbox is about the request it waits for. By `InPlace`,
  `KeptOK` and `Refusals` there is one of these, once, so the mailbox is empty when the
  response is sent.

`DispatcherRefinement` proves that `Dispatcher` implements `RequestReply`, without
further assumptions, from the same invariant. The
status of a request is read from its fate and the mailbox (`StatusIn`); the lemmas say
what queuing, answering, refusing, keeping and taking do to it, and the closing of the channel with
requests in it is the `End` of a participant.

### Mailbox

`MailboxProofs` proves, for any set of mailboxes of either kind, any types and
capacity and any number of requests and notifications:

* `TypeCorrect`: `Spec => []TypeOK`.
* `AnswerNeverMissed`: `Spec => []AnswerNotMissed`.
* `MessagesOnce`: `Spec => []EachMessageOnce`.
* `OvertakingOnlyAside`: `Spec => OvertakesOnlyAside`.
* `MailboxesKeepPromise`: `Spec => KeepsPromise`, without further assumptions.

`AnswerNotMissed` speaks of requests that were answered with an error or with data of their
type, and claims that the channel has such a response. It is not inductive alone: which
type a response answers is decided when it is sent, by the request, and compared with what
the owner waits for when it is received. The invariant adds `RequestsKnown` (a request that
nobody responded to yet, wherever it is, is the last one of its sender and, while that one
waits, of the type it waits for, or an earlier one), `ResponsesKnown` (no response in a
channel is to a request not made yet) and `WaitingHasId`. Lemmas say what
sending (`Delivered`, `Answered`, `RequestSent`) and receiving (`Received`) do to the
channels; `KnownKept` and `AnswerKept` carry the invariant over the steps that send
neither requests nor responses.

The other three need to know where every message is, and how often. `PInv` adds
`Places`, which speaks of channel and list together:

* `PlacedOnce`: a message is at one place of the channel or the list, once, and was not
  handed to the owner; notifications in the channel are in the order of sending, and those
  in the list were sent before them.
* `NotificationsKept`: what is in the two places and what was handed over are together
  what the mailbox accepted, while it is open.
* `ResponsesKept`: there is one response, in a place or taken, to a request that was
  answered into an open mailbox, and none to one that was not.
* `RequestsKept`: an unanswered request is with exactly one mailbox, in a place or held.
* `Made`: requests not made yet are `unsent`; a dropped mailbox is empty and does not wait.

and `MistypedKnown`: a response of another type is an ok one, and never one that its owner's
`request_for` would return. This is why an owner may give up with such a response in its list
although the refinement forbids it for an answer.

`EachMessageOnce` compares what was handed over with what was accepted and is not
inductive without the places in between; that an answer is given once needs
`RequestsKept`, that it is taken once needs `ResponsesKept`. For the refinement `StatusBy`
reads the status of a request from its fate and the pending responses, and there is one
lemma for each kind of step (`RequestStep`, `RespondsStep`, `ReceiveStep`, `HandStep`,
`ReturnStep`, `DropStep`, ...); a dropped future is the abstract sender giving up.

### Reactives

`ReactivesProofs` proves, for any dispatchers, reactives and homes, any capacity and any
number of messages:

* `TypeCorrect`: `Spec => []TypeOK`.
* `ResponsesToldApart`: `Spec => []AcceptsOwnOnly`, under `NoIdReuse` (the reactives of a
  dispatcher make fewer requests than there are ids, 2^32 in the code).
* `NoVainWait`: `Spec => []AwaitedExists`, under the same assumption.

`AcceptsOwnOnly` compares the id that a behavior sees with the number that it does not
see, so the invariant must know both wherever a message can be: `Numbered` says that the
counter of a dispatcher is the number of requests made there, and that id and number agree
in every queued, refused and held message and in what is awaited. This is where
`NoIdReuse` is needed. `NoVainWait` needs more: `AwaitedOK` (what is awaited is
`Somewhere`, in a queue, refused, held, answered or lost), and `RegisteredOK` (a reactive
that is unregistered awaits nothing; the response to it can be thrown away). A step takes
some messages away; `AwaitedKept` reduces each action to what becomes of these.

`ReactivesRefinement` proves, under the same assumption, that `Reactives` implements
`RequestReply`:

* `RequestsKeepPromise`: `Spec => KeepsPromise`.

The invariant `RInv` adds `Unique` to that of `NoVainWait`: no two messages are about the
same request, in the queues, refused or held, and every message is about a request that was
made. It is needed because a status is what is found somewhere: if a request were in two
places, answering it once would leave it open and answering it twice would turn an error
into an ok answer. The lemmas `PlacesShrink`, `SentUnique`, `RefusedUnique` and `HeldUnique`
say what taking a message away and putting it somewhere does to the places; each action is
one after the other (`UniqueNext`). For the steps, `Fixed` says that nothing becomes of the
messages about one request, so that its status stays (`StatusKept`); `StatBecomes` turns
the one status that changes into a step of `RequestReply`. There is one lemma for each kind
of step: `StepAsk`, `StepRequest`, `StepAnswer` (refused requests, requests for nobody,
and responses), `StepResponse`, `StepDrop` (the `End` of a participant), and `Stutters`.

### Simulation

`SimulationProofs` extends `TimersProofs` and proves, for any actors, timers, calls,
instants, durations and capacities:

* `SimTypeCorrect`, `ElapsedRequestsUnanswered` and `ElapsedCallsComplete`, from `SimInv`:
  the type, and five facts. `ListedInTime`: no entry of the list has a deadline in
  the past, unless it was scheduled too late. `MayJump`: where the loop looks at the
  timers no Timeout is queued and the call is not over. By `WaitIsExact` the jump ends at
  the first deadline or at the end of the call, so `ListedInTime` is kept (`Jump`).
  `QueueSeenEmpty` and `MailboxSeenEmpty`: after the look that found nothing there is only what
  others sent since, which is counted by `late` and has no responses in it. `RequestThere`: the
  request of the current call is in the queue, with a behavior, or there is a message in the
  mailbox that the next look finds; so at the end of the time, when nobody can be
  answered without the program seeing it, the behavior still has the request.
* `TimersFireOnTime`: `SimSpec => FiresOnTime`, under `NoIdReuse`. `FiringInv` adds that ids
  are fresh, that the ids of handles, entries and messages have been given out
  (`IdsKnown`), that an entry with the id of a timer is this timer's (`OwnEntry`), and
  that the Timeout of a running timer was sent on time (`InFlightOnTime`). After a
  replacement the old behavior's entries and Timeouts remain; `IdsKnown` and fresh ids keep
  them from matching a new handle.

`Dropped` lists the requests that `StopDispatcher` answers when it empties the queue. The
proof of the type covers queues of any length, with the answers that find no room in the
mailbox.

### Aggregator

`AggregatorProofs` proves, for any actors, names, selections and number of snapshots, four
theorems from one invariant: `TypeOK`, `OneRequestOut`, and `InProgress`, which says of the
list of names of a snapshot how far it is asked: the registered names up to
`requested_index` have metrics of this snapshot or were registered in the middle of it,
except for the one that is asked now, and every name selected since the snapshot began is
in the list. The lemmas say what the list operators do: `Ascending` lists the names of a
set (`AscendingList`), and `Extended` keeps the list and adds what it lacks, each name once
(`ExtendedList`).

### Model-checked only

The liveness properties stay with TLC, because fairness and ENABLED are outside what the
prover handles: `ArmedTimerSettles`, `PatientReturns`, `StopEnds`, `LimitedReturns`,
`QueuesDrain`, `SnapshotEnds`, `CallReturns` and `StopReturns`. So do the counterexamples
of the six runs that find a violation, which need no proof.

## Not modelled

The metrics of `profiled_actor` are floating-point folds, `ReactiveMocker` is a
wrapper around a mocking library, and the macros generate code; none of them has a
state machine. The error kinds, the data of messages and the durations of
requests are abstracted throughout.

## Plan

1. The consequences of `RequestReply` once, for the abstract specification (an ok answer
   closes its own request, a closed request stays closed), to be carried to the three
   modules that implement it. The two refinement modules would first be joined with the
   proofs they extend.
2. The metrics of `profiled_actor` with numbers in place of floating point: `records` and
   `snapshot`, and what is lost when the response finds no room.
