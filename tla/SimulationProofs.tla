--------------------------- MODULE SimulationProofs ---------------------------
(***************************************************************************)
(* Proofs about Simulation for any actors, timers, calls and queue sizes:  *)
(* type correctness, what a call that elapsed leaves behind, and, as long  *)
(* as the timeout ids do not wrap around, that timers fire on time.        *)
(***************************************************************************)
EXTENDS Simulation, TimersProofs

USE NoClockValue, ActorsAssumption, OwnerAssumption, QueueSizeAssumption,
    IdSpaceAssumption, ChoicesAssumption, BoundsAssumption,
    SpansAssumption, MailboxSizeAssumption, CallBoundsAssumption, ProgramAssumption

-------------------------------------------------------------------------------
(* The invariant.                                                          *)

\* The messages that are sent when so many requests were made.
Sent(requests) ==
    Messages \cup [kind : {"Request"}, id : 1 .. requests, dst : Actors]
             \cup [kind : {"Stop"}, id : 0 .. requests, src : Actors]
             \cup [kind : {"Stop"}, id : 1 .. requests, src : {Program}]

SimTypeInv ==
    /\ SimTypeOK
    /\ next_timeout_id \in TimeoutIds /\ schedulings \in 0 .. MaxSchedulings
    /\ calls \in 0 .. MaxCalls /\ request_id \in 0 .. calls
    /\ msg.dst \in Actors
    /\ queue \in Seq(Sent(request_id))

\* Entries whose deadline is over were scheduled too late.
ListedInTime == \A k \in DOMAIN timeout_list : Before(k.deadline, now) => k.id \in overdue

\* The time can jump when no Timeout is on its way and the call is not over.
MayJump == pc = "timeout" => TimeoutPositions = {} /\ Before(now, instant)

\* After the queue was seen empty it holds what was sent since, and these are notifications.
QueueSeenEmpty ==
    pc \in {"check", "cond"} /\ ~message_processed =>
        /\ Len(queue) <= late
        /\ \A i \in 1 .. Len(queue) : queue[i].kind = "Notification"

\* After the mailbox was seen empty it holds nothing but notifications.
MailboxSeenEmpty == pc = "cond" /\ call # "process" => mailbox \in Seq({Notice})

\* Where the request of the current call is: in the queue, with the behavior, or answered,
\* unless the answer found no room, and then the mailbox will be found full.
OfCall(m) == IsOfProgram(m) /\ m.id = request_id
InQueue == \E i \in 1 .. Len(queue) : OfCall(queue[i])
IsHeld  == \E h \in held : h.id = request_id
Answered == mailbox # <<>> /\ pc \in {"try", "handle", "check"}

RequestThere ==
    call = "request" /\ pc \notin {"outside", "stop"} => InQueue \/ IsHeld \/ Answered

SimInv == /\ SimTypeInv /\ ListedInTime /\ MayJump
          /\ QueueSeenEmpty /\ MailboxSeenEmpty /\ RequestThere

\* Ids were generated, the entry with the id of a running timer is its own, and what is
\* on its way to it is on time.
IdsKnown == IdsListed \cup IdsInFlight \cup IdsArmed \subseteq 0 .. schedulings - 1
OwnEntry ==
    \A t \in Timers : Armed(t) => \A k \in DOMAIN timeout_list : k.id = timer[t].id => k = timer[t]
InFlightOnTime ==
    \A t \in Timers : Armed(t) /\ timer[t].id \in IdsInFlight =>
        timer[t].deadline = now \/ timer[t].id \in overdue

FiringInv == FreshIds /\ IdsKnown /\ OwnEntry /\ InFlightOnTime

-------------------------------------------------------------------------------
(* Recursion.                                                              *)

\* One turn of the loop over the queue that is dropped, and the function of all turns.
DropTurn(q, dropped, n) ==
    IF IsOfProgram(q[n]) THEN Append(dropped, q[n]) ELSE dropped
DropTurns(f, q, last) ==
    f = [n \in 0 .. last |-> IF n <= 1 THEN <<>> ELSE DropTurn(q, f[n - 1], n)]

LEMMA DropTurnsExist ==
    ASSUME NEW q, NEW last \in Nat
    PROVE  \E f : DropTurns(f, q, last)
  <1>. DEFINE T == {n \in Nat : ~\E f : DropTurns(f, q, n)}
  <1>1. SUFFICES ASSUME T # {} PROVE FALSE
    OBVIOUS
  <1>2. PICK n \in T : \A m \in T : n <= m
    <2>1. T \in SUBSET Nat
      OBVIOUS
    <2>. HIDE DEF T
    <2>. QED
      BY <1>1, <2>1, LeastOf
  <1>3. n \in Nat /\ ~\E f : DropTurns(f, q, n)
    OBVIOUS
  <1>4. CASE n = 0
    <2>. DEFINE f == [k \in 0 .. 0 |-> <<>>]
    <2>1. f = [k \in 0 .. 0 |-> IF k <= 1 THEN <<>> ELSE DropTurn(q, f[k - 1], k)]
      OBVIOUS
    <2>2. DropTurns(f, q, 0)
      <3>. HIDE DEF f
      <3>. QED
        BY <2>1 DEF DropTurns
    <2>. QED
      BY <1>3, <1>4, <2>2
  <1>5. CASE n # 0
    <2>1. n - 1 \in Nat /\ n - 1 \notin T
      <3>1. \A m \in T : n <= m
        BY <1>2
      <3>. HIDE DEF T
      <3>. QED
        BY <1>3, <1>5, <3>1
    <2>2. PICK g : DropTurns(g, q, n - 1)
      BY <2>1
    <2>. DEFINE last_turn == IF n <= 1 THEN <<>> ELSE DropTurn(q, g[n - 1], n)
                f == [k \in 0 .. n |-> IF k = n THEN last_turn ELSE g[k]]
    <2>3. \A k \in 0 .. n - 1 : /\ f[k] = g[k]
                                /\ g[k] = IF k <= 1 THEN <<>> ELSE DropTurn(q, g[k - 1], k)
      BY <1>3, <2>2 DEF DropTurns
    <2>4. f[n] = IF n <= 1 THEN <<>> ELSE DropTurn(q, g[n - 1], n)
      BY <1>3
    <2>5. f = [k \in 0 .. n |-> f[k]]
      OBVIOUS
    <2>. HIDE DEF f, last_turn
    <2>6. \A k \in 0 .. n : f[k] = IF k <= 1 THEN <<>> ELSE DropTurn(q, f[k - 1], k)
      <3>. TAKE k \in 0 .. n
      <3>1. CASE k <= 1 /\ k # n
        <4>1. k \in 0 .. n - 1
          BY <1>3, <3>1
        <4>. QED
          BY <2>3, <3>1, <4>1
      <3>2. CASE ~(k <= 1) /\ k # n
        <4>1. k \in 0 .. n - 1 /\ k - 1 \in 0 .. n - 1
          BY <1>3, <3>2
        <4>. QED
          BY <2>3, <3>2, <4>1
      <3>3. CASE k = n
        <4>1. n - 1 \in 0 .. n - 1
          BY <2>1
        <4>. QED
          BY <2>3, <2>4, <3>3, <4>1
      <3>. QED
        BY <3>1, <3>2, <3>3
    <2>7. f = [k \in 0 .. n |-> IF k <= 1 THEN <<>> ELSE DropTurn(q, f[k - 1], k)]
      BY <2>5, <2>6
    <2>8. DropTurns(f, q, n)
      BY <2>7 DEF DropTurns
    <2>. QED
      BY <1>3, <2>8
  <1>. QED
    BY <1>4, <1>5

\* What is dropped are requests of the queue.
LEMMA DroppedRequests ==
    ASSUME NEW S, queue \in Seq(S)
    PROVE  Dropped \in Seq({m \in S : IsOfProgram(m)})
  <1>. DEFINE R == {m \in S : IsOfProgram(m)}
              dropped[n \in 0 .. Len(queue)] ==
                  IF n <= 1 THEN <<>>
                  ELSE IF IsOfProgram(queue[n]) THEN Append(dropped[n - 1], queue[n])
                  ELSE dropped[n - 1]
  <1>0. Len(queue) \in Nat /\ \A n \in 1 .. Len(queue) : queue[n] \in S
    OBVIOUS
  <1>1. \E f : f = [n \in 0 .. Len(queue) |->
                       IF n <= 1 THEN <<>>
                       ELSE IF IsOfProgram(queue[n]) THEN Append(f[n - 1], queue[n])
                       ELSE f[n - 1]]
    <2>1. PICK f : DropTurns(f, queue, Len(queue))
      BY <1>0, DropTurnsExist
    <2>2. f = [n \in 0 .. Len(queue) |->
                  IF n <= 1 THEN <<>>
                  ELSE IF IsOfProgram(queue[n]) THEN Append(f[n - 1], queue[n])
                  ELSE f[n - 1]]
      BY <2>1 DEF DropTurns, DropTurn
    <2>. QED
      BY <2>2
  <1>2. dropped = [n \in 0 .. Len(queue) |->
                      IF n <= 1 THEN <<>>
                      ELSE IF IsOfProgram(queue[n]) THEN Append(dropped[n - 1], queue[n])
                      ELSE dropped[n - 1]]
    BY <1>1
  <1>3. Dropped = dropped[Len(queue)]
    BY DEF Dropped
  <1>. HIDE DEF dropped
  <1>4. \A n \in 0 .. Len(queue) :
            dropped[n] = IF n <= 1 THEN <<>> ELSE DropTurn(queue, dropped[n - 1], n)
    BY <1>2 DEF DropTurn
  <1>. DEFINE T == {n \in 0 .. Len(queue) : dropped[n] \notin Seq(R)}
  <1>5. CASE T = {}
    <2>1. Len(queue) \in 0 .. Len(queue) /\ Len(queue) \notin T
      BY <1>0, <1>5
    <2>2. dropped[Len(queue)] \in Seq(R)
      <3>. HIDE DEF R
      <3>. QED
        BY <2>1
    <2>. QED
      BY <1>3, <2>2
  <1>6. CASE T # {}
    <2>1. PICK n \in T : \A m \in T : n <= m
      <3>1. T \in SUBSET Nat
        BY <1>0
      <3>. HIDE DEF T
      <3>. QED
        BY <1>6, <3>1, LeastOf
    <2>2. n \in 0 .. Len(queue) /\ dropped[n] \notin Seq(R)
      OBVIOUS
    <2>3. CASE n <= 1
      <3>1. dropped[n] = <<>>
        BY <1>4, <2>2, <2>3
      <3>. QED
        BY <2>2, <3>1
    <2>4. CASE ~(n <= 1)
      <3>1. n - 1 \in 0 .. Len(queue) /\ n \in 1 .. Len(queue) /\ ~(n <= n - 1)
        BY <1>0, <2>2, <2>4
      <3>2. n - 1 \notin T
        <4>. HIDE DEF T
        <4>. QED
          BY <2>1, <3>1
      <3>3. dropped[n - 1] \in Seq(R)
        BY <3>1, <3>2
      <3>4. dropped[n] = DropTurn(queue, dropped[n - 1], n)
        BY <1>4, <2>2, <2>4
      <3>5. DropTurn(queue, dropped[n - 1], n) \in Seq(R)
        <4>1. CASE IsOfProgram(queue[n])
          <5>1. queue[n] \in R
            BY <1>0, <3>1, <4>1
          <5>. HIDE DEF R
          <5>. QED
            BY <3>3, <4>1, <5>1 DEF DropTurn
        <4>2. CASE ~IsOfProgram(queue[n])
          BY <3>3, <4>2 DEF DropTurn
        <4>. QED
          BY <4>1, <4>2
      <3>. QED
        BY <2>2, <3>4, <3>5
    <2>. QED
      BY <2>3, <2>4
  <1>. QED
    BY <1>5, <1>6

-------------------------------------------------------------------------------
(* The messages.                                                           *)

LEMMA SentKinds ==
    ASSUME NEW n \in Nat, NEW m \in Sent(n)
    PROVE  /\ m.kind \in {"Timeout", "Notification", "Request", "Stop"}
           /\ m.kind \in {"Timeout", "Notification"} => m \in Messages
           /\ m.kind = "Request" => /\ m.id \in 1 .. n /\ m.dst \in Actors
                                    /\ m = Request(m.id, m.dst)
           /\ m.kind = "Stop" => /\ m.id \in 0 .. n /\ m.src \in Actors \cup {Program}
                                 /\ m.src = Program => m.id \in 1 .. n
           /\ m.kind # "Stop" => m.dst \in Actors
  BY DEF Sent, Messages, Request

LEMMA SentGrows ==
    ASSUME NEW n \in Nat, NEW l \in Nat, n <= l
    PROVE  Sent(n) \subseteq Sent(l)
  BY DEF Sent

LEMMA SentForms ==
    ASSUME NEW n \in Nat, NEW a \in Actors
    PROVE  /\ Notification(a) \in Sent(n)
           /\ \A i \in TimeoutIds : Timeout(i, a) \in Sent(n)
           /\ \A i \in 1 .. n : Request(i, a) \in Sent(n) /\ Stop(Program, i) \in Sent(n)
           /\ Stop(a, 0) \in Sent(n)
  <1>1. Notification(a) \in Messages /\ \A i \in TimeoutIds : Timeout(i, a) \in Messages
    BY DEF Notification, Timeout, Messages
  <1>2. \A i \in 1 .. n : /\ Request(i, a) \in [kind : {"Request"}, id : 1 .. n, dst : Actors]
                          /\ Stop(Program, i) \in [kind : {"Stop"}, id : 1 .. n, src : {Program}]
    BY DEF Request, Stop
  <1>3. Stop(a, 0) \in [kind : {"Stop"}, id : 0 .. n, src : Actors]
    BY DEF Stop
  <1>. QED
    BY <1>1, <1>2, <1>3 DEF Sent

\* A longer sequence, one that begins with another one, and one of a wider type.
LEMMA Longer ==
    ASSUME NEW S, NEW s \in Seq(S), NEW x \in S
    PROVE  /\ Append(s, x) \in Seq(S) /\ Len(s) \in Nat /\ Len(Append(s, x)) = Len(s) + 1
           /\ \A i \in 1 .. Len(s) : Append(s, x)[i] = s[i]
           /\ Append(s, x)[Len(s) + 1] = x
  OBVIOUS

LEMMA Shorter ==
    ASSUME NEW S, NEW s \in Seq(S), s # <<>>
    PROVE  /\ Tail(s) \in Seq(S) /\ Len(s) \in Nat \ {0} /\ Len(Tail(s)) = Len(s) - 1
           /\ \A i \in 1 .. Len(s) - 1 : Tail(s)[i] = s[i + 1]
           /\ Head(s) = s[1] /\ Head(s) \in S
  OBVIOUS

LEMMA WiderSeq ==
    ASSUME NEW S, NEW R, S \subseteq R, NEW s \in Seq(S)
    PROVE  s \in Seq(R)
  OBVIOUS

\* try_send keeps the capacity of the mailbox.
LEMMA PostType ==
    ASSUME NEW S, mailbox \in Seq(S), NEW ms \in Seq(S), Post(ms)
    PROVE  mailbox' \in Seq(S) /\ Len(mailbox') <= MailboxSize
  <1>1. PICK all : all = mailbox \o ms
    OBVIOUS
  <1>2. all \in Seq(S) /\ Len(all) \in Nat
    BY <1>1
  <1>3. mailbox' = SubSeq(all, 1, IF Len(all) < MailboxSize THEN Len(all) ELSE MailboxSize)
    BY <1>1 DEF Post
  <1>4. CASE Len(all) < MailboxSize
    BY <1>2, <1>3, <1>4
  <1>5. CASE ~(Len(all) < MailboxSize)
    <2>1. mailbox' = SubSeq(all, 1, MailboxSize) /\ MailboxSize \in Nat /\ MailboxSize <= Len(all)
      BY <1>2, <1>3, <1>5
    <2>. QED
      BY <1>2, <2>1
  <1>. QED
    BY <1>4, <1>5

LEMMA ResponseType ==
    ASSUME NEW i \in 1 .. MaxCalls, NEW ok \in BOOLEAN
    PROVE  Response(i, ok) \in MailboxMessages /\ <<Response(i, ok)>> \in Seq(MailboxMessages)
  <1>1. Response(i, ok) \in MailboxMessages
    BY DEF Response, MailboxMessages
  <1>. QED
    BY <1>1

-------------------------------------------------------------------------------
(* The types, part by part.                                                *)

TimersOK ==
    /\ now \in Nat /\ timer \in [Timers -> Handles] /\ IsTimeoutList(timeout_list)
    /\ next_timeout_id \in TimeoutIds /\ schedulings \in 0 .. MaxSchedulings
    /\ overdue \subseteq TimeoutIds

QueueOK ==
    /\ calls \in 0 .. MaxCalls /\ request_id \in 0 .. calls
    /\ queue \in Seq(Sent(request_id)) /\ Len(queue) <= QueueSize
    /\ msg.dst \in Actors

LoopOK ==
    /\ pc \in {"outside", "try", "handle", "check", "cond", "timeout", "stop"}
    /\ call \in {"process", "wait", "request"}
    /\ instant \in Instants
    /\ message_processed \in BOOLEAN
    /\ result \in Results /\ (result = "none" <=> pc # "outside")
    /\ late \in Nat

ActorsOK ==
    /\ mailbox \in Seq(MailboxMessages) /\ Len(mailbox) <= MailboxSize
    /\ reactive_list \subseteq Actors
    /\ \A h \in held : /\ h.id \in 1 .. request_id /\ h.dst \in reactive_list
                       /\ h = Request(h.id, h.dst)

LEMMA Parts == SimTypeInv <=> TimersOK /\ QueueOK /\ LoopOK /\ ActorsOK
  <1>1. ASSUME SimTypeInv PROVE TimersOK /\ QueueOK /\ LoopOK /\ ActorsOK
    <2>1. TimersOK /\ QueueOK /\ LoopOK
      BY <1>1 DEF SimTypeInv, SimTypeOK, TimersOK, IsTimeoutList, QueueOK, LoopOK
    <2>2. ActorsOK
      BY <1>1 DEF SimTypeInv, SimTypeOK, ActorsOK, Request
    <2>. QED
      BY <2>1, <2>2
  <1>2. ASSUME TimersOK, QueueOK, LoopOK, ActorsOK PROVE SimTypeInv
    <2>1. PICK n : n = request_id
      OBVIOUS
    <2>2. n \in Nat /\ n <= MaxCalls /\ queue \in Seq(Sent(n))
      BY <1>2, <2>1 DEF QueueOK
    <2>3. Sent(n) \subseteq Messages \cup SimRequests
      BY <2>2 DEF Sent, SimRequests
    <2>4. queue \in Seq(Messages \cup SimRequests)
      BY <2>2, <2>3, WiderSeq
    <2>5. held \subseteq {Request(i, a) : i \in 1 .. request_id, a \in reactive_list}
      BY <1>2 DEF ActorsOK
    <2>. QED
      BY <1>2, <2>4, <2>5
      DEF SimTypeInv, SimTypeOK, TimersOK, IsTimeoutList, QueueOK, LoopOK, ActorsOK
  <1>. QED
    BY <1>1, <1>2

\* What unscheduling leaves of the list.
LEMMA Unscheduled ==
    ASSUME IsTimeoutList(timeout_list), NEW t
    PROVE  /\ IsTimeoutList(ListAfterUnschedule(t))
           /\ DOMAIN ListAfterUnschedule(t) \subseteq DOMAIN timeout_list
  <1>1. CASE ListAfterUnschedule(t) = timeout_list
    BY <1>1
  <1>2. CASE ListAfterUnschedule(t) = RemoveKey(timeout_list, timer[t])
    <2>1. /\ IsTimeoutList(RemoveKey(timeout_list, timer[t]))
          /\ DOMAIN RemoveKey(timeout_list, timer[t]) = DOMAIN timeout_list \ {timer[t]}
      BY RemoveKeyType
    <2>. QED
      BY <1>2, <2>1
  <1>3. \/ ListAfterUnschedule(t) = timeout_list
        \/ ListAfterUnschedule(t) = RemoveKey(timeout_list, timer[t])
    BY DEF ListAfterUnschedule
  <1>. QED
    BY <1>1, <1>2, <1>3

\* How far the time jumps: to an instant of the clock, and not over a deadline.
LEMMA Jump ==
    ASSUME TimersOK, LoopOK, MayJump, Advance
    PROVE  /\ now' \in Nat /\ now <= now'
           /\ \A k \in DOMAIN timeout_list : Before(k.deadline, now') => Before(k.deadline, now)
  <1>1. /\ pc = "timeout" /\ ToNext # 0 /\ now' = NextInstant(ToNext) /\ now \in Nat
        /\ instant \in Instants /\ Before(now, instant)
        /\ \A k \in DOMAIN timeout_list : k.deadline \in Instants
    BY DEF Advance, MayJump, TimersOK, LoopOK, IsTimeoutList, Handles
  <1>2. CASE DOMAIN timeout_list = {}
    <2>1. ToNext = DurationMax
      BY <1>2 DEF ToNext
    <2>2. now' = IF instant = Infinity THEN now ELSE instant
      BY <1>1, <2>1 DEF NextInstant
    <2>. QED
      BY <1>1, <1>2, <2>2 DEF Before, Instants
  <1>3. CASE DOMAIN timeout_list # {}
    <2>1. PICK f \in DOMAIN timeout_list :
              IsFirst(f) /\ ToNext = SaturatingSub(f.deadline, now)
      <3>1. \E k \in DOMAIN timeout_list : IsFirst(k)
        BY <1>3, FirstExists DEF TimersOK, IsTimeoutList
      <3>2. PICK f : f = CHOOSE k \in DOMAIN timeout_list : IsFirst(k)
        OBVIOUS
      <3>3. f \in DOMAIN timeout_list /\ IsFirst(f)
        BY <3>1, <3>2
      <3>4. ToNext = SaturatingSub(f.deadline, now)
        BY <1>3, <3>2 DEF ToNext
      <3>. QED
        BY <3>3, <3>4
    <2>2. f.deadline \in Instants
      BY <1>1
    <2>3. \A k \in DOMAIN timeout_list :
              k.deadline = f.deadline \/ Before(f.deadline, k.deadline)
      BY <2>1 DEF IsFirst, Precedes
    <2>4. CASE f.deadline = Infinity
      <3>1. \A k \in DOMAIN timeout_list : k.deadline = Infinity
        BY <2>3, <2>4 DEF Before
      <3>2. ToNext = DurationMax
        BY <1>1, <2>1, <2>4 DEF SaturatingSub
      <3>3. now' = IF instant = Infinity THEN now ELSE instant
        BY <1>1, <3>2 DEF NextInstant
      <3>. QED
        BY <1>1, <3>1, <3>3 DEF Before, Instants
    <2>5. CASE f.deadline # Infinity
      <3>1. f.deadline \in Nat /\ now < f.deadline /\ ToNext = f.deadline - now
        BY <1>1, <2>1, <2>2, <2>5 DEF SaturatingSub, Before, Instants
      <3>2. ToNext # DurationMax /\ Plus(now, ToNext) = f.deadline /\ now + ToNext = f.deadline
        BY <1>1, <3>1 DEF Plus
      <3>3. /\ now' \in Nat /\ now <= now' /\ now' <= f.deadline
        <4>1. CASE Before(f.deadline, instant)
          BY <1>1, <3>1, <3>2, <4>1 DEF NextInstant
        <4>2. CASE ~Before(f.deadline, instant)
          BY <1>1, <3>1, <3>2, <4>2 DEF NextInstant, Before, Instants
        <4>. QED
          BY <4>1, <4>2
      <3>4. ASSUME NEW k \in DOMAIN timeout_list PROVE ~Before(k.deadline, now')
        BY <1>1, <2>3, <3>1, <3>3 DEF Before, Instants
      <3>. QED
        BY <3>3, <3>4
    <2>. QED
      BY <2>4, <2>5
  <1>. QED
    BY <1>2, <1>3

-------------------------------------------------------------------------------
(* Each part is kept.                                                      *)

\* The steps that leave the scheduler, the handles and the clock alone.
QuietAction ==
    \/ TryEmpty \/ SimDispatch \/ DispatchToNone \/ SimStop \/ ReturnStopped
    \/ BreakWithMessage \/ NoMessage \/ Elapse \/ Continue \/ Break \/ SimReturn
    \/ \E end \in CallEnds :
        Process(end) \/ WaitUntil(end) \/ \E r \in NextRequests : RequestUntil(r, end)
    \/ \E r \in held : Respond(r)
    \/ NotifyMailbox
    \/ SendStop
    \/ \E a \in Actors : SimSend(a)

LEMMA Quiet ==
    ASSUME QuietAction \/ UNCHANGED allVars
    PROVE  UNCHANGED <<now, timer, timeout_list, next_timeout_id, schedulings, overdue>>
  <1>. USE DEF timerVars, schedulerVars, waitVars, loopVars, vars, simVars, actorVars, callVars,
               senderVars
  <1>1. CASE TryEmpty \/ SimDispatch \/ DispatchToNone \/ SimStop \/ SimReturn
    BY <1>1 DEF TryEmpty, SimDispatch, Dispatch, DispatchToNone, SimStop, SimReturn, ReturnTo
  <1>2. CASE ReturnStopped \/ BreakWithMessage \/ NoMessage \/ Elapse \/ Continue \/ Break
    BY <1>2 DEF ReturnStopped, BreakWithMessage, NoMessage, Elapse, Continue, Break, ReturnWith
  <1>3. ASSUME NEW end, NEW r, Process(end) \/ WaitUntil(end) \/ RequestUntil(r, end)
        PROVE  UNCHANGED <<now, timer, timeout_list, next_timeout_id, schedulings, overdue>>
    BY <1>3 DEF Process, WaitUntil, RequestUntil, Begin
  <1>4. ASSUME NEW r, Respond(r)
        PROVE  UNCHANGED <<now, timer, timeout_list, next_timeout_id, schedulings, overdue>>
    BY <1>4 DEF Respond
  <1>5. CASE NotifyMailbox \/ SendStop
    BY <1>5 DEF NotifyMailbox, SendStop
  <1>6. ASSUME NEW a, SimSend(a)
        PROVE  UNCHANGED <<now, timer, timeout_list, next_timeout_id, schedulings, overdue>>
    BY <1>6 DEF SimSend, OtherSend
  <1>7. CASE UNCHANGED allVars
    BY <1>7 DEF allVars
  <1>. QED
    BY <1>1, <1>2, <1>3, <1>4, <1>5, <1>6, <1>7 DEF QuietAction

\* The other ones.
TimerAction ==
    \/ SendTimeout /\ UNCHANGED simVars
    \/ SendTimeoutFull /\ UNCHANGED simVars
    \/ Advance
    \/ \E a \in Actors : Replace(a)
    \/ \E t \in Timers :
        \/ SimIsScheduling(t)
        \/ SimUnschedule(t)
        \/ \E i \in Instants : SimScheduleUntil(t, i)

LEMMA Actions ==
    ASSUME TimersOK, SimNext
    PROVE  QuietAction \/ TimerAction
  <1>1. ASSUME NEW d \in Delays PROVE Plus(now, d) \in Instants
    <2>1. now \in Instants /\ d \in Durations
      BY DEF TimersOK, Instants
    <2>. QED
      BY <2>1, PlusType
  <1>. QED
    BY <1>1 DEF SimNext, SimLoopStep, SimTimeout, QuietAction, TimerAction

LEMMA TimersNext ==
    ASSUME SimTypeInv, MayJump, SimNext
    PROVE  TimersOK'
  <1>. USE DEF senderVars
  <1>0. TimersOK /\ LoopOK
    BY Parts
  <1>1. CASE QuietAction
    BY <1>0, <1>1, Quiet DEF TimersOK, IsTimeoutList
  <1>2. CASE SendTimeout /\ UNCHANGED simVars
    <2>1. PICK k \in DOMAIN timeout_list : timeout_list' = RemoveKey(timeout_list, k)
      BY <1>2 DEF SendTimeout
    <2>2. IsTimeoutList(timeout_list')
      BY <1>0, <2>1, RemoveKeyType DEF TimersOK
    <2>. QED
      BY <1>0, <1>2, <2>2 DEF TimersOK, SendTimeout, simVars
  <1>3. CASE SendTimeoutFull /\ UNCHANGED simVars
    <2>1. PICK k \in DOMAIN timeout_list : timeout_list' = Reinsert(k)
      BY <1>3 DEF SendTimeoutFull
    <2>2. IsTimeoutList(timeout_list')
      BY <1>0, <2>1, RemoveKeyType, InsertKeyType DEF Reinsert, TimersOK, IsTimeoutList
    <2>. QED
      BY <1>0, <1>3, <2>2 DEF TimersOK, SendTimeoutFull, simVars
  <1>4. CASE Advance
    <2>1. now' \in Nat
      BY <1>0, <1>4, Jump
    <2>. QED
      BY <1>0, <1>4, <2>1
      DEF Advance, TimersOK, IsTimeoutList, timerVars, schedulerVars, simVars
  <1>5. ASSUME NEW a \in Actors, Replace(a) PROVE TimersOK'
    <2>1. NewTimer \in Handles
      BY DEF NewTimer, Handles, TimeoutIds, Instants
    <2>2. timer' \in [Timers -> Handles]
      BY <1>0, <1>5, <2>1 DEF Replace, TimersOK
    <2>. QED
      BY <1>0, <1>5, <2>2 DEF Replace, TimersOK, IsTimeoutList, schedulerVars
  <1>6. ASSUME NEW t \in Timers, SimIsScheduling(t) PROVE TimersOK'
    <2>1. timer' \in [Timers -> Handles]
      BY <1>0, <1>6 DEF SimIsScheduling, IsScheduling, Disarmed, Handles, Instants, TimersOK
    <2>. QED
      BY <1>0, <1>6, <2>1
      DEF SimIsScheduling, IsScheduling, TimersOK, IsTimeoutList, schedulerVars, simVars
  <1>7. ASSUME NEW t \in Timers, SimUnschedule(t) PROVE TimersOK'
    <2>1. timer' \in [Timers -> Handles]
      BY <1>0, <1>7 DEF SimUnschedule, Unschedule, Disarmed, Handles, Instants, TimersOK
    <2>2. IsTimeoutList(timeout_list')
      BY <1>0, <1>7, Unscheduled DEF SimUnschedule, Unschedule, TimersOK
    <2>. QED
      BY <1>0, <1>7, <2>1, <2>2 DEF SimUnschedule, Unschedule, TimersOK, simVars
  <1>8. ASSUME NEW t \in Timers, NEW i \in Instants, SimScheduleUntil(t, i) PROVE TimersOK'
    <2>1. PICK k : k = [id |-> next_timeout_id, deadline |-> i]
      OBVIOUS
    <2>2. k \in Handles /\ (next_timeout_id + 1) % IdSpace \in TimeoutIds
      BY <1>0, <2>1 DEF Handles, TimeoutIds, TimersOK
    <2>3. /\ timer' = [timer EXCEPT ![t] = k]
          /\ timeout_list' = InsertKey(ListAfterUnschedule(t), k, Owner[t])
          /\ next_timeout_id' = (next_timeout_id + 1) % IdSpace
          /\ schedulings < MaxSchedulings /\ schedulings' = schedulings + 1
          /\ now' = now
          /\ overdue' = overdue \/ overdue' = overdue \cup {next_timeout_id}
      BY <1>8, <2>1 DEF SimScheduleUntil, ScheduleUntil
    <2>4. timer' \in [Timers -> Handles]
      BY <1>0, <2>2, <2>3 DEF TimersOK
    <2>5. IsTimeoutList(timeout_list')
      <3>1. IsTimeoutList(ListAfterUnschedule(t)) /\ Owner[t] \in Actors
        BY <1>0, Unscheduled DEF TimersOK
      <3>. QED
        BY <2>2, <2>3, <3>1, InsertKeyType
    <2>6. schedulings' \in 0 .. MaxSchedulings
      BY <1>0, <2>3 DEF TimersOK
    <2>. QED
      BY <1>0, <2>2, <2>3, <2>4, <2>5, <2>6 DEF TimersOK
  <1>. QED
    BY <1>0, <1>1, <1>2, <1>3, <1>4, <1>5, <1>6, <1>7, <1>8, Actions DEF TimerAction

\* A message is added to the queue, or taken from it.
LEMMA QueueLonger ==
    ASSUME QueueOK, Len(queue) < QueueSize, NEW m \in Sent(request_id),
           queue' = Append(queue, m), UNCHANGED <<calls, request_id, msg>>
    PROVE  QueueOK'
  <1>1. PICK S : S = Sent(request_id)
    OBVIOUS
  <1>2. queue \in Seq(S) /\ m \in S
    BY <1>1 DEF QueueOK
  <1>3. queue' \in Seq(S) /\ Len(queue) \in Nat /\ Len(queue') = Len(queue) + 1
    BY <1>2, Longer
  <1>4. Sent(request_id') = S
    BY <1>1
  <1>. QED
    BY <1>3, <1>4 DEF QueueOK

LEMMA QueueShorter ==
    ASSUME QueueOK, queue # <<>>
    PROVE  /\ Tail(queue) \in Seq(Sent(request_id)) /\ Len(Tail(queue)) <= QueueSize
           /\ Head(queue) \in Sent(request_id) /\ request_id \in Nat
  <1>1. PICK S : S = Sent(request_id)
    OBVIOUS
  <1>2. queue \in Seq(S) /\ Len(queue) <= QueueSize /\ request_id \in Nat
    BY <1>1 DEF QueueOK
  <1>3. /\ Tail(queue) \in Seq(S) /\ Len(queue) \in Nat \ {0}
        /\ Len(Tail(queue)) = Len(queue) - 1 /\ Head(queue) \in S
    BY <1>2, Shorter
  <1>. QED
    BY <1>1, <1>2, <1>3

LEMMA QueueNext ==
    ASSUME SimTypeInv, SimNext
    PROVE  QueueOK'
  <1>. USE DEF timerVars, schedulerVars, waitVars, loopVars, vars, simVars, actorVars, callVars,
               senderVars
  <1>0. TimersOK /\ QueueOK /\ LoopOK /\ ActorsOK /\ request_id \in Nat
    BY Parts DEF QueueOK
  <1>1. CASE SimDispatch
    <2>1. queue # <<>> /\ msg' = Head(queue) /\ queue' = Tail(queue)
          /\ Head(queue).kind # "Stop" /\ UNCHANGED <<calls, request_id>>
      BY <1>1 DEF SimDispatch, Taking, Dispatch
    <2>2. /\ Tail(queue) \in Seq(Sent(request_id)) /\ Len(Tail(queue)) <= QueueSize
          /\ Head(queue) \in Sent(request_id)
      BY <1>0, <2>1, QueueShorter
    <2>3. msg'.dst \in Actors
      BY <1>0, <2>1, <2>2, SentKinds
    <2>. QED
      BY <1>0, <2>1, <2>2, <2>3 DEF QueueOK
  <1>2. CASE DispatchToNone
    <2>1. queue # <<>> /\ queue' = Tail(queue) /\ UNCHANGED <<msg, calls, request_id>>
      BY <1>2 DEF DispatchToNone, Taking
    <2>2. Tail(queue) \in Seq(Sent(request_id)) /\ Len(Tail(queue)) <= QueueSize
      BY <1>0, <2>1, QueueShorter
    <2>. QED
      BY <1>0, <2>1, <2>2 DEF QueueOK
  <1>3. CASE SimStop
    <2>1. PICK stop : stop = Head(queue)
      OBVIOUS
    <2>2. /\ queue # <<>> /\ stop.kind = "Stop" /\ UNCHANGED <<msg, calls, request_id>>
          /\ IF stop.src = Program THEN queue' = <<>> ELSE queue' = <<Notification(stop.src)>>
      BY <1>3, <2>1 DEF SimStop, Taking
    <2>3. stop \in Sent(request_id)
      BY <1>0, <2>1, <2>2, QueueShorter
    <2>4. stop.src \in Actors \cup {Program}
      BY <1>0, <2>2, <2>3, SentKinds
    <2>5. stop.src # Program => Notification(stop.src) \in Sent(request_id)
      BY <1>0, <2>4, SentForms
    <2>6. queue' \in Seq(Sent(request_id)) /\ Len(queue') <= 1
      <3>1. CASE stop.src = Program
        <4>1. <<>> \in Seq(Sent(request_id)) /\ Len(<<>>) = 0
          OBVIOUS
        <4>. QED
          BY <2>2, <3>1, <4>1
      <3>2. CASE stop.src # Program
        <4>1. PICK m : m = Notification(stop.src)
          OBVIOUS
        <4>2. <<m>> \in Seq(Sent(request_id)) /\ Len(<<m>>) = 1
          BY <2>5, <3>2, <4>1
        <4>3. queue' = <<m>>
          BY <2>2, <3>2, <4>1
        <4>. QED
          BY <4>2, <4>3
      <3>. QED
        BY <3>1, <3>2
    <2>. QED
      BY <1>0, <2>2, <2>6 DEF QueueOK
  <1>4. CASE \/ TryEmpty \/ ReturnStopped \/ BreakWithMessage \/ NoMessage \/ Elapse
             \/ Continue \/ Break \/ SimReturn \/ NotifyMailbox
    <2>1. UNCHANGED <<queue, msg, calls, request_id>>
      BY <1>4 DEF TryEmpty, ReturnStopped, BreakWithMessage, NoMessage, Elapse, Continue, Break,
                  ReturnWith, SimReturn, ReturnTo, NotifyMailbox
    <2>. QED
      BY <1>0, <2>1 DEF QueueOK
  <1>5. ASSUME NEW end, Process(end) \/ WaitUntil(end) PROVE QueueOK'
    <2>1. calls < MaxCalls /\ calls' = calls + 1 /\ UNCHANGED <<queue, msg, request_id>>
      BY <1>5 DEF Process, WaitUntil, Begin
    <2>2. calls' \in 0 .. MaxCalls /\ request_id' \in 0 .. calls'
      BY <1>0, <2>1 DEF QueueOK
    <2>. QED
      BY <1>0, <2>1, <2>2 DEF QueueOK
  <1>6. ASSUME NEW end, NEW r \in NextRequests, RequestUntil(r, end) PROVE QueueOK'
    <2>1. /\ calls < MaxCalls /\ calls' = calls + 1 /\ request_id' = request_id + 1
          /\ UNCHANGED msg
          /\ \/ Len(queue) < QueueSize /\ queue' = Append(queue, r)
             \/ queue' = queue
      BY <1>6 DEF RequestUntil, Begin
    <2>2. calls' \in 0 .. MaxCalls /\ request_id' \in 0 .. calls'
      BY <1>0, <2>1 DEF QueueOK
    <2>3. PICK n : n = request_id + 1
      OBVIOUS
    <2>4. n \in Nat /\ n \in 1 .. n
      BY <1>0, <2>3
    <2>5. \A a \in Actors : Request(n, a) \in Sent(n) /\ Stop(Program, n) \in Sent(n)
      BY <2>4, SentForms
    <2>6. r \in Sent(n)
      BY <2>3, <2>5 DEF NextRequests
    <2>7. Sent(request_id) \subseteq Sent(n)
      <3>1. request_id <= n
        BY <1>0, <2>3
      <3>. QED
        BY <1>0, <2>4, <3>1, SentGrows
    <2>8. queue \in Seq(Sent(n)) /\ Len(queue) <= QueueSize
      <3>1. PICK S : S = Sent(request_id)
        OBVIOUS
      <3>2. PICK R : R = Sent(n)
        OBVIOUS
      <3>3. queue \in Seq(S) /\ S \subseteq R
        BY <1>0, <2>7, <3>1, <3>2 DEF QueueOK
      <3>4. queue \in Seq(R)
        BY <3>3, WiderSeq
      <3>. QED
        BY <1>0, <3>2, <3>4 DEF QueueOK
    <2>9. queue' \in Seq(Sent(n)) /\ Len(queue') <= QueueSize
      <3>1. CASE queue' = queue
        BY <2>8, <3>1
      <3>2. CASE Len(queue) < QueueSize /\ queue' = Append(queue, r)
        <4>1. /\ Append(queue, r) \in Seq(Sent(n)) /\ Len(queue) \in Nat
              /\ Len(Append(queue, r)) = Len(queue) + 1
          BY <2>6, <2>8, Longer
        <4>. QED
          BY <3>2, <4>1
      <3>. QED
        BY <2>1, <3>1, <3>2
    <2>. QED
      BY <1>0, <2>1, <2>2, <2>3, <2>9 DEF QueueOK
  <1>7. ASSUME NEW r, Respond(r) PROVE QueueOK'
    BY <1>0, <1>7 DEF Respond, QueueOK
  <1>8. CASE SendStop
    <2>1. /\ Len(queue) < QueueSize /\ queue' = Append(queue, Stop(msg.dst, 0))
          /\ UNCHANGED <<calls, request_id, msg>>
      BY <1>8 DEF SendStop
    <2>2. msg.dst \in Actors
      BY <1>0 DEF QueueOK
    <2>3. Stop(msg.dst, 0) \in Sent(request_id)
      BY <1>0, <2>2, SentForms
    <2>. QED
      BY <1>0, <2>1, <2>3, QueueLonger
  <1>9. ASSUME NEW a \in Actors, SimSend(a) PROVE QueueOK'
    <2>1. /\ Len(queue) < QueueSize /\ queue' = Append(queue, Notification(a))
          /\ UNCHANGED <<calls, request_id, msg>>
      BY <1>9 DEF SimSend, OtherSend
    <2>2. Notification(a) \in Sent(request_id)
      BY <1>0, SentForms
    <2>. QED
      BY <1>0, <2>1, <2>2, QueueLonger
  <1>10. CASE SendTimeout /\ UNCHANGED simVars
    <2>1. PICK k \in DOMAIN timeout_list :
              queue' = Append(queue, Timeout(k.id, timeout_list[k]))
      BY <1>10 DEF SendTimeout
    <2>2. Len(queue) < QueueSize /\ UNCHANGED <<calls, request_id, msg>>
      BY <1>10 DEF SendTimeout
    <2>3. k.id \in TimeoutIds /\ timeout_list[k] \in Actors
      BY <1>0 DEF TimersOK, IsTimeoutList, Handles
    <2>4. Timeout(k.id, timeout_list[k]) \in Sent(request_id)
      BY <1>0, <2>3, SentForms
    <2>. QED
      BY <1>0, <2>1, <2>2, <2>4, QueueLonger
  <1>11. CASE (SendTimeoutFull /\ UNCHANGED simVars) \/ Advance
    <2>1. UNCHANGED <<queue, msg, calls, request_id>>
      BY <1>11 DEF SendTimeoutFull, Advance
    <2>. QED
      BY <1>0, <2>1 DEF QueueOK
  <1>12. ASSUME NEW a, Replace(a) PROVE QueueOK'
    BY <1>0, <1>12 DEF Replace, QueueOK
  <1>13. ASSUME NEW t, NEW i, SimIsScheduling(t) \/ SimUnschedule(t) \/ SimScheduleUntil(t, i)
         PROVE QueueOK'
    <2>1. UNCHANGED <<queue, msg, calls, request_id>>
      BY <1>13 DEF SimIsScheduling, IsScheduling, SimUnschedule, Unschedule, SimScheduleUntil,
                   ScheduleUntil
    <2>. QED
      BY <1>0, <2>1 DEF QueueOK
  <1>. QED
    BY <1>0, <1>1, <1>2, <1>3, <1>4, <1>5, <1>6, <1>7, <1>8, <1>9, <1>10, <1>11, <1>12, <1>13,
       Actions
    DEF QuietAction, TimerAction

LEMMA CallEndsType == ASSUME now \in Nat, NEW end \in CallEnds PROVE end \in Instants
  <1>1. ASSUME NEW d \in Spans PROVE Plus(now, d) \in Instants
    <2>1. now \in Instants /\ d \in Durations
      BY DEF Instants
    <2>. QED
      BY <2>1, PlusType
  <1>. QED
    BY <1>1 DEF CallEnds

LEMMA LoopNext ==
    ASSUME SimTypeInv, SimNext
    PROVE  LoopOK'
  <1>. USE DEF timerVars, schedulerVars, waitVars, loopVars, vars, simVars, actorVars, callVars,
               senderVars, LoopOK,
               Results
  <1>0. TimersOK /\ QueueOK /\ LoopOK /\ ActorsOK
    BY Parts
  <1>1. CASE SimDispatch \/ SimReturn
    BY <1>0, <1>1 DEF SimDispatch, Taking, Dispatch, SimReturn, ReturnTo
  <1>2. CASE TryEmpty \/ DispatchToNone \/ SimStop
    <2>1. CASE TryEmpty
      BY <1>0, <2>1 DEF TryEmpty
    <2>2. CASE DispatchToNone
      <3>1. pc' = "check" /\ message_processed' = TRUE /\ UNCHANGED <<call, instant, result, late>>
        BY <2>2 DEF DispatchToNone
      <3>. QED
        BY <1>0, <2>2, <3>1 DEF DispatchToNone, Taking
    <2>3. CASE SimStop
      <3>1. pc' = "stop" /\ message_processed' = TRUE /\ UNCHANGED <<call, instant, result, late>>
        BY <2>3 DEF SimStop, AfterStop
      <3>. QED
        BY <1>0, <2>3, <3>1 DEF SimStop, Taking
    <2>. QED
      BY <1>2, <2>1, <2>2, <2>3
  <1>3. CASE ReturnStopped \/ NoMessage \/ Elapse \/ Continue \/ Break
    <2>1. CASE ReturnStopped \/ Elapse \/ Break
      <3>1. result' \in {"stopped", "elapsed", "broken"}
        BY <2>1 DEF ReturnStopped, Elapse, Break, ReturnWith
      <3>2. pc' = "outside" /\ message_processed' = FALSE /\ late' = 0 /\ UNCHANGED <<call, instant>>
        BY <2>1 DEF ReturnStopped, Elapse, Break, ReturnWith
      <3>. QED
        BY <1>0, <3>1, <3>2
    <2>2. CASE NoMessage
      BY <1>0, <2>2 DEF NoMessage
    <2>3. CASE Continue
      <3>1. pc' \in {"try", "timeout"} /\ pc = "cond"
        BY <2>3 DEF Continue
      <3>2. message_processed' = FALSE /\ late' = 0 /\ UNCHANGED <<call, instant, result>>
        BY <2>3 DEF Continue
      <3>. QED
        BY <1>0, <3>1, <3>2
    <2>. QED
      BY <1>3, <2>1, <2>2, <2>3
  <1>4. CASE BreakWithMessage
    <2>1. PICK m : m = Head(mailbox)
      OBVIOUS
    <2>2. /\ pc' = "outside" /\ result' = ResultOf(m) /\ message_processed' = FALSE
          /\ late' = 0 /\ UNCHANGED <<call, instant>>
      BY <1>4, <2>1 DEF BreakWithMessage, ReturnWith
    <2>3. ResultOf(m) \in {"message", "response", "NoMessage"}
      BY DEF ResultOf
    <2>. QED
      BY <1>0, <2>2, <2>3
  <1>5. ASSUME NEW end \in CallEnds, NEW kind \in {"process", "wait", "request"}, Begin(kind, end)
        PROVE LoopOK'
    <2>1. end \in Instants
      BY <1>0, CallEndsType DEF TimersOK
    <2>. QED
      BY <1>0, <1>5, <2>1 DEF Begin
  <1>6. ASSUME NEW end \in CallEnds, NEW r, Process(end) \/ WaitUntil(end) \/ RequestUntil(r, end)
        PROVE LoopOK'
    <2>1. \E kind \in {"process", "wait", "request"} : Begin(kind, end)
      BY <1>6 DEF Process, WaitUntil, RequestUntil
    <2>. QED
      BY <1>5, <2>1
  <1>7. ASSUME NEW r, Respond(r) PROVE LoopOK'
    BY <1>0, <1>7 DEF Respond
  <1>8. CASE NotifyMailbox \/ SendStop
    BY <1>0, <1>8 DEF NotifyMailbox, SendStop
  <1>9. ASSUME NEW a \in Actors, SimSend(a) PROVE LoopOK'
    BY <1>0, <1>9 DEF SimSend, OtherSend
  <1>10. CASE (SendTimeout \/ SendTimeoutFull) /\ UNCHANGED simVars
    BY <1>0, <1>10 DEF SendTimeout, SendTimeoutFull, AfterTimeoutSent
  <1>11. CASE Advance
    BY <1>0, <1>11 DEF Advance
  <1>12. ASSUME NEW a, Replace(a) PROVE LoopOK'
    BY <1>0, <1>12 DEF Replace
  <1>13. ASSUME NEW t, NEW i, SimIsScheduling(t) \/ SimUnschedule(t) \/ SimScheduleUntil(t, i)
         PROVE LoopOK'
    BY <1>0, <1>13 DEF SimIsScheduling, IsScheduling, SimUnschedule, Unschedule, SimScheduleUntil,
                       ScheduleUntil
  <1>. QED
    BY <1>0, <1>1, <1>2, <1>3, <1>4, <1>6, <1>7, <1>8, <1>9, <1>10, <1>11, <1>12, <1>13, Actions
    DEF QuietAction, TimerAction

\* The steps that send to the program's mailbox.
LEMMA MailboxPosts ==
    ASSUME SimTypeInv, \E ms \in Seq(MailboxMessages) : Post(ms),
           UNCHANGED reactive_list, held' \subseteq held,
           request_id' \in {request_id, request_id + 1}
    PROVE  ActorsOK'
  <1>. PICK ms \in Seq(MailboxMessages) : Post(ms)
    OBVIOUS
  <1>1. ActorsOK /\ request_id \in Nat
    BY Parts DEF QueueOK
  <1>2. mailbox' \in Seq(MailboxMessages) /\ Len(mailbox') <= MailboxSize
    <2>1. PICK S : S = MailboxMessages
      OBVIOUS
    <2>2. mailbox \in Seq(S) /\ ms \in Seq(S)
      BY <1>1, <2>1 DEF ActorsOK
    <2>3. mailbox' \in Seq(S) /\ Len(mailbox') <= MailboxSize
      BY <2>2, PostType
    <2>. QED
      BY <2>1, <2>3
  <1>3. 1 .. request_id \subseteq 1 .. request_id'
    BY <1>1
  <1>. QED
    BY <1>1, <1>2, <1>3 DEF ActorsOK

LEMMA ActorsNext ==
    ASSUME SimTypeInv, SimNext
    PROVE  ActorsOK'
  <1>. USE DEF timerVars, schedulerVars, waitVars, loopVars, vars, simVars, actorVars, callVars,
               senderVars
  <1>0. /\ TimersOK /\ QueueOK /\ LoopOK /\ ActorsOK
        /\ request_id \in Nat /\ request_id <= MaxCalls /\ 1 .. request_id \subseteq 1 .. MaxCalls
    BY Parts DEF QueueOK
  <1>1. CASE SimDispatch
    <2>1. PICK m : m = Head(queue)
      OBVIOUS
    <2>2. /\ queue # <<>> /\ m.dst \in reactive_list
          /\ held' = held \cup (IF m.kind = "Request" THEN {m} ELSE {})
          /\ UNCHANGED <<mailbox, reactive_list, request_id>>
      BY <1>1, <2>1 DEF SimDispatch, Taking
    <2>3. m \in Sent(request_id)
      BY <1>0, <2>1, <2>2, QueueShorter
    <2>4. m.kind = "Request" => m.id \in 1 .. request_id /\ m = Request(m.id, m.dst)
      BY <1>0, <2>3, SentKinds
    <2>. QED
      BY <1>0, <2>2, <2>4 DEF ActorsOK
  <1>2. CASE DispatchToNone
    <2>1. PICK m : m = Head(queue)
      OBVIOUS
    <2>2. /\ queue # <<>> /\ UNCHANGED <<reactive_list, held, request_id>>
          /\ \/ m.kind = "Request" /\ Post(<<Response(m.id, FALSE)>>)
             \/ UNCHANGED mailbox
      BY <1>2, <2>1 DEF DispatchToNone, Taking
    <2>3. m \in Sent(request_id)
      BY <1>0, <2>1, <2>2, QueueShorter
    <2>4. CASE UNCHANGED mailbox
      BY <1>0, <2>2, <2>4 DEF ActorsOK
    <2>5. CASE m.kind = "Request" /\ Post(<<Response(m.id, FALSE)>>)
      <3>1. m.id \in 1 .. MaxCalls
        BY <1>0, <2>3, <2>5, SentKinds
      <3>2. <<Response(m.id, FALSE)>> \in Seq(MailboxMessages)
        BY <3>1, ResponseType
      <3>3. \E ms \in Seq(MailboxMessages) : Post(ms)
        BY <2>5, <3>2
      <3>. QED
        BY <2>2, <3>3, MailboxPosts
    <2>. QED
      BY <2>2, <2>4, <2>5
  <1>3. CASE SimStop
    <2>1. PICK stop : stop = Head(queue)
      OBVIOUS
    <2>2. PICK requests : requests = Dropped
      OBVIOUS
    <2>3. PICK errors : errors = [n \in 1 .. Len(requests) |-> Response(requests[n].id, FALSE)]
      OBVIOUS
    <2>4. /\ queue # <<>> /\ stop.kind = "Stop" /\ reactive_list' = {} /\ held' = {}
          /\ \/ stop.src = Program /\ Post(Append(errors, Response(stop.id, TRUE)))
             \/ Post(errors)
      BY <1>3, <2>1, <2>2, <2>3 DEF SimStop, Taking
    <2>5. stop \in Sent(request_id)
      BY <1>0, <2>1, <2>4, QueueShorter
    <2>6. errors \in Seq(MailboxMessages)
      <3>1. PICK S : S = Sent(request_id)
        OBVIOUS
      <3>2. requests \in Seq({m \in S : IsOfProgram(m)})
        BY <1>0, <2>2, <3>1, DroppedRequests DEF QueueOK
      <3>3. Len(requests) \in Nat /\ \A n \in 1 .. Len(requests) :
                requests[n] \in S /\ IsOfProgram(requests[n])
        BY <3>2
      <3>4. \A n \in 1 .. Len(requests) : Response(requests[n].id, FALSE) \in MailboxMessages
        <4>. TAKE n \in 1 .. Len(requests)
        <4>1. PICK r : r = requests[n]
          OBVIOUS
        <4>2. r \in Sent(request_id) /\ IsOfProgram(r)
          BY <3>1, <3>3, <4>1
        <4>3. r.id \in 1 .. MaxCalls
          BY <1>0, <4>2, SentKinds DEF IsOfProgram
        <4>. QED
          BY <4>1, <4>3, ResponseType
      <3>5. errors \in [1 .. Len(requests) -> MailboxMessages]
        BY <2>3, <3>4
      <3>. QED
        BY <3>3, <3>5
    <2>7. stop.src = Program => Response(stop.id, TRUE) \in MailboxMessages
      <3>1. stop.src = Program => stop.id \in 1 .. MaxCalls
        BY <1>0, <2>4, <2>5, SentKinds
      <3>. QED
        BY <3>1, ResponseType
    <2>8. \E ms \in Seq(MailboxMessages) : Post(ms)
      <3>1. CASE Post(errors)
        BY <2>6, <3>1
      <3>2. CASE stop.src = Program /\ Post(Append(errors, Response(stop.id, TRUE)))
        <4>1. PICK e : e = Response(stop.id, TRUE)
          OBVIOUS
        <4>2. Append(errors, e) \in Seq(MailboxMessages)
          BY <2>6, <2>7, <3>2, <4>1, Longer
        <4>. QED
          BY <3>2, <4>1, <4>2
      <3>. QED
        BY <2>4, <3>1, <3>2
    <2>9. mailbox' \in Seq(MailboxMessages) /\ Len(mailbox') <= MailboxSize
      BY <1>0, <2>8, PostType DEF ActorsOK
    <2>. QED
      BY <2>4, <2>9 DEF ActorsOK
  <1>4. CASE \/ TryEmpty \/ ReturnStopped \/ NoMessage \/ Elapse \/ Continue \/ Break
             \/ SimReturn \/ SendStop
    <2>1. UNCHANGED <<mailbox, reactive_list, held, request_id>>
      BY <1>4 DEF TryEmpty, ReturnStopped, NoMessage, Elapse, Continue, Break, ReturnWith,
                  SimReturn, SendStop
    <2>. QED
      BY <1>0, <2>1 DEF ActorsOK
  <1>5. CASE BreakWithMessage
    <2>1. /\ mailbox # <<>> /\ mailbox' = Tail(mailbox)
          /\ UNCHANGED <<reactive_list, held, request_id>>
      BY <1>5 DEF BreakWithMessage, ReturnWith, Takes
    <2>2. mailbox \in Seq(MailboxMessages) /\ Len(mailbox) <= MailboxSize
      BY <1>0 DEF ActorsOK
    <2>3. /\ Tail(mailbox) \in Seq(MailboxMessages) /\ Len(mailbox) \in Nat \ {0}
          /\ Len(Tail(mailbox)) = Len(mailbox) - 1
      BY <2>1, <2>2, Shorter
    <2>4. mailbox' \in Seq(MailboxMessages) /\ Len(mailbox') <= MailboxSize
      BY <2>1, <2>2, <2>3
    <2>. QED
      BY <1>0, <2>1, <2>4 DEF ActorsOK
  <1>6. ASSUME NEW end, Process(end) \/ WaitUntil(end) PROVE ActorsOK'
    BY <1>0, <1>6 DEF Process, WaitUntil, ActorsOK
  <1>7. ASSUME NEW end, NEW r, RequestUntil(r, end) PROVE ActorsOK'
    <2>1. PICK n : n = request_id'
      OBVIOUS
    <2>2. /\ n = request_id + 1 /\ request_id' = request_id + 1
          /\ calls < MaxCalls
          /\ UNCHANGED <<reactive_list, held>>
          /\ UNCHANGED mailbox \/ Post(<<Response(n, FALSE)>>)
      BY <1>0, <1>7, <2>1 DEF RequestUntil, Begin
    <2>3. n \in 1 .. MaxCalls
      BY <1>0, <2>2 DEF QueueOK
    <2>4. CASE UNCHANGED mailbox
      <3>1. 1 .. request_id \subseteq 1 .. request_id'
        BY <1>0, <2>2
      <3>. QED
        BY <1>0, <2>2, <2>4, <3>1 DEF ActorsOK
    <2>5. CASE Post(<<Response(n, FALSE)>>)
      <3>1. <<Response(n, FALSE)>> \in Seq(MailboxMessages)
        BY <2>3, ResponseType
      <3>2. \E ms \in Seq(MailboxMessages) : Post(ms)
        BY <2>5, <3>1
      <3>. QED
        BY <2>2, <3>2, MailboxPosts
    <2>. QED
      BY <2>2, <2>4, <2>5
  <1>8. ASSUME NEW r \in held, Respond(r) PROVE ActorsOK'
    <2>1. /\ Post(<<Response(r.id, TRUE)>>) /\ held' = held \ {r}
          /\ UNCHANGED <<reactive_list, request_id>>
      BY <1>8 DEF Respond
    <2>2. r.id \in 1 .. MaxCalls
      BY <1>0, <1>8 DEF ActorsOK
    <2>3. <<Response(r.id, TRUE)>> \in Seq(MailboxMessages)
      BY <2>2, ResponseType
    <2>4. (\E ms \in Seq(MailboxMessages) : Post(ms)) /\ held' \subseteq held
      BY <2>1, <2>3
    <2>. QED
      BY <2>1, <2>4, MailboxPosts
  <1>9. CASE NotifyMailbox
    <2>1. <<Notice>> \in Seq(MailboxMessages)
      BY DEF MailboxMessages
    <2>2. Post(<<Notice>>) /\ UNCHANGED <<reactive_list, held, request_id>>
      BY <1>9 DEF NotifyMailbox
    <2>3. \E ms \in Seq(MailboxMessages) : Post(ms)
      BY <2>1, <2>2
    <2>. QED
      BY <2>2, <2>3, MailboxPosts
  <1>10. ASSUME NEW a \in Actors, SimSend(a) PROVE ActorsOK'
    BY <1>0, <1>10 DEF SimSend, ActorsOK
  <1>11. CASE ((SendTimeout \/ SendTimeoutFull) /\ UNCHANGED simVars) \/ Advance
    BY <1>0, <1>11 DEF Advance, ActorsOK
  <1>12. ASSUME NEW a, Replace(a) PROVE ActorsOK'
    BY <1>0, <1>12 DEF Replace, ActorsOK
  <1>13. ASSUME NEW t, NEW i, SimIsScheduling(t) \/ SimUnschedule(t) \/ SimScheduleUntil(t, i)
         PROVE ActorsOK'
    BY <1>0, <1>13 DEF SimIsScheduling, SimUnschedule, SimScheduleUntil, ActorsOK
  <1>. QED
    BY <1>0, <1>1, <1>2, <1>3, <1>4, <1>5, <1>6, <1>7, <1>8, <1>9, <1>10, <1>11, <1>12, <1>13,
       Actions
    DEF QuietAction, TimerAction

-------------------------------------------------------------------------------
(* The clock, and what a call knows of the queue and the mailbox.          *)

\* A message that is not a Timeout makes no difference to the positions of Timeouts.
LEMMA OtherAppended ==
    ASSUME QueueOK, NEW m, m.kind # "Timeout", queue' = Append(queue, m)
    PROVE  TimeoutPositions' = TimeoutPositions
           /\ \A i \in TimeoutPositions : queue'[i] = queue[i]
  <1>1. PICK S : S = Sent(request_id) \cup {m}
    OBVIOUS
  <1>2. queue \in Seq(S) /\ m \in S
    <2>1. PICK R : R = Sent(request_id)
      OBVIOUS
    <2>2. queue \in Seq(R) /\ R \subseteq S
      BY <1>1, <2>1 DEF QueueOK
    <2>. QED
      BY <1>1, <2>2, WiderSeq
  <1>3. /\ Len(queue) \in Nat /\ Len(queue') = Len(queue) + 1
        /\ \A i \in 1 .. Len(queue) : queue'[i] = queue[i]
        /\ queue'[Len(queue) + 1] = m
    BY <1>2, Longer
  <1>4. 1 .. Len(queue') = 1 .. Len(queue) \cup {Len(queue) + 1}
    BY <1>3
  <1>. QED
    BY <1>3, <1>4 DEF TimeoutPositions, IsTimeout

\* Which steps lead to where the time may jump, and to where the queue was looked at.
LEMMA StepsTo ==
    ASSUME TimersOK, SimNext
    PROVE  /\ pc' = "timeout" =>
                  Continue \/ (pc = "timeout" /\ (NotifyMailbox \/ \E a \in Actors : SimSend(a)))
           /\ pc' \in {"check", "cond"} /\ ~message_processed' =>
                  \/ TryEmpty
                  \/ NoMessage
                  \/ pc' = pc /\ (NotifyMailbox \/ \E a \in Actors : SimSend(a))
           /\ pc' = "cond" =>
                  NoMessage \/ (pc = "cond" /\ (NotifyMailbox \/ \E a \in Actors : SimSend(a)))
  <1>. USE DEF timerVars, schedulerVars, waitVars, loopVars, vars, simVars, actorVars, callVars,
               senderVars
  <1>1. TryEmpty \/ DispatchToNone \/ SimReturn => pc' = "check"
    BY DEF TryEmpty, DispatchToNone, SimReturn, ReturnTo
  <1>2. DispatchToNone \/ SimReturn => message_processed' = TRUE
    BY DEF DispatchToNone, SimReturn
  <1>3. SimDispatch => pc' = "handle"
    BY DEF SimDispatch, Dispatch
  <1>4. SimStop => pc' = "stop"
    BY DEF SimStop, AfterStop
  <1>5. ReturnStopped \/ BreakWithMessage \/ Elapse \/ Break => pc' = "outside"
    BY DEF ReturnStopped, BreakWithMessage, Elapse, Break, ReturnWith
  <1>6. NoMessage => pc' = "cond"
    BY DEF NoMessage
  <1>7. Continue => pc' \in {"try", "timeout"}
    BY DEF Continue
  <1>8. \A end, r : Process(end) \/ WaitUntil(end) \/ RequestUntil(r, end) => pc' = "try"
    BY DEF Process, WaitUntil, RequestUntil, Begin
  <1>9. \A r : Respond(r) \/ SendStop => pc' = "handle"
    BY DEF Respond, SendStop
  <1>10. \A a : NotifyMailbox \/ SimSend(a) => pc' = pc
    BY DEF NotifyMailbox, SimSend, OtherSend
  <1>11. SendTimeout \/ SendTimeoutFull \/ Advance => pc' = "try"
    BY DEF SendTimeout, SendTimeoutFull, AfterTimeoutSent, Advance
  <1>12. \A a : Replace(a) => pc' = "outside"
    BY DEF Replace
  <1>13. \A t, i : SimIsScheduling(t) \/ SimUnschedule(t) \/ SimScheduleUntil(t, i) =>
                       pc' = "handle"
    BY DEF SimIsScheduling, IsScheduling, SimUnschedule, Unschedule, SimScheduleUntil,
           ScheduleUntil, IsHandling
  <1>14. CASE QuietAction
    BY <1>14, <1>1, <1>2, <1>3, <1>4, <1>5, <1>6, <1>7, <1>8, <1>9, <1>10 DEF QuietAction
  <1>15. CASE TimerAction
    BY <1>15, <1>11, <1>12, <1>13 DEF TimerAction
  <1>. QED
    BY <1>14, <1>15, Actions

LEMMA MayJumpNext ==
    ASSUME SimInv, SimNext
    PROVE  MayJump'
  <1>. USE DEF timerVars, schedulerVars, waitVars, loopVars, vars, simVars, actorVars, callVars,
               senderVars
  <1>. SUFFICES ASSUME pc' = "timeout"
                PROVE  TimeoutPositions' = {} /\ Before(now', instant')
    BY DEF MayJump
  <1>0. TimersOK /\ QueueOK /\ LoopOK /\ MayJump
    BY Parts DEF SimInv
  <1>1. CASE Continue
    <2>1. /\ pc = "cond" /\ ~message_processed /\ ~TimeIsOver
          /\ UNCHANGED <<queue, now, instant>>
      BY <1>1 DEF Continue
    <2>2. Before(now, instant)
      BY <1>0, <2>1 DEF TimeIsOver, Before, LoopOK, TimersOK, Instants
    <2>3. \A i \in 1 .. Len(queue) : queue[i].kind = "Notification"
      BY <2>1 DEF SimInv, QueueSeenEmpty
    <2>. QED
      BY <2>1, <2>2, <2>3 DEF TimeoutPositions, IsTimeout
  <1>2. CASE pc = "timeout" /\ NotifyMailbox
    BY <1>0, <1>2 DEF NotifyMailbox, MayJump, TimeoutPositions
  <1>3. ASSUME pc = "timeout", NEW a, SimSend(a)
        PROVE  TimeoutPositions' = {} /\ Before(now', instant')
    <2>1. queue' = Append(queue, Notification(a)) /\ UNCHANGED <<now, instant>>
      BY <1>3 DEF SimSend, OtherSend
    <2>2. Notification(a).kind # "Timeout"
      BY DEF Notification
    <2>3. TimeoutPositions' = TimeoutPositions
      BY <1>0, <2>1, <2>2, OtherAppended
    <2>. QED
      BY <1>0, <1>3, <2>1, <2>3 DEF MayJump
  <1>. QED
    BY <1>0, <1>1, <1>2, <1>3, StepsTo

LEMMA QueueSeenNext ==
    ASSUME SimInv, SimNext
    PROVE  QueueSeenEmpty'
  <1>. USE DEF timerVars, schedulerVars, waitVars, loopVars, vars, simVars, actorVars, callVars,
               senderVars
  <1>. SUFFICES ASSUME pc' \in {"check", "cond"}, ~message_processed'
                PROVE  /\ Len(queue') <= late'
                       /\ \A i \in 1 .. Len(queue') : queue'[i].kind = "Notification"
    BY DEF QueueSeenEmpty
  <1>0. TimersOK /\ QueueOK /\ LoopOK /\ QueueSeenEmpty
    BY Parts DEF SimInv
  <1>1. CASE TryEmpty
    <2>1. queue' = <<>> /\ late' = 0
      BY <1>1 DEF TryEmpty
    <2>2. Len(queue') = 0
      BY <2>1
    <2>. QED
      BY <2>1, <2>2
  <1>2. CASE NoMessage
    <2>1. pc = "check" /\ UNCHANGED <<queue, late, message_processed>>
      BY <1>2 DEF NoMessage
    <2>. QED
      BY <1>0, <2>1 DEF QueueSeenEmpty
  <1>3. CASE pc' = pc /\ NotifyMailbox
    <2>1. UNCHANGED <<queue, late, message_processed>>
      BY <1>3 DEF NotifyMailbox
    <2>. QED
      BY <1>0, <1>3, <2>1 DEF QueueSeenEmpty
  <1>4. ASSUME pc' = pc, NEW a \in Actors, SimSend(a)
        PROVE  /\ Len(queue') <= late'
               /\ \A i \in 1 .. Len(queue') : queue'[i].kind = "Notification"
    <2>1. PICK S : S = Sent(request_id)
      OBVIOUS
    <2>2. PICK m : m = Notification(a)
      OBVIOUS
    <2>3. /\ queue' = Append(queue, m) /\ late' = late + 1
          /\ ~message_processed /\ pc \in {"check", "cond"}
      BY <1>4, <2>2 DEF SimSend, OtherSend
    <2>4. queue \in Seq(S) /\ m \in S
      <3>1. request_id \in Nat
        BY <1>0 DEF QueueOK
      <3>. QED
        BY <1>0, <2>1, <2>2, <3>1, SentForms DEF QueueOK
    <2>5. /\ Len(queue) \in Nat /\ Len(queue') = Len(queue) + 1
          /\ \A i \in 1 .. Len(queue) : queue'[i] = queue[i]
          /\ queue'[Len(queue) + 1] = m
      BY <2>3, <2>4, Longer
    <2>6. /\ Len(queue) <= late /\ late \in Nat
          /\ \A i \in 1 .. Len(queue) : queue[i].kind = "Notification"
      BY <1>0, <2>3 DEF QueueSeenEmpty, LoopOK
    <2>7. m.kind = "Notification"
      BY <2>2 DEF Notification
    <2>8. \A i \in 1 .. Len(queue') : i \in 1 .. Len(queue) \/ i = Len(queue) + 1
      BY <2>5
    <2>. QED
      BY <2>3, <2>5, <2>6, <2>7, <2>8
  <1>. QED
    BY <1>0, <1>1, <1>2, <1>3, <1>4, StepsTo

LEMMA MailboxSeenNext ==
    ASSUME SimInv, SimNext
    PROVE  MailboxSeenEmpty'
  <1>. USE DEF timerVars, schedulerVars, waitVars, loopVars, vars, simVars, actorVars, callVars,
               senderVars
  <1>. SUFFICES ASSUME pc' = "cond", call' # "process"
                PROVE  mailbox' \in Seq({Notice})
    BY DEF MailboxSeenEmpty
  <1>0. TimersOK /\ MailboxSeenEmpty
    BY Parts DEF SimInv
  <1>1. CASE NoMessage
    <2>1. mailbox' = <<>>
      BY <1>1 DEF NoMessage, Takes
    <2>. QED
      BY <2>1
  <1>2. CASE pc = "cond" /\ NotifyMailbox
    <2>1. PICK S : S = {Notice}
      OBVIOUS
    <2>2. Post(<<Notice>>) /\ call' = call
      BY <1>2 DEF NotifyMailbox
    <2>3. mailbox \in Seq(S) /\ <<Notice>> \in Seq(S)
      BY <1>0, <1>2, <2>1, <2>2 DEF MailboxSeenEmpty
    <2>4. mailbox' \in Seq(S)
      BY <2>2, <2>3, PostType
    <2>. QED
      BY <2>1, <2>4
  <1>3. ASSUME pc = "cond", NEW a \in Actors, SimSend(a) PROVE mailbox' \in Seq({Notice})
    BY <1>0, <1>3 DEF SimSend, MailboxSeenEmpty
  <1>. QED
    BY <1>0, <1>1, <1>2, <1>3, StepsTo

\* What is sent to the mailbox, and what is in it, does not leave it empty.
LEMMA PostNotEmpty ==
    ASSUME ActorsOK, NEW ms \in Seq(MailboxMessages), Post(ms), mailbox # <<>> \/ ms # <<>>
    PROVE  mailbox' # <<>>
  <1>1. PICK S : S = MailboxMessages
    OBVIOUS
  <1>2. mailbox \in Seq(S) /\ ms \in Seq(S)
    BY <1>1 DEF ActorsOK
  <1>3. PICK all : all = mailbox \o ms
    OBVIOUS
  <1>4. all \in Seq(S) /\ Len(all) = Len(mailbox) + Len(ms)
    BY <1>2, <1>3
  <1>5. Len(mailbox) \in Nat /\ Len(ms) \in Nat /\ (Len(mailbox) # 0 \/ Len(ms) # 0)
    BY <1>2
  <1>6. Len(all) \in Nat \ {0}
    BY <1>4, <1>5
  <1>7. mailbox' = SubSeq(all, 1, IF Len(all) < MailboxSize THEN Len(all) ELSE MailboxSize)
    BY <1>3 DEF Post
  <1>8. PICK n : n = IF Len(all) < MailboxSize THEN Len(all) ELSE MailboxSize
    OBVIOUS
  <1>9. n \in Nat \ {0} /\ n <= Len(all) /\ mailbox' = SubSeq(all, 1, n)
    BY <1>6, <1>7, <1>8
  <1>10. Len(mailbox') = n
    BY <1>4, <1>9
  <1>11. Len(<<>>) = 0
    OBVIOUS
  <1>. QED
    BY <1>9, <1>10, <1>11

\* A longer queue holds the request of the call as well.
LEMMA InQueueLonger ==
    ASSUME QueueOK, NEW m, queue' = Append(queue, m), UNCHANGED request_id
    PROVE  InQueue => InQueue'
  <1>1. PICK S : S = Sent(request_id) \cup {m}
    OBVIOUS
  <1>2. queue \in Seq(S) /\ m \in S
    <2>1. PICK R : R = Sent(request_id)
      OBVIOUS
    <2>2. queue \in Seq(R) /\ R \subseteq S
      BY <1>1, <2>1 DEF QueueOK
    <2>. QED
      BY <1>1, <2>2, WiderSeq
  <1>3. /\ Len(queue) \in Nat /\ Len(queue') = Len(queue) + 1
        /\ \A i \in 1 .. Len(queue) : queue'[i] = queue[i]
    BY <1>2, Longer
  <1>4. 1 .. Len(queue) \subseteq 1 .. Len(queue')
    BY <1>3
  <1>. QED
    BY <1>3, <1>4 DEF InQueue, OfCall

\* The request leaves the queue when it is its head.
LEMMA InQueueShorter ==
    ASSUME QueueOK, queue # <<>>, queue' = Tail(queue), UNCHANGED request_id, InQueue
    PROVE  InQueue' \/ OfCall(Head(queue))
  <1>1. PICK S : S = Sent(request_id)
    OBVIOUS
  <1>2. queue \in Seq(S)
    BY <1>1 DEF QueueOK
  <1>3. /\ Len(queue) \in Nat \ {0} /\ Len(queue') = Len(queue) - 1
        /\ \A i \in 1 .. Len(queue) - 1 : queue'[i] = queue[i + 1]
        /\ Head(queue) = queue[1]
    BY <1>2, Shorter
  <1>4. PICK i \in 1 .. Len(queue) : OfCall(queue[i])
    BY DEF InQueue
  <1>5. CASE i = 1
    BY <1>3, <1>4, <1>5
  <1>6. CASE i # 1
    <2>1. i - 1 \in 1 .. Len(queue) - 1 /\ (i - 1) + 1 = i
      BY <1>3, <1>6
    <2>2. queue'[i - 1] = queue[i]
      BY <1>3, <2>1
    <2>3. i - 1 \in 1 .. Len(queue')
      BY <1>3, <2>1
    <2>. QED
      BY <1>4, <2>2, <2>3 DEF InQueue, OfCall
  <1>. QED
    BY <1>5, <1>6

LEMMA RequestThereNext ==
    ASSUME SimInv, SimNext
    PROVE  RequestThere'
  <1>. USE DEF timerVars, schedulerVars, waitVars, loopVars, vars, simVars, actorVars, callVars,
               senderVars
  <1>. SUFFICES ASSUME call' = "request", pc' \notin {"outside", "stop"}
                PROVE  InQueue' \/ IsHeld' \/ Answered'
    BY DEF RequestThere
  <1>0. /\ TimersOK /\ QueueOK /\ LoopOK /\ ActorsOK /\ RequestThere
        /\ request_id \in Nat /\ request_id <= MaxCalls /\ 1 .. request_id \subseteq 1 .. MaxCalls
    BY Parts DEF SimInv, QueueOK
  <1>1. CASE TryEmpty
    <2>1. /\ pc = "try" /\ pc' = "check" /\ queue = <<>>
          /\ UNCHANGED <<call, request_id, mailbox, held>>
      BY <1>1 DEF TryEmpty
    <2>2. Len(queue) = 0
      BY <2>1
    <2>3. ~InQueue
      BY <2>2 DEF InQueue
    <2>. QED
      BY <1>0, <2>1, <2>3 DEF RequestThere, IsHeld, Answered
  <1>2. CASE SimDispatch
    <2>1. PICK m : m = Head(queue)
      OBVIOUS
    <2>2. /\ pc = "try" /\ pc' = "handle" /\ queue # <<>> /\ queue' = Tail(queue)
          /\ m.kind # "Stop" /\ held' = held \cup (IF m.kind = "Request" THEN {m} ELSE {})
          /\ UNCHANGED <<call, request_id, mailbox>>
      BY <1>2, <2>1 DEF SimDispatch, Taking, Dispatch
    <2>3. OfCall(m) => IsHeld'
      BY <2>2 DEF OfCall, IsOfProgram, IsHeld
    <2>4. InQueue => InQueue' \/ OfCall(m)
      BY <1>0, <2>1, <2>2, InQueueShorter
    <2>5. (IsHeld => IsHeld') /\ (Answered => Answered')
      BY <2>2 DEF IsHeld, Answered
    <2>. QED
      BY <1>0, <2>2, <2>3, <2>4, <2>5 DEF RequestThere
  <1>3. CASE DispatchToNone
    <2>1. PICK m : m = Head(queue)
      OBVIOUS
    <2>2. /\ pc = "try" /\ pc' = "check" /\ queue # <<>> /\ queue' = Tail(queue)
          /\ m.kind # "Stop" /\ UNCHANGED <<call, request_id, held>>
          /\ IF m.kind = "Request" THEN Post(<<Response(m.id, FALSE)>>) ELSE UNCHANGED mailbox
      BY <1>3, <2>1 DEF DispatchToNone, Taking
    <2>3. m \in Sent(request_id)
      BY <1>0, <2>1, <2>2, QueueShorter
    <2>4. m.kind = "Request" => mailbox' # <<>>
      <3>. SUFFICES ASSUME m.kind = "Request" PROVE mailbox' # <<>>
        OBVIOUS
      <3>1. m.id \in 1 .. MaxCalls
        BY <1>0, <2>3, SentKinds
      <3>2. <<Response(m.id, FALSE)>> \in Seq(MailboxMessages)
        BY <3>1, ResponseType
      <3>3. PICK ms : ms = <<Response(m.id, FALSE)>>
        OBVIOUS
      <3>4. ms # <<>> /\ ms \in Seq(MailboxMessages) /\ Post(ms)
        BY <2>2, <3>2, <3>3
      <3>. QED
        BY <1>0, <3>4, PostNotEmpty
    <2>5. InQueue => InQueue' \/ OfCall(m)
      BY <1>0, <2>1, <2>2, InQueueShorter
    <2>6. (OfCall(m) => Answered') /\ (IsHeld => IsHeld') /\ (Answered => Answered')
      BY <2>2, <2>4 DEF OfCall, IsOfProgram, IsHeld, Answered
    <2>. QED
      BY <1>0, <2>2, <2>5, <2>6 DEF RequestThere
  <1>4. CASE SimStop \/ ReturnStopped \/ BreakWithMessage \/ Elapse \/ Break
    BY <1>4 DEF SimStop, AfterStop, ReturnStopped, BreakWithMessage, Elapse, Break, ReturnWith
  <1>5. CASE NoMessage
    <2>1. pc = "check" /\ mailbox = <<>> /\ UNCHANGED <<call, queue, request_id, held>>
      BY <1>5 DEF NoMessage, Takes
    <2>. QED
      BY <1>0, <2>1 DEF RequestThere, InQueue, OfCall, IsHeld, Answered
  <1>6. CASE Continue
    <2>1. pc = "cond" /\ UNCHANGED <<call, queue, request_id, held>>
      BY <1>6 DEF Continue
    <2>. QED
      BY <1>0, <2>1 DEF RequestThere, InQueue, OfCall, IsHeld, Answered
  <1>7. CASE SimReturn
    <2>1. /\ pc = "handle" /\ pc' = "check"
          /\ UNCHANGED <<call, queue, request_id, held, mailbox>>
      BY <1>7 DEF SimReturn, ReturnTo
    <2>. QED
      BY <1>0, <2>1 DEF RequestThere, InQueue, OfCall, IsHeld, Answered
  <1>8. ASSUME NEW end, Process(end) \/ WaitUntil(end) PROVE FALSE
    BY <1>8 DEF Process, WaitUntil, Begin
  <1>9. ASSUME NEW end, NEW r \in NextRequests, RequestUntil(r, end)
        PROVE  InQueue' \/ Answered'
    <2>1. /\ pc' = "try" /\ request_id' = request_id + 1 /\ calls < MaxCalls
          /\ \/ queue' = Append(queue, r)
             \/ Post(<<Response(request_id', FALSE)>>)
      BY <1>9 DEF RequestUntil, Begin
    <2>2. r.id = request_id' /\ IsOfProgram(r)
      BY <2>1 DEF NextRequests, Request, Stop, IsOfProgram
    <2>3. CASE queue' = Append(queue, r)
      <3>1. PICK S : S = Sent(request_id) \cup {r}
        OBVIOUS
      <3>2. queue \in Seq(S) /\ r \in S
        <4>1. PICK R : R = Sent(request_id)
          OBVIOUS
        <4>2. queue \in Seq(R) /\ R \subseteq S
          BY <1>0, <3>1, <4>1 DEF QueueOK
        <4>. QED
          BY <3>1, <4>2, WiderSeq
      <3>3. /\ Len(queue) \in Nat /\ Len(queue') = Len(queue) + 1
            /\ queue'[Len(queue) + 1] = r
        BY <2>3, <3>2, Longer
      <3>4. Len(queue) + 1 \in 1 .. Len(queue')
        BY <3>3
      <3>. QED
        BY <2>2, <3>3, <3>4 DEF InQueue, OfCall
    <2>4. CASE Post(<<Response(request_id', FALSE)>>)
      <3>1. request_id' \in 1 .. MaxCalls
        BY <1>0, <2>1 DEF QueueOK
      <3>2. <<Response(request_id', FALSE)>> \in Seq(MailboxMessages)
        BY <3>1, ResponseType
      <3>3. PICK ms : ms = <<Response(request_id', FALSE)>>
        OBVIOUS
      <3>4. ms # <<>> /\ ms \in Seq(MailboxMessages) /\ Post(ms)
        BY <2>4, <3>2, <3>3
      <3>5. mailbox' # <<>>
        BY <1>0, <3>4, PostNotEmpty
      <3>. QED
        BY <2>1, <3>5 DEF Answered
    <2>. QED
      BY <2>1, <2>3, <2>4
  <1>10. ASSUME NEW r \in held, Respond(r) PROVE InQueue' \/ IsHeld' \/ Answered'
    <2>1. Post(<<Response(r.id, TRUE)>>) /\ pc' = "handle"
      BY <1>10 DEF Respond
    <2>2. r.id \in 1 .. MaxCalls
      BY <1>0, <1>10 DEF ActorsOK
    <2>3. <<Response(r.id, TRUE)>> \in Seq(MailboxMessages)
      BY <2>2, ResponseType
    <2>4. PICK ms : ms = <<Response(r.id, TRUE)>>
      OBVIOUS
    <2>5. ms # <<>> /\ ms \in Seq(MailboxMessages) /\ Post(ms)
      BY <2>1, <2>3, <2>4
    <2>6. mailbox' # <<>>
      BY <1>0, <2>5, PostNotEmpty
    <2>. QED
      BY <2>1, <2>6 DEF Answered
  <1>11. CASE NotifyMailbox
    <2>1. PICK ms : ms = <<Notice>>
      OBVIOUS
    <2>2. /\ Post(ms) /\ ms # <<>> /\ ms \in Seq(MailboxMessages)
          /\ UNCHANGED <<pc, call, queue, request_id, held>>
      BY <1>11, <2>1 DEF NotifyMailbox, MailboxMessages
    <2>3. mailbox' # <<>>
      BY <1>0, <2>2, PostNotEmpty
    <2>. QED
      BY <1>0, <2>2, <2>3 DEF RequestThere, InQueue, OfCall, IsHeld, Answered
  <1>12. ASSUME NEW m, queue' = Append(queue, m), UNCHANGED <<call, request_id, held, mailbox>>,
                pc' \in {pc, "try"}, pc \notin {"outside", "stop"}
         PROVE  InQueue' \/ IsHeld' \/ Answered'
    <2>1. InQueue => InQueue'
      BY <1>0, <1>12, InQueueLonger
    <2>2. (IsHeld => IsHeld') /\ (Answered => Answered')
      BY <1>12 DEF IsHeld, Answered
    <2>. QED
      BY <1>0, <1>12, <2>1, <2>2 DEF RequestThere
  <1>13. CASE SendStop
    <2>1. /\ queue' = Append(queue, Stop(msg.dst, 0)) /\ pc' = pc
          /\ UNCHANGED <<call, request_id, held, mailbox>>
      BY <1>13 DEF SendStop
    <2>. QED
      BY <1>12, <2>1
  <1>14. ASSUME NEW a \in Actors, SimSend(a) PROVE InQueue' \/ IsHeld' \/ Answered'
    <2>1. /\ queue' = Append(queue, Notification(a)) /\ pc' = pc
          /\ UNCHANGED <<call, request_id, held, mailbox>>
      BY <1>14 DEF SimSend, OtherSend
    <2>. QED
      BY <1>12, <2>1
  <1>15. CASE SendTimeout /\ UNCHANGED simVars
    <2>1. \E m : queue' = Append(queue, m)
      BY <1>15 DEF SendTimeout
    <2>2. pc = "timeout" /\ pc' = "try" /\ UNCHANGED <<call, request_id, held, mailbox>>
      BY <1>15 DEF SendTimeout, AfterTimeoutSent
    <2>. QED
      BY <1>12, <2>1, <2>2
  <1>16. CASE (SendTimeoutFull /\ UNCHANGED simVars) \/ Advance
    <2>1. pc = "timeout" /\ pc' = "try" /\ UNCHANGED <<call, queue, request_id, held, mailbox>>
      BY <1>16 DEF SendTimeoutFull, Advance
    <2>. QED
      BY <1>0, <2>1 DEF RequestThere, InQueue, OfCall, IsHeld, Answered
  <1>17. ASSUME NEW a, Replace(a) PROVE FALSE
    BY <1>17 DEF Replace
  <1>18. ASSUME NEW t, NEW i, SimIsScheduling(t) \/ SimUnschedule(t) \/ SimScheduleUntil(t, i)
         PROVE  InQueue' \/ IsHeld' \/ Answered'
    <2>1. UNCHANGED <<pc, call, queue, request_id, held, mailbox>>
      BY <1>18 DEF SimIsScheduling, IsScheduling, SimUnschedule, Unschedule, SimScheduleUntil,
                   ScheduleUntil
    <2>. QED
      BY <1>0, <2>1 DEF RequestThere, InQueue, OfCall, IsHeld, Answered
  <1>19. CASE QuietAction
    BY <1>19, <1>1, <1>2, <1>3, <1>4, <1>5, <1>6, <1>7, <1>8, <1>9, <1>10, <1>11, <1>13, <1>14
    DEF QuietAction
  <1>20. CASE TimerAction
    BY <1>20, <1>15, <1>16, <1>17, <1>18 DEF TimerAction
  <1>. QED
    BY <1>0, <1>19, <1>20, Actions

LEMMA ListedNext ==
    ASSUME SimInv, SimNext
    PROVE  ListedInTime'
  <1>. USE DEF timerVars, schedulerVars, waitVars, loopVars, vars, simVars, actorVars, callVars,
               senderVars
  <1>0. TimersOK /\ LoopOK /\ MayJump /\ ListedInTime
    BY Parts DEF SimInv
  <1>1. CASE UNCHANGED <<now, overdue>> /\ DOMAIN timeout_list' \subseteq DOMAIN timeout_list
    BY <1>0, <1>1 DEF ListedInTime
  <1>2. CASE QuietAction
    BY <1>1, <1>2, Quiet
  <1>3. CASE SendTimeout /\ UNCHANGED simVars
    <2>1. PICK k \in DOMAIN timeout_list : timeout_list' = RemoveKey(timeout_list, k)
      BY <1>3 DEF SendTimeout
    <2>2. DOMAIN timeout_list' = DOMAIN timeout_list \ {k}
      BY <2>1 DEF RemoveKey
    <2>3. UNCHANGED <<now, overdue>>
      BY <1>3 DEF SendTimeout
    <2>. QED
      BY <1>1, <2>2, <2>3
  <1>4. CASE SendTimeoutFull /\ UNCHANGED simVars
    <2>1. PICK k \in DOMAIN timeout_list : timeout_list' = Reinsert(k)
      BY <1>4 DEF SendTimeoutFull
    <2>2. DOMAIN timeout_list' = DOMAIN timeout_list
      BY <2>1 DEF Reinsert, InsertKey, RemoveKey
    <2>3. UNCHANGED <<now, overdue>>
      BY <1>4 DEF SendTimeoutFull
    <2>. QED
      BY <1>1, <2>2, <2>3
  <1>5. CASE Advance
    <2>1. \A k \in DOMAIN timeout_list : Before(k.deadline, now') => Before(k.deadline, now)
      BY <1>0, <1>5, Jump
    <2>2. UNCHANGED <<timeout_list, overdue>>
      BY <1>5 DEF Advance
    <2>. QED
      BY <1>0, <2>1, <2>2 DEF ListedInTime
  <1>6. ASSUME NEW a, Replace(a) PROVE ListedInTime'
    BY <1>1, <1>6 DEF Replace
  <1>7. ASSUME NEW t, SimIsScheduling(t) PROVE ListedInTime'
    BY <1>1, <1>7 DEF SimIsScheduling, IsScheduling
  <1>8. ASSUME NEW t, SimUnschedule(t) PROVE ListedInTime'
    <2>1. timeout_list' = ListAfterUnschedule(t) /\ UNCHANGED <<now, overdue>>
      BY <1>8 DEF SimUnschedule, Unschedule
    <2>2. DOMAIN ListAfterUnschedule(t) \subseteq DOMAIN timeout_list
      BY <1>0, Unscheduled DEF TimersOK
    <2>. QED
      BY <1>1, <2>1, <2>2
  <1>9. ASSUME NEW t, NEW i \in Instants, SimScheduleUntil(t, i) PROVE ListedInTime'
    <2>1. PICK k : k = [id |-> next_timeout_id, deadline |-> i]
      OBVIOUS
    <2>2. /\ timeout_list' = InsertKey(ListAfterUnschedule(t), k, Owner[t]) /\ now' = now
          /\ overdue' = IF Before(i, now) THEN overdue \cup {next_timeout_id} ELSE overdue
      BY <1>9, <2>1 DEF SimScheduleUntil, ScheduleUntil
    <2>3. DOMAIN ListAfterUnschedule(t) \subseteq DOMAIN timeout_list
      BY <1>0, Unscheduled DEF TimersOK
    <2>4. DOMAIN timeout_list' \subseteq DOMAIN timeout_list \cup {k}
      BY <2>2, <2>3 DEF InsertKey
    <2>5. k.id = next_timeout_id /\ k.deadline = i
      BY <2>1
    <2>. QED
      BY <1>0, <2>2, <2>4, <2>5 DEF ListedInTime
  <1>. QED
    BY <1>0, <1>2, <1>3, <1>4, <1>5, <1>6, <1>7, <1>8, <1>9, Actions DEF TimerAction

LEMMA SimInvStutter ==
    ASSUME SimInv, UNCHANGED allVars
    PROVE  SimInv'
  <1>. USE DEF allVars, vars, simVars, actorVars, callVars, senderVars
  <1>1. TimersOK' /\ QueueOK' /\ LoopOK' /\ ActorsOK'
    BY Parts DEF SimInv, TimersOK, IsTimeoutList, QueueOK, LoopOK, ActorsOK
  <1>2. (TimersOK /\ QueueOK /\ LoopOK /\ ActorsOK)' => SimTypeInv'
    BY Parts, PTL
  <1>3. (ListedInTime /\ MayJump /\ QueueSeenEmpty /\ MailboxSeenEmpty)'
    BY DEF SimInv, ListedInTime, MayJump, TimeoutPositions, QueueSeenEmpty, MailboxSeenEmpty
  <1>4. RequestThere'
    BY DEF SimInv, RequestThere, InQueue, OfCall, IsHeld, Answered
  <1>. QED
    BY <1>1, <1>2, <1>3, <1>4 DEF SimInv

LEMMA SimInvNext ==
    ASSUME SimInv, [SimNext]_allVars
    PROVE  SimInv'
  <1>1. CASE UNCHANGED allVars
    BY <1>1, SimInvStutter
  <1>2. CASE SimNext
    <2>1. TimersOK' /\ QueueOK' /\ LoopOK' /\ ActorsOK'
      BY <1>2, TimersNext, QueueNext, LoopNext, ActorsNext DEF SimInv
    <2>2. (TimersOK /\ QueueOK /\ LoopOK /\ ActorsOK)' => SimTypeInv'
      BY Parts, PTL
    <2>3. (ListedInTime /\ MayJump /\ QueueSeenEmpty /\ MailboxSeenEmpty /\ RequestThere)'
      BY <1>2, ListedNext, MayJumpNext, QueueSeenNext, MailboxSeenNext, RequestThereNext
    <2>. QED
      BY <2>1, <2>2, <2>3 DEF SimInv
  <1>. QED
    BY <1>1, <1>2

LEMMA SimInvInit == SimInit => SimInv
  <1>. SUFFICES ASSUME SimInit PROVE SimInv
    OBVIOUS
  <1>1. TimersOK
    <2>1. NewTimer \in Handles
      BY DEF NewTimer, Handles, TimeoutIds, Instants
    <2>2. timer \in [Timers -> Handles]
      BY <2>1 DEF SimInit
    <2>3. IsTimeoutList([k \in {} |-> 0])
      BY DEF IsTimeoutList
    <2>. QED
      BY <2>2, <2>3 DEF SimInit, TimersOK, TimeoutIds
  <1>2. QueueOK
    <2>1. <<>> \in Seq(Sent(request_id)) /\ Len(<<>>) = 0
      OBVIOUS
    <2>2. msg.dst \in Actors
      BY DEF SimInit, Notification
    <2>. QED
      BY <2>1, <2>2 DEF SimInit, QueueOK
  <1>3. LoopOK
    BY DEF SimInit, LoopOK, Instants, Results
  <1>4. ActorsOK
    <2>1. <<>> \in Seq(MailboxMessages) /\ Len(<<>>) = 0
      OBVIOUS
    <2>. QED
      BY <2>1 DEF SimInit, ActorsOK
  <1>5. ListedInTime /\ MayJump /\ QueueSeenEmpty /\ MailboxSeenEmpty /\ RequestThere
    BY DEF SimInit, ListedInTime, MayJump, QueueSeenEmpty, MailboxSeenEmpty, RequestThere
  <1>. QED
    BY <1>1, <1>2, <1>3, <1>4, <1>5, Parts DEF SimInv

LEMMA SimInvariant == SimSpec => []SimInv
  BY SimInvInit, SimInvNext, PTL DEF SimSpec

\* The type invariant: types, and the capacities of the queue and the mailbox.
THEOREM SimTypeCorrect == SimSpec => []SimTypeOK
<1>1. SimInv => SimTypeOK
  BY DEF SimInv, SimTypeInv
<1>. QED
  BY <1>1, SimInvariant, PTL

\* The only step by which the time of a call is over.
LEMMA ElapsesByElapse ==
    ASSUME SimInv, SimNext, Elapses
    PROVE  Elapse
  <1>. USE DEF timerVars, schedulerVars, waitVars, loopVars, vars, simVars, actorVars, callVars,
               senderVars
  <1>. USE DEF Elapses
  <1>0. TimersOK
    BY Parts DEF SimInv
  <1>1. ~(\/ TryEmpty \/ SimDispatch \/ DispatchToNone \/ SimStop \/ ReturnStopped
          \/ BreakWithMessage \/ NoMessage \/ Continue \/ Break \/ SimReturn)
    BY DEF TryEmpty, SimDispatch, DispatchToNone, SimStop, Taking, ReturnStopped, BreakWithMessage,
           NoMessage, Continue, Break, ReturnWith, SimReturn, ReturnTo
  <1>2. \A end, r : ~(Process(end) \/ WaitUntil(end) \/ RequestUntil(r, end))
    BY DEF Process, WaitUntil, RequestUntil, Begin
  <1>3. \A r, a : ~(Respond(r) \/ NotifyMailbox \/ SendStop \/ SimSend(a))
    BY DEF Respond, NotifyMailbox, SendStop, SimSend, OtherSend
  <1>4. \A a : ~(SendTimeout \/ SendTimeoutFull \/ Advance \/ Replace(a))
    BY DEF SendTimeout, SendTimeoutFull, Advance, Replace
  <1>5. \A t, i : ~(SimIsScheduling(t) \/ SimUnschedule(t) \/ SimScheduleUntil(t, i))
    BY DEF SimIsScheduling, IsScheduling, SimUnschedule, Unschedule, SimScheduleUntil,
           ScheduleUntil, IsHandling
  <1>. QED
    BY <1>0, <1>1, <1>2, <1>3, <1>4, <1>5, Actions DEF QuietAction, TimerAction

\* A call whose time is over simulated all of it: the clock is at the instant, the
\* queue holds nothing but what was sent after it was seen empty, and every timer due
\* before the instant was taken out of the list (try_send_next_pending_timeout before
\* the clock jumps).
THEOREM ElapsedCallsComplete == SimSpec => ElapsedIsComplete
<1>1. SimInv /\ [SimNext]_allVars =>
        [Elapses /\ ~Before(instant, now) =>
            /\ now = instant
            /\ Len(queue) <= late
            /\ \A k \in DOMAIN timeout_list : Before(k.deadline, instant) => k.id \in overdue]_allVars
  <2>. SUFFICES ASSUME SimInv, SimNext, Elapses, ~Before(instant, now)
                PROVE  /\ now = instant
                       /\ Len(queue) <= late
                       /\ \A k \in DOMAIN timeout_list :
                            Before(k.deadline, instant) => k.id \in overdue
    OBVIOUS
  <2>1. Elapse
    BY ElapsesByElapse
  <2>2. pc = "cond" /\ ~message_processed /\ now = instant
    BY <2>1 DEF Elapse, TimeIsOver
  <2>. QED
    BY <2>2 DEF SimInv, ListedInTime, QueueSeenEmpty
<1>. QED
  BY <1>1, SimInvariant, PTL DEF SimSpec, ElapsedIsComplete

\* A request whose time is over was not answered, and its behavior has it: it went from the
\* queue to the behavior, and an answer would have been found by try_get_message, also one
\* that met a full mailbox, because the message that took its place ends the call first.
THEOREM ElapsedRequestsUnanswered == SimSpec => ElapsedIsUnanswered
<1>1. SimInv /\ [SimNext]_allVars =>
        [Elapses /\ call = "request" =>
            /\ \A n \in 1 .. Len(mailbox) :
                   ~(mailbox[n].kind = "Response" /\ mailbox[n].id = request_id)
            /\ ~Before(instant, now) => \E h \in held : h.id = request_id]_allVars
  <2>. SUFFICES ASSUME SimInv, SimNext, Elapses, call = "request"
                PROVE  /\ \A n \in 1 .. Len(mailbox) :
                              ~(mailbox[n].kind = "Response" /\ mailbox[n].id = request_id)
                       /\ ~Before(instant, now) => \E h \in held : h.id = request_id
    OBVIOUS
  <2>1. Elapse /\ pc = "cond"
    BY ElapsesByElapse DEF Elapses
  <2>2. \A n \in 1 .. Len(mailbox) : mailbox[n].kind # "Response"
    <3>1. PICK S : S = {Notice}
      OBVIOUS
    <3>2. mailbox \in Seq(S)
      BY <2>1, <3>1 DEF SimInv, MailboxSeenEmpty
    <3>3. \A n \in 1 .. Len(mailbox) : mailbox[n] = Notice
      BY <3>1, <3>2
    <3>. QED
      BY <3>3 DEF Notice
  <2>3. ASSUME ~Before(instant, now) PROVE \E h \in held : h.id = request_id
    <3>1. ~message_processed
      BY <2>1, <2>3 DEF Elapse, TimeIsOver
    <3>2. \A i \in 1 .. Len(queue) : queue[i].kind = "Notification"
      BY <2>1, <3>1 DEF SimInv, QueueSeenEmpty
    <3>3. ~InQueue
      BY <3>2 DEF InQueue, OfCall, IsOfProgram
    <3>4. InQueue \/ IsHeld
      BY <2>1 DEF SimInv, RequestThere, Answered
    <3>. QED
      BY <3>3, <3>4 DEF IsHeld
  <2>. QED
    BY <2>2, <2>3
<1>. QED
  BY <1>1, SimInvariant, PTL DEF SimSpec, ElapsedIsUnanswered

-------------------------------------------------------------------------------
(* Firing.                                                                 *)

\* What is in flight when nothing is sent but messages of other kinds.
LEMMA NothingSent ==
    ASSUME SimInv, SimNext, ~SendTimeout
    PROVE  IdsInFlight' \subseteq IdsInFlight
  <1>. USE DEF timerVars, schedulerVars, waitVars, loopVars, vars, simVars, actorVars, callVars,
               senderVars
  <1>0. TimersOK /\ QueueOK
    BY Parts DEF SimInv
  <1>1. CASE UNCHANGED <<queue, msg>> /\ (pc' = "handle" => pc = "handle")
    BY <1>1 DEF IdsInFlight, TimeoutPositions
  <1>2. ASSUME NEW m, m.kind # "Timeout", queue' = Append(queue, m), UNCHANGED msg,
               pc' = "handle" => pc = "handle"
        PROVE  IdsInFlight' \subseteq IdsInFlight
    <2>1. TimeoutPositions' = TimeoutPositions /\ \A i \in TimeoutPositions : queue'[i] = queue[i]
      BY <1>0, <1>2, OtherAppended
    <2>. QED
      BY <1>2, <2>1 DEF IdsInFlight
  <1>3. ASSUME queue # <<>>, queue' = Tail(queue)
        PROVE  \A i \in TimeoutPositions' : /\ i + 1 \in TimeoutPositions
                                            /\ queue'[i] = queue[i + 1]
    <2>1. PICK S : S = Sent(request_id)
      OBVIOUS
    <2>2. queue \in Seq(S)
      BY <1>0, <2>1 DEF QueueOK
    <2>3. /\ Len(queue) \in Nat \ {0} /\ Len(queue') = Len(queue) - 1
          /\ \A i \in 1 .. Len(queue) - 1 : queue'[i] = queue[i + 1]
      BY <1>3, <2>2, Shorter
    <2>. QED
      BY <2>3 DEF TimeoutPositions, IsTimeout
  <1>4. CASE DispatchToNone
    <2>1. queue # <<>> /\ queue' = Tail(queue) /\ pc' = "check"
      BY <1>4 DEF DispatchToNone, Taking
    <2>. QED
      BY <1>3, <2>1 DEF IdsInFlight
  <1>5. CASE SimDispatch
    <2>1. queue # <<>> /\ queue' = Tail(queue) /\ msg' = Head(queue)
      BY <1>5 DEF SimDispatch, Taking, Dispatch
    <2>2. IsTimeout(msg') => 1 \in TimeoutPositions /\ msg' = queue[1]
      <3>1. PICK S : S = Sent(request_id)
        OBVIOUS
      <3>2. queue \in Seq(S)
        BY <1>0, <3>1 DEF QueueOK
      <3>3. Len(queue) \in Nat \ {0} /\ Head(queue) = queue[1]
        BY <2>1, <3>2, Shorter
      <3>. QED
        BY <2>1, <3>3 DEF TimeoutPositions, IsTimeout
    <2>3. {queue'[i].id : i \in TimeoutPositions'} \subseteq {queue[i].id : i \in TimeoutPositions}
      BY <1>3, <2>1
    <2>4. IsTimeout(msg') => msg'.id \in {queue[i].id : i \in TimeoutPositions}
      BY <2>2
    <2>5. IdsInFlight' \subseteq {queue'[i].id : i \in TimeoutPositions'}
                                \cup {id \in {msg'.id} : IsTimeout(msg')}
      BY DEF IdsInFlight, IsTimeout
    <2>6. {queue[i].id : i \in TimeoutPositions} \subseteq IdsInFlight
      BY DEF IdsInFlight
    <2>. QED
      BY <2>3, <2>4, <2>5, <2>6
  <1>6. CASE SimStop
    <2>1. PICK stop : stop = Head(queue)
      OBVIOUS
    <2>2. (queue' = <<>> \/ queue' = <<Notification(stop.src)>>) /\ pc' = "stop"
      BY <1>6, <2>1 DEF SimStop, AfterStop
    <2>3. TimeoutPositions' = {}
      <3>1. CASE queue' = <<>>
        <4>1. Len(queue') = 0
          BY <3>1
        <4>. QED
          BY <4>1 DEF TimeoutPositions
      <3>2. CASE queue' = <<Notification(stop.src)>>
        <4>1. PICK m : m = Notification(stop.src)
          OBVIOUS
        <4>2. Len(queue') = 1 /\ queue'[1] = m /\ m.kind = "Notification"
          BY <3>2, <4>1 DEF Notification
        <4>. QED
          BY <4>2 DEF TimeoutPositions, IsTimeout
      <3>. QED
        BY <2>2, <3>1, <3>2
    <2>. QED
      BY <2>2, <2>3 DEF IdsInFlight
  <1>7. CASE \/ TryEmpty \/ ReturnStopped \/ BreakWithMessage \/ NoMessage \/ Elapse
             \/ Continue \/ Break \/ SimReturn
    BY <1>1, <1>7 DEF TryEmpty, ReturnStopped, BreakWithMessage, NoMessage, Elapse, Continue, Break,
                      ReturnWith, SimReturn, ReturnTo
  <1>8. ASSUME NEW end, Process(end) \/ WaitUntil(end)
        PROVE  IdsInFlight' \subseteq IdsInFlight
    BY <1>1, <1>8 DEF Process, WaitUntil, Begin
  <1>9. ASSUME NEW end, NEW r \in NextRequests, RequestUntil(r, end)
        PROVE  IdsInFlight' \subseteq IdsInFlight
    <2>1. r.kind # "Timeout"
      BY DEF NextRequests, Request, Stop
    <2>2. /\ UNCHANGED msg /\ pc' # "handle"
          /\ queue' = Append(queue, r) \/ UNCHANGED queue
      BY <1>9 DEF RequestUntil, Begin
    <2>. QED
      BY <1>1, <1>2, <2>1, <2>2
  <1>10. ASSUME NEW r, Respond(r) \/ NotifyMailbox PROVE IdsInFlight' \subseteq IdsInFlight
    BY <1>1, <1>10 DEF Respond, NotifyMailbox
  <1>11. CASE SendStop
    <2>1. queue' = Append(queue, Stop(msg.dst, 0)) /\ UNCHANGED <<msg, pc>>
      BY <1>11 DEF SendStop
    <2>2. PICK m : m = Stop(msg.dst, 0)
      OBVIOUS
    <2>3. m.kind # "Timeout"
      BY <2>2 DEF Stop
    <2>. QED
      BY <1>2, <2>1, <2>2, <2>3
  <1>12. ASSUME NEW a \in Actors, SimSend(a) PROVE IdsInFlight' \subseteq IdsInFlight
    <2>1. queue' = Append(queue, Notification(a)) /\ UNCHANGED <<msg, pc>>
      BY <1>12 DEF SimSend, OtherSend
    <2>2. Notification(a).kind # "Timeout"
      BY DEF Notification
    <2>. QED
      BY <1>2, <2>1, <2>2
  <1>13. CASE SendTimeoutFull \/ Advance
    BY <1>1, <1>13 DEF SendTimeoutFull, Advance
  <1>14. ASSUME NEW a, Replace(a) PROVE IdsInFlight' \subseteq IdsInFlight
    BY <1>1, <1>14 DEF Replace
  <1>15. ASSUME NEW t, NEW i, SimIsScheduling(t) \/ SimUnschedule(t) \/ SimScheduleUntil(t, i)
         PROVE  IdsInFlight' \subseteq IdsInFlight
    BY <1>1, <1>15 DEF SimIsScheduling, IsScheduling, SimUnschedule, Unschedule, SimScheduleUntil,
                       ScheduleUntil
  <1>16. CASE QuietAction
    BY <1>16, <1>4, <1>5, <1>6, <1>7, <1>8, <1>9, <1>10, <1>11, <1>12 DEF QuietAction
  <1>17. CASE TimerAction
    BY <1>17, <1>13, <1>14, <1>15 DEF TimerAction
  <1>. QED
    BY <1>0, <1>16, <1>17, Actions

\* What the list, the messages in flight and the running timers have left of what they
\* were keeps the invariant.
LEMMA FiringLess ==
    ASSUME FiringInv, UNCHANGED <<now, next_timeout_id, schedulings>>, overdue \subseteq overdue',
           DOMAIN timeout_list' \subseteq DOMAIN timeout_list, IdsInFlight' \subseteq IdsInFlight,
           \A t \in Timers : Armed(t)' => Armed(t) /\ timer'[t] = timer[t]
    PROVE  FiringInv'
  <1>1. FreshIds'
    BY DEF FiringInv, FreshIds
  <1>2. IdsKnown'
    <2>1. IdsListed' \subseteq IdsListed
      BY DEF IdsListed
    <2>2. IdsArmed' \subseteq IdsArmed
      BY DEF IdsArmed
    <2>. QED
      BY <2>1, <2>2 DEF FiringInv, IdsKnown
  <1>3. OwnEntry'
    BY DEF FiringInv, OwnEntry
  <1>4. InFlightOnTime'
    BY DEF FiringInv, InFlightOnTime
  <1>. QED
    BY <1>1, <1>2, <1>3, <1>4 DEF FiringInv

\* The Timeout that is sent is that of a timer that is due, and at the latest now.
LEMMA FiringSendTimeout ==
    ASSUME SimInv, FiringInv, SendTimeout, UNCHANGED simVars
    PROVE  FiringInv'
  <1>0. TimersOK /\ QueueOK /\ ListedInTime
    BY Parts DEF SimInv
  <1>1. PICK k \in DOMAIN timeout_list :
            /\ Mature(k) /\ timeout_list' = RemoveKey(timeout_list, k)
            /\ queue' = Append(queue, Timeout(k.id, timeout_list[k]))
    BY DEF SendTimeout
  <1>2. /\ UNCHANGED <<now, timer, next_timeout_id, schedulings, msg, overdue>>
        /\ pc = "timeout" /\ pc' = "try"
    BY DEF SendTimeout, AfterTimeoutSent, simVars, senderVars
  <1>3. DOMAIN timeout_list' = DOMAIN timeout_list \ {k}
    BY <1>1 DEF RemoveKey
  <1>4. IdsInFlight' \subseteq IdsInFlight \cup {k.id}
    <2>1. PICK m : m = Timeout(k.id, timeout_list[k])
      OBVIOUS
    <2>2. PICK S : S = Sent(request_id) \cup {m}
      OBVIOUS
    <2>3. queue \in Seq(S) /\ m \in S
      <3>1. PICK R : R = Sent(request_id)
        OBVIOUS
      <3>2. queue \in Seq(R) /\ R \subseteq S
        BY <1>0, <2>2, <3>1 DEF QueueOK
      <3>. QED
        BY <2>2, <3>2, WiderSeq
    <2>4. /\ Len(queue) \in Nat /\ Len(queue') = Len(queue) + 1
          /\ \A i \in 1 .. Len(queue) : queue'[i] = queue[i]
          /\ queue'[Len(queue) + 1] = m
      BY <1>1, <2>1, <2>3, Longer
    <2>5. m.id = k.id
      BY <2>1 DEF Timeout
    <2>6. \A i \in TimeoutPositions' : \/ i \in TimeoutPositions /\ queue'[i] = queue[i]
                                       \/ queue'[i].id = k.id
      BY <2>4, <2>5 DEF TimeoutPositions, IsTimeout
    <2>. QED
      BY <1>2, <2>6 DEF IdsInFlight
  <1>5. FreshIds'
    BY <1>2 DEF FiringInv, FreshIds
  <1>6. IdsKnown'
    <2>1. IdsListed' \subseteq IdsListed /\ k.id \in IdsListed
      BY <1>3 DEF IdsListed
    <2>2. IdsArmed' = IdsArmed
      BY <1>2 DEF IdsArmed, Armed
    <2>. QED
      BY <1>2, <1>4, <2>1, <2>2 DEF FiringInv, IdsKnown
  <1>7. OwnEntry'
    BY <1>2, <1>3 DEF FiringInv, OwnEntry, Armed
  <1>8. InFlightOnTime'
    <2>. SUFFICES ASSUME NEW t \in Timers, Armed(t)', timer'[t].id \in IdsInFlight'
                  PROVE  timer[t].deadline = now \/ timer[t].id \in overdue
      BY <1>2 DEF InFlightOnTime
    <2>1. Armed(t) /\ (timer[t].id \in IdsInFlight \/ timer[t].id = k.id)
      BY <1>2, <1>4 DEF Armed
    <2>2. CASE timer[t].id \in IdsInFlight
      BY <2>1, <2>2 DEF FiringInv, InFlightOnTime
    <2>3. CASE timer[t].id = k.id
      <3>1. k = timer[t]
        BY <2>1, <2>3 DEF FiringInv, OwnEntry
      <3>2. k.deadline = now \/ Before(k.deadline, now)
        <4>1. k.deadline \in Instants /\ k.deadline # Infinity /\ now \in Nat
          BY <1>0, <2>1, <3>1 DEF TimersOK, IsTimeoutList, Handles, Armed
        <4>. QED
          BY <1>1, <4>1 DEF Mature, SaturatingSub, Before, Instants
      <3>. QED
        BY <1>0, <3>1, <3>2 DEF ListedInTime
    <2>. QED
      BY <2>1, <2>2, <2>3
  <1>. QED
    BY <1>5, <1>6, <1>7, <1>8 DEF FiringInv

\* The clock does not move while a Timeout is in flight.
LEMMA FiringAdvance ==
    ASSUME SimInv, FiringInv, Advance, IdsInFlight' \subseteq IdsInFlight
    PROVE  FiringInv'
  <1>1. UNCHANGED <<timer, timeout_list, next_timeout_id, schedulings>> /\ pc = "timeout"
    BY DEF Advance, timerVars, schedulerVars
  <1>2. IdsInFlight = {}
    BY <1>1 DEF SimInv, MayJump, IdsInFlight
  <1>3. IdsInFlight' = {}
    BY <1>2
  <1>4. InFlightOnTime'
    BY <1>3 DEF InFlightOnTime
  <1>5. FreshIds' /\ OwnEntry'
    BY <1>1 DEF FiringInv, FreshIds, OwnEntry, Armed
  <1>6. IdsKnown'
    <2>1. IdsListed' = IdsListed /\ IdsArmed' = IdsArmed
      BY <1>1 DEF IdsListed, IdsArmed, Armed
    <2>. QED
      BY <1>1, <1>3, <2>1 DEF FiringInv, IdsKnown
  <1>. QED
    BY <1>4, <1>5, <1>6 DEF FiringInv

\* A scheduling takes an id that nothing else has.
LEMMA FiringSchedule ==
    ASSUME NoIdReuse, SimInv, FiringInv, NEW t \in Timers, NEW i \in Instants,
           SimScheduleUntil(t, i), IdsInFlight' \subseteq IdsInFlight
    PROVE  FiringInv'
  <1>0. TimersOK
    BY Parts DEF SimInv
  <1>1. PICK k : k = [id |-> next_timeout_id, deadline |-> i]
    OBVIOUS
  <1>2. /\ timer' = [timer EXCEPT ![t] = k]
        /\ timeout_list' = InsertKey(ListAfterUnschedule(t), k, Owner[t])
        /\ next_timeout_id' = (next_timeout_id + 1) % IdSpace
        /\ schedulings < MaxSchedulings /\ schedulings' = schedulings + 1
        /\ now' = now /\ overdue \subseteq overdue'
    BY <1>1 DEF SimScheduleUntil, ScheduleUntil
  <1>3. schedulings \in Nat /\ schedulings < IdSpace
    BY <1>0, <1>2 DEF TimersOK, NoIdReuse
  <1>4. next_timeout_id = schedulings /\ k.id = schedulings
    BY <1>1, <1>3 DEF FiringInv, FreshIds
  <1>5. DOMAIN timeout_list' \subseteq DOMAIN timeout_list \cup {k}
    <2>1. DOMAIN ListAfterUnschedule(t) \subseteq DOMAIN timeout_list
      BY <1>0, Unscheduled DEF TimersOK
    <2>. QED
      BY <1>2, <2>1 DEF InsertKey
  <1>6. timer'[t] = k /\ \A u \in Timers \ {t} : timer'[u] = timer[u]
    BY <1>0, <1>2 DEF TimersOK
  <1>7. \A id \in IdsListed \cup IdsInFlight \cup IdsArmed :
            id \in 0 .. schedulings - 1 /\ id < schedulings
    BY <1>3 DEF FiringInv, IdsKnown
  <1>8. /\ \A l \in DOMAIN timeout_list : l.id \in IdsListed
        /\ \A u \in Timers : Armed(u) => timer[u].id \in IdsArmed
    BY DEF IdsListed, IdsArmed
  <1>9. FreshIds'
    BY <1>2, <1>3, <1>4 DEF FreshIds
  <1>10. IdsKnown'
    <2>1. IdsListed' \subseteq IdsListed \cup {schedulings}
      BY <1>4, <1>5 DEF IdsListed
    <2>2. IdsArmed' \subseteq IdsArmed \cup {schedulings}
      BY <1>4, <1>6 DEF IdsArmed, Armed
    <2>3. \A id \in IdsListed' \cup IdsInFlight' \cup IdsArmed' :
              id = schedulings \/ id \in IdsListed \cup IdsInFlight \cup IdsArmed
      BY <2>1, <2>2
    <2>. QED
      BY <1>2, <1>3, <1>7, <2>3 DEF IdsKnown
  <1>11. OwnEntry'
    <2>. SUFFICES ASSUME NEW u \in Timers, Armed(u)', NEW l \in DOMAIN timeout_list',
                         l.id = timer'[u].id
                  PROVE  l = timer'[u]
      BY DEF OwnEntry
    <2>1. CASE u = t
      <3>1. l = k \/ l.id < schedulings
        BY <1>5, <1>7, <1>8
      <3>. QED
        BY <1>3, <1>4, <1>6, <2>1, <3>1
    <2>2. CASE u # t
      <3>1. Armed(u) /\ timer'[u] = timer[u]
        BY <1>6, <2>2 DEF Armed
      <3>2. timer[u].id < schedulings
        BY <1>7, <1>8, <3>1
      <3>3. l \in DOMAIN timeout_list
        BY <1>3, <1>4, <1>5, <3>1, <3>2
      <3>. QED
        BY <3>1, <3>3 DEF FiringInv, OwnEntry
    <2>. QED
      BY <2>1, <2>2
  <1>12. InFlightOnTime'
    <2>. SUFFICES ASSUME NEW u \in Timers, Armed(u)', timer'[u].id \in IdsInFlight
                  PROVE  timer'[u].deadline = now \/ timer'[u].id \in overdue
      BY <1>2 DEF InFlightOnTime
    <2>1. timer'[u].id < schedulings
      BY <1>7
    <2>2. u # t
      BY <1>3, <1>4, <1>6, <2>1
    <2>3. Armed(u) /\ timer'[u] = timer[u]
      BY <1>6, <2>2 DEF Armed
    <2>. QED
      BY <2>3 DEF FiringInv, InFlightOnTime
  <1>. QED
    BY <1>9, <1>10, <1>11, <1>12 DEF FiringInv

LEMMA FiringNext ==
    ASSUME NoIdReuse, SimInv, FiringInv, [SimNext]_allVars
    PROVE  FiringInv'
  <1>. USE DEF timerVars, schedulerVars, waitVars, loopVars, vars, simVars, actorVars, callVars,
               senderVars
  <1>0. TimersOK
    BY Parts DEF SimInv
  <1>1. CASE UNCHANGED allVars
    <2>1. IdsInFlight' = IdsInFlight
      BY <1>1 DEF allVars, IdsInFlight, TimeoutPositions
    <2>2. /\ UNCHANGED <<now, timer, timeout_list, next_timeout_id, schedulings, overdue>>
          /\ \A t \in Timers : Armed(t)' => Armed(t) /\ timer'[t] = timer[t]
      BY <1>1 DEF allVars, Armed
    <2>. QED
      BY <2>1, <2>2, FiringLess
  <1>2. CASE SendTimeout /\ UNCHANGED simVars
    BY <1>2, FiringSendTimeout
  <1>3. ASSUME SimNext, ~SendTimeout PROVE FiringInv'
    <2>0. IdsInFlight' \subseteq IdsInFlight
      BY <1>3, NothingSent
    <2>1. ASSUME NEW t \in Timers, NEW i \in Instants, SimScheduleUntil(t, i) PROVE FiringInv'
      BY <2>0, <2>1, FiringSchedule
    <2>2. CASE Advance
      BY <2>0, <2>2, FiringAdvance
    <2>3. ASSUME UNCHANGED <<now, next_timeout_id, schedulings, overdue>>,
                 DOMAIN timeout_list' \subseteq DOMAIN timeout_list,
                 \A t \in Timers : Armed(t)' => Armed(t) /\ timer'[t] = timer[t]
          PROVE  FiringInv'
      BY <2>0, <2>3, FiringLess
    <2>4. CASE QuietAction
      <3>1. UNCHANGED <<now, timer, timeout_list, next_timeout_id, schedulings, overdue>>
        BY <2>4, Quiet
      <3>. QED
        BY <2>3, <3>1 DEF Armed
    <2>5. CASE SendTimeoutFull /\ UNCHANGED simVars
      <3>1. PICK k \in DOMAIN timeout_list : timeout_list' = Reinsert(k)
        BY <2>5 DEF SendTimeoutFull
      <3>2. DOMAIN timeout_list' = DOMAIN timeout_list
        BY <3>1 DEF Reinsert, InsertKey, RemoveKey
      <3>3. UNCHANGED <<now, timer, next_timeout_id, schedulings, overdue>>
        BY <2>5 DEF SendTimeoutFull
      <3>. QED
        BY <2>3, <3>2, <3>3 DEF Armed
    <2>6. ASSUME NEW a \in Actors, Replace(a) PROVE FiringInv'
      <3>1. /\ timer' = [t \in Timers |-> IF Owner[t] = a THEN NewTimer ELSE timer[t]]
            /\ UNCHANGED <<now, timeout_list, next_timeout_id, schedulings, overdue>>
        BY <2>6 DEF Replace
      <3>2. \A t \in Timers : Armed(t)' => Armed(t) /\ timer'[t] = timer[t]
        BY <3>1 DEF Armed, NewTimer
      <3>. QED
        BY <2>3, <3>1, <3>2
    <2>7. ASSUME NEW t \in Timers, SimIsScheduling(t) PROVE FiringInv'
      <3>1. /\ timer' = [timer EXCEPT ![t] = Disarmed(@)] \/ UNCHANGED timer
            /\ UNCHANGED <<now, timeout_list, next_timeout_id, schedulings, overdue>>
        BY <2>7 DEF SimIsScheduling, IsScheduling
      <3>2. \A u \in Timers : Armed(u)' => Armed(u) /\ timer'[u] = timer[u]
        BY <1>0, <3>1 DEF Armed, Disarmed, TimersOK, Handles
      <3>. QED
        BY <2>3, <3>1, <3>2
    <2>8. ASSUME NEW t \in Timers, SimUnschedule(t) PROVE FiringInv'
      <3>1. /\ timer' = [timer EXCEPT ![t] = Disarmed(@)]
            /\ timeout_list' = ListAfterUnschedule(t)
            /\ UNCHANGED <<now, next_timeout_id, schedulings, overdue>>
        BY <2>8 DEF SimUnschedule, Unschedule
      <3>2. \A u \in Timers : Armed(u)' => Armed(u) /\ timer'[u] = timer[u]
        BY <1>0, <3>1 DEF Armed, Disarmed, TimersOK, Handles
      <3>3. DOMAIN ListAfterUnschedule(t) \subseteq DOMAIN timeout_list
        BY <1>0, Unscheduled DEF TimersOK
      <3>. QED
        BY <2>3, <3>1, <3>2, <3>3
    <2>. QED
      BY <1>0, <1>3, <2>1, <2>2, <2>4, <2>5, <2>6, <2>7, <2>8, Actions DEF TimerAction
  <1>4. SimNext /\ SendTimeout => SendTimeout /\ UNCHANGED simVars
    <2>. SUFFICES ASSUME SimNext, SendTimeout PROVE UNCHANGED simVars
      OBVIOUS
    <2>1. pc = "timeout" /\ pc' = "try" /\ DOMAIN timeout_list' # DOMAIN timeout_list
      BY DEF SendTimeout, AfterTimeoutSent, RemoveKey
    <2>2. ~QuietAction
      BY <2>1, Quiet
    <2>3. \A a : ~(Advance \/ Replace(a))
      BY <2>1 DEF Advance, Replace
    <2>4. \A t, i : ~(SimIsScheduling(t) \/ SimUnschedule(t) \/ SimScheduleUntil(t, i))
      BY <2>1 DEF SimIsScheduling, IsScheduling, SimUnschedule, Unschedule, SimScheduleUntil,
                  ScheduleUntil, IsHandling
    <2>. QED
      BY <1>0, <2>2, <2>3, <2>4, Actions DEF TimerAction
  <1>. QED
    BY <1>1, <1>2, <1>3, <1>4

\* In simulated time a timer fires exactly at its deadline, however the calls of the
\* program cut the time into pieces, or later only when it was scheduled too late: the
\* Timeout is queued when the clock is at the deadline, and the clock does not move
\* before it was handled (process_until_cond).
THEOREM TimersFireOnTime == ASSUME NoIdReuse PROVE SimSpec => FiresOnTime
<1>1. SimInit => FiringInv
  <2>. SUFFICES ASSUME SimInit PROVE FiringInv
    OBVIOUS
  <2>1. Len(queue) = 0
    BY DEF SimInit
  <2>2. IdsListed = {} /\ IdsInFlight = {} /\ IdsArmed = {} /\ \A t \in Timers : ~Armed(t)
    BY <2>1 DEF SimInit, NewTimer, IdsListed, IdsInFlight, IdsArmed, Armed, TimeoutPositions
  <2>. QED
    BY <2>2 DEF FiringInv, FreshIds, IdsKnown, OwnEntry, InFlightOnTime, SimInit
<1>2. SimInv /\ FiringInv /\ [SimNext]_allVars => FiringInv'
  BY FiringNext
<1>3. SimInv /\ FiringInv /\ [SimNext]_allVars =>
        [\A t \in Timers : Fires(t) /\ Armed(t) =>
            now = timer[t].deadline \/ timer[t].id \in overdue]_allVars
  <2>. SUFFICES ASSUME SimInv, FiringInv, SimNext, NEW t \in Timers, Fires(t), Armed(t)
                PROVE  now = timer[t].deadline \/ timer[t].id \in overdue
    OBVIOUS
  <2>. USE DEF timerVars, schedulerVars, waitVars, loopVars, vars, simVars, actorVars, callVars,
               senderVars
  <2>0. TimersOK
    BY Parts DEF SimInv
  <2>1. PICK u \in Timers : SimIsScheduling(u)
    <3>. SUFFICES ASSUME \A u \in Timers : ~SimIsScheduling(u) PROVE t \notin matched' \ matched
      BY DEF Fires
    <3>1. CASE QuietAction
      <4>1. CASE TryEmpty \/ SimDispatch \/ DispatchToNone \/ SimStop \/ ReturnStopped
        BY <4>1 DEF TryEmpty, SimDispatch, Dispatch, DispatchToNone, SimStop, ReturnStopped,
                    ReturnWith
      <4>2. CASE BreakWithMessage \/ NoMessage \/ Elapse \/ Continue \/ Break \/ SimReturn
        BY <4>2 DEF BreakWithMessage, NoMessage, Elapse, Continue, Break, ReturnWith, SimReturn,
                    ReturnTo
      <4>3. ASSUME NEW end, NEW r, Process(end) \/ WaitUntil(end) \/ RequestUntil(r, end)
            PROVE  t \notin matched' \ matched
        BY <4>3 DEF Process, WaitUntil, RequestUntil, Begin
      <4>4. ASSUME NEW r, NEW a, Respond(r) \/ NotifyMailbox \/ SendStop \/ SimSend(a)
            PROVE  t \notin matched' \ matched
        BY <4>4 DEF Respond, NotifyMailbox, SendStop, SimSend, OtherSend
      <4>. QED
        BY <3>1, <4>1, <4>2, <4>3, <4>4 DEF QuietAction
    <3>2. CASE TimerAction
      <4>1. SendTimeout \/ SendTimeoutFull \/ Advance => t \notin matched' \ matched
        BY DEF SendTimeout, SendTimeoutFull, Advance
      <4>2. \A a : Replace(a) => t \notin matched' \ matched
        BY DEF Replace
      <4>3. \A v, i : SimUnschedule(v) \/ SimScheduleUntil(v, i) => t \notin matched' \ matched
        BY DEF SimUnschedule, Unschedule, SimScheduleUntil, ScheduleUntil
      <4>. QED
        BY <3>2, <4>1, <4>2, <4>3 DEF TimerAction
    <3>. QED
      BY <2>0, <3>1, <3>2, Actions
  <2>2. u = t /\ IsSchedulingMatches(t) /\ IsHandling(t)
    BY <2>1 DEF SimIsScheduling, IsScheduling, Fires
  <2>3. timer[t].id \in IdsInFlight
    BY <2>2 DEF IsSchedulingMatches, IsHandling, IdsInFlight
  <2>. QED
    BY <2>3 DEF FiringInv, InFlightOnTime
<1>. QED
  BY <1>1, <1>2, <1>3, SimInvariant, PTL DEF SimSpec, FiresOnTime

===============================================================================
