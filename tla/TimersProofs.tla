---------------------------- MODULE TimersProofs ----------------------------
(***************************************************************************)
(* Proofs about Timers for every number of actors and timers, every queue  *)
(* size and every choice of deadlines, as long as the u32 of the timeout   *)
(* ids does not wrap around.                                               *)
(***************************************************************************)
EXTENDS Timers, NaturalsInduction, WellFoundedInduction, TLAPS

USE NoClockValue, ActorsAssumption, OwnerAssumption, QueueSizeAssumption,
    IdSpaceAssumption, ChoicesAssumption, BoundsAssumption

\* Adding a duration to an instant of the clock gives an instant.
LEMMA PlusType == ASSUME NEW i \in Instants, NEW d \in Durations
                  PROVE  Plus(i, d) \in Instants
  BY DEF Plus, Instants, Durations

\* What the scheduler waits for is a duration.
LEMMA SaturatingSubType == ASSUME NEW i \in Instants, NEW n \in Nat
                           PROVE  SaturatingSub(i, n) \in Durations
  BY DEF SaturatingSub, Instants, Durations, Before

\* A timer is mature when the clock has reached its deadline.
LEMMA MatureIsDue == ASSUME NEW k \in Handles, now \in Nat, Mature(k)
                     PROVE  k.deadline \in Nat /\ k.deadline <= now
  BY DEF Mature, SaturatingSub, Handles, Instants, Before

-------------------------------------------------------------------------------
(* Instants and the order of the list.                                     *)

\* Instants are ordered, and INFINITY is the last one.
LEMMA BeforeOrder ==
    ASSUME NEW a \in Instants, NEW b \in Instants, NEW c \in Instants
    PROVE  /\ ~Before(a, a)
           /\ Before(a, b) /\ Before(b, c) => Before(a, c)
           /\ Before(a, b) \/ Before(b, a) \/ a = b
           /\ a = Infinity \/ Before(a, Infinity)
  BY DEF Before, Instants

\* The keys of the list are ordered, whatever their deadlines and ids.
LEMMA PrecedesOrder ==
    ASSUME NEW k \in Handles, NEW l \in Handles, NEW m \in Handles
    PROVE  /\ ~Precedes(k, k)
           /\ Precedes(k, l) /\ Precedes(l, m) => Precedes(k, m)
           /\ Precedes(k, l) \/ Precedes(l, k) \/ k = l
  <1>1. \A h \in {k, l, m} : h.id \in Nat /\ h.deadline \in Instants
    BY DEF Handles, TimeoutIds
  <1>2. k.deadline = l.deadline /\ k.id = l.id => k = l
    BY DEF Handles
  <1>3. ~Precedes(k, k)
    BY <1>1, BeforeOrder DEF Precedes
  <1>4. Precedes(k, l) /\ Precedes(l, m) => Precedes(k, m)
    BY <1>1, BeforeOrder DEF Precedes
  <1>5. Precedes(k, l) \/ Precedes(l, k) \/ k = l
    BY <1>1, <1>2, BeforeOrder DEF Precedes
  <1>. QED
    BY <1>3, <1>4, <1>5

\* Waiting for what is left to an instant ends at the instant, or now when it is over.
LEMMA WaitIsExact ==
    ASSUME NEW i \in Instants, NEW n \in Nat
    PROVE  Plus(n, SaturatingSub(i, n)) = IF Before(i, n) THEN n ELSE i
  <1>1. CASE i = Infinity
    BY <1>1 DEF Plus, SaturatingSub, Before
  <1>2. CASE i # Infinity
    BY <1>2 DEF Plus, SaturatingSub, Before, Instants
  <1>. QED
    BY <1>1, <1>2

\* A set of natural numbers has a least element.
LEMMA LeastOf ==
    ASSUME NEW T \in SUBSET Nat, T # {}
    PROVE  \E n \in T : \A m \in T : n <= m
  <1>1. IsWellFoundedOn(OpToRel(<, Nat), Nat)
    BY NatLessThanWellFounded
  <1>2. PICK R : R = OpToRel(<, Nat)
    OBVIOUS
  <1>3. PICK x \in T : \A y \in T : ~(<<y, x>> \in R)
    <2>1. IsWellFoundedOn(R, Nat)
      BY <1>1, <1>2
    <2>. QED
      BY <2>1, WFMin
  <1>4. \A m, n \in Nat : <<m, n>> \in R <=> m < n
    BY <1>2 DEF OpToRel
  <1>5. \A y \in T : x <= y
    <2>. TAKE y \in T
    <2>1. x \in Nat /\ y \in Nat
      OBVIOUS
    <2>2. ~(y < x)
      BY <1>3, <1>4, <2>1
    <2>. QED
      BY <2>1, <2>2
  <1>. QED
    BY <1>5

\* The timers of a list have a first one: the least id among the least deadlines.
LEMMA FirstExists ==
    ASSUME DOMAIN timeout_list \subseteq Handles, DOMAIN timeout_list # {}
    PROVE  \E k \in DOMAIN timeout_list : IsFirst(k)
  <1>. DEFINE D == DOMAIN timeout_list
              finite == {k.deadline : k \in {k \in D : k.deadline # Infinity}}
  <1>1. \A k \in D : /\ k.id \in Nat /\ k.deadline \in Instants
                     /\ k = [id |-> k.id, deadline |-> k.deadline]
    BY DEF Handles, TimeoutIds
  <1>2. \E deadline : /\ \E k \in D : k.deadline = deadline
                      /\ \A k \in D : k.deadline = deadline \/ Before(deadline, k.deadline)
    <2>1. CASE finite = {}
      <3>1. \A k \in D : k.deadline = Infinity
        BY <2>1
      <3>. QED
        BY <3>1
    <2>2. CASE finite # {}
      <3>1. finite \in SUBSET Nat
        BY <1>1 DEF Instants
      <3>2. PICK d \in finite : \A e \in finite : d <= e
        <4>. HIDE DEF finite
        <4>. QED
          BY <2>2, <3>1, LeastOf
      <3>3. \A k \in D : k.deadline = d \/ Before(d, k.deadline)
        BY <1>1, <3>1, <3>2 DEF Before, Instants
      <3>. QED
        BY <3>2, <3>3
    <2>. QED
      BY <2>1, <2>2
  <1>3. PICK deadline : /\ \E k \in D : k.deadline = deadline
                        /\ \A k \in D : k.deadline = deadline \/ Before(deadline, k.deadline)
    BY <1>2
  <1>. DEFINE ids == {k.id : k \in {k \in D : k.deadline = deadline}}
  <1>4. ids \in SUBSET Nat /\ ids # {}
    BY <1>1, <1>3
  <1>5. PICK id \in ids : \A i \in ids : id <= i
    <2>. HIDE DEF ids
    <2>. QED
      BY <1>4, LeastOf
  <1>6. PICK k \in D : k.deadline = deadline /\ k.id = id
    BY <1>5
  <1>7. ASSUME NEW l \in D \ {k} PROVE Precedes(k, l)
    <2>1. CASE l.deadline = deadline
      <3>1. l.id \in ids
        BY <2>1
      <3>2. id <= l.id /\ l.id # id /\ id \in Nat /\ l.id \in Nat
        BY <1>1, <1>5, <1>6, <2>1, <3>1
      <3>. QED
        BY <1>6, <2>1, <3>2 DEF Precedes
    <2>2. CASE l.deadline # deadline
      BY <1>3, <1>6, <2>2 DEF Precedes
    <2>. QED
      BY <2>1, <2>2
  <1>. QED
    BY <1>6, <1>7 DEF IsFirst

\* Only one of them is the first.
LEMMA FirstUnique ==
    ASSUME DOMAIN timeout_list \subseteq Handles,
           NEW k \in DOMAIN timeout_list, NEW l \in DOMAIN timeout_list, IsFirst(k), IsFirst(l)
    PROVE  k = l
  <1>. SUFFICES ASSUME k # l PROVE FALSE
    OBVIOUS
  <1>1. Precedes(k, l) /\ Precedes(l, k) /\ k \in Handles /\ l \in Handles
    BY DEF IsFirst
  <1>. QED
    BY <1>1, PrecedesOrder

-------------------------------------------------------------------------------
(* Type correctness.                                                       *)

\* The list stays a function from handles to actors.
IsTimeoutList(list) == DOMAIN list \subseteq Handles /\ list \in [DOMAIN list -> Actors]

LEMMA RemoveKeyType ==
    ASSUME NEW list, IsTimeoutList(list), NEW k
    PROVE  /\ IsTimeoutList(RemoveKey(list, k))
           /\ DOMAIN RemoveKey(list, k) = DOMAIN list \ {k}
           /\ \A l \in DOMAIN list \ {k} : RemoveKey(list, k)[l] = list[l]
  BY DEF RemoveKey, IsTimeoutList

LEMMA InsertKeyType ==
    ASSUME NEW list, IsTimeoutList(list), NEW k \in Handles, NEW a \in Actors
    PROVE  /\ IsTimeoutList(InsertKey(list, k, a))
           /\ DOMAIN InsertKey(list, k, a) = DOMAIN list \cup {k}
           /\ InsertKey(list, k, a)[k] = a
           /\ \A l \in DOMAIN list \ {k} : InsertKey(list, k, a)[l] = list[l]
  BY DEF InsertKey, IsTimeoutList

\* Sending a message to a queue that has room keeps the queue within its capacity.
LEMMA AppendType ==
    ASSUME queue \in Seq(Messages), Len(queue) < QueueSize, NEW m \in Messages
    PROVE  Append(queue, m) \in Seq(Messages) /\ Len(Append(queue, m)) <= QueueSize
  <1>1. Append(queue, m) \in Seq(Messages) /\ Len(Append(queue, m)) = Len(queue) + 1
    OBVIOUS
  <1>2. Len(queue) \in Nat
    OBVIOUS
  <1>. QED
    BY <1>1, <1>2

\* Unscheduling takes the handle of an armed timer out of the list, or nothing.
LEMMA AfterUnschedule ==
    ASSUME TypeOK, NEW t \in Timers
    PROVE  /\ IsTimeoutList(ListAfterUnschedule(t))
           /\ DOMAIN ListAfterUnschedule(t) \subseteq DOMAIN timeout_list
           /\ \A k \in DOMAIN ListAfterUnschedule(t) :
                ListAfterUnschedule(t)[k] = timeout_list[k]
           /\ \A k \in DOMAIN timeout_list \ DOMAIN ListAfterUnschedule(t) :
                k = timer[t] /\ Armed(t)
  <1>1. IsTimeoutList(timeout_list)
    BY DEF TypeOK, IsTimeoutList
  <1>2. CASE ListAfterUnschedule(t) = timeout_list
    BY <1>1, <1>2
  <1>3. CASE ListAfterUnschedule(t) = RemoveKey(timeout_list, timer[t]) /\ Armed(t)
    <2>1. /\ IsTimeoutList(RemoveKey(timeout_list, timer[t]))
          /\ DOMAIN RemoveKey(timeout_list, timer[t]) = DOMAIN timeout_list \ {timer[t]}
          /\ \A l \in DOMAIN timeout_list \ {timer[t]} :
                RemoveKey(timeout_list, timer[t])[l] = timeout_list[l]
      BY <1>1, RemoveKeyType
    <2>. QED
      BY <2>1, <1>3 DEF Armed
  <1>4. \/ ListAfterUnschedule(t) = timeout_list
        \/ ListAfterUnschedule(t) = RemoveKey(timeout_list, timer[t]) /\ Armed(t)
    BY DEF ListAfterUnschedule, Armed
  <1>. QED
    BY <1>2, <1>3, <1>4

-----------------------------------------------------------------------------

\* The state in which process() enters its loop is well typed.
LEMMA InitTypeOK == Init => TypeOK
  <1>. SUFFICES ASSUME Init PROVE TypeOK
    OBVIOUS
  <1>1. Notification(CHOOSE a \in Actors : TRUE) \in Messages
    BY DEF Messages, Notification
  <1>2. [k \in {} |-> 0] \in [{} -> Actors]
    OBVIOUS
  <1>3. [id |-> 0, deadline |-> Infinity] \in Handles
    BY DEF Handles, TimeoutIds, Instants
  <1>4. <<>> \in Seq(Messages) /\ Len(<<>>) = 0
    OBVIOUS
  <1>. QED
    BY <1>1, <1>2, <1>3, <1>4 DEF Init, TypeOK, TimeoutIds, Instants, Durations

\* Every reachable state is well typed and the queue within its capacity.
THEOREM TypeCorrect == Spec => []TypeOK
<1>1. Init => TypeOK
  BY InitTypeOK
<1>2. TypeOK /\ [Next]_vars => TypeOK'
  <2>. SUFFICES ASSUME TypeOK, [Next]_vars PROVE TypeOK'
    OBVIOUS
  <2>. USE DEF TypeOK, schedulerVars, waitVars, loopVars
  <2>0. CASE UNCHANGED vars
    BY <2>0 DEF vars
  <2>1. ASSUME queue # <<>>, Dispatch PROVE TypeOK'
    BY <2>1 DEF Dispatch, NotWaiting, Instants, Durations
  <2>2. CASE TryProcessMessage
    BY <2>1, <2>2 DEF TryProcessMessage
  <2>3. CASE TryProcessEmpty
    BY <2>3 DEF TryProcessEmpty
  <2>4. CASE SendTimeout
    <3>. PICK k \in DOMAIN timeout_list :
            /\ timeout_list' = RemoveKey(timeout_list, k)
            /\ queue' = Append(queue, Timeout(k.id, timeout_list[k]))
      BY <2>4 DEF SendTimeout
    <3>1. Timeout(k.id, timeout_list[k]) \in Messages
      BY DEF Messages, Timeout, Handles
    <3>2. queue' \in Seq(Messages) /\ Len(queue') <= QueueSize
      BY <3>1, <2>4, AppendType DEF SendTimeout
    <3>3. IsTimeoutList(timeout_list')
      BY RemoveKeyType DEF IsTimeoutList
    <3>. QED
      BY <3>2, <3>3, <2>4 DEF SendTimeout, AfterTimeoutSent, IsTimeoutList
  <2>5. CASE SendTimeoutFull
    <3>. PICK k \in DOMAIN timeout_list : timeout_list' = Reinsert(k)
      BY <2>5 DEF SendTimeoutFull
    <3>1. IsTimeoutList(timeout_list')
      BY RemoveKeyType, InsertKeyType DEF Reinsert, IsTimeoutList
    <3>. QED
      BY <3>1, <2>5 DEF SendTimeoutFull, IsTimeoutList
  <2>6. CASE NoneMature
    <3>1. duration' \in Durations
      BY <2>6, SaturatingSubType DEF NoneMature, Handles, Durations
    <3>. QED
      BY <3>1, <2>6 DEF NoneMature
  <2>16. CASE BeginWait
    <3>1. wake' \in Instants
      BY <2>16, PlusType DEF BeginWait, Instants
    <3>. QED
      BY <3>1, <2>16 DEF BeginWait
  <2>7. CASE WaitMessage
    BY <2>1, <2>7 DEF WaitMessage
  <2>8. CASE WaitTimeout
    BY <2>8 DEF WaitTimeout, NotWaiting, Instants, Durations
  <2>9. CASE Return
    BY <2>9 DEF Return, ReturnTo
  <2>10. CASE Tick
    BY <2>10 DEF Tick
  <2>11. ASSUME NEW a \in Actors, OtherSend(a) PROVE TypeOK'
    <3>1. Notification(a) \in Messages
      BY DEF Messages, Notification
    <3>2. queue' \in Seq(Messages) /\ Len(queue') <= QueueSize
      BY <3>1, <2>11, AppendType DEF OtherSend
    <3>. QED
      BY <3>2, <2>11 DEF OtherSend
  <2>12. ASSUME NEW t \in Timers, IsScheduling(t) PROVE TypeOK'
    <3>1. Disarmed(timer[t]) \in Handles
      BY DEF Disarmed, Handles, Instants
    <3>2. timer' \in [Timers -> Handles]
      BY <2>12, <3>1 DEF IsScheduling
    <3>. QED
      BY <3>2, <2>12 DEF IsScheduling
  <2>13. ASSUME NEW t \in Timers, Unschedule(t) PROVE TypeOK'
    <3>1. timer' \in [Timers -> Handles]
      BY <2>13 DEF Unschedule, Disarmed, Handles, Instants
    <3>2. IsTimeoutList(timeout_list')
      BY <2>13, AfterUnschedule DEF Unschedule
    <3>. QED
      BY <3>1, <3>2, <2>13 DEF Unschedule, IsTimeoutList
  <2>14. ASSUME NEW t \in Timers, NEW i \in Instants, ScheduleUntil(t, i) PROVE TypeOK'
    <3>. DEFINE k == [id |-> next_timeout_id, deadline |-> i]
    <3>1. k \in Handles /\ (next_timeout_id + 1) % IdSpace \in TimeoutIds
      BY DEF Handles, TimeoutIds
    <3>2. timer' \in [Timers -> Handles]
      BY <3>1, <2>14 DEF ScheduleUntil
    <3>3. IsTimeoutList(ListAfterUnschedule(t))
      BY AfterUnschedule
    <3>4. timeout_list' = InsertKey(ListAfterUnschedule(t), k, Owner[t])
      BY <2>14 DEF ScheduleUntil
    <3>5. IsTimeoutList(timeout_list')
      BY <3>1, <3>3, <3>4, InsertKeyType
    <3>. QED
      BY <3>1, <3>2, <3>5, <2>14 DEF ScheduleUntil, IsTimeoutList
  <2>15. ASSUME NEW t \in Timers, NEW d \in Delays, ScheduleFor(t, d) PROVE TypeOK'
    BY <2>14, <2>15, PlusType DEF ScheduleFor, Instants
  <2>. QED
    BY <2>0, <2>2, <2>3, <2>4, <2>5, <2>6, <2>7, <2>8, <2>9, <2>10, <2>11, <2>12,
       <2>13, <2>14, <2>15, <2>16 DEF Next, LoopStep
<1>. QED
  BY <1>1, <1>2, PTL DEF Spec

-----------------------------------------------------------------------------
(***************************************************************************)
(* The inductive invariant.  That an armed timer is not lost needs the ids *)
(* to be distinct (unschedule and is_scheduling of one timer must not      *)
(* touch another one), which needs every id to be below the next one; the  *)
(* order of the deadlines needs, in addition, that no Timeout is in flight *)
(* when the dispatcher picks the next timer.                               *)
(***************************************************************************)

NoIdReuse == MaxSchedulings <= IdSpace

FreshIds == schedulings < IdSpace => next_timeout_id = schedulings

Safe == /\ ArmedTimerNotLost
        /\ OneTimeoutInQueue
        /\ OneTimeoutPerScheduling
        /\ DeadlineOrder

NoTestsOutsideHandler == pc # "handle" => tested = {}

IInv == TypeOK /\ FreshIds /\ NoTestsOutsideHandler /\ Safe

InFlight(t) == Queued(t) \/ Delivered(t)

\* Positions of a queue to which a message was added.
LEMMA AppendFacts ==
    ASSUME queue \in Seq(Messages), NEW m \in Messages
    PROVE  /\ Len(queue) \in Nat
           /\ Len(Append(queue, m)) = Len(queue) + 1
           /\ \A i \in 1 .. Len(queue) : Append(queue, m)[i] = queue[i]
           /\ Append(queue, m)[Len(queue) + 1] = m
  OBVIOUS

\* Positions of a queue whose head was taken.
LEMMA TailFacts ==
    ASSUME queue \in Seq(Messages), queue # <<>>
    PROVE  /\ Len(queue) \in Nat \ {0}
           /\ Len(Tail(queue)) = Len(queue) - 1
           /\ \A i \in 1 .. Len(queue) - 1 : Tail(queue)[i] = queue[i + 1]
           /\ Head(queue) = queue[1]
  OBVIOUS

\* A Timeout that is on its way to an armed timer carries an id in flight.
LEMMA InFlightIds ==
    ASSUME TypeOK, NEW t \in Timers, InFlight(t)
    PROVE  timer[t].id \in IdsInFlight
  <1>. USE DEF OwnTimeout, Timeout, IsTimeout, IdsInFlight, TimeoutPositions
  <1>1. CASE Queued(t)
    BY <1>1 DEF Queued
  <1>2. CASE Delivered(t)
    BY <1>2 DEF Delivered
  <1>. QED
    BY <1>1, <1>2 DEF InFlight

\* A step that leaves timers and list alone keeps the invariant if it neither
\* loses nor makes up a Timeout in flight.
LEMMA QuietStep ==
    ASSUME IInv, TypeOK', UNCHANGED <<timer, timeout_list, schedulings>>, now' >= now,
           \A t \in Timers : InFlight(t)' <=> InFlight(t),
           IdsInFlight' \subseteq IdsInFlight,
           OneTimeoutInQueue'
    PROVE  Safe'
  <1>. USE DEF IInv, Safe
  <1>1. ArmedTimerNotLost'
    BY DEF ArmedTimerNotLost, InFlight, Armed, Listed
  <1>2. OneTimeoutPerScheduling'
    BY DEF OneTimeoutPerScheduling, IdsListed, IdsArmed, Armed
  <1>3. DeadlineOrder'
    <2>. SUFFICES ASSUME NEW t \in Timers, Armed(t), InFlight(t)
                  PROVE  /\ ~Before(now', timer[t].deadline)
                         /\ \A k \in DOMAIN timeout_list :
                              k.id < timer[t].id => ~Before(k.deadline, timer[t].deadline)
      BY DEF DeadlineOrder, InFlight, Armed
    <2>1. /\ ~Before(now, timer[t].deadline)
          /\ \A k \in DOMAIN timeout_list :
                k.id < timer[t].id => ~Before(k.deadline, timer[t].deadline)
      BY DEF DeadlineOrder, InFlight
    <2>2. timer[t].deadline \in Nat /\ now \in Nat /\ now' \in Nat
      BY DEF TypeOK, Armed, Handles, Instants
    <2>. QED
      BY <2>1, <2>2 DEF Before
  <1>. QED
    BY <1>1, <1>2, <1>3

\* Taking the head of the queue moves the Timeout in flight, if there is one, from
\* the queue to the handler.
LEMMA DispatchStep ==
    ASSUME IInv, TypeOK', pc \in {"try", "wait"}, queue # <<>>, Dispatch
    PROVE  Safe'
  <1>. USE DEF Dispatch, schedulerVars
  <1>0. /\ Len(queue) \in Nat \ {0}
        /\ Len(queue') = Len(queue) - 1
        /\ \A i \in 1 .. Len(queue) - 1 : queue'[i] = queue[i + 1]
        /\ msg' = queue[1]
    BY TailFacts DEF IInv, TypeOK
  <1>1. /\ \A i \in 1 .. Len(queue') : i + 1 \in 1 .. Len(queue) /\ queue'[i] = queue[i + 1]
        /\ \A i \in 1 .. Len(queue) : i = 1 \/ (i - 1 \in 1 .. Len(queue') /\ queue[i] = queue'[i - 1])
    BY <1>0
  <1>2. ASSUME NEW t \in Timers PROVE InFlight(t)' <=> InFlight(t)
    <2>1. OwnTimeout(t)' = OwnTimeout(t)
      BY DEF OwnTimeout, Timeout
    <2>2. Queued(t) <=> Queued(t)' \/ msg' = OwnTimeout(t)
      BY <1>0, <1>1, <2>1 DEF Queued
    <2>3. ~Delivered(t) /\ (Delivered(t)' <=> msg' = OwnTimeout(t))
      BY <2>1 DEF Delivered, IInv, NoTestsOutsideHandler
    <2>. QED
      BY <2>2, <2>3 DEF InFlight
  <1>3. IdsInFlight' \subseteq IdsInFlight
    BY <1>0, <1>1 DEF IdsInFlight, TimeoutPositions, IsTimeout
  <1>4. OneTimeoutInQueue'
    <2>. SUFFICES ASSUME NEW i \in TimeoutPositions', NEW j \in TimeoutPositions'
                  PROVE  i = j
      BY DEF OneTimeoutInQueue
    <2>1. i + 1 \in TimeoutPositions /\ j + 1 \in TimeoutPositions
      BY <1>1 DEF TimeoutPositions, IsTimeout
    <2>2. i \in Int /\ j \in Int
      BY DEF TimeoutPositions
    <2>. QED
      BY <2>1, <2>2 DEF OneTimeoutInQueue, IInv, Safe
  <1>. QED
    BY <1>2, <1>3, <1>4, QuietStep DEF IInv, TypeOK

\* A message of another sender does not concern the timers.
LEMMA OtherSendStep ==
    ASSUME IInv, TypeOK', NEW a \in Actors, OtherSend(a)
    PROVE  Safe'
  <1>. USE DEF OtherSend, schedulerVars, waitVars, loopVars
  <1>. DEFINE m == Notification(a)
  <1>0. m \in Messages /\ m.kind # "Timeout"
    BY DEF Messages, Notification
  <1>1. /\ Len(queue) \in Nat
        /\ Len(queue') = Len(queue) + 1
        /\ \A i \in 1 .. Len(queue) : queue'[i] = queue[i]
        /\ queue'[Len(queue) + 1] = m
    BY <1>0, AppendFacts DEF IInv, TypeOK
  <1>2. 1 .. Len(queue') = 1 .. Len(queue) \cup {Len(queue) + 1}
    BY <1>1
  <1>3. TimeoutPositions' = TimeoutPositions
    BY <1>0, <1>1, <1>2 DEF TimeoutPositions, IsTimeout
  <1>4. ASSUME NEW t \in Timers PROVE InFlight(t)' <=> InFlight(t)
    <2>1. OwnTimeout(t)' = OwnTimeout(t) /\ OwnTimeout(t) # m
      BY <1>0 DEF OwnTimeout, Timeout
    <2>2. Queued(t)' <=> Queued(t)
      BY <1>1, <1>2, <2>1 DEF Queued
    <2>3. Delivered(t)' <=> Delivered(t)
      BY <2>1 DEF Delivered
    <2>. QED
      BY <2>2, <2>3 DEF InFlight
  <1>5. IdsInFlight' = IdsInFlight
    BY <1>1, <1>3 DEF IdsInFlight, IsTimeout, TimeoutPositions
  <1>6. OneTimeoutInQueue'
    BY <1>3 DEF OneTimeoutInQueue, IInv, Safe
  <1>. QED
    BY <1>4, <1>5, <1>6, QuietStep DEF IInv, TypeOK

\* Nothing moves while the loop goes from one call to the next.
LEMMA LoopOnlyStep ==
    ASSUME IInv, TypeOK',
           \/ TryProcessEmpty \/ NoneMature \/ BeginWait \/ WaitTimeout
           \/ SendTimeoutFull \/ Tick
    PROVE  Safe'
  <1>. USE DEF schedulerVars, waitVars, loopVars
  <1>1. UNCHANGED <<timer, schedulings, queue, msg, tested>> /\ (pc' = "handle" <=> pc = "handle")
    BY DEF TryProcessEmpty, NoneMature, BeginWait, WaitTimeout, SendTimeoutFull, Tick
  <1>2. timeout_list' = timeout_list
    <2>1. ASSUME NEW k \in DOMAIN timeout_list PROVE Reinsert(k) = timeout_list
      <3>1. IsTimeoutList(timeout_list)
        BY DEF IInv, TypeOK, IsTimeoutList
      <3>. QED
        BY <3>1 DEF Reinsert, InsertKey, RemoveKey, IsTimeoutList
    <2>. QED
      BY <2>1 DEF TryProcessEmpty, NoneMature, BeginWait, WaitTimeout, SendTimeoutFull, Tick
  <1>3. now' >= now
    BY DEF TryProcessEmpty, NoneMature, BeginWait, WaitTimeout, SendTimeoutFull, Tick, IInv, TypeOK
  <1>4. ASSUME NEW t \in Timers PROVE InFlight(t)' <=> InFlight(t)
    BY <1>1 DEF InFlight, Queued, Delivered, OwnTimeout
  <1>5. TimeoutPositions' = TimeoutPositions /\ IdsInFlight' = IdsInFlight
    BY <1>1 DEF TimeoutPositions, IdsInFlight
  <1>6. OneTimeoutInQueue'
    <2>1. TryProcessEmpty => TimeoutPositions = {}
      BY DEF TryProcessEmpty, TimeoutPositions
    <2>2. pc' \in {"timeout", "block", "wait"} =>
            TryProcessEmpty \/ pc \in {"timeout", "block", "wait"}
      BY DEF NoneMature, BeginWait, WaitTimeout, SendTimeoutFull, Tick
    <2>. QED
      BY <1>5, <2>1, <2>2 DEF OneTimeoutInQueue, IInv, Safe
  <1>. QED
    BY <1>1, <1>2, <1>3, <1>4, <1>5, <1>6, QuietStep

\* The handler returns when all the timers of its behavior were asked, so that no
\* Timeout is left in the message it forgets.
LEMMA ReturnStep ==
    ASSUME IInv, TypeOK', Return
    PROVE  Safe'
  <1>. USE DEF Return, ReturnTo, schedulerVars
  <1>1. ASSUME NEW t \in Timers PROVE InFlight(t)' <=> InFlight(t)
    <2>1. ~Delivered(t) /\ ~Delivered(t)'
      BY DEF Delivered, OwnTimeout, Timeout
    <2>2. Queued(t)' <=> Queued(t)
      BY DEF Queued, OwnTimeout
    <2>. QED
      BY <2>1, <2>2 DEF InFlight
  <1>2. TimeoutPositions' = TimeoutPositions /\ IdsInFlight' \subseteq IdsInFlight
    BY DEF TimeoutPositions, IdsInFlight
  <1>3. OneTimeoutInQueue'
    BY <1>2 DEF OneTimeoutInQueue, IInv, Safe
  <1>. QED
    BY <1>1, <1>2, <1>3, QuietStep DEF IInv, TypeOK

\* The first mature entry of the list becomes the only Timeout in flight.
LEMMA SendTimeoutStep ==
    ASSUME IInv, TypeOK', SendTimeout
    PROVE  Safe'
  <1>. USE DEF IInv, Safe
  <1>. PICK k \in DOMAIN timeout_list :
            /\ IsFirst(k)
            /\ Mature(k)
            /\ timeout_list' = RemoveKey(timeout_list, k)
            /\ queue' = Append(queue, Timeout(k.id, timeout_list[k]))
    BY DEF SendTimeout
  <1>. DEFINE m == Timeout(k.id, timeout_list[k])
  <1>0. /\ pc = "timeout" /\ pc' = "try"
        /\ UNCHANGED <<now, timer, schedulings>>
    BY DEF SendTimeout, AfterTimeoutSent
  <1>1. /\ DOMAIN timeout_list' = DOMAIN timeout_list \ {k}
        /\ \A l \in DOMAIN timeout_list' : timeout_list'[l] = timeout_list[l]
    BY RemoveKeyType DEF TypeOK, IsTimeoutList
  <1>2. m \in Messages /\ IsTimeout(m) /\ m.id = k.id /\ m.dst = timeout_list[k]
    BY DEF Messages, Timeout, IsTimeout, TypeOK, Handles
  <1>3. /\ Len(queue) \in Nat
        /\ 1 .. Len(queue') = 1 .. Len(queue) \cup {Len(queue) + 1}
        /\ \A i \in 1 .. Len(queue) : queue'[i] = queue[i]
        /\ queue'[Len(queue) + 1] = m
    BY <1>2, AppendFacts DEF TypeOK
  <1>4. TimeoutPositions = {} /\ TimeoutPositions' = {Len(queue) + 1}
    <2>1. TimeoutPositions = {}
      BY <1>0 DEF OneTimeoutInQueue
    <2>. QED
      BY <2>1, <1>2, <1>3 DEF TimeoutPositions, IsTimeout
  <1>5. IdsInFlight' = {k.id} /\ IdsListed' = IdsListed \ {k.id} /\ k.id \in IdsListed
    <2>1. IdsInFlight' = {k.id}
      BY <1>0, <1>2, <1>3, <1>4 DEF IdsInFlight
    <2>2. \A l \in DOMAIN timeout_list : l.id = k.id => l = k
      BY DEF OneTimeoutPerScheduling
    <2>. QED
      BY <2>1, <2>2, <1>1 DEF IdsListed
  <1>6. ASSUME NEW t \in Timers PROVE ~InFlight(t) /\ (InFlight(t)' <=> m = OwnTimeout(t))
    <2>1. OwnTimeout(t)' = OwnTimeout(t) /\ IsTimeout(OwnTimeout(t))
      BY <1>0 DEF OwnTimeout, Timeout, IsTimeout
    <2>2. ~Queued(t)
      BY <1>4, <2>1 DEF Queued, TimeoutPositions, IsTimeout
    <2>3. Queued(t)' <=> m = OwnTimeout(t)
      BY <1>3, <2>1, <2>2 DEF Queued
    <2>. QED
      BY <1>0, <2>2, <2>3 DEF InFlight, Delivered
  <1>7. ASSUME NEW t \in Timers, Armed(t)
        PROVE  Listed(t) /\ (InFlight(t)' <=> timer[t] = k)
    <2>1. Listed(t)
      BY <1>6, <1>7 DEF ArmedTimerNotLost, InFlight
    <2>2. timer[t].id = k.id <=> timer[t] = k
      BY <2>1 DEF Listed, OneTimeoutPerScheduling
    <2>3. m = OwnTimeout(t) => m.id = timer[t].id
      BY DEF OwnTimeout, Timeout
    <2>4. timer[t] = k => m = OwnTimeout(t)
      BY <2>1 DEF OwnTimeout, Listed
    <2>. QED
      BY <2>1, <2>2, <2>3, <2>4, <1>2, <1>6
  <1>8. ArmedTimerNotLost'
    <2>. SUFFICES ASSUME NEW t \in Timers, Armed(t) PROVE Listed(t)' \/ InFlight(t)'
      BY <1>0 DEF ArmedTimerNotLost, Armed, InFlight
    <2>1. Listed(t) /\ (InFlight(t)' <=> timer[t] = k)
      BY <1>7
    <2>2. timer[t] # k => Listed(t)'
      BY <2>1, <1>0, <1>1 DEF Listed
    <2>. QED
      BY <2>1, <2>2
  <1>9. OneTimeoutInQueue'
    BY <1>0, <1>4 DEF OneTimeoutInQueue
  <1>10. OneTimeoutPerScheduling'
    BY <1>0, <1>1, <1>5 DEF OneTimeoutPerScheduling, IdsArmed, Armed
  <1>11. DeadlineOrder'
    <2>. SUFFICES ASSUME NEW t \in Timers, Armed(t), InFlight(t)'
                  PROVE  /\ ~Before(now, timer[t].deadline)
                         /\ \A l \in DOMAIN timeout_list' :
                              l.id < timer[t].id => ~Before(l.deadline, timer[t].deadline)
      BY <1>0 DEF DeadlineOrder, InFlight, Armed
    <2>1. timer[t] = k
      BY <1>7
    <2>2. k \in Handles /\ now \in Nat /\ DOMAIN timeout_list \subseteq Handles
      BY DEF TypeOK
    <2>3. k.deadline \in Nat /\ k.deadline <= now
      BY <2>2, MatureIsDue
    <2>4. \A l \in DOMAIN timeout_list' : l \in Handles /\ Precedes(k, l)
      BY <1>1, <2>2 DEF IsFirst
    <2>5. ~Before(now, k.deadline)
      BY <2>2, <2>3 DEF Before
    <2>6. ASSUME NEW l \in DOMAIN timeout_list' PROVE ~Before(l.deadline, k.deadline)
      <3>1. l.deadline \in Instants /\ Precedes(k, l)
        BY <2>4 DEF Handles
      <3>. QED
        BY <2>3, <3>1 DEF Precedes, Before, Instants
    <2>. QED
      BY <2>1, <2>5, <2>6
  <1>. QED
    BY <1>8, <1>9, <1>10, <1>11

\* Only the timer whose Timeout is being handled is disarmed.
LEMMA IsSchedulingStep ==
    ASSUME IInv, TypeOK', NEW t \in Timers, IsScheduling(t)
    PROVE  Safe'
  <1>. USE DEF IInv, Safe
  <1>0. /\ UNCHANGED <<now, timeout_list, schedulings, queue, pc, msg>>
        /\ tested' = tested \cup {t} /\ t \notin tested /\ IsHandling(t)
        /\ \A u \in Timers \ {t} : timer'[u] = timer[u]
        /\ IF IsSchedulingMatches(t) THEN ~Armed(t)' ELSE timer' = timer
    <2>1. /\ UNCHANGED <<now, timeout_list, schedulings, queue, pc, msg>>
          /\ tested' = tested \cup {t} /\ t \notin tested /\ IsHandling(t)
      BY DEF IsScheduling, schedulerVars, waitVars, loopVars
    <2>2. CASE IsSchedulingMatches(t)
      <3>1. timer' = [timer EXCEPT ![t] = Disarmed(timer[t])]
        BY <2>2 DEF IsScheduling
      <3>2. timer'[t].deadline = Infinity /\ \A u \in Timers \ {t} : timer'[u] = timer[u]
        BY <3>1 DEF TypeOK, Disarmed, Handles
      <3>. QED
        BY <2>1, <2>2, <3>2 DEF Armed
    <2>3. CASE ~IsSchedulingMatches(t)
      BY <2>1, <2>3 DEF IsScheduling
    <2>. QED
      BY <2>2, <2>3
  <1>1. TimeoutPositions' = TimeoutPositions /\ IdsInFlight' = IdsInFlight /\ IdsListed' = IdsListed
    BY <1>0 DEF TimeoutPositions, IdsInFlight, IdsListed
  <1>2. ASSUME NEW u \in Timers, Armed(u)'
        PROVE  Armed(u) /\ timer'[u] = timer[u] /\ (InFlight(u)' <=> InFlight(u))
    <2>1. timer'[u] = timer[u] /\ Armed(u)
      BY <1>0, <1>2 DEF Armed
    <2>2. OwnTimeout(u)' = OwnTimeout(u)
      BY <2>1 DEF OwnTimeout
    <2>3. u = t => ~Delivered(u)
      BY <1>0, <1>2 DEF Delivered, OwnTimeout, Timeout, IsSchedulingMatches, IsTimeout
    <2>4. Delivered(u)' <=> Delivered(u)
      BY <1>0, <2>2, <2>3 DEF Delivered
    <2>. QED
      BY <1>0, <2>1, <2>2, <2>4 DEF InFlight, Queued
  <1>3. ArmedTimerNotLost'
    BY <1>0, <1>2 DEF ArmedTimerNotLost, InFlight, Listed
  <1>4. OneTimeoutInQueue'
    BY <1>0, <1>1 DEF OneTimeoutInQueue
  <1>5. OneTimeoutPerScheduling'
    <2>1. IdsArmed' \subseteq IdsArmed
      BY <1>2 DEF IdsArmed
    <2>. QED
      BY <1>0, <1>1, <1>2, <2>1 DEF OneTimeoutPerScheduling
  <1>6. DeadlineOrder'
    BY <1>0, <1>2 DEF DeadlineOrder, InFlight
  <1>. QED
    BY <1>3, <1>4, <1>5, <1>6

\* Taking the timer of one behavior out of the list leaves every other armed timer
\* where it was, because their handles differ.
LEMMA OthersStayListed ==
    ASSUME IInv, NEW t \in Timers, NEW u \in Timers \ {t}, Armed(u), Listed(u)
    PROVE  /\ timer[u] \in DOMAIN ListAfterUnschedule(t)
           /\ ListAfterUnschedule(t)[timer[u]] = Owner[u]
  <1>1. ~(Armed(t) /\ timer[u] = timer[t])
    BY DEF IInv, Safe, OneTimeoutPerScheduling
  <1>. QED
    BY <1>1, AfterUnschedule DEF IInv, Listed

LEMMA UnscheduleStep ==
    ASSUME IInv, TypeOK', NEW t \in Timers, Unschedule(t)
    PROVE  Safe'
  <1>. USE DEF IInv, Safe
  <1>0. /\ UNCHANGED <<now, schedulings, queue, pc, msg, tested>>
        /\ timeout_list' = ListAfterUnschedule(t)
        /\ \A u \in Timers \ {t} : timer'[u] = timer[u]
        /\ ~Armed(t)'
    BY DEF Unschedule, loopVars, TypeOK, Disarmed, Armed
  <1>1. TimeoutPositions' = TimeoutPositions /\ IdsInFlight' = IdsInFlight
    BY <1>0 DEF TimeoutPositions, IdsInFlight
  <1>2. DOMAIN timeout_list' \subseteq DOMAIN timeout_list /\ IdsListed' \subseteq IdsListed
    BY <1>0, AfterUnschedule DEF IdsListed
  <1>3. ASSUME NEW u \in Timers, Armed(u)'
        PROVE  /\ u # t /\ Armed(u) /\ timer'[u] = timer[u]
               /\ InFlight(u)' <=> InFlight(u)
    BY <1>0, <1>3 DEF Armed, InFlight, Queued, Delivered, OwnTimeout
  <1>4. ArmedTimerNotLost'
    BY <1>0, <1>3, OthersStayListed DEF ArmedTimerNotLost, InFlight, Listed
  <1>5. OneTimeoutInQueue'
    BY <1>0, <1>1 DEF OneTimeoutInQueue
  <1>6. OneTimeoutPerScheduling'
    <2>1. IdsArmed' \subseteq IdsArmed
      BY <1>3 DEF IdsArmed
    <2>. QED
      BY <1>0, <1>1, <1>2, <1>3, <2>1 DEF OneTimeoutPerScheduling
  <1>7. DeadlineOrder'
    BY <1>0, <1>2, <1>3 DEF DeadlineOrder, InFlight
  <1>. QED
    BY <1>4, <1>5, <1>6, <1>7

\* Scheduling takes an id that nothing else carries.
LEMMA ScheduleStep ==
    ASSUME NoIdReuse, IInv, TypeOK', NEW t \in Timers, NEW i \in Instants, ScheduleUntil(t, i)
    PROVE  Safe'
  <1>. USE DEF IInv, Safe
  <1>. DEFINE k == [id |-> next_timeout_id, deadline |-> i]
              list == ListAfterUnschedule(t)
  <1>0. /\ UNCHANGED <<now, queue, pc, msg, tested>>
        /\ schedulings' = schedulings + 1
        /\ timeout_list' = InsertKey(list, k, Owner[t])
        /\ timer'[t] = k
        /\ \A u \in Timers \ {t} : timer'[u] = timer[u]
    BY DEF ScheduleUntil, loopVars, TypeOK
  <1>1. k.id = schedulings /\ schedulings \in Nat /\ k \in Handles
    BY DEF NoIdReuse, ScheduleUntil, FreshIds, TypeOK, TimeoutIds, Handles
  <1>2. /\ DOMAIN timeout_list' = DOMAIN list \cup {k}
        /\ timeout_list'[k] = Owner[t]
        /\ \A l \in DOMAIN list \ {k} : timeout_list'[l] = list[l]
        /\ DOMAIN list \subseteq DOMAIN timeout_list
        /\ DOMAIN timeout_list \subseteq Handles
    <2>1. IsTimeoutList(list) /\ DOMAIN list \subseteq DOMAIN timeout_list
      BY AfterUnschedule
    <2>2. /\ DOMAIN InsertKey(list, k, Owner[t]) = DOMAIN list \cup {k}
          /\ InsertKey(list, k, Owner[t])[k] = Owner[t]
          /\ \A l \in DOMAIN list \ {k} : InsertKey(list, k, Owner[t])[l] = list[l]
      BY DEF InsertKey
    <2>. QED
      BY <1>0, <2>1, <2>2 DEF TypeOK
  <1>3. TimeoutPositions' = TimeoutPositions /\ IdsInFlight' = IdsInFlight
    BY <1>0 DEF TimeoutPositions, IdsInFlight
  <1>4. /\ k.id \notin IdsInFlight /\ k.id \notin IdsListed /\ k.id \notin IdsArmed
        /\ k \notin DOMAIN timeout_list
    BY <1>1 DEF OneTimeoutPerScheduling, IdsListed
  <1>5. ASSUME NEW u \in Timers \ {t}
        PROVE  (Armed(u)' <=> Armed(u)) /\ timer'[u] = timer[u] /\ (InFlight(u)' <=> InFlight(u))
    BY <1>0 DEF Armed, InFlight, Queued, Delivered, OwnTimeout
  <1>6. ~InFlight(t)'
    <2>1. OwnTimeout(t)' = Timeout(k.id, Owner[t])
      BY <1>0 DEF OwnTimeout
    <2>2. Timeout(k.id, Owner[t]).id = k.id /\ IsTimeout(Timeout(k.id, Owner[t]))
      BY DEF Timeout, IsTimeout
    <2>3. ~Queued(t)'
      BY <1>0, <1>4, <2>1, <2>2 DEF Queued, IdsInFlight, TimeoutPositions
    <2>4. ~Delivered(t)'
      BY <1>0, <1>4, <2>1, <2>2 DEF Delivered, IdsInFlight
    <2>. QED
      BY <2>3, <2>4 DEF InFlight
  <1>7. ArmedTimerNotLost'
    <2>. SUFFICES ASSUME NEW u \in Timers, Armed(u)' PROVE Listed(u)' \/ InFlight(u)'
      BY DEF ArmedTimerNotLost, InFlight
    <2>1. CASE u = t
      BY <2>1, <1>0, <1>2 DEF Listed
    <2>2. CASE u # t /\ ~InFlight(u)
      <3>1. Armed(u) /\ Listed(u)
        BY <2>2, <1>5 DEF ArmedTimerNotLost, InFlight
      <3>2. timer[u] \in DOMAIN list /\ list[timer[u]] = Owner[u]
        BY <2>2, <3>1, OthersStayListed
      <3>. QED
        BY <2>2, <3>2, <1>2, <1>4, <1>5 DEF Listed
    <2>3. CASE u # t /\ InFlight(u)
      BY <2>3, <1>5
    <2>. QED
      BY <2>1, <2>2, <2>3
  <1>8. OneTimeoutInQueue'
    BY <1>0, <1>3 DEF OneTimeoutInQueue
  <1>9. OneTimeoutPerScheduling'
    <2>1. IdsListed' \subseteq IdsListed \cup {k.id} /\ IdsArmed' \subseteq IdsArmed \cup {k.id}
      BY <1>0, <1>2, <1>5 DEF IdsListed, IdsArmed
    <2>2. \A id \in IdsListed \cup IdsInFlight \cup IdsArmed : id \in Int
      <3>1. TimeoutIds \subseteq Int
        BY DEF TimeoutIds
      <3>2. IdsListed \subseteq TimeoutIds /\ IdsArmed \subseteq TimeoutIds
        BY DEF TypeOK, Handles, IdsListed, IdsArmed
      <3>3. ASSUME NEW m \in Messages, IsTimeout(m) PROVE m.id \in TimeoutIds
        BY <3>3 DEF Messages, IsTimeout
      <3>4. IdsInFlight \subseteq TimeoutIds
        BY <3>3 DEF TypeOK, IdsInFlight, TimeoutPositions
      <3>. QED
        BY <3>1, <3>2, <3>4
    <2>3. \A id \in IdsListed' \cup IdsInFlight' \cup IdsArmed' : id < schedulings'
      BY <1>0, <1>1, <1>3, <2>1, <2>2 DEF OneTimeoutPerScheduling
    <2>4. \A l, m \in DOMAIN timeout_list' : l.id = m.id => l = m
      BY <1>2, <1>4 DEF OneTimeoutPerScheduling, IdsListed
    <2>5. \A u, v \in Timers : Armed(u)' /\ Armed(v)' /\ timer'[u].id = timer'[v].id => u = v
      BY <1>0, <1>4, <1>5 DEF OneTimeoutPerScheduling, IdsArmed
    <2>6. IdsListed' \cap IdsInFlight' = {}
      BY <1>3, <1>4, <2>1 DEF OneTimeoutPerScheduling
    <2>. QED
      BY <2>3, <2>4, <2>5, <2>6 DEF OneTimeoutPerScheduling
  <1>10. DeadlineOrder'
    <2>. SUFFICES ASSUME NEW u \in Timers, Armed(u)', InFlight(u)'
                  PROVE  /\ ~Before(now, timer[u].deadline)
                         /\ \A l \in DOMAIN timeout_list' :
                              l.id < timer[u].id => ~Before(l.deadline, timer[u].deadline)
                         /\ timer'[u] = timer[u]
      BY <1>0 DEF DeadlineOrder, InFlight
    <2>1. u # t /\ Armed(u) /\ InFlight(u) /\ timer'[u] = timer[u]
      BY <1>5, <1>6
    <2>2. timer[u].id < k.id /\ timer[u].id \in Int
      BY <2>1, <1>1 DEF OneTimeoutPerScheduling, IdsArmed, TypeOK, Handles, TimeoutIds
    <2>. QED
      BY <2>1, <2>2, <1>1, <1>2 DEF DeadlineOrder, InFlight
  <1>. QED
    BY <1>7, <1>8, <1>9, <1>10

\* The parts of the invariant that only count: ids and handler bookkeeping.
LEMMA CountingStep ==
    ASSUME NoIdReuse, IInv, TypeOK', [Next]_vars
    PROVE  FreshIds' /\ NoTestsOutsideHandler'
  <1>. USE DEF FreshIds, NoTestsOutsideHandler, IInv, schedulerVars, waitVars, loopVars
  <1>1. CASE UNCHANGED vars
    BY <1>1 DEF vars
  <1>2. CASE LoopStep \/ Return \/ Tick \/ \E a \in Actors : OtherSend(a)
    BY <1>2 DEF LoopStep, TryProcessMessage, TryProcessEmpty, SendTimeout, SendTimeoutFull,
                NoneMature, BeginWait, WaitMessage, WaitTimeout, Dispatch, Return, ReturnTo,
                Tick, OtherSend, AfterTimeoutSent
  <1>3. ASSUME NEW t \in Timers, IsScheduling(t) \/ Unschedule(t)
        PROVE  FreshIds' /\ NoTestsOutsideHandler'
    BY <1>3 DEF IsScheduling, Unschedule, IsHandling
  <1>4. ASSUME NEW t \in Timers, NEW i, ScheduleUntil(t, i)
        PROVE  FreshIds' /\ NoTestsOutsideHandler'
    <2>1. next_timeout_id = schedulings /\ schedulings' = schedulings + 1
          /\ next_timeout_id' = (next_timeout_id + 1) % IdSpace /\ schedulings \in Nat
      BY <1>4 DEF ScheduleUntil, NoIdReuse, TypeOK
    <2>2. schedulings' < IdSpace => (schedulings + 1) % IdSpace = schedulings + 1
      BY <2>1
    <2>. QED
      BY <1>4, <2>1, <2>2 DEF ScheduleUntil, IsHandling
  <1>. QED
    BY <1>1, <1>2, <1>3, <1>4 DEF Next, ScheduleFor

LEMMA SafeStep ==
    ASSUME NoIdReuse, IInv, TypeOK', [Next]_vars
    PROVE  Safe'
  <1>1. CASE UNCHANGED vars
    <2>1. \A t \in Timers : InFlight(t)' <=> InFlight(t)
      BY <1>1 DEF vars, InFlight, Queued, Delivered, OwnTimeout
    <2>2. TimeoutPositions' = TimeoutPositions /\ IdsInFlight' = IdsInFlight
      BY <1>1 DEF vars, TimeoutPositions, IdsInFlight
    <2>3. OneTimeoutInQueue'
      BY <1>1, <2>2 DEF vars, OneTimeoutInQueue, IInv, Safe
    <2>. QED
      BY <1>1, <2>1, <2>2, <2>3, QuietStep DEF vars, IInv, TypeOK
  <1>2. CASE LoopStep
    BY <1>2, DispatchStep, LoopOnlyStep, SendTimeoutStep
       DEF LoopStep, TryProcessMessage, WaitMessage
  <1>3. CASE Return
    BY <1>3, ReturnStep
  <1>4. CASE Tick
    BY <1>4, LoopOnlyStep
  <1>5. ASSUME NEW a \in Actors, OtherSend(a) PROVE Safe'
    BY <1>5, OtherSendStep
  <1>6. ASSUME NEW t \in Timers, IsScheduling(t) \/ Unschedule(t) PROVE Safe'
    BY <1>6, IsSchedulingStep, UnscheduleStep
  <1>7. ASSUME NEW t \in Timers, NEW i \in Deadlines, ScheduleUntil(t, i) PROVE Safe'
    BY <1>7, ScheduleStep
  <1>8. ASSUME NEW t \in Timers, NEW d \in Delays, ScheduleFor(t, d) PROVE Safe'
    <2>1. Plus(now, d) \in Instants
      BY PlusType DEF IInv, TypeOK, Instants
    <2>. QED
      BY <1>8, <2>1, ScheduleStep DEF ScheduleFor
  <1>. QED
    BY <1>1, <1>2, <1>3, <1>4, <1>5, <1>6, <1>7, <1>8 DEF Next

\* Until the timeout ids wrap around, no armed timer is lost, Timeouts are queued
\* one at a time, each scheduling gives one Timeout, and timers come due in the
\* order of their deadlines.
THEOREM TimersCorrect == ASSUME NoIdReuse PROVE Spec => []Safe
<1>1. Init => IInv
  <2>. SUFFICES ASSUME Init PROVE IInv
    OBVIOUS
  <2>1. TypeOK
    BY InitTypeOK
  <2>2. \A t \in Timers : ~Armed(t)
    BY DEF Init, Armed
  <2>3. TimeoutPositions = {} /\ IdsInFlight = {} /\ IdsListed = {} /\ IdsArmed = {}
    BY <2>2 DEF Init, TimeoutPositions, IdsInFlight, IdsListed, IdsArmed
  <2>. QED
    BY <2>1, <2>2, <2>3 DEF Init, IInv, FreshIds, NoTestsOutsideHandler, Safe,
       ArmedTimerNotLost, OneTimeoutInQueue, OneTimeoutPerScheduling, DeadlineOrder
<1>2. IInv /\ TypeOK' /\ [Next]_vars => IInv'
  BY CountingStep, SafeStep DEF IInv
<1>3. IInv => Safe
  BY DEF IInv
<1>. QED
  BY <1>1, <1>2, <1>3, TypeCorrect, PTL DEF Spec

\* The first of its parts on its own: a running timer is never lost.
COROLLARY ArmedTimerNeverLost == ASSUME NoIdReuse PROVE Spec => []ArmedTimerNotLost
  <1>1. Safe => ArmedTimerNotLost
    BY DEF Safe
  <1>. QED
    BY <1>1, TimersCorrect, PTL

\* At most one Timeout is in the queue, and none when the timers are looked at.
COROLLARY TimeoutsOneAtATime == ASSUME NoIdReuse PROVE Spec => []OneTimeoutInQueue
  <1>1. Safe => OneTimeoutInQueue
    BY DEF Safe
  <1>. QED
    BY <1>1, TimersCorrect, PTL

\* No id is used twice: not in the list, not in a message, not by two running timers.
COROLLARY SchedulingsDistinct == ASSUME NoIdReuse PROVE Spec => []OneTimeoutPerScheduling
  <1>1. Safe => OneTimeoutPerScheduling
    BY DEF Safe
  <1>. QED
    BY <1>1, TimersCorrect, PTL

\* Timers come due at their deadlines, the earlier ones first.
COROLLARY TimersDueInOrder == ASSUME NoIdReuse PROVE Spec => []DeadlineOrder
  <1>1. Safe => DeadlineOrder
    BY DEF Safe
  <1>. QED
    BY <1>1, TimersCorrect, PTL

\* No timer fires before its deadline: is_scheduling returns true for an armed timer
\* only for the Timeout of its last scheduling, which was sent when it was mature.
THEOREM TimersNeverEarly == ASSUME NoIdReuse PROVE Spec => NeverEarly
<1>1. TypeOK /\ Safe /\ [Next]_vars =>
        [\A t \in Timers : Fires(t) /\ Armed(t) => ~Before(now, timer[t].deadline)]_vars
  <2>. SUFFICES ASSUME TypeOK, Safe, Next, NEW t \in Timers, Fires(t), Armed(t)
                PROVE  ~Before(now, timer[t].deadline)
    OBVIOUS
  <2>. USE DEF schedulerVars, waitVars, loopVars
  <2>1. PICK u \in Timers : IsScheduling(u)
    BY DEF Next, Fires, LoopStep, TryProcessMessage, TryProcessEmpty, SendTimeout,
       SendTimeoutFull, NoneMature, BeginWait, WaitMessage, WaitTimeout, Dispatch, Return,
       ReturnTo, Tick, OtherSend, Unschedule, ScheduleUntil, ScheduleFor
  <2>2. u = t /\ IsSchedulingMatches(t) /\ IsHandling(t) /\ t \notin tested
    BY <2>1 DEF IsScheduling, Fires
  <2>3. msg = OwnTimeout(t)
    BY <2>2 DEF IsSchedulingMatches, IsHandling, OwnTimeout, Timeout, IsTimeout, TypeOK, Messages
  <2>4. Delivered(t)
    BY <2>2, <2>3 DEF Delivered, IsHandling
  <2>. QED
    BY <2>4 DEF Safe, DeadlineOrder
<1>. QED
  BY <1>1, TypeCorrect, TimersCorrect, PTL DEF Spec, NeverEarly

\* What the dispatcher is about to give recv_timeout: while it has not begun to wait, the
\* end of its wait is after the first deadline only by the time that was lost.
NoLongWait ==
    pc = "block" =>
        \A k \in DOMAIN timeout_list : ~Before(Plus(k.deadline, lost), Plus(now, duration))

\* The dispatcher never sleeps past the first deadline of its list by more than the time
\* between looking at the list and waiting.
THEOREM DispatcherNoOversleep == Spec => []NoOversleep
<1>1. Init => NoLongWait /\ NoOversleep
  BY DEF Init, NoLongWait, NoOversleep
<1>2. TypeOK /\ TypeOK' /\ NoLongWait /\ NoOversleep /\ [Next]_vars => NoLongWait' /\ NoOversleep'
  <2>. SUFFICES ASSUME TypeOK, TypeOK', NoLongWait, NoOversleep, [Next]_vars
                PROVE  NoLongWait' /\ NoOversleep'
    OBVIOUS
  <2>. USE DEF schedulerVars, waitVars, loopVars
  <2>0. /\ now \in Nat /\ lost \in Nat /\ lost' \in Nat
        /\ duration \in Durations /\ duration' \in Durations
        /\ \A l \in DOMAIN timeout_list : l.deadline \in Instants
    BY DEF TypeOK, Handles
  <2>1. CASE NoneMature
    <3>1. timeout_list' = timeout_list /\ now' = now /\ pc' = "block"
      BY <2>1 DEF NoneMature
    <3>. SUFFICES ASSUME NEW l \in DOMAIN timeout_list
                  PROVE  ~Before(Plus(l.deadline, lost'), Plus(now, duration'))
      BY <3>1 DEF NoLongWait, NoOversleep
    <3>2. PICK k \in DOMAIN timeout_list :
            IsFirst(k) /\ ~Mature(k) /\ duration' = SaturatingSub(k.deadline, now)
      BY <2>1 DEF NoneMature
    <3>3. k.deadline \in Instants /\ l.deadline \in Instants
      BY <2>0
    <3>4. Plus(now, duration') = k.deadline
      <4>1. ~Before(k.deadline, now)
        BY <2>0, <3>2, <3>3 DEF Mature, SaturatingSub, Before, Instants
      <4>. QED
        BY <2>0, <3>2, <3>3, <4>1, WaitIsExact
    <3>5. l = k \/ Precedes(k, l)
      BY <3>2 DEF IsFirst
    <3>6. ~Before(l.deadline, k.deadline)
      BY <3>3, <3>5 DEF Precedes, Before, Instants
    <3>. QED
      BY <2>0, <3>3, <3>4, <3>6 DEF Before, Plus, Instants, Durations
  <2>2. CASE BeginWait
    BY <2>2 DEF BeginWait, NoLongWait, NoOversleep
  <2>3. CASE Tick
    <3>1. pc' = pc /\ timeout_list' = timeout_list /\ duration' = duration /\ wake' = wake
          /\ now' = now + 1 /\ lost' = IF pc = "block" THEN lost + 1 ELSE lost
      BY <2>3 DEF Tick
    <3>2. ASSUME pc = "block", NEW l \in DOMAIN timeout_list
          PROVE  ~Before(Plus(l.deadline, lost + 1), Plus(now + 1, duration))
      <4>1. ~Before(Plus(l.deadline, lost), Plus(now, duration))
        BY <3>2 DEF NoLongWait
      <4>. QED
        BY <2>0, <3>2, <4>1 DEF Before, Plus, Instants, Durations
    <3>. QED
      BY <3>1, <3>2 DEF NoLongWait, NoOversleep
  <2>4. CASE UNCHANGED <<pc, now, waitVars, timeout_list>>
    BY <2>4 DEF NoLongWait, NoOversleep
  <2>5. CASE pc' \notin {"block", "wait"}
    BY <2>5 DEF NoLongWait, NoOversleep
  <2>6. \/ NoneMature \/ BeginWait \/ Tick
        \/ UNCHANGED <<pc, now, waitVars, timeout_list>>
        \/ pc' \notin {"block", "wait"}
    BY DEF Next, vars, LoopStep, TryProcessMessage, TryProcessEmpty, SendTimeout,
       SendTimeoutFull, WaitMessage, WaitTimeout, Dispatch, Return, ReturnTo, AfterTimeoutSent,
       OtherSend, IsScheduling, Unschedule, ScheduleUntil, ScheduleFor, IsHandling
  <2>. QED
    BY <2>1, <2>2, <2>3, <2>4, <2>5, <2>6
<1>. QED
  BY <1>1, <1>2, TypeCorrect, PTL DEF Spec

\* The entry that the dispatcher looks at is the only one it could look at: when the list
\* is not empty exactly one entry is the first, so the thread always goes on.
OneFirst ==
    DOMAIN timeout_list # {} =>
        \E k \in DOMAIN timeout_list : \A l \in DOMAIN timeout_list : IsFirst(l) <=> l = k

\* Which Timeout is sent next, and how long the dispatcher waits for it, is determined by
\* the list, for any deadlines and ids: keys are never equal and never incomparable.
THEOREM NextTimeoutDetermined == Spec => []OneFirst
<1>1. TypeOK => OneFirst
  <2>. SUFFICES ASSUME TypeOK, DOMAIN timeout_list # {}
                PROVE  \E k \in DOMAIN timeout_list :
                          \A l \in DOMAIN timeout_list : IsFirst(l) <=> l = k
    BY DEF OneFirst
  <2>1. DOMAIN timeout_list \subseteq Handles
    BY DEF TypeOK
  <2>2. PICK k \in DOMAIN timeout_list : IsFirst(k)
    BY <2>1, FirstExists
  <2>3. \A l \in DOMAIN timeout_list : IsFirst(l) <=> l = k
    BY <2>1, <2>2, FirstUnique
  <2>. QED
    BY <2>3
<1>. QED
  BY <1>1, TypeCorrect, PTL
=============================================================================
