------------------------------- MODULE MCTimers -------------------------------
(* Instances of Timers for TLC. *)
EXTENDS Timers, TLC

CONSTANTS a, b, t1, t2

\* One behavior with one or two timers, and one that has none.
MCActors    == {a, b}
OneTimer    == {t1}
TwoTimers   == {t1, t2}
MCOwner     == [t \in Timers |-> a]

\* 0 is in the past for most schedulings, Duration::MAX leads to INFINITY.
MCDeadlines == {0, 2}
MCDelays    == {1, DurationMax}
===============================================================================
