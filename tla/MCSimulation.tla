----------------------------- MODULE MCSimulation -----------------------------
(* Instances of Simulation for TLC. *)
EXTENDS Simulation, TLC

CONSTANTS a, t1, t2

MCActors == {a}
MCTimers == {t1, t2}
MCOwner  == [t \in Timers |-> a]

\* The deadline is in the past when the first call went on until 2, and 2 is when a timer
\* due at 4 has fired in a call without an end.
MCDeadlines == {1}
MCEnds      == {2}
MCDelays    == {2}
MCSpans     == {0, DurationMax}
===============================================================================
