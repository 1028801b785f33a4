------------------------------- MODULE Instants -------------------------------
(***************************************************************************)
(* Points in time and durations of rtactor (src/reactive.rs): a finite     *)
(* instant is a number of clock units, Instant::INFINITY and               *)
(* Duration::MAX are the two values that no clock reaches.                 *)
(***************************************************************************)
EXTENDS Integers

CONSTANTS Infinity,      \* Instant::INFINITY
          DurationMax    \* Duration::MAX

ASSUME NoClockValue == Infinity \notin Nat /\ DurationMax \notin Nat

Instants  == Nat \cup {Infinity}
Durations == Nat \cup {DurationMax}

\* PartialOrd: every finite instant is Less than INFINITY, INFINITY Equal to itself.
Before(a, b) ==
    /\ a # Infinity
    /\ b # Infinity => a < b

\* Add<Duration>: Duration::MAX leads to INFINITY from anywhere.
Plus(i, d) == IF d = DurationMax \/ i = Infinity THEN Infinity ELSE i + d

\* saturating_sub: INFINITY - INFINITY panics and is asked by no caller.
SaturatingSub(a, b) ==
    CASE a = Infinity /\ b # Infinity -> DurationMax
      [] a # Infinity /\ ~Before(b, a) -> 0
      [] a # Infinity /\ Before(b, a) -> a - b
===============================================================================
