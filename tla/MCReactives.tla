----------------------------- MODULE MCReactives ------------------------------
(* Instances of Reactives for TLC. *)
EXTENDS Reactives, TLC

CONSTANTS d1, d2, a, b, c

MCDispatchers == {d1, d2}
\* a and b share a dispatcher, c has another one.
MCReactives   == {a, b, c}
MCHome        == (a :> d1) @@ (b :> d1) @@ (c :> d2)
MCRequests    == (d1 :> 2) @@ (d2 :> 1)
===============================================================================
