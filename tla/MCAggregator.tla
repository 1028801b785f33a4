----------------------------- MODULE MCAggregator -----------------------------
(* Instances of Aggregator for TLC. *)
EXTENDS Aggregator, TLC

CONSTANTS p, q, o

\* p answers, q may fail.
MCNames     == {1, 2}
MCAddrs     == {p, q}
MCFailing   == {q}
MCObservers == {o}
\* One actor, both against their order, one twice.
MCNameLists == {<<1>>, <<2, 1>>, <<2, 2>>}
===============================================================================
