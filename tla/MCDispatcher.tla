----------------------------- MODULE MCDispatcher -----------------------------
(* Instances of Dispatcher for TLC. *)
EXTENDS Dispatcher, TLC

CONSTANTS c1, c2

MCClients == {c1, c2}
\* c1 uses time limits, c2 waits as long as it takes.
MCPatient == {c2}
TwoRequests == [c \in Clients |-> 2]
\* Only the late response to a request with a time limit can meet another request.
MCRequests  == [c \in Clients |-> IF c \in Patient THEN 1 ELSE 3]
StopOps   == {"RegisterReactive", "StopDispatcher"}
\* A request to a reactive that is gone is answered with an error, perhaps late.
LateOps   == {"RegisterReactive", "Unregister", "Work"}
===============================================================================
