----------------------------- MODULE RequestReply -----------------------------
(***************************************************************************)
(* What a request promises to the one who makes it, whatever lies between  *)
(* the requester and the addressee: queues, timeouts, stops, panics.  The  *)
(* modules of the components implement it.                                 *)
(*                                                                         *)
(* A request is unsent, then open until it is answered: with an answer on  *)
(* its way to the requester (ok or error) or with none, then it is closed. *)
(***************************************************************************)
EXTENDS Integers

CONSTANTS Clients,   \* those who make requests
          Ids,       \* the ids of their requests, numbers from 1
          Droppable  \* clients that may stop to wait at any time

VARIABLES current,  \* [Clients -> the request the client waits for, or 0]
          status    \* [Clients -> [Ids -> Statuses]]

vars == <<current, status>>

Statuses == {"unsent", "open", "ok", "error", "closed"}
Answers  == {"ok", "error"}

Init ==
    /\ current = [c \in Clients |-> 0]
    /\ status = [c \in Clients |-> [i \in Ids |-> "unsent"]]

\* The request i of c gets one of the statuses, and nothing else changes in status.
Becomes(c, i, statuses) == \E s \in statuses : status' = [status EXCEPT ![c][i] = s]

\* A request has a new id, and is accepted or refused.  A refusal is an error, not an ok
\* answer, and may find no room with the client.
Ask(c, i) ==
    /\ current[c] = 0 \/ c \in Droppable
    /\ current' = [current EXCEPT ![c] = i]
    /\ \A j \in Ids : j >= i => status[c][j] = "unsent"
    /\ Becomes(c, i, {"open", "error", "closed"})

\* An open request is answered, once.  The answer may find no room with the client, or
\* there is none: whoever has the request may fail or forget it.
Answer(c, i) ==
    /\ UNCHANGED current
    /\ status[c][i] = "open"
    /\ Becomes(c, i, Answers \cup {"closed"})

Stops(c) == current[c] # 0 /\ current' = [current EXCEPT ![c] = 0]

\* A client that waits takes an ok answer to the request it waits for and no other.
TakeOk(c) ==
    /\ Stops(c)
    /\ status[c][current[c]] = "ok"
    /\ Becomes(c, current[c], {"closed"})

\* It also takes an error, but of any request it made.
TakeError(c, i) ==
    /\ Stops(c)
    /\ status[c][i] = "error"
    /\ Becomes(c, i, {"closed"})

\* An answer that nobody waits for is passed over.
PassOver(c, i) ==
    /\ UNCHANGED current
    /\ i # current[c]
    /\ status[c][i] \in Answers
    /\ Becomes(c, i, {"closed"})

\* A client does not give up while the answer is there.
GiveUp(c) ==
    /\ Stops(c)
    /\ c \in Droppable \/ status[c][current[c]] \notin Answers
    /\ UNCHANGED status

\* What can still be lost: an open request, and the answer for a client that does not wait.
Losable ==
    {p \in Clients \X Ids :
        \/ status[p[1]][p[2]] = "open"
        \/ status[p[1]][p[2]] \in Answers /\ current[p[1]] = 0}

\* A participant ends: requests that were with it, and answers for it, are gone, and it
\* does not wait any more.
End(lost, gone) ==
    /\ current' = [c \in Clients |-> IF c \in gone THEN 0 ELSE current[c]]
    /\ status' = [c \in Clients |-> [i \in Ids |->
                    IF <<c, i>> \in lost THEN "closed" ELSE status[c][i]]]

Next ==
    \/ \E c \in Clients :
        \/ \E i \in Ids : Ask(c, i) \/ Answer(c, i) \/ TakeError(c, i) \/ PassOver(c, i)
        \/ TakeOk(c)
        \/ GiveUp(c)
    \/ \E lost \in SUBSET Losable, gone \in SUBSET Droppable : End(lost, gone)

Spec == Init /\ [][Next]_vars
===============================================================================
