------------------------------ MODULE MCMailbox -------------------------------
(* Instances of Mailbox for TLC. *)
EXTENDS Mailbox, TLC

CONSTANTS x, y, A, B

\* x is an ActiveMailbox with time limits, y an AsyncMailbox that waits as long as
\* it takes, but whose futures may be dropped.
MCMailboxes == {x, y}
MCAsync     == {y}
MCLimited   == {x}
MCTypes     == {A, B}
MCAsked     == (x :> {A, B}) @@ (y :> {A})
MCRequests      == (x :> 2) @@ (y :> 1)
MCNotifications == (x :> 2) @@ (y :> 0)
===============================================================================
