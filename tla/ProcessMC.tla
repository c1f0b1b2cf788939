----------------------------- MODULE ProcessMC ------------------------------
(***************************************************************************)
(* Small instances of Process for TLC.                                     *)
(***************************************************************************)
EXTENDS Process

\* In the foreground and detached; --stop in time and too late.
Foreground == [before |-> {}, after |-> {}]
Detached == [before |-> {"detach"}, after |-> {}]
Stop == [before |-> {"stop"}, after |-> {}]
LateStop == [before |-> {}, after |-> {"stop"}]
Commands == {Foreground, Detached, Stop, LateStop}

\* One server, and one process that stops it.
StartAndStop == {Foreground, Stop}
=============================================================================
