---------------------------- MODULE MC_Failover -----------------------------
(* Three hosts, A the first server.  A setup is one situation: to are the    *)
(* hosts the administrator may choose, holder has the lease, ops run         *)
(* operations, voluntary and breaks count requests and broken sockets, crash *)
(* are the hosts that may fail.                                              *)
EXTENDS Failover

CONSTANTS A, B, C
Three == {A, B, C}

Base == [first |-> A, to |-> {B}, holder |-> C, ops |-> {}, voluntary |-> 1,
         crash |-> {}, breaks |-> 0, careful |-> TRUE, late |-> FALSE]

\* A failover with operations on the old server or on a host that holds the
\* lease; to the host that holds it; there and back; a server, a client or the
\* new server that fails; a socket that breaks; and time that runs out.
Failovers == {
    [Base EXCEPT !.ops = {A}],
    [Base EXCEPT !.to = {C}],
    [Base EXCEPT !.voluntary = 2, !.to = {A, B}],
    [Base EXCEPT !.ops = {A, C}, !.voluntary = 0, !.crash = {A}],
    [Base EXCEPT !.ops = {C}, !.crash = {C}],
    [Base EXCEPT !.holder = NoHost, !.crash = {B}, !.to = {A, B}],
    [Base EXCEPT !.breaks = 1],
    [Base EXCEPT !.late = TRUE]}
=============================================================================
