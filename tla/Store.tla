------------------------------- MODULE Store --------------------------------
(***************************************************************************)
(* What a metadata journal promises: the metadata survive a crash as they  *)
(* were at the end of a transaction, the last one that was committed, or   *)
(* the one whose commit was under way.                                     *)
(***************************************************************************)
CONSTANTS
    Locs,       \* pieces of metadata
    None        \* no transaction is being committed

VARIABLES
    mem,        \* the metadata as the operations see them
    busy,       \* an operation is in the middle of its changes
    sealed,     \* the metadata at the end of the transaction being committed
    stable      \* the metadata at the end of the last committed transaction

vars == <<mem, busy, sealed, stable>>

Init == mem = stable /\ busy = FALSE /\ sealed = None

Begin == ~busy /\ busy' = TRUE /\ UNCHANGED <<mem, sealed, stable>>

Write ==
    /\ busy
    /\ \E l \in Locs : \A m \in Locs \ {l} : mem'[m] = mem[m]
    /\ UNCHANGED <<busy, sealed, stable>>

End == busy /\ busy' = FALSE /\ UNCHANGED <<mem, sealed, stable>>

Seal ==
    /\ ~busy /\ sealed = None
    /\ sealed' = mem /\ UNCHANGED <<mem, busy, stable>>

Commit ==
    /\ sealed # None
    /\ stable' = sealed /\ sealed' = None /\ UNCHANGED <<mem, busy>>

Crash ==
    /\ stable' \in {stable, sealed} \ {None}
    /\ mem' = stable' /\ busy' = FALSE /\ sealed' = None

Next == Begin \/ Write \/ End \/ Seal \/ Commit \/ Crash

Spec == Init /\ [][Next]_vars
=============================================================================
