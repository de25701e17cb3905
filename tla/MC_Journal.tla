----------------------------- MODULE MC_Journal -----------------------------
(* Journal for TLC: two blocks, one of which holds two locations. *)
EXTENDS Journal

CONSTANTS a1, a2, b1, A, B

MCLocs == {a1, a2, b1}
MCBlk  == [l \in MCLocs |-> IF l = b1 THEN B ELSE A]

MCSetups == {
    \* Operations on one block and on two, buffers written at any time, a
    \* crash at any point.
    [ops |-> {{a1, b1}, {a2}}, count |-> 2, commits |-> 2, crashes |-> 1,
     size |-> 8, maxresv |-> 4, crb |-> {TRUE}, flusher |-> TRUE],
    \* A log so small that the commit record has to wait for space.
    [ops |-> {{a1}, {a2}}, count |-> 3, commits |-> 3, crashes |-> 1,
     size |-> 4, maxresv |-> 1, crb |-> {FALSE}, flusher |-> TRUE],
    \* Entries with and without a cached roll buffer for the same block.
    [ops |-> {{a1}, {a2}}, count |-> 3, commits |-> 3, crashes |-> 1,
     size |-> 6, maxresv |-> 2, crb |-> BOOLEAN, flusher |-> FALSE],
    \* A second crash.
    [ops |-> {{a1, b1}}, count |-> 3, commits |-> 2, crashes |-> 2,
     size |-> 6, maxresv |-> 2, crb |-> {FALSE}, flusher |-> FALSE]}
=============================================================================
