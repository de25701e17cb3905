------------------------------ MODULE MC_Moby ------------------------------
(* Two threads and one task, in situations that differ in the operations    *)
(* they begin, in the log space and in how full the maps may be.            *)
EXTENDS Moby, TLC

CONSTANTS t1, t2, k1

MCThreads == {t1, t2}
MCTasks   == {k1}

Situation(ops, count, nfs, maxresv, heavy) ==
    [ops |-> ops, count |-> count, nfs |-> nfs, maxresv |-> maxresv,
     heavy |-> heavy]

MCSetups ==
    { Situation({"async", "write"}, 3, {}, 3, FALSE),
      Situation({"async", "commit"}, 3, {}, 3, FALSE),
      Situation({"async", "fsync", "nosync"}, 3, {t1}, 9, TRUE),
      Situation({"write", "fsync"}, 3, {t1}, 9, FALSE),
      Situation({"async", "write", "fsync", "nosync", "commit"}, 2, {t1}, 3, TRUE) }
=============================================================================
