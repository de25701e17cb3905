------------------------------ MODULE Journal -------------------------------
(***************************************************************************)
(* The metadata journal: what moves between the in-core metadata, the      *)
(* deltamap, the logmap, the log device and the master device, and what    *)
(* the log scan makes of it after a crash (fs/samfs/lqfs_map.c,            *)
(* lqfs_log.c, lqfs_thread.c, the strategy routines of lqfs.c and the      *)
(* second half of top_end_sync in lqfs_top.c).                             *)
(*                                                                         *)
(* Operations change metadata and declare deltas; a buffer write, or the   *)
(* push at the end of the transaction, moves deltas into the log and the   *)
(* logmap; the commit record makes the transaction permanent; the roll     *)
(* thread writes committed deltas to the master and frees log space.       *)
(*                                                                         *)
(* Who may enter a transaction, and that the committing thread waits for   *)
(* the operations in it, is shown in module Moby; here one operation is    *)
(* under way at a time.  A location is a range of metadata with one delta; *)
(* a block is the buffer that holds it, at most MAPBLOCKSIZE.  A record of *)
(* the log takes one sector.  Sectors are counted from the last new ident: *)
(* sector n lies at n modulo the size of the log and carries n as its      *)
(* st_ident.  A new ident is taken to be one that no old sector carries.   *)
(***************************************************************************)
EXTENDS Integers, FiniteSets, Sequences, SequencesExt

CONSTANTS
    Locs,       \* locations of metadata
    Blk,        \* the block of each location
    None,       \* absence of a block, an image, a sector, a snapshot
    Setups      \* situations, one of which holds throughout: see SetupType

\* ops: the sets of locations that an operation may change; count, commits,
\* crashes: bounds on operations, on transactions since the last scan and on
\* crashes; size: sectors of the log; maxresv: deltas in a transaction; crb:
\* whether a cached roll buffer can be allocated; flusher: whether buffers
\* are also written by others than the committing thread.
SetupType == [ops : SUBSET SUBSET Locs, count : Nat, commits : Nat,
              crashes : Nat, size : Nat \ {0}, maxresv : Nat,
              crb : SUBSET BOOLEAN, flusher : BOOLEAN]

ASSUME JournalAssumption ==
    /\ IsFiniteSet(Locs) /\ DOMAIN Blk = Locs
    /\ Setups \subseteq SetupType

VARIABLES
    setup,      \* the situation, a member of Setups
    mem,        \* the metadata in core: the number of the last change
    op,         \* the operation under way: what it has still to change
    started,    \* number of operations started
    deltamap,   \* locations with a declared delta
    flush,      \* a buffer write that has taken deltas from the deltamap
    mtm,        \* mtm_tid, mtm_committid, mtm_dirty, and un_resv
    phase,      \* where the committing thread is in top_end_sync
    logmap,     \* map entries in the order of their age
    ring,       \* the log device
    wrbuf,      \* sectors whose write has not been waited for
    ul,         \* un_head_lof and un_tail_lof, in sectors
    roll,       \* the roll thread: where it is and what it writes
    master,     \* the metadata on the master device
    sealed,     \* what the transaction being committed contains
    stable,     \* what the last committed transaction contains
    crashes,    \* number of crashes
    spoilt      \* what has happened against which the code has no defence

vars == <<setup, mem, op, started, deltamap, flush, mtm, phase, logmap, ring,
          wrbuf, ul, roll, master, sealed, stable, crashes, spoilt>>

Blocks == {Blk[l] : l \in Locs}
Versions == 0 .. setup.count
Image == [Locs -> Versions]
Within(k) == {l \in Locs : Blk[l] = k}
Partial == UNION {[S -> Versions] : S \in SUBSET Locs}

Record == [n : Nat, typ : {"delta"}, loc : Locs, val : Versions]
          \cup [n : Nat, typ : {"commit"}]

Entry == [loc : Locs, tid : Nat, lof : Nat, crb : Partial \cup {None},
          rolled : BOOLEAN, cancel : {"no", "list", "saved"}]

TypeOK ==
    /\ setup \in Setups
    /\ mem \in Image /\ master \in Image /\ stable \in Image
    /\ sealed \in Image \cup {None}
    /\ op \in [active : BOOLEAN, todo : SUBSET Locs]
    /\ started \in Versions /\ crashes \in 0 .. setup.crashes
    /\ deltamap \subseteq Locs
    /\ flush \in [blk : Blocks \cup {None}, locs : SUBSET Locs]
    /\ mtm \in [tid : Nat, committid : Nat, dirty : BOOLEAN, resv : Nat]
    /\ phase \in {"open", "close", "commit", "wait", "waito", "allow"}
    /\ logmap \in Seq(Entry)
    /\ ring \in [0 .. setup.size - 1 -> Record \cup {None}]
    /\ wrbuf \subseteq Record
    /\ ul \in [head : Nat, tail : Nat] /\ ul.head <= ul.tail
    /\ roll \in [pc : {"read", "write", "remove", "head"},
                 blks : SUBSET Blocks, img : Partial]
    /\ spoilt \subseteq {"ahead", "missed", "stale"}

NoFlush == [blk |-> None, locs |-> {}]
NoRoll == [pc |-> "read", blks |-> {}, img |-> <<>>]
NewTransaction(tid) ==
    [tid |-> tid, committid |-> tid, dirty |-> FALSE, resv |-> 0]
EmptyRing == [i \in 0 .. setup.size - 1 |-> None]

\* lqfs_snarf of an empty log.
Init ==
    /\ setup \in Setups
    /\ mem = [l \in Locs |-> 0] /\ master = mem /\ stable = mem
    /\ sealed = None
    /\ op = [active |-> FALSE, todo |-> {}] /\ started = 0
    /\ deltamap = {} /\ flush = NoFlush
    /\ mtm = NewTransaction(0) /\ phase = "open"
    /\ logmap = <<>> /\ ring = EmptyRing /\ wrbuf = {}
    /\ ul = [head |-> 0, tail |-> 0]
    /\ roll = NoRoll /\ crashes = 0 /\ spoilt = {}

(***************************************************************************)
(* Operations                                                              *)
(***************************************************************************)

\* top_begin_async: the gate is closed from the end of the last operation
\* until the metadata are pushed, and the deltas must fit the reservation.
BeginOp ==
    /\ ~op.active /\ phase # "close" /\ started < setup.count
    /\ \E S \in setup.ops :
        /\ mtm.resv + Cardinality(S) <= setup.maxresv
        /\ op' = [active |-> TRUE, todo |-> S]
        /\ mtm' = [mtm EXCEPT !.resv = @ + Cardinality(S)]
    /\ started' = started + 1
    /\ UNCHANGED <<setup, mem, deltamap, flush, phase, logmap, ring, wrbuf, ul,
                   roll, master, sealed, stable, crashes, spoilt>>

\* TRANS_DELTA after a change of a buffer, which a write in progress locks.
deltamap_add ==
    /\ op.active
    /\ \E l \in op.todo :
        /\ Blk[l] # flush.blk
        /\ mem' = [mem EXCEPT ![l] = started]
        /\ deltamap' = deltamap \cup {l}
        /\ op' = [op EXCEPT !.todo = @ \ {l}]
    /\ UNCHANGED <<setup, started, flush, mtm, phase, logmap, ring, wrbuf, ul,
                   roll, master, sealed, stable, crashes, spoilt>>

EndOp ==
    /\ op.active /\ op.todo = {}
    /\ op' = [op EXCEPT !.active = FALSE]
    /\ UNCHANGED <<setup, mem, started, deltamap, flush, mtm, phase, logmap,
                   ring, wrbuf, ul, roll, master, sealed, stable, crashes,
                   spoilt>>

(***************************************************************************)
(* The log device and the logmap                                           *)
(***************************************************************************)

\* Mutant: un_log_mutex is kept while waiting for space.
MutexKept == phase \notin {"commit", "wait", "waito"}

\* un_log_mutex is the committing thread's from the push to the end of the
\* commit, except while it waits for space.
LogMutexFree == phase \notin {"commit", "waito"}

\* ldl_has_space for k records: one sector more must stay free.
ldl_has_space(k) == k + 1 < setup.size - (ul.tail - ul.head)

\* What sector n holds: from the write buffers or from the device.
Sector(n) ==
    LET unwritten == {r \in wrbuf : r.n = n}
    IN  IF unwritten # {} THEN CHOOSE r \in unwritten : TRUE
                          ELSE ring[n % setup.size]

\* What an entry says of its block: the image in its cached roll buffer, or
\* the delta in the log.
Content(e) ==
    IF e.crb # None THEN e.crb ELSE [l \in {e.loc} |-> Sector(e.lof).val]

\* ldl_read of entries in the order of their age over an image.
ldl_read(image, entries) ==
    FoldLeft(LAMBDA m, e : [l \in DOMAIN m |->
                 IF l \in DOMAIN Content(e) THEN Content(e)[l] ELSE m[l]],
             image, entries)

\* lqfs_read_strategy of all metadata.
ReadMetadata == ldl_read(master, logmap)

\* An entry replaces the one of the same transaction for its location, and
\* cancels an older one that is not being rolled.
Enter(map, e) ==
    LET older(x) == x.loc = e.loc /\ ~x.rolled /\ x.cancel = "no"
        kept == SelectSeq(map, LAMBDA x : ~(older(x) /\ x.tid = e.tid))
    IN  Append([i \in DOMAIN kept |->
                   IF older(kept[i]) THEN [kept[i] EXCEPT !.cancel = "list"]
                                     ELSE kept[i]], e)

NewEntry(l, tid, n, crb) ==
    [loc |-> l, tid |-> tid, lof |-> n, crb |-> crb, rolled |-> FALSE,
     cancel |-> "no"]

\* logmap_add_buf, or logmap_add when there is no memory for the roll buffer.
logmap_add_buf(k, S) ==
    /\ ldl_has_space(Cardinality(S))
    /\ \E cached \in setup.crb :
        LET locs == SetToSeq(S)
            crb == IF cached THEN [l \in Within(k) |-> mem[l]] ELSE None
            entry(i) == NewEntry(locs[i], mtm.tid, ul.tail + i - 1, crb)
        IN  /\ logmap' = FoldLeft(Enter, logmap,
                                  [i \in DOMAIN locs |-> entry(i)])
            /\ wrbuf' = wrbuf \cup
                   {[n |-> ul.tail + i - 1, typ |-> "delta", loc |-> locs[i],
                     val |-> mem[locs[i]]] : i \in DOMAIN locs}
    /\ ul' = [ul EXCEPT !.tail = @ + Cardinality(S)]
    /\ mtm' = [mtm EXCEPT !.dirty = TRUE]

(***************************************************************************)
(* lqfs_write_strategy of a buffer that somebody else writes               *)
(***************************************************************************)

\* deltamap_remove; the buffer stays locked until its write is done.
FlushTake ==
    /\ setup.flusher /\ flush = NoFlush
    /\ \E l \in deltamap :
        /\ flush' = [blk |-> Blk[l], locs |-> deltamap \cap Within(Blk[l])]
        /\ deltamap' = deltamap \ Within(Blk[l])
    /\ UNCHANGED <<setup, mem, op, started, mtm, phase, logmap, ring, wrbuf,
                   ul, roll, master, sealed, stable, crashes, spoilt>>

\* While the committing thread waits for space, the deltas go into the log
\* ahead of the commit record of the transaction before theirs.
FlushAdd ==
    /\ flush # NoFlush /\ LogMutexFree
    /\ logmap_add_buf(flush.blk, flush.locs)
    /\ flush' = NoFlush
    /\ spoilt' = spoilt \cup IF phase = "wait" THEN {"ahead"} ELSE {}
    /\ UNCHANGED <<setup, mem, op, started, deltamap, phase, ring, roll,
                   master, sealed, stable, crashes>>

(***************************************************************************)
(* The committing thread: top_end_sync                                     *)
(***************************************************************************)

\* The last operation of the transaction is done and the gate is closed.
Close ==
    /\ phase = "open" /\ ~op.active /\ mtm.tid < setup.commits
    /\ phase' = "close"
    /\ UNCHANGED <<setup, mem, op, started, deltamap, flush, mtm, logmap, ring,
                   wrbuf, ul, roll, master, sealed, stable, crashes, spoilt>>

\* deltamap_push: the buffer of the first delta is written.
deltamap_push ==
    /\ phase = "close"
    /\ \E l \in deltamap :
        /\ logmap_add_buf(Blk[l], deltamap \cap Within(Blk[l]))
        /\ deltamap' = deltamap \ Within(Blk[l])
    /\ UNCHANGED <<setup, mem, op, started, flush, phase, ring, roll, master,
                   sealed, stable, crashes, spoilt>>

\* The next transaction begins; the cancel list is set aside.  Deltas that a
\* buffer write has taken and not yet logged are missed by the push.
Seal ==
    /\ phase = "close" /\ deltamap = {}
    /\ phase' = "commit"
    /\ mtm' = [mtm EXCEPT !.tid = @ + 1, !.resv = 0]
    /\ logmap' = [i \in DOMAIN logmap |->
                      IF logmap[i].cancel = "list"
                      THEN [logmap[i] EXCEPT !.cancel = "saved"]
                      ELSE logmap[i]]
    /\ sealed' = mem
    /\ spoilt' = spoilt \cup IF flush # NoFlush THEN {"missed"} ELSE {}
    /\ UNCHANGED <<setup, mem, op, started, deltamap, flush, ring, wrbuf, ul,
                   roll, master, stable, crashes>>

\* logmap_commit writes the commit record when there is space for it.
WriteCommit ==
    /\ phase \in {"commit", "wait"} /\ mtm.dirty /\ ldl_has_space(1)
    /\ wrbuf' = wrbuf \cup {[n |-> ul.tail, typ |-> "commit"]}
    /\ ul' = [ul EXCEPT !.tail = @ + 1]
    /\ mtm' = [mtm EXCEPT !.dirty = FALSE]
    /\ phase' = "waito"
    /\ UNCHANGED <<setup, mem, op, started, deltamap, flush, logmap, ring,
                   roll, master, sealed, stable, crashes, spoilt>>

\* logmap_wait_space lets go of un_log_mutex and waits for the roll thread.
logmap_wait_space ==
    /\ phase = "commit" /\ mtm.dirty /\ ~ldl_has_space(1)
    /\ phase' = "wait"
    /\ UNCHANGED <<setup, mem, op, started, deltamap, flush, mtm, logmap, ring,
                   wrbuf, ul, roll, master, sealed, stable, crashes, spoilt>>

NothingToCommit ==
    /\ phase = "commit" /\ ~mtm.dirty
    /\ phase' = "waito"
    /\ UNCHANGED <<setup, mem, op, started, deltamap, flush, mtm, logmap, ring,
                   wrbuf, ul, roll, master, sealed, stable, crashes, spoilt>>

Written(sectors) ==
    [i \in DOMAIN ring |->
        IF \E r \in sectors : r.n % setup.size = i
        THEN CHOOSE r \in sectors : r.n % setup.size = i
        ELSE ring[i]]

\* logmap_free_cancel; an entry that is being rolled is left to the roll.
logmap_free_cancel(map, list) ==
    LET kept == SelectSeq(map, LAMBDA e : ~(e.cancel = list /\ ~e.rolled))
    IN  [i \in DOMAIN kept |-> IF kept[i].cancel = list
                               THEN [kept[i] EXCEPT !.cancel = "no"]
                               ELSE kept[i]]

\* ldl_waito: the commit record is on the device.
ldl_waito ==
    /\ phase = "waito"
    /\ ring' = Written(wrbuf) /\ wrbuf' = {}
    /\ logmap' = logmap_free_cancel(logmap, "saved")
    /\ stable' = sealed /\ sealed' = None
    /\ phase' = "allow"
    /\ UNCHANGED <<setup, mem, op, started, deltamap, flush, mtm, ul, roll,
                   master, crashes, spoilt>>

\* All operations are allowed; the deltas of the transaction can be rolled.
AllowAll ==
    /\ phase = "allow"
    /\ mtm' = [mtm EXCEPT !.committid = @ + 1]
    /\ phase' = "open"
    /\ UNCHANGED <<setup, mem, op, started, deltamap, flush, logmap, ring,
                   wrbuf, ul, roll, master, sealed, stable, crashes, spoilt>>

(***************************************************************************)
(* The roll thread: trans_roll                                             *)
(***************************************************************************)

\* Mutant: the transaction being committed is rolled too.
Finished(e) == e.tid # mtm.tid

\* An entry of the open transaction, or of the one being committed, stays.
Committed(e) == e.tid \notin {mtm.tid, mtm.committid}

\* logmap_next_roll: the block of the first entry that is not being rolled.
logmap_next_roll ==
    LET waiting == SelectSeq(logmap, LAMBDA e : ~e.rolled)
    IN  IF waiting # <<>> /\ Committed(waiting[1])
        THEN Blk[waiting[1].loc] ELSE None

\* logmap_list_get_roll: every committed entry for the block is rolled.
ToRoll(k, e) == Blk[e.loc] = k /\ Committed(e)

\* log_roll_read of one more block: its image is the deltas over the master.
log_roll_read ==
    /\ roll.pc = "read"
    /\ \E k \in Blocks \ roll.blks :
        LET entries == SelectSeq(logmap, LAMBDA e : ToRoll(k, e))
            locs == UNION {DOMAIN Content(e) : e \in Range(entries)}
        IN  /\ logmap_next_roll = k
            /\ logmap' = [i \in DOMAIN logmap |->
                              IF ToRoll(k, logmap[i])
                              THEN [logmap[i] EXCEPT !.rolled = TRUE]
                              ELSE logmap[i]]
            /\ roll' = [roll EXCEPT
                   !.blks = @ \cup {k},
                   !.img = ldl_read([l \in locs |-> master[l]], entries) @@ @]
    /\ UNCHANGED <<setup, mem, op, started, deltamap, flush, mtm, phase, ring,
                   wrbuf, ul, master, sealed, stable, crashes, spoilt>>

\* log_roll_write when nothing more can be added to the set of buffers.
log_roll_write ==
    /\ roll.pc = "read" /\ roll.blks # {}
    /\ logmap_next_roll \in roll.blks \cup {None}
    /\ roll' = [roll EXCEPT !.pc = "write"]
    /\ UNCHANGED <<setup, mem, op, started, deltamap, flush, mtm, phase,
                   logmap, ring, wrbuf, ul, master, sealed, stable, crashes,
                   spoilt>>

\* The writes are done.
RollWritten ==
    /\ roll.pc = "write"
    /\ master' = roll.img @@ master
    /\ roll' = [roll EXCEPT !.pc = "remove"]
    /\ UNCHANGED <<setup, mem, op, started, deltamap, flush, mtm, phase,
                   logmap, ring, wrbuf, ul, sealed, stable, crashes, spoilt>>

\* Mutant: entries that are not rolled are removed too.
WithinData(e) == Blk[e.loc] \in roll.blks

\* The rolled entries of the blocks that were written.
Rolled(e) == e.rolled /\ Blk[e.loc] \in roll.blks

logmap_remove_roll ==
    /\ roll.pc = "remove"
    /\ logmap' = SelectSeq(logmap, LAMBDA e : ~Rolled(e))
    /\ roll' = [NoRoll EXCEPT !.pc = "head"]
    /\ UNCHANGED <<setup, mem, op, started, deltamap, flush, mtm, phase, ring,
                   wrbuf, ul, master, sealed, stable, crashes, spoilt>>

\* A new ident for an empty log.
NewIdent == [head |-> 0, tail |-> 0]

\* Mutant: the log begins at the newest entry.
NewestLof == logmap[Len(logmap)].lof

\* Where the log begins: at the oldest entry of the logmap.
OldestLof == logmap[1].lof

\* logmap_sethead and ldl_sethead: the head moves up to the oldest entry.
logmap_sethead ==
    /\ roll.pc = "head" /\ LogMutexFree
    /\ roll' = NoRoll
    /\ \/ /\ logmap # <<>>
          /\ ul' = [ul EXCEPT !.head = OldestLof] /\ UNCHANGED ring
       \/ /\ logmap = <<>>
          /\ ul' = NewIdent /\ ring' = EmptyRing
    /\ UNCHANGED <<setup, mem, op, started, deltamap, flush, mtm, phase,
                   logmap, wrbuf, master, sealed, stable, crashes, spoilt>>

(***************************************************************************)
(* A crash, and the log scan at the next mount                             *)
(***************************************************************************)

\* logmap_logscan_add of the record r to what the scan has so far.
logmap_logscan_add(scan, r) ==
    IF r.typ = "commit"
    THEN [map |-> IF scan.dirty THEN logmap_free_cancel(scan.map, "list")
                                ELSE scan.map,
          tid |-> IF scan.dirty THEN scan.tid + 1 ELSE scan.tid,
          dirty |-> FALSE, tail |-> r.n + 1]
    ELSE [scan EXCEPT
              !.map = Enter(@, NewEntry(r.loc, scan.tid, r.n, None)),
              !.dirty = TRUE]

\* logmap_abort: the last partial transaction, and the whole cancel list.
logmap_abort(scan) ==
    LET kept == SelectSeq(scan.map, LAMBDA e : e.tid # scan.tid)
    IN  [i \in DOMAIN kept |-> [kept[i] EXCEPT !.cancel = "no"]]

\* The sectors from the head on whose idents follow each other; the scan
\* stops one sector short of a full log.
ValidRun(disk) ==
    LET valid(n) == LET r == disk[n % setup.size] IN r # None /\ r.n = n
        len == CHOOSE k \in 0 .. setup.size - 1 :
                   /\ \A i \in 0 .. k - 1 : valid(ul.head + i)
                   /\ k = setup.size - 1 \/ ~valid(ul.head + k)
    IN  [i \in 1 .. len |-> disk[(ul.head + i - 1) % setup.size]]

logmap_logscan(disk) ==
    FoldLeft(logmap_logscan_add,
             [map |-> <<>>, tid |-> 0, dirty |-> FALSE, tail |-> ul.head],
             ValidRun(disk))

\* Any of the sectors under way may have been written, to the log and to
\* the master.  After the scan logmap_settail continues behind the last
\* commit, or starts the log anew when no delta is left; sectors behind the
\* tail may then still carry the idents that the next scan expects.
Crash ==
    /\ crashes < setup.crashes /\ crashes' = crashes + 1
    /\ UNCHANGED <<setup, started>>
    /\ \E W \in SUBSET wrbuf,
          P \in SUBSET (IF roll.pc = "write" THEN DOMAIN roll.img ELSE {}) :
        LET disk == Written(W)
            scan == logmap_logscan(disk)
            map == logmap_abort(scan)
            left(r) == r # None /\ r.n >= scan.tail
        IN  /\ master' = [l \in P |-> roll.img[l]] @@ master
            /\ logmap' = map
            /\ mtm' = NewTransaction(scan.tid)
            /\ \/ /\ map = <<>>
                  /\ ring' = EmptyRing /\ ul' = NewIdent
                  /\ UNCHANGED spoilt
               \/ /\ map # <<>>
                  /\ ring' = disk /\ ul' = [ul EXCEPT !.tail = scan.tail]
                  /\ spoilt' = spoilt \cup
                         IF \E r \in Range(disk) : left(r) THEN {"stale"} ELSE {}
    /\ wrbuf' = {} /\ deltamap' = {} /\ flush' = NoFlush
    /\ op' = [active |-> FALSE, todo |-> {}]
    /\ phase' = "open" /\ roll' = NoRoll /\ sealed' = None
    /\ mem' = ReadMetadata' /\ stable' = mem'

Operation == BeginOp \/ deltamap_add \/ EndOp
Flusher == FlushTake \/ FlushAdd
EndSync ==
    \/ Close \/ deltamap_push \/ Seal \/ WriteCommit \/ logmap_wait_space
    \/ NothingToCommit \/ ldl_waito \/ AllowAll
trans_roll ==
    \/ log_roll_read \/ log_roll_write \/ RollWritten \/ logmap_remove_roll
    \/ logmap_sethead

Next == Operation \/ Flusher \/ EndSync \/ trans_roll \/ Crash

\* The committing thread goes on once it has closed the gate.  A thread that
\* waits for space wakes the roll thread and waits for a cycle of it; the
\* roll thread also rolls a log that is idle and not empty.
Fairness ==
    WF_vars(EndSync /\ phase # "open") /\ WF_vars(trans_roll)

Spec == Init /\ [][Next]_vars /\ Fairness

(***************************************************************************)
(* Properties                                                              *)
(***************************************************************************)

\* The log keeps what is not on the master: the sector of every delta in the
\* logmap lies between the head and the tail, which never meet, and still
\* holds that delta (logmap_wait_space, ldl_has_space, logmap_sethead).
LogKept ==
    /\ ul.tail - ul.head < setup.size
    /\ \A e \in Range(logmap) :
        /\ e.lof \in ul.head .. ul.tail - 1
        /\ Sector(e.lof) # None /\ Sector(e.lof).n = e.lof
        /\ Sector(e.lof).typ = "delta" /\ Sector(e.lof).loc = e.loc

\* Metadata that are read back from the master and the log are the metadata
\* that the operations wrote, whatever was replaced, cancelled, rolled or
\* removed from the logmap meanwhile (lqfs_read_strategy): only what is
\* still in the deltamap, or in a buffer being written, may differ.
ReadBack ==
    \A l \in Locs \ (deltamap \cup flush.locs) : ReadMetadata[l] = mem[l]

Abstract == INSTANCE Store WITH busy <- op.active

\* A crash at any point leaves the metadata as they were at the end of the
\* last committed transaction, or of the one being committed: whole
\* operations, and nothing that was reported as committed is missing
\* (top_end_sync, trans_roll, logmap_logscan).  Three things spoil it, and
\* the code has no defence against them: see spoilt.
CrashConsistent ==
    Abstract!Init /\ [][Abstract!Next \/ spoilt' # {}]_(Abstract!vars)

\* A thread that commits a transaction gets through, although it may have to
\* wait for log space that only the roll thread can free, and the roll
\* thread for un_log_mutex, which the committing thread holds
\* (top_end_sync, logmap_wait_space).
CommitEnds == (phase # "open") ~> (phase = "open" \/ spoilt # {})
=============================================================================
