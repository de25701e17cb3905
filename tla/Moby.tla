-------------------------------- MODULE Moby --------------------------------
(***************************************************************************)
(* The gate of the metadata journal (fs/samfs/lqfs_top.c): operations on   *)
(* the metadata are collected in one large transaction, the moby, which    *)
(* the last synchronous operation commits.                                 *)
(*                                                                         *)
(* An asynchronous operation enters with top_begin_async, declares deltas  *)
(* and leaves with top_end_async.  A synchronous one (a write with FSYNC,  *)
(* or an empty one: fsync, sync, unmount, top_issue_sync) enters with      *)
(* top_begin_sync and returns from top_end_sync when the transaction is on *)
(* the log device.  While it is being written, asynchronous operations     *)
(* already enter the next transaction; synchronous ones are counted in     *)
(* mtm_wantin and enter when it is written.  When the reserved log space   *)
(* is used up, a task of the system task queue issues an empty synchronous *)
(* operation.                                                              *)
(*                                                                         *)
(* Every action is one critical section of mtm_lock, which the committing  *)
(* thread also keeps while it pushes the deltas (pc = "push").  What the   *)
(* transaction contains and how it is written is in module Journal.        *)
(***************************************************************************)
EXTENDS Integers, FiniteSets, FiniteSetsExt

CONSTANTS
    Threads,    \* threads that operate on the file system
    Tasks,      \* threads of system_taskq
    Sizes,      \* log space that an operation reserves
    Setups      \* situations, one of which holds throughout: see SetupType

\* ops: the operations that threads begin ("nosync" is an fsync that ends after
\* its asynchronous part: the file is offline, or writing its pages failed);
\* count: a bound on how many begin; nfs: the threads with T_DONTPEND; maxresv:
\* un_maxresv; heavy: whether the deltamap or the logmap may be found heavily
\* used.
SetupType == [ops : SUBSET {"async", "write", "fsync", "nosync", "commit"},
              count : Nat, nfs : SUBSET Threads, maxresv : Nat,
              heavy : BOOLEAN]

ASSUME MobyAssumption ==
    /\ IsFiniteSet(Threads) /\ IsFiniteSet(Tasks) /\ Threads \cap Tasks = {}
    /\ Setups \subseteq SetupType
    /\ \A s \in Setups : Sizes \subseteq 1 .. s.maxresv

VARIABLES
    setup,      \* the situation, a member of Setups
    mtm,        \* the counters of mt_map_t, un_resv and un_resv_wantin
    th,         \* where each thread is
    pending,    \* dispatched top_issue_sync_tq that no task has begun
    started,    \* number of operations started
    mounted,    \* "yes", "closing" (unmount has begun), "no"
    durable,    \* the last transaction whose commit record is on the log
    finished,   \* the last transaction in which an operation ended
    spent       \* log space used by operations that ended in this one

vars == <<setup, mtm, th, pending, started, mounted, durable, finished, spent>>

All == Threads \cup Tasks
Asleep == {"done", "again", "full", "in", "end"}

MaxResv == setup.maxresv

TypeOK ==
    /\ setup \in Setups
    /\ mtm \in [active : Nat, activesync : Nat, wantin : Nat,
                closed : SUBSET {"SYNC", "ASYNC", "FORCED"},
                seq : Nat, tid : Nat, committid : Nat,
                resv : 0 .. MaxResv, resv_wantin : 0 .. MaxResv,
                taskq_sync_count : Nat]
    /\ th \in [All -> [pc : Asleep \cup {"out", "abegin", "anext", "async",
                            "atail", "fbegin", "sbegin", "sync", "eotwait",
                            "eot", "push", "commit", "open", "tdone",
                            "unsnarf"},
                       op : {"async", "write", "fsync", "nosync", "commit",
                             "task", "flush", "unmount"},
                       size : Sizes \cup {0}, issue : {"none", "tail", "resv"},
                       seq : Nat, tid : Nat, last_async_tid : Nat,
                       need : Nat]]
    /\ pending \in Nat /\ started \in 0 .. setup.count
    /\ mounted \in {"yes", "closing", "no"}
    /\ durable \in Nat /\ finished \in Nat /\ spent \in Nat

\* lqfs_snarf after a scan that found one transaction.
Init ==
    /\ setup \in Setups
    /\ mtm = [active |-> 0, activesync |-> 0, wantin |-> 0, closed |-> {},
              seq |-> 0, tid |-> 1, committid |-> 1, resv |-> 0,
              resv_wantin |-> 0, taskq_sync_count |-> 0]
    /\ th = [t \in All |-> [pc |-> "out", op |-> "async", size |-> 0,
                            issue |-> "none", seq |-> 0, tid |-> 0,
                            last_async_tid |-> 0, need |-> 0]]
    /\ pending = 0 /\ started = 0 /\ mounted = "yes"
    /\ durable = 0 /\ finished = 0 /\ spent = 0

-----------------------------------------------------------------------------
LockFree == \A t \in All : th[t].pc # "push"

Goto(t, pc) == th' = [th EXCEPT ![t].pc = pc]
Sleep(t, why) == th' = [th EXCEPT ![t].pc = why, ![t].seq = mtm.seq]

\* The size that the current call of top_begin_sync was given: top_issue_sync
\* asks for TOP_COMMIT_SIZE on behalf of an operation of any size.
Size(t) == IF th[t].issue = "none" THEN th[t].size ELSE 0

\* Mutant: a commit that covers an older transaction will do.
CommitStarted == "SYNC" \in mtm.closed \/ mtm.activesync > 0

\* A commit is going to happen and the next transaction is not open yet, so
\* that commit covers every operation that has ended.
CommitPending == {"SYNC", "ASYNC"} \subseteq mtm.closed \/ mtm.activesync > 0

\* The quick exit of fsync by an nfs thread.
NfsCommitted(t) ==
    /\ t \in setup.nfs
    /\ th[t].last_async_tid \notin {mtm.tid, mtm.committid}

\* What an fsync or a sync has to find on the log when it returns.
Needed(t) == IF t \in setup.nfs /\ th[t].op = "fsync" THEN th[t].last_async_tid
                                                ELSE finished

\* The thread is outside the journal again.
Idle(t) == [th[t] EXCEPT !.pc = "out", !.op = "async", !.size = 0,
                         !.issue = "none", !.seq = 0, !.tid = 0, !.need = 0]

\* The asynchronous part of an operation is over.  Of an fsync the synchronous
\* part follows, unless it ends here ("nosync").
AsyncReturned(t) ==
    IF th[t].op = "fsync"
    THEN [th[t] EXCEPT !.pc = "fbegin", !.size = 0, !.issue = "none",
                       !.need = Needed(t)]
    ELSE Idle(t)

\* top_begin_sync returns an error, or top_end_sync returns; the caller may
\* be top_issue_sync, in the name of a task or of another operation.
SyncReturned(t) ==
    CASE th[t].issue = "tail"   -> AsyncReturned(t)
      [] th[t].issue = "resv"   -> [th[t] EXCEPT !.pc = "sbegin",
                                                 !.issue = "none"]
      [] th[t].op = "task"      -> [th[t] EXCEPT !.pc = "tdone"]
      [] th[t].op = "flush"     -> [th[t] EXCEPT !.pc = "sbegin",
                                                 !.op = "unmount"]
      [] th[t].op = "unmount"   -> [th[t] EXCEPT !.pc = "unsnarf"]
      [] OTHER                  -> Idle(t)

SyncReturns(t) == th' = [th EXCEPT ![t] = SyncReturned(t)]

-----------------------------------------------------------------------------
(* Asynchronous operations                                                 *)

\* An operation begins: a change of metadata, a write with FSYNC, fsync
\* (whose first part is asynchronous) or the commit of sam_sync_vfs.
Start(t) ==
    /\ th[t].pc = "out" /\ mounted = "yes" /\ started < setup.count
    /\ started' = started + 1
    /\ \/ \E op \in {"async", "fsync", "nosync"} \cap setup.ops, z \in Sizes :
            th' = [th EXCEPT ![t].pc = "abegin", ![t].op = op, ![t].size = z]
       \/ \E op \in {"write"} \cap setup.ops, z \in Sizes :
            th' = [th EXCEPT ![t].pc = "sbegin", ![t].op = op,
                             ![t].size = z]
       \/ /\ "commit" \in setup.ops
          /\ th' = [th EXCEPT ![t].pc = "sbegin", ![t].op = "commit",
                              ![t].size = 0, ![t].need = finished]
    /\ UNCHANGED <<setup, mtm, pending, mounted, durable, finished, spent>>

\* The reservation of this operation does not fit.
OverReserved(t) == th[t].size + mtm.resv + mtm.resv_wantin > MaxResv

\* Mutant: a task that has not ended stands for a commit to come.
TaskPending == mtm.taskq_sync_count > 0

\* An empty synchronous operation was dispatched and has not ended.
SyncForced == "FORCED" \in mtm.closed

top_begin_async(t) ==
    /\ th[t].pc = "abegin" /\ LockFree
    /\ \/ /\ "ASYNC" \in mtm.closed
          /\ Goto(t, "anext") /\ UNCHANGED <<mtm, pending>>
       \/ /\ "ASYNC" \notin mtm.closed /\ OverReserved(t)
          /\ mtm.activesync = 0 /\ ~SyncForced
          /\ mtm' = [mtm EXCEPT !.closed = @ \cup {"FORCED"},
                                !.taskq_sync_count = @ + 1]
          /\ pending' = pending + 1
          /\ UNCHANGED th
       \/ /\ "ASYNC" \notin mtm.closed /\ OverReserved(t)
          /\ mtm.activesync > 0 \/ SyncForced
          /\ Goto(t, "anext") /\ UNCHANGED <<mtm, pending>>
       \/ /\ "ASYNC" \notin mtm.closed /\ ~OverReserved(t)
          /\ mtm' = [mtm EXCEPT !.active = @ + 1, !.resv = @ + th[t].size]
          /\ th' = [th EXCEPT ![t].pc = "async", ![t].tid = mtm.tid]
          /\ UNCHANGED pending
    /\ UNCHANGED <<setup, started, mounted, durable, finished, spent>>

\* Mutant: the whole reservation is given back.
UnreservedWhole(z, used) == z

\* The reservation that is given back: what the deltas did not use.
Unreserved(z, used) == IF z > used THEN z - used ELSE 0

\* The operation has declared deltas of size used (top_delta) and ends.
top_end_async(t) ==
    /\ th[t].pc = "async" /\ LockFree
    /\ \E used \in 0 .. th[t].size :
         /\ mtm' = [mtm EXCEPT !.resv = @ - Unreserved(th[t].size, used),
                               !.active = @ - 1]
         /\ th' = [u \in All |->
                     IF u = t
                     THEN [th[t] EXCEPT !.pc = "atail",
                              !.last_async_tid = IF used > 0 THEN mtm.tid
                                                             ELSE @]
                     ELSE IF /\ mtm.active = 1 /\ th[u].pc = "eotwait"
                             /\ mtm.closed = {"SYNC", "ASYNC"}
                     THEN [th[u] EXCEPT !.pc = "eot"]
                     ELSE th[u]]
         /\ finished' = IF used > 0 THEN mtm.tid ELSE finished
         /\ spent' = spent + used
    /\ UNCHANGED <<setup, pending, started, mounted, durable>>

ldl_need_commit == mtm.resv > MaxResv - MaxResv \div 4

\* The end of top_end_async, without mtm_lock: an empty synchronous operation
\* is issued when the log is heavily used, or the deltamap or the logmap is,
\* but not by a TOP_GETPAGE operation, which an "async" one may be.
MayIssue == mtm.activesync = 0 /\ "SYNC" \notin mtm.closed

AsyncTail(t) ==
    /\ th[t].pc = "atail"
    /\ \/ /\ MayIssue /\ (setup.heavy \/ ldl_need_commit)
          /\ th' = [th EXCEPT ![t].pc = "sbegin", ![t].issue = "tail"]
       \/ /\ ~(MayIssue /\ ldl_need_commit) \/ th[t].op = "async"
          /\ th' = [th EXCEPT ![t] = AsyncReturned(t)]
    /\ UNCHANGED <<setup, mtm, pending, started, mounted, durable, finished,
                   spent>>

-----------------------------------------------------------------------------
(* Synchronous operations                                                  *)

\* top_begin_sync from the label retry on.
EnterNext(t) ==
    \/ /\ Size(t) = 0 /\ CommitPending
       /\ Sleep(t, "done") /\ UNCHANGED mtm
    \/ /\ ~(Size(t) = 0 /\ CommitPending)
       /\ Size(t) + mtm.resv_wantin + mtm.resv > MaxResv
       /\ Sleep(t, "full") /\ UNCHANGED mtm
    \/ /\ ~(Size(t) = 0 /\ CommitPending)
       /\ Size(t) + mtm.resv_wantin + mtm.resv <= MaxResv
       /\ mtm' = [mtm EXCEPT !.wantin = @ + 1, !.resv_wantin = @ + Size(t)]
       /\ Sleep(t, "in")

SyncFull(t) == Size(t) > 0 /\ mtm.resv > 0 /\ Size(t) + mtm.resv > MaxResv

Join(t) ==
    /\ mtm' = [mtm EXCEPT !.active = @ + 1, !.activesync = @ + 1,
                          !.resv = @ + Size(t)]
    /\ th' = [th EXCEPT ![t].pc = "sync", ![t].tid = mtm.tid]

EnterCurrent(t) ==
    \/ /\ SyncFull(t) /\ mtm.activesync = 0
       /\ th' = [th EXCEPT ![t].pc = "sbegin", ![t].issue = "resv"]
       /\ UNCHANGED mtm
    \/ /\ SyncFull(t) /\ mtm.activesync > 0
       /\ Sleep(t, "full") /\ UNCHANGED mtm
    \/ ~SyncFull(t) /\ Join(t)

EnterSync(t) ==
    \/ "SYNC" \in mtm.closed /\ EnterNext(t)
    \/ "SYNC" \notin mtm.closed /\ EnterCurrent(t)

top_begin_sync(t) ==
    /\ th[t].pc = "sbegin" /\ LockFree
    /\ EnterSync(t)
    /\ UNCHANGED <<setup, pending, started, mounted, durable, finished, spent>>

\* top_begin_sync with TOP_FSYNC, whose size is 0 and always fits.
FsyncBegin(t) ==
    /\ th[t].pc = "fbegin" /\ LockFree
    /\ \/ NfsCommitted(t) /\ SyncReturns(t) /\ UNCHANGED mtm
       \/ /\ ~NfsCommitted(t) /\ CommitPending
          /\ Sleep(t, "done") /\ UNCHANGED mtm
       \/ /\ ~NfsCommitted(t) /\ ~CommitPending /\ "SYNC" \in mtm.closed
          /\ Sleep(t, "again") /\ UNCHANGED mtm
       \/ /\ ~NfsCommitted(t) /\ ~CommitPending /\ "SYNC" \notin mtm.closed
          /\ Join(t)
    /\ UNCHANGED <<setup, pending, started, mounted, durable, finished, spent>>

\* A thread asleep on mtm_cv_commit finds that mtm_seq has changed.
Wake(t) ==
    /\ th[t].pc \in Asleep /\ th[t].seq # mtm.seq /\ LockFree
    /\ \/ th[t].pc \in {"done", "end"} /\ SyncReturns(t) /\ UNCHANGED mtm
       \/ th[t].pc = "full" /\ EnterSync(t)
       \/ th[t].pc = "in" /\ Goto(t, "sync") /\ UNCHANGED mtm
       \/ /\ th[t].pc = "again"
          /\ \/ NfsCommitted(t) /\ SyncReturns(t) /\ UNCHANGED mtm
             \/ ~NfsCommitted(t) /\ EnterSync(t)
    /\ UNCHANGED <<setup, pending, started, mounted, durable, finished, spent>>

\* A write has to find its own transaction on the log.
NeedOwn(t) == IF th[t].op = "write" /\ th[t].issue = "none" THEN th[t].tid
                                                            ELSE th[t].need

\* Mutant: asynchronous operations are not waited for.
PushAtOnce == "push"

\* The last synchronous operation waits for the asynchronous ones.
AwaitAsync == IF mtm.active = 1 THEN "push" ELSE "eotwait"

\* top_end_sync up to the push of the deltas: all but the last synchronous
\* operation wait for the commit, the last one for the asynchronous ones.
top_end_sync(t) ==
    /\ th[t].pc = "sync" /\ LockFree
    /\ \/ /\ mtm.activesync > 1
          /\ mtm' = [mtm EXCEPT !.activesync = @ - 1, !.active = @ - 1,
                                !.closed = {"SYNC"}]
          /\ th' = [th EXCEPT ![t].pc = "end", ![t].seq = mtm.seq,
                              ![t].need = NeedOwn(t)]
       \/ /\ mtm.activesync = 1
          /\ mtm' = [mtm EXCEPT !.activesync = 0, !.active = @ - 1,
                                !.closed = {"SYNC", "ASYNC"}]
          /\ th' = [th EXCEPT ![t].pc = AwaitAsync, ![t].need = NeedOwn(t)]
    /\ spent' = spent + Size(t)
    /\ UNCHANGED <<setup, pending, started, mounted, durable, finished>>

\* The last asynchronous operation has signalled mtm_cv_eot.
EndOfTransaction(t) ==
    /\ th[t].pc = "eot" /\ LockFree
    /\ Goto(t, IF mtm.active = 0 THEN "push" ELSE "eotwait")
    /\ UNCHANGED <<setup, mtm, pending, started, mounted, durable, finished,
                   spent>>

\* deltamap_push and what follows until mtm_lock is released; mtm_cv_next is
\* broadcast.
Push(t) ==
    /\ th[t].pc = "push"
    /\ mtm' = [mtm EXCEPT !.tid = @ + 1, !.resv = 0, !.closed = {"SYNC"}]
    /\ th' = [u \in All |->
                CASE u = t                -> [th[u] EXCEPT !.pc = "commit"]
                  [] th[u].pc = "anext"   -> [th[u] EXCEPT !.pc = "abegin"]
                  [] OTHER                -> th[u]]
    /\ spent' = 0
    /\ UNCHANGED <<setup, pending, started, mounted, durable, finished>>

\* logmap_commit and ldl_waito: the commit record is on the log.
Commit(t) ==
    /\ th[t].pc = "commit"
    /\ durable' = mtm.tid - 1
    /\ Goto(t, "open")
    /\ UNCHANGED <<setup, mtm, pending, started, mounted, finished, spent>>

\* Mutant: mtm_wantin is not reset.
OpenedForMore ==
    [mtm EXCEPT !.active = @ + mtm.wantin, !.activesync = mtm.wantin,
                !.resv = @ + mtm.resv_wantin, !.resv_wantin = 0, !.closed = {},
                !.committid = mtm.tid, !.seq = @ + 1]

\* The rest of top_end_sync: all operations are allowed.
Opened == [mtm EXCEPT !.active = @ + mtm.wantin, !.activesync = mtm.wantin,
                      !.resv = @ + mtm.resv_wantin, !.wantin = 0,
                      !.resv_wantin = 0, !.closed = {},
                      !.committid = mtm.tid, !.seq = @ + 1]

Open(t) ==
    /\ th[t].pc = "open" /\ LockFree
    /\ mtm' = Opened
    /\ th' = [u \in All |->
                CASE u = t            -> SyncReturned(t)
                  [] th[u].pc = "in"  -> [th[u] EXCEPT !.tid = mtm.tid]
                  [] OTHER            -> th[u]]
    /\ UNCHANGED <<setup, pending, started, mounted, durable, finished, spent>>

-----------------------------------------------------------------------------
(* Tasks and unmount                                                       *)

\* top_issue_sync_tq begins, and the end of top_issue_sync.
TaskBegin(t) ==
    /\ t \in Tasks /\ th[t].pc = "out" /\ pending > 0
    /\ pending' = pending - 1
    /\ th' = [th EXCEPT ![t].pc = "sbegin", ![t].op = "task"]
    /\ UNCHANGED <<setup, mtm, started, mounted, durable, finished, spent>>

TaskEnd(t) ==
    /\ th[t].pc = "tdone" /\ LockFree
    /\ mtm' = [mtm EXCEPT !.taskq_sync_count = @ - 1]
    /\ th' = [th EXCEPT ![t] = Idle(t)]
    /\ UNCHANGED <<setup, pending, started, mounted, durable, finished, spent>>

\* sam_umount_vfs: no operation is under way; the log is flushed, and the last
\* transaction is pushed.
Unmount(t) ==
    /\ mounted = "yes" /\ t \in Threads
    /\ \A u \in Threads : th[u].pc = "out"
    /\ mounted' = "closing"
    /\ th' = [th EXCEPT ![t].pc = "sbegin", ![t].op = "flush",
                        ![t].need = finished]
    /\ UNCHANGED <<setup, mtm, pending, started, durable, finished, spent>>

\* Mutant: tasks that have not ended are not waited for.
TasksIgnored == TRUE

\* Unmount may free the journal.
NoTasks == mtm.taskq_sync_count = 0

lqfs_unsnarf(t) ==
    /\ th[t].pc = "unsnarf" /\ LockFree
    /\ NoTasks
    /\ mounted' = "no"
    /\ th' = [th EXCEPT ![t] = Idle(t)]
    /\ UNCHANGED <<setup, mtm, pending, started, durable, finished, spent>>

-----------------------------------------------------------------------------
\* A step of a thread that is in the journal.
Step(t) ==
    \/ top_begin_async(t) \/ top_end_async(t) \/ AsyncTail(t)
    \/ top_begin_sync(t) \/ FsyncBegin(t) \/ Wake(t)
    \/ top_end_sync(t) \/ EndOfTransaction(t) \/ Push(t) \/ Commit(t) \/ Open(t)
    \/ TaskEnd(t) \/ lqfs_unsnarf(t)

Next ==
    \/ \E t \in All : Step(t)
    \/ \E t \in Threads : Start(t) \/ Unmount(t)
    \/ \E t \in Tasks : TaskBegin(t)

\* The kernel schedules every thread that can run, and every operation in a
\* transaction comes to its end.
Fairness ==
    /\ \A t \in All : WF_vars(Step(t))
    /\ \A t \in Tasks : WF_vars(TaskBegin(t))

Spec == Init /\ [][Next]_vars /\ Fairness

-----------------------------------------------------------------------------
(* Properties                                                              *)

InTransaction(t) ==
    \/ th[t].pc \in {"async", "sync"}
    \/ th[t].pc = "in" /\ th[t].seq # mtm.seq

Synchronous(t) == InTransaction(t) /\ th[t].pc # "async"

\* mtm_active, mtm_activesync and mtm_wantin count the operations in the
\* current transaction, the synchronous ones of them, and those that wait for
\* the next one; mtm_taskq_sync_count counts the issued tasks that have not
\* ended.  Each is changed by another thread than the one that it counts.
CountersAgree ==
    /\ mtm.active = Cardinality({t \in All : InTransaction(t)})
    /\ mtm.activesync = Cardinality({t \in All : Synchronous(t)})
    /\ mtm.wantin = Cardinality({t \in All : th[t].pc = "in" /\
                                             th[t].seq = mtm.seq})
    /\ mtm.taskq_sync_count =
            pending + Cardinality({t \in Tasks : th[t].pc # "out"})

\* All deltas of an operation go into one transaction: the transaction that
\* an operation entered is the open one until it leaves, and no operation is
\* inside while the deltas are pushed (the comment at deltamap_push).
OneTransaction ==
    /\ \A t \in All : InTransaction(t) => th[t].tid = mtm.tid
    /\ ~LockFree => \A t \in All : ~InTransaction(t)

\* un_resv covers what the operations in the transaction may still log and
\* what those that left it have logged, and stays within un_maxresv together
\* with what is promised to the next transaction.
SpaceReserved ==
    /\ mtm.resv >= spent + MapThenSumSet(Size, {t \in All : InTransaction(t)})
    /\ mtm.resv + mtm.resv_wantin <= MaxResv

\* When fsync, sync or a write with FSYNC returns, what it waited for is on
\* the log device: for fsync and sync every operation that ended before (for
\* fsync of an nfs thread the thread's own), for the write its transaction.
\* An fsync that does not come to its synchronous part promises nothing:
\* sam_fsync_vn returns 0 for an offline file whether or not earlier changes of
\* its inode are on the log.
SyncDurable ==
    [][\A t \in Threads :
          (th[t].pc # "out" /\ th'[t].pc = "out") => th[t].need <= durable]_vars

\* lqfs_unsnarf frees the journal when every ended operation is on the log and
\* no thread is in the journal or will still enter it.
UnmountClean ==
    mounted = "no" => /\ finished <= durable
                      /\ pending = 0
                      /\ \A t \in All : th[t].pc = "out"

\* Every operation that has entered the journal leaves it: no thread sleeps on
\* a condition variable that nobody signals any more.
OpsEnd == \A t \in All : th[t].pc # "out" ~> th[t].pc = "out"
=============================================================================
