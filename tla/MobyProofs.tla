----------------------------- MODULE MobyProofs -----------------------------
(***************************************************************************)
(* The gate of the journal for any number of threads and tasks: the        *)
(* counters agree with the threads, no operation straddles two             *)
(* transactions, fsync and sync return with their changes on the log, and  *)
(* unmount frees a journal that nobody uses.                               *)
(***************************************************************************)
EXTENDS MobyInv

(***************************************************************************)
(* The other steps of the commit                                           *)
(***************************************************************************)

\* The committing thread was signalled: no operation is left, or it waits on.
LEMMA EndOfTransactionKeeps == ASSUME IInv, NEW t \in All, EndOfTransaction(t) PROVE IInv'
<1> DEFINE p == IF mtm.active = 0 THEN "push" ELSE "eotwait"
<1>1. /\ Typed /\ th[t].pc = "eot" /\ Goto(t, p) /\ mounted # "no" /\ p \in Labels
      /\ mtm \in MtmType /\ pending \in Nat
      /\ UNCHANGED <<setup, mtm, pending, mounted, durable, finished, spent>>
  BY Zenon, Busy DEF EndOfTransaction, IInv, Typed, Labels
<1>2. /\ Only(t) /\ Rest(t) /\ th'[t].issue = th[t].issue
      /\ th'[t].pc = p /\ th'[t].seq = th[t].seq /\ th'[t].tid = th[t].tid
  BY Zenon, <1>1, GotoType
<1>3. \A u \in All : Kept(u) /\ (u # t => th'[u].pc = th[u].pc)
  BY Zenon, <1>1, <1>2 DEF Kept, Only, Rest, Closing
<1>4. Typed'
  BY Zenon, <1>1, <1>2 DEF Typed, Only
<1>5. Counted'
  <2>1. Recounted(t)
    BY <1>1, <1>2 DEF Recounted, In, Sy, Wt, Tk, InTransaction, Synchronous, One, MtmType
  <2> QED BY Zenon, <1>1, <1>3, <1>4, <2>1, Recount, KeptSame
<1>6. \A u \in All : /\ th'[u].pc \in Closing <=> th[u].pc \in Closing
                     /\ th'[u].pc \in PastPush <=> th[u].pc \in PastPush
                     /\ th'[u].pc \in PastPush => th'[u].pc = th[u].pc
                     /\ th'[u].pc = "push" => th[u].pc = "push" \/ mtm.active = 0
  BY Zenon, <1>1, <1>2, <1>3 DEF Closing, PastPush
<1>7. Pushed' <=> Pushed
  BY Zenon, <1>6 DEF Pushed
<1>8. Gate'
  BY Zenon, <1>1, <1>6 DEF IInv, Gate
<1>9. Logged'
  BY Zenon, <1>1, <1>6, <1>7 DEF IInv, Logged, PastPush
<1>10. \A u \in All : Own(u)'
  BY <1>1, <1>3, <1>7, KeptOwn, MtmFields DEF Typed
<1>11. \A u \in All : th[u].pc = "out" => th'[u].pc = "out"
  BY Zenon, <1>3, KeptSame
<1> QED BY Zenon, <1>1, <1>4, <1>5, <1>8, <1>9, <1>10, <1>11, StepKeeps

\* The commit record is on the log.
LEMMA CommitKeeps == ASSUME IInv, NEW t \in All, Commit(t) PROVE IInv'
<1>1. /\ Typed /\ th[t].pc = "commit" /\ Goto(t, "open") /\ mounted # "no"
      /\ "open" \in Labels /\ mtm \in MtmType /\ pending \in Nat
      /\ durable' = mtm.tid - 1 /\ mtm.tid = mtm.committid + 1 /\ durable = mtm.tid - 2
      /\ UNCHANGED <<setup, mtm, pending, mounted, finished, spent>>
  BY Zenon, Busy DEF Commit, IInv, Typed, Labels, Logged
<1>2. /\ Only(t) /\ Rest(t) /\ th'[t].issue = th[t].issue
      /\ th'[t].pc = "open" /\ th'[t].seq = th[t].seq /\ th'[t].tid = th[t].tid
  BY Zenon, <1>1, GotoType
<1>3. \A u \in All : Kept(u) /\ (u # t => th'[u].pc = th[u].pc)
  BY Zenon, <1>1, <1>2 DEF Kept, Only, Rest, PastPush
<1>4. Typed' /\ durable <= durable'
  BY <1>1, <1>2, MtmFields DEF Typed, Only
<1>5. Counted'
  <2>1. Recounted(t)
    BY <1>1, <1>2 DEF Recounted, In, Sy, Wt, Tk, InTransaction, Synchronous, One, MtmType
  <2> QED BY Zenon, <1>1, <1>3, <1>4, <2>1, Recount, KeptSame
<1>6. \A u \in All : /\ th'[u].pc \in Closing <=> th[u].pc \in Closing
                     /\ th'[u].pc \in PastPush <=> th[u].pc \in PastPush
                     /\ th'[u].pc \in PastPush => u = t
                     /\ th'[u].pc = "push" => th[u].pc = "push"
  BY Zenon, <1>1, <1>2, <1>3 DEF IInv, Gate, Closing, PastPush
<1>7. Pushed' /\ Pushed
  BY Zenon, <1>1, <1>2 DEF Pushed, PastPush
<1>8. Gate'
  BY Zenon, <1>1, <1>6 DEF IInv, Gate
<1>9. Logged'
  BY Zenon, <1>1, <1>2, <1>6, <1>7 DEF IInv, Logged, PastPush
<1>10. \A u \in All : Own(u)'
  BY <1>1, <1>3, <1>4, <1>7, KeptOwn, MtmFields DEF Typed
<1>11. \A u \in All : th[u].pc = "out" => th'[u].pc = "out"
  BY Zenon, <1>3, KeptSame
<1> QED BY Zenon, <1>1, <1>4, <1>5, <1>8, <1>9, <1>10, <1>11, StepKeeps

\* The thread that pushes the deltas, and those that wait for mtm_cv_next.
PushedThreads(t) ==
    [u \in All |-> CASE u = t                -> [th[u] EXCEPT !.pc = "commit"]
                     [] th[u].pc = "anext"   -> [th[u] EXCEPT !.pc = "abegin"]
                     [] OTHER                -> th[u]]

\* The threads after the push.
LEMMA PushThreads ==
    ASSUME Typed, NEW t \in All, th[t].pc = "push", th' = PushedThreads(t)
    PROVE  /\ th' \in [All -> ThreadType]
           /\ Rest(t) /\ th'[t].issue = th[t].issue /\ th'[t].seq = th[t].seq
           /\ th'[t].pc = "commit"
           /\ \A u \in All \ {t} :
                 /\ Kept(u)
                 /\ th'[u].pc = th[u].pc \/ (th[u].pc = "anext" /\ th'[u].pc = "abegin")
<1> DEFINE To(u, p) == [th[u] EXCEPT !.pc = p]
<1>1. ASSUME NEW u \in All, NEW p \in Labels
      PROVE  /\ To(u, p) \in ThreadType /\ To(u, p).pc = p
             /\ To(u, p).op = th[u].op /\ To(u, p).size = th[u].size
             /\ To(u, p).issue = th[u].issue /\ To(u, p).need = th[u].need
             /\ To(u, p).tid = th[u].tid /\ To(u, p).seq = th[u].seq
             /\ To(u, p).last_async_tid = th[u].last_async_tid
  <2>1. th[u] \in ThreadType
    BY Zenon, ThreadFields
  <2> QED BY Zenon, <2>1 DEF ThreadType
<1>2. th'[t] = To(t, "commit") /\ "commit" \in Labels /\ "abegin" \in Labels
  BY Zenon DEF PushedThreads, Labels
<1>3. ASSUME NEW u \in All \ {t}
      PROVE  /\ th'[u] \in ThreadType /\ Kept(u)
             /\ th'[u].pc = th[u].pc \/ (th[u].pc = "anext" /\ th'[u].pc = "abegin")
  <2>1. th[u] \in ThreadType
    BY Zenon, ThreadFields
  <2>2. th'[u] = IF th[u].pc = "anext" THEN To(u, "abegin") ELSE th[u]
    BY Zenon DEF PushedThreads
  <2> HIDE DEF To
  <2>3. CASE th[u].pc = "anext"
    BY <1>1, <1>2, <2>2, <2>3 DEF Kept, Rest
  <2>4. CASE th[u].pc # "anext"
    BY Zenon, <2>1, <2>2, <2>4 DEF Kept, Rest
  <2> QED BY Zenon, <2>3, <2>4
<1> HIDE DEF To
<1>4. th' = [u \in All |-> th'[u]]
  BY Zenon DEF PushedThreads
<1>5. th' \in [All -> ThreadType]
  BY <1>1, <1>2, <1>3, <1>4
<1> QED BY <1>1, <1>2, <1>3, <1>5 DEF Rest

\* The deltas are pushed and the next transaction is open to asynchronous
\* operations: nobody was in the one that was pushed.
LEMMA PushKeeps == ASSUME IInv, NEW t \in All, Push(t) PROVE IInv'
<1>1. /\ Typed /\ Own(t) /\ th[t].pc = "push" /\ mounted # "no" /\ mtm \in MtmType
      /\ pending \in Nat /\ mtm.active = 0 /\ mtm.activesync = 0
      /\ UNCHANGED <<setup, pending, mounted, durable, finished>> /\ spent' = 0
  BY Zenon, Busy DEF Push, IInv, Typed, Gate, Closing
<1>2. /\ mtm' \in MtmType /\ mtm'.active = mtm.active
      /\ mtm'.activesync = mtm.activesync /\ mtm'.wantin = mtm.wantin
      /\ mtm'.tid = mtm.tid + 1 /\ mtm'.committid = mtm.committid /\ mtm'.seq = mtm.seq
      /\ mtm'.taskq_sync_count = mtm.taskq_sync_count /\ mtm'.closed = {"SYNC"}
  <2>1. mtm' = [mtm EXCEPT !.tid = @ + 1, !.resv = 0, !.closed = {"SYNC"}]
    BY Zenon DEF Push
  <2>2. mtm.tid + 1 \in Nat /\ 0 \in Int /\ {"SYNC"} \in SUBSET {"SYNC", "ASYNC", "FORCED"}
    BY <1>1, MtmFields
  <2>3. mtm' \in MtmType
    BY <1>1, <2>1, <2>2, Zenon DEF MtmType
  <2> QED BY Zenon, <1>1, <2>1, <2>3 DEF MtmType
<1>3. /\ th' \in [All -> ThreadType]
      /\ Rest(t) /\ th'[t].issue = th[t].issue /\ th'[t].seq = th[t].seq
      /\ th'[t].pc = "commit"
      /\ \A u \in All \ {t} :
            /\ Kept(u)
            /\ th'[u].pc = th[u].pc \/ (th[u].pc = "anext" /\ th'[u].pc = "abegin")
  BY Zenon, <1>1, PushThreads DEF Push, PushedThreads
<1>4. Typed'
  BY <1>1, <1>2, <1>3 DEF Typed
<1>5. Counted'
  <2>1. Recounted(t)
    BY <1>1, <1>2, <1>3 DEF Recounted, In, Sy, Wt, Tk, InTransaction, Synchronous, One, MtmType
  <2> QED BY ZenonT(30), <1>2, <1>3, <1>4, <2>1, Recount, KeptSame
<1>6. \A u \in All \ {t} : /\ th[u].pc \notin Closing \cup PastPush
                           /\ th'[u].pc \notin Closing \cup PastPush
  BY Zenon, <1>1, <1>3 DEF IInv, Gate, Closing, PastPush
<1>7. \A u \in All : ~InTransaction(u)
  <2>1. IsFiniteSet(In) /\ Cardinality(In) = 0
    BY Zenon, <1>1, SetsFinite DEF IInv, Counted
  <2>2. In = {}
    BY Zenon, <2>1, FS_EmptySet
  <2> QED BY Zenon, <2>2 DEF In
<1>8. Gate'
  BY ZenonT(30), <1>1, <1>2, <1>3, <1>6 DEF Gate, Closing, PastPush
<1>9. Logged'
  <2>1. ~Pushed /\ Pushed'
    BY Zenon, <1>1, <1>3, <1>6 DEF Pushed, Closing, PastPush
  <2> QED BY <1>1, <1>2, <1>3, <1>6, <2>1, MtmFields DEF IInv, Logged, PastPush, Typed
<1>10. Own(t)'
  <2>1. th[t].need \in Nat /\ th[t].last_async_tid \in Nat /\ mtm.tid \in Nat
    BY Zenon, <1>1, MtmFields, ThreadFields
  <2>2. Numbered(t)' /\ TaskOnly(t)' /\ Issued(t)' /\ Unmounting(t)'
    BY Zenon, <1>1, <1>2, <1>3 DEF Own, Numbered, InTransaction, TaskOnly, Issued, Unmounting,
       Inside, Rest
  <2>3. Awaited(t)'
    BY <1>1, <1>2, <1>3, <2>1 DEF Own, Awaited, Inside, PastPush, Rest
  <2> QED BY Zenon, <2>2, <2>3 DEF Own
<1>11. ASSUME NEW u \in All \ {t} PROVE Own(u)'
  <2>1. mtm.tid < mtm'.tid /\ mtm'.tid \in Nat /\ mtm.tid <= mtm'.tid
        /\ durable \in Int /\ durable <= durable
    BY <1>1, <1>2, MtmFields DEF Typed
  <2> QED BY ZenonT(30), <1>1, <1>2, <1>3, <1>7, <2>1, KeptOwn
<1>12. \A u \in All : th[u].pc = "out" => th'[u].pc = "out"
  BY Zenon, <1>1, <1>3, KeptSame
<1> QED BY ZenonT(30), <1>1, <1>4, <1>5, <1>8, <1>9, <1>10, <1>11, <1>12, StepKeeps

\* Open: the committing thread returns, and those that wait for the next
\* transaction are in it.
OpenedThreads(t) ==
    [u \in All |-> CASE u = t            -> SyncReturned(t)
                     [] th[u].pc = "in"  -> [th[u] EXCEPT !.tid = mtm.tid]
                     [] OTHER            -> th[u]]

\* The threads after top_end_sync has opened the next transaction.
LEMMA OpenThreads ==
    ASSUME IInv, NEW t \in All, th[t].pc = "open", th' = OpenedThreads(t)
    PROVE  /\ th' \in [All -> ThreadType] /\ Returned(t, th'[t])
           /\ \A u \in All \ {t} :
                 /\ Rest(u) /\ th'[u].issue = th[u].issue
                 /\ th'[u].pc = th[u].pc /\ th'[u].seq = th[u].seq
                 /\ th'[u].tid = IF th[u].pc = "in" THEN mtm.tid ELSE th[u].tid
<1>1. Typed /\ Issued(t)
  BY Zenon DEF IInv, Own
<1>2. th'[t] = SyncReturned(t) /\ Returned(t, SyncReturned(t))
  BY Zenon, <1>1, SyncReturnedType DEF OpenedThreads
<1>3. ASSUME NEW u \in All \ {t}
      PROVE  /\ th'[u] \in ThreadType /\ Rest(u) /\ th'[u].issue = th[u].issue
             /\ th'[u].pc = th[u].pc /\ th'[u].seq = th[u].seq
             /\ th'[u].tid = IF th[u].pc = "in" THEN mtm.tid ELSE th[u].tid
  <2> DEFINE r == [th[u] EXCEPT !.tid = mtm.tid]
  <2>1. th[u] \in ThreadType /\ mtm.tid \in Nat
    BY Zenon, <1>1, ThreadFields, MtmFields
  <2>2. r \in ThreadType
    BY Zenon, <2>1 DEF ThreadType
  <2>3. /\ r.pc = th[u].pc /\ r.op = th[u].op /\ r.size = th[u].size
        /\ r.issue = th[u].issue /\ r.need = th[u].need /\ r.tid = mtm.tid
        /\ r.seq = th[u].seq /\ r.last_async_tid = th[u].last_async_tid
    BY Zenon, <2>1 DEF ThreadType
  <2>4. th'[u] = IF th[u].pc = "in" THEN r ELSE th[u]
    BY Zenon DEF OpenedThreads
  <2> HIDE DEF r
  <2> QED BY Zenon, <2>1, <2>2, <2>3, <2>4 DEF Rest
<1>4. th' = [u \in All |-> th'[u]]
  BY Zenon DEF OpenedThreads
<1>5. th'[t] \in ThreadType
  BY Zenon, <1>2 DEF Returned
<1>6. th' \in [All -> ThreadType]
  BY Zenon, <1>3, <1>4, <1>5
<1> QED BY Zenon, <1>2, <1>3, <1>6

\* The counters after it.
LEMMA OpenMtm ==
    ASSUME Typed, mtm' = Opened
    PROVE  /\ mtm' \in MtmType /\ mtm'.active = mtm.active + mtm.wantin
           /\ mtm'.activesync = mtm.wantin /\ mtm'.wantin = 0
           /\ mtm'.tid = mtm.tid /\ mtm'.committid = mtm.tid /\ mtm'.seq = mtm.seq + 1
           /\ mtm'.taskq_sync_count = mtm.taskq_sync_count /\ mtm'.closed = {}
<1>1. /\ mtm.active + mtm.wantin \in Nat /\ mtm.wantin \in Nat /\ mtm.seq + 1 \in Nat
      /\ mtm.resv + mtm.resv_wantin \in Int /\ mtm.tid \in Nat /\ mtm \in MtmType
      /\ 0 \in Nat /\ 0 \in Int /\ {} \in SUBSET {"SYNC", "ASYNC", "FORCED"}
  BY MtmFields DEF Typed
<1>2. mtm' \in MtmType
  BY <1>1, Zenon DEF Opened, MtmType
<1>3. /\ mtm'.active = mtm.active + mtm.wantin /\ mtm'.activesync = mtm.wantin
      /\ mtm'.wantin = 0 /\ mtm'.tid = mtm.tid /\ mtm'.committid = mtm.tid
      /\ mtm'.seq = mtm.seq + 1
      /\ mtm'.taskq_sync_count = mtm.taskq_sync_count /\ mtm'.closed = {}
  BY Zenon, <1>1 DEF Opened, MtmType
<1> QED BY Zenon, <1>2, <1>3

\* The next transaction is open to all: those counted in mtm_wantin are in it,
\* and whoever waited for the commit has mtm_seq changed.
LEMMA OpenKeeps == ASSUME IInv, NEW t \in All, Open(t) PROVE IInv'
<1>1. /\ Typed /\ Own(t) /\ th[t].pc = "open" /\ mounted # "no" /\ mtm \in MtmType
      /\ mtm.activesync = 0 /\ durable = mtm.tid - 1 /\ pending \in Nat
      /\ UNCHANGED <<setup, pending, mounted, durable, finished, spent>>
  BY Zenon, Busy DEF Open, IInv, Typed, Gate, Logged, PastPush
<1>2. /\ mtm' \in MtmType /\ mtm'.active = mtm.active + mtm.wantin
      /\ mtm'.activesync = mtm.wantin /\ mtm'.wantin = 0
      /\ mtm'.tid = mtm.tid /\ mtm'.committid = mtm.tid /\ mtm'.seq = mtm.seq + 1
      /\ mtm'.taskq_sync_count = mtm.taskq_sync_count /\ mtm'.closed = {}
  BY Zenon, <1>1, OpenMtm DEF Open
<1>3. /\ th' \in [All -> ThreadType] /\ Returned(t, th'[t])
      /\ \A u \in All \ {t} :
            /\ Rest(u) /\ th'[u].issue = th[u].issue
            /\ th'[u].pc = th[u].pc /\ th'[u].seq = th[u].seq
            /\ th'[u].tid = IF th[u].pc = "in" THEN mtm.tid ELSE th[u].tid
  BY Zenon, <1>1, OpenThreads DEF Open, OpenedThreads
<1>4. /\ th'[t].pc \in {"out", "fbegin", "sbegin", "unsnarf", "tdone"}
      /\ (t \in Tasks => th'[t].pc # "out")
  BY Zenon, <1>1, <1>3 DEF Returned, Own, TaskOnly
<1>5. Typed'
  BY Zenon, <1>1, <1>2, <1>3 DEF Typed
<1>6. \A u \in All : /\ th[u].seq \in Nat /\ th[u].seq <= mtm.seq /\ mtm.seq \in Nat
                     /\ Own(u)
  BY Zenon, <1>1, ThreadFields, MtmFields DEF IInv, Own, Numbered
<1>7. Counted'
  <2>1. Sy = {}
    BY <1>1, SetsFinite, FS_EmptySet, Zenon DEF IInv, Counted
  <2>2. \A u \in All : th[u].pc # "sync" /\ (th[u].pc = "in" => u \in Wt)
    BY Zenon, <2>1 DEF Sy, Wt, Synchronous, InTransaction
  <2>3. In' = In \cup Wt
    BY <1>1, <1>2, <1>3, <1>4, <1>6, <2>2 DEF In, Wt, InTransaction
  <2>4. Sy' = Wt
    BY <1>1, <1>2, <1>3, <1>4, <1>6, <2>2 DEF Sy, Wt, Synchronous, InTransaction
  <2>5. Wt' = {}
    BY <1>2, <1>3, <1>4, <1>6 DEF Wt
  <2>6. Tk' = Tk
    BY Zenon, <1>1, <1>3, <1>4 DEF Tk, All
  <2>7. In \cap Wt = {}
    BY Zenon DEF In, Wt, InTransaction
  <2>8. Cardinality(In \cup Wt) = Cardinality(In) + Cardinality(Wt)
    <3>1. /\ IsFiniteSet(In) /\ IsFiniteSet(Wt) /\ Cardinality(In) \in Nat
          /\ Cardinality(Wt) \in Nat /\ Cardinality(In \cap Wt) = 0
      BY <2>7, SetsFinite, FS_EmptySet, FS_CardinalityType, Zenon
    <3>2. Cardinality(In \cup Wt) =
              Cardinality(In) + Cardinality(Wt) - Cardinality(In \cap Wt)
      BY <3>1, FS_Union, Zenon
    <3> QED BY <3>1, <3>2
  <2>9. Cardinality({}) = 0
    BY Zenon, FS_EmptySet
  <2> QED BY ZenonT(30), <1>1, <1>2, <2>3, <2>4, <2>5, <2>6, <2>8, <2>9 DEF IInv, Counted
<1>8. \A u \in All : th'[u].pc \notin Closing \cup PastPush
  BY Zenon, <1>1, <1>3, <1>4 DEF IInv, Gate, Closing, PastPush
<1>9. Gate' /\ ~Pushed'
  BY Zenon, <1>2, <1>8 DEF Gate, Pushed, Closing
<1>10. Logged'
  BY Zenon, <1>1, <1>2, <1>8, <1>9 DEF IInv, Logged, PastPush
<1>11. Own(t)'
  <2>1. th[t].need <= durable /\ mtm'.seq \in Nat /\ mtm.seq <= mtm'.seq
    BY <1>1, <1>2, MtmFields, ThreadFields DEF Own, Awaited, PastPush
  <2> QED BY ZenonT(30), <1>1, <1>2, <1>3, <2>1, ReturnedOwn
<1>12. ASSUME NEW u \in All \ {t} PROVE Own(u)'
  <2>1. /\ th'[u].op = th[u].op /\ th'[u].size = th[u].size /\ th'[u].need = th[u].need
        /\ th'[u].last_async_tid = th[u].last_async_tid /\ th'[u].issue = th[u].issue
        /\ th'[u].pc = th[u].pc /\ th'[u].seq = th[u].seq
        /\ th'[u].tid = IF th[u].pc = "in" THEN mtm.tid ELSE th[u].tid
    BY ZenonT(30), <1>3 DEF Rest
  <2>2. TaskOnly(u)' /\ Issued(u)' /\ Unmounting(u)'
    BY ZenonT(30), <1>1, <1>6, <2>1 DEF Own, TaskOnly, Issued, Unmounting
  <2>3. Numbered(u)'
    BY <1>2, <1>6, <2>1 DEF Own, Numbered, InTransaction
  <2>4. Awaited(u)'
    <3>1. Pushed
      BY Zenon, <1>1 DEF Pushed, PastPush
    <3>2. th[u].pc \in {"done", "end"} => th[u].need < mtm.tid
      BY Zenon, <1>6, <3>1 DEF Own, Awaited
    <3>3. th[u].need \in Nat /\ mtm.tid \in Nat
      BY Zenon, <1>1, MtmFields, ThreadFields
    <3>4. th[u].pc \in {"done", "end"} => th[u].need <= durable
      BY <1>1, <3>2, <3>3
    <3> QED BY <1>1, <1>2, <1>6, <1>8, <1>9, <2>1, <3>4, ZenonT(30) DEF Own, Awaited
  <2> QED BY Zenon, <2>2, <2>3, <2>4 DEF Own
<1>13. \A u \in All : th[u].pc = "out" => th'[u].pc = "out"
  BY Zenon, <1>1, <1>3
<1> QED BY ZenonT(30), <1>1, <1>5, <1>7, <1>9, <1>10, <1>11, <1>12, <1>13, StepKeeps

(***************************************************************************)
(* The theorems                                                            *)
(***************************************************************************)

\* The invariant holds after lqfs_snarf.
LEMMA InitIInv == Init => IInv
<1> SUFFICES ASSUME Init PROVE IInv
  BY Zenon
<1> DEFINE r == [pc |-> "out", op |-> "async", size |-> 0, issue |-> "none", seq |-> 0,
                 tid |-> 0, last_async_tid |-> 0, need |-> 0]
<1>1. /\ mtm.active = 0 /\ mtm.activesync = 0 /\ mtm.wantin = 0 /\ mtm.closed = {}
      /\ mtm.seq = 0 /\ mtm.tid = 1 /\ mtm.committid = 1 /\ mtm.taskq_sync_count = 0
      /\ pending = 0 /\ mounted = "yes" /\ durable = 0 /\ finished = 0 /\ spent = 0
  BY Zenon DEF Init
<1>2. r \in ThreadType
  BY Zenon DEF ThreadType, Labels
<1>3. th \in [All -> ThreadType] /\ \A t \in All : th[t] = r
  BY Zenon, <1>2 DEF Init
<1>4. mtm \in MtmType
  BY DEF Init, MtmType
<1>5. Typed
  BY <1>1, <1>3, <1>4 DEF Typed, Init
<1>6. Counted
  <2>1. In = {} /\ Sy = {} /\ Wt = {} /\ Tk = {}
    BY <1>3 DEF In, Sy, Wt, Tk, InTransaction, Synchronous, All
  <2> QED BY <1>1, <2>1, FS_EmptySet DEF Counted
<1>7. Gate /\ Logged
  BY <1>1, <1>3 DEF Gate, Logged, Pushed, Closing, PastPush
<1>8. Alone /\ UnmountClean
  BY Zenon, <1>1 DEF Alone, UnmountClean
<1>9. \A t \in All : Own(t)
  BY <1>1, <1>3 DEF Own, Numbered, InTransaction, TaskOnly, Issued, Awaited, Unmounting,
     Inside, PastPush
<1> QED BY Zenon, <1>5, <1>6, <1>7, <1>8, <1>9 DEF IInv

\* Every step preserves the invariant.
LEMMA NextIInv == IInv /\ [Next]_vars => IInv'
<1> SUFFICES ASSUME IInv, [Next]_vars PROVE IInv'
  BY Zenon
<1>1. ASSUME NEW t \in All, Step(t) PROVE IInv'
  BY <1>1, BeginAsyncKeeps, EndAsyncKeeps, AsyncTailKeeps, BeginSyncKeeps, FsyncBeginKeeps,
     WakeKeeps, EndSyncKeeps, EndOfTransactionKeeps, PushKeeps, CommitKeeps, OpenKeeps,
     TaskEndKeeps, UnsnarfKeeps, ZenonT(30) DEF Step
<1>2. ASSUME NEW t \in Threads, Start(t) \/ Unmount(t) PROVE IInv'
  BY <1>2, StartKeeps, UnmountKeeps, Zenon
<1>3. ASSUME NEW t \in Tasks, TaskBegin(t) PROVE IInv'
  BY <1>3, TaskBeginKeeps, Zenon
<1>4. CASE UNCHANGED vars
  <2>1. UNCHANGED <<setup, mtm, th, pending, mounted, durable, finished, spent>>
    BY Zenon, <1>4 DEF vars
  <2>2. Typed' /\ Gate' /\ Logged' /\ Alone' /\ UnmountClean' /\ (Pushed' <=> Pushed)
    BY Zenon, <2>1 DEF IInv, Typed, Gate, Logged, Pushed, Alone, UnmountClean
  <2>3. Counted'
    BY Zenon, <2>1 DEF IInv, Counted, In, Sy, Wt, Tk, InTransaction, Synchronous
  <2>4. ASSUME NEW t \in All PROVE Own(t)'
    <3>1. Own(t)
      BY Zenon DEF IInv
    <3>2. Numbered(t)' /\ TaskOnly(t)' /\ Issued(t)' /\ Unmounting(t)'
      BY Zenon, <2>1, <3>1 DEF Own, Numbered, InTransaction, TaskOnly, Issued, Unmounting
    <3>3. Awaited(t)'
      BY Zenon, <2>1, <2>2, <3>1 DEF Own, Awaited
    <3> QED BY Zenon, <3>2, <3>3 DEF Own
  <2> QED BY Zenon, <2>2, <2>3, <2>4 DEF IInv
<1> QED BY <1>1, <1>2, <1>3, <1>4, Zenon DEF Next

\* The invariant holds in every reachable state.
LEMMA Invariance == Spec => []IInv
BY InitIInv, NextIInv, PTL DEF Spec

\* The counters of the gate agree with the threads, for any number of threads
\* and tasks: top_begin_sync, top_end_sync and the others count every operation
\* in and out exactly once.
THEOREM CountersAlwaysAgree == Spec => []CountersAgree
<1>1. IInv => CountersAgree
  BY Zenon DEF IInv, Counted, In, Sy, Wt, Tk, CountersAgree
<1> QED BY <1>1, Invariance, PTL

\* An operation is in the open transaction until it leaves, and nobody is in it
\* while top_end_sync pushes the deltas.
THEOREM OperationsInOneTransaction == Spec => []OneTransaction
<1>1. IInv => OneTransaction
  <2> SUFFICES ASSUME IInv PROVE OneTransaction
    BY Zenon
  <2>1. \A t \in All : InTransaction(t) => th[t].tid = mtm.tid
    BY Zenon DEF IInv, Own, Numbered
  <2>2. ASSUME NEW t \in All, th[t].pc = "push" PROVE \A u \in All : ~InTransaction(u)
    <3>1. IsFiniteSet(In) /\ Cardinality(In) = 0
      BY Zenon, <2>2, SetsFinite DEF IInv, Counted, Gate
    <3>2. In = {}
      BY Zenon, <3>1, FS_EmptySet
    <3> QED BY Zenon, <3>2 DEF In
  <2> QED BY Zenon, <2>1, <2>2 DEF OneTransaction, LockFree
<1> QED BY <1>1, Invariance, PTL

\* When lqfs_unsnarf has freed the journal, every operation that ended is on
\* the log, and neither a thread nor a dispatched task is left.
THEOREM UnmountLeavesNobody == Spec => []UnmountClean
<1>1. IInv => UnmountClean
  BY Zenon DEF IInv
<1> QED BY <1>1, Invariance, PTL

\* A thread that leaves the journal, but for a task, finds what it waited for
\* on the log.
LeavesDurable ==
    \A u \in Threads : (th[u].pc # "out" /\ th'[u].pc = "out") => th[u].need <= durable

\* A thread that returns may leave.
LEMMA ReturnsDurable ==
    ASSUME Typed, NEW t \in All, NEW r, th[t].need <= durable, th' = [th EXCEPT ![t] = r]
    PROVE  LeavesDurable
BY Zenon DEF LeavesDurable, Typed, All

\* A thread that falls asleep does not leave.
LEMMA SleepDurable ==
    ASSUME Typed, NEW t \in All, NEW p \in Asleep, Sleep(t, p) PROVE LeavesDurable
<1>1. th'[t].pc # "out" /\ \A u \in All \ {t} : th'[u] = th[u]
  BY Zenon, SleepType DEF Asleep, Only
<1> QED BY Zenon, <1>1 DEF LeavesDurable, All

\* A thread that enters does not leave.
LEMMA EnterSyncDurable ==
    ASSUME Typed, NEW t \in All, EnterSync(t) PROVE LeavesDurable
<1>1. CASE \E p \in {"done", "full", "in"} : Sleep(t, p)
  BY Zenon, <1>1, SleepDurable DEF Asleep
<1>2. CASE Join(t)
  BY Zenon, <1>2, JoinType DEF Joined, Only, LeavesDurable, All
<1>3. CASE th' = [th EXCEPT ![t].pc = "sbegin", ![t].issue = "resv"]
  BY ZenonT(30), <1>3 DEF LeavesDurable, Typed, ThreadType, All
<1> QED BY Zenon, <1>1, <1>2, <1>3 DEF EnterSync, EnterNext, EnterCurrent

\* No step of a thread in the journal lets a thread leave too early.
LEMMA StepDurable == ASSUME IInv, NEW t \in All, Step(t) PROVE LeavesDurable
<1>1. Typed /\ Own(t) /\ th[t] \in ThreadType
  BY Zenon, ThreadFields DEF IInv
<1>2. ASSUME NEW p \in Labels \ {"out"}, Goto(t, p) PROVE LeavesDurable
  BY Zenon, <1>1, <1>2, GotoType DEF Only, LeavesDurable, All
<1>3. CASE top_begin_async(t)
  <2>1. CASE Goto(t, "anext")
    BY Zenon, <1>2, <2>1 DEF Labels
  <2>2. CASE th' = th
    BY Zenon, <2>2 DEF LeavesDurable
  <2>3. CASE th' = [th EXCEPT ![t].pc = "async", ![t].tid = mtm.tid]
    BY Zenon, <1>1, <2>3 DEF LeavesDurable, Typed, ThreadType, All
  <2> QED BY Zenon, <1>3, <2>1, <2>2, <2>3 DEF top_begin_async
<1>4. CASE top_end_async(t)
  <2>1. PICK used : th' = EndedAsync(t, used)
    BY <1>4, Zenon DEF top_end_async, EndedAsync
  <2>2. th'[t].pc = "atail" /\ \A u \in All \ {t} : Kept(u)
    BY Zenon, <1>1, <2>1, EndAsyncThreads
  <2> QED BY Zenon, <2>2, KeptSame DEF LeavesDurable, All
<1>5. CASE AsyncTail(t)
  <2>1. th[t].need <= durable
    BY <1>1, <1>5 DEF AsyncTail, Own, Awaited, Inside, Typed
  <2>2. CASE th' = [th EXCEPT ![t].pc = "sbegin", ![t].issue = "tail"]
    BY Zenon, <1>1, <2>2 DEF LeavesDurable, Typed, ThreadType, All
  <2>3. CASE th' = [th EXCEPT ![t] = AsyncReturned(t)]
    BY <1>1, <2>1, <2>3, ReturnsDurable, Zenon
  <2> QED BY Zenon, <1>5, <2>2, <2>3 DEF AsyncTail
<1>6. CASE top_begin_sync(t)
  BY Zenon, <1>1, <1>6, EnterSyncDurable DEF top_begin_sync
<1>7. ASSUME th[t].need <= durable, SyncReturns(t) PROVE LeavesDurable
  BY <1>1, <1>7, ReturnsDurable, Zenon DEF SyncReturns
<1>8. CASE FsyncBegin(t)
  <2>1. CASE NfsCommitted(t) /\ SyncReturns(t)
    BY Zenon, <1>7, <1>8, <2>1, NfsDurable DEF FsyncBegin
  <2>2. CASE Sleep(t, "done") \/ Sleep(t, "again")
    BY Zenon, <1>1, <2>2, SleepDurable DEF Asleep
  <2>3. CASE Join(t)
    BY Zenon, <1>1, <2>3, JoinType DEF Joined, Only, LeavesDurable, All
  <2> QED BY Zenon, <1>8, <2>1, <2>2, <2>3 DEF FsyncBegin
<1>9. CASE Wake(t)
  <2>1. CASE th[t].pc \in {"done", "end"} /\ SyncReturns(t)
    BY Zenon, <1>1, <1>7, <1>9, <2>1 DEF Wake, Own, Awaited
  <2>2. CASE EnterSync(t)
    BY Zenon, <1>1, <2>2, EnterSyncDurable
  <2>3. CASE Goto(t, "sync")
    BY Zenon, <1>2, <2>3 DEF Labels
  <2>4. CASE th[t].pc = "again" /\ NfsCommitted(t) /\ SyncReturns(t)
    BY Zenon, <1>7, <2>4, NfsDurable
  <2> QED BY Zenon, <1>9, <2>1, <2>2, <2>3, <2>4 DEF Wake
<1>10. CASE top_end_sync(t)
  <2>1. th'[t].pc # "out" /\ \A u \in All \ {t} : th'[u] = th[u]
    BY Zenon, <1>10, EndSyncThread DEF AwaitAsync, Only
  <2> QED BY Zenon, <2>1 DEF LeavesDurable, All
<1>11. CASE EndOfTransaction(t) \/ Commit(t)
  BY Zenon, <1>2, <1>11 DEF EndOfTransaction, Commit, Labels
<1>12. CASE Push(t)
  <2>1. th'[t].pc = "commit" /\ \A u \in All \ {t} : Kept(u)
    BY Zenon, <1>1, <1>12, PushThreads DEF Push, PushedThreads
  <2> QED BY Zenon, <2>1, KeptSame DEF LeavesDurable, All
<1>13. CASE Open(t)
  <2>1. \A u \in All \ {t} : th'[u].pc = th[u].pc
    BY ZenonT(30), <1>13, OpenThreads DEF Open, OpenedThreads
  <2>2. th[t].need <= durable
    BY <1>1, <1>13, MtmFields, ThreadFields DEF Open, IInv, Logged, Own, Awaited, PastPush
  <2> QED BY Zenon, <2>1, <2>2 DEF LeavesDurable, All
<1>14. CASE TaskEnd(t)
  <2>1. t \notin Threads /\ \A u \in All \ {t} : th'[u] = th[u]
    BY Zenon, <1>1, <1>14, IdleType DEF TaskEnd, Own, TaskOnly, Only
  <2> QED BY Zenon, <2>1 DEF LeavesDurable, All
<1>15. CASE lqfs_unsnarf(t)
  BY <1>1, <1>15, ReturnsDurable, ZenonT(30) DEF lqfs_unsnarf, Own, Awaited
<1> QED BY <1>3, <1>4, <1>5, <1>6, <1>8, <1>9, <1>10, <1>11, <1>12, <1>13, <1>14, <1>15,
           Zenon DEF Step

\* When sync, a write with FSYNC or an fsync returns, for any number of threads,
\* what it waited for is on the log device (sam_fsync_vn ends without its
\* synchronous part, and waits for nothing, when the file is offline or its
\* pages could not be written).
THEOREM ReturnsWhenDurable == Spec => SyncDurable
<1>1. IInv /\ [Next]_vars => [LeavesDurable]_vars
  <2> SUFFICES ASSUME IInv, Next PROVE LeavesDurable
    BY Zenon
  <2>1. ASSUME NEW t \in Threads, Start(t) \/ Unmount(t) PROVE LeavesDurable
    <3>1. th[t].pc = "out" /\ \A u \in Threads \ {t} : th'[u] = th[u]
      BY <2>1, Zenon DEF Start, Unmount, IInv, Typed, All
    <3> QED BY Zenon, <3>1 DEF LeavesDurable
  <2>2. ASSUME NEW t \in Tasks, TaskBegin(t) PROVE LeavesDurable
    <3>1. \A u \in All \ {t} : th'[u] = th[u]
      BY Zenon, <2>2 DEF TaskBegin, IInv, Typed, All
    <3> QED BY Zenon, <3>1, MobyAssumption DEF LeavesDurable, All
  <2> QED BY <2>1, <2>2, StepDurable, Zenon DEF Next
<1>2. IInv /\ [Next]_vars =>
        [\A t \in Threads :
            (th[t].pc # "out" /\ th'[t].pc = "out") => th[t].need <= durable]_vars
  BY Zenon, <1>1 DEF LeavesDurable
<1> QED BY <1>2, Invariance, PTL DEF Spec, SyncDurable
=============================================================================
