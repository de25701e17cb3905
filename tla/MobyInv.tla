------------------------------ MODULE MobyInv -------------------------------
(***************************************************************************)
(* The inductive invariant of Moby and how the counters follow a step of   *)
(* one thread.  The steps that enter the journal or return from it, those  *)
(* of tasks and of unmount, and those that end an operation keep it.       *)
(***************************************************************************)
EXTENDS Moby, FiniteSetTheorems, TLAPS

(***************************************************************************)
(* The inductive invariant                                                 *)
(***************************************************************************)

MtmType == [active : Nat, activesync : Nat, wantin : Nat,
            closed : SUBSET {"SYNC", "ASYNC", "FORCED"},
            seq : Nat, tid : Nat, committid : Nat,
            resv : Int, resv_wantin : Int, taskq_sync_count : Int]

Labels == Asleep \cup {"out", "abegin", "anext", "async", "atail", "fbegin",
                       "sbegin", "sync", "eotwait", "eot", "push", "commit",
                       "open", "tdone", "unsnarf"}

ThreadType == [pc : Labels,
               op : {"async", "write", "fsync", "nosync", "commit", "task", "flush",
                     "unmount"},
               size : Sizes \cup {0}, issue : {"none", "tail", "resv"},
               seq : Nat, tid : Nat, last_async_tid : Nat, need : Nat]

\* The types, but for the bounds on the reservations.
Typed ==
    /\ setup \in Setups /\ mtm \in MtmType /\ th \in [All -> ThreadType]
    /\ pending \in Nat /\ durable \in Nat /\ finished \in Nat /\ spent \in Int
    /\ mounted \in {"yes", "closing", "no"}

\* The threads in the transaction, the synchronous ones of them, those that
\* wait for the next one, and the tasks at work.
In == {t \in All : InTransaction(t)}
Sy == {t \in All : Synchronous(t)}
Wt == {t \in All : th[t].pc = "in" /\ th[t].seq = mtm.seq}
Tk == {t \in Tasks : th[t].pc # "out"}

Counted ==
    /\ mtm.active = Cardinality(In) /\ mtm.activesync = Cardinality(Sy)
    /\ mtm.wantin = Cardinality(Wt)
    /\ mtm.taskq_sync_count = pending + Cardinality(Tk)

\* The labels of an asynchronous operation, and of the committing thread.
Inside == {"abegin", "anext", "async", "atail"}
Closing == {"eotwait", "eot", "push"}
PastPush == {"commit", "open"}

\* One thread commits at a time.  No synchronous operation is in the
\* transaction meanwhile, and none enters; no operation at all enters before
\* the push.
Gate ==
    /\ \A t, u \in All :
          (th[t].pc \in Closing \cup PastPush /\ th[u].pc \in Closing \cup PastPush)
              => t = u
    /\ \A t \in All : th[t].pc \in Closing \cup PastPush =>
                          mtm.activesync = 0 /\ "SYNC" \in mtm.closed
    /\ \A t \in All : th[t].pc \in Closing => "ASYNC" \in mtm.closed
    /\ \A t \in All : th[t].pc = "push" => mtm.active = 0
    /\ "ASYNC" \in mtm.closed => \E t \in All : th[t].pc \in Closing

\* The last transaction on the log, before and after the push, and after the
\* commit.
Pushed == \E t \in All : th[t].pc \in PastPush

Logged ==
    /\ finished <= mtm.tid
    /\ ~Pushed => mtm.tid = mtm.committid /\ durable = mtm.tid - 1
    /\ \A t \in All : /\ th[t].pc = "commit" => /\ mtm.tid = mtm.committid + 1
                                                /\ durable = mtm.tid - 2
                      /\ th[t].pc = "open" => /\ mtm.tid = mtm.committid + 1
                                              /\ durable = mtm.tid - 1

\* mtm_seq has not gone back, and an operation is in the open transaction.
Numbered(t) ==
    /\ th[t].seq <= mtm.seq
    /\ InTransaction(t) => th[t].tid = mtm.tid

\* What the tasks do, and what is theirs alone.
TaskOnly(t) ==
    /\ t \in Tasks =>
        /\ th[t].size = 0 /\ th[t].issue = "none"
        /\ th[t].pc = "out" \/ th[t].op = "task"
        /\ th[t].pc \notin Inside \cup {"fbegin", "again", "unsnarf"}
    /\ t \in Threads => th[t].op # "task" /\ th[t].pc # "tdone"

\* Which operations an empty commit is issued for, and which reserve space.
Issued(t) ==
    /\ th[t].pc = "out" => th[t].issue = "none" /\ th[t].size = 0
    /\ th[t].pc \in Inside => /\ th[t].issue = "none"
                              /\ th[t].op \in {"async", "fsync", "nosync"}
    /\ th[t].issue = "tail" => th[t].op \in {"async", "fsync", "nosync"}
    /\ th[t].issue = "resv" => th[t].op = "write"
    /\ (th[t].issue = "none" /\ th[t].pc \notin Inside /\ th[t].op # "write")
           => th[t].size = 0

\* What a thread waits for is on the log, or in the transaction whose commit
\* it waits for.
Awaited(t) ==
    /\ th[t].last_async_tid <= mtm.tid /\ th[t].need <= mtm.tid
    /\ th[t].pc \in Inside \cup {"out"} => th[t].need = 0
    /\ th[t].pc \in {"done", "end"} /\ th[t].seq # mtm.seq =>
           th[t].need <= durable
    /\ th[t].pc \in {"done", "end"} /\ Pushed => th[t].need < mtm.tid
    /\ th[t].pc \in PastPush => th[t].need < mtm.tid
    /\ th[t].pc = "unsnarf" => th[t].need <= durable
    /\ th[t].pc \in {"fbegin", "again"} =>
           /\ th[t].op = "fsync" /\ th[t].issue = "none"
           /\ t \in setup.nfs => th[t].need = th[t].last_async_tid

\* Once unmount has begun, its thread waits for everything that has ended.
Unmounting(t) ==
    /\ (th[t].pc = "unsnarf" \/ (th[t].pc # "out" /\ th[t].op \in {"flush", "unmount"}))
           => mounted # "yes"
    /\ mounted # "yes" /\ t \in Threads /\ th[t].pc # "out" =>
           /\ th[t].op \in {"flush", "unmount"} /\ th[t].issue = "none"
           /\ th[t].need = finished
           /\ th[t].pc \notin Inside \cup {"fbegin", "again"}

Own(t) ==
    Numbered(t) /\ TaskOnly(t) /\ Issued(t) /\ Awaited(t) /\ Unmounting(t)

\* It is the only thread in the journal.
Alone ==
    mounted # "yes" =>
        \A t, u \in Threads : th[t].pc # "out" /\ th[u].pc # "out" => t = u

IInv == /\ Typed /\ Counted /\ Gate /\ Logged /\ Alone /\ UnmountClean
        /\ \A t \in All : Own(t)

(***************************************************************************)
(* Counting                                                                *)
(***************************************************************************)

One(p) == IF p THEN 1 ELSE 0

\* The sets of threads are finite.
LEMMA SetsFinite ==
    /\ IsFiniteSet(In) /\ IsFiniteSet(Sy) /\ IsFiniteSet(Wt) /\ IsFiniteSet(Tk)
    /\ IsFiniteSet(In)' /\ IsFiniteSet(Sy)' /\ IsFiniteSet(Wt)' /\ IsFiniteSet(Tk)'
<1>1. IsFiniteSet(All)
  BY MobyAssumption, FS_Union, Zenon DEF All
<1>2. \A S \in SUBSET All : IsFiniteSet(S)
  BY Zenon, <1>1, FS_Subset
<1>3. /\ In \subseteq All /\ Sy \subseteq All /\ Wt \subseteq All /\ Tk \subseteq All
      /\ In' \subseteq All /\ Sy' \subseteq All /\ Wt' \subseteq All /\ Tk' \subseteq All
  BY Zenon DEF In, Sy, Wt, Tk, All
<1> QED BY Zenon, <1>2, <1>3

\* A set that differs in one element has one element more or less.
LEMMA CountOne ==
    ASSUME NEW S, NEW T, NEW x, IsFiniteSet(S), S \ {x} = T \ {x}
    PROVE  Cardinality(T) = Cardinality(S) + One(x \in T) - One(x \in S)
<1> DEFINE R == S \ {x}
<1>1. IsFiniteSet(R) /\ Cardinality(R) = Cardinality(S) - One(x \in S)
  BY FS_RemoveElement, FS_CardinalityType DEF One
<1>2. CASE x \in T
  <2>1. T = R \cup {x} /\ x \notin R
    BY Zenon, <1>2
  <2>2. Cardinality(T) = Cardinality(R) + 1
    BY Zenon, <1>1, <2>1, FS_AddElement
  <2>3. Cardinality(S) \in Nat
    BY Zenon, FS_CardinalityType
  <2> QED BY <1>1, <1>2, <2>2, <2>3 DEF One
<1>3. CASE x \notin T
  <2>1. T = R
    BY Zenon, <1>3
  <2>2. Cardinality(S) \in Nat
    BY Zenon, FS_CardinalityType
  <2> QED BY <1>1, <1>3, <2>1, <2>2 DEF One
<1> QED BY Zenon, <1>2, <1>3

\* Thread u counts as before.
Same(u) ==
    /\ th'[u].seq = th[u].seq
    /\ \/ th'[u].pc = th[u].pc
       \/ {th[u].pc, th'[u].pc} \cap {"out", "async", "sync", "in"} = {}

\* A step of thread t while mtm_seq stays as it is.
LEMMA CountStep ==
    ASSUME NEW t \in All, mtm'.seq = mtm.seq, \A u \in All \ {t} : Same(u)
    PROVE  /\ Cardinality(In)' = Cardinality(In) + One(t \in In)' - One(t \in In)
           /\ Cardinality(Sy)' = Cardinality(Sy) + One(t \in Sy)' - One(t \in Sy)
           /\ Cardinality(Wt)' = Cardinality(Wt) + One(t \in Wt)' - One(t \in Wt)
           /\ Cardinality(Tk)' = Cardinality(Tk) + One(t \in Tk)' - One(t \in Tk)
<1>1. In \ {t} = In' \ {t}
  BY Zenon DEF In, InTransaction, Same
<1>2. Sy \ {t} = Sy' \ {t}
  BY Zenon DEF Sy, Synchronous, InTransaction, Same
<1>3. Wt \ {t} = Wt' \ {t}
  BY Zenon DEF Wt, Same
<1>4. Tk \ {t} = Tk' \ {t}
  BY Zenon DEF Tk, Same, All
<1> QED BY Zenon, <1>1, <1>2, <1>3, <1>4, SetsFinite, CountOne DEF One

(***************************************************************************)
(* Steps of a thread that does not commit                                  *)
(***************************************************************************)

Only(t) == th' \in [All -> ThreadType] /\ \A u \in All \ {t} : th'[u] = th[u]

\* Only thread t moves, outside the commit, and the gate stays as it is.
GateStep(t) ==
    /\ Only(t) /\ UNCHANGED <<setup, durable, finished>>
    /\ mtm'.tid = mtm.tid /\ mtm'.committid = mtm.committid
    /\ mtm'.seq = mtm.seq
    /\ th[t].pc \notin Closing \cup PastPush
    /\ th'[t].pc \notin Closing \cup PastPush
    /\ mtm'.closed \ {"FORCED"} = mtm.closed \ {"FORCED"}
    /\ mtm'.active = mtm.active \/ LockFree
    /\ mtm'.activesync = mtm.activesync \/ "SYNC" \notin mtm.closed

\* In addition, unmount neither begins nor ends.
QuietStep(t) ==
    /\ GateStep(t) /\ UNCHANGED mounted
    /\ th[t].pc # "out" \/ mounted = "yes" \/ t \in Tasks

\* Nothing is left to do after unmount.
LEMMA Busy ==
    ASSUME IInv, NEW t \in All, th[t].pc # "out" PROVE mounted # "no"
BY Zenon DEF IInv, UnmountClean

\* Such a step keeps what the invariant says of the gate and of the log.
LEMMA GateKeeps ==
    ASSUME IInv, NEW t \in All, GateStep(t) PROVE Gate' /\ Logged' /\ (Pushed' <=> Pushed)
<1>1. \A u \in All : th[u].pc \in Closing \cup PastPush \/ th'[u].pc \in Closing \cup PastPush
                     => u # t /\ th'[u] = th[u]
  BY Zenon DEF GateStep, Only
<1>2. \A x \in {"SYNC", "ASYNC"} : x \in mtm'.closed <=> x \in mtm.closed
  BY Zenon DEF GateStep
<1>3. Gate'
  <2>1. \A u, v \in All :
          (th'[u].pc \in Closing \cup PastPush /\ th'[v].pc \in Closing \cup PastPush)
              => u = v
    BY Zenon, <1>1 DEF IInv, Gate
  <2>2. \A u \in All : th'[u].pc \in Closing \cup PastPush =>
                           mtm'.activesync = 0 /\ "SYNC" \in mtm'.closed
    BY Zenon, <1>1, <1>2 DEF IInv, Gate, GateStep
  <2>3. \A u \in All : th'[u].pc \in Closing => "ASYNC" \in mtm'.closed
    BY Zenon, <1>1, <1>2 DEF IInv, Gate
  <2>4. \A u \in All : th'[u].pc = "push" => mtm'.active = 0
    BY Zenon, <1>1 DEF IInv, Gate, GateStep, LockFree, Closing
  <2>5. "ASYNC" \in mtm'.closed => \E u \in All : th'[u].pc \in Closing
    BY Zenon, <1>1, <1>2 DEF IInv, Gate
  <2> QED BY Zenon, <2>1, <2>2, <2>3, <2>4, <2>5 DEF Gate
<1>4. Pushed' <=> Pushed
  BY Zenon, <1>1 DEF Pushed
<1>5. Logged'
  BY Zenon, <1>1, <1>4 DEF IInv, Logged, GateStep, PastPush
<1> QED BY Zenon, <1>3, <1>4, <1>5

\* Such a step keeps the invariant if it counts right and t is right.
LEMMA Quiet ==
    ASSUME IInv, NEW t \in All, QuietStep(t), mounted # "no",
           Typed', Counted', Own(t)'
    PROVE  IInv'
<1>1. Gate' /\ Logged' /\ (Pushed' <=> Pushed)
  BY Zenon, GateKeeps DEF QuietStep
<1>2. ASSUME NEW u \in All \ {t} PROVE Own(u)'
  <2>1. th'[u] = th[u] /\ Own(u)
    BY Zenon DEF QuietStep, GateStep, Only, IInv
  <2>2. Numbered(u)' /\ TaskOnly(u)' /\ Issued(u)' /\ Unmounting(u)'
    BY Zenon, <2>1 DEF Own, Numbered, InTransaction, TaskOnly, Issued, Unmounting, QuietStep, GateStep
  <2>3. Awaited(u)'
    BY Zenon, <2>1, <1>1 DEF Own, Awaited, QuietStep, GateStep
  <2> QED BY Zenon, <2>2, <2>3 DEF Own
<1>3. Alone'
  BY MobyAssumption DEF IInv, Alone, QuietStep, GateStep, Only, All
<1>4. UnmountClean'
  BY Zenon DEF QuietStep, GateStep, UnmountClean
<1> QED BY Zenon, <1>1, <1>2, <1>3, <1>4 DEF IInv

\* The counters follow the step of t.
Recounted(t) ==
    /\ mtm'.active = mtm.active + One(t \in In)' - One(t \in In)
    /\ mtm'.activesync = mtm.activesync + One(t \in Sy)' - One(t \in Sy)
    /\ mtm'.wantin = mtm.wantin + One(t \in Wt)' - One(t \in Wt)
    /\ mtm'.taskq_sync_count - pending' =
           mtm.taskq_sync_count - pending + One(t \in Tk)' - One(t \in Tk)

\* The counters agree after a step that they follow.
LEMMA Recount ==
    ASSUME IInv, NEW t \in All, mtm'.seq = mtm.seq, \A u \in All \ {t} : Same(u),
           Recounted(t), Typed'
    PROVE  Counted'
<1>1. /\ Cardinality(In)' = Cardinality(In) + One(t \in In)' - One(t \in In)
      /\ Cardinality(Sy)' = Cardinality(Sy) + One(t \in Sy)' - One(t \in Sy)
      /\ Cardinality(Wt)' = Cardinality(Wt) + One(t \in Wt)' - One(t \in Wt)
      /\ Cardinality(Tk)' = Cardinality(Tk) + One(t \in Tk)' - One(t \in Tk)
  BY Zenon, CountStep
<1>2. Cardinality(Tk) \in Int
  BY SetsFinite, FS_CardinalityType
<1>3. /\ One(t \in Tk) \in Int /\ One(t \in Tk)' \in Int
      /\ pending \in Int /\ pending' \in Int
      /\ mtm.taskq_sync_count \in Int /\ mtm'.taskq_sync_count \in Int
  BY DEF IInv, Typed, MtmType, One
<1> QED BY <1>1, <1>2, <1>3 DEF IInv, Counted, Recounted

\* A step of one thread outside the commit keeps the invariant if the counters
\* follow it and the thread is right afterwards.
LEMMA QuietKeeps ==
    ASSUME IInv, NEW t \in All, QuietStep(t), mounted # "no", mtm' \in MtmType,
           pending' \in Nat, spent' = spent, Recounted(t), Own(t)'
    PROVE  IInv'
<1>1. Typed'
  BY Zenon DEF IInv, Typed, QuietStep, GateStep, Only
<1>2. Counted'
  BY Zenon, <1>1, Recount DEF QuietStep, GateStep, Only, Same
<1> QED BY Zenon, <1>1, <1>2, Quiet

\* Sizes are numbers.
LEMMA SizesNat == ASSUME Typed PROVE Sizes \subseteq Nat /\ MaxResv \in Nat
BY MobyAssumption DEF Typed, SetupType, MaxResv

\* An operation begins.
LEMMA StartKeeps == ASSUME IInv, NEW t \in Threads, Start(t) PROVE IInv'
<1>1. t \in All /\ mounted = "yes" /\ th[t].pc = "out" /\ th[t] \in ThreadType /\ Own(t)
      /\ mtm' = mtm /\ pending' = pending
      /\ UNCHANGED <<setup, durable, finished, mounted, spent>>
  BY Zenon DEF IInv, Typed, Start, All
<1>2. /\ Only(t)
      /\ th'[t].pc \in {"abegin", "sbegin"} /\ th'[t].issue = th[t].issue
      /\ th'[t].seq = th[t].seq /\ th'[t].last_async_tid = th[t].last_async_tid
      /\ \/ th'[t].pc = "abegin" /\ th'[t].op \in {"async", "fsync", "nosync"} /\ th'[t].need = th[t].need
         \/ th'[t].pc = "sbegin" /\ th'[t].op = "write" /\ th'[t].need = th[t].need
         \/ /\ th'[t].pc = "sbegin" /\ th'[t].op = "commit"
            /\ th'[t].need = finished /\ th'[t].size = 0
  <2>1. ASSUME NEW op \in {"async", "fsync", "nosync"}, NEW z \in Sizes,
               th' = [th EXCEPT ![t].pc = "abegin", ![t].op = op, ![t].size = z]
        PROVE  <1>2!:
    BY <1>1, <2>1, Zenon DEF Only, ThreadType, Labels, IInv, Typed
  <2>2. ASSUME NEW op \in {"write"}, NEW z \in Sizes,
               th' = [th EXCEPT ![t].pc = "sbegin", ![t].op = op, ![t].size = z]
        PROVE  <1>2!:
    BY <1>1, <2>2, Zenon DEF Only, ThreadType, Labels, IInv, Typed
  <2>3. ASSUME th' = [th EXCEPT ![t].pc = "sbegin", ![t].op = "commit",
                                ![t].size = 0, ![t].need = finished]
        PROVE  <1>2!:
    BY <1>1, <2>3, ZenonT(30) DEF Only, ThreadType, Labels, IInv, Typed
  <2> QED BY <2>1, <2>2, <2>3, Zenon DEF Start
<1>3. QuietStep(t)
  BY Zenon, <1>1, <1>2 DEF QuietStep, GateStep, Closing, PastPush
<1>4. Recounted(t)
  BY <1>1, <1>2, MobyAssumption DEF Recounted, In, Sy, Wt, Tk, InTransaction,
     Synchronous, One, IInv, Typed, MtmType
<1>5. Own(t)'
  <2>1. Numbered(t)' /\ TaskOnly(t)' /\ Issued(t)' /\ Unmounting(t)'
    BY Zenon, <1>1, <1>2, MobyAssumption DEF Own, Numbered, InTransaction, TaskOnly, Issued, Unmounting, Inside
  <2>2. Awaited(t)'
    BY Zenon, <1>1, <1>2 DEF IInv, Own, Awaited, Logged, PastPush, Inside
  <2> QED BY Zenon, <2>1, <2>2 DEF Own
<1>6. mtm \in MtmType /\ pending \in Nat
  BY Zenon DEF IInv, Typed
<1> QED BY Zenon, <1>1, <1>3, <1>4, <1>5, <1>6, QuietKeeps

\* Thread t keeps what it is doing.
Rest(t) ==
    /\ th'[t].op = th[t].op /\ th'[t].size = th[t].size /\ th'[t].need = th[t].need
    /\ th'[t].last_async_tid = th[t].last_async_tid

\* The fields of the counters and of a thread have their types.
LEMMA MtmFields ==
    ASSUME Typed
    PROVE  /\ mtm.active \in Nat /\ mtm.activesync \in Nat /\ mtm.wantin \in Nat
           /\ mtm.closed \in SUBSET {"SYNC", "ASYNC", "FORCED"}
           /\ mtm.seq \in Nat /\ mtm.tid \in Nat /\ mtm.committid \in Nat
           /\ mtm.resv \in Int /\ mtm.resv_wantin \in Int
           /\ mtm.taskq_sync_count \in Int
BY Zenon DEF Typed, MtmType

\* A step that gives thread t a new state of the right type.
LEMMA OnlyType ==
    ASSUME Typed, NEW t \in All, NEW r \in ThreadType, th' = [th EXCEPT ![t] = r]
    PROVE  Only(t) /\ th'[t] = r
BY Zenon DEF Typed, Only

\* Thread t goes to another label.
LEMMA GotoType ==
    ASSUME Typed, NEW t \in All, NEW p \in Labels, Goto(t, p)
    PROVE  /\ Only(t) /\ Rest(t) /\ th'[t].issue = th[t].issue
           /\ th'[t].pc = p /\ th'[t].seq = th[t].seq /\ th'[t].tid = th[t].tid
BY Zenon DEF Typed, ThreadType, Goto, Only, Rest

\* Thread t goes to sleep on mtm_cv_commit.
LEMMA SleepType ==
    ASSUME Typed, NEW t \in All, NEW p \in Asleep, Sleep(t, p)
    PROVE  /\ Only(t) /\ Rest(t) /\ th'[t].issue = th[t].issue
           /\ th'[t].pc = p /\ th'[t].seq = mtm.seq
<1> DEFINE r == [th[t] EXCEPT !.pc = p, !.seq = mtm.seq]
<1>1. th[t] \in ThreadType /\ mtm.seq \in Nat /\ p \in Labels
  BY Zenon, MtmFields DEF Typed, Labels
<1>2. r \in ThreadType
  BY <1>1, Zenon DEF ThreadType
<1>3. th' = [th EXCEPT ![t] = r]
  BY Zenon DEF Sleep
<1>4. Only(t) /\ th'[t] = r
  BY <1>2, <1>3, OnlyType, Zenon
<1> QED BY Zenon, <1>1, <1>4 DEF Rest, ThreadType

Joined(t) ==
    /\ Only(t) /\ Rest(t) /\ th'[t].issue = th[t].issue
    /\ th'[t].pc = "sync" /\ th'[t].seq = th[t].seq /\ th'[t].tid = mtm.tid
    /\ mtm' \in MtmType
    /\ mtm'.active = mtm.active + 1 /\ mtm'.activesync = mtm.activesync + 1
    /\ mtm'.wantin = mtm.wantin /\ mtm'.closed = mtm.closed
    /\ mtm'.tid = mtm.tid /\ mtm'.committid = mtm.committid
    /\ mtm'.seq = mtm.seq /\ mtm'.taskq_sync_count = mtm.taskq_sync_count

\* Thread t joins the open transaction.
LEMMA JoinType == ASSUME Typed, NEW t \in All, Join(t) PROVE Joined(t)
<1> DEFINE r == [th[t] EXCEPT !.pc = "sync", !.tid = mtm.tid]
<1>1. /\ mtm.active + 1 \in Nat /\ mtm.activesync + 1 \in Nat
      /\ mtm.resv + Size(t) \in Int /\ mtm.tid \in Nat /\ th[t] \in ThreadType
  BY SizesNat, MtmFields DEF Size, Typed, ThreadType
<1>2. mtm' = [mtm EXCEPT !.active = @ + 1, !.activesync = @ + 1, !.resv = @ + Size(t)]
  BY Zenon DEF Join
<1>3. mtm' \in MtmType
  BY <1>1, <1>2, Zenon DEF Typed, MtmType
<1>4. r \in ThreadType
  BY <1>1, Zenon DEF ThreadType, Labels
<1>5. th' = [th EXCEPT ![t] = r]
  BY Zenon DEF Join
<1>6. Only(t) /\ th'[t] = r
  BY <1>4, <1>5, OnlyType, Zenon
<1>7. /\ Rest(t) /\ th'[t].issue = th[t].issue
      /\ th'[t].pc = "sync" /\ th'[t].seq = th[t].seq /\ th'[t].tid = mtm.tid
  BY <1>6 DEF Typed, ThreadType, Rest
<1> QED BY Zenon, <1>2, <1>3, <1>6, <1>7 DEF Joined, Typed, MtmType

\* top_begin_async waits, dispatches a task or enters.
LEMMA BeginAsyncKeeps == ASSUME IInv, NEW t \in All, top_begin_async(t) PROVE IInv'
<1>1. /\ Typed /\ th[t].pc = "abegin" /\ LockFree /\ Own(t) /\ mounted # "no"
      /\ UNCHANGED <<setup, mounted, durable, finished, spent>>
  BY Zenon, Busy DEF IInv, top_begin_async
<1>2. CASE Goto(t, "anext") /\ UNCHANGED <<mtm, pending>>
  <2>1. Only(t) /\ Rest(t) /\ th'[t].issue = th[t].issue
        /\ th'[t].pc = "anext" /\ th'[t].seq = th[t].seq /\ th'[t].tid = th[t].tid
    BY Zenon, <1>1, <1>2, GotoType DEF Labels
  <2>2. mtm \in MtmType /\ pending \in Nat
    BY Zenon, <1>1 DEF Typed
  <2>3. QuietStep(t)
    BY Zenon, <1>1, <1>2, <2>1 DEF QuietStep, GateStep, Closing, PastPush
  <2>4. Recounted(t)
    BY <1>1, <1>2, <2>1 DEF Recounted, In, Sy, Wt, Tk, InTransaction, Synchronous, One,
       Typed, MtmType
  <2>5. Own(t)'
    BY Zenon, <1>1, <1>2, <2>1 DEF Own, Numbered, InTransaction, TaskOnly, Issued, Unmounting,
       Awaited, Inside, Rest, PastPush
  <2> QED BY Zenon, <1>1, <1>2, <2>2, <2>3, <2>4, <2>5, QuietKeeps
<1>3. CASE /\ mtm' = [mtm EXCEPT !.closed = @ \cup {"FORCED"}, !.taskq_sync_count = @ + 1]
           /\ pending' = pending + 1 /\ UNCHANGED th
  <2>1. /\ mtm' \in MtmType /\ mtm'.active = mtm.active /\ mtm'.activesync = mtm.activesync
        /\ mtm'.wantin = mtm.wantin /\ mtm'.closed = mtm.closed \cup {"FORCED"}
        /\ mtm'.tid = mtm.tid /\ mtm'.committid = mtm.committid
        /\ mtm'.seq = mtm.seq /\ mtm'.taskq_sync_count = mtm.taskq_sync_count + 1
    <3>1. /\ mtm.closed \cup {"FORCED"} \in SUBSET {"SYNC", "ASYNC", "FORCED"}
          /\ mtm.taskq_sync_count + 1 \in Int
      BY <1>1, MtmFields
    <3> QED BY <1>1, <1>3, <3>1, Zenon DEF Typed, MtmType
  <2>2. pending' \in Nat
    BY <1>1, <1>3 DEF Typed
  <2>3. QuietStep(t)
    BY Zenon, <1>1, <1>3, <2>1 DEF QuietStep, GateStep, Only, Closing, PastPush, Typed
  <2>4. Recounted(t)
    BY <1>1, <1>3, <2>1 DEF Recounted, In, Sy, Wt, Tk, InTransaction, Synchronous, One,
       Typed, MtmType
  <2>5. Own(t)'
    BY Zenon, <1>1, <1>3, <2>1 DEF Own, Numbered, InTransaction, TaskOnly, Issued, Unmounting,
       Awaited, Inside, PastPush
  <2> QED BY Zenon, <1>1, <2>1, <2>2, <2>3, <2>4, <2>5, QuietKeeps
<1>4. CASE /\ mtm' = [mtm EXCEPT !.active = @ + 1, !.resv = @ + th[t].size]
           /\ th' = [th EXCEPT ![t].pc = "async", ![t].tid = mtm.tid]
           /\ UNCHANGED pending
  <2>1. /\ mtm' \in MtmType /\ mtm'.active = mtm.active + 1
        /\ mtm'.activesync = mtm.activesync
        /\ mtm'.wantin = mtm.wantin /\ mtm'.closed = mtm.closed
        /\ mtm'.tid = mtm.tid /\ mtm'.committid = mtm.committid
        /\ mtm'.seq = mtm.seq /\ mtm'.taskq_sync_count = mtm.taskq_sync_count
    <3>1. mtm.active + 1 \in Nat /\ mtm.resv + th[t].size \in Int
      BY <1>1, SizesNat, MtmFields DEF Typed, ThreadType
    <3> QED BY <1>1, <1>4, <3>1, Zenon DEF Typed, MtmType
  <2>2. Only(t) /\ Rest(t) /\ th'[t].issue = th[t].issue
        /\ th'[t].pc = "async" /\ th'[t].seq = th[t].seq /\ th'[t].tid = mtm.tid
    <3> DEFINE r == [th[t] EXCEPT !.pc = "async", !.tid = mtm.tid]
    <3>1. th[t] \in ThreadType /\ mtm.tid \in Nat
      BY Zenon, <1>1, MtmFields DEF Typed
    <3>2. r \in ThreadType
      BY <3>1, Zenon DEF ThreadType, Labels
    <3>3. th' = [th EXCEPT ![t] = r]
      BY <1>4, Zenon
    <3>4. Only(t) /\ th'[t] = r
      BY <1>1, <3>2, <3>3, OnlyType, Zenon
    <3> QED BY Zenon, <3>1, <3>4 DEF ThreadType, Rest
  <2>3. pending' \in Nat
    BY Zenon, <1>1, <1>4 DEF Typed
  <2>4. QuietStep(t)
    BY Zenon, <1>1, <1>4, <2>1, <2>2 DEF QuietStep, GateStep, Closing, PastPush
  <2>5. Recounted(t)
    BY <1>1, <1>4, <2>1, <2>2 DEF Recounted, In, Sy, Wt, Tk, InTransaction, Synchronous, One,
       Typed, MtmType
  <2>6. Own(t)'
    BY Zenon, <1>1, <2>1, <2>2 DEF Own, Numbered, InTransaction, TaskOnly, Issued, Unmounting,
       Awaited, Inside, Rest, PastPush
  <2> QED BY Zenon, <1>1, <2>1, <2>3, <2>4, <2>5, <2>6, QuietKeeps
<1> QED BY Zenon, <1>2, <1>3, <1>4 DEF top_begin_async

(***************************************************************************)
(* Entering a synchronous operation                                        *)
(***************************************************************************)

Entering == {"sbegin", "full", "fbegin", "again"}

\* A commit that is pending has not pushed the open transaction yet.
LEMMA PendingNotPushed == ASSUME IInv, CommitPending PROVE ~Pushed
BY DEF IInv, Typed, MtmType, Gate, CommitPending, Pushed, Closing, PastPush

\* The thread sleeps: for a pending commit, for space, or to look again.
LEMMA SleepKeeps ==
    ASSUME IInv, NEW t \in All, th[t].pc \in Entering,
           NEW p \in {"done", "full", "again"}, Sleep(t, p),
           p = "done" => CommitPending, p = "again" => th[t].pc = "fbegin",
           UNCHANGED <<setup, mtm, pending, mounted, durable, finished, spent>>
    PROVE  IInv'
<1>1. Typed /\ Own(t) /\ mounted # "no" /\ mtm \in MtmType /\ pending \in Nat
  BY Zenon, Busy DEF IInv, Typed, Entering
<1>2. /\ Only(t) /\ Rest(t) /\ th'[t].issue = th[t].issue
      /\ th'[t].pc = p /\ th'[t].seq = mtm.seq
  BY Zenon, <1>1, SleepType DEF Asleep
<1>3. QuietStep(t)
  BY Zenon, <1>1, <1>2 DEF QuietStep, GateStep, Entering, Closing, PastPush
<1>4. Pushed' <=> Pushed
  BY Zenon, <1>3, GateKeeps DEF QuietStep
<1>5. Recounted(t)
  BY <1>1, <1>2 DEF Recounted, In, Sy, Wt, Tk, InTransaction, Synchronous, One,
     MtmType, Entering
<1>6. Own(t)'
  <2>1. Numbered(t)' /\ TaskOnly(t)' /\ Issued(t)' /\ Unmounting(t)'
    BY <1>1, <1>2 DEF Own, Numbered, InTransaction, TaskOnly, Issued, Unmounting, Inside,
       Rest, Entering, MtmType
  <2>2. Awaited(t)'
    BY Zenon, <1>1, <1>2, <1>4, PendingNotPushed DEF Own, Awaited, Inside, Rest, PastPush, Entering
  <2> QED BY Zenon, <2>1, <2>2 DEF Own
<1> QED BY Zenon, <1>1, <1>3, <1>5, <1>6, QuietKeeps

\* The thread enters the open transaction, which no commit has closed.
LEMMA JoinKeeps ==
    ASSUME IInv, NEW t \in All, th[t].pc \in Entering, LockFree,
           "SYNC" \notin mtm.closed, Join(t),
           UNCHANGED <<setup, pending, mounted, durable, finished, spent>>
    PROVE  IInv'
<1>1. Typed /\ Own(t) /\ mounted # "no" /\ mtm \in MtmType /\ pending \in Nat
  BY Zenon, Busy DEF IInv, Typed, Entering
<1>2. Joined(t)
  BY Zenon, <1>1, JoinType
<1>3. QuietStep(t)
  BY Zenon, <1>1, <1>2 DEF Joined, QuietStep, GateStep, Entering, Closing, PastPush
<1>4. Recounted(t)
  BY <1>1, <1>2 DEF Joined, Recounted, In, Sy, Wt, Tk, InTransaction, Synchronous, One,
     MtmType, Entering
<1>5. Own(t)'
  BY <1>1, <1>2 DEF Joined, Own, Numbered, InTransaction, TaskOnly, Issued, Unmounting, Awaited,
     Inside, Rest, PastPush, Entering
<1> QED BY Zenon, <1>1, <1>2, <1>3, <1>4, <1>5, QuietKeeps DEF Joined

\* The thread is counted in mtm_wantin.
LEMMA WantinKeeps ==
    ASSUME IInv, NEW t \in All, th[t].pc \in Entering, LockFree, Sleep(t, "in"),
           mtm' = [mtm EXCEPT !.wantin = @ + 1, !.resv_wantin = @ + Size(t)],
           UNCHANGED <<setup, pending, mounted, durable, finished, spent>>
    PROVE  IInv'
<1>1. Typed /\ Own(t) /\ mounted # "no" /\ mtm \in MtmType /\ pending \in Nat
  BY Zenon, Busy DEF IInv, Typed, Entering
<1>2. /\ Only(t) /\ Rest(t) /\ th'[t].issue = th[t].issue
      /\ th'[t].pc = "in" /\ th'[t].seq = mtm.seq
  BY Zenon, <1>1, SleepType DEF Asleep
<1>3. mtm.wantin + 1 \in Nat /\ mtm.resv_wantin + Size(t) \in Int
  BY <1>1, MtmFields, SizesNat DEF Size, Typed, ThreadType
<1>4. /\ mtm' \in MtmType /\ mtm'.active = mtm.active /\ mtm'.activesync = mtm.activesync
      /\ mtm'.wantin = mtm.wantin + 1 /\ mtm'.closed = mtm.closed
      /\ mtm'.tid = mtm.tid /\ mtm'.committid = mtm.committid
      /\ mtm'.seq = mtm.seq /\ mtm'.taskq_sync_count = mtm.taskq_sync_count
  BY <1>1, <1>3, Zenon DEF MtmType
<1>5. QuietStep(t)
  BY Zenon, <1>1, <1>2, <1>4 DEF QuietStep, GateStep, Entering, Closing, PastPush
<1>6. Recounted(t)
  BY <1>1, <1>2, <1>4 DEF Recounted, In, Sy, Wt, Tk, InTransaction, Synchronous, One,
     MtmType, Entering
<1>7. Own(t)'
  BY <1>1, <1>2, <1>4 DEF Own, Numbered, InTransaction, TaskOnly, Issued, Unmounting,
     Awaited, Inside, Rest, PastPush, Entering, MtmType
<1> QED BY Zenon, <1>1, <1>4, <1>5, <1>6, <1>7, QuietKeeps

\* An empty commit is issued by thread t, for its own sake or because the log
\* is heavily used.
LEMMA IssueKeeps ==
    ASSUME IInv, NEW t \in All, NEW i \in {"tail", "resv"},
           \/ i = "tail" /\ th[t].pc = "atail"
           \/ i = "resv" /\ th[t].pc \in Entering /\ SyncFull(t),
           th' = [th EXCEPT ![t].pc = "sbegin", ![t].issue = i],
           UNCHANGED <<setup, mtm, pending, mounted, durable, finished, spent>>
    PROVE  IInv'
<1>1. /\ Typed /\ Own(t) /\ mounted # "no" /\ mtm \in MtmType /\ pending \in Nat
      /\ th[t] \in ThreadType
  BY Zenon, Busy DEF IInv, Typed, Entering
<1>2. /\ Only(t) /\ Rest(t) /\ th'[t].issue = i /\ th'[t].pc = "sbegin"
      /\ th'[t].seq = th[t].seq
  BY <1>1, ZenonT(30) DEF Typed, ThreadType, Labels, Only, Rest
<1>3. /\ i = "tail" => th[t].op \in {"async", "fsync", "nosync"} /\ t \in Threads
      /\ i = "resv" => th[t].op = "write" /\ t \in Threads
      /\ mounted = "yes"
  BY <1>1 DEF Own, Issued, TaskOnly, Unmounting, SyncFull, Size, Inside, Entering, Typed,
     All
<1>4. QuietStep(t)
  BY Zenon, <1>1, <1>2 DEF QuietStep, GateStep, Entering, Closing, PastPush
<1>5. Recounted(t)
  BY <1>1, <1>2 DEF Recounted, In, Sy, Wt, Tk, InTransaction, Synchronous, One,
     MtmType, Entering
<1>6. Own(t)'
  BY Zenon, <1>1, <1>2, <1>3, MobyAssumption DEF Own, Numbered, InTransaction, TaskOnly, Issued,
     Unmounting, Awaited, Inside, Rest, PastPush, Entering
<1> QED BY Zenon, <1>1, <1>4, <1>5, <1>6, QuietKeeps

\* All that top_begin_sync does from the label retry on.
LEMMA EnterSyncKeeps ==
    ASSUME IInv, NEW t \in All, th[t].pc \in Entering, LockFree, EnterSync(t),
           UNCHANGED <<setup, pending, mounted, durable, finished, spent>>
    PROVE  IInv'
<1>1. CASE "SYNC" \in mtm.closed /\ EnterNext(t)
  BY <1>1, SleepKeeps, WantinKeeps, Zenon DEF EnterNext
<1>2. CASE "SYNC" \notin mtm.closed /\ EnterCurrent(t)
  BY Zenon, <1>2, SleepKeeps, IssueKeeps, JoinKeeps DEF EnterCurrent
<1> QED BY Zenon, <1>1, <1>2 DEF EnterSync

\* top_begin_sync.
LEMMA BeginSyncKeeps == ASSUME IInv, NEW t \in All, top_begin_sync(t) PROVE IInv'
BY Zenon, EnterSyncKeeps DEF top_begin_sync, Entering

(***************************************************************************)
(* Returning from an operation                                             *)
(***************************************************************************)

\* What becomes of thread t when top_end_async, top_begin_sync or top_end_sync
\* returns.
Returned(t, r) ==
    /\ r \in ThreadType /\ r.last_async_tid = th[t].last_async_tid
    /\ \/ /\ r.pc = "out" /\ th[t].op # "task"
          /\ r.op = "async" /\ r.size = 0 /\ r.issue = "none" /\ r.seq = 0 /\ r.need = 0
       \/ /\ r.pc = "fbegin" /\ th[t].op = "fsync"
          /\ r.op = "fsync" /\ r.size = 0 /\ r.issue = "none" /\ r.seq = th[t].seq
          /\ r.need = Needed(t)
       \/ /\ r.pc = "sbegin" /\ th[t].issue = "resv"
          /\ r.op = th[t].op /\ r.size = th[t].size /\ r.issue = "none"
          /\ r.seq = th[t].seq /\ r.need = th[t].need
       \/ /\ r.pc \in {"sbegin", "unsnarf"} /\ th[t].issue = "none"
          /\ th[t].op \in {"flush", "unmount"} /\ r.op = "unmount"
          /\ r.size = th[t].size /\ r.issue = "none"
          /\ r.seq = th[t].seq /\ r.need = th[t].need
       \/ /\ r.pc = "tdone" /\ th[t].issue = "none" /\ th[t].op = "task" /\ r.op = "task"
          /\ r.size = th[t].size /\ r.issue = "none"
          /\ r.seq = th[t].seq /\ r.need = th[t].need

\* The fields of a thread have their types.
LEMMA ThreadFields ==
    ASSUME Typed, NEW t \in All
    PROVE  /\ th[t] \in ThreadType
           /\ th[t].pc \in Labels
           /\ th[t].op \in {"async", "write", "fsync", "nosync", "commit", "task", "flush",
                            "unmount"}
           /\ th[t].size \in Sizes \cup {0} /\ th[t].issue \in {"none", "tail", "resv"}
           /\ th[t].seq \in Nat /\ th[t].tid \in Nat /\ th[t].last_async_tid \in Nat
           /\ th[t].need \in Nat
BY Zenon DEF Typed, ThreadType

\* The thread leaves the journal.
LEMMA IdleReturned ==
    ASSUME Typed, NEW t \in All, th[t].op # "task" PROVE Returned(t, Idle(t))
<1>1. th[t] \in ThreadType
  BY Zenon, ThreadFields
<1>2. Idle(t) \in ThreadType
  BY <1>1, Zenon DEF Idle, ThreadType, Labels
<1> QED BY Zenon, <1>1, <1>2 DEF Returned, Idle, ThreadType

\* The asynchronous part of an operation returns.
LEMMA AsyncReturnedType ==
    ASSUME Typed, NEW t \in All, th[t].op # "task" PROVE Returned(t, AsyncReturned(t))
<1>1. CASE th[t].op = "fsync"
  <2> DEFINE r == [th[t] EXCEPT !.pc = "fbegin", !.size = 0, !.issue = "none",
                                !.need = Needed(t)]
  <2>1. th[t] \in ThreadType /\ Needed(t) \in Nat
    BY Zenon, ThreadFields DEF Needed, Typed
  <2>2. r \in ThreadType
    BY <2>1, Zenon DEF ThreadType, Labels
  <2>3. AsyncReturned(t) = r
    BY Zenon, <1>1 DEF AsyncReturned
  <2>4. Returned(t, r)
    BY Zenon, <1>1, <2>1, <2>2 DEF Returned, ThreadType
  <2> QED BY Zenon, <2>3, <2>4
<1>2. CASE th[t].op # "fsync"
  BY Zenon, <1>2, IdleReturned DEF AsyncReturned
<1> QED BY Zenon, <1>1, <1>2

\* top_begin_sync or top_end_sync returns, whoever called it.
LEMMA SyncReturnedType ==
    ASSUME Typed, NEW t \in All, Issued(t) PROVE Returned(t, SyncReturned(t))
<1>1. th[t] \in ThreadType /\ th[t].issue \in {"none", "tail", "resv"}
  BY Zenon, ThreadFields
<1>2. CASE th[t].issue = "tail"
  <2>1. th[t].op # "task" /\ th[t].op # "unmount" /\ th[t].op # "flush"
    BY Zenon, <1>2 DEF Issued
  <2>2. SyncReturned(t) = AsyncReturned(t)
    BY Zenon, <1>2, <2>1 DEF SyncReturned
  <2> QED BY Zenon, <2>1, <2>2, AsyncReturnedType
<1>3. CASE th[t].issue = "resv"
  <2> DEFINE r == [th[t] EXCEPT !.pc = "sbegin", !.issue = "none"]
  <2>1. th[t].op = "write"
    BY Zenon, <1>3 DEF Issued
  <2>2. SyncReturned(t) = r
    BY Zenon, <1>3, <2>1 DEF SyncReturned
  <2>3. r \in ThreadType
    BY <1>1, Zenon DEF ThreadType, Labels
  <2>4. Returned(t, r)
    BY Zenon, <1>1, <1>3, <2>1, <2>3 DEF Returned, ThreadType
  <2> QED BY Zenon, <2>2, <2>4
<1>4. CASE th[t].issue = "none" /\ th[t].op = "task"
  <2> DEFINE r == [th[t] EXCEPT !.pc = "tdone"]
  <2>1. SyncReturned(t) = r
    BY Zenon, <1>4 DEF SyncReturned
  <2>2. r \in ThreadType
    BY Zenon, <1>1 DEF ThreadType, Labels
  <2>3. Returned(t, r)
    BY Zenon, <1>1, <1>4, <2>2 DEF Returned, ThreadType
  <2> QED BY Zenon, <2>1, <2>3
<1>5. CASE th[t].issue = "none" /\ th[t].op = "flush"
  <2> DEFINE r == [th[t] EXCEPT !.pc = "sbegin", !.op = "unmount"]
  <2>1. SyncReturned(t) = r
    BY Zenon, <1>5 DEF SyncReturned
  <2>2. r \in ThreadType
    BY <1>1, Zenon DEF ThreadType, Labels
  <2>3. Returned(t, r)
    BY Zenon, <1>1, <1>5, <2>2 DEF Returned, ThreadType
  <2> QED BY Zenon, <2>1, <2>3
<1>6. CASE th[t].issue = "none" /\ th[t].op = "unmount"
  <2> DEFINE r == [th[t] EXCEPT !.pc = "unsnarf"]
  <2>1. SyncReturned(t) = r
    BY Zenon, <1>6 DEF SyncReturned
  <2>2. r \in ThreadType
    BY Zenon, <1>1 DEF ThreadType, Labels
  <2>3. Returned(t, r)
    BY Zenon, <1>1, <1>6, <2>2 DEF Returned, ThreadType
  <2> QED BY Zenon, <2>1, <2>3
<1>7. CASE th[t].issue = "none" /\ th[t].op \notin {"task", "flush", "unmount"}
  <2>1. SyncReturned(t) = Idle(t)
    BY Zenon, <1>7 DEF SyncReturned
  <2> QED BY Zenon, <1>7, <2>1, IdleReturned
<1> QED BY Zenon, <1>1, <1>2, <1>3, <1>4, <1>5, <1>6, <1>7

\* The thread is right after it has returned, if what it waited for is on the
\* log.
LEMMA ReturnedOwn ==
    ASSUME IInv, NEW t \in All, th[t].pc # "out", Returned(t, th'[t]),
           th[t].need <= durable, mtm'.tid = mtm.tid, mtm'.seq \in Nat, mtm.seq <= mtm'.seq,
           UNCHANGED <<setup, mounted, durable, finished>>
    PROVE  Own(t)'
<1>1. /\ Own(t) /\ mtm.seq \in Nat /\ mtm.tid \in Nat /\ finished <= mtm.tid
      /\ th[t].seq \in Nat /\ th[t].size \in Sizes \cup {0} /\ finished \in Nat
  BY Zenon, MtmFields, ThreadFields DEF IInv, Typed, Logged
<1>2. Numbered(t)'
  BY <1>1 DEF Returned, Own, Numbered, InTransaction
<1>3. TaskOnly(t)' /\ Issued(t)'
  <2>1. TaskOnly(t)'
    BY Zenon, <1>1, MobyAssumption DEF Returned, Own, TaskOnly, Issued, Inside
  <2>2. Issued(t)'
    BY Zenon, <1>1 DEF Returned, Own, TaskOnly, Issued, Inside
  <2> QED BY Zenon, <2>1, <2>2
<1>4. Awaited(t)'
  BY <1>1 DEF Returned, Own, Awaited, Inside, PastPush, Needed
<1>5. Unmounting(t)'
  BY Zenon, <1>1 DEF Returned, Own, TaskOnly, Issued, Unmounting, Inside
<1> QED BY Zenon, <1>2, <1>3, <1>4, <1>5 DEF Own

\* A thread returns whose changes are on the log.
LEMMA ReturnKeeps ==
    ASSUME IInv, NEW t \in All, th[t].pc \in {"done", "end", "fbegin", "again", "atail"},
           NEW r, Returned(t, r), th' = [th EXCEPT ![t] = r], th[t].need <= durable,
           UNCHANGED <<setup, mtm, pending, mounted, durable, finished, spent>>
    PROVE  IInv'
<1>1. /\ Typed /\ Own(t) /\ mounted # "no" /\ mtm \in MtmType /\ pending \in Nat
  BY Zenon, Busy DEF IInv, Typed
<1>2. Only(t) /\ th'[t] = r
  BY <1>1, OnlyType, Zenon DEF Returned
<1>3. r.pc \in {"out", "fbegin", "sbegin", "unsnarf", "tdone"}
      /\ (t \in Tasks => r.pc # "out")
  BY Zenon, <1>1 DEF Returned, Own, TaskOnly
<1>4. QuietStep(t)
  BY Zenon, <1>1, <1>2, <1>3 DEF QuietStep, GateStep, Closing, PastPush
<1>5. Recounted(t)
  BY <1>1, <1>2, <1>3 DEF Recounted, In, Sy, Wt, Tk, InTransaction, Synchronous, One, MtmType
<1>6. Own(t)'
  BY <1>1, <1>2, ReturnedOwn, MtmFields
<1> QED BY Zenon, <1>1, <1>4, <1>5, <1>6, QuietKeeps

\* The end of top_end_async.
LEMMA AsyncTailKeeps == ASSUME IInv, NEW t \in All, AsyncTail(t) PROVE IInv'
<1>1. /\ Typed /\ Own(t) /\ th[t].pc = "atail"
      /\ UNCHANGED <<setup, mtm, pending, mounted, durable, finished, spent>>
  BY Zenon DEF IInv, AsyncTail
<1>2. CASE th' = [th EXCEPT ![t].pc = "sbegin", ![t].issue = "tail"]
  BY <1>1, <1>2, IssueKeeps, Zenon
<1>3. CASE th' = [th EXCEPT ![t] = AsyncReturned(t)]
  <2>1. th[t].op # "task" /\ th[t].need <= durable
    BY <1>1 DEF Own, Issued, Awaited, Inside, Typed
  <2> QED BY <1>1, <1>3, <2>1, AsyncReturnedType, ReturnKeeps, Zenon
<1> QED BY Zenon, <1>2, <1>3 DEF AsyncTail

\* The quick exit of fsync: what the thread did is in neither of the two
\* transactions that may not be on the log.
LEMMA NfsDurable ==
    ASSUME IInv, NEW t \in All, th[t].pc \in {"fbegin", "again"}, NfsCommitted(t)
    PROVE  th[t].need <= durable
<1>1. /\ Own(t) /\ mtm.tid \in Nat /\ mtm.committid \in Nat /\ durable \in Nat
      /\ th[t].last_async_tid \in Nat
  BY Zenon, MtmFields, ThreadFields DEF IInv, Typed
<1>2. /\ th[t].need = th[t].last_async_tid /\ th[t].need <= mtm.tid
      /\ th[t].need # mtm.tid /\ th[t].need # mtm.committid
  BY Zenon, <1>1 DEF Own, Awaited, NfsCommitted
<1>3. CASE ~Pushed
  BY <1>1, <1>2, <1>3 DEF IInv, Logged
<1>4. CASE Pushed
  BY <1>1, <1>2, <1>4 DEF IInv, Logged, Pushed, PastPush
<1> QED BY Zenon, <1>3, <1>4

\* fsync leaves with the quick exit.
LEMMA NfsReturns ==
    ASSUME IInv, NEW t \in All, th[t].pc \in {"fbegin", "again"}, NfsCommitted(t),
           SyncReturns(t),
           UNCHANGED <<setup, mtm, pending, mounted, durable, finished, spent>>
    PROVE  IInv'
<1>1. Typed /\ Issued(t) /\ th[t].need <= durable
  BY Zenon, NfsDurable DEF IInv, Own
<1> QED BY <1>1, SyncReturnedType, ReturnKeeps, Zenon DEF SyncReturns

\* top_begin_sync with TOP_FSYNC.
LEMMA FsyncBeginKeeps == ASSUME IInv, NEW t \in All, FsyncBegin(t) PROVE IInv'
<1>1. /\ th[t].pc = "fbegin" /\ LockFree
      /\ UNCHANGED <<setup, pending, mounted, durable, finished, spent>>
  BY Zenon DEF FsyncBegin
<1>2. CASE NfsCommitted(t) /\ SyncReturns(t) /\ UNCHANGED mtm
  BY Zenon, <1>1, <1>2, NfsReturns
<1>3. CASE CommitPending /\ Sleep(t, "done") /\ UNCHANGED mtm
  BY Zenon, <1>1, <1>3, SleepKeeps DEF Entering
<1>4. CASE Sleep(t, "again") /\ UNCHANGED mtm
  BY Zenon, <1>1, <1>4, SleepKeeps DEF Entering
<1>5. CASE "SYNC" \notin mtm.closed /\ Join(t)
  BY Zenon, <1>1, <1>5, JoinKeeps DEF Entering
<1> QED BY Zenon, <1>2, <1>3, <1>4, <1>5 DEF FsyncBegin

\* A thread wakes up after mtm_seq has changed.
LEMMA WakeKeeps == ASSUME IInv, NEW t \in All, Wake(t) PROVE IInv'
<1>1. /\ Typed /\ Own(t) /\ th[t].pc \in Asleep /\ LockFree /\ mounted # "no"
      /\ th[t].seq # mtm.seq /\ mtm \in MtmType /\ pending \in Nat
      /\ UNCHANGED <<setup, pending, mounted, durable, finished, spent>>
  BY Zenon, Busy DEF Wake, IInv, Typed, Asleep
<1>2. CASE th[t].pc \in {"done", "end"} /\ SyncReturns(t) /\ UNCHANGED mtm
  <2>1. th[t].need <= durable /\ Issued(t)
    BY Zenon, <1>1, <1>2 DEF Own, Awaited
  <2> QED BY <1>1, <1>2, <2>1, SyncReturnedType, ReturnKeeps, Zenon DEF SyncReturns
<1>3. CASE th[t].pc \in {"full", "again"} /\ EnterSync(t)
  BY Zenon, <1>1, <1>3, EnterSyncKeeps DEF Entering
<1>4. CASE th[t].pc = "again" /\ NfsCommitted(t) /\ SyncReturns(t) /\ UNCHANGED mtm
  BY Zenon, <1>1, <1>4, NfsReturns
<1>5. CASE th[t].pc = "in" /\ Goto(t, "sync") /\ UNCHANGED mtm
  <2>1. /\ Only(t) /\ Rest(t) /\ th'[t].issue = th[t].issue
        /\ th'[t].pc = "sync" /\ th'[t].seq = th[t].seq /\ th'[t].tid = th[t].tid
    BY Zenon, <1>1, <1>5, GotoType DEF Labels
  <2>2. QuietStep(t)
    BY Zenon, <1>1, <1>5, <2>1 DEF QuietStep, GateStep, Closing, PastPush
  <2>3. Recounted(t)
    BY <1>1, <1>5, <2>1 DEF Recounted, In, Sy, Wt, Tk, InTransaction, Synchronous, One,
       MtmType
  <2>4. Own(t)'
    BY Zenon, <1>1, <1>5, <2>1 DEF Own, Numbered, InTransaction, TaskOnly, Issued, Unmounting,
       Awaited, Inside, Rest, PastPush
  <2> QED BY Zenon, <1>1, <1>5, <2>2, <2>3, <2>4, QuietKeeps
<1> QED BY Zenon, <1>2, <1>3, <1>4, <1>5 DEF Wake

(***************************************************************************)
(* Tasks and unmount                                                       *)
(***************************************************************************)

\* A task of system_taskq begins.
LEMMA TaskBeginKeeps == ASSUME IInv, NEW t \in Tasks, TaskBegin(t) PROVE IInv'
<1>1. /\ Typed /\ t \in All /\ Own(t) /\ th[t].pc = "out" /\ pending > 0
      /\ mtm \in MtmType /\ pending \in Nat /\ mounted # "no"
      /\ pending' = pending - 1 /\ pending' \in Nat
      /\ UNCHANGED <<setup, mtm, mounted, durable, finished, spent>>
  BY DEF TaskBegin, IInv, Typed, All, UnmountClean
<1>2. /\ Only(t) /\ th'[t].pc = "sbegin" /\ th'[t].op = "task"
      /\ th'[t].size = th[t].size /\ th'[t].need = th[t].need
      /\ th'[t].last_async_tid = th[t].last_async_tid
      /\ th'[t].issue = th[t].issue /\ th'[t].seq = th[t].seq
  <2> DEFINE r == [th[t] EXCEPT !.pc = "sbegin", !.op = "task"]
  <2>1. th[t] \in ThreadType
    BY Zenon, <1>1, ThreadFields
  <2>2. r \in ThreadType
    BY <2>1, ZenonT(30) DEF ThreadType, Labels
  <2>3. th' = [th EXCEPT ![t] = r]
    BY Zenon DEF TaskBegin
  <2>4. Only(t) /\ th'[t] = r
    BY <1>1, <2>2, <2>3, OnlyType, Zenon
  <2> QED BY Zenon, <2>1, <2>4 DEF ThreadType
<1>3. QuietStep(t)
  BY Zenon, <1>1, <1>2 DEF QuietStep, GateStep, Closing, PastPush
<1>4. Recounted(t)
  BY <1>1, <1>2 DEF Recounted, In, Sy, Wt, Tk, InTransaction, Synchronous, One, MtmType
<1>5. Own(t)'
  BY Zenon, <1>1, <1>2, MobyAssumption DEF Own, Numbered, InTransaction, TaskOnly, Issued,
     Unmounting, Awaited, Inside, PastPush
<1> QED BY Zenon, <1>1, <1>3, <1>4, <1>5, QuietKeeps

\* What Idle leaves of a thread.
LEMMA IdleFields ==
    ASSUME NEW t, th[t] \in ThreadType
    PROVE  /\ Idle(t).pc = "out" /\ Idle(t).op = "async" /\ Idle(t).size = 0
           /\ Idle(t).issue = "none" /\ Idle(t).seq = 0 /\ Idle(t).need = 0
           /\ Idle(t).last_async_tid = th[t].last_async_tid
BY Zenon DEF Idle, ThreadType

\* The fields of a thread that is outside the journal again.
LEMMA IdleType ==
    ASSUME Typed, NEW t \in All, th' = [th EXCEPT ![t] = Idle(t)]
    PROVE  /\ Only(t) /\ th'[t].pc = "out" /\ th'[t].op = "async" /\ th'[t].size = 0
           /\ th'[t].issue = "none" /\ th'[t].seq = 0 /\ th'[t].need = 0
           /\ th'[t].last_async_tid = th[t].last_async_tid
<1>1. th[t] \in ThreadType
  BY Zenon, ThreadFields
<1>2. Idle(t) \in ThreadType
  BY <1>1, ZenonT(30) DEF Idle, ThreadType, Labels
<1>3. Only(t) /\ th'[t] = Idle(t)
  BY <1>2, OnlyType, Zenon
<1> QED BY Zenon, <1>1, <1>3, IdleFields

\* A task of system_taskq ends.
LEMMA TaskEndKeeps == ASSUME IInv, NEW t \in All, TaskEnd(t) PROVE IInv'
<1>1. /\ Typed /\ Own(t) /\ th[t].pc = "tdone" /\ t \in Tasks /\ LockFree
      /\ mtm \in MtmType /\ pending \in Nat /\ mounted # "no"
      /\ UNCHANGED <<setup, pending, mounted, durable, finished, spent>>
  BY Zenon, Busy DEF TaskEnd, IInv, Typed, All, Own, TaskOnly
<1>2. /\ Only(t) /\ th'[t].pc = "out" /\ th'[t].op = "async" /\ th'[t].size = 0
      /\ th'[t].issue = "none" /\ th'[t].seq = 0 /\ th'[t].need = 0
      /\ th'[t].last_async_tid = th[t].last_async_tid
  BY <1>1, IdleType, ZenonT(30) DEF TaskEnd
<1>3. /\ mtm' \in MtmType /\ mtm'.active = mtm.active /\ mtm'.activesync = mtm.activesync
      /\ mtm'.wantin = mtm.wantin /\ mtm'.closed = mtm.closed
      /\ mtm'.tid = mtm.tid /\ mtm'.committid = mtm.committid
      /\ mtm'.seq = mtm.seq /\ mtm'.taskq_sync_count = mtm.taskq_sync_count - 1
  <2>1. mtm.taskq_sync_count - 1 \in Int
    BY <1>1, MtmFields
  <2>2. mtm' = [mtm EXCEPT !.taskq_sync_count = @ - 1]
    BY Zenon DEF TaskEnd
  <2> QED BY Zenon, <1>1, <2>1, <2>2 DEF MtmType
<1>4. QuietStep(t)
  BY Zenon, <1>1, <1>2, <1>3 DEF QuietStep, GateStep, Closing, PastPush
<1>5. Recounted(t)
  <2>1. /\ t \notin In /\ t \notin Sy /\ t \notin Wt /\ t \in Tk
        /\ t \notin In' /\ t \notin Sy' /\ t \notin Wt' /\ t \notin Tk'
    BY Zenon, <1>1, <1>2 DEF In, Sy, Wt, Tk, InTransaction, Synchronous
  <2> QED BY <1>1, <1>3, <2>1, MtmFields DEF Recounted, One
<1>6. Own(t)'
  BY <1>1, <1>2, <1>3, MobyAssumption DEF Own, Numbered, InTransaction, TaskOnly, Issued,
     Unmounting, Awaited, Inside, PastPush, MtmType
<1> QED BY Zenon, <1>1, <1>3, <1>4, <1>5, <1>6, QuietKeeps

\* sam_umount_vfs begins.
LEMMA UnmountKeeps == ASSUME IInv, NEW t \in Threads, Unmount(t) PROVE IInv'
<1>1. /\ Typed /\ t \in All /\ Own(t) /\ mounted = "yes" /\ mounted' = "closing"
      /\ \A u \in Threads : th[u].pc = "out"
      /\ mtm \in MtmType /\ pending \in Nat /\ finished \in Nat /\ finished <= mtm.tid
      /\ UNCHANGED <<setup, mtm, pending, durable, finished, spent>>
  BY Zenon DEF Unmount, IInv, Typed, All, Logged
<1>2. /\ Only(t) /\ th'[t].pc = "sbegin" /\ th'[t].op = "flush"
      /\ th'[t].size = th[t].size /\ th'[t].need = finished
      /\ th'[t].last_async_tid = th[t].last_async_tid
      /\ th'[t].issue = th[t].issue /\ th'[t].seq = th[t].seq
  <2> DEFINE r == [th[t] EXCEPT !.pc = "sbegin", !.op = "flush", !.need = finished]
  <2>1. th[t] \in ThreadType
    BY Zenon, <1>1, ThreadFields
  <2>2. r \in ThreadType
    BY <1>1, <2>1, Zenon DEF ThreadType, Labels
  <2>3. th' = [th EXCEPT ![t] = r]
    BY Zenon DEF Unmount
  <2>4. Only(t) /\ th'[t] = r
    BY <1>1, <2>2, <2>3, OnlyType, Zenon
  <2> QED BY Zenon, <2>1, <2>4 DEF ThreadType
<1>3. GateStep(t)
  BY Zenon, <1>1, <1>2 DEF GateStep, Closing, PastPush
<1>4. Gate' /\ Logged' /\ (Pushed' <=> Pushed)
  BY Zenon, <1>1, <1>3, GateKeeps
<1>5. Typed'
  BY Zenon, <1>1, <1>2 DEF Typed, Only
<1>6. Counted'
  <2>1. Recounted(t)
    BY <1>1, <1>2, MobyAssumption DEF Recounted, In, Sy, Wt, Tk, InTransaction, Synchronous,
       One, MtmType
  <2> QED BY ZenonT(30), <1>1, <1>2, <1>5, <2>1, Recount DEF Only, Same
<1>7. Own(t)'
  <2>1. Numbered(t)' /\ TaskOnly(t)' /\ Issued(t)' /\ Unmounting(t)'
    BY Zenon, <1>1, <1>2, MobyAssumption DEF Own, Numbered, InTransaction, TaskOnly, Issued,
       Unmounting, Inside
  <2>2. Awaited(t)'
    BY Zenon, <1>1, <1>2 DEF Own, Awaited, Inside, PastPush
  <2> QED BY Zenon, <2>1, <2>2 DEF Own
<1>8. ASSUME NEW u \in All \ {t} PROVE Own(u)'
  <2>1. th'[u] = th[u] /\ Own(u)
    BY Zenon, <1>2 DEF Only, IInv
  <2>2. Numbered(u)' /\ TaskOnly(u)' /\ Issued(u)'
    BY Zenon, <1>1, <2>1 DEF Own, Numbered, InTransaction, TaskOnly, Issued
  <2>3. Unmounting(u)'
    BY Zenon, <1>1, <2>1 DEF Unmounting
  <2>4. Awaited(u)'
    BY Zenon, <1>1, <1>4, <2>1 DEF Own, Awaited
  <2> QED BY Zenon, <2>2, <2>3, <2>4 DEF Own
<1>9. Alone' /\ UnmountClean'
  BY ZenonT(30), <1>1, <1>2 DEF Alone, UnmountClean, Only, All
<1> QED BY Zenon, <1>4, <1>5, <1>6, <1>7, <1>8, <1>9 DEF IInv

\* lqfs_unsnarf: the thread that unmounts is alone, no task is left, and what
\* it waited for are all operations that ended.
LEMMA UnsnarfKeeps == ASSUME IInv, NEW t \in All, lqfs_unsnarf(t) PROVE IInv'
<1>1. /\ Typed /\ Own(t) /\ th[t].pc = "unsnarf" /\ t \in Threads
      /\ mtm \in MtmType /\ pending \in Nat /\ mounted # "yes" /\ mounted' = "no"
      /\ mtm.taskq_sync_count = 0
      /\ UNCHANGED <<setup, mtm, pending, durable, finished, spent>>
  BY Zenon DEF lqfs_unsnarf, NoTasks, IInv, Typed, All, Own, TaskOnly, Unmounting
<1>2. /\ Only(t) /\ th'[t].pc = "out" /\ th'[t].op = "async" /\ th'[t].size = 0
      /\ th'[t].issue = "none" /\ th'[t].seq = 0 /\ th'[t].need = 0
      /\ th'[t].last_async_tid = th[t].last_async_tid
  BY <1>1, IdleType, ZenonT(30) DEF lqfs_unsnarf
<1>3. GateStep(t)
  BY Zenon, <1>1, <1>2 DEF GateStep, Closing, PastPush
<1>4. Gate' /\ Logged' /\ (Pushed' <=> Pushed)
  BY Zenon, <1>1, <1>3, GateKeeps
<1>5. Typed'
  BY Zenon, <1>1, <1>2 DEF Typed, Only
<1>6. Counted'
  <2>1. Recounted(t)
    BY <1>1, <1>2, MobyAssumption DEF Recounted, In, Sy, Wt, Tk, InTransaction, Synchronous,
       One, MtmType
  <2> QED BY Zenon, <1>1, <1>2, <1>5, <2>1, Recount DEF Only, Same
<1>7. pending = 0 /\ \A u \in All : th'[u].pc = "out"
  <2>1. Cardinality(Tk) \in Nat /\ IsFiniteSet(Tk)
    BY Zenon, SetsFinite, FS_CardinalityType
  <2>2. pending = 0 /\ Cardinality(Tk) = 0
    BY <1>1, <2>1 DEF IInv, Counted
  <2>3. Tk = {}
    BY Zenon, <2>1, <2>2, FS_EmptySet
  <2>4. \A u \in Tasks : th[u].pc = "out"
    BY Zenon, <2>3 DEF Tk
  <2>5. \A u \in Threads \ {t} : th[u].pc = "out"
    BY Zenon, <1>1 DEF IInv, Alone
  <2> QED BY Zenon, <1>2, <2>2, <2>4, <2>5 DEF Only, All
<1>8. UnmountClean' /\ Alone'
  <2>1. finished <= durable
    BY Zenon, <1>1 DEF Own, Awaited, Unmounting
  <2> QED BY Zenon, <1>1, <1>7, <2>1 DEF UnmountClean, Alone, All
<1>9. ASSUME NEW u \in All \ {t} PROVE Own(u)'
  <2>1. th'[u] = th[u] /\ Own(u)
    BY Zenon, <1>2 DEF Only, IInv
  <2>2. Numbered(u)' /\ TaskOnly(u)' /\ Issued(u)'
    BY Zenon, <1>1, <2>1 DEF Own, Numbered, InTransaction, TaskOnly, Issued
  <2>3. Unmounting(u)'
    BY Zenon, <1>7 DEF Unmounting
  <2>4. Awaited(u)'
    BY ZenonT(30), <1>1, <1>4, <2>1 DEF Own, Awaited
  <2> QED BY Zenon, <2>2, <2>3, <2>4 DEF Own
<1>10. Own(t)'
  BY <1>1, <1>2, MobyAssumption DEF Own, Numbered, InTransaction, TaskOnly, Issued,
     Unmounting, Awaited, Inside, PastPush, MtmType
<1> QED BY Zenon, <1>4, <1>5, <1>6, <1>8, <1>9, <1>10 DEF IInv

(***************************************************************************)
(* The commit                                                              *)
(***************************************************************************)

\* Thread u stays where it is, or moves within the commit.
Kept(u) ==
    /\ Rest(u) /\ th'[u].issue = th[u].issue
    /\ th'[u].seq = th[u].seq /\ th'[u].tid = th[u].tid
    /\ \/ th'[u].pc = th[u].pc
       \/ \E S \in {Closing, {"anext", "abegin"}, PastPush} : {th[u].pc, th'[u].pc} \subseteq S

\* Such a thread counts as before.
LEMMA KeptSame == ASSUME NEW u, Kept(u) PROVE Same(u) /\ (th'[u].pc = "out" <=> th[u].pc = "out")
BY Zenon DEF Kept, Same, Closing, PastPush

\* It is right after a step of another thread that ends an operation, pushes or
\* commits.
LEMMA KeptOwn ==
    ASSUME IInv, NEW u \in All, Kept(u), UNCHANGED <<setup, mounted>>,
           mtm'.seq = mtm.seq, mtm'.tid \in Nat, mtm.tid <= mtm'.tid,
           durable' \in Int, durable <= durable',
           InTransaction(u) => mtm'.tid = mtm.tid,
           Pushed' => Pushed \/ mtm.tid < mtm'.tid,
           finished' = finished \/ mounted = "yes"
    PROVE  Own(u)'
<1>1. /\ Own(u) /\ mtm.tid \in Nat /\ durable \in Nat /\ th[u].need \in Nat
      /\ th[u].last_async_tid \in Nat
  BY Zenon, MtmFields, ThreadFields DEF IInv, Typed
<1>2. Numbered(u)' /\ TaskOnly(u)' /\ Issued(u)'
  BY ZenonT(30), <1>1 DEF Own, Kept, Rest, Numbered, InTransaction, TaskOnly, Issued, Inside, Closing,
     PastPush
<1>3. Awaited(u)'
  <2>1. th'[u].last_async_tid <= mtm'.tid /\ th'[u].need <= mtm'.tid
    BY <1>1 DEF Own, Awaited, Kept, Rest
  <2>2. th'[u].pc \in Inside \cup {"out"} => th'[u].need = 0
    BY Zenon, <1>1 DEF Own, Awaited, Kept, Rest, Inside, Closing, PastPush
  <2>3. th'[u].pc \in {"done", "end"} =>
            /\ th'[u].seq # mtm'.seq => th'[u].need <= durable'
            /\ Pushed' => th'[u].need < mtm'.tid
    BY <1>1 DEF Own, Awaited, Kept, Rest, Closing, PastPush
  <2>4. th'[u].pc \in PastPush => th'[u].need < mtm'.tid
    BY <1>1 DEF Own, Awaited, Kept, Rest, Closing, PastPush
  <2>5. th'[u].pc \in {"unsnarf", "fbegin", "again"} => th'[u].pc = th[u].pc
    BY Zenon DEF Kept, Closing, PastPush
  <2> QED BY <1>1, <2>1, <2>2, <2>3, <2>4, <2>5 DEF Own, Awaited, Kept, Rest
<1>4. Unmounting(u)'
  BY Zenon, <1>1 DEF Own, Kept, Rest, Unmounting, Inside, Closing, PastPush
<1> QED BY Zenon, <1>2, <1>3, <1>4 DEF Own

\* A step keeps the invariant if it keeps these parts and lets no thread in.
LEMMA StepKeeps ==
    ASSUME IInv, mounted # "no", UNCHANGED mounted, Typed', Counted', Gate', Logged',
           \A u \in All : Own(u)' /\ (th[u].pc = "out" => th'[u].pc = "out")
    PROVE  IInv'
BY Zenon DEF IInv, Alone, UnmountClean, All

\* While a synchronous operation is in the transaction, nobody commits.
LEMMA SyncNoCommit ==
    ASSUME IInv, NEW t \in All, th[t].pc = "sync"
    PROVE  /\ \A u \in All : th[u].pc \notin Closing \cup PastPush
           /\ mtm.activesync > 0 /\ ~Pushed
<1>1. t \in Sy
  BY Zenon DEF Sy, Synchronous, InTransaction
<1>2. Cardinality(Sy) \in Nat /\ Cardinality(Sy) # 0
  BY Zenon, <1>1, SetsFinite, FS_CardinalityType, FS_EmptySet
<1> QED BY <1>2 DEF IInv, Counted, Gate, Pushed

\* The counters that top_end_sync leaves.
LEMMA EndSyncMtm ==
    ASSUME IInv, NEW t \in All, top_end_sync(t)
    PROVE  /\ mtm' \in MtmType /\ mtm'.active = mtm.active - 1
           /\ mtm'.activesync = mtm.activesync - 1 /\ mtm'.wantin = mtm.wantin
           /\ mtm'.tid = mtm.tid /\ mtm'.committid = mtm.committid /\ mtm'.seq = mtm.seq
           /\ mtm'.taskq_sync_count = mtm.taskq_sync_count
           /\ mtm'.closed = IF mtm.activesync > 1 THEN {"SYNC"} ELSE {"SYNC", "ASYNC"}
<1>1. th[t].pc = "sync" /\ Typed /\ mtm \in MtmType
  BY Zenon DEF top_end_sync, IInv, Typed
<1>2. mtm.active - 1 \in Nat
  <2>1. t \in In
    BY Zenon, <1>1 DEF In, InTransaction
  <2>2. Cardinality(In) \in Nat /\ Cardinality(In) # 0
    BY Zenon, <2>1, SetsFinite, FS_CardinalityType, FS_EmptySet
  <2> QED BY <2>2 DEF IInv, Counted
<1>3. CASE /\ mtm.activesync > 1
           /\ mtm' = [mtm EXCEPT !.activesync = @ - 1, !.active = @ - 1, !.closed = {"SYNC"}]
  <2>1. mtm.activesync - 1 \in Nat
    BY <1>1, <1>3, MtmFields
  <2> QED BY <1>1, <1>2, <1>3, <2>1, Zenon DEF MtmType
<1>4. CASE /\ mtm.activesync = 1
           /\ mtm' = [mtm EXCEPT !.activesync = 0, !.active = @ - 1,
                                 !.closed = {"SYNC", "ASYNC"}]
  <2>1. mtm' \in MtmType
    BY <1>1, <1>2, <1>4, Zenon DEF MtmType
  <2> QED BY <1>1, <1>4, <2>1 DEF MtmType
<1> QED BY Zenon, <1>3, <1>4 DEF top_end_sync

\* The thread that top_end_sync leaves.
LEMMA EndSyncThread ==
    ASSUME IInv, NEW t \in All, top_end_sync(t)
    PROVE  /\ Only(t) /\ th'[t].op = th[t].op /\ th'[t].size = th[t].size
           /\ th'[t].issue = th[t].issue /\ th'[t].last_async_tid = th[t].last_async_tid
           /\ th'[t].need = NeedOwn(t)
           /\ \/ mtm.activesync > 1 /\ th'[t].pc = "end" /\ th'[t].seq = mtm.seq
              \/ mtm.activesync = 1 /\ th'[t].pc = AwaitAsync /\ th'[t].seq = th[t].seq
<1>1. /\ th[t] \in ThreadType /\ NeedOwn(t) \in Nat /\ mtm.seq \in Nat /\ Typed
  BY Zenon, MtmFields, ThreadFields DEF IInv, NeedOwn
<1>2. CASE /\ mtm.activesync > 1
           /\ th' = [th EXCEPT ![t].pc = "end", ![t].seq = mtm.seq, ![t].need = NeedOwn(t)]
  <2> DEFINE r == [th[t] EXCEPT !.pc = "end", !.seq = mtm.seq, !.need = NeedOwn(t)]
  <2>1. r \in ThreadType
    BY <1>1, Zenon DEF ThreadType, Labels, Asleep
  <2>2. th' = [th EXCEPT ![t] = r]
    BY <1>2, Zenon
  <2>3. Only(t) /\ th'[t] = r
    BY <1>1, <2>1, <2>2, OnlyType, Zenon
  <2>4. /\ r.op = th[t].op /\ r.size = th[t].size /\ r.issue = th[t].issue
        /\ r.last_async_tid = th[t].last_async_tid /\ r.need = NeedOwn(t)
        /\ r.pc = "end" /\ r.seq = mtm.seq
    BY Zenon, <1>1 DEF ThreadType
  <2> QED BY <1>2, <2>3, <2>4, Zenon
<1>3. CASE /\ mtm.activesync = 1
           /\ th' = [th EXCEPT ![t].pc = AwaitAsync, ![t].need = NeedOwn(t)]
  <2> DEFINE r == [th[t] EXCEPT !.pc = AwaitAsync, !.need = NeedOwn(t)]
  <2>1. r \in ThreadType
    BY <1>1, ZenonT(30) DEF ThreadType, Labels, AwaitAsync
  <2>2. th' = [th EXCEPT ![t] = r]
    BY <1>3, Zenon
  <2>3. Only(t) /\ th'[t] = r
    BY <1>1, <2>1, <2>2, OnlyType, ZenonT(30)
  <2>4. /\ r.op = th[t].op /\ r.size = th[t].size /\ r.issue = th[t].issue
        /\ r.last_async_tid = th[t].last_async_tid /\ r.need = NeedOwn(t)
        /\ r.pc = AwaitAsync /\ r.seq = th[t].seq
    BY Zenon, <1>1 DEF ThreadType
  <2> QED BY <1>3, <2>3, <2>4, Zenon
<1> QED BY Zenon, <1>2, <1>3 DEF top_end_sync

\* top_end_sync: the last synchronous operation closes the transaction.
LEMMA EndSyncKeeps == ASSUME IInv, NEW t \in All, top_end_sync(t) PROVE IInv'
<1>1. /\ Typed /\ Own(t) /\ th[t].pc = "sync" /\ mounted # "no" /\ mtm \in MtmType
      /\ pending \in Nat /\ spent' \in Int /\ spent' = spent + Size(t)
      /\ UNCHANGED <<setup, pending, mounted, durable, finished>>
  BY Busy, SizesNat, ThreadFields DEF top_end_sync, IInv, Typed, Size
<1>2. /\ \A u \in All : th[u].pc \notin Closing \cup PastPush
      /\ mtm.activesync > 0 /\ ~Pushed
  BY Zenon, <1>1, SyncNoCommit
<1>3. /\ mtm' \in MtmType /\ mtm'.active = mtm.active - 1
      /\ mtm'.activesync = mtm.activesync - 1 /\ mtm'.wantin = mtm.wantin
      /\ mtm'.tid = mtm.tid /\ mtm'.committid = mtm.committid /\ mtm'.seq = mtm.seq
      /\ mtm'.taskq_sync_count = mtm.taskq_sync_count
      /\ mtm'.closed = IF mtm.activesync > 1 THEN {"SYNC"} ELSE {"SYNC", "ASYNC"}
  BY Zenon, EndSyncMtm
<1>4. /\ Only(t) /\ th'[t].op = th[t].op /\ th'[t].size = th[t].size
      /\ th'[t].issue = th[t].issue /\ th'[t].last_async_tid = th[t].last_async_tid
      /\ th'[t].need = NeedOwn(t)
      /\ \/ mtm.activesync > 1 /\ th'[t].pc = "end" /\ th'[t].seq = mtm.seq
         \/ /\ mtm.activesync = 1 /\ th'[t].pc \in {"eotwait", "push"}
            /\ th'[t].pc = "push" => mtm.active = 1
            /\ th'[t].seq = th[t].seq
  BY Zenon, EndSyncThread DEF AwaitAsync
<1>5. Typed'
  BY Zenon, <1>1, <1>3, <1>4 DEF Typed, Only
<1>6. Counted'
  <2>1. /\ t \in In /\ t \in Sy /\ t \notin Wt /\ (t \in Tk <=> t \in Tasks)
        /\ t \notin In' /\ t \notin Sy' /\ t \notin Wt' /\ (t \in Tk' <=> t \in Tasks)
    BY Zenon, <1>1, <1>4 DEF In, Sy, Wt, Tk, InTransaction, Synchronous
  <2>2. Recounted(t)
    BY <1>1, <1>3, <2>1, MtmFields DEF Recounted, One
  <2> QED BY Zenon, <1>3, <1>4, <1>5, <2>2, Recount DEF Only, Same
<1>7. ~Pushed'
  BY Zenon, <1>2, <1>4 DEF Pushed, PastPush, Only
<1>8. Gate'
  BY <1>1, <1>2, <1>3, <1>4 DEF Gate, Only, Closing, PastPush, MtmType
<1>9. Logged'
  BY Zenon, <1>1, <1>2, <1>3, <1>7 DEF IInv, Logged, Pushed, PastPush
<1>10. Own(t)'
  <2>1. /\ mtm.seq \in Nat /\ mtm.tid \in Nat /\ NeedOwn(t) <= mtm.tid
        /\ (mounted # "yes" \/ t \in Tasks => NeedOwn(t) = th[t].need)
    <3>1. mtm.seq \in Nat /\ mtm.tid \in Nat
      BY Zenon, <1>1, MtmFields
    <3>2. NeedOwn(t) <= mtm.tid
      BY <1>1, <3>1 DEF NeedOwn, Own, Awaited, Numbered, InTransaction
    <3>3. mounted # "yes" \/ t \in Tasks => NeedOwn(t) = th[t].need
      BY ZenonT(30), <1>1, MobyAssumption DEF NeedOwn, Own, Unmounting, TaskOnly, All
    <3> QED BY Zenon, <3>1, <3>2, <3>3
  <2>2. Numbered(t)' /\ TaskOnly(t)' /\ Issued(t)'
    BY <1>1, <1>3, <1>4, <2>1 DEF Own, Numbered, InTransaction, TaskOnly, Issued, Inside
  <2>3. Awaited(t)'
    BY Zenon, <1>1, <1>3, <1>4, <1>7, <2>1 DEF Own, Awaited, Inside, PastPush
  <2>4. Unmounting(t)'
    BY ZenonT(30), <1>1, <1>4, <2>1 DEF Own, Unmounting, Inside
  <2> QED BY ZenonT(30), <2>2, <2>3, <2>4 DEF Own
<1>11. ASSUME NEW u \in All \ {t} PROVE Own(u)'
  <2>1. Kept(u)
    BY Zenon, <1>4 DEF Kept, Only, Rest
  <2> QED BY <1>1, <1>3, <1>7, <2>1, KeptOwn, MtmFields DEF Typed
<1>12. \A u \in All : th[u].pc = "out" => th'[u].pc = "out"
  BY Zenon, <1>1, <1>4 DEF Only
<1> QED BY ZenonT(30), <1>1, <1>5, <1>6, <1>8, <1>9, <1>10, <1>11, <1>12, StepKeeps

\* The counters that top_end_async leaves.
LEMMA EndAsyncMtm ==
    ASSUME IInv, NEW t \in All, th[t].pc = "async", NEW used \in 0 .. th[t].size,
           mtm' = [mtm EXCEPT !.resv = @ - Unreserved(th[t].size, used), !.active = @ - 1]
    PROVE  /\ mtm' \in MtmType /\ mtm'.active = mtm.active - 1
           /\ mtm'.activesync = mtm.activesync /\ mtm'.wantin = mtm.wantin
           /\ mtm'.tid = mtm.tid /\ mtm'.committid = mtm.committid /\ mtm'.seq = mtm.seq
           /\ mtm'.taskq_sync_count = mtm.taskq_sync_count /\ mtm'.closed = mtm.closed
<1>1. Typed /\ mtm \in MtmType /\ th[t].size \in Nat
  BY SizesNat, ThreadFields DEF IInv, Typed
<1>2. mtm.active - 1 \in Nat
  <2>1. t \in In
    BY Zenon DEF In, InTransaction
  <2>2. Cardinality(In) \in Nat /\ Cardinality(In) # 0
    BY Zenon, <2>1, SetsFinite, FS_CardinalityType, FS_EmptySet
  <2> QED BY <2>2 DEF IInv, Counted
<1>3. mtm.resv - Unreserved(th[t].size, used) \in Int
  BY <1>1, MtmFields DEF Unreserved
<1> QED BY <1>1, <1>2, <1>3, Zenon DEF MtmType

\* The thread that ends, and the others, of which one may be signalled.
EndedAsync(t, used) ==
    [u \in All |->
        IF u = t
        THEN [th[t] EXCEPT !.pc = "atail",
                 !.last_async_tid = IF used > 0 THEN mtm.tid ELSE @]
        ELSE IF /\ mtm.active = 1 /\ th[u].pc = "eotwait"
                /\ mtm.closed = {"SYNC", "ASYNC"}
        THEN [th[u] EXCEPT !.pc = "eot"]
        ELSE th[u]]

\* The threads after top_end_async.
LEMMA EndAsyncThreads ==
    ASSUME Typed, NEW t \in All, NEW used, th' = EndedAsync(t, used)
    PROVE  /\ th' \in [All -> ThreadType]
           /\ th'[t].pc = "atail" /\ th'[t].op = th[t].op /\ th'[t].size = th[t].size
           /\ th'[t].issue = th[t].issue /\ th'[t].need = th[t].need
           /\ th'[t].seq = th[t].seq
           /\ th'[t].last_async_tid \in {mtm.tid, th[t].last_async_tid}
           /\ \A u \in All \ {t} :
                 /\ Kept(u)
                 /\ th'[u].pc = th[u].pc \/ (th[u].pc = "eotwait" /\ th'[u].pc = "eot")
<1> DEFINE a == IF used > 0 THEN mtm.tid ELSE th[t].last_async_tid
           r == [th[t] EXCEPT !.pc = "atail", !.last_async_tid = a]
<1>1. th[t] \in ThreadType /\ a \in Nat
  BY Zenon, MtmFields, ThreadFields
<1>2. r \in ThreadType
  BY <1>1, Zenon DEF ThreadType, Labels
<1>3. th'[t] = r
  BY Zenon DEF EndedAsync
<1>4. /\ r.pc = "atail" /\ r.op = th[t].op /\ r.size = th[t].size
      /\ r.issue = th[t].issue /\ r.need = th[t].need
      /\ r.seq = th[t].seq /\ r.last_async_tid = a
  BY Zenon, <1>1 DEF ThreadType
<1>5. ASSUME NEW u \in All \ {t}
      PROVE  /\ th'[u] \in ThreadType /\ Kept(u)
             /\ th'[u].pc = th[u].pc \/ (th[u].pc = "eotwait" /\ th'[u].pc = "eot")
  <2> DEFINE e == [th[u] EXCEPT !.pc = "eot"]
  <2>1. th[u] \in ThreadType
    BY Zenon, ThreadFields
  <2>2. e \in ThreadType
    BY Zenon, <2>1 DEF ThreadType, Labels
  <2>3. /\ e.pc = "eot" /\ e.op = th[u].op /\ e.size = th[u].size
        /\ e.issue = th[u].issue /\ e.need = th[u].need /\ e.tid = th[u].tid
        /\ e.seq = th[u].seq /\ e.last_async_tid = th[u].last_async_tid
    BY Zenon, <2>1 DEF ThreadType
  <2>4. th'[u] = th[u] \/ (th[u].pc = "eotwait" /\ th'[u] = e)
    BY Zenon DEF EndedAsync
  <2>5. CASE th'[u] = th[u]
    BY Zenon, <2>1, <2>5 DEF Kept, Rest
  <2>6. CASE th[u].pc = "eotwait" /\ th'[u] = e
    BY Zenon, <2>2, <2>3, <2>6 DEF Kept, Rest, Closing
  <2> QED BY Zenon, <2>4, <2>5, <2>6
<1>6. th' = [u \in All |-> th'[u]]
  BY Zenon DEF EndedAsync
<1>7. th' \in [All -> ThreadType]
  BY <1>2, <1>3, <1>5, <1>6
<1> QED BY Zenon, <1>3, <1>4, <1>5, <1>7

\* top_end_async: the operation leaves the transaction.
LEMMA EndAsyncKeeps == ASSUME IInv, NEW t \in All, top_end_async(t) PROVE IInv'
<1>1. /\ Typed /\ Own(t) /\ th[t].pc = "async" /\ LockFree /\ mounted # "no"
      /\ mtm \in MtmType /\ pending \in Nat
      /\ UNCHANGED <<setup, pending, mounted, durable>>
  BY Zenon, Busy DEF top_end_async, IInv, Typed
<1>2. PICK used \in 0 .. th[t].size :
         /\ mtm' = [mtm EXCEPT !.resv = @ - Unreserved(th[t].size, used), !.active = @ - 1]
         /\ th' = EndedAsync(t, used)
         /\ finished' = IF used > 0 THEN mtm.tid ELSE finished
         /\ spent' = spent + used
  BY Zenon DEF top_end_async, EndedAsync
<1>3. t \in Threads /\ mounted = "yes" /\ used \in Nat
  BY <1>1, <1>2, SizesNat, ThreadFields DEF Own, TaskOnly, Unmounting, Inside, All, IInv, Typed
<1>4. /\ mtm' \in MtmType /\ mtm'.active = mtm.active - 1
      /\ mtm'.activesync = mtm.activesync /\ mtm'.wantin = mtm.wantin
      /\ mtm'.tid = mtm.tid /\ mtm'.committid = mtm.committid /\ mtm'.seq = mtm.seq
      /\ mtm'.taskq_sync_count = mtm.taskq_sync_count /\ mtm'.closed = mtm.closed
  BY <1>1, <1>2, EndAsyncMtm, Zenon
<1>5. /\ th' \in [All -> ThreadType]
      /\ th'[t].pc = "atail" /\ th'[t].op = th[t].op /\ th'[t].size = th[t].size
      /\ th'[t].issue = th[t].issue /\ th'[t].need = th[t].need
      /\ th'[t].seq = th[t].seq
      /\ th'[t].last_async_tid \in {mtm.tid, th[t].last_async_tid}
      /\ \A u \in All \ {t} :
            /\ Kept(u)
            /\ th'[u].pc = th[u].pc \/ (th[u].pc = "eotwait" /\ th'[u].pc = "eot")
  BY Zenon, <1>1, <1>2, EndAsyncThreads
<1>6. finished' \in Nat /\ spent' \in Int /\ finished' <= mtm.tid
  BY <1>1, <1>2, <1>3, MtmFields DEF IInv, Typed, Logged
<1>7. Typed'
  BY Zenon, <1>1, <1>4, <1>5, <1>6 DEF Typed
<1>8. Counted'
  <2>1. /\ t \in In /\ t \notin Sy /\ t \notin Wt /\ t \notin Tk
        /\ t \notin In' /\ t \notin Sy' /\ t \notin Wt' /\ t \notin Tk'
    BY Zenon, <1>1, <1>3, <1>5, MobyAssumption DEF In, Sy, Wt, Tk, InTransaction, Synchronous
  <2>2. Recounted(t)
    BY <1>1, <1>4, <2>1, MtmFields DEF Recounted, One
  <2> QED BY Zenon, <1>4, <1>5, <1>7, <2>2, Recount, KeptSame
<1>9. \A u \in All : /\ th'[u].pc \in Closing <=> th[u].pc \in Closing
                     /\ th'[u].pc \in PastPush => th'[u].pc = th[u].pc
                     /\ th[u].pc \in PastPush => th'[u].pc = th[u].pc
                     /\ th'[u].pc # "push"
  BY Zenon, <1>1, <1>5 DEF Closing, PastPush, LockFree
<1>10. Pushed' <=> Pushed
  BY Zenon, <1>9 DEF Pushed
<1>11. Gate'
  <2>1. \A u, v \in All :
          (th'[u].pc \in Closing \cup PastPush /\ th'[v].pc \in Closing \cup PastPush)
              => u = v
    BY Zenon, <1>9 DEF IInv, Gate
  <2>2. \A u \in All : /\ th'[u].pc \in Closing \cup PastPush =>
                             mtm'.activesync = 0 /\ "SYNC" \in mtm'.closed
                       /\ th'[u].pc \in Closing => "ASYNC" \in mtm'.closed
    BY Zenon, <1>4, <1>9 DEF IInv, Gate
  <2>3. "ASYNC" \in mtm'.closed => \E u \in All : th'[u].pc \in Closing
    BY Zenon, <1>4, <1>9 DEF IInv, Gate
  <2> QED BY Zenon, <1>9, <2>1, <2>2, <2>3 DEF Gate
<1>12. Logged'
  BY ZenonT(30), <1>1, <1>4, <1>6, <1>9, <1>10 DEF IInv, Logged, PastPush
<1>13. Own(t)'
  <2>1. Numbered(t)' /\ TaskOnly(t)' /\ Issued(t)' /\ Unmounting(t)'
    BY Zenon, <1>1, <1>3, <1>4, <1>5, MobyAssumption DEF Own, Numbered, InTransaction, TaskOnly,
       Issued, Unmounting, Inside
  <2>2. mtm.tid \in Nat
    BY Zenon, <1>1, MtmFields
  <2>3. th[t].need = 0 /\ th[t].last_async_tid <= mtm.tid
    BY Zenon, <1>1, <1>3 DEF Own, Awaited, Inside
  <2>4. /\ th'[t].pc = "atail" /\ th'[t].need = 0
        /\ th'[t].last_async_tid <= mtm'.tid /\ mtm'.tid \in Nat
    BY <1>4, <1>5, <2>2, <2>3
  <2>5. Awaited(t)'
    BY <2>4 DEF Awaited, Inside, PastPush
  <2> QED BY Zenon, <2>1, <2>5 DEF Own
<1>14. ASSUME NEW u \in All \ {t} PROVE Own(u)'
  BY <1>1, <1>3, <1>4, <1>5, <1>10, KeptOwn, MtmFields DEF Typed
<1>15. \A u \in All : th[u].pc = "out" => th'[u].pc = "out"
  BY Zenon, <1>1, <1>5, KeptSame
<1> QED BY ZenonT(30), <1>1, <1>7, <1>8, <1>11, <1>12, <1>13, <1>14, <1>15, StepKeeps
=============================================================================
