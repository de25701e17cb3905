-------------------------- MODULE FileCopiesProofs ---------------------------
(***************************************************************************)
(* The file, its copies and the requests to stage it, for any threads,     *)
(* copies and setups.                                                      *)
(*                                                                         *)
(*   IInv        a released file has a copy to be staged from, and no      *)
(*               stale copy counts as archived;                            *)
(*   TypeInv     the types, with those of the requests (Tracks(Msgs));     *)
(*   VersionInv  the disk, the archived copies and the requests on their   *)
(*               way to sam-stagerd hold the current version of the file,  *)
(*               in an Orderly setup.                                      *)
(*                                                                         *)
(* The lemmas NextIInv, TracksNext, NextReturns, TypeNext and VersionNext  *)
(* say what a step does to these.  The first steps of their proofs are     *)
(* named after the operators and actions that they are about, and the last *)
(* ones put the actions of Next together.                                  *)
(***************************************************************************)
EXTENDS FileCopies, TLAPS

\* The fields of the inode that the proofs look at have their types.
InodeType(i) ==
    i \in [rmsize : {i.rmsize}, size : {i.size}, mtime : Nat, offline : BOOLEAN,
           damaged : BOOLEAN, archdone : {i.archdone}, archnodrop : {i.archnodrop},
           arch_status : SUBSET Copies, ar_flags : [Copies -> SUBSET Flags],
           staging : {i.staging}, stage_err : {i.stage_err},
           stage_pid : {i.stage_pid}, write_mode : BOOLEAN,
           arch_count : {i.arch_count}, disk : {i.disk}]

HasCopy(i) == i.offline => HasGoodCopy(i) \/ i.damaged

\* What a step that archives nothing and modifies nothing does to the inode.
Keeps(i, j) ==
    /\ InodeType(j)
    /\ j.arch_status = i.arch_status /\ j.ar_flags = i.ar_flags
    /\ j.mtime = i.mtime
    /\ HasCopy(i) => HasCopy(j)
    /\ i.arch_status = {} /\ ~i.offline => ~j.offline

WriterSteps == {"out", "clear", "trunc", "opened", "write", "written", "send"}
UserSteps(u) == IF Reads(u) THEN {"out", "send", "wait", "woken"} ELSE {"out", "send"}

AllSteps == {"out", "send", "wait", "woken", "clear", "trunc", "opened", "dlock",
             "write", "written", "copied"}

StepType(r) == r \in [at : AllSteps, next : AllSteps, msg : {r.msg}, mtime : Nat,
                      data : {r.data}]

ThreadType ==
    th = [t \in Threads |-> th[t]] /\ \A t \in Threads : StepType(th[t])

\* A thread that truncated the file has it open for writing and online, and no
\* copy of it counts as archived until it is closed.
WriterInv ==
    \A u \in Users : Writes(u) =>
        /\ th[u].at \in WriterSteps
        /\ th[u].at = "send" => th[u].next = "trunc"
        /\ th[u].at # "out" => ip.write_mode
        /\ th[u].at \in {"opened", "write"} => ip.arch_status = {} /\ ~ip.offline

\* An arcopy process that began before the last modification has an older
\* mtime than the file, which will refuse its copy.
ArcopyInv ==
    \A c \in Copies :
        /\ th[c].mtime <= ip.mtime
        /\ th[c].at # "out" /\ th[c].mtime = ip.mtime =>
              \A u \in Users : Writes(u) => th[u].at \notin {"opened", "write"}

UserInv == \A u \in Users : ~Writes(u) => {th[u].at, th[u].next} \subseteq UserSteps(u)

\* The inductive invariant.
IInv ==
    /\ setup \in Setups
    /\ InodeType(ip) /\ ThreadType
    /\ ArchivedNotStale
    /\ Protected => HasCopy(ip) /\ WriterInv /\ ArcopyInv /\ UserInv

\* What a step that archives nothing and modifies nothing does to the threads.
QuietThreads ==
    /\ \A c \in Copies : /\ th'[c].mtime = th[c].mtime
                         /\ th'[c].at # "out" => th[c].at # "out"
    /\ \A u \in Users : Writes(u) =>
          /\ th'[u].at \in WriterSteps
          /\ th'[u].at = "send" => th'[u].next = "trunc"
          /\ th'[u].at # "out" => ip'.write_mode
          /\ th'[u].at \in {"opened", "write"} => th[u].at \in {"opened", "write"}
    /\ \A u \in Users : ~Writes(u) => {th'[u].at, th'[u].next} \subseteq UserSteps(u)

Quiet == /\ setup' = setup /\ Keeps(ip, ip') /\ ThreadType'
         /\ Protected => QuietThreads

-----------------------------------------------------------------------------
(* The operators on the inode.                                               *)

\* A modification (sam_mark_ino) has no earlier time than the last, and a later
\* one than the copies that are made of a file with an archive age.
LEMMA Times ==
    ASSUME ip.mtime \in Nat
    PROVE  \A now \in Now :
              /\ now \in Nat /\ now >= ip.mtime
              /\ setup.age # "none" =>
                    \A c \in Copies : th[c].at # "out" => th[c].mtime # now
<1> TAKE now \in Now
<1>1. now \in Nat /\ now >= ip.mtime
  BY DEF Now
<1>2. ASSUME setup.age # "none", NEW c \in Copies, th[c].at # "out"
      PROVE  th[c].mtime # now
  BY Zenon, <1>2 DEF Now
<1> QED BY Zenon, <1>1, <1>2

\* Releasing the blocks (sam_drop_ino) leaves a copy behind.
LEMMA DropKeeps ==
    ASSUME NEW i, InodeType(i)
    PROVE  Keeps(i, DropIno(i))
<1> DEFINE j == [i EXCEPT !.damaged = @ \/ i.offline]
           k == [i EXCEPT !.disk = None, !.size = 0, !.offline = TRUE]
<1>1. CASE DropIno(i) = i
  BY Zenon, <1>1 DEF Keeps
<1>2. CASE DropIno(i) = j
  <2>1. /\ InodeType(j) /\ j.offline = i.offline /\ j.damaged = (i.damaged \/ i.offline)
        /\ j.arch_status = i.arch_status /\ j.ar_flags = i.ar_flags /\ j.mtime = i.mtime
    BY DEF InodeType
  <2> HIDE DEF j
  <2> QED BY Zenon, <1>2, <2>1 DEF Keeps, HasCopy
<1>3. CASE DropIno(i) = k /\ HasGoodCopy(i)
  <2>1. /\ InodeType(k) /\ k.offline = TRUE /\ k.damaged = i.damaged
        /\ k.arch_status = i.arch_status /\ k.ar_flags = i.ar_flags /\ k.mtime = i.mtime
    BY Zenon DEF InodeType
  <2> HIDE DEF k
  <2> QED BY Zenon, <1>3, <2>1 DEF Keeps, HasCopy, HasGoodCopy
<1> QED BY Zenon, <1>1, <1>2, <1>3 DEF DropIno

\* So does the end of a stage (sam_close_stage), which may release them.
LEMMA CloseKeeps ==
    ASSUME NEW i, InodeType(i)
    PROVE  Keeps(i, CloseStage(i))
<1> DEFINE closed == [i EXCEPT !.staging = FALSE, !.stage_pid = FALSE]
           err == IF i.stage_err = "none" THEN "ECOMM" ELSE i.stage_err
           failed == [closed EXCEPT !.stage_err = err]
           done == \A c \in Copies : "unarchived" \notin i.ar_flags[c]
           online == [closed EXCEPT !.offline = FALSE, !.archdone = i.archdone /\ done]
<1>1. Keeps(i, closed) /\ Keeps(i, online) /\ Keeps(i, failed)
  BY Zenon DEF Keeps, InodeType, HasCopy, HasGoodCopy
<1>2. Keeps(failed, DropIno(failed))
  BY <1>1, DropKeeps, ZenonT(30) DEF Keeps
<1>3. Keeps(i, DropIno(failed))
  BY Zenon, <1>1, <1>2 DEF Keeps
<1>4. CloseStage(i) \in {closed, online, DropIno(failed)}
  BY Zenon DEF CloseStage, InodeType
<1> QED
  BY Zenon, <1>1, <1>3, <1>4

-----------------------------------------------------------------------------
(* The moves of a thread.                                                    *)

\* Waking a thread changes nothing but its step.
LEMMA WokenType ==
    ASSUME NEW r, StepType(r)
    PROVE  /\ StepType([r EXCEPT !.at = "woken"])
           /\ [r EXCEPT !.at = "woken"].at = "woken"
           /\ [r EXCEPT !.at = "woken"].next = r.next
           /\ [r EXCEPT !.at = "woken"].mtime = r.mtime
<1> DEFINE q == [r EXCEPT !.at = "woken"]
<1>1. r \in [at : AllSteps, next : AllSteps, msg : {r.msg}, mtime : Nat, data : {r.data}]
  BY Zenon DEF StepType
<1>2. q.at = "woken" /\ q.next = r.next /\ q.mtime = r.mtime /\ q.msg = r.msg /\ q.data = r.data
  BY Zenon, <1>1
<1>3. q \in [at : AllSteps, next : AllSteps, msg : {r.msg}, mtime : Nat, data : {r.data}]
  BY Zenon, <1>1 DEF AllSteps
<1> QED BY Zenon, <1>2, <1>3 DEF StepType

\* The step of thread t after it goes on to "at".
Moved(t, at, next, msg, dat) ==
    [th EXCEPT ![t] = [at |-> at, next |-> next, msg |-> msg,
                       mtime |-> th[t].mtime, data |-> dat]]

\* A record of a thread with some of its fields changed.
LEMMA StepAt ==
    ASSUME NEW r, StepType(r), NEW at \in AllSteps
    PROVE  [r EXCEPT !.at = at] = [at |-> at, next |-> r.next, msg |-> r.msg,
                                   mtime |-> r.mtime, data |-> r.data]
BY DEF StepType

\* Such a record is typed.
LEMMA StepAtType ==
    ASSUME NEW r, StepType(r), NEW at \in AllSteps
    PROVE  StepType([at |-> at, next |-> r.next, msg |-> r.msg, mtime |-> r.mtime,
                     data |-> r.data])
<1>1. r.next \in AllSteps /\ r.mtime \in Nat
  BY Zenon DEF StepType
<1> QED BY ZenonT(30), <1>1 DEF StepType

\* The same with the data that a read returns.
LEMMA StepData ==
    ASSUME NEW r, StepType(r), NEW at \in AllSteps, NEW dat
    PROVE  [r EXCEPT !.at = at, !.data = dat] =
              [at |-> at, next |-> r.next, msg |-> r.msg, mtime |-> r.mtime, data |-> dat]
<1> DEFINE q == [at |-> at, next |-> r.next, msg |-> r.msg, mtime |-> r.mtime,
                 data |-> r.data]
<1>1. [r EXCEPT !.at = at] = q
  BY Zenon, StepAt
<1>2. [q EXCEPT !.data = dat] =
          [at |-> at, next |-> r.next, msg |-> r.msg, mtime |-> r.mtime, data |-> dat]
  OBVIOUS
<1> QED BY <1>1, <1>2, Zenon

\* The same with a command to send.
LEMMA StepMsg ==
    ASSUME NEW r, StepType(r), NEW msg, NEW next
    PROVE  [r EXCEPT !.at = "send", !.msg = msg, !.next = next] =
              [at |-> "send", next |-> next, msg |-> msg, mtime |-> r.mtime, data |-> r.data]
<1> DEFINE q == [at |-> "send", next |-> r.next, msg |-> r.msg, mtime |-> r.mtime,
                 data |-> r.data]
<1>1. [r EXCEPT !.at = "send"] = q
  BY Zenon, StepAt DEF AllSteps
<1>2. [q EXCEPT !.msg = msg] =
          [at |-> "send", next |-> r.next, msg |-> msg, mtime |-> r.mtime, data |-> r.data]
  OBVIOUS
<1>3. [[at |-> "send", next |-> r.next, msg |-> msg, mtime |-> r.mtime, data |-> r.data]
         EXCEPT !.next = next] =
          [at |-> "send", next |-> next, msg |-> msg, mtime |-> r.mtime, data |-> r.data]
  OBVIOUS
<1> QED BY <1>1, <1>2, <1>3, Zenon

\* The same with the mtime that arcopy found.
LEMMA StepMtime ==
    ASSUME NEW r, StepType(r), NEW mtime
    PROVE  [r EXCEPT !.at = "opened", !.mtime = mtime] =
              [at |-> "opened", next |-> r.next, msg |-> r.msg, mtime |-> mtime, data |-> r.data]
<1> DEFINE q == [at |-> "opened", next |-> r.next, msg |-> r.msg, mtime |-> r.mtime,
                 data |-> r.data]
<1>1. [r EXCEPT !.at = "opened"] = q
  BY Zenon, StepAt DEF AllSteps
<1>2. [q EXCEPT !.mtime = mtime] =
          [at |-> "opened", next |-> r.next, msg |-> r.msg, mtime |-> mtime, data |-> r.data]
  OBVIOUS
<1> QED BY <1>1, <1>2, Zenon

\* Each way to go on is of that form.
LEMMA MoveForms ==
    ASSUME IInv, NEW t \in Threads
    PROVE  /\ \A at \in AllSteps :
                 Goto(t, at) => th' = Moved(t, at, th[t].next, th[t].msg, th[t].data)
           /\ \A msg, next : SendCmd(t, msg, next) =>
                 th' = Moved(t, "send", next, msg, th[t].data)
           /\ \A at \in AllSteps : \A dat :
                 [th EXCEPT ![t] = [@ EXCEPT !.at = at, !.data = dat]]
                    = Moved(t, at, th[t].next, th[t].msg, dat)
<1>1. StepType(th[t]) /\ "send" \in AllSteps
  BY Zenon DEF IInv, ThreadType, AllSteps
<1>2. ASSUME NEW at \in AllSteps, Goto(t, at)
      PROVE  th' = Moved(t, at, th[t].next, th[t].msg, th[t].data)
  BY <1>1, <1>2, StepAt, Zenon DEF Goto, Moved
<1>3. ASSUME NEW msg, NEW next, SendCmd(t, msg, next)
      PROVE  th' = Moved(t, "send", next, msg, th[t].data)
  BY <1>1, <1>3, StepMsg, Zenon DEF SendCmd, Moved
<1>4. ASSUME NEW at \in AllSteps, NEW dat
      PROVE  [th EXCEPT ![t] = [@ EXCEPT !.at = at, !.data = dat]]
                = Moved(t, at, th[t].next, th[t].msg, dat)
  BY <1>1, StepData, Zenon DEF Moved
<1> QED BY Zenon, <1>2, <1>3, <1>4

\* Cancelling a stage (sam_cancel_stage) changes neither copies nor blocks.
LEMMA CancelKeeps ==
    ASSUME IInv, NEW err
    PROVE  /\ Keeps(ip, CancelStage(ip, err))
           /\ CancelStage(ip, err).write_mode = ip.write_mode
BY Zenon DEF IInv, CancelStage, Keeps, InodeType, HasCopy, HasGoodCopy

\* Damaging a copy marks the file damaged if no copy is left.
LEMMA DamageKeeps ==
    ASSUME NEW i, InodeType(i), NEW c \in Copies
    PROVE  LET d == Damage(i, c)
           IN /\ InodeType(d) /\ HasCopy(d)
              /\ d.arch_status = i.arch_status /\ d.mtime = i.mtime
              /\ d.offline = i.offline /\ d.write_mode = i.write_mode
              /\ \A o \in Copies : "stale" \in d.ar_flags[o] => "stale" \in i.ar_flags[o]
<1> DEFINE f == [i EXCEPT !.ar_flags[c] = @ \cup {"damaged"}]
           d == Damage(i, c)
           b == i.damaged \/ (i.offline /\ ~HasGoodCopy(f))
<1>1. /\ InodeType(f) /\ f.arch_status = i.arch_status /\ f.mtime = i.mtime
      /\ f.offline = i.offline /\ f.write_mode = i.write_mode /\ f.damaged = i.damaged
      /\ \A o \in Copies : "stale" \in f.ar_flags[o] => "stale" \in i.ar_flags[o]
  BY Zenon DEF InodeType, Flags
<1>2. d = [f EXCEPT !.damaged = b] /\ b \in BOOLEAN
  BY Zenon, <1>1 DEF Damage, InodeType
<1> HIDE DEF f, d
<1>3. /\ InodeType(d) /\ d.damaged = b /\ d.arch_status = f.arch_status
      /\ d.ar_flags = f.ar_flags /\ d.mtime = f.mtime /\ d.offline = f.offline
      /\ d.write_mode = f.write_mode
  BY Zenon, <1>1, <1>2 DEF InodeType
<1>4. HasCopy(d)
  BY Zenon, <1>1, <1>3 DEF HasCopy, HasGoodCopy
<1> QED BY Zenon, <1>1, <1>3, <1>4 DEF d

-----------------------------------------------------------------------------
(* Released files and stale copies.                                          *)

\* Initially the file is archived or online, and nothing happens to it.
LEMMA InitIInv == Init => IInv
<1> SUFFICES ASSUME Init PROVE IInv
  BY Zenon
<1>1. /\ setup \in Setups /\ setup.archived \subseteq Copies /\ setup.offline \in BOOLEAN
      /\ setup.offline => setup.archived # {}
  BY Zenon, SetupsAssumption DEF Init
<1>2. InodeType(ip) /\ ip.mtime = 1 /\ ip.ar_flags = [c \in Copies |-> {}]
      /\ ip.offline = setup.offline /\ ip.arch_status = setup.archived
  BY Zenon, <1>1 DEF Init, InodeType
<1>3. th = [t \in Threads |-> [at |-> "out", next |-> "out", msg |-> CancelReq,
                               mtime |-> 0, data |-> None]]
  BY Zenon DEF Init
<1>4. ThreadType
  BY Zenon, <1>3 DEF ThreadType, StepType, AllSteps
<1>5. \A t \in Threads : th[t].at = "out" /\ th[t].next = "out" /\ th[t].mtime = 0
  BY Zenon, <1>3
<1>6. HasCopy(ip) /\ ArchivedNotStale
  BY Zenon, <1>1, <1>2 DEF HasCopy, HasGoodCopy, ArchivedNotStale
<1>7. WriterInv
  BY Zenon, <1>5 DEF WriterInv, WriterSteps, Threads
<1>8. ArcopyInv
  <2>1. 0 <= ip.mtime
    BY <1>2
  <2> QED
    BY Zenon, <1>5, <2>1 DEF ArcopyInv, Threads
<1>9. UserInv
  BY Zenon, <1>5 DEF UserInv, UserSteps, Threads
<1> QED BY Zenon, <1>1, <1>2, <1>4, <1>6, <1>7, <1>8, <1>9 DEF IInv

\* Every step keeps the invariant.
LEMMA NextIInv == IInv /\ [Next]_vars => IInv'

\* They keep the invariant.
<1>QuietStep. ASSUME IInv, Quiet
    PROVE  IInv'
  <2> USE <1>QuietStep
  <2>1. setup' \in Setups /\ InodeType(ip)' /\ ThreadType' /\ ArchivedNotStale'
    BY Zenon DEF IInv, Quiet, Keeps, InodeType, ArchivedNotStale
  <2>2. ASSUME Protected'
        PROVE  HasCopy(ip)' /\ WriterInv' /\ ArcopyInv' /\ UserInv'
    <3>1. Protected /\ \A u \in Users : (Writes(u)' <=> Writes(u)) /\ UserSteps(u)' = UserSteps(u)
      BY Zenon, <2>2 DEF Quiet, Protected, Writes, UserSteps, Reads
    <3>2. HasCopy(ip)'
      BY Zenon, <3>1 DEF IInv, Quiet, Keeps, HasCopy, HasGoodCopy
    <3>3. WriterInv'
      BY Zenon, <3>1 DEF IInv, Quiet, Keeps, QuietThreads, WriterInv
    <3>4. ArcopyInv'
      BY Zenon, <3>1 DEF IInv, Quiet, Keeps, QuietThreads, ArcopyInv
    <3>5. UserInv'
      BY Zenon, <3>1 DEF IInv, Quiet, QuietThreads, UserInv
    <3> QED BY Zenon, <3>2, <3>3, <3>4, <3>5
  <2> QED BY Zenon, <2>1, <2>2 DEF IInv

\* A step of one thread is such a step if the thread's next step is.
<1>MoveQuiet. ASSUME IInv, setup' = setup, Keeps(ip, ip'),
           NEW t \in Threads, NEW at \in AllSteps, NEW next \in AllSteps, NEW msg, NEW dat,
           th' = [th EXCEPT ![t] = [at |-> at, next |-> next, msg |-> msg,
                                    mtime |-> th[t].mtime, data |-> dat]],
           t \in Copies => at = "out" \/ th[t].at # "out",
           \A u \in Users \ {t} :
               Writes(u) /\ th[u].at # "out" /\ ip.write_mode => ip'.write_mode,
           Protected /\ Writes(t) =>
               /\ at \in WriterSteps /\ (at = "send" => next = "trunc")
               /\ at # "out" => ip'.write_mode
               /\ at \in {"opened", "write"} => th[t].at \in {"opened", "write"},
           Protected /\ t \in Users /\ ~Writes(t) => {at, next} \subseteq UserSteps(t)
    PROVE  IInv'
  <2> USE <1>MoveQuiet
  <2>0. Users \cap Copies = {} /\ Threads = Users \cup Copies
    BY Zenon, CopiesAssumption DEF Threads
  <2>1. th'[t] = [at |-> at, next |-> next, msg |-> msg, mtime |-> th[t].mtime, data |-> dat]
        /\ \A o \in Threads \ {t} : th'[o] = th[o]
    BY Zenon DEF IInv, ThreadType
  <2>2. ThreadType'
    <3>1. StepType(th'[t])
      BY Zenon, <2>1 DEF IInv, ThreadType, StepType
    <3> QED BY Zenon, <2>1, <3>1 DEF IInv, ThreadType
  <2>3. ASSUME Protected PROVE QuietThreads
    <3>1. \A c \in Copies : th'[c].mtime = th[c].mtime /\ (th'[c].at # "out" => th[c].at # "out")
      BY <2>0, <2>1
    <3>2. ASSUME NEW u \in Users, Writes(u)
          PROVE  /\ th'[u].at \in WriterSteps
                 /\ th'[u].at = "send" => th'[u].next = "trunc"
                 /\ th'[u].at # "out" => ip'.write_mode
                 /\ th'[u].at \in {"opened", "write"} => th[u].at \in {"opened", "write"}
      BY <2>0, <2>1, <2>3, <3>2 DEF IInv, WriterInv
    <3>3. ASSUME NEW u \in Users, ~Writes(u)
          PROVE  {th'[u].at, th'[u].next} \subseteq UserSteps(u)
      BY <2>0, <2>1, <2>3, <3>3 DEF IInv, UserInv
    <3> QED BY Zenon, <3>1, <3>2, <3>3 DEF QuietThreads
  <2> QED BY Zenon, <2>2, <2>3, <1>QuietStep DEF Quiet

\* Waking the waiting threads leaves the threads as they were.
<1>WakeThreads. ASSUME IInv, th' = Wake \/ th' = th,
           \A u \in Users :
               Writes(u) /\ th[u].at # "out" /\ ip.write_mode => ip'.write_mode
    PROVE  ThreadType' /\ (Protected => QuietThreads)
  <2> USE <1>WakeThreads
  <2>0. Users \cap Copies = {} /\ Threads = Users \cup Copies
    BY Zenon, CopiesAssumption DEF Threads
  <2> DEFINE woken(t) == [th[t] EXCEPT !.at = "woken"]
  <2>1. \A t \in Threads : th'[t] = th[t] \/ (th[t].at = "wait" /\ th'[t] = woken(t))
    BY Zenon DEF Wake
  <2>2. ASSUME NEW t \in Threads
        PROVE  /\ StepType(woken(t)) /\ woken(t).at = "woken"
               /\ woken(t).next = th[t].next /\ woken(t).mtime = th[t].mtime
    <3>1. StepType(th[t])
      BY Zenon DEF IInv, ThreadType
    <3> QED BY <3>1, WokenType, Zenon
  <2> HIDE DEF woken
  <2>3. ThreadType'
    <3>1. th' = [t \in Threads |-> th'[t]]
      BY Zenon DEF IInv, ThreadType, Wake
    <3> QED BY Zenon, <2>1, <2>2, <3>1 DEF IInv, ThreadType
  <2>4. \A t \in Threads : /\ th'[t].mtime = th[t].mtime /\ th'[t].next = th[t].next
                           /\ \/ th'[t].at = th[t].at
                              \/ th[t].at = "wait" /\ th'[t].at = "woken"
    BY Zenon, <2>1, <2>2
  <2>5. ASSUME Protected PROVE QuietThreads
    <3>1. \A u \in Users : Writes(u) => th[u].at # "wait"
      BY Zenon, <2>5 DEF IInv, WriterInv, WriterSteps
    <3> QED BY <2>0, <2>4, <2>5, <3>1
            DEF QuietThreads, IInv, WriterInv, UserInv, UserSteps
  <2> QED BY Zenon, <2>3, <2>5

\* So a step that does no more to the threads is such a step.
<1>WakeQuiet. ASSUME IInv, setup' = setup, Keeps(ip, ip'), th' = Wake \/ th' = th,
           \A u \in Users :
               Writes(u) /\ th[u].at # "out" /\ ip.write_mode => ip'.write_mode
    PROVE  IInv'
  BY Zenon, <1>WakeQuiet, <1>WakeThreads, <1>QuietStep DEF Quiet

\* Closing the file (sam_close_vn) leaves write_mode to the other writers.
<1>CloseVnKeeps. ASSUME IInv, NEW t \in Threads
    PROVE  /\ Keeps(ip, CloseVn(ip, t))
           /\ \A u \in Users \ {t} :
                 th[u].at # "out" /\ ip.write_mode => CloseVn(ip, t).write_mode
  <2> USE <1>CloseVnKeeps
  <2>1. InodeType(ip)
    BY Zenon DEF IInv
  <2>2. Keeps(ip, CloseVn(ip, t))
    BY Zenon, <2>1 DEF CloseVn, Keeps, InodeType, HasCopy, HasGoodCopy
  <2>3. ASSUME NEW u \in Users \ {t}, th[u].at # "out", ip.write_mode
        PROVE  CloseVn(ip, t).write_mode
    <3>1. u \in Threads \ {t} /\ IsOpen(u)
      BY Zenon, <2>3, CopiesAssumption DEF Threads, IsOpen
    <3> QED BY Zenon, <2>1, <2>3, <3>1 DEF CloseVn, InodeType
  <2> QED BY Zenon, <2>2, <2>3

\* A call that fails, and a read that returns.
<1>EndKeeps. ASSUME IInv, setup' = setup, NEW t \in Threads, Fail(t) \/ Return(t),
           t \in Copies => th[t].at # "out",
           t \in Users /\ Protected => Writes(t) \/ th[t].next \in UserSteps(t),
           Writes(t) => Fail(t)
    PROVE  IInv'
  <2> USE <1>EndKeeps
  <2> DEFINE at == IF Fail(t) \/ t \notin Copies THEN "out" ELSE "copied"
             dat == IF Fail(t) THEN None ELSE ip.disk
  <2>0. at \in AllSteps
    BY Zenon DEF AllSteps
  <2>1. /\ th' = [th EXCEPT ![t] = [@ EXCEPT !.at = at, !.data = dat]]
        /\ ip' = CloseVn(ip, t)
    <3>1. CASE Fail(t)
      BY <3>1, Zenon DEF Fail
    <3>2. CASE ~Fail(t)
      <4>1. at = IF t \in Copies THEN "copied" ELSE "out"
        BY Zenon, <3>2
      <4> QED BY <3>2, <4>1, Zenon DEF Return
    <3> QED BY Zenon, <3>1, <3>2
  <2>2. Keeps(ip, ip') /\ \A u \in Users \ {t} :
           th[u].at # "out" /\ ip.write_mode => ip'.write_mode
    BY Zenon, <2>1, <1>CloseVnKeeps
  <2>3. th[t].next \in AllSteps
    BY Zenon DEF IInv, ThreadType, StepType
  <2>4. t \in Users => at = "out"
    BY Zenon, CopiesAssumption
  <2>5. Writes(t) => t \in Users
    BY Zenon DEF Writes
  <2>7. t \in Copies => at = "out" \/ th[t].at # "out"
    BY Zenon
  <2>8. Protected /\ Writes(t) =>
           /\ at \in WriterSteps /\ (at = "send" => th[t].next = "trunc")
           /\ at # "out" => ip'.write_mode
           /\ at \in {"opened", "write"} => th[t].at \in {"opened", "write"}
    BY Zenon, <2>4, <2>5 DEF WriterSteps
  <2>9. Protected /\ t \in Users /\ ~Writes(t) => {at, th[t].next} \subseteq UserSteps(t)
    BY Zenon, <2>4 DEF UserSteps
  <2> HIDE DEF at, dat
  <2>6. th' = Moved(t, at, th[t].next, th[t].msg, dat)
    BY Zenon, <2>0, <2>1, MoveForms
  <2> QED
    BY Zenon, <2>0, <2>2, <2>3, <2>6, <2>7, <2>8, <2>9, <1>MoveQuiet DEF Moved

\* A thread goes on to its next step.
<1>GotoKeeps. ASSUME IInv, setup' = setup, Keeps(ip, ip'),
           NEW t \in Threads, NEW at \in AllSteps, Goto(t, at),
           t \in Copies => at = "out" \/ th[t].at # "out",
           \A u \in Users \ {t} :
               Writes(u) /\ th[u].at # "out" /\ ip.write_mode => ip'.write_mode,
           Protected /\ Writes(t) =>
               /\ at \in WriterSteps \ {"send"}
               /\ at # "out" => ip'.write_mode
               /\ at \in {"opened", "write"} => th[t].at \in {"opened", "write"},
           Protected /\ t \in Users /\ ~Writes(t) => at \in UserSteps(t)
    PROVE  IInv'
  <2> USE <1>GotoKeeps
  <2>1. th' = Moved(t, at, th[t].next, th[t].msg, th[t].data)
    BY Zenon, MoveForms
  <2>2. th[t].next \in AllSteps
    BY Zenon DEF IInv, ThreadType, StepType
  <2>3. Protected /\ t \in Users /\ ~Writes(t) => {at, th[t].next} \subseteq UserSteps(t)
    BY Zenon DEF IInv, UserInv
  <2> QED BY Zenon, <2>1, <2>2, <2>3, <1>MoveQuiet DEF Moved

\* A thread drops inode_rwl to send a command.
<1>SendKeeps. ASSUME IInv, setup' = setup, Keeps(ip, ip'), ip'.write_mode = ip.write_mode,
           NEW t \in Threads, NEW msg, NEW next \in AllSteps, SendCmd(t, msg, next),
           t \in Copies => th[t].at # "out",
           Protected /\ Writes(t) => next = "trunc" /\ ip.write_mode,
           Protected /\ t \in Users /\ ~Writes(t) => next \in UserSteps(t)
    PROVE  IInv'
  <2> USE <1>SendKeeps
  <2> DEFINE at == "send"
  <2>1. th' = Moved(t, at, next, msg, th[t].data)
    BY MoveForms, ZenonT(30)
  <2>2. at \in AllSteps /\ (t \in Copies => at = "out" \/ th[t].at # "out")
    BY Zenon DEF AllSteps
  <2>3. Protected /\ Writes(t) =>
           /\ at \in WriterSteps /\ (at = "send" => next = "trunc")
           /\ at # "out" => ip'.write_mode
           /\ at \in {"opened", "write"} => th[t].at \in {"opened", "write"}
    BY Zenon DEF WriterSteps
  <2>4. Protected /\ t \in Users /\ ~Writes(t) => {at, next} \subseteq UserSteps(t)
    BY Zenon DEF UserSteps
  <2> HIDE DEF at
  <2> QED BY Zenon, <2>1, <2>2, <2>3, <2>4, <1>MoveQuiet DEF Moved

\* sam_proc_offline, which no thread that truncates the file enters.
<1>ProcOfflineKeeps. ASSUME IInv, setup' = setup, NEW t \in Threads, NEW next \in {"out", "woken"},
           ProcOffline(t, next),
           t \in Copies => th[t].at # "out" /\ next = "woken",
           ~(Protected /\ Writes(t)),
           Protected /\ t \in Users => next = "out" \/ Reads(t)
    PROVE  IInv'
  <2> USE <1>ProcOfflineKeeps
  <2>0. Writes(t) => t \in Users
    BY Zenon DEF Writes
  <2>1. CASE ip.staging
    <3> DEFINE at == IF next = "out" THEN "out" ELSE "wait"
    <3>1. Goto(t, at) /\ ip' = ip /\ Keeps(ip, ip')
      BY Zenon, <2>1 DEF ProcOffline, IInv, Keeps
    <3>2. at \in AllSteps
      BY Zenon DEF AllSteps
    <3>3. Protected /\ t \in Users /\ ~Writes(t) => at \in UserSteps(t)
      BY Zenon DEF UserSteps
    <3> HIDE DEF at
    <3> QED BY Zenon, <2>0, <3>1, <3>2, <3>3, <1>GotoKeeps
  <2>2. CASE ~ip.staging /\ ip.stage_pid /\ ip.stage_err = "ECANCELED"
    <3>1. Fail(t)
      BY Zenon, <2>2 DEF ProcOffline
    <3>2. t \in Users /\ Protected => Writes(t) \/ th[t].next \in UserSteps(t)
      BY Zenon DEF IInv, UserInv
    <3> QED BY Zenon, <3>1, <3>2, <1>EndKeeps
  <2>3. CASE ~ip.staging /\ ~(ip.stage_pid /\ ip.stage_err = "ECANCELED")
    <3>1. ip' = [ip EXCEPT !.stage_err = "none", !.staging = TRUE]
          /\ SendCmd(t, StageReq, next)
      BY Zenon, <2>3 DEF ProcOffline
    <3>2. Keeps(ip, ip') /\ ip'.write_mode = ip.write_mode
      BY Zenon, <3>1 DEF IInv, Keeps, InodeType, HasCopy, HasGoodCopy
    <3>3. next \in AllSteps
      BY Zenon DEF AllSteps
    <3>4. Protected /\ t \in Users /\ ~Writes(t) => next \in UserSteps(t)
      BY Zenon DEF UserSteps
    <3>5. SendCmd(t, StageReq, next)
      BY Zenon, <3>1
    <3> QED BY Zenon, <3>2, <3>3, <3>4, <3>5, <1>SendKeeps
  <2> QED BY Zenon, <2>1, <2>2, <2>3

\* sam_drop_ino and sam_close_stage leave write_mode alone.
<1>ModeKept. ASSUME NEW i, InodeType(i)
    PROVE  DropIno(i).write_mode = i.write_mode /\ CloseStage(i).write_mode = i.write_mode
  <2> USE <1>ModeKept
  <2>1. \A j : InodeType(j) => DropIno(j).write_mode = j.write_mode
    BY Zenon DEF DropIno, InodeType
  <2> DEFINE closed == [i EXCEPT !.staging = FALSE, !.stage_pid = FALSE]
             err == IF i.stage_err = "none" THEN "ECOMM" ELSE i.stage_err
             failed == [closed EXCEPT !.stage_err = err]
             done == \A c \in Copies : "unarchived" \notin i.ar_flags[c]
             online == [closed EXCEPT !.offline = FALSE, !.archdone = i.archdone /\ done]
  <2>2. CloseStage(i) \in {closed, online, DropIno(failed)}
    BY Zenon DEF CloseStage, InodeType
  <2>3. /\ closed.write_mode = i.write_mode /\ online.write_mode = i.write_mode
        /\ failed.write_mode = i.write_mode /\ InodeType(failed)
    BY Zenon DEF InodeType
  <2> QED BY Zenon, <2>1, <2>2, <2>3

\* Keeps is transitive.
<1>KeepsBoth. ASSUME NEW i, NEW j, NEW k, Keeps(i, j), Keeps(j, k)
    PROVE  Keeps(i, k)
  BY Zenon, <1>KeepsBoth DEF Keeps

\* A command is sent to sam-stagerd.
<1>SendStageCmdKeeps. ASSUME IInv, NEW t \in Threads, SendStageCmd(t)
    PROVE  IInv'
  <2> USE <1>SendStageCmdKeeps
  <2> DEFINE at == th[t].next
  <2>1. setup' = setup /\ Goto(t, at) /\ th[t].at = "send"
        /\ ip' = IF at = "out" THEN CloseVn(ip, t) ELSE ip
    BY Zenon DEF SendStageCmd
  <2>2. at \in AllSteps
    BY Zenon DEF IInv, ThreadType, StepType
  <2>3. Keeps(ip, ip') /\ \A u \in Users \ {t} :
           th[u].at # "out" /\ ip.write_mode => ip'.write_mode
    <3>1. Keeps(ip, ip)
      BY Zenon DEF IInv, Keeps
    <3> QED BY Zenon, <2>1, <3>1, <1>CloseVnKeeps
  <2>4. Protected /\ Writes(t) => at = "trunc" /\ ip.write_mode
    BY Zenon, <2>1 DEF IInv, WriterInv, Writes
  <2>5. Protected /\ t \in Users /\ ~Writes(t) => at \in UserSteps(t)
    BY Zenon DEF IInv, UserInv
  <2>6. Protected /\ Writes(t) =>
           /\ at \in WriterSteps \ {"send"}
           /\ at # "out" => ip'.write_mode
           /\ at \in {"opened", "write"} => th[t].at \in {"opened", "write"}
    BY Zenon, <2>1, <2>4 DEF WriterSteps
  <2> HIDE DEF at
  <2> QED BY Zenon, <2>1, <2>2, <2>3, <2>5, <2>6, <1>GotoKeeps

\* stage(1).
<1>StageFileKeeps. ASSUME IInv, NEW u \in Users, StageFile(u)
    PROVE  IInv'
  <2> USE <1>StageFileKeeps
  <2>1. u \in Threads /\ u \notin Copies /\ ~Writes(u) /\ setup' = setup
        /\ ProcOffline(u, "out")
    BY Zenon, CopiesAssumption DEF StageFile, Threads, Writes
  <2> DEFINE next == "out"
  <2>2. next \in {"out", "woken"} /\ next = "out" /\ ProcOffline(u, next)
    BY Zenon, <2>1
  <2> HIDE DEF next
  <2> QED BY Zenon, <2>1, <2>2, <1>ProcOfflineKeeps

\* A read of the file, by a thread or by arcopy.
<1>ReadVnKeeps. ASSUME IInv, NEW t \in Threads, ReadVn(t)
    PROVE  IInv'
  <2> USE <1>ReadVnKeeps
  <2> DEFINE next == "woken"
  <2>1. /\ setup' = setup /\ Reads(t) /\ ~Writes(t)
        /\ t \in Copies => th[t].at # "out"
    BY Zenon, CopiesAssumption DEF ReadVn, Reads, Writes
  <2>2. ProcOffline(t, next) \/ Return(t)
    BY Zenon DEF ReadVn
  <2>3. next \in {"out", "woken"} /\ next = "woken"
    BY Zenon
  <2>4. t \in Users /\ Protected => th[t].next \in UserSteps(t)
    BY Zenon, <2>1 DEF IInv, UserInv
  <2> HIDE DEF next
  <2>5. CASE ProcOffline(t, next)
    BY Zenon, <2>1, <2>3, <2>5, <1>ProcOfflineKeeps
  <2>6. CASE Return(t)
    BY Zenon, <2>1, <2>4, <2>6, <1>EndKeeps
  <2> QED BY Zenon, <2>2, <2>5, <2>6

\* A thread that waits in sam_proc_offline is woken.
<1>WaitRmKeeps. ASSUME IInv, NEW t \in Threads, WaitRm(t)
    PROVE  IInv'
  <2> USE <1>WaitRmKeeps
  <2> DEFINE at1 == "wait"
             at2 == "dlock"
             next == "woken"
  <2>1. setup' = setup /\ th[t].at = "woken"
    BY Zenon DEF WaitRm
  <2>2. \/ Goto(t, at1) /\ ip' = ip
        \/ Fail(t)
        \/ Reads(t) /\ Return(t)
        \/ ~Reads(t) /\ ProcOffline(t, next)
        \/ ~Reads(t) /\ Goto(t, at2) /\ ip' = ip
    BY Zenon DEF WaitRm
  <2>3. Protected => ~Writes(t)
    BY Zenon, <2>1 DEF IInv, WriterInv, WriterSteps, Writes
  <2>4. Protected /\ t \in Users => Reads(t) /\ th[t].next \in UserSteps(t)
    BY Zenon, <2>1, <2>3 DEF IInv, UserInv, UserSteps
  <2>5. Protected => Reads(t)
    BY Zenon, <2>4, CopiesAssumption DEF Reads, Threads
  <2>6. Reads(t) => ~Writes(t)
    BY Zenon, CopiesAssumption DEF Reads, Writes
  <2>7. Keeps(ip, ip)
    BY Zenon DEF IInv, Keeps
  <2>8. at1 \in AllSteps /\ at2 \in AllSteps /\ next \in {"out", "woken"} /\ next = "woken"
    BY Zenon DEF AllSteps
  <2>9. Reads(t) => at1 \in UserSteps(t)
    BY Zenon DEF UserSteps
  <2> HIDE DEF at1, at2, next
  <2>10. CASE Goto(t, at1) /\ ip' = ip
    BY Zenon, <2>1, <2>3, <2>5, <2>7, <2>8, <2>9, <2>10, <1>GotoKeeps
  <2>11. CASE Fail(t)
    BY Zenon, <2>1, <2>4, <2>11, <1>EndKeeps
  <2>12. CASE Reads(t) /\ Return(t)
    BY Zenon, <2>1, <2>4, <2>6, <2>12, <1>EndKeeps
  <2>13. CASE ~Reads(t) /\ ProcOffline(t, next)
    BY Zenon, <2>1, <2>5, <2>8, <2>13, <1>ProcOfflineKeeps
  <2>14. CASE ~Reads(t) /\ Goto(t, at2) /\ ip' = ip
    BY Zenon, <2>1, <2>5, <2>7, <2>8, <2>14, <1>GotoKeeps
  <2> QED BY Zenon, <2>2, <2>10, <2>11, <2>12, <2>13, <2>14

\* A signal interrupts a wait for a stage.
<1>InterruptKeeps. ASSUME IInv, NEW u \in Users, Interrupt(u)
    PROVE  IInv'
  <2> USE <1>InterruptKeeps
  <2> DEFINE next == "out"
  <2>1. setup' = setup /\ th[u].at = "wait" /\ u \in Threads /\ u \notin Copies
    BY Zenon, CopiesAssumption DEF Interrupt, Threads
  <2>2. \/ Fail(u)
        \/ ip' = CancelStage(ip, "EINTR") /\ SendCmd(u, CancelReq, next)
    BY Zenon DEF Interrupt
  <2>3. Protected => ~Writes(u)
    BY Zenon, <2>1 DEF IInv, WriterInv, WriterSteps
  <2>4. Protected => th[u].next \in UserSteps(u)
    BY Zenon, <2>3 DEF IInv, UserInv
  <2>5. next \in AllSteps /\ next \in UserSteps(u)
    BY Zenon DEF AllSteps, UserSteps
  <2> HIDE DEF next
  <2>6. CASE Fail(u)
    BY Zenon, <2>1, <2>4, <2>6, <1>EndKeeps
  <2>7. CASE ip' = CancelStage(ip, "EINTR") /\ SendCmd(u, CancelReq, next)
    <3>1. Keeps(ip, ip') /\ ip'.write_mode = ip.write_mode
      BY Zenon, <2>7, CancelKeeps
    <3> QED BY Zenon, <2>1, <2>3, <2>5, <2>7, <3>1, <1>SendKeeps
  <2> QED BY Zenon, <2>2, <2>6, <2>7

\* An open for writing.
<1>OpenVnKeeps. ASSUME IInv, NEW u \in Users, OpenVn(u)
    PROVE  IInv'
  <2> USE <1>OpenVnKeeps
  <2> DEFINE at == IF setup.job[u] = "trunc" THEN "clear" ELSE "opened"
  <2>1. setup' = setup /\ Writes(u) /\ ip' = [ip EXCEPT !.write_mode = TRUE] /\ Goto(u, at)
    BY Zenon DEF OpenVn
  <2>2. u \in Threads /\ u \notin Copies
    BY Zenon, CopiesAssumption DEF Threads
  <2>3. Keeps(ip, ip') /\ ip'.write_mode
    BY Zenon, <2>1 DEF IInv, Keeps, InodeType, HasCopy, HasGoodCopy
  <2>4. at \in AllSteps
    BY Zenon DEF AllSteps
  <2>5. Protected => at = "clear"
    BY Zenon, <2>1 DEF Protected, Writes
  <2> HIDE DEF at
  <2>6. Protected /\ Writes(u) => at \in WriterSteps \ {"send"} /\ at \notin {"opened", "write"}
    BY Zenon, <2>5 DEF WriterSteps
  <2> QED BY Zenon, <2>1, <2>2, <2>3, <2>4, <2>6, <1>GotoKeeps

\* Truncation first cancels a stage (sam_clear_ino).
<1>ClearInoKeeps. ASSUME IInv, NEW u \in Users, ClearIno(u)
    PROVE  IInv'
  <2> USE <1>ClearInoKeeps
  <2> DEFINE next == "trunc"
  <2>1. setup' = setup /\ th[u].at = "clear" /\ u \in Threads /\ u \notin Copies
    BY Zenon, CopiesAssumption DEF ClearIno, Threads
  <2>2. \/ Goto(u, next) /\ ip' = ip
        \/ ip' = CancelStage(ip, "ECANCELED") /\ SendCmd(u, CancelReq, next)
    BY Zenon DEF ClearIno
  <2>3. Protected => Writes(u)
    BY Zenon, <2>1 DEF IInv, UserInv, UserSteps
  <2>4. Protected => ip.write_mode
    BY Zenon, <2>1, <2>3 DEF IInv, WriterInv
  <2>5. /\ next \in AllSteps /\ next = "trunc"
        /\ next \in WriterSteps \ {"send"} /\ next \notin {"opened", "write"}
    BY Zenon DEF AllSteps, WriterSteps
  <2> HIDE DEF next
  <2>6. CASE Goto(u, next) /\ ip' = ip
    <3>1. Keeps(ip, ip')
      BY Zenon, <2>6 DEF IInv, Keeps
    <3> QED BY Zenon, <2>1, <2>3, <2>4, <2>5, <2>6, <3>1, <1>GotoKeeps
  <2>7. CASE ip' = CancelStage(ip, "ECANCELED") /\ SendCmd(u, CancelReq, next)
    <3>1. Keeps(ip, ip') /\ ip'.write_mode = ip.write_mode
      BY Zenon, <2>7, CancelKeeps
    <3> QED BY Zenon, <2>1, <2>3, <2>4, <2>5, <2>7, <3>1, <1>SendKeeps
  <2> QED BY Zenon, <2>2, <2>6, <2>7

\* The data of a write is copied to the blocks.
<1>CopyInKeeps. ASSUME IInv, setup' = setup, NEW u \in Users, CopyIn(u),
           Protected => Writes(u) /\ th[u].at = "opened"
    PROVE  IInv'
  <2> USE <1>CopyInKeeps
  <2> DEFINE at == "write"
  <2>1. Goto(u, at) /\ u \in Threads /\ u \notin Copies
    BY Zenon, CopiesAssumption DEF CopyIn, Threads
  <2>2. Keeps(ip, ip') /\ ip'.write_mode = ip.write_mode
    BY Zenon DEF CopyIn, IInv, Keeps, InodeType, HasCopy, HasGoodCopy
  <2>3. Protected => ip.write_mode
    BY Zenon DEF IInv, WriterInv
  <2>4. at \in AllSteps /\ at \in WriterSteps \ {"send"}
    BY Zenon DEF AllSteps, WriterSteps
  <2> HIDE DEF at
  <2> QED BY Zenon, <2>1, <2>2, <2>3, <2>4, <1>GotoKeeps

\* A write, which waits for a stage if the file is offline.
<1>WriteVnKeeps. ASSUME IInv, NEW u \in Users, WriteVn(u)
    PROVE  IInv'
  <2> USE <1>WriteVnKeeps
  <2> DEFINE next == "woken"
  <2>1. setup' = setup /\ Writes(u) /\ th[u].at = "opened" /\ u \in Threads /\ u \notin Copies
    BY Zenon, CopiesAssumption DEF WriteVn, Threads
  <2>2. (ip.offline /\ ProcOffline(u, next)) \/ CopyIn(u)
    BY Zenon DEF WriteVn
  <2>3. Protected => ~ip.offline
    BY Zenon, <2>1 DEF IInv, WriterInv
  <2>4. next \in {"out", "woken"} /\ next = "woken"
    BY Zenon
  <2> HIDE DEF next
  <2>5. CASE ip.offline /\ ProcOffline(u, next)
    BY Zenon, <2>1, <2>3, <2>4, <2>5, <1>ProcOfflineKeeps
  <2>6. CASE CopyIn(u)
    BY Zenon, <2>1, <2>6, <1>CopyInKeeps
  <2> QED BY Zenon, <2>2, <2>5, <2>6

\* A write after a stage.
<1>WriteOnlineKeeps. ASSUME IInv, NEW u \in Users, WriteOnline(u)
    PROVE  IInv'
  <2> USE <1>WriteOnlineKeeps
  <2>1. ~Protected
    BY Zenon DEF WriteOnline, IInv, WriterInv, UserInv, WriterSteps, UserSteps
  <2> QED BY Zenon, <2>1, <1>CopyInKeeps DEF WriteOnline

\* A writer closes the file.
<1>CloseWriteKeeps. ASSUME IInv, NEW u \in Users, CloseWrite(u)
    PROVE  IInv'
  <2> USE <1>CloseWriteKeeps
  <2> DEFINE at == "out"
  <2>1. setup' = setup /\ Goto(u, at) /\ ip' = CloseVn(ip, u) /\ u \in Threads
    BY Zenon DEF CloseWrite, Threads
  <2>2. /\ at \in AllSteps /\ at = "out" /\ at \in UserSteps(u)
        /\ at \in WriterSteps \ {"send"} /\ at \notin {"opened", "write"}
    BY Zenon DEF AllSteps, UserSteps, WriterSteps
  <2>3. Keeps(ip, ip') /\ \A o \in Users \ {u} :
           th[o].at # "out" /\ ip.write_mode => ip'.write_mode
    BY Zenon, <2>1, <1>CloseVnKeeps
  <2> HIDE DEF at
  <2> QED BY Zenon, <2>1, <2>2, <2>3, <1>GotoKeeps

\* The release command and the releaser.
<1>ReleaseKeeps. ASSUME IInv, ReleaseFile \/ DropCall
    PROVE  IInv'
  <2> USE <1>ReleaseKeeps
  <2>1. setup' = setup /\ th' = th /\ (ip' = ip \/ ip' = DropIno(ip)) /\ InodeType(ip)
    BY Zenon DEF ReleaseFile, DropCall, IInv
  <2>2. Keeps(ip, ip') /\ ip'.write_mode = ip.write_mode
    BY Zenon, <2>1, DropKeeps, <1>ModeKept DEF IInv, Keeps
  <2> QED BY Zenon, <2>1, <2>2, <1>WakeQuiet

\* The end of a stage, with or without an error.
<1>StageEndKeeps. ASSUME IInv, setup' = setup, th' = Wake, NEW i, Keeps(ip, i),
           i.write_mode = ip.write_mode, ip' = CloseStage(i)
    PROVE  IInv'
  <2> USE <1>StageEndKeeps
  <2>1. Keeps(i, ip') /\ ip'.write_mode = i.write_mode
    BY Zenon, CloseKeeps, <1>ModeKept DEF Keeps
  <2>2. Keeps(ip, ip')
    BY Zenon, <2>1, <1>KeepsBoth
  <2> QED BY Zenon, <2>1, <2>2, <1>WakeQuiet

\* An answer of sam-stagerd that ends a stage with an error.
<1>StageErrorKeeps. ASSUME IInv, setup' = setup, NEW err, StageError(err)
    PROVE  IInv'
  <2> USE <1>StageErrorKeeps
  <2>1. CASE ip' = ip /\ th' = th
    <3>1. Keeps(ip, ip')
      BY Zenon, <2>1 DEF IInv, Keeps
    <3> QED BY Zenon, <2>1, <3>1, <1>WakeQuiet
  <2>2. CASE ip' = CloseStage([ip EXCEPT !.stage_err = err]) /\ th' = Wake
    <3> DEFINE i == [ip EXCEPT !.stage_err = err]
    <3>1. Keeps(ip, i) /\ i.write_mode = ip.write_mode
      BY Zenon DEF IInv, Keeps, InodeType, HasCopy, HasGoodCopy
    <3>2. ip' = CloseStage(i) /\ th' = Wake
      BY Zenon, <2>2
    <3> HIDE DEF i
    <3> QED BY Zenon, <3>1, <3>2, <1>StageEndKeeps
  <2> QED BY Zenon, <2>1, <2>2 DEF StageError

\* sam-stagerd reads a command, or drops a duplicate request.
<1>ReceiveKeeps. ASSUME IInv, ReceiveStage \/ ReceiveCancel \/ \E k \in DOMAIN work : Duplicate(k)
    PROVE  IInv'
  <2> USE <1>ReceiveKeeps
  <2>1. /\ setup' = setup
        /\ \/ StageError("EINVAL") \/ StageError("ECANCELED")
           \/ ip' = ip /\ (th' = th \/ th' = Wake)
    BY Zenon DEF ReceiveStage, ReceiveCancel, Duplicate
  <2>2. Keeps(ip, ip)
    BY Zenon DEF IInv, Keeps
  <2> QED BY Zenon, <2>1, <2>2, <1>StageErrorKeeps, <1>WakeQuiet

\* The kernel's answer to a stage that sam-stagerd opens.
<1>StageResponseKeeps. ASSUME IInv, NEW k \in DOMAIN work, StageResponse(k)
    PROVE  IInv'
  <2> USE <1>StageResponseKeeps
  <2> DEFINE i == [ip EXCEPT !.staging = TRUE]
             j == [ip EXCEPT !.staging = TRUE, !.stage_pid = TRUE]
  <2>1. /\ setup' = setup
        /\ \/ ip' = ip /\ th' = th
           \/ ip' = CloseStage(i) /\ th' = Wake
           \/ ip' = j /\ th' = th
    BY Zenon DEF StageResponse
  <2>2. /\ Keeps(ip, ip)
        /\ Keeps(ip, i) /\ i.write_mode = ip.write_mode
        /\ Keeps(ip, j) /\ j.write_mode = ip.write_mode
    BY Zenon DEF IInv, Keeps, InodeType, HasCopy, HasGoodCopy
  <2> HIDE DEF i, j
  <2>3. CASE ip' = CloseStage(i) /\ th' = Wake
    BY Zenon, <2>1, <2>2, <2>3, <1>StageEndKeeps
  <2>4. CASE ip' \in {ip, j} /\ th' = th
    BY Zenon, <2>1, <2>2, <2>4, <1>WakeQuiet
  <2> QED BY Zenon, <2>1, <2>3, <2>4

\* sam-stagerd writes to the blocks.
<1>StageWriteKeeps. ASSUME IInv, NEW k \in DOMAIN work, StageWrite(k)
    PROVE  IInv'
  <2> USE <1>StageWriteKeeps
  <2>1. setup' = setup /\ th' = Wake
        /\ \E d, err : ip' \in {[ip EXCEPT !.disk = d, !.size = 1], [ip EXCEPT !.stage_err = err]}
    BY Zenon DEF StageWrite
  <2>2. Keeps(ip, ip') /\ ip'.write_mode = ip.write_mode
    <3>1. PICK d, err : ip' = [ip EXCEPT !.disk = d, !.size = 1]
                        \/ ip' = [ip EXCEPT !.stage_err = err]
      BY Zenon, <2>1
    <3> QED BY ZenonT(30), <3>1 DEF IInv, Keeps, InodeType, HasCopy, HasGoodCopy
  <2> QED BY Zenon, <2>1, <2>2, <1>WakeQuiet

\* A modification (sam_mark_ino) outdates the copies that are being made.
<1>MarkKeeps. ASSUME IInv, setup' = setup, NEW j, InodeType(j), j.mtime = ip.mtime,
           j.write_mode = ip.write_mode, Protected => ~j.offline,
           NEW now \in Now, ip' = MarkIno(j, now),
           NEW u \in Users, NEW at \in {"opened", "written"}, Goto(u, at),
           Protected => Writes(u) /\ th[u].at # "out"
    PROVE  IInv'
  <2> USE <1>MarkKeeps
  <2>0. u \in Threads /\ u \notin Copies /\ at \in AllSteps /\ Threads = Users \cup Copies
    BY Zenon, CopiesAssumption DEF Threads, AllSteps
  <2>1. now \in Nat /\ now >= ip.mtime
    BY Times DEF IInv, InodeType
  <2>2. /\ InodeType(ip') /\ ip'.arch_status = {} /\ ip'.mtime = now
        /\ ip'.offline = j.offline /\ ip'.write_mode = ip.write_mode
    BY <2>1, ZenonT(30) DEF MarkIno, InodeType, Flags
  <2>3. th' = Moved(u, at, th[u].next, th[u].msg, th[u].data)
    BY Zenon, <2>0, MoveForms
  <2>4. /\ th'[u] = [at |-> at, next |-> th[u].next, msg |-> th[u].msg,
                     mtime |-> th[u].mtime, data |-> th[u].data]
        /\ \A o \in Threads \ {u} : th'[o] = th[o]
        /\ th' = [t \in Threads |-> th'[t]]
    BY Zenon, <2>0, <2>3 DEF Moved, IInv, ThreadType
  <2>5. ThreadType'
    <3>1. StepType(th'[u])
      <4>1. StepType(th[u])
        BY Zenon, <2>0 DEF IInv, ThreadType
      <4> DEFINE q == [at |-> at, next |-> th[u].next, msg |-> th[u].msg,
                       mtime |-> th[u].mtime, data |-> th[u].data]
      <4>2. StepType(q)
        BY Zenon, <2>0, <4>1, StepAtType
      <4>3. th'[u] = q
        BY Zenon, <2>4
      <4> HIDE DEF q
      <4> QED BY Zenon, <4>2, <4>3
    <3> QED BY Zenon, <2>4, <3>1 DEF IInv, ThreadType
  <2>6. ASSUME Protected'
        PROVE  HasCopy(ip)' /\ WriterInv' /\ ArcopyInv' /\ UserInv'
    <3>1. Protected /\ \A o \in Users : (Writes(o)' <=> Writes(o)) /\ UserSteps(o)' = UserSteps(o)
      BY Zenon, <2>6 DEF Protected, Writes, UserSteps, Reads
    <3>2. HasCopy(ip)'
      BY Zenon, <2>2, <3>1 DEF HasCopy
    <3>3. WriterInv'
      BY <2>0, <2>2, <2>4, <3>1 DEF IInv, WriterInv, WriterSteps
    <3>4. ArcopyInv'
      <4>1. \A c \in Copies : th'[c] = th[c] /\ th[c].mtime \in Nat
        BY Zenon, <2>0, <2>4 DEF IInv, ThreadType, StepType
      <4>2. \A c \in Copies : th[c].mtime <= ip.mtime
        BY Zenon, <3>1 DEF IInv, ArcopyInv
      <4>3. ip.mtime \in Nat
        BY Zenon DEF IInv, InodeType
      <4>4. \A c \in Copies : th'[c].mtime <= ip'.mtime
        BY <2>1, <2>2, <4>1, <4>2, <4>3
      <4>5. \A c \in Copies : th'[c].at # "out" => th'[c].mtime # ip'.mtime
        BY Zenon, <2>2, <3>1, <4>1, <4>3, Times DEF Protected
      <4> QED BY Zenon, <4>4, <4>5 DEF ArcopyInv
    <3>5. UserInv'
      BY <2>0, <2>4, <3>1 DEF IInv, UserInv
    <3> QED BY Zenon, <3>2, <3>3, <3>4, <3>5
  <2>7. ArchivedNotStale'
    BY Zenon, <2>2 DEF ArchivedNotStale
  <2> QED BY Zenon, <2>2, <2>5, <2>6, <2>7 DEF IInv

\* A truncation.
<1>TruncateInoKeeps. ASSUME IInv, NEW u \in Users, TruncateIno(u)
    PROVE  IInv'
  <2> USE <1>TruncateInoKeeps
  <2> DEFINE at1 == "clear"
             at2 == "opened"
             j == [ip EXCEPT !.disk = 0, !.size = 0, !.rmsize = 0, !.offline = FALSE]
  <2>1. setup' = setup /\ th[u].at = "trunc" /\ u \in Threads /\ u \notin Copies
    BY Zenon, CopiesAssumption DEF TruncateIno, Threads
  <2>2. \/ Goto(u, at1) /\ ip' = ip
        \/ Goto(u, at2) /\ \E now \in Now : ip' = MarkIno(j, now)
    BY Zenon DEF TruncateIno
  <2>3. Protected => Writes(u) /\ ip.write_mode
    BY Zenon, <2>1 DEF IInv, WriterInv, UserInv, UserSteps
  <2>4. InodeType(j) /\ j.mtime = ip.mtime /\ j.write_mode = ip.write_mode /\ ~j.offline
    BY Zenon DEF IInv, InodeType
  <2>5. /\ at1 \in AllSteps /\ at1 \in WriterSteps \ {"send"} /\ at1 \notin {"opened", "write"}
        /\ at2 \in {"opened", "written"}
    BY Zenon DEF AllSteps, WriterSteps
  <2> HIDE DEF at1, at2, j
  <2>6. CASE Goto(u, at1) /\ ip' = ip
    <3>1. Keeps(ip, ip')
      BY Zenon, <2>6 DEF IInv, Keeps
    <3> QED BY Zenon, <2>1, <2>3, <2>5, <2>6, <3>1, <1>GotoKeeps
  <2>7. ASSUME Goto(u, at2), NEW now \in Now, ip' = MarkIno(j, now) PROVE IInv'
    BY Zenon, <2>1, <2>3, <2>4, <2>5, <2>7, <1>MarkKeeps
  <2> QED BY Zenon, <2>2, <2>6, <2>7

\* The end of a write.
<1>WriteDoneKeeps. ASSUME IInv, NEW u \in Users, WriteDone(u)
    PROVE  IInv'
  <2> USE <1>WriteDoneKeeps
  <2> DEFINE at == "written"
             j == [ip EXCEPT !.rmsize = 1]
  <2>1. setup' = setup /\ th[u].at = "write" /\ Goto(u, at)
        /\ \E now \in Now : ip' = MarkIno(j, now)
    BY Zenon DEF WriteDone
  <2>2. Protected => Writes(u) /\ ~ip.offline
    BY Zenon, <2>1 DEF IInv, WriterInv, UserInv, UserSteps
  <2>3. /\ InodeType(j) /\ j.mtime = ip.mtime /\ j.write_mode = ip.write_mode
        /\ j.offline = ip.offline
    BY Zenon DEF IInv, InodeType
  <2>4. at \in {"opened", "written"} /\ th[u].at # "out"
    BY Zenon, <2>1
  <2> HIDE DEF at, j
  <2> QED BY Zenon, <2>1, <2>2, <2>3, <2>4, <1>MarkKeeps

\* Such a step keeps the invariant if it leaves an offline file a copy and
\* makes no copy of a file that is being written.
<1>CopiesStep. ASSUME IInv, setup' = setup, InodeType(ip'), ip'.mtime = ip.mtime, ThreadType',
           ArchivedNotStale',
           Protected => /\ HasCopy(ip') /\ QuietThreads
                        /\ \A u \in Users : Writes(u) /\ th'[u].at \in {"opened", "write"} =>
                              ip'.arch_status = {} /\ ~ip'.offline
    PROVE  IInv'
  <2> USE <1>CopiesStep
  <2>1. ASSUME Protected'
        PROVE  HasCopy(ip)' /\ WriterInv' /\ ArcopyInv' /\ UserInv'
    <3>1. Protected /\ \A u \in Users : (Writes(u)' <=> Writes(u)) /\ UserSteps(u)' = UserSteps(u)
      BY Zenon, <2>1 DEF Protected, Writes, UserSteps, Reads
    <3>3. WriterInv'
      BY Zenon, <3>1 DEF QuietThreads, WriterInv
    <3>4. ArcopyInv'
      BY Zenon, <3>1 DEF IInv, QuietThreads, ArcopyInv
    <3>5. UserInv'
      BY Zenon, <3>1 DEF QuietThreads, UserInv
    <3> QED BY Zenon, <3>1, <3>3, <3>4, <3>5
  <2> QED BY Zenon, <2>1 DEF IInv

\* A thread that truncated the file has no archived copy to lose.
<1>NoCopies. ASSUME IInv, Protected, ip.arch_status # {} \/ ip.offline,
           NEW u \in Users, Writes(u)
    PROVE  th[u].at \notin {"opened", "write"}
  BY Zenon, <1>NoCopies DEF IInv, WriterInv

\* arcopy opens the file, which no thread has open for writing.
<1>IdOpenArchKeeps. ASSUME IInv, NEW c \in Copies, IdOpenArch(c)
    PROVE  IInv'
  <2> USE <1>IdOpenArchKeeps
  <2>0. c \in Threads /\ c \notin Users /\ Threads = Users \cup Copies
        /\ \A u \in Users : u \in Threads \ {c}
    BY Zenon, CopiesAssumption DEF Threads
  <2>1. /\ setup' = setup /\ ~ip.write_mode /\ ip' = [ip EXCEPT !.arch_count = TRUE]
        /\ th' = [th EXCEPT ![c] = [@ EXCEPT !.at = "opened", !.mtime = ip.mtime]]
    BY Zenon DEF IdOpenArch
  <2>2. /\ InodeType(ip') /\ ip'.mtime = ip.mtime /\ ip'.arch_status = ip.arch_status
        /\ ip'.ar_flags = ip.ar_flags /\ ip'.offline = ip.offline
        /\ ip'.damaged = ip.damaged /\ ip'.write_mode = ip.write_mode
    BY Zenon, <2>1 DEF IInv, InodeType
  <2> DEFINE r == [at |-> "opened", next |-> th[c].next, msg |-> th[c].msg,
                   mtime |-> ip.mtime, data |-> th[c].data]
  <2>3. th' = [th EXCEPT ![c] = r]
    <3>1. StepType(th[c])
      BY Zenon, <2>0 DEF IInv, ThreadType
    <3> QED BY <2>1, <3>1, StepMtime, Zenon
  <2>4. StepType(r) /\ r.mtime = ip.mtime
    BY Zenon, <2>0 DEF IInv, ThreadType, StepType, InodeType, AllSteps
  <2> HIDE DEF r
  <2>5. th'[c] = r /\ (\A o \in Threads \ {c} : th'[o] = th[o])
        /\ th' = [t \in Threads |-> th'[t]]
    BY Zenon, <2>0, <2>3 DEF IInv, ThreadType
  <2>6. ThreadType'
    BY Zenon, <2>4, <2>5 DEF IInv, ThreadType
  <2>7. ASSUME Protected'
        PROVE  HasCopy(ip)' /\ WriterInv' /\ ArcopyInv' /\ UserInv'
    <3>1. Protected /\ \A u \in Users : (Writes(u)' <=> Writes(u)) /\ UserSteps(u)' = UserSteps(u)
      BY Zenon, <2>1, <2>7 DEF Protected, Writes, UserSteps, Reads
    <3>2. HasCopy(ip)'
      BY Zenon, <2>2, <3>1 DEF IInv, HasCopy, HasGoodCopy
    <3>3. WriterInv'
      BY Zenon, <2>0, <2>2, <2>5, <3>1 DEF IInv, WriterInv
    <3>4. ArcopyInv'
      <4>1. \A u \in Users : Writes(u) => th[u].at \notin {"opened", "write"}
        BY Zenon, <2>1, <3>1 DEF IInv, WriterInv
      <4>2. ip.mtime \in Nat
        BY Zenon DEF IInv, InodeType
      <4>3. \A o \in Copies : th'[o].mtime <= ip.mtime
        BY <2>0, <2>4, <2>5, <3>1, <4>2 DEF IInv, ArcopyInv
      <4> QED BY Zenon, <2>0, <2>2, <2>5, <3>1, <4>1, <4>3 DEF ArcopyInv
    <3>5. UserInv'
      BY Zenon, <2>0, <2>5, <3>1 DEF IInv, UserInv
    <3> QED BY Zenon, <3>2, <3>3, <3>4, <3>5
  <2>8. ArchivedNotStale'
    BY Zenon, <2>1, <2>2 DEF IInv, ArchivedNotStale
  <2> QED BY Zenon, <2>1, <2>2, <2>6, <2>7, <2>8 DEF IInv

\* What recording a copy (sam_set_archive) does to the inode.
<1>ArchivedKeeps. ASSUME NEW i, InodeType(i), NEW c \in Copies, NEW mtime
    PROVE  LET a == Archived(i, c, mtime)
           IN /\ InodeType(a) /\ a.mtime = i.mtime /\ a.write_mode = i.write_mode
              /\ HasCopy(i) => HasCopy(a)
              /\ a.arch_status \subseteq i.arch_status \cup {c}
              /\ mtime # i.mtime => a.arch_status = i.arch_status
              /\ mtime # i.mtime /\ i.arch_status = {} /\ ~i.offline => ~a.offline
              /\ \A o \in Copies : "stale" \in a.ar_flags[o] =>
                    o # c /\ "stale" \in i.ar_flags[o]
  <2> USE <1>ArchivedKeeps
  <2> DEFINE inconsistent == mtime # i.mtime
             status == IF inconsistent THEN i.arch_status ELSE i.arch_status \cup {c}
             flags  == [i.ar_flags EXCEPT ![c] =
                          IF inconsistent THEN {"inconsistent"} ELSE {}]
             a == Archived(i, c, mtime)
  <2>1. \E done, nodrop :
           LET n == [i EXCEPT !.arch_status = status, !.ar_flags = flags,
                              !.archdone = done, !.archnodrop = nodrop]
           IN a \in {n, DropIno(n)}
    BY ZenonT(30) DEF Archived
  <2>2. PICK done, nodrop :
           LET n == [i EXCEPT !.arch_status = status, !.ar_flags = flags,
                              !.archdone = done, !.archnodrop = nodrop]
           IN a \in {n, DropIno(n)}
    BY Zenon, <2>1
  <2> DEFINE n == [i EXCEPT !.arch_status = status, !.ar_flags = flags,
                            !.archdone = done, !.archnodrop = nodrop]
  <2>3. a \in {n, DropIno(n)}
    BY Zenon, <2>2
  <2>4. /\ status \in SUBSET Copies /\ flags \in [Copies -> SUBSET Flags]
        /\ status \subseteq i.arch_status \cup {c} /\ i.arch_status \subseteq status
        /\ mtime # i.mtime => status = i.arch_status
        /\ \A o \in Copies : /\ "stale" \in flags[o] => o # c /\ "stale" \in i.ar_flags[o]
                             /\ "damaged" \in flags[o] => "damaged" \in i.ar_flags[o]
    BY Zenon DEF InodeType, Flags
  <2> HIDE DEF status, flags, a
  <2>5. /\ InodeType(n) /\ n.arch_status = status /\ n.ar_flags = flags
        /\ n.mtime = i.mtime /\ n.offline = i.offline /\ n.damaged = i.damaged
        /\ n.write_mode = i.write_mode
    BY Zenon, <2>4 DEF InodeType
  <2> HIDE DEF n
  <2>6. HasCopy(i) => HasCopy(n)
    BY Zenon, <2>4, <2>5 DEF HasCopy, HasGoodCopy, InodeType
  <2>7. Keeps(n, a) /\ a.write_mode = n.write_mode
    <3>1. Keeps(n, n)
      BY Zenon, <2>5 DEF Keeps
    <3> QED BY Zenon, <2>3, <2>5, <3>1, DropKeeps, <1>ModeKept
  <2> QED BY Zenon, <2>4, <2>5, <2>6, <2>7 DEF Keeps, a

\* arcopy records its copy, unless the file was modified since it was opened.
<1>SetArchiveKeeps. ASSUME IInv, NEW c \in Copies, SetArchive(c)
    PROVE  IInv'
  <2> USE <1>SetArchiveKeeps
  <2> DEFINE at == "out"
             a == Archived(ip, c, th[c].mtime)
  <2>0. c \in Threads /\ c \notin Users /\ Threads = Users \cup Copies
        /\ \A u \in Users : u \in Threads \ {c} /\ u # c
    BY Zenon, CopiesAssumption DEF Threads
  <2>1. setup' = setup /\ th[c].at = "copied" /\ Goto(c, at) /\ (ip' = ip \/ ip' = a)
    BY Zenon DEF SetArchive
  <2>2. at \in AllSteps /\ at = "out" /\ InodeType(ip)
    BY Zenon DEF AllSteps, IInv
  <2>3. /\ InodeType(a) /\ a.mtime = ip.mtime /\ a.write_mode = ip.write_mode
        /\ HasCopy(ip) => HasCopy(a)
        /\ a.arch_status \subseteq ip.arch_status \cup {c}
        /\ th[c].mtime # ip.mtime => a.arch_status = ip.arch_status
        /\ th[c].mtime # ip.mtime /\ ip.arch_status = {} /\ ~ip.offline => ~a.offline
        /\ \A o \in Copies : "stale" \in a.ar_flags[o] => o # c /\ "stale" \in ip.ar_flags[o]
    BY Zenon, <2>2, <1>ArchivedKeeps
  <2> HIDE DEF at
  <2>4. CASE ip' = ip
    <3>1. Keeps(ip, ip')
      BY Zenon, <2>4 DEF IInv, Keeps
    <3>2. ~Writes(c)
      BY Zenon, <2>0 DEF Writes
    <3> QED BY Zenon, <2>0, <2>1, <2>2, <2>4, <3>1, <3>2, <1>GotoKeeps
  <2>5. CASE ip' = a
    <3> HIDE DEF a
    <3>1. th' = Moved(c, at, th[c].next, th[c].msg, th[c].data)
      BY Zenon, <2>0, <2>1, <2>2, MoveForms
    <3>2. /\ th'[c] = [at |-> at, next |-> th[c].next, msg |-> th[c].msg,
                       mtime |-> th[c].mtime, data |-> th[c].data]
          /\ \A o \in Threads \ {c} : th'[o] = th[o]
          /\ th' = [t \in Threads |-> th'[t]]
      BY Zenon, <2>0, <3>1 DEF Moved, IInv, ThreadType
    <3>3. ThreadType'
      <4>1. StepType(th'[c])
        <5>1. StepType(th[c])
          BY Zenon, <2>0, <2>2 DEF IInv, ThreadType
        <5> DEFINE q == [at |-> at, next |-> th[c].next, msg |-> th[c].msg,
                         mtime |-> th[c].mtime, data |-> th[c].data]
        <5>2. StepType(q)
          BY Zenon, <2>0, <2>2, <5>1, StepAtType
        <5>3. th'[c] = q
          BY Zenon, <3>2
        <5> HIDE DEF q
        <5> QED BY Zenon, <5>2, <5>3
      <4> QED BY Zenon, <3>2, <4>1 DEF IInv, ThreadType
    <3>4. ASSUME Protected
          PROVE  QuietThreads
      <4>1. \A o \in Copies : th'[o].mtime = th[o].mtime /\ (th'[o].at # "out" => th[o].at # "out")
        BY <2>0, <2>2, <3>2
      <4> QED BY <2>0, <2>3, <2>5, <3>2, <3>4, <4>1 DEF IInv, WriterInv, UserInv, QuietThreads
    <3>5. ASSUME Protected, NEW u \in Users, Writes(u), th'[u].at \in {"opened", "write"}
          PROVE  a.arch_status = {} /\ ~a.offline
      <4>1. th[u].at \in {"opened", "write"}
        BY Zenon, <2>0, <3>2, <3>5
      <4>2. th[c].mtime # ip.mtime
        BY Zenon, <2>1, <3>5, <4>1 DEF IInv, ArcopyInv
      <4>3. ip.arch_status = {} /\ ~ip.offline
        BY Zenon, <3>5, <4>1 DEF IInv, WriterInv
      <4> QED BY Zenon, <2>3, <4>2, <4>3
    <3>6. ArchivedNotStale'
      <4>1. ASSUME "unrearch" \notin setup.admin, NEW o \in ip'.arch_status
            PROVE  "stale" \notin ip'.ar_flags[o]
        BY Zenon, <2>2, <2>3, <2>5, <4>1 DEF IInv, ArchivedNotStale, InodeType
      <4> QED BY Zenon, <2>1, <4>1 DEF ArchivedNotStale
    <3>7. Protected => HasCopy(ip')
      BY Zenon, <2>3, <2>5 DEF IInv
    <3> QED BY Zenon, <2>1, <2>3, <2>5, <3>3, <3>4, <3>5, <3>6, <3>7, <1>CopiesStep
  <2> QED BY Zenon, <2>1, <2>4, <2>5

\* A step that changes the copies of a file that has one, and no thread.
<1>CommandKeeps. ASSUME IInv, setup' = setup, th' = Wake \/ th' = th,
           ip.arch_status # {} \/ ip.offline,
           InodeType(ip'), ip'.mtime = ip.mtime, ArchivedNotStale',
           \A u \in Users :
               Writes(u) /\ th[u].at # "out" /\ ip.write_mode => ip'.write_mode,
           Protected => HasCopy(ip')
    PROVE  IInv'
  <2> USE <1>CommandKeeps
  <2>1. ThreadType' /\ (Protected => QuietThreads)
    BY Zenon, <1>WakeThreads
  <2>2. ASSUME Protected, NEW u \in Users, Writes(u)
        PROVE  th'[u].at \notin {"opened", "write"}
    BY Zenon, <2>1, <2>2, <1>NoCopies DEF QuietThreads
  <2> QED BY Zenon, <2>1, <2>2, <1>CopiesStep

\* unarchive keeps another copy of an offline file, unless it is forced.
<1>UnarchiveKeeps. ASSUME IInv, NEW c \in Copies,
           Protected /\ ip.offline => ~LastCopy(ip, c)
    PROVE  LET j == Unarchive(ip, c)
           IN /\ InodeType(j) /\ j.mtime = ip.mtime /\ j.write_mode = ip.write_mode
              /\ j.arch_status = ip.arch_status \ {c}
              /\ \A o \in Copies \ {c} : j.ar_flags[o] = ip.ar_flags[o]
              /\ Protected => HasCopy(j)
  <2> USE <1>UnarchiveKeeps
  <2> DEFINE j == Unarchive(ip, c)
  <2>1. InodeType(ip)
    BY Zenon DEF IInv
  <2>2. /\ InodeType(j) /\ j.mtime = ip.mtime /\ j.write_mode = ip.write_mode
        /\ j.arch_status = ip.arch_status \ {c} /\ j.offline = ip.offline
        /\ \A o \in Copies \ {c} : j.ar_flags[o] = ip.ar_flags[o]
    BY <2>1, ZenonT(30) DEF Unarchive, InodeType, Flags
  <2> HIDE DEF j
  <2>3. Protected => HasCopy(j)
    BY Zenon, <2>1, <2>2 DEF HasCopy, HasGoodCopy, LastCopy, InodeType
  <2> QED BY Zenon, <2>2, <2>3 DEF j

\* exarchive exchanges two copies with their flags.
<1>ExarchiveKeeps. ASSUME NEW i, InodeType(i), NEW c \in Copies, NEW d \in Copies \ {c}
    PROVE  LET j == Exarchive(i, c, d)
           IN /\ InodeType(j) /\ j.mtime = i.mtime /\ j.write_mode = i.write_mode
              /\ HasCopy(i) => HasCopy(j)
              /\ (\A n \in i.arch_status : "stale" \notin i.ar_flags[n]) =>
                    \A n \in j.arch_status : "stale" \notin j.ar_flags[n]
  <2> USE <1>ExarchiveKeeps
  <2> DEFINE f == Swap(i.ar_flags, c, d)
             s == {n \in Copies : (IF n = c THEN d ELSE IF n = d THEN c ELSE n)
                                     \in i.arch_status}
             done == i.archdone /\ d \in i.arch_status
             j == [i EXCEPT !.arch_status = s, !.ar_flags = f, !.archdone = done]
  <2>1. j = Exarchive(i, c, d)
    BY Zenon DEF Exarchive
  <2>2. /\ f \in [Copies -> SUBSET Flags] /\ f[c] = i.ar_flags[d] /\ f[d] = i.ar_flags[c]
        /\ \A n \in Copies \ {c, d} : f[n] = i.ar_flags[n]
    BY Zenon DEF Swap, InodeType
  <2>3. /\ s \in SUBSET Copies /\ (c \in s <=> d \in i.arch_status)
        /\ d \in s <=> c \in i.arch_status
        /\ \A n \in Copies \ {c, d} : n \in s <=> n \in i.arch_status
    BY Zenon
  <2> HIDE DEF f, s, done
  <2>4. /\ InodeType(j) /\ j.mtime = i.mtime /\ j.write_mode = i.write_mode
        /\ j.offline = i.offline /\ j.damaged = i.damaged
        /\ j.arch_status = s /\ j.ar_flags = f
    BY Zenon, <2>2, <2>3 DEF InodeType
  <2> HIDE DEF j
  <2>5. i.arch_status \subseteq Copies
    BY Zenon DEF InodeType
  <2>6. HasGoodCopy(i) => HasGoodCopy(j)
    BY Zenon, <2>2, <2>3, <2>4, <2>5 DEF HasGoodCopy
  <2>7. (\A n \in i.arch_status : "stale" \notin i.ar_flags[n]) =>
           \A n \in j.arch_status : "stale" \notin j.ar_flags[n]
    BY Zenon, <2>2, <2>3, <2>4, <2>5
  <2>8. HasCopy(i) => HasCopy(j)
    BY Zenon, <2>4, <2>6 DEF HasCopy
  <2> QED BY Zenon, <2>1, <2>4, <2>7, <2>8

\* rearch flags a copy.
<1>RearchKeeps. ASSUME NEW i, InodeType(i), NEW c \in Copies
    PROVE  LET j == Rearch(i, c)
           IN /\ InodeType(j) /\ j.mtime = i.mtime /\ j.write_mode = i.write_mode
              /\ HasCopy(i) => HasCopy(j)
              /\ j.arch_status = i.arch_status
              /\ \A o \in Copies : "stale" \in j.ar_flags[o] => "stale" \in i.ar_flags[o]
  <2> USE <1>RearchKeeps
  <2> DEFINE j == Rearch(i, c)
  <2>1. /\ InodeType(j) /\ j.mtime = i.mtime /\ j.write_mode = i.write_mode
        /\ j.offline = i.offline /\ j.damaged = i.damaged /\ j.arch_status = i.arch_status
        /\ \A o \in Copies : j.ar_flags[o] \subseteq i.ar_flags[o] \cup {"rearch"}
    BY Zenon DEF Rearch, InodeType, Flags
  <2> HIDE DEF j
  <2>2. HasCopy(i) => HasCopy(j)
    BY Zenon, <2>1 DEF HasCopy, HasGoodCopy, InodeType
  <2> QED BY Zenon, <2>1, <2>2 DEF j

\* undamage and unrearch clear flags of a copy and count it as archived.
<1>UndoKeeps. ASSUME NEW i, InodeType(i), NEW c \in Copies,
           NEW j, j = Undamage(i, c) \/ j = Unrearch(i, c)
    PROVE  /\ InodeType(j) /\ j.mtime = i.mtime /\ j.write_mode = i.write_mode
           /\ HasCopy(i) => HasCopy(j)
           /\ j = Undamage(i, c) =>
                 /\ j.arch_status = i.arch_status \cup {c}
                 /\ \A o \in Copies : "stale" \in j.ar_flags[o] =>
                       o # c /\ "stale" \in i.ar_flags[o]
  <2> USE <1>UndoKeeps
  <2>1. /\ InodeType(j) /\ j.mtime = i.mtime /\ j.write_mode = i.write_mode
        /\ j.offline = i.offline /\ j.arch_status = i.arch_status \cup {c}
        /\ \A o \in Copies : j.ar_flags[o] \subseteq i.ar_flags[o]
        /\ \/ j.damaged = i.damaged
           \/ "damaged" \notin j.ar_flags[c]
        /\ j = Undamage(i, c) => "stale" \notin j.ar_flags[c]
    <3>1. CASE j = Undamage(i, c)
      BY <3>1, ZenonT(30) DEF Undamage, InodeType, Flags
    <3>2. CASE j = Unrearch(i, c) /\ j # Undamage(i, c)
      BY <3>2, ZenonT(30) DEF Unrearch, InodeType, Flags
    <3> QED BY Zenon, <3>1, <3>2
  <2>2. HasCopy(i) => HasCopy(j)
    BY Zenon, <2>1 DEF HasCopy, HasGoodCopy, InodeType
  <2> QED BY Zenon, <2>1, <2>2

\* A command on a copy.
<1>ArchiveCopyKeeps. ASSUME IInv, NEW op \in setup.admin, NEW c \in Copies, ArchiveCopy(op, c)
    PROVE  IInv'
  <2> USE <1>ArchiveCopyKeeps
  <2>0. /\ setup' = setup /\ th' = th /\ InodeType(ip)
        /\ ip.arch_status # {} \/ ip.offline
        /\ ip.arch_status \subseteq Copies
    BY Zenon DEF ArchiveCopy, IInv, InodeType
  <2> DEFINE NS(j) == \A n \in j.arch_status : "stale" \notin j.ar_flags[n]
  <2>1. SUFFICES /\ InodeType(ip') /\ ip'.mtime = ip.mtime /\ ip'.write_mode = ip.write_mode
                 /\ "unrearch" \notin setup.admin => NS(ip')
                 /\ Protected => HasCopy(ip')
    <3>1. ArchivedNotStale'
      BY Zenon, <2>0, <2>1 DEF ArchivedNotStale
    <3> QED BY Zenon, <2>0, <2>1, <3>1, <1>CommandKeeps
  <2>2. /\ "unrearch" \notin setup.admin => NS(ip)
        /\ Protected => HasCopy(ip)
    BY Zenon DEF IInv, ArchivedNotStale
  <2>3. CASE /\ op \in {"unarchive", "unarchive -f"}
             /\ ip.offline /\ LastCopy(ip, c) => op = "unarchive -f"
             /\ ip' = Unarchive(ip, c)
    <3>1. Protected /\ ip.offline => ~LastCopy(ip, c)
      BY Zenon, <2>3 DEF Protected
    <3> QED BY Zenon, <2>0, <2>2, <2>3, <3>1, <1>UnarchiveKeeps
  <2>4. CASE op = "exarchive" /\ \E d \in Copies \ {c} : ip' = Exarchive(ip, c, d)
    BY <2>0, <2>2, <2>4, <1>ExarchiveKeeps
  <2>5. CASE op = "damage" /\ ip' = Damage(ip, c)
    BY Zenon, <2>0, <2>2, <2>5, DamageKeeps
  <2>6. CASE op = "damage -a" /\ ip' = Rearch(Damage(ip, c), c)
    <3> DEFINE d == Damage(ip, c)
    <3>1. /\ InodeType(d) /\ HasCopy(d)
          /\ d.arch_status = ip.arch_status /\ d.mtime = ip.mtime
          /\ d.offline = ip.offline /\ d.write_mode = ip.write_mode
          /\ \A o \in Copies : "stale" \in d.ar_flags[o] => "stale" \in ip.ar_flags[o]
      BY Zenon, <2>0, DamageKeeps
    <3>2. ip' = Rearch(d, c)
      BY Zenon, <2>6
    <3> HIDE DEF d
    <3> QED BY <2>0, <2>2, <3>1, <3>2, <1>RearchKeeps, ZenonT(30)
  <2>7. CASE op = "undamage" /\ ip' = Undamage(ip, c)
    BY <2>0, <2>2, <2>7, <1>UndoKeeps
  <2>8. CASE op = "rearch" /\ ip' = Rearch(ip, c)
    BY Zenon, <2>0, <2>2, <2>8, <1>RearchKeeps
  <2>9. CASE op = "unrearch" /\ ip' = Unrearch(ip, c)
    BY <2>0, <2>2, <2>9, <1>UndoKeeps
  <2> QED BY Zenon, <2>3, <2>4, <2>5, <2>6, <2>7, <2>8, <2>9 DEF ArchiveCopy

\* sam-stagerd cannot read the medium of a copy.
<1>MediaErrorKeeps. ASSUME IInv, NEW k \in DOMAIN work, MediaError(k)
    PROVE  IInv'
  <2> USE <1>MediaErrorKeeps
  <2> DEFINE c == GetArcopy(work[k])
             j == [ip EXCEPT !.staging = TRUE, !.stage_err = "EIO"]
  <2>1. /\ setup' = setup /\ th' = th /\ InodeType(ip)
        /\ \/ c \in ip.arch_status /\ ip' = Damage(ip, c)
           \/ ip' = ip \/ ip' = j
    BY Zenon DEF MediaError, IInv
  <2>2. Keeps(ip, ip) /\ Keeps(ip, j) /\ j.write_mode = ip.write_mode
    BY Zenon DEF IInv, Keeps, InodeType, HasCopy, HasGoodCopy
  <2> HIDE DEF c, j
  <2>3. CASE c \in ip.arch_status /\ ip' = Damage(ip, c)
    <3>1. c \in Copies /\ ip.arch_status # {} /\ ip.arch_status \subseteq Copies
      BY Zenon, <2>1, <2>3 DEF InodeType
    <3>2. /\ InodeType(ip') /\ HasCopy(ip')
          /\ ip'.arch_status = ip.arch_status /\ ip'.mtime = ip.mtime
          /\ ip'.write_mode = ip.write_mode
          /\ \A o \in Copies : "stale" \in ip'.ar_flags[o] => "stale" \in ip.ar_flags[o]
      BY Zenon, <2>1, <2>3, <3>1, DamageKeeps
    <3>3. ArchivedNotStale'
      BY Zenon, <2>1, <3>1, <3>2 DEF IInv, ArchivedNotStale
    <3> QED BY Zenon, <2>1, <3>1, <3>2, <3>3, <1>CommandKeeps
  <2>4. CASE ip' = ip \/ ip' = j
    BY Zenon, <2>1, <2>2, <2>4, <1>WakeQuiet
  <2> QED BY Zenon, <2>1, <2>3, <2>4

\* sam-stagerd closes the file, and marks the copy that failed.
<1>StageCloseKeeps. ASSUME IInv, NEW k \in DOMAIN work, StageClose(k)
    PROVE  IInv'
  <2> USE <1>StageCloseKeeps
  <2> DEFINE c == GetArcopy(work[k])
             i == CloseStage(ip)
             b == i.write_mode /\ \E t \in Threads : IsOpen(t)
             j == [i EXCEPT !.write_mode = b]
  <2>1. /\ setup' = setup /\ th' = Wake /\ InodeType(ip)
        /\ ip' = j \/ (c \in i.arch_status /\ ip' = Damage(j, c))
    BY Zenon DEF StageClose, IInv
  <2>2. Keeps(ip, i) /\ i.write_mode = ip.write_mode
    BY Zenon, <2>1, CloseKeeps, <1>ModeKept
  <2>3. b \in BOOLEAN
    BY Zenon, <2>2 DEF Keeps, InodeType
  <2>4. ASSUME NEW u \in Users, th[u].at # "out", ip.write_mode
        PROVE  b
    BY Zenon, <2>2, <2>4, CopiesAssumption DEF IsOpen, Threads
  <2> HIDE DEF c, i, b
  <2>5. Keeps(i, j) /\ j.write_mode = b
    BY Zenon, <2>2, <2>3 DEF Keeps, InodeType, HasCopy, HasGoodCopy
  <2> HIDE DEF j
  <2>6. Keeps(ip, j)
    BY Zenon, <2>2, <2>5, <1>KeepsBoth
  <2>7. CASE ip' = j
    BY Zenon, <2>1, <2>4, <2>5, <2>6, <2>7, <1>WakeQuiet
  <2>8. CASE c \in i.arch_status /\ ip' = Damage(j, c)
    <3>1. c \in Copies /\ ip.arch_status # {} /\ ip.arch_status \subseteq Copies
          /\ InodeType(j) /\ j.arch_status = ip.arch_status /\ j.mtime = ip.mtime
          /\ j.ar_flags = ip.ar_flags
      BY Zenon, <2>1, <2>2, <2>6, <2>8 DEF Keeps, InodeType
    <3>2. /\ InodeType(ip') /\ HasCopy(ip')
          /\ ip'.arch_status = ip.arch_status /\ ip'.mtime = ip.mtime
          /\ ip'.write_mode = b
          /\ \A o \in Copies : "stale" \in ip'.ar_flags[o] => "stale" \in ip.ar_flags[o]
      <4> DEFINE d == Damage(j, c)
      <4>1. /\ InodeType(d) /\ HasCopy(d)
            /\ d.arch_status = j.arch_status /\ d.mtime = j.mtime
            /\ d.write_mode = j.write_mode
            /\ \A o \in Copies : "stale" \in d.ar_flags[o] => "stale" \in j.ar_flags[o]
        BY Zenon, <3>1, DamageKeeps
      <4>2. ip' = d
        BY Zenon, <2>8
      <4> HIDE DEF d
      <4> QED BY Zenon, <2>5, <3>1, <4>1, <4>2
    <3>3. ArchivedNotStale'
      BY Zenon, <2>1, <3>1, <3>2 DEF IInv, ArchivedNotStale
    <3> QED BY Zenon, <2>1, <2>4, <3>1, <3>2, <3>3, <1>CommandKeeps
  <2> QED BY Zenon, <2>1, <2>7, <2>8
<1> SUFFICES ASSUME IInv, [Next]_vars PROVE IInv'
  BY Zenon
<1>1. ASSUME NEW u \in Users, User(u) PROVE IInv'
  <2>1. u \in Threads
    BY Zenon DEF Threads
  <2> QED BY Zenon, <1>1, <2>1, <1>StageFileKeeps, <1>ReadVnKeeps, <1>InterruptKeeps, <1>OpenVnKeeps,
             <1>ClearInoKeeps, <1>TruncateInoKeeps, <1>WriteVnKeeps, <1>WriteOnlineKeeps,
             <1>WriteDoneKeeps, <1>CloseWriteKeeps DEF User
<1>2. ASSUME NEW c \in Copies, Arcopy(c) PROVE IInv'
  <2>1. c \in Threads
    BY Zenon DEF Threads
  <2> QED BY Zenon, <1>2, <2>1, <1>IdOpenArchKeeps, <1>ReadVnKeeps, <1>SetArchiveKeeps DEF Arcopy
<1>3. ASSUME NEW t \in Threads, SendStageCmd(t) \/ WaitRm(t) PROVE IInv'
  BY Zenon, <1>3, <1>SendStageCmdKeeps, <1>WaitRmKeeps
<1>4. ASSUME NEW k \in DOMAIN work, Stager(k) PROVE IInv'
  BY Zenon, <1>4, <1>ReceiveKeeps, <1>StageResponseKeeps, <1>StageWriteKeeps, <1>MediaErrorKeeps,
     <1>StageCloseKeeps DEF Stager
<1>5. CASE UNCHANGED vars
  BY <1>5, ZenonT(30) DEF vars, IInv, InodeType, ThreadType, StepType, ArchivedNotStale, Protected,
     HasCopy, HasGoodCopy, WriterInv, ArcopyInv, UserInv, Writes, UserSteps, Reads
<1> QED BY Zenon, <1>1, <1>2, <1>3, <1>4, <1>5, <1>ReleaseKeeps, <1>ArchiveCopyKeeps, <1>ReceiveKeeps
        DEF Next

\* Whatever threads, arcopy processes, the releaser, sam-stagerd, its media
\* errors and the commands on copies do, in any order: a file whose blocks
\* were released has an undamaged archive copy, or is marked damaged, if no
\* thread writes it in place, no unarchive is forced and it has an archive age.
THEOREM ReleasedFileHasCopy == Spec => []OfflineHasCopy
<1>1. IInv => OfflineHasCopy
  BY Zenon DEF IInv, OfflineHasCopy, HasCopy
<1> QED BY <1>1, InitIInv, NextIInv, PTL DEF Spec

\* A copy that the inode counts as archived is never a stale one, which
\* sam_drop_ino and sam_close_stage take for granted.
THEOREM NoStaleCopyIsArchived == Spec => []ArchivedNotStale
<1>1. IInv => ArchivedNotStale
  BY Zenon DEF IInv
<1> QED BY <1>1, InitIInv, NextIInv, PTL DEF Spec

-----------------------------------------------------------------------------
(* The requests on their way to sam-stagerd, and those that it holds.        *)

\* A command, with a set of copies to stage from in a request.
Msgs == [cancel : {TRUE}]
            \cup [cancel : {FALSE}, image : [Copies -> Nat \cup {None}],
                  at : {"queued", "active", "done"}, failed : BOOLEAN,
                  copies : SUBSET Copies]

\* sam-stagerd marks a request, and leaves out a copy that it cannot read.
Closed(G) ==
    \A r \in G : ~r.cancel =>
        /\ [r EXCEPT !.at = "active"] \in G
        /\ [r EXCEPT !.at = "done"] \in G
        /\ [r EXCEPT !.at = "done", !.failed = TRUE] \in G
        /\ \A c \in Copies : [r EXCEPT !.copies = @ \ {c}] \in G

\* The requests of G that name a copy.
Named(G) == {r \in G : ~r.cancel /\ r.copies # {}}

Sends(G) == \A t \in Threads : th[t].at = "send" => th[t].msg \in G

\* Every command that is about to be sent, sent or queued is one of G.
Tracks(G) ==
    /\ Sends(G)
    /\ cmds \in Seq(G)
    /\ work \in Seq(Named(G))

\* The copy that sam-stagerd stages from is one of the request.
LEMMA ArcopyOfRequest ==
    ASSUME NEW r, r.copies \subseteq Copies, r.copies # {}
    PROVE  GetArcopy(r) \in r.copies
<1> DEFINE S == r.copies
<1>1. S \subseteq 1..4 /\ S # {}
  BY Zenon, CopiesAssumption
<1>2. \A o \in S : o \in Nat /\ (o = 1 \/ o = 2 \/ o = 3 \/ o = 4)
  BY <1>1
<1>3. (1 \in S \/ 2 \in S \/ 3 \in S \/ 4 \in S)
  BY Zenon, <1>1, <1>2
<1> HIDE DEF S
<1>4. \E c \in S : \A o \in S : c <= o
  BY <1>2, <1>3
<1>5. \E c \in r.copies : \A o \in r.copies : c <= o
  BY Zenon, <1>4 DEF S
<1> QED BY Zenon, <1>5 DEF GetArcopy

LEMMA WorkElement ==
    ASSUME NEW S, work \in Seq(S), NEW k \in DOMAIN work
    PROVE  work[k] \in S
OBVIOUS

\* The commands under way stay in a set that sam-stagerd's marks do not leave.
LEMMA TracksNext ==
    ASSUME IInv, NEW G, Tracks(G), Closed(G), G \subseteq Msgs, StageReq \in G, CancelReq \in G,
           Next
    PROVE  Tracks(G)'

\* Removing a request from the queue.
<1>WithoutType. ASSUME NEW S, work \in Seq(S), NEW k \in DOMAIN work
    PROVE  Without(k) \in Seq(S)
  BY <1>WithoutType DEF Without

\* Marking a request in the queue.
<1>WorkType. ASSUME NEW S, work \in Seq(S), NEW k \in DOMAIN work, NEW r \in S
    PROVE  [work EXCEPT ![k] = r] \in Seq(S)
  BY <1>WorkType

\* A thread that goes on sends nothing, or a command of G.
<1>MovedSends. ASSUME ThreadType, Sends(G), NEW t \in Threads, NEW at, NEW next, NEW msg, NEW dat,
           th' = Moved(t, at, next, msg, dat), at = "send" => msg \in G
    PROVE  Sends(G)'
  <2> USE <1>MovedSends
  <2>1. /\ th'[t] = [at |-> at, next |-> next, msg |-> msg, mtime |-> th[t].mtime, data |-> dat]
        /\ \A o \in Threads \ {t} : th'[o] = th[o]
    BY Zenon DEF ThreadType, Moved
  <2> QED BY <2>1 DEF Sends

<1>GotoSends. ASSUME IInv, Sends(G), NEW t \in Threads, NEW at \in AllSteps \ {"send"}, Goto(t, at)
    PROVE  Sends(G)'
  <2> USE <1>GotoSends
  <2>1. th' = Moved(t, at, th[t].next, th[t].msg, th[t].data) /\ at # "send"
    BY Zenon, MoveForms
  <2> QED BY Zenon, <2>1, <1>MovedSends DEF IInv

<1>EndSends. ASSUME IInv, Sends(G), NEW t \in Threads, Fail(t) \/ Return(t)
    PROVE  Sends(G)'
  <2> USE <1>EndSends
  <2>1. \E at, dat :
           /\ at \in AllSteps \ {"send"}
           /\ th' = [th EXCEPT ![t] = [@ EXCEPT !.at = at, !.data = dat]]
    <3>1. {"out", "copied"} \subseteq AllSteps \ {"send"}
      BY Zenon DEF AllSteps
    <3>2. CASE Fail(t)
      BY Zenon, <3>1, <3>2 DEF Fail
    <3>3. CASE Return(t) /\ t \in Copies
      BY Zenon, <3>1, <3>3 DEF Return
    <3>4. CASE Return(t) /\ t \notin Copies
      BY Zenon, <3>1, <3>4 DEF Return
    <3> QED BY Zenon, <3>2, <3>3, <3>4
  <2>2. PICK at, dat :
           /\ at \in AllSteps \ {"send"}
           /\ th' = [th EXCEPT ![t] = [@ EXCEPT !.at = at, !.data = dat]]
    BY Zenon, <2>1
  <2>3. th' = Moved(t, at, th[t].next, th[t].msg, dat) /\ at # "send"
    BY ZenonT(30), <2>2, MoveForms
  <2> QED BY Zenon, <2>3, <1>MovedSends DEF IInv

<1>SendSends. ASSUME IInv, Sends(G), NEW t \in Threads, NEW msg \in G, NEW next, SendCmd(t, msg, next)
    PROVE  Sends(G)'
  <2> USE <1>SendSends
  <2>1. th' = Moved(t, "send", next, msg, th[t].data)
    BY MoveForms, ZenonT(30)
  <2> QED BY Zenon, <2>1, <1>MovedSends DEF IInv

<1>WakeSends. ASSUME IInv, Sends(G), th' = Wake \/ th' = th
    PROVE  Sends(G)'
  <2> USE <1>WakeSends
  <2>1. ASSUME NEW t \in Threads, th'[t].at = "send"
        PROVE  th[t].at = "send" /\ th'[t] = th[t]
    <3>1. th'[t] = th[t] \/ (th[t].at = "wait" /\ th'[t] = [th[t] EXCEPT !.at = "woken"])
      BY Zenon DEF Wake
    <3>2. [th[t] EXCEPT !.at = "woken"].at = "woken"
      BY Zenon, WokenType DEF IInv, ThreadType
    <3> QED BY Zenon, <2>1, <3>1, <3>2
  <2> QED BY Zenon, <2>1 DEF Sends

<1>ProcSends. ASSUME IInv, Sends(G), StageReq \in G, NEW t \in Threads,
           NEW next \in {"out", "woken"}, ProcOffline(t, next)
    PROVE  Sends(G)'
  <2> USE <1>ProcSends
  <2>1. CASE \E at \in {"out", "wait"} : Goto(t, at)
    BY Zenon, <2>1, <1>GotoSends DEF AllSteps
  <2>2. CASE Fail(t)
    BY Zenon, <2>2, <1>EndSends
  <2>3. CASE SendCmd(t, StageReq, next)
    BY Zenon, <2>3, <1>SendSends
  <2> QED BY Zenon, <2>1, <2>2, <2>3 DEF ProcOffline

<1>UserSends. ASSUME IInv, Sends(G), StageReq \in G, CancelReq \in G, NEW u \in Users, User(u)
    PROVE  Sends(G)' /\ cmds' = cmds /\ work' = work
  <2> USE <1>UserSends
  <2>0. u \in Threads /\ {"out", "clear", "trunc", "opened", "write", "written"}
                           \subseteq AllSteps \ {"send"}
    BY Zenon DEF Threads, AllSteps
  <2>1. CASE StageFile(u)
    BY Zenon, <2>0, <2>1, <1>ProcSends DEF StageFile, stager
  <2>2. CASE ReadVn(u)
    BY Zenon, <2>0, <2>2, <1>ProcSends, <1>EndSends DEF ReadVn, stager
  <2>3. CASE Interrupt(u)
    BY Zenon, <2>0, <2>3, <1>SendSends, <1>EndSends DEF Interrupt, stager
  <2>4. CASE OpenVn(u)
    <3>1. cmds' = cmds /\ work' = work /\ (Goto(u, "clear") \/ Goto(u, "opened"))
      BY Zenon, <2>4 DEF OpenVn, stager
    <3> QED BY Zenon, <2>0, <3>1, <1>GotoSends
  <2>5. CASE ClearIno(u)
    BY Zenon, <2>0, <2>5, <1>SendSends, <1>GotoSends DEF ClearIno, stager
  <2>6. CASE TruncateIno(u) \/ WriteDone(u) \/ CloseWrite(u)
    <3>1. cmds' = cmds /\ work' = work
          /\ \E at \in {"out", "clear", "opened", "written"} : Goto(u, at)
      BY Zenon, <2>6 DEF TruncateIno, WriteDone, CloseWrite, stager
    <3> QED BY Zenon, <2>0, <3>1, <1>GotoSends
  <2>7. CASE WriteVn(u) \/ WriteOnline(u)
    <3>1. cmds' = cmds /\ work' = work /\ (ProcOffline(u, "woken") \/ Goto(u, "write"))
      BY Zenon, <2>7 DEF WriteVn, WriteOnline, CopyIn, stager
    <3> QED BY Zenon, <2>0, <3>1, <1>GotoSends, <1>ProcSends
  <2> QED BY Zenon, <2>1, <2>2, <2>3, <2>4, <2>5, <2>6, <2>7 DEF User

<1>ArcopySends. ASSUME IInv, Sends(G), StageReq \in G, NEW c \in Copies, Arcopy(c)
    PROVE  Sends(G)' /\ cmds' = cmds /\ work' = work
  <2> USE <1>ArcopySends
  <2>0. c \in Threads /\ "out" \in AllSteps \ {"send"}
    BY Zenon DEF Threads, AllSteps
  <2>1. CASE IdOpenArch(c)
    <3>1. /\ cmds' = cmds /\ work' = work
          /\ th' = [th EXCEPT ![c] = [@ EXCEPT !.at = "opened", !.mtime = ip.mtime]]
          /\ StepType(th[c]) /\ ThreadType
      BY Zenon, <2>0, <2>1 DEF IdOpenArch, stager, IInv, ThreadType
    <3>2. th' = [th EXCEPT ![c] = [at |-> "opened", next |-> th[c].next, msg |-> th[c].msg,
                                   mtime |-> ip.mtime, data |-> th[c].data]]
      BY <3>1, StepMtime, Zenon
    <3>3. \A o \in Threads : th'[o].at = "send" => th'[o] = th[o]
      BY <2>0, <3>1, <3>2 DEF ThreadType
    <3> QED BY Zenon, <3>1, <3>3 DEF Sends
  <2>2. CASE ReadVn(c)
    BY Zenon, <2>0, <2>2, <1>ProcSends, <1>EndSends DEF ReadVn, stager
  <2>3. CASE SetArchive(c)
    BY Zenon, <2>0, <2>3, <1>GotoSends DEF SetArchive, stager
  <2> QED BY Zenon, <2>1, <2>2, <2>3 DEF Arcopy

<1>ThreadSends. ASSUME IInv, Tracks(G), StageReq \in G, NEW t \in Threads,
           SendStageCmd(t) \/ WaitRm(t)
    PROVE  Tracks(G)'
  <2> USE <1>ThreadSends
  <2>0. {"wait", "dlock"} \subseteq AllSteps \ {"send"}
    BY Zenon DEF AllSteps
  <2>1. CASE WaitRm(t)
    <3>1. Sends(G)' /\ cmds' = cmds /\ work' = work
      <4>1. cmds' = cmds /\ work' = work
            /\ \/ Goto(t, "wait") \/ Goto(t, "dlock") \/ Fail(t) \/ Return(t)
               \/ ProcOffline(t, "woken")
        BY Zenon, <2>1 DEF WaitRm, stager
      <4>2. Sends(G)
        BY Zenon DEF Tracks
      <4> QED BY Zenon, <2>0, <4>1, <4>2, <1>GotoSends, <1>EndSends, <1>ProcSends
    <3> QED BY Zenon, <3>1 DEF Tracks
  <2>2. CASE SendStageCmd(t)
    <3>1. th[t].at = "send" /\ cmds' = Append(cmds, th[t].msg) /\ work' = work
          /\ Goto(t, th[t].next) /\ th[t].next \in AllSteps /\ th[t].msg \in G
      BY Zenon, <2>2 DEF SendStageCmd, Tracks, Sends, IInv, ThreadType, StepType
    <3>2. cmds' \in Seq(G)
      BY <3>1 DEF Tracks
    <3>3. th' = Moved(t, th[t].next, th[t].next, th[t].msg, th[t].data)
      BY Zenon, <3>1, MoveForms
    <3>4. Sends(G)'
      BY Zenon, <3>1, <3>3, <1>MovedSends DEF Tracks, IInv
    <3> QED BY Zenon, <3>1, <3>2, <3>4 DEF Tracks
  <2> QED BY Zenon, <2>1, <2>2

<1>ReceiveTracks. ASSUME IInv, Tracks(G), ReceiveStage \/ ReceiveCancel
    PROVE  Tracks(G)'
  <2> USE <1>ReceiveTracks
  <2>0. cmds \in Seq(G) /\ work \in Seq(Named(G)) /\ Sends(G)
    BY Zenon DEF Tracks
  <2>1. cmds # <<>> /\ cmds' = Tail(cmds) /\ (th' = th \/ th' = Wake)
    BY Zenon DEF ReceiveStage, ReceiveCancel, StageError
  <2>2. cmds' \in Seq(G) /\ Head(cmds) \in G
    BY <2>0, <2>1
  <2>3. work' \in Seq(Named(G))
    <3>1. \/ work' = work
          \/ ~Head(cmds).cancel /\ Head(cmds).copies # {} /\ work' = Append(work, Head(cmds))
          \/ \E k \in DOMAIN work : work' = Without(k)
      BY Zenon DEF ReceiveStage, ReceiveCancel
    <3>2. ASSUME ~Head(cmds).cancel, Head(cmds).copies # {} PROVE Head(cmds) \in Named(G)
      BY Zenon, <2>2, <3>2 DEF Named
    <3>3. CASE ~Head(cmds).cancel /\ Head(cmds).copies # {} /\ work' = Append(work, Head(cmds))
      <4>1. Head(cmds) \in Named(G)
        BY Zenon, <3>2, <3>3
      <4> QED BY <2>0, <3>3, <4>1
    <3>4. CASE \E k \in DOMAIN work : work' = Without(k)
      BY Zenon, <2>0, <3>4, <1>WithoutType
    <3> QED BY Zenon, <2>0, <3>1, <3>3, <3>4
  <2> QED BY Zenon, <2>0, <2>1, <2>2, <2>3, <1>WakeSends DEF Tracks

<1>StagerTracks. ASSUME IInv, Tracks(G), Closed(G), G \subseteq Msgs,
           NEW k \in DOMAIN work, Stager(k)
    PROVE  Tracks(G)'
  <2> USE <1>StagerTracks
  <2> DEFINE r == work[k]
             c == GetArcopy(r)
  <2>0. cmds \in Seq(G) /\ work \in Seq(Named(G)) /\ Sends(G)
    BY Zenon DEF Tracks
  <2>1. r \in Named(G)
    BY <2>0, WorkElement
  <2>2. r \in G /\ ~r.cancel /\ r.copies # {} /\ r \in Msgs
    BY Zenon, <2>1 DEF Named
  <2>3. r \in [cancel : {FALSE}, image : [Copies -> Nat \cup {None}],
               at : {"queued", "active", "done"}, failed : BOOLEAN, copies : SUBSET Copies]
    BY Zenon, <2>2 DEF Msgs
  <2>4. c \in r.copies /\ c \in Copies
    BY Zenon, <2>2, <2>3, ArcopyOfRequest
  <2> DEFINE r1 == [r EXCEPT !.at = "active"]
             r2 == [r EXCEPT !.at = "done"]
             r3 == [r EXCEPT !.at = "done", !.failed = TRUE]
             r4 == [r EXCEPT !.copies = r.copies \ {c}]
  <2>5. r1 \in G /\ r2 \in G /\ r3 \in G /\ r4 \in G
    BY Zenon, <2>2, <2>4 DEF Closed
  <2>6. /\ ~r1.cancel /\ ~r2.cancel /\ ~r3.cancel /\ ~r4.cancel
        /\ r1.copies = r.copies /\ r2.copies = r.copies /\ r3.copies = r.copies
        /\ r4.copies = r.copies \ {c}
    BY Zenon, <2>3
  <2>7. r1 \in Named(G) /\ r2 \in Named(G) /\ r3 \in Named(G)
        /\ (r.copies # {c} => r4 \in Named(G))
    <3> HIDE DEF r1, r2, r3, r4, r, c
    <3> QED BY <2>2, <2>4, <2>5, <2>6 DEF Named
  <2>8. /\ cmds' = cmds /\ th' \in {th, Wake}
        /\ \/ work' = work \/ work' = Without(k)
           \/ work' = [work EXCEPT ![k] = r1] \/ work' = [work EXCEPT ![k] = r2]
           \/ work' = [work EXCEPT ![k] = r3]
           \/ r.copies # {c} /\ work' = [work EXCEPT ![k] = r4]
    <3>1. CASE Duplicate(k)
      BY Zenon, <3>1 DEF Duplicate
    <3>2. CASE StageResponse(k)
      BY Zenon, <3>2 DEF StageResponse
    <3>3. CASE StageWrite(k)
      BY Zenon, <3>3 DEF StageWrite
    <3>4. CASE MediaError(k)
      BY Zenon, <3>4 DEF MediaError
    <3>5. CASE StageClose(k)
      BY Zenon, <3>5 DEF StageClose
    <3> QED BY Zenon, <3>1, <3>2, <3>3, <3>4, <3>5 DEF Stager
  <2>9. work' \in Seq(Named(G))
    <3> HIDE DEF r1, r2, r3, r4, r, c
    <3>1. Without(k) \in Seq(Named(G))
      BY Zenon, <2>0, <1>WithoutType
    <3>2. \A q \in Named(G) : [work EXCEPT ![k] = q] \in Seq(Named(G))
      BY Zenon, <2>0, <1>WorkType
    <3> QED BY Zenon, <2>0, <2>7, <2>8, <3>1, <3>2
  <2> QED BY Zenon, <2>0, <2>8, <2>9, <1>WakeSends DEF Tracks
<1>0. Sends(G)
  BY Zenon DEF Tracks
<1>1. ASSUME NEW u \in Users, User(u) PROVE Tracks(G)'
  BY Zenon, <1>0, <1>1, <1>UserSends DEF Tracks
<1>2. ASSUME NEW c \in Copies, Arcopy(c) PROVE Tracks(G)'
  BY Zenon, <1>0, <1>2, <1>ArcopySends DEF Tracks
<1>3. CASE ReleaseFile \/ DropCall \/ \E op \in setup.admin, c \in Copies : ArchiveCopy(op, c)
  <2>1. th' = th /\ cmds' = cmds /\ work' = work
    BY Zenon, <1>3 DEF ReleaseFile, DropCall, ArchiveCopy, stager
  <2> QED BY Zenon, <2>1 DEF Tracks, Sends
<1> QED BY Zenon, <1>1, <1>2, <1>3, <1>ThreadSends, <1>ReceiveTracks, <1>StagerTracks DEF Next

-----------------------------------------------------------------------------
(* What the reads return.                                                    *)

\* Only the data of thread t changes, to v.
DataOf(t, v) == th'[t].data = v /\ \A o \in Threads \ {t} : th'[o].data = th[o].data
DataSame     == \A o \in Threads : th'[o].data = th[o].data

\* A read returns what is on disk: the file is online and not being written,
\* or the stage that the read waited for ended without an error.
Ready(t) == \/ ~ip.offline /\ ~DataWriter
            \/ Reads(t) /\ th[t].at = "woken" /\ ~ip.staging /\ ip.stage_err = "none"

Returned == \/ DataSame
            \/ /\ content' = content
               /\ \E t \in Threads : DataOf(t, None) \/ (Ready(t) /\ DataOf(t, ip.disk))

LEMMA NextReturns ==
    ASSUME IInv, Next
    PROVE  Returned

<1>MovedData. ASSUME ThreadType, NEW t \in Threads, NEW at, NEW next, NEW msg, NEW dat,
           th' = Moved(t, at, next, msg, dat)
    PROVE  DataOf(t, dat)
  <2> USE <1>MovedData
  <2>1. /\ th'[t] = [at |-> at, next |-> next, msg |-> msg, mtime |-> th[t].mtime, data |-> dat]
        /\ \A o \in Threads \ {t} : th'[o] = th[o]
    BY Zenon DEF ThreadType, Moved
  <2> QED BY <2>1 DEF DataOf

<1>SameData. ASSUME NEW t \in Threads, DataOf(t, th[t].data)
    PROVE  DataSame
  BY Zenon, <1>SameData DEF DataOf, DataSame

<1>GotoData. ASSUME IInv, NEW t \in Threads, NEW at \in AllSteps, Goto(t, at)
    PROVE  DataSame
  <2> USE <1>GotoData
  <2>1. th' = Moved(t, at, th[t].next, th[t].msg, th[t].data)
    BY Zenon, MoveForms
  <2> QED BY Zenon, <2>1, <1>MovedData, <1>SameData DEF IInv

<1>SendData. ASSUME IInv, NEW t \in Threads, NEW msg, NEW next, SendCmd(t, msg, next)
    PROVE  DataSame
  <2> USE <1>SendData
  <2>1. th' = Moved(t, "send", next, msg, th[t].data)
    BY MoveForms, ZenonT(30)
  <2> QED BY Zenon, <2>1, <1>MovedData, <1>SameData DEF IInv

<1>FailData. ASSUME IInv, NEW t \in Threads, Fail(t)
    PROVE  DataOf(t, None)
  <2> USE <1>FailData
  <2> DEFINE at == "out"
  <2>1. at \in AllSteps /\ th' = [th EXCEPT ![t] = [@ EXCEPT !.at = at, !.data = None]]
    BY Zenon DEF Fail, AllSteps
  <2> HIDE DEF at
  <2>2. th' = Moved(t, at, th[t].next, th[t].msg, None)
    BY Zenon, <2>1, MoveForms
  <2> QED BY Zenon, <2>2, <1>MovedData DEF IInv

<1>ReturnData. ASSUME IInv, NEW t \in Threads, Return(t)
    PROVE  DataOf(t, ip.disk)
  <2> USE <1>ReturnData
  <2> DEFINE at == IF t \in Copies THEN "copied" ELSE "out"
  <2>1. at \in AllSteps /\ th' = [th EXCEPT ![t] = [@ EXCEPT !.at = at, !.data = ip.disk]]
    BY Zenon DEF Return, AllSteps
  <2> HIDE DEF at
  <2>2. th' = Moved(t, at, th[t].next, th[t].msg, ip.disk)
    BY ZenonT(30), <2>1, MoveForms
  <2> QED BY Zenon, <2>2, <1>MovedData DEF IInv

<1>WakeData. ASSUME IInv, th' = Wake \/ th' = th
    PROVE  DataSame
  <2> USE <1>WakeData
  <2>1. ASSUME NEW t \in Threads PROVE th'[t].data = th[t].data
    <3>1. th'[t] = th[t] \/ th'[t] = [th[t] EXCEPT !.at = "woken"]
      BY Zenon DEF Wake
    <3>2. [th[t] EXCEPT !.at = "woken"].data = th[t].data
      BY Zenon, StepAt DEF IInv, ThreadType, StepType
    <3> QED BY Zenon, <3>1, <3>2
  <2> QED BY Zenon, <2>1 DEF DataSame

<1>ProcData. ASSUME IInv, NEW t \in Threads, NEW next \in {"out", "woken"}, ProcOffline(t, next)
    PROVE  DataSame \/ DataOf(t, None)
  <2> USE <1>ProcData
  <2>1. CASE \E at \in {"out", "wait"} : Goto(t, at)
    BY Zenon, <2>1, <1>GotoData DEF AllSteps
  <2>2. CASE Fail(t)
    BY Zenon, <2>2, <1>FailData
  <2>3. CASE SendCmd(t, StageReq, next)
    BY Zenon, <2>3, <1>SendData
  <2> QED BY Zenon, <2>1, <2>2, <2>3 DEF ProcOffline

<1>ReadReturns. ASSUME IInv, NEW t \in Threads, ReadVn(t) \/ WaitRm(t)
    PROVE  Returned
  <2> USE <1>ReadReturns
  <2>0. content' = content
    BY Zenon DEF ReadVn, WaitRm, data
  <2>1. CASE ReadVn(t)
    <3>1. ProcOffline(t, "woken") \/ (Return(t) /\ Ready(t))
      BY Zenon, <2>1 DEF ReadVn, Ready
    <3> QED BY Zenon, <2>0, <3>1, <1>ProcData, <1>ReturnData DEF Returned
  <2>2. CASE WaitRm(t)
    <3>1. \/ Goto(t, "wait") \/ Goto(t, "dlock") \/ Fail(t) \/ (Return(t) /\ Ready(t))
          \/ ProcOffline(t, "woken")
      BY Zenon, <2>2 DEF WaitRm, Ready
    <3>2. "wait" \in AllSteps /\ "dlock" \in AllSteps
      BY Zenon DEF AllSteps
    <3> QED BY Zenon, <2>0, <3>1, <3>2, <1>GotoData, <1>FailData, <1>ProcData, <1>ReturnData DEF Returned
  <2> QED BY Zenon, <2>1, <2>2

<1>UserReturns. ASSUME IInv, NEW u \in Users, User(u)
    PROVE  Returned
  <2> USE <1>UserReturns
  <2>0. u \in Threads
    BY Zenon DEF Threads
  <2>1. CASE ReadVn(u)
    BY Zenon, <2>0, <2>1, <1>ReadReturns
  <2>2. CASE StageFile(u)
    BY Zenon, <2>0, <2>2, <1>ProcData DEF StageFile, Returned, data
  <2>3. CASE Interrupt(u)
    BY Zenon, <2>0, <2>3, <1>SendData, <1>FailData DEF Interrupt, Returned, data
  <2>4. CASE \E at \in {"clear", "opened", "trunc", "written", "out", "write"} : Goto(u, at)
    <3>1. DataSame
      BY Zenon, <2>0, <2>4, <1>GotoData DEF AllSteps
    <3> QED BY Zenon, <3>1 DEF Returned
  <2>5. CASE SendCmd(u, CancelReq, "trunc")
    BY Zenon, <2>0, <2>5, <1>SendData DEF Returned
  <2>6. CASE WriteVn(u) /\ ProcOffline(u, "woken")
    BY Zenon, <2>0, <2>6, <1>ProcData DEF WriteVn, Returned
  <2>7. CASE OpenVn(u)
    <3>1. Goto(u, "clear") \/ Goto(u, "opened")
      BY Zenon, <2>7 DEF OpenVn
    <3> QED BY Zenon, <2>4, <3>1
  <2> QED BY Zenon, <2>1, <2>2, <2>3, <2>4, <2>5, <2>6, <2>7
          DEF User, ClearIno, TruncateIno, WriteVn, WriteOnline, CopyIn, WriteDone, CloseWrite

<1>ArcopyReturns. ASSUME IInv, NEW c \in Copies, Arcopy(c)
    PROVE  Returned
  <2> USE <1>ArcopyReturns
  <2>0. c \in Threads /\ "out" \in AllSteps
    BY Zenon DEF Threads, AllSteps
  <2>1. CASE IdOpenArch(c)
    <3>1. /\ th' = [th EXCEPT ![c] = [@ EXCEPT !.at = "opened", !.mtime = ip.mtime]]
          /\ StepType(th[c]) /\ ThreadType
      BY Zenon, <2>0, <2>1 DEF IdOpenArch, IInv, ThreadType
    <3>2. th' = [th EXCEPT ![c] = [at |-> "opened", next |-> th[c].next, msg |-> th[c].msg,
                                   mtime |-> ip.mtime, data |-> th[c].data]]
      BY <3>1, StepMtime, Zenon
    <3>3. DataSame
      BY <2>0, <3>1, <3>2 DEF ThreadType, DataSame
    <3> QED BY Zenon, <3>3 DEF Returned
  <2>2. CASE ReadVn(c)
    BY Zenon, <2>0, <2>2, <1>ReadReturns
  <2>3. CASE SetArchive(c)
    BY Zenon, <2>0, <2>3, <1>GotoData DEF SetArchive, Returned
  <2> QED BY Zenon, <2>1, <2>2, <2>3 DEF Arcopy
<1>1. ASSUME NEW t \in Threads, SendStageCmd(t) PROVE Returned
  <2>1. Goto(t, th[t].next) /\ th[t].next \in AllSteps
    BY Zenon, <1>1 DEF SendStageCmd, IInv, ThreadType, StepType
  <2> QED BY Zenon, <2>1, <1>GotoData DEF Returned
<1>2. ASSUME NEW k \in DOMAIN work, Stager(k) PROVE Returned
  <2>1. th' = Wake \/ th' = th
    BY Zenon, <1>2 DEF Stager, Duplicate, StageResponse, StageWrite, MediaError, StageClose
  <2> QED BY Zenon, <2>1, <1>WakeData DEF Returned
<1>3. CASE \/ ReleaseFile \/ DropCall \/ ReceiveStage \/ ReceiveCancel
           \/ \E op \in setup.admin, c \in Copies : ArchiveCopy(op, c)
  <2>1. th' = Wake \/ th' = th
    BY Zenon, <1>3
       DEF ReleaseFile, DropCall, ReceiveStage, ReceiveCancel, ArchiveCopy, StageError
  <2> QED BY Zenon, <2>1, <1>WakeData DEF Returned
<1> QED BY Zenon, <1>1, <1>2, <1>3, <1>UserReturns, <1>ArcopyReturns, <1>ReadReturns DEF Next

-----------------------------------------------------------------------------
(* Types.                                                                    *)

Version == Nat \cup {None}
Inode == [rmsize : 0..1, size : 0..1, mtime : Nat, offline : BOOLEAN,
          damaged : BOOLEAN, archdone : BOOLEAN, archnodrop : BOOLEAN,
          arch_status : SUBSET Copies, ar_flags : [Copies -> SUBSET Flags],
          staging : BOOLEAN, stage_err : Errors, stage_pid : BOOLEAN,
          write_mode : BOOLEAN, arch_count : BOOLEAN, disk : Version]

\* With the types of what is read, and of the images in stage requests, the
\* type invariant is inductive.
TypeInv == TypeOK /\ (\A t \in Threads : th[t].data \in Version) /\ Tracks(Msgs)

LEMMA DropType ==
    ASSUME NEW i \in Inode
    PROVE  DropIno(i) \in Inode
<1> DEFINE j == [i EXCEPT !.damaged = i.damaged \/ i.offline]
           k == [i EXCEPT !.disk = None, !.size = 0, !.offline = TRUE]
<1>1. (i.damaged \/ i.offline) \in BOOLEAN
  BY Zenon DEF Inode
<1>2. j \in Inode
  BY Zenon, <1>1 DEF Inode
<1>3. k \in Inode
  <2>1. None \in Version /\ 0 \in 0..1
    BY DEF Version
  <2> QED BY Zenon, <2>1 DEF Inode
<1>4. DropIno(i) \in {i, j, k}
  BY Zenon DEF DropIno
<1> QED BY Zenon, <1>2, <1>3, <1>4

LEMMA CloseType ==
    ASSUME NEW i \in Inode
    PROVE  CloseStage(i) \in Inode
<1> DEFINE closed == [i EXCEPT !.staging = FALSE, !.stage_pid = FALSE]
           err == IF i.stage_err = "none" THEN "ECOMM" ELSE i.stage_err
           failed == [closed EXCEPT !.stage_err = err]
           done == i.archdone /\ \A c \in Copies : "unarchived" \notin i.ar_flags[c]
           online == [closed EXCEPT !.offline = FALSE, !.archdone = done]
<1>1. closed \in Inode /\ err \in Errors /\ done \in BOOLEAN /\ closed.stage_err = i.stage_err
      /\ closed.archdone = i.archdone
  BY Zenon DEF Inode, Errors
<1>2. CloseStage(i) \in {closed, online, DropIno(failed)}
  BY Zenon, <1>1 DEF CloseStage
<1> HIDE DEF closed, err, done
<1>3. online \in Inode /\ failed \in Inode
  BY Zenon, <1>1 DEF Inode
<1> HIDE DEF online, failed
<1> QED BY Zenon, <1>1, <1>2, <1>3, DropType

LEMMA DamageType ==
    ASSUME NEW i \in Inode, NEW c \in Copies
    PROVE  Damage(i, c) \in Inode
<1> DEFINE f == [i EXCEPT !.ar_flags[c] = i.ar_flags[c] \cup {"damaged"}]
           b == i.damaged \/ (i.offline /\ ~HasGoodCopy(f))
<1>1. f \in Inode /\ f.damaged = i.damaged
  BY Zenon DEF Inode, Flags
<1>2. b \in BOOLEAN
  BY Zenon DEF Inode
<1>3. Damage(i, c) = [f EXCEPT !.damaged = b]
  BY Zenon, <1>1 DEF Damage
<1> HIDE DEF f, b
<1> QED BY <1>1, <1>2, <1>3 DEF Inode

\* A set of requests that sam-stagerd's marks do not leave.
LEMMA MsgsClosed == Closed(Msgs) /\ CancelReq \in Msgs
<1>1. ASSUME NEW r \in Msgs, ~r.cancel
      PROVE  /\ [r EXCEPT !.at = "active"] \in Msgs
             /\ [r EXCEPT !.at = "done"] \in Msgs
             /\ [r EXCEPT !.at = "done", !.failed = TRUE] \in Msgs
             /\ \A c \in Copies : [r EXCEPT !.copies = @ \ {c}] \in Msgs
  <2>1. r \in [cancel : {FALSE}, image : [Copies -> Nat \cup {None}],
               at : {"queued", "active", "done"}, failed : BOOLEAN, copies : SUBSET Copies]
    BY Zenon, <1>1 DEF Msgs
  <2> QED BY Zenon, <2>1 DEF Msgs
<1>2. CancelReq \in Msgs
  BY Zenon DEF CancelReq, Msgs
<1> QED BY Zenon, <1>1, <1>2 DEF Closed

LEMMA StageReqType ==
    ASSUME TypeOK
    PROVE  StageReq \in Msgs
<1> DEFINE s == {c \in ip.arch_status : ip.ar_flags[c] \cap {"stale", "damaged"} = {}}
<1>1. s \in SUBSET Copies /\ image \in [Copies -> Nat \cup {None}]
  BY Zenon DEF TypeOK
<1>2. StageReq = [cancel |-> FALSE, image |-> image, at |-> "queued", failed |-> FALSE,
                  copies |-> s]
  BY Zenon DEF StageReq
<1> HIDE DEF s
<1> QED BY Zenon, <1>1, <1>2 DEF Msgs

\* A request that sam-stagerd holds.
LEMMA Request ==
    ASSUME NEW G, G \subseteq Msgs, Tracks(G), NEW k \in DOMAIN work
    PROVE  /\ work[k] \in G
           /\ work[k].image \in [Copies -> Nat \cup {None}]
           /\ GetArcopy(work[k]) \in work[k].copies /\ GetArcopy(work[k]) \in Copies
<1> DEFINE r == work[k]
<1>1. r \in Named(G)
  BY WorkElement DEF Tracks
<1>2. r \in G /\ ~r.cancel /\ r.copies # {} /\ r \in Msgs
  BY Zenon, <1>1 DEF Named
<1>3. r \in [cancel : {FALSE}, image : [Copies -> Nat \cup {None}],
             at : {"queued", "active", "done"}, failed : BOOLEAN, copies : SUBSET Copies]
  BY Zenon, <1>2 DEF Msgs
<1>4. GetArcopy(r) \in r.copies /\ GetArcopy(r) \in Copies
  BY Zenon, <1>2, <1>3, ArcopyOfRequest
<1> QED BY Zenon, <1>2, <1>3, <1>4

LEMMA TypeNext ==
    ASSUME IInv, TypeInv, [Next]_vars
    PROVE  TypeInv'

<1>MarkType. ASSUME NEW i \in Inode, NEW now \in Nat
    PROVE  MarkIno(i, now) \in Inode
  <2> USE <1>MarkType
  <2> DEFINE f == [c \in Copies |-> IF c \in i.arch_status THEN i.ar_flags[c] \cup {"stale"}
                                    ELSE i.ar_flags[c]]
             b == i.archdone /\ i.arch_status = {}
  <2>1. f \in [Copies -> SUBSET Flags] /\ b \in BOOLEAN
    BY Zenon DEF Inode, Flags
  <2>2. MarkIno(i, now) = [i EXCEPT !.mtime = now, !.ar_flags = f, !.arch_status = {},
                                    !.archdone = b]
    BY Zenon DEF MarkIno
  <2> HIDE DEF f, b
  <2> QED BY ZenonT(30), <2>1, <2>2 DEF Inode

<1>CancelType. ASSUME NEW i \in Inode, NEW err \in Errors
    PROVE  CancelStage(i, err) \in Inode
  <2> USE <1>CancelType
  <2> DEFINE s == IF i.offline THEN 0 ELSE i.rmsize
  <2>1. s \in 0..1
    BY DEF Inode
  <2>2. CancelStage(i, err) = [i EXCEPT !.stage_err = err, !.staging = FALSE, !.size = s]
    BY Zenon DEF CancelStage
  <2> HIDE DEF s
  <2> QED BY Zenon, <2>1, <2>2 DEF Inode

<1>CloseVnType. ASSUME NEW i \in Inode, NEW t
    PROVE  CloseVn(i, t) \in Inode
  <2> USE <1>CloseVnType
  <2> DEFINE b == i.write_mode /\ (i.stage_pid \/ \E o \in Threads \ {t} : IsOpen(o))
             d == i.arch_count /\ t \notin Copies
  <2>1. b \in BOOLEAN /\ d \in BOOLEAN
    BY Zenon DEF Inode
  <2>2. CloseVn(i, t) = [i EXCEPT !.write_mode = b, !.arch_count = d]
    BY Zenon DEF CloseVn
  <2> HIDE DEF b, d
  <2> QED BY Zenon, <2>1, <2>2 DEF Inode

<1>CommandType. ASSUME NEW i \in Inode, NEW c \in Copies
    PROVE  /\ Rearch(i, c) \in Inode /\ Unarchive(i, c) \in Inode
           /\ Undamage(i, c) \in Inode /\ Unrearch(i, c) \in Inode
           /\ \A d \in Copies : Exarchive(i, c, d) \in Inode
  <2> USE <1>CommandType
  <2>1. Rearch(i, c) \in Inode
    BY Zenon DEF Rearch, Inode, Flags
  <2>2. Unarchive(i, c) \in Inode
    BY ZenonT(30) DEF Unarchive, Inode, Flags
  <2>3. Undamage(i, c) \in Inode
    BY ZenonT(30) DEF Undamage, Inode, Flags
  <2>4. Unrearch(i, c) \in Inode
    BY ZenonT(30) DEF Unrearch, Inode, Flags
  <2>5. ASSUME NEW d \in Copies PROVE Exarchive(i, c, d) \in Inode
    <3> DEFINE f == Swap(i.ar_flags, c, d)
               s == {n \in Copies : (IF n = c THEN d ELSE IF n = d THEN c ELSE n)
                                       \in i.arch_status}
               b == i.archdone /\ d \in i.arch_status
    <3>1. f \in [Copies -> SUBSET Flags] /\ s \in SUBSET Copies /\ b \in BOOLEAN
      BY Zenon DEF Swap, Inode
    <3>2. Exarchive(i, c, d) = [i EXCEPT !.arch_status = s, !.ar_flags = f, !.archdone = b]
      BY Zenon DEF Exarchive
    <3> HIDE DEF f, s, b
    <3> QED BY Zenon, <3>1, <3>2 DEF Inode
  <2> QED BY Zenon, <2>1, <2>2, <2>3, <2>4, <2>5

<1>ArchivedType. ASSUME NEW i \in Inode, NEW c \in Copies, NEW mtime
    PROVE  Archived(i, c, mtime) \in Inode
  <2> USE <1>ArchivedType
  <2> DEFINE status == IF mtime # i.mtime THEN i.arch_status ELSE i.arch_status \cup {c}
             flags == [i.ar_flags EXCEPT ![c] =
                          IF mtime # i.mtime THEN {"inconsistent"} ELSE {}]
             redo == {"inconsistent", "damaged", "rearch", "stale"}
             done == IF setup.required \subseteq status
                     THEN \A n \in setup.required : flags[n] \cap redo = {}
                     ELSE i.archdone
             nodrop == ~(setup.norel \subseteq status)
             n == [i EXCEPT !.arch_status = status, !.ar_flags = flags,
                            !.archdone = done, !.archnodrop = nodrop]
  <2>1. status \in SUBSET Copies /\ flags \in [Copies -> SUBSET Flags]
    BY Zenon DEF Inode, Flags
  <2>2. done \in BOOLEAN /\ nodrop \in BOOLEAN
    BY Zenon DEF Inode
  <2>3. Archived(i, c, mtime) \in {n, DropIno(n)}
    BY Zenon DEF Archived
  <2> HIDE DEF status, flags, done, nodrop
  <2>4. n \in Inode
    BY Zenon, <2>1, <2>2 DEF Inode
  <2> HIDE DEF n
  <2> QED BY Zenon, <2>3, <2>4, DropType

<1>ProcType. ASSUME ip \in Inode, NEW t, NEW next, ProcOffline(t, next)
    PROVE  ip' \in Inode
  <2> USE <1>ProcType
  <2> DEFINE j == [ip EXCEPT !.stage_err = "none", !.staging = TRUE]
  <2>1. j \in Inode
    BY Zenon DEF Inode, Errors
  <2>2. ip' = ip \/ ip' = CloseVn(ip, t) \/ ip' = j
    BY Zenon DEF ProcOffline, Fail
  <2> QED BY Zenon, <2>1, <2>2, <1>CloseVnType

\* The inode, the images and the versions after a step of a thread.
<1>UserType. ASSUME TypeOK, ip \in Inode, NEW u \in Users, User(u)
    PROVE  ip' \in Inode /\ image' = image /\ content' \in Nat /\ newest' \in Nat
  <2> USE <1>UserType
  <2>0. content \in Nat /\ newest \in Nat /\ ip.mtime \in Nat
    BY Zenon DEF TypeOK, Inode
  <2>1. CASE StageFile(u)
    BY Zenon, <2>0, <2>1, <1>ProcType DEF StageFile, data
  <2>2. CASE ReadVn(u)
    BY Zenon, <2>0, <2>2, <1>ProcType, <1>CloseVnType DEF ReadVn, Return, data
  <2>3. CASE Interrupt(u)
    BY Zenon, <2>0, <2>3, <1>CancelType, <1>CloseVnType DEF Interrupt, Fail, data, Errors
  <2>4. CASE OpenVn(u)
    BY Zenon, <2>0, <2>4 DEF OpenVn, data, Inode
  <2>5. CASE ClearIno(u)
    BY Zenon, <2>0, <2>5, <1>CancelType DEF ClearIno, data, Errors
  <2>6. CASE TruncateIno(u)
    <3> DEFINE j == [ip EXCEPT !.disk = 0, !.size = 0, !.rmsize = 0, !.offline = FALSE]
    <3>1. 0 \in Version /\ 0 \in 0..1 /\ 0 \in Nat
      BY DEF Version
    <3>4. Now \subseteq Nat
      BY Zenon, <2>0, Times DEF Inode
    <3>2. j \in Inode
      BY Zenon, <3>1 DEF Inode
    <3>3. /\ ip' = ip \/ \E now \in Now : ip' = MarkIno(j, now)
          /\ image' = image /\ newest' = newest /\ (content' = content \/ content' = 0)
      BY Zenon, <2>6 DEF TruncateIno
    <3> HIDE DEF j
    <3> QED BY Zenon, <2>0, <3>1, <3>2, <3>3, <3>4, <1>MarkType
  <2>7. ASSUME CopyIn(u), image' = image, content' = content
        PROVE  ip' \in Inode /\ image' = image /\ content' \in Nat /\ newest' \in Nat
    <3> DEFINE d == IF ip.disk = None THEN None ELSE newest + 1
    <3>1. newest' = newest + 1 /\ newest' \in Nat /\ d \in Version /\ 1 \in 0..1
      BY <2>0, <2>7 DEF CopyIn, Version
    <3>2. ip' = [ip EXCEPT !.disk = d, !.size = 1]
      BY Zenon, <2>7 DEF CopyIn
    <3> HIDE DEF d
    <3> QED BY Zenon, <2>0, <2>7, <3>1, <3>2 DEF Inode
  <2>8. CASE WriteVn(u) \/ WriteOnline(u)
    BY Zenon, <2>0, <2>7, <2>8, <1>ProcType DEF WriteVn, WriteOnline
  <2>9. CASE WriteDone(u)
    <3> DEFINE j == [ip EXCEPT !.rmsize = 1]
    <3>1. 1 \in 0..1
      OBVIOUS
    <3>4. Now \subseteq Nat
      BY Zenon, <2>0, Times DEF Inode
    <3>2. j \in Inode
      BY Zenon, <3>1 DEF Inode
    <3>3. /\ \E now \in Now : ip' = MarkIno(j, now)
          /\ image' = image /\ newest' = newest /\ content' = newest
      BY Zenon, <2>9 DEF WriteDone
    <3> HIDE DEF j
    <3> QED BY Zenon, <2>0, <3>1, <3>2, <3>3, <3>4, <1>MarkType
  <2>10. CASE CloseWrite(u)
    BY Zenon, <2>0, <2>10, <1>CloseVnType DEF CloseWrite, data
  <2> QED BY Zenon, <2>1, <2>2, <2>3, <2>4, <2>5, <2>6, <2>8, <2>9, <2>10 DEF User

<1>ArcopyType. ASSUME TypeOK, ip \in Inode, NEW c \in Copies, th[c].data \in Version, Arcopy(c)
    PROVE  ip' \in Inode /\ image' \in [Copies -> Version] /\ content' = content
           /\ newest' = newest
  <2> USE <1>ArcopyType
  <2>0. image \in [Copies -> Version]
    BY Zenon DEF TypeOK, Version
  <2>1. CASE IdOpenArch(c)
    BY Zenon, <2>0, <2>1 DEF IdOpenArch, data, Inode
  <2>2. CASE ReadVn(c)
    BY Zenon, <2>0, <2>2, <1>ProcType, <1>CloseVnType DEF ReadVn, Return, data
  <2>3. CASE SetArchive(c)
    <3>1. /\ ip' = ip \/ ip' = Archived(ip, c, th[c].mtime)
          /\ image' = image \/ image' = [image EXCEPT ![c] = th[c].data]
          /\ content' = content /\ newest' = newest
      BY Zenon, <2>3 DEF SetArchive
    <3>2. [image EXCEPT ![c] = th[c].data] \in [Copies -> Version]
      BY Zenon, <2>0
    <3>3. Archived(ip, c, th[c].mtime) \in Inode
      BY Zenon, <1>ArchivedType
    <3> QED BY Zenon, <2>0, <3>1, <3>2, <3>3
  <2> QED BY Zenon, <2>1, <2>2, <2>3 DEF Arcopy

<1>CopiesType. ASSUME TypeOK, ip \in Inode, NEW op \in setup.admin, NEW c \in Copies, ArchiveCopy(op, c)
    PROVE  ip' \in Inode /\ image' \in [Copies -> Version] /\ content' = content
           /\ newest' = newest
  <2> USE <1>CopiesType
  <2>0. image \in [Copies -> Version] /\ content' = content /\ newest' = newest
        /\ None \in Version
    BY Zenon DEF TypeOK, Version, ArchiveCopy
  <2>1. CASE ip' = Unarchive(ip, c) /\ image' = [image EXCEPT ![c] = None]
    BY Zenon, <2>0, <2>1, <1>CommandType
  <2>2. CASE \E d \in Copies \ {c} : ip' = Exarchive(ip, c, d) /\ image' = Swap(image, c, d)
    <3>1. PICK d \in Copies \ {c} : ip' = Exarchive(ip, c, d) /\ image' = Swap(image, c, d)
      BY Zenon, <2>2
    <3>2. Swap(image, c, d) \in [Copies -> Version]
      BY Zenon, <2>0 DEF Swap
    <3> QED BY Zenon, <2>0, <3>1, <3>2, <1>CommandType
  <2>3. CASE /\ image' = image
             /\ ip' \in {Damage(ip, c), Rearch(Damage(ip, c), c), Undamage(ip, c), Rearch(ip, c),
                         Unrearch(ip, c)}
    BY Zenon, <2>0, <2>3, <1>CommandType, DamageType
  <2> QED BY Zenon, <2>1, <2>2, <2>3 DEF ArchiveCopy

<1>ErrorType. ASSUME ip \in Inode, NEW err \in Errors, StageError(err)
    PROVE  ip' \in Inode
  <2> USE <1>ErrorType
  <2> DEFINE j == [ip EXCEPT !.stage_err = err]
  <2>1. j \in Inode
    BY Zenon DEF Inode
  <2>2. ip' = ip \/ ip' = CloseStage(j)
    BY Zenon DEF StageError
  <2> QED BY Zenon, <2>1, <2>2, CloseType

<1>StagerType. ASSUME TypeInv, ip \in Inode, NEW k \in DOMAIN work, Stager(k)
    PROVE  ip' \in Inode /\ image' = image /\ content' = content /\ newest' = newest
  <2> USE <1>StagerType
  <2> DEFINE r == work[k]
             c == GetArcopy(r)
  <2>0. r.image \in [Copies -> Nat \cup {None}] /\ c \in Copies
    BY Zenon, Request, MsgsClosed DEF TypeInv
  <2>1. r.image[c] \in Version
    BY Zenon, <2>0 DEF Version
  <2>2. image' = image /\ content' = content /\ newest' = newest
    BY Zenon DEF Stager, Duplicate, StageResponse, StageWrite, MediaError, StageClose, data
  <2> HIDE DEF r, c
  <2>3. CASE Duplicate(k)
    BY Zenon, <2>2, <2>3 DEF Duplicate
  <2>4. CASE StageResponse(k)
    <3> DEFINE i == [ip EXCEPT !.staging = TRUE]
               j == [ip EXCEPT !.staging = TRUE, !.stage_pid = TRUE]
    <3>1. i \in Inode /\ j \in Inode
      BY Zenon DEF Inode
    <3>2. ip' \in {ip, CloseStage(i), j}
      BY Zenon, <2>4 DEF StageResponse
    <3> HIDE DEF i, j
    <3> QED BY Zenon, <2>2, <3>1, <3>2, CloseType
  <2>5. CASE StageWrite(k)
    <3> DEFINE err == IF ip.staging THEN ip.stage_err ELSE "ECANCELED"
    <3>1. err \in Errors /\ 1 \in 0..1
      BY DEF Inode, Errors
    <3>2. ip' = [ip EXCEPT !.disk = r.image[c], !.size = 1] \/ ip' = [ip EXCEPT !.stage_err = err]
      BY Zenon, <2>5 DEF StageWrite, r, c
    <3> HIDE DEF err
    <3> QED BY Zenon, <2>1, <2>2, <3>1, <3>2 DEF Inode
  <2>6. CASE MediaError(k)
    <3> DEFINE j == [ip EXCEPT !.staging = TRUE, !.stage_err = "EIO"]
    <3>1. j \in Inode
      BY Zenon DEF Inode, Errors
    <3>2. ip' \in {ip, j, Damage(ip, c)}
      BY Zenon, <2>6 DEF MediaError, r, c
    <3> HIDE DEF j
    <3> QED BY Zenon, <2>0, <2>2, <3>1, <3>2, DamageType
  <2>7. CASE StageClose(k)
    <3> DEFINE i == CloseStage(ip)
               b == i.write_mode /\ \E t \in Threads : IsOpen(t)
               j == [i EXCEPT !.write_mode = b]
    <3>1. i \in Inode /\ b \in BOOLEAN
      BY Zenon, CloseType DEF Inode
    <3>2. ip' \in {j, Damage(j, c)}
      BY Zenon, <2>7 DEF StageClose, r, c
    <3> HIDE DEF i, b
    <3>3. j \in Inode
      BY Zenon, <3>1 DEF Inode
    <3> HIDE DEF j
    <3> QED BY Zenon, <2>0, <2>2, <3>2, <3>3, DamageType
  <2> QED BY Zenon, <2>3, <2>4, <2>5, <2>6, <2>7 DEF Stager
<1>0. /\ ip \in Inode /\ image \in [Copies -> Version] /\ content \in Nat /\ newest \in Nat
      /\ \A t \in Threads : th[t].data \in Version
  BY DEF TypeInv, TypeOK, Inode, Version
<1>1. SUFFICES ASSUME Next
               PROVE  /\ ip' \in Inode /\ image' \in [Copies -> Version] /\ content' \in Nat
                      /\ newest' \in Nat
  <2>1. CASE UNCHANGED vars
    BY <2>1 DEF vars, TypeInv, TypeOK, Tracks, Sends
  <2>2. ASSUME Next, ip' \in Inode, image' \in [Copies -> Version], content' \in Nat,
               newest' \in Nat
        PROVE  TypeInv'
    <3>1. TypeOK'
      BY <2>2 DEF TypeOK, Inode, Version
    <3>2. Tracks(Msgs)'
      BY Zenon, <2>2, TracksNext, MsgsClosed, StageReqType DEF TypeInv
    <3>3. \A t \in Threads : th'[t].data \in Version
      <4>1. ip.disk \in Version /\ None \in Version
        BY Zenon, <1>0 DEF Inode, Version
      <4> QED BY Zenon, <1>0, <2>2, <4>1, NextReturns DEF Returned, DataSame, DataOf
    <3> QED BY Zenon, <3>1, <3>2, <3>3 DEF TypeInv
  <2> QED BY Zenon, <1>1, <2>1, <2>2
<1>2. TypeOK
  BY Zenon DEF TypeInv
<1>3. ASSUME NEW u \in Users, User(u)
      PROVE  ip' \in Inode /\ image' \in [Copies -> Version] /\ content' \in Nat /\ newest' \in Nat
  BY Zenon, <1>0, <1>2, <1>3, <1>UserType
<1>4. ASSUME NEW c \in Copies, Arcopy(c)
      PROVE  ip' \in Inode /\ image' \in [Copies -> Version] /\ content' \in Nat /\ newest' \in Nat
  <2>1. c \in Threads
    BY Zenon DEF Threads
  <2> QED BY Zenon, <1>0, <1>2, <1>4, <2>1, <1>ArcopyType
<1>5. ASSUME NEW op \in setup.admin, NEW c \in Copies, ArchiveCopy(op, c)
      PROVE  ip' \in Inode /\ image' \in [Copies -> Version] /\ content' \in Nat /\ newest' \in Nat
  BY Zenon, <1>0, <1>2, <1>5, <1>CopiesType
<1>6. ASSUME NEW k \in DOMAIN work, Stager(k)
      PROVE  ip' \in Inode /\ image' \in [Copies -> Version] /\ content' \in Nat /\ newest' \in Nat
  BY Zenon, <1>0, <1>6, <1>StagerType
<1>7. CASE \/ ReleaseFile \/ DropCall \/ ReceiveStage \/ ReceiveCancel
           \/ \E t \in Threads : SendStageCmd(t) \/ WaitRm(t)
  <2>1. image' = image /\ content' = content /\ newest' = newest
    BY Zenon, <1>7
       DEF ReleaseFile, DropCall, ReceiveStage, ReceiveCancel, SendStageCmd, WaitRm, data
  <2>2. CASE ReleaseFile \/ DropCall
    BY Zenon, <1>0, <2>1, <2>2, DropType DEF ReleaseFile, DropCall
  <2>3. CASE ReceiveStage \/ ReceiveCancel
    BY Zenon, <1>0, <2>1, <2>3, <1>ErrorType DEF ReceiveStage, ReceiveCancel, Errors
  <2>4. ASSUME NEW t \in Threads, SendStageCmd(t) \/ WaitRm(t) PROVE ip' \in Inode
    <3>1. ip' \in {ip, CloseVn(ip, t)} \/ ProcOffline(t, "woken")
      BY Zenon, <2>4 DEF SendStageCmd, WaitRm, Fail, Return
    <3> QED BY Zenon, <1>0, <3>1, <1>CloseVnType, <1>ProcType
  <2> QED BY Zenon, <1>0, <1>7, <2>1, <2>2, <2>3, <2>4
<1> QED BY Zenon, <1>1, <1>3, <1>4, <1>5, <1>6, <1>7 DEF Next

LEMMA TypeInit == Init => TypeInv
<1> SUFFICES ASSUME Init PROVE TypeInv
  BY Zenon
<1>1. setup.archived \subseteq Copies /\ setup.offline \in BOOLEAN
  BY Zenon, SetupsAssumption DEF Init
<1>2. TypeOK
  <2>1. ip = [rmsize |-> 1, size |-> IF setup.offline THEN 0 ELSE 1, mtime |-> 1,
             offline |-> setup.offline, damaged |-> FALSE,
             archdone |-> setup.required \subseteq setup.archived,
             archnodrop |-> ~(setup.norel \subseteq setup.archived),
             arch_status |-> setup.archived, ar_flags |-> [c \in Copies |-> {}],
             staging |-> FALSE, stage_err |-> "none", stage_pid |-> FALSE,
             write_mode |-> FALSE, arch_count |-> FALSE,
             disk |-> IF setup.offline THEN None ELSE 1]
    BY Zenon DEF Init
  <2>2. /\ (IF setup.offline THEN 0 ELSE 1) \in 0..1 /\ 1 \in 0..1 /\ 1 \in Nat
        /\ (IF setup.offline THEN None ELSE 1) \in Nat \cup {None}
    OBVIOUS
  <2>3. /\ (setup.required \subseteq setup.archived) \in BOOLEAN
        /\ (~(setup.norel \subseteq setup.archived)) \in BOOLEAN
        /\ [c \in Copies |-> {}] \in [Copies -> SUBSET Flags] /\ "none" \in Errors
    BY Zenon DEF Errors
  <2>4. image \in [Copies -> Nat \cup {None}] /\ content \in Nat /\ newest \in Nat
    BY <2>2 DEF Init
  <2> QED BY Zenon, <1>1, <2>1, <2>2, <2>3, <2>4 DEF TypeOK
<1>3. th = [t \in Threads |-> [at |-> "out", next |-> "out", msg |-> CancelReq,
                               mtime |-> 0, data |-> None]]
      /\ cmds = <<>> /\ work = <<>>
  BY Zenon DEF Init
<1>4. \A t \in Threads : th[t].at = "out" /\ th[t].data = None
  BY Zenon, <1>3
<1>5. cmds \in Seq(Msgs) /\ work \in Seq(Named(Msgs))
  BY <1>3
<1> QED BY Zenon, <1>2, <1>4, <1>5 DEF TypeInv, Tracks, Sends, Version

\* Whatever happens to the file, the inode, the versions that the copies hold
\* and those that stage requests carry have their types.
THEOREM FileTyped == Spec => []TypeOK
<1>1. TypeInv => TypeOK
  BY Zenon DEF TypeInv
<1> QED BY <1>1, InitIInv, NextIInv, TypeInit, TypeNext, PTL DEF Spec

-----------------------------------------------------------------------------
(* The version that the disk, the copies and the requests hold.              *)

Truncated == \E u \in Users : setup.job[u] = "trunc"

\* The setups in which no version is lost or mistaken for another: besides
\* what OfflineHasCopy leaves out, the archive age outlasts a stage, and no
\* command brings a copy of an older version back.
Orderly ==
    /\ Protected /\ setup.age = "stage"
    /\ setup.inconsistent => "exarchive" \notin setup.admin
    /\ Truncated => setup.admin \cap {"undamage", "unrearch"} = {}

\* What is on disk while inode i has v as its data: all of it, unless the
\* blocks were released and not yet staged in.
Blocks(i, v) ==
    /\ i.offline => i.rmsize = 1 /\ (i.size = 1 => i.disk = v)
    /\ ~i.offline => i.disk = v

\* A stage that goes on after the file came online was cancelled.
NoStage(i) == i.staging /\ ~i.offline => i.stage_err # "none"

\* A thread that waits for the data will be given it, or an error.
Settled(i) == i.offline => i.staging \/ i.stage_err # "none"

\* The version that belongs on disk.
OnDisk == IF DataWriter THEN newest ELSE content

DiskInv == /\ Blocks(ip, OnDisk) /\ NoStage(ip)
           /\ DataReader => ~DataWriter /\ Settled(ip)

\* An archived copy, and one about to be recorded, is of the current version.
CopyInv ==
    /\ \A c \in ip.arch_status : /\ image[c] = content
                                 /\ "stale" \notin ip.ar_flags[c]
    /\ setup.inconsistent => \A c \in ip.arch_status :
                                th[c].at = "out" \/ th[c].mtime = ip.mtime
    /\ ~Truncated => \A c \in Copies : "stale" \notin ip.ar_flags[c]
    /\ \A c \in Copies :
          /\ th[c].at = "copied" /\ th[c].mtime = ip.mtime => th[c].data = content
          /\ th[c].at = "send" => th[c].next = "woken"

\* The requests that would stage version v.
Of(v) == {r \in Msgs : ~r.cancel => \A c \in r.copies : r.image[c] = v}

\* Modified, and not archived or released since.
Fresh == /\ ~ip.offline /\ ip.arch_status = {}
         /\ \A c \in Copies : th[c].at # "out" => th[c].mtime # ip.mtime

\* The requests under way are for the current version.  Those for an older one
\* are left over only until the file is archived again.
VersionInv == DiskInv /\ CopyInv /\ (Fresh \/ Tracks(Of(content)))

\* What a step that modifies nothing does to the inode.
Alike(i, j) ==
    /\ j.arch_status \subseteq i.arch_status /\ j.mtime = i.mtime
    /\ \A c \in Copies : "stale" \in j.ar_flags[c] => "stale" \in i.ar_flags[c]
    /\ i.arch_status = {} /\ ~i.offline => ~j.offline

-----------------------------------------------------------------------------
(* Steps that record no copy and modify nothing.                             *)

Reader(at) == at \in {"send", "wait", "woken"}

\* What they do to the threads: a thread becomes a reader only when nobody
\* writes and the data is on disk or asked for.
Follow ==
    /\ \A c \in Copies :
          /\ th'[c].mtime = th[c].mtime
          /\ th'[c].at # "out" => th[c].at # "out"
          /\ th'[c].at = "copied" =>
                th'[c].data = content \/ (th[c].at = "copied" /\ th'[c].data = th[c].data)
          /\ th'[c].at = "send" =>
                th'[c].next = "woken" \/ (th[c].at = "send" /\ th'[c].next = th[c].next)
    /\ DataWriter' <=> DataWriter
    /\ DataReader' => DataReader \/ (~DataWriter /\ Settled(ip'))

\* And to the inode and the copies.
Stays ==
    /\ setup' = setup /\ content' = content /\ newest' = newest
    /\ \A c \in ip'.arch_status : image'[c] = image[c]
    /\ Alike(ip, ip') /\ Blocks(ip', OnDisk) /\ NoStage(ip')
    /\ DataReader => Settled(ip')

\* What the steps rely on, and that they change no data.
Given == IInv /\ TypeInv /\ Orderly /\ VersionInv
Still == setup' = setup /\ image' = image /\ content' = content /\ newest' = newest

\* The types, and the disk before the step.
LEMMA GivenDisk ==
    ASSUME Given
    PROVE  /\ IInv /\ ip \in Inode /\ Protected
           /\ WriterInv /\ ArcopyInv /\ UserInv
           /\ Blocks(ip, OnDisk) /\ NoStage(ip) /\ (DataReader => ~DataWriter /\ Settled(ip))
           /\ ip.arch_status \subseteq Copies /\ Alike(ip, ip)
<1>1. ip \in Inode
  BY Zenon DEF Given, TypeInv, TypeOK, Inode, Version
<1>2. ip.arch_status \subseteq Copies
  BY Zenon, <1>1 DEF Inode
<1> QED BY Zenon, <1>1, <1>2 DEF Given, Orderly, IInv, VersionInv, DiskInv, Alike

\* A reader that finds its stage over without an error finds the data.
LEMMA ReadyDisk ==
    ASSUME Given, NEW t \in Threads, Ready(t)
    PROVE  ip.disk = content /\ ~DataWriter
<1>1. ~ip.offline /\ ~DataWriter
  BY Zenon, GivenDisk DEF Ready, DataReader, Settled
<1> QED BY Zenon, <1>1, GivenDisk DEF Blocks, OnDisk

\* Inodes with the same blocks and the same stage.
Same(i, j) ==
    /\ j.offline = i.offline /\ j.rmsize = i.rmsize /\ j.size = i.size /\ j.disk = i.disk
    /\ j.staging = i.staging /\ j.stage_err = i.stage_err

-----------------------------------------------------------------------------
(* The inductive step and the theorems.                                      *)

LEMMA SetupSame ==
    ASSUME Next
    PROVE  setup' = setup
BY Zenon
   DEF Next, User, Arcopy, Stager, StageFile, ReadVn, Interrupt, OpenVn, ClearIno, TruncateIno,
       WriteVn, WriteOnline, WriteDone, CloseWrite, IdOpenArch, SetArchive, SendStageCmd, WaitRm,
       ReleaseFile, DropCall, ArchiveCopy, ReceiveStage, ReceiveCancel, Duplicate, StageResponse,
       StageWrite, MediaError, StageClose

LEMMA VersionNext ==
    ASSUME Given, Next
    PROVE  VersionInv'

<1>KeptAlike. ASSUME NEW i, NEW j, Keeps(i, j)
    PROVE  Alike(i, j)
  BY Zenon, <1>KeptAlike DEF Keeps, Alike

<1>InodeTyped. ASSUME NEW i \in Inode
    PROVE  InodeType(i)
  BY <1>InodeTyped DEF Inode, InodeType

\* Releasing the blocks (sam_drop_ino).
<1>DropBlocks. ASSUME NEW i \in Inode, NEW v, Blocks(i, v)
    PROVE  /\ Blocks(DropIno(i), v) /\ (NoStage(i) => NoStage(DropIno(i)))
           /\ i.stage_err # "none" => Settled(DropIno(i))
           /\ Alike(i, DropIno(i))
  <2> USE <1>DropBlocks
  <2> DEFINE j == [i EXCEPT !.damaged = i.damaged \/ i.offline]
             k == [i EXCEPT !.disk = None, !.size = 0, !.offline = TRUE]
  <2>1. Alike(i, DropIno(i))
    BY Zenon, <1>InodeTyped, DropKeeps, <1>KeptAlike
  <2>2. CASE DropIno(i) = i
    BY Zenon, <2>1, <2>2 DEF Settled
  <2>3. CASE DropIno(i) = j
    <3>1. /\ j.offline = i.offline /\ j.rmsize = i.rmsize /\ j.size = i.size /\ j.disk = i.disk
          /\ j.staging = i.staging /\ j.stage_err = i.stage_err
      BY Zenon DEF Inode
    <3> HIDE DEF j
    <3> QED BY Zenon, <2>1, <2>3, <3>1 DEF Blocks, NoStage, Settled
  <2>4. CASE DropIno(i) = k /\ i.rmsize # 0
    <3>1. k.offline = TRUE /\ k.rmsize = i.rmsize /\ k.size = 0 /\ k.stage_err = i.stage_err
      BY Zenon DEF Inode
    <3>2. i.rmsize = 1 /\ 0 # 1
      BY <2>4 DEF Inode
    <3> HIDE DEF k
    <3> QED BY Zenon, <2>1, <2>4, <3>1, <3>2 DEF Blocks, NoStage, Settled
  <2> QED BY Zenon, <2>2, <2>3, <2>4 DEF DropIno

\* Ending a stage (sam_close_stage): the data is on disk, or there is an error.
<1>CloseBlocks. ASSUME NEW i \in Inode, NEW v, Blocks(i, v)
    PROVE  /\ Blocks(CloseStage(i), v) /\ NoStage(CloseStage(i)) /\ Settled(CloseStage(i))
           /\ Alike(i, CloseStage(i))
  <2> USE <1>CloseBlocks
  <2> DEFINE closed == [i EXCEPT !.staging = FALSE, !.stage_pid = FALSE]
             err == IF i.stage_err = "none" THEN "ECOMM" ELSE i.stage_err
             failed == [closed EXCEPT !.stage_err = err]
             done == i.archdone /\ \A c \in Copies : "unarchived" \notin i.ar_flags[c]
             online == [closed EXCEPT !.offline = FALSE, !.archdone = done]
  <2>0. Alike(i, CloseStage(i))
    BY Zenon, <1>InodeTyped, CloseKeeps, <1>KeptAlike
  <2>1. /\ closed \in Inode /\ err \in Errors /\ err # "none" /\ done \in BOOLEAN
        /\ closed.offline = i.offline /\ closed.rmsize = i.rmsize /\ closed.size = i.size
        /\ closed.disk = i.disk /\ closed.staging = FALSE /\ closed.stage_err = i.stage_err
        /\ closed.archdone = i.archdone
    BY Zenon DEF Inode, Errors
  <2>2. \/ CloseStage(i) = online /\ i.size = 1 /\ i.offline
        \/ CloseStage(i) = closed /\ ~(i.rmsize = 1 /\ i.offline)
        \/ CloseStage(i) = DropIno(failed)
    BY Zenon, <2>1 DEF CloseStage
  <2> HIDE DEF closed, err, done
  <2>3. /\ failed \in Inode /\ failed.offline = i.offline /\ failed.rmsize = i.rmsize
        /\ failed.size = i.size /\ failed.disk = i.disk /\ failed.staging = FALSE
        /\ failed.stage_err = err
    BY Zenon, <2>1 DEF Inode
  <2>4. online.offline = FALSE /\ online.disk = i.disk /\ online.staging = FALSE
    BY Zenon, <2>1 DEF Inode
  <2> HIDE DEF failed, online
  <2>5. CASE CloseStage(i) = online /\ i.size = 1 /\ i.offline
    BY Zenon, <2>0, <2>4, <2>5 DEF Blocks, NoStage, Settled
  <2>6. CASE CloseStage(i) = closed /\ ~(i.rmsize = 1 /\ i.offline)
    BY Zenon, <2>0, <2>1, <2>6 DEF Blocks, NoStage, Settled
  <2>7. CASE CloseStage(i) = DropIno(failed)
    <3>1. Blocks(failed, v) /\ NoStage(failed) /\ failed.stage_err # "none"
      BY Zenon, <2>1, <2>3 DEF Blocks, NoStage
    <3> QED BY Zenon, <2>0, <2>3, <2>7, <3>1, <1>DropBlocks
  <2> QED BY Zenon, <2>2, <2>5, <2>6, <2>7

\* Cancelling a stage (sam_cancel_stage).
<1>CancelBlocks. ASSUME IInv, ip \in Inode, NEW err \in Errors \ {"none"}, NEW v, Blocks(ip, v)
    PROVE  LET j == CancelStage(ip, err)
           IN Blocks(j, v) /\ NoStage(j) /\ Settled(j) /\ Alike(ip, j)
  <2> USE <1>CancelBlocks
  <2> DEFINE j == CancelStage(ip, err)
             s == IF ip.offline THEN 0 ELSE ip.rmsize
  <2>1. j = [ip EXCEPT !.stage_err = err, !.staging = FALSE, !.size = s]
    BY Zenon DEF CancelStage
  <2>2. ip.offline => s # 1
    OBVIOUS
  <2> HIDE DEF s
  <2>3. /\ j.offline = ip.offline /\ j.rmsize = ip.rmsize /\ j.size = s /\ j.disk = ip.disk
        /\ j.staging = FALSE /\ j.stage_err = err
    BY Zenon, <2>1 DEF Inode
  <2>4. Alike(ip, j)
    BY Zenon, CancelKeeps, <1>KeptAlike
  <2> HIDE DEF j
  <2>5. Blocks(j, v) /\ NoStage(j) /\ Settled(j)
    BY Zenon, <2>2, <2>3 DEF Blocks, NoStage, Settled
  <2> QED BY Zenon, <2>4, <2>5 DEF j

\* Closing the file (sam_close_vn), and damaging a copy.
<1>SameBlocks. ASSUME NEW i \in Inode, NEW v, Blocks(i, v), NoStage(i)
    PROVE  /\ \A t : LET j == CloseVn(i, t)
                     IN Blocks(j, v) /\ NoStage(j) /\ (Settled(i) => Settled(j)) /\ Alike(i, j)
           /\ \A c \in Copies :
                 LET j == Damage(i, c)
                 IN Blocks(j, v) /\ NoStage(j) /\ (Settled(i) => Settled(j)) /\ Alike(i, j)
  <2> USE <1>SameBlocks
  <2>1. ASSUME NEW t
        PROVE  LET j == CloseVn(i, t)
               IN Blocks(j, v) /\ NoStage(j) /\ (Settled(i) => Settled(j)) /\ Alike(i, j)
    <3> DEFINE j == CloseVn(i, t)
    <3>1. /\ j.offline = i.offline /\ j.rmsize = i.rmsize /\ j.size = i.size /\ j.disk = i.disk
          /\ j.staging = i.staging /\ j.stage_err = i.stage_err
          /\ j.arch_status = i.arch_status /\ j.ar_flags = i.ar_flags /\ j.mtime = i.mtime
      BY Zenon DEF Inode, CloseVn
    <3> HIDE DEF j
    <3>2. Blocks(j, v) /\ NoStage(j) /\ (Settled(i) => Settled(j)) /\ Alike(i, j)
      BY Zenon, <3>1 DEF Blocks, NoStage, Settled, Alike
    <3> QED BY Zenon, <3>2 DEF j
  <2>2. ASSUME NEW c \in Copies
        PROVE  LET j == Damage(i, c)
               IN Blocks(j, v) /\ NoStage(j) /\ (Settled(i) => Settled(j)) /\ Alike(i, j)
    <3> DEFINE f == [i EXCEPT !.ar_flags[c] = i.ar_flags[c] \cup {"damaged"}]
               b == i.damaged \/ (i.offline /\ ~HasGoodCopy(f))
               j == Damage(i, c)
    <3>1. /\ f \in Inode /\ f.offline = i.offline /\ f.rmsize = i.rmsize /\ f.size = i.size
          /\ f.disk = i.disk /\ f.staging = i.staging /\ f.stage_err = i.stage_err
          /\ f.damaged = i.damaged
      BY Zenon DEF Inode, Flags
    <3>2. j = [f EXCEPT !.damaged = b]
      BY Zenon, <3>1 DEF Damage
    <3>3. Alike(i, j)
      BY ZenonT(30), <1>InodeTyped, DamageKeeps DEF Alike
    <3> HIDE DEF f, b, j
    <3>4. /\ j.offline = i.offline /\ j.rmsize = i.rmsize /\ j.size = i.size /\ j.disk = i.disk
          /\ j.staging = i.staging /\ j.stage_err = i.stage_err
      BY Zenon, <3>1, <3>2 DEF Inode
    <3>5. Blocks(j, v) /\ NoStage(j) /\ (Settled(i) => Settled(j))
      BY Zenon, <3>4 DEF Blocks, NoStage, Settled
    <3> QED BY Zenon, <3>3, <3>5 DEF j
  <2> QED BY Zenon, <2>1, <2>2

\* They keep the version on disk and on the copies.
<1>StaysInv. ASSUME IInv, VersionInv, Stays, Follow
    PROVE  DiskInv' /\ CopyInv' /\ (Fresh => Fresh')
  <2> USE <1>StaysInv
  <2>1. DiskInv'
    <3>1. OnDisk' = OnDisk
      BY Zenon DEF Stays, Follow, OnDisk
    <3> QED BY Zenon, <3>1 DEF VersionInv, DiskInv, Stays, Follow, Blocks, NoStage, Settled
  <2>2. CopyInv'
    <3>1. Truncated' <=> Truncated
      BY Zenon DEF Truncated, Stays
    <3>2. ip.arch_status \subseteq Copies
      BY Zenon DEF IInv, InodeType
    <3>3. ip'.arch_status \subseteq ip.arch_status /\ ip'.mtime = ip.mtime
          /\ \A c \in Copies : "stale" \in ip'.ar_flags[c] => "stale" \in ip.ar_flags[c]
      BY Zenon DEF Stays, Alike
    <3>4. \A c \in ip'.arch_status : image'[c] = content' /\ "stale" \notin ip'.ar_flags[c]
      BY Zenon, <3>2, <3>3 DEF VersionInv, CopyInv, Stays
    <3>5. setup'.inconsistent => \A c \in ip'.arch_status :
                                    th'[c].at = "out" \/ th'[c].mtime = ip'.mtime
      BY Zenon, <3>2, <3>3 DEF VersionInv, CopyInv, Stays, Follow
    <3>6. ~Truncated' => \A c \in Copies : "stale" \notin ip'.ar_flags[c]
      BY Zenon, <3>1, <3>3 DEF VersionInv, CopyInv
    <3>7. \A c \in Copies :
            /\ th'[c].at = "copied" /\ th'[c].mtime = ip'.mtime => th'[c].data = content'
            /\ th'[c].at = "send" => th'[c].next = "woken"
      BY Zenon, <3>3 DEF VersionInv, CopyInv, Stays, Follow
    <3> QED BY Zenon, <3>4, <3>5, <3>6, <3>7 DEF CopyInv
  <2>3. Fresh => Fresh'
    BY Zenon DEF Fresh, Stays, Alike, Follow
  <2> QED BY Zenon, <2>1, <2>2, <2>3

\* A step of one thread.
<1>MovedFollows. ASSUME IInv, setup' = setup, NEW t \in Threads, NEW at, NEW next, NEW msg, NEW dat,
           th' = Moved(t, at, next, msg, dat),
           t \in Copies => /\ at = "out" \/ th[t].at # "out"
                           /\ at = "copied" => dat = content
                           /\ at = "send" => next = "woken",
           t \in Users => at # "write" /\ th[t].at # "write",
           Reads(t) /\ Reader(at) => Reader(th[t].at) \/ (~DataWriter /\ Settled(ip'))
    PROVE  Follow
  <2> USE <1>MovedFollows
  <2>0. Threads = Users \cup Copies
    BY Zenon DEF Threads
  <2>1. /\ th'[t] = [at |-> at, next |-> next, msg |-> msg, mtime |-> th[t].mtime, data |-> dat]
        /\ \A o \in Threads \ {t} : th'[o] = th[o]
    BY Zenon DEF IInv, ThreadType, Moved
  <2>2. th'[t].at = at /\ th'[t].next = next /\ th'[t].mtime = th[t].mtime /\ th'[t].data = dat
    BY <2>1
  <2>3. \A o \in Threads : Reads(o)' <=> Reads(o)
    BY Zenon DEF Reads
  <2>4. DataWriter' <=> DataWriter
    BY Zenon, <2>0, <2>1, <2>2 DEF DataWriter
  <2>5. DataReader' => DataReader \/ (~DataWriter /\ Settled(ip'))
    BY Zenon, <2>1, <2>2, <2>3 DEF DataReader, Reader
  <2>6. ASSUME NEW c \in Copies
        PROVE  /\ th'[c].mtime = th[c].mtime
               /\ th'[c].at # "out" => th[c].at # "out"
               /\ th'[c].at = "copied" =>
                     th'[c].data = content \/ (th[c].at = "copied" /\ th'[c].data = th[c].data)
               /\ th'[c].at = "send" =>
                     th'[c].next = "woken" \/ (th[c].at = "send" /\ th'[c].next = th[c].next)
    BY Zenon, <2>0, <2>1, <2>2
  <2> QED BY Zenon, <2>4, <2>5, <2>6 DEF Follow

\* Waking the waiting threads.
<1>WakeFollows. ASSUME IInv, setup' = setup, th' = Wake \/ th' = th
    PROVE  Follow
  <2> USE <1>WakeFollows
  <2>0. Threads = Users \cup Copies
    BY Zenon DEF Threads
  <2>1. ASSUME NEW t \in Threads
        PROVE  /\ th'[t].mtime = th[t].mtime /\ th'[t].next = th[t].next
               /\ th'[t].data = th[t].data
               /\ th'[t].at = th[t].at \/ (th[t].at = "wait" /\ th'[t].at = "woken")
    <3>1. th'[t] = th[t] \/ (th[t].at = "wait" /\ th'[t] = [th[t] EXCEPT !.at = "woken"])
      BY Zenon DEF Wake
    <3>2. StepType(th[t])
      BY Zenon DEF IInv, ThreadType
    <3>3. [th[t] EXCEPT !.at = "woken"].data = th[t].data
      BY Zenon, <3>2 DEF StepType
    <3> QED BY Zenon, <3>1, <3>2, <3>3, WokenType
  <2>2. \A o \in Threads : Reads(o)' <=> Reads(o)
    BY Zenon DEF Reads
  <2>3. DataWriter' <=> DataWriter
    BY Zenon, <2>0, <2>1 DEF DataWriter
  <2>4. DataReader' => DataReader
    BY Zenon, <2>1, <2>2 DEF DataReader
  <2> QED BY Zenon, <2>0, <2>1, <2>3, <2>4 DEF Follow

\* A thread goes on to its next step.
<1>GotoFollows. ASSUME IInv, setup' = setup, NEW t \in Threads, NEW at \in AllSteps \ {"send", "copied", "write"},
           Goto(t, at), t \in Copies => at = "out" \/ th[t].at # "out",
           t \in Users => th[t].at # "write",
           Reads(t) /\ Reader(at) => Reader(th[t].at) \/ (~DataWriter /\ Settled(ip'))
    PROVE  Follow
  <2> USE <1>GotoFollows
  <2>1. th' = Moved(t, at, th[t].next, th[t].msg, th[t].data)
    BY Zenon, MoveForms
  <2> QED BY Zenon, <2>1, <1>MovedFollows

\* A call fails.
<1>FailFollows. ASSUME IInv, setup' = setup, NEW t \in Threads, Fail(t), t \in Users => th[t].at # "write"
    PROVE  Follow
  <2> USE <1>FailFollows
  <2> DEFINE at == "out"
  <2>1. at \in AllSteps /\ th' = [th EXCEPT ![t] = [@ EXCEPT !.at = at, !.data = None]]
    BY Zenon DEF Fail, AllSteps
  <2>3. (at = "out" \/ th[t].at # "out") /\ at # "copied" /\ at # "send" /\ at # "write"
        /\ ~Reader(at)
    BY Zenon DEF Reader
  <2> HIDE DEF at
  <2>2. th' = Moved(t, at, th[t].next, th[t].msg, None)
    BY Zenon, <2>1, MoveForms
  <2> QED BY Zenon, <2>2, <2>3, <1>MovedFollows

\* A read returns the version last written.
<1>ReturnFollows. ASSUME IInv, setup' = setup, NEW t \in Threads, Return(t), ip.disk = content,
           t \in Copies => th[t].at # "out", t \in Users => th[t].at # "write"
    PROVE  Follow
  <2> USE <1>ReturnFollows
  <2> DEFINE at == IF t \in Copies THEN "copied" ELSE "out"
  <2>1. at \in AllSteps /\ th' = [th EXCEPT ![t] = [@ EXCEPT !.at = at, !.data = ip.disk]]
        /\ at \notin {"send", "write"} /\ ~Reader(at)
    BY Zenon DEF Return, AllSteps, Reader
  <2> HIDE DEF at
  <2>2. th' = Moved(t, at, th[t].next, th[t].msg, ip.disk)
    BY ZenonT(30), <2>1, MoveForms
  <2> QED BY ZenonT(30), <2>1, <2>2, <1>MovedFollows

\* A thread drops inode_rwl to send a command.
<1>SendFollows. ASSUME IInv, setup' = setup, NEW t \in Threads, NEW msg, NEW next, SendCmd(t, msg, next),
           t \in Copies => next = "woken" /\ th[t].at # "out", t \in Users => th[t].at # "write",
           Reads(t) => Reader(th[t].at) \/ (~DataWriter /\ Settled(ip'))
    PROVE  Follow
  <2> USE <1>SendFollows
  <2>1. th' = Moved(t, "send", next, msg, th[t].data)
    BY MoveForms, ZenonT(30)
  <2> QED BY Zenon, <2>1, <1>MovedFollows

\* A thread that writes the file has truncated it, so that it is fresh.
<1>WriterFresh. ASSUME Given, NEW u \in Users, th[u].at \in {"opened", "write"}
    PROVE  Fresh /\ Writes(u) /\ Truncated
  <2> USE <1>WriterFresh
  <2>1. Writes(u)
    BY Zenon, GivenDisk DEF UserInv, UserSteps
  <2>2. setup.job[u] = "trunc"
    BY Zenon, <2>1, GivenDisk DEF Writes, Protected
  <2> QED BY Zenon, <2>1, <2>2, GivenDisk DEF WriterInv, ArcopyInv, Fresh, Truncated

<1>OfflineUnwritten. ASSUME Given, ip.offline
    PROVE  ~DataWriter /\ OnDisk = content
  BY Zenon, <1>OfflineUnwritten, <1>WriterFresh DEF DataWriter, Fresh, OnDisk

\* Where the inode stays, or the file is closed.
<1>InodeStays. ASSUME Given, Still, ip' = ip \/ \E t : ip' = CloseVn(ip, t)
    PROVE  Stays
  <2> USE <1>InodeStays
  <2>1. Alike(ip, ip') /\ Blocks(ip', OnDisk) /\ NoStage(ip') /\ (DataReader => Settled(ip'))
    BY Zenon, GivenDisk, <1>SameBlocks
  <2> QED BY Zenon, <2>1 DEF Stays, Still

\* sam_proc_offline.
<1>ProcStays. ASSUME Given, Still, ip.offline, NEW t \in Threads, NEW next \in {"out", "woken"},
           ProcOffline(t, next),
           t \in Copies => th[t].at # "out" /\ next = "woken", t \in Users => th[t].at # "write"
    PROVE  Stays /\ Follow
  <2> USE <1>ProcStays
  <2>0. IInv /\ setup' = setup /\ ~DataWriter /\ OnDisk = content /\ ip \in Inode
        /\ Blocks(ip, OnDisk)
    BY Zenon, GivenDisk, <1>OfflineUnwritten DEF Still
  <2>1. CASE ip.staging
    <3> DEFINE at == IF next = "out" THEN "out" ELSE "wait"
    <3>1. ip' = ip /\ Goto(t, at)
      BY Zenon, <2>1 DEF ProcOffline
    <3>2. at \in AllSteps \ {"send", "copied", "write"} /\ Settled(ip')
      BY Zenon, <2>1, <3>1 DEF AllSteps, Settled
    <3>3. t \in Copies => at = "out" \/ th[t].at # "out"
      BY Zenon
    <3>4. Goto(t, at)
      BY Zenon, <3>1
    <3> HIDE DEF at
    <3>5. Follow
      BY Zenon, <2>0, <3>2, <3>3, <3>4, <1>GotoFollows
    <3> QED BY Zenon, <3>1, <3>5, <1>InodeStays
  <2>2. CASE Fail(t)
    BY Zenon, <2>0, <2>2, <1>FailFollows, <1>InodeStays DEF Fail
  <2>3. CASE ip' = [ip EXCEPT !.stage_err = "none", !.staging = TRUE] /\ SendCmd(t, StageReq, next)
    <3>1. /\ ip'.offline = ip.offline /\ ip'.rmsize = ip.rmsize /\ ip'.size = ip.size
          /\ ip'.disk = ip.disk /\ ip'.staging = TRUE /\ ip'.arch_status = ip.arch_status
          /\ ip'.ar_flags = ip.ar_flags /\ ip'.mtime = ip.mtime
      BY Zenon, <2>0, <2>3 DEF Inode
    <3>2. Alike(ip, ip') /\ Blocks(ip', OnDisk) /\ NoStage(ip') /\ Settled(ip')
      BY Zenon, <2>0, <3>1 DEF Alike, Blocks, NoStage, Settled
    <3>3. Follow
      BY Zenon, <2>0, <2>3, <3>2, <1>SendFollows
    <3> QED BY Zenon, <3>2, <3>3 DEF Stays, Still
  <2> QED BY Zenon, <2>1, <2>2, <2>3 DEF ProcOffline

<1>StageFileStays. ASSUME Given, NEW u \in Users, StageFile(u)
    PROVE  Stays /\ Follow
  <2> USE <1>StageFileStays
  <2>1. Still /\ ip.offline /\ ProcOffline(u, "out") /\ th[u].at # "write"
    BY Zenon DEF StageFile, Still, data
  <2>2. u \in Threads /\ u \notin Copies
    BY Zenon, CopiesAssumption DEF Threads
  <2> QED BY Zenon, <2>1, <2>2, <1>ProcStays

<1>ReadVnStays. ASSUME Given, NEW t \in Threads, ReadVn(t)
    PROVE  Stays /\ Follow
  <2> USE <1>ReadVnStays
  <2>1. Still /\ ~DataWriter /\ (t \in Copies => th[t].at # "out")
        /\ ((ip.offline /\ ProcOffline(t, "woken")) \/ (~ip.offline /\ Return(t)))
    BY Zenon DEF ReadVn, Still, data
  <2>2. t \in Users => th[t].at # "write"
    BY Zenon, <2>1 DEF DataWriter
  <2>3. CASE ip.offline /\ ProcOffline(t, "woken")
    BY Zenon, <2>1, <2>2, <2>3, <1>ProcStays
  <2>4. CASE ~ip.offline /\ Return(t)
    <3>1. ip.disk = content /\ IInv /\ setup' = setup
      BY Zenon, <2>1, <2>4, ReadyDisk, GivenDisk DEF Ready, Still
    <3> QED BY Zenon, <2>1, <2>2, <2>4, <3>1, <1>ReturnFollows, <1>InodeStays DEF Return
  <2> QED BY Zenon, <2>1, <2>3, <2>4

<1>WaitRmStays. ASSUME Given, NEW t \in Threads, WaitRm(t)
    PROVE  Stays /\ Follow
  <2> USE <1>WaitRmStays
  <2>1. /\ Still /\ IInv /\ setup' = setup /\ th[t].at = "woken" /\ Reader(th[t].at)
        /\ {"wait", "dlock"} \subseteq AllSteps \ {"send", "copied", "write"}
        /\ th[t].at # "out" /\ th[t].at # "write"
    BY Zenon, GivenDisk DEF WaitRm, Still, data, Reader, AllSteps
  <2>2. CASE ip' = ip /\ \E at \in {"wait", "dlock"} : Goto(t, at)
    BY Zenon, <2>1, <2>2, <1>GotoFollows, <1>InodeStays
  <2>3. CASE Fail(t)
    BY Zenon, <2>1, <2>3, <1>FailFollows, <1>InodeStays DEF Fail
  <2>4. CASE Reads(t) /\ Return(t) /\ ~ip.staging /\ ip.stage_err = "none"
    <3>1. ip.disk = content
      BY Zenon, <2>1, <2>4, ReadyDisk DEF Ready
    <3> QED BY Zenon, <2>1, <2>4, <3>1, <1>ReturnFollows, <1>InodeStays DEF Return
  <2>5. CASE ip.offline /\ ProcOffline(t, "woken")
    BY Zenon, <2>1, <2>5, <1>ProcStays
  <2> QED BY Zenon, <2>2, <2>3, <2>4, <2>5 DEF WaitRm

<1>SendStageCmdStays. ASSUME Given, NEW t \in Threads, SendStageCmd(t)
    PROVE  Stays /\ Follow
  <2> USE <1>SendStageCmdStays
  <2> DEFINE at == th[t].next
  <2>0. IInv /\ Still /\ setup' = setup /\ Threads = Users \cup Copies
    BY Zenon, GivenDisk DEF SendStageCmd, Still, data, Threads
  <2>1. Goto(t, at) /\ th[t].at = "send" /\ (ip' = ip \/ ip' = CloseVn(ip, t))
    BY Zenon DEF SendStageCmd
  <2>2. Stays
    BY Zenon, <2>0, <2>1, <1>InodeStays
  <2>3. Reader(th[t].at) /\ th[t].at # "out" /\ th[t].at # "write"
    BY Zenon, <2>1 DEF Reader
  <2>4. (t \in Copies => at = "woken") /\ (t \in Users => at # "write")
    <3>1. CASE t \in Copies
      BY Zenon, <2>1, <3>1, CopiesAssumption DEF Given, VersionInv, CopyInv
    <3>2. CASE t \in Users /\ Writes(t)
      BY Zenon, <2>1, <3>2, GivenDisk, CopiesAssumption DEF WriterInv
    <3>3. CASE t \in Users /\ ~Writes(t)
      BY Zenon, <3>3, GivenDisk, CopiesAssumption DEF UserInv, UserSteps
    <3> QED BY Zenon, <2>0, <3>1, <3>2, <3>3
  <2>5. at \in AllSteps
    BY Zenon, <2>0 DEF IInv, ThreadType, StepType
  <2>6. (at = "copied" => at # "woken") /\ (at = "send" => at # "woken")
    BY Zenon
  <2> HIDE DEF at
  <2>7. th' = Moved(t, at, th[t].next, th[t].msg, th[t].data)
    BY Zenon, <2>0, <2>1, <2>5, MoveForms
  <2> QED BY Zenon, <2>0, <2>2, <2>3, <2>4, <2>6, <2>7, <1>MovedFollows

<1>CallStays. ASSUME Given, NEW u \in Users, Interrupt(u) \/ OpenVn(u) \/ ClearIno(u) \/ CloseWrite(u)
    PROVE  Stays /\ Follow
  <2> USE <1>CallStays
  <2>0. /\ IInv /\ Still /\ setup' = setup /\ u \in Threads /\ u \notin Copies
        /\ {"clear", "opened", "trunc", "out"} \subseteq AllSteps \ {"send", "copied", "write"}
        /\ ~Reader("clear") /\ ~Reader("opened") /\ ~Reader("trunc") /\ ~Reader("out")
    BY Zenon, CopiesAssumption, GivenDisk
       DEF Interrupt, OpenVn, ClearIno, CloseWrite, Still, data, Threads, AllSteps, Reader
  <2>1. th[u].at # "write"
    BY Zenon DEF Interrupt, OpenVn, ClearIno, CloseWrite
  <2>2. ASSUME NEW at \in {"clear", "opened", "trunc", "out"}, Goto(u, at)
        PROVE  Follow
    BY Zenon, <2>0, <2>1, <2>2, <1>GotoFollows
  <2>3. ASSUME NEW err \in {"EINTR", "ECANCELED"}, ip' = CancelStage(ip, err)
        PROVE  Stays /\ Settled(ip')
    <3>1. err \in Errors \ {"none"}
      BY Zenon DEF Errors
    <3>2. Blocks(ip', OnDisk) /\ NoStage(ip') /\ Settled(ip') /\ Alike(ip, ip')
      BY Zenon, <2>3, <3>1, GivenDisk, <1>CancelBlocks
    <3> QED BY Zenon, <2>0, <3>2 DEF Stays, Still
  <2>4. CASE Interrupt(u)
    <3>1. CASE Fail(u)
      BY Zenon, <2>0, <2>1, <3>1, <1>FailFollows, <1>InodeStays DEF Fail
    <3>2. CASE ip' = CancelStage(ip, "EINTR") /\ SendCmd(u, CancelReq, "out")
      <4>1. Reader(th[u].at)
        BY Zenon, <2>4 DEF Interrupt, Reader
      <4>2. Follow
        BY Zenon, <2>0, <2>1, <3>2, <4>1, <1>SendFollows
      <4> QED BY Zenon, <2>3, <3>2, <4>2
    <3> QED BY Zenon, <2>4, <3>1, <3>2 DEF Interrupt
  <2>5. CASE OpenVn(u)
    <3>1. Goto(u, "clear") \/ Goto(u, "opened")
      BY Zenon, <2>5 DEF OpenVn
    <3>2. ip' = [ip EXCEPT !.write_mode = TRUE]
      BY Zenon, <2>5 DEF OpenVn
    <3>3. /\ ip'.offline = ip.offline /\ ip'.rmsize = ip.rmsize /\ ip'.size = ip.size
          /\ ip'.disk = ip.disk /\ ip'.staging = ip.staging /\ ip'.stage_err = ip.stage_err
          /\ ip'.arch_status = ip.arch_status /\ ip'.ar_flags = ip.ar_flags /\ ip'.mtime = ip.mtime
      BY Zenon, <3>2, GivenDisk DEF Inode
    <3>4. Alike(ip, ip') /\ Blocks(ip', OnDisk) /\ NoStage(ip') /\ (DataReader => Settled(ip'))
      BY Zenon, <3>3, GivenDisk DEF Alike, Blocks, NoStage, Settled
    <3> QED BY Zenon, <2>0, <2>2, <3>1, <3>4 DEF Stays, Still
  <2>6. CASE ClearIno(u)
    <3>1. CASE ip' = CancelStage(ip, "ECANCELED") /\ SendCmd(u, CancelReq, "trunc")
      <4>1. ~Reads(u)
        <5>1. Writes(u)
          BY Zenon, <2>6, GivenDisk DEF ClearIno, UserInv, UserSteps
        <5> QED BY Zenon, <2>0, <5>1 DEF Writes, Reads
      <4>2. Follow
        BY Zenon, <2>0, <2>1, <3>1, <4>1, <1>SendFollows
      <4> QED BY Zenon, <2>3, <3>1, <4>2
    <3>2. CASE Goto(u, "trunc") /\ ip' = ip
      BY Zenon, <2>0, <2>2, <3>2, <1>InodeStays
    <3> QED BY Zenon, <2>6, <3>1, <3>2 DEF ClearIno
  <2>7. CASE CloseWrite(u)
    BY Zenon, <2>0, <2>2, <2>7, <1>InodeStays DEF CloseWrite
  <2> QED BY Zenon, <2>4, <2>5, <2>6, <2>7

<1>SameInode. ASSUME NEW i, NEW j, NEW v, Same(i, j), Blocks(i, v), NoStage(i)
    PROVE  Blocks(j, v) /\ NoStage(j) /\ (Settled(i) => Settled(j))
  BY Zenon, <1>SameInode DEF Same, Blocks, NoStage, Settled

<1>AlikeBoth. ASSUME NEW i, NEW j, NEW k, Alike(i, j), Alike(j, k), i.arch_status = j.arch_status
    PROVE  Alike(i, k)
  BY Zenon, <1>AlikeBoth DEF Alike

\* The stage of a file ends: with data, with an error, or it had ended before.
<1>EndStays. ASSUME Given, Still, th' = Wake \/ th' = th,
           \/ ip' = ip
           \/ \E err \in Errors \ {"none"} : ip' = CloseStage([ip EXCEPT !.stage_err = err])
           \/ ip' = CloseStage([ip EXCEPT !.staging = TRUE])
    PROVE  Stays /\ Follow
  <2> USE <1>EndStays
  <2>0. Follow
    BY Zenon, GivenDisk, <1>WakeFollows DEF Still
  <2>1. CASE ip' = ip
    BY Zenon, <2>0, <2>1, <1>InodeStays
  <2>2. ASSUME NEW i \in Inode, ip' = CloseStage(i), i.offline = ip.offline,
               i.rmsize = ip.rmsize, i.size = ip.size, i.disk = ip.disk,
               i.arch_status = ip.arch_status, i.ar_flags = ip.ar_flags, i.mtime = ip.mtime
        PROVE  Stays
    <3>1. Blocks(i, OnDisk) /\ Alike(ip, i)
      BY Zenon, <2>2, GivenDisk DEF Blocks, Alike
    <3>2. Blocks(ip', OnDisk) /\ NoStage(ip') /\ Settled(ip') /\ Alike(i, ip')
      BY Zenon, <2>2, <3>1, <1>CloseBlocks
    <3>3. Alike(ip, ip')
      BY Zenon, <2>2, <3>1, <3>2, <1>AlikeBoth
    <3> QED BY Zenon, <3>2, <3>3 DEF Stays, Still
  <2>3. ASSUME NEW err \in Errors \ {"none"}, ip' = CloseStage([ip EXCEPT !.stage_err = err])
        PROVE  Stays
    <3> DEFINE i == [ip EXCEPT !.stage_err = err]
    <3>1. /\ i \in Inode /\ i.offline = ip.offline /\ i.rmsize = ip.rmsize /\ i.size = ip.size
          /\ i.disk = ip.disk /\ i.arch_status = ip.arch_status /\ i.ar_flags = ip.ar_flags
          /\ i.mtime = ip.mtime
      BY Zenon, GivenDisk DEF Inode
    <3> HIDE DEF i
    <3>2. ip' = CloseStage(i)
      BY Zenon, <2>3 DEF i
    <3> QED BY Zenon, <2>2, <3>1, <3>2
  <2>4. CASE ip' = CloseStage([ip EXCEPT !.staging = TRUE])
    <3> DEFINE i == [ip EXCEPT !.staging = TRUE]
    <3>1. /\ i \in Inode /\ i.offline = ip.offline /\ i.rmsize = ip.rmsize /\ i.size = ip.size
          /\ i.disk = ip.disk /\ i.arch_status = ip.arch_status /\ i.ar_flags = ip.ar_flags
          /\ i.mtime = ip.mtime
      BY Zenon, GivenDisk DEF Inode
    <3> HIDE DEF i
    <3>2. ip' = CloseStage(i)
      BY Zenon, <2>4 DEF i
    <3> QED BY Zenon, <2>0, <2>2, <3>1, <3>2
  <2> QED BY Zenon, <2>0, <2>1, <2>3, <2>4

\* sam-stagerd reads a command.
<1>ReceiveStays. ASSUME Given, ReceiveStage \/ ReceiveCancel
    PROVE  Stays /\ Follow
  <2> USE <1>ReceiveStays
  <2>1. Still /\ {"EINVAL", "ECANCELED"} \subseteq Errors \ {"none"}
    BY Zenon DEF ReceiveStage, ReceiveCancel, Still, data, Errors
  <2>2. (ip' = ip /\ th' = th) \/ \E err \in {"EINVAL", "ECANCELED"} : StageError(err)
    BY Zenon DEF ReceiveStage, ReceiveCancel
  <2>3. (th' = Wake \/ th' = th)
        /\ (ip' = ip \/ \E err \in {"EINVAL", "ECANCELED"} :
                            ip' = CloseStage([ip EXCEPT !.stage_err = err]))
    BY Zenon, <2>2 DEF StageError
  <2> QED BY Zenon, <2>1, <2>3, <1>EndStays

\* The releaser.
<1>ReleaseStays. ASSUME Given, ReleaseFile \/ DropCall
    PROVE  Stays /\ Follow
  <2> USE <1>ReleaseStays
  <2>1. Still /\ th' = th
    BY Zenon DEF ReleaseFile, DropCall, Still, data
  <2>2. Follow
    BY Zenon, <2>1, GivenDisk, <1>WakeFollows DEF Still
  <2>3. CASE ReleaseFile
    BY Zenon, <2>1, <2>2, <2>3, <1>InodeStays DEF ReleaseFile
  <2>4. CASE DropCall
    <3>1. ip' = DropIno(ip) /\ ~DataReader
      BY Zenon, <2>4 DEF DropCall, DataFree
    <3>2. Blocks(ip', OnDisk) /\ NoStage(ip') /\ Alike(ip, ip')
      BY Zenon, <3>1, GivenDisk, <1>DropBlocks
    <3> QED BY Zenon, <2>1, <2>2, <3>1, <3>2 DEF Stays, Still
  <2> QED BY Zenon, <2>3, <2>4

\* A request that is written to disk is for the current version.
<1>RequestCurrent. ASSUME Given, ip.offline, NEW k \in DOMAIN work
    PROVE  work[k].image[GetArcopy(work[k])] = content
  <2> USE <1>RequestCurrent
  <2>1. Tracks(Of(content))
    BY Zenon DEF Given, VersionInv, Fresh
  <2>2. PICK v : v = content
    BY Zenon
  <2>3. Tracks(Of(v)) /\ Of(v) \subseteq Msgs
    BY Zenon, <2>1, <2>2 DEF Of
  <2>4. work[k] \in Of(v) /\ GetArcopy(work[k]) \in work[k].copies
    BY Zenon, <2>3, Request
  <2>5. work[k] \in Named(Of(v))
    BY <2>3, WorkElement DEF Tracks
  <2> QED BY Zenon, <2>2, <2>4, <2>5 DEF Of, Named

\* sam-stagerd works on a request.
<1>StagerStays. ASSUME Given, NEW k \in DOMAIN work, Stager(k)
    PROVE  Stays /\ Follow
  <2> USE <1>StagerStays
  <2> DEFINE c == GetArcopy(work[k])
  <2>0. Still /\ (th' = Wake \/ th' = th)
    BY Zenon DEF Stager, Duplicate, StageResponse, StageWrite, MediaError, StageClose, data, Still
  <2>1. Follow
    BY Zenon, <2>0, GivenDisk, <1>WakeFollows DEF Still
  <2>2. c \in Copies /\ IInv /\ ip \in Inode
    BY Zenon, Request, GivenDisk DEF Given, TypeInv
  <2>3. CASE Duplicate(k) \/ (StageResponse(k) /\ ip' = ip)
    BY Zenon, <2>0, <2>1, <2>3, <1>InodeStays DEF Duplicate
  <2>4. CASE StageResponse(k) /\ ip' = CloseStage([ip EXCEPT !.staging = TRUE])
    BY Zenon, <2>0, <2>4, <1>EndStays
  <2>5. CASE StageResponse(k) /\ ip.offline
             /\ ip' = [ip EXCEPT !.staging = TRUE, !.stage_pid = TRUE]
    <3>1. /\ ip'.offline = ip.offline /\ ip'.rmsize = ip.rmsize /\ ip'.size = ip.size
          /\ ip'.disk = ip.disk /\ ip'.staging = TRUE
          /\ ip'.arch_status = ip.arch_status /\ ip'.ar_flags = ip.ar_flags /\ ip'.mtime = ip.mtime
      BY Zenon, <2>2, <2>5 DEF Inode
    <3>2. Alike(ip, ip') /\ Blocks(ip', OnDisk) /\ NoStage(ip') /\ Settled(ip')
      BY Zenon, <2>5, <3>1, GivenDisk DEF Alike, Blocks, NoStage, Settled
    <3> QED BY Zenon, <2>0, <2>1, <3>2 DEF Stays, Still
  <2>6. CASE StageWrite(k)
    <3> DEFINE err == IF ip.staging THEN ip.stage_err ELSE "ECANCELED"
    <3>1. CASE err = "none"
      <4>1. ip.staging /\ ip.offline
        BY Zenon, <3>1, GivenDisk DEF NoStage
      <4>2. work[k].image[c] = content /\ OnDisk = content
        BY Zenon, <4>1, <1>RequestCurrent, <1>OfflineUnwritten
      <4>3. ip' = [ip EXCEPT !.disk = work[k].image[c], !.size = 1]
        BY Zenon, <2>6, <3>1 DEF StageWrite
      <4> HIDE DEF c
      <4>4. /\ ip'.offline = ip.offline /\ ip'.rmsize = ip.rmsize
            /\ ip'.disk = work[k].image[c] /\ ip'.staging = ip.staging
            /\ ip'.arch_status = ip.arch_status /\ ip'.ar_flags = ip.ar_flags
            /\ ip'.mtime = ip.mtime
        BY Zenon, <2>2, <4>3 DEF Inode
      <4>5. Alike(ip, ip') /\ Blocks(ip', OnDisk) /\ NoStage(ip') /\ Settled(ip')
        BY Zenon, <4>1, <4>2, <4>4, GivenDisk DEF Alike, Blocks, NoStage, Settled
      <4> QED BY Zenon, <2>0, <2>1, <4>5 DEF Stays, Still
    <3>2. CASE err # "none"
      <4>1. ip' = [ip EXCEPT !.stage_err = err]
        BY Zenon, <2>6, <3>2 DEF StageWrite
      <4> HIDE DEF err
      <4>2. /\ ip'.offline = ip.offline /\ ip'.rmsize = ip.rmsize /\ ip'.size = ip.size
            /\ ip'.disk = ip.disk /\ ip'.stage_err = err
            /\ ip'.arch_status = ip.arch_status /\ ip'.ar_flags = ip.ar_flags
            /\ ip'.mtime = ip.mtime
        BY Zenon, <2>2, <4>1 DEF Inode
      <4>3. Alike(ip, ip') /\ Blocks(ip', OnDisk) /\ NoStage(ip') /\ Settled(ip')
        BY Zenon, <3>2, <4>2, GivenDisk DEF Alike, Blocks, NoStage, Settled
      <4> QED BY Zenon, <2>0, <2>1, <4>3 DEF Stays, Still
    <3> QED BY Zenon, <3>1, <3>2
  <2>7. CASE MediaError(k)
    <3>1. ip' \in {ip, Damage(ip, c), [ip EXCEPT !.staging = TRUE, !.stage_err = "EIO"]}
      BY Zenon, <2>7 DEF MediaError
    <3> HIDE DEF c
    <3>2. CASE ip' = ip
      BY Zenon, <2>0, <2>1, <3>2, <1>InodeStays
    <3>3. CASE ip' = Damage(ip, c)
      <4>1. Alike(ip, ip') /\ Blocks(ip', OnDisk) /\ NoStage(ip') /\ (DataReader => Settled(ip'))
        BY Zenon, <2>2, <3>3, GivenDisk, <1>SameBlocks
      <4> QED BY Zenon, <2>0, <2>1, <4>1 DEF Stays, Still
    <3>4. CASE ip' = [ip EXCEPT !.staging = TRUE, !.stage_err = "EIO"]
      <4>1. /\ ip'.offline = ip.offline /\ ip'.rmsize = ip.rmsize /\ ip'.size = ip.size
            /\ ip'.disk = ip.disk /\ ip'.stage_err = "EIO"
            /\ ip'.arch_status = ip.arch_status /\ ip'.ar_flags = ip.ar_flags
            /\ ip'.mtime = ip.mtime
        BY Zenon, <2>2, <3>4 DEF Inode
      <4>2. Alike(ip, ip') /\ Blocks(ip', OnDisk) /\ NoStage(ip') /\ Settled(ip')
        BY Zenon, <4>1, GivenDisk DEF Alike, Blocks, NoStage, Settled
      <4> QED BY Zenon, <2>0, <2>1, <4>2 DEF Stays, Still
    <3> QED BY Zenon, <3>1, <3>2, <3>3, <3>4
  <2>8. CASE StageClose(k)
    <3> DEFINE i == CloseStage(ip)
               b == i.write_mode /\ \E t \in Threads : IsOpen(t)
               j == [i EXCEPT !.write_mode = b]
    <3>1. ip' \in {j, Damage(j, c)}
      BY Zenon, <2>8 DEF StageClose
    <3>2. /\ i \in Inode /\ b \in BOOLEAN
          /\ Blocks(i, OnDisk) /\ NoStage(i) /\ Settled(i) /\ Alike(ip, i)
          /\ i.arch_status = ip.arch_status
      <4>1. i \in Inode /\ Blocks(i, OnDisk) /\ NoStage(i) /\ Settled(i) /\ Alike(ip, i)
        BY Zenon, <2>2, GivenDisk, <1>CloseBlocks, CloseType
      <4>2. i.arch_status = ip.arch_status
        BY Zenon, <2>2, <1>InodeTyped, CloseKeeps DEF Keeps
      <4>3. b \in BOOLEAN
        BY Zenon, <4>1 DEF Inode
      <4> QED BY Zenon, <4>1, <4>2, <4>3
    <3> HIDE DEF i, b, c
    <3>3. /\ j \in Inode /\ Same(i, j) /\ j.arch_status = i.arch_status
          /\ j.ar_flags = i.ar_flags /\ j.mtime = i.mtime
      BY Zenon, <3>2 DEF Inode, Same
    <3> HIDE DEF j
    <3>4. Blocks(j, OnDisk) /\ NoStage(j) /\ Settled(j) /\ Alike(ip, j) /\ j.arch_status = ip.arch_status
      BY Zenon, <3>2, <3>3, <1>SameInode DEF Alike, Same
    <3>5. LET d == Damage(j, c)
          IN Blocks(d, OnDisk) /\ NoStage(d) /\ Settled(d) /\ Alike(j, d)
      BY Zenon, <2>2, <3>3, <3>4, <1>SameBlocks
    <3>6. Alike(ip, Damage(j, c))
      BY Zenon, <3>4, <3>5, <1>AlikeBoth
    <3>7. Blocks(ip', OnDisk) /\ NoStage(ip') /\ Settled(ip') /\ Alike(ip, ip')
      BY Zenon, <3>1, <3>4, <3>5, <3>6
    <3> QED BY Zenon, <2>0, <2>1, <3>7 DEF Stays, Still
  <2>9. StageResponse(k) => \/ ip' = ip
                            \/ ip' = CloseStage([ip EXCEPT !.staging = TRUE])
                            \/ ip.offline /\ ip' = [ip EXCEPT !.staging = TRUE, !.stage_pid = TRUE]
    BY Zenon DEF StageResponse
  <2> QED BY Zenon, <2>3, <2>4, <2>5, <2>6, <2>7, <2>8, <2>9 DEF Stager

\* The commands that change the flags of a copy, or forget it.
<1>CommandSame. ASSUME NEW i \in Inode, NEW c \in Copies
    PROVE  /\ Same(i, Rearch(i, c)) /\ Alike(i, Rearch(i, c))
           /\ Same(i, Unarchive(i, c)) /\ Alike(i, Unarchive(i, c))
           /\ Unarchive(i, c).arch_status = i.arch_status \ {c}
           /\ c \in i.arch_status =>
                 /\ Same(i, Undamage(i, c)) /\ Alike(i, Undamage(i, c))
                 /\ Same(i, Unrearch(i, c)) /\ Alike(i, Unrearch(i, c))
  <2> USE <1>CommandSame
  <2>1. Same(i, Rearch(i, c)) /\ Alike(i, Rearch(i, c))
    <3> DEFINE j == Rearch(i, c)
    <3>1. /\ Same(i, j) /\ j.arch_status = i.arch_status /\ j.mtime = i.mtime
          /\ \A o \in Copies : j.ar_flags[o] = i.ar_flags[o]
                               \/ j.ar_flags[o] = i.ar_flags[o] \cup {"rearch"}
      BY Zenon DEF Inode, Same, Rearch
    <3> HIDE DEF j
    <3>2. Alike(i, j)
      BY <3>1 DEF Alike, Same
    <3> QED BY Zenon, <3>1, <3>2 DEF j
  <2>2. /\ Same(i, Unarchive(i, c)) /\ Alike(i, Unarchive(i, c))
        /\ Unarchive(i, c).arch_status = i.arch_status \ {c}
    <3> DEFINE j == Unarchive(i, c)
    <3>1. /\ Same(i, j) /\ j.arch_status = i.arch_status \ {c} /\ j.mtime = i.mtime
          /\ \A o \in Copies : j.ar_flags[o] = i.ar_flags[o] \/ j.ar_flags[o] = {"unarchived"}
      BY Zenon DEF Inode, Same, Unarchive
    <3> HIDE DEF j
    <3>2. Alike(i, j)
      BY <3>1 DEF Alike, Same
    <3> QED BY Zenon, <3>1, <3>2 DEF j
  <2>3. ASSUME c \in i.arch_status
        PROVE  Same(i, Undamage(i, c)) /\ Alike(i, Undamage(i, c))
    <3> DEFINE j == Undamage(i, c)
    <3>1. /\ Same(i, j) /\ j.arch_status = i.arch_status \cup {c} /\ j.mtime = i.mtime
          /\ \A o \in Copies : j.ar_flags[o] = i.ar_flags[o]
                               \/ j.ar_flags[o] = i.ar_flags[o] \ {"damaged", "stale"}
      BY Zenon DEF Inode, Same, Undamage
    <3> HIDE DEF j
    <3>2. Alike(i, j)
      BY Zenon, <2>3, <3>1 DEF Alike, Same
    <3> QED BY Zenon, <3>1, <3>2 DEF j
  <2>4. ASSUME c \in i.arch_status
        PROVE  Same(i, Unrearch(i, c)) /\ Alike(i, Unrearch(i, c))
    <3> DEFINE j == Unrearch(i, c)
    <3>1. /\ Same(i, j) /\ j.arch_status = i.arch_status \cup {c} /\ j.mtime = i.mtime
          /\ \A o \in Copies : j.ar_flags[o] = i.ar_flags[o]
                               \/ j.ar_flags[o] = i.ar_flags[o] \ {"rearch"}
      BY Zenon DEF Inode, Same, Unrearch
    <3> HIDE DEF j
    <3>2. Alike(i, j)
      BY Zenon, <2>4, <3>1 DEF Alike, Same
    <3> QED BY Zenon, <3>1, <3>2 DEF j
  <2> QED BY Zenon, <2>1, <2>2, <2>3, <2>4

\* Two copies change places.
<1>ExarchiveInv. ASSUME Given, setup' = setup, content' = content, newest' = newest, th' = th,
           "exarchive" \in setup.admin, NEW c \in Copies, NEW d \in Copies,
           ip' = Exarchive(ip, c, d), image' = Swap(image, c, d),
           ip.arch_status # {} \/ ip.offline
    PROVE  DiskInv' /\ CopyInv' /\ (Fresh => Fresh')
  <2> USE <1>ExarchiveInv
  <2> DEFINE moved(n) == IF n = c THEN d ELSE IF n = d THEN c ELSE n
             s == {n \in Copies : moved(n) \in ip.arch_status}
             f == Swap(ip.ar_flags, c, d)
             b == ip.archdone /\ d \in ip.arch_status
  <2>0. ip \in Inode /\ ~setup.inconsistent /\ CopyInv /\ image \in [Copies -> Nat \cup {None}]
        /\ ip.ar_flags \in [Copies -> SUBSET Flags]
    BY Zenon, GivenDisk DEF Given, Orderly, VersionInv, TypeInv, TypeOK, Inode
  <2>1. ip' = [ip EXCEPT !.arch_status = s, !.ar_flags = f, !.archdone = b]
    BY Zenon DEF Exarchive
  <2>2. \A n \in Copies : /\ moved(n) \in Copies /\ f[n] = ip.ar_flags[moved(n)]
                          /\ image'[n] = image[moved(n)]
    BY Zenon, <2>0 DEF Swap
  <2>3. \A n \in s : n \in Copies /\ moved(n) \in ip.arch_status
    BY Zenon
  <2> HIDE DEF s, f, b, moved
  <2>4. Same(ip, ip') /\ ip'.arch_status = s /\ ip'.ar_flags = f /\ ip'.mtime = ip.mtime
    BY Zenon, <2>0, <2>1 DEF Inode, Same
  <2>5. ~Fresh
    BY Zenon DEF Fresh
  <2>6. Follow
    BY Zenon, GivenDisk, <1>WakeFollows
  <2>7. DiskInv'
    <3>1. OnDisk' = OnDisk
      BY Zenon, <2>6 DEF Follow, OnDisk
    <3>2. Blocks(ip', OnDisk) /\ NoStage(ip') /\ (DataReader => ~DataWriter /\ Settled(ip'))
      BY Zenon, <2>4, GivenDisk, <1>SameInode
    <3> QED BY Zenon, <2>6, <3>1, <3>2 DEF DiskInv, Follow, Blocks, NoStage, Settled
  <2>8. CopyInv'
    <3>1. Truncated' <=> Truncated
      BY Zenon DEF Truncated
    <3>2. \A n \in ip'.arch_status : image'[n] = content' /\ "stale" \notin ip'.ar_flags[n]
      BY ZenonT(30), <2>0, <2>2, <2>3, <2>4 DEF CopyInv
    <3>3. ~Truncated' => \A n \in Copies : "stale" \notin ip'.ar_flags[n]
      BY Zenon, <2>0, <2>2, <2>4, <3>1 DEF CopyInv
    <3> QED BY Zenon, <2>0, <2>4, <3>2, <3>3 DEF CopyInv
  <2> QED BY Zenon, <2>5, <2>7, <2>8

\* The commands on the copies of a file.
<1>ArchiveCopyInv. ASSUME Given, NEW op \in setup.admin, NEW c \in Copies, ArchiveCopy(op, c)
    PROVE  DiskInv' /\ CopyInv' /\ (Fresh => Fresh')
  <2> USE <1>ArchiveCopyInv
  <2>0. /\ setup' = setup /\ content' = content /\ newest' = newest /\ th' = th
        /\ ip.arch_status # {} \/ ip.offline
        /\ ip \in Inode /\ image \in [Copies -> Nat \cup {None}] /\ IInv /\ VersionInv
    BY Zenon, GivenDisk DEF ArchiveCopy, Given, TypeInv, TypeOK
  <2>1. Follow
    BY Zenon, <2>0, <1>WakeFollows
  <2>2. ASSUME Same(ip, ip'), Alike(ip, ip'), \A o \in ip'.arch_status : image'[o] = image[o]
        PROVE  DiskInv' /\ CopyInv' /\ (Fresh => Fresh')
    <3>1. Blocks(ip', OnDisk) /\ NoStage(ip') /\ (DataReader => Settled(ip'))
      BY Zenon, <2>2, GivenDisk, <1>SameInode
    <3>2. Stays
      BY Zenon, <2>0, <2>2, <3>1 DEF Stays
    <3> QED BY Zenon, <2>0, <2>1, <3>2, <1>StaysInv
  <2>3. CASE ip' = Unarchive(ip, c) /\ image' = [image EXCEPT ![c] = None]
    <3>1. /\ Same(ip, ip') /\ Alike(ip, ip') /\ ip'.arch_status = ip.arch_status \ {c}
      BY Zenon, <2>0, <2>3, <1>CommandSame
    <3>2. \A o \in ip'.arch_status : image'[o] = image[o]
      BY Zenon, <2>0, <2>3, <3>1, GivenDisk
    <3> QED BY Zenon, <2>2, <3>1, <3>2
  <2>4. CASE op = "exarchive" /\ \E d \in Copies \ {c} :
                ip' = Exarchive(ip, c, d) /\ image' = Swap(image, c, d)
    BY Zenon, <2>0, <2>4, <1>ExarchiveInv
  <2>5. CASE image' = image /\ ip' \in {Damage(ip, c), Rearch(Damage(ip, c), c)}
    <3> DEFINE i == Damage(ip, c)
    <3>1. /\ i \in Inode /\ Blocks(i, OnDisk) /\ NoStage(i)
          /\ (DataReader => Settled(i)) /\ Alike(ip, i)
      BY Zenon, <2>0, GivenDisk, <1>SameBlocks, DamageType
    <3>2. i.arch_status = ip.arch_status
      BY Zenon, <2>0, <1>InodeTyped, DamageKeeps
    <3> HIDE DEF i
    <3>3. Same(i, Rearch(i, c)) /\ Alike(i, Rearch(i, c))
      BY Zenon, <3>1, <1>CommandSame
    <3>4. /\ Blocks(Rearch(i, c), OnDisk) /\ NoStage(Rearch(i, c))
          /\ (DataReader => Settled(Rearch(i, c))) /\ Alike(ip, Rearch(i, c))
      BY Zenon, <3>1, <3>2, <3>3, <1>SameInode, <1>AlikeBoth
    <3>5. ip' \in {i, Rearch(i, c)}
      BY Zenon, <2>5 DEF i
    <3>6. Stays
      BY Zenon, <2>0, <2>5, <3>1, <3>4, <3>5 DEF Stays
    <3> QED BY Zenon, <2>0, <2>1, <3>6, <1>StaysInv
  <2>6. CASE image' = image /\ ip' = Rearch(ip, c)
    BY Zenon, <2>0, <2>2, <2>6, <1>CommandSame
  <2>7. CASE op \in {"undamage", "unrearch"} /\ image' = image
             /\ ip' \in {Undamage(ip, c), Unrearch(ip, c)}
    <3>1. ~Truncated
      BY Zenon, <2>7 DEF Given, Orderly
    <3>2. c \in ip.arch_status
      BY Zenon, <2>0, <3>1 DEF ArchiveCopy, VersionInv, CopyInv
    <3> DEFINE i == Undamage(ip, c)
               j == Unrearch(ip, c)
    <3>4. Same(ip, i) /\ Alike(ip, i) /\ Same(ip, j) /\ Alike(ip, j)
      BY Zenon, <2>0, <3>2, <1>CommandSame
    <3>5. ip' = i \/ ip' = j
      BY Zenon, <2>7
    <3> HIDE DEF i, j
    <3>3. Same(ip, ip') /\ Alike(ip, ip')
      BY Zenon, <3>4, <3>5
    <3> QED BY Zenon, <2>2, <2>7, <3>3
  <2> QED BY Zenon, <2>3, <2>4, <2>5, <2>6, <2>7 DEF ArchiveCopy

\* The inode once a copy is recorded.
<1>ArchivedFields. ASSUME NEW i \in Inode, NEW c \in Copies, NEW m, NEW v, Blocks(i, v), NoStage(i)
    PROVE  LET j == Archived(i, c, m)
           IN /\ Blocks(j, v) /\ NoStage(j) /\ j.mtime = i.mtime
              /\ j.arch_status \subseteq (IF m # i.mtime THEN i.arch_status
                                          ELSE i.arch_status \cup {c})
              /\ "stale" \notin j.ar_flags[c]
              /\ \A o \in Copies \ {c} : "stale" \in j.ar_flags[o] => "stale" \in i.ar_flags[o]
              /\ m # i.mtime /\ i.arch_status = {} /\ ~i.offline => ~j.offline
  <2> USE <1>ArchivedFields
  <2> DEFINE status == IF m # i.mtime THEN i.arch_status ELSE i.arch_status \cup {c}
             flag == IF m # i.mtime THEN {"inconsistent"} ELSE {}
             flags == [i.ar_flags EXCEPT ![c] = flag]
             redo == {"inconsistent", "damaged", "rearch", "stale"}
             done == IF setup.required \subseteq status
                     THEN \A n \in setup.required : flags[n] \cap redo = {}
                     ELSE i.archdone
             nodrop == ~(setup.norel \subseteq status)
             n == [i EXCEPT !.arch_status = status, !.ar_flags = flags,
                            !.archdone = done, !.archnodrop = nodrop]
             j == Archived(i, c, m)
  <2>1. flag \in SUBSET Flags /\ "stale" \notin flag
    BY DEF Flags
  <2>2. status \in SUBSET Copies /\ done \in BOOLEAN /\ nodrop \in BOOLEAN
    BY Zenon DEF Inode
  <2>3. j \in {n, DropIno(n)}
    BY Zenon DEF Archived
  <2>4. m # i.mtime => status = i.arch_status
    BY Zenon
  <2> HIDE DEF status, flag, done, nodrop, j
  <2>5. flags \in [Copies -> SUBSET Flags] /\ flags[c] = flag
        /\ \A o \in Copies \ {c} : flags[o] = i.ar_flags[o]
    BY Zenon, <2>1 DEF Inode
  <2> HIDE DEF flags
  <2>6. n \in Inode /\ Same(i, n) /\ n.arch_status = status /\ n.ar_flags = flags
        /\ n.mtime = i.mtime
    BY Zenon, <2>2, <2>5 DEF Inode, Same
  <2> HIDE DEF n
  <2>7. Blocks(n, v) /\ NoStage(n)
    BY Zenon, <2>6, <1>SameInode
  <2>8. Blocks(j, v) /\ NoStage(j) /\ Alike(n, j)
    <3>1. Alike(n, n)
      BY Zenon DEF Alike
    <3> QED BY Zenon, <2>3, <2>6, <2>7, <3>1, <1>DropBlocks
  <2>9. /\ j.mtime = i.mtime /\ j.arch_status \subseteq status
        /\ "stale" \notin j.ar_flags[c]
        /\ \A o \in Copies \ {c} : "stale" \in j.ar_flags[o] => "stale" \in i.ar_flags[o]
        /\ status = {} /\ ~i.offline => ~j.offline
    BY Zenon, <2>1, <2>5, <2>6, <2>8 DEF Alike, Same
  <2> QED BY Zenon, <2>4, <2>8, <2>9 DEF j, status

\* A copy is recorded (sam_set_archive): it is of the current version, or it is
\* not counted as archived.
<1>SetArchiveInv. ASSUME Given, NEW c \in Copies, SetArchive(c)
    PROVE  DiskInv' /\ CopyInv' /\ (Fresh => Fresh')
  <2> USE <1>SetArchiveInv
  <2> DEFINE m == th[c].mtime
  <2>0. /\ setup' = setup /\ content' = content /\ newest' = newest /\ Goto(c, "out")
        /\ th[c].at = "copied" /\ ~DataReader /\ ~DataWriter
        /\ IInv /\ VersionInv /\ CopyInv /\ ip \in Inode /\ c \in Threads /\ c \notin Users
        /\ image \in [Copies -> Nat \cup {None}]
    BY Zenon, CopiesAssumption, GivenDisk
       DEF SetArchive, DataFree, Given, VersionInv, Threads, TypeInv, TypeOK
  <2>1. Follow
    BY Zenon, <2>0, <1>GotoFollows DEF AllSteps, Reader
  <2>2. CASE ip' = ip /\ image' = image
    <3>1. Stays
      BY Zenon, <2>0, <2>2, <1>InodeStays DEF Still
    <3> QED BY Zenon, <2>0, <2>1, <3>1, <1>StaysInv
  <2>3. CASE /\ ip' = Archived(ip, c, m) /\ image' = [image EXCEPT ![c] = th[c].data]
             /\ m = ip.mtime \/ setup.inconsistent
    <3>1. /\ Blocks(ip', OnDisk) /\ NoStage(ip') /\ ip'.mtime = ip.mtime
          /\ ip'.arch_status \subseteq (IF m # ip.mtime THEN ip.arch_status
                                        ELSE ip.arch_status \cup {c})
          /\ "stale" \notin ip'.ar_flags[c]
          /\ \A o \in Copies \ {c} : "stale" \in ip'.ar_flags[o] => "stale" \in ip.ar_flags[o]
          /\ m # ip.mtime /\ ip.arch_status = {} /\ ~ip.offline => ~ip'.offline
      <4> DEFINE j == Archived(ip, c, m)
      <4>0. ip \in Inode /\ Blocks(ip, OnDisk) /\ NoStage(ip)
        BY Zenon, GivenDisk
      <4> HIDE DEF m
      <4>1. /\ Blocks(j, OnDisk) /\ NoStage(j) /\ j.mtime = ip.mtime
            /\ j.arch_status \subseteq (IF m # ip.mtime THEN ip.arch_status
                                        ELSE ip.arch_status \cup {c})
            /\ "stale" \notin j.ar_flags[c]
            /\ \A o \in Copies \ {c} : "stale" \in j.ar_flags[o] => "stale" \in ip.ar_flags[o]
            /\ m # ip.mtime /\ ip.arch_status = {} /\ ~ip.offline => ~j.offline
        BY <4>0, <1>ArchivedFields, ZenonT(30)
      <4>2. ip' = j
        BY Zenon, <2>3
      <4> HIDE DEF j
      <4> QED BY Zenon, <4>1, <4>2
    <3>2. DiskInv'
      <4>1. OnDisk' = OnDisk
        BY Zenon, <2>0, <2>1 DEF Follow, OnDisk
      <4> QED BY Zenon, <2>0, <2>1, <3>1, <4>1 DEF DiskInv, Follow, Blocks, NoStage, Settled
    <3>3. m # ip.mtime => c \notin ip.arch_status
      BY Zenon, <2>0, <2>3 DEF CopyInv
    <3>4. ip.arch_status \subseteq Copies /\ (m = ip.mtime => th[c].data = content)
      BY Zenon, <2>0, GivenDisk DEF CopyInv
    <3>5. \A o \in ip'.arch_status :
             \/ o = c /\ m = ip.mtime
             \/ o \in ip.arch_status /\ o \in Copies \ {c}
      BY Zenon, <3>1, <3>3, <3>4
    <3>6. /\ image'[c] = th[c].data /\ \A o \in Copies \ {c} : image'[o] = image[o]
      BY Zenon, <2>0, <2>3
    <3>7. CopyInv'
      <4>1. Truncated' <=> Truncated
        BY Zenon, <2>0 DEF Truncated
      <4>2. \A o \in ip'.arch_status : image'[o] = content' /\ "stale" \notin ip'.ar_flags[o]
        BY Zenon, <2>0, <3>1, <3>4, <3>5, <3>6 DEF CopyInv
      <4>3. th'[c].at = "out"
        BY Zenon, <2>0 DEF Goto, IInv, ThreadType, StepType
      <4>4. setup'.inconsistent => \A o \in ip'.arch_status :
                                    th'[o].at = "out" \/ th'[o].mtime = ip'.mtime
        BY ZenonT(30), <2>0, <2>1, <3>1, <3>5, <4>3 DEF CopyInv, Follow
      <4>5. ~Truncated' => \A o \in Copies : "stale" \notin ip'.ar_flags[o]
        BY Zenon, <2>0, <3>1, <4>1 DEF CopyInv
      <4>6. \A o \in Copies :
              /\ th'[o].at = "copied" /\ th'[o].mtime = ip'.mtime => th'[o].data = content'
              /\ th'[o].at = "send" => th'[o].next = "woken"
        BY ZenonT(30), <2>0, <2>1, <3>1 DEF CopyInv, Follow
      <4> QED BY Zenon, <4>2, <4>4, <4>5, <4>6 DEF CopyInv
    <3>8. Fresh => Fresh'
      BY Zenon, <2>0, <2>1, <3>1 DEF Fresh, Follow
    <3> QED BY Zenon, <3>2, <3>7, <3>8
  <2> QED BY Zenon, <2>2, <2>3 DEF SetArchive

\* arcopy begins when no stage request is under way.
<1>IdOpenArchInv. ASSUME Given, NEW c \in Copies, IdOpenArch(c)
    PROVE  VersionInv'
  <2> USE <1>IdOpenArchInv
  <2>0. /\ setup' = setup /\ content' = content /\ newest' = newest /\ image' = image
        /\ cmds' = cmds /\ work' = work /\ ip' = [ip EXCEPT !.arch_count = TRUE]
        /\ cmds = <<>> /\ work = <<>> /\ (\A t \in Threads : th[t].at # "send")
        /\ VersionInv /\ CopyInv /\ DiskInv /\ ip \in Inode /\ ThreadType
        /\ c \in Threads /\ c \notin Users /\ Users \subseteq Threads /\ Copies \subseteq Threads
    BY Zenon, CopiesAssumption, GivenDisk
       DEF IdOpenArch, Aged, Given, IInv, Orderly, VersionInv, Threads, data, stager
  <2>1. /\ Same(ip, ip') /\ ip'.arch_status = ip.arch_status /\ ip'.ar_flags = ip.ar_flags
        /\ ip'.mtime = ip.mtime
    BY Zenon, <2>0 DEF Inode, Same
  <2>2. th' = [th EXCEPT ![c] = [@ EXCEPT !.at = "opened", !.mtime = ip.mtime]] /\ StepType(th[c])
    BY Zenon, <2>0 DEF IdOpenArch, ThreadType
  <2>3. th' = [th EXCEPT ![c] = [at |-> "opened", next |-> th[c].next, msg |-> th[c].msg,
                                 mtime |-> ip.mtime, data |-> th[c].data]]
    BY <2>2, StepMtime, Zenon
  <2>4. /\ th'[c].at = "opened" /\ th'[c].mtime = ip.mtime
        /\ \A o \in Threads \ {c} : th'[o] = th[o]
    BY <2>0, <2>3 DEF ThreadType
  <2>5. (DataWriter' <=> DataWriter) /\ (DataReader' => DataReader)
    <3>1. \A o \in Threads : Reads(o)' <=> Reads(o)
      BY Zenon, <2>0 DEF Reads
    <3>2. DataWriter' <=> DataWriter
      BY Zenon, <2>0, <2>4 DEF DataWriter
    <3>3. DataReader' => DataReader
      BY Zenon, <2>4, <3>1 DEF DataReader
    <3> QED BY Zenon, <3>2, <3>3
  <2>6. DiskInv'
    <3>1. OnDisk' = OnDisk
      BY Zenon, <2>0, <2>5 DEF OnDisk
    <3> QED BY Zenon, <2>0, <2>1, <2>5, <3>1 DEF DiskInv, Same, Blocks, NoStage, Settled
  <2>7. CopyInv'
    <3>1. Truncated' <=> Truncated
      BY Zenon, <2>0 DEF Truncated
    <3>2. ip.arch_status \subseteq Copies
      BY Zenon, GivenDisk
    <3>3. setup'.inconsistent => \A o \in ip'.arch_status :
                                    th'[o].at = "out" \/ th'[o].mtime = ip'.mtime
      BY ZenonT(30), <2>0, <2>1, <2>4, <3>2 DEF CopyInv
    <3>4. \A o \in Copies :
            /\ th'[o].at = "copied" /\ th'[o].mtime = ip'.mtime => th'[o].data = content'
            /\ th'[o].at = "send" => th'[o].next = "woken"
      BY ZenonT(30), <2>0, <2>1, <2>4 DEF CopyInv
    <3> QED BY Zenon, <2>0, <2>1, <3>1, <3>3, <3>4 DEF CopyInv
  <2>8. Tracks(Of(content))'
    <3>1. \A t \in Threads : th'[t].at # "send"
      BY Zenon, <2>0, <2>4
    <3>2. cmds' \in Seq(Of(content)') /\ work' \in Seq(Named(Of(content)'))
      BY <2>0
    <3> QED BY Zenon, <3>1, <3>2 DEF Tracks, Sends, Named
  <2> QED BY Zenon, <2>6, <2>7, <2>8 DEF VersionInv

\* A file that was modified and not archived since: only its blocks count.
<1>FreshInv. ASSUME Fresh', Truncated', DiskInv',
           \A c \in Copies : th'[c].at = "send" => th'[c].next = "woken"
    PROVE  VersionInv'
  <2> USE <1>FreshInv
  <2>1. CopyInv'
    BY Zenon DEF Fresh, CopyInv
  <2> QED BY Zenon, <2>1 DEF VersionInv

\* The inode once the file is modified (sam_mark_ino).
<1>MarkFields. ASSUME NEW i \in Inode, NEW now
    PROVE  LET j == MarkIno(i, now)
           IN Same(i, j) /\ j.arch_status = {} /\ j.mtime = now
  BY Zenon, <1>MarkFields DEF MarkIno, Inode, Same

\* A thread that writes leaves the arcopy processes alone.
<1>UserMoves. ASSUME IInv, setup' = setup, NEW u \in Users, NEW at \in AllSteps, Goto(u, at)
    PROVE  /\ th'[u].at = at /\ (\A o \in Threads \ {u} : th'[o] = th[o])
           /\ \A c \in Copies : th'[c] = th[c]
           /\ \A o \in Threads : Reads(o)' <=> Reads(o)
           /\ u \in Threads /\ Users \subseteq Threads /\ (Truncated' <=> Truncated)
  <2> USE <1>UserMoves
  <2>1. u \in Threads /\ u \notin Copies /\ Copies \subseteq Threads /\ Users \subseteq Threads
    BY Zenon, CopiesAssumption DEF Threads
  <2>2. th'[u].at = at /\ \A o \in Threads \ {u} : th'[o] = th[o]
    <3>1. th' = Moved(u, at, th[u].next, th[u].msg, th[u].data)
      BY Zenon, <2>1, MoveForms
    <3>2. /\ th'[u] = [at |-> at, next |-> th[u].next, msg |-> th[u].msg, mtime |-> th[u].mtime,
                       data |-> th[u].data]
          /\ \A o \in Threads \ {u} : th'[o] = th[o]
      BY Zenon, <2>1, <3>1 DEF IInv, ThreadType, Moved
    <3>3. th'[u].at = at
      BY <3>2
    <3> QED BY Zenon, <3>2, <3>3
  <2> QED BY Zenon, <2>1, <2>2 DEF Reads, Truncated

\* A file that is modified is fresh.
<1>ModifiedFresh. ASSUME Given, ip'.arch_status = {}, ~ip'.offline, ip'.mtime \in Now,
           \A c \in Copies : th'[c] = th[c]
    PROVE  Fresh'
  <2> USE <1>ModifiedFresh
  <2>1. \A c \in Copies : th[c].at # "out" => th[c].mtime # ip'.mtime
    BY Zenon, Times, GivenDisk DEF Inode, Protected
  <2> QED BY Zenon, <2>1 DEF Fresh

<1>TruncateInv. ASSUME Given, NEW u \in Users, TruncateIno(u), ~ip.staging
    PROVE  VersionInv'
  <2> USE <1>TruncateInv
  <2> DEFINE i == [ip EXCEPT !.disk = 0, !.size = 0, !.rmsize = 0, !.offline = FALSE]
  <2>0. /\ setup' = setup /\ Goto(u, "opened") /\ content' = 0 /\ th[u].at = "trunc"
        /\ (\E now \in Now : ip' = MarkIno(i, now)) /\ ~DataReader /\ ~DataWriter
        /\ IInv /\ ip \in Inode /\ "opened" \in AllSteps
    BY Zenon, GivenDisk DEF TruncateIno, DataFree, AllSteps
  <2>1. i \in Inode /\ i.offline = FALSE /\ i.disk = 0 /\ i.staging = ip.staging
    <3>1. 0 \in 0..1 /\ 0 \in Version
      BY DEF Version
    <3> QED BY Zenon, <2>0, <3>1 DEF Inode
  <2> HIDE DEF i
  <2>2. /\ ip'.offline = FALSE /\ ip'.disk = 0 /\ ~ip'.staging /\ ip'.arch_status = {}
        /\ ip'.mtime \in Now
    <3>1. PICK now \in Now : ip' = MarkIno(i, now)
      BY Zenon, <2>0
    <3>2. Same(i, ip') /\ ip'.arch_status = {} /\ ip'.mtime = now
      BY Zenon, <2>1, <3>1, <1>MarkFields
    <3> QED BY Zenon, <2>1, <3>2 DEF Same
  <2>3. /\ th'[u].at = "opened" /\ (\A o \in Threads \ {u} : th'[o] = th[o])
        /\ (\A c \in Copies : th'[c] = th[c]) /\ (\A o \in Threads : Reads(o)' <=> Reads(o))
        /\ Users \subseteq Threads /\ (Truncated' <=> Truncated)
    BY Zenon, <2>0, <1>UserMoves
  <2>4. Truncated
    <3>1. Writes(u)
      BY Zenon, <2>0, GivenDisk DEF UserInv, UserSteps
    <3> QED BY Zenon, <3>1, GivenDisk DEF Writes, Protected, Truncated
  <2>5. ~DataReader' /\ ~DataWriter'
    <3>1. ~DataWriter'
      BY Zenon, <2>0, <2>3 DEF DataWriter
    <3>2. ~DataReader'
      BY Zenon, <2>0, <2>3 DEF DataReader
    <3> QED BY Zenon, <3>1, <3>2
  <2>6. DiskInv'
    BY Zenon, <2>0, <2>2, <2>5 DEF DiskInv, OnDisk, Blocks, NoStage
  <2>7. Fresh'
    BY Zenon, <2>2, <2>3, <1>ModifiedFresh
  <2> QED BY Zenon, <2>3, <2>4, <2>6, <2>7, <1>FreshInv DEF Given, VersionInv, CopyInv

<1>WriteDoneInv. ASSUME Given, NEW u \in Users, WriteDone(u)
    PROVE  VersionInv'
  <2> USE <1>WriteDoneInv
  <2> DEFINE i == [ip EXCEPT !.rmsize = 1]
  <2>0. /\ setup' = setup /\ Goto(u, "written") /\ content' = newest /\ newest' = newest
        /\ th[u].at = "write" /\ (\E now \in Now : ip' = MarkIno(i, now))
        /\ IInv /\ ip \in Inode /\ "written" \in AllSteps
    BY Zenon, GivenDisk DEF WriteDone, AllSteps
  <2>1. Fresh /\ Truncated /\ DataWriter /\ ~DataReader
    BY Zenon, <2>0, GivenDisk, <1>WriterFresh DEF DataWriter
  <2>2. ip.disk = newest /\ NoStage(ip) /\ ~ip.offline
    BY Zenon, <2>1, GivenDisk DEF Fresh, Blocks, OnDisk
  <2>3. i \in Inode /\ i.offline = ip.offline /\ i.disk = ip.disk /\ i.staging = ip.staging
        /\ i.stage_err = ip.stage_err
    <3>1. 1 \in 0..1
      OBVIOUS
    <3> QED BY Zenon, <2>0, <3>1 DEF Inode
  <2> HIDE DEF i
  <2>4. ip'.offline = ip.offline /\ ip'.disk = ip.disk /\ ip'.staging = ip.staging
        /\ ip'.stage_err = ip.stage_err /\ ip'.arch_status = {} /\ ip'.mtime \in Now
    <3>1. PICK now \in Now : ip' = MarkIno(i, now)
      BY Zenon, <2>0
    <3>2. Same(i, ip') /\ ip'.arch_status = {} /\ ip'.mtime = now
      BY Zenon, <2>3, <3>1, <1>MarkFields
    <3> QED BY Zenon, <2>3, <3>2 DEF Same
  <2>5. /\ th'[u].at = "written" /\ (\A o \in Threads \ {u} : th'[o] = th[o])
        /\ (\A c \in Copies : th'[c] = th[c]) /\ (\A o \in Threads : Reads(o)' <=> Reads(o))
        /\ (Truncated' <=> Truncated)
    BY Zenon, <2>0, <1>UserMoves
  <2>6. ~DataReader'
    BY Zenon, <2>1, <2>5 DEF DataReader
  <2>7. OnDisk' = newest
    BY Zenon, <2>0 DEF OnDisk
  <2>8. DiskInv'
    BY Zenon, <2>2, <2>4, <2>6, <2>7 DEF DiskInv, Blocks, NoStage
  <2>9. Fresh'
    BY Zenon, <2>2, <2>4, <2>5, <1>ModifiedFresh
  <2> QED BY Zenon, <2>1, <2>5, <2>8, <2>9, <1>FreshInv DEF Given, VersionInv, CopyInv

\* Only a thread that truncated the file gets as far as to write it.
<1>WriteInv. ASSUME Given, NEW u \in Users, WriteVn(u) \/ WriteOnline(u)
    PROVE  VersionInv'
  <2> USE <1>WriteInv
  <2>0. WriteVn(u) /\ th[u].at = "opened"
    <3>1. th[u].at # "dlock"
      BY Zenon, GivenDisk DEF WriterInv, WriterSteps, UserInv, UserSteps
    <3> QED BY Zenon, <3>1 DEF WriteVn, WriteOnline
  <2>1. Fresh /\ Truncated /\ ~ip.offline
    BY Zenon, <2>0, <1>WriterFresh DEF Fresh
  <2>2. ~DataReader /\ ~DataWriter /\ setup' = setup /\ content' = content
        /\ CopyIn(u) /\ IInv /\ ip \in Inode /\ content \in Nat /\ newest \in Nat
    BY Zenon, <2>0, <2>1, GivenDisk DEF WriteVn, DataFree, Given, TypeInv, TypeOK
  <2> DEFINE d == IF ip.disk = None THEN None ELSE newest + 1
  <2>3. newest' = newest + 1 /\ Goto(u, "write") /\ "write" \in AllSteps
        /\ ip' = [ip EXCEPT !.disk = d, !.size = 1]
    BY Zenon, <2>2 DEF CopyIn, AllSteps
  <2>4. ip.disk # None
    <3>1. ip.disk = content
      BY Zenon, <2>1, <2>2, GivenDisk DEF Blocks, OnDisk
    <3> QED BY Zenon, <2>2, <3>1, CopiesAssumption
  <2>5. d = newest'
    BY Zenon, <2>3, <2>4
  <2> HIDE DEF d
  <2>6. ip'.offline = ip.offline /\ ip'.disk = d /\ ip'.staging = ip.staging
        /\ ip'.stage_err = ip.stage_err /\ ip'.arch_status = ip.arch_status /\ ip'.mtime = ip.mtime
    BY Zenon, <2>2, <2>3 DEF Inode
  <2>7. /\ th'[u].at = "write" /\ (\A o \in Threads \ {u} : th'[o] = th[o])
        /\ (\A c \in Copies : th'[c] = th[c]) /\ (\A o \in Threads : Reads(o)' <=> Reads(o))
        /\ (Truncated' <=> Truncated)
    BY Zenon, <2>2, <2>3, <1>UserMoves
  <2>8. ~DataReader'
    BY Zenon, <2>2, <2>7 DEF DataReader
  <2>9. DataWriter'
    BY Zenon, <2>7 DEF DataWriter
  <2>10. DiskInv'
    BY Zenon, <2>1, <2>5, <2>6, <2>8, <2>9, GivenDisk DEF DiskInv, OnDisk, Blocks, NoStage
  <2>11. Fresh'
    BY Zenon, <2>1, <2>6, <2>7 DEF Fresh
  <2> QED BY Zenon, <2>1, <2>7, <2>10, <2>11, <1>FreshInv DEF Given, VersionInv, CopyInv

\* The marks of sam-stagerd do not change what a request would stage.
<1>OfClosed. ASSUME NEW v
    PROVE  Closed(Of(v)) /\ Of(v) \subseteq Msgs /\ CancelReq \in Of(v)
  <2> USE <1>OfClosed
  <2>1. ASSUME NEW r \in Of(v), ~r.cancel
        PROVE  /\ [r EXCEPT !.at = "active"] \in Of(v)
               /\ [r EXCEPT !.at = "done"] \in Of(v)
               /\ [r EXCEPT !.at = "done", !.failed = TRUE] \in Of(v)
               /\ \A c \in Copies : [r EXCEPT !.copies = @ \ {c}] \in Of(v)
    <3>1. r \in [cancel : {FALSE}, image : [Copies -> Nat \cup {None}],
                 at : {"queued", "active", "done"}, failed : BOOLEAN, copies : SUBSET Copies]
          /\ \A c \in r.copies : r.image[c] = v
      BY Zenon, <2>1 DEF Of, Msgs
    <3>2. /\ [r EXCEPT !.at = "active"] \in Msgs /\ [r EXCEPT !.at = "done"] \in Msgs
          /\ [r EXCEPT !.at = "done", !.failed = TRUE] \in Msgs
          /\ \A c \in Copies : [r EXCEPT !.copies = @ \ {c}] \in Msgs
      BY Zenon, <2>1, MsgsClosed DEF Closed, Of
    <3>3. /\ [r EXCEPT !.at = "active"].image = r.image /\ [r EXCEPT !.at = "done"].image = r.image
          /\ [r EXCEPT !.at = "active"].copies = r.copies
          /\ [r EXCEPT !.at = "done"].copies = r.copies
      BY Zenon, <3>1
    <3>4. /\ [r EXCEPT !.at = "done", !.failed = TRUE].image = r.image
          /\ [r EXCEPT !.at = "done", !.failed = TRUE].copies = r.copies
      BY Zenon, <3>1
    <3>5. ASSUME NEW c \in Copies
          PROVE  /\ [r EXCEPT !.copies = @ \ {c}].image = r.image
                 /\ [r EXCEPT !.copies = @ \ {c}].copies = r.copies \ {c}
      BY Zenon, <3>1
    <3>6. /\ [r EXCEPT !.at = "active"] \in Of(v)
          /\ [r EXCEPT !.at = "done"] \in Of(v)
          /\ [r EXCEPT !.at = "done", !.failed = TRUE] \in Of(v)
      BY Zenon, <3>1, <3>2, <3>3, <3>4 DEF Of
    <3>7. ASSUME NEW c \in Copies PROVE [r EXCEPT !.copies = @ \ {c}] \in Of(v)
      BY Zenon, <3>1, <3>2, <3>5 DEF Of
    <3> QED BY Zenon, <3>6, <3>7
  <2>2. CancelReq \in Of(v)
    <3>1. CancelReq.cancel
      BY DEF CancelReq
    <3> QED BY Zenon, <3>1, MsgsClosed DEF Of
  <2> QED BY Zenon, <2>1, <2>2 DEF Closed, Of

\* A request is made of the copies that hold the current version.
<1>RequestsNext. ASSUME Given, Next, content' = content, Tracks(Of(content))
    PROVE  Tracks(Of(content))'
  <2> USE <1>RequestsNext
  <2>1. PICK v : v = content
    BY Zenon
  <2>2. Tracks(Of(v)) /\ IInv
    BY Zenon, <2>1 DEF Given
  <2>3. StageReq \in Of(v)
    <3>1. StageReq \in Msgs
      BY Zenon, <2>2, StageReqType DEF Given, TypeInv
    <3>2. StageReq.image = image /\ StageReq.copies \subseteq ip.arch_status
      BY DEF StageReq
    <3> QED BY Zenon, <2>1, <3>1, <3>2 DEF Of, Given, VersionInv, CopyInv
  <2>4. Tracks(Of(v))'
    BY Zenon, <2>2, <2>3, <1>OfClosed, TracksNext
  <2> QED BY Zenon, <2>1, <2>4
<1>0. IInv /\ VersionInv
  BY Zenon DEF Given
<1>1. SUFFICES ASSUME ~VersionInv'
               PROVE  content' = content /\ DiskInv' /\ CopyInv' /\ (Fresh => Fresh')
  BY Zenon, <1>0, <1>RequestsNext DEF VersionInv
<1>2. ASSUME Stays, Follow
      PROVE  content' = content /\ DiskInv' /\ CopyInv' /\ (Fresh => Fresh')
  BY Zenon, <1>0, <1>2, <1>StaysInv DEF Stays
<1>3. ASSUME NEW u \in Users, User(u)
      PROVE  content' = content /\ DiskInv' /\ CopyInv' /\ (Fresh => Fresh')
  <2>1. u \in Threads /\ "clear" \in AllSteps \ {"send", "copied", "write"} /\ ~Reader("clear")
        /\ u \notin Copies
    BY Zenon, CopiesAssumption DEF Threads, AllSteps, Reader
  <2>2. CASE StageFile(u)
    BY Zenon, <1>2, <2>2, <1>StageFileStays
  <2>3. CASE ReadVn(u)
    BY Zenon, <1>2, <2>1, <2>3, <1>ReadVnStays
  <2>4. CASE Interrupt(u) \/ OpenVn(u) \/ ClearIno(u) \/ CloseWrite(u)
    BY Zenon, <1>2, <2>4, <1>CallStays
  <2>5. CASE TruncateIno(u) /\ ip.staging
    <3>1. Goto(u, "clear") /\ ip' = ip /\ Still /\ th[u].at # "write" /\ setup' = setup
      BY Zenon, <2>5 DEF TruncateIno, Still
    <3> QED BY Zenon, <1>0, <1>2, <2>1, <3>1, <1>GotoFollows, <1>InodeStays
  <2>6. CASE (TruncateIno(u) /\ ~ip.staging) \/ WriteVn(u) \/ WriteOnline(u) \/ WriteDone(u)
    BY Zenon, <1>1, <2>6, <1>TruncateInv, <1>WriteInv, <1>WriteDoneInv
  <2> QED BY Zenon, <1>3, <2>2, <2>3, <2>4, <2>5, <2>6 DEF User
<1>4. ASSUME NEW c \in Copies, Arcopy(c)
      PROVE  content' = content /\ DiskInv' /\ CopyInv' /\ (Fresh => Fresh')
  <2>1. c \in Threads
    BY Zenon DEF Threads
  <2> QED BY Zenon, <1>1, <1>2, <1>4, <2>1, <1>IdOpenArchInv, <1>ReadVnStays, <1>SetArchiveInv
          DEF Arcopy, SetArchive
<1>5. ASSUME NEW op \in setup.admin, NEW c \in Copies, ArchiveCopy(op, c)
      PROVE  content' = content /\ DiskInv' /\ CopyInv' /\ (Fresh => Fresh')
  BY Zenon, <1>5, <1>ArchiveCopyInv DEF ArchiveCopy
<1>6. CASE \/ \E t \in Threads : SendStageCmd(t) \/ WaitRm(t)
           \/ ReleaseFile \/ DropCall \/ ReceiveStage \/ ReceiveCancel
           \/ \E k \in DOMAIN work : Stager(k)
  BY Zenon, <1>2, <1>6, <1>SendStageCmdStays, <1>WaitRmStays, <1>ReleaseStays, <1>ReceiveStays, <1>StagerStays
<1> QED BY Zenon, <1>3, <1>4, <1>5, <1>6 DEF Next

LEMMA VersionInit == Init => VersionInv
<1> SUFFICES ASSUME Init PROVE VersionInv
  BY Zenon
<1>1. \A t \in Threads : th[t].at = "out"
  BY Zenon DEF Init
<1>2. ~DataReader /\ ~DataWriter
  <2>1. Users \subseteq Threads
    BY Zenon DEF Threads
  <2> QED BY Zenon, <1>1, <2>1 DEF DataReader, DataWriter
<1>3. ip.offline = setup.offline /\ ip.rmsize = 1 /\ (ip.size = IF setup.offline THEN 0 ELSE 1)
      /\ (ip.disk = IF setup.offline THEN None ELSE 1) /\ ip.staging = FALSE
      /\ ip.arch_status = setup.archived /\ ip.ar_flags = [c \in Copies |-> {}]
  BY DEF Init
<1>4. setup.archived \subseteq Copies /\ content = 1 /\ cmds = <<>> /\ work = <<>>
      /\ image = [c \in Copies |-> IF c \in setup.archived THEN 1 ELSE None]
  BY Zenon, SetupsAssumption DEF Init
<1>5. DiskInv
  <2>1. 0 # 1
    OBVIOUS
  <2> QED BY Zenon, <1>2, <1>3, <1>4, <2>1 DEF DiskInv, Blocks, NoStage, OnDisk
<1>6. CopyInv
  <2>1. Copies \subseteq Threads
    BY Zenon DEF Threads
  <2> QED BY Zenon, <1>1, <1>3, <1>4, <2>1 DEF CopyInv
<1>7. Tracks(Of(content))
  <2>1. cmds \in Seq(Of(content)) /\ work \in Seq(Named(Of(content)))
    BY <1>4
  <2> QED BY Zenon, <1>1, <2>1 DEF Tracks, Sends
<1> QED BY Zenon, <1>5, <1>6, <1>7 DEF VersionInv

\* What the version invariant says of the properties.
LEMMA VersionKept ==
    ASSUME IInv, Orderly, VersionInv
    PROVE  GoodCopy /\ OnlineIsContent /\ NeverLost
<1>1. GoodCopy
  BY Zenon DEF VersionInv, CopyInv, GoodCopy
<1>2. OnlineIsContent
  BY Zenon DEF VersionInv, DiskInv, Blocks, OnDisk, OnlineIsContent
<1>3. CASE ip.offline
  <2>1. HasGoodCopy(ip) \/ ip.damaged
    BY Zenon, <1>3 DEF IInv, Orderly, HasCopy
  <2>2. ASSUME NEW c \in ip.arch_status, "damaged" \notin ip.ar_flags[c]
        PROVE  ip.ar_flags[c] \cap {"damaged", "stale"} = {} /\ image[c] = content
    BY Zenon, <2>2 DEF VersionInv, CopyInv
  <2> QED BY Zenon, <1>1, <1>2, <2>1, <2>2 DEF HasGoodCopy, NeverLost
<1>4. CASE ~ip.offline
  BY Zenon, <1>1, <1>2, <1>4 DEF OnlineIsContent, NeverLost
<1> QED BY Zenon, <1>3, <1>4

\* The invariant of all setups.
AllInv == IInv /\ TypeInv /\ (Orderly => VersionInv)

LEMMA AllNext == AllInv /\ [Next]_vars => AllInv'
<1> SUFFICES ASSUME AllInv, [Next]_vars PROVE AllInv'
  BY Zenon
<1>1. IInv' /\ TypeInv'
  BY Zenon, NextIInv, TypeNext DEF AllInv
<1>2. CASE Next
  <2>1. Orderly' => Orderly
    BY Zenon, <1>2, SetupSame DEF Orderly, Protected, Truncated
  <2> QED BY Zenon, <1>1, <1>2, <2>1, VersionNext DEF AllInv, Given
<1>3. CASE UNCHANGED vars
  <2>1. (Orderly' => Orderly) /\ (VersionInv => VersionInv')
    BY Zenon, <1>3 DEF vars, Orderly, Protected, Truncated, VersionInv, DiskInv, CopyInv, Fresh, Tracks,
               Sends, Blocks, NoStage, Settled, OnDisk, DataReader, DataWriter, Reads
  <2> QED BY Zenon, <1>1, <2>1 DEF AllInv
<1> QED BY Zenon, <1>2, <1>3

\* No sequence of writes, releases, archivings and stages makes an archived
\* copy of an older version count as good, where the archive age lets
\* sam_set_archive tell the versions apart by the second (Orderly).
THEOREM ArchivedCopyIsCurrent == Spec => [](Orderly => GoodCopy)
<1>1. Init => AllInv
  BY Zenon, InitIInv, TypeInit, VersionInit DEF AllInv
<1>2. AllInv => (Orderly => GoodCopy)
  BY Zenon, VersionKept DEF AllInv
<1> QED BY <1>1, <1>2, AllNext, PTL DEF Spec

\* The blocks of a file that is online, whether they were written, or staged
\* from a copy, are those of the version last written (Orderly as above).
THEOREM OnlineFileIsCurrent == Spec => [](Orderly => OnlineIsContent)
<1>1. Init => AllInv
  BY Zenon, InitIInv, TypeInit, VersionInit DEF AllInv
<1>2. AllInv => (Orderly => OnlineIsContent)
  BY Zenon, VersionKept DEF AllInv
<1> QED BY <1>1, <1>2, AllNext, PTL DEF Spec

\* The version last written is never lost without a mark of damage (Orderly as
\* above).
THEOREM VersionNeverLost == Spec => [](Orderly => NeverLost)
<1>1. Init => AllInv
  BY Zenon, InitIInv, TypeInit, VersionInit DEF AllInv
<1>2. AllInv => (Orderly => NeverLost)
  BY Zenon, VersionKept DEF AllInv
<1> QED BY <1>1, <1>2, AllNext, PTL DEF Spec

\* A step of the file system is a write, a read or nothing to the abstract file.
LEMMA FileStep ==
    ASSUME Given, Next
    PROVE  TheFile!Next
<1> DEFINE seen == [u \in Users |-> th[u].data]
           seenN == [u \in Users |-> th'[u].data]
<1>0. IInv /\ content' \in Nat /\ Users \subseteq Threads
  <2>1. TypeInv'
    BY Zenon, TypeNext DEF Given
  <2> QED BY Zenon, <2>1 DEF Given, TypeInv, TypeOK, Threads
<1>1. CASE DataSame
  <2>1. seenN = seen
    BY Zenon, <1>0, <1>1 DEF DataSame
  <2> QED BY Zenon, <1>0, <2>1 DEF TheFile!Next, TheFile!Write
<1>2. ASSUME NEW t \in Threads, NEW v \in {content, None}, DataOf(t, v), content' = content
      PROVE  TheFile!Next
  <2>1. CASE t \in Users
    <3>1. seenN = [seen EXCEPT ![t] = v]
      BY Zenon, <1>0, <1>2, <2>1 DEF DataOf
    <3> QED BY Zenon, <1>2, <2>1, <3>1 DEF TheFile!Next, TheFile!Read
  <2>2. CASE t \notin Users
    <3>1. seenN = seen
      BY Zenon, <1>0, <1>2, <2>2 DEF DataOf
    <3> QED BY Zenon, <1>0, <3>1 DEF TheFile!Next, TheFile!Write
  <2> QED BY Zenon, <2>1, <2>2
<1> HIDE DEF seen, seenN
<1>3. ASSUME NEW t \in Threads, Ready(t), DataOf(t, ip.disk), content' = content
      PROVE  TheFile!Next
  BY Zenon, <1>2, <1>3, ReadyDisk
<1> QED BY Zenon, <1>0, <1>1, <1>2, <1>3, NextReturns DEF Returned

\* The detailed file implements the abstract one: whatever was released,
\* archived, staged, cancelled or damaged in between, a read that does not fail
\* returns the version last written (Orderly as above).
THEOREM ReadsReturnTheFile == Spec /\ Orderly => ReadsTheFile
<1>1. Init => AllInv /\ TheFile!Init
  <2>1. Init => AllInv
    BY Zenon, InitIInv, TypeInit, VersionInit DEF AllInv
  <2>2. ASSUME Init PROVE [u \in Users |-> th[u].data] = [u \in Users |-> None]
    <3>1. \A t \in Threads : th[t].data = None
      BY Zenon, <2>2 DEF Init
    <3> QED BY Zenon, <3>1 DEF Threads
  <2>3. Init => content \in Nat
    BY DEF Init
  <2> QED BY Zenon, <2>1, <2>2, <2>3 DEF TheFile!Init
<1>2. Orderly /\ [Next]_vars => Orderly'
  BY Zenon, SetupSame DEF vars, Orderly, Protected, Truncated
<1>3. AllInv /\ Orderly /\ [Next]_vars => [TheFile!Next]_<<content, [u \in Users |-> th[u].data]>>
  <2>1. AllInv /\ Orderly /\ Next => TheFile!Next
    BY Zenon, FileStep DEF AllInv, Given
  <2>2. UNCHANGED vars => UNCHANGED <<content, [u \in Users |-> th[u].data]>>
    BY Zenon DEF vars
  <2> QED BY Zenon, <2>1, <2>2
<1> QED BY <1>1, <1>2, <1>3, AllNext, PTL DEF Spec, ReadsTheFile, TheFile!Spec

=============================================================================
