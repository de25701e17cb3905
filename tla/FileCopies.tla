---------------------------- MODULE FileCopies ------------------------------
(***************************************************************************)
(* One file of an archiving file system and the copies of it on media.     *)
(*                                                                         *)
(* Threads read and write the file; an arcopy process per archive copy     *)
(* reads it and records an image; the release command or the releaser      *)
(* frees its disk blocks, which makes it offline; a read of an offline     *)
(* file sends a request to sam-stagerd, which writes an image back.        *)
(*                                                                         *)
(* One action is one region under inode_rwl, or one step of sam-stagerd.   *)
(* data_rwl is held across actions.  A version of the data is a number, 0  *)
(* that of the empty file; every other version has the same size, 1.  All  *)
(* requests are for the whole file.                                        *)
(***************************************************************************)
EXTENDS Naturals, Sequences

CONSTANTS
    Users,      \* threads that read, stage or write the file
    Copies,     \* the archive copies, a set of numbers
    None,       \* no data, or not the data of any version
    Setups      \* the situations to explore, see setup

\* A file has at most four archive copies (MAX_ARCHIVE).
ASSUME CopiesAssumption ==
    /\ Copies \subseteq 1..4
    /\ Users \cap Copies = {} /\ None \notin Nat

\* A file that starts offline has a copy.
ASSUME SetupsAssumption ==
    \A s \in Setups : /\ s.job \in [Users -> {"none", "read", "stage", "write", "trunc"}]
                      /\ s.archived \subseteq Copies
                      /\ s.offline \in BOOLEAN
                      /\ s.offline => s.archived # {}

VARIABLES
    setup,      \* chosen in Init: the job of each thread, the copies that are
                \* archived, the archive set's rules, and what may happen
    left,       \* what is left of the bounds
    ip,         \* struct sam_node, with the blocks on disk
    image,      \* permip->ar.image: the version that each copy holds
    content,    \* the version last written, for the properties
    newest,     \* the number of versions made
    th,         \* the threads and the arcopy processes
    rel,        \* the release command or the releaser
    cmds,       \* commands sent to sam-stagerd and not yet read
    work        \* the stage requests that sam-stagerd has queued or opened

vars == <<setup, left, ip, image, content, newest, th, rel, cmds, work>>
data == <<image, content, newest>>
stager == <<cmds, work>>

Threads == Users \cup Copies
Writes(t) == t \in Users /\ setup.job[t] \in {"write", "trunc"}
Reads(t)  == t \in Copies \/ setup.job[t] = "read"

-----------------------------------------------------------------------------
(* The inode: fs/samfs/truncate.c, iput.c, staged.c, cvnops.c.               *)

HasGoodCopy(i) == \E c \in i.arch_status : "damaged" \notin i.ar_flags[c]

DropIno(i) ==
    IF i.rmsize = 0 THEN i
    ELSE IF ~HasGoodCopy(i) THEN [i EXCEPT !.damaged = @ \/ i.offline]
    ELSE IF i.staging THEN i
    ELSE [i EXCEPT !.disk = None, !.size = 0, !.offline = TRUE]

\* Mutant: the copies are marked stale and still count as archived.
MarkOnly(i, now) ==
    [i EXCEPT !.mtime = now,
              !.ar_flags = [c \in Copies |->
                  IF c \in i.arch_status THEN @[c] \cup {"stale"} ELSE @[c]]]

MarkIno(i, now) ==
    [i EXCEPT !.mtime = now,
              !.ar_flags = [c \in Copies |->
                  IF c \in i.arch_status THEN @[c] \cup {"stale"} ELSE @[c]],
              !.arch_status = {},
              !.archdone = @ /\ i.arch_status = {}]

CloseStage(i) ==
    LET closed == [i EXCEPT !.staging = FALSE, !.stage_pid = FALSE]
    IN IF i.stage_err = "none" /\ i.size = 1
       THEN IF i.rmsize = 1 /\ i.offline
            THEN [closed EXCEPT
                    !.offline = FALSE,
                    !.archdone = @ /\ \A c \in Copies :
                                        "unarchived" \notin i.ar_flags[c]]
            ELSE closed
       ELSE DropIno([closed EXCEPT
                !.stage_err = IF @ = "none" THEN "ECOMM" ELSE @])

CancelStage(i, err) ==
    [i EXCEPT !.stage_err = err, !.staging = FALSE,
              !.size = IF i.offline THEN 0 ELSE i.rmsize]

IsOpen(t) == th[t].at \notin (IF t \in Copies THEN {"out", "copied"} ELSE {"out"})

CloseVn(i, t) ==
    [i EXCEPT !.write_mode = @ /\ (i.stage_pid \/ \E o \in Threads \ {t} : IsOpen(o)),
              !.arch_count = @ /\ t \notin Copies]

-----------------------------------------------------------------------------
(* data_rwl and rm_cv.                                                       *)

DataReader == \E t \in Threads :
                 Reads(t) /\ th[t].at \in {"send", "wait", "woken"}
DataWriter == \E t \in Users : th[t].at = "write"
DataFree   == ~DataReader /\ ~DataWriter

Waiting == {t \in Threads : th[t].at \in {"wait", "woken"}}
Wake    == [t \in Threads |->
              IF th[t].at = "wait" THEN [th[t] EXCEPT !.at = "woken"] ELSE th[t]]

Goto(t, at) == th' = [th EXCEPT ![t].at = at]

\* The call of thread t ends with an error, and t closes the file.
Fail(t) ==
    /\ th' = [th EXCEPT ![t] = [@ EXCEPT !.at = "out", !.data = None]]
    /\ ip' = CloseVn(ip, t)

\* The read of thread t returns.
Return(t) ==
    /\ th' = [th EXCEPT ![t] = [@ EXCEPT !.at = IF t \in Copies THEN "copied" ELSE "out",
                                         !.data = ip.disk]]
    /\ ip' = CloseVn(ip, t)

\* A command is sent after inode_rwl is dropped.
SendCmd(t, msg, next) ==
    th' = [th EXCEPT ![t] = [@ EXCEPT !.at = "send", !.msg = msg, !.next = next]]

-----------------------------------------------------------------------------
(* Staging a file in: fs/samfs/stage.c and staged.c.                         *)

StageReq == [cancel |-> FALSE, image |-> image, at |-> "queued", failed |-> FALSE,
             copies |-> {c \in ip.arch_status :
                            ip.ar_flags[c] \cap {"stale", "damaged"} = {}}]
CancelReq == [cancel |-> TRUE]

ProcOffline(t, next) ==
    IF ip.staging THEN Goto(t, IF next = "out" THEN "out" ELSE "wait") /\ UNCHANGED ip
    ELSE IF ip.stage_pid /\ ip.stage_err = "ECANCELED" THEN Fail(t)
    ELSE /\ ip' = [ip EXCEPT !.stage_err = "none", !.staging = TRUE]
         /\ SendCmd(t, StageReq, next)

SendStageCmd(t) ==
    /\ th[t].at = "send"
    /\ cmds' = Append(cmds, th[t].msg)
    /\ Goto(t, th[t].next)
    /\ ip' = IF th[t].next = "out" THEN CloseVn(ip, t) ELSE ip
    /\ UNCHANGED <<setup, left, data, rel, work>>

StageFile(u) ==
    /\ setup.job[u] = "stage" /\ th[u].at = "out"
    /\ ip.offline /\ ~ip.staging /\ ip.arch_status # {}
    /\ ProcOffline(u, "out")
    /\ UNCHANGED <<setup, left, data, rel, stager>>

\* Mutant: a read does not take data_rwl.
ReadUnlocked(t) ==
    /\ IF t \in Copies THEN th[t].at = "opened"
       ELSE setup.job[t] = "read" /\ th[t].at = "out" /\ ~ip.damaged
    /\ IF ip.offline THEN ProcOffline(t, "woken") ELSE Return(t)
    /\ UNCHANGED <<setup, left, data, rel, stager>>

ReadVn(t) ==
    /\ IF t \in Copies THEN th[t].at = "opened"
       ELSE setup.job[t] = "read" /\ th[t].at = "out" /\ ~ip.damaged
    /\ ~DataWriter
    /\ IF ip.offline THEN ProcOffline(t, "woken") ELSE Return(t)
    /\ UNCHANGED <<setup, left, data, rel, stager>>

\* A thread in sam_proc_offline tests whether its stage is over.
WaitRm(t) ==
    /\ th[t].at = "woken"
    /\ IF ip.staging THEN Goto(t, "wait") /\ UNCHANGED ip
       ELSE IF ip.stage_err # "none" THEN Fail(t)
       ELSE IF Reads(t) THEN Return(t)
       ELSE IF ip.offline THEN ProcOffline(t, "woken")
       ELSE Goto(t, "dlock") /\ UNCHANGED ip
    /\ UNCHANGED <<setup, left, data, rel, stager>>

Interrupt(u) ==
    /\ th[u].at = "wait" /\ left.interrupts > 0
    /\ left' = [left EXCEPT !.interrupts = @ - 1]
    /\ IF Waiting = {u}
       THEN ip' = CancelStage(ip, "EINTR") /\ SendCmd(u, CancelReq, "out")
       ELSE Fail(u)
    /\ UNCHANGED <<setup, data, rel, stager>>

-----------------------------------------------------------------------------
(* Writing: fs/samfs/vnops.c, cvnops.c, ctrunc.c.  A "trunc" thread opens    *)
(* the file with O_TRUNC, a "write" thread writes it in place.               *)

\* Times are in seconds, since sam_set_archive compares no more of them, and a
\* modification may be in the second of the one before.  A file that is
\* archived no sooner than a second after it was modified is an exception: a
\* modification while a copy of it is made has a later time than the copy.
Now == {ip.mtime, ip.mtime + 1} \
          {th[c].mtime : c \in {d \in Copies : setup.age # "none" /\ th[d].at # "out"}}

OpenVn(u) ==
    /\ Writes(u) /\ th[u].at = "out" /\ ~ip.damaged
    /\ newest < setup.versions
    /\ ip' = [ip EXCEPT !.write_mode = TRUE]
    /\ Goto(u, IF setup.job[u] = "trunc" THEN "clear" ELSE "opened")
    /\ UNCHANGED <<setup, left, data, rel, stager>>

ClearIno(u) ==
    /\ th[u].at = "clear"
    /\ IF ip.staging
       THEN ip' = CancelStage(ip, "ECANCELED") /\ SendCmd(u, CancelReq, "trunc")
       ELSE Goto(u, "trunc") /\ UNCHANGED ip
    /\ UNCHANGED <<setup, left, data, rel, stager>>

TruncateIno(u) ==
    /\ th[u].at = "trunc" /\ DataFree
    /\ IF ip.staging
       THEN Goto(u, "clear") /\ UNCHANGED <<ip, content>>
       ELSE /\ \E now \in Now :
                  ip' = MarkIno([ip EXCEPT !.disk = 0, !.size = 0, !.rmsize = 0,
                                           !.offline = FALSE], now)
            /\ content' = 0
            /\ Goto(u, "opened")
    /\ UNCHANGED <<setup, left, image, newest, rel, stager>>

\* Mutant: a write always extends the file.
CopyOnto(u) ==
    /\ ip' = [ip EXCEPT !.disk = newest + 1, !.size = @ + 1]
    /\ newest' = newest + 1
    /\ Goto(u, "write")

\* The data is copied with inode_rwl dropped and data_rwl held.  What is
\* written into a file without its blocks is not a whole version.
CopyIn(u) ==
    /\ ip' = [ip EXCEPT !.disk = IF @ = None THEN None ELSE newest + 1,
                        !.size = 1]
    /\ newest' = newest + 1
    /\ Goto(u, "write")

WriteVn(u) ==
    /\ Writes(u) /\ th[u].at = "opened" /\ newest < setup.versions
    /\ DataFree
    /\ IF ip.offline THEN ProcOffline(u, "woken") /\ UNCHANGED newest
       ELSE CopyIn(u)
    /\ UNCHANGED <<setup, left, image, content, rel, stager>>

\* The file was made online; data_rwl is taken and the write goes on.
WriteOnline(u) ==
    /\ th[u].at = "dlock" /\ newest < setup.versions /\ DataFree
    /\ CopyIn(u)
    /\ UNCHANGED <<setup, left, image, content, rel, stager>>

WriteDone(u) ==
    /\ th[u].at = "write"
    /\ \E now \in Now : ip' = MarkIno([ip EXCEPT !.rmsize = 1], now)
    /\ content' = newest
    /\ Goto(u, "written")
    /\ UNCHANGED <<setup, left, image, newest, rel, stager>>

CloseWrite(u) ==
    /\ \/ th[u].at = "written"
       \/ th[u].at \in {"opened", "dlock"} /\ Writes(u) /\ newest = setup.versions
    /\ ip' = CloseVn(ip, u)
    /\ Goto(u, "out")
    /\ UNCHANGED <<setup, left, data, rel, stager>>

-----------------------------------------------------------------------------
(* Release: fs/samfs/rmscall.c and samscall.c.                               *)

ReleaseFile ==
    /\ rel = "out" /\ setup.release # "none"
    /\ ~ip.staging /\ ~setup.nodrop
    /\ setup.release = "releaser" => ~ip.arch_count /\ ~ip.archnodrop
    /\ rel' = "dlock"
    /\ UNCHANGED <<setup, left, ip, data, th, stager>>

DropCall ==
    /\ rel = "dlock" /\ DataFree
    /\ rel' = "out"
    /\ ip' = DropIno(ip)
    /\ UNCHANGED <<setup, left, data, th, stager>>

-----------------------------------------------------------------------------
(* Archiving: archiver/arcopy/copyfile.c and setarch.c, fs/samfs/uioctl.c.   *)

\* sam-arfind waits for the archive age of a version, setup.age: "none" also
\* stands for files that are archived at once, by command or by their
\* attributes; "second" for a second or more; "stage" for so long that no
\* request is left when the version is archived.
Aged == /\ cmds = <<>> /\ work = <<>>
        /\ \A t \in Threads : th[t].at # "send"

IdOpenArch(c) ==
    /\ c \in setup.arch /\ th[c].at = "out" /\ left.copies > 0
    /\ setup.age = "stage" => Aged
    /\ ~ip.offline /\ ~ip.write_mode /\ ~ip.damaged
    /\ c \in ip.arch_status => "rearch" \in ip.ar_flags[c]
    /\ ip' = [ip EXCEPT !.arch_count = TRUE]
    /\ th' = [th EXCEPT ![c] = [@ EXCEPT !.at = "opened", !.mtime = ip.mtime]]
    /\ left' = [left EXCEPT !.copies = @ - 1]
    /\ UNCHANGED <<setup, data, rel, stager>>

\* Mutant: an inconsistent copy counts as archived.
ArchivedAnyway(i, c, mtime) ==
    LET next == [i EXCEPT !.arch_status = @ \cup {c},
                          !.ar_flags[c] = IF mtime # i.mtime THEN {"inconsistent"} ELSE {},
                          !.archnodrop = FALSE]
    IN IF c \in setup.relafter THEN DropIno(next) ELSE next

\* The inode after copy c of the data at mtime is recorded.
Archived(i, c, mtime) ==
    LET inconsistent == mtime # i.mtime
        status == IF inconsistent THEN i.arch_status ELSE i.arch_status \cup {c}
        flags  == [i.ar_flags EXCEPT ![c] =
                     IF inconsistent THEN {"inconsistent"} ELSE {}]
        redo   == {"inconsistent", "damaged", "rearch", "stale"}
        done   == IF setup.required \subseteq status
                  THEN \A n \in setup.required : flags[n] \cap redo = {}
                  ELSE i.archdone
        before == setup.relafter \cap setup.norel
        drop   == /\ ~setup.nodrop
                  /\ \/ setup.relattr /\ done
                     \/ before # {} /\ before \subseteq status
                     \/ c \in setup.relafter \ setup.norel
        next   == [i EXCEPT !.arch_status = status, !.ar_flags = flags,
                            !.archdone = done,
                            !.archnodrop = ~(setup.norel \subseteq status)]
    IN IF drop THEN DropIno(next) ELSE next

\* Mutant: a copy is recorded though the file was modified meanwhile.
SetArchiveAlways(c) ==
    /\ th[c].at = "copied" /\ DataFree
    /\ ip' = Archived(ip, c, ip.mtime)
    /\ image' = [image EXCEPT ![c] = th[c].data]
    /\ Goto(c, "out")
    /\ UNCHANGED <<setup, left, content, newest, rel, stager>>

SetArchive(c) ==
    /\ th[c].at = "copied" /\ DataFree
    /\ IF \/ th[c].mtime # ip.mtime /\ ~setup.inconsistent
          \/ c \in ip.arch_status /\ ip.ar_flags[c] \cap {"rearch", "inconsistent"} = {}
       THEN UNCHANGED <<ip, image>>
       ELSE /\ ip' = Archived(ip, c, th[c].mtime)
            /\ image' = [image EXCEPT ![c] = th[c].data]
    /\ Goto(c, "out")
    /\ UNCHANGED <<setup, left, content, newest, rel, stager>>

-----------------------------------------------------------------------------
(* Commands on archive copies: sam_proc_archive_copy in fs/samfs/rmscall.c.  *)

\* Mutant: the inode is not marked damaged with its last copy.
DamageCopy(i, c) == [i EXCEPT !.ar_flags[c] = @ \cup {"damaged"}]

Damage(i, c) ==
    LET flagged == [i EXCEPT !.ar_flags[c] = @ \cup {"damaged"}]
    IN [flagged EXCEPT !.damaged = @ \/ (i.offline /\ ~HasGoodCopy(flagged))]

Rearch(i, c) ==
    [i EXCEPT !.ar_flags[c] = @ \cup {"rearch"}, !.archdone = FALSE]

Unarchive(i, c) ==
    [i EXCEPT !.arch_status = @ \ {c}, !.ar_flags[c] = {"unarchived"},
              !.archdone = FALSE,
              !.damaged = @ \/ (/\ i.arch_status \subseteq {c}
                                 /\ i.offline /\ i.rmsize # 0)]

\* Is c the last copy from which the file could be staged?
LastCopy(i, c) ==
    ~\E o \in i.arch_status \ {c} : i.ar_flags[o] \cap {"damaged", "unarchived"} = {}

Swap(f, c, d) == [f EXCEPT ![c] = f[d], ![d] = f[c]]

Exarchive(i, c, d) ==
    LET moved(n) == IF n = c THEN d ELSE IF n = d THEN c ELSE n
    IN [i EXCEPT !.arch_status = {n \in Copies : moved(n) \in @},
                 !.ar_flags = Swap(@, c, d),
                 !.archdone = @ /\ d \in i.arch_status]

Undamage(i, c) ==
    [i EXCEPT !.ar_flags[c] = @ \ {"damaged", "stale"},
              !.arch_status = @ \cup {c}, !.damaged = FALSE]

Unrearch(i, c) ==
    [i EXCEPT !.ar_flags[c] = @ \ {"rearch"}, !.arch_status = @ \cup {c}]

ArchiveCopy(op, c) ==
    /\ op \in setup.admin /\ left.admin > 0
    /\ \/ c \in ip.arch_status
       \/ "stale" \in ip.ar_flags[c] /\ ip.offline
    /\ left' = [left EXCEPT !.admin = @ - 1]
    /\ \/ /\ op \in {"unarchive", "unarchive -f"}
          /\ ip.offline /\ LastCopy(ip, c) => op = "unarchive -f"
          /\ ip' = Unarchive(ip, c)
          /\ image' = [image EXCEPT ![c] = None]
       \/ /\ op = "exarchive"
          /\ \E d \in Copies \ {c} :
               ip' = Exarchive(ip, c, d) /\ image' = Swap(image, c, d)
       \/ /\ op = "damage" /\ ip' = Damage(ip, c) /\ UNCHANGED image
       \/ /\ op = "damage -a" /\ ip' = Rearch(Damage(ip, c), c) /\ UNCHANGED image
       \/ /\ op = "undamage" /\ ip' = Undamage(ip, c) /\ UNCHANGED image
       \/ /\ op = "rearch" /\ ip' = Rearch(ip, c) /\ UNCHANGED image
       \/ /\ op = "unrearch" /\ ip' = Unrearch(ip, c) /\ UNCHANGED image
    /\ UNCHANGED <<setup, content, newest, th, rel, stager>>

-----------------------------------------------------------------------------
(* sam-stagerd (stager/stager, stager/copy) and its calls to the kernel      *)
(* (fs/samfs/samscall.c, fioctl.c).                                          *)

Without(k) == [n \in 1..(Len(work) - 1) |-> IF n < k THEN work[n] ELSE work[n + 1]]

GetArcopy(r) == CHOOSE c \in r.copies : \A o \in r.copies : c <= o

\* SC_fsstage with an error: the kernel ends the stage, unless another runs.
StageError(err) ==
    IF ip.stage_pid THEN UNCHANGED <<ip, th>>
    ELSE ip' = CloseStage([ip EXCEPT !.stage_err = err]) /\ th' = Wake

ReceiveStage ==
    /\ cmds # <<>> /\ ~Head(cmds).cancel
    /\ cmds' = Tail(cmds)
    /\ IF Head(cmds).copies = {}
       THEN StageError("EINVAL") /\ UNCHANGED work
       ELSE work' = Append(work, Head(cmds)) /\ UNCHANGED <<ip, th>>
    /\ UNCHANGED <<setup, left, data, rel>>

\* Only a request that is in a stream and not being copied is cancelled.
ReceiveCancel ==
    LET queued == {k \in DOMAIN work : work[k].at = "queued"}
    IN /\ cmds # <<>> /\ Head(cmds).cancel
       /\ cmds' = Tail(cmds)
       /\ \/ \E k \in queued : work' = Without(k) /\ StageError("ECANCELED")
          \/ /\ queued = {} \/ setup.composing
             /\ UNCHANGED <<work, ip, th>>
       /\ UNCHANGED <<setup, left, data, rel>>

\* A request for data that another one is staging is answered with EEXIST.
Duplicate(k) ==
    /\ work[k].at = "queued"
    /\ \E o \in DOMAIN work \ {k} : /\ GetArcopy(work[o]) = GetArcopy(work[k])
                                    /\ work[o].image = work[k].image
    /\ work' = Without(k)
    /\ th' = Wake
    /\ UNCHANGED <<setup, left, ip, data, rel, cmds>>

\* openStage and syscall_stage_response.
StageResponse(k) ==
    /\ work[k].at = "queued"
    /\ IF ip.stage_pid
       THEN work' = Without(k) /\ UNCHANGED <<ip, th>>
       ELSE IF ~ip.offline \/ ip.arch_status = {} \/ ip.stage_err # "none"
       THEN /\ ip' = CloseStage([ip EXCEPT !.staging = TRUE])
            /\ th' = Wake
            /\ work' = Without(k)
       ELSE /\ ip' = [ip EXCEPT !.staging = TRUE, !.stage_pid = TRUE]
            /\ work' = [work EXCEPT ![k].at = "active"]
            /\ UNCHANGED th
    /\ UNCHANGED <<setup, left, data, rel, cmds>>

\* Mutant: a cancelled stage goes on writing.
StageWriteAlways(k) ==
    /\ work[k].at = "active"
    /\ ip' = [ip EXCEPT !.disk = work[k].image[GetArcopy(work[k])], !.size = 1]
    /\ work' = [work EXCEPT ![k].at = "done"]
    /\ th' = Wake
    /\ UNCHANGED <<setup, left, data, rel, cmds>>

StageWrite(k) ==
    LET err == IF ip.staging THEN ip.stage_err ELSE "ECANCELED"
    IN /\ work[k].at = "active"
       /\ ip' = IF err = "none"
                THEN [ip EXCEPT !.disk = work[k].image[GetArcopy(work[k])], !.size = 1]
                ELSE [ip EXCEPT !.stage_err = err]
       /\ work' = [work EXCEPT ![k].at = "done"]
       /\ th' = Wake
       /\ UNCHANGED <<setup, left, data, rel, cmds>>

\* The medium cannot be read: the next copy is tried, or the stage fails.
MediaError(k) ==
    LET c == GetArcopy(work[k])
    IN /\ work[k].at = "active" /\ left.errors > 0
       /\ left' = [left EXCEPT !.errors = @ - 1]
       /\ IF work[k].copies # {c}
          THEN /\ work' = [work EXCEPT ![k].copies = @ \ {c}]
               /\ ip' = IF c \in ip.arch_status THEN Damage(ip, c) ELSE ip
          ELSE /\ work' = [work EXCEPT ![k].at = "done", ![k].failed = TRUE]
               /\ ip' = [ip EXCEPT !.staging = TRUE, !.stage_err = "EIO"]
       /\ UNCHANGED <<setup, data, th, rel, cmds>>

\* Mutant: the waiting threads are not woken.
StageCloseOnly(k) ==
    /\ work[k].at = "done"
    /\ ip' = CloseStage(ip)
    /\ work' = Without(k)
    /\ UNCHANGED <<setup, left, data, th, rel, cmds>>

StageClose(k) ==
    LET c == GetArcopy(work[k])
        i == CloseStage(ip)
        j == [i EXCEPT !.write_mode = @ /\ \E t \in Threads : IsOpen(t)]
    IN /\ work[k].at = "done"
       /\ ip' = IF work[k].failed /\ c \in i.arch_status THEN Damage(j, c) ELSE j
       /\ work' = Without(k)
       /\ th' = Wake
       /\ UNCHANGED <<setup, left, data, rel, cmds>>

-----------------------------------------------------------------------------
Init ==
    /\ setup \in Setups
    /\ left = setup.left
    /\ ip = [rmsize |-> 1, size |-> IF setup.offline THEN 0 ELSE 1, mtime |-> 1,
             offline |-> setup.offline, damaged |-> FALSE,
             archdone |-> setup.required \subseteq setup.archived,
             archnodrop |-> ~(setup.norel \subseteq setup.archived),
             arch_status |-> setup.archived, ar_flags |-> [c \in Copies |-> {}],
             staging |-> FALSE, stage_err |-> "none", stage_pid |-> FALSE,
             write_mode |-> FALSE, arch_count |-> FALSE,
             disk |-> IF setup.offline THEN None ELSE 1]
    /\ image = [c \in Copies |-> IF c \in setup.archived THEN 1 ELSE None]
    /\ content = 1
    /\ newest = 1
    /\ th = [t \in Threads |-> [at |-> "out", next |-> "out", msg |-> CancelReq,
                                mtime |-> 0, data |-> None]]
    /\ rel = "out"
    /\ cmds = <<>>
    /\ work = <<>>

User(u) == \/ StageFile(u) \/ ReadVn(u) \/ Interrupt(u)
           \/ OpenVn(u) \/ ClearIno(u) \/ TruncateIno(u)
           \/ WriteVn(u) \/ WriteOnline(u) \/ WriteDone(u) \/ CloseWrite(u)
Arcopy(c) == IdOpenArch(c) \/ ReadVn(c) \/ SetArchive(c)
Stager(k) == Duplicate(k) \/ StageResponse(k) \/ StageWrite(k) \/ MediaError(k)
             \/ StageClose(k)

Next == \/ \E u \in Users : User(u)
        \/ \E c \in Copies : Arcopy(c)
        \/ \E t \in Threads : SendStageCmd(t) \/ WaitRm(t)
        \/ ReleaseFile \/ DropCall
        \/ \E op \in setup.admin, c \in Copies : ArchiveCopy(op, c)
        \/ ReceiveStage \/ ReceiveCancel
        \/ \E k \in DOMAIN work : Stager(k)

Spec == Init /\ [][Next]_vars
\* sam-stagerd runs, a thread that was woken runs, and a thread that holds
\* data_rwl goes on.
FairSpec ==
    /\ Spec
    /\ \A t \in Threads : WF_vars(SendStageCmd(t)) /\ WF_vars(WaitRm(t))
    /\ \A u \in Users : WF_vars(WriteDone(u))
    /\ WF_vars(ReceiveStage) /\ WF_vars(ReceiveCancel)
    /\ WF_vars(\E k \in DOMAIN work : StageResponse(k) \/ StageWrite(k) \/ StageClose(k))

-----------------------------------------------------------------------------
(* Properties.                                                               *)

Flags  == {"stale", "damaged", "rearch", "inconsistent", "unarchived"}
Errors == {"none", "ECOMM", "EINVAL", "EINTR", "ECANCELED", "EIO"}

\* The inode has its type.
TypeOK ==
    /\ ip \in [rmsize : 0..1, size : 0..1, mtime : Nat, offline : BOOLEAN,
               damaged : BOOLEAN, archdone : BOOLEAN, archnodrop : BOOLEAN,
               arch_status : SUBSET Copies, ar_flags : [Copies -> SUBSET Flags],
               staging : BOOLEAN, stage_err : Errors, stage_pid : BOOLEAN,
               write_mode : BOOLEAN, arch_count : BOOLEAN, disk : Nat \cup {None}]
    /\ image \in [Copies -> Nat \cup {None}]
    /\ content \in Nat /\ newest \in Nat

\* A copy that the inode counts as archived, and that is not known to be
\* damaged or inconsistent, holds the version last written: sam_set_archive
\* refuses what was modified while it was copied, and sam_mark_ino stales.
\* It takes an archive age: without one a modification can be in the same
\* second as the copy, and a short one lets an old stage request fill the file.
GoodCopy ==
    setup.age = "stage" =>
        \A c \in ip.arch_status :
            ip.ar_flags[c] \cap {"damaged", "inconsistent"} = {} => image[c] = content

\* The version last written is on disk, or on a copy from which it can be
\* staged, or the file is marked damaged.  A write that is being done may fail.
\* The archive age is as for GoodCopy.
NeverLost ==
    \/ DataWriter \/ setup.age # "stage"
    \/ ~ip.offline /\ ip.disk = content
    \/ \E c \in ip.arch_status :
          ip.ar_flags[c] \cap {"damaged", "stale"} = {} /\ image[c] = content
    \/ ip.damaged

\* The blocks of a file that is online are those of the version last written:
\* a stage (sam_idopen, sam_close_stage) does not put an older one back.  The
\* archive age is as for GoodCopy.
OnlineIsContent ==
    setup.age = "stage" => ip.offline \/ DataWriter \/ ip.disk = content

\* A file whose blocks were released has an undamaged archive copy, or is
\* marked damaged, so that opening it fails: sam_drop_ino, OP_damage and
\* OP_unarchive see to it.  A write in place, which may overtake a release, a
\* forced unarchive, and a copy made in the second of a modification, which can
\* be recorded and the file released while it is written, are left out.
Protected == /\ \A u \in Users : setup.job[u] # "write"
             /\ "unarchive -f" \notin setup.admin
             /\ setup.age # "none"
OfflineHasCopy == Protected /\ ip.offline => HasGoodCopy(ip) \/ ip.damaged

\* sam_drop_ino and sam_close_stage count an archived copy as good without a
\* look at AR_stale: an archived copy is never stale.  (unrearch makes one.)
ArchivedNotStale ==
    "unrearch" \notin setup.admin =>
        \A c \in ip.arch_status : "stale" \notin ip.ar_flags[c]

\* What reads return is what the abstract file allows: the version last
\* written, wherever it was, or an error.
TheFile == INSTANCE File WITH Readers <- Users,
                              seen <- [u \in Users |-> th[u].data]
ReadsTheFile == TheFile!Spec

\* A read that asked for a stage returns: whatever becomes of the request, the
\* thread that waits on rm_cv is woken when it is over.
ReadEnds == \A u \in Users :
               (setup.job[u] = "read" /\ th[u].at = "send") ~> th[u].at = "out"

=============================================================================
