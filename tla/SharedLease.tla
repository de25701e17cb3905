----------------------------- MODULE SharedLease -----------------------------
(***************************************************************************)
(* The leases of one file of a shared file system: the table the metadata  *)
(* server keeps (ip->sr_leases, server.c), the leases a client host        *)
(* believes it holds (ip->cl_leases, clcall.c and creclaim.c), and the     *)
(* messages between them.                                                  *)
(*                                                                         *)
(* A request is delivered once (SharedRpc) but, since a pool of threads    *)
(* serves the messages (SharefsPool), in any order.  Lease time is         *)
(* abstracted: a lease may expire on the client whenever no I/O uses it.   *)
(* On the server it may expire only when the client has dropped it, uses   *)
(* it, or has not been told of it, because the server waits more than      *)
(* twice as long as the client.  A waiting request may be sent again at    *)
(* any time, which covers NOTIFY_lease as well as the timed wait.          *)
(***************************************************************************)
EXTENDS Naturals

CONSTANTS
    Client,      \* the hosts, the metadata server host included
    Server,      \* the host that runs the metadata server
    Thread,      \* application threads
    None,        \* no client
    Setups       \* the settings a behaviour may have, see Setup

AllTypes == {"read", "write", "append", "truncate", "stage", "open", "mmap",
             "exclusive"}

\* mh_write: the mount option that lets several hosts write; types: the lease
\* types the threads ask for (without "open" they do I/O on a file they have not
\* opened, as the NFS server does); host: where each thread runs; gets and
\* expires: bounds on the LEASE_get operations and on the passes that find
\* expired leases, here or there.
Setup == [mh_write : BOOLEAN, types : SUBSET AllTypes, host : [Thread -> Client],
          gets : Nat, expires : Nat]

ASSUME LeaseAssumption ==
    /\ Server \in Client /\ None \notin Client
    /\ \A s \in Setups : s \in Setup

VARIABLES
    setup,        \* the setting, chosen once
    tab,          \* sr_leases: for each client, its entry of the lease table
    size_owner,   \* the client whose file size counts
    written,      \* sr_write_seqno # 0
    cl_leases,    \* for each client, the leases it has recorded
    cl_leasegen,  \* for each client, the generation of each of them
    directio,     \* for each client, whether its I/O bypasses the page cache
    th,           \* for each thread, the lease request it is in
    has,          \* for each thread, the open, mmap or lock it holds
    rel,          \* LEASE_relinquish messages, waiting to be sent or in flight
    notice,       \* NOTIFY_lease_expire messages in flight
    callout,      \* clients with a CALLOUT_flags (SR_DIRECTIO_ON) in flight
    wake,         \* clients with a BLOCK_wakeup in flight
    gets,         \* LEASE_get operations started
    expires,      \* passes that found expired leases, on a client or on the server
    pages,        \* history: clients that may have cached pages
    unseen        \* history: those of them that miss somebody's writes

vars == <<setup, tab, size_owner, written, cl_leases, cl_leasegen, directio, th, has,
          rel, notice, callout, wake, gets, expires, pages, unseen>>

serverVars == <<tab, size_owner, written, pages, unseen>>
clientVars == <<cl_leases, cl_leasegen, directio>>
netVars == <<rel, notice, callout, wake>>
bounds == <<gets, expires>>

MH_WRITE == setup.mh_write
LTypes   == setup.types
Host     == setup.host

Lease == AllTypes

\* The leases that expire on a client: types below MAX_EXPIRING_LEASES.
Data == {"read", "write", "append"}

\* The leases a last close gives back.
CL_CLOSE == Lease \ {"stage", "exclusive"}

NoGen == [l \in Lease |-> 0]

Free == [here |-> FALSE, leases |-> {}, wt |-> {}, gen |-> NoGen,
         dio |-> FALSE, fresh |-> FALSE]

\* Mutant of NewEntry: a cleared entry counts as up to date.
NewEntryFresh == [Free EXCEPT !.here = TRUE, !.fresh = TRUE]

\* A cleared entry.  fresh stands for wr_seq = sr_write_seqno.
NewEntry == [Free EXCEPT !.here = TRUE, !.fresh = ~written]

Idle == [st |-> "idle", lt |-> "read", mode |-> "r", dio |-> FALSE,
         mask |-> {}, gens |-> NoGen, inval |-> FALSE]

ThreadsOf(c) == {t \in Thread : Host[t] = c}

\* no_opens: an open counts from before its lease request is sent.
Opens(c) == {t \in ThreadsOf(c) : "open" \in has[t]}

\* mm_pages # 0 or a mapping is being set up.
Maps(c) == {t \in ThreadsOf(c) : "mmap" \in has[t]}

\* cl_leaseused: a lease is in use from before it is asked for until the I/O
\* is over.  An append uses the write lease too.
InUse(c) ==
    UNION {IF th[t].lt = "append" THEN {"append", "write"} ELSE {th[t].lt} :
              t \in {u \in ThreadsOf(c) : /\ th[u].st \in {"get", "got",
                                                           "wait", "io"}
                                          /\ th[u].lt \in Data}}

\* cl_apmutex is free: held over an append request and over the relinquish of
\* an append lease.
ApmutexFree(c) ==
    /\ \A t \in ThreadsOf(c) : th[t].st \in {"get", "got", "wait"}
                                   => th[t].lt # "append"
    /\ \A r \in rel : ~(r.c = c /\ r.sent /\ "append" \in r.mask)

-----------------------------------------------------------------------------
(* The server: who must wait                                               *)

Others(c) == UNION {tab[d].leases : d \in Client \ {c}}

\* The leases of the other clients that map the file.
MmapLeases(c) ==
    UNION {tab[d].leases : d \in {e \in Client \ {c} :
               /\ "mmap" \in tab[e].leases
               /\ tab[e].leases \cap {"read", "write"} # {}}}

Meets(S, T) == S \cap T # {}

ReadWaits(c) ==
    \/ Meets(Others(c), {"truncate", "exclusive"})
    \/ "write" \in MmapLeases(c)
    \/ ~MH_WRITE /\ Meets(Others(c), {"write", "append"})

WriteWaits(c) ==
    \/ Meets(Others(c), {"truncate", "stage", "exclusive"})
    \/ /\ Others(c) \ {"open", "mmap"} # {}
       /\ \/ ~MH_WRITE
          \/ Meets(MmapLeases(c), {"read", "write"})
          \/ /\ "mmap" \in tab[c].leases
             /\ Meets(Others(c), {"append", "write"})

\* Mutant of AppendWaits: readers do not stop an append.
AppendPassesReaders(c) ==
    \/ Meets(Others(c), {"append", "truncate", "stage", "exclusive"})
    \/ Meets(MmapLeases(c), {"read", "write"})
    \/ Others(c) \ {"open", "read"} # {} /\ ~MH_WRITE

AppendWaits(c) ==
    \/ Meets(Others(c), {"append", "truncate", "stage", "exclusive"})
    \/ Meets(MmapLeases(c), {"read", "write"})
    \/ Others(c) \ {"open"} # {} /\ ~MH_WRITE

\* A truncation that makes the file longer may go ahead of other leases with
\* mh_write; one that releases the file (SAM_RELEASE) always may.
TruncateWaits(c, mode) ==
    /\ mode # "release"
    /\ Others(c) \ {"stage", "open"} # {}
    /\ ~(mode = "up" /\ MH_WRITE /\ "append" \notin Others(c))

MmapWaits(c, mode) ==
    IF mode = "w"
    THEN \/ Meets(Others(c), {"truncate", "stage", "exclusive"})
         \/ /\ Others(c) \ {"open", "mmap"} # {}
            /\ ~MH_WRITE \/ Meets(Others(c), {"read", "write"})
    ELSE Meets(Others(c), {"truncate", "exclusive", "write", "append"})

ExclusiveWaits(c) == Meets(Others(c), Data \cup {"truncate", "stage",
                                                 "exclusive"})

MustWait(c, lt, mode) ==
    CASE lt = "read"      -> ReadWaits(c)
      [] lt = "write"     -> WriteWaits(c)
      [] lt = "append"    -> AppendWaits(c)
      [] lt = "truncate"  -> TruncateWaits(c, mode)
      [] lt = "mmap"      -> MmapWaits(c, mode)
      [] lt = "exclusive" -> ExclusiveWaits(c)
      [] OTHER            -> FALSE

\* With mh_write, a request that meets other I/O leases switches everybody to
\* direct I/O.
Shares(c, lt) ==
    /\ MH_WRITE
    /\ \/ lt = "read" /\ Meets(Others(c), {"write", "append"})
       \/ lt = "write" /\ Others(c) \ {"open", "mmap"} # {}
       \/ lt = "append" /\ Others(c) \ {"open"} # {}

\* Mutant of sam_callout_directio: readers keep their pages.
CalloutWriters(c) ==
    {d \in Client \ {c} : ~tab[d].dio /\ Meets(tab[d].leases, {"write",
                                                               "append"})}

\* Those who must be called out to flush their pages first.
sam_callout_directio(c) ==
    {d \in Client \ {c} : ~tab[d].dio /\ Meets(tab[d].leases, Data)}

-----------------------------------------------------------------------------
(* The server: granting and removing                                       *)

MayRead(lt) == lt \in Data \cup {"mmap", "exclusive"}
MayWrite(lt, mode) == \/ lt \in {"write", "append", "truncate", "exclusive"}
                      \/ lt = "mmap" /\ mode = "w"

\* The leases given along with lt.  An open for reading only brings a read
\* lease when no other client has an entry in the table.
Implicit(c, lt, mode) ==
    CASE lt = "append" -> {"write"}
      [] lt = "mmap" -> IF mode = "r" THEN {"read"} ELSE {"write"}
      [] lt = "open" /\ mode = "r" /\ \A d \in Client \ {c} : ~tab[d].here
           -> {"read"}
      [] OTHER -> {}

\* The entry a request of c works on: an entry without leases is cleared.
Entry(c) == IF tab[c].leases \cup tab[c].wt # {} THEN tab[c] ELSE NewEntry

\* The entry with the I/O mode the client reported.
Reported(c, r) == IF r.lt \in Data THEN [Entry(c) EXCEPT !.dio = r.dio]
                  ELSE Entry(c)

\* The leases among mask that carry the generation in gens.
SameGen(c, mask, gens) == {l \in mask : gens[l] = tab[c].gen[l]}

\* Mutant of sam_remove_lease: the size owner goes with anybody's append.
RemoveAnyLease(tb, c, mask) ==
    /\ tab' = [tb EXCEPT ![c].leases = @ \ mask, ![c].wt = @ \ mask]
    /\ size_owner' = IF "append" \in mask THEN None ELSE size_owner

\* sam_remove_lease on table tb: the leases and the waiting requests in mask
\* go, and the size owner with the last append lease.
sam_remove_lease(tb, c, mask) ==
    /\ tab' = [tb EXCEPT ![c].leases = @ \ mask, ![c].wt = @ \ mask]
    /\ size_owner' = IF /\ "append" \in tb[c].leases \cap mask
                        /\ \A d \in Client \ {c} : "append" \notin tb[d].leases
                     THEN None ELSE size_owner

\* The lease is granted.  The first lease of a file (sam_new_ino_lease) skips
\* the check for stale pages and is not recorded as a writer.
Grant(t, c, r, first) ==
    LET G == {r.lt} \cup Implicit(c, r.lt, r.mode)
        e == Reported(c, r)
        wr == ~first /\ MayWrite(r.lt, r.mode)
        rd == ~first /\ MayRead(r.lt)
        new == [e EXCEPT !.leases = @ \cup G, !.wt = @ \ {r.lt},
                         !.gen = [l \in Lease |-> IF l \in G THEN @[l] + 1
                                                  ELSE @[l]],
                         !.fresh = wr \/ rd \/ @]
        tb == [d \in Client |-> IF d = c THEN new
                                ELSE [tab[d] EXCEPT !.fresh = @ /\ ~wr]]
        inval == rd /\ ~e.fresh
        missed == IF MayWrite(r.lt, r.mode) THEN pages \ {c} ELSE {}
    IN  /\ IF r.lt = "truncate"
           THEN sam_remove_lease(tb, c, {"truncate"})
           ELSE /\ tab' = tb
                /\ size_owner' = IF r.lt = "append" THEN c ELSE size_owner
        /\ written' = (written \/ wr)
        /\ th' = [th EXCEPT ![t] = [r EXCEPT !.st = "got", !.mask = G,
                                    !.gens = [l \in Lease |-> IF l \in G
                                                THEN new.gen[l] ELSE 0],
                                    !.dio = Shares(c, r.lt) /\ ~e.dio,
                                    !.inval = inval]]
        /\ pages' = IF MayRead(r.lt) \/ "read" \in G THEN pages \cup {c}
                    ELSE pages
        /\ unseen' = (unseen \cup missed) \ (IF inval THEN {c} ELSE {})
        /\ UNCHANGED <<rel, callout>>

\* The request must wait; paged owners are told to switch to direct I/O.
Queue(t, c, r, paged) ==
    /\ tab' = [tab EXCEPT ![c] = [Reported(c, r) EXCEPT !.wt = @ \cup {r.lt}]]
    /\ th' = [th EXCEPT ![t].st = "wait"]
    /\ callout' = callout \cup paged
    /\ UNCHANGED <<size_owner, written, rel, pages, unseen>>

\* sam_process_get_lease.
ServeGet(t) ==
    LET c == Host[t]
        r == th[t]
        first == \A d \in Client : ~tab[d].here
        blocked == MustWait(c, r.lt, r.mode)
        paged == IF ~blocked /\ Shares(c, r.lt) THEN sam_callout_directio(c)
                 ELSE {}
    IN  /\ r.st = "get"
        /\ IF ~first /\ (blocked \/ paged # {}) THEN Queue(t, c, r, paged)
           ELSE Grant(t, c, r, first)
        /\ UNCHANGED <<clientVars, has, notice, wake, bounds>>

\* sam_process_rm_lease: generations count only when an open lease goes.
ServeRemove(t) ==
    LET c == Host[t]
        r == th[t]
        mask == IF "open" \in r.mask THEN SameGen(c, r.mask, r.gens)
                ELSE r.mask
    IN  /\ r.st = "rm"
        /\ sam_remove_lease(tab, c, mask)
        /\ th' = [th EXCEPT ![t] = Idle]
        /\ UNCHANGED <<written, pages, unseen, clientVars, has, netVars,
                       bounds>>

\* sam_process_relinquish_lease.
ServeRelinquish(r) ==
    /\ r.sent
    /\ sam_remove_lease(tab, r.c, SameGen(r.c, r.mask, r.gens))
    /\ rel' = rel \ {r}
    /\ UNCHANGED <<written, pages, unseen, clientVars, th, has, notice,
                   callout, wake, bounds>>

\* Mutant of sam_compact_lease_clients: a dropped entry keeps its contents.
CompactKeeps(tb) ==
    [d \in Client |-> IF tb[d].leases \cup tb[d].wt = {}
                      THEN [tb[d] EXCEPT !.here = FALSE] ELSE tb[d]]

\* Entries without leases and requests are dropped.
sam_compact_lease_clients(tb) ==
    [d \in Client |-> IF tb[d].leases \cup tb[d].wt = {} THEN Free ELSE tb[d]]

\* sam_expire_server_leases.  The server waits so long that the client has
\* dropped the lease, is using it, or was never told.
ServerExpire(c, S) ==
    LET tb == sam_compact_lease_clients([tab EXCEPT ![c].leases = @ \ S])
    IN  /\ S \subseteq tab[c].leases \cap (Data \cup {"stage"})
        /\ S \cap cl_leases[c] \subseteq InUse(c)
        /\ S # {} => expires < setup.expires
        /\ tb # tab
        /\ tab' = tb
        /\ size_owner' = IF \A d \in Client : ~tb[d].here THEN None
                         ELSE size_owner
        /\ notice' = IF S = {} THEN notice ELSE notice \cup {[c |-> c, mask |-> S]}
        /\ expires' = IF S = {} THEN expires ELSE expires + 1
        /\ UNCHANGED <<written, pages, unseen, clientVars, th, has, rel,
                       callout, wake, gets>>

\* BLOCK_wakeup: the client has flushed its pages and uses direct I/O.
ServeWakeup(c) ==
    /\ c \in wake
    /\ wake' = wake \ {c}
    /\ tab' = [tab EXCEPT ![c].dio = tab[c].here]
    /\ UNCHANGED <<size_owner, written, pages, unseen, clientVars, th, has,
                   rel, notice, callout, bounds>>

-----------------------------------------------------------------------------
(* The client                                                              *)

\* A last close waits for its LEASE_remove.
cl_closing(c) ==
    \E t \in ThreadsOf(c) : th[t].st = "rm" /\ th[t].lt = "open"

\* A last close or a last unmap is under way.
last_unmap(c) ==
    \E t \in ThreadsOf(c) : /\ th[t].st \in {"rm", "unmap"}
                            /\ th[t].lt \in {"open", "mmap"}

\* Mappers are let in one at a time.
pending_mmappers(c) ==
    \E t \in ThreadsOf(c) : /\ th[t].st \in {"get", "wait", "got"}
                            /\ th[t].lt = "mmap"

Request(t, lt, mode) == [Idle EXCEPT !.st = "get", !.lt = lt, !.mode = mode,
                                     !.dio = directio[Host[t]]]

\* sam_issue_lease_request sends a LEASE_get.
SendGet(t, lt, mode) ==
    /\ gets < setup.gets
    /\ gets' = gets + 1
    /\ th' = [th EXCEPT ![t] = Request(t, lt, mode)]

\* A lease request for a read, a write or an append.  An append lease stands
\* in for a missing write lease.
StartIO(t, lt) ==
    LET c == Host[t]
        held == cl_leases[c] \cup (IF lt = "write" /\ "append" \in cl_leases[c]
                                   THEN {"write"} ELSE {})
    IN  /\ th[t].st = "idle"
        /\ lt \in LTypes \cap Data
        /\ "open" \in LTypes => "open" \in has[t]
        /\ lt = "append" => ApmutexFree(c)
        /\ cl_leases' = [cl_leases EXCEPT ![c] = held]
        /\ \/ /\ lt \in held
              /\ th' = [th EXCEPT ![t] = [Idle EXCEPT !.st = "io", !.lt = lt]]
              /\ UNCHANGED gets
           \/ SendGet(t, lt, "r")
        /\ UNCHANGED <<serverVars, cl_leasegen, directio, has, netVars,
                       expires>>

EndIO(t) ==
    /\ th[t].st = "io"
    /\ th' = [th EXCEPT ![t] = Idle]
    /\ UNCHANGED <<serverVars, clientVars, has, netVars, bounds>>

\* sam_client_open_vn: only the first open of a client asks for a lease.
Open(t, mode) ==
    /\ th[t].st = "idle" /\ "open" \in LTypes \ has[t]
    /\ has' = [has EXCEPT ![t] = @ \cup {"open"}]
    /\ IF Opens(Host[t]) = {} THEN SendGet(t, "open", mode)
       ELSE UNCHANGED <<th, gets>>
    /\ UNCHANGED <<serverVars, clientVars, netVars, expires>>

Mmap(t, mode) ==
    /\ th[t].st = "idle" /\ "mmap" \in LTypes \ has[t]
    /\ ~pending_mmappers(Host[t]) /\ ~last_unmap(Host[t])
    /\ "open" \in has[t]
    /\ has' = [has EXCEPT ![t] = @ \cup {"mmap"}]
    /\ SendGet(t, "mmap", mode)
    /\ UNCHANGED <<serverVars, clientVars, netVars, expires>>

\* sam_truncate_shared_ino.  Only the server itself truncates to release.
Truncate(t, mode) ==
    /\ th[t].st = "idle" /\ "truncate" \in LTypes
    /\ mode = "release" => Host[t] = Server
    /\ SendGet(t, "truncate", mode)
    /\ UNCHANGED <<serverVars, clientVars, has, netVars, expires>>

\* SAM_MOVE_ORD: the server host takes an exclusive lease to move the blocks of
\* a file to another device.
sam_fseq_ord(t) ==
    /\ th[t].st = "idle" /\ "exclusive" \in LTypes \ has[t]
    /\ Host[t] = Server
    /\ SendGet(t, "exclusive", "r")
    /\ UNCHANGED <<serverVars, clientVars, has, netVars, expires>>

\* The server takes a stage lease for itself to bring the file online.
sam_setup_stage(t) ==
    /\ th[t].st = "idle" /\ "stage" \in LTypes \ has[t]
    /\ Host[t] = Server
    /\ SendGet(t, "stage", "r")
    /\ UNCHANGED <<serverVars, clientVars, has, netVars, expires>>

\* The wait for the lease is over (notified or timed out): ask again.
Reissue(t) ==
    /\ th[t].st = "wait"
    /\ th' = [th EXCEPT ![t] = Request(t, th[t].lt, th[t].mode)]
    /\ UNCHANGED <<serverVars, clientVars, has, netVars, bounds>>

\* A signal ends the wait for the lease (EINTR of sam_wait_server): the request
\* fails and the server is not told, so that wt_leases stays set.  A mapping
\* that was asked for is not made.
Interrupted(t) ==
    /\ th[t].st = "wait"
    /\ th' = [th EXCEPT ![t] = Idle]
    /\ has' = [has EXCEPT ![t] = @ \ ({th[t].lt} \cap {"mmap"})]
    /\ UNCHANGED <<serverVars, clientVars, netVars, bounds>>

\* sam_proc_get_lease after the answer: directed actions are done, then the
\* granted leases are recorded (sam_client_record_lease), each with its
\* generation unless a later one is known.  A truncate lease is over by now, and
\* a stage lease is kept on the server only.
RecordLease(t) ==
    LET c == Host[t]
        r == th[t]
        G == r.mask \ {"truncate", "stage"}
    IN  /\ r.st = "got"
        /\ directio' = [directio EXCEPT ![c] = @ \/ r.dio]
        /\ cl_leases' = [cl_leases EXCEPT ![c] = @ \cup G]
        /\ cl_leasegen' = [cl_leasegen EXCEPT ![c] =
               [l \in Lease |-> IF /\ l \in G
                                   /\ l \notin cl_leases[c] \/ r.gens[l] > @[l]
                                THEN r.gens[l] ELSE @[l]]]
        /\ th' = [th EXCEPT ![t] = IF r.lt \in Data
                                   THEN [Idle EXCEPT !.st = "io", !.lt = r.lt]
                                   ELSE Idle]
        /\ has' = [has EXCEPT ![t] = @ \cup ({r.lt} \cap {"exclusive", "stage"})]
        /\ UNCHANGED <<serverVars, netVars, bounds>>

Remove(t, lt, mask, gens) ==
    th' = [th EXCEPT ![t] = [Idle EXCEPT !.st = "rm", !.lt = lt, !.mask = mask,
                                         !.gens = gens]]

\* Mutant of RemoveAll: the generations are not sent.
RemoveAllNoGen(t, c, lt) ==
    /\ Remove(t, lt, CL_CLOSE, NoGen)
    /\ cl_leases' = [cl_leases EXCEPT ![c] = {}]

\* The last reference of client c goes: all leases are forgotten and a
\* LEASE_remove with their generations is sent.
RemoveAll(t, c, lt) ==
    /\ Remove(t, lt, CL_CLOSE, cl_leasegen[c])
    /\ cl_leases' = [cl_leases EXCEPT ![c] = {}]

\* sam_close_vn, the first part of a close: I/O goes back to the page cache at
\* the last one.
Close(t) ==
    LET c == Host[t]
    IN  /\ th[t].st = "idle" /\ "open" \in has[t]
        /\ has' = [has EXCEPT ![t] = @ \ {"open"}]
        /\ th' = [th EXCEPT ![t].st = "close"]
        /\ directio' = [directio EXCEPT ![c] = @ /\ Opens(c) # {t}]
        /\ UNCHANGED <<serverVars, cl_leases, cl_leasegen, netVars, bounds>>

\* Mutant of LastClose: mapped pages are forgotten.
LastCloseMapped(t) ==
    LET c == Host[t]
        last == Opens(c) = {} /\ ~cl_closing(c) /\ ~last_unmap(c)
    IN  /\ th[t].st = "close"
        /\ IF last THEN RemoveAll(t, c, "open")
           ELSE /\ th' = [th EXCEPT ![t] = Idle]
                /\ UNCHANGED cl_leases
        /\ UNCHANGED <<serverVars, cl_leasegen, directio, has, netVars, bounds>>

\* The rest of sam_client_close_vn: nothing more to do if somebody else has the
\* file open or mapped, or is removing the leases already.
LastClose(t) ==
    LET c == Host[t]
        last == /\ Opens(c) = {} /\ Maps(c) = {}
                /\ ~cl_closing(c) /\ ~last_unmap(c)
    IN  /\ th[t].st = "close"
        /\ IF last THEN RemoveAll(t, c, "open")
           ELSE /\ th' = [th EXCEPT ![t] = Idle]
                /\ UNCHANGED cl_leases
        /\ UNCHANGED <<serverVars, cl_leasegen, directio, has, netVars, bounds>>

\* sam_mmap_rmlease, of sam_client_delmap_vn: the last unmap gives back the mmap
\* lease, or all of them when the file is not open.
Unmap(t) ==
    LET c == Host[t]
        last == Maps(c) = {t} /\ ~last_unmap(c)
    IN  /\ th[t].st = "idle" /\ "mmap" \in has[t] /\ ~pending_mmappers(c)
        /\ has' = [has EXCEPT ![t] = @ \ {"mmap"}]
        /\ \/ /\ ~last
              /\ UNCHANGED <<th, cl_leases, rel>>
           \/ /\ last /\ Opens(c) = {}
              /\ RemoveAll(t, c, "mmap")
              /\ UNCHANGED rel
           \/ /\ last /\ Opens(c) # {}
              /\ cl_leases' = [cl_leases EXCEPT ![c] = @ \ {"mmap"}]
              /\ rel' = rel \cup {[c |-> c, mask |-> {"mmap"}, sent |-> TRUE,
                                   gens |-> cl_leasegen[c]]}
              /\ th' = [th EXCEPT ![t] = [Idle EXCEPT !.st = "unmap",
                                                      !.lt = "mmap"]]
        /\ UNCHANGED <<serverVars, cl_leasegen, directio, notice, callout, wake,
                       bounds>>

\* The LEASE_relinquish of the last unmap has been sent.
UnmapDone(t) ==
    /\ th[t].st = "unmap"
    /\ th' = [th EXCEPT ![t] = Idle]
    /\ UNCHANGED <<serverVars, clientVars, has, netVars, bounds>>

\* sam_proc_rm_lease of a single lease: no generations.
Unlock(t, lt) ==
    /\ th[t].st = "idle" /\ lt \in has[t] \cap {"exclusive", "stage"}
    /\ has' = [has EXCEPT ![t] = @ \ {lt}]
    /\ cl_leases' = [cl_leases EXCEPT ![Host[t]] = @ \ {lt}]
    /\ Remove(t, lt, {lt}, NoGen)
    /\ UNCHANGED <<serverVars, cl_leasegen, directio, netVars, bounds>>

\* sam_expire_client_leases: unused leases are dropped and given back.  A task
\* of its own gives back an append lease, the others go out at once.
ClientExpire(c, S) ==
    /\ S # {} /\ S \subseteq (cl_leases[c] \cap Data) \ InUse(c)
    /\ expires < setup.expires /\ expires' = expires + 1
    /\ cl_leases' = [cl_leases EXCEPT ![c] = @ \ S]
    /\ rel' = rel \cup {[c |-> c, mask |-> S, sent |-> "append" \notin S,
                         gens |-> cl_leasegen[c]]}
    /\ UNCHANGED <<serverVars, cl_leasegen, directio, th, has, notice, callout,
                   wake, gets>>

\* The task started by sam_start_relinquish_task sends its message.
sam_relinquish_leases(r) ==
    /\ ~r.sent /\ ApmutexFree(r.c)
    /\ rel' = (rel \ {r}) \cup {[r EXCEPT !.sent = TRUE]}
    /\ UNCHANGED <<serverVars, clientVars, th, has, notice, callout, wake,
                   bounds>>

\* NOTIFY_lease_expire.
LeaseExpired(n) ==
    /\ cl_leases' = [cl_leases EXCEPT ![n.c] = @ \ n.mask]
    /\ notice' = notice \ {n}
    /\ UNCHANGED <<serverVars, cl_leasegen, directio, th, has, rel, callout,
                   wake, bounds>>

\* CALLOUT_flags: the client flushes its pages, switches to direct I/O and
\* answers with BLOCK_wakeup.
DirectioOn(c) ==
    /\ c \in callout
    /\ directio' = [directio EXCEPT ![c] = TRUE]
    /\ callout' = callout \ {c}
    /\ wake' = wake \cup {c}
    /\ UNCHANGED <<serverVars, cl_leases, cl_leasegen, th, has, rel, notice,
                   bounds>>

-----------------------------------------------------------------------------
Init ==
    /\ setup \in Setups
    /\ tab = [c \in Client |-> Free]
    /\ size_owner = None /\ written = FALSE
    /\ cl_leases = [c \in Client |-> {}]
    /\ cl_leasegen = [c \in Client |-> NoGen]
    /\ directio = [c \in Client |-> FALSE]
    /\ th = [t \in Thread |-> Idle]
    /\ has = [t \in Thread |-> {}]
    /\ rel = {} /\ notice = {} /\ callout = {} /\ wake = {}
    /\ gets = 0 /\ expires = 0
    /\ pages = {} /\ unseen = {}

ThreadStep(t) ==
    \/ \E lt \in Data : StartIO(t, lt)
    \/ EndIO(t)
    \/ \E mode \in {"r", "w"} : Open(t, mode) \/ Mmap(t, mode)
    \/ \E mode \in {"up", "down", "release"} : Truncate(t, mode)
    \/ \E lt \in {"exclusive", "stage"} : Unlock(t, lt)
    \/ sam_fseq_ord(t) \/ sam_setup_stage(t)
    \/ ServeGet(t)
    \/ RecordLease(t)
    \/ Reissue(t) \/ Interrupted(t)
    \/ Close(t)
    \/ LastClose(t)
    \/ Unmap(t) \/ UnmapDone(t)
    \/ ServeRemove(t)

HostStep(c) ==
    \/ \E S \in SUBSET Data : ClientExpire(c, S)
    \/ \E S \in SUBSET (Data \cup {"stage"}) : ServerExpire(c, S)
    \/ DirectioOn(c)
    \/ ServeWakeup(c)

Next ==
    /\ \/ \E t \in Thread : ThreadStep(t)
       \/ \E c \in Client : HostStep(c)
       \/ \E r \in rel : sam_relinquish_leases(r) \/ ServeRelinquish(r)
       \/ \E n \in notice : LeaseExpired(n)
    /\ UNCHANGED setup

Spec == Init /\ [][Next]_vars

-----------------------------------------------------------------------------
(* Properties                                                              *)

ThreadState == [st : {"idle", "get", "got", "wait", "io", "close", "rm",
                      "unmap"},
                lt : AllTypes, mode : {"r", "w", "up", "down", "release"},
                dio : BOOLEAN, mask : SUBSET Lease, gens : [Lease -> Nat],
                inval : BOOLEAN]

\* The state of the lease table, of the clients and of the messages has its
\* type, and a client without an entry in ip->sr_leases has no lease there and
\* does not wait for one.
TypeOK ==
    /\ tab \in [Client -> [here : BOOLEAN, leases : SUBSET Lease,
                           wt : SUBSET Lease, gen : [Lease -> Nat],
                           dio : BOOLEAN, fresh : BOOLEAN]]
    /\ \A c \in Client : ~tab[c].here => tab[c] = Free
    /\ size_owner \in Client \cup {None} /\ written \in BOOLEAN
    /\ cl_leases \in [Client -> SUBSET Lease]
    /\ cl_leasegen \in [Client -> [Lease -> Nat]]
    /\ directio \in [Client -> BOOLEAN]
    /\ th \in [Thread -> ThreadState]
    /\ has \in [Thread -> SUBSET {"open", "mmap", "exclusive", "stage"}]
    /\ rel \subseteq [c : Client, mask : SUBSET Lease, gens : [Lease -> Nat],
                      sent : BOOLEAN]
    /\ notice \subseteq [c : Client, mask : SUBSET Lease]
    /\ callout \subseteq Client /\ wake \subseteq Client
    /\ gets \in 0..setup.gets /\ expires \in 0..setup.expires
    /\ pages \subseteq Client /\ unseen \subseteq Client

\* The server's table never holds leases of two clients that exclude each
\* other: at most one append lease whatever the mount options, no reader beside
\* a writer without mh_write, and nobody's data lease beside an exclusive one
\* (the checks of sam_add_ino_lease, also over leases given implicitly and
\* leases that survive an out of order removal).
LeasesExclude ==
    \A c \in Client :
        /\ "append" \in tab[c].leases => "append" \notin Others(c)
        /\ ~MH_WRITE /\ Meets(tab[c].leases, {"write", "append"})
              => ~Meets(Others(c), Data)
        /\ "exclusive" \in tab[c].leases => ~Meets(Others(c), Data)

\* The client with the append lease is the one whose size the server believes
\* (ip->size_owner), whatever removals of earlier append leases arrive late and
\* whatever the server expired meanwhile.
AppendOwnsSize ==
    \A c \in Client : "append" \in tab[c].leases => size_owner = c

\* Every host has one thread that uses the file.
OneEach == \A t \in Thread : ThreadsOf(Host[t]) = {t}

\* A client with the file open that may hold cached pages from before another
\* client's write is told to drop them (SR_INVAL_PAGES) with the next lease it
\* asks for that lets it read, also when its entry in the table was cleared or
\* compacted away since (wr_seq against sr_write_seqno in sam_add_ino_lease).
\* The first lease on a file does not advance sr_write_seqno.  Left out is what
\* can write with it: a truncation, which flushes pages and calls out to the
\* others in ways that are not modelled, an exclusive lease, and a thread beside
\* another one whose open lease is still under way.
ReadersTold ==
    [][\A t \in Thread :
          /\ OneEach /\ {"truncate", "exclusive"} \cap LTypes = {}
          /\ th[t].st = "get" /\ th'[t].st = "got" /\ "open" \in has[t]
          /\ MayRead(th[t].lt) /\ Host[t] \in unseen
          => th'[t].inval]_vars

Conflicting(c, d) ==
    \/ /\ Meets(tab[c].leases, {"write", "append"})
       /\ Meets(tab[d].leases, Data)
    \/ /\ Meets(tab[d].leases, {"write", "append"})
       /\ Meets(tab[c].leases, Data)

\* With mh_write, a client whose lease conflicts with another client's does not
\* read or write through its page cache: a thread in I/O there uses direct I/O,
\* or the answer that switches it is on the way (sam_callout_directio and
\* BLOCK_wakeup, of which server.c says: "Current WRITE/APPEND inode owner has
\* flushed pages and changed to directio").  This is so while nobody closes the
\* file: a last close goes back to paged I/O, and a BLOCK_wakeup from before it
\* would be believed after it.
PagedAlone ==
    \A c, d \in Client :
        /\ "open" \notin LTypes
        /\ c # d /\ Conflicting(c, d)
        /\ \E t \in ThreadsOf(c) : th[t].st = "io"
        => \/ directio[c]
           \/ c \in callout
           \/ \E t \in ThreadsOf(c) : th[t].st = "got" /\ th[t].dio

\* Nobody on client c has the file open or mapped, or is about to say so.
Closed(c) == \A t \in ThreadsOf(c) : th[t].st = "idle" /\ has[t] = {}

\* A client on which the file is closed has no open lease on the server
\* (clvnops.c: "On last close and no mmapped pages, update inode on the server
\* and cancel leases"), where one thread uses the file: the removal that a last
\* close sends with generations, and that other messages overtake, cancels it.
SingleCloseCancels ==
    \A c \in Client, t \in Thread : ThreadsOf(c) = {t} /\ Closed(c)
                                       => "open" \notin tab[c].leases

\* A LEASE_remove, sent at a last close or a last unmap, does not take the mmap
\* lease of a client on which the file is mapped, though it may be served late
\* (clvnops.c: "This stops anyone from releasing our lease via CL_CLOSE before
\* we can set mm_pages").
CloseKeepsMaps ==
    [][\A t \in Thread :
          LET c == Host[t]
          IN  /\ th[t].st = "rm" /\ th'[t].st # "rm"
              /\ \E u \in ThreadsOf(c) : "mmap" \in has[u] /\ th[u].st = "idle"
              /\ "mmap" \in tab[c].leases
              => "mmap" \in tab'[c].leases]_vars

=============================================================================
