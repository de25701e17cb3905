-------------------------- MODULE SharedLeaseProofs --------------------------
(***************************************************************************)
(* Proofs about SharedLease for any hosts, threads and setups: the types,  *)
(* the exclusion of leases in the server's table, the size owner, the end  *)
(* of paged I/O beside a conflicting lease, the leases a close takes and   *)
(* leaves, and the notice to readers with stale pages.                     *)
(***************************************************************************)
EXTENDS SharedLease, TLAPS

EntryType == [here : BOOLEAN, leases : SUBSET Lease, wt : SUBSET Lease,
              gen : [Lease -> Nat], dio : BOOLEAN, fresh : BOOLEAN]

\* An entry that is not in the table is clear.
Cleared == \A c \in Client : ~tab[c].here => tab[c] = Free

\* Nobody waits for an open lease.
Waiters == \A t \in Thread : th[t].st = "wait" => th[t].lt # "open"

\* TypeOK, part by part.
ServerType ==
    /\ tab \in [Client -> EntryType] /\ Cleared
    /\ size_owner \in Client \cup {None} /\ written \in BOOLEAN
    /\ pages \subseteq Client /\ unseen \subseteq Client

ClientType ==
    /\ cl_leases \in [Client -> SUBSET Lease]
    /\ cl_leasegen \in [Client -> [Lease -> Nat]]
    /\ directio \in [Client -> BOOLEAN]

NetType ==
    /\ rel \subseteq [c : Client, mask : SUBSET Lease, gens : [Lease -> Nat],
                      sent : BOOLEAN]
    /\ notice \subseteq [c : Client, mask : SUBSET Lease]
    /\ callout \subseteq Client /\ wake \subseteq Client

ThreadsType ==
    /\ th \in [Thread -> ThreadState]
    /\ has \in [Thread -> SUBSET {"open", "mmap", "exclusive", "stage"}]
    /\ setup \in Setups
    /\ gets \in 0..setup.gets /\ expires \in 0..setup.expires

\* A mapping is asked for to read or to write.
MmapModes ==
    \A t \in Thread : th[t].st \in {"get", "wait"} /\ th[t].lt = "mmap"
                         => th[t].mode \in {"r", "w"}

IInv ==
    /\ ServerType /\ ClientType /\ NetType /\ ThreadsType /\ Waiters /\ MmapModes
    /\ LeasesExclude /\ AppendOwnsSize

-----------------------------------------------------------------------------
(* Types of the operators.                                                   *)

LEMMA Typed == IInv => TypeOK
BY Zenon DEF IInv, ServerType, ClientType, NetType, ThreadsType, Cleared,
   TypeOK, EntryType

LEMMA SetupTypes ==
    ASSUME IInv
    PROVE  /\ \A t \in Thread : Host[t] \in Client
           /\ MH_WRITE \in BOOLEAN /\ setup.gets \in Nat /\ setup.expires \in Nat
BY LeaseAssumption DEF IInv, ThreadsType, Setup, Host, MH_WRITE

LEMMA NoGenType == NoGen \in [Lease -> Nat]
BY DEF NoGen

LEMMA FreeType ==
    /\ Free \in EntryType /\ Free.leases = {} /\ Free.wt = {} /\ ~Free.here
    /\ Free.fresh = FALSE
BY NoGenType DEF Free, EntryType

LEMMA NewEntryType ==
    ASSUME IInv
    PROVE  NewEntry \in EntryType /\ NewEntry.leases = {} /\ NewEntry.wt = {}
           /\ NewEntry.here
BY NoGenType, Zenon DEF Free, EntryType, NewEntry, IInv, ServerType

\* A lease type of a request and what it asks for.
LEMMA IdleType ==
    Idle \in ThreadState /\ Idle.st = "idle" /\ Idle.mask = {}
BY NoGenType DEF Idle, ThreadState, Lease, AllTypes

\* The entry that a request works on has the leases of the table's.
LEMMA ReportedType ==
    ASSUME IInv, NEW c \in Client, NEW r \in ThreadState
    PROVE  /\ Reported(c, r) \in EntryType /\ Reported(c, r).here
           /\ Reported(c, r).leases = tab[c].leases
           /\ Reported(c, r).wt = tab[c].wt
           /\ tab[c].leases # {} => Reported(c, r).gen = tab[c].gen
           /\ Reported(c, r).dio => tab[c].dio \/ r.dio
           /\ r.lt \in Data => Reported(c, r).dio = r.dio
<1>1. tab[c] \in EntryType /\ (~tab[c].here => tab[c] = Free)
  BY Zenon DEF IInv, ServerType, Cleared
<1>2. tab[c].here \in BOOLEAN
  BY <1>1 DEF EntryType
<1>3. Entry(c) \in EntryType /\ Entry(c).here /\ Entry(c).leases = tab[c].leases
      /\ Entry(c).wt = tab[c].wt /\ (tab[c].leases # {} => Entry(c) = tab[c])
      /\ (Entry(c).dio => tab[c].dio)
  <2>1. CASE tab[c].leases \cup tab[c].wt # {}
    BY Zenon, <1>1, <1>2, <2>1, FreeType DEF Entry
  <2>2. CASE tab[c].leases \cup tab[c].wt = {}
    <3>1. tab[c].leases = {} /\ tab[c].wt = {}
      BY <2>2
    <3>2. NewEntry.dio = FALSE
      BY DEF NewEntry, Free
    <3> QED
      BY Zenon, <2>2, <3>1, <3>2, NewEntryType DEF Entry
  <2> QED
    BY Zenon, <2>1, <2>2
<1>4. r.dio \in BOOLEAN
  BY DEF ThreadState
<1>5. LET x == [Entry(c) EXCEPT !.dio = r.dio]
      IN  /\ x \in EntryType /\ x.here /\ x.leases = tab[c].leases /\ x.wt = tab[c].wt
          /\ x.gen = Entry(c).gen /\ x.dio = r.dio
  BY <1>3, <1>4 DEF EntryType
<1> QED
  BY Zenon, <1>3, <1>5 DEF Reported

-----------------------------------------------------------------------------
(* The table.                                                                *)

\* What sam_remove_lease leaves of a table.
LEMMA RemoveLease ==
    ASSUME IInv, NEW tb \in [Client -> EntryType], NEW c \in Client, NEW mask,
           sam_remove_lease(tb, c, mask)
    PROVE  /\ tab' \in [Client -> EntryType]
           /\ \A d \in Client \ {c} : tab'[d] = tb[d]
           /\ tab'[c].here = tb[c].here
           /\ tab'[c].leases = tb[c].leases \ mask
           /\ tab'[c].wt = tb[c].wt \ mask
           /\ tab'[c].gen = tb[c].gen /\ tab'[c].dio = tb[c].dio
           /\ tb[c] = Free => tab'[c] = Free
           /\ size_owner' \in Client \cup {None}
           /\ \A d \in Client : "append" \in tab'[d].leases => size_owner' = size_owner
<1> DEFINE e == [tb[c] EXCEPT !.leases = @ \ mask, !.wt = @ \ mask]
<1>1. tab' = [tb EXCEPT ![c] = e]
  BY Zenon DEF sam_remove_lease
<1>2. tb[c] \in EntryType
  BY Zenon
<1>3. /\ e \in EntryType /\ e.here = tb[c].here
      /\ e.leases = tb[c].leases \ mask /\ e.wt = tb[c].wt \ mask
      /\ e.gen = tb[c].gen /\ e.dio = tb[c].dio
  BY <1>2, Zenon DEF EntryType
<1>4. tb[c] = Free => e = Free
  <2>1. tb[c].leases = {} /\ tb[c].wt = {} => e = tb[c]
    BY <1>2, Zenon DEF EntryType
  <2> QED
    BY Zenon, <2>1, FreeType
<1> HIDE DEF e
<1>5. tab'[c] = e /\ \A d \in Client \ {c} : tab'[d] = tb[d]
  BY Zenon, <1>1
<1>6. tab' \in [Client -> EntryType]
  BY Zenon, <1>1, <1>3
<1>7. \A d \in Client : "append" \in tab'[d].leases => size_owner' = size_owner
  <2>1. CASE /\ "append" \in tb[c].leases \cap mask
             /\ \A d \in Client \ {c} : "append" \notin tb[d].leases
    <3>1. \A d \in Client : "append" \notin tab'[d].leases
      BY <1>3, <1>5, <2>1
    <3> QED
      BY Zenon, <3>1
  <2>2. CASE ~(/\ "append" \in tb[c].leases \cap mask
               /\ \A d \in Client \ {c} : "append" \notin tb[d].leases)
    BY Zenon, <2>2 DEF sam_remove_lease
  <2> QED
    BY Zenon, <2>1, <2>2
<1>8. size_owner' \in Client \cup {None}
  BY Zenon DEF sam_remove_lease, IInv, ServerType
<1> QED
  BY Zenon, <1>3, <1>4, <1>5, <1>6, <1>7, <1>8

-----------------------------------------------------------------------------
(* Granting.                                                                 *)

\* The leases of the other clients.
LEMMA OthersHave ==
    ASSUME NEW c \in Client, NEW d \in Client, c # d, NEW l, l \in tab[d].leases
    PROVE  l \in Others(c)
BY Zenon DEF Others

\* The exclusion, for two clients and their leases.
Excluding(S, T) ==
    /\ "append" \in S => "append" \notin T
    /\ ~MH_WRITE /\ Meets(S, {"write", "append"}) => ~Meets(T, Data)
    /\ "exclusive" \in S => ~Meets(T, Data)

\* The parts of Grant.
Given(c, r) == {r.lt} \cup Implicit(c, r.lt, r.mode)
Writes(r, first) == ~first /\ MayWrite(r.lt, r.mode)
GivenEntry(c, r, first) ==
    [Reported(c, r) EXCEPT
        !.leases = @ \cup Given(c, r), !.wt = @ \ {r.lt},
        !.gen = [l \in Lease |-> IF l \in Given(c, r) THEN @[l] + 1 ELSE @[l]],
        !.fresh = Writes(r, first) \/ (~first /\ MayRead(r.lt)) \/ @]
GivenTable(c, r, first) ==
    [d \in Client |-> IF d = c THEN GivenEntry(c, r, first)
                      ELSE [tab[d] EXCEPT !.fresh = @ /\ ~Writes(r, first)]]
GivenThread(c, r, first) ==
    [r EXCEPT !.st = "got", !.mask = Given(c, r),
              !.gens = [l \in Lease |-> IF l \in Given(c, r)
                                        THEN GivenEntry(c, r, first).gen[l] ELSE 0],
              !.dio = Shares(c, r.lt) /\ ~Reported(c, r).dio,
              !.inval = (~first /\ MayRead(r.lt)) /\ ~Reported(c, r).fresh]

LEMMA GrantParts ==
    ASSUME NEW t, NEW c, NEW r, NEW first, Grant(t, c, r, first)
    PROVE  /\ r.lt = "truncate" =>
                sam_remove_lease(GivenTable(c, r, first), c, {"truncate"})
           /\ r.lt # "truncate" =>
                /\ tab' = GivenTable(c, r, first)
                /\ size_owner' = IF r.lt = "append" THEN c ELSE size_owner
           /\ written' = (written \/ Writes(r, first))
           /\ th' = [th EXCEPT ![t] = GivenThread(c, r, first)]
           /\ pages' \subseteq pages \cup {c}
           /\ unseen' \subseteq unseen \cup pages
           /\ UNCHANGED <<rel, callout>>
BY Zenon DEF Grant, GivenTable, GivenEntry, GivenThread, Given, Writes

LEMMA GivenTypes ==
    ASSUME IInv, NEW c \in Client, NEW r \in ThreadState, NEW first
    PROVE  /\ Given(c, r) \subseteq Lease
           /\ GivenEntry(c, r, first) \in EntryType
           /\ GivenEntry(c, r, first).here
           /\ GivenEntry(c, r, first).leases = tab[c].leases \cup Given(c, r)
           /\ GivenEntry(c, r, first).wt = tab[c].wt \ {r.lt}
           /\ GivenThread(c, r, first) \in ThreadState
           /\ GivenThread(c, r, first).st = "got"
           /\ GivenEntry(c, r, first).dio = Reported(c, r).dio
           /\ \A l \in Lease : GivenEntry(c, r, first).gen[l] =
                 IF l \in Given(c, r) THEN Reported(c, r).gen[l] + 1 ELSE Reported(c, r).gen[l]
           /\ GivenThread(c, r, first).lt = r.lt
           /\ GivenThread(c, r, first).mask = Given(c, r)
           /\ GivenThread(c, r, first).dio = (Shares(c, r.lt) /\ ~Reported(c, r).dio)
           /\ \A l \in Given(c, r) : GivenThread(c, r, first).gens[l] =
                                         GivenEntry(c, r, first).gen[l]
<1>1. Given(c, r) \subseteq Lease
  <2>1. Implicit(c, r.lt, r.mode) \subseteq Lease
    BY DEF Implicit, Lease, AllTypes
  <2> QED
    BY <2>1 DEF Given, ThreadState, Lease
<1>2. /\ Reported(c, r) \in EntryType /\ Reported(c, r).here
      /\ Reported(c, r).leases = tab[c].leases /\ Reported(c, r).wt = tab[c].wt
  BY Zenon, ReportedType
<1> DEFINE e == Reported(c, r)
           g == [l \in Lease |-> IF l \in Given(c, r) THEN e.gen[l] + 1 ELSE e.gen[l]]
           f == Writes(r, first) \/ (~first /\ MayRead(r.lt)) \/ e.fresh
<1>3. g \in [Lease -> Nat]
  BY <1>2 DEF EntryType
<1>4. f \in BOOLEAN
  BY Zenon
<1>5. GivenEntry(c, r, first) =
        [e EXCEPT !.leases = @ \cup Given(c, r), !.wt = @ \ {r.lt}, !.gen = g, !.fresh = f]
  BY Zenon DEF GivenEntry
<1> HIDE DEF e, g, f
<1>6. e \in EntryType /\ e.here /\ e.leases = tab[c].leases /\ e.wt = tab[c].wt
  BY Zenon, <1>2 DEF e
<1>7. /\ GivenEntry(c, r, first) \in EntryType
      /\ GivenEntry(c, r, first).here
      /\ GivenEntry(c, r, first).leases = tab[c].leases \cup Given(c, r)
      /\ GivenEntry(c, r, first).wt = tab[c].wt \ {r.lt}
      /\ GivenEntry(c, r, first).dio = e.dio /\ GivenEntry(c, r, first).gen = g
  BY <1>1, <1>3, <1>4, <1>5, <1>6, ZenonT(30) DEF EntryType
<1>8. /\ GivenThread(c, r, first) \in ThreadState /\ GivenThread(c, r, first).st = "got"
      /\ GivenThread(c, r, first).lt = r.lt /\ GivenThread(c, r, first).mask = Given(c, r)
      /\ GivenThread(c, r, first).dio = (Shares(c, r.lt) /\ ~Reported(c, r).dio)
      /\ \A l \in Given(c, r) : GivenThread(c, r, first).gens[l] =
                                    GivenEntry(c, r, first).gen[l]
  <2> DEFINE gg == [l \in Lease |-> IF l \in Given(c, r)
                                    THEN GivenEntry(c, r, first).gen[l] ELSE 0]
             x == Shares(c, r.lt) /\ ~Reported(c, r).dio
             y == (~first /\ MayRead(r.lt)) /\ ~Reported(c, r).fresh
  <2>1. gg \in [Lease -> Nat]
    BY <1>7 DEF EntryType
  <2>2. x \in BOOLEAN /\ y \in BOOLEAN
    BY Zenon
  <2>3. GivenThread(c, r, first) =
          [r EXCEPT !.st = "got", !.mask = Given(c, r), !.gens = gg, !.dio = x, !.inval = y]
    BY Zenon DEF GivenThread
  <2>4. \A l \in Given(c, r) : gg[l] = GivenEntry(c, r, first).gen[l]
    BY Zenon, <1>1
  <2> HIDE DEF gg, x, y
  <2>5. /\ GivenThread(c, r, first) \in ThreadState /\ GivenThread(c, r, first).st = "got"
        /\ GivenThread(c, r, first).lt = r.lt /\ GivenThread(c, r, first).mask = Given(c, r)
        /\ GivenThread(c, r, first).dio = x /\ GivenThread(c, r, first).gens = gg
    BY <1>1, <2>1, <2>2, <2>3, Zenon DEF ThreadState
  <2> QED
    BY Zenon, <2>4, <2>5 DEF x
<1>9. /\ GivenEntry(c, r, first).dio = Reported(c, r).dio
      /\ \A l \in Lease : GivenEntry(c, r, first).gen[l] =
            IF l \in Given(c, r) THEN Reported(c, r).gen[l] + 1 ELSE Reported(c, r).gen[l]
  BY Zenon, <1>7 DEF e, g
<1> QED
  BY Zenon, <1>1, <1>7, <1>8, <1>9

\* The table with the granted lease.
LEMMA GivenTableType ==
    ASSUME IInv, NEW c \in Client, NEW r \in ThreadState, NEW first
    PROVE  /\ GivenTable(c, r, first) \in [Client -> EntryType]
           /\ GivenTable(c, r, first)[c] = GivenEntry(c, r, first)
           /\ \A d \in Client \ {c} :
                /\ GivenTable(c, r, first)[d].leases = tab[d].leases
                /\ GivenTable(c, r, first)[d].wt = tab[d].wt
                /\ GivenTable(c, r, first)[d].gen = tab[d].gen
                /\ GivenTable(c, r, first)[d].dio = tab[d].dio
                /\ ~GivenTable(c, r, first)[d].here => GivenTable(c, r, first)[d] = Free
<1>1. \A d \in Client : tab[d] \in EntryType /\ (~tab[d].here => tab[d] = Free)
  BY Zenon DEF IInv, ServerType, Cleared
<1>2. \A x \in EntryType : \A b \in BOOLEAN :
        LET y == [x EXCEPT !.fresh = b]
        IN  /\ y \in EntryType /\ y.leases = x.leases /\ y.wt = x.wt /\ y.here = x.here
            /\ y.gen = x.gen /\ y.dio = x.dio
            /\ x.fresh = b => y = x
  BY DEF EntryType
<1>3. ASSUME NEW d \in Client \ {c}
      PROVE  LET y == [tab[d] EXCEPT !.fresh = @ /\ ~Writes(r, first)]
             IN  /\ y \in EntryType /\ y.leases = tab[d].leases /\ y.wt = tab[d].wt
                 /\ y.gen = tab[d].gen /\ y.dio = tab[d].dio
                 /\ ~y.here => y = Free
  <2> DEFINE b == tab[d].fresh /\ ~Writes(r, first)
             y == [tab[d] EXCEPT !.fresh = b]
  <2>1. b \in BOOLEAN
    BY Zenon
  <2>2. /\ y \in EntryType /\ y.leases = tab[d].leases /\ y.wt = tab[d].wt
        /\ y.gen = tab[d].gen /\ y.dio = tab[d].dio
        /\ y.here = tab[d].here /\ (tab[d].fresh = b => y = tab[d])
    BY Zenon, <1>1, <1>2, <2>1
  <2>3. tab[d] = Free => tab[d].fresh = b
    BY Zenon, FreeType
  <2> QED
    BY Zenon, <1>1, <2>2, <2>3
<1>4. GivenEntry(c, r, first) \in EntryType
  BY Zenon, GivenTypes
<1> QED
  BY Zenon, <1>3, <1>4 DEF GivenTable

-----------------------------------------------------------------------------
(* Steps of a thread.                                                        *)

Held == {"open", "mmap", "exclusive", "stage"}

-----------------------------------------------------------------------------
(* Messages, expiry and wakeups.                                             *)

\* What sam_compact_lease_clients leaves of a table in which c lost the leases S.
LEMMA Compacted ==
    ASSUME IInv, NEW c \in Client, NEW S,
           tab' = sam_compact_lease_clients([tab EXCEPT ![c].leases = @ \ S])
    PROVE  /\ tab' \in [Client -> EntryType] /\ Cleared'
           /\ \A d \in Client : /\ tab'[d].leases \subseteq tab[d].leases
                                /\ tab'[d].wt \subseteq tab[d].wt
                                /\ tab'[d].dio => tab[d].dio
                                /\ \A l \in tab[d].leases \ S :
                                      l \in tab'[d].leases /\ tab'[d].gen = tab[d].gen
<1> DEFINE tb == [tab EXCEPT ![c].leases = @ \ S]
<1>1. tab \in [Client -> EntryType] /\ Cleared
  BY Zenon DEF IInv, ServerType
<1>2. /\ tb[c] \in EntryType /\ tb[c].leases = tab[c].leases \ S
      /\ tb[c].wt = tab[c].wt /\ tb[c].here = tab[c].here
      /\ tb[c].gen = tab[c].gen /\ tb[c].dio = tab[c].dio
  <2>1. tb[c] = [tab[c] EXCEPT !.leases = tab[c].leases \ S] /\ tab[c] \in EntryType
    BY Zenon, <1>1
  <2> QED
    BY <2>1 DEF EntryType
<1>3. \A d \in Client \ {c} : tb[d] = tab[d]
  BY Zenon, <1>1
<1>4. \A d \in Client : tab'[d] = IF tb[d].leases \cup tb[d].wt = {} THEN Free ELSE tb[d]
  BY Zenon DEF sam_compact_lease_clients
<1>5. DOMAIN tab' = Client /\ tab' = [d \in Client |-> tab'[d]]
  BY DEF sam_compact_lease_clients
<1> HIDE DEF tb
<1>6. \A d \in Client : /\ tb[d] \in EntryType /\ tb[d].leases \subseteq tab[d].leases
                        /\ tb[d].wt = tab[d].wt /\ tb[d].here = tab[d].here
                        /\ tb[d].gen = tab[d].gen /\ tb[d].dio = tab[d].dio
                        /\ tab[d].leases \ S \subseteq tb[d].leases
  BY Zenon, <1>1, <1>2, <1>3
<1>7. tab' \in [Client -> EntryType]
  <2>1. \A d \in Client : tab'[d] \in EntryType
    BY Zenon, <1>4, <1>6, FreeType
  <2> QED
    BY Zenon, <1>5, <2>1
<1>8. Cleared'
  <2>1. \A d \in Client : ~tab[d].here => tab[d].leases = {} /\ tab[d].wt = {}
    BY Zenon, <1>1, FreeType DEF Cleared
  <2>2. \A d \in Client : ~tb[d].here => tb[d].leases \cup tb[d].wt = {}
    BY <1>6, <2>1
  <2> QED
    BY Zenon, <1>4, <2>2 DEF Cleared
<1>9. \A d \in Client : /\ tab'[d].leases \subseteq tab[d].leases
                        /\ tab'[d].wt \subseteq tab[d].wt
  BY Zenon, <1>4, <1>6, FreeType
<1>10. \A d \in Client : /\ tab'[d].dio => tab[d].dio
                         /\ \A l \in tab[d].leases \ S :
                               l \in tab'[d].leases /\ tab'[d].gen = tab[d].gen
  <2>1. ~Free.dio
    BY DEF Free
  <2>2. \A d \in Client : tab'[d].dio => tab[d].dio
    BY Zenon, <1>4, <1>6, <2>1
  <2>3. \A d \in Client : \A l \in tab[d].leases \ S : tab'[d] = tb[d] /\ l \in tb[d].leases
    BY Zenon, <1>4, <1>6
  <2> QED
    BY Zenon, <1>6, <2>2, <2>3
<1> QED
  BY Zenon, <1>7, <1>8, <1>9, <1>10

-----------------------------------------------------------------------------
(* The invariant.                                                            *)

LEMMA InitInv == Init => IInv
<1> SUFFICES ASSUME Init PROVE IInv
  OBVIOUS
<1>1. setup \in Setups /\ setup.gets \in Nat /\ setup.expires \in Nat
  BY LeaseAssumption DEF Init, Setup
<1>2. 0 \in 0..setup.gets /\ 0 \in 0..setup.expires
  BY <1>1
<1>3. /\ \A c \in Client : tab[c].leases = {} /\ tab[c].wt = {} /\ tab[c] = Free
      /\ \A t \in Thread : th[t].st = "idle"
  BY Zenon, FreeType, IdleType DEF Init
<1>4. ServerType
  BY Zenon, <1>3, FreeType DEF Init, ServerType, Cleared
<1>5. ClientType /\ NetType
  BY Zenon, NoGenType DEF Init, ClientType, NetType
<1>6. ThreadsType
  BY Zenon, <1>1, <1>2, IdleType DEF Init, ThreadsType
<1>7. Waiters /\ MmapModes
  BY Zenon, <1>3 DEF Waiters, MmapModes
<1>8. LeasesExclude /\ AppendOwnsSize
  <2>1. \A c \in Client : \A S : ~Meets(tab[c].leases, S) /\ ~Meets({}, S)
    BY <1>3 DEF Meets
  <2> QED
    BY Zenon, <1>3, <2>1 DEF LeasesExclude, AppendOwnsSize
<1> QED
  BY Zenon, <1>4, <1>5, <1>6, <1>7, <1>8 DEF IInv

LEMMA NextInv == IInv /\ [Next]_vars => IInv'
\* A request on its way.
<1>RequestType. ASSUME IInv, NEW t \in Thread, NEW lt \in AllTypes,
           NEW mode \in {"r", "w", "up", "down", "release"}
    PROVE  /\ Request(t, lt, mode) \in ThreadState
           /\ Request(t, lt, mode).st = "get" /\ Request(t, lt, mode).lt = lt
  <2> USE <1>RequestType
  <2>1. directio[Host[t]] \in BOOLEAN
    BY Zenon, SetupTypes DEF IInv, ClientType
  <2> QED
    BY <2>1, NoGenType, ZenonT(30) DEF Request, Idle, ThreadState, Lease, AllTypes
\* Leases that only go exclude each other as before.
<1>FewerExclude. ASSUME IInv, setup' = setup,
           \A d \in Client : tab'[d].leases \subseteq tab[d].leases
    PROVE  LeasesExclude'
  <2> USE <1>FewerExclude
  <2>1. \A c \in Client : Others(c)' \subseteq Others(c)
    BY Zenon DEF Others
  <2>2. MH_WRITE' = MH_WRITE
    BY Zenon DEF MH_WRITE
  <2>3. \A c \in Client : \A S : /\ Meets(Others(c), S)' => Meets(Others(c), S)
                                 /\ Meets(tab[c].leases, S)' => Meets(tab[c].leases, S)
    BY <2>1 DEF Meets
  <2> QED
    BY Zenon, <2>1, <2>2, <2>3 DEF IInv, LeasesExclude
\* The size owner stays while there is an append lease.
<1>OwnerStays. ASSUME IInv, \A d \in Client : tab'[d].leases \subseteq tab[d].leases,
           \A d \in Client : "append" \in tab'[d].leases => size_owner' = size_owner
    PROVE  AppendOwnsSize'
  BY Zenon, <1>OwnerStays DEF IInv, AppendOwnsSize
\* A removal of leases from the table keeps what is said of the table.
<1>RemovalKeeps. ASSUME IInv, NEW c \in Client, NEW mask, sam_remove_lease(tab, c, mask),
           UNCHANGED <<setup, written, pages, unseen>>
    PROVE  /\ ServerType' /\ LeasesExclude' /\ AppendOwnsSize'
           /\ \A d \in Client : tab'[d].wt \subseteq tab[d].wt
  <2> USE <1>RemovalKeeps
  <2>1. tab \in [Client -> EntryType]
    BY Zenon DEF IInv, ServerType
  <2>2. /\ tab' \in [Client -> EntryType]
        /\ \A d \in Client \ {c} : tab'[d] = tab[d]
        /\ tab'[c].here = tab[c].here
        /\ tab'[c].leases = tab[c].leases \ mask
        /\ tab'[c].wt = tab[c].wt \ mask
        /\ tab'[c].gen = tab[c].gen /\ tab'[c].dio = tab[c].dio
        /\ tab[c] = Free => tab'[c] = Free
        /\ size_owner' \in Client \cup {None}
        /\ \A d \in Client : "append" \in tab'[d].leases => size_owner' = size_owner
    BY Zenon, <2>1, RemoveLease
  <2>3. \A d \in Client : /\ tab'[d].leases \subseteq tab[d].leases
                          /\ tab'[d].wt \subseteq tab[d].wt
    BY Zenon, <2>2
  <2>4. Cleared'
    BY Zenon, <2>2 DEF IInv, ServerType, Cleared
  <2> QED
    BY Zenon, <2>2, <2>3, <2>4, <1>FewerExclude, <1>OwnerStays DEF IInv, ServerType
\* A step that does not reach the server.
<1>ServerAlone. ASSUME IInv, UNCHANGED <<serverVars, setup>>
    PROVE  ServerType' /\ LeasesExclude' /\ AppendOwnsSize'
  <2> USE <1>ServerAlone
  <2>1. ServerType'
    BY Zenon DEF IInv, ServerType, Cleared, serverVars
  <2> QED
    BY Zenon, <2>1, <1>FewerExclude, <1>OwnerStays DEF serverVars
<1>ExcludePairs. ASSUME LeasesExclude, NEW c \in Client, NEW d \in Client, c # d
    PROVE  Excluding(tab[c].leases, tab[d].leases)
  <2> USE <1>ExcludePairs
  <2>1. tab[d].leases \subseteq Others(c)
    BY Zenon, OthersHave
  <2>2. \A S : Meets(tab[d].leases, S) => Meets(Others(c), S)
    BY <2>1 DEF Meets
  <2> QED
    BY Zenon, <2>1, <2>2 DEF LeasesExclude, Excluding
<1>PairsExclude. ASSUME \A c, d \in Client : c # d => Excluding(tab[c].leases, tab[d].leases)'
    PROVE  LeasesExclude'
  <2> USE <1>PairsExclude
  <2> SUFFICES ASSUME NEW c \in Client
               PROVE  (/\ "append" \in tab[c].leases => "append" \notin Others(c)
                       /\ ~MH_WRITE /\ Meets(tab[c].leases, {"write", "append"})
                             => ~Meets(Others(c), Data)
                       /\ "exclusive" \in tab[c].leases => ~Meets(Others(c), Data))'
    BY Zenon DEF LeasesExclude
  <2>1. \A l : l \in Others(c)' => \E d \in Client : c # d /\ l \in tab'[d].leases
    BY Zenon DEF Others
  <2>2. \A S : Meets(Others(c), S)' => \E d \in Client : c # d /\ Meets(tab'[d].leases, S)
    BY <2>1 DEF Meets
  <2> QED
    BY Zenon, <2>1, <2>2 DEF Excluding
\* Two clients of which one has no leases.
<1>EmptyExcludes. \A S : Excluding(S, {}) /\ Excluding({}, S)
  BY DEF Excluding, Meets
\* The leases that a request that does not have to wait brings exclude those of
\* the others, and theirs exclude them.
<1>GrantExcludes. ASSUME IInv, NEW c \in Client, NEW d \in Client, c # d, NEW lt \in Lease, NEW mode,
           lt # "truncate", lt = "mmap" => mode \in {"r", "w"},
           ~MustWait(c, lt, mode), tab[d].here,
           NEW G, G = {lt} \cup Implicit(c, lt, mode)
    PROVE  /\ Excluding(tab[c].leases \cup G, tab[d].leases)
           /\ Excluding(tab[d].leases, tab[c].leases \cup G)
  <2> USE <1>GrantExcludes
  <2>1. /\ Excluding(tab[c].leases, tab[d].leases)
        /\ Excluding(tab[d].leases, tab[c].leases)
    BY Zenon, <1>ExcludePairs DEF IInv
  <2>2. tab[d].leases \subseteq Others(c)
    BY Zenon, OthersHave
  <2>3. CASE lt = "read"
    <3>1. G = {"read"}
      BY <2>3 DEF Implicit
    <3>2. /\ "exclusive" \notin tab[d].leases
          /\ ~MH_WRITE => "write" \notin tab[d].leases /\ "append" \notin tab[d].leases
      BY <2>2, <2>3 DEF MustWait, ReadWaits, Meets
    <3> QED
      BY <2>1, <3>1, <3>2 DEF Excluding, Meets, Data
  <2>4. CASE lt = "write"
    <3>1. G = {"write"}
      BY <2>4 DEF Implicit
    <3>2. /\ "exclusive" \notin tab[d].leases
          /\ ~MH_WRITE => /\ "write" \notin tab[d].leases /\ "append" \notin tab[d].leases
                          /\ "read" \notin tab[d].leases
      BY <2>2, <2>4 DEF MustWait, WriteWaits, Meets
    <3> QED
      BY <2>1, <3>1, <3>2 DEF Excluding, Meets, Data
  <2>5. CASE lt = "append"
    <3>1. G = {"append", "write"}
      BY <2>5 DEF Implicit
    <3>2. /\ "exclusive" \notin tab[d].leases /\ "append" \notin tab[d].leases
          /\ ~MH_WRITE => "write" \notin tab[d].leases /\ "read" \notin tab[d].leases
      BY <2>2, <2>5 DEF MustWait, AppendWaits, Meets
    <3> QED
      BY <2>1, <3>1, <3>2 DEF Excluding, Meets, Data
  <2>6. CASE lt = "mmap"
    <3>1. \/ mode = "r" /\ G = {"mmap"} \cup {"read"}
          \/ mode = "w" /\ G = {"mmap"} \cup {"write"}
      <4>1. mode = "r" => Implicit(c, lt, mode) = {"read"}
        BY Zenon, <2>6 DEF Implicit
      <4>2. mode = "w" => Implicit(c, lt, mode) = {"write"}
        BY Zenon, <2>6 DEF Implicit
      <4>3. G = {"mmap"} \cup Implicit(c, lt, mode)
        BY Zenon, <2>6
      <4> QED
        BY Zenon, <2>6, <4>1, <4>2, <4>3
    <3>2. /\ "exclusive" \notin tab[d].leases
          /\ mode # "w" => "write" \notin tab[d].leases /\ "append" \notin tab[d].leases
          /\ mode = "w" /\ ~MH_WRITE => /\ "write" \notin tab[d].leases
                                        /\ "append" \notin tab[d].leases
                                        /\ "read" \notin tab[d].leases
      BY <2>2, <2>6 DEF MustWait, MmapWaits, Meets
    <3> QED
      BY <2>1, <3>1, <3>2 DEF Excluding, Meets, Data
  <2>7. CASE lt = "exclusive"
    <3>1. G = {"exclusive"}
      BY <2>7 DEF Implicit
    <3>2. /\ "write" \notin tab[d].leases /\ "append" \notin tab[d].leases
          /\ "read" \notin tab[d].leases
      BY <2>2, <2>7 DEF MustWait, ExclusiveWaits, Meets, Data
    <3> QED
      BY <2>1, <3>1, <3>2 DEF Excluding, Meets, Data
  <2>8. CASE lt \in {"stage", "open"}
    <3>1. G = {lt}
      BY <2>8 DEF Implicit
    <3> QED
      BY <2>1, <2>8, <3>1 DEF Excluding, Meets, Data
  <2> QED
    BY <2>3, <2>4, <2>5, <2>6, <2>7, <2>8 DEF Lease, AllTypes
\* After a grant the leases still exclude each other, and the append lease goes
\* with the size.
<1>GrantKeeps. ASSUME IInv, NEW t \in Thread, NEW c \in Client, NEW r \in ThreadState,
           NEW first \in BOOLEAN,
           setup' = setup, r.lt = "mmap" => r.mode \in {"r", "w"},
           IF first THEN \A d \in Client : ~tab[d].here
                    ELSE ~MustWait(c, r.lt, r.mode),
           Grant(t, c, r, first)
    PROVE  /\ ServerType' /\ LeasesExclude' /\ AppendOwnsSize'
           /\ \A d \in Client : tab'[d].wt \subseteq tab[d].wt
           /\ r.lt \notin tab'[c].wt
  <2> USE <1>GrantKeeps
  <2> DEFINE tb == GivenTable(c, r, first)
             G == Given(c, r)
  <2>1. /\ tb \in [Client -> EntryType]
        /\ tb[c].here /\ tb[c].leases = tab[c].leases \cup G
        /\ tb[c].wt = tab[c].wt \ {r.lt}
        /\ \A d \in Client \ {c} : /\ tb[d].leases = tab[d].leases
                                   /\ tb[d].wt = tab[d].wt
                                   /\ ~tb[d].here => tb[d] = Free
    <3>1. /\ tb \in [Client -> EntryType] /\ tb[c] = GivenEntry(c, r, first)
          /\ \A d \in Client \ {c} : /\ tb[d].leases = tab[d].leases
                                     /\ tb[d].wt = tab[d].wt
                                     /\ ~tb[d].here => tb[d] = Free
      BY GivenTableType
    <3>2. /\ GivenEntry(c, r, first).here
          /\ GivenEntry(c, r, first).leases = tab[c].leases \cup G
          /\ GivenEntry(c, r, first).wt = tab[c].wt \ {r.lt}
      BY GivenTypes
    <3> QED
      BY Zenon, <3>1, <3>2
  <2>2. /\ r.lt = "truncate" => sam_remove_lease(tb, c, {"truncate"})
        /\ r.lt # "truncate" =>
             tab' = tb /\ size_owner' = IF r.lt = "append" THEN c ELSE size_owner
        /\ written' \in BOOLEAN
        /\ pages' \subseteq pages \cup {c} /\ unseen' \subseteq unseen \cup pages
    BY Zenon, GrantParts
  <2>3. r.lt \in Lease /\ G = {r.lt} \cup Implicit(c, r.lt, r.mode)
    BY Zenon DEF ThreadState, Lease, Given
  <2> HIDE DEF tb, G
  <2>4. pages' \subseteq Client /\ unseen' \subseteq Client
    BY <2>2 DEF IInv, ServerType
  <2>5. CASE r.lt = "truncate"
    <3>1. G = {"truncate"}
      BY <2>3, <2>5 DEF Implicit
    <3>2. /\ tab' \in [Client -> EntryType]
          /\ \A d \in Client \ {c} : tab'[d] = tb[d]
          /\ tab'[c].here = tb[c].here
          /\ tab'[c].leases = tb[c].leases \ {"truncate"}
          /\ tab'[c].wt = tb[c].wt \ {"truncate"}
          /\ size_owner' \in Client \cup {None}
          /\ \A d \in Client : "append" \in tab'[d].leases => size_owner' = size_owner
      <4>1. sam_remove_lease(tb, c, {"truncate"})
        BY Zenon, <2>2, <2>5
      <4>2. tb \in [Client -> EntryType]
        BY Zenon, <2>1
      <4> QED
        BY <4>1, <4>2, RemoveLease
    <3>3. tab'[c].leases \subseteq tab[c].leases
      BY <2>1, <3>1, <3>2
    <3>4. \A d \in Client : tab'[d].leases \subseteq tab[d].leases
      BY Zenon, <2>1, <3>2, <3>3
    <3>5. (\A d \in Client : tab'[d].wt \subseteq tab[d].wt) /\ r.lt \notin tab'[c].wt
      BY <2>1, <2>5, <3>2
    <3>6. Cleared'
      BY Zenon, <2>1, <3>2 DEF Cleared
    <3> QED
      BY Zenon, <2>2, <2>4, <3>2, <3>4, <3>5, <3>6, <1>FewerExclude, <1>OwnerStays DEF ServerType
  <2>6. CASE r.lt # "truncate"
    <3>1. tab' = tb /\ size_owner' = IF r.lt = "append" THEN c ELSE size_owner
      BY Zenon, <2>2, <2>6
    <3>2. ASSUME NEW d \in Client \ {c}
          PROVE  /\ Excluding(tab[c].leases \cup G, tab[d].leases)
                 /\ Excluding(tab[d].leases, tab[c].leases \cup G)
      <4>1. CASE ~tab[d].here
        <5>1. tab[d].leases = {}
          BY Zenon, <4>1, FreeType DEF IInv, ServerType, Cleared
        <5> QED
          BY Zenon, <5>1, <1>EmptyExcludes
      <4>2. CASE tab[d].here
        BY Zenon, <2>3, <2>6, <4>2, <1>GrantExcludes
      <4> QED
        BY Zenon, <4>1, <4>2
    <3>3. \A x, y \in Client : x # y => Excluding(tab[x].leases, tab[y].leases)
      BY Zenon, <1>ExcludePairs DEF IInv
    <3>4. \A x, y \in Client : x # y => Excluding(tab'[x].leases, tab'[y].leases)
      <4>1. tab'[c].leases = tab[c].leases \cup G
            /\ \A d \in Client \ {c} : tab'[d].leases = tab[d].leases
        BY Zenon, <2>1, <3>1
      <4> SUFFICES ASSUME NEW x \in Client, NEW y \in Client, x # y
                   PROVE  Excluding(tab'[x].leases, tab'[y].leases)
        BY Zenon
      <4>2. CASE x = c
        BY Zenon, <3>2, <4>1, <4>2
      <4>3. CASE y = c
        BY Zenon, <3>2, <4>1, <4>3
      <4>4. CASE x # c /\ y # c
        <5>1. x \in Client \ {c} /\ y \in Client \ {c}
          BY Zenon, <4>4
        <5> QED
          BY Zenon, <3>3, <4>1, <5>1
      <4> QED
        BY Zenon, <4>2, <4>3, <4>4
    <3>5. LeasesExclude'
      <4>1. \A x, y \in Client : x # y => Excluding(tab[x].leases, tab[y].leases)'
        BY Zenon, <3>4 DEF Excluding, MH_WRITE
      <4> QED
        BY Zenon, <4>1, <1>PairsExclude
    <3>6. AppendOwnsSize'
      <4>1. CASE r.lt = "append"
        <5>1. "append" \in tab'[c].leases
          BY Zenon, <2>1, <2>3, <3>1, <4>1
        <5> QED
          BY Zenon, <3>1, <3>4, <4>1, <5>1 DEF AppendOwnsSize, Excluding
      <4>2. CASE r.lt # "append"
        <5>1. "append" \notin G
          BY <2>3, <4>2 DEF Implicit
        <5> QED
          BY Zenon, <2>1, <3>1, <4>2, <5>1 DEF IInv, AppendOwnsSize
      <4> QED
        BY Zenon, <4>1, <4>2
    <3>7. size_owner' \in Client \cup {None}
      BY Zenon, <3>1 DEF IInv, ServerType
    <3>8. (\A d \in Client : tab'[d].wt \subseteq tab[d].wt) /\ r.lt \notin tab'[c].wt
      BY Zenon, <2>1, <3>1
    <3>9. Cleared'
      BY Zenon, <2>1, <3>1 DEF Cleared
    <3> QED
      BY Zenon, <2>1, <2>2, <2>4, <3>1, <3>5, <3>6, <3>7, <3>8, <3>9 DEF ServerType
  <2> QED
    BY Zenon, <2>5, <2>6
\* A step of one thread.
<1>OneThread. ASSUME IInv, NEW t \in Thread, NEW x \in ThreadState, th' = [th EXCEPT ![t] = x],
           x.st = "wait" => x.lt # "open",
           x.st \in {"get", "wait"} /\ x.lt = "mmap" => x.mode \in {"r", "w"}
    PROVE  Waiters' /\ MmapModes' /\ th' \in [Thread -> ThreadState]
  <2> USE <1>OneThread
  <2>1. /\ th' \in [Thread -> ThreadState] /\ th'[t] = x
        /\ \A u \in Thread \ {t} : th'[u] = th[u]
    BY Zenon DEF IInv, ThreadsType
  <2>2. MmapModes'
    BY Zenon, <2>1 DEF IInv, MmapModes
  <2>3. Waiters'
    BY Zenon, <2>1 DEF IInv, Waiters
  <2> QED
    BY Zenon, <2>1, <2>2, <2>3
<1>GrantedKeeps. ASSUME IInv, NEW t \in Thread, NEW first \in BOOLEAN, setup' = setup,
           th[t].st = "get",
           IF first THEN \A d \in Client : ~tab[d].here
                    ELSE ~MustWait(Host[t], th[t].lt, th[t].mode),
           Grant(t, Host[t], th[t], first),
           UNCHANGED <<clientVars, has, notice, wake, bounds>>
    PROVE  IInv'
  <2> USE <1>GrantedKeeps
  <2> DEFINE c == Host[t]
             r == th[t]
  <2>1. c \in Client /\ r \in ThreadState /\ (r.lt = "mmap" => r.mode \in {"r", "w"})
    BY Zenon, SetupTypes DEF IInv, ThreadsType, MmapModes
  <2>2. /\ ServerType' /\ LeasesExclude' /\ AppendOwnsSize'
        /\ \A d \in Client : tab'[d].wt \subseteq tab[d].wt
        /\ r.lt \notin tab'[c].wt
    BY Zenon, <2>1, <1>GrantKeeps
  <2>3. th' = [th EXCEPT ![t] = GivenThread(c, r, first)] /\ UNCHANGED <<rel, callout>>
    BY GrantParts
  <2>4. GivenThread(c, r, first) \in ThreadState /\ GivenThread(c, r, first).st = "got"
    BY <2>1, GivenTypes
  <2>5. Waiters' /\ MmapModes' /\ th' \in [Thread -> ThreadState]
    BY Zenon, <2>2, <2>3, <2>4, <1>OneThread
  <2>6. ThreadsType'
    BY Zenon, <2>5 DEF IInv, ThreadsType, bounds
  <2>7. NetType' /\ ClientType'
    BY Zenon, <2>3 DEF IInv, NetType, ClientType, clientVars
  <2> QED
    BY Zenon, <2>2, <2>5, <2>6, <2>7 DEF IInv
<1>QueuedKeeps. ASSUME IInv, NEW t \in Thread, NEW paged, paged \subseteq Client, setup' = setup,
           th[t].st = "get", th[t].lt # "open", Queue(t, Host[t], th[t], paged),
           UNCHANGED <<clientVars, has, notice, wake, bounds>>
    PROVE  IInv'
  <2> USE <1>QueuedKeeps
  <2> DEFINE c == Host[t]
             r == th[t]
             e == [Reported(c, r) EXCEPT !.wt = @ \cup {r.lt}]
             x == [r EXCEPT !.st = "wait"]
  <2>1. c \in Client /\ r \in ThreadState /\ r.lt \in Lease
        /\ (r.lt = "mmap" => r.mode \in {"r", "w"})
    <3>1. c \in Client /\ r \in ThreadState /\ (r.lt = "mmap" => r.mode \in {"r", "w"})
      BY Zenon, SetupTypes DEF IInv, ThreadsType, MmapModes
    <3> QED
      BY <3>1 DEF ThreadState, Lease
  <2>2. /\ Reported(c, r) \in EntryType /\ Reported(c, r).here
        /\ Reported(c, r).leases = tab[c].leases /\ Reported(c, r).wt = tab[c].wt
    BY Zenon, <2>1, ReportedType
  <2>3. e \in EntryType /\ e.here /\ e.leases = tab[c].leases /\ e.wt = tab[c].wt \cup {r.lt}
    BY <2>1, <2>2 DEF EntryType
  <2>4. /\ tab' = [tab EXCEPT ![c] = e] /\ th' = [th EXCEPT ![t] = x]
        /\ callout' = callout \cup paged
        /\ UNCHANGED <<size_owner, written, rel, pages, unseen>>
    BY Zenon DEF Queue
  <2>5. x \in ThreadState /\ x.st = "wait" /\ x.lt = r.lt /\ x.mode = r.mode
    BY <2>1 DEF ThreadState
  <2> HIDE DEF e, x
  <2>6. /\ tab' \in [Client -> EntryType] /\ tab'[c] = e
        /\ \A d \in Client \ {c} : tab'[d] = tab[d]
    BY Zenon, <2>1, <2>3, <2>4 DEF IInv, ServerType
  <2>7. \A d \in Client : tab'[d].leases \subseteq tab[d].leases
    BY Zenon, <2>3, <2>6
  <2>8. ServerType' /\ LeasesExclude' /\ AppendOwnsSize'
    <3>1. Cleared'
      BY Zenon, <2>3, <2>6 DEF IInv, ServerType, Cleared
    <3> QED
      BY Zenon, <2>4, <2>6, <2>7, <3>1, <1>FewerExclude, <1>OwnerStays DEF IInv, ServerType
  <2>9. /\ th' \in [Thread -> ThreadState] /\ th'[t] = x
        /\ \A u \in Thread \ {t} : th'[u] = th[u]
    BY Zenon, <2>4, <2>5 DEF IInv, ThreadsType
  <2>10. MmapModes'
    BY Zenon, <2>1, <2>5, <2>9 DEF IInv, MmapModes
  <2>11. Waiters'
    BY Zenon, <2>5, <2>9 DEF IInv, Waiters
  <2>12. ThreadsType'
    BY Zenon, <2>9 DEF IInv, ThreadsType, bounds
  <2>13. NetType' /\ ClientType'
    BY Zenon, <2>4 DEF IInv, NetType, ClientType, clientVars
  <2> QED
    BY Zenon, <2>8, <2>10, <2>11, <2>12, <2>13 DEF IInv
<1>ServeGetKeeps. ASSUME IInv, NEW t \in Thread, ServeGet(t), setup' = setup PROVE IInv'
  <2> USE <1>ServeGetKeeps
  <2> DEFINE c == Host[t]
             r == th[t]
             first == \A d \in Client : ~tab[d].here
             paged == IF ~MustWait(c, r.lt, r.mode) /\ Shares(c, r.lt)
                      THEN sam_callout_directio(c) ELSE {}
  <2>1. /\ r.st = "get"
        /\ UNCHANGED <<clientVars, has, notice, wake, bounds>>
        /\ \/ Queue(t, c, r, paged) /\ (MustWait(c, r.lt, r.mode) \/ Shares(c, r.lt))
           \/ first /\ Grant(t, c, r, first)
           \/ ~first /\ ~MustWait(c, r.lt, r.mode) /\ Grant(t, c, r, first)
    BY Zenon DEF ServeGet
  <2>2. paged \subseteq Client
    BY Zenon DEF sam_callout_directio
  <2>3. first \in BOOLEAN
    BY Zenon
  <2> HIDE DEF first, paged
  <2>4. CASE Queue(t, c, r, paged) /\ (MustWait(c, r.lt, r.mode) \/ Shares(c, r.lt))
    <3>1. r.lt # "open"
      BY <2>4 DEF MustWait, Shares
    <3> QED
      BY Zenon, <2>1, <2>2, <2>4, <3>1, <1>QueuedKeeps
  <2>5. CASE first /\ Grant(t, c, r, first)
    <3>1. \A d \in Client : ~tab[d].here
      BY Zenon, <2>5 DEF first
    <3> QED
      BY Zenon, <2>1, <2>3, <2>5, <3>1, <1>GrantedKeeps
  <2>6. CASE ~first /\ ~MustWait(c, r.lt, r.mode) /\ Grant(t, c, r, first)
    BY Zenon, <2>1, <2>3, <2>6, <1>GrantedKeeps
  <2> QED
    BY Zenon, <2>1, <2>4, <2>5, <2>6
\* A step of a thread on its host.
<1>HostSide. ASSUME IInv, NEW t \in Thread, NEW x \in ThreadState, th' = [th EXCEPT ![t] = x],
           UNCHANGED <<serverVars, setup>>, x.st # "wait",
           x.st \in {"get", "wait"} /\ x.lt = "mmap" => x.mode \in {"r", "w"},
           ClientType', NetType', has' \in [Thread -> SUBSET Held],
           gets' \in 0..setup.gets, expires' \in 0..setup.expires
    PROVE  IInv'
  <2> USE <1>HostSide
  <2>1. ServerType' /\ LeasesExclude' /\ AppendOwnsSize'
    BY Zenon, <1>ServerAlone
  <2>2. Waiters' /\ MmapModes' /\ th' \in [Thread -> ThreadState]
    BY Zenon, <1>OneThread
  <2>3. ThreadsType'
    BY Zenon, <2>2 DEF IInv, ThreadsType, Held
  <2> QED
    BY Zenon, <2>1, <2>2, <2>3 DEF IInv
\* A step that changes no request.
<1>NoRequest. ASSUME IInv, th' = th, UNCHANGED <<serverVars, setup>>,
           ClientType', NetType', has' \in [Thread -> SUBSET Held],
           gets' \in 0..setup.gets, expires' \in 0..setup.expires
    PROVE  IInv'
  <2> USE <1>NoRequest
  <2>1. ServerType' /\ LeasesExclude' /\ AppendOwnsSize'
    BY Zenon, <1>ServerAlone
  <2>2. Waiters'
    BY Zenon DEF IInv, Waiters
  <2>3. ThreadsType' /\ MmapModes'
    BY Zenon DEF IInv, ThreadsType, Held, MmapModes
  <2> QED
    BY Zenon, <2>1, <2>2, <2>3 DEF IInv
\* The parts that most steps leave alone.
<1>Kept. ASSUME IInv
    PROVE  /\ UNCHANGED clientVars => ClientType'
           /\ UNCHANGED netVars => NetType'
           /\ UNCHANGED has => has' \in [Thread -> SUBSET Held]
           /\ UNCHANGED setup /\ UNCHANGED gets => gets' \in 0..setup.gets
           /\ UNCHANGED setup /\ UNCHANGED expires => expires' \in 0..setup.expires
  BY Zenon, <1>Kept DEF IInv, ClientType, NetType, ThreadsType, clientVars, netVars, Held
<1>SendGetType. ASSUME IInv, NEW t \in Thread, NEW lt \in AllTypes,
           NEW mode \in {"r", "w", "up", "down", "release"}, SendGet(t, lt, mode)
    PROVE  /\ th' = [th EXCEPT ![t] = Request(t, lt, mode)]
           /\ gets' \in 0..setup.gets
           /\ Request(t, lt, mode) \in ThreadState
           /\ Request(t, lt, mode).lt = lt /\ Request(t, lt, mode).mode = mode
  <2> USE <1>SendGetType
  <2>1. gets' \in 0..setup.gets
    <3>1. /\ gets \in 0..setup.gets /\ setup.gets \in Nat
          /\ gets < setup.gets /\ gets' = gets + 1
      BY Zenon, SetupTypes DEF SendGet, IInv, ThreadsType
    <3> QED
      BY <3>1
  <2>2. Request(t, lt, mode).mode = mode
    BY DEF Request, Idle
  <2> QED
    BY Zenon, <2>1, <2>2, <1>RequestType DEF SendGet
\* A thread that was idle sends a request; what it holds may change.
<1>RequestKeeps. ASSUME IInv, NEW t \in Thread, NEW lt \in AllTypes,
           NEW mode \in {"r", "w", "up", "down", "release"}, SendGet(t, lt, mode),
           lt = "mmap" => mode \in {"r", "w"}, th[t].st = "idle",
           UNCHANGED <<serverVars, setup, netVars, expires>>, ClientType',
           has' \in [Thread -> SUBSET Held]
    PROVE  IInv'
  <2> USE <1>RequestKeeps
  <2>1. /\ th' = [th EXCEPT ![t] = Request(t, lt, mode)]
        /\ gets' \in 0..setup.gets
        /\ Request(t, lt, mode) \in ThreadState
        /\ Request(t, lt, mode).lt = lt /\ Request(t, lt, mode).mode = mode
    BY <1>SendGetType
  <2>2. NetType' /\ expires' \in 0..setup.expires
    BY Zenon, <1>Kept
  <2>3. Request(t, lt, mode).st # "wait"
    BY Zenon, <1>RequestType
  <2> QED
    BY Zenon, <2>1, <2>2, <2>3, <1>HostSide
\* The states of a thread that is not asking.
<1>QuietTypes. ASSUME NEW st \in {"idle", "io", "close", "rm", "unmap"}, NEW lt \in AllTypes
    PROVE  /\ [Idle EXCEPT !.st = st, !.lt = lt] \in ThreadState
           /\ [Idle EXCEPT !.st = st, !.lt = lt].st = st
  BY IdleType, Zenon DEF ThreadState
<1>RemoveTypes. ASSUME NEW lt \in AllTypes, NEW mask \in SUBSET Lease, NEW gens \in [Lease -> Nat]
    PROVE  /\ [Idle EXCEPT !.st = "rm", !.lt = lt, !.mask = mask, !.gens = gens]
                \in ThreadState
           /\ [Idle EXCEPT !.st = "rm", !.lt = lt, !.mask = mask, !.gens = gens].st = "rm"
  BY IdleType, Zenon DEF ThreadState
\* A thread goes to a state in which it does not ask.
<1>QuietKeeps. ASSUME IInv, NEW t \in Thread, NEW x \in ThreadState, th' = [th EXCEPT ![t] = x],
           x.st \notin {"get", "wait"},
           UNCHANGED <<serverVars, setup, bounds>>, ClientType', NetType',
           has' \in [Thread -> SUBSET Held]
    PROVE  IInv'
  <2> USE <1>QuietKeeps
  <2>1. gets' \in 0..setup.gets /\ expires' \in 0..setup.expires
    BY Zenon, <1>Kept DEF bounds
  <2> QED
    BY Zenon, <2>1, <1>HostSide
<1>StartIOKeeps. ASSUME IInv, NEW t \in Thread, NEW lt \in Data, StartIO(t, lt), setup' = setup
    PROVE  IInv'
  <2> USE <1>StartIOKeeps
  <2>1. lt \in AllTypes /\ lt # "mmap" /\ Host[t] \in Client
    BY SetupTypes DEF Data, AllTypes
  <2>2. ClientType'
    <3> DEFINE h == cl_leases[Host[t]] \cup
                      (IF lt = "write" /\ "append" \in cl_leases[Host[t]] THEN {"write"} ELSE {})
    <3>1. cl_leases' = [cl_leases EXCEPT ![Host[t]] = h]
      BY Zenon DEF StartIO
    <3>2. h \in SUBSET Lease
      BY <2>1 DEF IInv, ClientType, Lease, AllTypes
    <3> HIDE DEF h
    <3> QED
      BY Zenon, <2>1, <3>1, <3>2 DEF StartIO, IInv, ClientType
  <2>3. /\ UNCHANGED <<serverVars, netVars, has, expires>>
        /\ th[t].st = "idle"
    BY Zenon DEF StartIO
  <2>4. CASE th' = [th EXCEPT ![t] = [Idle EXCEPT !.st = "io", !.lt = lt]] /\ UNCHANGED gets
    <3>1. [Idle EXCEPT !.st = "io", !.lt = lt] \in ThreadState
          /\ [Idle EXCEPT !.st = "io", !.lt = lt].st = "io"
      BY Zenon, <2>1, <1>QuietTypes
    <3> QED
      BY Zenon, <2>2, <2>3, <2>4, <3>1, <1>QuietKeeps, <1>Kept DEF bounds
  <2>5. CASE SendGet(t, lt, "r")
    BY Zenon, <2>1, <2>2, <2>3, <2>5, <1>RequestKeeps, <1>Kept
  <2> QED
    BY Zenon, <2>4, <2>5 DEF StartIO
\* EndIO and UnmapDone.
<1>EndKeeps. ASSUME IInv, NEW t \in Thread, EndIO(t) \/ UnmapDone(t), setup' = setup PROVE IInv'
  <2> USE <1>EndKeeps
  <2>1. /\ th' = [th EXCEPT ![t] = Idle] /\ th[t].st \in {"io", "unmap"}
        /\ UNCHANGED <<serverVars, clientVars, has, netVars, bounds>>
    BY Zenon DEF EndIO, UnmapDone
  <2> QED
    BY Zenon, <2>1, IdleType, <1>QuietKeeps, <1>Kept
<1>OpenKeeps. ASSUME IInv, NEW t \in Thread, NEW mode \in {"r", "w"}, Open(t, mode) \/ Mmap(t, mode),
           setup' = setup
    PROVE  IInv'
  <2> USE <1>OpenKeeps
  <2>1. /\ th[t].st = "idle" /\ UNCHANGED <<serverVars, clientVars, netVars, expires>>
        /\ \/ has' = [has EXCEPT ![t] = @ \cup {"open"}]
           \/ has' = [has EXCEPT ![t] = @ \cup {"mmap"}]
        /\ \/ SendGet(t, "open", mode)
           \/ SendGet(t, "mmap", mode)
           \/ UNCHANGED <<th, gets>>
    BY Zenon DEF Open, Mmap
  <2>2. has' \in [Thread -> SUBSET Held]
    BY <2>1 DEF IInv, ThreadsType, Held
  <2>3. CASE UNCHANGED <<th, gets>>
    BY Zenon, <2>1, <2>2, <2>3, <1>NoRequest, <1>Kept
  <2>4. CASE SendGet(t, "open", mode) \/ SendGet(t, "mmap", mode)
    BY Zenon, <2>1, <2>2, <2>4, <1>RequestKeeps, <1>Kept DEF AllTypes
  <2> QED
    BY Zenon, <2>1, <2>3, <2>4
\* Truncate, sam_fseq_ord and sam_setup_stage.
<1>AskKeeps. ASSUME IInv, NEW t \in Thread, setup' = setup,
           \/ \E mode \in {"up", "down", "release"} : Truncate(t, mode)
           \/ sam_fseq_ord(t) \/ sam_setup_stage(t)
    PROVE  IInv'
  <2> USE <1>AskKeeps
  <2>1. PICK mode \in {"r", "up", "down", "release"}, lt \in {"truncate", "exclusive", "stage"} :
          /\ th[t].st = "idle" /\ SendGet(t, lt, mode)
          /\ UNCHANGED <<serverVars, clientVars, has, netVars, expires>>
    BY Zenon DEF Truncate, sam_fseq_ord, sam_setup_stage
  <2> QED
    BY Zenon, <2>1, <1>RequestKeeps, <1>Kept DEF AllTypes
<1>InterruptedKeeps. ASSUME IInv, NEW t \in Thread, Interrupted(t), setup' = setup PROVE IInv'
  <2> USE <1>InterruptedKeeps
  <2>1. /\ th' = [th EXCEPT ![t] = Idle]
        /\ has' = [has EXCEPT ![t] = has[t] \ ({th[t].lt} \cap {"mmap"})]
        /\ UNCHANGED <<serverVars, clientVars, netVars, bounds>>
    BY Zenon DEF Interrupted
  <2>2. has' \in [Thread -> SUBSET Held]
    BY Zenon, <2>1 DEF IInv, ThreadsType, Held
  <2> QED
    BY Zenon, <2>1, <2>2, IdleType, <1>QuietKeeps, <1>Kept
<1>ReissueKeeps. ASSUME IInv, NEW t \in Thread, Reissue(t), setup' = setup PROVE IInv'
  <2> USE <1>ReissueKeeps
  <2>1. /\ th[t].st = "wait" /\ UNCHANGED <<serverVars, clientVars, has, netVars, bounds>>
        /\ th' = [th EXCEPT ![t] = Request(t, th[t].lt, th[t].mode)]
    BY Zenon DEF Reissue
  <2>2. th[t] \in ThreadState /\ th[t].lt \in AllTypes
        /\ th[t].mode \in {"r", "w", "up", "down", "release"}
    BY DEF IInv, ThreadsType, ThreadState
  <2>3. /\ Request(t, th[t].lt, th[t].mode) \in ThreadState
        /\ Request(t, th[t].lt, th[t].mode).st = "get"
        /\ Request(t, th[t].lt, th[t].mode).lt = th[t].lt
    BY ZenonT(30), <2>2, <1>RequestType
  <2>4. Request(t, th[t].lt, th[t].mode).mode = th[t].mode
    BY DEF Request, Idle
  <2>5. th[t].lt = "mmap" => th[t].mode \in {"r", "w"}
    BY Zenon, <2>1 DEF IInv, MmapModes
  <2>6. gets' \in 0..setup.gets /\ expires' \in 0..setup.expires
    BY Zenon, <2>1, <1>Kept DEF bounds
  <2> QED
    BY Zenon, <2>1, <2>3, <2>4, <2>5, <2>6, <1>HostSide, <1>Kept
<1>RecordKeeps. ASSUME IInv, NEW t \in Thread, RecordLease(t), setup' = setup PROVE IInv'
  <2> USE <1>RecordKeeps
  <2> DEFINE c == Host[t]
             r == th[t]
             G == r.mask \ {"truncate", "stage"}
             g == [l \in Lease |-> IF /\ l \in G
                                      /\ l \notin cl_leases[c] \/ r.gens[l] > cl_leasegen[c][l]
                                   THEN r.gens[l] ELSE cl_leasegen[c][l]]
             x == IF r.lt \in Data THEN [Idle EXCEPT !.st = "io", !.lt = r.lt] ELSE Idle
  <2>1. /\ r.st = "got" /\ directio' = [directio EXCEPT ![c] = directio[c] \/ r.dio]
        /\ cl_leases' = [cl_leases EXCEPT ![c] = cl_leases[c] \cup G]
        /\ cl_leasegen' = [cl_leasegen EXCEPT ![c] = g]
        /\ th' = [th EXCEPT ![t] = x]
        /\ has' = [has EXCEPT ![t] = has[t] \cup ({r.lt} \cap {"exclusive", "stage"})]
        /\ UNCHANGED <<serverVars, netVars, bounds>>
    BY Zenon DEF RecordLease
  <2>2. c \in Client /\ r \in ThreadState
    BY Zenon, SetupTypes DEF IInv, ThreadsType
  <2>3. r.mask \subseteq Lease /\ r.gens \in [Lease -> Nat] /\ r.lt \in AllTypes
        /\ cl_leases[c] \subseteq Lease /\ cl_leasegen[c] \in [Lease -> Nat]
    BY <2>2 DEF ThreadState, IInv, ClientType
  <2>4. g \in [Lease -> Nat] /\ cl_leases[c] \cup G \in SUBSET Lease
    BY <2>3
  <2>5. x \in ThreadState /\ x.st \in {"io", "idle"}
    BY Zenon, <2>3, IdleType, <1>QuietTypes
  <2>6. has[t] \cup ({r.lt} \cap {"exclusive", "stage"}) \in SUBSET Held
    BY DEF IInv, ThreadsType, Held
  <2> HIDE DEF c, r, G, g, x
  <2>7. has' \in [Thread -> SUBSET Held]
    BY Zenon, <2>1, <2>6 DEF IInv, ThreadsType, Held
  <2>8. ClientType'
    <3>1. (directio[c] \/ r.dio) \in BOOLEAN
      BY Zenon
    <3> QED
      BY Zenon, <2>1, <2>2, <2>4, <3>1 DEF IInv, ClientType
  <2> QED
    BY Zenon, <2>1, <2>5, <2>7, <2>8, <1>QuietKeeps, <1>Kept DEF r
<1>CloseKeeps. ASSUME IInv, NEW t \in Thread, Close(t), setup' = setup PROVE IInv'
  <2> USE <1>CloseKeeps
  <2> DEFINE c == Host[t]
             x == [th[t] EXCEPT !.st = "close"]
  <2>1. /\ th[t].st = "idle" /\ th' = [th EXCEPT ![t] = x]
        /\ has' = [has EXCEPT ![t] = has[t] \ {"open"}]
        /\ directio' = [directio EXCEPT ![c] = directio[c] /\ Opens(c) # {t}]
        /\ UNCHANGED <<serverVars, cl_leases, cl_leasegen, netVars, bounds>>
    BY Zenon DEF Close
  <2>2. c \in Client /\ th[t] \in ThreadState
    BY Zenon, SetupTypes DEF IInv, ThreadsType
  <2>3. x \in ThreadState /\ x.st = "close"
    BY <2>2 DEF ThreadState
  <2> HIDE DEF x
  <2>4. has' \in [Thread -> SUBSET Held]
    BY <2>1 DEF IInv, ThreadsType, Held
  <2>5. ClientType'
    <3>1. (directio[c] /\ Opens(c) # {t}) \in BOOLEAN
      BY Zenon
    <3> QED
      BY Zenon, <2>1, <2>2, <3>1 DEF IInv, ClientType
  <2> QED
    BY Zenon, <2>1, <2>3, <2>4, <2>5, <1>QuietKeeps, <1>Kept
\* The leases of a client and their generations.
<1>LeaseTypes. ASSUME IInv, NEW c \in Client
    PROVE  /\ cl_leases[c] \in SUBSET Lease /\ cl_leasegen[c] \in [Lease -> Nat]
           /\ CL_CLOSE \in SUBSET Lease
  BY Zenon, <1>LeaseTypes DEF IInv, ClientType, CL_CLOSE
<1>FewerLeases. ASSUME IInv, NEW c \in Client, NEW S \in SUBSET Lease,
           cl_leases' = [cl_leases EXCEPT ![c] = S],
           UNCHANGED <<cl_leasegen, directio>>
    PROVE  ClientType'
  BY Zenon, <1>FewerLeases DEF IInv, ClientType
<1>LastCloseKeeps. ASSUME IInv, NEW t \in Thread, LastClose(t), setup' = setup PROVE IInv'
  <2> USE <1>LastCloseKeeps
  <2> DEFINE c == Host[t]
  <2>1. /\ th[t].st = "close"
        /\ UNCHANGED <<serverVars, cl_leasegen, directio, has, netVars, bounds>>
        /\ \/ RemoveAll(t, c, "open")
           \/ th' = [th EXCEPT ![t] = Idle] /\ UNCHANGED cl_leases
    BY Zenon DEF LastClose
  <2>2. c \in Client
    BY Zenon, SetupTypes
  <2>3. CASE RemoveAll(t, c, "open")
    <3> DEFINE x == [Idle EXCEPT !.st = "rm", !.lt = "open", !.mask = CL_CLOSE,
                                 !.gens = cl_leasegen[c]]
    <3>1. th' = [th EXCEPT ![t] = x] /\ cl_leases' = [cl_leases EXCEPT ![c] = {}]
      BY Zenon, <2>3 DEF RemoveAll, Remove
    <3>2. x \in ThreadState /\ x.st = "rm"
      <4>1. /\ "open" \in AllTypes /\ CL_CLOSE \in SUBSET Lease
            /\ cl_leasegen[c] \in [Lease -> Nat]
        BY Zenon, <2>2, <1>LeaseTypes DEF AllTypes
      <4> QED
        BY <4>1, <1>RemoveTypes, Zenon
    <3>3. ClientType'
      <4>1. {} \in SUBSET Lease
        OBVIOUS
      <4> QED
        BY Zenon, <2>1, <2>2, <3>1, <4>1, <1>FewerLeases
    <3> HIDE DEF x
    <3> QED
      BY Zenon, <2>1, <3>1, <3>2, <3>3, <1>QuietKeeps, <1>Kept
  <2>4. CASE th' = [th EXCEPT ![t] = Idle] /\ UNCHANGED cl_leases
    BY Zenon, <2>1, <2>4, IdleType, <1>QuietKeeps, <1>Kept DEF clientVars
  <2> QED
    BY Zenon, <2>1, <2>3, <2>4
<1>UnmapKeeps. ASSUME IInv, NEW t \in Thread, Unmap(t), setup' = setup PROVE IInv'
  <2> USE <1>UnmapKeeps
  <2> DEFINE c == Host[t]
  <2>1. /\ th[t].st = "idle" /\ has' = [has EXCEPT ![t] = has[t] \ {"mmap"}]
        /\ UNCHANGED <<serverVars, cl_leasegen, directio, notice, callout, wake, bounds>>
    BY Zenon DEF Unmap
  <2>2. has' \in [Thread -> SUBSET Held] /\ c \in Client /\ "mmap" \in AllTypes
    <3>1. has[t] \ {"mmap"} \in SUBSET Held
      BY DEF IInv, ThreadsType, Held
    <3> QED
      BY Zenon, <2>1, <3>1, SetupTypes DEF IInv, ThreadsType, Held, AllTypes
  <2>3. CASE UNCHANGED <<th, cl_leases, rel>>
    BY Zenon, <2>1, <2>2, <2>3, <1>NoRequest, <1>Kept DEF clientVars, netVars, bounds
  <2>4. CASE RemoveAll(t, c, "mmap") /\ UNCHANGED rel
    <3> DEFINE x == [Idle EXCEPT !.st = "rm", !.lt = "mmap", !.mask = CL_CLOSE,
                                 !.gens = cl_leasegen[c]]
    <3>1. th' = [th EXCEPT ![t] = x] /\ cl_leases' = [cl_leases EXCEPT ![c] = {}]
      BY Zenon, <2>4 DEF RemoveAll, Remove
    <3>2. x \in ThreadState /\ x.st = "rm"
      <4>1. CL_CLOSE \in SUBSET Lease /\ cl_leasegen[c] \in [Lease -> Nat]
        BY Zenon, <2>2, <1>LeaseTypes
      <4> QED
        BY <2>2, <4>1, <1>RemoveTypes, Zenon
    <3>3. ClientType'
      <4>1. {} \in SUBSET Lease
        OBVIOUS
      <4> QED
        BY Zenon, <2>1, <2>2, <3>1, <4>1, <1>FewerLeases
    <3> HIDE DEF x
    <3> QED
      BY Zenon, <2>1, <2>2, <2>4, <3>1, <3>2, <3>3, <1>QuietKeeps, <1>Kept DEF netVars
  <2>5. CASE /\ cl_leases' = [cl_leases EXCEPT ![c] = cl_leases[c] \ {"mmap"}]
             /\ rel' = rel \cup {[c |-> c, mask |-> {"mmap"}, sent |-> TRUE,
                                  gens |-> cl_leasegen[c]]}
             /\ th' = [th EXCEPT ![t] = [Idle EXCEPT !.st = "unmap", !.lt = "mmap"]]
    <3>1. /\ [Idle EXCEPT !.st = "unmap", !.lt = "mmap"] \in ThreadState
          /\ [Idle EXCEPT !.st = "unmap", !.lt = "mmap"].st = "unmap"
      BY Zenon, <2>2, <1>QuietTypes
    <3>2. cl_leases[c] \ {"mmap"} \in SUBSET Lease /\ cl_leasegen[c] \in [Lease -> Nat]
      BY Zenon, <2>2, <1>LeaseTypes
    <3>3. ClientType'
      BY Zenon, <2>1, <2>2, <2>5, <3>2, <1>FewerLeases
    <3>4. [c |-> c, mask |-> {"mmap"}, sent |-> TRUE, gens |-> cl_leasegen[c]]
             \in [c : Client, mask : SUBSET Lease, gens : [Lease -> Nat], sent : BOOLEAN]
      BY <2>2, <3>2 DEF Lease
    <3>5. NetType'
      BY Zenon, <2>1, <2>5, <3>4 DEF IInv, NetType
    <3> QED
      BY Zenon, <2>1, <2>2, <2>5, <3>1, <3>3, <3>5, <1>QuietKeeps
  <2> QED
    BY Zenon, <2>3, <2>4, <2>5 DEF Unmap
<1>UnlockKeeps. ASSUME IInv, NEW t \in Thread, NEW lt \in {"exclusive", "stage"}, Unlock(t, lt),
           setup' = setup
    PROVE  IInv'
  <2> USE <1>UnlockKeeps
  <2> DEFINE c == Host[t]
             x == [Idle EXCEPT !.st = "rm", !.lt = lt, !.mask = {lt}, !.gens = NoGen]
  <2>1. /\ th[t].st = "idle" /\ has' = [has EXCEPT ![t] = has[t] \ {lt}]
        /\ cl_leases' = [cl_leases EXCEPT ![c] = cl_leases[c] \ {lt}]
        /\ th' = [th EXCEPT ![t] = x]
        /\ UNCHANGED <<serverVars, cl_leasegen, directio, netVars, bounds>>
    BY Zenon DEF Unlock, Remove
  <2>2. c \in Client /\ lt \in AllTypes /\ {lt} \in SUBSET Lease
    BY Zenon, SetupTypes DEF AllTypes, Lease
  <2>3. x \in ThreadState /\ x.st = "rm"
    BY <2>2, NoGenType, <1>RemoveTypes, Zenon
  <2>4. has' \in [Thread -> SUBSET Held]
    <3>1. has[t] \ {lt} \in SUBSET Held
      BY DEF IInv, ThreadsType, Held
    <3> QED
      BY Zenon, <2>1, <3>1 DEF IInv, ThreadsType, Held
  <2>5. ClientType'
    <3>1. cl_leases[c] \ {lt} \in SUBSET Lease
      BY Zenon, <2>2, <1>LeaseTypes
    <3> QED
      BY Zenon, <2>1, <2>2, <3>1, <1>FewerLeases
  <2> HIDE DEF x
  <2> QED
    BY Zenon, <2>1, <2>3, <2>4, <2>5, <1>QuietKeeps, <1>Kept
<1>ServeRemoveKeeps. ASSUME IInv, NEW t \in Thread, ServeRemove(t), setup' = setup PROVE IInv'
  <2> USE <1>ServeRemoveKeeps
  <2>1. PICK mask : /\ sam_remove_lease(tab, Host[t], mask) /\ th[t].st = "rm"
                    /\ th' = [th EXCEPT ![t] = Idle]
                    /\ UNCHANGED <<written, pages, unseen, clientVars, has, netVars, bounds>>
    BY Zenon DEF ServeRemove
  <2>2. /\ ServerType' /\ LeasesExclude' /\ AppendOwnsSize'
        /\ \A d \in Client : tab'[d].wt \subseteq tab[d].wt
    BY Zenon, <2>1, SetupTypes, <1>RemovalKeeps
  <2>3. Waiters' /\ MmapModes' /\ th' \in [Thread -> ThreadState]
    BY Zenon, <2>1, <2>2, IdleType, <1>OneThread
  <2>4. ThreadsType' /\ NetType' /\ ClientType'
    BY Zenon, <2>1, <2>3, <1>Kept DEF IInv, ThreadsType, bounds
  <2> QED
    BY Zenon, <2>2, <2>3, <2>4 DEF IInv
<1>ThreadKeeps. ASSUME IInv, NEW t \in Thread, ThreadStep(t), setup' = setup PROVE IInv'
  BY Zenon, <1>ThreadKeeps, <1>StartIOKeeps, <1>EndKeeps, <1>OpenKeeps, <1>AskKeeps, <1>UnlockKeeps, <1>ServeGetKeeps,
     <1>RecordKeeps, <1>ReissueKeeps, <1>InterruptedKeeps, <1>CloseKeeps, <1>LastCloseKeeps, <1>UnmapKeeps, <1>ServeRemoveKeeps
     DEF ThreadStep
\* Threads and their requests stay.
<1>ThreadsStay. ASSUME IInv, UNCHANGED <<th, has, setup>>, gets' \in 0..setup.gets,
           expires' \in 0..setup.expires
    PROVE  ThreadsType' /\ Waiters' /\ MmapModes'
  BY Zenon, <1>ThreadsStay DEF IInv, ThreadsType, MmapModes, Waiters
<1>ServeRelinquishKeeps. ASSUME IInv, NEW r \in rel, ServeRelinquish(r), setup' = setup PROVE IInv'
  <2> USE <1>ServeRelinquishKeeps
  <2>1. /\ sam_remove_lease(tab, r.c, SameGen(r.c, r.mask, r.gens))
        /\ rel' = rel \ {r}
        /\ UNCHANGED <<written, pages, unseen, clientVars, th, has, notice,
                       callout, wake, bounds>>
    BY Zenon DEF ServeRelinquish
  <2>2. r.c \in Client
    BY DEF IInv, NetType
  <2>3. /\ ServerType' /\ LeasesExclude' /\ AppendOwnsSize'
        /\ \A d \in Client : tab'[d].wt \subseteq tab[d].wt
    BY Zenon, <2>1, <2>2, <1>RemovalKeeps
  <2>4. ThreadsType' /\ Waiters' /\ MmapModes'
    BY Zenon, <2>1, <2>3, <1>ThreadsStay DEF IInv, ThreadsType, bounds
  <2>5. NetType' /\ ClientType'
    BY Zenon, <2>1 DEF IInv, NetType, ClientType, clientVars
  <2> QED
    BY Zenon, <2>3, <2>4, <2>5 DEF IInv
<1>CountExpired. ASSUME IInv, expires' = expires \/ (expires < setup.expires /\ expires' = expires + 1)
    PROVE  expires' \in 0..setup.expires
  <2> USE <1>CountExpired
  <2>1. expires \in 0..setup.expires /\ setup.expires \in Nat
    BY Zenon, SetupTypes DEF IInv, ThreadsType
  <2> QED
    BY <2>1
<1>ServerExpireKeeps. ASSUME IInv, NEW c \in Client, NEW S \in SUBSET (Data \cup {"stage"}),
           ServerExpire(c, S), setup' = setup
    PROVE  IInv'
  <2> USE <1>ServerExpireKeeps
  <2>1. /\ tab' = sam_compact_lease_clients([tab EXCEPT ![c].leases = @ \ S])
        /\ size_owner' = IF \A d \in Client : ~tab'[d].here THEN None ELSE size_owner
        /\ notice' = notice \/ notice' = notice \cup {[c |-> c, mask |-> S]}
        /\ expires' = expires \/ (expires < setup.expires /\ expires' = expires + 1)
        /\ UNCHANGED <<written, pages, unseen, clientVars, th, has, rel,
                       callout, wake, gets>>
    BY Zenon DEF ServerExpire
  <2>2. /\ tab' \in [Client -> EntryType] /\ Cleared'
        /\ \A d \in Client : /\ tab'[d].leases \subseteq tab[d].leases
                             /\ tab'[d].wt \subseteq tab[d].wt
    BY Zenon, <2>1, Compacted
  <2>3. \A d \in Client : "append" \in tab'[d].leases => size_owner' = size_owner
    BY Zenon, <2>1, <2>2, FreeType DEF Cleared
  <2>4. ServerType'
    BY Zenon, <2>1, <2>2 DEF IInv, ServerType
  <2>5. LeasesExclude' /\ AppendOwnsSize'
    BY Zenon, <2>2, <2>3, <1>FewerExclude, <1>OwnerStays
  <2>6. ThreadsType' /\ Waiters' /\ MmapModes'
    <3>1. expires' \in 0..setup.expires
      BY Zenon, <2>1, <1>CountExpired
    <3> QED
      BY Zenon, <2>1, <2>2, <3>1, <1>ThreadsStay DEF IInv, ThreadsType
  <2>7. NetType'
    <3>1. [c |-> c, mask |-> S] \in [c : Client, mask : SUBSET Lease]
      BY DEF Data, Lease, AllTypes
    <3> QED
      BY Zenon, <2>1, <3>1 DEF IInv, NetType
  <2>8. ClientType'
    BY Zenon, <2>1, <1>Kept
  <2> QED
    BY Zenon, <2>4, <2>5, <2>6, <2>7, <2>8 DEF IInv
<1>ServeWakeupKeeps. ASSUME IInv, NEW c \in Client, ServeWakeup(c), setup' = setup PROVE IInv'
  <2> USE <1>ServeWakeupKeeps
  <2>1. /\ wake' = wake \ {c} /\ tab' = [tab EXCEPT ![c].dio = tab[c].here]
        /\ UNCHANGED <<size_owner, written, pages, unseen, clientVars, th, has,
                       rel, notice, callout, bounds>>
    BY Zenon DEF ServeWakeup
  <2>2. tab \in [Client -> EntryType] /\ Cleared /\ tab[c] \in EntryType
    BY Zenon DEF IInv, ServerType
  <2> DEFINE e == [tab[c] EXCEPT !.dio = tab[c].here]
  <2>3. /\ e \in EntryType /\ e.leases = tab[c].leases /\ e.wt = tab[c].wt
        /\ e.here = tab[c].here
    BY <2>2 DEF EntryType
  <2>4. ~e.here => e = Free
    <3>1. ~tab[c].here /\ ~tab[c].dio => e = tab[c]
      BY <2>2 DEF EntryType
    <3>2. ~Free.dio
      BY DEF Free
    <3> QED
      BY Zenon, <2>2, <2>3, <3>1, <3>2 DEF Cleared
  <2>5. tab' = [tab EXCEPT ![c] = e]
    BY Zenon, <2>1
  <2> HIDE DEF e
  <2>6. tab' \in [Client -> EntryType] /\ tab'[c] = e
        /\ \A d \in Client \ {c} : tab'[d] = tab[d]
    BY Zenon, <2>2, <2>3, <2>5
  <2>7. \A d \in Client : /\ tab'[d].leases \subseteq tab[d].leases
                          /\ tab'[d].wt \subseteq tab[d].wt
    BY Zenon, <2>3, <2>6
  <2>8. Cleared'
    BY Zenon, <2>2, <2>4, <2>6 DEF Cleared
  <2>9. ServerType' /\ LeasesExclude' /\ AppendOwnsSize'
    BY Zenon, <2>1, <2>6, <2>7, <2>8, <1>FewerExclude, <1>OwnerStays DEF IInv, ServerType
  <2>10. ThreadsType' /\ Waiters' /\ MmapModes'
    BY Zenon, <2>1, <2>7, <1>ThreadsStay DEF IInv, ThreadsType, bounds
  <2>11. NetType' /\ ClientType'
    BY Zenon, <2>1 DEF IInv, NetType, ClientType, clientVars
  <2> QED
    BY Zenon, <2>9, <2>10, <2>11 DEF IInv
<1>ClientExpireKeeps. ASSUME IInv, NEW c \in Client, NEW S \in SUBSET Data, ClientExpire(c, S),
           setup' = setup
    PROVE  IInv'
  <2> USE <1>ClientExpireKeeps
  <2> DEFINE m == [c |-> c, mask |-> S, sent |-> "append" \notin S,
                   gens |-> cl_leasegen[c]]
  <2>1. /\ expires < setup.expires /\ expires' = expires + 1
        /\ cl_leases' = [cl_leases EXCEPT ![c] = cl_leases[c] \ S]
        /\ rel' = rel \cup {m}
        /\ UNCHANGED <<serverVars, cl_leasegen, directio, th, has, notice, callout,
                       wake, gets>>
    BY Zenon DEF ClientExpire
  <2>2. m \in [c : Client, mask : SUBSET Lease, gens : [Lease -> Nat], sent : BOOLEAN]
    <3>1. cl_leasegen[c] \in [Lease -> Nat]
      BY Zenon, <1>LeaseTypes
    <3> QED
      BY <3>1 DEF Data, Lease, AllTypes
  <2> HIDE DEF m
  <2>3. expires' \in 0..setup.expires
    BY Zenon, <2>1, <1>CountExpired
  <2>4. ClientType'
    <3>1. cl_leases[c] \ S \in SUBSET Lease
      BY Zenon, <1>LeaseTypes
    <3> QED
      BY Zenon, <2>1, <3>1, <1>FewerLeases
  <2>5. NetType'
    BY Zenon, <2>1, <2>2 DEF IInv, NetType
  <2> QED
    BY Zenon, <2>1, <2>3, <2>4, <2>5, <1>NoRequest, <1>Kept
<1>RelinquishKeeps. ASSUME IInv, NEW r \in rel, sam_relinquish_leases(r), setup' = setup PROVE IInv'
  <2> USE <1>RelinquishKeeps
  <2>1. /\ rel' = (rel \ {r}) \cup {[r EXCEPT !.sent = TRUE]}
        /\ UNCHANGED <<serverVars, clientVars, th, has, notice, callout, wake, bounds>>
    BY Zenon DEF sam_relinquish_leases
  <2>2. [r EXCEPT !.sent = TRUE]
           \in [c : Client, mask : SUBSET Lease, gens : [Lease -> Nat], sent : BOOLEAN]
    BY Zenon DEF IInv, NetType
  <2>3. NetType'
    BY Zenon, <2>1, <2>2 DEF IInv, NetType
  <2> QED
    BY Zenon, <2>1, <2>3, <1>NoRequest, <1>Kept DEF bounds
<1>LeaseExpiredKeeps. ASSUME IInv, NEW n \in notice, LeaseExpired(n), setup' = setup PROVE IInv'
  <2> USE <1>LeaseExpiredKeeps
  <2>1. /\ cl_leases' = [cl_leases EXCEPT ![n.c] = cl_leases[n.c] \ n.mask]
        /\ notice' = notice \ {n}
        /\ UNCHANGED <<serverVars, cl_leasegen, directio, th, has, rel, callout,
                       wake, bounds>>
    BY Zenon DEF LeaseExpired
  <2>2. n.c \in Client
    BY DEF IInv, NetType
  <2>3. ClientType'
    <3>1. cl_leases[n.c] \ n.mask \in SUBSET Lease
      BY Zenon, <2>2, <1>LeaseTypes
    <3> QED
      BY Zenon, <2>1, <2>2, <3>1, <1>FewerLeases
  <2>4. NetType'
    BY Zenon, <2>1 DEF IInv, NetType
  <2> QED
    BY Zenon, <2>1, <2>3, <2>4, <1>NoRequest, <1>Kept DEF bounds
<1>DirectioOnKeeps. ASSUME IInv, NEW c \in Client, DirectioOn(c), setup' = setup PROVE IInv'
  <2> USE <1>DirectioOnKeeps
  <2>1. /\ directio' = [directio EXCEPT ![c] = TRUE] /\ callout' = callout \ {c}
        /\ wake' = wake \cup {c}
        /\ UNCHANGED <<serverVars, cl_leases, cl_leasegen, th, has, rel, notice, bounds>>
    BY Zenon DEF DirectioOn
  <2>2. ClientType' /\ NetType'
    BY Zenon, <2>1 DEF IInv, ClientType, NetType
  <2> QED
    BY Zenon, <2>1, <2>2, <1>NoRequest, <1>Kept DEF bounds
<1> SUFFICES ASSUME IInv, [Next]_vars PROVE IInv'
  OBVIOUS
<1>1. CASE Next
  <2>1. \A c \in Client : HostStep(c) /\ setup' = setup => IInv'
    BY Zenon, <1>ClientExpireKeeps, <1>ServerExpireKeeps, <1>DirectioOnKeeps, <1>ServeWakeupKeeps
       DEF HostStep
  <2> QED
    BY Zenon, <1>1, <2>1, <1>ThreadKeeps, <1>RelinquishKeeps, <1>ServeRelinquishKeeps,
       <1>LeaseExpiredKeeps DEF Next
<1>2. CASE UNCHANGED vars
  BY Zenon, <1>2, <1>NoRequest, <1>Kept DEF vars, serverVars, clientVars, netVars
<1> QED
  BY Zenon, <1>1, <1>2

-----------------------------------------------------------------------------
(* What a step of a thread is.                                               *)

\* Nobody else moves.
Only(t) ==
    /\ setup' = setup
    /\ \A u \in Thread \ {t} : th'[u] = th[u] /\ has'[u] = has[u]

\* Nothing that matters for an open lease or for direct I/O changes outside.
Quiet ==
    /\ UNCHANGED <<serverVars, cl_leasegen, notice, callout, wake>>
    /\ \A d \in Client : "open" \in cl_leases'[d] <=> "open" \in cl_leases[d]
    /\ \A q \in rel' : q \in rel \/ "open" \notin q.mask

Paged == UNCHANGED directio

\* No client counts as up to date that did not, and no write is missed.
FreshKept ==
    /\ UNCHANGED <<written, unseen>>
    /\ \A d \in Client : tab'[d].fresh => tab[d].fresh \/ ~written

\* What a grant to thread t tells about stale pages.
Sees(t) ==
    LET c == Host[t]
        r == th[t]
        first == \A d \in Client : ~tab[d].here
        wr == Writes(r, first)
        rd == ~first /\ MayRead(r.lt)
    IN  /\ written' = (written \/ wr)
        /\ unseen' \subseteq unseen \cup (IF MayWrite(r.lt, r.mode) THEN Client \ {c} ELSE {})
        /\ th'[t].inval => c \notin unseen'
        /\ \A d \in Client \ {c} : tab'[d].fresh => tab[d].fresh /\ ~wr
        /\ tab'[c].fresh => wr \/ rd \/ tab[c].fresh \/ ~written
        /\ rd /\ tab[c].leases # {} /\ ~tab[c].fresh => th'[t].inval

OpenOrMap == {"open", "mmap"}

\* The thread sends a LEASE_get, for the first time or again.
Asks(t) ==
    /\ th'[t].st = "get" /\ th'[t].dio = directio[Host[t]] /\ th'[t].lt \in AllTypes
    /\ \/ th[t].st = "wait" /\ th'[t].lt = th[t].lt /\ has'[t] = has[t]
       \/ /\ th[t].st = "idle" /\ has'[t] = has[t] \cup ({th'[t].lt} \cap OpenOrMap)
          /\ th'[t].lt \in LTypes
          /\ th'[t].lt \in Data /\ "open" \in LTypes => "open" \in has[t]
          /\ th'[t].lt = "mmap" => ~last_unmap(Host[t]) /\ "open" \in has[t]
    /\ Quiet /\ Paged

\* The thread asks the server for nothing.  The last three are a last unmap, of
\* an open file or not, a close that leaves the file open or mapped, and a
\* request that is given up.
Rests(t) ==
    /\ th'[t].st \in {"idle", "io", "unmap"}
    /\ \/ th[t].st \in {"idle", "io", "unmap"} /\ has'[t] = has[t]
       \/ /\ th[t].st = "idle" /\ has'[t] = has[t] \cup {"open"} /\ "open" \in LTypes
          /\ ThreadsOf(Host[t]) = {t} => "open" \in has[t]
       \/ /\ th[t].st = "idle" /\ has'[t] = has[t] \ {"mmap"}
          /\ ThreadsOf(Host[t]) = {t} => "open" \in has[t]
       \/ /\ th[t].st = "close" /\ has'[t] = has[t]
          /\ ThreadsOf(Host[t]) = {t} => Meets(has[t], OpenOrMap)
       \/ /\ th[t].st = "wait" /\ th[t].lt # "open"
          /\ has'[t] = has[t] \ ({th[t].lt} \cap {"mmap"})
    /\ Quiet /\ Paged

Closes(t) ==
    /\ th[t].st = "idle" /\ "open" \in has[t]
    /\ th'[t].st = "close" /\ has'[t] = has[t] \ {"open"}
    /\ Quiet

\* A last close or a last unmap removes all leases.
Removes(t) ==
    /\ th[t].st = "close" \/ "mmap" \in has[t]
    /\ th[t].st \in {"close", "idle"}
    /\ has'[t] = has[t] \ {"mmap"} /\ Maps(Host[t]) \subseteq {t}
    /\ "open" \notin has[t]
    /\ th'[t].st = "rm" /\ th'[t].lt \in OpenOrMap
    /\ th'[t].mask = CL_CLOSE /\ th'[t].gens = cl_leasegen[Host[t]]
    /\ cl_leases' = [cl_leases EXCEPT ![Host[t]] = {}]
    /\ UNCHANGED <<serverVars, cl_leasegen, netVars>> /\ Paged

Unlocks(t) ==
    /\ th[t].st = "idle" /\ th'[t].st = "rm" /\ th'[t].mask \cap OpenOrMap = {}
    /\ has'[t] \cap OpenOrMap = has[t] \cap OpenOrMap
    /\ Quiet /\ Paged

Records(t) ==
    LET c == Host[t]
        r == th[t]
        gen == cl_leasegen[c]["open"]
    IN  /\ r.st = "got" /\ th'[t].st \in {"idle", "io"}
        /\ has'[t] \cap OpenOrMap = has[t] \cap OpenOrMap
        /\ directio' = [directio EXCEPT ![c] = directio[c] \/ r.dio]
        /\ \A d \in Client \ {c} : /\ cl_leases'[d] = cl_leases[d]
                                   /\ cl_leasegen'[d] = cl_leasegen[d]
        /\ "open" \in cl_leases'[c] <=> "open" \in cl_leases[c] \cup r.mask
        /\ cl_leasegen'[c]["open"] =
              IF "open" \in r.mask /\ ("open" \notin cl_leases[c] \/ r.gens["open"] > gen)
              THEN r.gens["open"] ELSE gen
        /\ UNCHANGED <<serverVars, netVars>>

Waits(t) ==
    LET c == Host[t]
        r == th[t]
    IN  /\ r.st = "get" /\ th'[t].st = "wait" /\ th'[t].lt = r.lt /\ th'[t].dio = r.dio
        /\ has'[t] = has[t]
        /\ \A d \in Client \ {c} : tab'[d] = tab[d]
        /\ tab'[c].leases = tab[c].leases
        /\ "open" \in tab[c].leases => tab'[c].gen["open"] = tab[c].gen["open"]
        /\ tab'[c].dio => tab[c].dio \/ r.dio
        /\ callout \subseteq callout'
        /\ UNCHANGED <<clientVars, rel, notice, wake>> /\ FreshKept

\* A LEASE_get is granted, when nobody waits for others to flush their pages.
Gets(t) ==
    LET c == Host[t]
        r == th[t]
    IN  /\ r.st = "get" /\ th'[t].st = "got" /\ th'[t].lt = r.lt
        /\ th'[t].mask = Given(c, r)
        /\ has'[t] = has[t]
        /\ \A d \in Client \ {c} : /\ tab'[d].leases = tab[d].leases
                                   /\ tab'[d].gen = tab[d].gen /\ tab'[d].dio = tab[d].dio
        /\ \A l \in Lease \ {"truncate"} :
              l \in tab'[c].leases <=> l \in tab[c].leases \cup Given(c, r)
        /\ r.lt = "open" => th'[t].gens["open"] = tab'[c].gen["open"]
        /\ "open" \in tab[c].leases => 
              tab'[c].gen["open"] = IF r.lt = "open" THEN tab[c].gen["open"] + 1
                                    ELSE tab[c].gen["open"]
        /\ tab'[c].dio => tab[c].dio \/ r.dio
        /\ \/ \A d \in Client : tab[d].leases = {}
           \/ Shares(c, r.lt) =>
                 /\ \A d \in Client \ {c} : tab[d].dio \/ ~Meets(tab[d].leases, Data)
                 /\ r.lt \in Data => th'[t].dio \/ r.dio
        /\ UNCHANGED <<clientVars, rel, callout, notice, wake>> /\ Sees(t)

\* The server removes leases, of an open lease only the generation it was sent.
Removed(t) ==
    LET c == Host[t]
        r == th[t]
        mask == IF "open" \in r.mask THEN SameGen(c, r.mask, r.gens) ELSE r.mask
    IN  /\ r.st = "rm" /\ th'[t].st = "idle" /\ has'[t] = has[t]
        /\ \A d \in Client \ {c} : tab'[d] = tab[d]
        /\ tab'[c].leases = tab[c].leases \ mask
        /\ tab'[c].gen = tab[c].gen /\ tab'[c].dio = tab[c].dio
        /\ UNCHANGED <<clientVars, netVars>> /\ FreshKept

Moves(t) ==
    /\ Only(t)
    /\ \/ Asks(t) \/ Rests(t) \/ Closes(t) \/ Removes(t) \/ Unlocks(t) \/ Records(t)
       \/ Waits(t) \/ Gets(t) \/ Removed(t)

\* What a grant to client c on request r is: the thread's new state x, the new
\* entry e and the table.
Granted(c, r, x, e) ==
    /\ x.st = "got" /\ x.lt = r.lt /\ x.mask = Given(c, r)
    /\ x.dio = (Shares(c, r.lt) /\ ~Reported(c, r).dio)
    /\ \A l \in Given(c, r) : x.gens[l] = e.gen[l]
    /\ e.dio = Reported(c, r).dio
    /\ \A l \in Lease : e.gen[l] = IF l \in Given(c, r) THEN Reported(c, r).gen[l] + 1
                                   ELSE Reported(c, r).gen[l]
    /\ \A d \in Client \ {c} : /\ tab'[d].leases = tab[d].leases
                               /\ tab'[d].gen = tab[d].gen /\ tab'[d].dio = tab[d].dio
    /\ \A l \in Lease \ {"truncate"} :
          l \in tab'[c].leases <=> l \in tab[c].leases \cup Given(c, r)
    /\ tab'[c].gen = e.gen /\ tab'[c].dio = e.dio
    /\ tab[c].leases # {} => Reported(c, r).gen = tab[c].gen
    /\ Reported(c, r).dio => tab[c].dio \/ r.dio
    /\ r.lt \in Data => Reported(c, r).dio = r.dio

-----------------------------------------------------------------------------
(* What a step of a host is.                                                 *)

\* No message takes an open lease away.
Messages ==
    /\ \A q \in rel : "open" \notin q.mask
    /\ \A n \in notice : "open" \notin n.mask

\* A step of no thread.
Elsewhere ==
    /\ UNCHANGED <<setup, th, has, cl_leasegen>>
    /\ \A d \in Client :
          /\ tab'[d].leases \subseteq tab[d].leases
          /\ "open" \in tab[d].leases =>
                "open" \in tab'[d].leases /\ tab'[d].gen = tab[d].gen
          /\ tab'[d].dio => tab[d].dio \/ d \in wake
          /\ directio[d] => directio'[d]
          /\ d \in callout => d \in callout' \/ directio'[d]
          /\ d \in wake' => d \in wake \/ directio'[d]
          /\ "open" \in cl_leases'[d] <=> "open" \in cl_leases[d]
    /\ Messages' /\ FreshKept

LEMMA FreshStays ==
    ASSUME UNCHANGED serverVars PROVE FreshKept
BY Zenon DEF serverVars, FreshKept

\* Every step is one of a thread or one elsewhere.
LEMMA NextMoves ==
    ASSUME IInv, Messages, [Next]_vars
    PROVE  (\E t \in Thread : Moves(t)) \/ Elsewhere
<1>ReportedFresh. ASSUME IInv, NEW c \in Client, NEW r \in ThreadState
    PROVE  /\ Reported(c, r).fresh => tab[c].fresh \/ ~written
           /\ tab[c].leases # {} => Reported(c, r).fresh = tab[c].fresh
  <2> USE <1>ReportedFresh
  <2>1. tab[c] \in EntryType /\ written \in BOOLEAN
    BY Zenon DEF IInv, ServerType
  <2>2. NewEntry \in EntryType /\ NewEntry.fresh = ~written
    BY <2>1, NewEntryType DEF NewEntry, Free
  <2>3. Entry(c) \in EntryType
    BY Zenon, <2>1, <2>2 DEF Entry
  <2>4. /\ Entry(c).fresh => tab[c].fresh \/ ~written
        /\ tab[c].leases # {} => Entry(c) = tab[c]
    <3>1. tab[c].leases # {} => tab[c].leases \cup tab[c].wt # {}
      OBVIOUS
    <3> QED BY Zenon, <2>2, <3>1 DEF Entry
  <2>5. [Entry(c) EXCEPT !.dio = r.dio].fresh = Entry(c).fresh
    BY <2>3 DEF EntryType
  <2> QED
    BY Zenon, <2>4, <2>5 DEF Reported
<1>RemoveFresh. ASSUME NEW tb \in [Client -> EntryType], NEW c \in Client, NEW mask,
           sam_remove_lease(tb, c, mask)
    PROVE  \A d \in Client : tab'[d].fresh = tb[d].fresh
  <2> USE <1>RemoveFresh
  <2> DEFINE e == [tb[c] EXCEPT !.leases = @ \ mask, !.wt = @ \ mask]
  <2>1. tab' = [tb EXCEPT ![c] = e]
    BY Zenon DEF sam_remove_lease
  <2>2. tb[c] \in EntryType
    BY Zenon
  <2>3. e.fresh = tb[c].fresh
    BY <2>2 DEF EntryType
  <2> HIDE DEF e
  <2> QED BY Zenon, <2>1, <2>3
\* The clients that miss a write.
<1>GrantMisses. ASSUME IInv, NEW t, NEW c, NEW r, NEW first, Grant(t, c, r, first),
           GivenThread(c, r, first).inval =
              ((~first /\ MayRead(r.lt)) /\ ~Reported(c, r).fresh)
    PROVE  /\ unseen' \subseteq unseen \cup (IF MayWrite(r.lt, r.mode) THEN Client \ {c} ELSE {})
           /\ GivenThread(c, r, first).inval => c \notin unseen'
  <2> USE <1>GrantMisses
  <2>1. pages \subseteq Client
    BY Zenon DEF IInv, ServerType
  <2>2. unseen' = (unseen \cup (IF MayWrite(r.lt, r.mode) THEN pages \ {c} ELSE {}))
                    \ (IF (~first /\ MayRead(r.lt)) /\ ~Reported(c, r).fresh THEN {c} ELSE {})
    BY Zenon DEF Grant
  <2> QED BY Zenon, <2>1, <2>2
\* What a grant does to the marks of stale pages.
<1>GivenFresh. ASSUME IInv, NEW c \in Client, NEW r \in ThreadState, NEW first
    PROVE  /\ GivenEntry(c, r, first).fresh =
                 (Writes(r, first) \/ (~first /\ MayRead(r.lt)) \/ Reported(c, r).fresh)
           /\ GivenThread(c, r, first).inval =
                 ((~first /\ MayRead(r.lt)) /\ ~Reported(c, r).fresh)
           /\ \A d \in Client \ {c} :
                 GivenTable(c, r, first)[d].fresh = (tab[d].fresh /\ ~Writes(r, first))
  <2> USE <1>GivenFresh
  <2>1. Reported(c, r) \in EntryType
    BY Zenon, ReportedType
  <2>4. \A x \in EntryType : \A f : [x EXCEPT !.fresh = f].fresh = f
    BY DEF EntryType
  <2>5. GivenEntry(c, r, first).fresh =
          (Writes(r, first) \/ (~first /\ MayRead(r.lt)) \/ Reported(c, r).fresh)
    <3> DEFINE e == Reported(c, r)
               g == [l \in Lease |-> IF l \in Given(c, r) THEN e.gen[l] + 1 ELSE e.gen[l]]
               f == Writes(r, first) \/ (~first /\ MayRead(r.lt)) \/ e.fresh
    <3>1. GivenEntry(c, r, first) =
            [e EXCEPT !.leases = @ \cup Given(c, r), !.wt = @ \ {r.lt}, !.gen = g, !.fresh = f]
      BY Zenon DEF GivenEntry
    <3> HIDE DEF g, f
    <3>2. GivenEntry(c, r, first).fresh = f
      BY <2>1, <3>1 DEF EntryType
    <3> QED BY Zenon, <3>2 DEF f
  <2>6. GivenThread(c, r, first).inval = ((~first /\ MayRead(r.lt)) /\ ~Reported(c, r).fresh)
    <3> DEFINE g == [l \in Lease |-> IF l \in Given(c, r)
                                     THEN GivenEntry(c, r, first).gen[l] ELSE 0]
               x == Shares(c, r.lt) /\ ~Reported(c, r).dio
               y == (~first /\ MayRead(r.lt)) /\ ~Reported(c, r).fresh
    <3>1. GivenThread(c, r, first) =
            [r EXCEPT !.st = "got", !.mask = Given(c, r), !.gens = g, !.dio = x, !.inval = y]
      BY Zenon DEF GivenThread
    <3> HIDE DEF g, x, y
    <3>2. GivenThread(c, r, first).inval = y
      BY <3>1 DEF ThreadState
    <3> QED BY Zenon, <3>2 DEF y
  <2>7. ASSUME NEW d \in Client \ {c}
        PROVE  GivenTable(c, r, first)[d].fresh = (tab[d].fresh /\ ~Writes(r, first))
    <3>1. tab[d] \in EntryType
      BY Zenon DEF IInv, ServerType
    <3>2. GivenTable(c, r, first)[d] = [tab[d] EXCEPT !.fresh = tab[d].fresh /\ ~Writes(r, first)]
      BY Zenon DEF GivenTable
    <3> QED BY Zenon, <2>4, <3>1, <3>2
  <2> QED BY Zenon, <2>5, <2>6, <2>7
<1>CompactedFresh. ASSUME IInv, NEW c \in Client, NEW S,
           tab' = sam_compact_lease_clients([tab EXCEPT ![c].leases = @ \ S])
    PROVE  \A d \in Client : tab'[d].fresh => tab[d].fresh
  <2> USE <1>CompactedFresh
  <2> DEFINE tb == [tab EXCEPT ![c].leases = @ \ S]
  <2>1. tab \in [Client -> EntryType]
    BY Zenon DEF IInv, ServerType
  <2>2. tb[c].fresh = tab[c].fresh
    <3>1. tb[c] = [tab[c] EXCEPT !.leases = tab[c].leases \ S] /\ tab[c] \in EntryType
      BY Zenon, <2>1
    <3> QED
      BY <3>1 DEF EntryType
  <2>3. \A d \in Client \ {c} : tb[d] = tab[d]
    BY Zenon, <2>1
  <2>4. \A d \in Client : tab'[d] = Free \/ tab'[d] = tb[d]
    BY Zenon DEF sam_compact_lease_clients
  <2>5. ~Free.fresh
    BY DEF Free
  <2> HIDE DEF tb
  <2> QED BY Zenon, <2>2, <2>3, <2>4, <2>5
<1>Stepped. ASSUME IInv, NEW t \in Thread, NEW x, NEW h, setup' = setup,
           \/ th' = [th EXCEPT ![t] = x]
           \/ th' = th /\ x = th[t],
           \/ has' = [has EXCEPT ![t] = h]
           \/ has' = has /\ h = has[t]
    PROVE  Only(t) /\ th'[t] = x /\ has'[t] = h
  <2> USE <1>Stepped
  <2>1. th \in [Thread -> ThreadState] /\ has \in [Thread -> SUBSET Held]
    BY Zenon DEF IInv, ThreadsType, Held
  <2>2. th'[t] = x /\ \A u \in Thread \ {t} : th'[u] = th[u]
    BY Zenon, <2>1
  <2>3. has'[t] = h /\ \A u \in Thread \ {t} : has'[u] = has[u]
    BY Zenon, <2>1
  <2> QED BY Zenon, <2>2, <2>3 DEF Only
\* A request as it is sent.
<1>Asked. ASSUME IInv, NEW t \in Thread, NEW lt \in AllTypes, NEW mode
    PROVE  /\ Request(t, lt, mode).st = "get" /\ Request(t, lt, mode).lt = lt
           /\ Request(t, lt, mode).dio = directio[Host[t]]
  BY <1>Asked DEF Request, Idle
<1>QuietAlone. ASSUME UNCHANGED <<serverVars, cl_leasegen, cl_leases, netVars>>
    PROVE  Quiet
  BY Zenon, <1>QuietAlone DEF Quiet, netVars
<1>StartIOMoves. ASSUME IInv, NEW t \in Thread, NEW lt \in Data, StartIO(t, lt), setup' = setup
    PROVE  Moves(t)
  <2> USE <1>StartIOMoves
  <2> DEFINE c == Host[t]
             held == cl_leases[c] \cup (IF lt = "write" /\ "append" \in cl_leases[c]
                                        THEN {"write"} ELSE {})
             io == [Idle EXCEPT !.st = "io", !.lt = lt]
  <2>1. /\ th[t].st = "idle" /\ cl_leases' = [cl_leases EXCEPT ![c] = held]
        /\ lt \in LTypes /\ ("open" \in LTypes => "open" \in has[t])
        /\ UNCHANGED <<serverVars, cl_leasegen, directio, has, netVars, expires>>
        /\ th' = [th EXCEPT ![t] = io] \/ th' = [th EXCEPT ![t] = Request(t, lt, "r")]
    BY Zenon DEF StartIO, SendGet
  <2>2. lt \in AllTypes /\ c \in Client /\ ("open" \in held <=> "open" \in cl_leases[c])
    BY SetupTypes DEF Data, AllTypes
  <2>3. io.st = "io"
    BY DEF Idle
  <2>4. lt \notin OpenOrMap /\ has[t] = has[t] \cup ({lt} \cap OpenOrMap)
        /\ lt # "open" /\ lt # "mmap"
    BY DEF Data, OpenOrMap
  <2> HIDE DEF held, io
  <2>5. Quiet /\ Paged
    <3>1. cl_leases'[c] = held /\ \A d \in Client \ {c} : cl_leases'[d] = cl_leases[d]
      BY Zenon, <2>1, <2>2 DEF IInv, ClientType
    <3>2. \A d \in Client : "open" \in cl_leases'[d] <=> "open" \in cl_leases[d]
      BY Zenon, <2>2, <3>1
    <3> QED BY Zenon, <2>1, <3>2 DEF Quiet, Paged, netVars
  <2>6. CASE th' = [th EXCEPT ![t] = io]
    <3>1. Only(t) /\ th'[t] = io /\ has'[t] = has[t]
      BY Zenon, <2>1, <2>6, <1>Stepped
    <3> QED BY Zenon, <2>1, <2>3, <2>5, <3>1 DEF Moves, Rests
  <2>7. CASE th' = [th EXCEPT ![t] = Request(t, lt, "r")]
    <3>1. Only(t) /\ th'[t] = Request(t, lt, "r") /\ has'[t] = has[t]
      BY Zenon, <2>1, <2>7, <1>Stepped
    <3>2. th'[t].st = "get" /\ th'[t].lt = lt /\ th'[t].dio = directio[c]
      <4>1. Request(t, lt, "r").st = "get" /\ Request(t, lt, "r").lt = lt /\ Request(t, lt, "r").dio = directio[c]
        BY <2>2, <1>Asked
      <4> QED BY Zenon, <3>1, <4>1
    <3> QED BY Zenon, <2>1, <2>2, <2>4, <2>5, <3>1, <3>2 DEF Moves, Asks
  <2> QED BY Zenon, <2>1, <2>6, <2>7
<1>EndMoves. ASSUME IInv, NEW t \in Thread, EndIO(t) \/ UnmapDone(t), setup' = setup
    PROVE  Moves(t)
  <2> USE <1>EndMoves
  <2>1. /\ th[t].st \in {"io", "unmap"} /\ th' = [th EXCEPT ![t] = Idle]
        /\ UNCHANGED <<serverVars, clientVars, has, netVars, bounds>>
    BY Zenon DEF EndIO, UnmapDone
  <2>2. Quiet /\ Paged
    BY Zenon, <2>1, <1>QuietAlone DEF Paged, clientVars
  <2>3. Only(t) /\ th'[t] = Idle /\ has'[t] = has[t]
    BY Zenon, <2>1, <1>Stepped
  <2> QED BY Zenon, <2>1, <2>2, <2>3, IdleType DEF Moves, Rests
<1>InterruptedMoves. ASSUME IInv, NEW t \in Thread, Interrupted(t), setup' = setup
    PROVE  Moves(t)
  <2> USE <1>InterruptedMoves
  <2>1. /\ th[t].st = "wait" /\ th' = [th EXCEPT ![t] = Idle]
        /\ has' = [has EXCEPT ![t] = has[t] \ ({th[t].lt} \cap {"mmap"})]
        /\ UNCHANGED <<serverVars, clientVars, netVars, bounds>>
    BY Zenon DEF Interrupted
  <2>2. Quiet /\ Paged
    BY Zenon, <2>1, <1>QuietAlone DEF Paged, clientVars
  <2>3. Only(t) /\ th'[t] = Idle /\ has'[t] = has[t] \ ({th[t].lt} \cap {"mmap"})
    BY Zenon, <2>1, <1>Stepped
  <2>4. th[t].lt # "open"
    BY Zenon, <2>1 DEF IInv, Waiters
  <2> QED BY Zenon, <2>1, <2>2, <2>3, <2>4, IdleType DEF Moves, Rests
<1>OpenMoves. ASSUME IInv, NEW t \in Thread, NEW mode \in {"r", "w"}, Open(t, mode) \/ Mmap(t, mode),
           setup' = setup
    PROVE  Moves(t)
  <2> USE <1>OpenMoves
  <2> DEFINE c == Host[t]
  <2>1. th[t].st = "idle" /\ UNCHANGED <<serverVars, clientVars, netVars, expires>>
    BY Zenon DEF Open, Mmap
  <2>2. Quiet /\ Paged
    BY Zenon, <2>1, <1>QuietAlone DEF Paged, clientVars
  <2>3. ASSUME NEW lt \in OpenOrMap, has' = [has EXCEPT ![t] = has[t] \cup {lt}],
               th' = [th EXCEPT ![t] = Request(t, lt, mode)],
               lt \in LTypes,
               lt = "mmap" => ~last_unmap(c) /\ "open" \in has[t]
        PROVE  Moves(t)
    <3>1. Only(t) /\ th'[t] = Request(t, lt, mode) /\ has'[t] = has[t] \cup {lt}
      BY Zenon, <2>3, <1>Stepped
    <3>2. lt \in AllTypes /\ {lt} = {lt} \cap OpenOrMap /\ lt \notin Data
      BY Zenon, <2>3 DEF OpenOrMap, AllTypes, Data
    <3>3. th'[t].st = "get" /\ th'[t].lt = lt /\ th'[t].dio = directio[c]
      <4>1. Request(t, lt, mode).st = "get" /\ Request(t, lt, mode).lt = lt /\ Request(t, lt, mode).dio = directio[c]
        BY <3>2, <1>Asked
      <4> QED BY Zenon, <3>1, <4>1
    <3> QED BY Zenon, <2>1, <2>2, <2>3, <3>1, <3>2, <3>3 DEF Moves, Asks
  <2>4. CASE Open(t, mode)
    <3>1. /\ "open" \in LTypes /\ has' = [has EXCEPT ![t] = has[t] \cup {"open"}]
          /\ th' = [th EXCEPT ![t] = Request(t, "open", mode)] \/ (th' = th /\ Opens(c) # {})
      BY Zenon, <2>4 DEF Open, SendGet
    <3>2. CASE th' = th /\ Opens(c) # {}
      <4>1. Only(t) /\ th'[t] = th[t] /\ has'[t] = has[t] \cup {"open"}
        BY Zenon, <3>1, <3>2, <1>Stepped
      <4>2. ThreadsOf(c) = {t} => "open" \in has[t]
        BY Zenon, <3>2 DEF Opens
      <4> QED BY Zenon, <2>1, <2>2, <3>1, <4>1, <4>2 DEF Moves, Rests
    <3>3. "open" \in OpenOrMap /\ "open" # "mmap"
      BY DEF OpenOrMap
    <3> QED BY Zenon, <2>3, <3>1, <3>2, <3>3
  <2>5. CASE Mmap(t, mode)
    <3>1. /\ has' = [has EXCEPT ![t] = has[t] \cup {"mmap"}]
          /\ th' = [th EXCEPT ![t] = Request(t, "mmap", mode)]
          /\ ~last_unmap(c) /\ "open" \in has[t] /\ "mmap" \in LTypes
      BY Zenon, <2>5 DEF Mmap, SendGet
    <3>3. "mmap" \in OpenOrMap /\ "open" # "mmap"
      BY DEF OpenOrMap
    <3> QED BY Zenon, <2>3, <3>1, <3>3
  <2> QED BY Zenon, <2>4, <2>5
<1>AskMoves. ASSUME IInv, NEW t \in Thread, setup' = setup,
           \/ \E mode \in {"up", "down", "release"} : Truncate(t, mode)
           \/ sam_fseq_ord(t) \/ sam_setup_stage(t) \/ Reissue(t)
    PROVE  Moves(t)
  <2> USE <1>AskMoves
  <2> DEFINE c == Host[t]
  <2>1. UNCHANGED <<serverVars, clientVars, has, netVars>>
    BY Zenon DEF Truncate, sam_fseq_ord, sam_setup_stage, Reissue
  <2>2. Quiet /\ Paged
    BY Zenon, <2>1, <1>QuietAlone DEF Paged, clientVars
  <2>3. CASE Reissue(t)
    <3>1. th[t].st = "wait" /\ th' = [th EXCEPT ![t] = Request(t, th[t].lt, th[t].mode)]
      BY Zenon, <2>3 DEF Reissue
    <3>2. th[t].lt \in AllTypes
      BY DEF IInv, ThreadsType, ThreadState
    <3>3. Only(t) /\ th'[t] = Request(t, th[t].lt, th[t].mode) /\ has'[t] = has[t]
      BY Zenon, <2>1, <3>1, <1>Stepped
    <3>4. th'[t].st = "get" /\ th'[t].lt = th[t].lt /\ th'[t].dio = directio[c]
      <4>1. Request(t, th[t].lt, th[t].mode).st = "get" /\ Request(t, th[t].lt, th[t].mode).lt = th[t].lt /\ Request(t, th[t].lt, th[t].mode).dio = directio[c]
        BY <3>2, <1>Asked
      <4> QED BY Zenon, <3>3, <4>1
    <3> QED BY Zenon, <2>1, <2>2, <3>1, <3>2, <3>3, <3>4 DEF Moves, Asks
  <2>4. CASE ~Reissue(t)
    <3>1. PICK lt \in {"truncate", "exclusive", "stage"} : lt \in LTypes /\ \E mode :
             th[t].st = "idle" /\ th' = [th EXCEPT ![t] = Request(t, lt, mode)]
      BY Zenon, <2>4 DEF Truncate, sam_fseq_ord, sam_setup_stage, SendGet
    <3>2. PICK mode : th[t].st = "idle" /\ th' = [th EXCEPT ![t] = Request(t, lt, mode)]
      BY Zenon, <3>1
    <3>3. lt \in AllTypes /\ lt \notin Data /\ lt # "mmap"
          /\ has[t] = has[t] \cup ({lt} \cap OpenOrMap)
      BY DEF OpenOrMap, AllTypes, Data
    <3>4. Only(t) /\ th'[t] = Request(t, lt, mode) /\ has'[t] = has[t]
      BY Zenon, <2>1, <3>2, <1>Stepped
    <3>5. th'[t].st = "get" /\ th'[t].lt = lt /\ th'[t].dio = directio[c]
      <4>1. Request(t, lt, mode).st = "get" /\ Request(t, lt, mode).lt = lt /\ Request(t, lt, mode).dio = directio[c]
        BY <3>3, <1>Asked
      <4> QED BY Zenon, <3>4, <4>1
    <3> QED BY Zenon, <2>1, <2>2, <3>1, <3>2, <3>3, <3>4, <3>5 DEF Moves, Asks
  <2> QED BY Zenon, <2>3, <2>4
<1>CloseMoves. ASSUME IInv, NEW t \in Thread, Close(t), setup' = setup
    PROVE  Moves(t)
  <2> USE <1>CloseMoves
  <2> DEFINE x == [th[t] EXCEPT !.st = "close"]
  <2>1. /\ th[t].st = "idle" /\ "open" \in has[t] /\ th' = [th EXCEPT ![t] = x]
        /\ has' = [has EXCEPT ![t] = has[t] \ {"open"}]
        /\ UNCHANGED <<serverVars, cl_leases, cl_leasegen, netVars, bounds>>
    BY Zenon DEF Close
  <2>2. x.st = "close"
    BY DEF IInv, ThreadsType, ThreadState
  <2> HIDE DEF x
  <2>3. Only(t) /\ th'[t] = x /\ has'[t] = has[t] \ {"open"}
    BY ZenonT(30), <2>1, <1>Stepped
  <2>4. Quiet
    BY Zenon, <2>1, <1>QuietAlone
  <2> QED BY Zenon, <2>1, <2>2, <2>3, <2>4 DEF Moves, Closes
\* The last one removes all leases.
<1>RemoveMoves. ASSUME IInv, NEW t \in Thread, NEW lt \in OpenOrMap, RemoveAll(t, Host[t], lt),
           setup' = setup, has'[t] = has[t] \ {"mmap"},
           \A u \in Thread \ {t} : has'[u] = has[u],
           th[t].st = "close" \/ "mmap" \in has[t], th[t].st \in {"close", "idle"},
           Maps(Host[t]) \subseteq {t}, "open" \notin has[t],
           UNCHANGED <<serverVars, cl_leasegen, directio, netVars>>
    PROVE  Moves(t)
  <2> USE <1>RemoveMoves
  <2> DEFINE c == Host[t]
             x == [Idle EXCEPT !.st = "rm", !.lt = lt, !.mask = CL_CLOSE,
                               !.gens = cl_leasegen[c]]
  <2>1. th' = [th EXCEPT ![t] = x] /\ cl_leases' = [cl_leases EXCEPT ![c] = {}]
    BY Zenon DEF RemoveAll, Remove
  <2>2. x.st = "rm" /\ x.lt = lt /\ x.mask = CL_CLOSE /\ x.gens = cl_leasegen[c]
    BY DEF Idle
  <2> HIDE DEF x
  <2>3. th'[t] = x /\ \A u \in Thread \ {t} : th'[u] = th[u]
    BY Zenon, <2>1 DEF IInv, ThreadsType
  <2>4. Only(t)
    BY Zenon, <2>3 DEF Only
  <2> QED BY Zenon, <2>1, <2>2, <2>3, <2>4 DEF Moves, Removes, Paged
<1>LastCloseMoves. ASSUME IInv, NEW t \in Thread, LastClose(t), setup' = setup
    PROVE  Moves(t)
  <2> USE <1>LastCloseMoves
  <2> DEFINE c == Host[t]
  <2>1. /\ th[t].st = "close"
        /\ UNCHANGED <<serverVars, cl_leasegen, directio, has, netVars>>
        /\ \/ Opens(c) = {} /\ Maps(c) = {} /\ RemoveAll(t, c, "open")
           \/ /\ ~(Opens(c) = {} /\ Maps(c) = {} /\ ~cl_closing(c) /\ ~last_unmap(c))
              /\ th' = [th EXCEPT ![t] = Idle] /\ UNCHANGED cl_leases
    BY Zenon DEF LastClose
  <2>2. t \in ThreadsOf(c)
    BY Zenon DEF ThreadsOf
  <2>3. CASE Opens(c) = {} /\ Maps(c) = {} /\ RemoveAll(t, c, "open")
    <3>1. /\ has[t] = has[t] \ {"mmap"} /\ Maps(c) \subseteq {t} /\ "open" \in OpenOrMap
          /\ "open" \notin has[t]
      BY <2>2, <2>3 DEF Maps, Opens, OpenOrMap
    <3>2. has'[t] = has[t] \ {"mmap"} /\ \A u \in Thread \ {t} : has'[u] = has[u]
      BY Zenon, <2>1, <3>1
    <3> QED BY Zenon, <2>1, <2>3, <3>1, <3>2, <1>RemoveMoves
  <2>4. CASE /\ ~(Opens(c) = {} /\ Maps(c) = {} /\ ~cl_closing(c) /\ ~last_unmap(c))
             /\ th' = [th EXCEPT ![t] = Idle] /\ UNCHANGED cl_leases
    <3>1. Only(t) /\ th'[t] = Idle /\ has'[t] = has[t]
      BY Zenon, <2>1, <2>4, <1>Stepped
    <3>2. ASSUME ThreadsOf(c) = {t} PROVE Meets(has[t], OpenOrMap)
      <4>1. ~cl_closing(c) /\ ~last_unmap(c)
        BY Zenon, <2>1, <3>2 DEF cl_closing, last_unmap
      <4>2. Opens(c) # {} \/ Maps(c) # {}
        BY Zenon, <2>4, <4>1
      <4>3. "open" \in has[t] \/ "mmap" \in has[t]
        BY Zenon, <3>2, <4>2 DEF Opens, Maps
      <4> QED BY <4>3 DEF Meets, OpenOrMap
    <3>3. Quiet /\ Paged
      BY Zenon, <2>1, <2>4, <1>QuietAlone DEF Paged
    <3> QED BY Zenon, <2>1, <3>1, <3>2, <3>3, IdleType DEF Moves, Rests
  <2> QED BY Zenon, <2>1, <2>3, <2>4
<1>UnmapMoves. ASSUME IInv, NEW t \in Thread, Unmap(t), setup' = setup
    PROVE  Moves(t)
  <2> USE <1>UnmapMoves
  <2> DEFINE c == Host[t]
             h == has[t] \ {"mmap"}
             q == [c |-> c, mask |-> {"mmap"}, sent |-> TRUE, gens |-> cl_leasegen[c]]
             x == [Idle EXCEPT !.st = "unmap", !.lt = "mmap"]
             last == Maps(c) = {t} /\ ~last_unmap(c)
  <2>1. /\ th[t].st = "idle" /\ "mmap" \in has[t] /\ has' = [has EXCEPT ![t] = h]
        /\ UNCHANGED <<serverVars, cl_leasegen, directio, notice, callout, wake, bounds>>
        /\ \/ ~last /\ UNCHANGED <<th, cl_leases, rel>>
           \/ last /\ Opens(c) = {} /\ RemoveAll(t, c, "mmap") /\ UNCHANGED rel
           \/ /\ last /\ Opens(c) # {}
              /\ cl_leases' = [cl_leases EXCEPT ![c] = cl_leases[c] \ {"mmap"}]
              /\ rel' = rel \cup {q} /\ th' = [th EXCEPT ![t] = x]
    BY Zenon DEF Unmap
  <2>2. x.st = "unmap" /\ q.mask = {"mmap"} /\ "open" \notin {"mmap"} /\ "mmap" \in OpenOrMap
    BY DEF Idle, OpenOrMap
  <2>3. c \in Client /\ t \in ThreadsOf(c)
    BY Zenon, SetupTypes DEF ThreadsOf
  <2>4. ThreadsOf(c) = {t} => last
    <3> SUFFICES ASSUME ThreadsOf(c) = {t} PROVE last
      OBVIOUS
    <3>1. Maps(c) = {t}
      BY <2>1 DEF Maps
    <3>2. ~last_unmap(c)
      BY Zenon, <2>1 DEF last_unmap
    <3> QED BY Zenon, <3>1, <3>2
  <2>5. CASE ~last /\ UNCHANGED <<th, cl_leases, rel>>
    <3>1. Only(t) /\ th'[t] = th[t] /\ has'[t] = h
      BY ZenonT(30), <2>1, <2>5, <1>Stepped
    <3>2. Quiet /\ Paged
      BY Zenon, <2>1, <2>5, <1>QuietAlone DEF Paged, netVars
    <3> QED BY Zenon, <2>1, <2>4, <2>5, <3>1, <3>2 DEF Moves, Rests
  <2>6. CASE last /\ Opens(c) = {} /\ RemoveAll(t, c, "mmap") /\ UNCHANGED rel
    <3>1. Maps(c) \subseteq {t} /\ "open" \notin has[t]
      BY <2>3, <2>6 DEF Opens
    <3>2. has'[t] = h /\ \A u \in Thread \ {t} : has'[u] = has[u]
      BY Zenon, <2>1 DEF IInv, ThreadsType
    <3> QED BY Zenon, <2>1, <2>2, <2>6, <3>1, <3>2, <1>RemoveMoves DEF netVars
  <2>7. CASE /\ last /\ Opens(c) # {}
             /\ cl_leases' = [cl_leases EXCEPT ![c] = cl_leases[c] \ {"mmap"}]
             /\ rel' = rel \cup {q} /\ th' = [th EXCEPT ![t] = x]
    <3>1. ThreadsOf(c) = {t} => "open" \in has[t]
      BY Zenon, <2>7 DEF Opens
    <3>2. Only(t) /\ th'[t] = x /\ has'[t] = h
      <4> HIDE DEF x, h
      <4> QED BY Zenon, <2>1, <2>7, <1>Stepped
    <3>3. Quiet /\ Paged
      <4>1. /\ cl_leases'[c] = cl_leases[c] \ {"mmap"}
            /\ \A d \in Client \ {c} : cl_leases'[d] = cl_leases[d]
        BY Zenon, <2>3, <2>7 DEF IInv, ClientType
      <4>2. \A d \in Client : "open" \in cl_leases'[d] <=> "open" \in cl_leases[d]
        BY Zenon, <2>2, <4>1
      <4>3. \A p \in rel' : p \in rel \/ "open" \notin p.mask
        <5> HIDE DEF q
        <5> QED BY Zenon, <2>2, <2>7
      <4> QED BY Zenon, <2>1, <4>2, <4>3 DEF Quiet, Paged
    <3> QED BY Zenon, <2>1, <2>2, <3>1, <3>2, <3>3 DEF Moves, Rests
  <2> QED BY Zenon, <2>1, <2>5, <2>6, <2>7
<1>UnlockMoves. ASSUME IInv, NEW t \in Thread, NEW lt \in {"exclusive", "stage"}, Unlock(t, lt),
           setup' = setup
    PROVE  Moves(t)
  <2> USE <1>UnlockMoves
  <2> DEFINE c == Host[t]
             x == [Idle EXCEPT !.st = "rm", !.lt = lt, !.mask = {lt}, !.gens = NoGen]
             h == has[t] \ {lt}
  <2>1. /\ th[t].st = "idle" /\ has' = [has EXCEPT ![t] = h]
        /\ cl_leases' = [cl_leases EXCEPT ![c] = cl_leases[c] \ {lt}]
        /\ th' = [th EXCEPT ![t] = x]
        /\ UNCHANGED <<serverVars, cl_leasegen, directio, netVars, bounds>>
    BY Zenon DEF Unlock, Remove
  <2>2. x.st = "rm" /\ x.mask = {lt}
    BY DEF Idle
  <2>3. {lt} \cap OpenOrMap = {} /\ h \cap OpenOrMap = has[t] \cap OpenOrMap /\ lt # "open"
    BY DEF OpenOrMap
  <2> HIDE DEF x, h
  <2>4. Only(t) /\ th'[t] = x /\ has'[t] = h
    BY Zenon, <2>1, <1>Stepped
  <2>5. Quiet /\ Paged
    <3>1. /\ cl_leases'[c] = cl_leases[c] \ {lt}
          /\ \A d \in Client \ {c} : cl_leases'[d] = cl_leases[d]
      BY Zenon, <2>1, SetupTypes DEF IInv, ClientType
    <3>2. \A d \in Client : "open" \in cl_leases'[d] <=> "open" \in cl_leases[d]
      BY Zenon, <2>3, <3>1
    <3> QED BY Zenon, <2>1, <3>2 DEF Quiet, Paged, netVars
  <2> QED BY Zenon, <2>1, <2>2, <2>3, <2>4, <2>5 DEF Moves, Unlocks
<1>RecordMoves. ASSUME IInv, NEW t \in Thread, RecordLease(t), setup' = setup
    PROVE  Moves(t)
  <2> USE <1>RecordMoves
  <2> DEFINE c == Host[t]
             r == th[t]
             G == r.mask \ {"truncate", "stage"}
             g == [l \in Lease |-> IF /\ l \in G
                                      /\ l \notin cl_leases[c] \/ r.gens[l] > cl_leasegen[c][l]
                                   THEN r.gens[l] ELSE cl_leasegen[c][l]]
             x == IF r.lt \in Data THEN [Idle EXCEPT !.st = "io", !.lt = r.lt] ELSE Idle
             h == has[t] \cup ({r.lt} \cap {"exclusive", "stage"})
  <2>1. /\ r.st = "got" /\ directio' = [directio EXCEPT ![c] = directio[c] \/ r.dio]
        /\ cl_leases' = [cl_leases EXCEPT ![c] = cl_leases[c] \cup G]
        /\ cl_leasegen' = [cl_leasegen EXCEPT ![c] = g]
        /\ th' = [th EXCEPT ![t] = x]
        /\ has' = [has EXCEPT ![t] = h]
        /\ UNCHANGED <<serverVars, netVars, bounds>>
    BY Zenon DEF RecordLease
  <2>2. c \in Client
    BY Zenon, SetupTypes
  <2>3. x.st \in {"idle", "io"}
    BY DEF Idle
  <2>4. h \cap OpenOrMap = has[t] \cap OpenOrMap
    BY DEF OpenOrMap
  <2>5. ("open" \in cl_leases[c] \cup G <=> "open" \in cl_leases[c] \cup r.mask)
        /\ ("open" \in G <=> "open" \in r.mask)
    OBVIOUS
  <2>6. g["open"] = IF "open" \in r.mask
                       /\ ("open" \notin cl_leases[c] \/ r.gens["open"] > cl_leasegen[c]["open"])
                    THEN r.gens["open"] ELSE cl_leasegen[c]["open"]
    <3>1. "open" \in Lease
      BY DEF Lease, AllTypes
    <3> QED BY Zenon, <2>5, <3>1
  <2> HIDE DEF x, h, g, G
  <2>7. Only(t) /\ th'[t] = x /\ has'[t] = h
    BY Zenon, <2>1, <1>Stepped
  <2>8. /\ cl_leases'[c] = cl_leases[c] \cup G /\ cl_leasegen'[c] = g
        /\ \A d \in Client \ {c} : cl_leases'[d] = cl_leases[d] /\ cl_leasegen'[d] = cl_leasegen[d]
    BY Zenon, <2>1, <2>2 DEF IInv, ClientType
  <2>9. Records(t)
    BY Zenon, <2>1, <2>3, <2>4, <2>5, <2>6, <2>7, <2>8 DEF Records
  <2> QED BY Zenon, <2>7, <2>9 DEF Moves
<1>ServeRemoveMoves. ASSUME IInv, NEW t \in Thread, ServeRemove(t), setup' = setup
    PROVE  Moves(t)
  <2> USE <1>ServeRemoveMoves
  <2> DEFINE c == Host[t]
             r == th[t]
             mask == IF "open" \in r.mask THEN SameGen(c, r.mask, r.gens) ELSE r.mask
  <2>1. /\ r.st = "rm" /\ sam_remove_lease(tab, c, mask) /\ th' = [th EXCEPT ![t] = Idle]
        /\ UNCHANGED <<clientVars, has, netVars>>
    BY Zenon DEF ServeRemove
  <2>2. c \in Client /\ tab \in [Client -> EntryType]
    BY Zenon, SetupTypes DEF IInv, ServerType
  <2>3. Only(t) /\ th'[t] = Idle /\ has'[t] = has[t]
    BY Zenon, <2>1, <1>Stepped
  <2>4. /\ \A d \in Client \ {c} : tab'[d] = tab[d]
        /\ tab'[c].leases = tab[c].leases \ mask
        /\ tab'[c].gen = tab[c].gen /\ tab'[c].dio = tab[c].dio
    <3> HIDE DEF mask
    <3> QED BY <2>1, <2>2, RemoveLease
  <2>5. FreshKept
    <3> HIDE DEF mask
    <3>1. \A d \in Client : tab'[d].fresh = tab[d].fresh
      BY <2>1, <2>2, <1>RemoveFresh
    <3>2. UNCHANGED <<written, unseen>>
      BY Zenon DEF ServeRemove
    <3> QED BY Zenon, <3>1, <3>2 DEF FreshKept
  <2>6. Removed(t)
    BY Zenon, <2>1, <2>3, <2>4, <2>5, IdleType DEF Removed
  <2> QED BY Zenon, <2>3, <2>6 DEF Moves
<1>QueueMoves. ASSUME IInv, NEW t \in Thread, NEW paged, setup' = setup,
           th[t].st = "get", Queue(t, Host[t], th[t], paged),
           UNCHANGED <<clientVars, has, notice, wake>>
    PROVE  Moves(t)
  <2> USE <1>QueueMoves
  <2> DEFINE c == Host[t]
             r == th[t]
             e == [Reported(c, r) EXCEPT !.wt = @ \cup {r.lt}]
             x == [r EXCEPT !.st = "wait"]
  <2>1. c \in Client /\ r \in ThreadState /\ tab \in [Client -> EntryType]
    BY Zenon, SetupTypes DEF IInv, ThreadsType, ServerType
  <2>2. /\ Reported(c, r) \in EntryType
        /\ Reported(c, r).leases = tab[c].leases
        /\ tab[c].leases # {} => Reported(c, r).gen = tab[c].gen
        /\ Reported(c, r).dio => tab[c].dio \/ r.dio
    BY <2>1, ReportedType
  <2>3. /\ e.leases = tab[c].leases /\ e.gen = Reported(c, r).gen /\ e.dio = Reported(c, r).dio
    BY <2>2 DEF EntryType
  <2>4. /\ tab' = [tab EXCEPT ![c] = e] /\ th' = [th EXCEPT ![t] = x]
        /\ callout' = callout \cup paged /\ UNCHANGED rel
    BY Zenon DEF Queue
  <2>5. x.st = "wait" /\ x.lt = r.lt /\ x.dio = r.dio
    BY <2>1 DEF ThreadState
  <2>6. callout \subseteq callout'
    BY <2>4
  <2>7. "open" \in tab[c].leases => tab[c].leases # {}
    OBVIOUS
  <2> HIDE DEF e, x
  <2>8. tab'[c] = e /\ \A d \in Client \ {c} : tab'[d] = tab[d]
    BY Zenon, <2>1, <2>4
  <2>9. Only(t) /\ th'[t] = x /\ has'[t] = has[t]
    BY Zenon, <2>4, <1>Stepped
  <2>10. FreshKept
    <3>1. e.fresh = Reported(c, r).fresh
      BY <2>2 DEF EntryType, e
    <3>2. Reported(c, r).fresh => tab[c].fresh \/ ~written
      BY <2>1, <1>ReportedFresh
    <3>3. UNCHANGED <<written, unseen>>
      BY Zenon DEF Queue
    <3> QED BY Zenon, <2>8, <3>1, <3>2, <3>3 DEF FreshKept
  <2>11. Waits(t)
    BY Zenon, <2>2, <2>3, <2>4, <2>5, <2>6, <2>7, <2>8, <2>9, <2>10 DEF Waits
  <2> QED BY Zenon, <2>9, <2>11 DEF Moves
\* The table after a grant.
<1>GrantTable. ASSUME IInv, NEW t \in Thread, NEW c \in Client, NEW r \in ThreadState, NEW first,
           Grant(t, c, r, first)
    PROVE  /\ \A d \in Client \ {c} : /\ tab'[d].leases = tab[d].leases
                                      /\ tab'[d].gen = tab[d].gen /\ tab'[d].dio = tab[d].dio
           /\ \A l \in Lease \ {"truncate"} :
                 l \in tab'[c].leases <=> l \in tab[c].leases \cup Given(c, r)
           /\ tab'[c].gen = GivenEntry(c, r, first).gen
           /\ tab'[c].dio = GivenEntry(c, r, first).dio
  <2> USE <1>GrantTable
  <2> DEFINE tb == GivenTable(c, r, first)
  <2>1. /\ tb \in [Client -> EntryType] /\ tb[c] = GivenEntry(c, r, first)
        /\ \A d \in Client \ {c} : /\ tb[d].leases = tab[d].leases
                                   /\ tb[d].gen = tab[d].gen /\ tb[d].dio = tab[d].dio
    BY GivenTableType
  <2>2. GivenEntry(c, r, first).leases = tab[c].leases \cup Given(c, r)
    BY GivenTypes
  <2>3. /\ r.lt = "truncate" => sam_remove_lease(tb, c, {"truncate"})
        /\ r.lt # "truncate" => tab' = tb
    BY GrantParts
  <2> HIDE DEF tb
  <2>4. CASE tab' = tb
    BY Zenon, <2>1, <2>2, <2>4
  <2>5. CASE sam_remove_lease(tb, c, {"truncate"})
    <3>1. /\ \A d \in Client \ {c} : tab'[d] = tb[d]
          /\ tab'[c].leases = tb[c].leases \ {"truncate"}
          /\ tab'[c].gen = tb[c].gen /\ tab'[c].dio = tb[c].dio
      BY <2>1, <2>5, RemoveLease
    <3> QED BY Zenon, <2>1, <2>2, <3>1
  <2> QED BY Zenon, <2>3, <2>4, <2>5
<1>GrantFresh. ASSUME IInv, NEW t \in Thread, NEW c \in Client, NEW r \in ThreadState, NEW first,
           Grant(t, c, r, first)
    PROVE  /\ tab'[c].fresh = GivenEntry(c, r, first).fresh
           /\ \A d \in Client \ {c} : tab'[d].fresh = (tab[d].fresh /\ ~Writes(r, first))
  <2> USE <1>GrantFresh
  <2> DEFINE tb == GivenTable(c, r, first)
  <2>1. tb \in [Client -> EntryType] /\ tb[c] = GivenEntry(c, r, first)
    BY GivenTableType
  <2>2. \A d \in Client \ {c} : tb[d].fresh = (tab[d].fresh /\ ~Writes(r, first))
    BY ZenonT(30), <1>GivenFresh
  <2>3. /\ r.lt = "truncate" => sam_remove_lease(tb, c, {"truncate"})
        /\ r.lt # "truncate" => tab' = tb
    BY GrantParts
  <2> HIDE DEF tb
  <2>4. \A d \in Client : tab'[d].fresh = tb[d].fresh
    BY Zenon, <2>1, <2>3, <1>RemoveFresh
  <2> QED BY Zenon, <2>1, <2>2, <2>4
\* What a grant tells its client, and what it makes of the others' pages.
<1>GrantSees. ASSUME IInv, NEW t \in Thread, NEW first, first <=> \A d \in Client : ~tab[d].here,
           first \in BOOLEAN, Grant(t, Host[t], th[t], first)
    PROVE  Sees(t)
  <2> USE <1>GrantSees
  <2> DEFINE c == Host[t]
             r == th[t]
             x == GivenThread(c, r, first)
  <2>1. c \in Client /\ r \in ThreadState
    BY Zenon, SetupTypes DEF IInv, ThreadsType
  <2>2. th' = [th EXCEPT ![t] = x] /\ written' = (written \/ Writes(r, first))
    BY GrantParts
  <2>3. th'[t] = x
    BY Zenon, <2>2 DEF IInv, ThreadsType
  <2>4. /\ GivenEntry(c, r, first).fresh =
              (Writes(r, first) \/ (~first /\ MayRead(r.lt)) \/ Reported(c, r).fresh)
        /\ x.inval = ((~first /\ MayRead(r.lt)) /\ ~Reported(c, r).fresh)
    BY Zenon, <2>1, <1>GivenFresh
  <2>5. /\ unseen' \subseteq unseen \cup (IF MayWrite(r.lt, r.mode) THEN Client \ {c} ELSE {})
        /\ x.inval => c \notin unseen'
    BY Zenon, <2>4, <1>GrantMisses
  <2>6. /\ tab'[c].fresh = GivenEntry(c, r, first).fresh
        /\ \A d \in Client \ {c} : tab'[d].fresh = (tab[d].fresh /\ ~Writes(r, first))
    BY <2>1, <1>GrantFresh
  <2>7. /\ Reported(c, r).fresh => tab[c].fresh \/ ~written
        /\ tab[c].leases # {} => Reported(c, r).fresh = tab[c].fresh
    BY <2>1, <1>ReportedFresh
  <2>8. first = (\A d \in Client : ~tab[d].here)
    BY Zenon
  <2> HIDE DEF x
  <2> QED BY Zenon, <2>2, <2>3, <2>4, <2>5, <2>6, <2>7, <2>8 DEF Sees
<1>GrantedParts. ASSUME IInv, NEW t \in Thread, NEW c \in Client, NEW r \in ThreadState, NEW first,
           Grant(t, c, r, first)
    PROVE  Granted(c, r, GivenThread(c, r, first), GivenEntry(c, r, first))
  <2> USE <1>GrantedParts
  <2> DEFINE x == GivenThread(c, r, first)
             e == GivenEntry(c, r, first)
  <2>1. /\ x.st = "got" /\ x.lt = r.lt /\ x.mask = Given(c, r)
        /\ x.dio = (Shares(c, r.lt) /\ ~Reported(c, r).dio)
        /\ \A l \in Given(c, r) : x.gens[l] = e.gen[l]
    BY GivenTypes
  <2>2. /\ e.dio = Reported(c, r).dio
        /\ \A l \in Lease : e.gen[l] = IF l \in Given(c, r) THEN Reported(c, r).gen[l] + 1
                                       ELSE Reported(c, r).gen[l]
    BY GivenTypes
  <2>3. /\ \A d \in Client \ {c} : /\ tab'[d].leases = tab[d].leases
                                   /\ tab'[d].gen = tab[d].gen /\ tab'[d].dio = tab[d].dio
        /\ \A l \in Lease \ {"truncate"} :
              l \in tab'[c].leases <=> l \in tab[c].leases \cup Given(c, r)
        /\ tab'[c].gen = e.gen /\ tab'[c].dio = e.dio
    BY <1>GrantTable
  <2>4. /\ tab[c].leases # {} => Reported(c, r).gen = tab[c].gen
        /\ Reported(c, r).dio => tab[c].dio \/ r.dio
        /\ r.lt \in Data => Reported(c, r).dio = r.dio
    BY ReportedType
  <2> HIDE DEF x, e
  <2>5. Granted(c, r, x, e)
    BY Zenon, <2>1, <2>2, <2>3, <2>4 DEF Granted
  <2> QED BY Zenon, <2>5 DEF x, e
<1>GrantMoves. ASSUME IInv, NEW t \in Thread, NEW first, setup' = setup, th[t].st = "get", Sees(t),
           Grant(t, Host[t], th[t], first),
           \/ \A d \in Client : ~tab[d].here
           \/ Shares(Host[t], th[t].lt) => sam_callout_directio(Host[t]) = {},
           UNCHANGED <<clientVars, has, notice, wake>>
    PROVE  Moves(t)
  <2> USE <1>GrantMoves
  <2> DEFINE c == Host[t]
             r == th[t]
             x == GivenThread(c, r, first)
             e == GivenEntry(c, r, first)
  <2>1. c \in Client /\ r \in ThreadState
    BY Zenon, SetupTypes DEF IInv, ThreadsType
  <2>2. th' = [th EXCEPT ![t] = x] /\ UNCHANGED <<rel, callout>>
    BY GrantParts
  <2>0. Granted(c, r, x, e)
    BY Zenon, <2>1, <1>GrantedParts
  <2> HIDE DEF x, e
  <2>3. /\ x.st = "got" /\ x.lt = r.lt /\ x.mask = Given(c, r)
        /\ x.dio = (Shares(c, r.lt) /\ ~Reported(c, r).dio)
        /\ \A l \in Given(c, r) : x.gens[l] = e.gen[l]
    BY Zenon, <2>0 DEF Granted
  <2>4. /\ e.dio = Reported(c, r).dio
        /\ \A l \in Lease : e.gen[l] = IF l \in Given(c, r) THEN Reported(c, r).gen[l] + 1
                                       ELSE Reported(c, r).gen[l]
    BY Zenon, <2>0 DEF Granted
  <2>5. /\ \A d \in Client \ {c} : /\ tab'[d].leases = tab[d].leases
                                   /\ tab'[d].gen = tab[d].gen /\ tab'[d].dio = tab[d].dio
        /\ \A l \in Lease \ {"truncate"} :
              l \in tab'[c].leases <=> l \in tab[c].leases \cup Given(c, r)
        /\ tab'[c].gen = e.gen /\ tab'[c].dio = e.dio
    BY Zenon, <2>0 DEF Granted
  <2>6. /\ tab[c].leases # {} => Reported(c, r).gen = tab[c].gen
        /\ Reported(c, r).dio => tab[c].dio \/ r.dio
        /\ r.lt \in Data => Reported(c, r).dio = r.dio
    BY Zenon, <2>0 DEF Granted
  <2>7. Only(t) /\ th'[t] = x /\ has'[t] = has[t]
    BY Zenon, <2>2, <1>Stepped
  <2>8. "open" \in Given(c, r) <=> r.lt = "open"
    BY DEF Given, Implicit
  <2>9. "open" \in Lease /\ ("open" \in tab[c].leases => tab[c].leases # {})
    BY DEF Lease, AllTypes
  <2>10. \/ \A d \in Client : tab[d].leases = {}
         \/ Shares(c, r.lt) =>
               /\ \A d \in Client \ {c} : tab[d].dio \/ ~Meets(tab[d].leases, Data)
               /\ r.lt \in Data => x.dio \/ r.dio
    <3>1. CASE \A d \in Client : ~tab[d].here
      BY Zenon, <3>1, FreeType DEF IInv, ServerType, Cleared
    <3>2. CASE Shares(c, r.lt) => sam_callout_directio(c) = {}
      <4>1. sam_callout_directio(c) = {} =>
              \A d \in Client \ {c} : tab[d].dio \/ ~Meets(tab[d].leases, Data)
        BY Zenon DEF sam_callout_directio
      <4> QED BY Zenon, <2>3, <2>6, <3>2, <4>1
    <3> QED BY Zenon, <3>1, <3>2
  <2>11. r.lt = "open" => x.gens["open"] = tab'[c].gen["open"]
    BY Zenon, <2>3, <2>5, <2>8
  <2>12. "open" \in tab[c].leases => 
           tab'[c].gen["open"] = IF r.lt = "open" THEN tab[c].gen["open"] + 1
                                 ELSE tab[c].gen["open"]
    BY Zenon, <2>4, <2>5, <2>6, <2>8, <2>9
  <2>13. Gets(t)
    BY Zenon, <2>2, <2>3, <2>4, <2>5, <2>6, <2>7, <2>10, <2>11, <2>12 DEF Gets
  <2> QED BY Zenon, <2>7, <2>13 DEF Moves
<1>ServeGetMoves. ASSUME IInv, NEW t \in Thread, ServeGet(t), setup' = setup
    PROVE  Moves(t)
  <2> USE <1>ServeGetMoves
  <2> DEFINE c == Host[t]
             r == th[t]
             first == \A d \in Client : ~tab[d].here
             blocked == MustWait(c, r.lt, r.mode)
             paged == IF ~blocked /\ Shares(c, r.lt) THEN sam_callout_directio(c) ELSE {}
  <2>1. /\ r.st = "get" /\ UNCHANGED <<clientVars, has, notice, wake>>
        /\ \/ Queue(t, c, r, paged)
           \/ Grant(t, c, r, first) /\ (first \/ (~blocked /\ paged = {}))
    BY Zenon DEF ServeGet
  <2>2. first \/ (~blocked /\ paged = {}) =>
          \/ \A d \in Client : ~tab[d].here
          \/ Shares(c, r.lt) => sam_callout_directio(c) = {}
    BY Zenon
  <2> HIDE DEF first, blocked, paged
  <2>3. CASE Queue(t, c, r, paged)
    BY Zenon, <2>1, <2>3, <1>QueueMoves
  <2>4. CASE Grant(t, c, r, first) /\ (first \/ (~blocked /\ paged = {}))
    <3>1. Sees(t)
      BY Zenon, <2>4, <1>GrantSees DEF first
    <3> QED BY Zenon, <2>1, <2>2, <2>4, <3>1, <1>GrantMoves
  <2> QED BY Zenon, <2>1, <2>3, <2>4
<1>ThreadMoves. ASSUME IInv, NEW t \in Thread, ThreadStep(t), setup' = setup
    PROVE  Moves(t)
  BY Zenon, <1>ThreadMoves, <1>StartIOMoves, <1>EndMoves, <1>InterruptedMoves, <1>OpenMoves, <1>AskMoves, <1>CloseMoves, <1>LastCloseMoves, <1>UnmapMoves,
     <1>UnlockMoves, <1>RecordMoves, <1>ServeRemoveMoves, <1>ServeGetMoves DEF ThreadStep
\* A step that leaves the table alone, and one that takes leases from it.
<1>TableStays. ASSUME UNCHANGED serverVars, NEW d \in Client
    PROVE  /\ tab'[d].leases \subseteq tab[d].leases
           /\ "open" \in tab[d].leases =>
                 "open" \in tab'[d].leases /\ tab'[d].gen = tab[d].gen
           /\ tab'[d].dio => tab[d].dio \/ d \in wake
  BY Zenon, <1>TableStays DEF serverVars
<1>ClientExpireMoves. ASSUME IInv, Messages, NEW c \in Client, NEW S \in SUBSET Data, ClientExpire(c, S),
           setup' = setup
    PROVE  Elsewhere
  <2> USE <1>ClientExpireMoves
  <2> DEFINE m == [c |-> c, mask |-> S, sent |-> "append" \notin S, gens |-> cl_leasegen[c]]
  <2>1. /\ cl_leases' = [cl_leases EXCEPT ![c] = cl_leases[c] \ S] /\ rel' = rel \cup {m}
        /\ UNCHANGED <<serverVars, cl_leasegen, directio, th, has, notice, callout, wake>>
    BY Zenon DEF ClientExpire
  <2>2. "open" \notin S /\ m.mask = S
    BY DEF Data
  <2> HIDE DEF m
  <2>3. /\ cl_leases'[c] = cl_leases[c] \ S
        /\ \A d \in Client \ {c} : cl_leases'[d] = cl_leases[d]
    BY Zenon, <2>1 DEF IInv, ClientType
  <2>4. \A d \in Client : "open" \in cl_leases'[d] <=> "open" \in cl_leases[d]
    BY Zenon, <2>2, <2>3
  <2>5. Messages'
    BY Zenon, <2>1, <2>2 DEF Messages
  <2> QED BY Zenon, <2>1, <2>4, <2>5, <1>TableStays, FreshStays DEF Elsewhere
<1>ServerExpireMoves. ASSUME IInv, Messages, NEW c \in Client, NEW S \in SUBSET (Data \cup {"stage"}),
           ServerExpire(c, S), setup' = setup
    PROVE  Elsewhere
  <2> USE <1>ServerExpireMoves
  <2>1. /\ tab' = sam_compact_lease_clients([tab EXCEPT ![c].leases = @ \ S])
        /\ notice' = notice \/ notice' = notice \cup {[c |-> c, mask |-> S]}
        /\ UNCHANGED <<clientVars, th, has, rel, callout, wake>>
    BY Zenon DEF ServerExpire
  <2>2. "open" \notin S /\ [c |-> c, mask |-> S].mask = S
    BY DEF Data
  <2>3. \A d \in Client : /\ tab'[d].leases \subseteq tab[d].leases
                          /\ tab'[d].dio => tab[d].dio
                          /\ \A l \in tab[d].leases \ S :
                                l \in tab'[d].leases /\ tab'[d].gen = tab[d].gen
    BY Zenon, <2>1, Compacted
  <2>4. Messages'
    BY Zenon, <2>1, <2>2 DEF Messages
  <2>5. FreshKept
    <3>1. \A d \in Client : tab'[d].fresh => tab[d].fresh
      BY Zenon, <2>1, <1>CompactedFresh
    <3>2. UNCHANGED <<written, unseen>>
      BY Zenon DEF ServerExpire
    <3> QED BY Zenon, <3>1, <3>2 DEF FreshKept
  <2> QED BY Zenon, <2>1, <2>2, <2>3, <2>4, <2>5 DEF Elsewhere, clientVars
<1>DirectioOnMoves. ASSUME IInv, Messages, NEW c \in Client, DirectioOn(c), setup' = setup
    PROVE  Elsewhere
  <2> USE <1>DirectioOnMoves
  <2>1. /\ directio' = [directio EXCEPT ![c] = TRUE] /\ callout' = callout \ {c}
        /\ wake' = wake \cup {c}
        /\ UNCHANGED <<serverVars, cl_leases, cl_leasegen, th, has, rel, notice>>
    BY Zenon DEF DirectioOn
  <2>2. directio'[c] /\ \A d \in Client \ {c} : directio'[d] = directio[d]
    BY Zenon, <2>1 DEF IInv, ClientType
  <2>3. \A d \in Client : /\ directio[d] => directio'[d]
                          /\ d \in callout => d \in callout' \/ directio'[d]
                          /\ d \in wake' => d \in wake \/ directio'[d]
    BY Zenon, <2>1, <2>2
  <2>4. Messages'
    BY Zenon, <2>1 DEF Messages
  <2> QED BY Zenon, <2>1, <2>3, <2>4, <1>TableStays, FreshStays DEF Elsewhere
<1>ServeWakeupMoves. ASSUME IInv, Messages, NEW c \in Client, ServeWakeup(c), setup' = setup
    PROVE  Elsewhere
  <2> USE <1>ServeWakeupMoves
  <2>1. /\ c \in wake /\ wake' = wake \ {c} /\ tab' = [tab EXCEPT ![c].dio = tab[c].here]
        /\ UNCHANGED <<clientVars, th, has, rel, notice, callout>>
    BY Zenon DEF ServeWakeup
  <2>2. tab \in [Client -> EntryType] /\ tab[c] \in EntryType
    BY Zenon DEF IInv, ServerType
  <2> DEFINE e == [tab[c] EXCEPT !.dio = tab[c].here]
  <2>3. e.leases = tab[c].leases /\ e.gen = tab[c].gen /\ e.fresh = tab[c].fresh
    BY <2>2 DEF EntryType
  <2>4. tab' = [tab EXCEPT ![c] = e]
    BY Zenon, <2>1
  <2> HIDE DEF e
  <2>5. tab'[c] = e /\ \A d \in Client \ {c} : tab'[d] = tab[d]
    BY Zenon, <2>2, <2>4
  <2>6. \A d \in Client : /\ tab'[d].leases = tab[d].leases /\ tab'[d].gen = tab[d].gen
                          /\ tab'[d].dio => tab[d].dio \/ d \in wake
    BY Zenon, <2>1, <2>3, <2>5
  <2>7. Messages'
    BY Zenon, <2>1 DEF Messages
  <2>8. FreshKept
    <3>1. UNCHANGED <<written, unseen>>
      BY Zenon DEF ServeWakeup
    <3> QED BY Zenon, <2>3, <2>5, <3>1 DEF FreshKept
  <2> QED BY Zenon, <2>1, <2>6, <2>7, <2>8 DEF Elsewhere, clientVars
<1>RelinquishMoves. ASSUME IInv, Messages, NEW r \in rel, sam_relinquish_leases(r), setup' = setup
    PROVE  Elsewhere
  <2> USE <1>RelinquishMoves
  <2>1. /\ rel' = (rel \ {r}) \cup {[r EXCEPT !.sent = TRUE]}
        /\ UNCHANGED <<serverVars, clientVars, th, has, notice, callout, wake>>
    BY Zenon DEF sam_relinquish_leases
  <2>2. [r EXCEPT !.sent = TRUE].mask = r.mask
    BY DEF IInv, NetType
  <2>3. Messages'
    BY Zenon, <2>1, <2>2 DEF Messages
  <2> QED BY Zenon, <2>1, <2>3, <1>TableStays, FreshStays DEF Elsewhere, clientVars
<1>ServeRelinquishMoves. ASSUME IInv, Messages, NEW r \in rel, ServeRelinquish(r), setup' = setup
    PROVE  Elsewhere
  <2> USE <1>ServeRelinquishMoves
  <2> DEFINE mask == SameGen(r.c, r.mask, r.gens)
  <2>1. /\ sam_remove_lease(tab, r.c, mask) /\ rel' = rel \ {r}
        /\ UNCHANGED <<clientVars, th, has, notice, callout, wake>>
    BY Zenon DEF ServeRelinquish
  <2>2. r.c \in Client /\ tab \in [Client -> EntryType]
    BY DEF IInv, NetType, ServerType
  <2>3. "open" \notin mask
    BY Zenon DEF Messages, SameGen
  <2> HIDE DEF mask
  <2>4. /\ \A d \in Client \ {r.c} : tab'[d] = tab[d]
        /\ tab'[r.c].leases = tab[r.c].leases \ mask
        /\ tab'[r.c].gen = tab[r.c].gen /\ tab'[r.c].dio = tab[r.c].dio
    BY <2>1, <2>2, RemoveLease
  <2>5. \A d \in Client : /\ tab'[d].leases \subseteq tab[d].leases
                          /\ "open" \in tab[d].leases =>
                                "open" \in tab'[d].leases /\ tab'[d].gen = tab[d].gen
                          /\ tab'[d].dio => tab[d].dio
    BY Zenon, <2>3, <2>4
  <2>6. Messages'
    BY Zenon, <2>1 DEF Messages
  <2>7. FreshKept
    <3>1. \A d \in Client : tab'[d].fresh = tab[d].fresh
      BY <2>1, <2>2, <1>RemoveFresh
    <3>2. UNCHANGED <<written, unseen>>
      BY Zenon DEF ServeRelinquish
    <3> QED BY Zenon, <3>1, <3>2 DEF FreshKept
  <2> QED BY Zenon, <2>1, <2>5, <2>6, <2>7 DEF Elsewhere, clientVars
<1>LeaseExpiredMoves. ASSUME IInv, Messages, NEW n \in notice, LeaseExpired(n), setup' = setup
    PROVE  Elsewhere
  <2> USE <1>LeaseExpiredMoves
  <2>1. /\ cl_leases' = [cl_leases EXCEPT ![n.c] = cl_leases[n.c] \ n.mask]
        /\ notice' = notice \ {n}
        /\ UNCHANGED <<serverVars, cl_leasegen, directio, th, has, rel, callout, wake>>
    BY Zenon DEF LeaseExpired
  <2>2. n.c \in Client
    BY DEF IInv, NetType
  <2>3. /\ cl_leases'[n.c] = cl_leases[n.c] \ n.mask
        /\ \A d \in Client \ {n.c} : cl_leases'[d] = cl_leases[d]
    BY Zenon, <2>1, <2>2 DEF IInv, ClientType
  <2>4. \A d \in Client : "open" \in cl_leases'[d] <=> "open" \in cl_leases[d]
    BY Zenon, <2>3 DEF Messages
  <2>5. Messages'
    BY Zenon, <2>1 DEF Messages
  <2> QED BY Zenon, <2>1, <2>4, <2>5, <1>TableStays, FreshStays DEF Elsewhere
<1>1. CASE Next
  <2>1. \A c \in Client : HostStep(c) /\ setup' = setup => Elsewhere
    BY Zenon, <1>ClientExpireMoves, <1>ServerExpireMoves, <1>DirectioOnMoves, <1>ServeWakeupMoves
       DEF HostStep
  <2> QED
    BY Zenon, <1>1, <2>1, <1>ThreadMoves, <1>RelinquishMoves, <1>ServeRelinquishMoves,
       <1>LeaseExpiredMoves DEF Next
<1>2. CASE UNCHANGED vars
  <2>1. UNCHANGED <<serverVars, clientVars, netVars, th, has, setup>>
    BY Zenon, <1>2 DEF vars, serverVars, clientVars, netVars
  <2> QED BY Zenon, <2>1, <1>TableStays, FreshStays DEF Elsewhere, clientVars, netVars, Messages
<1> QED BY Zenon, <1>1, <1>2

-----------------------------------------------------------------------------
(* The messages.                                                             *)

LEMMA MovesMessages ==
    ASSUME Messages, NEW t \in Thread, Moves(t) PROVE Messages'
<1>1. CASE Quiet
  BY Zenon, <1>1 DEF Quiet, Messages
<1>2. CASE UNCHANGED <<rel, notice>>
  BY Zenon, <1>2 DEF Messages
<1>3. Quiet \/ UNCHANGED <<rel, notice>>
  BY Zenon DEF Moves, Asks, Rests, Closes, Removes, Unlocks, Records, Waits, Gets, Removed,
     netVars
<1> QED BY Zenon, <1>1, <1>2, <1>3

-----------------------------------------------------------------------------
(* Mappings.                                                                 *)

\* Who gives up a map lease is the last that had the file mapped.
Unmapped ==
    \A t \in Thread : th[t].st = "rm" =>
        \/ "mmap" \notin th[t].mask
        \/ th[t].lt \in OpenOrMap /\ Maps(Host[t]) = {}

LEMMA MovesUnmapped ==
    ASSUME Unmapped PROVE \A t \in Thread : Moves(t) => Unmapped'
\* What a step of a thread does to mappings.
<1>MovesMaps. ASSUME NEW t \in Thread, Moves(t)
    PROVE  /\ "mmap" \in has'[t] => "mmap" \in has[t] \/ ~last_unmap(Host[t])
           /\ th'[t].st = "rm" =>
                 \/ "mmap" \notin th'[t].mask
                 \/ /\ th'[t].lt \in OpenOrMap
                    /\ Maps(Host[t]) \subseteq {t} /\ "mmap" \notin has'[t]
  <2> USE <1>MovesMaps
  <2>1. CASE Asks(t)
    BY Zenon, <2>1 DEF Asks, OpenOrMap
  <2>2. CASE Rests(t)
    BY Zenon, <2>2 DEF Rests, OpenOrMap
  <2>3. CASE Closes(t)
    BY Zenon, <2>3 DEF Closes
  <2>4. CASE Removes(t)
    BY Zenon, <2>4 DEF Removes
  <2>5. CASE Unlocks(t)
    BY Zenon, <2>5 DEF Unlocks, OpenOrMap
  <2>6. CASE Records(t)
    BY Zenon, <2>6 DEF Records, OpenOrMap
  <2>7. CASE Waits(t)
    BY Zenon, <2>7 DEF Waits
  <2>8. CASE Gets(t)
    BY Zenon, <2>8 DEF Gets
  <2>9. CASE Removed(t)
    BY Zenon, <2>9 DEF Removed
  <2> QED BY Zenon, <2>1, <2>2, <2>3, <2>4, <2>5, <2>6, <2>7, <2>8, <2>9 DEF Moves
<1> SUFFICES ASSUME NEW t \in Thread, Moves(t) PROVE Unmapped'
  OBVIOUS
<1>1. /\ "mmap" \in has'[t] => "mmap" \in has[t] \/ ~last_unmap(Host[t])
      /\ th'[t].st = "rm" =>
            \/ "mmap" \notin th'[t].mask
            \/ /\ th'[t].lt \in OpenOrMap
               /\ Maps(Host[t]) \subseteq {t} /\ "mmap" \notin has'[t]
  BY Zenon, <1>MovesMaps
<1>2. Host' = Host /\ \A c : ThreadsOf(c)' = ThreadsOf(c)
  BY Zenon DEF Moves, Only, Host, ThreadsOf
<1>3. \A v \in Thread \ {t} : th'[v] = th[v] /\ has'[v] = has[v]
  BY Zenon DEF Moves, Only
<1> SUFFICES ASSUME NEW u \in Thread, th'[u].st = "rm", "mmap" \in th'[u].mask
             PROVE  th'[u].lt \in OpenOrMap /\ Maps(Host[u])' = {}
  BY Zenon, <1>2 DEF Unmapped
<1> SUFFICES ASSUME NEW v \in ThreadsOf(Host[u]), "mmap" \in has'[v],
                    th'[u].lt \in OpenOrMap
             PROVE  FALSE
  <2>1. th'[u].lt \in OpenOrMap
    BY Zenon, <1>1, <1>3 DEF Unmapped
  <2> QED BY Zenon, <1>2, <2>1 DEF Maps
<1>4. v \in Thread /\ Host[v] = Host[u]
  BY Zenon DEF ThreadsOf
<1>5. CASE u = t
  BY Zenon, <1>1, <1>3, <1>4, <1>5 DEF Maps
<1>6. CASE u # t
  <2>1. th[u].st = "rm" /\ th[u].lt \in OpenOrMap /\ Maps(Host[u]) = {}
    BY Zenon, <1>3, <1>6 DEF Unmapped
  <2>2. v = t /\ "mmap" \notin has[t]
    BY Zenon, <1>3, <1>4, <2>1 DEF Maps
  <2>3. last_unmap(Host[t])
    <3>1. u \in ThreadsOf(Host[t])
      BY Zenon, <1>4, <2>2 DEF ThreadsOf
    <3> QED BY Zenon, <2>1, <3>1 DEF last_unmap, OpenOrMap
  <2> QED BY Zenon, <1>1, <2>2, <2>3
<1> QED BY Zenon, <1>5, <1>6

LEMMA ElsewhereUnmapped ==
    ASSUME Unmapped, Elsewhere PROVE Unmapped'
BY Zenon DEF Elsewhere, Unmapped, Maps, ThreadsOf, Host

\* A step at which a request to remove leases ends keeps a map lease it is not for.
LEMMA KeepsMaps ==
    ASSUME IInv, Messages, Unmapped, [Next]_vars, NEW t \in Thread,
           th[t].st = "rm", th'[t].st # "rm",
           NEW u \in ThreadsOf(Host[t]), "mmap" \in has[u],
           "mmap" \in tab[Host[t]].leases
    PROVE  "mmap" \in tab'[Host[t]].leases
<1>1. "mmap" \notin th[t].mask
  BY Zenon DEF Unmapped, Maps
<1>2. Moves(t)
  <2>1. ~Elsewhere
    BY Zenon DEF Elsewhere
  <2>2. \A v \in Thread : Moves(v) => v = t
    BY Zenon DEF Moves, Only
  <2> QED BY Zenon, <2>1, <2>2, NextMoves
<1>3. Removed(t)
  BY Zenon, <1>2 DEF Moves, Asks, Rests, Closes, Removes, Unlocks, Records, Waits, Gets
<1>4. PICK mask : tab'[Host[t]].leases = tab[Host[t]].leases \ mask /\ mask \subseteq th[t].mask
  BY Zenon, <1>3 DEF Removed, SameGen
<1> QED BY Zenon, <1>1, <1>4

-----------------------------------------------------------------------------
(* Direct I/O.                                                               *)

\* Without open there is no close and no mapping either.
NoOpens ==
    \A t \in Thread : /\ has[t] \cap OpenOrMap = {} /\ th[t].st # "close"
                      /\ th[t].st \in {"get", "wait"} => th[t].lt \notin OpenOrMap

\* What the server knows of a client's direct I/O, or is told, is so.
DioKnown ==
    /\ \A c \in Client : tab[c].dio \/ c \in wake => directio[c]
    /\ \A t \in Thread : th[t].st \in {"get", "wait"} /\ th[t].dio => directio[Host[t]]

\* A client uses direct I/O, or is told to.
Told(c) ==
    \/ directio[c] \/ c \in callout
    \/ \E t \in ThreadsOf(c) : th[t].st = "got" /\ th[t].dio

ConflictsTold == \A c, d \in Client : c # d /\ Conflicting(c, d) => Told(c)

DirectInv == "open" \notin LTypes => NoOpens /\ DioKnown /\ ConflictsTold

LEMMA FewerConflicts ==
    ASSUME NEW c \in Client, NEW d \in Client,
           tab'[c].leases \subseteq tab[c].leases, tab'[d].leases \subseteq tab[d].leases,
           Conflicting(c, d)'
    PROVE  Conflicting(c, d)
BY Zenon DEF Conflicting, Meets

LEMMA MovesDirectInv ==
    ASSUME IInv, IInv', DirectInv PROVE \A t \in Thread : Moves(t) => DirectInv'
<1>MovesNoOpens. ASSUME NoOpens, "open" \notin LTypes, NEW t \in Thread, Moves(t)
    PROVE  NoOpens' /\ ~Closes(t) /\ ~Removes(t)
  <2> USE <1>MovesNoOpens
  <2>1. /\ has[t] \cap OpenOrMap = {} /\ th[t].st # "close"
        /\ th[t].st \in {"get", "wait"} => th[t].lt \notin OpenOrMap
    BY Zenon DEF NoOpens
  <2>2. "open" \notin has[t] /\ "mmap" \notin has[t]
    BY Zenon, <2>1 DEF OpenOrMap
  <2>3. ~Closes(t) /\ ~Removes(t)
    BY Zenon, <2>1, <2>2 DEF Closes, Removes
  <2>4. /\ has'[t] \cap OpenOrMap = {} /\ th'[t].st # "close"
        /\ th'[t].st \in {"get", "wait"} => th'[t].lt \notin OpenOrMap
    <3>1. CASE Asks(t)
      <4>1. CASE th'[t].lt \in OpenOrMap
        BY Zenon, <2>1, <2>2, <3>1, <4>1 DEF Asks, OpenOrMap
      <4>2. CASE th'[t].lt \notin OpenOrMap
        <5>1. has'[t] \cap OpenOrMap = {}
          BY Zenon, <2>1, <3>1, <4>2 DEF Asks
        <5> QED BY Zenon, <3>1, <4>2, <5>1 DEF Asks
      <4> QED BY Zenon, <4>1, <4>2
    <3>2. CASE Rests(t)
      <4>1. has'[t] \subseteq has[t]
        BY Zenon, <3>2 DEF Rests
      <4> QED BY Zenon, <2>1, <3>2, <4>1 DEF Rests
    <3>3. CASE Unlocks(t)
      BY Zenon, <2>1, <3>3 DEF Unlocks
    <3>4. CASE Records(t)
      BY Zenon, <2>1, <3>4 DEF Records
    <3>5. CASE Waits(t)
      BY Zenon, <2>1, <3>5 DEF Waits
    <3>6. CASE Gets(t)
      BY Zenon, <2>1, <3>6 DEF Gets
    <3>7. CASE Removed(t)
      BY Zenon, <2>1, <3>7 DEF Removed
    <3> QED BY Zenon, <2>3, <3>1, <3>2, <3>3, <3>4, <3>5, <3>6, <3>7 DEF Moves
  <2>5. \A u \in Thread \ {t} : th'[u] = th[u] /\ has'[u] = has[u]
    BY Zenon DEF Moves, Only
  <2> QED BY Zenon, <2>3, <2>4, <2>5 DEF NoOpens
\* A step of a thread, where there is no open file: what changes of direct I/O.
<1>MovesDirect. ASSUME IInv, NEW t \in Thread, Moves(t), ~Closes(t), ~Removes(t)
    PROVE  /\ \A d \in Client : directio[d] => directio'[d]
           /\ callout \subseteq callout' /\ wake' = wake
           /\ \A d \in Client : tab'[d].dio =>
                 tab[d].dio \/ (d = Host[t] /\ th[t].st = "get" /\ th[t].dio)
           /\ th'[t].st \in {"get", "wait"} /\ th'[t].dio =>
                 \/ directio'[Host[t]] 
                 \/ th[t].st \in {"get", "wait"} /\ th[t].dio
           /\ th[t].st = "got" /\ th[t].dio => directio'[Host[t]]
  <2> USE <1>MovesDirect
  <2>1. CASE Asks(t) \/ Rests(t) \/ Unlocks(t)
    <3>1. Quiet /\ directio' = directio
      BY Zenon, <2>1 DEF Asks, Rests, Unlocks, Paged
    <3>2. callout' = callout /\ wake' = wake /\ tab' = tab
      BY Zenon, <3>1 DEF Quiet, serverVars
    <3>3. th[t].st # "got"
      BY Zenon, <2>1 DEF Asks, Rests, Unlocks
    <3>4. th'[t].st \in {"get", "wait"} => th'[t].dio = directio[Host[t]]
      BY Zenon, <2>1 DEF Asks, Rests, Unlocks
    <3> QED BY Zenon, <3>1, <3>2, <3>3, <3>4
  <2>2. CASE Records(t)
    <3>1. /\ directio' = [directio EXCEPT ![Host[t]] = directio[Host[t]] \/ th[t].dio]
          /\ th'[t].st \in {"idle", "io"} /\ UNCHANGED <<serverVars, netVars>>
      BY Zenon, <2>2 DEF Records
    <3>2. /\ directio'[Host[t]] = (directio[Host[t]] \/ th[t].dio)
          /\ \A d \in Client \ {Host[t]} : directio'[d] = directio[d]
      BY Zenon, <3>1, SetupTypes DEF IInv, ClientType
    <3> QED BY Zenon, <3>1, <3>2 DEF serverVars, netVars
  <2>3. CASE Waits(t)
    BY Zenon, <2>3 DEF Waits, clientVars
  <2>4. CASE Gets(t)
    BY Zenon, <2>4 DEF Gets, clientVars
  <2>5. CASE Removed(t)
    BY Zenon, <2>5 DEF Removed, clientVars, netVars
  <2> QED BY Zenon, <2>1, <2>2, <2>3, <2>4, <2>5 DEF Moves
<1>MovesDio. ASSUME IInv, DioKnown, NEW t \in Thread, Moves(t), ~Closes(t), ~Removes(t)
    PROVE  DioKnown' /\ \A c \in Client : Told(c) => Told(c)'
  <2> USE <1>MovesDio
  <2>1. /\ \A d \in Client : directio[d] => directio'[d]
        /\ callout \subseteq callout' /\ wake' = wake
        /\ \A d \in Client : tab'[d].dio =>
              tab[d].dio \/ (d = Host[t] /\ th[t].st = "get" /\ th[t].dio)
        /\ th'[t].st \in {"get", "wait"} /\ th'[t].dio =>
              \/ directio'[Host[t]] 
              \/ th[t].st \in {"get", "wait"} /\ th[t].dio
        /\ th[t].st = "got" /\ th[t].dio => directio'[Host[t]]
    BY <1>MovesDirect
  <2>2. /\ \A u \in Thread \ {t} : th'[u] = th[u]
        /\ Host' = Host /\ \A c : ThreadsOf(c)' = ThreadsOf(c)
    BY Zenon DEF Moves, Only, Host, ThreadsOf
  <2>3. \A u \in Thread : Host[u] \in Client
    BY Zenon, SetupTypes
  <2>4. \A c \in Client : tab'[c].dio \/ c \in wake' => directio'[c]
    BY Zenon, <2>1 DEF DioKnown
  <2>5. \A u \in Thread : th'[u].st \in {"get", "wait"} /\ th'[u].dio => directio'[Host[u]]
    BY Zenon, <2>1, <2>2, <2>3 DEF DioKnown
  <2>6. ASSUME NEW c \in Client, Told(c) PROVE Told(c)'
    <3>1. CASE directio[c] \/ c \in callout
      BY Zenon, <2>1, <3>1 DEF Told
    <3>2. CASE \E u \in ThreadsOf(c) : th[u].st = "got" /\ th[u].dio
      <4>1. PICK u \in ThreadsOf(c) : th[u].st = "got" /\ th[u].dio
        BY Zenon, <3>2
      <4>2. u \in Thread /\ Host[u] = c
        BY Zenon DEF ThreadsOf
      <4>3. CASE u = t
        BY Zenon, <2>1, <4>1, <4>2, <4>3 DEF Told
      <4>4. CASE u # t
        BY Zenon, <2>2, <4>1, <4>2, <4>4 DEF Told
      <4> QED BY Zenon, <4>3, <4>4
    <3> QED BY Zenon, <2>6, <3>1, <3>2 DEF Told
  <2> QED BY Zenon, <2>2, <2>4, <2>5, <2>6 DEF DioKnown
\* Leases only go unless one is granted.
<1>MovesLeases. ASSUME NEW t \in Thread, Moves(t), ~Gets(t), NEW d \in Client
    PROVE  tab'[d].leases \subseteq tab[d].leases
  <2> USE <1>MovesLeases
  <2>1. CASE UNCHANGED serverVars
    BY Zenon, <2>1 DEF serverVars
  <2>2. CASE Waits(t)
    BY Zenon, <2>2 DEF Waits
  <2>3. CASE Removed(t)
    BY Zenon, <2>3 DEF Removed
  <2>4. UNCHANGED serverVars \/ Waits(t) \/ Removed(t)
    BY Zenon DEF Moves, Asks, Rests, Closes, Removes, Unlocks, Records, Quiet
  <2> QED BY Zenon, <2>1, <2>2, <2>3, <2>4
\* A grant that makes a conflict: the others and the client are told.
<1>GetsTold. ASSUME IInv, IInv', DioKnown, NoOpens, NEW t \in Thread, Moves(t), Gets(t),
           NEW c, c = Host[t], NEW d \in Client, d # c,
           Conflicting(c, d)', ~Conflicting(c, d)
    PROVE  Told(c)' /\ Told(d)'
  <2> USE <1>GetsTold
  <2> DEFINE r == th[t]
             W == {"write", "append"}
  <2>1. /\ r.st = "get" /\ th'[t].st = "got" /\ c \in Client /\ setup' = setup
        /\ tab'[d].leases = tab[d].leases
        /\ \A l \in Lease \ {"truncate"} : l \in tab'[c].leases <=> l \in tab[c].leases \cup Given(c, r)
        /\ UNCHANGED <<directio, callout>>
    BY Zenon, SetupTypes DEF Gets, clientVars, Moves, Only
  <2>2. /\ \A l \in Data : l \in Lease \ {"truncate"}
        /\ W \subseteq Data
    BY DEF Data, Lease, AllTypes
  <2>3. r.lt \in Lease /\ r.lt \notin OpenOrMap
    BY Zenon, <2>1 DEF NoOpens, IInv, ThreadsType, ThreadState, Lease
  <2>4. /\ Given(c, r) \cap Data # {} => r.lt \in Data
        /\ Given(c, r) \cap W # {} => r.lt \in W
    BY <2>3 DEF Given, Implicit, OpenOrMap, Data, Lease, AllTypes
  <2>5. Meets(tab[d].leases, Data)
    BY Zenon, <2>1, <2>2 DEF Conflicting, Meets
  <2>6. /\ r.lt \in Data
        /\ r.lt \in W \/ Meets(tab[d].leases, W)
    <3>1. CASE Meets(tab'[c].leases, W) /\ Meets(tab'[d].leases, Data)
      <4>1. PICK l \in W : l \in tab'[c].leases
        BY Zenon, <3>1 DEF Meets
      <4>2. l \notin tab[c].leases
        BY Zenon, <2>5, <4>1 DEF Conflicting, Meets
      <4>3. Given(c, r) \cap W # {}
        BY Zenon, <2>1, <2>2, <4>1, <4>2
      <4> QED BY Zenon, <2>2, <2>4, <4>3
    <3>2. CASE Meets(tab'[d].leases, W) /\ Meets(tab'[c].leases, Data)
      <4>1. PICK l \in Data : l \in tab'[c].leases
        BY Zenon, <3>2 DEF Meets
      <4>2. l \notin tab[c].leases
        BY Zenon, <2>1, <3>2, <4>1 DEF Conflicting, Meets
      <4>3. Given(c, r) \cap Data # {}
        BY Zenon, <2>1, <2>2, <4>1, <4>2
      <4> QED BY Zenon, <2>1, <2>4, <3>2, <4>3 DEF Meets
    <3> QED BY Zenon, <3>1, <3>2 DEF Conflicting
  <2>7. MH_WRITE
    <3>1. \A S : /\ Meets(tab'[d].leases, S) => Meets(Others(c)', S)
                 /\ Meets(tab'[c].leases, S) => Meets(Others(d)', S)
      BY Zenon, <2>1 DEF Others, Meets
    <3>2. /\ ~MH_WRITE /\ Meets(tab'[c].leases, W) => ~Meets(Others(c)', Data)
          /\ ~MH_WRITE /\ Meets(tab'[d].leases, W) => ~Meets(Others(d)', Data)
      BY Zenon, <2>1 DEF IInv, LeasesExclude, Meets, MH_WRITE
    <3>3. \/ Meets(tab'[c].leases, W) /\ Meets(tab'[d].leases, Data)
          \/ Meets(tab'[d].leases, W) /\ Meets(tab'[c].leases, Data)
      BY Zenon DEF Conflicting, Meets
    <3> QED BY Zenon, <3>1, <3>2, <3>3
  <2>8. Shares(c, r.lt)
    <3>1. PICK l \in Data : l \in Others(c)
      BY Zenon, <2>1, <2>5, OthersHave DEF Meets
    <3>2. Meets(tab[d].leases, W) => Meets(Others(c), W)
      BY Zenon, <2>1, OthersHave DEF Meets
    <3>3. l \in Others(c) \ {"open", "mmap"} /\ l \in Others(c) \ {"open"}
      BY <3>1 DEF Data
    <3>4. r.lt = "read" \/ r.lt = "write" \/ r.lt = "append"
      BY Zenon, <2>6 DEF Data
    <3>5. r.lt = "read" => Meets(Others(c), W)
      BY Zenon, <2>6, <3>2
    <3> QED BY Zenon, <2>7, <3>3, <3>4, <3>5 DEF Shares
  <2>9. /\ tab[d].dio
        /\ th'[t].dio \/ r.dio
    <3>1. tab[d].leases # {}
      BY Zenon, <2>5 DEF Meets
    <3>2. Shares(c, r.lt) => /\ tab[d].dio \/ ~Meets(tab[d].leases, Data)
                             /\ r.lt \in Data => th'[t].dio \/ r.dio
      BY Zenon, <3>1 DEF Gets
    <3> QED BY Zenon, <2>5, <2>6, <2>8, <3>2
  <2>10. directio'[d] /\ (r.dio => directio'[c])
    BY Zenon, <2>1, <2>9 DEF DioKnown
  <2>11. t \in ThreadsOf(c)'
    BY Zenon, <2>1 DEF ThreadsOf, Host
  <2> QED BY Zenon, <2>1, <2>9, <2>10, <2>11 DEF Told
<1> SUFFICES ASSUME NEW t \in Thread, Moves(t) PROVE DirectInv'
  OBVIOUS
<1> SUFFICES ASSUME "open" \notin LTypes PROVE (NoOpens /\ DioKnown /\ ConflictsTold)'
  BY Zenon DEF DirectInv, Moves, Only, LTypes
<1>1. NoOpens /\ DioKnown /\ ConflictsTold
  BY Zenon DEF DirectInv
<1>2. NoOpens' /\ ~Closes(t) /\ ~Removes(t)
  BY Zenon, <1>1, <1>MovesNoOpens
<1>3. DioKnown' /\ \A c \in Client : Told(c) => Told(c)'
  BY Zenon, <1>1, <1>2, <1>MovesDio
<1>4. ASSUME NEW c \in Client, NEW d \in Client, c # d, Conflicting(c, d)' PROVE Told(c)'
  <2>1. CASE Conflicting(c, d)
    BY Zenon, <1>1, <1>3, <1>4, <2>1 DEF ConflictsTold
  <2>2. CASE ~Conflicting(c, d)
    <3>1. Gets(t)
      BY Zenon, <1>4, <2>2, <1>MovesLeases, FewerConflicts
    <3>2. CASE c = Host[t]
      BY Zenon, <1>1, <1>4, <2>2, <3>1, <3>2, <1>GetsTold
    <3>3. CASE d = Host[t]
      <4>1. Conflicting(d, c)' /\ ~Conflicting(d, c)
        BY Zenon, <1>4, <2>2 DEF Conflicting
      <4> QED BY Zenon, <1>1, <1>4, <3>1, <3>3, <4>1, <1>GetsTold
    <3>4. CASE c # Host[t] /\ d # Host[t]
      <4>1. tab'[c].leases = tab[c].leases /\ tab'[d].leases = tab[d].leases
        BY Zenon, <1>4, <3>1, <3>4 DEF Gets
      <4> QED BY Zenon, <1>4, <2>2, <4>1 DEF Conflicting
    <3> QED BY Zenon, <3>2, <3>3, <3>4
  <2> QED BY Zenon, <2>1, <2>2
<1> QED BY Zenon, <1>2, <1>3, <1>4 DEF ConflictsTold

LEMMA ElsewhereDirectInv ==
    ASSUME IInv, DirectInv, Elsewhere PROVE DirectInv'
<1> SUFFICES ASSUME "open" \notin LTypes PROVE (NoOpens /\ DioKnown /\ ConflictsTold)'
  BY Zenon DEF DirectInv, Elsewhere, LTypes
<1>1. NoOpens /\ DioKnown /\ ConflictsTold
  BY Zenon DEF DirectInv
<1>2. /\ Host' = Host /\ th' = th /\ has' = has
      /\ \A c \in Client : ThreadsOf(c)' = ThreadsOf(c)
  BY Zenon DEF Elsewhere, Host, ThreadsOf
<1>3. \A t \in Thread : Host[t] \in Client
  BY Zenon, SetupTypes
<1>4. NoOpens'
  BY Zenon, <1>1, <1>2 DEF NoOpens
<1>5. DioKnown'
  BY Zenon, <1>1, <1>2, <1>3 DEF DioKnown, Elsewhere
<1>6. \A c \in Client : Told(c) => Told(c)'
  BY Zenon, <1>2 DEF Told, Elsewhere
<1>7. \A c \in Client : tab'[c].leases \subseteq tab[c].leases
  BY Zenon DEF Elsewhere
<1>8. \A c, d \in Client : Conflicting(c, d)' => Conflicting(c, d)
  BY Zenon, <1>7, FewerConflicts
<1> QED BY Zenon, <1>1, <1>4, <1>5, <1>6, <1>8 DEF ConflictsTold

-----------------------------------------------------------------------------
(* The open lease of a host with one thread.                                 *)

\* The thread in state r that holds h, whether the server's table has the open
\* lease of its host (own) with generation tg, and whether the host has recorded
\* it (rec) with generation gen.  The generations differ only between the grant
\* and its record, so that the close always names the one in the table.
OpenState(r, h, own, rec, tg, gen) ==
    /\ r.st \in {"get", "wait", "got"} /\ r.lt \in OpenOrMap => r.lt \in h
    /\ r.st \in {"get", "wait"} /\ r.lt = "mmap" => "open" \in h
    /\ r.st = "got" => ("open" \in r.mask <=> r.lt = "open")
    /\ r.st = "got" /\ r.lt = "open" =>
          own /\ r.gens["open"] = tg /\ (rec => gen < tg)
    /\ rec => own /\ ~(r.st = "rm" /\ "open" \in r.mask)
    /\ own => /\ \/ Meets(h, OpenOrMap) \/ r.st = "close"
                 \/ r.st = "rm" /\ "open" \in r.mask
              /\ (r.st = "got" /\ r.lt = "open") \/ gen = tg
    /\ r.st = "rm" /\ "open" \in r.mask => r.gens["open"] = gen

OpenStateOf(t) ==
    LET c == Host[t]
    IN  OpenState(th[t], has[t], "open" \in tab[c].leases, "open" \in cl_leases[c],
                  tab[c].gen["open"], cl_leasegen[c]["open"])

OpenInv == \A t \in Thread : ThreadsOf(Host[t]) = {t} => OpenStateOf(t)

\* The step of a thread and the open leases of the other hosts.
LEMMA MovesAway ==
    ASSUME IInv, NEW t \in Thread, Moves(t), NEW d \in Client, d # Host[t]
    PROVE  /\ tab'[d].leases = tab[d].leases /\ tab'[d].gen = tab[d].gen
           /\ cl_leasegen'[d] = cl_leasegen[d]
           /\ "open" \in cl_leases'[d] <=> "open" \in cl_leases[d]
<1>1. CASE Quiet
  BY Zenon, <1>1 DEF Quiet, serverVars
<1>2. CASE Removes(t)
  BY Zenon, <1>2 DEF Removes, serverVars, IInv, ClientType
<1>3. CASE Records(t)
  BY Zenon, <1>3 DEF Records, serverVars
<1>4. CASE Waits(t)
  BY Zenon, <1>4 DEF Waits, clientVars
<1>5. CASE Gets(t)
  BY Zenon, <1>5 DEF Gets, clientVars
<1>6. CASE Removed(t)
  BY Zenon, <1>6 DEF Removed, clientVars
<1>7. Quiet \/ Removes(t) \/ Records(t) \/ Waits(t) \/ Gets(t) \/ Removed(t)
  BY Zenon DEF Moves, Asks, Rests, Closes, Unlocks
<1> QED BY Zenon, <1>1, <1>2, <1>3, <1>4, <1>5, <1>6, <1>7

LEMMA OpenNext ==
    ASSUME NEW t \in Thread, setup' = setup,
           OpenState(th'[t], has'[t], "open" \in tab'[Host[t]].leases,
                     "open" \in cl_leases'[Host[t]], tab'[Host[t]].gen["open"],
                     cl_leasegen'[Host[t]]["open"])
    PROVE  OpenStateOf(t)'
<1>1. Host' = Host
  BY Zenon DEF Host
<1> QED BY Zenon, <1>1 DEF OpenStateOf, OpenState, Meets, OpenOrMap

LEMMA MovesOpen ==
    ASSUME IInv, OpenInv PROVE \A t \in Thread : Moves(t) => OpenInv'
\* A step without effect on the open lease: the thread's own part.
<1>QuietOpen. ASSUME NEW t \in Thread, Quiet, setup' = setup, OpenStateOf(t), Host[t] \in Client,
           th[t].st # "got", th'[t].st # "got",
           ~(th[t].st = "rm" /\ "open" \in th[t].mask),
           ~(th'[t].st = "rm" /\ "open" \in th'[t].mask),
           Meets(has[t], OpenOrMap) \/ th[t].st = "close" =>
              Meets(has'[t], OpenOrMap) \/ th'[t].st = "close",
           th'[t].st \in {"get", "wait"} /\ th'[t].lt \in OpenOrMap =>
              th'[t].lt \in has'[t] /\ "open" \in has'[t]
    PROVE  OpenStateOf(t)'
  <2> USE <1>QuietOpen
  <2>1. Host' = Host /\ tab' = tab /\ cl_leasegen' = cl_leasegen
        /\ ("open" \in cl_leases'[Host[t]] <=> "open" \in cl_leases[Host[t]])
    BY Zenon DEF Quiet, serverVars, Host
  <2> DEFINE own == "open" \in tab[Host[t]].leases
             rec == "open" \in cl_leases[Host[t]]
             tg == tab[Host[t]].gen["open"]
             gen == cl_leasegen[Host[t]]["open"]
  <2>2. OpenState(th[t], has[t], own, rec, tg, gen)
    BY Zenon DEF OpenStateOf
  <2>3. OpenStateOf(t)' <=> OpenState(th'[t], has'[t], own, "open" \in cl_leases'[Host[t]], tg, gen)
    BY Zenon, <2>1 DEF OpenStateOf, OpenState, Meets, OpenOrMap
  <2>4. "open" \in cl_leases'[Host[t]] <=> rec
    BY Zenon, <2>1
  <2> HIDE DEF own, rec, tg, gen
  <2>5. "mmap" \in OpenOrMap
    BY DEF OpenOrMap
  <2> QED BY Zenon, <2>2, <2>3, <2>4, <2>5 DEF OpenState
\* Asking, resting, closing and unlocking.
<1>QuietMovesOpen. ASSUME IInv, NEW t \in Thread, Only(t), OpenStateOf(t), ThreadsOf(Host[t]) = {t},
           Asks(t) \/ Rests(t) \/ Closes(t) \/ Unlocks(t)
    PROVE  OpenStateOf(t)'
  <2> USE <1>QuietMovesOpen
  <2>1. setup' = setup /\ Host[t] \in Client
    BY Zenon, SetupTypes DEF Only
  <2>2. CASE Asks(t)
    <3>1. /\ Quiet /\ th[t].st \in {"idle", "wait"} /\ th'[t].st = "get"
          /\ has[t] \subseteq has'[t]
      BY Zenon, <2>2 DEF Asks
    <3>2. Meets(has[t], OpenOrMap) => Meets(has'[t], OpenOrMap)
      BY Zenon, <3>1 DEF Meets
    <3>3. th'[t].lt \in OpenOrMap => th'[t].lt \in has'[t] /\ "open" \in has'[t]
      BY Zenon, <2>2 DEF Asks, OpenStateOf, OpenState, OpenOrMap
    <3> QED BY Zenon, <2>1, <3>1, <3>2, <3>3, <1>QuietOpen
  <2>3. CASE Rests(t)
    <3>1. /\ Quiet /\ th[t].st \in {"idle", "io", "unmap", "close", "wait"}
          /\ th'[t].st \in {"idle", "io", "unmap"}
      BY Zenon, <2>3 DEF Rests
    <3>2. Meets(has[t], OpenOrMap) \/ th[t].st = "close" => Meets(has'[t], OpenOrMap)
      <4>1. CASE th[t].st = "wait"
        <5>1. th[t].lt = "mmap" => "open" \in has[t]
          BY Zenon, <4>1 DEF OpenStateOf, OpenState
        <5>2. has'[t] = has[t] \ ({th[t].lt} \cap {"mmap"})
          BY Zenon, <2>3, <4>1 DEF Rests
        <5> QED BY Zenon, <4>1, <5>1, <5>2 DEF Meets, OpenOrMap
      <4>2. CASE th[t].st # "wait"
        BY Zenon, <2>3, <4>2 DEF Rests, Meets, OpenOrMap
      <4> QED BY Zenon, <4>1, <4>2
    <3> QED BY Zenon, <2>1, <3>1, <3>2, <1>QuietOpen
  <2>4. CASE Closes(t)
    BY Zenon, <2>1, <2>4, <1>QuietOpen DEF Closes
  <2>5. CASE Unlocks(t)
    <3>1. /\ Quiet /\ th[t].st = "idle" /\ th'[t].st = "rm" /\ "open" \notin th'[t].mask
      BY Zenon, <2>5 DEF Unlocks, OpenOrMap
    <3>2. Meets(has[t], OpenOrMap) => Meets(has'[t], OpenOrMap)
      BY Zenon, <2>5 DEF Unlocks, Meets
    <3> QED BY Zenon, <2>1, <3>1, <3>2, <1>QuietOpen
  <2> QED BY Zenon, <2>2, <2>3, <2>4, <2>5
\* The last close and the last unmap.
<1>RemovesOpen. ASSUME IInv, NEW t \in Thread, Only(t), OpenStateOf(t), Removes(t)
    PROVE  OpenStateOf(t)'
  <2> USE <1>RemovesOpen
  <2> DEFINE c == Host[t]
  <2>1. setup' = setup /\ c \in Client
    BY Zenon, SetupTypes DEF Only
  <2>2. /\ th'[t].st = "rm" /\ "open" \in th'[t].mask /\ th'[t].gens = cl_leasegen[c]
        /\ tab' = tab /\ cl_leasegen' = cl_leasegen
        /\ th[t].st \in {"close", "idle"}
    BY DEF Removes, serverVars, CL_CLOSE, Lease, AllTypes
  <2>3. "open" \notin cl_leases'[c]
    <3>1. cl_leases'[c] = {}
      BY Zenon, <2>1 DEF Removes, IInv, ClientType
    <3> QED BY Zenon, <3>1
  <2>4. OpenState(th'[t], has'[t], "open" \in tab'[c].leases, "open" \in cl_leases'[c],
                  tab'[c].gen["open"], cl_leasegen'[c]["open"])
    BY Zenon, <2>2, <2>3 DEF OpenState, OpenStateOf
  <2> QED BY Zenon, <2>1, <2>4, OpenNext
\* The record of a lease.
<1>RecordsOpen. ASSUME IInv, NEW t \in Thread, Only(t), OpenStateOf(t), Records(t)
    PROVE  OpenStateOf(t)'
  <2> USE <1>RecordsOpen
  <2> DEFINE c == Host[t]
             r == th[t]
             own == "open" \in tab[c].leases
             rec == "open" \in cl_leases[c]
             tg == tab[c].gen["open"]
             gen == cl_leasegen[c]["open"]
             g == cl_leasegen'[c]["open"]
  <2>1. setup' = setup /\ c \in Client
    BY Zenon, SetupTypes DEF Only
  <2>2. OpenState(r, has[t], own, rec, tg, gen)
    BY Zenon DEF OpenStateOf
  <2>3. /\ r.st = "got" /\ th'[t].st \in {"idle", "io"} /\ tab' = tab
        /\ "open" \in cl_leases'[c] <=> rec \/ "open" \in r.mask
        /\ has'[t] \cap OpenOrMap = has[t] \cap OpenOrMap
        /\ g = IF "open" \in r.mask /\ (~rec \/ r.gens["open"] > gen)
               THEN r.gens["open"] ELSE gen
    BY Zenon DEF Records, serverVars
  <2>4. own => Meets(has'[t], OpenOrMap)
    BY Zenon, <2>2, <2>3 DEF OpenState, Meets
  <2>5. tg \in Nat /\ gen \in Nat
    <3>1. tab[c] \in EntryType /\ cl_leasegen[c] \in [Lease -> Nat] /\ "open" \in Lease
      BY <2>1 DEF IInv, ServerType, ClientType, Lease, AllTypes
    <3> QED BY <3>1 DEF EntryType
  <2> HIDE DEF own, rec, tg, gen, g
  <2>6. r.lt = "open" => g = tg /\ own
    <3> HAVE r.lt = "open"
    <3>1. "open" \in r.mask /\ r.gens["open"] = tg /\ (rec => gen < tg) /\ own
      BY Zenon, <2>2, <2>3 DEF OpenState
    <3>2. rec => r.gens["open"] > gen
      BY <2>5, <3>1
    <3> QED BY Zenon, <2>3, <3>1, <3>2
  <2>7. r.lt # "open" => g = gen /\ (own => gen = tg) /\ "open" \notin r.mask
    BY Zenon, <2>2, <2>3 DEF OpenState
  <2>8. (rec => own) /\ (own => g = tg) /\ ("open" \in cl_leases'[c] => own)
    BY Zenon, <2>2, <2>3, <2>6, <2>7 DEF OpenState
  <2>9. OpenState(th'[t], has'[t], own, "open" \in cl_leases'[c], tg, g)
    BY Zenon, <2>3, <2>4, <2>8 DEF OpenState
  <2> QED BY Zenon, <2>1, <2>3, <2>9, OpenNext DEF own, tg, g
\* The answers of the server.
<1>WaitsOpen. ASSUME IInv, NEW t \in Thread, Only(t), OpenStateOf(t), Waits(t)
    PROVE  OpenStateOf(t)'
  <2> USE <1>WaitsOpen
  <2> DEFINE c == Host[t]
  <2>1. setup' = setup /\ c \in Client
    BY Zenon, SetupTypes DEF Only
  <2>2. /\ th[t].st = "get" /\ th'[t].st = "wait" /\ th'[t].lt = th[t].lt /\ has'[t] = has[t]
        /\ tab'[c].leases = tab[c].leases
        /\ "open" \in tab[c].leases => tab'[c].gen["open"] = tab[c].gen["open"]
        /\ cl_leases' = cl_leases /\ cl_leasegen' = cl_leasegen
    BY Zenon DEF Waits, clientVars
  <2>3. OpenState(th'[t], has'[t], "open" \in tab'[c].leases, "open" \in cl_leases'[c],
                  tab'[c].gen["open"], cl_leasegen'[c]["open"])
    BY Zenon, <2>2 DEF OpenState, OpenStateOf
  <2> QED BY Zenon, <2>1, <2>3, OpenNext
<1>GetsOpen. ASSUME IInv, NEW t \in Thread, Only(t), OpenStateOf(t), Gets(t)
    PROVE  OpenStateOf(t)'
  <2> USE <1>GetsOpen
  <2> DEFINE c == Host[t]
             r == th[t]
             own == "open" \in tab[c].leases
             rec == "open" \in cl_leases[c]
             tg == tab[c].gen["open"]
             tg2 == tab'[c].gen["open"]
             gen == cl_leasegen[c]["open"]
  <2>1. setup' = setup /\ c \in Client
    BY Zenon, SetupTypes DEF Only
  <2>2. OpenState(r, has[t], own, rec, tg, gen)
    BY Zenon DEF OpenStateOf
  <2>3. "open" \in Given(c, r) <=> r.lt = "open"
    BY DEF Given, Implicit
  <2>4. "open" \in Lease \ {"truncate"}
    BY DEF Lease, AllTypes
  <2>5. /\ r.st = "get" /\ th'[t].st = "got" /\ th'[t].lt = r.lt /\ has'[t] = has[t]
        /\ "open" \in th'[t].mask <=> r.lt = "open"
        /\ "open" \in tab'[c].leases <=> own \/ r.lt = "open"
        /\ r.lt = "open" => th'[t].gens["open"] = tg2
        /\ own => tg2 = IF r.lt = "open" THEN tg + 1 ELSE tg
        /\ cl_leases' = cl_leases /\ cl_leasegen' = cl_leasegen
    BY Zenon, <2>3, <2>4 DEF Gets, clientVars
  <2>6. tg \in Nat
    <3>1. tab[c] \in EntryType /\ "open" \in Lease
      BY <2>1 DEF IInv, ServerType, Lease, AllTypes
    <3> QED BY <3>1 DEF EntryType
  <2> HIDE DEF own, rec, tg, tg2, gen
  <2>7. (rec => own) /\ (own => gen = tg /\ Meets(has[t], OpenOrMap))
        /\ (r.lt \in OpenOrMap => r.lt \in has[t])
    BY Zenon, <2>2, <2>5 DEF OpenState
  <2>8. rec /\ r.lt = "open" => gen < tg2
    BY <2>5, <2>6, <2>7
  <2>9. own \/ r.lt = "open" => Meets(has'[t], OpenOrMap)
    BY Zenon, <2>5, <2>7 DEF Meets, OpenOrMap
  <2>10. OpenState(th'[t], has'[t], "open" \in tab'[c].leases, rec, tg2, gen)
    BY Zenon, <2>5, <2>7, <2>8, <2>9 DEF OpenState
  <2> QED BY Zenon, <2>1, <2>5, <2>10, OpenNext DEF rec, tg2, gen
<1>RemovedOpen. ASSUME IInv, NEW t \in Thread, Only(t), OpenStateOf(t), Removed(t)
    PROVE  OpenStateOf(t)'
  <2> USE <1>RemovedOpen
  <2> DEFINE c == Host[t]
             r == th[t]
  <2>1. setup' = setup /\ c \in Client
    BY Zenon, SetupTypes DEF Only
  <2>2. /\ r.st = "rm" /\ th'[t].st = "idle" /\ has'[t] = has[t]
        /\ tab'[c].gen = tab[c].gen /\ cl_leases' = cl_leases /\ cl_leasegen' = cl_leasegen
    BY Zenon DEF Removed, clientVars
  <2>3. CASE "open" \in r.mask
    <3>1. "open" \notin cl_leases[c] /\ ("open" \in tab[c].leases => r.gens["open"] = tab[c].gen["open"])
      BY Zenon, <2>2, <2>3 DEF OpenStateOf, OpenState
    <3>2. "open" \notin tab'[c].leases
      BY Zenon, <2>3, <3>1 DEF Removed, SameGen
    <3>3. OpenState(th'[t], has'[t], "open" \in tab'[c].leases, "open" \in cl_leases'[c],
                  tab'[c].gen["open"], cl_leasegen'[c]["open"])
      BY Zenon, <2>2, <3>1, <3>2 DEF OpenState
    <3> QED BY Zenon, <2>1, <3>3, OpenNext
  <2>4. CASE "open" \notin r.mask
    <3>1. "open" \in tab'[c].leases <=> "open" \in tab[c].leases
      BY Zenon, <2>4 DEF Removed
    <3>2. OpenState(th'[t], has'[t], "open" \in tab'[c].leases, "open" \in cl_leases'[c],
                  tab'[c].gen["open"], cl_leasegen'[c]["open"])
      BY Zenon, <2>2, <2>4, <3>1 DEF OpenState, OpenStateOf
    <3> QED BY Zenon, <2>1, <3>2, OpenNext
  <2> QED BY Zenon, <2>3, <2>4
<1> SUFFICES ASSUME NEW t \in Thread, Moves(t) PROVE OpenInv'
  OBVIOUS
<1>1. Only(t) /\ setup' = setup /\ Host' = Host /\ \A c : ThreadsOf(c)' = ThreadsOf(c)
  BY Zenon DEF Moves, Only, Host, ThreadsOf
<1>2. ASSUME ThreadsOf(Host[t]) = {t} PROVE OpenStateOf(t)'
  <2>1. OpenStateOf(t)
    BY Zenon, <1>2 DEF OpenInv
  <2> QED BY Zenon, <1>1, <1>2, <2>1, <1>QuietMovesOpen, <1>RemovesOpen, <1>RecordsOpen, <1>WaitsOpen,
             <1>GetsOpen, <1>RemovedOpen DEF Moves
<1>3. ASSUME NEW u \in Thread \ {t}, ThreadsOf(Host[u]) = {u} PROVE OpenStateOf(u)'
  <2> DEFINE d == Host[u]
  <2>1. d \in Client /\ d # Host[t]
    BY Zenon, <1>3, SetupTypes DEF ThreadsOf
  <2>2. /\ tab'[d].leases = tab[d].leases /\ tab'[d].gen = tab[d].gen
        /\ cl_leasegen'[d] = cl_leasegen[d]
        /\ "open" \in cl_leases'[d] <=> "open" \in cl_leases[d]
    BY Zenon, <2>1, MovesAway
  <2>3. th'[u] = th[u] /\ has'[u] = has[u] /\ OpenStateOf(u)
    BY Zenon, <1>1, <1>3 DEF Only, OpenInv
  <2>4. OpenState(th'[u], has'[u], "open" \in tab'[d].leases, "open" \in cl_leases'[d],
                tab'[d].gen["open"], cl_leasegen'[d]["open"])
    BY Zenon, <2>2, <2>3 DEF OpenState, OpenStateOf
  <2> QED BY Zenon, <1>1, <1>3, <2>4, OpenNext
<1> QED BY Zenon, <1>1, <1>2, <1>3 DEF OpenInv

LEMMA ElsewhereOpen ==
    ASSUME IInv, OpenInv, Elsewhere PROVE OpenInv'
<1>1. setup' = setup /\ Host' = Host /\ \A c : ThreadsOf(c)' = ThreadsOf(c)
  BY Zenon DEF Elsewhere, Host, ThreadsOf
<1>2. ASSUME NEW u \in Thread, ThreadsOf(Host[u]) = {u} PROVE OpenStateOf(u)'
  <2> DEFINE d == Host[u]
  <2>1. d \in Client
    BY Zenon, SetupTypes
  <2>2. /\ "open" \in tab'[d].leases <=> "open" \in tab[d].leases
        /\ "open" \in tab[d].leases => tab'[d].gen = tab[d].gen
        /\ cl_leasegen' = cl_leasegen /\ th' = th /\ has' = has
        /\ "open" \in cl_leases'[d] <=> "open" \in cl_leases[d]
    BY Zenon, <2>1 DEF Elsewhere
  <2>3. OpenStateOf(u)
    BY Zenon, <1>2 DEF OpenInv
  <2>4. OpenState(th'[u], has'[u], "open" \in tab'[d].leases, "open" \in cl_leases'[d],
                tab'[d].gen["open"], cl_leasegen'[d]["open"])
    BY Zenon, <2>2, <2>3 DEF OpenState, OpenStateOf
  <2> QED BY Zenon, <1>1, <2>4, OpenNext
<1> QED BY Zenon, <1>1, <1>2 DEF OpenInv

-----------------------------------------------------------------------------
(* Stale pages.                                                              *)

\* The thread in state r that holds h, and whether the server's table has the
\* open lease of its host: it does I/O only with an open lease, which the table
\* has from its grant to the last close.
HeldState(r, h, own) ==
    /\ "open" \in h => own \/ (r.st \in {"get", "wait"} /\ r.lt = "open")
    /\ "open" \in LTypes /\ r.st \in {"get", "wait"} /\ r.lt \in Data \cup {"mmap"}
          => "open" \in h
    /\ r.st = "rm" /\ "open" \in r.mask => "open" \notin h
    /\ r.st \in {"get", "wait"} => r.lt \in LTypes

HeldStateOf(t) == HeldState(th[t], has[t], "open" \in tab[Host[t]].leases)

HeldInv == \A t \in Thread : ThreadsOf(Host[t]) = {t} => HeldStateOf(t)

LEMMA HeldNext ==
    ASSUME NEW t \in Thread, setup' = setup,
           HeldState(th'[t], has'[t], "open" \in tab'[Host[t]].leases)
    PROVE  HeldStateOf(t)'
<1>1. Host' = Host /\ LTypes' = LTypes
  BY Zenon DEF Host, LTypes
<1> QED BY Zenon, <1>1 DEF HeldStateOf, HeldState, Data

LEMMA MovesHeld ==
    ASSUME IInv, HeldInv PROVE \A t \in Thread : Moves(t) => HeldInv'
\* A step that leaves the table alone.
<1>QuietHeld. ASSUME IInv, NEW t \in Thread, ThreadsOf(Host[t]) = {t}, HeldStateOf(t),
           \/ Asks(t) \/ Rests(t) \/ Closes(t) \/ Removes(t) \/ Unlocks(t) \/ Records(t)
    PROVE  HeldState(th'[t], has'[t], "open" \in tab'[Host[t]].leases)
  <2> USE <1>QuietHeld
  <2> DEFINE r == th[t]
             own == "open" \in tab[Host[t]].leases
  <2>1. tab' = tab
    BY Zenon DEF Asks, Rests, Closes, Removes, Unlocks, Records, Quiet, serverVars
  <2>2. HeldState(r, has[t], own)
    BY Zenon DEF HeldStateOf
  <2> SUFFICES HeldState(th'[t], has'[t], own)
    BY Zenon, <2>1
  <2> HIDE DEF own
  <2>3. CASE Asks(t)
    <3>1. CASE r.st = "wait" /\ th'[t].lt = r.lt /\ has'[t] = has[t]
      BY Zenon, <2>2, <2>3, <3>1 DEF HeldState, Asks
    <3>2. CASE /\ r.st = "idle" /\ has'[t] = has[t] \cup ({th'[t].lt} \cap OpenOrMap)
               /\ th'[t].lt \in LTypes
               /\ th'[t].lt \in Data /\ "open" \in LTypes => "open" \in has[t]
               /\ th'[t].lt = "mmap" => "open" \in has[t]
      <4>1. "open" \in has'[t] <=> "open" \in has[t] \/ th'[t].lt = "open"
        BY Zenon, <3>2 DEF OpenOrMap
      <4>2. "open" \in has[t] => own
        BY Zenon, <2>2, <3>2 DEF HeldState
      <4>3. th'[t].st = "get"
        BY Zenon, <2>3 DEF Asks
      <4> QED BY Zenon, <3>2, <4>1, <4>2, <4>3 DEF HeldState
    <3> QED BY Zenon, <2>3, <3>1, <3>2 DEF Asks
  <2>4. CASE Rests(t)
    <3>1. /\ th'[t].st \in {"idle", "io", "unmap"}
          /\ r.st \in {"idle", "io", "unmap", "close", "wait"} /\ (r.st = "wait" => r.lt # "open")
          /\ "open" \in has'[t] => "open" \in has[t]
      BY Zenon, <2>4 DEF Rests
    <3> QED BY Zenon, <2>2, <3>1 DEF HeldState
  <2>5. CASE Closes(t)
    <3>1. th'[t].st = "close" /\ "open" \notin has'[t]
      BY Zenon, <2>5 DEF Closes
    <3> QED BY Zenon, <3>1 DEF HeldState
  <2>6. CASE Removes(t)
    <3>1. th'[t].st = "rm" /\ "open" \notin has'[t]
      BY Zenon, <2>6 DEF Removes
    <3> QED BY Zenon, <3>1 DEF HeldState
  <2>7. CASE Unlocks(t)
    <3>1. /\ r.st = "idle" /\ th'[t].st = "rm" /\ "open" \notin th'[t].mask
          /\ "open" \in has'[t] => "open" \in has[t]
      BY <2>7 DEF Unlocks, OpenOrMap
    <3> QED BY Zenon, <2>2, <3>1 DEF HeldState
  <2>8. CASE Records(t)
    <3>1. /\ r.st = "got" /\ th'[t].st \in {"idle", "io"}
          /\ has'[t] \cap OpenOrMap = has[t] \cap OpenOrMap
      BY ZenonT(30), <2>8 DEF Records
    <3>2. "open" \in has'[t] => "open" \in has[t]
      BY <3>1 DEF OpenOrMap
    <3> QED BY Zenon, <2>2, <3>1, <3>2 DEF HeldState
  <2> QED BY Zenon, <2>3, <2>4, <2>5, <2>6, <2>7, <2>8
\* The answers of the server.
<1>AnswerHeld. ASSUME IInv, NEW t \in Thread, HeldStateOf(t), Waits(t) \/ Gets(t) \/ Removed(t)
    PROVE  HeldState(th'[t], has'[t], "open" \in tab'[Host[t]].leases)
  <2> USE <1>AnswerHeld
  <2> DEFINE c == Host[t]
             r == th[t]
  <2>1. HeldState(r, has[t], "open" \in tab[c].leases)
    BY Zenon DEF HeldStateOf
  <2>2. CASE Waits(t)
    <3>1. /\ r.st = "get" /\ th'[t].st = "wait" /\ th'[t].lt = r.lt /\ has'[t] = has[t]
          /\ tab'[c].leases = tab[c].leases
      BY Zenon, <2>2 DEF Waits
    <3> QED BY Zenon, <2>1, <3>1 DEF HeldState
  <2>3. CASE Gets(t)
    <3>1. "open" \in Lease \ {"truncate"} /\ (r.lt = "open" => "open" \in Given(c, r))
      BY DEF Lease, AllTypes, Given
    <3>2. /\ th'[t].st = "got" /\ has'[t] = has[t]
          /\ "open" \in tab[c].leases \/ r.lt = "open" => "open" \in tab'[c].leases
      BY Zenon, <2>3, <3>1 DEF Gets
    <3> QED BY Zenon, <2>1, <3>2 DEF HeldState
  <2>4. CASE Removed(t)
    <3>1. /\ r.st = "rm" /\ th'[t].st = "idle" /\ has'[t] = has[t]
          /\ "open" \notin r.mask => tab'[c].leases = tab[c].leases \ r.mask
      BY Zenon, <2>4 DEF Removed
    <3> QED BY Zenon, <2>1, <3>1 DEF HeldState
  <2> QED BY Zenon, <2>2, <2>3, <2>4
<1> SUFFICES ASSUME NEW t \in Thread, Moves(t) PROVE HeldInv'
  OBVIOUS
<1>1. Only(t) /\ setup' = setup /\ Host' = Host /\ \A c : ThreadsOf(c)' = ThreadsOf(c)
  BY Zenon DEF Moves, Only, Host, ThreadsOf
<1>2. ASSUME ThreadsOf(Host[t]) = {t} PROVE HeldStateOf(t)'
  <2>1. HeldStateOf(t)
    BY Zenon, <1>2 DEF HeldInv
  <2>2. HeldState(th'[t], has'[t], "open" \in tab'[Host[t]].leases)
    BY Zenon, <1>2, <2>1, <1>QuietHeld, <1>AnswerHeld DEF Moves
  <2> QED BY Zenon, <1>1, <2>2, HeldNext
<1>3. ASSUME NEW u \in Thread \ {t}, ThreadsOf(Host[u]) = {u} PROVE HeldStateOf(u)'
  <2> DEFINE d == Host[u]
  <2>1. d \in Client /\ d # Host[t]
    BY Zenon, <1>3, SetupTypes DEF ThreadsOf
  <2>2. tab'[d].leases = tab[d].leases
    BY Zenon, <2>1, MovesAway
  <2>3. th'[u] = th[u] /\ has'[u] = has[u] /\ HeldStateOf(u)
    BY Zenon, <1>1, <1>3 DEF Only, HeldInv
  <2>4. HeldState(th'[u], has'[u], "open" \in tab'[d].leases)
    BY Zenon, <2>2, <2>3 DEF HeldState, HeldStateOf
  <2> QED BY Zenon, <1>1, <2>4, HeldNext
<1> QED BY Zenon, <1>1, <1>2, <1>3 DEF HeldInv

LEMMA ElsewhereHeld ==
    ASSUME IInv, HeldInv, Elsewhere PROVE HeldInv'
<1>1. setup' = setup /\ Host' = Host /\ \A c : ThreadsOf(c)' = ThreadsOf(c)
  BY Zenon DEF Elsewhere, Host, ThreadsOf
<1>2. ASSUME NEW u \in Thread, ThreadsOf(Host[u]) = {u} PROVE HeldStateOf(u)'
  <2> DEFINE d == Host[u]
  <2>1. d \in Client /\ HeldStateOf(u)
    BY Zenon, <1>2, SetupTypes DEF HeldInv
  <2>2. /\ "open" \in tab[d].leases => "open" \in tab'[d].leases
        /\ th' = th /\ has' = has
    BY Zenon, <2>1 DEF Elsewhere
  <2>3. HeldState(th'[u], has'[u], "open" \in tab'[d].leases)
    BY Zenon, <2>1, <2>2 DEF HeldState, HeldStateOf
  <2> QED BY Zenon, <1>1, <2>3, HeldNext
<1> QED BY Zenon, <1>1, <1>2 DEF HeldInv

\* Where ReadersTold applies, a client that has missed a write is not up to date,
\* and somebody has written.
Plain == OneEach /\ {"truncate", "exclusive"} \cap LTypes = {} /\ "open" \in LTypes

StaleInv == Plain => /\ unseen # {} => written
                     /\ \A c \in unseen : ~tab[c].fresh

\* A request for I/O is not the first on the file.
LEMMA IOHasLease ==
    ASSUME IInv, HeldInv, Plain, NEW t \in Thread, th[t].st \in {"get", "wait"}
    PROVE  /\ th[t].lt \in Data \cup {"mmap", "open", "stage"}
           /\ th[t].lt \in Data \cup {"mmap"} =>
                 /\ tab[Host[t]].leases # {}
                 /\ ~(\A d \in Client : ~tab[d].here)
<1> DEFINE c == Host[t]
           r == th[t]
<1>1. c \in Client /\ r \in ThreadState
  BY Zenon, SetupTypes DEF IInv, ThreadsType
<1>2. HeldState(r, has[t], "open" \in tab[c].leases)
  BY Zenon DEF HeldInv, HeldStateOf, Plain, OneEach
<1>3. r.lt \in LTypes /\ r.lt \in AllTypes
  BY Zenon, <1>1, <1>2 DEF HeldState, ThreadState
<1>4. r.lt \in Data \cup {"mmap", "open", "stage"}
  BY <1>3 DEF Plain, AllTypes, Data
<1>5. ASSUME r.lt \in Data \cup {"mmap"}
      PROVE  tab[c].leases # {} /\ ~(\A d \in Client : ~tab[d].here)
  <2>1. r.lt # "open"
    BY <1>5 DEF Data
  <2>2. "open" \in tab[c].leases
    BY Zenon, <1>2, <1>5, <2>1 DEF HeldState, Plain
  <2>3. tab[c].here
    BY Zenon, <1>1, <2>2, FreeType DEF IInv, ServerType, Cleared
  <2> QED BY Zenon, <1>1, <2>2, <2>3
<1> QED BY Zenon, <1>4, <1>5

LEMMA NextStale ==
    ASSUME IInv, HeldInv, StaleInv, (\E t \in Thread : Moves(t)) \/ Elsewhere
    PROVE  StaleInv'
<1>KeptStale. ASSUME IInv, StaleInv, FreshKept, Plain
    PROVE  (unseen' # {} => written') /\ \A c \in unseen' : ~tab'[c].fresh
  <2> USE <1>KeptStale
  <2>1. unseen \subseteq Client
    BY Zenon DEF IInv, ServerType
  <2> QED BY Zenon, <2>1 DEF StaleInv, FreshKept
<1>GetsStale. ASSUME IInv, HeldInv, StaleInv, Plain, NEW t \in Thread, Gets(t)
    PROVE  (unseen' # {} => written') /\ \A d \in unseen' : ~tab'[d].fresh
  <2> USE <1>GetsStale
  <2> DEFINE c == Host[t]
             r == th[t]
             first == \A d \in Client : ~tab[d].here
             wr == Writes(r, first)
             rd == ~first /\ MayRead(r.lt)
             mw == MayWrite(r.lt, r.mode)
  <2>1. /\ r.st = "get" /\ written' = (written \/ wr)
        /\ unseen' \subseteq unseen \cup (IF mw THEN Client \ {c} ELSE {})
        /\ th'[t].inval => c \notin unseen'
        /\ \A d \in Client \ {c} : tab'[d].fresh => tab[d].fresh /\ ~wr
        /\ tab'[c].fresh => wr \/ rd \/ tab[c].fresh \/ ~written
        /\ rd /\ tab[c].leases # {} /\ ~tab[c].fresh => th'[t].inval
    BY Zenon DEF Gets, Sees
  <2>2. /\ r.lt \in Data \cup {"mmap", "open", "stage"}
        /\ r.lt \in Data \cup {"mmap"} => tab[c].leases # {} /\ ~first
    BY Zenon, <2>1, IOHasLease
  <2>3. r.lt \notin Data \cup {"mmap"} => ~mw /\ ~rd /\ ~wr
    BY <2>2 DEF MayWrite, MayRead, Writes, Data
  <2>4. r.lt \in Data \cup {"mmap"} => tab[c].leases # {} /\ rd /\ (wr <=> mw)
    BY Zenon, <2>2 DEF MayRead, Writes
  <2>5. unseen \subseteq Client /\ (unseen # {} => written) /\ \A d \in unseen : ~tab[d].fresh
    BY Zenon DEF IInv, ServerType, StaleInv
  <2> HIDE DEF first, wr, rd, mw
  <2>6. CASE r.lt \in Data \cup {"mmap"}
    <3>1. c \notin unseen'
      BY Zenon, <2>1, <2>4, <2>5, <2>6
    <3>2. \A d \in unseen' : d \in Client \ {c} /\ (d \in unseen \/ wr)
      BY Zenon, <2>1, <2>4, <2>5, <2>6, <3>1
    <3> QED BY Zenon, <2>1, <2>5, <3>2
  <2>7. CASE r.lt \notin Data \cup {"mmap"}
    <3>1. \A d \in unseen' : d \in unseen /\ d \in Client
      BY Zenon, <2>1, <2>3, <2>5, <2>7
    <3> QED BY Zenon, <2>1, <2>3, <2>5, <2>7, <3>1
  <2> QED BY Zenon, <2>6, <2>7
<1>1. setup' = setup
  BY Zenon DEF Moves, Only, Elsewhere
<1>2. Plain' <=> Plain
  BY Zenon, <1>1 DEF Plain, OneEach, ThreadsOf, Host, LTypes
<1> SUFFICES ASSUME Plain
             PROVE  (unseen' # {} => written') /\ \A c \in unseen' : ~tab'[c].fresh
  BY Zenon, <1>2 DEF StaleInv
<1>3. FreshKept \/ \E t \in Thread : Gets(t)
  BY ZenonT(30), FreshStays DEF Moves, Asks, Rests, Closes, Removes, Unlocks, Records, Waits, Removed,
     Quiet, Elsewhere
<1> QED BY Zenon, <1>3, <1>KeptStale, <1>GetsStale

\* The lease that lets a client read tells it to drop its pages.
LEMMA GetsToldStale ==
    ASSUME IInv, HeldInv, StaleInv, Plain, NEW t \in Thread, Gets(t), MayRead(th[t].lt),
           Host[t] \in unseen
    PROVE  th'[t].inval
<1> DEFINE c == Host[t]
           r == th[t]
<1>1. r.st = "get" /\ (/\ ~(\A d \in Client : ~tab[d].here) /\ MayRead(r.lt)
                      /\ tab[c].leases # {} /\ ~tab[c].fresh => th'[t].inval)
  BY Zenon DEF Gets, Sees
<1>2. /\ r.lt \in Data \cup {"mmap", "open", "stage"}
      /\ r.lt \in Data \cup {"mmap"} => 
            tab[c].leases # {} /\ ~(\A d \in Client : ~tab[d].here)
  BY Zenon, <1>1, IOHasLease
<1>3. r.lt \in Data \cup {"mmap"}
  BY <1>2 DEF MayRead, Data
<1> QED BY Zenon, <1>1, <1>2, <1>3 DEF StaleInv

LEMMA StepTold ==
    ASSUME IInv, Messages, DirectInv, HeldInv, StaleInv, [Next]_vars, NEW t \in Thread,
           OneEach, {"truncate", "exclusive"} \cap LTypes = {},
           th[t].st = "get", th'[t].st = "got", "open" \in has[t],
           MayRead(th[t].lt), Host[t] \in unseen
    PROVE  th'[t].inval
<1>1. Plain
  BY Zenon DEF DirectInv, NoOpens, OpenOrMap, Plain
<1>2. ~Elsewhere
  BY Zenon DEF Elsewhere
<1>3. PICK u \in Thread : Moves(u)
  BY Zenon, <1>2, NextMoves
<1>4. u = t
  BY Zenon, <1>3 DEF Moves, Only
<1>5. Gets(t)
  BY Zenon, <1>3, <1>4 DEF Moves, Asks, Rests, Closes, Removes, Unlocks, Records, Waits, Removed
<1> QED BY Zenon, <1>1, <1>5, GetsToldStale

-----------------------------------------------------------------------------
(* The invariant of all.                                                     *)

LeaseInv == /\ IInv /\ Messages /\ Unmapped /\ DirectInv /\ OpenInv
            /\ HeldInv /\ StaleInv

LEMMA InitLeaseInv == Init => LeaseInv
<1> SUFFICES ASSUME Init PROVE LeaseInv
  OBVIOUS
<1>1. IInv
  BY Zenon, InitInv
<1>2. /\ \A c \in Client : /\ tab[c].leases = {} /\ ~tab[c].dio
                           /\ cl_leases[c] = {} /\ c \notin wake
      /\ \A t \in Thread : th[t].st = "idle" /\ has[t] = {}
      /\ rel = {} /\ notice = {}
  <2>1. ~Free.dio
    BY DEF Free
  <2> QED BY Zenon, <2>1, FreeType, IdleType DEF Init
<1>3. Messages /\ Unmapped
  BY Zenon, <1>2 DEF Messages, Unmapped
<1>4. NoOpens /\ DioKnown
  BY Zenon, <1>2 DEF NoOpens, DioKnown
<1>5. ConflictsTold
  <2>1. \A c \in Client : \A S : ~Meets(tab[c].leases, S)
    BY Zenon, <1>2 DEF Meets
  <2> QED BY Zenon, <2>1 DEF ConflictsTold, Conflicting
<1>6. OpenInv
  <2>1. \A t \in Thread : Host[t] \in Client
    BY Zenon, <1>1, SetupTypes
  <2> QED BY Zenon, <1>2, <2>1 DEF OpenInv, OpenStateOf, OpenState
<1>7. HeldInv
  BY Zenon, <1>2 DEF HeldInv, HeldStateOf, HeldState
<1>8. StaleInv
  BY Zenon DEF Init, StaleInv
<1> QED BY Zenon, <1>1, <1>3, <1>4, <1>5, <1>6, <1>7, <1>8 DEF LeaseInv, DirectInv

LEMMA NextLeaseInv == LeaseInv /\ [Next]_vars => LeaseInv'
<1> SUFFICES ASSUME LeaseInv, [Next]_vars PROVE LeaseInv'
  OBVIOUS
<1>1. IInv /\ Messages /\ Unmapped /\ DirectInv /\ OpenInv /\ HeldInv /\ StaleInv /\ IInv'
  BY Zenon, NextInv DEF LeaseInv
<1>2. (\E t \in Thread : Moves(t)) \/ Elsewhere
  BY Zenon, <1>1, NextMoves
<1>3. StaleInv'
  BY Zenon, <1>1, <1>2, NextStale
<1>4. CASE Elsewhere
  <2>1. Messages'
    BY Zenon, <1>4 DEF Elsewhere
  <2> QED BY Zenon, <1>1, <1>3, <1>4, <2>1, ElsewhereUnmapped, ElsewhereDirectInv,
             ElsewhereOpen, ElsewhereHeld DEF LeaseInv
<1>5. ASSUME NEW t \in Thread, Moves(t) PROVE LeaseInv'
  BY Zenon, <1>1, <1>3, <1>5, MovesMessages, MovesUnmapped, MovesDirectInv, MovesOpen,
     MovesHeld DEF LeaseInv
<1> QED BY Zenon, <1>2, <1>4, <1>5

-----------------------------------------------------------------------------
(* The theorems.                                                             *)

\* The lease table, what the clients recorded and the messages keep their
\* types, and a client without an entry in ip->sr_leases has a clear one.
THEOREM LeasesTyped == Spec => []TypeOK
<1>1. Spec => []IInv
  BY InitInv, NextInv, PTL DEF Spec
<1> QED
  BY <1>1, Typed, PTL

\* Whatever is granted, given along, removed late, expired or compacted away,
\* the table never holds leases of two clients that exclude each other.
THEOREM TableExcludes == Spec => []LeasesExclude
<1>1. IInv => LeasesExclude
  BY Zenon DEF IInv
<1> QED
  BY <1>1, InitInv, NextInv, PTL DEF Spec

\* The client with the append lease is the one whose size the server believes.
THEOREM AppenderOwnsSize == Spec => []AppendOwnsSize
<1>1. IInv => AppendOwnsSize
  BY Zenon DEF IInv
<1> QED
  BY <1>1, InitInv, NextInv, PTL DEF Spec

\* Where only I/O leases are in play, a client does paged I/O beside another
\* client's conflicting lease only until the CALLOUT_flags under way or the
\* answer to its own request turns its direct I/O on.
THEOREM PagedIOEnds == Spec => []PagedAlone
<1>1. LeaseInv => PagedAlone
  BY Zenon DEF LeaseInv, DirectInv, ConflictsTold, Told, PagedAlone
<1> QED
  BY <1>1, InitLeaseInv, NextLeaseInv, PTL DEF Spec

\* The open lease of a host with one thread is gone from the server's table once
\* the file is closed and unmapped: the close names the generation the table has.
THEOREM CloseCancels == Spec => []SingleCloseCancels
<1>1. LeaseInv => SingleCloseCancels
  <2> SUFFICES ASSUME LeaseInv, NEW c \in Client, NEW t \in Thread, ThreadsOf(c) = {t},
                      Closed(c)
               PROVE  "open" \notin tab[c].leases
    BY Zenon DEF SingleCloseCancels
  <2>1. t \in Thread /\ Host[t] = c /\ th[t].st = "idle" /\ has[t] = {}
    BY Zenon DEF ThreadsOf, Closed
  <2>2. OpenStateOf(t)
    BY Zenon, <2>1 DEF LeaseInv, OpenInv
  <2> QED BY Zenon, <2>1, <2>2 DEF OpenStateOf, OpenState, Meets
<1> QED
  BY <1>1, InitLeaseInv, NextLeaseInv, PTL DEF Spec

\* The end of a LEASE_remove, a last close's among them, takes no map lease from
\* the table while a thread of the host has the file mapped.
THEOREM CloseLeavesMaps == Spec => CloseKeepsMaps
<1> DEFINE Keeps(t) ==
             LET c == Host[t]
             IN  /\ th[t].st = "rm" /\ th'[t].st # "rm"
                 /\ \E u \in ThreadsOf(c) : "mmap" \in has[u] /\ th[u].st = "idle"
                 /\ "mmap" \in tab[c].leases
                 => "mmap" \in tab'[c].leases
<1>1. LeaseInv /\ [Next]_vars => [\A t \in Thread : Keeps(t)]_vars
  <2> SUFFICES ASSUME LeaseInv, [Next]_vars, NEW t \in Thread PROVE Keeps(t)
    BY Zenon
  <2> QED BY Zenon, KeepsMaps DEF LeaseInv
<1>2. CloseKeepsMaps <=> [][\A t \in Thread : Keeps(t)]_vars
  BY DEF CloseKeepsMaps
<1> HIDE DEF Keeps
<1> QED
  BY <1>1, <1>2, InitLeaseInv, NextLeaseInv, PTL DEF Spec

\* Where every host has one thread and nothing but I/O, map, stage and open leases
\* is asked for, a client that may have cached pages from before another client's
\* write is told to drop them (SR_INVAL_PAGES) with the next lease that lets it
\* read, also after sam_compact_lease_clients or a cleared entry lost its wr_seq.
THEOREM ReadersAreTold == Spec => ReadersTold
<1> DEFINE Tells(t) ==
             /\ OneEach /\ {"truncate", "exclusive"} \cap LTypes = {}
             /\ th[t].st = "get" /\ th'[t].st = "got" /\ "open" \in has[t]
             /\ MayRead(th[t].lt) /\ Host[t] \in unseen
             => th'[t].inval
<1>1. LeaseInv /\ [Next]_vars => [\A t \in Thread : Tells(t)]_vars
  <2> SUFFICES ASSUME LeaseInv, [Next]_vars, NEW t \in Thread PROVE Tells(t)
    BY Zenon
  <2> QED BY Zenon, StepTold DEF LeaseInv
<1>2. ReadersTold <=> [][\A t \in Thread : Tells(t)]_vars
  BY DEF ReadersTold
<1> HIDE DEF Tells
<1> QED
  BY <1>1, <1>2, InitLeaseInv, NextLeaseInv, PTL DEF Spec
=============================================================================
