---------------------------- MODULE FailoverInv -----------------------------
(***************************************************************************)
(* The inductive invariant of Failover: one part for failovers that follow *)
(* each other with nothing failing, one for failed servers that are        *)
(* replaced.  Operations, messages, the thaw and resync tasks and the      *)
(* steps by which daemons freeze, give and take the role of server keep it.*)
(***************************************************************************)
EXTENDS Failover, TLAPS

-----------------------------------------------------------------------------
(* Types.                                                                    *)

Pcs == {"off", "down", "failover", "drain", "drained", "surrender", "puthosts",
        "setserver", "become", "connect", "up"}

DaemonType == [pc : Pcs, srv : Hosts \cup {NoHost}, new : Hosts \cup {NoHost},
               via : {"-", "validate", "update"}]

ThawType == [queued : BOOLEAN, pc : {"no", "failinit", "reset", "resync", "answer"},
             srv : Hosts \cup {NoHost}, busy : BOOLEAN]

LeftType(l) ==
    /\ l = [voluntary |-> l.voluntary, involuntary |-> l.involuntary,
            breaks |-> l.breaks, crash |-> l.crash]
    /\ l.voluntary \in Nat /\ l.breaks \in Nat /\ l.crash \in SUBSET Hosts

TableType == [server : Hosts, pendsrv : Hosts, prevsrv : Hosts \cup {NoHost}]

\* A daemon that runs has read the table.
HasRead(d) == d.pc \notin {"off", "down"} => d.srv \in Hosts /\ d.new \in Hosts

Types ==
    /\ setup \in Setups /\ LeftType(left) /\ ht \in TableType
    /\ fi_status \in [Hosts -> SUBSET Flags]
    /\ srvr \in [Hosts -> [ord : Hosts, prev : Hosts \cup {NoHost}]]
    /\ daemon \in [Hosts -> DaemonType] /\ \A h \in Hosts : HasRead(daemon[h])
    /\ sock \in [Hosts -> Hosts \cup {NoHost}]
    /\ client \in [Hosts -> [Hosts -> [mounted : BOOLEAN, synced : BOOLEAN]]]
    /\ callout \in [Hosts -> Seq({"failover", "faildone"})]
    /\ thaw \in [Hosts -> ThawType]

-----------------------------------------------------------------------------
(* Only failed servers are replaced.                                         *)

\* Nobody asks for another server while the server runs.
Forced == setup.voluntary = 0

\* Who is the server, or is about to be, is the server in the table.  No daemon
\* surrenders.
ForcedInv ==
    /\ left.voluntary = 0 /\ ht.pendsrv = ht.server
    /\ \A h \in Hosts :
          /\ "SERVER" \in fi_status[h] => h = ht.server /\ daemon[h].pc # "off"
          /\ daemon[h].pc \in {"setserver", "drain", "drained", "become"}
                => h = ht.server /\ daemon[h].new = h
          /\ daemon[h].pc \notin {"failover", "surrender", "puthosts"}

-----------------------------------------------------------------------------
(* One failover after the other, and nothing fails.  A host is described by  *)
(* its flags st, its daemon d, its thaw task tw, its socket sk and the       *)
(* messages co on their way to it.  sv and pd are server and pendsrv of the  *)
(* hosts table; own says that the daemon of sv knows that it is the server.  *)

Orderly == setup.careful /\ setup.breaks = 0 /\ setup.crash = {}

\* The daemon is that of a server that gives up its role.
Surrenders(h, d) == \/ d.pc \in {"failover", "surrender", "puthosts"}
                    \/ d.pc \in {"drain", "drained"} /\ d.new # h

\* The daemon is that of a new server that takes its role.
Takes(h, d) == \/ d.pc \in {"setserver", "become"}
               \/ d.pc \in {"drain", "drained"} /\ d.new = h

\* The daemon has a socket, if it has not been closed at the other end.
Linked(h, d) == d.pc = "up" \/ Surrenders(h, d)

Connected(sv, d, sk) == d.pc = "up" /\ d.srv = sv /\ sk = sv

\* The host has not begun to take part in a failover.
Untouched(st, tw) ==
    /\ "FROZEN" \notin st /\ "THAWING" \notin st /\ "RESYNCING" \notin st
    /\ "CLNT_DONE" \notin st /\ tw.pc = "no" /\ ~tw.queued

\* The host will read MOUNT_failover.
Told(co) == \E i \in DOMAIN co : co[i] = "failover"

\* Daemon and socket.
DaemonFine(h, sv, pd, own, d, sk, co) ==
    /\ d.pc # "off"
    /\ d.pc = "down" => d.srv = NoHost
    /\ d.srv = h => h = sv
    /\ Surrenders(h, d) => h = sv /\ pd # sv /\ d.srv = h /\ d.new = pd
    /\ Takes(h, d) => h = sv /\ pd = sv /\ d.srv = h /\ d.new = h
    /\ pd # sv /\ h = sv => d.srv = h /\ Linked(h, d)
    /\ pd # sv /\ h # sv => d.pc \in {"up", "down"}
    /\ h = sv /\ d.srv # h => d.pc \in {"up", "down"}
    /\ sk # NoHost => sk = sv /\ d.srv = sv /\ own /\ Linked(h, d)
    /\ h = sv /\ d.srv = h /\ Linked(h, d) => sk = sv
    /\ co # <<>> => d.pc = "up" /\ d.srv # h

\* The flags of a host, and how far its tasks are.
FlagsFine(h, sv, pd, st, d, tw, sk, co) ==
    /\ "MOUNTED" \in st
    /\ "FREEZING" \in st \/ "FROZEN" \in st \/ "THAWING" \in st => "LOCK_HARD" \in st
    /\ "SERVER" \in st => /\ h = sv /\ d.srv = h /\ d.pc # "puthosts"
                          /\ d.pc = "connect" \/ Linked(h, d)
    /\ "RESYNCING" \in st => h = sv /\ pd = sv /\ d.srv = h /\ d.pc # "setserver"
    /\ tw.pc # "no" =>
          /\ Connected(sv, d, sk) /\ pd = sv
          /\ "THAWING" \in st /\ "LOCK_HARD" \in st /\ (h = sv => "RESYNCING" \in st)
          /\ "FREEZING" \notin st /\ "FROZEN" \notin st /\ "CLNT_DONE" \notin st
    /\ "CLNT_DONE" \in st =>
          /\ Connected(sv, d, sk) /\ pd = sv
          /\ "LOCK_HARD" \in st /\ ("THAWING" \in st \/ "RESYNCING" \in st)
          /\ "FREEZING" \notin st /\ "FROZEN" \notin st
    /\ tw.queued =>
          /\ Connected(sv, d, sk) /\ pd = sv
          /\ "FROZEN" \in st /\ "LOCK_HARD" \in st /\ (h = sv => "RESYNCING" \in st)
    /\ Told(co) => Untouched(st, tw)
    /\ pd # sv /\ h # sv => Untouched(st, tw)
    /\ pd # sv /\ h = sv =>
          /\ "THAWING" \notin st /\ "CLNT_DONE" \notin st /\ tw.pc = "no" /\ ~tw.queued
          /\ d.pc \in {"up", "failover"} => "FREEZING" \notin st /\ "FROZEN" \notin st
    /\ h = sv /\ (d.srv # h \/ d.pc = "setserver") => Untouched(st, tw)
    /\ Takes(h, d) /\ d.pc \in {"drain", "drained"} =>
          /\ "FROZEN" \notin st /\ "THAWING" \notin st /\ "RESYNCING" \in st
          /\ "CLNT_DONE" \notin st /\ tw.pc = "no" /\ ~tw.queued
    /\ h = sv /\ d.srv = h /\ d.pc \in {"become", "connect"} =>
          /\ "FROZEN" \in st /\ "LOCK_HARD" \in st /\ "RESYNCING" \in st
          /\ "CLNT_DONE" \notin st /\ tw.pc = "no" /\ ~tw.queued

HostFine(h, sv, pd, own, st, d, tw, sk, co) ==
    DaemonFine(h, sv, pd, own, d, sk, co) /\ FlagsFine(h, sv, pd, st, d, tw, sk, co)

Own == daemon[ht.server].srv = ht.server

HostInv(h) ==
    HostFine(h, ht.server, ht.pendsrv, Own, fi_status[h], daemon[h], thaw[h], sock[h],
             callout[h])

\* The server that is asked to surrender finds the new one connected.
Target ==
    ht.pendsrv # ht.server /\ daemon[ht.server].pc \in {"up", "failover"} =>
        sock[ht.pendsrv] = ht.server /\ client[ht.server][ht.pendsrv].mounted

OrderlyInv ==
    /\ left.breaks = 0 /\ left.crash = {} /\ ht.prevsrv # NoHost
    /\ Target /\ \A h \in Hosts : HostInv(h)

IInv == Types /\ (Forced => ForcedInv) /\ (Orderly => OrderlyInv)

-----------------------------------------------------------------------------
(* Types of the operators.                                                   *)

LEMMA SetupTypes ==
    ASSUME Types
    PROVE  /\ setup.voluntary \in Nat /\ setup.breaks \in Nat /\ setup.first \in Hosts
           /\ setup.crash \in SUBSET Hosts
BY HostsAssumption DEF Types, Setup

LEMMA TableHosts ==
    ASSUME Types
    PROVE  ht.server \in Hosts /\ ht.pendsrv \in Hosts
BY DEF Types, TableType

\* The daemon of h is at another step.
LEMMA AtType ==
    ASSUME Types, NEW h \in Hosts, NEW pc \in Pcs, daemon[h].pc \notin {"off", "down"}
    PROVE  /\ At(pc, h) \in [Hosts -> DaemonType]
           /\ \A k \in Hosts : HasRead(At(pc, h)[k])
           /\ \A k \in Hosts \ {h} : At(pc, h)[k] = daemon[k]
           /\ At(pc, h)[h].pc = pc /\ At(pc, h)[h].srv = daemon[h].srv
           /\ At(pc, h)[h].new = daemon[h].new
<1>1. daemon[h] \in DaemonType /\ daemon \in [Hosts -> DaemonType]
  BY Zenon DEF Types
<1> DEFINE d == [daemon[h] EXCEPT !.pc = pc]
<1>2. d \in DaemonType /\ d.pc = pc /\ d.srv = daemon[h].srv /\ d.new = daemon[h].new
  BY <1>1 DEF DaemonType
<1>3. At(pc, h) = [daemon EXCEPT ![h] = d]
  BY Zenon DEF At
<1> HIDE DEF d
<1>4. /\ At(pc, h) \in [Hosts -> DaemonType] /\ At(pc, h)[h] = d
      /\ \A k \in Hosts \ {h} : At(pc, h)[k] = daemon[k]
  BY Zenon, <1>1, <1>2, <1>3
<1>5. HasRead(d)
  BY Zenon, <1>2 DEF Types, HasRead
<1> QED
  BY Zenon, <1>2, <1>4, <1>5 DEF Types

\* A daemon that exits.
LEMMA DownType ==
    /\ Down \in DaemonType /\ HasRead(Down) /\ Down.pc = "down" /\ Down.srv = NoHost
    /\ Down.new = NoHost
BY DEF Down, DaemonType, HasRead, Pcs

LEMMA ExitType ==
    ASSUME Types, NEW h \in Hosts, Exit(h)
    PROVE  /\ daemon' \in [Hosts -> DaemonType] /\ \A k \in Hosts : HasRead(daemon'[k])
           /\ sock' \in [Hosts -> Hosts \cup {NoHost}]
           /\ callout' \in [Hosts -> Seq({"failover", "faildone"})]
           /\ daemon'[h] = Down /\ sock'[h] = NoHost /\ callout'[h] = <<>>
           /\ \A k \in Hosts \ {h} :
                 /\ daemon'[k] = daemon[k] /\ callout'[k] = callout[k]
                 /\ sock'[k] = IF sock[k] = h THEN NoHost ELSE sock[k]
<1>1. /\ daemon' = [daemon EXCEPT ![h] = Down]
      /\ sock' = [k \in Hosts |-> IF k = h \/ sock[k] = h THEN NoHost ELSE sock[k]]
      /\ callout' = [callout EXCEPT ![h] = <<>>]
  BY Zenon DEF Exit
<1>2. /\ daemon \in [Hosts -> DaemonType] /\ \A k \in Hosts : HasRead(daemon[k])
      /\ sock \in [Hosts -> Hosts \cup {NoHost}]
      /\ callout \in [Hosts -> Seq({"failover", "faildone"})]
  BY Zenon DEF Types
<1>3. <<>> \in Seq({"failover", "faildone"})
  OBVIOUS
<1>4. /\ daemon' \in [Hosts -> DaemonType] /\ daemon'[h] = Down
      /\ \A k \in Hosts \ {h} : daemon'[k] = daemon[k]
  BY Zenon, <1>1, <1>2, DownType
<1>5. /\ callout' \in [Hosts -> Seq({"failover", "faildone"})] /\ callout'[h] = <<>>
      /\ \A k \in Hosts \ {h} : callout'[k] = callout[k]
  BY Zenon, <1>1, <1>2, <1>3
<1>6. /\ sock' \in [Hosts -> Hosts \cup {NoHost}] /\ sock'[h] = NoHost
      /\ \A k \in Hosts \ {h} : sock'[k] = IF sock[k] = h THEN NoHost ELSE sock[k]
  <2>1. \A k \in Hosts : (IF k = h \/ sock[k] = h THEN NoHost ELSE sock[k])
                            \in Hosts \cup {NoHost}
    BY Zenon, <1>2
  <2> QED
    BY Zenon, <1>1, <2>1
<1> QED
  BY Zenon, <1>2, <1>4, <1>5, <1>6, DownType

\* The flags of h change.
LEMMA FlagsType ==
    ASSUME Types, NEW h \in Hosts, NEW st, fi_status' = [fi_status EXCEPT ![h] = st]
    PROVE  /\ st \subseteq Flags => fi_status' \in [Hosts -> SUBSET Flags]
           /\ fi_status'[h] = st /\ \A k \in Hosts \ {h} : fi_status'[k] = fi_status[k]
           /\ fi_status[h] \in SUBSET Flags
BY Zenon DEF Types

\* The thaw task of h changes.
LEMMA ThawChange ==
    ASSUME Types, NEW h \in Hosts, NEW tw, thaw' = [thaw EXCEPT ![h] = tw]
    PROVE  /\ tw \in ThawType => thaw' \in [Hosts -> ThawType]
           /\ thaw'[h] = tw /\ \A k \in Hosts \ {h} : thaw'[k] = thaw[k]
BY Zenon DEF Types

LEMMA NoThawType ==
    NoThaw \in ThawType /\ NoThaw.pc = "no" /\ NoThaw.queued = FALSE
BY DEF NoThaw, ThawType

LEMMA ThawAtType ==
    ASSUME Types, NEW h \in Hosts, NEW pc \in {"failinit", "reset", "resync", "answer"},
           thaw' = ThawAt(pc, h)
    PROVE  /\ thaw' \in [Hosts -> ThawType] /\ \A k \in Hosts \ {h} : thaw'[k] = thaw[k]
           /\ thaw'[h].pc = pc /\ thaw'[h].queued = thaw[h].queued
<1> DEFINE tw == [thaw[h] EXCEPT !.pc = pc]
<1>1. thaw[h] \in ThawType
  BY Zenon DEF Types
<1>2. tw \in ThawType /\ tw.pc = pc /\ tw.queued = thaw[h].queued
  BY <1>1 DEF ThawType
<1>3. thaw' = [thaw EXCEPT ![h] = tw]
  BY Zenon DEF ThawAt
<1> HIDE DEF tw
<1> QED
  BY Zenon, <1>2, <1>3, ThawChange

LEMMA ThawEndsType ==
    ASSUME Types, NEW h \in Hosts, thaw' = ThawEnds(h)
    PROVE  /\ thaw' \in [Hosts -> ThawType] /\ \A k \in Hosts \ {h} : thaw'[k] = thaw[k]
           /\ thaw'[h].pc = "no" /\ thaw'[h].queued = thaw[h].queued
<1> DEFINE tw == [NoThaw EXCEPT !.queued = thaw[h].queued]
<1>1. thaw[h] \in ThawType
  BY Zenon DEF Types
<1>2. tw \in ThawType /\ tw.pc = "no" /\ tw.queued = thaw[h].queued
  BY <1>1, Zenon DEF ThawType, NoThaw
<1>3. thaw' = [thaw EXCEPT ![h] = tw]
  BY Zenon DEF ThawEnds
<1> HIDE DEF tw
<1> QED
  BY Zenon, <1>2, <1>3, ThawChange

-----------------------------------------------------------------------------
(* Steps that change little.                                                 *)

\* A step of h that changes the table of hosts, daemons and sockets of nobody
\* else.
LEMMA HostStep ==
    ASSUME IInv, Types', NEW h \in Hosts, UNCHANGED <<setup, left, ht>>,
           \A k \in Hosts \ {h} :
              /\ fi_status'[k] = fi_status[k] /\ daemon'[k] = daemon[k]
              /\ thaw'[k] = thaw[k] /\ sock'[k] = sock[k] /\ callout'[k] = callout[k],
           Forced /\ ForcedInv =>
              /\ "SERVER" \in fi_status'[h] => h = ht.server /\ daemon'[h].pc # "off"
              /\ daemon'[h].pc \in {"setserver", "drain", "drained", "become"}
                    => h = ht.server /\ daemon'[h].new = h
              /\ daemon'[h].pc \notin {"failover", "surrender", "puthosts"},
           Orderly /\ OrderlyInv =>
              /\ Own => Own'
              /\ HostFine(h, ht.server, ht.pendsrv, Own', fi_status'[h], daemon'[h],
                          thaw'[h], sock'[h], callout'[h])
              /\ Target'
    PROVE  IInv'
<1>1. ASSUME Forced' PROVE ForcedInv'
  BY ZenonT(30), <1>1 DEF IInv, Forced, ForcedInv
<1>2. ASSUME Orderly' PROVE OrderlyInv'
  <2>1. Orderly /\ OrderlyInv
    BY Zenon, <1>2 DEF IInv, Orderly
  <2>2. ASSUME NEW k \in Hosts PROVE HostInv(k)'
    <3>1. CASE k = h
      BY Zenon, <2>1, <3>1 DEF HostInv
    <3>2. CASE k # h
      <4>1. HostFine(k, ht.server, ht.pendsrv, Own, fi_status[k], daemon[k], thaw[k],
                     sock[k], callout[k])
        BY Zenon, <2>1 DEF OrderlyInv, HostInv
      <4>2. HostFine(k, ht.server, ht.pendsrv, Own', fi_status[k], daemon[k], thaw[k],
                     sock[k], callout[k])
        BY Zenon, <2>1, <4>1 DEF HostFine, DaemonFine
      <4> QED
        BY Zenon, <3>2, <4>2 DEF HostInv
    <3> QED
      BY Zenon, <3>1, <3>2
  <2> QED
    BY Zenon, <2>1, <2>2 DEF OrderlyInv
<1> QED
  BY Zenon, <1>1, <1>2 DEF IInv

\* A step of h that changes only its flags and its tasks, and does not make it
\* the server.
LEMMA FlagStep ==
    ASSUME IInv, Types', NEW h \in Hosts,
           UNCHANGED <<setup, left, ht, daemon, sock, callout>>,
           \A k \in Hosts \ {h} : fi_status'[k] = fi_status[k] /\ thaw'[k] = thaw[k],
           "SERVER" \in fi_status'[h] => "SERVER" \in fi_status[h],
           \A k, j \in Hosts : client[k][j].mounted => client'[k][j].mounted,
           Orderly /\ FlagsFine(h, ht.server, ht.pendsrv, fi_status[h], daemon[h],
                                thaw[h], sock[h], callout[h]) =>
              FlagsFine(h, ht.server, ht.pendsrv, fi_status'[h], daemon[h], thaw'[h],
                        sock[h], callout[h])
    PROVE  IInv'
<1>1. Forced /\ ForcedInv =>
              /\ "SERVER" \in fi_status'[h] => h = ht.server /\ daemon'[h].pc # "off"
              /\ daemon'[h].pc \in {"setserver", "drain", "drained", "become"}
                    => h = ht.server /\ daemon'[h].new = h
              /\ daemon'[h].pc \notin {"failover", "surrender", "puthosts"}
  BY Zenon DEF ForcedInv
<1>2. Own' = Own
  BY Zenon DEF Own
<1>3. ASSUME Orderly, OrderlyInv
      PROVE  /\ HostFine(h, ht.server, ht.pendsrv, Own', fi_status'[h], daemon'[h],
                         thaw'[h], sock'[h], callout'[h])
             /\ Target'
  <2>1. HostFine(h, ht.server, ht.pendsrv, Own, fi_status[h], daemon[h], thaw[h],
                 sock[h], callout[h])
    BY Zenon, <1>3 DEF OrderlyInv, HostInv
  <2>2. ht.server \in Hosts /\ ht.pendsrv \in Hosts
    BY DEF IInv, Types, TableType
  <2>3. Target'
    BY Zenon, <1>3, <2>2 DEF OrderlyInv, Target
  <2> QED
    BY Zenon, <1>2, <1>3, <2>1, <2>3 DEF HostFine
<1> QED
  BY Zenon, <1>1, <1>2, <1>3, HostStep

\* A step that changes nothing that matters here.
LEMMA Stays ==
    ASSUME IInv, UNCHANGED <<setup, left, ht, fi_status, srvr, daemon, sock, callout,
                             thaw, client>>
    PROVE  IInv'
BY Zenon DEF IInv, Types, Forced, ForcedInv, Orderly, OrderlyInv, Target, HostInv, Own


LEMMA FlagTypes ==
    ASSUME Types, UNCHANGED <<setup, left, ht, srvr, daemon, sock, callout>>,
           fi_status' \in [Hosts -> SUBSET Flags], thaw' \in [Hosts -> ThawType],
           client' \in [Hosts -> [Hosts -> [mounted : BOOLEAN, synced : BOOLEAN]]]
    PROVE  Types'
BY Zenon DEF Types


\* h gets other flags.
LEMMA SetFlags ==
    ASSUME IInv, NEW h \in Hosts, NEW st \in SUBSET Flags,
           fi_status' = [fi_status EXCEPT ![h] = st],
           UNCHANGED <<setup, left, ht, srvr, thaw, daemon, sock, client, callout>>,
           "SERVER" \in st => "SERVER" \in fi_status[h],
           Orderly /\ FlagsFine(h, ht.server, ht.pendsrv, fi_status[h], daemon[h],
                                thaw[h], sock[h], callout[h]) =>
              FlagsFine(h, ht.server, ht.pendsrv, st, daemon[h], thaw[h], sock[h],
                        callout[h])
    PROVE  IInv'
<1>1. Types
  BY Zenon DEF IInv
<1>2. /\ fi_status' \in [Hosts -> SUBSET Flags] /\ fi_status'[h] = st
      /\ \A k \in Hosts \ {h} : fi_status'[k] = fi_status[k]
  BY Zenon, <1>1, FlagsType
<1>3. Types'
  BY Zenon, <1>1, <1>2, FlagTypes DEF Types
<1>4. \A k, j \in Hosts : client[k][j].mounted => client'[k][j].mounted
  BY Zenon
<1>5. \A k \in Hosts \ {h} : fi_status'[k] = fi_status[k] /\ thaw'[k] = thaw[k]
  BY Zenon, <1>2
<1> QED
  BY Zenon, <1>2, <1>3, <1>4, <1>5, FlagStep

\* h gets other flags and its thaw task goes on.
LEMMA SetTask ==
    ASSUME IInv, NEW h \in Hosts, NEW st \in SUBSET Flags,
           fi_status' = [fi_status EXCEPT ![h] = st],
           thaw' \in [Hosts -> ThawType], \A k \in Hosts \ {h} : thaw'[k] = thaw[k],
           UNCHANGED <<setup, left, ht, srvr, daemon, sock, client, callout>>,
           "SERVER" \in st => "SERVER" \in fi_status[h],
           Orderly /\ FlagsFine(h, ht.server, ht.pendsrv, fi_status[h], daemon[h],
                                thaw[h], sock[h], callout[h]) =>
              FlagsFine(h, ht.server, ht.pendsrv, st, daemon[h], thaw'[h], sock[h],
                        callout[h])
    PROVE  IInv'
<1>1. Types
  BY Zenon DEF IInv
<1>2. /\ fi_status' \in [Hosts -> SUBSET Flags] /\ fi_status'[h] = st
      /\ \A k \in Hosts \ {h} : fi_status'[k] = fi_status[k]
  BY Zenon, <1>1, FlagsType
<1>3. Types'
  BY Zenon, <1>1, <1>2, FlagTypes DEF Types
<1>4. \A k, j \in Hosts : client[k][j].mounted => client'[k][j].mounted
  BY Zenon
<1>5. \A k \in Hosts \ {h} : fi_status'[k] = fi_status[k] /\ thaw'[k] = thaw[k]
  BY Zenon, <1>2
<1> QED
  BY Zenon, <1>2, <1>3, <1>4, <1>5, FlagStep

\* The flags of a host are flags.
LEMMA HasFlags ==
    ASSUME IInv, NEW h \in Hosts
    PROVE  fi_status[h] \in SUBSET Flags
BY Zenon DEF IInv, Types

LEMMA DoneFlag ==
    ASSUME NEW s \in SUBSET Flags
    PROVE  /\ s \cup {"SRVR_DONE"} \in SUBSET Flags
           /\ "SERVER" \in s \cup {"SRVR_DONE"} => "SERVER" \in s
BY DEF Flags

-----------------------------------------------------------------------------
(* Operations.                                                               *)

LEMMA ServerNotRespondingKeeps ==
    ASSUME IInv, NEW h \in Hosts, ServerNotResponding(h) PROVE IInv'
<1> DEFINE st == fi_status[h] \cup {"SRVR_DOWN", "LOCK_HARD"}
<1>1. /\ fi_status' = [fi_status EXCEPT ![h] = st]
      /\ UNCHANGED <<setup, left, ht, srvr, thaw, daemon, sock, client, callout>>
  BY Zenon DEF ServerNotResponding, net
<1>2. st \in SUBSET Flags /\ ("SERVER" \in st => "SERVER" \in fi_status[h])
  <2>1. fi_status[h] \in SUBSET Flags
    BY Zenon, HasFlags
  <2> QED
    BY <2>1 DEF Flags
<1>3. ASSUME FlagsFine(h, ht.server, ht.pendsrv, fi_status[h], daemon[h], thaw[h],
                       sock[h], callout[h])
      PROVE  FlagsFine(h, ht.server, ht.pendsrv, st, daemon[h], thaw[h], sock[h],
                       callout[h])
  BY <1>3 DEF FlagsFine, Untouched
<1> HIDE DEF st
<1> QED
  BY Zenon, <1>1, <1>2, <1>3, SetFlags

LEMMA ServerRespondingKeeps ==
    ASSUME IInv, NEW h \in Hosts, ServerResponding(h) PROVE IInv'
<1> DEFINE st == fi_status[h] \ {"SRVR_DOWN", "LOCK_HARD"}
<1>1. /\ fi_status' = [fi_status EXCEPT ![h] = st] /\ ~FailingOver(h)
      /\ UNCHANGED <<setup, left, ht, srvr, thaw, daemon, sock, client, callout>>
  BY Zenon DEF ServerResponding, net
<1>2. st \in SUBSET Flags /\ ("SERVER" \in st => "SERVER" \in fi_status[h])
  <2>1. fi_status[h] \in SUBSET Flags
    BY Zenon, HasFlags
  <2> QED
    BY <2>1 DEF Flags
<1>3. ASSUME FlagsFine(h, ht.server, ht.pendsrv, fi_status[h], daemon[h], thaw[h],
                       sock[h], callout[h])
      PROVE  FlagsFine(h, ht.server, ht.pendsrv, st, daemon[h], thaw[h], sock[h],
                       callout[h])
  <2>1. /\ "FREEZING" \notin fi_status[h] /\ "FROZEN" \notin fi_status[h]
        /\ "THAWING" \notin fi_status[h] /\ "RESYNCING" \notin fi_status[h]
    BY <1>1 DEF FailingOver, Has, FAILOVER
  <2> QED
    BY <1>3, <2>1 DEF FlagsFine, Untouched
<1> HIDE DEF st
<1> QED
  BY Zenon, <1>1, <1>2, <1>3, SetFlags

LEMMA OperationKeeps ==
    ASSUME IInv, NEW h \in Hosts, Operation(h) \/ ExpireServerLeases(h) \/ ResyncServer(h)
    PROVE  IInv'
<1>1. CASE OpenOperation(h) \/ IncOperation(h) \/ CloseOperation(h) \/ IdleOperation(h)
           \/ Unfreeze(h)
  BY Zenon, <1>1, Stays DEF OpenOperation, IncOperation, CloseOperation, IdleOperation,
     Unfreeze, kernel, net
<1>2. CASE GetLease(h) \/ RelinquishLease(h) \/ ExpireServerLeases(h) \/ ResyncServer(h)
  BY Zenon, <1>2, Stays DEF GetLease, RelinquishLease, ExpireServerLeases, ResyncServer,
     kernel, net
<1> QED
  BY Zenon, <1>1, <1>2, ServerNotRespondingKeeps, ServerRespondingKeeps DEF Operation

-----------------------------------------------------------------------------
(* The tasks that end a failover.                                            *)

\* What sam_failover_done leaves of the flags.
LEMMA DoneFlags ==
    ASSUME NEW st \in SUBSET Flags
    PROVE  /\ FailoverDone(st) \in SUBSET Flags
           /\ "SERVER" \in FailoverDone(st) => "SERVER" \in st
           /\ ~("CLNT_DONE" \in st) => FailoverDone(st) = st
BY DEF FailoverDone, BothDone

\* A host whose own part of the failover is over may be unlocked.
LEMMA DoneFine ==
    ASSUME NEW h, NEW sv, NEW pd, NEW d, NEW tw, NEW sk, NEW co, NEW st,
           FlagsFine(h, sv, pd, st, d, tw, sk, co)
    PROVE  FlagsFine(h, sv, pd, FailoverDone(st), d, tw, sk, co)
<1>1. CASE "CLNT_DONE" \notin st \/ "SRVR_DONE" \notin st
  BY Zenon, <1>1 DEF FailoverDone, BothDone
<1>2. CASE "CLNT_DONE" \in st /\ "SRVR_DONE" \in st
  <2> DEFINE r == st \ {"RESYNCING", "THAWING", "LOCK_HARD", "SRVR_DONE", "CLNT_DONE"}
  <2>1. FailoverDone(st) = r
    BY <1>2 DEF FailoverDone, BothDone
  <2>2. FlagsFine(h, sv, pd, r, d, tw, sk, co)
    BY <1>2 DEF FlagsFine, Untouched, Connected, Takes
  <2> QED
    BY Zenon, <2>1, <2>2
<1> QED
  BY Zenon, <1>1, <1>2

LEMMA FinishResyncKeeps ==
    ASSUME IInv, NEW h \in Hosts, FinishResync(h) PROVE IInv'
<1>1. /\ fi_status' = [fi_status EXCEPT ![h] = FailoverDone(fi_status[h])]
      /\ UNCHANGED <<setup, left, ht, srvr, thaw, daemon, sock, client, callout>>
  BY Zenon DEF FinishResync, net
<1>2. /\ FailoverDone(fi_status[h]) \in SUBSET Flags
      /\ "SERVER" \in FailoverDone(fi_status[h]) => "SERVER" \in fi_status[h]
  BY Zenon, HasFlags, DoneFlags
<1> QED
  BY Zenon, <1>1, <1>2, DoneFine, SetFlags


-----------------------------------------------------------------------------
(* The task that thaws a host.                                               *)

LEMMA RestartKeeps ==
    ASSUME IInv, NEW h \in Hosts, Restart(h),
           UNCHANGED <<setup, left, ht, srvr, daemon, sock, client, callout>>,
           \/ thaw[h].pc # "no"
           \/ thaw[h].queued /\ "FROZEN" \in fi_status[h]
    PROVE  IInv'
<1> DEFINE st == (fi_status[h] \ {"FREEZING", "FROZEN"}) \cup {"THAWING"}
           tw == [thaw[h] EXCEPT !.pc = "failinit", !.srv = srvr[h].ord,
                                 !.queued = thaw[h].queued /\ thaw[h].pc # "no"]
<1>1. fi_status' = [fi_status EXCEPT ![h] = st] /\ thaw' = [thaw EXCEPT ![h] = tw]
  BY Zenon DEF Restart
<1>2. st \in SUBSET Flags /\ ("SERVER" \in st => "SERVER" \in fi_status[h])
  <2>1. fi_status[h] \in SUBSET Flags
    BY Zenon, HasFlags
  <2> QED
    BY <2>1 DEF Flags
<1>3. tw \in ThawType /\ tw.pc = "failinit"
      /\ tw.queued = (thaw[h].queued /\ thaw[h].pc # "no")
  <2>1. thaw[h] \in ThawType /\ srvr[h].ord \in Hosts
    BY DEF IInv, Types
  <2> QED
    BY <2>1, Zenon DEF ThawType
<1> HIDE DEF tw
<1>4. /\ thaw' \in [Hosts -> ThawType] /\ \A k \in Hosts \ {h} : thaw'[k] = thaw[k]
      /\ thaw'[h] = tw
  BY Zenon, <1>1, <1>3, ThawChange DEF IInv
<1>5. ASSUME FlagsFine(h, ht.server, ht.pendsrv, fi_status[h], daemon[h], thaw[h],
                       sock[h], callout[h])
      PROVE  FlagsFine(h, ht.server, ht.pendsrv, st, daemon[h], tw, sock[h],
                       callout[h])
  BY <1>3, <1>5, Zenon DEF FlagsFine, Untouched, Connected, Takes
<1> HIDE DEF st
<1> QED
  BY Zenon, <1>1, <1>2, <1>4, <1>5, SetTask

LEMMA ReestablishLeasesKeeps ==
    ASSUME IInv, NEW h \in Hosts, ReestablishLeases(h) \/ ServerChanged(h) PROVE IInv'
<1>1. UNCHANGED <<setup, left, ht, srvr, daemon, sock, client, callout>>
  BY Zenon DEF ReestablishLeases, ServerChanged, net
<1>2. CASE /\ thaw[h].queued /\ thaw' = [thaw EXCEPT ![h].queued = FALSE]
           /\ UNCHANGED fi_status
  <2> DEFINE tw == [thaw[h] EXCEPT !.queued = FALSE]
  <2>1. thaw[h] \in ThawType /\ fi_status \in [Hosts -> SUBSET Flags]
    BY Zenon DEF IInv, Types
  <2>2. tw \in ThawType /\ tw.pc = thaw[h].pc /\ ~tw.queued
    BY <2>1, Zenon DEF ThawType
  <2>3. thaw' = [thaw EXCEPT ![h] = tw]
    BY Zenon, <1>2
  <2> HIDE DEF tw
  <2>4. /\ thaw' \in [Hosts -> ThawType] /\ \A k \in Hosts \ {h} : thaw'[k] = thaw[k]
        /\ thaw'[h] = tw
    BY Zenon, <2>2, <2>3, ThawChange DEF IInv
  <2>5. ASSUME FlagsFine(h, ht.server, ht.pendsrv, fi_status[h], daemon[h], thaw[h],
                         sock[h], callout[h])
        PROVE  FlagsFine(h, ht.server, ht.pendsrv, fi_status[h], daemon[h], tw, sock[h],
                         callout[h])
    BY <2>2, <2>5 DEF FlagsFine, Untouched
  <2>6. fi_status' = [fi_status EXCEPT ![h] = fi_status[h]]
    BY Zenon, <1>2, <2>1
  <2> QED
    BY Zenon, <1>1, <2>4, <2>5, <2>6, HasFlags, SetTask
<1>3. CASE Restart(h) /\ thaw[h].queued /\ Has(h, {"FROZEN"})
  <2>1. "FROZEN" \in fi_status[h]
    BY <1>3 DEF Has
  <2> QED
    BY Zenon, <1>1, <1>3, <2>1, RestartKeeps
<1>4. CASE Restart(h) /\ thaw[h].pc # "no"
  BY Zenon, <1>1, <1>4, RestartKeeps
<1> QED
  BY Zenon, <1>2, <1>3, <1>4 DEF ReestablishLeases, ServerChanged

\* The task goes on.
LEMMA ThawGoesOn ==
    ASSUME IInv, NEW h \in Hosts, NEW pc \in {"failinit", "reset", "resync", "answer"},
           thaw[h].pc # "no", thaw' \in [Hosts -> ThawType],
           \A k \in Hosts \ {h} : thaw'[k] = thaw[k],
           thaw'[h].pc = pc /\ thaw'[h].queued = thaw[h].queued,
           UNCHANGED <<setup, left, ht, fi_status, srvr, daemon, sock, callout>>,
           client' \in [Hosts -> [Hosts -> [mounted : BOOLEAN, synced : BOOLEAN]]],
           \A k, j \in Hosts : client[k][j].mounted => client'[k][j].mounted
    PROVE  IInv'
<1>1. Types'
  BY Zenon, FlagTypes DEF IInv, Types
<1>2. ASSUME FlagsFine(h, ht.server, ht.pendsrv, fi_status[h], daemon[h], thaw[h],
                       sock[h], callout[h])
      PROVE  FlagsFine(h, ht.server, ht.pendsrv, fi_status[h], daemon[h], thaw'[h],
                       sock[h], callout[h])
  BY Zenon, <1>2 DEF FlagsFine, Untouched
<1> QED
  BY Zenon, <1>1, <1>2, FlagStep

\* The server records that a host is mounted.
LEMMA MountedType ==
    ASSUME IInv, NEW k \in Hosts, NEW j \in Hosts,
           NEW e \in [mounted : BOOLEAN, synced : BOOLEAN], e.mounted,
           client' = [client EXCEPT ![k][j] = e]
    PROVE  /\ client' \in [Hosts -> [Hosts -> [mounted : BOOLEAN, synced : BOOLEAN]]]
           /\ \A a, b \in Hosts : client[a][b].mounted => client'[a][b].mounted
<1> DEFINE C == [mounted : BOOLEAN, synced : BOOLEAN]
<1>1. client \in [Hosts -> [Hosts -> C]]
  BY Zenon DEF IInv, Types
<1>2. client' = [client EXCEPT ![k] = [client[k] EXCEPT ![j] = e]]
  BY Zenon
<1> HIDE DEF C
<1>3. [client[k] EXCEPT ![j] = e] \in [Hosts -> C]
  BY Zenon, <1>1 DEF C
<1>4. /\ client' \in [Hosts -> [Hosts -> C]]
      /\ \A a \in Hosts : client'[a] = IF a = k THEN [client[k] EXCEPT ![j] = e]
                                       ELSE client[a]
  BY Zenon, <1>1, <1>2, <1>3
<1>5. \A b \in Hosts : [client[k] EXCEPT ![j] = e][b] = IF b = j THEN e ELSE client[k][b]
  BY Zenon, <1>1
<1> QED
  BY Zenon, <1>4, <1>5 DEF C

LEMMA FailInitKeeps ==
    ASSUME IInv, NEW h \in Hosts, FailInit(h) PROVE IInv'
<1>1. /\ thaw[h].pc = "failinit" /\ Served(h)
      /\ client' = [client EXCEPT ![sock[h]][h] = [mounted |-> TRUE, synced |-> FALSE]]
      /\ thaw' = ThawAt("reset", h)
      /\ UNCHANGED <<setup, left, ht, fi_status, srvr, daemon, sock, callout>>
  BY Zenon DEF FailInit
<1>2. sock[h] \in Hosts
  BY Zenon, <1>1 DEF Served, IInv, Types
<1>3. /\ [mounted |-> TRUE, synced |-> FALSE] \in [mounted : BOOLEAN, synced : BOOLEAN]
      /\ [mounted |-> TRUE, synced |-> FALSE].mounted
  OBVIOUS
<1>4. /\ client' \in [Hosts -> [Hosts -> [mounted : BOOLEAN, synced : BOOLEAN]]]
      /\ \A a, b \in Hosts : client[a][b].mounted => client'[a][b].mounted
  BY <1>1, <1>2, <1>3, MountedType, Zenon
<1>5. /\ thaw' \in [Hosts -> ThawType] /\ \A k \in Hosts \ {h} : thaw'[k] = thaw[k]
      /\ thaw'[h].pc = "reset" /\ thaw'[h].queued = thaw[h].queued
  BY Zenon, <1>1, ThawAtType DEF IInv
<1> QED
  BY Zenon, <1>1, <1>4, <1>5, ThawGoesOn

LEMMA ReestablishLeaseKeeps ==
    ASSUME IInv, NEW h \in Hosts, ReestablishLease(h) PROVE IInv'
<1>1. /\ thaw[h].pc = "reset" /\ thaw' = ThawAt("resync", h)
      /\ UNCHANGED <<setup, left, ht, fi_status, srvr, daemon, sock, callout, client>>
  BY Zenon DEF ReestablishLease, net
<1>2. /\ thaw' \in [Hosts -> ThawType] /\ \A k \in Hosts \ {h} : thaw'[k] = thaw[k]
      /\ thaw'[h].pc = "resync" /\ thaw'[h].queued = thaw[h].queued
  BY Zenon, <1>1, ThawAtType DEF IInv
<1>3. client' \in [Hosts -> [Hosts -> [mounted : BOOLEAN, synced : BOOLEAN]]]
  BY Zenon, <1>1 DEF IInv, Types
<1> QED
  BY Zenon, <1>1, <1>2, <1>3, ThawGoesOn


LEMMA ResyncKeeps ==
    ASSUME IInv, NEW h \in Hosts, Resync(h) PROVE IInv'
<1>1. /\ thaw[h].pc = "resync"
      /\ UNCHANGED <<setup, left, ht, srvr, daemon, sock, callout>>
  BY Zenon DEF Resync
<1>2. CASE /\ Has(h, {"SERVER"})
           /\ fi_status' = [fi_status EXCEPT ![h] = (@ \ {"THAWING"}) \cup {"CLNT_DONE"}]
           /\ thaw' = ThawEnds(h) /\ UNCHANGED client
  <2> DEFINE st == (fi_status[h] \ {"THAWING"}) \cup {"CLNT_DONE"}
  <2>1. fi_status' = [fi_status EXCEPT ![h] = st]
    BY Zenon, <1>2
  <2>2. /\ st \in SUBSET Flags /\ ("SERVER" \in st => "SERVER" \in fi_status[h])
        /\ "SERVER" \in fi_status[h]
    BY <1>2, HasFlags DEF Flags, Has
  <2>3. /\ thaw' \in [Hosts -> ThawType] /\ \A k \in Hosts \ {h} : thaw'[k] = thaw[k]
        /\ thaw'[h].pc = "no" /\ thaw'[h].queued = thaw[h].queued
    BY Zenon, <1>2, ThawEndsType DEF IInv
  <2>4. ASSUME FlagsFine(h, ht.server, ht.pendsrv, fi_status[h], daemon[h], thaw[h],
                         sock[h], callout[h])
        PROVE  FlagsFine(h, ht.server, ht.pendsrv, st, daemon[h], thaw'[h], sock[h],
                         callout[h])
    BY <1>1, <2>2, <2>3, <2>4 DEF FlagsFine, Untouched, Connected, Takes
  <2> HIDE DEF st
  <2> QED
    BY Zenon, <1>1, <1>2, <2>1, <2>2, <2>3, <2>4, SetTask
<1>3. CASE /\ Served(h) /\ UNCHANGED fi_status
           /\ client' = [client EXCEPT ![sock[h]][h] = [mounted |-> TRUE, synced |-> TRUE]]
           /\ thaw' = [thaw EXCEPT ![h].pc = "answer", ![h].busy = FailingOver(sock[h])]
  <2>1. sock[h] \in Hosts
    BY Zenon, <1>3 DEF Served, IInv, Types
  <2>2. /\ [mounted |-> TRUE, synced |-> TRUE] \in [mounted : BOOLEAN, synced : BOOLEAN]
        /\ [mounted |-> TRUE, synced |-> TRUE].mounted
    OBVIOUS
  <2>3. /\ client' \in [Hosts -> [Hosts -> [mounted : BOOLEAN, synced : BOOLEAN]]]
        /\ \A a, b \in Hosts : client[a][b].mounted => client'[a][b].mounted
    BY <1>3, <2>1, <2>2, MountedType, Zenon
  <2> DEFINE tw == [thaw[h] EXCEPT !.pc = "answer", !.busy = FailingOver(sock[h])]
  <2>4. thaw[h] \in ThawType /\ FailingOver(sock[h]) \in BOOLEAN
    BY DEF IInv, Types, FailingOver, Has
  <2>5. tw \in ThawType /\ tw.pc = "answer" /\ tw.queued = thaw[h].queued
    BY <2>4, Zenon DEF ThawType
  <2>6. thaw' = [thaw EXCEPT ![h] = tw]
    BY <1>3, Zenon DEF IInv, Types
  <2> HIDE DEF tw
  <2>7. /\ thaw' \in [Hosts -> ThawType] /\ \A k \in Hosts \ {h} : thaw'[k] = thaw[k]
        /\ thaw'[h] = tw
    BY Zenon, <2>5, <2>6, ThawChange DEF IInv
  <2>8. thaw'[h].pc = "answer" /\ thaw'[h].queued = thaw[h].queued
    BY Zenon, <2>5, <2>7
  <2>9. thaw[h].pc # "no"
    BY <1>1
  <2> QED
    BY Zenon, <1>1, <1>3, <2>3, <2>7, <2>8, <2>9, ThawGoesOn
<1> QED
  BY Zenon, <1>2, <1>3 DEF Resync

LEMMA ResyncedKeeps ==
    ASSUME IInv, NEW h \in Hosts, NEW answered \in BOOLEAN, Resynced(h, answered)
    PROVE  IInv'
<1> DEFINE st == fi_status[h] \cup {"CLNT_DONE"}
                   \cup (IF answered /\ ~thaw[h].busy THEN {"SRVR_DONE"} ELSE {})
<1>1. /\ thaw[h].pc \in {"resync", "answer"}
      /\ fi_status' = [fi_status EXCEPT ![h] = FailoverDone(st)] /\ thaw' = ThawEnds(h)
      /\ UNCHANGED <<setup, left, ht, srvr, daemon, sock, client, callout>>
  BY Zenon DEF Resynced, net
<1>2. st \in SUBSET Flags /\ ("SERVER" \in st => "SERVER" \in fi_status[h])
  <2>1. fi_status[h] \in SUBSET Flags
    BY Zenon, HasFlags
  <2> QED
    BY <2>1 DEF Flags
<1>3. /\ thaw' \in [Hosts -> ThawType] /\ \A k \in Hosts \ {h} : thaw'[k] = thaw[k]
      /\ thaw'[h].pc = "no" /\ thaw'[h].queued = thaw[h].queued
  BY ZenonT(30), <1>1, ThawEndsType DEF IInv
<1>4. ASSUME FlagsFine(h, ht.server, ht.pendsrv, fi_status[h], daemon[h], thaw[h],
                       sock[h], callout[h])
      PROVE  FlagsFine(h, ht.server, ht.pendsrv, st, daemon[h], thaw'[h], sock[h],
                       callout[h])
  BY <1>1, <1>3, <1>4 DEF FlagsFine, Untouched, Connected, Takes
<1> HIDE DEF st
<1>5. ASSUME FlagsFine(h, ht.server, ht.pendsrv, fi_status[h], daemon[h], thaw[h],
                       sock[h], callout[h])
      PROVE  FlagsFine(h, ht.server, ht.pendsrv, FailoverDone(st), daemon[h], thaw'[h],
                       sock[h], callout[h])
  BY Zenon, <1>4, <1>5, DoneFine
<1>6. FailoverDone(st) \in SUBSET Flags
      /\ ("SERVER" \in FailoverDone(st) => "SERVER" \in fi_status[h])
  BY Zenon, <1>2, DoneFlags
<1> QED
  BY Zenon, <1>1, <1>3, <1>5, <1>6, SetTask

-----------------------------------------------------------------------------
(* Messages of the server to the other hosts.                                *)

\* h gets other flags, and the messages on their way to it change.
LEMMA SetMessages ==
    ASSUME IInv, NEW h \in Hosts, NEW st \in SUBSET Flags,
           NEW co \in Seq({"failover", "faildone"}),
           fi_status' = [fi_status EXCEPT ![h] = st],
           callout' = [callout EXCEPT ![h] = co],
           UNCHANGED <<setup, left, ht, srvr, thaw, daemon, sock, client>>,
           "SERVER" \in st => "SERVER" \in fi_status[h],
           HostInv(h) =>
              HostFine(h, ht.server, ht.pendsrv, Own, st, daemon[h], thaw[h], sock[h], co)
    PROVE  IInv'
<1>1. Types
  BY Zenon DEF IInv
<1>2. /\ fi_status' \in [Hosts -> SUBSET Flags] /\ fi_status'[h] = st
      /\ \A k \in Hosts \ {h} : fi_status'[k] = fi_status[k]
  BY Zenon, <1>1, FlagsType
<1>3. /\ callout' \in [Hosts -> Seq({"failover", "faildone"})] /\ callout'[h] = co
      /\ \A k \in Hosts \ {h} : callout'[k] = callout[k]
  BY Zenon, <1>1 DEF Types
<1>4. Types'
  BY Zenon, <1>1, <1>2, <1>3 DEF Types
<1>5. Forced /\ ForcedInv =>
              /\ "SERVER" \in fi_status'[h] => h = ht.server /\ daemon'[h].pc # "off"
              /\ daemon'[h].pc \in {"setserver", "drain", "drained", "become"}
                    => h = ht.server /\ daemon'[h].new = h
              /\ daemon'[h].pc \notin {"failover", "surrender", "puthosts"}
  BY Zenon, <1>2 DEF ForcedInv
<1>6. Own' = Own /\ (Orderly /\ OrderlyInv => Target')
  BY Zenon DEF Own, OrderlyInv, Target
<1>7. Orderly /\ OrderlyInv =>
         HostFine(h, ht.server, ht.pendsrv, Own', fi_status'[h], daemon'[h], thaw'[h],
                  sock'[h], callout'[h])
  BY Zenon, <1>2, <1>3, <1>6 DEF OrderlyInv
<1>8. \A k \in Hosts \ {h} :
              /\ fi_status'[k] = fi_status[k] /\ daemon'[k] = daemon[k]
              /\ thaw'[k] = thaw[k] /\ sock'[k] = sock[k] /\ callout'[k] = callout[k]
  BY Zenon, <1>2, <1>3
<1> QED
  BY Zenon, <1>4, <1>5, <1>6, <1>7, <1>8, HostStep

LEMMA ToldAppend ==
    ASSUME NEW co \in Seq({"failover", "faildone"}), Told(Append(co, "faildone"))
    PROVE  Told(co)
BY DEF Told

LEMMA ToldTail ==
    ASSUME NEW co \in Seq({"failover", "faildone"}), co # <<>>
    PROVE  /\ Told(Tail(co)) => Told(co)
           /\ Head(co) = "failover" => Told(co)
           /\ Tail(co) \in Seq({"failover", "faildone"})
<1>1. Head(co) = co[1] /\ 1 \in DOMAIN co
  OBVIOUS
<1>2. \A i \in DOMAIN Tail(co) : i + 1 \in DOMAIN co /\ Tail(co)[i] = co[i + 1]
  OBVIOUS
<1> QED
  BY <1>1, <1>2 DEF Told

LEMMA SendFaildoneKeeps ==
    ASSUME IInv, NEW h \in Hosts, NEW k \in Hosts, SendFaildone(h, k) PROVE IInv'
<1>1. UNCHANGED <<setup, left, ht, srvr, thaw, daemon, sock, client>>
  BY Zenon DEF SendFaildone
<1>2. CASE /\ k = h /\ UNCHANGED callout
           /\ fi_status' = [fi_status EXCEPT ![h] = @ \cup {"SRVR_DONE"}]
  <2> DEFINE st == fi_status[h] \cup {"SRVR_DONE"}
  <2>1. st \in SUBSET Flags /\ ("SERVER" \in st => "SERVER" \in fi_status[h])
    <3>1. fi_status[h] \in SUBSET Flags
      BY ZenonT(30), HasFlags
    <3> QED
      BY <3>1 DEF Flags
  <2>2. ASSUME FlagsFine(h, ht.server, ht.pendsrv, fi_status[h], daemon[h], thaw[h],
                         sock[h], callout[h])
        PROVE  FlagsFine(h, ht.server, ht.pendsrv, st, daemon[h], thaw[h], sock[h],
                         callout[h])
    BY <2>2 DEF FlagsFine, Untouched
  <2>3. fi_status' = [fi_status EXCEPT ![h] = st]
    BY Zenon, <1>2
  <2> HIDE DEF st
  <2> QED
    BY Zenon, <1>1, <1>2, <2>1, <2>2, <2>3, SetFlags
<1>3. CASE /\ k # h /\ sock[k] = h /\ UNCHANGED fi_status
           /\ callout' = [callout EXCEPT ![k] = Append(@, "faildone")]
  <2> DEFINE co == Append(callout[k], "faildone")
  <2>1. callout[k] \in Seq({"failover", "faildone"})
    BY Zenon DEF IInv, Types
  <2>2. co \in Seq({"failover", "faildone"}) /\ (Told(co) => Told(callout[k]))
    BY <2>1, ToldAppend
  <2>3. callout' = [callout EXCEPT ![k] = co]
    BY Zenon, <1>3
  <2>4. fi_status' = [fi_status EXCEPT ![k] = fi_status[k]]
    BY Zenon, <1>3 DEF IInv, Types
  <2> HIDE DEF co
  <2>5. h # NoHost
    BY HostsAssumption
  <2>6. ASSUME HostInv(k)
        PROVE  HostFine(k, ht.server, ht.pendsrv, Own, fi_status[k], daemon[k], thaw[k],
                        sock[k], co)
    <3>1. DaemonFine(k, ht.server, ht.pendsrv, Own, daemon[k], sock[k], co)
      BY Zenon, <1>3, <2>5, <2>6 DEF HostInv, HostFine, DaemonFine, Linked
    <3>2. FlagsFine(k, ht.server, ht.pendsrv, fi_status[k], daemon[k], thaw[k],
                        sock[k], co)
      BY Zenon, <2>2, <2>6 DEF HostInv, HostFine, FlagsFine
    <3> QED
      BY Zenon, <3>1, <3>2 DEF HostFine
  <2> QED
    BY Zenon, <1>1, <2>2, <2>3, <2>4, <2>6, HasFlags, SetMessages
<1>4. CASE UNCHANGED <<fi_status, callout>>
  BY Zenon, <1>1, <1>4, Stays
<1> QED
  BY Zenon, <1>2, <1>3, <1>4 DEF SendFaildone


\* h reads a message.
LEMMA ReceiveKeeps ==
    ASSUME IInv, NEW h \in Hosts, NEW st \in SUBSET Flags, callout[h] # <<>>,
           fi_status' = [fi_status EXCEPT ![h] = st],
           callout' = [callout EXCEPT ![h] = Tail(@)],
           UNCHANGED <<setup, left, ht, srvr, thaw, daemon, sock, client>>,
           "SERVER" \in st => "SERVER" \in fi_status[h],
           HostInv(h) => FlagsFine(h, ht.server, ht.pendsrv, st, daemon[h], thaw[h],
                                   sock[h], callout[h])
    PROVE  IInv'
<1> DEFINE co == Tail(callout[h])
<1>1. callout[h] \in Seq({"failover", "faildone"})
  BY Zenon DEF IInv, Types
<1>2. co \in Seq({"failover", "faildone"}) /\ (Told(co) => Told(callout[h]))
  BY Zenon, <1>1, ToldTail
<1>3. callout' = [callout EXCEPT ![h] = co]
  BY Zenon
<1> HIDE DEF co
<1>4. ASSUME HostInv(h)
      PROVE  HostFine(h, ht.server, ht.pendsrv, Own, st, daemon[h], thaw[h], sock[h], co)
  <2>1. DaemonFine(h, ht.server, ht.pendsrv, Own, daemon[h], sock[h], co)
    BY Zenon, <1>4 DEF HostInv, HostFine, DaemonFine
  <2>2. FlagsFine(h, ht.server, ht.pendsrv, st, daemon[h], thaw[h], sock[h], co)
    BY Zenon, <1>2, <1>4 DEF FlagsFine
  <2> QED
    BY Zenon, <2>1, <2>2 DEF HostFine
<1> QED
  BY Zenon, <1>2, <1>3, <1>4, SetMessages

LEMMA ReceiveFailoverKeeps ==
    ASSUME IInv, NEW h \in Hosts, ReceiveFailover(h) PROVE IInv'
<1> DEFINE st == IF "MOUNTED" \in fi_status[h]
                 THEN (fi_status[h] \ {"RESYNCING", "THAWING"})
                         \cup {"FREEZING", "LOCK_HARD"}
                 ELSE fi_status[h]
<1>1. /\ callout[h] # <<>> /\ Head(callout[h]) = "failover"
      /\ fi_status' = [fi_status EXCEPT ![h] = st]
      /\ callout' = [callout EXCEPT ![h] = Tail(@)]
      /\ UNCHANGED <<setup, left, ht, srvr, thaw, daemon, sock, client>>
  BY Zenon DEF ReceiveFailover
<1>2. st \in SUBSET Flags /\ ("SERVER" \in st => "SERVER" \in fi_status[h])
  <2>1. fi_status[h] \in SUBSET Flags
    BY Zenon, HasFlags
  <2> QED
    BY <2>1 DEF Flags
<1>3. Told(callout[h])
  BY ZenonT(30), <1>1, ToldTail DEF IInv, Types
<1>4. ASSUME HostInv(h)
      PROVE  FlagsFine(h, ht.server, ht.pendsrv, st, daemon[h], thaw[h], sock[h],
                       callout[h])
  <2>1. /\ FlagsFine(h, ht.server, ht.pendsrv, fi_status[h], daemon[h], thaw[h], sock[h],
                     callout[h])
        /\ daemon[h].pc = "up" /\ daemon[h].srv # h
        /\ ht.pendsrv # ht.server /\ h = ht.server => daemon[h].srv = h
    BY Zenon, <1>1, <1>4 DEF HostInv, HostFine, DaemonFine
  <2> QED
    BY <1>3, <2>1 DEF FlagsFine, Untouched, Takes
<1> HIDE DEF st
<1> QED
  BY Zenon, <1>1, <1>2, <1>4, ReceiveKeeps

LEMMA ReceiveFaildoneKeeps ==
    ASSUME IInv, NEW h \in Hosts, ReceiveFaildone(h) PROVE IInv'
<1> DEFINE st == fi_status[h] \cup {"SRVR_DONE"}
<1>1. /\ callout[h] # <<>> /\ callout' = [callout EXCEPT ![h] = Tail(@)]
      /\ UNCHANGED <<setup, left, ht, srvr, thaw, daemon, sock, client>>
  BY Zenon DEF ReceiveFaildone
<1>2. ASSUME HostInv(h)
      PROVE  FlagsFine(h, ht.server, ht.pendsrv, fi_status[h], daemon[h], thaw[h],
                       sock[h], callout[h])
  BY Zenon, <1>2 DEF HostInv, HostFine
<1>3. CASE UNCHANGED fi_status
  <2>1. fi_status' = [fi_status EXCEPT ![h] = fi_status[h]]
    BY Zenon, <1>3 DEF IInv, Types
  <2> QED
    BY Zenon, <1>1, <1>2, <2>1, HasFlags, ReceiveKeeps
<1>4. CASE fi_status' = [fi_status EXCEPT ![h] = FailoverDone(st)]
  <2>1. st \in SUBSET Flags /\ ("SERVER" \in st => "SERVER" \in fi_status[h])
    BY ZenonT(30), HasFlags, DoneFlag
  <2>2. ASSUME FlagsFine(h, ht.server, ht.pendsrv, fi_status[h], daemon[h], thaw[h],
                         sock[h], callout[h])
        PROVE  FlagsFine(h, ht.server, ht.pendsrv, st, daemon[h], thaw[h], sock[h],
                         callout[h])
    BY <2>2 DEF FlagsFine, Untouched
  <2> HIDE DEF st
  <2>3. FailoverDone(st) \in SUBSET Flags
        /\ ("SERVER" \in FailoverDone(st) => "SERVER" \in fi_status[h])
    BY Zenon, <2>1, DoneFlags
  <2>4. HostInv(h) => FlagsFine(h, ht.server, ht.pendsrv, FailoverDone(st), daemon[h],
                                thaw[h], sock[h], callout[h])
    BY Zenon, <1>2, <2>2, DoneFine
  <2> QED
    BY Zenon, <1>1, <1>4, <2>3, <2>4, ReceiveKeeps
<1> QED
  BY Zenon, <1>3, <1>4 DEF ReceiveFaildone

-----------------------------------------------------------------------------
(* The daemons.                                                              *)

\* The ordinals and the tables of clients.
RestFine ==
    /\ srvr' \in [Hosts -> [ord : Hosts, prev : Hosts \cup {NoHost}]]
    /\ client' \in [Hosts -> [Hosts -> [mounted : BOOLEAN, synced : BOOLEAN]]]
    /\ \A k, j \in Hosts : client[k][j].mounted => client'[k][j].mounted

\* A step of the daemon of h.  It may learn who the server is if it did not
\* know, and open its own socket.
Moves(h, st, d, sk, tw) ==
    /\ st \in SUBSET Flags /\ d \in DaemonType /\ HasRead(d)
    /\ sk \in Hosts \cup {NoHost} /\ tw \in ThawType
    /\ fi_status' = [fi_status EXCEPT ![h] = st]
    /\ daemon' = [daemon EXCEPT ![h] = d] /\ sock' = [sock EXCEPT ![h] = sk]
    /\ thaw' = [thaw EXCEPT ![h] = tw] /\ UNCHANGED <<setup, left, ht, callout>>
    /\ RestFine
    /\ d.srv = daemon[h].srv \/ daemon[h].srv # h

\* What the step must keep in the two situations.
MovesForced(h, st, d) ==
    Forced /\ ForcedInv =>
       /\ "SERVER" \in st => h = ht.server /\ d.pc # "off"
       /\ d.pc \in {"setserver", "drain", "drained", "become"} => h = ht.server /\ d.new = h
       /\ d.pc \notin {"failover", "surrender", "puthosts"}

MovesOrderly(h, st, d, sk, tw) ==
    Orderly /\ OrderlyInv =>
       /\ HostFine(h, ht.server, ht.pendsrv, Own, st, d, tw, sk, callout[h])
       /\ sk = sock[h] \/ sk = ht.server
       /\ ht.pendsrv # ht.server /\ d.pc \in {"up", "failover"}
             => daemon[h].pc \in {"up", "failover"}

LEMMA DaemonStep ==
    ASSUME IInv, NEW h \in Hosts, NEW st, NEW d, NEW sk, NEW tw, Moves(h, st, d, sk, tw),
           MovesForced(h, st, d), MovesOrderly(h, st, d, sk, tw)
    PROVE  IInv'
<1>1. /\ daemon \in [Hosts -> DaemonType] /\ \A k \in Hosts : HasRead(daemon[k])
      /\ sock \in [Hosts -> Hosts \cup {NoHost}]
      /\ Types /\ ht.server \in Hosts /\ ht.pendsrv \in Hosts
  BY ZenonT(30), TableHosts DEF IInv, Types
<1> USE DEF Moves, RestFine
<1>2. /\ fi_status' \in [Hosts -> SUBSET Flags] /\ fi_status'[h] = st
      /\ \A k \in Hosts \ {h} : fi_status'[k] = fi_status[k]
  <2>1. fi_status \in [Hosts -> SUBSET Flags]
    BY Zenon, <1>1 DEF Types
  <2> QED
    BY <2>1
<1>3. /\ thaw' \in [Hosts -> ThawType] /\ \A k \in Hosts \ {h} : thaw'[k] = thaw[k]
      /\ thaw'[h] = tw
  BY Zenon, <1>1, ThawChange
<1>4. /\ daemon' \in [Hosts -> DaemonType] /\ \A k \in Hosts : HasRead(daemon'[k])
      /\ daemon'[h] = d /\ \A k \in Hosts \ {h} : daemon'[k] = daemon[k]
  BY Zenon, <1>1
<1>5. /\ sock' \in [Hosts -> Hosts \cup {NoHost}] /\ sock'[h] = sk
      /\ \A k \in Hosts \ {h} : sock'[k] = sock[k]
  BY Zenon, <1>1
<1>6. Types'
  BY Zenon, <1>1, <1>2, <1>3, <1>4, <1>5 DEF Types
<1>7. Own => Own'
  BY Zenon, <1>1, <1>4 DEF Own
<1>8. ASSUME Orderly, OrderlyInv
      PROVE  /\ HostFine(h, ht.server, ht.pendsrv, Own', fi_status'[h], daemon'[h],
                         thaw'[h], sock'[h], callout'[h])
             /\ Target'
  <2>1. HostFine(h, ht.server, ht.pendsrv, Own', st, d, tw, sk, callout[h])
    BY Zenon, <1>7, <1>8 DEF MovesOrderly, HostFine, DaemonFine
  <2>2. ASSUME ht.pendsrv # ht.server, daemon'[ht.server].pc \in {"up", "failover"}
        PROVE  sock'[ht.pendsrv] = ht.server /\ client'[ht.server][ht.pendsrv].mounted
    <3>1. daemon[ht.server].pc \in {"up", "failover"}
      BY Zenon, <1>1, <1>4, <1>8, <2>2 DEF MovesOrderly
    <3>2. sock[ht.pendsrv] = ht.server /\ client[ht.server][ht.pendsrv].mounted
      BY Zenon, <1>8, <2>2, <3>1 DEF OrderlyInv, Target
    <3> QED
      BY Zenon, <1>1, <1>5, <1>8, <3>2 DEF MovesOrderly
  <2>3. Target'
    BY Zenon, <2>2 DEF Target
  <2> QED
    BY Zenon, <1>2, <1>3, <1>4, <1>5, <2>1, <2>3
<1>9. \A k \in Hosts \ {h} :
              /\ fi_status'[k] = fi_status[k] /\ daemon'[k] = daemon[k]
              /\ thaw'[k] = thaw[k] /\ sock'[k] = sock[k] /\ callout'[k] = callout[k]
  BY Zenon, <1>2, <1>3, <1>4, <1>5
<1>10. Forced /\ ForcedInv =>
              /\ "SERVER" \in fi_status'[h] => h = ht.server /\ daemon'[h].pc # "off"
              /\ daemon'[h].pc \in {"setserver", "drain", "drained", "become"}
                    => h = ht.server /\ daemon'[h].new = h
              /\ daemon'[h].pc \notin {"failover", "surrender", "puthosts"}
  BY Zenon, <1>2, <1>4 DEF MovesForced
<1> QED
  BY Zenon, <1>6, <1>7, <1>8, <1>9, <1>10, HostStep


\* The daemon of h goes on to the step pc.
LEMMA AtRecord ==
    ASSUME IInv, NEW h \in Hosts, NEW pc \in Pcs, daemon[h].pc \notin {"off", "down"}
    PROVE  \E d \in DaemonType :
              /\ HasRead(d) /\ d.pc = pc /\ d.srv = daemon[h].srv /\ d.new = daemon[h].new
              /\ At(pc, h) = [daemon EXCEPT ![h] = d]
<1> DEFINE d == [daemon[h] EXCEPT !.pc = pc]
<1>1. daemon[h] \in DaemonType /\ HasRead(daemon[h])
  BY Zenon DEF IInv, Types
<1>2. d \in DaemonType /\ d.pc = pc /\ d.srv = daemon[h].srv /\ d.new = daemon[h].new
  BY <1>1 DEF DaemonType
<1>3. At(pc, h) = [daemon EXCEPT ![h] = d]
  BY Zenon DEF At
<1> HIDE DEF d
<1> QED
  BY Zenon, <1>1, <1>2, <1>3 DEF HasRead

LEMMA RestSame ==
    ASSUME IInv, UNCHANGED <<srvr, client>>
    PROVE  RestFine
BY Zenon DEF IInv, Types, RestFine

\* A step of the daemon of h that changes its flags and its record.
LEMMA AtMoves ==
    ASSUME IInv, NEW h \in Hosts, NEW st \in SUBSET Flags, NEW d \in DaemonType,
           HasRead(d), d.srv = daemon[h].srv, RestFine,
           fi_status' = [fi_status EXCEPT ![h] = st], daemon' = [daemon EXCEPT ![h] = d],
           UNCHANGED <<setup, left, ht, sock, thaw, callout>>
    PROVE  Moves(h, st, d, sock[h], thaw[h])
<1>1. sock[h] \in Hosts \cup {NoHost} /\ sock' = [sock EXCEPT ![h] = sock[h]]
  BY DEF IInv, Types
<1>2. thaw[h] \in ThawType /\ thaw' = [thaw EXCEPT ![h] = thaw[h]]
  BY DEF IInv, Types
<1> QED
  BY Zenon, <1>1, <1>2 DEF Moves

\* What a host without messages is not told.
LEMMA NotTold == ~Told(<<>>)
BY DEF Told

LEMMA DrainedKeeps ==
    ASSUME IInv, NEW h \in Hosts, Drained(h) PROVE IInv'
<1>1. /\ daemon[h].pc = "drain" /\ daemon' = At("drained", h)
      /\ UNCHANGED <<setup, left, ht, fi_status, srvr, thaw, sock, client, callout>>
  BY Zenon DEF Drained, kernel
<1>2. "drained" \in Pcs /\ daemon[h].pc \notin {"off", "down"}
  BY <1>1 DEF Pcs
<1>3. PICK d \in DaemonType :
         /\ HasRead(d) /\ d.pc = "drained" /\ d.srv = daemon[h].srv
         /\ d.new = daemon[h].new /\ daemon' = [daemon EXCEPT ![h] = d]
  <2>1. \E d \in DaemonType :
         /\ HasRead(d) /\ d.pc = "drained" /\ d.srv = daemon[h].srv
         /\ d.new = daemon[h].new /\ At("drained", h) = [daemon EXCEPT ![h] = d]
    BY <1>2, AtRecord
  <2> QED
    BY Zenon, <1>1, <2>1
<1>4. fi_status' = [fi_status EXCEPT ![h] = fi_status[h]]
  BY Zenon, <1>1 DEF IInv, Types
<1>5. Moves(h, fi_status[h], d, sock[h], thaw[h])
  BY Zenon, <1>1, <1>3, <1>4, HasFlags, RestSame, AtMoves
<1>6. ASSUME HostInv(h)
      PROVE  HostFine(h, ht.server, ht.pendsrv, Own, fi_status[h], d, thaw[h], sock[h],
                      callout[h])
  <2>1. DaemonFine(h, ht.server, ht.pendsrv, Own, d, sock[h], callout[h])
    BY ZenonT(30), <1>1, <1>2, <1>3, <1>6
       DEF HostInv, HostFine, DaemonFine, Linked, Takes, Surrenders
  <2>2. FlagsFine(h, ht.server, ht.pendsrv, fi_status[h], d, thaw[h], sock[h], callout[h])
    BY <1>1, <1>2, <1>3, <1>6 DEF HostInv, HostFine, FlagsFine, Linked, Takes, Surrenders,
       Connected
  <2> QED
    BY Zenon, <2>1, <2>2 DEF HostFine
<1>7. MovesForced(h, fi_status[h], d)
  BY <1>1, <1>2, <1>3 DEF MovesForced, ForcedInv
<1>8. MovesOrderly(h, fi_status[h], d, sock[h], thaw[h])
  BY Zenon, <1>2, <1>3, <1>6 DEF MovesOrderly, OrderlyInv
<1> QED
  BY Zenon, <1>5, <1>7, <1>8, DaemonStep

LEMMA FreezeKeeps ==
    ASSUME IInv, NEW h \in Hosts, Freeze(h) PROVE IInv'
<1> DEFINE st == (fi_status[h] \ {"FREEZING"}) \cup {"FROZEN", "LOCK_HARD"}
           pc == IF daemon[h].srv = h /\ daemon[h].new # h THEN "surrender" ELSE "become"
<1>1. /\ daemon[h].pc = "drained" /\ daemon' = At(pc, h)
      /\ fi_status' = [fi_status EXCEPT ![h] = st]
      /\ UNCHANGED <<setup, left, ht, srvr, thaw, sock, client, callout>>
  BY Zenon DEF Freeze
<1>2. /\ pc \in Pcs /\ daemon[h].pc \notin {"off", "down"} /\ pc \in {"surrender", "become"}
      /\ pc = "surrender" <=> daemon[h].srv = h /\ daemon[h].new # h
  BY <1>1 DEF Pcs
<1> HIDE DEF pc
<1>3. PICK d \in DaemonType :
         /\ HasRead(d) /\ d.pc = pc /\ d.srv = daemon[h].srv
         /\ d.new = daemon[h].new /\ daemon' = [daemon EXCEPT ![h] = d]
  BY ZenonT(30), <1>1, <1>2, AtRecord
<1>4. st \in SUBSET Flags /\ ("SERVER" \in st => "SERVER" \in fi_status[h])
  <2>1. fi_status[h] \in SUBSET Flags
    BY Zenon, HasFlags
  <2> QED
    BY <2>1 DEF Flags
<1>5. ASSUME HostInv(h)
      PROVE  HostFine(h, ht.server, ht.pendsrv, Own, st, d, thaw[h], sock[h], callout[h])
  <2>1. DaemonFine(h, ht.server, ht.pendsrv, Own, daemon[h], sock[h], callout[h])
    BY Zenon, <1>5 DEF HostInv, HostFine
  <2>2. DaemonFine(h, ht.server, ht.pendsrv, Own, d, sock[h], callout[h])
    BY <1>1, <1>2, <1>3, <2>1 DEF DaemonFine, Linked, Takes, Surrenders
  <2>3. FlagsFine(h, ht.server, ht.pendsrv, st, d, thaw[h], sock[h], callout[h])
    <3>1. FlagsFine(h, ht.server, ht.pendsrv, fi_status[h], daemon[h], thaw[h], sock[h],
                    callout[h])
      BY Zenon, <1>5 DEF HostInv, HostFine
    <3>2. /\ daemon[h].srv = h /\ callout[h] = <<>> /\ h = ht.server
          /\ Takes(h, daemon[h]) \/ Surrenders(h, daemon[h])
      BY <1>1, <2>1 DEF DaemonFine, Takes, Surrenders
    <3>3. ~Told(callout[h])
      BY Zenon, <3>2, NotTold
    <3> QED
      BY <1>1, <1>2, <1>3, <2>1, <3>1, <3>2, <3>3, Zenon DEF DaemonFine, FlagsFine, Linked,
         Takes, Surrenders, Connected, Untouched
  <2> QED
    BY Zenon, <2>2, <2>3 DEF HostFine
<1>6. MovesForced(h, st, d)
  BY <1>1, <1>2, <1>3, <1>4 DEF MovesForced, ForcedInv
<1> HIDE DEF st
<1>7. Moves(h, st, d, sock[h], thaw[h])
  BY Zenon, <1>1, <1>3, <1>4, RestSame, AtMoves
<1>8. MovesOrderly(h, st, d, sock[h], thaw[h])
  BY Zenon, <1>2, <1>3, <1>5 DEF MovesOrderly, OrderlyInv
<1> QED
  BY Zenon, <1>6, <1>7, <1>8, DaemonStep

LEMMA FailoverOldServerKeeps ==
    ASSUME IInv, NEW h \in Hosts, FailoverOldServer(h) PROVE IInv'
<1> DEFINE st == fi_status[h] \ {"SERVER"}
<1>1. /\ daemon[h].pc = "surrender" /\ daemon' = At("puthosts", h)
      /\ fi_status' = [fi_status EXCEPT ![h] = st]
      /\ UNCHANGED <<setup, left, ht, srvr, thaw, sock, client, callout>>
  BY Zenon DEF FailoverOldServer
<1>2. "puthosts" \in Pcs /\ daemon[h].pc \notin {"off", "down"}
  BY <1>1 DEF Pcs
<1>3. PICK d \in DaemonType :
         /\ HasRead(d) /\ d.pc = "puthosts" /\ d.srv = daemon[h].srv
         /\ d.new = daemon[h].new /\ daemon' = [daemon EXCEPT ![h] = d]
  <2>1. \E d \in DaemonType :
         /\ HasRead(d) /\ d.pc = "puthosts" /\ d.srv = daemon[h].srv
         /\ d.new = daemon[h].new /\ At("puthosts", h) = [daemon EXCEPT ![h] = d]
    BY <1>2, AtRecord
  <2> QED
    BY Zenon, <1>1, <2>1
<1>4. st \in SUBSET Flags /\ "SERVER" \notin st
  <2>1. fi_status[h] \in SUBSET Flags
    BY Zenon, HasFlags
  <2> QED
    BY <2>1 DEF Flags
<1>5. ASSUME HostInv(h)
      PROVE  HostFine(h, ht.server, ht.pendsrv, Own, st, d, thaw[h], sock[h], callout[h])
  <2>1. DaemonFine(h, ht.server, ht.pendsrv, Own, d, sock[h], callout[h])
    BY <1>1, <1>3, <1>5 DEF HostInv, HostFine, DaemonFine, Linked, Takes, Surrenders
  <2>2. FlagsFine(h, ht.server, ht.pendsrv, st, d, thaw[h], sock[h], callout[h])
    BY <1>1, <1>3, <1>5, ZenonT(30) DEF HostInv, HostFine, FlagsFine, Linked, Takes, Surrenders,
       Connected, Untouched
  <2> QED
    BY ZenonT(30), <2>1, <2>2 DEF HostFine
<1>6. MovesForced(h, st, d)
  BY <1>1, <1>3, <1>4 DEF MovesForced, ForcedInv
<1> HIDE DEF st
<1>7. Moves(h, st, d, sock[h], thaw[h])
  BY Zenon, <1>1, <1>3, <1>4, RestSame, AtMoves
<1>8. MovesOrderly(h, st, d, sock[h], thaw[h])
  BY Zenon, <1>3, <1>5 DEF MovesOrderly, OrderlyInv
<1> QED
  BY Zenon, <1>6, <1>7, <1>8, DaemonStep

LEMMA SetServerKeeps ==
    ASSUME IInv, NEW h \in Hosts, SetServer(h) PROVE IInv'
<1> DEFINE failover == Has(h, {"MOUNTED"}) /\ ~Has(h, {"SERVER"})
           st == IF ~failover THEN fi_status[h] \cup {"SERVER"}
                 ELSE IF "SRVR_DOWN" \in fi_status[h]
                 THEN (fi_status[h] \ {"SRVR_DOWN"})
                         \cup {"FREEZING", "LOCK_HARD", "RESYNCING"}
                 ELSE fi_status[h] \cup {"RESYNCING"}
           pc == IF failover THEN "drain" ELSE "connect"
<1>1. /\ daemon[h].pc = "setserver" /\ daemon' = At(pc, h)
      /\ fi_status' = [fi_status EXCEPT ![h] = st]
      /\ srvr' = [srvr EXCEPT ![h] = [ord |-> h, prev |-> @.ord]]
      /\ UNCHANGED <<setup, left, ht, thaw, sock, client, callout>>
  BY Zenon DEF SetServer
<1>2. /\ pc \in Pcs /\ daemon[h].pc \notin {"off", "down"} /\ pc \in {"drain", "connect"}
      /\ pc = "drain" <=> "MOUNTED" \in fi_status[h] /\ "SERVER" \notin fi_status[h]
  BY <1>1 DEF Pcs, Has
<1> HIDE DEF pc
<1>3. PICK d \in DaemonType :
         /\ HasRead(d) /\ d.pc = pc /\ d.srv = daemon[h].srv
         /\ d.new = daemon[h].new /\ daemon' = [daemon EXCEPT ![h] = d]
  <2>1. \E d \in DaemonType :
         /\ HasRead(d) /\ d.pc = pc /\ d.srv = daemon[h].srv
         /\ d.new = daemon[h].new /\ At(pc, h) = [daemon EXCEPT ![h] = d]
    BY <1>2, AtRecord
  <2> QED
    BY Zenon, <1>1, <2>1
<1>4. st \in SUBSET Flags
  <2>1. fi_status[h] \in SUBSET Flags
    BY Zenon, HasFlags
  <2> QED
    BY <2>1 DEF Flags
<1>5. ASSUME HostInv(h)
      PROVE  HostFine(h, ht.server, ht.pendsrv, Own, st, d, thaw[h], sock[h], callout[h])
  <2>1. /\ DaemonFine(h, ht.server, ht.pendsrv, Own, daemon[h], sock[h], callout[h])
        /\ FlagsFine(h, ht.server, ht.pendsrv, fi_status[h], daemon[h], thaw[h], sock[h],
                     callout[h])
    BY Zenon, <1>5 DEF HostInv, HostFine
  <2>2. /\ h = ht.server /\ ht.pendsrv = h /\ daemon[h].srv = h /\ daemon[h].new = h
        /\ callout[h] = <<>>
    BY ZenonT(30), <1>1, <2>1 DEF DaemonFine, Takes, Linked, Surrenders
  <2>3. /\ "SERVER" \notin fi_status[h] /\ "MOUNTED" \in fi_status[h]
        /\ Untouched(fi_status[h], thaw[h])
    BY <1>1, <2>1, <2>2 DEF FlagsFine, Linked, Surrenders
  <2>4. d.pc = "drain"
    BY <1>2, <1>3, <2>3
  <2>5. \/ st = (fi_status[h] \ {"SRVR_DOWN"}) \cup {"FREEZING", "LOCK_HARD", "RESYNCING"}
        \/ st = fi_status[h] \cup {"RESYNCING"}
    BY ZenonT(30), <2>3 DEF Has
  <2> HIDE DEF st
  <2>6. DaemonFine(h, ht.server, ht.pendsrv, Own, d, sock[h], callout[h])
    BY <1>1, <1>3, <2>1, <2>2, <2>4 DEF DaemonFine, Linked, Takes, Surrenders
  <2>7. ~Told(callout[h])
    BY Zenon, <2>2, NotTold
  <2>8. FlagsFine(h, ht.server, ht.pendsrv, st, d, thaw[h], sock[h], callout[h])
    BY <1>3, <2>1, <2>2, <2>3, <2>4, <2>5, <2>7, ZenonT(30) DEF FlagsFine, Linked, Takes, Surrenders,
       Untouched
  <2> QED
    BY Zenon, <2>6, <2>8 DEF HostFine
<1>6. MovesForced(h, st, d)
  BY <1>1, <1>2, <1>3 DEF MovesForced, ForcedInv
<1>7. RestFine
  <2> DEFINE S == [ord : Hosts, prev : Hosts \cup {NoHost}]
  <2>1. srvr \in [Hosts -> S] /\ srvr[h] \in S
    BY Zenon DEF IInv, Types
  <2>2. [ord |-> h, prev |-> srvr[h].ord] \in S
    BY <2>1
  <2>3. srvr' \in [Hosts -> S]
    BY Zenon, <1>1, <2>1, <2>2
  <2> QED
    BY Zenon, <1>1, <2>3 DEF RestFine, IInv, Types
<1> HIDE DEF st
<1>8. Moves(h, st, d, sock[h], thaw[h])
  BY Zenon, <1>1, <1>3, <1>4, <1>7, AtMoves
<1>9. MovesOrderly(h, st, d, sock[h], thaw[h])
  BY Zenon, <1>2, <1>3, <1>5 DEF MovesOrderly, OrderlyInv
<1> QED
  BY Zenon, <1>6, <1>8, <1>9, DaemonStep

LEMMA FailoverNewServerKeeps ==
    ASSUME IInv, NEW h \in Hosts, FailoverNewServer(h) PROVE IInv'
<1> DEFINE st == (fi_status[h] \ {"FREEZING"}) \cup {"SERVER"}
           C == [mounted : BOOLEAN, synced : BOOLEAN]
           cl == [k \in Hosts |-> [mounted |-> client[h][k].mounted, synced |-> FALSE]]
<1>1. /\ daemon[h].pc = "become" /\ daemon' = At("connect", h)
      /\ fi_status' = [fi_status EXCEPT ![h] = st]
      /\ client' = [client EXCEPT ![h] = cl]
      /\ UNCHANGED <<setup, left, ht, srvr, thaw, sock, callout>>
  BY Zenon DEF FailoverNewServer
<1>2. "connect" \in Pcs /\ daemon[h].pc \notin {"off", "down"}
  BY <1>1 DEF Pcs
<1>3. PICK d \in DaemonType :
         /\ HasRead(d) /\ d.pc = "connect" /\ d.srv = daemon[h].srv
         /\ d.new = daemon[h].new /\ daemon' = [daemon EXCEPT ![h] = d]
  <2>1. \E d \in DaemonType :
         /\ HasRead(d) /\ d.pc = "connect" /\ d.srv = daemon[h].srv
         /\ d.new = daemon[h].new /\ At("connect", h) = [daemon EXCEPT ![h] = d]
    BY <1>2, AtRecord
  <2> QED
    BY Zenon, <1>1, <2>1
<1>4. st \in SUBSET Flags
  <2>1. fi_status[h] \in SUBSET Flags
    BY Zenon, HasFlags
  <2> QED
    BY <2>1 DEF Flags
<1>5. ASSUME HostInv(h)
      PROVE  HostFine(h, ht.server, ht.pendsrv, Own, st, d, thaw[h], sock[h], callout[h])
  <2>1. /\ DaemonFine(h, ht.server, ht.pendsrv, Own, daemon[h], sock[h], callout[h])
        /\ FlagsFine(h, ht.server, ht.pendsrv, fi_status[h], daemon[h], thaw[h], sock[h],
                     callout[h])
    BY Zenon, <1>5 DEF HostInv, HostFine
  <2>2. /\ h = ht.server /\ ht.pendsrv = h /\ daemon[h].srv = h /\ daemon[h].new = h
        /\ callout[h] = <<>>
    BY <1>1, <2>1 DEF DaemonFine, Takes, Linked, Surrenders
  <2>3. DaemonFine(h, ht.server, ht.pendsrv, Own, d, sock[h], callout[h])
    BY ZenonT(30), <1>1, <1>3, <2>1, <2>2 DEF DaemonFine, Linked, Takes, Surrenders
  <2>4. ~Told(callout[h])
    BY Zenon, <2>2, NotTold
  <2>5. FlagsFine(h, ht.server, ht.pendsrv, st, d, thaw[h], sock[h], callout[h])
    BY <1>1, <1>3, <2>1, <2>2, <2>4 DEF FlagsFine, Linked, Takes, Surrenders, Untouched
  <2> QED
    BY Zenon, <2>3, <2>5 DEF HostFine
<1>6. MovesForced(h, st, d)
  BY <1>1, <1>3 DEF MovesForced, ForcedInv
<1>7. RestFine
  <2>1. client \in [Hosts -> [Hosts -> C]] /\ \A k \in Hosts : client[h][k] \in C
    BY ZenonT(30) DEF IInv, Types
  <2>2. /\ \A k \in Hosts : [mounted |-> client[h][k].mounted, synced |-> FALSE] \in C
        /\ \A k \in Hosts : client[h][k].mounted => cl[k].mounted
    BY <2>1
  <2>3. cl \in [Hosts -> C]
    BY Zenon, <2>2
  <2> HIDE DEF cl
  <2>4. client' \in [Hosts -> [Hosts -> C]] /\ client'[h] = cl
        /\ \A k \in Hosts \ {h} : client'[k] = client[k]
    BY Zenon, <1>1, <2>1, <2>3
  <2>5. \A k, j \in Hosts : client[k][j].mounted => client'[k][j].mounted
    BY Zenon, <2>2, <2>4
  <2> QED
    BY Zenon, <1>1, <2>4, <2>5 DEF RestFine, IInv, Types
<1> HIDE DEF st
<1>8. Moves(h, st, d, sock[h], thaw[h])
  BY Zenon, <1>1, <1>3, <1>4, <1>7, AtMoves
<1>9. MovesOrderly(h, st, d, sock[h], thaw[h])
  BY Zenon, <1>3, <1>5 DEF MovesOrderly, OrderlyInv
<1> QED
  BY Zenon, <1>6, <1>8, <1>9, DaemonStep


\* What sam_set_client makes of the flags st of a host h that connects to s.
ClientFlags(h, s, prev, st0) ==
    LET s1  == IF h = s THEN st0 ELSE st0 \ {"SERVER"}
        s2  == IF /\ h # s /\ prev \notin {NoHost, s}
                  /\ s1 \cap (FAILOVER \cup {"RESYNCING"}) = {}
               THEN (s1 \ {"SRVR_DOWN"}) \cup {"FREEZING", "LOCK_HARD"} ELSE s1
        s3  == IF "FREEZING" \in s2 /\ s2 \cap {"FROZEN", "RESYNCING"} = {}
               THEN (s2 \ {"FREEZING"}) \cup {"FROZEN"} ELSE s2
    IN  IF st0 \cap {"MOUNTED"} # {} THEN s3 ELSE s1

\* It does not make the host the server.  A host that is not frozen is not kept
\* from going on, and no other flag is set.
LEMMA ClientFlagsType ==
    ASSUME NEW h, NEW s, NEW prev, NEW st0 \in SUBSET Flags
    PROVE  /\ ClientFlags(h, s, prev, st0) \in SUBSET Flags
           /\ "SERVER" \in ClientFlags(h, s, prev, st0) => "SERVER" \in st0
BY DEF ClientFlags, Flags, FAILOVER

LEMMA ClientFlagsServer ==
    ASSUME NEW h, NEW prev, NEW st0 \in SUBSET Flags, "FROZEN" \in st0
    PROVE  ClientFlags(h, h, prev, st0) = st0
BY DEF ClientFlags

LEMMA ClientFlagsClient ==
    ASSUME NEW h, NEW s, NEW prev, NEW st0 \in SUBSET Flags, h # s,
           "MOUNTED" \in st0, "RESYNCING" \notin st0, "CLNT_DONE" \notin st0,
           "FREEZING" \in st0 \/ "FROZEN" \in st0 \/ "THAWING" \in st0
              => "LOCK_HARD" \in st0,
           NEW st, st = ClientFlags(h, s, prev, st0)
    PROVE  /\ "MOUNTED" \in st /\ "RESYNCING" \notin st /\ "CLNT_DONE" \notin st
           /\ "SERVER" \notin st
           /\ "FREEZING" \in st => "FROZEN" \in st
           /\ "FREEZING" \in st \/ "FROZEN" \in st \/ "THAWING" \in st
                 => "LOCK_HARD" \in st
BY DEF ClientFlags, FAILOVER

LEMMA SetClientKeeps ==
    ASSUME IInv, NEW h \in Hosts, SetClient(h) PROVE IInv'
<1> DEFINE s   == daemon[h].srv
           old == IF h = s THEN srvr[h] ELSE [ord |-> s, prev |-> srvr[h].ord]
           st  == ClientFlags(h, s, old.prev, fi_status[h])
           q   == thaw[h].queued \/ st \cap {"FREEZING", "FROZEN", "RESYNCING"} # {}
           tw  == [thaw[h] EXCEPT !.queued = q]
<1>1. /\ daemon[h].pc = "connect" /\ Listening(s) /\ daemon' = At("up", h)
      /\ fi_status' = [fi_status EXCEPT ![h] = st]
      /\ thaw' = [thaw EXCEPT ![h] = tw] /\ sock' = [sock EXCEPT ![h] = s]
      /\ srvr' = [srvr EXCEPT ![h] = [old EXCEPT !.ord = s]]
      /\ UNCHANGED <<setup, left, ht, client, callout>>
  BY Zenon DEF SetClient, ClientFlags, Has
<1>2. "up" \in Pcs /\ daemon[h].pc \notin {"off", "down"}
  BY <1>1 DEF Pcs
<1>3. PICK d \in DaemonType :
         /\ HasRead(d) /\ d.pc = "up" /\ d.srv = daemon[h].srv
         /\ d.new = daemon[h].new /\ daemon' = [daemon EXCEPT ![h] = d]
  <2>1. \E d \in DaemonType :
         /\ HasRead(d) /\ d.pc = "up" /\ d.srv = daemon[h].srv
         /\ d.new = daemon[h].new /\ At("up", h) = [daemon EXCEPT ![h] = d]
    BY <1>2, AtRecord
  <2> QED
    BY Zenon, <1>1, <2>1
<1>4. s \in Hosts
  BY Zenon, <1>2 DEF IInv, Types, HasRead
<1>5. RestFine
  <2> DEFINE S == [ord : Hosts, prev : Hosts \cup {NoHost}]
  <2>1. srvr \in [Hosts -> S] /\ srvr[h] \in S
    BY Zenon DEF IInv, Types
  <2>2. [old EXCEPT !.ord = s] \in S
    BY <1>4, <2>1
  <2>3. srvr' \in [Hosts -> S]
    BY Zenon, <1>1, <2>1, <2>2
  <2> QED
    BY Zenon, <1>1, <2>3 DEF RestFine, IInv, Types
<1> HIDE DEF old
<1>6. st \in SUBSET Flags /\ ("SERVER" \in st => "SERVER" \in fi_status[h])
  BY Zenon, HasFlags, ClientFlagsType
<1>7. ht.server \in Hosts /\ fi_status[h] \in SUBSET Flags
  BY HasFlags DEF IInv, Types, TableType
<1>8. ASSUME Orderly, OrderlyInv
      PROVE  /\ h = s => st = fi_status[h]
             /\ h # s => /\ "MOUNTED" \in st /\ "RESYNCING" \notin st
                         /\ "CLNT_DONE" \notin st /\ "SERVER" \notin st
                         /\ "FREEZING" \in st => "FROZEN" \in st
                         /\ "FREEZING" \in st \/ "FROZEN" \in st \/ "THAWING" \in st
                               => "LOCK_HARD" \in st
             /\ s = ht.server /\ ht.pendsrv = ht.server /\ Own
             /\ HostInv(h)
             /\ ~Told(callout[h])
  <2>1. HostInv(h) /\ HostInv(s)
    BY Zenon, <1>4, <1>8 DEF OrderlyInv
  <2>2. s = ht.server /\ Own
    BY Zenon, <1>1, <1>4, <2>1 DEF HostInv, HostFine, DaemonFine, Listening, Own
  <2>3. ht.pendsrv = ht.server
    BY <1>1, <2>1, ZenonT(30) DEF HostInv, HostFine, DaemonFine, Linked, Surrenders
  <2>4. callout[h] = <<>>
    BY <1>1, <2>1 DEF HostInv, HostFine, DaemonFine
  <2>5. FlagsFine(h, ht.server, ht.pendsrv, fi_status[h], daemon[h], thaw[h], sock[h],
                  callout[h])
    BY Zenon, <2>1 DEF HostInv, HostFine
  <2>6. h = s => "FROZEN" \in fi_status[h]
    BY <1>1, <2>2, <2>5 DEF FlagsFine
  <2>7. /\ "MOUNTED" \in fi_status[h] /\ "CLNT_DONE" \notin fi_status[h]
        /\ h # s => "RESYNCING" \notin fi_status[h]
        /\ "FREEZING" \in fi_status[h] \/ "FROZEN" \in fi_status[h]
              \/ "THAWING" \in fi_status[h] => "LOCK_HARD" \in fi_status[h]
    BY <1>1, <2>2, <2>5 DEF FlagsFine, Connected
  <2>8. ASSUME h = s PROVE st = fi_status[h]
    BY Zenon, <1>7, <2>6, <2>8, ClientFlagsServer
  <2>9. ASSUME h # s
        PROVE  /\ "MOUNTED" \in st /\ "RESYNCING" \notin st
               /\ "CLNT_DONE" \notin st /\ "SERVER" \notin st
               /\ "FREEZING" \in st => "FROZEN" \in st
               /\ "FREEZING" \in st \/ "FROZEN" \in st \/ "THAWING" \in st
                     => "LOCK_HARD" \in st
    BY Zenon, <1>7, <2>7, <2>9, ClientFlagsClient
  <2> QED
    BY Zenon, <2>1, <2>2, <2>3, <2>4, <2>8, <2>9, NotTold
<1> HIDE DEF st, s
<1>9. tw \in ThawType /\ tw.pc = thaw[h].pc /\ tw.queued = q
  <2>1. thaw[h] \in ThawType
    BY Zenon DEF IInv, Types
  <2> QED
    BY <2>1, Zenon DEF ThawType
<1> HIDE DEF tw
<1>10. Moves(h, st, d, s, tw)
  BY Zenon, <1>1, <1>3, <1>4, <1>5, <1>6, <1>9 DEF Moves, s
<1>11. MovesForced(h, st, d)
  BY <1>1, <1>3, <1>6 DEF MovesForced, ForcedInv
<1>12. ASSUME Orderly, OrderlyInv
       PROVE  HostFine(h, ht.server, ht.pendsrv, Own, st, d, tw, s, callout[h])
  <2>1. /\ DaemonFine(h, ht.server, ht.pendsrv, Own, daemon[h], sock[h], callout[h])
        /\ FlagsFine(h, ht.server, ht.pendsrv, fi_status[h], daemon[h], thaw[h], sock[h],
                     callout[h])
    BY Zenon, <1>8, <1>12 DEF HostInv, HostFine
  <2>2. d.srv = s /\ daemon[h].srv = s
    BY Zenon, <1>3 DEF s
  <2>3. DaemonFine(h, ht.server, ht.pendsrv, Own, d, s, callout[h])
    BY ZenonT(30), <1>1, <1>3, <1>8, <1>12, <2>1, <2>2 DEF DaemonFine, Linked, Takes, Surrenders
  <2>4. /\ thaw[h].pc = "no" /\ "CLNT_DONE" \notin fi_status[h] /\ ~thaw[h].queued
    BY <1>1, <2>1 DEF FlagsFine, Connected
  <2>5. Connected(ht.server, d, s)
    BY Zenon, <1>3, <1>8, <1>12, <2>2 DEF Connected
  <2>6. CASE h = s
    <3>1. /\ "FROZEN" \in fi_status[h] /\ "LOCK_HARD" \in fi_status[h]
          /\ "RESYNCING" \in fi_status[h]
      BY <1>1, <1>8, <1>12, <2>1, <2>2, <2>6 DEF FlagsFine
    <3>2. st = fi_status[h] /\ h = ht.server /\ ht.pendsrv = ht.server /\ ~Told(callout[h])
      BY Zenon, <1>8, <1>12, <2>6
    <3>3. FlagsFine(h, ht.server, ht.pendsrv, st, d, tw, s, callout[h])
      BY <1>3, <1>9, <2>1, <2>2, <2>4, <2>5, <3>1, <3>2, ZenonT(30) DEF FlagsFine, Takes, Linked
    <3> QED
      BY Zenon, <2>3, <3>3 DEF HostFine
  <2>7. CASE h # s
    <3>1. /\ "MOUNTED" \in st /\ "RESYNCING" \notin st
          /\ "CLNT_DONE" \notin st /\ "SERVER" \notin st
          /\ "FREEZING" \in st => "FROZEN" \in st
          /\ "FREEZING" \in st \/ "FROZEN" \in st \/ "THAWING" \in st
                => "LOCK_HARD" \in st
          /\ h # ht.server /\ ht.pendsrv = ht.server /\ ~Told(callout[h])
      BY Zenon, <1>8, <1>12, <2>7
    <3>2. q => "FROZEN" \in st
      BY <2>4, <3>1
    <3>3. FlagsFine(h, ht.server, ht.pendsrv, st, d, tw, s, callout[h])
      BY <1>3, <1>9, <2>4, <2>5, <3>1, <3>2, Zenon DEF FlagsFine, Takes, Linked
    <3> QED
      BY Zenon, <2>3, <3>3 DEF HostFine
  <2> QED
    BY Zenon, <2>6, <2>7
<1>13. MovesOrderly(h, st, d, s, tw)
  BY Zenon, <1>8, <1>12 DEF MovesOrderly
<1> QED
  BY Zenon, <1>10, <1>11, <1>13, DaemonStep
=============================================================================
