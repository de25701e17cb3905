--------------------------- MODULE FailoverProofs ---------------------------
(***************************************************************************)
(* Daemons that start and stop, the administrator and failures keep the    *)
(* invariant of FailoverInv.  There is one metadata server, for any        *)
(* number of hosts and of failovers: where an administrator lets each      *)
(* failover end before they ask for the next and no host fails, and where  *)
(* only failed servers are replaced.                                       *)
(***************************************************************************)
EXTENDS FailoverInv

\* The daemon starts again at step pc.
LEMMA StartedType ==
    ASSUME IInv, NEW pc \in Pcs
    PROVE  \E d \in DaemonType :
              /\ d = [pc |-> pc, srv |-> ht.server, new |-> ht.pendsrv,
                      via |-> "validate"]
              /\ HasRead(d) /\ d.pc = pc /\ d.srv = ht.server /\ d.new = ht.pendsrv
<1>1. ht.server \in Hosts /\ ht.pendsrv \in Hosts
  BY DEF IInv, Types, TableType
<1> DEFINE r == [pc |-> pc, srv |-> ht.server, new |-> ht.pendsrv, via |-> "validate"]
<1>2. r \in DaemonType /\ r.pc = pc /\ r.srv = ht.server /\ r.new = ht.pendsrv
  BY <1>1 DEF DaemonType
<1>3. HasRead(r)
  BY Zenon, <1>1, <1>2 DEF HasRead
<1> QED
  BY Zenon, <1>2, <1>3

\* A daemon that was down goes on as a new server or as a client.
LEMMA StartKeeps ==
    ASSUME IInv, NEW h \in Hosts, NEW pc \in {"failover", "setserver", "connect"},
           daemon[h].pc = "down",
           daemon' = [daemon EXCEPT ![h] = [pc |-> pc, srv |-> ht.server,
                                            new |-> ht.pendsrv, via |-> "validate"]],
           UNCHANGED <<setup, left, ht, fi_status, srvr, thaw, sock, client, callout>>,
           pc = "failover" => ht.server = h /\ ht.pendsrv # h,
           pc = "setserver" => ht.server = h /\ ht.pendsrv = h,
           pc = "connect" => ht.server # h /\ ht.pendsrv = ht.server
    PROVE  IInv'
<1>1. pc \in Pcs
  BY DEF Pcs
<1>2. PICK d \in DaemonType :
         /\ HasRead(d) /\ d.pc = pc /\ d.srv = ht.server /\ d.new = ht.pendsrv
         /\ daemon' = [daemon EXCEPT ![h] = d]
  BY Zenon, <1>1, StartedType
<1>3. /\ fi_status' = [fi_status EXCEPT ![h] = fi_status[h]]
      /\ sock[h] \in Hosts \cup {NoHost} /\ sock' = [sock EXCEPT ![h] = sock[h]]
      /\ thaw[h] \in ThawType /\ thaw' = [thaw EXCEPT ![h] = thaw[h]]
  BY DEF IInv, Types
<1>4. CASE Orderly
  <2>1. HostInv(h)
    BY Zenon, <1>4 DEF IInv, OrderlyInv
  <2>2. /\ DaemonFine(h, ht.server, ht.pendsrv, Own, daemon[h], sock[h], callout[h])
        /\ FlagsFine(h, ht.server, ht.pendsrv, fi_status[h], daemon[h], thaw[h], sock[h],
                     callout[h])
    BY Zenon, <2>1 DEF HostInv, HostFine
  <2>3. daemon[h].srv = NoHost /\ NoHost # h
    BY <2>2, HostsAssumption DEF DaemonFine
  <2>4. pc # "failover" /\ callout[h] = <<>> /\ sock[h] = NoHost
    BY <2>2, <2>3 DEF DaemonFine, Linked, Surrenders
  <2>5. DaemonFine(h, ht.server, ht.pendsrv, Own, d, sock[h], callout[h])
    BY <1>2, <2>2, <2>3, <2>4 DEF DaemonFine, Linked, Surrenders, Takes
  <2>6. FlagsFine(h, ht.server, ht.pendsrv, fi_status[h], d, thaw[h], sock[h], callout[h])
    BY <1>2, <2>2, <2>3, <2>4, ZenonT(30) DEF FlagsFine, Linked, Surrenders, Takes, Connected
  <2>7. MovesForced(h, fi_status[h], d)
    BY <1>2, <2>4 DEF MovesForced, ForcedInv
  <2>8. MovesOrderly(h, fi_status[h], d, sock[h], thaw[h])
    BY <1>2, <2>4, <2>5, <2>6 DEF MovesOrderly, HostFine
  <2>9. Moves(h, fi_status[h], d, sock[h], thaw[h])
    BY Zenon, <1>2, <1>3, <2>3, HasFlags, RestSame DEF Moves
  <2> QED
    BY Zenon, <2>7, <2>8, <2>9, DaemonStep
<1>5. CASE ~Orderly
  <2>1. /\ daemon' \in [Hosts -> DaemonType] /\ \A k \in Hosts : HasRead(daemon'[k])
        /\ daemon'[h] = d /\ \A k \in Hosts \ {h} : daemon'[k] = daemon[k]
    <3>1. /\ daemon \in [Hosts -> DaemonType] /\ \A k \in Hosts : HasRead(daemon[k])
      BY Zenon DEF IInv, Types
    <3>2. daemon' = [daemon EXCEPT ![h] = d] /\ HasRead(d)
      BY Zenon, <1>2
    <3> QED
      BY <3>1, <3>2
  <2>2. Types'
    BY Zenon, <2>1 DEF IInv, Types
  <2>3. ASSUME Forced', NEW k \in Hosts
        PROVE  /\ ForcedInv
               /\ "SERVER" \in fi_status'[k] => k = ht.server /\ daemon'[k].pc # "off"
               /\ daemon'[k].pc \in {"setserver", "drain", "drained", "become"}
                     => k = ht.server /\ daemon'[k].new = k
               /\ daemon'[k].pc \notin {"failover", "surrender", "puthosts"}
    <3>1. ForcedInv
      BY Zenon, <2>3 DEF Forced, IInv
    <3>2. CASE k = h
      BY <1>2, <2>1, <3>1, <3>2 DEF ForcedInv
    <3>3. CASE k # h
      BY Zenon, <2>1, <3>1, <3>3 DEF ForcedInv
    <3> QED
      BY Zenon, <3>1, <3>2, <3>3
  <2>4. ASSUME Forced' PROVE ForcedInv'
    <3>1. ForcedInv
      BY Zenon, <2>4 DEF Forced, IInv
    <3> QED
      BY Zenon, <2>3, <2>4, <3>1 DEF ForcedInv
  <2> QED
    BY Zenon, <1>5, <2>2, <2>4 DEF IInv, Orderly
<1> QED
  BY Zenon, <1>4, <1>5

LEMMA ValidateFsKeeps ==
    ASSUME IInv, NEW h \in Hosts, ValidateFs(h) PROVE IInv'
<1> DEFINE started(pc) == [daemon EXCEPT ![h] =
              [pc |-> pc, srv |-> ht.server, new |-> ht.pendsrv, via |-> "validate"]]
<1>1. /\ daemon[h].pc = "down"
      /\ UNCHANGED <<setup, left, fi_status, srvr, thaw, sock, client, callout>>
  BY Zenon DEF ValidateFs
<1>2. CASE /\ ht.server = h /\ ht.pendsrv # h
           /\ daemon' = started("failover") /\ UNCHANGED ht
  BY Zenon, <1>1, <1>2, StartKeeps
<1>3. CASE /\ ht.server = h /\ ht.pendsrv = h /\ ht.prevsrv = NoHost
           /\ ht' = [ht EXCEPT !.prevsrv = h] /\ UNCHANGED daemon
  <2>1. /\ ht' \in TableType /\ ht'.server = ht.server /\ ht'.pendsrv = ht.pendsrv
    BY <1>3, Zenon DEF IInv, Types, TableType
  <2>2. Types'
    BY Zenon, <1>1, <1>3, <2>1 DEF IInv, Types
  <2>3. ~Orderly
    BY Zenon, <1>3 DEF IInv, OrderlyInv
  <2> QED
    BY Zenon, <1>1, <1>3, <2>1, <2>2, <2>3 DEF IInv, Forced, ForcedInv, Orderly
<1>4. CASE /\ ht.server = h /\ ht.pendsrv = h
           /\ daemon' = started("setserver") /\ UNCHANGED ht
  BY Zenon, <1>1, <1>4, StartKeeps
<1>5. CASE /\ ht.server # h /\ ht.pendsrv = ht.server
           /\ daemon' = started("connect") /\ UNCHANGED ht
  BY Zenon, <1>1, <1>5, StartKeeps
<1> QED
  BY Zenon, <1>2, <1>3, <1>4, <1>5 DEF ValidateFs


\* A daemon exits.  With orderly failovers that is the daemon of a client that
\* is not connected.
LEMMA ExitKeeps ==
    ASSUME IInv, NEW h \in Hosts, Exit(h),
           UNCHANGED <<setup, left, ht, fi_status, srvr, thaw, client>>,
           Orderly /\ OrderlyInv => /\ daemon[h].pc \in {"connect", "up"}
                                    /\ daemon[h].srv # h
                                    /\ ~Connected(ht.server, daemon[h], sock[h])
    PROVE  IInv'
<1>1. Types /\ ht.server \in Hosts /\ ht.pendsrv \in Hosts
  BY DEF IInv, Types, TableType
<1>2. /\ daemon' \in [Hosts -> DaemonType] /\ \A k \in Hosts : HasRead(daemon'[k])
      /\ sock' \in [Hosts -> Hosts \cup {NoHost}]
      /\ callout' \in [Hosts -> Seq({"failover", "faildone"})]
      /\ daemon'[h] = Down /\ sock'[h] = NoHost /\ callout'[h] = <<>>
      /\ \A k \in Hosts \ {h} :
            /\ daemon'[k] = daemon[k] /\ callout'[k] = callout[k]
            /\ sock'[k] = IF sock[k] = h THEN NoHost ELSE sock[k]
  BY Zenon, <1>1, ExitType
<1>3. Types'
  BY Zenon, <1>1, <1>2 DEF Types
<1>4. ForcedInv =>
              /\ "SERVER" \in fi_status'[h] => h = ht.server /\ daemon'[h].pc # "off"
              /\ daemon'[h].pc \in {"setserver", "drain", "drained", "become"}
                    => h = ht.server /\ daemon'[h].new = h
              /\ daemon'[h].pc \notin {"failover", "surrender", "puthosts"}
  BY <1>2, DownType DEF ForcedInv
<1>5. CASE Orderly
  <2>1. OrderlyInv
    BY Zenon, <1>5 DEF IInv
  <2>2. /\ DaemonFine(h, ht.server, ht.pendsrv, Own, daemon[h], sock[h], callout[h])
        /\ FlagsFine(h, ht.server, ht.pendsrv, fi_status[h], daemon[h], thaw[h], sock[h],
                     callout[h])
    BY Zenon, <2>1 DEF OrderlyInv, HostInv, HostFine
  <2>3. /\ daemon[h].pc \in {"connect", "up"} /\ daemon[h].srv # h
        /\ ~Connected(ht.server, daemon[h], sock[h])
    BY Zenon, <1>5, <2>1
  <2>4. sock[h] = NoHost
    BY <2>2, <2>3, Zenon DEF DaemonFine, Connected, Linked, Surrenders
  <2>5. ASSUME NEW k \in Hosts \ {h} PROVE sock'[k] = sock[k]
    <3>1. HostInv(k) /\ h # NoHost
      BY <2>1, HostsAssumption DEF OrderlyInv
    <3>2. sock[k] # h
      BY Zenon, <2>3, <3>1 DEF HostInv, HostFine, DaemonFine, Own
    <3> QED
      BY Zenon, <1>2, <3>2
  <2>6. Own => Own'
    BY Zenon, <1>1, <1>2, <2>3 DEF Own
  <2>7. Target'
    BY ZenonT(30), <1>1, <1>2, <2>1, <2>4, <2>5, HostsAssumption, DownType
       DEF OrderlyInv, Target
  <2>8. DaemonFine(h, ht.server, ht.pendsrv, Own', Down, NoHost, <<>>)
    BY <2>2, <2>3, DownType, HostsAssumption, Zenon DEF DaemonFine, Linked, Surrenders, Takes
  <2>9. FlagsFine(h, ht.server, ht.pendsrv, fi_status[h], Down, thaw[h], NoHost, <<>>)
    BY <2>2, <2>3, DownType, NotTold, HostsAssumption, Zenon
       DEF FlagsFine, DaemonFine, Linked, Surrenders, Takes
  <2>10. HostFine(h, ht.server, ht.pendsrv, Own', fi_status'[h], daemon'[h], thaw'[h],
                  sock'[h], callout'[h])
    BY Zenon, <1>2, <2>8, <2>9 DEF HostFine
  <2>11. \A k \in Hosts \ {h} :
              /\ fi_status'[k] = fi_status[k] /\ daemon'[k] = daemon[k]
              /\ thaw'[k] = thaw[k] /\ sock'[k] = sock[k] /\ callout'[k] = callout[k]
    BY Zenon, <1>2, <2>5
  <2> QED
    BY Zenon, <1>3, <1>4, <2>6, <2>7, <2>10, <2>11, HostStep
<1>6. CASE ~Orderly
  <2>1. ASSUME Forced' PROVE ForcedInv'
    <3>1. ForcedInv
      BY Zenon, <2>1 DEF IInv, Forced
    <3> QED
      BY ZenonT(30), <1>2, <1>4, <3>1 DEF ForcedInv
  <2> QED
    BY Zenon, <1>3, <1>6, <2>1 DEF IInv, Orderly
<1> QED
  BY Zenon, <1>5, <1>6

LEMMA LeaveServerKeeps ==
    ASSUME IInv, NEW h \in Hosts, LeaveServer(h) PROVE IInv'
<1>1. /\ daemon[h].pc \in {"connect", "up"} /\ daemon[h].srv # h /\ Exit(h)
      /\ UNCHANGED <<setup, left, ht, fi_status, srvr, thaw, client>>
  BY Zenon DEF LeaveServer, kernel
<1>2. \/ sock[h] = NoHost \/ daemon[h].pc = "connect"
      \/ ht.server # daemon[h].srv \/ ht.prevsrv = NoHost
  BY Zenon DEF LeaveServer
<1>3. ht.server \in Hosts /\ ht.server # NoHost
  BY HostsAssumption DEF IInv, Types, TableType
<1>4. Orderly /\ OrderlyInv => ~Connected(ht.server, daemon[h], sock[h])
  BY <1>2, <1>3 DEF OrderlyInv, Connected
<1> QED
  BY Zenon, <1>1, <1>4, ExitKeeps

LEMMA UpdateServerKeeps ==
    ASSUME IInv, NEW h \in Hosts, UpdateServer(h) PROVE IInv'
<1>1. /\ Listening(h) /\ UNCHANGED <<setup, left, ht, fi_status, srvr, thaw, client>>
  BY Zenon DEF UpdateServer, kernel
<1>2. daemon[h].srv = h /\ daemon[h].pc \in {"connect", "up"}
  BY Zenon, <1>1 DEF Listening
<1>3. /\ ht.server \in Hosts /\ ht.pendsrv \in Hosts /\ ht.server # NoHost
  BY HostsAssumption DEF IInv, Types, TableType
<1>4. CASE /\ ht.server = h /\ ht.pendsrv # h
           /\ daemon' = [daemon EXCEPT ![h] = [@ EXCEPT !.pc = "failover",
                             !.new = ht.pendsrv, !.via = "update"]]
           /\ UNCHANGED <<sock, callout>>
  <2> DEFINE d == [daemon[h] EXCEPT !.pc = "failover", !.new = ht.pendsrv,
                                    !.via = "update"]
  <2>1. daemon[h] \in DaemonType
    BY Zenon DEF IInv, Types
  <2>2. /\ d \in DaemonType /\ d.pc = "failover" /\ d.srv = h /\ d.new = ht.pendsrv
        /\ HasRead(d)
    BY <1>2, <1>3, <2>1, Zenon DEF DaemonType, Pcs, HasRead
  <2>3. daemon' = [daemon EXCEPT ![h] = d]
    BY Zenon, <1>4
  <2> HIDE DEF d
  <2>4. /\ fi_status' = [fi_status EXCEPT ![h] = fi_status[h]]
        /\ d.srv = daemon[h].srv
    BY Zenon, <1>1, <1>2, <2>2 DEF IInv, Types
  <2>5. Moves(h, fi_status[h], d, sock[h], thaw[h])
    BY Zenon, <1>1, <1>4, <2>2, <2>3, <2>4, HasFlags, RestSame, AtMoves
  <2>6. MovesForced(h, fi_status[h], d)
    BY <1>4 DEF MovesForced, ForcedInv
  <2>7. ASSUME HostInv(h)
        PROVE  /\ HostFine(h, ht.server, ht.pendsrv, Own, fi_status[h], d, thaw[h],
                           sock[h], callout[h])
               /\ daemon[h].pc = "up"
    <3>1. /\ DaemonFine(h, ht.server, ht.pendsrv, Own, daemon[h], sock[h], callout[h])
          /\ FlagsFine(h, ht.server, ht.pendsrv, fi_status[h], daemon[h], thaw[h],
                       sock[h], callout[h])
      BY Zenon, <2>7 DEF HostInv, HostFine
    <3>2. daemon[h].pc = "up" /\ callout[h] = <<>>
      BY <1>2, <1>4, <3>1 DEF DaemonFine, Linked, Surrenders
    <3>3. DaemonFine(h, ht.server, ht.pendsrv, Own, d, sock[h], callout[h])
      BY <1>2, <1>4, <2>2, <3>1, <3>2 DEF DaemonFine, Linked, Surrenders, Takes
    <3>4. FlagsFine(h, ht.server, ht.pendsrv, fi_status[h], d, thaw[h], sock[h],
                    callout[h])
      BY <1>2, <1>4, <2>2, <3>1, <3>2 DEF FlagsFine, Linked, Surrenders, Takes, Connected
    <3> QED
      BY Zenon, <3>2, <3>3, <3>4 DEF HostFine
  <2>8. MovesOrderly(h, fi_status[h], d, sock[h], thaw[h])
    BY Zenon, <2>7 DEF MovesOrderly, OrderlyInv
  <2> QED
    BY Zenon, <2>5, <2>6, <2>8, DaemonStep
<1>5. CASE /\ Exit(h)
           /\ \/ ht.server # h \/ ht.prevsrv = NoHost
              \/ daemon[h].pc = "up" /\ sock[h] = NoHost
  <2>1. ~(Orderly /\ OrderlyInv)
    <3>1. HostInv(h) /\ daemon[h].srv = h => h = ht.server
      BY Zenon DEF HostInv, HostFine, DaemonFine
    <3>2. HostInv(h) /\ h = ht.server /\ daemon[h].pc = "up" => sock[h] = ht.server
      BY Zenon, <1>2 DEF HostInv, HostFine, DaemonFine, Linked
    <3> QED
      BY Zenon, <1>2, <1>3, <1>5, <3>1, <3>2 DEF OrderlyInv
  <2> QED
    BY Zenon, <1>1, <1>5, <2>1, ExitKeeps
<1> QED
  BY Zenon, <1>4, <1>5 DEF UpdateServer


\* Where neither kind of failover is assumed, only the types are left to keep.
LEMMA OnlyTypes ==
    ASSUME Types', ~Forced, ~Orderly, UNCHANGED setup
    PROVE  IInv'
BY Zenon DEF IInv, Forced, Orderly

LEMMA VoluntaryFailoverKeeps ==
    ASSUME IInv, NEW h \in Hosts, VoluntaryFailover(h) PROVE IInv'
<1> DEFINE n  == daemon[h].new
           ok == /\ sock[n] = h /\ client[h][n].mounted
                 /\ Has(h, {"MOUNTED"}) /\ ~FailingOver(h)
<1>1. /\ daemon[h].pc = "failover"
      /\ UNCHANGED <<setup, left, ht, srvr, thaw, client>>
  BY Zenon DEF VoluntaryFailover
<1>2. Types /\ ~Forced
  BY Zenon, <1>1 DEF IInv, ForcedInv
<1>3. ASSUME Orderly
      PROVE  /\ OrderlyInv /\ ok /\ h = ht.server /\ ht.pendsrv # ht.server
             /\ daemon[h].srv = h /\ daemon[h].new = ht.pendsrv
  <2>1. OrderlyInv
    BY Zenon, <1>3 DEF IInv
  <2>2. /\ DaemonFine(h, ht.server, ht.pendsrv, Own, daemon[h], sock[h], callout[h])
        /\ FlagsFine(h, ht.server, ht.pendsrv, fi_status[h], daemon[h], thaw[h], sock[h],
                     callout[h])
    BY Zenon, <2>1 DEF OrderlyInv, HostInv, HostFine
  <2>3. /\ h = ht.server /\ ht.pendsrv # ht.server
        /\ daemon[h].srv = h /\ daemon[h].new = ht.pendsrv
    BY <1>1, <2>2 DEF DaemonFine, Surrenders
  <2>4. sock[n] = h /\ client[h][n].mounted
    BY <1>1, <2>1, <2>3 DEF OrderlyInv, Target
  <2>5. /\ "MOUNTED" \in fi_status[h] /\ "RESYNCING" \notin fi_status[h]
        /\ "FREEZING" \notin fi_status[h] /\ "FROZEN" \notin fi_status[h]
        /\ "THAWING" \notin fi_status[h]
    BY <1>1, <2>2, <2>3, Zenon DEF FlagsFine
  <2>6. Has(h, {"MOUNTED"}) /\ ~FailingOver(h)
    BY <2>5 DEF Has, FailingOver, FAILOVER
  <2> QED
    BY Zenon, <2>1, <2>3, <2>4, <2>6
<1>4. CASE /\ ok
           /\ fi_status' = [fi_status EXCEPT ![h] = @ \cup {"FREEZING", "LOCK_HARD"}]
           /\ callout' = [k \in Hosts |-> IF k # h /\ sock[k] = h
                                          THEN Append(callout[k], "failover")
                                          ELSE callout[k]]
           /\ daemon' = At("drain", h) /\ UNCHANGED sock
  <2> HIDE DEF ok
  <2> DEFINE st == fi_status[h] \cup {"FREEZING", "LOCK_HARD"}
  <2>1. st \in SUBSET Flags
    <3>1. fi_status[h] \in SUBSET Flags
      BY Zenon, HasFlags
    <3> QED
      BY <3>1 DEF Flags
  <2>2. fi_status' = [fi_status EXCEPT ![h] = st]
    BY Zenon, <1>4
  <2>3. /\ fi_status' \in [Hosts -> SUBSET Flags] /\ fi_status'[h] = st
        /\ \A k \in Hosts \ {h} : fi_status'[k] = fi_status[k]
    BY Zenon, <1>2, <2>1, <2>2, FlagsType
  <2>4. "drain" \in Pcs /\ daemon[h].pc \notin {"off", "down"}
    BY <1>1 DEF Pcs
  <2>5. /\ daemon' \in [Hosts -> DaemonType] /\ \A k \in Hosts : HasRead(daemon'[k])
        /\ \A k \in Hosts \ {h} : daemon'[k] = daemon[k]
        /\ daemon'[h].pc = "drain" /\ daemon'[h].srv = daemon[h].srv
        /\ daemon'[h].new = daemon[h].new
    BY <1>2, <1>4, <2>4, AtType
  <2>6. /\ callout' \in [Hosts -> Seq({"failover", "faildone"})]
        /\ callout'[h] = callout[h]
        /\ \A k \in Hosts \ {h} : \/ callout'[k] = callout[k]
                                  \/ sock[k] = h
    <3>1. \A k \in Hosts : /\ callout[k] \in Seq({"failover", "faildone"})
                           /\ Append(callout[k], "failover")
                                \in Seq({"failover", "faildone"})
      BY <1>2 DEF Types
    <3> QED
      BY Zenon, <1>4, <3>1
  <2>7. Types'
    BY Zenon, <1>1, <1>2, <1>4, <2>3, <2>5, <2>6 DEF Types
  <2>8. CASE Orderly
    <3>1. /\ OrderlyInv /\ h = ht.server /\ ht.pendsrv # ht.server
          /\ daemon[h].srv = h /\ daemon[h].new = ht.pendsrv
      BY Zenon, <1>3, <2>8
    <3>2. Own /\ Own'
      BY Zenon, <1>1, <2>5, <3>1 DEF Own
    <3>3. HostInv(h)'
      <4>1. /\ DaemonFine(h, ht.server, ht.pendsrv, Own, daemon[h], sock[h], callout[h])
            /\ FlagsFine(h, ht.server, ht.pendsrv, fi_status[h], daemon[h], thaw[h],
                         sock[h], callout[h])
        BY Zenon, <3>1 DEF OrderlyInv, HostInv, HostFine
      <4>2. callout[h] = <<>>
        BY Zenon, <3>1, <4>1 DEF DaemonFine
      <4>3. DaemonFine(h, ht.server, ht.pendsrv, Own', daemon'[h], sock[h], callout[h])
        BY <1>1, <2>5, <3>1, <3>2, <4>1, <4>2, ZenonT(30)
           DEF DaemonFine, Linked, Surrenders, Takes
      <4>4. FlagsFine(h, ht.server, ht.pendsrv, st, daemon'[h], thaw[h], sock[h],
                      callout[h])
        BY <1>1, <2>5, <3>1, <4>1, <4>2, NotTold, Zenon
           DEF FlagsFine, Linked, Surrenders, Takes
      <4> QED
        BY Zenon, <1>1, <1>4, <2>3, <2>6, <4>3, <4>4 DEF HostInv, HostFine
    <3>4. ASSUME NEW k \in Hosts \ {h} PROVE HostInv(k)'
      <4>1. /\ DaemonFine(k, ht.server, ht.pendsrv, Own, daemon[k], sock[k], callout[k])
            /\ FlagsFine(k, ht.server, ht.pendsrv, fi_status[k], daemon[k], thaw[k],
                         sock[k], callout[k])
        BY Zenon, <3>1 DEF OrderlyInv, HostInv, HostFine
      <4>2. \/ callout'[k] = callout[k]
            \/ daemon[k].pc = "up" /\ daemon[k].srv # k
        <5>1. h # NoHost
          BY HostsAssumption
        <5> QED
          BY Zenon, <2>6, <3>1, <4>1, <5>1 DEF DaemonFine, Linked, Surrenders
      <4>3. DaemonFine(k, ht.server, ht.pendsrv, Own', daemon[k], sock[k], callout'[k])
        BY Zenon, <3>2, <4>1, <4>2 DEF DaemonFine
      <4>4. FlagsFine(k, ht.server, ht.pendsrv, fi_status[k], daemon[k], thaw[k],
                      sock[k], callout'[k])
        BY Zenon, <3>1, <4>1 DEF FlagsFine
      <4> QED
        BY Zenon, <1>1, <1>4, <2>3, <2>5, <4>3, <4>4 DEF HostInv, HostFine
    <3>5. OrderlyInv'
      <4>1. Target'
        BY <1>1, <2>5, <3>1 DEF Target
      <4> QED
        BY Zenon, <1>1, <3>1, <3>3, <3>4, <4>1 DEF OrderlyInv
    <3> QED
      BY Zenon, <1>1, <1>2, <2>7, <3>5 DEF IInv, Forced
  <2>9. CASE ~Orderly
    BY Zenon, <1>1, <1>2, <2>7, <2>9, OnlyTypes
  <2> QED
    BY Zenon, <2>8, <2>9
<1>5. CASE ~ok /\ daemon' = At("puthosts", h) /\ UNCHANGED <<fi_status, callout, sock>>
  <2>1. ~Orderly
    BY Zenon, <1>3, <1>5
  <2> HIDE DEF ok
  <2>2. "puthosts" \in Pcs /\ daemon[h].pc \notin {"off", "down"}
    BY <1>1 DEF Pcs
  <2>3. /\ daemon' \in [Hosts -> DaemonType] /\ \A k \in Hosts : HasRead(daemon'[k])
    BY <1>2, <1>5, <2>2, AtType
  <2>4. Types'
    BY Zenon, <1>1, <1>2, <1>5, <2>3 DEF Types
  <2> QED
    BY Zenon, <1>1, <1>2, <2>1, <2>4, OnlyTypes
<1>6. CASE ~ok /\ Exit(h) /\ UNCHANGED fi_status
  <2>1. ~Orderly
    BY Zenon, <1>3, <1>6
  <2> HIDE DEF ok
  <2> QED
    BY Zenon, <1>1, <1>6, <2>1, ExitKeeps
<1> QED
  BY Zenon, <1>4, <1>5, <1>6 DEF VoluntaryFailover

LEMMA PutHostsKeeps ==
    ASSUME IInv, NEW h \in Hosts, PutHosts(h) PROVE IInv'
<1> DEFINE n == daemon[h].new
<1>1. /\ daemon[h].pc = "puthosts" /\ Exit(h)
      /\ UNCHANGED <<setup, left, fi_status, srvr, thaw, client>>
      /\ ht' = IF daemon[h].via = "validate" /\ ~(ht.server = h /\ ht.pendsrv = n)
               THEN ht ELSE [server |-> n, pendsrv |-> n, prevsrv |-> h]
  BY Zenon DEF PutHosts, kernel
<1>2. Types /\ ~Forced
  BY Zenon, <1>1 DEF IInv, ForcedInv
<1>3. /\ daemon' \in [Hosts -> DaemonType] /\ \A k \in Hosts : HasRead(daemon'[k])
      /\ sock' \in [Hosts -> Hosts \cup {NoHost}]
      /\ callout' \in [Hosts -> Seq({"failover", "faildone"})]
      /\ daemon'[h] = Down /\ sock'[h] = NoHost /\ callout'[h] = <<>>
      /\ \A k \in Hosts \ {h} :
            /\ daemon'[k] = daemon[k] /\ callout'[k] = callout[k]
            /\ sock'[k] = IF sock[k] = h THEN NoHost ELSE sock[k]
  BY Zenon, <1>1, <1>2, ExitType
<1>4. n \in Hosts /\ ht' \in TableType
  <2>1. n \in Hosts
    BY <1>1, <1>2, ZenonT(30) DEF Types, HasRead
  <2>2. [server |-> n, pendsrv |-> n, prevsrv |-> h] \in TableType /\ ht \in TableType
    BY <1>2, <2>1 DEF Types, TableType
  <2> QED
    BY Zenon, <1>1, <2>1, <2>2
<1>5. Types'
  BY Zenon, <1>1, <1>2, <1>3, <1>4 DEF Types
<1>6. CASE Orderly
  <2>1. OrderlyInv
    BY Zenon, <1>6 DEF IInv
  <2>2. /\ DaemonFine(h, ht.server, ht.pendsrv, Own, daemon[h], sock[h], callout[h])
        /\ FlagsFine(h, ht.server, ht.pendsrv, fi_status[h], daemon[h], thaw[h], sock[h],
                     callout[h])
    BY Zenon, <2>1 DEF OrderlyInv, HostInv, HostFine
  <2>3. h = ht.server /\ ht.pendsrv # ht.server /\ n = ht.pendsrv
    BY <1>1, <2>2 DEF DaemonFine, Surrenders
  <2>4. ht' = [server |-> n, pendsrv |-> n, prevsrv |-> h]
    BY Zenon, <1>1, <2>3
  <2>5. ht'.server = ht.pendsrv /\ ht'.pendsrv = ht.pendsrv /\ ht'.prevsrv = h
    BY <2>3, <2>4
  <2>6. HostInv(h)'
    <3>1. DaemonFine(h, ht.pendsrv, ht.pendsrv, Own', Down, NoHost, <<>>)
      BY ZenonT(30), <2>3, DownType, HostsAssumption DEF DaemonFine, Linked, Surrenders, Takes
    <3>2. FlagsFine(h, ht.pendsrv, ht.pendsrv, fi_status[h], Down, thaw[h], NoHost, <<>>)
      BY <1>1, <2>2, <2>3, DownType, NotTold, HostsAssumption
         DEF FlagsFine, Takes
    <3> QED
      BY Zenon, <1>1, <1>3, <2>5, <3>1, <3>2 DEF HostInv, HostFine
  <2>7. ASSUME NEW k \in Hosts \ {h} PROVE HostInv(k)'
    <3>1. /\ DaemonFine(k, ht.server, ht.pendsrv, Own, daemon[k], sock[k], callout[k])
          /\ FlagsFine(k, ht.server, ht.pendsrv, fi_status[k], daemon[k], thaw[k],
                       sock[k], callout[k])
      BY Zenon, <2>1 DEF OrderlyInv, HostInv, HostFine
    <3>2. sock'[k] = NoHost
      BY Zenon, <1>3, <2>3, <3>1 DEF DaemonFine
    <3>3. /\ daemon[k].pc \in {"up", "down"} /\ Untouched(fi_status[k], thaw[k])
          /\ daemon[k].srv # k /\ "SERVER" \notin fi_status[k]
      BY Zenon, <2>3, <3>1 DEF DaemonFine, FlagsFine
    <3>4. DaemonFine(k, ht.pendsrv, ht.pendsrv, Own', daemon[k], NoHost, callout[k])
      BY <3>1, <3>3, ZenonT(30) DEF DaemonFine, Surrenders, Takes, Linked
    <3>5. FlagsFine(k, ht.pendsrv, ht.pendsrv, fi_status[k], daemon[k], thaw[k], NoHost,
                    callout[k])
      BY <3>1, <3>3, ZenonT(30) DEF FlagsFine, Takes, Untouched
    <3> QED
      BY Zenon, <1>1, <1>3, <2>5, <3>2, <3>4, <3>5 DEF HostInv, HostFine
  <2>8. Target' /\ ht'.prevsrv # NoHost
    BY <2>5, HostsAssumption, Zenon DEF Target
  <2>9. OrderlyInv'
    BY Zenon, <1>1, <2>1, <2>6, <2>7, <2>8 DEF OrderlyInv
  <2> QED
    BY ZenonT(30), <1>1, <1>2, <1>5, <2>9 DEF IInv, Forced
<1>7. CASE ~Orderly
  BY Zenon, <1>1, <1>2, <1>5, <1>7, OnlyTypes
<1> QED
  BY Zenon, <1>6, <1>7


-----------------------------------------------------------------------------
(* The administrator, broken sockets and crashes.                            *)

LEMMA VoluntaryKeeps ==
    ASSUME IInv, NEW n \in Hosts, Voluntary(n) PROVE IInv'
<1>1. /\ left.voluntary > 0 /\ n # ht.server /\ left' = [left EXCEPT !.voluntary = @ - 1]
      /\ ht' = [server |-> ht.server, pendsrv |-> n, prevsrv |-> ht.server]
      /\ ht.pendsrv = ht.server
      /\ UNCHANGED <<setup, fi_status, srvr, daemon, sock, client, callout, thaw>>
  BY Zenon DEF Voluntary, kernel, net
<1>2. LeftType(left) /\ Types /\ ht.server \in Hosts
  BY DEF IInv, Types, TableType
<1>3. LeftType(left') /\ left'.breaks = left.breaks /\ left'.crash = left.crash
  BY <1>1, <1>2 DEF LeftType
<1>4. /\ ht' \in TableType /\ ht'.server = ht.server /\ ht'.pendsrv = n
      /\ ht'.prevsrv = ht.server
  BY <1>1, <1>2 DEF TableType
<1>5. Types'
  BY Zenon, <1>1, <1>2, <1>3, <1>4 DEF Types
<1>6. ~Forced
  BY <1>1, <1>2 DEF IInv, ForcedInv
<1>7. CASE Orderly
  <2>1. /\ OrderlyInv
        /\ \A k \in Hosts : daemon[k].pc \in {"up", "off"}
                            /\ ~Has(k, {"LOCK_HARD", "RESYNCING"})
        /\ sock[n] = ht.server /\ client[ht.server][n].mounted
    BY Zenon, <1>7 DEF IInv, Orderly, Voluntary
  <2>2. Own
    <3>1. HostInv(n) /\ ht.server # NoHost
      BY <1>2, <2>1, HostsAssumption DEF OrderlyInv
    <3> QED
      BY Zenon, <2>1, <3>1 DEF HostInv, HostFine, DaemonFine
  <2>3. Own'
    BY Zenon, <1>1, <1>4, <2>2 DEF Own
  <2>4. ASSUME NEW k \in Hosts PROVE HostInv(k)'
    <3>1. /\ DaemonFine(k, ht.server, ht.pendsrv, Own, daemon[k], sock[k], callout[k])
          /\ FlagsFine(k, ht.server, ht.pendsrv, fi_status[k], daemon[k], thaw[k],
                       sock[k], callout[k])
      BY Zenon, <2>1 DEF OrderlyInv, HostInv, HostFine
    <3>2. daemon[k].pc = "up"
      BY <2>1, <3>1 DEF DaemonFine
    <3>3. "LOCK_HARD" \notin fi_status[k] /\ "RESYNCING" \notin fi_status[k]
      BY <2>1 DEF Has
    <3>4. k = ht.server => daemon[k].srv = k
      BY Zenon, <2>2 DEF Own
    <3>5. DaemonFine(k, ht.server, n, Own', daemon[k], sock[k], callout[k])
      BY ZenonT(30), <1>1, <2>2, <2>3, <3>1, <3>2, <3>4 DEF DaemonFine, Surrenders, Takes, Linked
    <3>6. FlagsFine(k, ht.server, n, fi_status[k], daemon[k], thaw[k], sock[k],
                    callout[k])
      BY <1>1, <3>1, <3>2, <3>3, <3>4 DEF FlagsFine, Takes, Untouched
    <3> QED
      BY Zenon, <1>1, <1>4, <3>5, <3>6 DEF HostInv, HostFine
  <2>5. Target'
    BY Zenon, <1>1, <1>4, <2>1 DEF Target
  <2>6. ht'.prevsrv # NoHost
    BY <1>2, <1>4, HostsAssumption
  <2>7. OrderlyInv'
    BY Zenon, <1>3, <2>1, <2>4, <2>5, <2>6 DEF OrderlyInv
  <2> QED
    BY Zenon, <1>1, <1>5, <1>6, <2>7 DEF IInv, Forced
<1>8. CASE ~Orderly
  BY Zenon, <1>1, <1>5, <1>6, <1>8, OnlyTypes
<1> QED
  BY Zenon, <1>7, <1>8

LEMMA InvoluntaryKeeps ==
    ASSUME IInv, NEW n \in Hosts, Involuntary(n) PROVE IInv'
<1>1. /\ left.involuntary > 0 /\ left' = [left EXCEPT !.involuntary = @ - 1]
      /\ daemon[ht.server].pc = "off"
      /\ ht' = [server |-> n, pendsrv |-> n, prevsrv |-> NoHost]
      /\ UNCHANGED <<setup, fi_status, srvr, daemon, sock, client, callout, thaw>>
  BY Zenon DEF Involuntary, kernel, net
<1>2. LeftType(left) /\ Types /\ ht.server \in Hosts
  BY DEF IInv, Types, TableType
<1>3. LeftType(left') /\ left'.voluntary = left.voluntary
  BY <1>1, <1>2 DEF LeftType
<1>4. ht' \in TableType /\ ht'.server = n /\ ht'.pendsrv = n
  BY <1>1 DEF TableType
<1>5. Types'
  BY Zenon, <1>1, <1>2, <1>3, <1>4 DEF Types
<1>6. ~Orderly
  BY Zenon, <1>1, <1>2 DEF IInv, OrderlyInv, HostInv, HostFine, DaemonFine
<1>7. ASSUME Forced' PROVE ForcedInv'
  <2>1. ForcedInv
    BY Zenon, <1>1, <1>7 DEF IInv, Forced
  <2>2. \A h \in Hosts : /\ "SERVER" \notin fi_status[h]
                         /\ daemon[h].pc \notin {"setserver", "drain", "drained", "become"}
                         /\ daemon[h].pc \notin {"failover", "surrender", "puthosts"}
    BY <1>1, <2>1 DEF ForcedInv
  <2> QED
    BY Zenon, <1>1, <1>3, <1>4, <2>1, <2>2 DEF ForcedInv
<1> QED
  BY Zenon, <1>1, <1>5, <1>6, <1>7 DEF IInv, Orderly

\* Sockets that are closed at both ends.
LEMMA CloseType ==
    ASSUME Types, NEW ks, Close(ks)
    PROVE  /\ sock' \in [Hosts -> Hosts \cup {NoHost}]
           /\ callout' \in [Hosts -> Seq({"failover", "faildone"})]
<1>1. \A k \in Hosts : (IF k \in ks THEN NoHost ELSE sock[k]) \in Hosts \cup {NoHost}
  BY DEF Types
<1>2. \A k \in Hosts : (IF k \in ks THEN <<>> ELSE callout[k])
                          \in Seq({"failover", "faildone"})
  BY DEF Types
<1> QED
  BY Zenon, <1>1, <1>2 DEF Close

LEMMA BreakKeeps ==
    ASSUME IInv, NEW h \in Hosts, Break(h) PROVE IInv'
<1>1. /\ left.breaks > 0 /\ left' = [left EXCEPT !.breaks = @ - 1] /\ Close({h})
      /\ UNCHANGED <<setup, ht, fi_status, srvr, daemon, client, thaw>>
  BY Zenon DEF Break, kernel
<1>2. LeftType(left) /\ Types
  BY Zenon DEF IInv, Types
<1>3. LeftType(left') /\ left'.voluntary = left.voluntary
  BY <1>1, <1>2 DEF LeftType
<1>4. Types'
  <2>1. /\ sock' \in [Hosts -> Hosts \cup {NoHost}]
        /\ callout' \in [Hosts -> Seq({"failover", "faildone"})]
    BY Zenon, <1>1, <1>2, CloseType
  <2> QED
    BY Zenon, <1>1, <1>2, <1>3, <2>1 DEF Types
<1>5. ~Orderly
  BY <1>1, <1>2 DEF IInv, OrderlyInv
<1>6. ASSUME Forced' PROVE ForcedInv'
  BY Zenon, <1>1, <1>3, <1>6 DEF IInv, Forced, ForcedInv
<1> QED
  BY Zenon, <1>1, <1>4, <1>5, <1>6 DEF IInv, Orderly

LEMMA CrashKeeps ==
    ASSUME IInv, NEW h \in Hosts, Crash(h) PROVE IInv'
<1> DEFINE off == [Down EXCEPT !.pc = "off"]
<1>1. /\ h \in left.crash /\ left' = [left EXCEPT !.crash = @ \ {h}]
      /\ daemon' = [daemon EXCEPT ![h] = off]
      /\ Close({k \in Hosts : k = h \/ sock[k] = h})
      /\ fi_status' = [fi_status EXCEPT ![h] = {}]
      /\ thaw' = [thaw EXCEPT ![h] = NoThaw]
      /\ UNCHANGED <<setup, ht, srvr, client>>
  BY Zenon DEF Crash
<1>2. LeftType(left) /\ Types
  BY Zenon DEF IInv, Types
<1>3. LeftType(left') /\ left'.voluntary = left.voluntary
  BY ZenonT(30), <1>1, <1>2 DEF LeftType
<1>4. off \in DaemonType /\ off.pc = "off" /\ HasRead(off)
  BY DEF Down, DaemonType, Pcs, HasRead
<1> HIDE DEF off
<1>5. /\ daemon' \in [Hosts -> DaemonType] /\ \A k \in Hosts : HasRead(daemon'[k])
      /\ daemon'[h] = off /\ \A k \in Hosts \ {h} : daemon'[k] = daemon[k]
  BY Zenon, <1>1, <1>2, <1>4 DEF Types
<1>6. /\ fi_status' \in [Hosts -> SUBSET Flags] /\ fi_status'[h] = {}
      /\ \A k \in Hosts \ {h} : fi_status'[k] = fi_status[k]
  BY Zenon, <1>1, <1>2, FlagsType
<1>7. thaw' \in [Hosts -> ThawType]
  BY Zenon, <1>1, <1>2, ThawChange, NoThawType
<1>8. Types'
  <2>1. /\ sock' \in [Hosts -> Hosts \cup {NoHost}]
        /\ callout' \in [Hosts -> Seq({"failover", "faildone"})]
    BY Zenon, <1>1, <1>2, CloseType
  <2> QED
    BY Zenon, <1>1, <1>2, <1>3, <1>5, <1>6, <1>7, <2>1 DEF Types
<1>9. ~Orderly
  BY Zenon, <1>1 DEF IInv, OrderlyInv
<1>10. ASSUME Forced' PROVE ForcedInv'
  <2>1. ForcedInv
    BY Zenon, <1>1, <1>10 DEF IInv, Forced
  <2>2. ASSUME NEW k \in Hosts
        PROVE  /\ "SERVER" \in fi_status'[k] => k = ht.server /\ daemon'[k].pc # "off"
               /\ daemon'[k].pc \in {"setserver", "drain", "drained", "become"}
                     => k = ht.server /\ daemon'[k].new = k
               /\ daemon'[k].pc \notin {"failover", "surrender", "puthosts"}
    <3>1. CASE k = h
      BY <1>4, <1>5, <1>6, <3>1
    <3>2. CASE k # h
      BY Zenon, <1>5, <1>6, <2>1, <3>2 DEF ForcedInv
    <3> QED
      BY Zenon, <3>1, <3>2
  <2> QED
    BY Zenon, <1>1, <1>3, <2>1, <2>2 DEF ForcedInv
<1> QED
  BY Zenon, <1>1, <1>8, <1>9, <1>10 DEF IInv, Orderly


-----------------------------------------------------------------------------
(* The invariant holds.                                                      *)

LEMMA InitIInv ==
    ASSUME Init PROVE IInv
<1> DEFINE f == setup.first
           up == [pc |-> "up", srv |-> f, new |-> f, via |-> "validate"]
<1>1. setup \in Setups /\ setup \in Setup
  BY Zenon, HostsAssumption DEF Init
<1>2. f \in Hosts /\ setup.voluntary \in Nat /\ setup.breaks \in Nat
      /\ setup.crash \in SUBSET Hosts
  BY <1>1 DEF Setup
<1>4. /\ LeftType(left) /\ left.voluntary = setup.voluntary
      /\ left.breaks = setup.breaks /\ left.crash = setup.crash
  BY <1>2 DEF Init, LeftType
<1>5. ht \in TableType /\ ht.server = f /\ ht.pendsrv = f /\ ht.prevsrv = f
  BY <1>2 DEF Init, TableType
<1>6. /\ fi_status \in [Hosts -> SUBSET Flags]
      /\ \A h \in Hosts : fi_status[h] = {"MOUNTED"} \cup (IF h = f THEN {"SERVER"} ELSE {})
  BY DEF Init, Flags
<1>7. srvr \in [Hosts -> [ord : Hosts, prev : Hosts \cup {NoHost}]]
  BY <1>2 DEF Init
<1>8. up \in DaemonType /\ up.pc = "up" /\ up.srv = f /\ up.new = f /\ HasRead(up)
  BY <1>2 DEF DaemonType, Pcs, HasRead
<1>9. daemon = [h \in Hosts |-> up]
  BY Zenon DEF Init
<1> HIDE DEF up
<1>10. /\ daemon \in [Hosts -> DaemonType]
       /\ \A h \in Hosts : daemon[h] = up /\ HasRead(daemon[h])
  BY Zenon, <1>8, <1>9
<1>11. sock \in [Hosts -> Hosts \cup {NoHost}] /\ \A h \in Hosts : sock[h] = f
  BY <1>2 DEF Init
<1>12. client \in [Hosts -> [Hosts -> [mounted : BOOLEAN, synced : BOOLEAN]]]
  BY DEF Init
<1>13. /\ callout \in [Hosts -> Seq({"failover", "faildone"})]
       /\ \A h \in Hosts : callout[h] = <<>>
  <2>1. <<>> \in Seq({"failover", "faildone"})
    OBVIOUS
  <2> QED
    BY Zenon, <2>1 DEF Init
<1>14. thaw \in [Hosts -> ThawType] /\ \A h \in Hosts : thaw[h] = NoThaw
  BY Zenon, NoThawType DEF Init
<1>15. Types
  BY Zenon, <1>1, <1>4, <1>5, <1>6, <1>7, <1>10, <1>11, <1>12, <1>13, <1>14 DEF Types
<1>16. ASSUME Forced PROVE ForcedInv
  <2>1. \A h \in Hosts : /\ "SERVER" \in fi_status[h] => h = f
                         /\ daemon[h].pc = "up"
    BY <1>6, <1>8, <1>10
  <2> QED
    BY <1>4, <1>5, <1>16, <2>1 DEF Forced, ForcedInv
<1>17. ASSUME Orderly PROVE OrderlyInv
  <2>1. Own /\ f # NoHost
    BY <1>2, <1>5, <1>8, <1>10, HostsAssumption DEF Own
  <2>2. ASSUME NEW h \in Hosts PROVE HostInv(h)
    <3>1. DaemonFine(h, f, f, Own, up, f, <<>>)
      BY <1>8, <2>1 DEF DaemonFine, Linked, Surrenders, Takes
    <3>2. /\ "MOUNTED" \in fi_status[h] /\ ("SERVER" \in fi_status[h] => h = f)
          /\ \A x \in Flags \ {"MOUNTED", "SERVER"} : x \notin fi_status[h]
      BY <1>6
    <3>3. /\ "FREEZING" \notin fi_status[h] /\ "FROZEN" \notin fi_status[h]
          /\ "THAWING" \notin fi_status[h] /\ "RESYNCING" \notin fi_status[h]
          /\ "CLNT_DONE" \notin fi_status[h]
      BY <3>2 DEF Flags
    <3>4. FlagsFine(h, f, f, fi_status[h], up, NoThaw, f, <<>>)
      BY <1>8, <3>2, <3>3, NoThawType, NotTold, Zenon DEF FlagsFine, Linked, Takes, Untouched
    <3> QED
      BY Zenon, <1>5, <1>10, <1>11, <1>13, <1>14, <3>1, <3>4 DEF HostInv, HostFine
  <2>3. left.breaks = 0 /\ left.crash = {} /\ ht.prevsrv # NoHost /\ Target
    BY <1>4, <1>5, <1>17, <2>1 DEF Orderly, Target
  <2> QED
    BY Zenon, <2>2, <2>3 DEF OrderlyInv
<1> QED
  BY Zenon, <1>15, <1>16, <1>17 DEF IInv

LEMMA NextIInv ==
    ASSUME IInv, [Next]_vars PROVE IInv'
<1>1. CASE UNCHANGED vars
  BY Zenon, <1>1, Stays DEF vars
<1>2. ASSUME NEW h \in Hosts, Sharefsd(h) PROVE IInv'
  BY Zenon, <1>2, ValidateFsKeeps, UpdateServerKeeps, LeaveServerKeeps,
     VoluntaryFailoverKeeps, DrainedKeeps, FreezeKeeps, FailoverOldServerKeeps,
     PutHostsKeeps, SetServerKeeps, FailoverNewServerKeeps, SetClientKeeps DEF Sharefsd
<1>3. ASSUME NEW h \in Hosts, Receive(h) PROVE IInv'
  BY Zenon, <1>3, ReceiveFailoverKeeps, ReceiveFaildoneKeeps DEF Receive
<1>4. ASSUME NEW h \in Hosts, ThawTask(h) \/ Late(h) PROVE IInv'
  BY Zenon, <1>4, ReestablishLeasesKeeps, FailInitKeeps, ReestablishLeaseKeeps,
     ResyncKeeps, ResyncedKeeps, OperationKeeps DEF ThawTask, Late
<1>5. ASSUME NEW h \in Hosts, ResyncTask(h) PROVE IInv'
  BY Zenon, <1>5, OperationKeeps, FinishResyncKeeps, SendFaildoneKeeps DEF ResyncTask
<1>6. CASE Admin
  BY Zenon, <1>6, VoluntaryKeeps, InvoluntaryKeeps DEF Admin
<1> QED
  BY Zenon, <1>1, <1>2, <1>3, <1>4, <1>5, <1>6, OperationKeeps, BreakKeeps, CrashKeeps
     DEF Next

\* At most one host is the server, frozen or not.
LEMMA ServerIsOne ==
    ASSUME IInv, Orderly \/ Forced PROVE OneServer
<1>1. \A h \in Hosts : "SERVER" \in fi_status[h] => h = ht.server
  BY Zenon DEF IInv, ForcedInv, OrderlyInv, HostInv, HostFine, FlagsFine
<1>2. \A h \in Hosts : Has(h, {"SERVER"}) => h = ht.server
  BY <1>1 DEF Has
<1> QED
  BY Zenon, <1>2 DEF OneServer

\* There is one metadata server, for any number of hosts: however often an
\* administrator who waits for the last failover to end asks for another server,
\* while no host fails and no socket breaks, and however often a failed server is
\* replaced, whatever else fails, where nobody asks for another server (the roles
\* that SC_failover, SC_setserver and SC_setclient give, srmisc.c and
\* sharefs.c).  Messages may be late in both.
THEOREM ServerStaysOne == Spec => []((Orderly \/ Forced) => OneServer)
<1>1. Init => IInv
  BY InitIInv
<1>2. IInv /\ [Next]_vars => IInv'
  BY NextIInv
<1>3. IInv => ((Orderly \/ Forced) => OneServer)
  BY ServerIsOne
<1> QED
  BY <1>1, <1>2, <1>3, PTL DEF Spec
=============================================================================
