------------------------------ MODULE Failover ------------------------------
(***************************************************************************)
(* Moving the metadata server of a shared file system to another host.     *)
(*                                                                         *)
(* samsharefs writes the wanted server into the hosts table on the disk.   *)
(* Each host runs a sam-sharefsd (fs/sharefs), which reads that table,     *)
(* tells its kernel module who the server is and keeps the socket to the   *)
(* server open.  The kernel modules (fs/samfs) freeze their operations,    *)
(* change roles, give their leases to the new server and thaw.             *)
(*                                                                         *)
(* One action is one locked region, one message handler or one step of a   *)
(* scheduled task.  Leases are abstracted to one exclusive lease, and the  *)
(* operations of a host to one thread.                                     *)
(***************************************************************************)
EXTENDS Naturals, Sequences, FiniteSets

CONSTANTS
    Hosts,      \* the hosts of the hosts table
    NoHost,     \* HOSTS_NOSRV, a closed socket, an unset ordinal
    Setups      \* the situations to explore, see setup

\* first is the server at the start, to the hosts that the administrator may
\* choose, holder the host with the lease, ops those that run operations;
\* voluntary and breaks count the requests and the broken sockets, crash are the
\* hosts that may fail; a careful administrator waits for the last failover to
\* end, and late lets time run out for any host.
Setup == [first : Hosts, to : SUBSET Hosts, holder : Hosts \cup {NoHost},
          ops : SUBSET Hosts, voluntary : Nat, crash : SUBSET Hosts, breaks : Nat,
          careful : BOOLEAN, late : BOOLEAN]

ASSUME HostsAssumption ==
    /\ NoHost \notin Hosts /\ IsFiniteSet(Hosts) /\ Cardinality(Hosts) > 1
    /\ \A u \in Setups : u \in Setup

VARIABLES
    setup,      \* chosen in Init: the first server, the host that holds the
                \* lease, the hosts that run operations, and what may happen
    left,       \* what is left of the bounds on requests, breaks and crashes
    ht,         \* struct sam_host_table, on the disk
    fi_status,  \* mp->mt.fi_status: the set of its FS_ flags
    srvr,       \* m_server_ord and m_prev_srvr_ord
    m_involuntary,
    daemon,     \* sam-sharefsd: its step, and the table it has read
    sock,       \* the server at the other end of the host's socket
    client,     \* the client table of a host that is the server
    callout,    \* MOUNT_failover and MOUNT_faildone on their way to a host
    thaw,       \* sam_reestablish_leases of a host
    resync,     \* sam_resync_server of a host
    op,         \* the thread of a host, in sam_open_operation and its kin
    cl_leases,  \* the host believes that it holds the lease
    sr_leases   \* the holders of the lease in a host's server lease table

vars == <<setup, left, ht, fi_status, srvr, m_involuntary, daemon, sock, client,
          callout, thaw, resync, op, cl_leases, sr_leases>>
kernel == <<fi_status, srvr, m_involuntary, thaw, resync>>
locks  == <<op, cl_leases, sr_leases>>
net    == <<daemon, sock, client, callout>>

Flags == {"MOUNTED", "SERVER", "FREEZING", "FROZEN", "THAWING", "RESYNCING",
          "LOCK_HARD", "SRVR_DOWN", "SRVR_DONE", "CLNT_DONE"}
FAILOVER == {"FREEZING", "FROZEN", "THAWING"}

Has(h, flags)   == fi_status[h] \cap flags # {}
FailingOver(h)  == Has(h, FAILOVER \cup {"RESYNCING"})

-----------------------------------------------------------------------------
(* Operations of the file system: fs/samfs/iput.c.  m_cl_active_ops counts   *)
(* the threads that are "in".                                                *)

ActiveOps(h) == op[h] = "in"

\* sam_open_operation: the flag is tested first, the count raised afterwards.
OpenOperation(h) ==
    /\ h \in setup.ops /\ op[h] = "out"
    /\ Has(h, {"MOUNTED"}) /\ ~Has(h, {"LOCK_HARD"})
    /\ op' = [op EXCEPT ![h] = "opening"]
    /\ UNCHANGED <<setup, left, ht, kernel, net, cl_leases, sr_leases>>

IncOperation(h) ==
    /\ op[h] = "opening"
    /\ op' = [op EXCEPT ![h] = IF Has(h, {"MOUNTED"}) THEN "in" ELSE "out"]
    /\ UNCHANGED <<setup, left, ht, kernel, net, cl_leases, sr_leases>>

CloseOperation(h) ==
    /\ op[h] = "in"
    /\ op' = [op EXCEPT ![h] = "out"]
    /\ UNCHANGED <<setup, left, ht, kernel, net, cl_leases, sr_leases>>

\* sam_idle_operation and sam_freeze_ino: the count is lowered while the
\* thread waits for the host to thaw.
IdleOperation(h) ==
    /\ op[h] = "in" /\ Has(h, {"LOCK_HARD"})
    /\ op' = [op EXCEPT ![h] = "frozen"]
    /\ UNCHANGED <<setup, left, ht, kernel, net, cl_leases, sr_leases>>

Unfreeze(h) ==
    /\ op[h] = "frozen" /\ ~Has(h, {"LOCK_HARD"})
    /\ op' = [op EXCEPT ![h] = "opening"]
    /\ UNCHANGED <<setup, left, ht, kernel, net, cl_leases, sr_leases>>

-----------------------------------------------------------------------------
(* Messages a host sends to its server: the gate of sam_server_cmd.          *)

\* The server reads the messages of h and does not throw them away.
Served(h) == /\ sock[h] # NoHost
             /\ Has(sock[h], {"SERVER"}) /\ ~Has(sock[h], {"FROZEN"})

\* LEASE_get for a lease nobody else holds.  A host that is the server looks at
\* its own table; another one sends a message, which waits while it is frozen.
GetLease(h) ==
    LET s == IF Has(h, {"SERVER"}) THEN h ELSE sock[h] IN
    /\ op[h] = "in" /\ ~cl_leases[h]
    /\ \/ Has(h, {"SERVER"})
       \/ /\ ~Has(h, FAILOVER \cup {"LOCK_HARD"})
          /\ Served(h) /\ ~Has(s, {"RESYNCING"}) /\ Has(s, {"MOUNTED"})
    /\ sr_leases[s] \subseteq {h}
    /\ sr_leases' = [sr_leases EXCEPT ![s] = {h}]
    /\ cl_leases' = [cl_leases EXCEPT ![h] = TRUE]
    /\ UNCHANGED <<setup, left, ht, kernel, net, op>>

\* LEASE_relinquish, which the server refuses during a failover.
RelinquishLease(h) ==
    LET s == IF Has(h, {"SERVER"}) THEN h ELSE sock[h] IN
    /\ cl_leases[h] /\ ~Has(h, FAILOVER \cup {"LOCK_HARD"})
    /\ Has(h, {"SERVER"}) \/ Served(h)
    /\ ~FailingOver(s)
    /\ sr_leases' = [sr_leases EXCEPT ![s] = @ \ {h}]
    /\ cl_leases' = [cl_leases EXCEPT ![h] = FALSE]
    /\ UNCHANGED <<setup, left, ht, kernel, net, op>>

\* sam_srvr_not_responding: an operation found the socket closed.
ServerNotResponding(h) ==
    /\ op[h] = "in" /\ sock[h] = NoHost
    /\ ~Has(h, {"SERVER"}) /\ ~FailingOver(h)
    /\ ~({"SRVR_DOWN", "LOCK_HARD"} \subseteq fi_status[h])
    /\ fi_status' = [fi_status EXCEPT ![h] = @ \cup {"SRVR_DOWN", "LOCK_HARD"}]
    /\ UNCHANGED <<setup, left, ht, srvr, m_involuntary, thaw, resync, net, locks>>

\* sam_srvr_responding: an answer of the server arrived.
ServerResponding(h) ==
    /\ Has(h, {"SRVR_DOWN"}) /\ ~FailingOver(h) /\ Served(h)
    /\ fi_status' = [fi_status EXCEPT ![h] = @ \ {"SRVR_DOWN", "LOCK_HARD"}]
    /\ UNCHANGED <<setup, left, ht, srvr, m_involuntary, thaw, resync, net, locks>>

-----------------------------------------------------------------------------
(* sam-sharefsd: fs/sharefs/sharefs.c, config.c and client.c, and the system *)
(* calls it makes.                                                           *)

\* The daemon of h accepts connections: it found itself to be the server.
Listening(h) == daemon[h].srv = h /\ daemon[h].pc \in {"connect", "up"}

Down == [pc |-> "down", srv |-> NoHost, new |-> NoHost, via |-> "-"]
At(pc, h) == [daemon EXCEPT ![h].pc = pc]

\* A closed socket loses the messages that nobody has read.
Close(ks) ==
    /\ sock' = [k \in Hosts |-> IF k \in ks THEN NoHost ELSE sock[k]]
    /\ callout' = [k \in Hosts |-> IF k \in ks THEN <<>> ELSE callout[k]]

\* An exit closes the daemon's own socket.  The hosts it serves read what they
\* were sent before they see the end of theirs.
Exit(h) ==
    /\ daemon' = [daemon EXCEPT ![h] = Down]
    /\ sock' = [k \in Hosts |-> IF k = h \/ sock[k] = h THEN NoHost ELSE sock[k]]
    /\ callout' = [callout EXCEPT ![h] = <<>>]

\* sam-fsd starts the daemon again, and ValidateFs reads the hosts table.  The
\* server surrenders if another server is pending, notes an involuntary
\* failover in the kernel and in the table, or sets out to be the server.
\* Another host stays out of it while a server is pending.
ValidateFs(h) ==
    LET started(pc) == [daemon EXCEPT ![h] =
            [pc |-> pc, srv |-> ht.server, new |-> ht.pendsrv, via |-> "validate"]]
    IN
    /\ daemon[h].pc = "down"
    /\ \/ /\ ht.server = h /\ ht.pendsrv # h
          /\ daemon' = started("failover")
          /\ UNCHANGED <<ht, m_involuntary>>
       \/ /\ ht.server = h /\ ht.pendsrv = h /\ ht.prevsrv = NoHost
          /\ m_involuntary' = [m_involuntary EXCEPT ![h] = TRUE]
          /\ ht' = [ht EXCEPT !.prevsrv = h]
          /\ UNCHANGED daemon
       \/ /\ ht.server = h /\ ht.pendsrv = h /\ ht.prevsrv # NoHost
          /\ daemon' = started("setserver")
          /\ UNCHANGED <<ht, m_involuntary>>
       \/ /\ ht.server # h /\ ht.pendsrv = ht.server
          /\ daemon' = started("connect")
          /\ UNCHANGED <<ht, m_involuntary>>
    /\ UNCHANGED <<setup, left, fi_status, srvr, thaw, resync, sock, client,
                   callout, locks>>

\* DoUpdate of a server: it surrenders if another server is pending, and exits
\* if the table has been changed behind its back or its own socket is closed.
UpdateServer(h) ==
    /\ Listening(h)
    /\ \/ /\ ht.server = h /\ ht.prevsrv # NoHost /\ ht.pendsrv # h
          /\ daemon' = [daemon EXCEPT ![h] = [@ EXCEPT !.pc = "failover",
                            !.new = ht.pendsrv, !.via = "update"]]
          /\ UNCHANGED <<sock, callout>>
       \/ /\ \/ ht.server # h \/ ht.prevsrv = NoHost
             \/ daemon[h].pc = "up" /\ sock[h] = NoHost
          /\ Exit(h)
    /\ UNCHANGED <<setup, left, ht, kernel, client, locks>>

\* The daemon of a client exits when it has read its socket to the end, when it
\* cannot connect, and when DoUpdate finds another server in the table.
LeaveServer(h) ==
    /\ daemon[h].pc \in {"connect", "up"} /\ daemon[h].srv # h
    /\ \/ daemon[h].pc = "up" /\ sock[h] = NoHost /\ callout[h] = <<>>
       \/ daemon[h].pc = "connect" /\ ~Listening(daemon[h].srv)
       \/ ht.server # daemon[h].srv \/ ht.prevsrv = NoHost
    /\ Exit(h)
    /\ UNCHANGED <<setup, left, ht, kernel, client, locks>>

-----------------------------------------------------------------------------
(* The old server of a voluntary failover: SC_failover, srmisc.c.            *)

\* Mutant: the daemon rewrites the hosts table without the call that freezes.
NoSurrender(h) ==
    /\ daemon[h].pc = "failover"
    /\ daemon' = At("puthosts", h)
    /\ UNCHANGED <<setup, left, ht, kernel, sock, client, callout, locks>>

\* sam_voluntary_failover: the call fails unless the new server is connected
\* and mounted and no failover is under way.  It freezes this host and tells
\* every host that is connected.  DoUpdate exits when the call fails;
\* ValidateFs goes on to rewrite the hosts table.
VoluntaryFailover(h) ==
    LET n  == daemon[h].new
        ok == /\ sock[n] = h /\ client[h][n].mounted
              /\ Has(h, {"MOUNTED"}) /\ ~FailingOver(h)
    IN
    /\ daemon[h].pc = "failover"
    /\ \/ /\ ok
          /\ fi_status' = [fi_status EXCEPT ![h] = @ \cup {"FREEZING", "LOCK_HARD"}]
          /\ callout' = [k \in Hosts |-> IF k # h /\ sock[k] = h
                                         THEN Append(callout[k], "failover")
                                         ELSE callout[k]]
          /\ daemon' = At("drain", h)
          /\ UNCHANGED sock
       \/ /\ ~ok /\ daemon[h].via = "validate"
          /\ daemon' = At("puthosts", h)
          /\ UNCHANGED <<fi_status, callout, sock>>
       \/ /\ ~ok /\ daemon[h].via = "update"
          /\ Exit(h)
          /\ UNCHANGED fi_status
    /\ UNCHANGED <<setup, left, ht, srvr, m_involuntary, thaw, resync, client, locks>>

\* sam_start_failover, of the old and of the new server: wait until no
\* operation is active, then mark the host frozen.
Drained(h) ==
    /\ daemon[h].pc = "drain" /\ ~ActiveOps(h)
    /\ daemon' = At("drained", h)
    /\ UNCHANGED <<setup, left, ht, kernel, sock, client, callout, locks>>

Freeze(h) ==
    /\ daemon[h].pc = "drained"
    /\ fi_status' = [fi_status EXCEPT ![h] =
                        (@ \ {"FREEZING"}) \cup {"FROZEN", "LOCK_HARD"}]
    /\ daemon' = At(IF daemon[h].srv = h /\ daemon[h].new # h
                    THEN "surrender" ELSE "become", h)
    /\ UNCHANGED <<setup, left, ht, srvr, m_involuntary, thaw, resync, sock,
                   client, callout, locks>>

\* The rest of sam_failover_old_server: every lease of the server table is
\* expired, the metadata is written, and the host is a client.
FailoverOldServer(h) ==
    /\ daemon[h].pc = "surrender"
    /\ sr_leases' = [sr_leases EXCEPT ![h] = {}]
    /\ fi_status' = [fi_status EXCEPT ![h] = @ \ {"SERVER"}]
    /\ daemon' = At("puthosts", h)
    /\ UNCHANGED <<setup, left, ht, srvr, m_involuntary, thaw, resync, sock,
                   client, callout, op, cl_leases>>

\* putHosts: the pending server is the server.  ValidateFs first looks whether
\* the table is still the one it has read.  Then the daemon exits.
PutHosts(h) ==
    LET n == daemon[h].new IN
    /\ daemon[h].pc = "puthosts"
    /\ ht' = IF daemon[h].via = "validate" /\ ~(ht.server = h /\ ht.pendsrv = n)
             THEN ht
             ELSE [server |-> n, pendsrv |-> n, prevsrv |-> h]
    /\ Exit(h)
    /\ UNCHANGED <<setup, left, kernel, client, locks>>

-----------------------------------------------------------------------------
(* The new server, and every host once its daemon has started again.         *)

\* sam_set_server: a mounted client fails over; another host just serves.
SetServer(h) ==
    LET failover == Has(h, {"MOUNTED"}) /\ ~Has(h, {"SERVER"}) IN
    /\ daemon[h].pc = "setserver"
    /\ srvr' = [srvr EXCEPT ![h] = [ord |-> h, prev |-> @.ord]]
    /\ fi_status' = [fi_status EXCEPT ![h] =
          IF ~failover THEN @ \cup {"SERVER"}
          ELSE IF "SRVR_DOWN" \in @
          THEN (@ \ {"SRVR_DOWN"}) \cup {"FREEZING", "LOCK_HARD", "RESYNCING"}
          ELSE @ \cup {"RESYNCING"}]
    /\ daemon' = At(IF failover THEN "drain" ELSE "connect", h)
    /\ UNCHANGED <<setup, left, ht, m_involuntary, thaw, resync, sock, client,
                   callout, locks>>

\* The rest of sam_failover_new_server and of sam_set_server.  m_resync_time is
\* now: no resync recorded before counts.
FailoverNewServer(h) ==
    /\ daemon[h].pc = "become"
    /\ fi_status' = [fi_status EXCEPT ![h] = (@ \ {"FREEZING"}) \cup {"SERVER"}]
    /\ client' = [client EXCEPT ![h] = [k \in Hosts |->
                     [mounted |-> @[k].mounted, synced |-> FALSE]]]
    /\ resync' = [resync EXCEPT ![h].pc = "queued"]
    /\ daemon' = At("connect", h)
    /\ UNCHANGED <<setup, left, ht, srvr, m_involuntary, thaw, sock, callout, locks>>

\* The socket is open on both sides, and sam_set_client has been called.  A host
\* that finds another server without having been told fails over, too.
SetClient(h) ==
    LET s   == daemon[h].srv
        old == IF h = s THEN srvr[h] ELSE [ord |-> s, prev |-> srvr[h].ord]
        s1  == IF h = s THEN fi_status[h] ELSE fi_status[h] \ {"SERVER"}
        s2  == IF /\ h # s /\ old.prev \notin {NoHost, s}
                  /\ s1 \cap (FAILOVER \cup {"RESYNCING"}) = {}
               THEN (s1 \ {"SRVR_DOWN"}) \cup {"FREEZING", "LOCK_HARD"} ELSE s1
        s3  == IF "FREEZING" \in s2 /\ s2 \cap {"FROZEN", "RESYNCING"} = {}
               THEN (s2 \ {"FREEZING"}) \cup {"FROZEN"} ELSE s2
        st  == IF Has(h, {"MOUNTED"}) THEN s3 ELSE s1
    IN
    /\ daemon[h].pc = "connect" /\ Listening(s)
    /\ sock' = [sock EXCEPT ![h] = s]
    /\ srvr' = [srvr EXCEPT ![h] = [old EXCEPT !.ord = s]]
    /\ fi_status' = [fi_status EXCEPT ![h] = st]
    /\ thaw' = [thaw EXCEPT ![h].queued =
                   @ \/ st \cap {"FREEZING", "FROZEN", "RESYNCING"} # {}]
    /\ daemon' = At("up", h)
    /\ UNCHANGED <<setup, left, ht, m_involuntary, resync, client, callout, locks>>

\* sam_failover_done: nothing happens until both sides are done.
BothDone(st) == {"SRVR_DONE", "CLNT_DONE"} \subseteq st
FailoverDone(st) ==
    IF BothDone(st)
    THEN st \ {"RESYNCING", "THAWING", "LOCK_HARD", "SRVR_DONE", "CLNT_DONE"}
    ELSE st

\* MOUNT_failover: sam_set_mount_response.
ReceiveFailover(h) ==
    /\ callout[h] # <<>> /\ Head(callout[h]) = "failover"
    /\ callout' = [callout EXCEPT ![h] = Tail(@)]
    /\ fi_status' = [fi_status EXCEPT ![h] =
          IF "MOUNTED" \in @
          THEN (@ \ {"RESYNCING", "THAWING"}) \cup {"FREEZING", "LOCK_HARD"}
          ELSE @]
    /\ UNCHANGED <<setup, left, ht, srvr, m_involuntary, thaw, resync, daemon,
                   sock, client, locks>>

\* MOUNT_faildone, which a host that is not thawing ignores.
ReceiveFaildone(h) ==
    LET st == fi_status[h] \cup {"SRVR_DONE"} IN
    /\ callout[h] # <<>> /\ Head(callout[h]) = "faildone"
    /\ callout' = [callout EXCEPT ![h] = Tail(@)]
    /\ IF Has(h, {"THAWING"})
       THEN /\ fi_status' = [fi_status EXCEPT ![h] = FailoverDone(st)]
            /\ m_involuntary' = [m_involuntary EXCEPT ![h] = @ /\ ~BothDone(st)]
       ELSE UNCHANGED <<fi_status, m_involuntary>>
    /\ UNCHANGED <<setup, left, ht, srvr, thaw, resync, daemon, sock, client, locks>>

-----------------------------------------------------------------------------
(* sam_reestablish_leases, the task that thaws a host: fs/samfs/creclaim.c.  *)

ThawAt(pc, h) == [thaw EXCEPT ![h].pc = pc]
NoThaw == [queued |-> FALSE, pc |-> "no", srv |-> NoHost, busy |-> FALSE]
ThawEnds(h) == [thaw EXCEPT ![h] = [NoThaw EXCEPT !.queued = thaw[h].queued]]

\* From "restart:" on, for the server of the moment.
Restart(h) ==
    /\ thaw' = [thaw EXCEPT ![h] =
                   [thaw[h] EXCEPT !.pc = "failinit", !.srv = srvr[h].ord,
                                   !.queued = thaw[h].queued /\ thaw[h].pc # "no"]]
    /\ fi_status' = [fi_status EXCEPT ![h] =
                        (@ \ {"FREEZING", "FROZEN"}) \cup {"THAWING"}]

\* The task is dropped unless the host is frozen, or when it runs already.
ReestablishLeases(h) ==
    /\ thaw[h].queued
    /\ IF Has(h, {"FROZEN"}) /\ thaw[h].pc = "no"
       THEN Restart(h)
       ELSE /\ thaw' = [thaw EXCEPT ![h].queued = FALSE]
            /\ UNCHANGED fi_status
    /\ UNCHANGED <<setup, left, ht, srvr, m_involuntary, resync, net, locks>>

ServerChanged(h) ==
    /\ thaw[h].pc # "no" /\ thaw[h].srv # srvr[h].ord
    /\ Restart(h)
    /\ UNCHANGED <<setup, left, ht, srvr, m_involuntary, resync, net, locks>>

\* MOUNT_failinit, at the server: sam_get_mount_request.
FailInit(h) ==
    /\ thaw[h].pc = "failinit" /\ thaw[h].srv = srvr[h].ord /\ Served(h)
    /\ client' = [client EXCEPT ![sock[h]][h] = [mounted |-> TRUE, synced |-> FALSE]]
    /\ thaw' = ThawAt("reset", h)
    /\ UNCHANGED <<setup, left, ht, fi_status, srvr, m_involuntary, resync, daemon,
                   sock, callout, locks>>

\* Mutant: the leases are not sent to the new server.
SkipLeases(h) ==
    /\ thaw[h].pc = "reset" /\ thaw[h].srv = srvr[h].ord
    /\ thaw' = ThawAt("resync", h)
    /\ UNCHANGED <<setup, left, ht, fi_status, srvr, m_involuntary, resync, net, locks>>

\* LEASE_reset: a lease that another host has is recorded as waiting, but the
\* answer does not say so, and the host keeps the lease.
ReestablishLease(h) ==
    LET s == IF Has(h, {"SERVER"}) THEN h ELSE sock[h] IN
    /\ thaw[h].pc = "reset" /\ thaw[h].srv = srvr[h].ord
    /\ \/ /\ cl_leases[h] /\ (Has(h, {"SERVER"}) \/ Served(h))
          /\ sr_leases' = [sr_leases EXCEPT ![s] = IF @ = {} THEN {h} ELSE @]
       \/ ~cl_leases[h] /\ UNCHANGED sr_leases
    /\ thaw' = ThawAt("resync", h)
    /\ UNCHANGED <<setup, left, ht, fi_status, srvr, m_involuntary, resync, net, op,
                   cl_leases>>

\* MOUNT_resync at the server, which answers with its state.  A server has
\* nobody to tell.
Resync(h) ==
    /\ thaw[h].pc = "resync" /\ thaw[h].srv = srvr[h].ord
    /\ \/ /\ Has(h, {"SERVER"})
          /\ fi_status' = [fi_status EXCEPT ![h] = (@ \ {"THAWING"}) \cup {"CLNT_DONE"}]
          /\ thaw' = ThawEnds(h)
          /\ UNCHANGED client
       \/ /\ ~Has(h, {"SERVER"}) /\ Served(h)
          /\ client' = [client EXCEPT ![sock[h]][h] = [mounted |-> TRUE, synced |-> TRUE]]
          /\ thaw' = [thaw EXCEPT ![h].pc = "answer", ![h].busy = FailingOver(sock[h])]
          /\ UNCHANGED fi_status
    /\ UNCHANGED <<setup, left, ht, srvr, m_involuntary, resync, daemon, sock,
                   callout, locks>>

\* The answer, or 90 attempts without one.  The host waits for MOUNT_faildone
\* if the server is still busy and that message has not come before.
Resynced(h, answered) ==
    LET st == fi_status[h] \cup {"CLNT_DONE"}
                \cup (IF answered /\ ~thaw[h].busy THEN {"SRVR_DONE"} ELSE {})
    IN
    /\ thaw[h].srv = srvr[h].ord
    /\ \/ answered /\ thaw[h].pc = "answer"
       \/ ~answered /\ setup.late /\ thaw[h].pc = "resync" /\ ~Has(h, {"SERVER"})
    /\ fi_status' = [fi_status EXCEPT ![h] = FailoverDone(st)]
    /\ m_involuntary' = [m_involuntary EXCEPT ![h] = @ /\ ~BothDone(st)]
    /\ thaw' = ThawEnds(h)
    /\ UNCHANGED <<setup, left, ht, srvr, resync, net, locks>>

-----------------------------------------------------------------------------
(* sam_resync_server, the task that ends the failover: fs/samfs/reclaim.c.   *)

NoResync == [pc |-> "no", todo |-> {}]

\* Mutant: the new server waits for nobody.
AwaitNobody(s) == {k \in Hosts : FALSE}

\* The hosts s waits for: not itself, and not the server that failed.
Awaited(s) == {k \in Hosts \ {s} :
                 /\ ~(m_involuntary[s] /\ k = srvr[s].prev)
                 /\ ~(sock[k] = s /\ client[s][k].synced)}

\* Time runs out for hosts that have failed or that have nothing to send, and
\* in a late setup for any host.
TimeIsUp(s) == \A k \in Awaited(s) :
    \/ setup.late \/ daemon[k].pc = "off"
    \/ sock[k] = s /\ ~thaw[k].queued /\ thaw[k].pc = "no"

\* The task looks every two seconds; it ends if the host is not the server.
ResyncServer(h) ==
    /\ resync[h].pc = "queued" /\ ~Has(h, FAILOVER)
    /\ \/ /\ Has(h, {"SERVER"}) /\ sock[h] = h /\ TimeIsUp(h)
          /\ resync' = [resync EXCEPT ![h] = [pc |-> "send", todo |-> Hosts]]
       \/ /\ ~Has(h, {"SERVER"})
          /\ resync' = [resync EXCEPT ![h] = NoResync]
    /\ UNCHANGED <<setup, left, ht, fi_status, srvr, m_involuntary, thaw, net, locks>>

\* Mutant: only the server itself learns that the failover is over.
SendToSelf(h, k) ==
    /\ resync[h].pc = "send" /\ k \in resync[h].todo
    /\ resync' = [resync EXCEPT ![h].todo = @ \ {k}]
    /\ fi_status' = IF k = h /\ sock[h] = h
                    THEN [fi_status EXCEPT ![h] = @ \cup {"SRVR_DONE"}] ELSE fi_status
    /\ UNCHANGED <<setup, left, ht, srvr, m_involuntary, thaw, net, locks>>

\* MOUNT_faildone to one host after the other, if it is connected.
SendFaildone(h, k) ==
    /\ resync[h].pc = "send" /\ k \in resync[h].todo
    /\ resync' = [resync EXCEPT ![h].todo = @ \ {k}]
    /\ fi_status' = IF k = h /\ sock[h] = h
                    THEN [fi_status EXCEPT ![h] = @ \cup {"SRVR_DONE"}] ELSE fi_status
    /\ callout' = IF k # h /\ sock[k] = h
                  THEN [callout EXCEPT ![k] = Append(@, "faildone")] ELSE callout
    /\ UNCHANGED <<setup, left, ht, srvr, m_involuntary, thaw, daemon, sock, client,
                   locks>>

FinishResync(h) ==
    /\ resync[h].pc = "send" /\ resync[h].todo = {}
    /\ resync' = [resync EXCEPT ![h] = NoResync]
    /\ fi_status' = [fi_status EXCEPT ![h] = FailoverDone(@)]
    /\ m_involuntary' = [m_involuntary EXCEPT ![h] = @ /\ ~BothDone(fi_status[h])]
    /\ UNCHANGED <<setup, left, ht, srvr, thaw, net, locks>>

\* sam_expire_server_leases, which a reset of a lease has scheduled: while the
\* server fails over it expires every lease.
ExpireServerLeases(h) ==
    /\ setup.late
    /\ Has(h, {"SERVER"}) /\ FailingOver(h) /\ sr_leases[h] # {}
    /\ sr_leases' = [sr_leases EXCEPT ![h] = {}]
    /\ UNCHANGED <<setup, left, ht, kernel, net, op, cl_leases>>

-----------------------------------------------------------------------------
(* The administrator (fs/cmd/sharefs/sharefs.c), broken sockets and crashes. *)

\* samsharefs -s n.  A careful administrator waits for the hosts to thaw and
\* for n to be connected.
Voluntary(n) ==
    /\ left.voluntary > 0 /\ n \in setup.to \ {ht.server}
    /\ ht.pendsrv = ht.server /\ daemon[n].pc # "off"
    /\ setup.careful => /\ \A k \in Hosts : daemon[k].pc \in {"up", "off"}
                                           /\ ~Has(k, {"LOCK_HARD", "RESYNCING"})
                        /\ sock[n] = ht.server /\ client[ht.server][n].mounted
    /\ ht' = [server |-> ht.server, pendsrv |-> n, prevsrv |-> ht.server]
    /\ left' = [left EXCEPT !.voluntary = @ - 1]
    /\ UNCHANGED <<setup, kernel, net, locks>>

\* samsharefs -R -s n, once the server has failed.
Involuntary(n) ==
    /\ left.involuntary > 0 /\ n \in setup.to \ {ht.server}
    /\ daemon[ht.server].pc = "off" /\ daemon[n].pc # "off"
    /\ ht' = [server |-> n, pendsrv |-> n, prevsrv |-> NoHost]
    /\ left' = [left EXCEPT !.involuntary = @ - 1]
    /\ UNCHANGED <<setup, kernel, net, locks>>

\* A socket breaks while a failover is under way.
Break(h) ==
    /\ left.breaks > 0 /\ sock[h] # NoHost
    /\ \E k \in Hosts : Has(k, {"LOCK_HARD"})
    /\ Close({h})
    /\ left' = [left EXCEPT !.breaks = @ - 1]
    /\ UNCHANGED <<setup, ht, kernel, daemon, client, locks>>

\* A host fails and stays down.
Crash(h) ==
    /\ h \in left.crash
    /\ left' = [left EXCEPT !.crash = @ \ {h}]
    /\ daemon' = [daemon EXCEPT ![h] = [Down EXCEPT !.pc = "off"]]
    /\ Close({k \in Hosts : k = h \/ sock[k] = h})
    /\ fi_status' = [fi_status EXCEPT ![h] = {}]
    /\ m_involuntary' = [m_involuntary EXCEPT ![h] = FALSE]
    /\ thaw' = [thaw EXCEPT ![h] = NoThaw]
    /\ resync' = [resync EXCEPT ![h] = NoResync]
    /\ op' = [op EXCEPT ![h] = "out"]
    /\ cl_leases' = [cl_leases EXCEPT ![h] = FALSE]
    /\ sr_leases' = [sr_leases EXCEPT ![h] = {}]
    /\ UNCHANGED <<setup, ht, srvr, client>>

-----------------------------------------------------------------------------
\* Every host is mounted and connected to the first server.
Init ==
    /\ setup \in Setups
    /\ left = [voluntary |-> setup.voluntary, involuntary |-> Cardinality(setup.crash),
               breaks |-> setup.breaks, crash |-> setup.crash]
    /\ ht = [server |-> setup.first, pendsrv |-> setup.first, prevsrv |-> setup.first]
    /\ fi_status = [h \in Hosts |->
                      {"MOUNTED"} \cup (IF h = setup.first THEN {"SERVER"} ELSE {})]
    /\ srvr = [h \in Hosts |-> [ord |-> setup.first, prev |-> NoHost]]
    /\ m_involuntary = [h \in Hosts |-> FALSE]
    /\ daemon = [h \in Hosts |-> [pc |-> "up", srv |-> setup.first,
                                  new |-> setup.first, via |-> "validate"]]
    /\ sock = [h \in Hosts |-> setup.first]
    /\ client = [h \in Hosts |-> [k \in Hosts |->
                    [mounted |-> h = setup.first, synced |-> FALSE]]]
    /\ callout = [h \in Hosts |-> <<>>]
    /\ thaw = [h \in Hosts |-> NoThaw]
    /\ resync = [h \in Hosts |-> NoResync]
    /\ op = [h \in Hosts |-> "out"]
    /\ cl_leases = [h \in Hosts |-> h = setup.holder]
    /\ sr_leases = [h \in Hosts |-> IF h = setup.first THEN {setup.holder} \cap Hosts
                                                      ELSE {}]

Operation(h) == \/ OpenOperation(h) \/ IncOperation(h) \/ CloseOperation(h)
                \/ IdleOperation(h) \/ Unfreeze(h)
                \/ GetLease(h) \/ RelinquishLease(h)
                \/ ServerNotResponding(h) \/ ServerResponding(h)
Sharefsd(h)  == \/ ValidateFs(h) \/ UpdateServer(h) \/ LeaveServer(h)
                \/ VoluntaryFailover(h) \/ Drained(h) \/ Freeze(h)
                \/ FailoverOldServer(h) \/ PutHosts(h)
                \/ SetServer(h) \/ FailoverNewServer(h) \/ SetClient(h)
Receive(h)   == ReceiveFailover(h) \/ ReceiveFaildone(h)
ThawTask(h)  == \/ ReestablishLeases(h) \/ ServerChanged(h) \/ FailInit(h)
                \/ ReestablishLease(h) \/ Resync(h) \/ Resynced(h, TRUE)
ResyncTask(h) == \/ ResyncServer(h) \/ FinishResync(h)
                 \/ \E k \in Hosts : SendFaildone(h, k)
Late(h)      == Resynced(h, FALSE) \/ ExpireServerLeases(h)
Admin        == \E n \in Hosts : Voluntary(n) \/ Involuntary(n)

Next == \/ \E h \in Hosts : \/ Operation(h) \/ Sharefsd(h) \/ Receive(h)
                            \/ ThawTask(h) \/ ResyncTask(h) \/ Late(h)
                            \/ Break(h) \/ Crash(h)
        \/ Admin

\* Every thread and task of a host that is up gets its turn, an operation that
\* is in ends or freezes, and a failed server is replaced.  Nobody has to open a
\* file, ask for another server, break a socket or fail.
Fairness ==
    /\ \A h \in Hosts :
          /\ WF_vars(Sharefsd(h)) /\ WF_vars(Receive(h))
          /\ WF_vars(ThawTask(h)) /\ WF_vars(ResyncTask(h))
          /\ WF_vars(IncOperation(h) \/ Unfreeze(h))
          /\ WF_vars(CloseOperation(h)) /\ WF_vars(ServerResponding(h))
    /\ WF_vars(\E n \in Hosts : Involuntary(n))

Spec == Init /\ [][Next]_vars
FairSpec == Spec /\ Fairness

-----------------------------------------------------------------------------
\* Types: the flags, ordinals and steps are those of the code, and at most two
\* messages per host are on their way to a host.
TypeOK ==
    /\ setup \in Setups
    /\ ht \in [server : Hosts, pendsrv : Hosts, prevsrv : Hosts \cup {NoHost}]
    /\ fi_status \in [Hosts -> SUBSET Flags]
    /\ srvr \in [Hosts -> [ord : Hosts, prev : Hosts \cup {NoHost}]]
    /\ m_involuntary \in [Hosts -> BOOLEAN]
    /\ \A h \in Hosts : daemon[h].pc \in {"off", "down", "failover", "drain", "drained",
          "surrender", "puthosts", "setserver", "become", "connect", "up"}
    /\ sock \in [Hosts -> Hosts \cup {NoHost}]
    /\ client \in [Hosts -> [Hosts -> [mounted : BOOLEAN, synced : BOOLEAN]]]
    /\ \A h \in Hosts : /\ Len(callout[h]) <= 2 * Cardinality(Hosts)
                        /\ thaw[h].pc \in {"no", "failinit", "reset", "resync", "answer"}
                        /\ resync[h].pc \in {"no", "queued", "send"}
    /\ op \in [Hosts -> {"out", "opening", "in", "frozen"}]
    /\ cl_leases \in [Hosts -> BOOLEAN]
    /\ sr_leases \in [Hosts -> SUBSET Hosts]

\* There is one metadata server: of two hosts, at most one is the server and not
\* frozen, at every moment of a failover (FS_SERVER and FS_FROZEN, srmisc.c).
OneServer ==
    \A h, k \in Hosts :
        /\ Has(h, {"SERVER"}) /\ ~Has(h, {"FROZEN"})
        /\ Has(k, {"SERVER"}) /\ ~Has(k, {"FROZEN"})
        => h = k

\* No time runs out, and no host fails that may have become the server.  Where
\* sam_resync_server gives a host up, another host may get its lease, and the
\* answer to a late LEASE_reset lets it keep that lease.  Where a new server
\* fails, sam_set_client does not start the task of a host that is thawing, and
\* the next server never learns of its lease.
Undisturbed == ~setup.late /\ setup.crash \cap setup.to = {}

\* A failover that is not disturbed loses no lease: two hosts that are not
\* locked never both believe that they hold the exclusive lease
\* (sam_reestablish_leases, creclaim.c, and sam_process_reset_lease, server.c).
LeaseExclusive ==
    Undisturbed => \A h, k \in Hosts :
        /\ cl_leases[h] /\ ~Has(h, {"LOCK_HARD"})
        /\ cl_leases[k] /\ ~Has(k, {"LOCK_HARD"})
        => h = k

\* A host that thaws has given its lease to its server, if the failover is not
\* disturbed: when sam_failover_done wakes the threads of a host that holds the
\* lease, the table of its server has it (sam_reestablish_leases, which
\* sam_set_client starts "if failing over").
ThawsWithLease ==
    [][\A h \in Hosts :
         LET s == srvr[h].ord IN
         /\ Undisturbed /\ cl_leases[h] /\ Has(s, {"SERVER"})
         /\ Has(h, {"THAWING"}) /\ "MOUNTED" \in fi_status'[h]
         /\ {"THAWING", "LOCK_HARD"} \cap fi_status'[h] = {}
         => h \in sr_leases[s]]_vars

\* Every host thaws: where no socket breaks and the failover is not disturbed, a
\* host that is locked by a failover is unlocked again, or fails
\* (sam_failover_done).
Thaws ==
    \A h \in Hosts :
        (/\ setup.breaks = 0 /\ Undisturbed
         /\ Has(h, {"LOCK_HARD"}))
            ~> ~Has(h, {"LOCK_HARD"})
=============================================================================
