----------------------------- MODULE SharedRpc -----------------------------
(***************************************************************************)
(* The request/reply layer between one client host of a shared QFS file    *)
(* system and its metadata server.                                         *)
(*                                                                         *)
(* Client side (fs/samfs/clcall.c, client.c): every thread that waits for  *)
(* the server puts an entry on the outstanding-message chain, transmits,   *)
(* waits, and retransmits with the same sequence number; each transmission *)
(* carries an ack, the earliest sequence number still outstanding.         *)
(*                                                                         *)
(* Server side (fs/samfs/server.c): a worker thread per received message;  *)
(* the per-client message array remembers what is being processed and the  *)
(* replies of non-idempotent commands until they are acknowledged.         *)
(*                                                                         *)
(* Messages received are handled by a pool of threads, so the requests and *)
(* the replies in transit are sets: no order is kept.  A second copy of a  *)
(* message that is still in transit is not told apart from the first.      *)
(***************************************************************************)
EXTENDS Integers, FiniteSets

CONSTANTS
    Thr,        \* client threads
    Class,      \* the message classes that threads send
    Faults,     \* the faults that may happen
    MaxFaults,  \* bound: faults in a behaviour
    MaxCalls,   \* bound: calls in a behaviour
    SeqMod,     \* number of sequence numbers (2^32 in the code)
    InitSeqno   \* m_clnt_seqno when the behaviour starts

(***************************************************************************)
(* "mount"   MOUNT_init: SHARE_wait, reset_seqno set                       *)
(* "keep"    non-idempotent: NAME operations below NAME_lookup, LEASE_get  *)
(*           and LEASE_relinquish sent with SHARE_wait                     *)
(* "idem"    every other SHARE_wait message                                *)
(* "one"     SHARE_wait_one and SHARE_quickwait: one transmission          *)
(* "nowait"  SHARE_nowait: no reply                                        *)
(***************************************************************************)
AllClasses == {"mount", "keep", "idem", "one", "nowait"}
AllFaults == {"slow", "lose", "eio", "disconnect", "restart", "umount",
              "rmparent"}

ASSUME RpcAssumption ==
    /\ IsFiniteSet(Thr)
    /\ Class \subseteq AllClasses
    /\ Faults \subseteq AllFaults
    /\ MaxFaults \in Nat
    /\ MaxCalls \in Nat
    /\ SeqMod \in Nat /\ SeqMod > 2
    /\ InitSeqno \in 0..(SeqMod - 1)

VARIABLES
    \* client host
    m_clnt_seqno,  \* last sequence number handed out
    pc,            \* where each thread is in sam_send_to_server
    cls,           \* class of the call each thread is making
    nested,        \* in the MOUNT_init that answers EISAM_MOUNT_OUTSYNC?
    hdr,           \* header of the message about to be written: seqno and ack
    chain,         \* the thread's entry on m_cl_head, or NoEntry
    clMounted,     \* is the file system mounted on this client?
    \* sockets
    conn,          \* is the socket connected?
    toServer,      \* requests in transit
    toClient,      \* replies in transit
    \* server host
    inTable,       \* is the client's ordinal and hostid in the client table?
    srMounted,     \* FS_MOUNTED on the server
    parentGone,    \* the directory of the name operations was removed
    cl_min_seqno,  \* least sequence number a new message may have
    queue,         \* the client's message array: seqno -> entry
    work,          \* messages that worker threads are processing
    \* bookkeeping
    calls,         \* calls made so far
    call,          \* number of the thread's current call
    ret,           \* what the thread's last call returned
    faults,        \* faults so far
    done,          \* seqno -> outcome executed since the last reset
    nexec,         \* call -> times its non-idempotent command was executed
    outcome        \* call -> the outcomes of these executions

clientVars == <<m_clnt_seqno, pc, cls, nested, hdr, chain, clMounted>>
netVars    == <<conn, toServer, toClient>>
serverVars == <<inTable, srMounted, parentGone, cl_min_seqno, queue, work>>
ghostVars  == <<calls, call, ret, faults, done, nexec, outcome>>
vars == <<clientVars, netVars, serverVars, ghostVars>>

Seqno   == 0..(SeqMod - 1)
CallId  == 1..MaxCalls
NoEntry == [seqno |-> 0, done |-> FALSE, err |-> "none"]
NoHeader == [seqno |-> 0, ack |-> 0]
Outcome == {"ok", "fail", "EIO"}
Error   == Outcome \cup {"none", "ENOENT", "EXDEV", "OUTSYNC", "ETIME",
                         "EINTR", "ENOTCONN"}
PC == {"idle", "add", "write", "wait", "etime", "notconn", "exdev"}

Waiting(c)       == c # "nowait"                      \* wait_flag <= SHARE_wait
Retransmitted(c) == c \in {"mount", "keep", "idem"}   \* wait_flag = SHARE_wait
Kept(c)          == c = "keep"

\* The class of the message thread t has on the wire.
Cls(t) == IF nested[t] THEN "mount" ELSE cls[t]

(***************************************************************************)
(* Sequence numbers                                                        *)
(***************************************************************************)

SequenceLater(a, b) == (a - b) % SeqMod < (b - a) % SeqMod

\* Mutant: the counter is not kept to its width.
UnboundedSeqno(s) == s + 1

\* ++m_clnt_seqno, skipping 0
NextSeqno(s) == IF s + 1 = SeqMod THEN 1 ELSE s + 1

\* Entries of the chain that a reply has not been received for.
Outstanding == {chain[t].seqno : t \in {u \in Thr : chain[u].seqno # 0
                                                    /\ ~chain[u].done}}

\* Mutant: the latest outstanding message is taken for the earliest.
LatestOutstandingMsg ==
    IF Outstanding = {} THEN {0}
    ELSE {s \in Outstanding : \A o \in Outstanding : ~SequenceLater(o, s)}

\* The value returned is the one element of this set; 0 when there is none.
sam_get_earliest_outstanding_msg ==
    IF Outstanding = {} THEN {0}
    ELSE {s \in Outstanding : \A o \in Outstanding : ~SequenceLater(s, o)}

(***************************************************************************)
(* Client: a call of sam_send_to_server                                    *)
(***************************************************************************)

\* The call of thread t returns e; no entry of t is left on the chain.
Return(t, e) ==
    /\ pc' = [pc EXCEPT ![t] = "idle"]
    /\ nested' = [nested EXCEPT ![t] = FALSE]
    /\ ret' = [ret EXCEPT ![t] = e]
    /\ clMounted' = (clMounted \/ (cls[t] = "mount" /\ e = "ok"))

Goto(t, label) ==
    /\ pc' = [pc EXCEPT ![t] = label]
    /\ UNCHANGED <<ret, clMounted>>

RemoveMessage(t) == chain' = [chain EXCEPT ![t] = NoEntry]

\* The mount system call, once; afterwards any other call.
StartCall(t) ==
    /\ pc[t] = "idle"
    /\ calls < MaxCalls
    /\ \E c \in Class :
         /\ (c = "mount") <=> ~clMounted
         /\ c = "mount" => \A u \in Thr : pc[u] = "idle"
         /\ cls' = [cls EXCEPT ![t] = c]
    /\ calls' = calls + 1
    /\ call' = [call EXCEPT ![t] = calls + 1]
    /\ pc' = [pc EXCEPT ![t] = "add"]
    /\ ret' = [ret EXCEPT ![t] = "none"]
    /\ UNCHANGED <<m_clnt_seqno, nested, hdr, chain, clMounted, netVars,
                   serverVars, faults, done, nexec, outcome>>

\* sam_add_message, under m_cl_mutex.
sam_add_message(t) ==
    /\ pc[t] = "add"
    /\ LET s == NextSeqno(m_clnt_seqno) IN
       /\ m_clnt_seqno' = s
       /\ \/ /\ Waiting(Cls(t))
             /\ \E e \in sam_get_earliest_outstanding_msg :
                  hdr' = [hdr EXCEPT ![t] =
                            [seqno |-> s, ack |-> IF e = 0 THEN s ELSE e]]
             /\ chain' = [chain EXCEPT ![t] =
                            [seqno |-> s, done |-> FALSE, err |-> "none"]]
          \/ /\ ~Waiting(Cls(t))
             /\ hdr' = [hdr EXCEPT ![t] = [seqno |-> s, ack |-> 0]]
             /\ UNCHANGED chain
    /\ Goto(t, "write")
    /\ UNCHANGED <<cls, nested, netVars, serverVars, calls, call, faults, done,
                   nexec, outcome>>

\* sam_write_to_server, and where its error leads.  A call that does not wait
\* returns; a failed write takes the entry off the chain.
sam_write_to_server(t) ==
    /\ pc[t] = "write"
    /\ IF conn
       THEN /\ toServer' = toServer \cup
                 {[seqno |-> hdr[t].seqno, ack |-> hdr[t].ack, cls |-> Cls(t),
                   call |-> call[t]]}
            /\ UNCHANGED chain
            /\ IF Waiting(Cls(t))
               THEN Goto(t, "wait") /\ UNCHANGED nested
               ELSE Return(t, "ok")
       ELSE /\ UNCHANGED toServer
            /\ RemoveMessage(t)
            /\ IF nested[t]
               THEN Return(t, "ENOTCONN")
               ELSE Goto(t, "notconn") /\ UNCHANGED nested
    /\ hdr' = [hdr EXCEPT ![t] = NoHeader]
    /\ UNCHANGED <<m_clnt_seqno, cls, conn, toClient, serverVars, calls, call,
                   faults, done, nexec, outcome>>

\* sam_wait_server returns the error of the reply: the entry is removed.
\* EISAM_MOUNT_OUTSYNC is answered with a MOUNT_init of its own, after which
\* the message is sent again as a new one.  EIO is treated as a timeout: a
\* SHARE_wait message is sent again, as a new one since its entry was removed.
ReplyReceived(t) ==
    /\ pc[t] = "wait"
    /\ chain[t].done
    /\ RemoveMessage(t)
    /\ LET e == chain[t].err IN
       \/ /\ \/ nested[t] /\ e = "ok"
             \/ e = "EIO" /\ Retransmitted(cls[t])
          /\ Goto(t, "add")
          /\ nested' = [nested EXCEPT ![t] = FALSE]
       \/ /\ ~nested[t] /\ e = "OUTSYNC"
          /\ Goto(t, "add")
          /\ nested' = [nested EXCEPT ![t] = TRUE]
       \/ /\ ~nested[t] /\ e = "EXDEV"
          /\ Goto(t, "exdev")
          /\ UNCHANGED nested
       \/ /\ IF nested[t] THEN e # "ok" ELSE e \notin {"OUTSYNC", "EXDEV"}
          /\ ~(e = "EIO" /\ Retransmitted(cls[t]))
          /\ Return(t, e)
    /\ UNCHANGED <<m_clnt_seqno, cls, hdr, netVars, serverVars, calls, call,
                   faults, done, nexec, outcome>>

\* Is message s, or its reply, still under way?
Answering(s) ==
    \/ \E m \in toServer : m.seqno = s
    \/ \E w \in work : w.msg.seqno = s
    \/ \E r \in toClient : r.seqno = s

\* sam_wait_server gives up waiting: the entry stays on the chain, except that
\* of the nested MOUNT_init, which sam_send_mount_cmd finishes.  A timeout
\* while the answer is under way (a slow server) counts as a fault.
WaitTimeout(t) ==
    /\ pc[t] = "wait"
    /\ ~chain[t].done
    /\ IF Answering(chain[t].seqno)
       THEN "slow" \in Faults /\ faults < MaxFaults /\ faults' = faults + 1
       ELSE UNCHANGED faults
    /\ IF nested[t]
       THEN /\ RemoveMessage(t)
            /\ IF Retransmitted(cls[t])
               THEN /\ Goto(t, "add")
                    /\ nested' = [nested EXCEPT ![t] = FALSE]
               ELSE Return(t, "ETIME")
       ELSE /\ Goto(t, "etime")
            /\ UNCHANGED <<chain, nested>>
    /\ UNCHANGED <<m_clnt_seqno, cls, hdr, netVars, serverVars, calls, call,
                   done, nexec, outcome>>

\* A signal ends the wait for a reply, or the delay.
Interrupted(t) ==
    /\ \/ pc[t] = "wait" /\ ~chain[t].done
       \/ pc[t] \in {"notconn", "exdev"}
    /\ RemoveMessage(t)
    /\ Return(t, "EINTR")
    /\ UNCHANGED <<m_clnt_seqno, cls, hdr, netVars, serverVars, calls, call,
                   faults, done, nexec, outcome>>

\* Mutant: the thread waits again and does not retransmit.
WaitAgain(t) ==
    /\ pc[t] = "etime"
    /\ Goto(t, "wait")
    /\ UNCHANGED <<m_clnt_seqno, cls, nested, hdr, chain, netVars, serverVars,
                   calls, call, faults, done, nexec, outcome>>

\* After ETIME: a SHARE_wait message goes out again with the same seqno and
\* the present ack, unless its reply came in meanwhile.
AfterTimeout(t) ==
    /\ pc[t] = "etime"
    /\ \/ /\ ~Retransmitted(cls[t])
          /\ RemoveMessage(t)
          /\ Return(t, "ETIME")
          /\ UNCHANGED hdr
       \/ /\ Retransmitted(cls[t]) /\ chain[t].done
          /\ RemoveMessage(t)
          /\ Return(t, chain[t].err)
          /\ UNCHANGED hdr
       \/ /\ Retransmitted(cls[t]) /\ ~chain[t].done
          /\ \E e \in sam_get_earliest_outstanding_msg :
               hdr' = [hdr EXCEPT ![t] = [seqno |-> chain[t].seqno, ack |-> e]]
          /\ Goto(t, "write")
          /\ UNCHANGED <<chain, nested>>
    /\ UNCHANGED <<m_clnt_seqno, cls, netVars, serverVars, calls, call, faults,
                   done, nexec, outcome>>

\* sam_delay_client after ENOTCONN or EXDEV.  The entry was removed, so the
\* message is sent with a new seqno.  Attempts made while the socket is still
\* down, or the server still not mounted, only use up sequence numbers and are
\* left out.
AfterDelay(t) ==
    /\ \/ pc[t] = "notconn" /\ conn
       \/ pc[t] = "exdev" /\ srMounted
    /\ IF Retransmitted(cls[t])
       THEN Goto(t, "add") /\ UNCHANGED nested
       ELSE Return(t, "ETIME")
    /\ UNCHANGED <<m_clnt_seqno, cls, hdr, chain, netVars, serverVars, calls,
                   call, faults, done, nexec, outcome>>

\* Mutant: a reply completes whatever message is on the chain.
CompleteAnyMsg(r) ==
    /\ r \in toClient
    /\ toClient' = toClient \ {r}
    /\ \A t \in Thr : chain[t].seqno # 0 => pc[t] # "write"
    /\ chain' = [t \in Thr |->
                   IF chain[t].seqno # 0
                   THEN [chain[t] EXCEPT !.done = TRUE, !.err = r.err]
                   ELSE chain[t]]
    /\ UNCHANGED <<m_clnt_seqno, pc, cls, nested, hdr, clMounted, conn,
                   toServer, serverVars, ghostVars>>

\* A reply arrives: find its entry on the chain by sequence number.  A thread
\* holds the entry's mutex while it writes the message.
sam_complete_msg(r) ==
    /\ r \in toClient
    /\ \A t \in Thr : chain[t].seqno = r.seqno => pc[t] # "write"
    /\ toClient' = toClient \ {r}
    /\ chain' = [t \in Thr |->
                   IF chain[t].seqno = r.seqno
                   THEN [chain[t] EXCEPT !.done = TRUE, !.err = r.err]
                   ELSE chain[t]]
    /\ UNCHANGED <<m_clnt_seqno, pc, cls, nested, hdr, clMounted, conn,
                   toServer, serverVars, ghostVars>>

(***************************************************************************)
(* Server: sam_read_sock and sam_server_cmd                                *)
(***************************************************************************)

Reply(m, e) ==
    toClient' = IF m.cls = "nowait" THEN toClient
                ELSE toClient \cup {[seqno |-> m.seqno, err |-> e]}

\* sam_read_sock: the sender is not the host that the client table has.
ReplyOutOfSync(m) ==
    /\ ~inTable /\ m.cls # "mount"
    /\ toClient' = toClient \cup {[seqno |-> m.seqno, err |-> "OUTSYNC"]}
    /\ UNCHANGED <<cl_min_seqno, queue, work>>

\* sam_server_cmd: the file system is not mounted on the server.
ReplyNotMounted(m) ==
    /\ inTable /\ m.cls # "mount"
    /\ ~srMounted
    /\ Reply(m, "EXDEV")
    /\ UNCHANGED <<cl_min_seqno, queue, work>>

\* Does the ack of m move cl_min_seqno?
NewAck(m) ==
    \/ m.cls = "mount"
    \/ m.ack # 0 /\ SequenceLater(m.ack, cl_min_seqno)

MinSeqno(m) == IF NewAck(m) THEN m.ack ELSE cl_min_seqno

\* Mutant: a new ack frees every saved reply.
FreedAll(m) == {s \in DOMAIN queue : /\ queue[s].active = "WAITFOR_ACK"
                                     /\ NewAck(m) /\ s # m.seqno}

\* The saved replies that m frees: all of them when it resets the sequence
\* numbers, otherwise those it acknowledges.
Freed(m) ==
    {s \in DOMAIN queue :
        /\ queue[s].active = "WAITFOR_ACK"
        /\ \/ m.cls = "mount"
           \/ NewAck(m) /\ s # m.seqno /\ SequenceLater(m.ack, s)}

\* Mutant: retransmissions of acknowledged messages are not recognised.
NeverAcked(m) == FALSE

\* Messages below cl_min_seqno have been answered and acknowledged.
AlreadyAcked(m) == Waiting(m.cls) /\ SequenceLater(MinSeqno(m), m.seqno)

\* The part of sam_server_cmd under cl_msgmutex, before the command.
LookupMessage(m) ==
    /\ m.cls # "mount" => inTable /\ srMounted
    /\ cl_min_seqno' = MinSeqno(m)
    /\ LET q == [s \in DOMAIN queue \ Freed(m) |-> queue[s]] IN
       \/ \* already acknowledged, or being processed: throw it away
          /\ \/ AlreadyAcked(m)
             \/ m.seqno \in DOMAIN q /\ q[m.seqno].active = "PROCESSING"
          /\ queue' = q
          /\ UNCHANGED work
       \/ \* already processed: send the saved reply again
          /\ ~AlreadyAcked(m)
          /\ m.seqno \in DOMAIN q /\ q[m.seqno].active = "WAITFOR_ACK"
          /\ queue' = [q EXCEPT ![m.seqno].active = "PROCESSING"]
          /\ work' = work \cup
               {[msg |-> m, phase |-> "done",
                 err |-> IF q[m.seqno].err = "ok" /\ parentGone
                         THEN "ENOENT" ELSE q[m.seqno].err]}
       \/ \* new
          /\ ~AlreadyAcked(m)
          /\ m.seqno \notin DOMAIN q
          /\ queue' = [s \in DOMAIN q \cup {m.seqno} |->
                         IF s = m.seqno
                         THEN [active |-> "PROCESSING", err |-> "none"]
                         ELSE q[s]]
          /\ work' = work \cup {[msg |-> m, phase |-> "exec", err |-> "none"]}
    /\ done' = IF m.cls = "mount" THEN [s \in Seqno |-> "none"] ELSE done
    /\ UNCHANGED toClient

\* A worker thread takes a message from the server's queue.
Receive(m) ==
    /\ m \in toServer
    /\ toServer' = toServer \ {m}
    /\ \/ ReplyOutOfSync(m) /\ UNCHANGED done
       \/ ReplyNotMounted(m) /\ UNCHANGED done
       \/ LookupMessage(m)
    /\ UNCHANGED <<clientVars, conn, inTable, srMounted, parentGone, calls,
                   call, ret, faults, nexec, outcome>>

\* What a command of class c may come to; MOUNT_init does no I/O.
Outcomes(c) ==
    {e \in Outcome : (e = "fail" => Kept(c)) /\ (e = "EIO" => c # "mount")}

\* sam_process_message.  sam_get_mount_request enters the client in the table;
\* a name operation fails when its directory is gone, and any command may meet
\* an I/O error, which counts as a fault.
sam_process_message(w) ==
    /\ w \in work /\ w.phase = "exec"
    /\ \E e \in Outcomes(w.msg.cls) :
         /\ parentGone /\ Kept(w.msg.cls) => e = "fail"
         /\ IF e = "EIO"
            THEN "eio" \in Faults /\ faults < MaxFaults /\ faults' = faults + 1
            ELSE UNCHANGED faults
         /\ work' = (work \ {w}) \cup {[w EXCEPT !.phase = "done", !.err = e]}
         /\ done' = IF Kept(w.msg.cls)
                    THEN [done EXCEPT ![w.msg.seqno] = e] ELSE done
         /\ outcome' = IF Kept(w.msg.cls)
                       THEN [outcome EXCEPT ![w.msg.call] = @ \cup {e}]
                       ELSE outcome
    /\ nexec' = IF Kept(w.msg.cls)
                THEN [nexec EXCEPT ![w.msg.call] = @ + 1] ELSE nexec
    /\ inTable' = (inTable \/ w.msg.cls = "mount")
    /\ UNCHANGED <<clientVars, netVars, srMounted, parentGone, cl_min_seqno,
                   queue, calls, call, ret>>

\* The end of sam_server_cmd: keep the reply of a non-idempotent command, free
\* the entry of any other, and write the reply.
ReplyDone(w) ==
    /\ w \in work /\ w.phase = "done"
    /\ work' = work \ {w}
    /\ queue' = IF Kept(w.msg.cls)
                THEN [queue EXCEPT ![w.msg.seqno] =
                        [active |-> "WAITFOR_ACK", err |-> w.err]]
                ELSE [s \in DOMAIN queue \ {w.msg.seqno} |-> queue[s]]
    /\ Reply(w.msg, w.err)
    /\ UNCHANGED <<clientVars, conn, toServer, inTable, srMounted, parentGone,
                   cl_min_seqno, ghostVars>>

(***************************************************************************)
(* Faults                                                                  *)
(***************************************************************************)

Fault(f) ==
    /\ f \in Faults
    /\ faults < MaxFaults
    /\ faults' = faults + 1
    /\ UNCHANGED <<clientVars, calls, call, ret, nexec, outcome>>

\* The server drops a request (frozen, resyncing, the client marked off), or a
\* reply is not written because the client's socket is blocked.
Lose ==
    /\ Fault("lose")
    /\ \/ \E m \in toServer : toServer' = toServer \ {m} /\ UNCHANGED toClient
       \/ \E r \in toClient : toClient' = toClient \ {r} /\ UNCHANGED toServer
    /\ UNCHANGED <<conn, serverVars, done>>

\* The socket breaks; any of the messages in transit may be lost with it.
Disconnect ==
    /\ Fault("disconnect")
    /\ conn
    /\ conn' = FALSE
    /\ \E ms \in SUBSET toServer, rs \in SUBSET toClient :
         toServer' = ms /\ toClient' = rs
    /\ UNCHANGED <<serverVars, done>>

\* sam-sharefsd connects again.
Reconnect ==
    /\ ~conn
    /\ conn' = TRUE
    /\ UNCHANGED <<clientVars, toServer, toClient, serverVars, ghostVars>>

\* The server host restarts: its client table and message arrays are lost.
ServerRestart ==
    /\ Fault("restart")
    /\ conn' = FALSE
    /\ toServer' = {}
    /\ toClient' \in SUBSET toClient
    /\ inTable' = FALSE
    /\ cl_min_seqno' = 0
    /\ queue' = [s \in {} |-> [active |-> "PROCESSING", err |-> "none"]]
    /\ work' = {}
    /\ done' = [s \in Seqno |-> "none"]
    /\ UNCHANGED <<srMounted, parentGone>>

\* The file system is unmounted on the server, and mounted again.
ServerUmount ==
    /\ Fault("umount")
    /\ srMounted
    /\ srMounted' = FALSE
    /\ UNCHANGED <<netVars, inTable, parentGone, cl_min_seqno, queue, work, done>>

ServerMount ==
    /\ ~srMounted
    /\ srMounted' = TRUE
    /\ UNCHANGED <<clientVars, netVars, inTable, parentGone, cl_min_seqno, queue,
                   work, ghostVars>>

\* Another host removes the directory.
ParentRemoved ==
    /\ Fault("rmparent")
    /\ ~parentGone
    /\ parentGone' = TRUE
    /\ UNCHANGED <<netVars, inTable, srMounted, cl_min_seqno, queue, work, done>>

(***************************************************************************)
(* The specification                                                       *)
(***************************************************************************)

Init ==
    /\ m_clnt_seqno = InitSeqno
    /\ pc = [t \in Thr |-> "idle"]
    /\ cls = [t \in Thr |-> "mount"]
    /\ nested = [t \in Thr |-> FALSE]
    /\ hdr = [t \in Thr |-> NoHeader]
    /\ chain = [t \in Thr |-> NoEntry]
    /\ clMounted = FALSE
    /\ conn = TRUE
    /\ toServer = {}
    /\ toClient = {}
    /\ inTable = FALSE
    /\ srMounted = TRUE
    /\ parentGone = FALSE
    /\ cl_min_seqno = 0
    /\ queue = [s \in {} |-> [active |-> "PROCESSING", err |-> "none"]]
    /\ work = {}
    /\ calls = 0
    /\ call = [t \in Thr |-> 0]
    /\ ret = [t \in Thr |-> "none"]
    /\ faults = 0
    /\ done = [s \in Seqno |-> "none"]
    /\ nexec = [c \in CallId |-> 0]
    /\ outcome = [c \in CallId |-> {}]

ClientStep(t) ==
    \/ sam_add_message(t)
    \/ sam_write_to_server(t)
    \/ ReplyReceived(t)
    \/ WaitTimeout(t)
    \/ AfterTimeout(t)
    \/ AfterDelay(t)

FaultStep ==
    \/ Lose
    \/ Disconnect
    \/ ServerRestart
    \/ ServerUmount
    \/ ParentRemoved

Next ==
    \/ \E t \in Thr : StartCall(t) \/ ClientStep(t) \/ Interrupted(t)
    \/ \E r \in toClient : sam_complete_msg(r)
    \/ \E m \in toServer : Receive(m)
    \/ \E w \in work : sam_process_message(w) \/ ReplyDone(w)
    \/ Reconnect
    \/ ServerMount
    \/ FaultStep

Spec == Init /\ [][Next]_vars

\* Threads run, the reader and worker threads go on taking messages, the daemon
\* reconnects and the server is mounted again.  Faults and signals are not fair,
\* nor are new calls.
Fairness ==
    /\ \A t \in Thr : WF_vars(ClientStep(t))
    /\ WF_vars(\E r \in toClient : sam_complete_msg(r))
    /\ WF_vars(\E m \in toServer : Receive(m))
    /\ WF_vars(\E w \in work : sam_process_message(w) \/ ReplyDone(w))
    /\ WF_vars(Reconnect)
    /\ WF_vars(ServerMount)

FairSpec == Spec /\ Fairness

(***************************************************************************)
(* Properties                                                              *)
(***************************************************************************)

Header  == [seqno : Seqno, ack : Seqno]
Entry   == [seqno : Seqno, done : BOOLEAN, err : Error]
Request == [seqno : Seqno, ack : Seqno, cls : AllClasses, call : CallId]
Response == [seqno : Seqno, err : Error]
Worker  == [msg : Request, phase : {"exec", "done"}, err : Error]
Saved   == [active : {"PROCESSING", "WAITFOR_ACK"}, err : Error]

ClientTypeOK ==
    /\ m_clnt_seqno \in Seqno
    /\ pc \in [Thr -> PC]
    /\ cls \in [Thr -> AllClasses]
    /\ nested \in [Thr -> BOOLEAN]
    /\ hdr \in [Thr -> Header]
    /\ chain \in [Thr -> Entry]
    /\ clMounted \in BOOLEAN

NetTypeOK ==
    /\ conn \in BOOLEAN
    /\ toServer \subseteq Request
    /\ toClient \subseteq Response

ServerTypeOK ==
    /\ inTable \in BOOLEAN
    /\ srMounted \in BOOLEAN
    /\ parentGone \in BOOLEAN
    /\ cl_min_seqno \in Seqno
    /\ DOMAIN queue \subseteq Seqno
    /\ queue \in [DOMAIN queue -> Saved]
    /\ work \subseteq Worker

CallTypeOK ==
    /\ calls \in 0..MaxCalls
    /\ call \in [Thr -> 0..MaxCalls]
    /\ \A t \in Thr : pc[t] # "idle" => call[t] \in CallId
    /\ ret \in [Thr -> Error]
    /\ faults \in 0..MaxFaults

HistoryTypeOK ==
    /\ done \in [Seqno -> Outcome \cup {"none"}]
    /\ nexec \in [CallId -> Nat]
    /\ outcome \in [CallId -> SUBSET Outcome]

\* Every variable has its type.
TypeOK == ClientTypeOK /\ NetTypeOK /\ ServerTypeOK /\ CallTypeOK /\ HistoryTypeOK

\* However often a non-idempotent message is retransmitted, and in whatever
\* order its copies reach the worker threads, no worker is about to execute a
\* sequence number that has been executed since the last reset
\* (sam_server_cmd: "to avoid executing the command twice").
NoSecondExecution ==
    \A w \in work :
        w.phase = "exec" /\ Kept(w.msg.cls) => done[w.msg.seqno] = "none"

\* What has been executed since the last reset is still in the message array,
\* or is acknowledged (sam_server_cmd keeps non-idempotent messages "until
\* ACKed").
ServerRemembers ==
    \A s \in Seqno :
        done[s] # "none" => s \in DOMAIN queue \/ SequenceLater(cl_min_seqno, s)

\* cl_min_seqno never passes a message that a thread is waiting on: the server
\* would throw away each of its retransmissions, and the thread would wait for
\* ever (sam_get_earliest_outstanding_msg, called with m_cl_mutex held).
AckNotPastOutstanding ==
    inTable =>
        \A s \in Outstanding : ~SequenceLater(cl_min_seqno, s)

\* A result that a non-idempotent call returns from the server is the result
\* of an execution of that call, never that of another message
\* (sam_complete_msg, and the reply saved in the message array).
ResultWasExecuted ==
    \A t \in Thr :
        pc[t] = "idle" /\ cls[t] = "keep" /\ ret[t] \in Outcome
            => ret[t] \in outcome[call[t]]

\* Every call returns once the faults end: no message is left unanswered for
\* ever, whatever is lost, late or fails with an I/O error on the way
\* (sam_send_to_server retransmits every SHARE_wait message, without limit: an
\* I/O error that never ends keeps its call from returning).
CallsReturn ==
    \A t \in Thr : pc[t] # "idle" ~> pc[t] = "idle"

\* The comment in sam_server_cmd, read for a call and not for a sequence
\* number: a non-idempotent command is executed once ("to avoid executing the
\* command twice").
CallExecutedOnce == \A c \in CallId : nexec[c] <= 1
=============================================================================
