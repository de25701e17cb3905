-------------------------- MODULE SharedRpcProofs ---------------------------
(***************************************************************************)
(* Type correctness of SharedRpc, and its at most once theorem, for any    *)
(* number of client threads, calls and faults: no command is executed      *)
(* twice, no reply is forgotten, no acknowledgement passes a message that  *)
(* is waited on, and a call returns only results of its own executions,    *)
(* as long as the sequence numbers have not gone half way round.           *)
(***************************************************************************)
EXTENDS SharedRpc, TLAPS

(***************************************************************************)
(* Sequence numbers                                                        *)
(***************************************************************************)

\* Fewer than half of the sequence numbers have been handed out since the
\* client's counter started (2^31 messages in the code).
NoWrap == 2 * m_clnt_seqno < SeqMod

\* Below half of the range, SAM_SEQUENCE_LATER is the order of the integers.
LEMMA ModSmall ==
    ASSUME NEW x \in Int, 0 <= x, x < SeqMod
    PROVE  x % SeqMod = x
BY RpcAssumption

LEMMA ModNegative ==
    ASSUME NEW x \in Int, x < 0, 0 <= x + SeqMod
    PROVE  x % SeqMod = x + SeqMod
BY RpcAssumption

LEMMA SequenceLaterIsGreater ==
    ASSUME NEW a \in Nat, NEW b \in Nat, 2 * a < SeqMod, 2 * b < SeqMod
    PROVE  SequenceLater(a, b) <=> a > b
BY RpcAssumption, ModSmall, ModNegative DEF SequenceLater

(***************************************************************************)
(* Type correctness                                                        *)
(***************************************************************************)

LEMMA NextSeqnoType == \A s \in Seqno : NextSeqno(s) \in Seqno /\ NextSeqno(s) > 0
BY RpcAssumption DEF Seqno, NextSeqno

LEMMA ConstantTypes ==
    /\ 0 \in Seqno
    /\ NoEntry \in Entry
    /\ NoHeader \in Header
    /\ [s \in {} |-> [active |-> "PROCESSING", err |-> "none"]]
         \in [{} -> Saved]
BY RpcAssumption DEF Seqno, NoEntry, Entry, NoHeader, Header, Error, Saved

LEMMA FieldTypes ==
    /\ \A e \in Entry : e.seqno \in Seqno /\ e.done \in BOOLEAN /\ e.err \in Error
    /\ \A h \in Header : h.seqno \in Seqno /\ h.ack \in Seqno
    /\ \A m \in Request : /\ m.seqno \in Seqno /\ m.ack \in Seqno
                           /\ m.cls \in AllClasses /\ m.call \in CallId
    /\ \A r \in Response : r.seqno \in Seqno /\ r.err \in Error
    /\ \A w \in Worker : /\ w.msg \in Request /\ w.phase \in {"exec", "done"}
                          /\ w.err \in Error
    /\ \A q \in Saved : /\ q.active \in {"PROCESSING", "WAITFOR_ACK"}
                         /\ q.err \in Error
BY Zenon DEF Entry, Header, Request, Response, Worker, Saved

\* A thread without an entry on the chain.
LEMMA NoEntryEmpty == NoEntry.seqno = 0
BY DEF NoEntry

LEMMA EarliestType ==
    ASSUME TypeOK PROVE sam_get_earliest_outstanding_msg \subseteq Seqno
<1>1. Outstanding \subseteq Seqno
  BY Zenon, FieldTypes DEF TypeOK, ClientTypeOK, Outstanding
<1> QED
  BY Zenon, <1>1, ConstantTypes DEF sam_get_earliest_outstanding_msg

LEMMA TypeInit == Init => TypeOK
<1> SUFFICES ASSUME Init PROVE TypeOK
    BY Zenon
<1>1. ClientTypeOK
  BY ZenonT(30), ConstantTypes, RpcAssumption
     DEF Init, ClientTypeOK, PC, AllClasses, Seqno
<1>2. NetTypeOK
  BY Zenon DEF Init, NetTypeOK
<1>3. ServerTypeOK
  BY ZenonT(30), ConstantTypes DEF Init, ServerTypeOK
<1>4. CallTypeOK
  BY RpcAssumption DEF Init, CallTypeOK, Error
<1>5. HistoryTypeOK
  BY Zenon DEF Init, HistoryTypeOK
<1> QED
  BY Zenon, <1>1, <1>2, <1>3, <1>4, <1>5 DEF TypeOK

LEMMA ReturnType ==
    ASSUME TypeOK, NEW t \in Thr, NEW e \in Error, Return(t, e)
    PROVE  /\ pc' \in [Thr -> PC]
           /\ nested' \in [Thr -> BOOLEAN]
           /\ clMounted' \in BOOLEAN
           /\ ret' \in [Thr -> Error]
           /\ \A u \in Thr : pc'[u] # "idle" => pc[u] # "idle"
BY Zenon DEF TypeOK, ClientTypeOK, CallTypeOK, Return, PC

LEMMA GotoType ==
    ASSUME TypeOK, NEW t \in Thr, NEW label \in PC, Goto(t, label), pc[t] # "idle"
    PROVE  /\ pc' \in [Thr -> PC]
           /\ clMounted' \in BOOLEAN
           /\ ret' \in [Thr -> Error]
           /\ \A u \in Thr : pc'[u] # "idle" => pc[u] # "idle"
BY Zenon DEF TypeOK, ClientTypeOK, CallTypeOK, Goto

LEMMA RemoveType ==
    ASSUME TypeOK, NEW t \in Thr, RemoveMessage(t) PROVE chain' \in [Thr -> Entry]
BY Zenon, ConstantTypes DEF TypeOK, ClientTypeOK, RemoveMessage

\* A step of a thread in a call keeps the types when it keeps those of the
\* variables that such a step assigns.
LEMMA ClientStepType ==
    ASSUME TypeOK,
           UNCHANGED <<cls, conn, toClient, serverVars, calls, call, done, nexec,
                       outcome>>,
           m_clnt_seqno' \in Seqno, hdr' \in [Thr -> Header],
           chain' \in [Thr -> Entry], toServer' \subseteq Request,
           faults' \in 0..MaxFaults, nested' \in [Thr -> BOOLEAN],
           pc' \in [Thr -> PC], clMounted' \in BOOLEAN, ret' \in [Thr -> Error],
           \A u \in Thr : pc'[u] # "idle" => pc[u] # "idle"
    PROVE  TypeOK'
<1>1. ClientTypeOK' /\ NetTypeOK'
  BY Zenon DEF TypeOK, ClientTypeOK, NetTypeOK
<1>2. ServerTypeOK'
  BY Zenon DEF TypeOK, ServerTypeOK, serverVars
<1>3. CallTypeOK' /\ HistoryTypeOK'
  BY Zenon DEF TypeOK, CallTypeOK, HistoryTypeOK
<1> QED
  BY Zenon, <1>1, <1>2, <1>3 DEF TypeOK

\* Every step of a thread keeps the types.
LEMMA ClientType ==
    ASSUME TypeOK, NEW t \in Thr, ClientStep(t) \/ Interrupted(t) PROVE TypeOK'
<1> USE DEF PC
<1>0. /\ m_clnt_seqno \in Seqno /\ hdr \in [Thr -> Header]
      /\ chain \in [Thr -> Entry] /\ toServer \subseteq Request
      /\ faults \in 0..MaxFaults /\ nested \in [Thr -> BOOLEAN]
      /\ cls \in [Thr -> AllClasses]
  BY Zenon DEF TypeOK, ClientTypeOK, NetTypeOK, CallTypeOK
<1>1. CASE sam_add_message(t)
  <2>1. m_clnt_seqno' \in Seqno
    BY Zenon, <1>0, <1>1, NextSeqnoType DEF sam_add_message
  <2>2. hdr' \in [Thr -> Header]
    <3> DEFINE s == NextSeqno(m_clnt_seqno)
    <3>1. \E a \in Seqno : hdr' = [hdr EXCEPT ![t] = [seqno |-> s, ack |-> a]]
      <4>1. s \in Seqno /\ 0 \in Seqno
        BY Zenon, <1>0, NextSeqnoType, ConstantTypes
      <4>2. CASE ~Waiting(Cls(t))
        BY Zenon, <1>1, <4>1, <4>2 DEF sam_add_message
      <4>3. CASE Waiting(Cls(t))
        <5>1. PICK e \in sam_get_earliest_outstanding_msg :
                hdr' = [hdr EXCEPT ![t] =
                          [seqno |-> s, ack |-> IF e = 0 THEN s ELSE e]]
          BY Zenon, <1>1, <4>3 DEF sam_add_message
        <5>2. (IF e = 0 THEN s ELSE e) \in Seqno
          BY Zenon, <4>1, <5>1, EarliestType
        <5> QED
          BY ZenonT(30), <5>1, <5>2
      <4> QED
        BY Zenon, <4>2, <4>3
    <3> QED
      BY <1>0, <2>1, <3>1 , NextSeqnoType DEF Header
  <2>3. chain' \in [Thr -> Entry]
    <3>1. [seqno |-> NextSeqno(m_clnt_seqno), done |-> FALSE, err |-> "none"]
            \in Entry
      BY Zenon, <1>0, NextSeqnoType DEF Entry, Error
    <3> QED
      BY ZenonT(30), <1>0, <1>1, <3>1 DEF sam_add_message
  <2>4. pc[t] # "idle" /\ Goto(t, "write") /\ nested' = nested /\ faults' = faults
    BY Zenon, <1>1 DEF sam_add_message
  <2> QED
    BY Zenon, <1>0, <1>1, <2>1, <2>2, <2>3, <2>4, GotoType, ClientStepType
       DEF sam_add_message, netVars
<1>2. CASE sam_write_to_server(t)
  <2>1. toServer' \subseteq Request
    <3>1. Cls(t) \in AllClasses
      BY Zenon, <1>0 DEF Cls, AllClasses
    <3>2. call[t] \in CallId
      BY Zenon, <1>2 DEF TypeOK, CallTypeOK, sam_write_to_server
    <3> QED
      BY <1>0, <1>2, <3>1, <3>2, FieldTypes DEF sam_write_to_server, Request
  <2>2. chain' \in [Thr -> Entry] /\ hdr' \in [Thr -> Header]
    BY Zenon, <1>0, <1>2, RemoveType, ConstantTypes DEF sam_write_to_server
  <2>3. \/ Return(t, "ok") \/ Return(t, "ENOTCONN")
        \/ Goto(t, "wait") /\ UNCHANGED nested
        \/ Goto(t, "notconn") /\ UNCHANGED nested
    BY Zenon, <1>2 DEF sam_write_to_server
  <2>4. pc[t] # "idle" /\ "ok" \in Error /\ "ENOTCONN" \in Error
    BY Zenon, <1>2 DEF sam_write_to_server, Error, Outcome
  <2> QED
    BY Zenon, <1>0, <1>2, <2>1, <2>2, <2>3, <2>4, GotoType, ReturnType, ClientStepType
       DEF sam_write_to_server
<1>3. CASE ReplyReceived(t)
  <2>1. pc[t] # "idle" /\ chain[t].err \in Error
    BY Zenon, <1>0, <1>3, FieldTypes DEF ReplyReceived
  <2>2. \/ Return(t, chain[t].err)
        \/ Goto(t, "add") /\ nested' \in [Thr -> BOOLEAN]
        \/ Goto(t, "exdev") /\ nested' \in [Thr -> BOOLEAN]
    BY ZenonT(30), <1>0, <1>3 DEF ReplyReceived
  <2> QED
    BY Zenon, <1>0, <1>3, <2>1, <2>2, RemoveType, GotoType, ReturnType,
       ClientStepType
       DEF ReplyReceived, netVars
<1>4. CASE WaitTimeout(t)
  <2>1. pc[t] # "idle" /\ "ETIME" \in Error
    BY Zenon, <1>4 DEF WaitTimeout, Error
  <2>2. faults' \in 0..MaxFaults
    BY <1>0, <1>4, RpcAssumption DEF WaitTimeout
  <2>3. chain' \in [Thr -> Entry]
    BY Zenon, <1>0, <1>4, RemoveType DEF WaitTimeout
  <2>4. \/ Return(t, "ETIME")
        \/ Goto(t, "add") /\ nested' \in [Thr -> BOOLEAN]
        \/ Goto(t, "etime") /\ nested' \in [Thr -> BOOLEAN]
    BY ZenonT(30), <1>0, <1>4 DEF WaitTimeout
  <2> QED
    BY Zenon, <1>0, <1>4, <2>1, <2>2, <2>3, <2>4, GotoType, ReturnType, ClientStepType
       DEF WaitTimeout, netVars
<1>5. CASE AfterTimeout(t)
  <2>1. pc[t] # "idle" /\ "ETIME" \in Error /\ chain[t].err \in Error
    BY Zenon, <1>0, <1>5, FieldTypes DEF AfterTimeout, Error
  <2>2. chain' \in [Thr -> Entry]
    BY Zenon, <1>0, <1>5, RemoveType DEF AfterTimeout
  <2>3. hdr' \in [Thr -> Header]
    BY SMTT(30), <1>0, <1>5, EarliestType, FieldTypes DEF AfterTimeout, Header
  <2>4. \/ Return(t, "ETIME")
        \/ Return(t, chain[t].err)
        \/ Goto(t, "write") /\ UNCHANGED nested
    BY Zenon, <1>5 DEF AfterTimeout
  <2> QED
    BY Zenon, <1>0, <1>5, <2>1, <2>2, <2>3, <2>4, GotoType, ReturnType, ClientStepType
       DEF AfterTimeout, netVars
<1>6. CASE AfterDelay(t)
  <2>1. pc[t] # "idle" /\ "ETIME" \in Error
    BY Zenon, <1>6 DEF AfterDelay, Error
  <2>2. \/ Return(t, "ETIME")
        \/ Goto(t, "add") /\ UNCHANGED nested
    BY Zenon, <1>6 DEF AfterDelay
  <2> QED
    BY Zenon, <1>0, <1>6, <2>1, <2>2, GotoType, ReturnType, ClientStepType
       DEF AfterDelay, netVars
<1>7. CASE Interrupted(t)
  <2>1. "EINTR" \in Error
    BY Zenon DEF Error
  <2> QED
    BY Zenon, <1>0, <1>7, <2>1, RemoveType, ReturnType, ClientStepType
       DEF Interrupted, netVars
<1> QED
  BY Zenon, <1>1, <1>2, <1>3, <1>4, <1>5, <1>6, <1>7 DEF ClientStep

\* Receiving a message on the server keeps the types.
LEMMA ReceiveType ==
    ASSUME TypeOK, NEW m \in toServer, Receive(m) PROVE TypeOK'
<1>1. /\ m \in Request
      /\ m.seqno \in Seqno /\ m.ack \in Seqno
  BY Zenon, FieldTypes DEF TypeOK, NetTypeOK
<1>2. ClientTypeOK' /\ CallTypeOK'
  BY Zenon DEF TypeOK, ClientTypeOK, CallTypeOK, Receive, clientVars
<1>3. toServer' \subseteq Request /\ conn' \in BOOLEAN
  BY Zenon DEF TypeOK, NetTypeOK, Receive
<1>4. toClient' \subseteq Response
  BY <1>1 DEF TypeOK, NetTypeOK, Receive, ReplyOutOfSync, ReplyNotMounted,
      LookupMessage, Reply, Response, Error
<1>5. HistoryTypeOK'
  BY DEF TypeOK, HistoryTypeOK, Receive, LookupMessage
<1>6. cl_min_seqno' \in Seqno
  BY Zenon, <1>1 DEF TypeOK, ServerTypeOK, Receive, ReplyOutOfSync, ReplyNotMounted,
      LookupMessage, MinSeqno
<1>7. /\ DOMAIN queue' \subseteq Seqno /\ queue' \in [DOMAIN queue' -> Saved]
      /\ work' \subseteq Worker
  <2>0. /\ DOMAIN queue \subseteq Seqno /\ queue \in [DOMAIN queue -> Saved]
        /\ work \subseteq Worker
    BY Zenon DEF TypeOK, ServerTypeOK
  <2>1. CASE UNCHANGED <<queue, work>>
    BY Zenon, <2>0, <2>1
  <2>2. CASE LookupMessage(m)
    <3> DEFINE q == [s \in DOMAIN queue \ Freed(m) |-> queue[s]]
    <3>1. DOMAIN q \subseteq Seqno /\ q \in [DOMAIN q -> Saved]
      BY Zenon, <2>0
    <3> HIDE DEF q
    <3>2. CASE queue' = q /\ UNCHANGED work
      BY Zenon, <2>0, <3>1, <3>2
    <3>3. CASE /\ m.seqno \in DOMAIN q
               /\ queue' = [q EXCEPT ![m.seqno].active = "PROCESSING"]
               /\ \E e \in {"ENOENT", q[m.seqno].err} :
                    work' = work \cup {[msg |-> m, phase |-> "done", err |-> e]}
      <4>1. q[m.seqno] \in Saved /\ q[m.seqno].err \in Error /\ "ENOENT" \in Error
        BY Zenon, <3>1, <3>3, FieldTypes DEF Error
      <4>2. [q[m.seqno] EXCEPT !.active = "PROCESSING"] \in Saved
        BY Zenon, <4>1 DEF Saved
      <4> QED
        BY <1>1, <2>0, <3>1, <3>3, <4>1, <4>2 DEF Worker
    <3>4. CASE /\ queue' = [s \in DOMAIN q \cup {m.seqno} |->
                             IF s = m.seqno
                             THEN [active |-> "PROCESSING", err |-> "none"]
                             ELSE q[s]]
               /\ work' = work \cup
                            {[msg |-> m, phase |-> "exec", err |-> "none"]}
      <4>1. [active |-> "PROCESSING", err |-> "none"] \in Saved
        BY Zenon DEF Saved, Error
      <4>2. [msg |-> m, phase |-> "exec", err |-> "none"] \in Worker
        BY Zenon, <1>1 DEF Worker, Error
      <4> QED
        BY Zenon, <1>1, <2>0, <3>1, <3>4, <4>1, <4>2
    <3> QED
      BY Zenon, <2>2, <3>2, <3>3, <3>4 DEF LookupMessage, q
  <2> QED
    BY Zenon, <2>1, <2>2 DEF Receive, ReplyOutOfSync, ReplyNotMounted
<1> QED
  BY Zenon, <1>2, <1>3, <1>4, <1>5, <1>6, <1>7
     DEF TypeOK, NetTypeOK, ServerTypeOK, Receive

\* Every step keeps the types: one step of the proof for each action.
LEMMA TypeNext == TypeOK /\ [Next]_vars => TypeOK'
<1> SUFFICES ASSUME TypeOK, [Next]_vars PROVE TypeOK'
    BY Zenon
<1> USE DEF TypeOK
<1>1. ASSUME NEW t \in Thr, StartCall(t) PROVE TypeOK'
  <2>1. ClientTypeOK'
    BY Zenon, <1>1, RpcAssumption DEF StartCall, ClientTypeOK, PC
  <2>2. CallTypeOK'
    BY <1>1, RpcAssumption DEF StartCall, ClientTypeOK, CallTypeOK, CallId, Error
  <2>3. NetTypeOK' /\ ServerTypeOK' /\ HistoryTypeOK'
    BY Zenon, <1>1 DEF StartCall, NetTypeOK, ServerTypeOK, HistoryTypeOK,
       netVars,
        serverVars
  <2> QED
    BY Zenon, <2>1, <2>2, <2>3
<1>2. ASSUME NEW r \in toClient, sam_complete_msg(r) PROVE TypeOK'
  <2>1. chain' \in [Thr -> Entry]
    <3>1. r.err \in Error
      BY Zenon, FieldTypes DEF NetTypeOK
    <3>2. \A e \in Entry : [e EXCEPT !.done = TRUE, !.err = r.err] \in Entry
      BY ZenonT(30), <3>1 DEF Entry
    <3> QED
      BY ZenonT(30), <1>2, <3>2 DEF sam_complete_msg, ClientTypeOK
  <2> QED
    BY ZenonT(30), <1>2, <2>1 DEF sam_complete_msg, ClientTypeOK, NetTypeOK,
        ServerTypeOK,
        CallTypeOK, HistoryTypeOK, serverVars, ghostVars
<1>3. ASSUME NEW w \in work, sam_process_message(w) PROVE TypeOK'
  <2>1. w \in Worker /\ w.msg \in Request /\ w.msg.call \in CallId
    BY Zenon, FieldTypes DEF ServerTypeOK
  <2>2. PICK e \in Outcome :
          /\ work' = (work \ {w}) \cup {[w EXCEPT !.phase = "done", !.err = e]}
          /\ done' = IF Kept(w.msg.cls)
                     THEN [done EXCEPT ![w.msg.seqno] = e] ELSE done
          /\ outcome' = IF Kept(w.msg.cls)
                        THEN [outcome EXCEPT ![w.msg.call] = @ \cup {e}]
                        ELSE outcome
    BY ZenonT(30), <1>3 DEF sam_process_message, Outcomes
  <2>3. [w EXCEPT !.phase = "done", !.err = e] \in Worker
    BY ZenonT(30), <2>1 DEF Worker, Error
  <2>4. HistoryTypeOK'
    <3>1. done' \in [Seqno -> Outcome \cup {"none"}]
      BY ZenonT(30), <2>2 DEF HistoryTypeOK
    <3>2. nexec' \in [CallId -> Nat]
      <4>1. nexec' = nexec \/ nexec' = [nexec EXCEPT ![w.msg.call] = @ + 1]
        BY Zenon, <1>3 DEF sam_process_message
      <4>2. nexec[w.msg.call] + 1 \in Nat
        BY <2>1 DEF HistoryTypeOK
      <4> QED
        BY Zenon, <4>1, <4>2 DEF HistoryTypeOK
    <3>3. outcome' \in [CallId -> SUBSET Outcome]
      BY Zenon, <2>1, <2>2, outcome[w.msg.call] \cup {e} \in SUBSET Outcome
         DEF HistoryTypeOK
    <3> QED
      BY Zenon, <3>1, <3>2, <3>3 DEF HistoryTypeOK
  <2>5. ServerTypeOK'
    BY Zenon, <1>3, <2>2, <2>3 DEF sam_process_message, ServerTypeOK
  <2>6. CallTypeOK'
    <3>1. \/ faults' = faults
          \/ faults < MaxFaults /\ faults' = faults + 1
      BY ZenonT(30), <1>3 DEF sam_process_message
    <3>2. faults' \in 0..MaxFaults
      BY <3>1, RpcAssumption DEF CallTypeOK
    <3> QED
      BY Zenon, <1>3, <3>2 DEF sam_process_message, CallTypeOK, clientVars
  <2> QED
    BY Zenon, <1>3, <2>4, <2>5, <2>6 DEF sam_process_message, ClientTypeOK,
        NetTypeOK, clientVars, netVars
<1>4. ASSUME NEW w \in work, ReplyDone(w) PROVE TypeOK'
  <2>1. /\ w \in Worker /\ w.err \in Error
        /\ w.msg \in Request /\ w.msg.seqno \in Seqno
    BY Zenon, FieldTypes DEF ServerTypeOK
  <2>2. [active |-> "WAITFOR_ACK", err |-> w.err] \in Saved
    BY Zenon, <2>1 DEF Saved
  <2>3. ServerTypeOK'
    BY ZenonT(30), <1>4, <2>1, <2>2 DEF ReplyDone, ServerTypeOK
  <2>4. NetTypeOK'
    BY <1>4, <2>1 DEF ReplyDone, Reply, NetTypeOK, Response
  <2> QED
    BY Zenon, <1>4, <2>3, <2>4 DEF ReplyDone, ClientTypeOK, CallTypeOK, HistoryTypeOK,
        clientVars, ghostVars
<1>5. CASE Reconnect
  BY Zenon, <1>5 DEF Reconnect, ClientTypeOK, NetTypeOK, ServerTypeOK, CallTypeOK,
      HistoryTypeOK, clientVars, serverVars, ghostVars
<1>6. CASE ServerMount
  BY Zenon, <1>6 DEF ServerMount, ClientTypeOK, NetTypeOK, ServerTypeOK, CallTypeOK,
      HistoryTypeOK, clientVars, netVars, ghostVars
<1>7. CASE FaultStep
  <2>1. /\ faults' \in 0..MaxFaults
        /\ UNCHANGED <<clientVars, calls, call, ret, nexec, outcome>>
    BY <1>7, RpcAssumption DEF FaultStep, Lose, Disconnect, ServerRestart,
        ServerUmount, ParentRemoved, Fault, CallTypeOK
  <2>2. ClientTypeOK' /\ CallTypeOK'
    BY Zenon, <2>1 DEF ClientTypeOK, CallTypeOK, clientVars
  <2>3. NetTypeOK'
    BY ZenonT(30), <1>7 DEF FaultStep, Lose, Disconnect, ServerRestart,
       ServerUmount,
        ParentRemoved, NetTypeOK, netVars
  <2>4. ServerTypeOK'
    <3>1. CASE ServerRestart
      <4>1. DOMAIN queue' = {} /\ queue' \in [DOMAIN queue' -> Saved]
        BY Zenon, <3>1, ConstantTypes DEF ServerRestart
      <4> QED
        BY Zenon, <3>1, <4>1, ConstantTypes DEF ServerRestart, ServerTypeOK
    <3> QED
      BY ZenonT(30), <1>7, <3>1 DEF FaultStep, Lose, Disconnect, ServerUmount,
         ParentRemoved,
          ServerTypeOK, serverVars
  <2>5. HistoryTypeOK'
    BY Zenon, <1>7, <2>1 DEF FaultStep, Lose, Disconnect, ServerRestart,
       ServerUmount,
        ParentRemoved, HistoryTypeOK
  <2> QED
    BY Zenon, <2>2, <2>3, <2>4, <2>5
<1>8. CASE UNCHANGED vars
  BY Zenon, <1>8 DEF vars, ClientTypeOK, NetTypeOK, ServerTypeOK, CallTypeOK,
      HistoryTypeOK, clientVars, netVars, serverVars, ghostVars
<1> QED
  BY Zenon, <1>1, <1>2, <1>3, <1>4, <1>5, <1>6, <1>7, <1>8, ClientType, ReceiveType
     DEF Next

\* The variables of SharedRpc keep their types in every behaviour.
THEOREM TypeCorrect == Spec => []TypeOK
BY TypeInit, TypeNext, PTL DEF Spec


(***************************************************************************)
(* The inductive invariant                                                 *)
(***************************************************************************)

\* Every sequence number in use has been handed out.
HandedOut ==
    /\ cl_min_seqno <= m_clnt_seqno
    /\ \A t \in Thr : /\ hdr[t].seqno <= m_clnt_seqno
                      /\ hdr[t].ack <= m_clnt_seqno
                      /\ chain[t].seqno <= m_clnt_seqno
    /\ \A m \in toServer : m.seqno <= m_clnt_seqno /\ m.ack <= m_clnt_seqno
    /\ \A s \in DOMAIN queue : s <= m_clnt_seqno
    /\ \A s \in Seqno : done[s] # "none" => s <= m_clnt_seqno

\* A thread has an entry on the chain from sam_add_message until the call
\* returns, or takes a new sequence number.
OnChain(t) ==
    \/ pc[t] \in {"wait", "etime"}
    \/ pc[t] = "write" /\ Waiting(Cls(t))

ChainHeld == \A t \in Thr : chain[t].seqno # 0 <=> OnChain(t)

\* Neither thread's message carries the sequence number of the other's.
Apart(t, u) ==
    /\ chain[t].seqno # 0 => chain[t].seqno # chain[u].seqno
    /\ chain[t].seqno # 0 /\ pc[u] = "write" => chain[t].seqno # hdr[u].seqno
    /\ pc[t] = "write" /\ pc[u] = "write" => hdr[t].seqno # hdr[u].seqno

\* Two threads never send the same sequence number.
Distinct == \A t, u \in Thr : t # u => Apart(t, u)

\* Nothing that the network and the server hold of s is of another class than c.
ClassOf(s, c) ==
    /\ \A m \in toServer : m.seqno = s => m.cls = c
    /\ \A w \in work : w.msg.seqno = s => w.msg.cls = c
    /\ s \in DOMAIN queue /\ queue[s].active = "WAITFOR_ACK" => Kept(c)

OneClass ==
    /\ \A t \in Thr : pc[t] = "write" => ClassOf(hdr[t].seqno, Cls(t))
    /\ \A t \in Thr : chain[t].seqno # 0 => ClassOf(chain[t].seqno, Cls(t))
    /\ \A m \in toServer : ClassOf(m.seqno, m.cls)
    /\ \A w \in work : ClassOf(w.msg.seqno, w.msg.cls)

\* Workers process different messages, each with an active entry in the array.
WorkQueued ==
    /\ \A w \in work : /\ w.msg.seqno \in DOMAIN queue
                       /\ queue[w.msg.seqno].active = "PROCESSING"
    /\ \A v, w \in work : v.msg.seqno = w.msg.seqno => v = w

\* ServerRemembers in the order of the integers.
Remembered ==
    \A s \in Seqno : done[s] # "none" => s \in DOMAIN queue \/ cl_min_seqno > s

\* A worker that will free its entry does not free that of an execution.
FreeableNotDone ==
    \A w \in work : ~Kept(w.msg.cls) =>
        done[w.msg.seqno] = "none" \/ cl_min_seqno > w.msg.seqno

IInv ==
    /\ TypeOK
    /\ HandedOut
    /\ ChainHeld
    /\ Distinct
    /\ OneClass
    /\ WorkQueued
    /\ Remembered
    /\ FreeableNotDone
    /\ NoSecondExecution

LEMMA IInvInit == Init => IInv
<1> SUFFICES ASSUME Init PROVE IInv
    BY Zenon
<1>1. TypeOK
  BY Zenon, TypeInit
<1>2. HandedOut
  BY RpcAssumption DEF Init, HandedOut, NoHeader, NoEntry, Seqno
<1>3. ChainHeld /\ Distinct
  BY Zenon DEF Init, ChainHeld, Distinct, Apart, OnChain, NoEntry
<1>4. OneClass
  BY Zenon DEF Init, OneClass, NoEntry
<1>5. WorkQueued /\ Remembered /\ FreeableNotDone /\ NoSecondExecution
  BY Zenon DEF Init, WorkQueued, Remembered, FreeableNotDone, NoSecondExecution
<1> QED
  BY Zenon, <1>1, <1>2, <1>3, <1>4, <1>5 DEF IInv

(***************************************************************************)
(* Steps of the client                                                     *)
(***************************************************************************)

ServerPart == WorkQueued /\ Remembered /\ FreeableNotDone /\ NoSecondExecution
ClientPart == HandedOut /\ ChainHeld /\ Distinct /\ OneClass

\* Thread t is the only one that a step concerns.
OnlyThread(t) ==
    \A u \in Thr \ {t} :
        /\ pc'[u] = pc[u] /\ cls'[u] = cls[u] /\ nested'[u] = nested[u]
        /\ hdr'[u] = hdr[u] /\ chain'[u] = chain[u]

LEMMA ServerPartKept ==
    ASSUME IInv, UNCHANGED <<serverVars, done>> PROVE ServerPart'
BY Zenon DEF IInv, ServerPart, WorkQueued, Remembered, FreeableNotDone,
    NoSecondExecution, serverVars

\* The entry of thread t leaves the chain and nothing is sent.
LEMMA LeaveChain ==
    ASSUME IInv, NEW t \in Thr, OnlyThread(t),
           pc'[t] \in {"idle", "add", "notconn", "exdev"}, chain'[t].seqno = 0,
           hdr'[t] \in {hdr[t], NoHeader},
           UNCHANGED <<m_clnt_seqno, toServer, serverVars, done>>
    PROVE  ClientPart'
<1>1. HandedOut'
  <2>1. hdr'[t].seqno <= m_clnt_seqno /\ hdr'[t].ack <= m_clnt_seqno
    BY RpcAssumption DEF IInv, HandedOut, TypeOK, ClientTypeOK, NoHeader, Seqno
  <2>2. 0 <= m_clnt_seqno
    BY DEF IInv, TypeOK, ClientTypeOK, Seqno
  <2> QED
    BY Zenon, <2>1, <2>2 DEF IInv, HandedOut, OnlyThread, serverVars
<1>2. ChainHeld' /\ Distinct'
  <2>1. \A u \in Thr \ {t} : OnChain(u)' <=> OnChain(u)
    BY Zenon DEF OnlyThread, OnChain, Cls
  <2>2. ~OnChain(t)'
    BY Zenon DEF OnChain
  <2>3. ChainHeld'
    BY Zenon, <2>1, <2>2 DEF IInv, ChainHeld, OnlyThread
  <2>4. Distinct'
    BY DEF IInv, Distinct, Apart, OnlyThread
  <2> QED
    BY Zenon, <2>3, <2>4
<1>3. OneClass'
  <2>1. \A u \in Thr : pc'[u] = "write" =>
          pc[u] = "write" /\ hdr'[u] = hdr[u] /\ Cls(u)' = Cls(u)
    BY Zenon DEF OnlyThread, Cls
  <2>2. \A u \in Thr : chain'[u].seqno # 0 =>
          chain'[u] = chain[u] /\ Cls(u)' = Cls(u)
    BY Zenon DEF OnlyThread, Cls
  <2> QED
    BY <2>1, <2>2 DEF IInv, OneClass, ClassOf, serverVars
<1> QED
  BY Zenon, <1>1, <1>2, <1>3 DEF ClientPart

\* Thread t takes a new sequence number.
LEMMA AddMessage ==
    ASSUME IInv, NoWrap, NEW t \in Thr, sam_add_message(t)
    PROVE  ClientPart'
<1> DEFINE s == m_clnt_seqno + 1
<1>1. m_clnt_seqno' = s /\ s \in Nat /\ m_clnt_seqno \in Nat
  BY RpcAssumption DEF sam_add_message, NextSeqno, NoWrap, IInv, TypeOK,
      ClientTypeOK, Seqno
<1>2. /\ OnlyThread(t) /\ cls' = cls /\ nested' = nested /\ pc'[t] = "write"
      /\ UNCHANGED <<toServer, work, queue, cl_min_seqno, done>>
  BY Zenon DEF sam_add_message, OnlyThread, IInv, TypeOK, ClientTypeOK, Goto, netVars,
      serverVars
<1>3. hdr'[t].seqno = s
  BY <1>1 DEF sam_add_message, IInv, TypeOK, ClientTypeOK
<1>4. IF Waiting(Cls(t)) THEN chain'[t].seqno = s ELSE chain'[t].seqno = 0
  <2>1. pc[t] = "add"
    BY Zenon DEF sam_add_message
  <2> QED
    BY <1>1, <2>1 DEF sam_add_message, IInv, TypeOK, ClientTypeOK, ChainHeld,
        OnChain
<1>5. hdr'[t].ack <= s
  <2>1. \A e \in sam_get_earliest_outstanding_msg : e \in Nat /\ e <= s
    <3>1. \A o \in Outstanding : o \in Nat /\ o <= s
      BY <1>1, FieldTypes DEF Outstanding, IInv, HandedOut, TypeOK, ClientTypeOK,
          Seqno
    <3> QED
      BY <1>1, <3>1 DEF sam_get_earliest_outstanding_msg
  <2> QED
    BY <1>1, <2>1 DEF sam_add_message, IInv, TypeOK, ClientTypeOK
<1> HIDE DEF s
<1>6. HandedOut'
  <2>1. \A x \in Seqno : x <= m_clnt_seqno => x <= s
    BY <1>1, RpcAssumption DEF Seqno, s
  <2>2. s <= s /\ 0 <= s
    BY <1>1
  <2>3. (cl_min_seqno <= m_clnt_seqno)'
    BY Zenon, <1>1, <1>2, <2>1 DEF IInv, HandedOut, TypeOK, ServerTypeOK
  <2>4. \A u \in Thr : (/\ hdr[u].seqno <= m_clnt_seqno
                        /\ hdr[u].ack <= m_clnt_seqno
                        /\ chain[u].seqno <= m_clnt_seqno)'
    <3>1. \A u \in Thr : /\ hdr[u].seqno <= s /\ hdr[u].ack <= s
                         /\ chain[u].seqno <= s
      BY Zenon, <2>1, FieldTypes DEF IInv, HandedOut, TypeOK, ClientTypeOK
    <3> QED
      BY Zenon, <1>1, <1>2, <1>3, <1>4, <1>5, <2>2, <3>1 DEF OnlyThread
  <2>5. \A m \in toServer : m.seqno <= s /\ m.ack <= s
    BY Zenon, <2>1, FieldTypes DEF IInv, HandedOut, TypeOK, NetTypeOK
  <2>6. \A q \in DOMAIN queue : q <= s
    BY Zenon, <2>1 DEF IInv, HandedOut, TypeOK, ServerTypeOK
  <2>7. \A q \in Seqno : done[q] # "none" => q <= s
    BY Zenon, <2>1 DEF IInv, HandedOut
  <2> QED
    BY Zenon, <1>1, <1>2, <2>3, <2>4, <2>5, <2>6, <2>7 DEF HandedOut
<1>7. ChainHeld'
  <2>1. s # 0
    BY SMTT(30), <1>1 DEF s
  <2> QED
    BY Zenon, <1>2, <1>4, <2>1 DEF IInv, ChainHeld, OnChain, OnlyThread, Cls
<1>8. Distinct'
  <2>1. \A u \in Thr : chain[u].seqno # s /\ hdr[u].seqno # s
    BY SMTT(30), <1>1, FieldTypes DEF IInv, HandedOut, TypeOK, ClientTypeOK, Seqno,
       s
  <2> QED
    BY SMTT(30), <1>2, <1>3, <1>4, <2>1 DEF IInv, Distinct, Apart, OnlyThread
<1>9. OneClass'
  <2>1. /\ \A m \in toServer : m.seqno # s
        /\ \A w \in work : w.msg.seqno # s
        /\ s \notin DOMAIN queue
    <3>1. s \notin DOMAIN queue
      BY <1>1 DEF IInv, HandedOut, s
    <3> QED
      BY <1>1, <3>1 DEF IInv, HandedOut, WorkQueued, s
  <2>2. \A u \in Thr : Cls(u)' = Cls(u)
    BY Zenon, <1>2 DEF Cls
  <2>3. \A u \in Thr : pc'[u] = "write" =>
          hdr'[u].seqno = s \/ (pc[u] = "write" /\ hdr'[u] = hdr[u])
    BY Zenon, <1>2, <1>3 DEF OnlyThread
  <2>4. \A u \in Thr : chain'[u].seqno # 0 =>
          chain'[u].seqno = s \/ chain'[u] = chain[u]
    BY Zenon, <1>2, <1>4 DEF OnlyThread
  <2> QED
    BY <1>2, <2>1, <2>2, <2>3, <2>4 DEF IInv, OneClass, ClassOf
<1> QED
  BY Zenon, <1>6, <1>7, <1>8, <1>9 DEF ClientPart

(***************************************************************************)
(* The steps of the client                                                 *)
(***************************************************************************)

\* Thread t writes its message.
LEMMA WriteMessage ==
    ASSUME IInv, NEW t \in Thr, sam_write_to_server(t), conn PROVE ClientPart'
<1> DEFINE m == [seqno |-> hdr[t].seqno, ack |-> hdr[t].ack, cls |-> Cls(t),
                 call |-> call[t]]
<1>1. /\ toServer' = toServer \cup {m} /\ chain' = chain
      /\ UNCHANGED <<m_clnt_seqno, work, queue, cl_min_seqno, done, cls>>
  BY Zenon DEF sam_write_to_server, serverVars
<1>2. OnlyThread(t) /\ hdr'[t] = NoHeader /\ pc[t] = "write"
  BY Zenon DEF sam_write_to_server, OnlyThread, IInv, TypeOK, ClientTypeOK,
     Goto, Return
<1>3. IF Waiting(Cls(t)) THEN pc'[t] = "wait" /\ nested' = nested
                         ELSE pc'[t] = "idle"
  BY Zenon DEF sam_write_to_server, IInv, TypeOK, ClientTypeOK, Goto, Return
<1>4. m.seqno = hdr[t].seqno /\ m.ack = hdr[t].ack /\ m.cls = Cls(t)
  BY Zenon
<1> HIDE DEF m
<1>5. HandedOut'
  <2>1. m_clnt_seqno \in Nat /\ hdr'[t].seqno = 0 /\ hdr'[t].ack = 0
    BY SMTT(30), <1>2 DEF IInv, TypeOK, ClientTypeOK, Seqno, NoHeader
  <2> QED
    BY SMTT(30), <1>1, <1>2, <1>4, <2>1 DEF IInv, HandedOut, OnlyThread
<1>6. ChainHeld'
  BY ZenonT(30), <1>1, <1>2, <1>3 DEF IInv, ChainHeld, OnlyThread, OnChain, Cls
<1>7. Distinct'
  BY SMTT(30), <1>1, <1>2, <1>3 DEF IInv, Distinct, Apart, OnlyThread
<1>8. OneClass'
  <2>1. ClassOf(m.seqno, m.cls)
    BY ZenonT(30), <1>2, <1>4 DEF IInv, OneClass
  <2>2. \A u \in Thr : pc'[u] = "write" =>
          /\ pc[u] = "write" /\ hdr'[u] = hdr[u] /\ Cls(u)' = Cls(u)
          /\ hdr[u].seqno # m.seqno
    BY <1>2, <1>3, <1>4 DEF IInv, Distinct, Apart, OnlyThread, Cls
  <2>3. \A u \in Thr : chain'[u].seqno # 0 =>
          /\ chain[u].seqno # 0 /\ Cls(u)' = Cls(u)
          /\ chain[u].seqno = m.seqno => Cls(u) = m.cls
    <3>1. CASE Waiting(Cls(t))
      <4>1. \A u \in Thr : Cls(u)' = Cls(u)
        BY Zenon, <1>1, <1>3, <3>1 DEF Cls
      <4>2. \A u \in Thr : u # t /\ chain[u].seqno # 0 => chain[u].seqno # m.seqno
        BY ZenonT(30), <1>2, <1>4 DEF IInv, Distinct, Apart
      <4> QED
        BY Zenon, <1>1, <1>4, <4>1, <4>2
    <3>2. CASE ~Waiting(Cls(t))
      <4>1. chain[t].seqno = 0
        BY Zenon, <1>2, <3>2 DEF IInv, ChainHeld, OnChain
      <4> QED
        BY <1>1, <1>2, <1>4, <4>1 DEF IInv, Distinct, Apart, OnlyThread, Cls
    <3> QED
      BY Zenon, <3>1, <3>2
  <2> QED
    BY SMTT(30), <1>1, <2>1, <2>2, <2>3 DEF IInv, OneClass, ClassOf
<1> QED
  BY Zenon, <1>5, <1>6, <1>7, <1>8 DEF ClientPart

\* Thread t gives up waiting, or sends its message again.
LEMMA StayOnChain ==
    ASSUME IInv, NEW t \in Thr, OnlyThread(t), pc[t] \in {"wait", "etime"},
           \/ pc'[t] = "etime" /\ hdr'[t] = hdr[t]
           \/ /\ pc'[t] = "write" /\ Waiting(Cls(t))
              /\ hdr'[t].seqno = chain[t].seqno
              /\ hdr'[t].ack \in Outstanding \cup {0},
           UNCHANGED <<m_clnt_seqno, cls, nested, chain, toServer, serverVars, done>>
    PROVE  ClientPart'
<1>1. chain[t].seqno # 0 /\ Cls(t)' = Cls(t)
  BY Zenon DEF IInv, ChainHeld, OnChain, Cls
<1>2. HandedOut'
  <2>1. hdr'[t].seqno <= m_clnt_seqno /\ hdr'[t].ack <= m_clnt_seqno
    BY DEF IInv, HandedOut, Outstanding, TypeOK, ClientTypeOK, Seqno
  <2> QED
    BY ZenonT(30), <2>1 DEF IInv, HandedOut, OnlyThread, serverVars
<1>3. ChainHeld'
  BY Zenon, <1>1 DEF IInv, ChainHeld, OnlyThread, OnChain, Cls
<1>4. \A u \in Thr : pc'[u] = "write" =>
        \/ pc[u] = "write" /\ hdr'[u] = hdr[u]
        \/ chain[u].seqno # 0 /\ hdr'[u].seqno = chain[u].seqno
  BY Zenon, <1>1 DEF OnlyThread
<1>5. Distinct'
  <2> SUFFICES ASSUME NEW u \in Thr, NEW v \in Thr, u # v
               PROVE  /\ chain[u].seqno # 0 => chain[u].seqno # chain[v].seqno
                      /\ chain[u].seqno # 0 /\ pc'[v] = "write" =>
                             chain[u].seqno # hdr'[v].seqno
                      /\ pc'[u] = "write" /\ pc'[v] = "write" =>
                             hdr'[u].seqno # hdr'[v].seqno
    BY Zenon DEF Distinct, Apart
  <2>1. /\ chain[u].seqno # 0 => chain[u].seqno # chain[v].seqno
        /\ chain[u].seqno # 0 /\ pc[v] = "write" => chain[u].seqno # hdr[v].seqno
        /\ chain[v].seqno # 0 /\ pc[u] = "write" => chain[v].seqno # hdr[u].seqno
        /\ pc[u] = "write" /\ pc[v] = "write" => hdr[u].seqno # hdr[v].seqno
    BY Zenon DEF IInv, Distinct, Apart
  <2> QED BY Zenon, <1>4, <2>1
<1>6. OneClass'
  <2>1. \A u \in Thr : Cls(u)' = Cls(u)
    BY Zenon DEF Cls
  <2>2. \A x, c : ClassOf(x, c)' <=> ClassOf(x, c)
    BY Zenon DEF ClassOf, serverVars
  <2>3. /\ \A u \in Thr : pc'[u] = "write" => ClassOf(hdr'[u].seqno, Cls(u))
        /\ \A u \in Thr : chain'[u].seqno # 0 => ClassOf(chain'[u].seqno, Cls(u))
    BY Zenon, <1>4 DEF IInv, OneClass
  <2> QED
    BY Zenon, <2>1, <2>2, <2>3 DEF IInv, OneClass, serverVars
<1> QED
  BY Zenon, <1>2, <1>3, <1>5, <1>6 DEF ClientPart

LEMMA CompleteMessage ==
    ASSUME IInv, NEW r \in toClient, sam_complete_msg(r) PROVE ClientPart'
<1>1. /\ \A u \in Thr : chain'[u].seqno = chain[u].seqno
      /\ UNCHANGED <<m_clnt_seqno, pc, cls, nested, hdr, toServer, cl_min_seqno,
                     queue, work, done>>
  BY ZenonT(30) DEF sam_complete_msg, IInv, TypeOK, ClientTypeOK, Entry,
     serverVars, ghostVars
<1>2. \A u \in Thr : Cls(u)' = Cls(u) /\ (OnChain(u)' <=> OnChain(u))
  BY Zenon, <1>1 DEF Cls, OnChain
<1>3. HandedOut'
  BY Zenon, <1>1 DEF IInv, HandedOut
<1>4. ChainHeld'
  BY Zenon, <1>1, <1>2 DEF IInv, ChainHeld
<1>5. Distinct'
  <2>1. \A u, v \in Thr : Apart(u, v)' <=> Apart(u, v)
    BY Zenon, <1>1 DEF Apart
  <2> QED
    BY Zenon, <2>1 DEF IInv, Distinct
<1>6. OneClass'
  BY ZenonT(30), <1>1, <1>2 DEF IInv, OneClass, ClassOf
<1> QED
  BY Zenon, <1>3, <1>4, <1>5, <1>6 DEF ClientPart

\* Every step of a client thread keeps the invariant's parts.
LEMMA ClientInv ==
    ASSUME IInv, NoWrap, NEW t \in Thr,
           StartCall(t) \/ ClientStep(t) \/ Interrupted(t)
    PROVE  ClientPart' /\ ServerPart'
<1>0. /\ pc \in [Thr -> PC] /\ cls \in [Thr -> AllClasses]
      /\ nested \in [Thr -> BOOLEAN] /\ hdr \in [Thr -> Header]
      /\ chain \in [Thr -> Entry]
  BY Zenon DEF IInv, TypeOK, ClientTypeOK
<1>1. UNCHANGED <<serverVars, done>>
  <2>1. CASE StartCall(t)
    BY Zenon, <2>1 DEF StartCall
  <2>2. CASE Interrupted(t)
    BY Zenon, <2>2 DEF Interrupted
  <2>3. CASE sam_add_message(t)
    BY Zenon, <2>3 DEF sam_add_message
  <2>4. CASE sam_write_to_server(t)
    BY Zenon, <2>4 DEF sam_write_to_server
  <2>5. CASE ReplyReceived(t)
    BY Zenon, <2>5 DEF ReplyReceived
  <2>6. CASE WaitTimeout(t)
    BY Zenon, <2>6 DEF WaitTimeout
  <2>7. CASE AfterTimeout(t)
    BY Zenon, <2>7 DEF AfterTimeout
  <2>8. CASE AfterDelay(t)
    BY Zenon, <2>8 DEF AfterDelay
  <2> QED
    BY Zenon, <2>1, <2>2, <2>3, <2>4, <2>5, <2>6, <2>7, <2>8 DEF ClientStep
<1>2. CASE StartCall(t)
  <2>1. OnlyThread(t) /\ pc'[t] = "add" /\ chain' = chain /\ hdr' = hdr
    BY Zenon, <1>0, <1>2 DEF StartCall, OnlyThread
  <2>2. chain[t].seqno = 0
    BY Zenon, <1>2 DEF StartCall, IInv, ChainHeld, OnChain
  <2> QED
    BY Zenon, <1>1, <1>2, <2>1, <2>2, LeaveChain, ServerPartKept DEF StartCall, netVars
<1>3. CASE sam_add_message(t)
  BY Zenon, <1>1, <1>3, AddMessage, ServerPartKept
<1>4. CASE sam_write_to_server(t)
  <2>1. CASE ~conn
    <3>1. OnlyThread(t) /\ hdr'[t] = NoHeader /\ chain'[t] = NoEntry
      BY Zenon, <1>0, <1>4, <2>1 DEF sam_write_to_server, OnlyThread, Goto,
         Return,
          RemoveMessage
    <3>2. pc'[t] \in {"idle", "notconn"}
      BY ZenonT(30), <1>0, <1>4, <2>1 DEF sam_write_to_server, Goto, Return
    <3>3. UNCHANGED <<m_clnt_seqno, toServer, serverVars, done>>
      BY ZenonT(30), <1>1, <1>4, <2>1 DEF sam_write_to_server
    <3>4. chain'[t].seqno = 0
      BY Zenon, <3>1, NoEntryEmpty
    <3>5. ClientPart'
      BY Zenon, <3>1, <3>2, <3>3, <3>4, LeaveChain
    <3> QED
      BY Zenon, <1>1, <3>5, ServerPartKept
  <2> QED
    BY Zenon, <1>1, <1>4, <2>1, WriteMessage, ServerPartKept
<1>5. CASE ReplyReceived(t)
  <2>1. OnlyThread(t) /\ hdr' = hdr /\ chain'[t] = NoEntry
    BY Zenon, <1>0, <1>5 DEF ReplyReceived, OnlyThread, Goto, Return,
       RemoveMessage
  <2>2. pc'[t] \in {"idle", "add", "exdev"}
    BY Zenon, <1>0, <1>5 DEF ReplyReceived, Goto, Return
  <2>3. UNCHANGED <<m_clnt_seqno, toServer, serverVars, done>>
    BY Zenon, <1>1, <1>5 DEF ReplyReceived, netVars
  <2>4. chain'[t].seqno = 0
    BY Zenon, <2>1, NoEntryEmpty
  <2>5. ClientPart'
    BY Zenon, <2>1, <2>2, <2>3, <2>4, LeaveChain
  <2> QED
    BY Zenon, <1>1, <2>5, ServerPartKept
<1>6. CASE WaitTimeout(t)
  <2>1. CASE nested[t]
    <3>1. OnlyThread(t) /\ hdr' = hdr /\ chain'[t] = NoEntry
      BY Zenon, <1>0, <1>6, <2>1 DEF WaitTimeout, OnlyThread, Goto, Return, RemoveMessage
    <3>2. pc'[t] \in {"idle", "add"}
      BY Zenon, <1>0, <1>6, <2>1 DEF WaitTimeout, Goto, Return
    <3>3. UNCHANGED <<m_clnt_seqno, toServer, serverVars, done>>
      BY Zenon, <1>6, <2>1 DEF WaitTimeout, netVars
    <3>4. chain'[t].seqno = 0
      BY Zenon, <3>1, NoEntryEmpty
    <3>5. ClientPart'
      BY Zenon, <1>1, <3>1, <3>2, <3>3, <3>4, LeaveChain
    <3> QED
      BY Zenon, <1>1, <3>3, <3>5, ServerPartKept
  <2>2. CASE ~nested[t]
    <3>1. OnlyThread(t) /\ hdr' = hdr /\ pc'[t] = "etime"
      BY Zenon, <1>0, <1>6, <2>2 DEF WaitTimeout, OnlyThread, Goto
    <3> QED
      BY Zenon, <1>1, <1>6, <2>2, <3>1, StayOnChain, ServerPartKept
         DEF WaitTimeout, netVars
  <2> QED
    BY Zenon, <2>1, <2>2
<1>7. CASE AfterTimeout(t)
  <2>1. CASE pc' = [pc EXCEPT ![t] = "write"]
    <3>1. OnlyThread(t) /\ chain' = chain /\ nested' = nested
      BY Zenon, <1>0, <1>7, <2>1 DEF AfterTimeout, OnlyThread, Return
    <3>2. hdr'[t].seqno = chain[t].seqno /\ hdr'[t].ack \in Outstanding \cup {0}
      <4>1. PICK e \in sam_get_earliest_outstanding_msg :
              hdr' = [hdr EXCEPT ![t] = [seqno |-> chain[t].seqno, ack |-> e]]
        BY Zenon, <1>0, <1>7, <2>1 DEF AfterTimeout, Return
      <4>2. e \in Outstanding \cup {0}
        BY Zenon DEF sam_get_earliest_outstanding_msg
      <4> QED
        BY Zenon, <1>0, <4>1, <4>2
    <3>3. Waiting(Cls(t))
      BY Zenon, <1>0, <1>7, <2>1 DEF AfterTimeout, Return, Retransmitted,
          Waiting, Cls
    <3> QED
      BY Zenon, <1>0, <1>1, <1>7, <2>1, <3>1, <3>2, <3>3, StayOnChain,
         ServerPartKept
         DEF AfterTimeout, netVars
  <2>2. CASE pc' # [pc EXCEPT ![t] = "write"]
    <3>1. OnlyThread(t) /\ hdr' = hdr /\ chain'[t] = NoEntry
      BY Zenon, <1>0, <1>7, <2>2 DEF AfterTimeout, OnlyThread, Goto, Return,
         RemoveMessage
    <3>2. pc'[t] = "idle"
      BY Zenon, <1>0, <1>7, <2>2 DEF AfterTimeout, Goto, Return
    <3>3. UNCHANGED <<m_clnt_seqno, toServer, serverVars, done>>
      BY Zenon, <1>1, <1>7 DEF AfterTimeout, netVars
    <3>4. chain'[t].seqno = 0
      BY Zenon, <3>1, NoEntryEmpty
    <3>5. ClientPart'
      BY Zenon, <3>1, <3>2, <3>3, <3>4, LeaveChain
    <3> QED
      BY Zenon, <1>1, <3>3, <3>5, ServerPartKept
  <2> QED
    BY Zenon, <2>1, <2>2
<1>8. CASE AfterDelay(t)
  <2>1. OnlyThread(t) /\ hdr' = hdr /\ chain' = chain
    BY Zenon, <1>0, <1>8 DEF AfterDelay, OnlyThread, Goto, Return
  <2>2. pc'[t] \in {"idle", "add"}
    BY Zenon, <1>0, <1>8 DEF AfterDelay, Goto, Return
  <2>3. chain[t].seqno = 0
    BY Zenon, <1>8 DEF AfterDelay, IInv, ChainHeld, OnChain
  <2> QED
    BY ZenonT(30), <1>1, <1>8, <2>1, <2>2, <2>3, LeaveChain, ServerPartKept
       DEF AfterDelay, netVars
<1>9. CASE Interrupted(t)
  <2>1. OnlyThread(t) /\ hdr' = hdr /\ chain'[t] = NoEntry
    BY Zenon, <1>0, <1>9 DEF Interrupted, OnlyThread, Return, RemoveMessage
  <2>2. pc'[t] = "idle"
    BY Zenon, <1>0, <1>9 DEF Interrupted, Return
  <2>3. UNCHANGED <<m_clnt_seqno, toServer, serverVars, done>>
    BY Zenon, <1>1, <1>9 DEF Interrupted, netVars
  <2>4. chain'[t].seqno = 0
    BY Zenon, <2>1, NoEntryEmpty
  <2>5. ClientPart'
    BY Zenon, <2>1, <2>2, <2>3, <2>4, LeaveChain
  <2> QED
    BY Zenon, <1>1, <2>3, <2>5, ServerPartKept
<1> QED
  BY Zenon, <1>2, <1>3, <1>4, <1>5, <1>6, <1>7, <1>8, <1>9 DEF ClientStep


(***************************************************************************)
(* Steps of the server and of the network                                  *)
(***************************************************************************)

\* A step that leaves the client alone and brings up no new message.
LEMMA ClientPartKept ==
    ASSUME IInv, UNCHANGED clientVars, toServer' \subseteq toServer,
           \A w \in work' : w.msg \in toServer \/ \E v \in work : v.msg = w.msg,
           \A s \in DOMAIN queue' :
               queue'[s].active = "WAITFOR_ACK" =>
                   \/ s \in DOMAIN queue /\ queue[s].active = "WAITFOR_ACK"
                   \/ \E v \in work : v.msg.seqno = s /\ Kept(v.msg.cls),
           HandedOut'
    PROVE  ClientPart'
<1>1. ChainHeld' /\ Distinct'
  BY Zenon DEF IInv, ChainHeld, Distinct, Apart, OnChain, Cls, clientVars
<1>2. OneClass'
  <2>1. \A s \in Seqno, c \in AllClasses : ClassOf(s, c) =>
          /\ \A m \in toServer' : m.seqno = s => m.cls = c
          /\ \A w \in work' : w.msg.seqno = s => w.msg.cls = c
          /\ s \in DOMAIN queue' /\ queue'[s].active = "WAITFOR_ACK" => Kept(c)
    <3> SUFFICES ASSUME NEW s \in Seqno, NEW c \in AllClasses, ClassOf(s, c)
                 PROVE  /\ \A m \in toServer' : m.seqno = s => m.cls = c
                        /\ \A w \in work' : w.msg.seqno = s => w.msg.cls = c
                        /\ s \in DOMAIN queue' /\ queue'[s].active = "WAITFOR_ACK" => Kept(c)
      BY Zenon
    <3>1. /\ \A m \in toServer : m.seqno = s => m.cls = c
          /\ \A w \in work : w.msg.seqno = s => w.msg.cls = c
          /\ s \in DOMAIN queue /\ queue[s].active = "WAITFOR_ACK" => Kept(c)
      BY Zenon DEF ClassOf
    <3>2. \A m \in toServer' : m.seqno = s => m.cls = c
      BY Zenon, <3>1
    <3>3. \A w \in work' : w.msg.seqno = s => w.msg.cls = c
      BY ZenonT(30), <3>1
    <3>4. s \in DOMAIN queue' /\ queue'[s].active = "WAITFOR_ACK" => Kept(c)
      BY Zenon, <3>1
    <3> QED BY Zenon, <3>2, <3>3, <3>4
  <2>2. /\ \A t \in Thr : /\ hdr[t].seqno \in Seqno /\ chain[t].seqno \in Seqno
                          /\ Cls(t) \in AllClasses /\ Cls(t)' = Cls(t)
        /\ \A m \in toServer : m.seqno \in Seqno /\ m.cls \in AllClasses
        /\ \A w \in work : w.msg.seqno \in Seqno /\ w.msg.cls \in AllClasses
    BY Zenon, FieldTypes DEF IInv, TypeOK, ClientTypeOK, NetTypeOK, ServerTypeOK, Cls,
        AllClasses, clientVars
  <2>3. \A w \in work' : /\ ClassOf(w.msg.seqno, w.msg.cls)
                         /\ w.msg.seqno \in Seqno /\ w.msg.cls \in AllClasses
    BY Zenon, <2>2 DEF IInv, OneClass
  <2>4. UNCHANGED <<pc, hdr, chain>>
    BY Zenon DEF clientVars
  <2>5. /\ \A t \in Thr : pc[t] = "write" => ClassOf(hdr[t].seqno, Cls(t))
        /\ \A t \in Thr : chain[t].seqno # 0 => ClassOf(chain[t].seqno, Cls(t))
        /\ \A m \in toServer' : ClassOf(m.seqno, m.cls)
    BY Zenon DEF IInv, OneClass
  <2>6. ASSUME NEW t \in Thr, pc'[t] = "write"
        PROVE  ClassOf(hdr[t].seqno, Cls(t))'
    <3> DEFINE s == hdr[t].seqno
               c == Cls(t)
    <3>1. s \in Seqno /\ c \in AllClasses /\ ClassOf(s, c) /\ s' = s /\ c' = c
      BY Zenon, <2>2, <2>4, <2>5, <2>6
    <3> HIDE DEF s, c
    <3>2. /\ \A m \in toServer' : m.seqno = s => m.cls = c
          /\ \A w \in work' : w.msg.seqno = s => w.msg.cls = c
          /\ s \in DOMAIN queue' /\ queue'[s].active = "WAITFOR_ACK" => Kept(c)
      BY Zenon, <2>1, <3>1
    <3>3. ClassOf(s, c)'
      BY Zenon, <3>1, <3>2 DEF ClassOf
    <3> QED BY Zenon, <3>3 DEF s, c
  <2>7. ASSUME NEW t \in Thr, chain'[t].seqno # 0
        PROVE  ClassOf(chain[t].seqno, Cls(t))'
    <3> DEFINE s == chain[t].seqno
               c == Cls(t)
    <3>1. s \in Seqno /\ c \in AllClasses /\ ClassOf(s, c) /\ s' = s /\ c' = c
      BY Zenon, <2>2, <2>4, <2>5, <2>7
    <3> HIDE DEF s, c
    <3>2. /\ \A m \in toServer' : m.seqno = s => m.cls = c
          /\ \A w \in work' : w.msg.seqno = s => w.msg.cls = c
          /\ s \in DOMAIN queue' /\ queue'[s].active = "WAITFOR_ACK" => Kept(c)
      BY Zenon, <2>1, <3>1
    <3>3. ClassOf(s, c)'
      BY Zenon, <3>1, <3>2 DEF ClassOf
    <3> QED BY Zenon, <3>3 DEF s, c
  <2>8. ASSUME NEW m \in toServer' PROVE ClassOf(m.seqno, m.cls)'
    <3>1. m.seqno \in Seqno /\ m.cls \in AllClasses /\ ClassOf(m.seqno, m.cls)
      BY Zenon, <2>2, <2>5
    <3> DEFINE s == m.seqno
               c == m.cls
    <3>2. s \in Seqno /\ c \in AllClasses /\ ClassOf(s, c)
      BY Zenon, <3>1
    <3> HIDE DEF s, c
    <3>3. ClassOf(s, c)'
      BY Zenon, <2>1, <3>2 DEF ClassOf
    <3> QED BY Zenon, <3>3 DEF s, c
  <2>9. ASSUME NEW w \in work' PROVE ClassOf(w.msg.seqno, w.msg.cls)'
    <3> DEFINE s == w.msg.seqno
               c == w.msg.cls
    <3>1. s \in Seqno /\ c \in AllClasses /\ ClassOf(s, c)
      BY Zenon, <2>3
    <3> HIDE DEF s, c
    <3>2. ClassOf(s, c)'
      BY Zenon, <2>1, <3>1 DEF ClassOf
    <3> QED BY Zenon, <3>2 DEF s, c
  <2> QED
    BY Zenon, <2>6, <2>7, <2>8, <2>9 DEF OneClass
<1> QED
  BY Zenon, <1>1, <1>2 DEF ClientPart

\* sam_server_cmd looks a message up, and ignores it, answers it with the saved
\* reply, or starts to execute it.
LEMMA LookupInv ==
    ASSUME IInv, NoWrap, NEW m \in toServer, Receive(m), LookupMessage(m)
    PROVE  ClientPart' /\ ServerPart'
<1> DEFINE q == [s \in DOMAIN queue \ Freed(m) |-> queue[s]]
           Ignored == queue' = q /\ UNCHANGED work
           Resent(e) == /\ m.seqno \in DOMAIN q /\ q[m.seqno].active = "WAITFOR_ACK"
                        /\ queue' = [q EXCEPT ![m.seqno].active = "PROCESSING"]
                        /\ work' = work \cup
                                     {[msg |-> m, phase |-> "done", err |-> e]}
           Started == /\ ~AlreadyAcked(m) /\ m.seqno \notin DOMAIN q
                      /\ queue' = [s \in DOMAIN q \cup {m.seqno} |->
                                     IF s = m.seqno
                                     THEN [active |-> "PROCESSING", err |-> "none"]
                                     ELSE q[s]]
                      /\ work' = work \cup
                                   {[msg |-> m, phase |-> "exec", err |-> "none"]}
<1>1. Ignored \/ (\E e : Resent(e)) \/ Started
  BY ZenonT(30) DEF LookupMessage
<1>2. /\ cl_min_seqno' = MinSeqno(m)
      /\ toServer' \subseteq toServer /\ UNCHANGED clientVars
      /\ done' = IF m.cls = "mount" THEN [s \in Seqno |-> "none"] ELSE done
  BY Zenon DEF LookupMessage, Receive
<1>3. /\ m.seqno \in Seqno /\ m.ack \in Seqno /\ m.seqno <= m_clnt_seqno
      /\ m.ack <= m_clnt_seqno /\ cl_min_seqno \in Seqno
      /\ cl_min_seqno <= m_clnt_seqno /\ m_clnt_seqno \in Seqno
      /\ DOMAIN queue \subseteq Seqno
      /\ \A s \in DOMAIN queue : s <= m_clnt_seqno
  BY Zenon, FieldTypes DEF IInv, HandedOut, TypeOK, ClientTypeOK, NetTypeOK, ServerTypeOK
<1>4. \A a, b \in Seqno : a <= m_clnt_seqno /\ b <= m_clnt_seqno
                             => (SequenceLater(a, b) <=> a > b)
  BY <1>3, RpcAssumption, SequenceLaterIsGreater DEF Seqno, NoWrap
<1>5. cl_min_seqno' \in Seqno /\ cl_min_seqno' <= m_clnt_seqno
  BY Zenon, <1>2, <1>3 DEF MinSeqno
<1>6. m.cls # "mount" => cl_min_seqno' >= cl_min_seqno
  BY <1>2, <1>3, <1>4 DEF MinSeqno, NewAck, Seqno
<1>7. m.cls # "mount" => \A s \in Freed(m) : cl_min_seqno' > s /\ s # m.seqno
  BY Zenon, <1>2, <1>3, <1>4 DEF MinSeqno, Freed
<1>8. /\ DOMAIN q = DOMAIN queue \ Freed(m)
      /\ \A s \in DOMAIN q : q[s] = queue[s]
      /\ \A w \in work : w.msg.seqno \in DOMAIN q
                         /\ q[w.msg.seqno].active = "PROCESSING"
  BY Zenon DEF Freed, IInv, WorkQueued
<1>9. \A s \in DOMAIN q : q[s] \in Saved
  BY Zenon, <1>8 DEF IInv, TypeOK, ServerTypeOK
<1> HIDE DEF q
<1> DEFINE Rest ==
             /\ DOMAIN q \subseteq DOMAIN queue'
             /\ DOMAIN queue' \subseteq DOMAIN q \cup {m.seqno}
             /\ \A s \in DOMAIN q \ {m.seqno} : queue'[s] = q[s]
             /\ \A s \in DOMAIN queue' : queue'[s].active = "WAITFOR_ACK" =>
                                          s \in DOMAIN q /\ queue'[s] = q[s]
<1>10. Rest
  <2>1. CASE Ignored
    BY Zenon, <2>1
  <2>2. ASSUME NEW e, Resent(e) PROVE Rest
    BY Zenon, <1>9, <2>2 DEF Saved
  <2>3. CASE Started
    BY Zenon, <2>3
  <2> QED
    BY Zenon, <1>1, <2>1, <2>2, <2>3
<1>11. HandedOut'
  BY Zenon, <1>2, <1>3, <1>5, <1>8, <1>10 DEF IInv, HandedOut, clientVars
<1>12. ClientPart'
  <2>1. \A w \in work' : w.msg \in toServer \/ \E v \in work : v.msg = w.msg
    BY <1>1
  <2>2. \A s \in DOMAIN queue' : queue'[s].active = "WAITFOR_ACK" =>
          s \in DOMAIN queue /\ queue[s].active = "WAITFOR_ACK"
    BY Zenon, <1>8, <1>10
  <2> QED
    BY Zenon, <1>2, <1>11, <2>1, <2>2, ClientPartKept
<1>13. \A s \in Seqno : done'[s] # "none" =>
          /\ m.cls # "mount" /\ done[s] # "none"
          /\ s \in DOMAIN q \/ cl_min_seqno' > s
  <2> SUFFICES ASSUME NEW s \in Seqno, done'[s] # "none"
               PROVE  /\ m.cls # "mount" /\ done[s] # "none"
                      /\ s \in DOMAIN q \/ cl_min_seqno' > s
    BY Zenon
  <2>1. m.cls # "mount" /\ done[s] # "none"
    BY Zenon, <1>2
  <2>2. CASE s \in DOMAIN queue
    BY Zenon, <1>7, <1>8, <2>1, <2>2
  <2>3. CASE cl_min_seqno > s
    BY <1>3, <1>5, <1>6, <2>1, <2>3 DEF Seqno
  <2> QED
    BY Zenon, <2>1, <2>2, <2>3 DEF IInv, Remembered
<1>14. Remembered'
  BY Zenon, <1>10, <1>13 DEF Remembered
<1>15. WorkQueued'
  <2>1. CASE Ignored
    BY Zenon, <1>8, <2>1 DEF IInv, WorkQueued
  <2>2. ASSUME NEW e, Resent(e) PROVE WorkQueued'
    <3>1. \A w \in work : w.msg.seqno # m.seqno
      BY Zenon, <1>8, <2>2
    <3>2. m.seqno \in DOMAIN queue' /\ queue'[m.seqno].active = "PROCESSING"
      BY Zenon, <1>9, <2>2 DEF Saved
    <3> QED
      BY <1>8, <1>10, <2>2, <3>1, <3>2 DEF IInv, WorkQueued
  <2>3. CASE Started
    <3>1. \A w \in work : w.msg.seqno # m.seqno
      BY Zenon, <1>8, <2>3
    <3>2. m.seqno \in DOMAIN queue' /\ queue'[m.seqno].active = "PROCESSING"
      BY Zenon, <2>3
    <3> QED
      BY SMTT(30), <1>8, <1>10, <2>3, <3>1, <3>2 DEF IInv, WorkQueued
  <2> QED
    BY Zenon, <1>1, <2>1, <2>2, <2>3
<1>16. \A w \in work : /\ w.msg.seqno \in Seqno
                       /\ done[w.msg.seqno] = "none" => done'[w.msg.seqno] = "none"
                       /\ cl_min_seqno > w.msg.seqno =>
                            \/ done'[w.msg.seqno] = "none"
                            \/ cl_min_seqno' > w.msg.seqno
  <2>1. \A w \in work : w.msg.seqno \in Seqno
    BY Zenon, FieldTypes DEF IInv, TypeOK, ServerTypeOK
  <2> QED
    BY <1>2, <1>3, <1>5, <1>6, <2>1 DEF Seqno
<1>17. FreeableNotDone'
  <2>1. \A w \in work : ~Kept(w.msg.cls) =>
          done'[w.msg.seqno] = "none" \/ cl_min_seqno' > w.msg.seqno
    BY Zenon, <1>16 DEF IInv, FreeableNotDone
  <2>2. CASE Ignored
    BY Zenon, <2>1, <2>2 DEF FreeableNotDone
  <2>3. ASSUME NEW e, Resent(e) PROVE FreeableNotDone'
    <3>1. Kept(m.cls)
      BY Zenon, <1>8, <2>3 DEF IInv, OneClass, ClassOf
    <3> QED
      BY <2>1, <2>3, <3>1 DEF FreeableNotDone
  <2>4. CASE Started
    <3>1. done'[m.seqno] = "none" \/ cl_min_seqno' > m.seqno
      BY Zenon, <1>3, <1>13, <2>4
    <3> QED
      BY <2>1, <2>4, <3>1 DEF FreeableNotDone
  <2> QED
    BY Zenon, <1>1, <2>2, <2>3, <2>4
<1>18. NoSecondExecution'
  <2>1. \A w \in work : w.phase = "exec" /\ Kept(w.msg.cls) =>
          done'[w.msg.seqno] = "none"
    BY Zenon, <1>16 DEF IInv, NoSecondExecution
  <2>2. CASE Ignored
    BY Zenon, <2>1, <2>2 DEF NoSecondExecution
  <2>3. ASSUME NEW e, Resent(e) PROVE NoSecondExecution'
    <3>1. [msg |-> m, phase |-> "done", err |-> e].phase # "exec"
      BY Zenon
    <3> QED BY Zenon, <2>1, <2>3, <3>1 DEF NoSecondExecution
  <2>4. CASE Started
    <3>1. Kept(m.cls) => ~(cl_min_seqno' > m.seqno)
      BY Zenon, <1>2, <1>3, <1>4, <1>5, <2>4 DEF AlreadyAcked, Kept, Waiting
    <3>2. Kept(m.cls) => done'[m.seqno] = "none"
      BY Zenon, <1>3, <1>13, <2>4, <3>1
    <3> QED
      BY <2>1, <2>4, <3>2 DEF NoSecondExecution
  <2> QED
    BY Zenon, <1>1, <2>2, <2>3, <2>4
<1> QED
  BY Zenon, <1>12, <1>14, <1>15, <1>17, <1>18 DEF ServerPart

LEMMA ReceiveInv ==
    ASSUME IInv, NoWrap, NEW m \in toServer, Receive(m)
    PROVE  ClientPart' /\ ServerPart'
<1>1. CASE UNCHANGED <<cl_min_seqno, queue, work, done>>
  <2>1. toServer' \subseteq toServer /\ UNCHANGED <<clientVars, serverVars, done>>
    BY Zenon, <1>1 DEF Receive, serverVars
  <2>2. HandedOut'
    BY Zenon, <1>1, <2>1 DEF IInv, HandedOut, clientVars
  <2> QED
    BY Zenon, <1>1, <2>1, <2>2, ClientPartKept, ServerPartKept
<1> QED
  BY Zenon, <1>1, LookupInv DEF Receive, ReplyOutOfSync, ReplyNotMounted

LEMMA ProcessInv ==
    ASSUME IInv, NEW w \in work, sam_process_message(w)
    PROVE  ClientPart' /\ ServerPart'
<1>1. PICK e \in Outcome :
        /\ work' = (work \ {w}) \cup {[w EXCEPT !.phase = "done", !.err = e]}
        /\ done' = IF Kept(w.msg.cls) THEN [done EXCEPT ![w.msg.seqno] = e] ELSE done
  BY ZenonT(30) DEF sam_process_message, Outcomes
<1> DEFINE v == [w EXCEPT !.phase = "done", !.err = e]
<1>2. v.msg = w.msg /\ v.phase = "done"
  BY Zenon DEF IInv, TypeOK, ServerTypeOK, Worker
<1>3. UNCHANGED <<clientVars, toServer, cl_min_seqno, queue>>
  BY Zenon DEF sam_process_message, netVars
<1>4. w.msg.seqno \in Seqno /\ w.msg.seqno \in DOMAIN queue
  BY Zenon, FieldTypes DEF IInv, WorkQueued, TypeOK, ServerTypeOK
<1>5. \A s \in Seqno : done'[s] # "none" => done[s] # "none" \/ s = w.msg.seqno
  BY <1>1
<1>6. \A u \in work \ {w} : /\ u.msg.seqno # w.msg.seqno
                           /\ u.msg.seqno \in Seqno
                           /\ done'[u.msg.seqno] = done[u.msg.seqno]
  BY Zenon, <1>1, FieldTypes DEF IInv, WorkQueued, TypeOK, ServerTypeOK, HistoryTypeOK
<1>7. work' = (work \ {w}) \cup {v}
  BY Zenon, <1>1
<1> HIDE DEF v
<1>8. HandedOut'
  BY Zenon, <1>3, <1>4, <1>5 DEF IInv, HandedOut, clientVars
<1>9. ClientPart'
  BY Zenon, <1>2, <1>3, <1>7, <1>8, ClientPartKept
<1>10. WorkQueued'
  BY <1>2, <1>3, <1>7 DEF IInv, WorkQueued
<1>11. Remembered'
  BY Zenon, <1>3, <1>4, <1>5 DEF IInv, Remembered
<1>12. FreeableNotDone'
  <2>1. ~Kept(w.msg.cls) => done' = done
    BY Zenon, <1>1
  <2> QED
    BY Zenon, <1>2, <1>3, <1>6, <1>7, <2>1 DEF IInv, FreeableNotDone
<1>13. NoSecondExecution'
  BY Zenon, <1>2, <1>6, <1>7 DEF IInv, NoSecondExecution
<1> QED
  BY Zenon, <1>9, <1>10, <1>11, <1>12, <1>13 DEF ServerPart

LEMMA ReplyDoneInv ==
    ASSUME IInv, NEW w \in work, ReplyDone(w)
    PROVE  ClientPart' /\ ServerPart'
<1> DEFINE s == w.msg.seqno
<1>1. /\ work' = work \ {w}
      /\ UNCHANGED <<clientVars, toServer, cl_min_seqno, done>>
  BY Zenon DEF ReplyDone, ghostVars
<1>2. s \in Seqno /\ s \in DOMAIN queue /\ \A u \in work' : u.msg.seqno # s
  BY Zenon, <1>1, FieldTypes DEF IInv, WorkQueued, TypeOK, ServerTypeOK
<1>3. /\ DOMAIN queue' = IF Kept(w.msg.cls) THEN DOMAIN queue
                                             ELSE DOMAIN queue \ {s}
      /\ \A x \in DOMAIN queue' \ {s} : queue'[x] = queue[x]
  BY Zenon DEF ReplyDone
<1> HIDE DEF s
<1>4. HandedOut'
  BY Zenon, <1>1, <1>3 DEF IInv, HandedOut, clientVars
<1>5. ClientPart'
  <2>1. \A x \in DOMAIN queue' : queue'[x].active = "WAITFOR_ACK" =>
          \/ x \in DOMAIN queue /\ queue[x].active = "WAITFOR_ACK"
          \/ \E v \in work : v.msg.seqno = x /\ Kept(v.msg.cls)
    BY Zenon, <1>3 DEF s
  <2> QED
    BY Zenon, <1>1, <1>4, <2>1, ClientPartKept
<1>6. WorkQueued'
  BY Zenon, <1>1, <1>2, <1>3 DEF IInv, WorkQueued
<1>7. Remembered'
  BY Zenon, <1>1, <1>3 DEF IInv, Remembered, FreeableNotDone, s
<1>8. FreeableNotDone' /\ NoSecondExecution'
  BY Zenon, <1>1 DEF IInv, FreeableNotDone, NoSecondExecution
<1> QED
  BY Zenon, <1>5, <1>6, <1>7, <1>8 DEF ServerPart

LEMMA FaultInv ==
    ASSUME IInv, FaultStep PROVE ClientPart' /\ ServerPart'
<1>1. UNCHANGED clientVars /\ toServer' \subseteq toServer
  BY Zenon DEF FaultStep, Lose, Disconnect, ServerRestart, ServerUmount, ParentRemoved,
      Fault, netVars
<1>2. CASE ServerRestart
  <2>1. /\ work' = {} /\ DOMAIN queue' = {} /\ cl_min_seqno' = 0
        /\ done' = [s \in Seqno |-> "none"]
    BY Zenon, <1>2 DEF ServerRestart
  <2>2. HandedOut'
    BY <1>1, <2>1 DEF IInv, HandedOut, TypeOK, ClientTypeOK, Seqno, clientVars
  <2>3. ServerPart'
    BY Zenon, <2>1 DEF ServerPart, WorkQueued, Remembered, FreeableNotDone,
        NoSecondExecution
  <2> QED
    BY Zenon, <1>1, <2>1, <2>2, <2>3, ClientPartKept
<1>3. CASE UNCHANGED <<cl_min_seqno, queue, work, done>>
  <2>1. HandedOut'
    BY Zenon, <1>1, <1>3 DEF IInv, HandedOut, clientVars
  <2>2. ClientPart'
    BY Zenon, <1>1, <1>3, <2>1, ClientPartKept
  <2> QED
    BY Zenon, <1>3, <2>2 DEF IInv, ServerPart, WorkQueued, Remembered, FreeableNotDone,
        NoSecondExecution
<1> QED
  BY Zenon, <1>2, <1>3 DEF FaultStep, Lose, Disconnect, ServerUmount, ParentRemoved,
      serverVars

\* Every step keeps the invariant, as long as the numbers have not wrapped.
LEMMA IInvNext == IInv /\ NoWrap /\ [Next]_vars => IInv'
<1> SUFFICES ASSUME IInv, NoWrap, [Next]_vars PROVE IInv'
    BY Zenon
<1>1. TypeOK'
  BY Zenon, TypeNext DEF IInv
<1>2. ClientPart' /\ ServerPart'
  <2>1. ASSUME NEW r \in toClient, sam_complete_msg(r)
        PROVE  ClientPart' /\ ServerPart'
    BY ZenonT(30), <2>1, CompleteMessage, ServerPartKept
       DEF sam_complete_msg, ghostVars
  <2>2. CASE UNCHANGED <<clientVars, toServer, cl_min_seqno, queue, work, done>>
    <3>1. HandedOut'
      BY Zenon, <2>2 DEF IInv, HandedOut, clientVars
    <3>2. ClientPart'
      BY Zenon, <2>2, <3>1, ClientPartKept
    <3> QED
      BY Zenon, <2>2, <3>2 DEF IInv, ServerPart, WorkQueued, Remembered,
          FreeableNotDone, NoSecondExecution
  <2>3. CASE Reconnect \/ ServerMount \/ UNCHANGED vars
    BY Zenon, <2>2, <2>3 DEF Reconnect, ServerMount, vars, netVars, serverVars, ghostVars
  <2> QED
    BY Zenon, <2>1, <2>3, ClientInv, ReceiveInv, ProcessInv, ReplyDoneInv,
       FaultInv
       DEF Next
<1> QED
  BY Zenon, <1>1, <1>2 DEF IInv, ClientPart, ServerPart

\* No sequence number of a non-idempotent command is executed twice between two
\* resets of the numbers, whatever is lost, delayed, repeated or restarted.
THEOREM AtMostOnce == Spec /\ []NoWrap => []NoSecondExecution
<1>1. IInv => NoSecondExecution
  BY Zenon DEF IInv
<1> QED
  BY <1>1, IInvInit, IInvNext, PTL DEF Spec

\* An executed non-idempotent message is in the server's array until the
\* client's ack covers it.
THEOREM RepliesKept == Spec /\ []NoWrap => []ServerRemembers
<1>1. IInv /\ NoWrap => ServerRemembers
  <2> SUFFICES ASSUME IInv, NoWrap, NEW s \in Seqno, done[s] # "none"
               PROVE  s \in DOMAIN queue \/ SequenceLater(cl_min_seqno, s)
    BY Zenon DEF ServerRemembers
  <2>1. /\ s <= m_clnt_seqno /\ cl_min_seqno <= m_clnt_seqno
        /\ s \in Nat /\ cl_min_seqno \in Nat /\ m_clnt_seqno \in Nat
    BY DEF IInv, HandedOut, TypeOK, ClientTypeOK, ServerTypeOK, Seqno
  <2>2. 2 * s < SeqMod /\ 2 * cl_min_seqno < SeqMod
    BY <2>1, RpcAssumption DEF NoWrap
  <2> QED
    BY Zenon, <2>1, <2>2, SequenceLaterIsGreater DEF IInv, Remembered
<1> QED
  BY <1>1, IInvInit, IInvNext, PTL DEF Spec

(***************************************************************************)
(* No acknowledgement passes a message that is waited on                   *)
(***************************************************************************)

\* No ack, in transit or about to be written, passes an outstanding message.
AckSafe ==
    \A o \in Outstanding :
        /\ cl_min_seqno <= o
        /\ \A m \in toServer : m.ack <= o
        /\ \A t \in Thr : hdr[t].ack <= o

LEMMA NotGreater == \A a, b \in Nat : ~(a > b) => a <= b
OBVIOUS

LEMMA EarliestIsLeast ==
    ASSUME IInv, NoWrap, NEW e \in sam_get_earliest_outstanding_msg
    PROVE  \A o \in Outstanding : e <= o /\ e # 0
<1>1. \A o \in Outstanding : o \in Nat /\ o # 0 /\ o <= m_clnt_seqno
  BY DEF Outstanding, IInv, HandedOut, TypeOK, ClientTypeOK, Entry, Seqno
<1> SUFFICES ASSUME NEW o \in Outstanding PROVE e <= o /\ e # 0
    BY Zenon
<1>2. e \in Outstanding /\ ~SequenceLater(e, o)
  BY Zenon DEF sam_get_earliest_outstanding_msg
<1>3. m_clnt_seqno \in Nat
  BY DEF IInv, TypeOK, ClientTypeOK, Seqno
<1>4. 2 * e < SeqMod /\ 2 * o < SeqMod
  BY <1>1, <1>2, <1>3, RpcAssumption DEF NoWrap
<1>5. e \in Nat /\ o \in Nat /\ e # 0
  BY Zenon, <1>1, <1>2
<1>6. ~(e > o)
  BY Zenon, <1>2, <1>4, <1>5, SequenceLaterIsGreater
<1> QED
  BY Zenon, <1>5, <1>6, NotGreater

\* A step that puts no message on the chain.
LEMMA AckKept ==
    ASSUME IInv, AckSafe,
           \A u \in Thr : \/ chain'[u] = chain[u] \/ chain'[u].seqno = 0
                          \/ chain'[u].done,
           \/ cl_min_seqno' \in {cl_min_seqno, 0}
           \/ \E m \in toServer : cl_min_seqno' = m.ack,
           \A m \in toServer' : m \in toServer \/ \E t \in Thr : m.ack = hdr[t].ack,
           \A t \in Thr : \/ hdr'[t] = hdr[t] \/ hdr'[t].ack = 0
                          \/ \A o \in Outstanding : hdr'[t].ack <= o
    PROVE  AckSafe'
<1>1. Outstanding' \subseteq Outstanding
  BY Zenon DEF Outstanding
<1>2. \A o \in Outstanding : o \in Nat
  BY DEF Outstanding, IInv, TypeOK, ClientTypeOK, Entry, Seqno
<1> QED
  BY <1>1, <1>2 DEF AckSafe

LEMMA AckAdd ==
    ASSUME IInv, NoWrap, AckSafe, NEW t \in Thr, sam_add_message(t) PROVE AckSafe'
<1> DEFINE s == m_clnt_seqno + 1
<1>1. m_clnt_seqno' = s /\ s \in Nat /\ m_clnt_seqno \in Nat
  BY SMTT(30), RpcAssumption DEF sam_add_message, NextSeqno, NoWrap, IInv, TypeOK,
      ClientTypeOK, Seqno
<1>2. /\ UNCHANGED <<toServer, cl_min_seqno>>
      /\ \A u \in Thr \ {t} : hdr'[u] = hdr[u] /\ chain'[u] = chain[u]
  BY Zenon DEF sam_add_message, IInv, TypeOK, ClientTypeOK, netVars, serverVars
<1>3. chain'[t] = chain[t] \/ chain'[t].seqno = s
  BY <1>1 DEF sam_add_message, IInv, TypeOK, ClientTypeOK
<1>4. hdr'[t].ack <= s /\ \A o \in Outstanding : hdr'[t].ack <= o
  <2>0. \A o \in Outstanding : o \in Nat /\ o <= m_clnt_seqno
    BY SMTT(30) DEF Outstanding, IInv, HandedOut, TypeOK, ClientTypeOK, Entry, Seqno
  <2>1. CASE Waiting(Cls(t))
    <3>1. PICK e \in sam_get_earliest_outstanding_msg :
            hdr'[t].ack = IF e = 0 THEN s ELSE e
      BY <1>1, <2>1 DEF sam_add_message, IInv, TypeOK, ClientTypeOK
    <3>2. CASE Outstanding = {}
      BY SMTT(30), <1>1, <3>1, <3>2 DEF sam_get_earliest_outstanding_msg
    <3>3. CASE Outstanding # {}
      <4>1. e \in Outstanding /\ \A o \in Outstanding : e <= o /\ e # 0
        BY Zenon, <3>3, EarliestIsLeast DEF sam_get_earliest_outstanding_msg
      <4>2. e \in Nat /\ e <= m_clnt_seqno /\ hdr'[t].ack = e
        BY Zenon, <2>0, <3>1, <4>1
      <4>3. e <= s
        BY <1>1, <4>2
      <4> QED
        BY Zenon, <4>1, <4>2, <4>3
    <3> QED
      BY Zenon, <3>2, <3>3
  <2>2. CASE ~Waiting(Cls(t))
    <3>1. hdr'[t].ack = 0
      BY <2>2 DEF sam_add_message, IInv, TypeOK, ClientTypeOK
    <3> QED
      BY SMTT(30), <1>1, <2>0, <3>1
  <2> QED
    BY Zenon, <2>1, <2>2
<1>5. /\ cl_min_seqno <= s
      /\ \A m \in toServer : m.ack <= s
      /\ \A u \in Thr : hdr[u].ack <= s
  <2>1. \A x \in Seqno : x <= m_clnt_seqno => x <= s
    BY SMTT(30), <1>1 DEF Seqno
  <2> QED
    BY Zenon, <2>1, FieldTypes DEF IInv, HandedOut, TypeOK, ClientTypeOK, NetTypeOK,
        ServerTypeOK
<1>6. Outstanding' \subseteq Outstanding \cup {s}
  BY Zenon, <1>2, <1>3 DEF Outstanding
<1> HIDE DEF s
<1> QED
  BY Zenon, <1>2, <1>4, <1>5, <1>6 DEF AckSafe

LEMMA AckNext == IInv /\ NoWrap /\ AckSafe /\ [Next]_vars => AckSafe'
<1> SUFFICES ASSUME IInv, NoWrap, AckSafe, [Next]_vars PROVE AckSafe'
    BY Zenon
<1>0. hdr \in [Thr -> Header] /\ chain \in [Thr -> Entry]
  BY Zenon DEF IInv, TypeOK, ClientTypeOK
<1>1. CASE /\ UNCHANGED <<cl_min_seqno, hdr>> /\ toServer' \subseteq toServer
           /\ \A u \in Thr : chain'[u] = chain[u] \/ chain'[u].seqno = 0
                                 \/ chain'[u].done
  BY Zenon, <1>1, AckKept
<1>2. ASSUME NEW t \in Thr, StartCall(t) \/ AfterDelay(t) PROVE AckSafe'
  BY Zenon, <1>1, <1>2 DEF StartCall, AfterDelay, netVars, serverVars
<1>3. ASSUME NEW t \in Thr, sam_write_to_server(t) PROVE AckSafe'
  <2>1. \A u \in Thr : chain'[u] = chain[u] \/ chain'[u].seqno = 0
    BY SMTT(30), <1>0, <1>3 DEF sam_write_to_server, RemoveMessage, NoEntry
  <2>2. \A u \in Thr : hdr'[u] = hdr[u] \/ hdr'[u].ack = 0
    BY Zenon, <1>0, <1>3 DEF sam_write_to_server, NoHeader
  <2>3. \A m \in toServer' : m \in toServer \/ m.ack = hdr[t].ack
    BY SMTT(30), <1>3 DEF sam_write_to_server
  <2>4. cl_min_seqno' = cl_min_seqno
    BY <1>3, Zenon DEF sam_write_to_server, serverVars
  <2> QED
    BY Zenon, <2>1, <2>2, <2>3, <2>4, AckKept
<1>4. ASSUME NEW t \in Thr, ReplyReceived(t) \/ WaitTimeout(t) \/ Interrupted(t)
      PROVE  AckSafe'
  <2>1. \A u \in Thr : chain'[u] = chain[u] \/ chain'[u].seqno = 0
    BY <1>0, <1>4 DEF ReplyReceived, WaitTimeout, Interrupted, RemoveMessage,
        NoEntry
  <2> QED
    BY ZenonT(30), <1>1, <1>4, <2>1 DEF ReplyReceived, WaitTimeout, Interrupted,
       netVars,
        serverVars
<1>5. ASSUME NEW t \in Thr, AfterTimeout(t) PROVE AckSafe'
  <2>1. \A u \in Thr : chain'[u] = chain[u] \/ chain'[u].seqno = 0
    BY <1>0, <1>5 DEF AfterTimeout, RemoveMessage, NoEntry
  <2>2. \A u \in Thr : hdr'[u] = hdr[u] \/ \A o \in Outstanding : hdr'[u].ack <= o
    <3>1. CASE hdr' = hdr
      BY Zenon, <3>1
    <3>2. CASE hdr' # hdr
      <4>1. \E e \in sam_get_earliest_outstanding_msg :
              hdr' = [hdr EXCEPT ![t] = [seqno |-> chain[t].seqno, ack |-> e]]
        BY Zenon, <1>5, <3>2 DEF AfterTimeout
      <4>2. PICK e \in sam_get_earliest_outstanding_msg :
              hdr' = [hdr EXCEPT ![t] = [seqno |-> chain[t].seqno, ack |-> e]]
        BY <4>1, Zenon
      <4> QED
        BY Zenon, <1>0, <4>2, EarliestIsLeast
    <3> QED
      BY Zenon, <3>1, <3>2
  <2>3. UNCHANGED <<toServer, cl_min_seqno>>
    BY Zenon, <1>5 DEF AfterTimeout, netVars, serverVars
  <2> QED
    BY Zenon, <2>1, <2>2, <2>3, AckKept
<1>6. ASSUME NEW r \in toClient, sam_complete_msg(r) PROVE AckSafe'
  <2>1. \A u \in Thr : chain'[u] = chain[u] \/ chain'[u].done
    BY ZenonT(30), <1>0, <1>6 DEF sam_complete_msg, Entry
  <2> QED
    BY ZenonT(30), <1>1, <1>6, <2>1 DEF sam_complete_msg, serverVars
<1>7. ASSUME NEW m \in toServer, Receive(m) PROVE AckSafe'
  <2>1. cl_min_seqno' \in {cl_min_seqno, m.ack}
    BY Zenon, <1>7 DEF Receive, ReplyOutOfSync, ReplyNotMounted, LookupMessage, MinSeqno
  <2>2. hdr' = hdr /\ chain' = chain /\ toServer' \subseteq toServer
    BY Zenon, <1>7 DEF Receive, clientVars
  <2> QED
    BY Zenon, <2>1, <2>2, AckKept
<1>8. ASSUME NEW w \in work, sam_process_message(w) \/ ReplyDone(w) PROVE AckSafe'
  BY ZenonT(30), <1>1, <1>8 DEF sam_process_message, ReplyDone, clientVars, netVars
<1>9. CASE Reconnect \/ ServerMount \/ UNCHANGED vars
  BY Zenon, <1>1, <1>9 DEF Reconnect, ServerMount, vars, clientVars, netVars, serverVars
<1>10. CASE FaultStep
  <2>1. /\ cl_min_seqno' \in {cl_min_seqno, 0} /\ toServer' \subseteq toServer
        /\ hdr' = hdr /\ chain' = chain
    BY Zenon, <1>10 DEF FaultStep, Lose, Disconnect, ServerRestart, ServerUmount,
        ParentRemoved, Fault, clientVars, netVars, serverVars
  <2> QED
    BY Zenon, <2>1, AckKept
<1> QED
  BY Zenon, <1>2, <1>3, <1>4, <1>5, <1>6, <1>7, <1>8, <1>9, <1>10, AckAdd
     DEF Next, ClientStep

\* The ack protocol never makes the server discard the retransmissions of a
\* message that a client thread still waits on.
THEOREM AckSafety == Spec /\ []NoWrap => []AckNotPastOutstanding
<1>1. Init => AckSafe
  BY DEF Init, AckSafe, Outstanding, NoEntry
<1>2. IInv /\ NoWrap /\ AckSafe => AckNotPastOutstanding
  <2> SUFFICES ASSUME IInv, NoWrap, AckSafe, NEW o \in Outstanding
               PROVE  ~SequenceLater(cl_min_seqno, o)
    BY Zenon DEF AckNotPastOutstanding
  <2>1. /\ o <= m_clnt_seqno /\ cl_min_seqno <= o
        /\ o \in Nat /\ cl_min_seqno \in Nat /\ m_clnt_seqno \in Nat
    BY DEF AckSafe, Outstanding, IInv, HandedOut, TypeOK, ClientTypeOK,
        ServerTypeOK, Entry, Seqno
  <2>2. 2 * o < SeqMod /\ 2 * cl_min_seqno < SeqMod
    BY SMTT(30), <2>1, RpcAssumption DEF NoWrap
  <2> QED
    BY <2>1, <2>2, SequenceLaterIsGreater
<1> QED
  BY <1>1, <1>2, IInvInit, IInvNext, AckNext, PTL DEF Spec

(***************************************************************************)
(* A call returns only results of its own executions                       *)
(***************************************************************************)

\* The results that the message of thread t may be answered with.
Results(t) == IF nested[t] THEN {"ok"} ELSE outcome[call[t]]

\* What the network and the server hold of sequence number s is of call c, and
\* none of it carries a result outside of good.
Genuine(s, c, good) ==
    /\ \A m \in toServer : m.seqno = s => m.call = c
    /\ \A w \in work : w.msg.seqno = s =>
         /\ w.msg.call = c
         /\ w.err \in Outcome => w.err \in good
    /\ s \in DOMAIN queue /\ queue[s].err \in Outcome => queue[s].err \in good
    /\ \A r \in toClient : r.seqno = s /\ r.err \in Outcome => r.err \in good

\* The entry of thread t on the chain, and everything sent for it.
EntryGenuine(t) ==
    /\ chain[t].err \in Outcome => chain[t].err \in Results(t)
    /\ Genuine(chain[t].seqno, call[t], Results(t))

ResultInv ==
    /\ \A r \in toClient : r.seqno <= m_clnt_seqno
    /\ \A t \in Thr : nested[t] => pc[t] \in {"add", "write", "wait"}
    /\ \A t \in Thr : cls[t] = "keep" => call[t] \in CallId
    /\ \A t \in Thr : pc[t] = "write" /\ Waiting(Cls(t)) =>
                          hdr[t].seqno = chain[t].seqno
    /\ \A t \in Thr : cls[t] = "keep" /\ chain[t].seqno # 0 => EntryGenuine(t)
    /\ ResultWasExecuted

LEMMA ResultInit == Init => ResultInv
BY Zenon DEF Init, ResultInv, ResultWasExecuted, NoEntry, Outcome

LEMMA SeqnoReflexive == \A s \in Seqno : s <= s
BY DEF Seqno

LEMMA EntryKept ==
    ASSUME NEW t \in Thr, UNCHANGED <<toServer, toClient, work, queue, outcome>>,
           chain'[t] = chain[t], call'[t] = call[t], nested'[t] = nested[t], EntryGenuine(t)
    PROVE  EntryGenuine(t)'
BY Zenon DEF EntryGenuine, Genuine, Results

\* A step of thread t that the network and the server do not notice.
LEMMA ResultThread ==
    ASSUME IInv, ResultInv, NEW t \in Thr, OnlyThread(t),
           UNCHANGED <<toServer, toClient, work, queue, outcome>>,
           m_clnt_seqno <= m_clnt_seqno',
           m_clnt_seqno' \in Seqno,
           \A u \in Thr \ {t} : call'[u] = call[u] /\ ret'[u] = ret[u],
           nested'[t] => pc'[t] \in {"add", "write", "wait"},
           cls'[t] = "keep" => call'[t] \in CallId,
           pc'[t] = "write" /\ Waiting(Cls(t)') => hdr'[t].seqno = chain'[t].seqno,
           cls'[t] = "keep" /\ chain'[t].seqno # 0 => EntryGenuine(t)',
           pc'[t] = "idle" /\ cls'[t] = "keep" /\ ret'[t] \in Outcome =>
               ret'[t] \in outcome[call'[t]]
    PROVE  ResultInv'
<1>1. \A r \in toClient' : r.seqno <= m_clnt_seqno'
  BY FieldTypes DEF IInv, TypeOK, NetTypeOK, ClientTypeOK, ResultInv, Seqno
<1>2. \A u \in Thr \ {t} : cls'[u] = "keep" /\ chain'[u].seqno # 0 =>
                             EntryGenuine(u)'
  <2> SUFFICES ASSUME NEW u \in Thr \ {t}, cls'[u] = "keep", chain'[u].seqno # 0
               PROVE  EntryGenuine(u)'
    BY Zenon
  <2>1. /\ EntryGenuine(u)
        /\ chain'[u] = chain[u] /\ call'[u] = call[u] /\ nested'[u] = nested[u]
    BY Zenon DEF ResultInv, OnlyThread
  <2> QED
    BY Zenon, <2>1, EntryKept
<1>3. \A u \in Thr \ {t} :
        /\ nested'[u] => pc'[u] \in {"add", "write", "wait"}
        /\ cls'[u] = "keep" => call'[u] \in CallId
        /\ pc'[u] = "write" /\ Waiting(Cls(u)') => hdr'[u].seqno = chain'[u].seqno
        /\ pc'[u] = "idle" /\ cls'[u] = "keep" /\ ret'[u] \in Outcome =>
               ret'[u] \in outcome[call'[u]]
  <2> SUFFICES ASSUME NEW u \in Thr \ {t}
               PROVE  /\ nested'[u] => pc'[u] \in {"add", "write", "wait"}
                      /\ cls'[u] = "keep" => call'[u] \in CallId
                      /\ pc'[u] = "write" /\ Waiting(Cls(u)') => hdr'[u].seqno = chain'[u].seqno
                      /\ pc'[u] = "idle" /\ cls'[u] = "keep" /\ ret'[u] \in Outcome =>
                             ret'[u] \in outcome[call'[u]]
    BY Zenon
  <2>1. /\ pc'[u] = pc[u] /\ cls'[u] = cls[u] /\ nested'[u] = nested[u] /\ hdr'[u] = hdr[u]
        /\ chain'[u] = chain[u] /\ call'[u] = call[u] /\ ret'[u] = ret[u]
    BY Zenon DEF OnlyThread
  <2>2. Cls(u)' = Cls(u)
    BY Zenon, <2>1 DEF Cls
  <2> QED BY Zenon, <2>1, <2>2 DEF ResultInv, ResultWasExecuted, Waiting
<1>4. outcome' = outcome
  BY Zenon
<1> QED
  BY ZenonT(30), <1>1, <1>2, <1>3, <1>4 DEF ResultInv, ResultWasExecuted

\* A step that only completes, moves or answers messages.
LEMMA ResultServer ==
    ASSUME IInv, ResultInv, UNCHANGED <<m_clnt_seqno, pc, cls, nested, hdr, call, ret>>,
           \A t \in Thr : chain'[t].seqno = chain[t].seqno,
           \A c \in CallId : outcome[c] \subseteq outcome'[c],
           \A r \in toClient' : r.seqno <= m_clnt_seqno,
           \A t \in Thr : cls[t] = "keep" /\ chain[t].seqno # 0 => EntryGenuine(t)'
    PROVE  ResultInv'
<1>1. ResultWasExecuted'
  BY Zenon DEF ResultInv, ResultWasExecuted
<1> QED
  BY Zenon, <1>1 DEF ResultInv, Cls

\* Thread t leaves the chain, or stays where it is on it, and sends nothing.
LEMMA ResultLeave ==
    ASSUME IInv, ResultInv, NEW t \in Thr, OnlyThread(t),
           UNCHANGED <<toServer, toClient, work, queue, outcome, m_clnt_seqno, cls,
                       call>>,
           \A u \in Thr \ {t} : ret'[u] = ret[u],
           nested'[t] => pc'[t] = "add",
           pc'[t] = "write" => hdr'[t].seqno = chain[t].seqno,
           chain'[t].seqno = 0 \/ (chain'[t] = chain[t] /\ nested'[t] = nested[t]),
           pc'[t] = "write" => chain'[t] = chain[t],
           pc'[t] = "idle" /\ cls[t] = "keep" /\ ret'[t] \in Outcome =>
               ret'[t] \in outcome[call[t]]
    PROVE  ResultInv'
<1>1. cls'[t] = "keep" /\ chain'[t].seqno # 0 => EntryGenuine(t)'
  <2> SUFFICES ASSUME cls'[t] = "keep", chain'[t].seqno # 0 PROVE EntryGenuine(t)'
    BY Zenon
  <2>1. /\ EntryGenuine(t)
        /\ chain'[t] = chain[t] /\ call'[t] = call[t] /\ nested'[t] = nested[t]
    BY Zenon DEF ResultInv
  <2> QED
    BY Zenon, <2>1, EntryKept
<1>2. m_clnt_seqno \in Seqno /\ m_clnt_seqno <= m_clnt_seqno
  <2>1. m_clnt_seqno \in Seqno
    BY Zenon DEF IInv, TypeOK, ClientTypeOK
  <2> QED BY Zenon, <2>1, SeqnoReflexive
<1>3. cls'[t] = "keep" => call'[t] \in CallId
  BY Zenon DEF ResultInv
<1> QED
  BY Zenon, <1>1, <1>2, <1>3, ResultThread

\* Thread t takes a sequence number that nothing carries yet.
LEMMA ResultAdd ==
    ASSUME IInv, NoWrap, ResultInv, NEW t \in Thr, sam_add_message(t)
    PROVE  ResultInv'
<1> DEFINE s == m_clnt_seqno + 1
<1>1. m_clnt_seqno' = s /\ s \in Seqno /\ m_clnt_seqno \in Nat
  BY SMTT(30), RpcAssumption DEF sam_add_message, NextSeqno, NoWrap, IInv, TypeOK,
      ClientTypeOK, Seqno
<1>2. /\ OnlyThread(t)
      /\ UNCHANGED <<cls, nested, call, ret, toServer, toClient, work, queue, outcome>>
      /\ pc'[t] = "write" /\ pc[t] = "add"
  BY Zenon DEF sam_add_message, OnlyThread, Goto, IInv, TypeOK, ClientTypeOK, netVars,
      serverVars
<1>3. /\ ~Waiting(Cls(t)) => chain'[t] = chain[t]
      /\ Waiting(Cls(t)) => hdr'[t].seqno = s
      /\ Waiting(Cls(t)) => chain'[t] = [seqno |-> s, done |-> FALSE, err |-> "none"]
  <2>1. /\ hdr \in [Thr -> Header] /\ chain \in [Thr -> Entry]
        /\ NextSeqno(m_clnt_seqno) = s
    BY Zenon, <1>1 DEF sam_add_message, IInv, TypeOK, ClientTypeOK
  <2>2. CASE Waiting(Cls(t))
    <3>1. PICK a : hdr' = [hdr EXCEPT ![t] = [seqno |-> s, ack |-> a]]
      BY Zenon, <2>1, <2>2 DEF sam_add_message
    <3>2. chain' = [chain EXCEPT ![t] = [seqno |-> s, done |-> FALSE, err |-> "none"]]
      BY Zenon, <2>1, <2>2 DEF sam_add_message
    <3> QED
      BY Zenon, <2>1, <2>2, <3>1, <3>2
  <2>3. CASE ~Waiting(Cls(t))
    BY Zenon, <2>1, <2>3 DEF sam_add_message
  <2> QED
    BY Zenon, <2>2, <2>3
<1>4. /\ \A m \in toServer : m.seqno # s
      /\ \A w \in work : w.msg.seqno # s
      /\ s \notin DOMAIN queue
      /\ \A r \in toClient : r.seqno # s
  <2>1. \A x \in Seqno : x <= m_clnt_seqno => x # s
    BY <1>1 DEF Seqno
  <2> QED
    BY Zenon, <1>1, <2>1, FieldTypes DEF IInv, HandedOut, WorkQueued, ResultInv, TypeOK,
        NetTypeOK, ServerTypeOK
<1>5. m_clnt_seqno <= s
  BY <1>1
<1>6. pc'[t] = "write" /\ Waiting(Cls(t)') => hdr'[t].seqno = chain'[t].seqno
  <2>1. Cls(t)' = Cls(t)
    BY Zenon, <1>2 DEF Cls
  <2>2. [seqno |-> s, done |-> FALSE, err |-> "none"].seqno = s
    OBVIOUS
  <2> QED BY Zenon, <1>3, <2>1, <2>2 DEF Waiting
<1> HIDE DEF s
<1>7. cls'[t] = "keep" /\ chain'[t].seqno # 0 => EntryGenuine(t)'
  <2> SUFFICES ASSUME cls'[t] = "keep", chain'[t].seqno # 0 PROVE EntryGenuine(t)'
    BY Zenon
  <2>1. Waiting(Cls(t))
    BY Zenon, <1>2 DEF Waiting, Cls
  <2>2. chain'[t].seqno = s /\ chain'[t].err = "none"
    <3> DEFINE e == [seqno |-> s, done |-> FALSE, err |-> "none"]
    <3>1. e.seqno = s /\ e.err = "none"
      BY Zenon
    <3> HIDE DEF e
    <3> QED BY Zenon, <1>3, <2>1, <3>1 DEF e
  <2> QED
    BY Zenon, <1>2, <1>4, <2>2 DEF EntryGenuine, Genuine, Outcome
<1>8. cls'[t] = "keep" => call'[t] \in CallId
  BY Zenon, <1>2 DEF ResultInv
<1> QED
  BY Zenon, <1>1, <1>2, <1>5, <1>6, <1>7, <1>8, ResultThread

\* Thread t writes its message: the copy in transit is of its call.
LEMMA ResultWrite ==
    ASSUME IInv, ResultInv, NEW t \in Thr, sam_write_to_server(t) PROVE ResultInv'
<1> DEFINE m == [seqno |-> hdr[t].seqno, ack |-> hdr[t].ack, cls |-> Cls(t),
                 call |-> call[t]]
<1>0. OnlyThread(t) /\ pc[t] = "write"
  BY Zenon DEF sam_write_to_server, OnlyThread, IInv, TypeOK, ClientTypeOK,
     Goto, Return, RemoveMessage
<1>1. /\ \A u \in Thr \ {t} : ret'[u] = ret[u]
      /\ UNCHANGED <<toClient, work, queue, outcome, m_clnt_seqno, cls, call>>
  BY Zenon DEF sam_write_to_server, serverVars, Goto, Return, IInv, TypeOK, CallTypeOK
<1>2. CASE ~conn
  <2>1. chain'[t].seqno = 0 /\ toServer' = toServer
    <3>1. chain'[t] = NoEntry /\ toServer' = toServer
      BY Zenon, <1>2 DEF sam_write_to_server, RemoveMessage, IInv, TypeOK, ClientTypeOK
    <3> QED
      BY Zenon, <3>1, NoEntryEmpty
  <2>2. \/ pc'[t] = "idle" /\ ~nested'[t] /\ ret'[t] = "ENOTCONN"
        \/ pc'[t] = "notconn" /\ ~nested'[t]
    BY Zenon, <1>2 DEF sam_write_to_server, Goto, Return, IInv, TypeOK, ClientTypeOK,
        CallTypeOK
  <2> QED
    BY Zenon, <1>0, <1>1, <2>1, <2>2, ResultLeave DEF Outcome
<1>3. CASE conn
  <2>1. /\ toServer' = toServer \cup {m} /\ chain' = chain
        /\ m.seqno = hdr[t].seqno /\ m.call = call[t]
    BY Zenon, <1>3 DEF sam_write_to_server
  <2>2. \/ Waiting(Cls(t)) /\ pc'[t] = "wait" /\ nested'[t] = nested[t]
        \/ ~Waiting(Cls(t)) /\ pc'[t] = "idle" /\ ~nested'[t]
    BY Zenon, <1>3 DEF sam_write_to_server, Goto, Return, IInv, TypeOK, ClientTypeOK
  <2>3. \A u \in Thr : chain[u].seqno # 0 /\ m.seqno = chain[u].seqno => u = t
    BY Zenon, <1>0, <2>1 DEF IInv, Distinct, Apart
  <2> HIDE DEF m
  <2>4. ASSUME NEW u \in Thr, cls'[u] = "keep", chain'[u].seqno # 0
        PROVE  EntryGenuine(u)'
    <3>1. nested'[u] = nested[u]
      BY Zenon, <1>0, <1>1, <2>1, <2>2, <2>4 DEF OnlyThread, IInv, ChainHeld, OnChain
    <3>2. EntryGenuine(u) /\ Results(u)' = Results(u)
      BY Zenon, <1>1, <2>1, <2>4, <3>1 DEF ResultInv, Results
    <3>3. \A x \in toServer' : x.seqno = chain[u].seqno => x.call = call[u]
      <4>1. \A x \in toServer' : x \in toServer \/ x = m
        BY <2>1
      <4> QED
        BY Zenon, <2>1, <2>3, <2>4, <3>2, <4>1 DEF EntryGenuine, Genuine
    <3> QED
      BY Zenon, <1>1, <2>1, <3>2, <3>3 DEF EntryGenuine, Genuine
  <2>5. \A u \in Thr : nested'[u] => pc'[u] \in {"add", "write", "wait"}
    BY Zenon, <1>0, <2>2 DEF ResultInv, OnlyThread
  <2>6. \A u \in Thr : pc'[u] = "write" /\ Waiting(Cls(u)') =>
                         hdr'[u].seqno = chain'[u].seqno
    BY Zenon, <1>0, <2>1, <2>2 DEF ResultInv, OnlyThread, Cls
  <2>7. ResultWasExecuted'
    <3>1. pc'[t] = "idle" => cls[t] # "keep"
      BY Zenon, <2>2 DEF Waiting, Cls
    <3> QED
      BY Zenon, <1>0, <1>1, <3>1 DEF ResultInv, ResultWasExecuted, OnlyThread
  <2> QED
    BY Zenon, <1>1, <2>4, <2>5, <2>6, <2>7 DEF ResultInv
<1> QED
  BY Zenon, <1>2, <1>3

\* The other steps of a thread: what it returns came in a reply to its call.
LEMMA ResultClient ==
    ASSUME IInv, NoWrap, ResultInv, NEW t \in Thr,
           StartCall(t) \/ ClientStep(t) \/ Interrupted(t)
    PROVE  ResultInv'
<1>0. /\ pc \in [Thr -> PC] /\ cls \in [Thr -> AllClasses]
      /\ nested \in [Thr -> BOOLEAN] /\ hdr \in [Thr -> Header]
      /\ chain \in [Thr -> Entry] /\ ret \in [Thr -> Error]
      /\ call \in [Thr -> 0..MaxCalls]
  BY Zenon DEF IInv, TypeOK, ClientTypeOK, CallTypeOK
<1>1. CASE StartCall(t)
  <2>1. /\ OnlyThread(t) /\ pc'[t] = "add" /\ chain' = chain /\ hdr' = hdr
        /\ \A u \in Thr \ {t} : call'[u] = call[u] /\ ret'[u] = ret[u]
        /\ call'[t] = calls + 1
        /\ UNCHANGED <<toServer, toClient, work, queue, outcome, m_clnt_seqno, nested>>
    BY Zenon, <1>0, <1>1 DEF StartCall, OnlyThread, netVars, serverVars
  <2>2. chain[t].seqno = 0
    BY Zenon, <1>1 DEF StartCall, IInv, ChainHeld, OnChain
  <2>3. calls + 1 \in CallId /\ m_clnt_seqno <= m_clnt_seqno /\ m_clnt_seqno \in Seqno
    BY <1>1, RpcAssumption DEF StartCall, IInv, TypeOK, CallTypeOK, ClientTypeOK, CallId,
        Seqno
  <2> QED
    BY Zenon, <2>1, <2>2, <2>3, ResultThread
<1>2. CASE ReplyReceived(t)
  <2>1. OnlyThread(t) /\ chain'[t].seqno = 0 /\ pc[t] = "wait" /\ hdr' = hdr
    BY Zenon, <1>0, <1>2 DEF ReplyReceived, OnlyThread, Goto, Return,
       RemoveMessage, NoEntry
  <2>2. /\ \A u \in Thr \ {t} : ret'[u] = ret[u]
        /\ UNCHANGED <<toServer, toClient, work, queue, outcome, m_clnt_seqno, cls, call>>
    BY Zenon, <1>0, <1>2 DEF ReplyReceived, Goto, Return, netVars, serverVars
  <2>3. \/ pc'[t] \in {"add", "exdev"} /\ (nested'[t] => pc'[t] = "add")
        \/ /\ pc'[t] = "idle" /\ ~nested'[t] /\ ret'[t] = chain[t].err
           /\ nested[t] => chain[t].err # "ok"
    BY ZenonT(30), <1>0, <1>2 DEF ReplyReceived, Goto, Return
  <2>4. ASSUME pc'[t] = "idle", cls[t] = "keep", ret'[t] \in Outcome
        PROVE  ret'[t] \in outcome[call[t]]
    <3>1. chain[t].seqno # 0
      BY Zenon, <2>1 DEF IInv, ChainHeld, OnChain
    <3>2. EntryGenuine(t)
      BY Zenon, <2>4, <3>1 DEF ResultInv
    <3> QED
      BY Zenon, <2>3, <2>4, <3>2 DEF EntryGenuine, Results
  <2> QED
    BY Zenon, <2>1, <2>2, <2>3, <2>4, ResultLeave
<1>3. CASE WaitTimeout(t)
  <2>1. OnlyThread(t) /\ pc[t] = "wait" /\ hdr' = hdr
    BY Zenon, <1>0, <1>3 DEF WaitTimeout, OnlyThread, Goto, Return,
       RemoveMessage
  <2>2. /\ \A u \in Thr \ {t} : ret'[u] = ret[u]
        /\ UNCHANGED <<toServer, toClient, work, queue, outcome, m_clnt_seqno, cls, call>>
    BY Zenon, <1>0, <1>3 DEF WaitTimeout, Goto, Return, netVars, serverVars
  <2>3. \/ /\ chain'[t].seqno = 0 /\ ~nested'[t]
           /\ pc'[t] = "add" \/ (pc'[t] = "idle" /\ ret'[t] = "ETIME")
        \/ ~nested[t] /\ pc'[t] = "etime" /\ chain' = chain /\ nested' = nested
    <3>1. CASE nested[t]
      <4>1. chain'[t] = NoEntry
        BY Zenon, <1>0, <1>3, <3>1 DEF WaitTimeout, RemoveMessage
      <4>2. ~nested'[t] /\ \/ pc'[t] = "add"
                           \/ pc'[t] = "idle" /\ ret'[t] = "ETIME"
        BY Zenon, <1>0, <1>3, <3>1 DEF WaitTimeout, Goto, Return
      <4> QED
        BY Zenon, <4>1, <4>2, NoEntryEmpty
    <3>2. CASE ~nested[t]
      BY Zenon, <1>0, <1>3, <3>2 DEF WaitTimeout, Goto
    <3> QED
      BY Zenon, <3>1, <3>2
  <2> QED
    BY Zenon, <2>1, <2>2, <2>3, ResultLeave DEF Outcome
<1>4. CASE AfterTimeout(t)
  <2>1. OnlyThread(t) /\ pc[t] = "etime"
    BY Zenon, <1>0, <1>4 DEF AfterTimeout, OnlyThread, Goto, Return,
       RemoveMessage
  <2>2. /\ \A u \in Thr \ {t} : ret'[u] = ret[u]
        /\ UNCHANGED <<toServer, toClient, work, queue, outcome, m_clnt_seqno, cls, call>>
    BY Zenon, <1>0, <1>4 DEF AfterTimeout, Goto, Return, netVars, serverVars
  <2>3. ~nested[t]
    BY Zenon, <2>1 DEF ResultInv
  <2>4. \/ /\ chain'[t].seqno = 0 /\ ~nested'[t] /\ pc'[t] = "idle"
           /\ ret'[t] \in {"ETIME", chain[t].err}
        \/ /\ pc'[t] = "write" /\ chain' = chain /\ nested' = nested
           /\ hdr'[t].seqno = chain[t].seqno
    <3>1. CASE pc' = [pc EXCEPT ![t] = "write"]
      <4>1. PICK a : hdr' = [hdr EXCEPT ![t] = [seqno |-> chain[t].seqno, ack |-> a]]
        BY Zenon, <1>0, <1>4, <3>1 DEF AfterTimeout, Return
      <4>2. chain' = chain /\ nested' = nested
        BY Zenon, <1>0, <1>4, <3>1 DEF AfterTimeout, Return
      <4> QED
        BY Zenon, <1>0, <3>1, <4>1, <4>2
    <3>2. CASE pc' # [pc EXCEPT ![t] = "write"]
      <4>1. chain'[t] = NoEntry
        BY Zenon, <1>0, <1>4, <3>2 DEF AfterTimeout, Goto, RemoveMessage
      <4>2. ~nested'[t] /\ pc'[t] = "idle" /\ ret'[t] \in {"ETIME", chain[t].err}
        BY Zenon, <1>0, <1>4, <3>2 DEF AfterTimeout, Goto, Return
      <4> QED
        BY Zenon, <4>1, <4>2, NoEntryEmpty
    <3> QED
      BY Zenon, <3>1, <3>2
  <2>5. ASSUME pc'[t] = "idle", cls[t] = "keep", ret'[t] \in Outcome
        PROVE  ret'[t] \in outcome[call[t]]
    <3>1. chain[t].seqno # 0
      BY Zenon, <2>1 DEF IInv, ChainHeld, OnChain
    <3>2. EntryGenuine(t)
      BY Zenon, <2>5, <3>1 DEF ResultInv
    <3> QED
      BY Zenon, <2>3, <2>4, <2>5, <3>2 DEF EntryGenuine, Results, Outcome
  <2> QED
    BY Zenon, <2>1, <2>2, <2>3, <2>4, <2>5, ResultLeave
<1>5. CASE AfterDelay(t)
  <2>1. /\ OnlyThread(t) /\ chain' = chain /\ hdr' = hdr
        /\ \A u \in Thr \ {t} : ret'[u] = ret[u]
        /\ UNCHANGED <<toServer, toClient, work, queue, outcome, m_clnt_seqno, cls, call>>
    BY Zenon, <1>0, <1>5 DEF AfterDelay, OnlyThread, Goto, Return, netVars, serverVars
  <2>2. \/ pc'[t] = "add" /\ nested'[t] = nested[t]
        \/ pc'[t] = "idle" /\ ~nested'[t] /\ ret'[t] = "ETIME"
    BY ZenonT(30), <1>0, <1>5 DEF AfterDelay, Goto, Return
  <2>3. chain[t].seqno = 0
    BY Zenon, <1>5 DEF AfterDelay, IInv, ChainHeld, OnChain
  <2> QED
    BY Zenon, <2>1, <2>2, <2>3, ResultLeave DEF Outcome
<1>6. CASE Interrupted(t)
  <2>1. /\ OnlyThread(t) /\ chain'[t].seqno = 0 /\ hdr' = hdr
        /\ \A u \in Thr \ {t} : ret'[u] = ret[u]
        /\ UNCHANGED <<toServer, toClient, work, queue, outcome, m_clnt_seqno, cls, call>>
    BY Zenon, <1>0, <1>6 DEF Interrupted, OnlyThread, RemoveMessage, NoEntry, Return,
        netVars, serverVars
  <2>2. pc'[t] = "idle" /\ ~nested'[t] /\ ret'[t] = "EINTR"
    BY Zenon, <1>0, <1>6 DEF Interrupted, Return
  <2> QED
    BY Zenon, <2>1, <2>2, ResultLeave DEF Outcome
<1> QED
  BY Zenon, <1>1, <1>2, <1>3, <1>4, <1>5, <1>6, ResultAdd, ResultWrite DEF ClientStep

\* Error e is no result, or something that carries s carries it already.
Known(s, e) ==
    \/ e \notin Outcome
    \/ \E w \in work : w.msg.seqno = s /\ w.err = e
    \/ s \in DOMAIN queue /\ queue[s].err = e
    \/ \E r \in toClient : r.seqno = s /\ r.err = e

\* A step that executes nothing passes on what was there before.
LEMMA ResultPassedOn ==
    ASSUME IInv, ResultInv,
           UNCHANGED <<m_clnt_seqno, pc, cls, nested, hdr, chain, call, ret, outcome>>,
           toServer' \subseteq toServer,
           \A w \in work' : /\ w.msg \in toServer \/ \E v \in work : v.msg = w.msg
                            /\ Known(w.msg.seqno, w.err),
           \A s \in DOMAIN queue' : Known(s, queue'[s].err),
           \A r \in toClient' : r.seqno <= m_clnt_seqno /\ Known(r.seqno, r.err)
    PROVE  ResultInv'
<1>1. ASSUME NEW t \in Thr, cls[t] = "keep", chain[t].seqno # 0 PROVE EntryGenuine(t)'
  <2>1. EntryGenuine(t) /\ Results(t)' = Results(t)
    BY Zenon, <1>1 DEF ResultInv, Results
  <2>2. \A e : Known(chain[t].seqno, e) /\ e \in Outcome => e \in Results(t)
    BY Zenon, <2>1 DEF Known, EntryGenuine, Genuine
  <2>3. \A w \in work' : w.msg.seqno = chain[t].seqno => w.msg.call = call[t]
    BY Zenon, <2>1 DEF EntryGenuine, Genuine
  <2>4. \A m \in toServer' : m.seqno = chain[t].seqno => m.call = call[t]
    BY Zenon, <2>1 DEF EntryGenuine, Genuine
  <2> QED
    BY Zenon, <2>1, <2>2, <2>3, <2>4 DEF EntryGenuine, Genuine
<1> QED
  BY Zenon, <1>1, ResultServer

LEMMA ResultComplete ==
    ASSUME IInv, ResultInv, NEW r \in toClient, sam_complete_msg(r) PROVE ResultInv'
<1>1. /\ UNCHANGED <<m_clnt_seqno, pc, cls, nested, hdr, call, ret, outcome, toServer,
                     work, queue>>
      /\ toClient' = toClient \ {r}
  BY Zenon DEF sam_complete_msg, serverVars, ghostVars
<1>2. \A u \in Thr : /\ chain'[u].seqno = chain[u].seqno
                     /\ \/ chain'[u].err = chain[u].err
                        \/ chain[u].seqno = r.seqno /\ chain'[u].err = r.err
  BY ZenonT(30) DEF sam_complete_msg, IInv, TypeOK, ClientTypeOK, Entry
<1>3. ASSUME NEW t \in Thr, cls[t] = "keep", chain[t].seqno # 0 PROVE EntryGenuine(t)'
  <2>1. EntryGenuine(t) /\ Results(t)' = Results(t)
    BY Zenon, <1>1, <1>3 DEF ResultInv, Results
  <2>2. chain'[t].err \in Outcome => chain'[t].err \in Results(t)
    BY Zenon, <1>2, <2>1 DEF EntryGenuine, Genuine
  <2> QED
    BY Zenon, <1>1, <1>2, <2>1, <2>2 DEF EntryGenuine, Genuine
<1>4. \A x \in toClient' : x.seqno <= m_clnt_seqno
  BY Zenon, <1>1 DEF ResultInv
<1> QED
  BY Zenon, <1>1, <1>2, <1>3, <1>4, ResultServer

\* A command of call c is executed: its result becomes one of c's outcomes.
LEMMA ResultProcess ==
    ASSUME IInv, ResultInv, NEW w \in work, sam_process_message(w) PROVE ResultInv'
<1>1. PICK e \in Outcome :
        /\ w.msg.cls = "mount" => e = "ok"
        /\ work' = (work \ {w}) \cup {[w EXCEPT !.phase = "done", !.err = e]}
        /\ outcome' = IF Kept(w.msg.cls)
                      THEN [outcome EXCEPT ![w.msg.call] = @ \cup {e}]
                      ELSE outcome
  <2>1. \A c \in Outcomes("mount") : c = "ok"
    BY Zenon DEF Outcomes, Outcome, Kept
  <2>2. Outcomes(w.msg.cls) \subseteq Outcome
    BY Zenon DEF Outcomes
  <2> QED
    BY ZenonT(30), <2>1, <2>2 DEF sam_process_message
<1> DEFINE v == [w EXCEPT !.phase = "done", !.err = e]
<1>2. v.msg = w.msg /\ v.err = e
  BY Zenon DEF IInv, TypeOK, ServerTypeOK, Worker
<1>3. UNCHANGED <<clientVars, toServer, toClient, queue, call, ret>>
  BY Zenon DEF sam_process_message, netVars
<1>4. work' = (work \ {w}) \cup {v}
  BY Zenon, <1>1
<1> HIDE DEF v
<1>5. /\ \A c \in CallId : outcome[c] \subseteq outcome'[c]
      /\ w.msg.call \in CallId
      /\ Kept(w.msg.cls) => e \in outcome'[w.msg.call]
  <2>1. w.msg.call \in CallId /\ outcome \in [CallId -> SUBSET Outcome]
    BY Zenon, FieldTypes DEF IInv, TypeOK, ServerTypeOK, HistoryTypeOK
  <2> QED
    BY Zenon, <1>1, <2>1
<1>6. ASSUME NEW t \in Thr, cls[t] = "keep", chain[t].seqno # 0 PROVE EntryGenuine(t)'
  <2>1. EntryGenuine(t) /\ Results(t) \subseteq Results(t)'
    BY Zenon, <1>3, <1>5, <1>6 DEF ResultInv, Results, clientVars
  <2>2. w.msg.seqno = chain[t].seqno => w.msg.call = call[t] /\ e \in Results(t)'
    <3> SUFFICES ASSUME w.msg.seqno = chain[t].seqno
                 PROVE  w.msg.call = call[t] /\ e \in Results(t)'
      BY Zenon
    <3>1. w.msg.call = call[t]
      BY Zenon, <2>1 DEF EntryGenuine, Genuine
    <3>2. w.msg.cls = Cls(t)
      BY Zenon, <1>6 DEF IInv, OneClass, ClassOf
    <3>3. CASE nested[t]
      BY Zenon, <1>1, <1>3, <3>1, <3>2, <3>3 DEF Cls, Kept, Results, clientVars
    <3>4. CASE ~nested[t]
      BY Zenon, <1>3, <1>5, <1>6, <3>1, <3>2, <3>4 DEF Cls, Kept, Results, clientVars
    <3> QED
      BY Zenon, <3>1, <3>3, <3>4
  <2>3. \A x \in work' : x.msg.seqno = chain[t].seqno =>
          /\ x.msg.call = call[t]
          /\ x.err \in Outcome => x.err \in Results(t)'
    BY Zenon, <1>2, <1>4, <2>1, <2>2 DEF EntryGenuine, Genuine
  <2> QED
    BY Zenon, <1>3, <2>1, <2>3 DEF EntryGenuine, Genuine, clientVars
<1> QED
  BY Zenon, <1>3, <1>5, <1>6, ResultServer DEF ResultInv, clientVars

LEMMA ResultReceive ==
    ASSUME IInv, ResultInv, NEW m \in toServer, Receive(m) PROVE ResultInv'
<1>1. /\ UNCHANGED <<m_clnt_seqno, pc, cls, nested, hdr, chain, call, ret, outcome>>
      /\ toServer' \subseteq toServer
  BY Zenon DEF Receive, clientVars
<1>2. m.seqno <= m_clnt_seqno
  BY Zenon DEF IInv, HandedOut
<1>3. /\ \A w \in work : Known(w.msg.seqno, w.err)
      /\ \A s \in DOMAIN queue : Known(s, queue[s].err)
      /\ \A r \in toClient : r.seqno <= m_clnt_seqno /\ Known(r.seqno, r.err)
      /\ \A s : Known(s, "none") /\ Known(s, "ENOENT") /\ Known(s, "EXDEV")
                /\ Known(s, "OUTSYNC")
  BY Zenon DEF Known, ResultInv, Outcome
<1>4. CASE ReplyOutOfSync(m) \/ ReplyNotMounted(m)
  <2>1. /\ UNCHANGED <<queue, work>>
        /\ \A r \in toClient' : \/ r \in toClient
                                \/ r.seqno = m.seqno /\ r.err \in {"OUTSYNC", "EXDEV"}
    BY <1>4 DEF ReplyOutOfSync, ReplyNotMounted, Reply
  <2> QED
    BY Zenon, <1>1, <1>2, <1>3, <2>1, ResultPassedOn
<1>5. CASE LookupMessage(m)
  <2> DEFINE q == [s \in DOMAIN queue \ Freed(m) |-> queue[s]]
  <2>1. /\ DOMAIN q \subseteq DOMAIN queue /\ \A s \in DOMAIN q : q[s] = queue[s]
        /\ \A s \in DOMAIN q : q[s] \in Saved
    BY Zenon DEF IInv, TypeOK, ServerTypeOK
  <2>2. /\ toClient' = toClient
        /\ \/ queue' = q /\ work' = work
           \/ /\ m.seqno \in DOMAIN q
              /\ queue' = [q EXCEPT ![m.seqno].active = "PROCESSING"]
              /\ \E e \in {"ENOENT", q[m.seqno].err} :
                   work' = work \cup {[msg |-> m, phase |-> "done", err |-> e]}
           \/ /\ queue' = [s \in DOMAIN q \cup {m.seqno} |->
                             IF s = m.seqno
                             THEN [active |-> "PROCESSING", err |-> "none"]
                             ELSE q[s]]
              /\ work' = work \cup {[msg |-> m, phase |-> "exec", err |-> "none"]}
    BY ZenonT(30), <1>5 DEF LookupMessage
  <2> HIDE DEF q
  <2>3. \A s \in DOMAIN queue' : \/ queue'[s].err = "none"
                                 \/ s \in DOMAIN q /\ queue'[s].err = q[s].err
    <3>1. CASE queue' = [q EXCEPT ![m.seqno].active = "PROCESSING"]
      BY Zenon, <2>1, <3>1 DEF Saved
    <3>2. CASE queue' = q
      BY Zenon, <3>2
    <3>3. CASE queue' = [s \in DOMAIN q \cup {m.seqno} |->
                           IF s = m.seqno
                           THEN [active |-> "PROCESSING", err |-> "none"]
                           ELSE q[s]]
      BY Zenon, <3>3
    <3> QED
      BY Zenon, <2>2, <3>1, <3>2, <3>3
  <2>4. \A w \in work' : \/ w \in work
                         \/ /\ w.msg = m
                            /\ \/ w.err \in {"none", "ENOENT"}
                               \/ m.seqno \in DOMAIN q /\ w.err = q[m.seqno].err
    BY <2>2
  <2>5. /\ \A w \in work' : w.msg \in toServer \/ \E v \in work : v.msg = w.msg
        /\ \A w \in work' : Known(w.msg.seqno, w.err)
    BY ZenonT(30), <1>3, <2>1, <2>4
  <2>6. \A s \in DOMAIN queue' : Known(s, queue'[s].err)
    BY Zenon, <1>3, <2>1, <2>3
  <2> QED
    BY Zenon, <1>1, <1>3, <2>2, <2>5, <2>6, ResultPassedOn
<1> QED
  BY Zenon, <1>4, <1>5 DEF Receive

LEMMA ResultReply ==
    ASSUME IInv, ResultInv, NEW w \in work, ReplyDone(w) PROVE ResultInv'
<1>1. /\ UNCHANGED <<m_clnt_seqno, pc, cls, nested, hdr, chain, call, ret, outcome>>
      /\ toServer' = toServer /\ work' = work \ {w}
  BY Zenon DEF ReplyDone, clientVars, ghostVars
<1>2. w.msg.seqno <= m_clnt_seqno /\ w.msg.seqno \in DOMAIN queue
  BY Zenon DEF IInv, WorkQueued, HandedOut
<1>3. \A x \in DOMAIN queue' : \/ x = w.msg.seqno /\ queue'[x].err = w.err
                               \/ x \in DOMAIN queue /\ queue'[x] = queue[x]
  BY Zenon, <1>2 DEF ReplyDone
<1>4. \A r \in toClient' : \/ r \in toClient
                           \/ r.seqno = w.msg.seqno /\ r.err = w.err
  BY DEF ReplyDone, Reply
<1>5. /\ \A v \in work : Known(v.msg.seqno, v.err)
      /\ \A s \in DOMAIN queue : Known(s, queue[s].err)
      /\ \A r \in toClient : r.seqno <= m_clnt_seqno /\ Known(r.seqno, r.err)
  BY Zenon DEF Known, ResultInv
<1> QED
  BY Zenon, <1>1, <1>2, <1>3, <1>4, <1>5, ResultPassedOn

\* Every step keeps the invariant, as long as the numbers have not wrapped.
LEMMA ResultNext == IInv /\ NoWrap /\ ResultInv /\ [Next]_vars => ResultInv'
<1> SUFFICES ASSUME IInv, NoWrap, ResultInv, [Next]_vars PROVE ResultInv'
    BY Zenon
<1>1. CASE /\ UNCHANGED <<m_clnt_seqno, pc, cls, nested, hdr, chain, call, ret, outcome>>
           /\ toServer' \subseteq toServer /\ toClient' \subseteq toClient
           /\ work' \subseteq work
           /\ queue' = queue \/ DOMAIN queue' = {}
  <2>1. /\ \A v \in work : Known(v.msg.seqno, v.err)
        /\ \A s \in DOMAIN queue : Known(s, queue[s].err)
        /\ \A r \in toClient : r.seqno <= m_clnt_seqno /\ Known(r.seqno, r.err)
    BY Zenon DEF Known, ResultInv
  <2> QED
    BY Zenon, <1>1, <2>1, ResultPassedOn
<1>2. CASE Reconnect \/ ServerMount \/ UNCHANGED vars
  BY Zenon, <1>1, <1>2 DEF Reconnect, ServerMount, vars, clientVars, netVars, serverVars,
      ghostVars
<1>3. CASE FaultStep
  <2>1. CASE ServerRestart
    BY Zenon, <1>1, <2>1 DEF ServerRestart, Fault, clientVars
  <2> QED
    BY Zenon, <1>1, <1>3, <2>1 DEF FaultStep, Lose, Disconnect, ServerUmount, ParentRemoved,
        Fault, clientVars, netVars, serverVars
<1> QED
  BY Zenon, <1>2, <1>3, ResultClient, ResultComplete, ResultProcess, ResultReceive,
     ResultReply DEF Next

\* A result that a non-idempotent call returns is that of an execution of this
\* call, however its message was retransmitted, answered from the server's
\* array, delayed or sent again after a reset.
THEOREM ResultsAreGenuine == Spec /\ []NoWrap => []ResultWasExecuted
<1>1. ResultInv => ResultWasExecuted
  BY Zenon DEF ResultInv
<1> QED
  BY <1>1, IInvInit, IInvNext, ResultInit, ResultNext, PTL DEF Spec
=============================================================================
