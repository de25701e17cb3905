---------------------------- MODULE SharefsPool ----------------------------
(***************************************************************************)
(* The pool of sharefs threads of one host (fs/samfs/clcomm.c, thread.c).  *)
(*                                                                         *)
(* One reader thread per socket (sam_read_sock) puts the messages that it  *)
(* receives on m_sharefs.queue; pool threads (sam_sharefs_thread) take     *)
(* them off and process them.  The reader of the socket to the metadata    *)
(* server is CL; on the server host there is also one reader for each      *)
(* client.  When its socket breaks, a server-side reader waits until no    *)
(* thread works for its client, and CL waits until the whole pool is idle  *)
(* and then ends every thread.                                             *)
(*                                                                         *)
(* m_sharefs.mutex is explicit where a thread keeps it over two actions    *)
(* (owner); every other action is one critical section.  The readers       *)
(* asleep on get_cv and the threads asleep on put_cv are sets: cv_signal   *)
(* wakes any one of them.                                                  *)
(***************************************************************************)
EXTENDS Integers, Sequences, FiniteSets

CONSTANTS
    Conn,       \* the sockets that are read on this host
    CL,         \* the socket to the metadata server
    Worker,     \* pool threads that may exist at the same time
    MinPool,    \* fi_min_pool
    MaxThreads, \* SAM_SHAREFS_THREADS_MAX
    Incr,       \* SAM_SHAREFS_THREADS_INCR
    None,       \* no owner
    MaxItems,   \* bound: messages received in a behaviour
    MaxBreaks   \* bound: sockets that break in a behaviour

ASSUME PoolAssumption ==
    /\ IsFiniteSet(Worker) /\ IsFiniteSet(Conn)
    /\ MinPool \in Nat \ {0} /\ Incr \in Nat \ {0}
    /\ MaxThreads \in Nat /\ MaxItems \in Nat /\ MaxBreaks \in Nat
    /\ None \notin Worker \cup Conn

VARIABLES
    list,           \* m_sharefs.queue.list, each item with its count
    items,          \* queue.items
    current_item,   \* queue.current_item
    next_item,      \* queue.next_item
    put_wait, busy, no_threads,
    flag, state,
    cl_busy_threads,\* per client socket
    owner,          \* the pool thread that holds m_sharefs.mutex, or None
    m_cl_init,      \* the reader that holds the mutex m_cl_init, or None
    wpc, msg,       \* a pool thread: where it is, and the item it has
    put_cv,         \* pool threads asleep on put_cv
    rpc, todo,      \* a reader: where it is, and the threads it has to create
    get_cv,         \* readers asleep on get_cv
    breaks

queueVars   == <<list, items, current_item, next_item>>
counterVars == <<put_wait, busy, no_threads, flag, state, cl_busy_threads>>
workerVars  == <<wpc, msg>>
vars == <<queueVars, counterVars, owner, m_cl_init, workerVars, put_cv, rpc,
          todo, get_cv, breaks>>

NoItem == [count |-> 0, conn |-> None]

cv_signal(cv)    == IF cv = {} THEN {cv} ELSE {cv \ {x} : x \in cv}
SignalPut        == put_cv' \in cv_signal(put_cv)
SignalGet        == get_cv' \in cv_signal(get_cv)

(***************************************************************************)
(* sam_sharefs_thread                                                      *)
(***************************************************************************)

\* The thread starts: it takes the mutex and is counted.
ThreadStart(w) ==
    /\ wpc[w] = "created" /\ owner = None
    /\ owner' = w
    /\ wpc' = [wpc EXCEPT ![w] = "top"]
    /\ state' = "EXIST"
    /\ no_threads' = no_threads + 1
    /\ SignalGet
    /\ UNCHANGED <<queueVars, put_wait, busy, flag, cl_busy_threads, m_cl_init,
                   msg, put_cv, rpc, todo, breaks>>

\* The top of the loop, with the mutex held.  SAM_THR_UMOUNT ends the thread.
ThreadTerminated(w) ==
    /\ owner = w /\ flag = "UMOUNT"
    /\ owner' = None
    /\ wpc' = [wpc EXCEPT ![w] = "none"]
    /\ no_threads' = no_threads - 1
    /\ get_cv' = {}
    /\ UNCHANGED <<queueVars, put_wait, busy, flag, state, cl_busy_threads,
                   m_cl_init, msg, put_cv, rpc, todo, breaks>>

Dequeue(w) ==
    /\ owner = w /\ flag # "UMOUNT" /\ list # <<>>
    /\ owner' = None
    /\ list' = Tail(list)
    /\ current_item' = current_item + 1
    /\ items' = items - 1
    /\ busy' = busy + 1
    /\ msg' = [msg EXCEPT ![w] = Head(list)]
    /\ wpc' = [wpc EXCEPT ![w] = "got"]
    /\ SignalGet
    /\ UNCHANGED <<next_item, put_wait, no_threads, flag, state, cl_busy_threads,
                   m_cl_init, put_cv, rpc, todo, breaks>>

\* The queue is empty: the thread ends when enough others wait and the pool
\* was not reduced lately, otherwise it is going to wait.
QueueEmpty(w) ==
    /\ owner = w /\ flag # "UMOUNT" /\ list = <<>>
    /\ owner' = None
    /\ \/ /\ put_wait >= MinPool
          /\ no_threads' = no_threads - 1
          /\ wpc' = [wpc EXCEPT ![w] = "none"]
          /\ UNCHANGED put_wait
       \/ /\ put_wait' = put_wait + 1
          /\ wpc' = [wpc EXCEPT ![w] = "gap"]
          /\ UNCHANGED no_threads
    /\ UNCHANGED <<queueVars, busy, flag, state, cl_busy_threads, m_cl_init, msg,
                   put_cv, rpc, todo, get_cv, breaks>>

\* The mutex was left; the thread takes put_mutex and falls asleep.
FallAsleep(w) ==
    /\ wpc[w] = "gap"
    /\ wpc' = [wpc EXCEPT ![w] = "wait"]
    /\ put_cv' = put_cv \cup {w}
    /\ UNCHANGED <<queueVars, counterVars, owner, m_cl_init, msg, rpc, todo,
                   get_cv, breaks>>

\* Mutant: put_wait is decremented twice.
WokenTwice(w) ==
    /\ wpc[w] = "wait" /\ w \notin put_cv /\ owner = None
    /\ owner' = w
    /\ wpc' = [wpc EXCEPT ![w] = "top"]
    /\ put_wait' = put_wait - 2
    /\ UNCHANGED <<queueVars, busy, no_threads, flag, state, cl_busy_threads,
                   m_cl_init, msg, put_cv, rpc, todo, get_cv, breaks>>

\* Mutant: the thread is still counted as waiting.
WokenCounted(w) ==
    /\ wpc[w] = "wait" /\ w \notin put_cv /\ owner = None
    /\ owner' = w
    /\ wpc' = [wpc EXCEPT ![w] = "top"]
    /\ UNCHANGED <<queueVars, counterVars, m_cl_init, msg, put_cv, rpc, todo,
                   get_cv, breaks>>

Woken(w) ==
    /\ wpc[w] = "wait" /\ w \notin put_cv /\ owner = None
    /\ owner' = w
    /\ wpc' = [wpc EXCEPT ![w] = "top"]
    /\ put_wait' = put_wait - 1
    /\ UNCHANGED <<queueVars, busy, no_threads, flag, state, cl_busy_threads,
                   m_cl_init, msg, put_cv, rpc, todo, get_cv, breaks>>

\* Without the mutex: the client's busy threads are counted and the message is
\* processed.
ServeBegin(w) ==
    /\ wpc[w] = "got"
    /\ wpc' = [wpc EXCEPT ![w] = "serve"]
    /\ cl_busy_threads' = IF msg[w].conn = CL THEN cl_busy_threads
                          ELSE [cl_busy_threads EXCEPT ![msg[w].conn] = @ + 1]
    /\ UNCHANGED <<queueVars, put_wait, busy, no_threads, flag, state, owner,
                   m_cl_init, msg, put_cv, rpc, todo, get_cv, breaks>>

ServeEnd(w) ==
    /\ wpc[w] = "serve"
    /\ wpc' = [wpc EXCEPT ![w] = "served"]
    /\ cl_busy_threads' = IF msg[w].conn = CL THEN cl_busy_threads
                          ELSE [cl_busy_threads EXCEPT ![msg[w].conn] = @ - 1]
    /\ UNCHANGED <<queueVars, put_wait, busy, no_threads, flag, state, owner,
                   m_cl_init, msg, put_cv, rpc, todo, get_cv, breaks>>

\* Mutant: the thread waits without another look at the queue.
FinishAndWait(w) ==
    /\ wpc[w] = "served" /\ owner = None
    /\ wpc' = [wpc EXCEPT ![w] = "gap"]
    /\ msg' = [msg EXCEPT ![w] = NoItem]
    /\ busy' = busy - 1
    /\ put_wait' = put_wait + 1
    /\ SignalGet
    /\ UNCHANGED <<queueVars, no_threads, flag, state, cl_busy_threads, owner,
                   m_cl_init, put_cv, rpc, todo, breaks>>

Finish(w) ==
    /\ wpc[w] = "served" /\ owner = None
    /\ owner' = w
    /\ wpc' = [wpc EXCEPT ![w] = "top"]
    /\ msg' = [msg EXCEPT ![w] = NoItem]
    /\ busy' = busy - 1
    /\ SignalGet
    /\ UNCHANGED <<queueVars, put_wait, no_threads, flag, state, cl_busy_threads,
                   m_cl_init, put_cv, rpc, todo, breaks>>

WorkerStep(w) ==
    \/ ThreadStart(w) \/ ThreadTerminated(w) \/ Dequeue(w) \/ QueueEmpty(w)
    \/ FallAsleep(w) \/ Woken(w) \/ ServeBegin(w) \/ ServeEnd(w) \/ Finish(w)

(***************************************************************************)
(* sam_read_sock and what it calls                                         *)
(***************************************************************************)

\* sam_init_thread: create a thread and wait until it exists.
sam_init_thread(c) ==
    /\ flag' = "MOUNT"
    /\ state' = "INIT"
    /\ \E w \in Worker : wpc[w] = "none" /\ wpc' = [wpc EXCEPT ![w] = "created"]
    /\ get_cv' = get_cv \cup {c}

\* sam_start_sharefs_threads: create fi_min_pool threads if there are none.
StartThreads(c) ==
    /\ rpc[c] = "closed" /\ owner = None /\ m_cl_init = None
    /\ IF no_threads = 0
       THEN /\ m_cl_init' = c
            /\ sam_init_thread(c)
            /\ rpc' = [rpc EXCEPT ![c] = "init"]
            /\ todo' = [todo EXCEPT ![c] = MinPool - 1]
       ELSE /\ rpc' = [rpc EXCEPT ![c] = "read"]
            /\ UNCHANGED <<m_cl_init, flag, state, wpc, get_cv, todo>>
    /\ UNCHANGED <<queueVars, put_wait, busy, no_threads, cl_busy_threads, owner,
                   msg, put_cv, breaks>>

\* Another turn of the loop that creates threads, in StartThreads or in Spawn.
\* At the end the message put on the queue before Spawn is signalled.
ThreadExists(c) ==
    /\ rpc[c] \in {"init", "spawn"} /\ c \notin get_cv /\ owner = None
    /\ \/ /\ state # "EXIST"
          /\ get_cv' = get_cv \cup {c}
          /\ UNCHANGED <<flag, state, wpc, rpc, todo, m_cl_init, put_cv>>
       \/ /\ state = "EXIST" /\ todo[c] > 0
          /\ sam_init_thread(c)
          /\ todo' = [todo EXCEPT ![c] = @ - 1]
          /\ UNCHANGED <<rpc, m_cl_init, put_cv>>
       \/ /\ state = "EXIST" /\ todo[c] = 0
          /\ rpc' = [rpc EXCEPT ![c] = "read"]
          /\ IF rpc[c] = "init" THEN m_cl_init' = None /\ UNCHANGED put_cv
             ELSE SignalPut /\ UNCHANGED m_cl_init
          /\ UNCHANGED <<flag, state, wpc, todo, get_cv>>
    /\ UNCHANGED <<queueVars, put_wait, busy, no_threads, cl_busy_threads, owner,
                   msg, breaks>>

\* A message is received and put on the queue.  When no thread waits, and the
\* head of the queue has been there for long, more threads are created.
Enqueue(c) ==
    /\ rpc[c] = "read" /\ owner = None /\ next_item < MaxItems
    /\ list' = Append(list, [count |-> next_item, conn |-> c])
    /\ next_item' = next_item + 1
    /\ items' = items + 1
    /\ \/ /\ list # <<>> /\ put_wait = 0 /\ no_threads < MaxThreads
          /\ sam_init_thread(c)
          /\ rpc' = [rpc EXCEPT ![c] = "spawn"]
          /\ todo' = [todo EXCEPT ![c] = Incr - 1]
          /\ UNCHANGED put_cv
       \/ /\ SignalPut
          /\ UNCHANGED <<flag, state, wpc, get_cv, rpc, todo>>
    /\ UNCHANGED <<current_item, put_wait, busy, no_threads, cl_busy_threads,
                   owner, m_cl_init, msg, breaks>>

\* The socket breaks.
Break(c) ==
    /\ rpc[c] = "read" /\ breaks < MaxBreaks
    /\ rpc' = [rpc EXCEPT ![c] = "idle"]
    /\ breaks' = breaks + 1
    /\ UNCHANGED <<queueVars, counterVars, owner, m_cl_init, workerVars, put_cv,
                   todo, get_cv>>

\* sam_kill_sharefs_threads: wait for the threads to idle.
WaitIdle(c) ==
    /\ rpc[c] = "idle" /\ c \notin get_cv /\ owner = None
    /\ IF busy = 0 \/ (c # CL /\ cl_busy_threads[c] = 0)
       THEN /\ rpc' = [rpc EXCEPT ![c] = IF c = CL THEN "reap" ELSE "drain"]
            /\ UNCHANGED get_cv
       ELSE get_cv' = get_cv \cup {c} /\ UNCHANGED rpc
    /\ UNCHANGED <<queueVars, counterVars, owner, m_cl_init, workerVars, put_cv,
                   todo, breaks>>

\* Mutant: the threads are told to end but not waited for.
ReapNoWait(c) ==
    /\ rpc[c] = "reap" /\ owner = None /\ m_cl_init = None
    /\ flag' = "UMOUNT"
    /\ put_cv' = {}
    /\ rpc' = [rpc EXCEPT ![c] = "drain"]
    /\ UNCHANGED <<queueVars, put_wait, busy, no_threads, state, cl_busy_threads,
                   owner, m_cl_init, workerVars, todo, get_cv, breaks>>

\* sam_kill_threads, for the client socket only: tell all threads to end.
Reap(c) ==
    /\ rpc[c] = "reap" /\ owner = None /\ m_cl_init = None
    /\ IF no_threads = 0
       THEN /\ rpc' = [rpc EXCEPT ![c] = "drain"]
            /\ UNCHANGED <<flag, m_cl_init, put_cv, get_cv>>
       ELSE /\ flag' = "UMOUNT"
            /\ m_cl_init' = c
            /\ put_cv' = {}
            /\ get_cv' = get_cv \cup {c}
            /\ rpc' = [rpc EXCEPT ![c] = "reaping"]
    /\ UNCHANGED <<queueVars, put_wait, busy, no_threads, state, cl_busy_threads,
                   owner, workerVars, todo, breaks>>

\* Another turn of its loop.
Reaping(c) ==
    /\ rpc[c] = "reaping" /\ c \notin get_cv /\ owner = None
    /\ IF no_threads # 0
       THEN /\ put_cv' = {}
            /\ get_cv' = get_cv \cup {c}
            /\ UNCHANGED <<flag, m_cl_init, rpc>>
       ELSE /\ flag' = "NULL"
            /\ m_cl_init' = None
            /\ rpc' = [rpc EXCEPT ![c] = "drain"]
            /\ UNCHANGED <<put_cv, get_cv>>
    /\ UNCHANGED <<queueVars, put_wait, busy, no_threads, state, cl_busy_threads,
                   owner, workerVars, todo, breaks>>

\* Mutant: current_item is left alone.
DrainListOnly(c) ==
    /\ rpc[c] = "drain" /\ owner = None
    /\ list' = <<>>
    /\ rpc' = [rpc EXCEPT ![c] = "closed"]
    /\ UNCHANGED <<items, next_item, current_item, counterVars, owner, m_cl_init,
                   workerVars, put_cv, todo, get_cv, breaks>>

\* The items left on the queue are destroyed, whoever received them.
Drain(c) ==
    /\ rpc[c] = "drain" /\ owner = None
    /\ list' = <<>>
    /\ current_item' = next_item
    /\ rpc' = [rpc EXCEPT ![c] = "closed"]
    /\ UNCHANGED <<items, next_item, counterVars, owner, m_cl_init, workerVars,
                   put_cv, todo, get_cv, breaks>>

ReaderStep(c) ==
    \/ StartThreads(c) \/ ThreadExists(c) \/ WaitIdle(c)
    \/ c = CL /\ (Reap(c) \/ Reaping(c))
    \/ Drain(c)

(***************************************************************************)
(* The specification                                                       *)
(***************************************************************************)

Init ==
    /\ list = <<>> /\ items = 0 /\ current_item = 0 /\ next_item = 0
    /\ put_wait = 0 /\ busy = 0 /\ no_threads = 0
    /\ flag = "NULL" /\ state = "INIT"
    /\ cl_busy_threads = [c \in Conn \ {CL} |-> 0]
    /\ owner = None /\ m_cl_init = None
    /\ wpc = [w \in Worker |-> "none"]
    /\ msg = [w \in Worker |-> NoItem]
    /\ put_cv = {} /\ get_cv = {}
    /\ rpc = [c \in Conn |-> "closed"]
    /\ todo = [c \in Conn |-> 0]
    /\ breaks = 0

Next ==
    \/ \E w \in Worker : WorkerStep(w)
    \/ \E c \in Conn : ReaderStep(c) \/ Enqueue(c) \/ Break(c)

Spec == Init /\ [][Next]_vars

\* Threads run.  Nothing makes messages arrive or sockets break.
Fairness ==
    /\ \A w \in Worker : WF_vars(WorkerStep(w))
    /\ \A c \in Conn : WF_vars(ReaderStep(c))

FairSpec == Spec /\ Fairness

(***************************************************************************)
(* Properties                                                              *)
(***************************************************************************)

Item == [count : Nat, conn : Conn \cup {None}]

\* Every variable has its type; the counters are not negative.
TypeOK ==
    /\ list \in Seq(Item)
    /\ items \in Nat /\ current_item \in Nat /\ next_item \in Nat
    /\ put_wait \in Nat /\ busy \in Nat /\ no_threads \in Nat
    /\ flag \in {"NULL", "MOUNT", "UMOUNT"} /\ state \in {"INIT", "EXIST"}
    /\ cl_busy_threads \in [Conn \ {CL} -> Nat]
    /\ owner \in Worker \cup {None} /\ m_cl_init \in Conn \cup {None}
    /\ wpc \in [Worker -> {"none", "created", "top", "gap", "wait", "got",
                           "serve", "served"}]
    /\ msg \in [Worker -> Item]
    /\ put_cv \subseteq Worker /\ get_cv \subseteq Conn
    /\ rpc \in [Conn -> {"closed", "init", "read", "spawn", "idle", "reap",
                         "reaping", "drain"}]
    /\ todo \in [Conn -> Nat]
    /\ breaks \in 0..MaxBreaks

At(labels) == {w \in Worker : wpc[w] \in labels}

\* The counters, which readers and threads test under the mutex but which are
\* changed in different critical sections than the states they stand for, are
\* what their names say whichever way threads start, end and wake up.
CountersAgree ==
    /\ no_threads = Cardinality(At({"top", "gap", "wait", "got", "serve", "served"}))
    /\ busy = Cardinality(At({"got", "serve", "served"}))
    /\ put_wait = Cardinality(At({"gap", "wait"}))
    /\ \A c \in Conn \ {CL} :
         cl_busy_threads[c] =
            Cardinality({w \in At({"serve"}) : msg[w].conn = c})

\* The assertion of sam_sharefs_thread, item->count = current_item, holds
\* whenever an item is taken, though a reader that leaves destroys the items
\* that others have put on the queue.
QueueInOrder ==
    /\ next_item = current_item + Len(list)
    /\ \A i \in DOMAIN list : list[i].count = current_item + i - 1

\* Once the reader of the only socket has ended the pool no thread is left, so
\* nothing is done for a connection that is gone (sam_kill_threads).
PoolReaped ==
    Conn = {CL} /\ rpc[CL] \in {"drain", "closed"} => At({"none"}) = Worker

\* While some thread is busy the head of the queue is taken, unless the pool is
\* ended meanwhile: a thread that finishes looks at the queue before it waits.
BusyTakesNext ==
    \A n \in 0..(MaxItems - 1) :
        (list # <<>> /\ Head(list).count = n /\ busy > 0)
            ~> (current_item > n \/ flag = "UMOUNT")

\* sam_sharefs_thread "Processes the received messages": every item put on the
\* queue is taken off, when no socket breaks.
ReceivedIsProcessed ==
    \A n \in 0..(MaxItems - 1) :
        (list # <<>> /\ Head(list).count = n) ~> current_item > n
=============================================================================
