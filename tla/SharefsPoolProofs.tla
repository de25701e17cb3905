-------------------------- MODULE SharefsPoolProofs --------------------------
(***************************************************************************)
(* Proofs of the invariants of SharefsPool for any sockets, pool threads,  *)
(* sizes of the pool and bounds: the counters, the order of the queue, and *)
(* that no thread outlives the pool.                                       *)
(***************************************************************************)
EXTENDS SharefsPool, FiniteSetTheorems, TLAPS

-----------------------------------------------------------------------------
(* The inductive invariant.                                                  *)

Labels == {"none", "created", "top", "gap", "wait", "got", "serve", "served"}
RLabels == {"closed", "init", "read", "spawn", "idle", "reap", "reaping", "drain"}

Live   == {"top", "gap", "wait", "got", "serve", "served"}
Busy   == {"got", "serve", "served"}
Asleep == {"gap", "wait"}

\* The pool threads at work for the client of socket c.
ServingSet(c) == {w \in At({"serve"}) : msg[w].conn = c}

\* A pool thread has the mutex just at the top of its loop.
Owned == \A w \in Worker : wpc[w] = "top" <=> owner = w

\* queue.items is never less than the length of the list: a reader that
\* destroys the items does not count them off.
ItemsCover == items >= Len(list)

\* With one reader, a thread that was created and has not started is the only
\* one, and the reader waits for it.
CreatedAwaited ==
    Conn = {CL} =>
        \A w \in Worker : wpc[w] = "created" =>
            /\ state = "INIT" /\ rpc[CL] \in {"init", "spawn"}
            /\ \A v \in Worker : wpc[v] = "created" => v = w

IInv ==
    /\ TypeOK /\ CountersAgree /\ Owned
    /\ QueueInOrder /\ ItemsCover
    /\ CreatedAwaited /\ PoolReaped

-----------------------------------------------------------------------------
(* Counting.                                                                 *)

Bit(b) == IF b THEN 1 ELSE 0

\* A set from which one element may have gone, or to which it may have come.
LEMMA OneMoved ==
    ASSUME NEW S, NEW T, NEW w, IsFiniteSet(S), T \ {w} = S \ {w}
    PROVE  Cardinality(T) = Cardinality(S) + Bit(w \in T) - Bit(w \in S)
<1>1. Cardinality(S) \in Nat
  BY Zenon, FS_CardinalityType
<1>2. CASE w \in S /\ w \in T
  <2>1. T = S
    BY <1>2
  <2> QED
    BY <1>1, <1>2, <2>1 DEF Bit
<1>3. CASE w \notin S /\ w \notin T
  <2>1. T = S
    BY <1>3
  <2> QED
    BY <1>1, <1>3, <2>1 DEF Bit
<1>4. CASE w \in S /\ w \notin T
  <2>1. T = S \ {w}
    BY <1>4
  <2>2. Cardinality(T) = Cardinality(S) - 1
    BY Zenon, <1>4, <2>1, FS_RemoveElement
  <2> QED
    BY <1>1, <1>4, <2>2 DEF Bit
<1>5. CASE w \notin S /\ w \in T
  <2>1. T = S \cup {w}
    BY <1>5
  <2>2. Cardinality(T) = Cardinality(S) + 1
    BY Zenon, <1>5, <2>1, FS_AddElement
  <2> QED
    BY <1>1, <1>5, <2>2 DEF Bit
<1> QED
  BY Zenon, <1>2, <1>3, <1>4, <1>5

LEMMA SetsFinite ==
    \A S \in SUBSET Worker : IsFiniteSet(S) /\ Cardinality(S) \in Nat
BY Zenon, PoolAssumption, FS_Subset, FS_CardinalityType

\* CountersAgree, over the sets that the proofs name.
Counted ==
    /\ no_threads = Cardinality(At(Live))
    /\ busy = Cardinality(At(Busy))
    /\ put_wait = Cardinality(At(Asleep))
    /\ \A c \in Conn \ {CL} : cl_busy_threads[c] = Cardinality(ServingSet(c))

\* The counters follow pool thread w to the label l.
Follow(w, l) ==
    /\ no_threads' = no_threads + Bit(l \in Live) - Bit(wpc[w] \in Live)
    /\ busy' = busy + Bit(l \in Busy) - Bit(wpc[w] \in Busy)
    /\ put_wait' = put_wait + Bit(l \in Asleep) - Bit(wpc[w] \in Asleep)
    /\ \A c \in Conn \ {CL} : cl_busy_threads'[c] =
          cl_busy_threads[c] + Bit(l = "serve" /\ msg'[w].conn = c)
                             - Bit(wpc[w] = "serve" /\ msg[w].conn = c)

\* The counters agree after a step of one pool thread that they follow.
LEMMA Recount ==
    ASSUME IInv, NEW w \in Worker, NEW l \in Labels,
           wpc' = [wpc EXCEPT ![w] = l],
           \A v \in Worker \ {w} : msg'[v] = msg[v],
           Follow(w, l)
    PROVE  CountersAgree'
<1>1. wpc'[w] = l /\ \A v \in Worker \ {w} : wpc'[v] = wpc[v]
  BY Zenon DEF IInv, TypeOK
<1>2. \A L : /\ At(L)' \ {w} = At(L) \ {w}
             /\ w \in At(L)' <=> l \in L
             /\ w \in At(L) <=> wpc[w] \in L
  BY <1>1 DEF At
<1>3. \A c : /\ ServingSet(c)' \ {w} = ServingSet(c) \ {w}
             /\ w \in ServingSet(c)' <=> l = "serve" /\ msg'[w].conn = c
             /\ w \in ServingSet(c) <=> wpc[w] = "serve" /\ msg[w].conn = c
  BY <1>1 DEF At, ServingSet
<1>4. \A L : Cardinality(At(L)') =
               Cardinality(At(L)) + Bit(w \in At(L)') - Bit(w \in At(L))
  <2> TAKE L
  <2>1. At(L)' \ {w} = At(L) \ {w} /\ IsFiniteSet(At(L))
    BY Zenon, <1>2, SetsFinite DEF At
  <2> QED
    BY <2>1, OneMoved
<1>5. \A c : Cardinality(ServingSet(c)') = Cardinality(ServingSet(c))
               + Bit(w \in ServingSet(c)') - Bit(w \in ServingSet(c))
  <2> TAKE c
  <2>1. ServingSet(c)' \ {w} = ServingSet(c) \ {w} /\ IsFiniteSet(ServingSet(c))
    BY Zenon, <1>3, SetsFinite DEF At, ServingSet
  <2> QED
    BY <2>1, OneMoved
<1>6. \A L : /\ Bit(w \in At(L)') = Bit(l \in L)
             /\ Bit(w \in At(L)) = Bit(wpc[w] \in L)
  BY Zenon, <1>2 DEF Bit
<1>7. \A c : /\ Bit(w \in ServingSet(c)') = Bit(l = "serve" /\ msg'[w].conn = c)
             /\ Bit(w \in ServingSet(c)) = Bit(wpc[w] = "serve" /\ msg[w].conn = c)
  BY Zenon, <1>3 DEF Bit
<1>8. \A L : Cardinality(At(L))' = Cardinality(At(L)) + Bit(l \in L) - Bit(wpc[w] \in L)
  BY <1>4, <1>6
<1>9. \A c : Cardinality(ServingSet(c))' =
               Cardinality(ServingSet(c)) + Bit(l = "serve" /\ msg'[w].conn = c)
                                          - Bit(wpc[w] = "serve" /\ msg[w].conn = c)
  BY <1>5, <1>7
<1> QED
  <2>1. Counted
    BY Zenon DEF IInv, CountersAgree, Counted, Live, Busy, Asleep, ServingSet
  <2>2. Counted'
    BY <1>8, <1>9, <2>1 DEF Counted, Follow
  <2> QED
    BY Zenon, <2>2 DEF CountersAgree, Counted, Live, Busy, Asleep, ServingSet

\* Counters that agree are numbers.
LEMMA CountersType ==
    ASSUME CountersAgree', cl_busy_threads' \in [Conn \ {CL} -> Int]
    PROVE  /\ put_wait' \in Nat /\ busy' \in Nat /\ no_threads' \in Nat
           /\ cl_busy_threads' \in [Conn \ {CL} -> Nat]
<1>1. \A L : At(L)' \in SUBSET Worker
  BY Zenon DEF At
<1>2. \A c : {w \in At({"serve"}) : msg[w].conn = c}' \in SUBSET Worker
  BY Zenon DEF At
<1>3. put_wait' \in Nat /\ busy' \in Nat /\ no_threads' \in Nat
  BY Zenon, <1>1, SetsFinite DEF CountersAgree
<1>4. \A c \in Conn \ {CL} : cl_busy_threads'[c] \in Nat
  BY Zenon, <1>2, SetsFinite DEF CountersAgree
<1> QED
  BY <1>3, <1>4

-----------------------------------------------------------------------------
(* Steps of the pool threads.                                                *)

\* What a step of pool thread w that goes to the label l leaves alone, and how
\* the mutex goes with it.
ThreadOnly(w, l) ==
    /\ wpc' = [wpc EXCEPT ![w] = l]
    /\ \/ owner = None /\ owner' = w /\ l = "top"
       \/ owner = w /\ owner' = None /\ l # "top"
       \/ owner' = owner /\ l # "top" /\ wpc[w] # "top"
    /\ \A v \in Worker \ {w} : msg'[v] = msg[v]
    /\ UNCHANGED <<rpc, todo, m_cl_init, breaks, flag, next_item>>
    /\ \/ state' = state
       \/ state' = "EXIST" /\ wpc[w] = "created"

LEMMA ThreadKeeps ==
    ASSUME IInv, NEW w \in Worker, NEW l \in Labels \ {"created"},
           wpc[w] # "none", ThreadOnly(w, l), Follow(w, l),
           put_cv' \subseteq Worker, get_cv' \subseteq Conn,
           msg' \in [Worker -> Item], cl_busy_threads' \in [Conn \ {CL} -> Int],
           list' \in Seq(Item), items' \in Nat, current_item' \in Nat,
           QueueInOrder', ItemsCover'
    PROVE  IInv'
<1>1. wpc'[w] = l /\ \A v \in Worker \ {w} : wpc'[v] = wpc[v]
  BY Zenon DEF IInv, TypeOK, ThreadOnly
<1>2. CountersAgree'
  BY Zenon, Recount DEF ThreadOnly
<1>3. TypeOK'
  <2>1. wpc' \in [Worker -> Labels]
    BY Zenon DEF IInv, TypeOK, ThreadOnly, Labels
  <2>2. owner' \in Worker \cup {None} /\ state' \in {"INIT", "EXIST"}
    BY Zenon DEF IInv, TypeOK, ThreadOnly
  <2> QED
    BY Zenon, <1>2, <2>1, <2>2, CountersType DEF IInv, TypeOK, ThreadOnly, Labels
<1>4. Owned'
  BY <1>1, PoolAssumption DEF IInv, Owned, ThreadOnly
<1>5. CreatedAwaited'
  BY Zenon, <1>1 DEF IInv, CreatedAwaited, ThreadOnly
<1>6. PoolReaped'
  BY Zenon, <1>1 DEF IInv, PoolReaped, ThreadOnly, At
<1> QED
  BY Zenon, <1>2, <1>3, <1>4, <1>5, <1>6 DEF IInv

\* cv_signal wakes sleepers and puts none to sleep.
LEMMA SignalSubset == \A cv : \A s \in cv_signal(cv) : s \subseteq cv
BY Zenon DEF cv_signal

\* The numbers that the counters are.
LEMMA CounterTypes ==
    ASSUME IInv
    PROVE  /\ no_threads \in Nat /\ busy \in Nat /\ put_wait \in Nat
           /\ cl_busy_threads \in [Conn \ {CL} -> Nat]
           /\ cl_busy_threads \in [Conn \ {CL} -> Int]
           /\ \A c \in Conn \ {CL} : cl_busy_threads[c] \in Int
BY DEF IInv, TypeOK

\* The clients' counters follow a step outside of the processing.
LEMMA NotServing ==
    ASSUME IInv, NEW w, NEW l, l # "serve", wpc[w] # "serve",
           cl_busy_threads' = cl_busy_threads
    PROVE  \A c \in Conn \ {CL} : cl_busy_threads'[c] =
             cl_busy_threads[c] + Bit(l = "serve" /\ msg'[w].conn = c)
                                - Bit(wpc[w] = "serve" /\ msg[w].conn = c)
BY CounterTypes DEF Bit

LEMMA StartKeeps == ASSUME IInv, NEW w \in Worker, ThreadStart(w) PROVE IInv'
<1>1. wpc[w] = "created" /\ UNCHANGED <<queueVars, busy, put_wait, cl_busy_threads, msg, put_cv>>
      /\ no_threads' = no_threads + 1
  BY Zenon DEF ThreadStart
<1>2. ThreadOnly(w, "top")
  BY Zenon DEF ThreadStart, ThreadOnly, queueVars
<1>3. Follow(w, "top")
  BY <1>1, NotServing, CounterTypes DEF Follow, Bit, Live, Busy, Asleep
<1>4. get_cv' \subseteq Conn
  BY Zenon, SignalSubset DEF ThreadStart, SignalGet, IInv, TypeOK
<1>5. QueueInOrder' /\ ItemsCover'
  BY Zenon, <1>1 DEF IInv, QueueInOrder, ItemsCover, queueVars
<1> QED
  BY Zenon, <1>1, <1>2, <1>3, <1>4, <1>5, ThreadKeeps, CounterTypes
  DEF IInv, TypeOK, Labels, queueVars

LEMMA TerminatedKeeps == ASSUME IInv, NEW w \in Worker, ThreadTerminated(w) PROVE IInv'
<1>1. wpc[w] = "top" /\ UNCHANGED <<queueVars, busy, put_wait, cl_busy_threads, msg, put_cv>>
      /\ no_threads' = no_threads - 1 /\ get_cv' = {}
  BY Zenon DEF ThreadTerminated, IInv, Owned
<1>2. ThreadOnly(w, "none")
  BY Zenon DEF ThreadTerminated, ThreadOnly, queueVars
<1>3. Follow(w, "none")
  BY <1>1, NotServing, CounterTypes DEF Follow, Bit, Live, Busy, Asleep
<1>5. QueueInOrder' /\ ItemsCover'
  BY Zenon, <1>1 DEF IInv, QueueInOrder, ItemsCover, queueVars
<1> QED
  BY Zenon, <1>1, <1>2, <1>3, <1>5, ThreadKeeps, CounterTypes
  DEF IInv, TypeOK, Labels, queueVars

\* The head of the queue is taken: the queue's counters stay in order.
LEMMA TailInOrder ==
    ASSUME IInv, list # <<>>, list' = Tail(list), current_item' = current_item + 1,
           items' = items - 1, next_item' = next_item
    PROVE  /\ QueueInOrder' /\ ItemsCover' /\ list' \in Seq(Item)
           /\ items' \in Nat /\ current_item' \in Nat
           /\ Head(list) \in Item
<1>1. list \in Seq(Item) /\ items \in Nat /\ current_item \in Nat /\ next_item \in Nat
  BY Zenon DEF IInv, TypeOK
<1>2. /\ Len(list) \in Nat /\ Len(list) > 0 /\ Head(list) \in Item
      /\ list' \in Seq(Item) /\ Len(list') = Len(list) - 1
      /\ DOMAIN list' = 1..(Len(list) - 1) /\ DOMAIN list = 1..Len(list)
      /\ \A i \in 1..(Len(list) - 1) : list'[i] = list[i + 1]
  <2>1. Len(list) \in Nat /\ DOMAIN list = 1..Len(list) /\ Len(list) > 0
    BY <1>1
  <2>2. Head(list) \in Item
    BY <1>1
  <2>3. Tail(list) \in Seq(Item) /\ Len(Tail(list)) = Len(list) - 1
    BY <1>1
  <2>4. DOMAIN Tail(list) = 1..(Len(list) - 1)
    BY <1>1, <2>3
  <2>5. \A i \in 1..(Len(list) - 1) : Tail(list)[i] = list[i + 1]
    BY <1>1, <2>1
  <2> QED
    BY Zenon, <2>1, <2>2, <2>3, <2>4, <2>5
<1>3. ItemsCover' /\ items' \in Nat /\ current_item' \in Nat
  BY <1>1, <1>2 DEF IInv, ItemsCover
<1>4. next_item' = current_item' + Len(list')
  BY <1>1, <1>2 DEF IInv, QueueInOrder
<1>5. \A i \in DOMAIN list' : list'[i].count = current_item' + i - 1
  <2> SUFFICES ASSUME NEW i \in 1..(Len(list) - 1)
               PROVE  list'[i].count = current_item' + i - 1
    BY Zenon, <1>2
  <2>1. i \in Int /\ i + 1 \in DOMAIN list /\ list'[i] = list[i + 1]
    BY <1>2
  <2>2. list[i + 1].count = current_item + (i + 1) - 1
    BY Zenon, <2>1 DEF IInv, QueueInOrder
  <2> QED
    BY <1>1, <2>1, <2>2
<1> QED
  BY Zenon, <1>2, <1>3, <1>4, <1>5 DEF QueueInOrder

LEMMA DequeueKeeps == ASSUME IInv, NEW w \in Worker, Dequeue(w) PROVE IInv'
<1>1. wpc[w] = "top" /\ UNCHANGED <<no_threads, put_wait, cl_busy_threads, put_cv>>
      /\ busy' = busy + 1 /\ msg' = [msg EXCEPT ![w] = Head(list)]
  BY Zenon DEF Dequeue, IInv, Owned
<1>2. ThreadOnly(w, "got")
  BY Zenon DEF Dequeue, ThreadOnly, IInv, TypeOK
<1>3. Follow(w, "got")
  BY <1>1, NotServing, CounterTypes DEF Follow, Bit, Live, Busy, Asleep
<1>4. get_cv' \subseteq Conn
  BY Zenon, SignalSubset DEF Dequeue, SignalGet, IInv, TypeOK
<1>5. /\ QueueInOrder' /\ ItemsCover' /\ list' \in Seq(Item)
      /\ items' \in Nat /\ current_item' \in Nat /\ Head(list) \in Item
  BY Zenon, TailInOrder DEF Dequeue
<1>6. msg' \in [Worker -> Item]
  BY Zenon, <1>1, <1>5 DEF IInv, TypeOK
<1> QED
  BY Zenon, <1>1, <1>2, <1>3, <1>4, <1>5, <1>6, ThreadKeeps, CounterTypes
  DEF IInv, TypeOK, Labels

LEMMA EmptyKeeps == ASSUME IInv, NEW w \in Worker, QueueEmpty(w) PROVE IInv'
<1>1. /\ wpc[w] = "top"
      /\ UNCHANGED <<queueVars, busy, cl_busy_threads, msg, put_cv, get_cv>>
  BY Zenon DEF QueueEmpty, IInv, Owned
<1>2. QueueInOrder' /\ ItemsCover'
  BY Zenon, <1>1 DEF IInv, QueueInOrder, ItemsCover, queueVars
<1>3. CASE /\ no_threads' = no_threads - 1 /\ put_wait' = put_wait
           /\ wpc' = [wpc EXCEPT ![w] = "none"]
  <2>1. ThreadOnly(w, "none")
    BY Zenon, <1>3 DEF QueueEmpty, ThreadOnly, queueVars
  <2>2. Follow(w, "none")
    BY <1>1, <1>3, NotServing, CounterTypes DEF Follow, Bit, Live, Busy, Asleep
  <2> QED
    BY Zenon, <1>1, <1>2, <2>1, <2>2, ThreadKeeps, CounterTypes
    DEF IInv, TypeOK, Labels, queueVars
<1>4. CASE /\ put_wait' = put_wait + 1 /\ no_threads' = no_threads
           /\ wpc' = [wpc EXCEPT ![w] = "gap"]
  <2>1. ThreadOnly(w, "gap")
    BY Zenon, <1>4 DEF QueueEmpty, ThreadOnly, queueVars
  <2>2. Follow(w, "gap")
    BY <1>1, <1>4, NotServing, CounterTypes DEF Follow, Bit, Live, Busy, Asleep
  <2> QED
    BY Zenon, <1>1, <1>2, <2>1, <2>2, ThreadKeeps, CounterTypes
    DEF IInv, TypeOK, Labels, queueVars
<1> QED
  BY Zenon, <1>3, <1>4 DEF QueueEmpty

LEMMA AsleepKeeps == ASSUME IInv, NEW w \in Worker, FallAsleep(w) PROVE IInv'
<1>1. /\ wpc[w] = "gap" /\ put_cv' = put_cv \cup {w}
      /\ UNCHANGED <<queueVars, counterVars, msg, get_cv>>
  BY Zenon DEF FallAsleep
<1>2. ThreadOnly(w, "wait")
  BY Zenon DEF FallAsleep, ThreadOnly, queueVars, counterVars
<1>3. Follow(w, "wait")
  BY <1>1, NotServing, CounterTypes
  DEF Follow, Bit, Live, Busy, Asleep, counterVars
<1>4. QueueInOrder' /\ ItemsCover'
  BY Zenon, <1>1 DEF IInv, QueueInOrder, ItemsCover, queueVars
<1> QED
  BY Zenon, <1>1, <1>2, <1>3, <1>4, ThreadKeeps, CounterTypes
  DEF IInv, TypeOK, Labels, queueVars, counterVars

LEMMA WokenKeeps == ASSUME IInv, NEW w \in Worker, Woken(w) PROVE IInv'
<1>1. /\ wpc[w] = "wait" /\ put_wait' = put_wait - 1
      /\ UNCHANGED <<queueVars, busy, no_threads, cl_busy_threads, msg, put_cv, get_cv>>
  BY Zenon DEF Woken
<1>2. ThreadOnly(w, "top")
  BY Zenon DEF Woken, ThreadOnly, queueVars
<1>3. Follow(w, "top")
  BY <1>1, NotServing, CounterTypes DEF Follow, Bit, Live, Busy, Asleep
<1>4. QueueInOrder' /\ ItemsCover'
  BY Zenon, <1>1 DEF IInv, QueueInOrder, ItemsCover, queueVars
<1> QED
  BY Zenon, <1>1, <1>2, <1>3, <1>4, ThreadKeeps, CounterTypes
  DEF IInv, TypeOK, Labels, queueVars

LEMMA ServeKeeps ==
    ASSUME IInv, NEW w \in Worker, ServeBegin(w) \/ ServeEnd(w) PROVE IInv'
<1>1. /\ UNCHANGED <<queueVars, busy, no_threads, put_wait, msg, put_cv, get_cv>>
      /\ wpc[w] \in {"got", "serve"}
  BY Zenon DEF ServeBegin, ServeEnd
<1>2. QueueInOrder' /\ ItemsCover'
  BY Zenon, <1>1 DEF IInv, QueueInOrder, ItemsCover, queueVars
<1>3. CASE ServeBegin(w)
  <2>1. ThreadOnly(w, "serve") /\ wpc[w] = "got"
    BY Zenon, <1>3 DEF ServeBegin, ThreadOnly, queueVars
  <2>2. /\ cl_busy_threads' \in [Conn \ {CL} -> Int]
        /\ \A c \in Conn \ {CL} : cl_busy_threads'[c] =
              IF msg[w].conn = c THEN cl_busy_threads[c] + 1 ELSE cl_busy_threads[c]
    <3>1. CASE msg[w].conn = CL
      BY <1>3, <3>1, CounterTypes DEF ServeBegin
    <3>2. CASE msg[w].conn # CL
      <4>1. cl_busy_threads' =
              [cl_busy_threads EXCEPT ![msg[w].conn] = cl_busy_threads[msg[w].conn] + 1]
        BY Zenon, <1>3, <3>2 DEF ServeBegin
      <4>2. cl_busy_threads' =
              [c \in Conn \ {CL} |-> IF msg[w].conn = c THEN cl_busy_threads[c] + 1
                                                        ELSE cl_busy_threads[c]]
        BY Zenon, <4>1, CounterTypes
      <4> QED
        BY <4>2, CounterTypes
    <3> QED
      BY Zenon, <3>1, <3>2
  <2>3. Follow(w, "serve")
    BY <1>1, <2>1, <2>2, CounterTypes DEF Follow, Bit, Live, Busy, Asleep
  <2> QED
    BY Zenon, <1>1, <1>2, <2>1, <2>2, <2>3, ThreadKeeps
    DEF IInv, TypeOK, Labels, queueVars
<1>4. CASE ServeEnd(w)
  <2>1. ThreadOnly(w, "served") /\ wpc[w] = "serve"
    BY Zenon, <1>4 DEF ServeEnd, ThreadOnly, queueVars
  <2>2. /\ cl_busy_threads' \in [Conn \ {CL} -> Int]
        /\ \A c \in Conn \ {CL} : cl_busy_threads'[c] =
              IF msg[w].conn = c THEN cl_busy_threads[c] - 1 ELSE cl_busy_threads[c]
    <3>1. CASE msg[w].conn = CL
      BY <1>4, <3>1, CounterTypes DEF ServeEnd
    <3>2. CASE msg[w].conn # CL
      <4>1. cl_busy_threads' =
              [cl_busy_threads EXCEPT ![msg[w].conn] = cl_busy_threads[msg[w].conn] - 1]
        BY Zenon, <1>4, <3>2 DEF ServeEnd
      <4>2. cl_busy_threads' =
              [c \in Conn \ {CL} |-> IF msg[w].conn = c THEN cl_busy_threads[c] - 1
                                                        ELSE cl_busy_threads[c]]
        BY Zenon, <4>1, CounterTypes
      <4> QED
        BY <4>2, CounterTypes
    <3> QED
      BY Zenon, <3>1, <3>2
  <2>3. Follow(w, "served")
    BY <1>1, <2>1, <2>2, CounterTypes DEF Follow, Bit, Live, Busy, Asleep
  <2> QED
    BY Zenon, <1>1, <1>2, <2>1, <2>2, <2>3, ThreadKeeps
    DEF IInv, TypeOK, Labels, queueVars
<1> QED
  BY Zenon, <1>3, <1>4

LEMMA FinishKeeps == ASSUME IInv, NEW w \in Worker, Finish(w) PROVE IInv'
<1>1. /\ wpc[w] = "served" /\ busy' = busy - 1 /\ msg' = [msg EXCEPT ![w] = NoItem]
      /\ UNCHANGED <<queueVars, put_wait, no_threads, cl_busy_threads, put_cv>>
  BY Zenon DEF Finish
<1>2. ThreadOnly(w, "top")
  BY Zenon DEF Finish, ThreadOnly, queueVars, IInv, TypeOK
<1>3. Follow(w, "top")
  BY <1>1, NotServing, CounterTypes DEF Follow, Bit, Live, Busy, Asleep
<1>4. get_cv' \subseteq Conn
  BY Zenon, SignalSubset DEF Finish, SignalGet, IInv, TypeOK
<1>5. QueueInOrder' /\ ItemsCover'
  BY Zenon, <1>1 DEF IInv, QueueInOrder, ItemsCover, queueVars
<1>6. NoItem \in Item
  BY DEF NoItem, Item
<1>7. msg' \in [Worker -> Item]
  BY Zenon, <1>1, <1>6 DEF IInv, TypeOK
<1> QED
  BY Zenon, <1>1, <1>2, <1>3, <1>4, <1>5, <1>7, ThreadKeeps, CounterTypes
  DEF IInv, TypeOK, Labels, queueVars

LEMMA WorkerKeeps == ASSUME IInv, NEW w \in Worker, WorkerStep(w) PROVE IInv'
BY Zenon, StartKeeps, TerminatedKeeps, DequeueKeeps, EmptyKeeps, AsleepKeeps,
   WokenKeeps, ServeKeeps, FinishKeeps DEF WorkerStep

-----------------------------------------------------------------------------
(* Steps of the readers.                                                     *)

NoneCreated == \A w \in Worker : wpc[w] # "created"

\* A step that changes no thread and no counter.
LEMMA ReaderOnly ==
    ASSUME IInv,
           UNCHANGED <<put_wait, busy, no_threads, cl_busy_threads, owner, wpc, msg>>,
           list' \in Seq(Item), items' \in Nat, current_item' \in Nat, next_item' \in Nat,
           flag' \in {"NULL", "MOUNT", "UMOUNT"}, state' = state,
           m_cl_init' \in Conn \cup {None}, put_cv' \subseteq Worker,
           get_cv' \subseteq Conn, todo' \in [Conn -> Nat], breaks' \in 0..MaxBreaks,
           rpc' \in [Conn -> RLabels],
           QueueInOrder', ItemsCover', CreatedAwaited', PoolReaped'
    PROVE  IInv'
<1>1. TypeOK'
  BY Zenon DEF IInv, TypeOK, RLabels
<1>2. CountersAgree'
  BY Zenon DEF IInv, CountersAgree, At
<1>3. Owned'
  BY Zenon DEF IInv, Owned
<1> QED
  BY Zenon, <1>1, <1>2, <1>3 DEF IInv

\* sam_init_thread: a step that creates a thread.
LEMMA ReaderCreates ==
    ASSUME IInv, NEW c \in Conn, sam_init_thread(c),
           UNCHANGED <<put_wait, busy, no_threads, cl_busy_threads, owner, msg>>,
           list' \in Seq(Item), items' \in Nat, current_item' \in Nat, next_item' \in Nat,
           m_cl_init' \in Conn \cup {None}, put_cv' \subseteq Worker,
           todo' \in [Conn -> Nat], breaks' = breaks,
           rpc' \in [Conn -> RLabels],
           rpc'[c] \in {"init", "spawn"}, Conn = {CL} => NoneCreated,
           QueueInOrder', ItemsCover'
    PROVE  IInv'
<1>1. PICK w \in Worker : wpc[w] = "none" /\ wpc' = [wpc EXCEPT ![w] = "created"]
  BY Zenon DEF sam_init_thread
<1>2. wpc'[w] = "created" /\ \A v \in Worker \ {w} : wpc'[v] = wpc[v]
  BY Zenon, <1>1 DEF IInv, TypeOK
<1>3. Follow(w, "created")
  BY <1>1, NotServing, CounterTypes DEF Follow, Bit, Live, Busy, Asleep
<1>4. CountersAgree'
  BY Zenon, <1>1, <1>3, Recount DEF Labels
<1>5. TypeOK'
  <2>1. wpc' \in [Worker -> Labels]
    BY Zenon, <1>1 DEF IInv, TypeOK, Labels
  <2>2. get_cv' \subseteq Conn
    BY Zenon DEF IInv, TypeOK, sam_init_thread
  <2> QED
    BY Zenon, <2>1, <2>2 DEF IInv, TypeOK, sam_init_thread, Labels, RLabels
<1>6. Owned'
  BY Zenon, <1>1, <1>2 DEF IInv, Owned
<1>7. CreatedAwaited'
  BY Zenon, <1>2 DEF CreatedAwaited, NoneCreated, sam_init_thread
<1>8. PoolReaped'
  BY Zenon DEF PoolReaped
<1> QED
  BY Zenon, <1>4, <1>5, <1>6, <1>7, <1>8 DEF IInv

\* With one reader, when it is not creating threads none is about to start.
LEMMA AllStarted ==
    ASSUME IInv, NEW c \in Conn, Conn = {CL},
           rpc[c] \notin {"init", "spawn"} \/ state = "EXIST"
    PROVE  NoneCreated
BY Zenon DEF IInv, CreatedAwaited, NoneCreated

LEMMA NoThreads ==
    ASSUME IInv, no_threads = 0, NoneCreated PROVE At({"none"}) = Worker
<1>1. At({"top", "gap", "wait", "got", "serve", "served"}) = {}
  <2>1. /\ At({"top", "gap", "wait", "got", "serve", "served"}) \in SUBSET Worker
        /\ Cardinality(At({"top", "gap", "wait", "got", "serve", "served"})) = 0
    BY Zenon DEF IInv, CountersAgree, At
  <2> QED
    BY Zenon, <2>1, SetsFinite, FS_EmptySet
<1>2. \A w \in Worker : wpc[w] = "none"
  BY <1>1 DEF At, IInv, TypeOK, NoneCreated
<1> QED
  BY <1>2 DEF At

\* The reader's labels when it goes from one to another.
LEMMA ReaderMoves ==
    ASSUME IInv, NEW c \in Conn,
           NEW r \in RLabels,
           rpc' = [rpc EXCEPT ![c] = r]
    PROVE  /\ rpc'[c] = r
           /\ rpc' \in [Conn -> RLabels]
BY Zenon DEF IInv, TypeOK, RLabels

\* A step of a reader that is alone, does not wait for a thread and does not end.
LEMMA AloneMoves ==
    ASSUME IInv, NEW c \in Conn, wpc' = wpc, state' = state,
           rpc[c] \notin {"init", "spawn"} \/ state = "EXIST",
           Conn = {CL} /\ rpc'[c] \in {"drain", "closed"} =>
              rpc[c] \in {"drain", "closed"} \/ no_threads = 0
    PROVE  CreatedAwaited' /\ PoolReaped'
<1>1. Conn = {CL} => NoneCreated /\ c = CL
  BY Zenon, AllStarted
<1>2. CreatedAwaited'
  BY Zenon, <1>1 DEF CreatedAwaited, NoneCreated
<1>3. Conn = {CL} /\ rpc'[CL] \in {"drain", "closed"} => At({"none"}) = Worker
  BY Zenon, <1>1, NoThreads DEF IInv, PoolReaped
<1> QED
  BY Zenon, <1>2, <1>3 DEF PoolReaped, At

LEMMA StartThreadsKeeps == ASSUME IInv, NEW c \in Conn, StartThreads(c) PROVE IInv'
<1>1. /\ rpc[c] = "closed"
      /\ UNCHANGED <<queueVars, put_wait, busy, no_threads, cl_busy_threads, owner,
                     msg, put_cv, breaks>>
  BY Zenon DEF StartThreads
<1>2. QueueInOrder' /\ ItemsCover'
  BY Zenon, <1>1 DEF IInv, QueueInOrder, ItemsCover, queueVars
<1>3. CASE no_threads = 0
  <2>1. /\ m_cl_init' = c /\ sam_init_thread(c)
        /\ rpc' = [rpc EXCEPT ![c] = "init"]
        /\ todo' = [todo EXCEPT ![c] = MinPool - 1]
    BY Zenon, <1>3 DEF StartThreads
  <2>2. todo' \in [Conn -> Nat]
    <3>1. MinPool - 1 \in Nat
      BY PoolAssumption
    <3> QED
      BY Zenon, <2>1, <3>1 DEF IInv, TypeOK
  <2>3. Conn = {CL} => NoneCreated
    BY Zenon, <1>1, AllStarted
  <2>4. rpc'[c] = "init"
        /\ rpc' \in [Conn -> RLabels]
    BY Zenon, <2>1, ReaderMoves DEF RLabels
  <2> QED
    BY Zenon, <1>1, <1>2, <2>1, <2>2, <2>3, <2>4, ReaderCreates
    DEF IInv, TypeOK, queueVars
<1>4. CASE no_threads # 0
  <2>1. /\ rpc' = [rpc EXCEPT ![c] = "read"]
        /\ UNCHANGED <<m_cl_init, flag, state, wpc, get_cv, todo>>
    BY Zenon, <1>4 DEF StartThreads
  <2>2. rpc'[c] = "read"
        /\ rpc' \in [Conn -> RLabels]
    BY Zenon, <2>1, ReaderMoves DEF RLabels
  <2>3. CreatedAwaited' /\ PoolReaped'
    BY Zenon, <1>1, <2>1, <2>2, AloneMoves
  <2> QED
    BY Zenon, <1>1, <1>2, <2>1, <2>2, <2>3, ReaderOnly
    DEF IInv, TypeOK, queueVars, RLabels
<1> QED
  BY Zenon, <1>3, <1>4

LEMMA ThreadExistsKeeps == ASSUME IInv, NEW c \in Conn, ThreadExists(c) PROVE IInv'
<1>1. /\ rpc[c] \in {"init", "spawn"}
      /\ UNCHANGED <<queueVars, put_wait, busy, no_threads, cl_busy_threads, owner,
                     msg, breaks>>
  BY Zenon DEF ThreadExists
<1>2. QueueInOrder' /\ ItemsCover'
  BY Zenon, <1>1 DEF IInv, QueueInOrder, ItemsCover, queueVars
<1>3. CASE /\ get_cv' = get_cv \cup {c}
           /\ UNCHANGED <<flag, state, wpc, rpc, todo, m_cl_init, put_cv>>
  <2>1. CreatedAwaited' /\ PoolReaped'
    BY Zenon, <1>3 DEF IInv, CreatedAwaited, PoolReaped, At
  <2>2. get_cv' \subseteq Conn
    BY Zenon, <1>3 DEF IInv, TypeOK
  <2> QED
    BY Zenon, <1>1, <1>2, <1>3, <2>1, <2>2, ReaderOnly
    DEF IInv, TypeOK, queueVars, RLabels
<1>4. CASE /\ state = "EXIST" /\ todo[c] > 0
           /\ sam_init_thread(c)
           /\ todo' = [todo EXCEPT ![c] = @ - 1]
           /\ UNCHANGED <<rpc, m_cl_init, put_cv>>
  <2>1. todo' \in [Conn -> Nat]
    <3>1. todo[c] - 1 \in Nat
      BY <1>4 DEF IInv, TypeOK
    <3> QED
      BY Zenon, <1>4, <3>1 DEF IInv, TypeOK
  <2>2. Conn = {CL} => NoneCreated
    BY Zenon, <1>4, AllStarted
  <2> QED
    BY Zenon, <1>1, <1>2, <1>4, <2>1, <2>2, ReaderCreates
    DEF IInv, TypeOK, queueVars, RLabels
<1>5. CASE /\ state = "EXIST" /\ todo[c] = 0
           /\ rpc' = [rpc EXCEPT ![c] = "read"]
           /\ IF rpc[c] = "init" THEN m_cl_init' = None /\ UNCHANGED put_cv
              ELSE SignalPut /\ UNCHANGED m_cl_init
           /\ UNCHANGED <<flag, state, wpc, todo, get_cv>>
  <2>1. m_cl_init' \in Conn \cup {None} /\ put_cv' \subseteq Worker
    BY Zenon, <1>5, SignalSubset DEF IInv, TypeOK, SignalPut
  <2>2. rpc'[c] = "read"
        /\ rpc' \in [Conn -> RLabels]
    BY Zenon, <1>5, ReaderMoves DEF RLabels
  <2>3. CreatedAwaited' /\ PoolReaped'
    BY Zenon, <1>1, <1>5, <2>2, AloneMoves
  <2> QED
    BY Zenon, <1>1, <1>2, <1>5, <2>1, <2>2, <2>3, ReaderOnly
    DEF IInv, TypeOK, queueVars
<1> QED
  BY Zenon, <1>3, <1>4, <1>5 DEF ThreadExists

\* An item is put on the queue: the queue's counters stay in order.
LEMMA AppendInOrder ==
    ASSUME IInv, NEW c \in Conn,
           list' = Append(list, [count |-> next_item, conn |-> c]),
           next_item' = next_item + 1, items' = items + 1, current_item' = current_item
    PROVE  /\ QueueInOrder' /\ ItemsCover' /\ list' \in Seq(Item)
           /\ items' \in Nat /\ next_item' \in Nat /\ current_item' \in Nat
<1> DEFINE it == [count |-> next_item, conn |-> c]
<1>1. list \in Seq(Item) /\ items \in Nat /\ current_item \in Nat /\ next_item \in Nat
  BY Zenon DEF IInv, TypeOK
<1>2. it \in Item /\ it.count = next_item
  BY <1>1 DEF Item
<1> HIDE DEF it
<1>3. list' = Append(list, it)
  BY Zenon DEF it
<1>4. Len(list) \in Nat /\ DOMAIN list = 1..Len(list)
  BY <1>1
<1>5. /\ list' \in Seq(Item) /\ Len(list') = Len(list) + 1
      /\ DOMAIN list' = 1..(Len(list) + 1)
      /\ list'[Len(list) + 1] = it
      /\ \A i \in 1..Len(list) : list'[i] = list[i]
  BY <1>1, <1>2, <1>3
<1>6. ItemsCover' /\ items' \in Nat /\ next_item' \in Nat /\ current_item' \in Nat
  BY <1>1, <1>4, <1>5 DEF IInv, ItemsCover
<1>7. next_item = current_item + Len(list)
  BY Zenon DEF IInv, QueueInOrder
<1>8. next_item' = current_item' + Len(list')
  BY <1>1, <1>4, <1>5, <1>7
<1>9. \A i \in DOMAIN list' : list'[i].count = current_item' + i - 1
  <2> SUFFICES ASSUME NEW i \in 1..(Len(list) + 1)
               PROVE  list'[i].count = current_item' + i - 1
    BY Zenon, <1>5
  <2>1. CASE i = Len(list) + 1
    BY <1>1, <1>2, <1>4, <1>5, <1>7, <2>1
  <2>2. CASE i \in 1..Len(list)
    <3>1. list[i].count = current_item + i - 1
      BY Zenon, <1>4, <2>2 DEF IInv, QueueInOrder
    <3> QED
      BY Zenon, <1>5, <2>2, <3>1
  <2> QED
    BY <1>4, <2>1, <2>2
<1> QED
  BY Zenon, <1>5, <1>6, <1>8, <1>9 DEF QueueInOrder

LEMMA EnqueueKeeps == ASSUME IInv, NEW c \in Conn, Enqueue(c) PROVE IInv'
<1>1. /\ rpc[c] = "read"
      /\ UNCHANGED <<current_item, put_wait, busy, no_threads, cl_busy_threads,
                     owner, m_cl_init, msg, breaks>>
  BY Zenon DEF Enqueue
<1>2. /\ QueueInOrder' /\ ItemsCover' /\ list' \in Seq(Item)
      /\ items' \in Nat /\ next_item' \in Nat /\ current_item' \in Nat
  BY Zenon, AppendInOrder DEF Enqueue
<1>3. CASE /\ sam_init_thread(c)
           /\ rpc' = [rpc EXCEPT ![c] = "spawn"]
           /\ todo' = [todo EXCEPT ![c] = Incr - 1]
           /\ UNCHANGED put_cv
  <2>1. todo' \in [Conn -> Nat]
    <3>1. Incr - 1 \in Nat
      BY PoolAssumption
    <3> QED
      BY Zenon, <1>3, <3>1 DEF IInv, TypeOK
  <2>2. Conn = {CL} => NoneCreated
    BY Zenon, <1>1, AllStarted
  <2>3. rpc'[c] = "spawn" /\ rpc' \in [Conn -> RLabels]
    BY Zenon, <1>3, ReaderMoves DEF RLabels
  <2> QED
    BY Zenon, <1>1, <1>2, <1>3, <2>1, <2>2, <2>3, ReaderCreates DEF IInv, TypeOK
<1>4. CASE SignalPut /\ UNCHANGED <<flag, state, wpc, get_cv, rpc, todo>>
  <2>1. put_cv' \subseteq Worker
    BY Zenon, <1>4, SignalSubset DEF IInv, TypeOK, SignalPut
  <2>2. CreatedAwaited' /\ PoolReaped'
    BY Zenon, <1>1, <1>4, AloneMoves
  <2> QED
    BY Zenon, <1>1, <1>2, <1>4, <2>1, <2>2, ReaderOnly DEF IInv, TypeOK, RLabels
<1> QED
  BY Zenon, <1>3, <1>4 DEF Enqueue

LEMMA BreakKeeps == ASSUME IInv, NEW c \in Conn, Break(c) PROVE IInv'
<1>1. /\ rpc[c] = "read" /\ rpc' = [rpc EXCEPT ![c] = "idle"]
      /\ UNCHANGED <<queueVars, counterVars, owner, m_cl_init, workerVars, put_cv,
                     todo, get_cv>>
  BY Zenon DEF Break
<1>2. breaks' \in 0..MaxBreaks
  BY PoolAssumption DEF Break, IInv, TypeOK
<1>3. rpc'[c] = "idle" /\ rpc' \in [Conn -> RLabels]
  BY Zenon, <1>1, ReaderMoves DEF RLabels
<1>4. CreatedAwaited' /\ PoolReaped'
  BY Zenon, <1>1, <1>3, AloneMoves DEF counterVars, workerVars
<1>5. QueueInOrder' /\ ItemsCover'
  BY Zenon, <1>1 DEF IInv, QueueInOrder, ItemsCover, queueVars
<1> QED
  BY Zenon, <1>1, <1>2, <1>3, <1>4, <1>5, ReaderOnly
  DEF IInv, TypeOK, queueVars, counterVars, workerVars

LEMMA WaitIdleKeeps == ASSUME IInv, NEW c \in Conn, WaitIdle(c) PROVE IInv'
<1>1. /\ rpc[c] = "idle" /\ get_cv' \subseteq get_cv \cup {c}
      /\ UNCHANGED <<queueVars, counterVars, owner, m_cl_init, workerVars, put_cv,
                     todo, breaks>>
  BY Zenon DEF WaitIdle
<1>2. \/ rpc' = rpc
      \/ c = CL /\ rpc' = [rpc EXCEPT ![c] = "reap"]
      \/ c # CL /\ rpc' = [rpc EXCEPT ![c] = "drain"]
  BY Zenon DEF WaitIdle
<1>3. rpc' \in [Conn -> RLabels] /\ (Conn = {CL} => rpc'[c] \in {"idle", "reap"})
  BY Zenon, <1>1, <1>2, ReaderMoves DEF RLabels, IInv, TypeOK
<1>4. CreatedAwaited' /\ PoolReaped'
  BY Zenon, <1>1, <1>3, AloneMoves DEF counterVars, workerVars
<1>5. QueueInOrder' /\ ItemsCover'
  BY Zenon, <1>1 DEF IInv, QueueInOrder, ItemsCover, queueVars
<1>6. get_cv' \subseteq Conn
  BY Zenon, <1>1 DEF IInv, TypeOK
<1> QED
  BY Zenon, <1>1, <1>3, <1>4, <1>5, <1>6, ReaderOnly
  DEF IInv, TypeOK, queueVars, counterVars, workerVars

LEMMA ReapKeeps ==
    ASSUME IInv, NEW c \in Conn, Reap(c) \/ Reaping(c) PROVE IInv'
<1>1. /\ rpc[c] \in {"reap", "reaping"} /\ get_cv' \subseteq get_cv \cup {c}
      /\ put_cv' \subseteq put_cv /\ m_cl_init' \in {m_cl_init, c, None}
      /\ flag' \in {flag, "UMOUNT", "NULL"}
      /\ UNCHANGED <<queueVars, put_wait, busy, no_threads, state, cl_busy_threads,
                     owner, workerVars, todo, breaks>>
  BY Zenon DEF Reap, Reaping
<1>2. \/ rpc' = rpc
      \/ rpc' = [rpc EXCEPT ![c] = "reaping"]
      \/ no_threads = 0 /\ rpc' = [rpc EXCEPT ![c] = "drain"]
  BY Zenon DEF Reap, Reaping
<1>3. /\ rpc' \in [Conn -> RLabels]
      /\ rpc'[c] \in {"reap", "reaping"} \/ no_threads = 0
  BY Zenon, <1>1, <1>2, ReaderMoves DEF RLabels, IInv, TypeOK
<1>4. CreatedAwaited' /\ PoolReaped'
  BY Zenon, <1>1, <1>3, AloneMoves DEF workerVars
<1>5. QueueInOrder' /\ ItemsCover'
  BY Zenon, <1>1 DEF IInv, QueueInOrder, ItemsCover, queueVars
<1>6. /\ get_cv' \subseteq Conn /\ put_cv' \subseteq Worker
      /\ m_cl_init' \in Conn \cup {None} /\ flag' \in {"NULL", "MOUNT", "UMOUNT"}
  BY Zenon, <1>1 DEF IInv, TypeOK
<1> QED
  BY Zenon, <1>1, <1>3, <1>4, <1>5, <1>6, ReaderOnly
  DEF IInv, TypeOK, queueVars, workerVars

LEMMA DrainKeeps == ASSUME IInv, NEW c \in Conn, Drain(c) PROVE IInv'
<1>1. /\ rpc[c] = "drain" /\ rpc' = [rpc EXCEPT ![c] = "closed"]
      /\ list' = <<>> /\ current_item' = next_item
      /\ UNCHANGED <<items, next_item, counterVars, owner, m_cl_init, workerVars,
                     put_cv, todo, get_cv, breaks>>
  BY Zenon DEF Drain
<1>2. rpc'[c] = "closed" /\ rpc' \in [Conn -> RLabels]
  BY Zenon, <1>1, ReaderMoves DEF RLabels
<1>3. CreatedAwaited' /\ PoolReaped'
  BY Zenon, <1>1, <1>2, AloneMoves DEF counterVars, workerVars
<1>4. QueueInOrder' /\ ItemsCover' /\ list' \in Seq(Item)
  BY <1>1 DEF IInv, TypeOK, QueueInOrder, ItemsCover
<1> QED
  BY Zenon, <1>1, <1>2, <1>3, <1>4, ReaderOnly
  DEF IInv, TypeOK, counterVars, workerVars

-----------------------------------------------------------------------------
(* The theorems.                                                             *)

LEMMA InitInv == ASSUME Init PROVE IInv
<1>1. TypeOK
  <2>1. /\ list \in Seq(Item) /\ cl_busy_threads \in [Conn \ {CL} -> Nat]
        /\ todo \in [Conn -> Nat] /\ breaks \in 0..MaxBreaks
        /\ items \in Nat /\ current_item \in Nat /\ next_item \in Nat
        /\ put_wait \in Nat /\ busy \in Nat /\ no_threads \in Nat
    BY PoolAssumption DEF Init
  <2>2. msg \in [Worker -> Item]
    BY DEF Init, NoItem, Item
  <2> QED
    BY Zenon, <2>1, <2>2 DEF Init, TypeOK
<1>2. CountersAgree
  <2>1. \A L : "none" \notin L => At(L) = {}
    BY DEF Init, At
  <2>2. \A c : {w \in At({"serve"}) : msg[w].conn = c} = {}
    BY <2>1
  <2>3. Cardinality({}) = 0
    BY Zenon, FS_EmptySet
  <2>4. \A c \in Conn \ {CL} : cl_busy_threads[c] = 0
    BY Zenon DEF Init
  <2>5. /\ At({"top", "gap", "wait", "got", "serve", "served"}) = {}
        /\ At({"got", "serve", "served"}) = {} /\ At({"gap", "wait"}) = {}
    BY Zenon, <2>1
  <2> QED
    BY Zenon, <2>2, <2>3, <2>4, <2>5 DEF Init, CountersAgree
<1>3. Owned
  BY Zenon, PoolAssumption DEF Init, Owned
<1>4. QueueInOrder /\ ItemsCover
  BY DEF Init, QueueInOrder, ItemsCover
<1>5. CreatedAwaited /\ PoolReaped
  BY DEF Init, CreatedAwaited, PoolReaped, At
<1> QED
  BY Zenon, <1>1, <1>2, <1>3, <1>4, <1>5 DEF IInv

LEMMA NextInv == ASSUME IInv, [Next]_vars PROVE IInv'
<1>1. CASE Next
  BY Zenon, <1>1, WorkerKeeps, StartThreadsKeeps, ThreadExistsKeeps, EnqueueKeeps,
     BreakKeeps, WaitIdleKeeps, ReapKeeps, DrainKeeps DEF Next, ReaderStep
<1>2. CASE UNCHANGED vars
  BY ZenonT(30), <1>2 DEF IInv, TypeOK, CountersAgree, Owned, QueueInOrder, ItemsCover,
     CreatedAwaited, PoolReaped, At, vars, queueVars, counterVars, workerVars
<1> QED
  BY Zenon, <1>1, <1>2

LEMMA AlwaysInv == Spec => []IInv
BY InitInv, NextInv, PTL DEF Spec

\* no_threads, busy, put_wait and each client's busy threads count the pool
\* threads that they stand for, whichever way threads
\* start, end, sleep and wake up while readers come and go.
THEOREM CountersAlwaysAgree == Spec => []CountersAgree
<1>1. IInv => CountersAgree
  BY Zenon DEF IInv
<1> QED
  BY <1>1, AlwaysInv, PTL

\* Threads, sockets and queue have their types: no counter of the pool is ever
\* taken below zero, though readers give theirs up without the pool's mutex.
THEOREM PoolTyped == Spec => []TypeOK
<1>1. IInv => TypeOK
  BY Zenon DEF IInv
<1> QED
  BY <1>1, AlwaysInv, PTL

\* The assertion of sam_sharefs_thread on the item that it takes off the queue
\* never fails.
THEOREM ItemsInOrder == Spec => []QueueInOrder
<1>1. IInv => QueueInOrder
  BY Zenon DEF IInv
<1> QED
  BY <1>1, AlwaysInv, PTL

\* sam_kill_threads returns when no thread of the pool is left, not even one
\* that was created and has not started.
THEOREM NobodyOutlivesThePool == Spec => []PoolReaped
<1>1. IInv => PoolReaped
  BY Zenon DEF IInv
<1> QED
  BY <1>1, AlwaysInv, PTL
=============================================================================
