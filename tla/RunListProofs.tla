--------------------------- MODULE RunListProofs ----------------------------
(***************************************************************************)
(* The linked run queue of scheduler.c implements the sequence of          *)
(* Scheduler, for every number of threads.                                 *)
(*                                                                         *)
(* ListIsQueue is not inductive alone: enqueueing a thread that is already *)
(* queued would cut the list.  That it never happens is RunQueueExact, so  *)
(* the induction carries the invariant IInv of the scheduler along.        *)
(***************************************************************************)
EXTENDS RunList, SchedulerProofs

\* A leaf that names no prover is left to SMT, with time to spare.
USE SMTT(30)

LinksTypeOK ==
    /\ g_runq_head \in 0..MaxThreads
    /\ g_runq_tail \in 0..MaxThreads
    /\ next \in [Ids -> 0..MaxThreads]

ListInv == LinksTypeOK /\ ListIsQueue

\* No thread has the number of the null pointer.
LEMMA NullIsNoThread == NoThread \notin Ids /\ Ids \subseteq 0..MaxThreads
                        /\ NoThread \in 0..MaxThreads
  BY MaxThreadsAssumption DEF NoThread, Ids

\* The initial list is empty, as the queue is.
LEMMA ListInitInv == ListInit => ListInv
  BY NullIsNoThread DEF ListInit, Init, ListInv, LinksTypeOK, ListIsQueue

\* rr_scheduler_enqueue appends to the list what it appends to the queue,
\* provided the thread is not in the queue.
LEMMA EnqueueInv ==
    ASSUME TypeOK, ListInv, NEW ut \in Ids,
           \A i \in DOMAIN g_runq : g_runq[i] # ut,
           g_runq' = Append(g_runq, ut),
           ListEnqueue(ut)
    PROVE  ListInv'
<1> DEFINE n == Len(g_runq)
           r == Append(g_runq, ut)
<1>1. /\ g_runq \in Seq(Ids)
      /\ n \in Nat
      /\ DOMAIN g_runq = 1..n
      /\ \A i \in 1..n : g_runq[i] \in Ids
      /\ Len(r) = n + 1
      /\ \A i \in 1..n : r[i] = g_runq[i]
      /\ r[n + 1] = ut
  BY AppendMembers DEF TypeOK
<1> HIDE DEF n, r
<1>2. /\ next \in [Ids -> 0..MaxThreads]
      /\ ut \in 0..MaxThreads
      /\ NoThread \notin Ids
      /\ NoThread \in 0..MaxThreads
      /\ g_runq_tail' = ut
      /\ g_runq' = r
  BY NullIsNoThread DEF ListInv, LinksTypeOK, ListEnqueue, r
<1>3. CASE g_runq_tail = NoThread
  <2>1. n = 0
    BY <1>1, <1>2, <1>3 DEF ListInv, ListIsQueue, n
  <2>2. /\ next' = [next EXCEPT ![ut] = NoThread]
        /\ g_runq_head' = ut
    BY <1>3 DEF ListEnqueue
  <2>3. LinksTypeOK'
    BY <1>2, <2>2 DEF LinksTypeOK
  <2>4. next'[ut] = NoThread
    BY <1>2, <2>2
  <2>5. Len(r) = 1 /\ r[1] = ut /\ 1..(1 - 1) = {}
    BY <1>1, <2>1
  <2>6. ListIsQueue'
    BY <1>2, <2>2, <2>4, <2>5 DEF ListIsQueue
  <2> QED BY <2>3, <2>6 DEF ListInv
<1>4. CASE g_runq_tail # NoThread
  <2>1. /\ n > 0
        /\ g_runq_tail = g_runq[n]
        /\ g_runq_head = g_runq[1]
        /\ \A i \in 1..(n - 1) : next[g_runq[i]] = g_runq[i + 1]
    BY <1>1, <1>4 DEF ListInv, ListIsQueue, n
  <2>2. /\ next' = [next EXCEPT ![ut] = NoThread, ![g_runq_tail] = ut]
        /\ g_runq_head' = g_runq_head
    BY <1>4 DEF ListEnqueue
  <2>3. g_runq_tail \in Ids /\ g_runq_tail # ut
    BY <1>1, <2>1
  <2>4. /\ \A t \in Ids : next'[t] = IF t = g_runq_tail THEN ut
                                     ELSE IF t = ut THEN NoThread
                                     ELSE next[t]
        /\ next' \in [Ids -> 0..MaxThreads]
    BY <1>2, <2>2, <2>3
  <2>5. LinksTypeOK'
    BY <1>2, <2>2, <2>4 DEF LinksTypeOK, ListInv
  <2>6. ASSUME NEW i \in 1..n
        PROVE  next'[r[i]] = r[i + 1]
    <3>1. CASE i = n
      BY <1>1, <2>1, <2>3, <2>4, <3>1
    <3>2. CASE i # n
      <4>1. i \in 1..(n - 1) /\ n \in 1..n /\ i \in 1..n /\ i + 1 \in 1..n
        BY <1>1, <3>2
      <4>2. g_runq[i] # g_runq_tail
        <5>1. next[g_runq_tail] = NoThread
          BY <1>1, <2>1 DEF ListInv, ListIsQueue, n
        <5>2. next[g_runq[i]] = g_runq[i + 1] /\ g_runq[i + 1] \in Ids
          BY <1>1, <2>1, <4>1
        <5> QED BY <1>2, <5>1, <5>2
      <4>3. g_runq[i] # ut /\ g_runq[i] \in Ids
        BY <1>1, <4>1
      <4> QED BY <1>1, <2>1, <2>4, <4>1, <4>2, <4>3, Zenon
    <3> QED BY <3>1, <3>2
  <2>7. /\ next'[r[n + 1]] = NoThread
        /\ g_runq_head' = r[1]
    BY <1>1, <2>1, <2>2, <2>3, <2>4
  <2> QED BY <1>1, <1>2, <2>5, <2>6, <2>7 DEF ListInv, ListIsQueue
<1> QED BY <1>3, <1>4

\* runq_pop_front takes from the list what the sequence has at its head.
LEMMA PopInv ==
    ASSUME IInv, ListInv, g_runq_head # NoThread,
           g_runq' = Tail(g_runq),
           runq_pop_front
    PROVE  ListInv'
<1> DEFINE n == Len(g_runq)
           r == Tail(g_runq)
<1>1. g_runq \in Seq(Ids) /\ g_runq # <<>>
  BY DEF IInv, TypeOK, ListInv, ListIsQueue
<1>2. /\ n \in Nat \ {0}
      /\ DOMAIN g_runq = 1..n
      /\ \A i \in 1..n : g_runq[i] \in Ids
      /\ Len(r) = n - 1
      /\ \A i \in 1..(n - 1) : r[i] = g_runq[i + 1]
      /\ g_runq' = r
  BY <1>1, TailMembers
<1> HIDE DEF n, r
<1>3. /\ g_runq_head = g_runq[1]
      /\ g_runq_tail = g_runq[n]
      /\ next[g_runq[n]] = NoThread
      /\ \A i \in 1..(n - 1) : next[g_runq[i]] = g_runq[i + 1]
      /\ \A i, j \in 1..n : g_runq[i] = g_runq[j] => i = j
      /\ next \in [Ids -> 0..MaxThreads]
      /\ g_runq_tail \in 0..MaxThreads
      /\ g_runq_head \in Ids
  <2>1. n > 0 /\ 1 \in 1..n
    BY <1>2
  <2>2. /\ g_runq_head = g_runq[1]
        /\ g_runq_tail = g_runq[n]
        /\ next[g_runq[n]] = NoThread
        /\ \A i \in 1..(n - 1) : next[g_runq[i]] = g_runq[i + 1]
    BY <2>1 DEF ListInv, ListIsQueue, n
  <2>3. \A i, j \in 1..n : g_runq[i] = g_runq[j] => i = j
    BY <1>2 DEF IInv, RunQueueExact
  <2>4. /\ next \in [Ids -> 0..MaxThreads]
        /\ g_runq_tail \in 0..MaxThreads
    BY DEF ListInv, LinksTypeOK
  <2> QED BY <1>2, <2>1, <2>2, <2>3, <2>4
<1>4. /\ g_runq_head' = next[g_runq_head]
      /\ g_runq_tail' = IF next[g_runq_head] = NoThread THEN NoThread
                                                        ELSE g_runq_tail
      /\ next' = [next EXCEPT ![g_runq_head] = NoThread]
      /\ NoThread \notin Ids
      /\ NoThread \in 0..MaxThreads
  BY NullIsNoThread DEF runq_pop_front
<1>5. /\ \A t \in Ids : next'[t] = IF t = g_runq_head THEN NoThread ELSE next[t]
      /\ LinksTypeOK'
  BY <1>3, <1>4 DEF LinksTypeOK
<1>6. CASE n = 1
  <2>1. Len(r) = 0 /\ 1..(0 - 1) = {}
    BY <1>2, <1>6
  <2>2. g_runq_head' = NoThread /\ g_runq_tail' = NoThread
    BY <1>3, <1>4, <1>6
  <2>3. ListIsQueue'
    BY <1>2, <2>1, <2>2 DEF ListIsQueue
  <2> QED BY <1>5, <2>3 DEF ListInv
<1>7. CASE n # 1
  <2>1. /\ 1 \in 1..(n - 1) /\ n - 1 \in 1..(n - 1) /\ n - 1 > 0
        /\ n \in 1..n /\ 1 \in 1..n /\ 2 \in 1..n /\ (n - 1) + 1 = n
    BY <1>2, <1>7
  <2>2. next[g_runq_head] = g_runq[2] /\ g_runq[2] \in Ids
    BY <1>2, <1>3, <2>1
  <2>3. g_runq_head' = r[1] /\ g_runq_tail' = r[n - 1]
    BY <1>2, <1>3, <1>4, <2>1, <2>2
  <2>4. \A i \in 1..(n - 1) : i + 1 \in 1..n /\ r[i] \in Ids
                              /\ r[i] # g_runq_head
    BY <1>2, <1>3, <2>1
  <2>5. next'[r[n - 1]] = NoThread
    BY <1>2, <1>3, <1>5, <2>1, <2>4
  <2>6. ASSUME NEW i \in 1..((n - 1) - 1)
        PROVE  next'[r[i]] = r[i + 1]
    <3>1. /\ i \in 1..(n - 1) /\ i + 1 \in 1..(n - 1)
      BY <1>2, <2>1
    <3> QED BY <1>2, <1>3, <1>5, <2>4, <3>1
  <2>7. Len(r) = n - 1 /\ Len(r) # 0 /\ Len(r) > 0
    BY <1>2, <2>1
  <2>8. ListIsQueue'
    BY <1>2, <2>3, <2>5, <2>6, <2>7, Zenon DEF ListIsQueue
  <2> QED BY <1>5, <2>8 DEF ListInv
<1> QED BY <1>6, <1>7

\* A step that leaves the queue and the links alone.
LEMMA KeepInv ==
    ASSUME ListInv, UNCHANGED <<g_runq, linkVars>>
    PROVE  ListInv'
  BY DEF linkVars, ListInv, LinksTypeOK, ListIsQueue

\* Every step of the list scheduler is a step of Scheduler: its guards, which
\* read the list, say what Scheduler's say of the queue.
LEMMA ListStep ==
    ASSUME IInv, ListInv, ListNext
    PROVE  Next
<1>1. /\ g_runq_head = NoThread <=> g_runq = <<>>
      /\ g_runq # <<>> => g_runq_head = Head(g_runq)
  <2>1. g_runq \in Seq(Ids)
    BY DEF IInv, TypeOK
  <2>2. CASE g_runq = <<>>
    BY <2>2 DEF ListInv, ListIsQueue
  <2>3. CASE g_runq # <<>>
    <3>1. /\ Len(g_runq) > 0
          /\ g_runq[1] = Head(g_runq)
          /\ g_runq[1] \in Ids
      BY <2>1, <2>3, TailMembers
    <3> QED BY <2>3, <3>1, NullIsNoThread DEF ListInv, ListIsQueue
  <2> QED BY <2>2, <2>3
<1>2. CASE ListDispatch
  BY <1>1, <1>2 DEF ListDispatch, Dispatch, Next
<1>3. ASSUME NEW id \in Ids, ListIoWakes(id)
      PROVE  Next
  BY <1>1, <1>3 DEF ListIoWakes, IoWakes, Idle, Next
<1> QED
  BY <1>2, <1>3 DEF ListNext, ListCreate, ListYield, KeepsList, ListBlocks,
     ListReturns, ListExit, Next

\* The thread rr_scheduler_enqueue is given is in no queue: it was not
\* RUNNABLE.
LEMMA NotQueued ==
    ASSUME IInv, NEW t \in Ids, state[t] # "RUNNABLE"
    PROVE  \A i \in DOMAIN g_runq : g_runq[i] # t
  BY DEF IInv, RunQueueExact

\* Every step of the list scheduler keeps the list equal to the queue.
LEMMA ListNextInv ==
    ASSUME IInv, ListInv, [ListNext]_listVars
    PROVE  ListInv'
<1> USE DEF rr_scheduler_enqueue
<1>t. TypeOK
  BY DEF IInv
<1>c. AppRuns => g_current \in Ids /\ state[g_current] = "RUNNING"
  BY DEF IInv, OneRunning, AppRuns, TypeOK
<1>1. CASE ListCreate
  <2>1. g_next_id \in Ids /\ state[g_next_id] = "NONE"
    BY <1>1 DEF ListCreate, Create, IInv, CallMatchesState, TypeOK, Ids
  <2>2. CASE state' # state
    <3>1. ListEnqueue(g_next_id) /\ g_runq' = Append(g_runq, g_next_id)
      BY <1>1, <2>2 DEF ListCreate, Create
    <3> QED BY <1>t, <2>1, <3>1, NotQueued, EnqueueInv
  <2>3. CASE state' = state
    <3>1. UNCHANGED linkVars
      BY <1>1, <2>3 DEF ListCreate
    <3>2. state[g_next_id] # "RUNNABLE"
      BY <2>1
    <3>3. g_runq' = g_runq
      BY <1>1, <2>1, <2>3 DEF ListCreate, Create, IInv, TypeOK
    <3> QED BY <3>1, <3>3, KeepInv
  <2> QED BY <2>2, <2>3
<1>2. CASE ListYield
  <2>1. /\ ListEnqueue(g_current)
        /\ g_runq' = Append(g_runq, g_current)
        /\ g_current \in Ids /\ state[g_current] # "RUNNABLE"
    BY <1>2, <1>c DEF ListYield, Yield
  <2> QED BY <1>t, <2>1, NotQueued, EnqueueInv
<1>3. CASE \/ \E id \in Ids : KeepsList(JoinRefused(id))
           \/ \E id \in Ids : KeepsList(JoinFinished(id))
           \/ ListBlocks
           \/ ListReturns
  <2>1. UNCHANGED linkVars
    BY <1>3 DEF KeepsList, ListBlocks, ListReturns
  <2>2. g_runq' = g_runq
    BY <1>3 DEF KeepsList, ListBlocks, ListReturns, JoinRefused, JoinFinished,
       IoBlocks, JoinBlocks, rr_scheduler_block_current, JoinReturns, IoReturns
  <2> QED BY <2>1, <2>2, KeepInv
<1>4. ASSUME NEW v \in Retvals, ListExit(v)
      PROVE  ListInv'
  <2> DEFINE w == join_waiter[g_current]
  <2>1. g_current \in Ids
    BY <1>4, <1>c DEF ListExit, Exit
  <2>2. CASE w # NoThread /\ state[w] = "BLOCKED"
    <3>1. w \in Ids /\ state[w] # "RUNNABLE"
      BY <1>t, <2>1, <2>2, WaiterType
    <3>2. ListEnqueue(w) /\ g_runq' = Append(g_runq, w)
      BY <1>4, <2>2 DEF ListExit, Exit
    <3> QED BY <1>t, <3>1, <3>2, NotQueued, EnqueueInv
  <2>3. CASE ~(w # NoThread /\ state[w] = "BLOCKED")
    <3>1. UNCHANGED <<g_runq, linkVars>>
      BY <1>4, <2>3 DEF ListExit, Exit
    <3> QED BY <3>1, KeepInv
  <2> QED BY <2>2, <2>3
<1>5. CASE ListDispatch
  BY <1>5, PopInv DEF ListDispatch
<1>6. ASSUME NEW id \in Ids, ListIoWakes(id)
      PROVE  ListInv'
  <2>1. CASE state[id] = "BLOCKED"
    <3>1. ListEnqueue(id) /\ g_runq' = Append(g_runq, id)
      BY <1>6, <2>1 DEF ListIoWakes, Completes, rr_scheduler_wake_by_id
    <3>2. state[id] # "RUNNABLE"
      BY <2>1
    <3> QED BY <1>t, <3>1, <3>2, NotQueued, EnqueueInv
  <2>2. CASE state[id] # "BLOCKED"
    <3>1. UNCHANGED <<g_runq, linkVars>>
      BY <1>6, <2>2 DEF ListIoWakes, Completes, rr_scheduler_wake_by_id
    <3> QED BY <3>1, KeepInv
  <2> QED BY <2>1, <2>2
<1>7. CASE UNCHANGED listVars
  BY <1>7, KeepInv DEF listVars, schedVars
<1> QED BY <1>1, <1>2, <1>3, <1>4, <1>5, <1>6, <1>7 DEF ListNext

\* The links of uthread_t hold exactly the run queue, in its order, whatever
\* the threads do.
THEOREM ListSafe == ListSpec => []ListIsQueue
<1>1. ListInit => IInv /\ ListInv
  BY InitIInv, ListInitInv DEF ListInit
<1>2. IInv /\ ListInv /\ [ListNext]_listVars => IInv' /\ ListInv'
  <2> SUFFICES ASSUME IInv, ListInv, [ListNext]_listVars
               PROVE  IInv' /\ ListInv'
    OBVIOUS
  <2>1. [Next]_schedVars
    BY ListStep DEF listVars
  <2> QED BY <2>1, NextIInv, ListNextInv
<1>3. ListInv => ListIsQueue
  BY DEF ListInv
<1> QED BY <1>1, <1>2, <1>3, PTL DEF ListSpec

\* The scheduler that works on the list implements the one with the queue, so
\* every theorem about Scheduler holds of it.
THEOREM ListRefinement == ListSpec => ImplementsQueue
<1>1. ListInit => Init /\ IInv /\ ListInv
  BY InitIInv, ListInitInv DEF ListInit
<1>2. IInv /\ ListInv /\ [ListNext]_listVars
        => IInv' /\ ListInv' /\ [Next]_schedVars
  <2> SUFFICES ASSUME IInv, ListInv, [ListNext]_listVars
               PROVE  IInv' /\ ListInv' /\ [Next]_schedVars
    OBVIOUS
  <2>1. [Next]_schedVars
    BY ListStep DEF listVars
  <2> QED BY <2>1, NextIInv, ListNextInv
<1> QED BY <1>1, <1>2, PTL DEF ListSpec, ImplementsQueue, SchedulerSpec

\* The chain from the links of uthread_t up to what the application sees: the
\* scheduler that works on the list keeps the promises of the uthread API.
THEOREM ListKeepsApi == ListSpec => ImplementsApi
  BY ListRefinement, Refinement, PTL DEF ImplementsQueue

=============================================================================
