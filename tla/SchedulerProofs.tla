-------------------------- MODULE SchedulerProofs ---------------------------
(***************************************************************************)
(* What holds of Scheduler for every number of threads and every set of    *)
(* return values.  None of the safety invariants is inductive alone: a     *)
(* wake-up touches the run queue, the states and the join links at once,   *)
(* so they are proved together, as IInv.  The part of it that survives a   *)
(* wake-up at any time, which I/O causes, is CoreInv: IoRingProofs starts  *)
(* from it.                                                                *)
(***************************************************************************)
EXTENDS Scheduler, Integers, TLAPS

\* A leaf that names no prover is left to SMT, with time to spare.
USE SMTT(30)

IInv ==
    /\ TypeOK
    /\ RunQueueExact
    /\ OneRunning
    /\ JoinerHasWaker
    /\ JoinerSeesDone
    /\ WaiterIsJoining
    /\ CallMatchesState

-----------------------------------------------------------------------------
(* Facts about the run queue.                                              *)

\* What Append does to the members of a queue.
LEMMA AppendMembers ==
    ASSUME NEW S, NEW q \in Seq(S), NEW t \in S
    PROVE  /\ Append(q, t) \in Seq(S)
           /\ Len(Append(q, t)) = Len(q) + 1
           /\ DOMAIN Append(q, t) = 1..(Len(q) + 1)
           /\ \A i \in 1..Len(q) : Append(q, t)[i] = q[i]
           /\ Append(q, t)[Len(q) + 1] = t
  OBVIOUS

\* What removing the head does to the members of a queue.
LEMMA TailMembers ==
    ASSUME NEW S, NEW q \in Seq(S), q # <<>>
    PROVE  /\ Head(q) \in S
           /\ Head(q) = q[1]
           /\ Tail(q) \in Seq(S)
           /\ Len(q) \in Nat \ {0}
           /\ DOMAIN q = 1..Len(q)
           /\ DOMAIN Tail(q) = 1..(Len(q) - 1)
           /\ \A i \in 1..(Len(q) - 1) : Tail(q)[i] = q[i + 1]
  OBVIOUS

\* A queue of distinct RUNNABLE threads, complete for the state function st.
QueueOf(q, st) ==
    /\ \A i, j \in DOMAIN q : q[i] = q[j] => i = j
    /\ \A i \in DOMAIN q : st[q[i]] = "RUNNABLE"
    /\ \A t \in Ids : st[t] = "RUNNABLE" => \E i \in DOMAIN q : q[i] = t

States == {"NONE", "RUNNABLE", "RUNNING", "BLOCKED", "DONE"}

\* rr_scheduler_enqueue of a thread that was not RUNNABLE and now is keeps
\* the queue exact, whatever else becomes of threads that are not RUNNABLE.
LEMMA EnqueueExact ==
    ASSUME NEW q \in Seq(Ids), NEW t \in Ids,
           NEW st \in [Ids -> States],
           NEW st2 \in [Ids -> States],
           QueueOf(q, st),
           st[t] # "RUNNABLE",
           st2[t] = "RUNNABLE",
           \A u \in Ids \ {t} : st2[u] = "RUNNABLE" <=> st[u] = "RUNNABLE"
    PROVE  QueueOf(Append(q, t), st2)
<1> DEFINE r == Append(q, t)
<1>1. /\ DOMAIN r = 1..(Len(q) + 1)
      /\ \A i \in 1..Len(q) : r[i] = q[i]
      /\ r[Len(q) + 1] = t
      /\ Len(q) \in Nat
      /\ DOMAIN q = 1..Len(q)
      /\ \A i \in 1..Len(q) : q[i] \in Ids
  BY AppendMembers
<1> HIDE DEF r
<1>2. \A i \in 1..Len(q) : q[i] # t
  BY <1>1, ZenonT(60) DEF QueueOf
<1>3. \A i, j \in DOMAIN r : r[i] = r[j] => i = j
  BY <1>1, <1>2 DEF QueueOf
<1>4. \A i \in DOMAIN r : st2[r[i]] = "RUNNABLE"
  BY <1>1, <1>2 DEF QueueOf
<1>5. ASSUME NEW u \in Ids, st2[u] = "RUNNABLE"
      PROVE  \E i \in DOMAIN r : r[i] = u
  <2>1. CASE u = t
    <3>1. Len(q) + 1 \in DOMAIN r
      BY <1>1
    <3> QED BY <1>1, <2>1, <3>1
  <2>2. CASE u # t
    <3>1. PICK i \in DOMAIN q : q[i] = u
      BY <1>5, <2>2 DEF QueueOf
    <3> QED BY <1>1, <3>1
  <2> QED BY <2>1, <2>2
<1> QED BY <1>3, <1>4, <1>5 DEF QueueOf, r

\* runq_pop_front of a thread that stops being RUNNABLE keeps the queue exact.
LEMMA PopExact ==
    ASSUME NEW q \in Seq(Ids), q # <<>>,
           NEW st \in [Ids -> States],
           NEW st2 \in [Ids -> States],
           QueueOf(q, st),
           st2[Head(q)] # "RUNNABLE",
           \A u \in Ids \ {Head(q)} : st2[u] = st[u]
    PROVE  QueueOf(Tail(q), st2)
<1> DEFINE r == Tail(q)
<1>1. /\ Head(q) = q[1]
      /\ Len(q) \in Nat \ {0}
      /\ DOMAIN q = 1..Len(q)
      /\ DOMAIN r = 1..(Len(q) - 1)
      /\ \A i \in 1..(Len(q) - 1) : r[i] = q[i + 1]
      /\ \A i \in 1..Len(q) : q[i] \in Ids
  BY TailMembers
<1> HIDE DEF r
<1>2. \A i \in DOMAIN r : r[i] \in Ids \ {Head(q)}
  BY <1>1 DEF QueueOf
<1>3. ASSUME NEW i \in DOMAIN r, NEW j \in DOMAIN r, r[i] = r[j]
      PROVE  i = j
  <2>1. /\ i \in Int /\ i + 1 \in DOMAIN q
        /\ j \in Int /\ j + 1 \in DOMAIN q
        /\ q[i + 1] = q[j + 1]
    BY <1>1, <1>3
  <2>2. i + 1 = j + 1
    BY <2>1 DEF QueueOf
  <2> QED BY <2>1, <2>2
<1>4. \A i \in DOMAIN r : st2[r[i]] = "RUNNABLE"
  BY <1>1, <1>2 DEF QueueOf
<1>5. ASSUME NEW u \in Ids, st2[u] = "RUNNABLE"
      PROVE  \E i \in DOMAIN r : r[i] = u
  <2>1. u # Head(q) /\ st[u] = "RUNNABLE"
    BY <1>5
  <2>2. PICK i \in DOMAIN q : q[i] = u
    BY <2>1 DEF QueueOf
  <2>3. i - 1 \in DOMAIN r /\ r[i - 1] = u
    BY <1>1, <2>1, <2>2
  <2> QED BY <2>3
<1> QED BY <1>3, <1>4, <1>5 DEF QueueOf, r

\* A step that wakes t, which was not RUNNABLE, keeps the run queue exact.
LEMMA WakeExact ==
    ASSUME TypeOK, TypeOK', RunQueueExact, NEW t \in Ids,
           state[t] # "RUNNABLE",
           state'[t] = "RUNNABLE",
           \A u \in Ids \ {t} : state'[u] = "RUNNABLE" <=> state[u] = "RUNNABLE",
           g_runq' = rr_scheduler_enqueue(g_runq, t)
    PROVE  RunQueueExact'
<1>1. /\ g_runq \in Seq(Ids)
      /\ state \in [Ids -> States]
      /\ state' \in [Ids -> States]
  BY DEF TypeOK, States
<1>2. QueueOf(g_runq, state)
  BY DEF RunQueueExact, QueueOf
<1>3. QueueOf(Append(g_runq, t), state')
  BY <1>1, <1>2, EnqueueExact
<1> QED BY <1>3 DEF RunQueueExact, QueueOf, rr_scheduler_enqueue

-----------------------------------------------------------------------------
(* Type correctness.                                                       *)

\* The type invariant holds initially.
LEMMA InitTypeOK == Init => TypeOK
  BY MaxThreadsAssumption, RetvalsAssumption
  DEF Init, TypeOK, Ids, Calls, Joins, InApp, InIo, InJoin, NoThread

\* TypeOK is inductive on its own.
LEMMA NextTypeOK == TypeOK /\ [Next]_schedVars => TypeOK'
<1> SUFFICES ASSUME TypeOK, [Next]_schedVars
             PROVE  TypeOK'
  OBVIOUS
<1> USE RetvalsAssumption DEF TypeOK
<1>0. \A w \in 0..MaxThreads : w \in Ids <=> w # NoThread
  BY MaxThreadsAssumption DEF Ids, NoThread
<1>q. \A t \in Ids : rr_scheduler_enqueue(g_runq, t) \in Seq(Ids)
  BY AppendMembers DEF rr_scheduler_enqueue
<1>i. Ids \subseteq 0..MaxThreads
  BY MaxThreadsAssumption DEF Ids
<1>1. CASE Create
  BY <1>1, <1>q DEF Create
<1>2. CASE Yield
  BY <1>2, <1>q, Zenon DEF Yield
<1>3. ASSUME NEW id \in Ids, JoinRefused(id)
      PROVE  TypeOK'
  <2>1. JoinErrno(id) \in {"ok", "ESRCH", "EDEADLK", "EBUSY"}
    BY DEF JoinErrno
  <2>2. ret' \in Joins
    BY <1>3, <1>i, <2>1 DEF JoinRefused, Joins
  <2> QED BY <1>3, <2>2 DEF JoinRefused
<1>4. ASSUME NEW id \in Ids, JoinFinished(id)
      PROVE  TypeOK'
  <2>1. ret' \in Joins
    BY <1>4, <1>i DEF JoinFinished, JoinDelivers, Joins
  <2> QED BY <1>4, <2>1 DEF JoinFinished
<1>5. ASSUME NEW id \in Ids, JoinBlocks(id)
      PROVE  TypeOK'
  <2>1. InJoin(id) \in Calls
    BY DEF Calls
  <2> QED
    BY <1>5, <1>i, <2>1, Zenon DEF JoinBlocks, rr_scheduler_block_current
<1>6. CASE JoinReturns
  <2>1. call[g_current].arg \in Ids
    BY <1>6 DEF JoinReturns, Calls, InApp, InIo, InJoin
  <2>2. ret' \in Joins
    BY <1>6, <1>i, <2>1, Zenon DEF JoinReturns, JoinDelivers, Joins
  <2>3. InApp \in Calls
    BY DEF Calls
  <2> QED BY <1>6, <2>2, <2>3 DEF JoinReturns
<1>7. CASE IoBlocks
  <2>1. InIo \in Calls
    BY DEF Calls
  <2> QED BY <1>7, <2>1, Zenon DEF IoBlocks, rr_scheduler_block_current
<1>8. CASE IoReturns
  <2>1. InApp \in Calls
    BY DEF Calls
  <2> QED BY <1>8, <2>1 DEF IoReturns
<1>9. ASSUME NEW v \in Retvals, Exit(v)
      PROVE  TypeOK'
  <2>1. g_runq' \in Seq(Ids)
    BY <1>9, <1>0, <1>q DEF Exit
  <2>2. /\ state' \in [Ids -> {"NONE", "RUNNABLE", "RUNNING", "BLOCKED", "DONE"}]
        /\ retval' \in [Ids -> Retvals]
        /\ running' \in BOOLEAN
    BY <1>9, Zenon DEF Exit
  <2> QED BY <1>9, <2>1, <2>2 DEF Exit
<1>10. CASE Dispatch
  <2>1. /\ Head(g_runq) \in Ids
        /\ Tail(g_runq) \in Seq(Ids)
    BY <1>10, TailMembers DEF Dispatch, SwitchTo
  <2> QED BY <1>10, <2>1, Zenon DEF Dispatch, SwitchTo
<1>11. ASSUME NEW id \in Ids, IoWakes(id)
       PROVE  TypeOK'
  BY <1>11, <1>q, Zenon DEF IoWakes, Completes, rr_scheduler_wake_by_id
<1>12. CASE UNCHANGED schedVars
  BY <1>12 DEF schedVars
<1> QED
  BY <1>1, <1>2, <1>3, <1>4, <1>5, <1>6, <1>7, <1>8, <1>9, <1>10, <1>11, <1>12
  DEF Next

\* Every variable of the scheduler keeps the type its C declaration gives it,
\* for any number of threads.
THEOREM TypeCorrect == SchedulerSpec => []TypeOK
  BY InitTypeOK, NextTypeOK, PTL DEF SchedulerSpec

-----------------------------------------------------------------------------
(* The core: what holds even if a completion may be stale.                 *)

\* rr_scheduler_wake_by_id for any thread, whatever call it is in.
Wakes(id) ==
    /\ rr_scheduler_wake_by_id(id)
    /\ UNCHANGED <<g_next_id, g_current, running, join_waiter, retval, call,
                   ret>>

CoreNext == Next \/ \E id \in Ids : Wakes(id)

\* What the scheduler keeps whoever wakes a thread, and when.
CoreInv ==
    /\ TypeOK
    /\ RunQueueExact
    /\ OneRunning
    /\ CallMatchesState

\* The core holds when rr_uthread_init_main is done.
LEMMA InitCore == Init => CoreInv
<1> SUFFICES ASSUME Init
             PROVE  CoreInv
  OBVIOUS
<1>1. TypeOK
  BY InitTypeOK
<1>2. /\ DOMAIN g_runq = {}
      /\ 1 \in Ids
  BY MaxThreadsAssumption DEF Init, Ids
<1>3. RunQueueExact /\ OneRunning
  BY <1>2 DEF Init, RunQueueExact, OneRunning
<1>4. CallMatchesState
  BY MaxThreadsAssumption DEF Init, CallMatchesState, InApp, Ids, NoThread
<1> QED BY <1>1, <1>3, <1>4 DEF CoreInv

\* A call is the application's, a system call or a join of a thread.
LEMMA CallCases ==
    ASSUME TypeOK, NEW t \in Ids
    PROVE  \/ call[t] = InApp /\ call[t].kind = "app" /\ call[t].arg = NoThread
           \/ call[t] = InIo /\ call[t].kind = "io" /\ call[t].arg = NoThread
           \/ /\ call[t].arg \in Ids
              /\ call[t] = InJoin(call[t].arg)
              /\ call[t].kind = "join"
  BY DEF TypeOK, Calls, InApp, InIo, InJoin

\* The waiter of a thread, if it has one, is a thread.
LEMMA WaiterType ==
    ASSUME TypeOK, NEW t \in Ids
    PROVE  join_waiter[t] = NoThread \/ join_waiter[t] \in Ids
  BY MaxThreadsAssumption DEF TypeOK, Ids, NoThread

\* rr_scheduler_wake_by_id keeps the types, whoever is woken.
LEMMA WakesTypeOK ==
    ASSUME TypeOK, NEW id \in Ids, Wakes(id)
    PROVE  TypeOK'
<1>1. rr_scheduler_enqueue(g_runq, id) \in Seq(Ids)
  BY AppendMembers DEF rr_scheduler_enqueue, TypeOK
<1> QED BY <1>1, Zenon DEF TypeOK, Wakes, rr_scheduler_wake_by_id

\* uthread_create preserves the core: the id it takes is free, so no queue
\* entry can mention the new thread.
LEMMA CreateCore ==
    ASSUME CoreInv, TypeOK', Create
    PROVE  CoreInv'
<1> USE DEF CoreInv
<1>1. /\ g_next_id \in Ids
      /\ state[g_next_id] = "NONE"
      /\ g_next_id \in Int
  BY DEF Create, CallMatchesState, TypeOK, Ids
<1>2. \A t \in Ids : t >= g_next_id' => t >= g_next_id /\ t # g_next_id
  BY <1>1, MaxThreadsAssumption DEF Create, Ids
<1>3. CASE UNCHANGED <<state, g_runq>>
  <2>1. RunQueueExact' /\ OneRunning'
    BY <1>3 DEF Create, RunQueueExact, OneRunning
  <2>2. CallMatchesState'
    BY <1>2, <1>3 DEF Create, CallMatchesState
  <2> QED BY <2>1, <2>2
<1>4. CASE /\ state' = [state EXCEPT ![g_next_id] = "RUNNABLE"]
           /\ g_runq' = rr_scheduler_enqueue(g_runq, g_next_id)
  <2>0. \A t \in Ids : state'[t] = IF t = g_next_id THEN "RUNNABLE" ELSE state[t]
    BY <1>4 DEF TypeOK
  <2>1. RunQueueExact'
    BY <1>1, <1>4, <2>0, WakeExact
  <2>2. OneRunning'
    BY <1>1, <2>0 DEF Create, OneRunning, TypeOK
  <2>3. CallMatchesState'
    BY <1>1, <1>2, <2>0, Zenon DEF Create, CallMatchesState
  <2> QED BY <2>1, <2>2, <2>3
<1> QED BY <1>3, <1>4 DEF Create

\* uthread_yield preserves the core: a RUNNING thread is in no queue.
LEMMA YieldCore ==
    ASSUME CoreInv, TypeOK', Yield
    PROVE  CoreInv'
<1> USE DEF CoreInv
<1>1. /\ g_current \in Ids
      /\ state[g_current] = "RUNNING"
      /\ call[g_current].kind = "app"
  BY DEF Yield, AppRuns, OneRunning, TypeOK
<1>2. \A t \in Ids : state'[t] = IF t = g_current THEN "RUNNABLE" ELSE state[t]
  BY DEF Yield, TypeOK
<1>3. RunQueueExact'
  BY <1>1, <1>2, WakeExact DEF Yield
<1>4. OneRunning'
  BY <1>1, <1>2 DEF Yield, OneRunning
<1>5. CallMatchesState'
  BY <1>1, <1>2 DEF Yield, CallMatchesState
<1> QED BY <1>3, <1>4, <1>5

\* Blocking takes the RUNNING thread out of the game and leaves the queue as
\* it is.
LEMMA BlockCore ==
    ASSUME CoreInv, TypeOK', NEW c \in Calls, c.kind # "app", c.arg # g_current,
           AppRuns, rr_scheduler_block_current(c)
    PROVE  /\ CoreInv'
           /\ g_current \in Ids
           /\ state[g_current] = "RUNNING"
           /\ \A t \in Ids : /\ state'[t] = IF t = g_current THEN "BLOCKED"
                                            ELSE state[t]
                             /\ call'[t] = IF t = g_current THEN c ELSE call[t]
<1> USE DEF CoreInv
<1>1. /\ g_current \in Ids
      /\ state[g_current] = "RUNNING"
  BY DEF AppRuns, OneRunning, TypeOK
<1>2. \A t \in Ids : /\ state'[t] = IF t = g_current THEN "BLOCKED" ELSE state[t]
                     /\ call'[t] = IF t = g_current THEN c ELSE call[t]
  BY DEF rr_scheduler_block_current, TypeOK
<1>3. \A i \in DOMAIN g_runq : g_runq[i] \in Ids
  BY DEF TypeOK
<1>4. RunQueueExact'
  BY <1>1, <1>2, <1>3 DEF rr_scheduler_block_current, RunQueueExact
<1>5. OneRunning'
  BY <1>1, <1>2 DEF rr_scheduler_block_current, OneRunning
<1>6. CallMatchesState'
  BY <1>1, <1>2 DEF CallMatchesState, rr_scheduler_block_current
<1> QED BY <1>1, <1>2, <1>4, <1>5, <1>6

\* A join that blocks preserves the core: uthread_join refuses its caller.
LEMMA JoinBlocksCore ==
    ASSUME CoreInv, TypeOK', NEW id \in Ids, JoinBlocks(id)
    PROVE  CoreInv'
<1>1. /\ InJoin(id) \in Calls
      /\ InJoin(id).kind # "app"
      /\ InJoin(id).arg = id
  BY DEF Calls, InJoin
<1>2. id # g_current
  BY DEF JoinBlocks, JoinErrno
<1> QED BY <1>1, <1>2, BlockCore DEF JoinBlocks

\* A blocking system call preserves the core.
LEMMA IoBlocksCore ==
    ASSUME CoreInv, TypeOK', IoBlocks
    PROVE  CoreInv'
<1>1. /\ InIo \in Calls
      /\ InIo.kind # "app"
      /\ InIo.arg = NoThread
  BY DEF Calls, InIo
<1>2. g_current # NoThread
  BY MaxThreadsAssumption DEF CoreInv, TypeOK, Ids, NoThread
<1> QED BY <1>1, <1>2, BlockCore DEF IoBlocks

\* A join that does not block, and the return from one or from a system call,
\* preserve the core: the caller is RUNNING throughout.
LEMMA ReturnCore ==
    ASSUME CoreInv, TypeOK',
           \/ \E id \in Ids : JoinRefused(id) \/ JoinFinished(id)
           \/ JoinReturns
           \/ IoReturns
    PROVE  CoreInv'
<1> USE DEF CoreInv
<1>1. UNCHANGED <<g_next_id, state, g_runq, g_current, running>>
  BY DEF JoinRefused, JoinFinished, JoinReturns, IoReturns
<1>2. \A t \in Ids : \/ call'[t] = call[t]
                     \/ call'[t] = InApp /\ state[t] = "RUNNING"
  BY DEF JoinRefused, JoinFinished, JoinReturns, IoReturns, OneRunning, TypeOK
<1>3. InApp.arg = NoThread /\ NoThread \notin Ids
  BY MaxThreadsAssumption DEF InApp, NoThread, Ids
<1>4. RunQueueExact' /\ OneRunning'
  BY <1>1 DEF RunQueueExact, OneRunning
<1>5. CallMatchesState'
  BY <1>1, <1>2, <1>3 DEF CallMatchesState
<1> QED BY <1>4, <1>5

\* uthread_exit preserves the core: it wakes its waiter only if it is BLOCKED,
\* whatever the waiter is blocked in.
LEMMA ExitCore ==
    ASSUME CoreInv, TypeOK', NEW v \in Retvals, Exit(v)
    PROVE  CoreInv'
<1> USE DEF CoreInv
<1> DEFINE w == join_waiter[g_current]
           wakes == w # NoThread /\ state[w] = "BLOCKED"
<1>1. /\ g_current \in Ids
      /\ state[g_current] = "RUNNING"
      /\ call[g_current] = InApp
  BY CallCases DEF Exit, AppRuns, OneRunning, TypeOK
<1>2. /\ UNCHANGED <<g_next_id, g_current, call>>
      /\ running' = FALSE
  BY DEF Exit
<1>3. CASE ~wakes
  <2>1. /\ g_runq' = g_runq
        /\ \A t \in Ids : state'[t] = IF t = g_current THEN "DONE" ELSE state[t]
    BY <1>3 DEF Exit
  <2>2. \A i \in DOMAIN g_runq : g_runq[i] \in Ids
    BY DEF TypeOK
  <2>3. RunQueueExact' /\ OneRunning'
    BY <1>1, <1>2, <2>1, <2>2 DEF RunQueueExact, OneRunning
  <2>4. CallMatchesState'
    BY <1>1, <1>2, <2>1 DEF CallMatchesState
  <2> QED BY <2>3, <2>4
<1>4. CASE wakes
  <2>1. w \in Ids /\ w # g_current
    BY <1>1, <1>4, WaiterType
  <2>2. /\ g_runq' = rr_scheduler_enqueue(g_runq, w)
        /\ \A t \in Ids : state'[t] = IF t = g_current THEN "DONE"
                                      ELSE IF t = w THEN "RUNNABLE"
                                      ELSE state[t]
    BY <1>4 DEF Exit
  <2>3. RunQueueExact'
    BY <1>1, <1>4, <2>1, <2>2, WakeExact
  <2>4. OneRunning'
    BY <1>1, <1>2, <2>2 DEF OneRunning
  <2>5. CallMatchesState'
    BY <1>1, <1>2, <1>4, <2>1, <2>2 DEF CallMatchesState
  <2> QED BY <2>3, <2>4, <2>5
<1> QED BY <1>3, <1>4

\* What a turn of scheduler_loop does: the thread it pops is RUNNABLE, so its
\* test of the state never drops a thread from the queue.
LEMMA DispatchEffect ==
    ASSUME CoreInv, Dispatch
    PROVE  LET h == Head(g_runq) IN
           /\ g_runq \in Seq(Ids) /\ g_runq # <<>>
           /\ h \in Ids
           /\ state[h] = "RUNNABLE"
           /\ g_runq' = Tail(g_runq)
           /\ g_current' = h
           /\ running' = TRUE
           /\ \A t \in Ids : state'[t] = IF t = h THEN "RUNNING" ELSE state[t]
           /\ UNCHANGED <<g_next_id, join_waiter, retval, call, ret>>
<1> USE DEF CoreInv
<1> DEFINE h == Head(g_runq)
<1>1. /\ g_runq \in Seq(Ids) /\ g_runq # <<>>
      /\ h \in Ids
      /\ h = g_runq[1] /\ 1 \in DOMAIN g_runq
  BY TailMembers DEF Dispatch, SwitchTo, TypeOK
<1>2. state[h] = "RUNNABLE"
  BY <1>1 DEF RunQueueExact
<1> QED BY <1>1, <1>2 DEF Dispatch, SwitchTo, TypeOK

\* A turn of scheduler_loop preserves the core.
LEMMA DispatchCore ==
    ASSUME CoreInv, TypeOK', Dispatch
    PROVE  CoreInv'
<1> USE DEF CoreInv
<1> DEFINE h == Head(g_runq)
<1>1. /\ g_runq \in Seq(Ids) /\ g_runq # <<>>
      /\ h \in Ids
      /\ state[h] = "RUNNABLE"
      /\ g_runq' = Tail(g_runq)
      /\ g_current' = h
      /\ running' = TRUE
      /\ \A t \in Ids : state'[t] = IF t = h THEN "RUNNING" ELSE state[t]
      /\ UNCHANGED <<g_next_id, call>>
  BY DispatchEffect
<1>2. RunQueueExact'
  <2>1. QueueOf(g_runq, state)
    BY DEF RunQueueExact, QueueOf
  <2>2. state \in [Ids -> States] /\ state' \in [Ids -> States]
    BY DEF TypeOK, States
  <2>3. QueueOf(Tail(g_runq), state')
    BY <1>1, <2>1, <2>2, PopExact
  <2> QED BY <1>1, <2>3 DEF RunQueueExact, QueueOf
<1>3. OneRunning'
  BY <1>1 DEF Dispatch, OneRunning
<1>4. CallMatchesState'
  BY <1>1 DEF CallMatchesState
<1> QED BY <1>2, <1>3, <1>4

\* A wake-up preserves the core, whoever is woken: only a BLOCKED thread is.
LEMMA WakesCore ==
    ASSUME CoreInv, TypeOK', NEW id \in Ids, Wakes(id)
    PROVE  CoreInv'
<1> USE DEF CoreInv
<1>1. UNCHANGED <<g_next_id, g_current, running, call>>
  BY DEF Wakes
<1>2. CASE state[id] # "BLOCKED"
  <2>1. UNCHANGED <<state, g_runq>>
    BY <1>2 DEF Wakes, rr_scheduler_wake_by_id
  <2> QED
    BY <1>1, <2>1 DEF RunQueueExact, OneRunning, CallMatchesState
<1>3. CASE state[id] = "BLOCKED"
  <2>1. /\ g_runq' = rr_scheduler_enqueue(g_runq, id)
        /\ \A t \in Ids : state'[t] = IF t = id THEN "RUNNABLE" ELSE state[t]
    BY <1>3 DEF Wakes, rr_scheduler_wake_by_id, TypeOK
  <2>2. RunQueueExact'
    BY <1>3, <2>1, WakeExact
  <2>3. OneRunning'
    BY <1>1, <1>3, <2>1 DEF OneRunning, TypeOK
  <2>4. CallMatchesState'
    BY <1>1, <1>3, <2>1 DEF CallMatchesState
  <2> QED BY <2>2, <2>3, <2>4
<1> QED BY <1>2, <1>3

\* Every step of the scheduler preserves the core, stale wake-ups included.
LEMMA NextCore == CoreInv /\ [CoreNext]_schedVars => CoreInv'
<1> SUFFICES ASSUME CoreInv, [CoreNext]_schedVars
             PROVE  CoreInv'
  OBVIOUS
<1>1. TypeOK'
  BY NextTypeOK, WakesTypeOK DEF CoreInv, CoreNext
<1>2. CASE UNCHANGED schedVars
  BY <1>2 DEF schedVars, CoreInv, TypeOK, RunQueueExact, OneRunning,
     CallMatchesState
<1>3. ASSUME NEW id \in Ids, IoWakes(id)
      PROVE  Wakes(id)
  BY <1>3 DEF IoWakes, Completes, Wakes
<1> QED
  BY <1>1, <1>2, <1>3, CreateCore, YieldCore, JoinBlocksCore, IoBlocksCore,
     ReturnCore, ExitCore, DispatchCore, WakesCore DEF CoreNext, Next

-----------------------------------------------------------------------------
(* The inductive invariant.                                                *)

\* Every conjunct of IInv holds when rr_uthread_init_main is done.
LEMMA InitIInv == Init => IInv
<1> SUFFICES ASSUME Init
             PROVE  IInv
  OBVIOUS
<1>1. JoinerHasWaker /\ JoinerSeesDone /\ WaiterIsJoining
  BY DEF Init, JoinerHasWaker, JoinerSeesDone, WaiterIsJoining, InApp
<1> QED BY <1>1, InitCore DEF IInv, CoreInv

\* uthread_create preserves IInv: no join and no link can mention the new
\* thread.
LEMMA CreateIInv ==
    ASSUME IInv, CoreInv', Create
    PROVE  IInv'
<1> USE DEF IInv, CoreInv
<1>1. /\ g_next_id \in Ids
      /\ state[g_next_id] = "NONE"
  BY DEF Create, CallMatchesState, TypeOK, Ids
<1>2. CASE UNCHANGED <<state, g_runq>>
  BY <1>2 DEF Create, JoinerHasWaker, JoinerSeesDone, WaiterIsJoining
<1>3. CASE state' = [state EXCEPT ![g_next_id] = "RUNNABLE"]
  <2>1. \A t \in Ids : state'[t] = IF t = g_next_id THEN "RUNNABLE" ELSE state[t]
    BY <1>3 DEF TypeOK
  <2>2. call[g_next_id].kind = "app"
    BY <1>1 DEF CallMatchesState, InApp
  <2>3. JoinerHasWaker' /\ JoinerSeesDone'
    BY <1>1, <2>1, <2>2, CallCases, ZenonT(60)
    DEF Create, JoinerHasWaker, JoinerSeesDone
  <2>4. WaiterIsJoining'
    BY <1>1, <2>1, WaiterType, Zenon DEF Create, WaiterIsJoining
  <2> QED BY <2>3, <2>4
<1> QED BY <1>2, <1>3 DEF Create

\* uthread_yield preserves IInv.
LEMMA YieldIInv ==
    ASSUME IInv, CoreInv', Yield
    PROVE  IInv'
<1> USE DEF IInv, CoreInv
<1>1. /\ g_current \in Ids
      /\ state[g_current] = "RUNNING"
      /\ call[g_current].kind = "app"
  BY DEF Yield, AppRuns, OneRunning, TypeOK
<1>2. \A t \in Ids : state'[t] = IF t = g_current THEN "RUNNABLE" ELSE state[t]
  BY DEF Yield, TypeOK
<1>3. JoinerHasWaker' /\ JoinerSeesDone'
  BY <1>1, <1>2, CallCases DEF Yield, JoinerHasWaker, JoinerSeesDone
<1>4. WaiterIsJoining'
  BY <1>1, <1>2, WaiterType DEF Yield, WaiterIsJoining
<1> QED BY <1>3, <1>4

\* A join that does not block, refused or not, changes nothing but ret.
LEMMA JoinNoBlockIInv ==
    ASSUME IInv, CoreInv', NEW id \in Ids, JoinRefused(id) \/ JoinFinished(id)
    PROVE  IInv'
  BY DEF IInv, CoreInv, JoinRefused, JoinFinished, JoinerHasWaker,
         JoinerSeesDone, WaiterIsJoining

\* A join that blocks preserves IInv: JoinErrno lets it through only if no
\* other thread waits for the target, so the link it overwrites is free.
LEMMA JoinBlocksIInv ==
    ASSUME IInv, CoreInv', NEW id \in Ids, JoinBlocks(id)
    PROVE  IInv'
<1> USE DEF IInv, CoreInv
<1>1. /\ AppRuns
      /\ rr_scheduler_block_current(InJoin(id))
      /\ InJoin(id) \in Calls
      /\ InJoin(id).kind # "app"
      /\ InJoin(id).arg # g_current
  BY DEF JoinBlocks, JoinErrno, Calls, InJoin
<1>2. /\ g_current \in Ids
      /\ state[g_current] = "RUNNING"
      /\ \A t \in Ids : /\ state'[t] = IF t = g_current THEN "BLOCKED"
                                       ELSE state[t]
                        /\ call'[t] = IF t = g_current THEN InJoin(id)
                                      ELSE call[t]
  BY <1>1, BlockCore
<1>3. /\ id # g_current
      /\ state[id] \notin {"NONE", "DONE"}
      /\ join_waiter[id] \in {NoThread, g_current}
  BY DEF JoinBlocks, JoinErrno, Registered
<1>4. \A t \in Ids : join_waiter'[t] = IF t = id THEN g_current
                                       ELSE join_waiter[t]
  BY DEF JoinBlocks, TypeOK
<1>5. InJoin(id).kind = "join" /\ InJoin(id).arg = id
  BY DEF InJoin
<1>6. g_current # NoThread
  BY <1>2, MaxThreadsAssumption DEF Ids, NoThread
<1>7. JoinerHasWaker'
  <2> SUFFICES ASSUME NEW t \in Ids, state'[t] = "BLOCKED",
                      call'[t].kind = "join"
               PROVE  /\ state'[call'[t].arg] \notin {"NONE", "DONE"}
                      /\ join_waiter'[call'[t].arg] = t
    BY DEF JoinerHasWaker
  <2>1. CASE t = g_current
    BY <1>2, <1>3, <1>4, <1>5, <2>1
  <2>2. CASE t # g_current
    <3>1. /\ state[t] = "BLOCKED" /\ call[t].kind = "join"
          /\ call'[t] = call[t]
      BY <1>2, <2>2
    <3>2. /\ call[t].arg \in Ids
          /\ state[call[t].arg] \notin {"NONE", "DONE"}
          /\ join_waiter[call[t].arg] = t
      BY <3>1, CallCases DEF JoinerHasWaker
    <3>3. call[t].arg # id
      BY <1>3, <2>2, <3>2, MaxThreadsAssumption DEF Ids, NoThread
    <3> QED BY <1>2, <1>4, <3>1, <3>2, <3>3
  <2> QED BY <2>1, <2>2
<1>8. JoinerSeesDone'
  BY <1>2, CallCases DEF JoinerSeesDone
<1>9. WaiterIsJoining'
  BY <1>2, <1>3, <1>4, <1>6, WaiterType DEF WaiterIsJoining
<1> QED BY <1>7, <1>8, <1>9

\* A blocking system call preserves IInv.
LEMMA IoBlocksIInv ==
    ASSUME IInv, CoreInv', IoBlocks
    PROVE  IInv'
<1> USE DEF IInv, CoreInv
<1>1. /\ g_current \in Ids
      /\ state[g_current] = "RUNNING"
  BY DEF IoBlocks, AppRuns, OneRunning, TypeOK
<1>2. \A t \in Ids : /\ state'[t] = IF t = g_current THEN "BLOCKED" ELSE state[t]
                     /\ call'[t] = IF t = g_current THEN InIo ELSE call[t]
  BY DEF IoBlocks, rr_scheduler_block_current, TypeOK
<1>3. InIo.kind = "io" /\ InIo.arg = NoThread /\ NoThread \notin Ids
  BY MaxThreadsAssumption DEF InIo, NoThread, Ids
<1>4. join_waiter' = join_waiter
  BY DEF IoBlocks
<1>5. JoinerHasWaker' /\ JoinerSeesDone'
  BY <1>1, <1>2, <1>3, <1>4, CallCases DEF JoinerHasWaker, JoinerSeesDone
<1>6. WaiterIsJoining'
  BY <1>1, <1>2, <1>4, WaiterType DEF WaiterIsJoining
<1> QED BY <1>5, <1>6

\* Returning from a join or a system call preserves IInv: the caller is
\* RUNNING, and a link names only BLOCKED threads.
LEMMA ReturnIInv ==
    ASSUME IInv, CoreInv', JoinReturns \/ IoReturns
    PROVE  IInv'
<1> USE DEF IInv, CoreInv
<1>1. /\ UNCHANGED <<state, join_waiter>>
      /\ g_current \in Ids
      /\ state[g_current] = "RUNNING"
      /\ \A t \in Ids : call'[t] = IF t = g_current THEN InApp ELSE call[t]
  BY DEF JoinReturns, IoReturns, OneRunning, TypeOK
<1>2. InApp.kind = "app" /\ InApp.arg = NoThread /\ NoThread \notin Ids
  BY MaxThreadsAssumption DEF InApp, NoThread, Ids
<1>3. JoinerHasWaker' /\ JoinerSeesDone'
  BY <1>1, <1>2 DEF JoinerHasWaker, JoinerSeesDone
<1>4. WaiterIsJoining'
  BY <1>1, WaiterType DEF WaiterIsJoining
<1> QED BY <1>3, <1>4

\* uthread_exit preserves IInv.  The waiter it wakes is, by WaiterIsJoining,
\* blocked in the join of the thread that exits; nobody else waits for it.
LEMMA ExitIInv ==
    ASSUME IInv, CoreInv', NEW v \in Retvals, Exit(v)
    PROVE  IInv'
<1> USE DEF IInv, CoreInv
<1> DEFINE w == join_waiter[g_current]
<1>1. /\ g_current \in Ids
      /\ state[g_current] = "RUNNING"
      /\ call[g_current] = InApp
      /\ call[g_current].kind = "app"
  BY CallCases DEF Exit, AppRuns, OneRunning, TypeOK
<1>2. /\ UNCHANGED <<g_current, join_waiter, call>>
      /\ NoThread \notin Ids
  BY MaxThreadsAssumption DEF Exit, NoThread, Ids
<1>3. CASE w = NoThread
  <2>1. \A t \in Ids : state'[t] = IF t = g_current THEN "DONE" ELSE state[t]
    BY <1>3 DEF Exit
  <2>2. JoinerHasWaker' /\ JoinerSeesDone'
    BY <1>1, <1>2, <1>3, <2>1, CallCases DEF JoinerHasWaker, JoinerSeesDone
  <2>3. WaiterIsJoining'
    BY <1>1, <1>2, <2>1, WaiterType DEF WaiterIsJoining
  <2> QED BY <2>2, <2>3
<1>4. CASE w # NoThread
  <2>1. /\ w \in Ids
        /\ state[w] = "BLOCKED"
        /\ call[w] = InJoin(g_current)
        /\ call[w].kind = "join" /\ call[w].arg = g_current
    BY <1>1, <1>4, WaiterType DEF WaiterIsJoining, InJoin
  <2>2. \A t \in Ids : state'[t] = IF t = g_current THEN "DONE"
                                   ELSE IF t = w THEN "RUNNABLE"
                                   ELSE state[t]
    BY <1>4, <2>1 DEF Exit
  <2>3. w # g_current
    BY <1>1, <2>1
  <2>4. JoinerHasWaker' /\ JoinerSeesDone'
    BY <1>1, <1>2, <2>1, <2>2, <2>3, CallCases DEF JoinerHasWaker,
       JoinerSeesDone
  <2>5. WaiterIsJoining'
    <3> SUFFICES ASSUME NEW t \in Ids, state'[t] # "DONE",
                        join_waiter[t] # NoThread
                 PROVE  /\ state'[join_waiter[t]] = "BLOCKED"
                        /\ call[join_waiter[t]] = InJoin(t)
      BY <1>2 DEF WaiterIsJoining
    <3>1. t # g_current /\ state[t] # "DONE"
      BY <2>1, <2>2
    <3>2. /\ join_waiter[t] \in Ids
          /\ state[join_waiter[t]] = "BLOCKED"
          /\ call[join_waiter[t]] = InJoin(t)
      BY <3>1, WaiterType DEF WaiterIsJoining
    <3>3. join_waiter[t] # w
      BY <2>1, <3>1, <3>2 DEF InJoin
    <3> QED BY <1>1, <2>2, <3>2, <3>3
  <2> QED BY <2>4, <2>5
<1> QED BY <1>3, <1>4

\* A turn of scheduler_loop preserves IInv.
LEMMA DispatchIInv ==
    ASSUME IInv, CoreInv', Dispatch
    PROVE  IInv'
<1> USE DEF IInv, CoreInv
<1> DEFINE h == Head(g_runq)
<1>1. /\ h \in Ids
      /\ state[h] = "RUNNABLE"
      /\ \A t \in Ids : state'[t] = IF t = h THEN "RUNNING" ELSE state[t]
      /\ UNCHANGED <<join_waiter, call>>
  BY DispatchEffect
<1>2. JoinerHasWaker' /\ JoinerSeesDone'
  BY <1>1, CallCases DEF JoinerHasWaker, JoinerSeesDone
<1>3. WaiterIsJoining'
  BY <1>1, WaiterType DEF WaiterIsJoining
<1> QED BY <1>2, <1>3

\* A completion preserves IInv: it wakes a thread blocked in a system call,
\* which no join link names.
LEMMA IoWakesIInv ==
    ASSUME IInv, CoreInv', NEW id \in Ids, IoWakes(id)
    PROVE  IInv'
<1> USE DEF IInv, CoreInv
<1>1. /\ call[id].kind = "io"
      /\ UNCHANGED <<join_waiter, call>>
  BY DEF IoWakes, Completes
<1>2. CASE state[id] # "BLOCKED"
  <2>1. UNCHANGED state
    BY <1>2 DEF IoWakes, Completes, rr_scheduler_wake_by_id
  <2> QED
    BY <1>1, <2>1 DEF JoinerHasWaker, JoinerSeesDone, WaiterIsJoining
<1>3. CASE state[id] = "BLOCKED"
  <2>1. \A t \in Ids : state'[t] = IF t = id THEN "RUNNABLE" ELSE state[t]
    BY <1>3 DEF IoWakes, Completes, rr_scheduler_wake_by_id, TypeOK
  <2>2. JoinerHasWaker' /\ JoinerSeesDone'
    BY <1>1, <1>3, <2>1, CallCases DEF JoinerHasWaker, JoinerSeesDone
  <2>3. WaiterIsJoining'
    <3> SUFFICES ASSUME NEW t \in Ids, state'[t] # "DONE",
                        join_waiter[t] # NoThread
                 PROVE  /\ state'[join_waiter[t]] = "BLOCKED"
                        /\ call[join_waiter[t]] = InJoin(t)
      BY <1>1 DEF WaiterIsJoining
    <3>1. /\ join_waiter[t] \in Ids
          /\ state[join_waiter[t]] = "BLOCKED"
          /\ call[join_waiter[t]] = InJoin(t)
      BY <1>3, <2>1, WaiterType DEF WaiterIsJoining
    <3>2. join_waiter[t] # id
      BY <1>1, <3>1 DEF InJoin
    <3> QED BY <2>1, <3>1, <3>2
  <2> QED BY <2>2, <2>3
<1> QED BY <1>2, <1>3

\* Every step of the scheduler preserves IInv.
LEMMA NextIInv == IInv /\ [Next]_schedVars => IInv'
<1> SUFFICES ASSUME IInv, [Next]_schedVars
             PROVE  IInv'
  OBVIOUS
<1>1. CoreInv'
  BY NextCore DEF IInv, CoreInv, CoreNext
<1>2. CASE UNCHANGED schedVars
  BY <1>1, <1>2 DEF schedVars, IInv, CoreInv, JoinerHasWaker, JoinerSeesDone,
     WaiterIsJoining
<1> QED
  BY <1>1, <1>2, CreateIInv, YieldIInv, JoinNoBlockIInv, JoinBlocksIInv,
     IoBlocksIInv, ReturnIInv, ExitIInv, DispatchIInv, IoWakesIInv DEF Next

\* IInv holds throughout.
THEOREM Inductive == SchedulerSpec => []IInv
  BY InitIInv, NextIInv, PTL DEF SchedulerSpec

-----------------------------------------------------------------------------
(* The properties.                                                         *)

\* The run queue is exact, whatever the application calls and in whatever order
\* system calls complete: rr_scheduler_enqueue is never given a queued thread.
THEOREM RunQueueSafe == SchedulerSpec => []RunQueueExact
<1>1. IInv => RunQueueExact
  BY DEF IInv
<1> QED BY <1>1, Inductive, PTL

\* Exactly the thread that has control is RUNNING: every switch away from a
\* thread changes its state first.
THEOREM ControlSafe == SchedulerSpec => []OneRunning
<1>1. IInv => OneRunning
  BY DEF IInv
<1> QED BY <1>1, Inductive, PTL

\* uthread_join loses no wake-up: the thread it waits for lives, and names it.
THEOREM WakeUpSafe == SchedulerSpec => []JoinerHasWaker
<1>1. IInv => JoinerHasWaker
  BY DEF IInv
<1> QED BY <1>1, Inductive, PTL

\* rr_scheduler_exit_current wakes nobody but a thread in the join of its
\* caller.
THEOREM WaiterSafe == SchedulerSpec => []WaiterIsJoining
<1>1. IInv => WaiterIsJoining
  BY DEF IInv
<1> QED BY <1>1, Inductive, PTL

\* uthread_join returns to nobody before the target has finished, although it
\* does not look at the target again.
THEOREM JoinSafe == SchedulerSpec => []JoinerSeesDone
<1>1. IInv => JoinerSeesDone
  BY DEF IInv
<1> QED BY <1>1, Inductive, PTL

\* A thread is inside a call only while it lives: ids are not given out twice
\* and a finished thread is in no call.
THEOREM CallSafe == SchedulerSpec => []CallMatchesState
<1>1. IInv => CallMatchesState
  BY DEF IInv
<1> QED BY <1>1, Inductive, PTL

\* With the run queue empty and nobody running, a thread that has not finished
\* is blocked, and the target of its join is alive.
LEMMA StuckByJoins ==
    ASSUME CoreInv, JoinerHasWaker
    PROVE  StuckOnlyInJoinRing
<1> SUFFICES ASSUME Idle,
                    \A t \in Ids : state[t] = "BLOCKED" => call[t].kind # "io",
                    NEW t \in Ids, state[t] \notin {"NONE", "DONE"}
             PROVE  /\ call[t].kind = "join"
                    /\ call[t].arg \in Ids
                    /\ state[call[t].arg] \notin {"NONE", "DONE"}
  BY DEF StuckOnlyInJoinRing
<1> USE DEF CoreInv
<1>1. state[t] = "BLOCKED"
  <2>1. DOMAIN g_runq = {}
    BY DEF Idle
  <2>2. state[t] # "RUNNABLE"
    BY <2>1 DEF RunQueueExact
  <2>3. state[t] # "RUNNING"
    BY DEF Idle, OneRunning
  <2> QED BY <2>2, <2>3 DEF TypeOK
<1>2. call[t].kind = "join" /\ call[t].arg \in Ids
  BY <1>1, CallCases DEF CallMatchesState
<1> QED BY <1>1, <1>2 DEF JoinerHasWaker

\* An idle scheduler with no system call pending is idle because of a ring of
\* joins, or because every thread has finished.
THEOREM StuckSafe == SchedulerSpec => []StuckOnlyInJoinRing
<1>1. IInv => StuckOnlyInJoinRing
  BY StuckByJoins DEF IInv, CoreInv
<1> QED BY <1>1, Inductive, PTL

\* No step touches a thread that has finished, not even a stale wake-up.
LEMMA CoreDone ==
    ASSUME CoreInv, CoreNext, NEW t \in Ids, state[t] = "DONE"
    PROVE  state'[t] = "DONE" /\ retval'[t] = retval[t]
<1> USE DEF CoreInv, TypeOK
<1>0. running => state[g_current] = "RUNNING"
  BY DEF OneRunning
<1>1. CASE Create
  <2>1. g_next_id \in Ids /\ g_next_id >= g_next_id
    BY <1>1 DEF Create
  <2>2. t # g_next_id
    BY <2>1 DEF CallMatchesState
  <2> QED BY <1>1, <2>2 DEF Create
<1>2. CASE Yield
  BY <1>0, <1>2 DEF Yield, AppRuns
<1>3. ASSUME NEW id \in Ids, JoinRefused(id) \/ JoinFinished(id)
      PROVE  state'[t] = "DONE" /\ retval'[t] = retval[t]
  BY <1>3 DEF JoinRefused, JoinFinished
<1>4. ASSUME NEW id \in Ids, JoinBlocks(id)
      PROVE  state'[t] = "DONE" /\ retval'[t] = retval[t]
  BY <1>0, <1>4 DEF JoinBlocks, AppRuns, rr_scheduler_block_current
<1>5. CASE JoinReturns \/ IoReturns
  BY <1>5 DEF JoinReturns, IoReturns
<1>6. CASE IoBlocks
  BY <1>0, <1>6 DEF IoBlocks, AppRuns, rr_scheduler_block_current
<1>7. ASSUME NEW v \in Retvals, Exit(v)
      PROVE  state'[t] = "DONE" /\ retval'[t] = retval[t]
  <2>1. t # g_current
    BY <1>0, <1>7 DEF Exit, AppRuns
  <2>2. retval'[t] = retval[t]
    BY <1>7, <2>1 DEF Exit
  <2>3. state'[t] = "DONE"
    BY <1>7, <2>1 DEF Exit
  <2> QED BY <2>2, <2>3
<1>8. CASE Dispatch
  BY <1>8, TailMembers DEF Dispatch, SwitchTo
<1>9. ASSUME NEW id \in Ids, IoWakes(id) \/ Wakes(id)
      PROVE  state'[t] = "DONE" /\ retval'[t] = retval[t]
  BY <1>9 DEF IoWakes, Completes, Wakes, rr_scheduler_wake_by_id
<1> QED
  BY <1>1, <1>2, <1>3, <1>4, <1>5, <1>6, <1>7, <1>8, <1>9 DEF CoreNext, Next

\* No step touches a thread that has finished, nor its return value.
THEOREM DoneStaysDone == SchedulerSpec => DoneIsFinal
<1>1. IInv /\ [Next]_schedVars =>
        [\A t \in Ids : state[t] = "DONE" =>
            state'[t] = "DONE" /\ retval'[t] = retval[t]]_schedVars
  BY CoreDone DEF IInv, CoreInv, CoreNext
<1> QED BY <1>1, Inductive, PTL DEF SchedulerSpec, DoneIsFinal

-----------------------------------------------------------------------------
(* Refinement: the scheduler implements the uthread API.                   *)

\* The initial states are initial states of the API.
LEMMA ApiInit == Init => Api!Init
  BY MaxThreadsAssumption
  DEF Init, Api!Init, Api!ApiIds, status, waiting, Ids, InApp, NoThread

\* The API's view of a step that changes only states and calls: status follows
\* the states, waiting the arguments of the calls.
LEMMA ApiStutter ==
    ASSUME TypeOK, TypeOK',
           \A t \in Ids : /\ state'[t] = "NONE" <=> state[t] = "NONE"
                          /\ state'[t] = "DONE" <=> state[t] = "DONE"
                          /\ call'[t].arg = call[t].arg,
           UNCHANGED <<retval, ret>>
    PROVE  UNCHANGED Api!apiVars
<1>1. status' = status
  BY DEF status, TypeOK
<1>2. waiting' = waiting
  BY DEF waiting
<1> QED BY <1>1, <1>2 DEF Api!apiVars

\* uthread_create is Spawn, or nothing when it fails.
LEMMA ApiCreate ==
    ASSUME IInv, TypeOK', Create
    PROVE  (\E id \in Ids : Api!Spawn(id)) \/ UNCHANGED Api!apiVars
<1> USE DEF IInv
<1>1. /\ g_next_id \in Ids
      /\ state[g_next_id] = "NONE"
      /\ UNCHANGED <<call, retval, ret>>
  BY DEF Create, CallMatchesState, TypeOK, Ids
<1>2. CASE UNCHANGED <<state, g_runq>>
  BY <1>1, <1>2, ApiStutter
<1>3. CASE state' = [state EXCEPT ![g_next_id] = "RUNNABLE"]
  <2>1. status[g_next_id] = "none"
    BY <1>1 DEF status
  <2>2. status' = [status EXCEPT ![g_next_id] = "live"]
    BY <1>1, <1>3, Zenon DEF status, TypeOK
  <2>3. waiting' = waiting
    BY <1>1 DEF waiting
  <2> QED BY <1>1, <2>1, <2>2, <2>3, Zenon DEF Api!Spawn
<1> QED BY <1>2, <1>3 DEF Create

\* The thread that has control is live; in application code it waits for
\* nobody.
LEMMA ApiActive ==
    ASSUME IInv, running
    PROVE  /\ g_current \in Ids
           /\ state[g_current] = "RUNNING"
           /\ status[g_current] = "live"
           /\ AppRuns => Api!Active(g_current)
<1> USE DEF IInv
<1>1. g_current \in Ids /\ state[g_current] = "RUNNING"
  BY DEF OneRunning, TypeOK
<1>2. status[g_current] = "live"
  BY <1>1 DEF status
<1>3. AppRuns => waiting[g_current] = 0
  BY <1>1, CallCases DEF AppRuns, waiting, NoThread
<1> QED BY <1>1, <1>2, <1>3 DEF Api!Active

\* A refused join is Refused, for the reason its errno names.
LEMMA ApiRefused ==
    ASSUME IInv, NEW id \in Ids, JoinRefused(id)
    PROVE  \E errno \in {"ESRCH", "EDEADLK", "EBUSY"} :
                Api!Refused(g_current, id, errno)
<1> USE DEF IInv
<1>1. Api!Active(g_current) /\ g_current \in Ids
  BY ApiActive DEF JoinRefused, AppRuns
<1>2. /\ UNCHANGED <<status, waiting, retval>>
      /\ ret' = [by |-> g_current, of |-> id, res |-> JoinErrno(id),
                 out |-> NULL]
  BY DEF JoinRefused, status, waiting
<1>3. CASE JoinErrno(id) = "ESRCH"
  <2>1. status[id] = "none"
    BY <1>3 DEF JoinErrno, Registered, status
  <2> QED BY <1>1, <1>2, <1>3, <2>1 DEF Api!Refused
<1>4. CASE JoinErrno(id) = "EDEADLK"
  <2>1. id = g_current
    BY <1>4 DEF JoinErrno
  <2> QED BY <1>1, <1>2, <1>4, <2>1 DEF Api!Refused
<1>5. CASE JoinErrno(id) = "EBUSY"
  <2>1. state[id] # "DONE" /\ join_waiter[id] \notin {NoThread, g_current}
    BY <1>5 DEF JoinErrno
  <2>2. /\ join_waiter[id] \in Ids \ {g_current}
        /\ call[join_waiter[id]] = InJoin(id)
    BY <2>1, WaiterType DEF WaiterIsJoining
  <2>3. waiting[join_waiter[id]] = id
    BY <2>2 DEF waiting, InJoin
  <2> QED BY <1>1, <1>2, <1>5, <2>2, <2>3 DEF Api!Refused, Api!ApiIds, Ids
<1>6. JoinErrno(id) \in {"ESRCH", "EDEADLK", "EBUSY"}
  BY DEF JoinErrno, JoinRefused
<1> QED BY <1>3, <1>4, <1>5, <1>6

\* A join of a finished thread is Joined; so is a join that comes back from
\* its block, because by JoinerSeesDone the target has finished.
LEMMA ApiJoined ==
    ASSUME IInv, TypeOK'
    PROVE  /\ \A id \in Ids : JoinFinished(id) => Api!Joined(g_current, id)
           /\ JoinReturns => \E id \in Ids : Api!Joined(g_current, id)
<1> USE DEF IInv
<1>1. ASSUME NEW id \in Ids, JoinFinished(id)
      PROVE  Api!Joined(g_current, id)
  <2>1. /\ g_current \in Ids
        /\ status[g_current] = "live"
        /\ waiting[g_current] = 0
    BY <1>1, ApiActive DEF JoinFinished, AppRuns, Api!Active
  <2>2. status[id] = "done"
    BY <1>1 DEF JoinFinished, status
  <2>3. /\ UNCHANGED <<status, retval>>
        /\ waiting' = [waiting EXCEPT ![g_current] = 0]
    BY <1>1, <2>1 DEF JoinFinished, status, waiting
  <2> QED
    BY <1>1, <2>1, <2>2, <2>3 DEF JoinFinished, JoinDelivers, Api!Joined
<1>2. ASSUME JoinReturns
      PROVE  \E id \in Ids : Api!Joined(g_current, id)
  <2> DEFINE id == call[g_current].arg
  <2>1. /\ g_current \in Ids
        /\ state[g_current] = "RUNNING"
        /\ status[g_current] = "live"
    BY <1>2, ApiActive DEF JoinReturns
  <2>2. id \in Ids /\ state[id] = "DONE" /\ waiting[g_current] = id
    BY <1>2, <2>1, CallCases DEF JoinReturns, JoinerSeesDone, waiting
  <2>3. status[id] = "done"
    BY <2>2 DEF status
  <2>4. waiting' = [waiting EXCEPT ![g_current] = 0]
    BY <1>2, <2>1, Zenon DEF JoinReturns, waiting, InApp, NoThread, TypeOK
  <2>5. /\ UNCHANGED <<status, retval>>
        /\ ret' = [by |-> g_current, of |-> id, res |-> "ok",
                   out |-> retval[id]]
    BY <1>2 DEF JoinReturns, JoinDelivers, status
  <2> QED BY <2>1, <2>2, <2>3, <2>4, <2>5 DEF Api!Joined
<1> QED BY <1>1, <1>2

\* A join that blocks is Wait: had another thread been waiting for the
\* target, JoinErrno would have refused.
LEMMA ApiWait ==
    ASSUME IInv, TypeOK', NEW id \in Ids, JoinBlocks(id)
    PROVE  Api!Wait(g_current, id)
<1> USE DEF IInv
<1>1. /\ Api!Active(g_current)
      /\ g_current \in Ids
      /\ state[g_current] = "RUNNING"
      /\ call[g_current].kind = "app"
  BY ApiActive DEF JoinBlocks, AppRuns
<1>2. /\ id # g_current
      /\ state[id] \notin {"NONE", "DONE"}
      /\ join_waiter[id] \in {NoThread, g_current}
      /\ status[id] = "live"
  BY DEF JoinBlocks, JoinErrno, Registered, status
<1>3. ASSUME NEW u \in Ids
      PROVE  waiting[u] # id
  <2> SUFFICES ASSUME call[u].arg = id
               PROVE  FALSE
    BY DEF waiting
  <2>1. call[u].kind = "join"
    BY CallCases, MaxThreadsAssumption DEF Ids, NoThread
  <2>2. u # g_current
    BY <1>1, <2>1
  <2>3. state[u] \notin {"NONE", "DONE"}
    BY <2>1 DEF CallMatchesState, InApp
  <2>4. state[u] # "BLOCKED"
    BY <1>2, <2>1, <2>2, MaxThreadsAssumption
    DEF JoinerHasWaker, Ids, NoThread
  <2>5. state[u] \notin {"RUNNABLE", "RUNNING"}
    BY <1>2, <2>1 DEF JoinerSeesDone
  <2> QED BY <2>3, <2>4, <2>5 DEF TypeOK
<1>4. status' = status
  BY <1>1 DEF JoinBlocks, rr_scheduler_block_current, status, TypeOK
<1>5. waiting' = [waiting EXCEPT ![g_current] = id]
  BY <1>1, Zenon
  DEF JoinBlocks, rr_scheduler_block_current, waiting, InJoin, TypeOK
<1>6. UNCHANGED <<retval, ret>>
  BY DEF JoinBlocks, rr_scheduler_block_current
<1>7. Api!ApiIds = Ids
  BY DEF Api!ApiIds, Ids
<1> QED BY <1>1, <1>2, <1>3, <1>4, <1>5, <1>6, <1>7 DEF Api!Wait

\* uthread_exit is Finish; waking the waiter is invisible to the API.
LEMMA ApiFinish ==
    ASSUME IInv, TypeOK', NEW v \in Retvals, Exit(v)
    PROVE  Api!Finish(g_current, v)
<1> USE DEF IInv
<1>1. /\ Api!Active(g_current)
      /\ g_current \in Ids
  BY ApiActive DEF Exit, AppRuns
<1>2. /\ state'[g_current] = "DONE"
      /\ \A t \in Ids \ {g_current} :
            \/ state'[t] = state[t]
            \/ state[t] = "BLOCKED" /\ state'[t] = "RUNNABLE"
  BY <1>1 DEF Exit
<1>3. status' = [status EXCEPT ![g_current] = "done"]
  BY <1>1, <1>2, Zenon DEF status
<1>4. /\ waiting' = waiting
      /\ retval' = [retval EXCEPT ![g_current] = v]
      /\ ret' = ret
  BY DEF Exit, waiting
<1> QED BY <1>1, <1>3, <1>4 DEF Api!Finish

\* The steps the API does not see: yields, dispatches and system calls.
LEMMA ApiInvisible ==
    ASSUME IInv, TypeOK',
           \/ Yield \/ IoBlocks \/ IoReturns \/ Dispatch
           \/ \E id \in Ids : IoWakes(id)
    PROVE  UNCHANGED Api!apiVars
<1> USE DEF IInv
<1>0. running => g_current \in Ids /\ state[g_current] = "RUNNING"
  BY ApiActive
<1>1. CASE Yield
  BY <1>0, <1>1, ApiStutter DEF Yield, AppRuns, TypeOK
<1>2. CASE IoBlocks
  <2>1. call[g_current].arg = NoThread
    BY <1>0, <1>2, CallCases DEF IoBlocks, AppRuns
  <2>2. \A t \in Ids : call'[t].arg = call[t].arg
    BY <1>2, <2>1 DEF IoBlocks, rr_scheduler_block_current, InIo, TypeOK
  <2> QED
    BY <1>0, <1>2, <2>2, ApiStutter
    DEF IoBlocks, AppRuns, rr_scheduler_block_current, TypeOK
<1>3. CASE IoReturns
  <2>1. call[g_current].arg = NoThread
    BY <1>0, <1>3, CallCases DEF IoReturns
  <2>2. \A t \in Ids : call'[t].arg = call[t].arg
    BY <1>3, <2>1 DEF IoReturns, InApp, TypeOK
  <2> QED BY <1>3, <2>2, ApiStutter DEF IoReturns
<1>4. CASE Dispatch
  BY <1>4, TailMembers, ApiStutter DEF Dispatch, SwitchTo, TypeOK
<1>5. ASSUME NEW id \in Ids, IoWakes(id)
      PROVE  UNCHANGED Api!apiVars
  BY <1>5, ApiStutter DEF IoWakes, Completes, rr_scheduler_wake_by_id, TypeOK
<1> QED BY <1>1, <1>2, <1>3, <1>4, <1>5

\* Every step of the scheduler is a step of the API or invisible to it.
LEMMA ApiNext ==
    IInv /\ TypeOK' /\ [Next]_schedVars => [Api!Next]_(Api!apiVars)
<1> SUFFICES ASSUME IInv, TypeOK', [Next]_schedVars
             PROVE  Api!Next \/ UNCHANGED Api!apiVars
  OBVIOUS
<1>0. /\ Api!ApiIds = Ids
      /\ g_current \in Ids
  BY DEF Api!ApiIds, Ids, IInv, TypeOK
<1>1. CASE UNCHANGED schedVars
  BY <1>1 DEF schedVars, Api!apiVars, status, waiting
<1>2. CASE Create
  BY <1>0, <1>2, ApiCreate DEF Api!Next
<1>3. ASSUME NEW id \in Ids, JoinRefused(id)
      PROVE  Api!Next
  BY <1>0, <1>3, ApiRefused DEF Api!Next
<1>4. ASSUME NEW id \in Ids, JoinFinished(id)
      PROVE  Api!Next
  BY <1>0, <1>4, ApiJoined DEF Api!Next
<1>5. ASSUME NEW id \in Ids, JoinBlocks(id)
      PROVE  Api!Next
  BY <1>0, <1>5, ApiWait DEF Api!Next
<1>6. CASE JoinReturns
  BY <1>0, <1>6, ApiJoined DEF Api!Next
<1>7. ASSUME NEW v \in Retvals, Exit(v)
      PROVE  Api!Next
  BY <1>0, <1>7, ApiFinish DEF Api!Next
<1> QED
  BY <1>1, <1>2, <1>3, <1>4, <1>5, <1>6, <1>7, ApiInvisible DEF Next

\* The scheduler implements the uthread API: seen through the mapping, every
\* behaviour of it is one UthreadApi allows.
THEOREM Refinement == SchedulerSpec => ImplementsApi
<1>1. IInv => TypeOK
  BY DEF IInv
<1> QED
  BY <1>1, ApiInit, ApiNext, Inductive, PTL
  DEF SchedulerSpec, ImplementsApi, Api!Spec

=============================================================================
