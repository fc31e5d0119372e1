-------------------------- MODULE RingFaultProofs ---------------------------
(***************************************************************************)
(* What failing submits leave intact in IoRing, for every number of        *)
(* threads, calls, entries and failures.                                   *)
(*                                                                         *)
(* A failing submit leaves an entry queued whose call has returned.  Its   *)
(* completion is stale: it may wake the thread from a later call or from a *)
(* join, and a join that ends early leaves the thread's name with the      *)
(* target, which is one more stale wake-up to come.  Sound(t) says that    *)
(* there is nothing of that kind about t.  It is inductive for each thread *)
(* on its own, unless a submit fails in a call of that thread: every       *)
(* wake-up goes to the thread that its operation or its join link names,   *)
(* and no operation is in the ring twice.                                  *)
(***************************************************************************)
EXTENDS IoRingProofs

\* A leaf that names no prover is left to SMT, with time to spare.
USE SMTT(30)

\* An operation is in one place of the ring: prepared once, it is completed at
\* most once.
OpOnce(op) ==
    /\ Once(op, sq, inflight)
    /\ \A i, j \in DOMAIN cq : cq[i].op = op /\ cq[j].op = op => i = j
    /\ Completed(op) => ~Submitted(op)

OpsOnce == \A op \in Ops : OpOnce(op)

\* A join that returned 0 was one of a thread.
OkNamesThread == ret.res = "ok" => ret.of \in Ids

FaultInv ==
    /\ RingInv
    /\ OpsOnce
    /\ JoinerHasWaker
    /\ OkNamesThread

-----------------------------------------------------------------------------
(* No operation is in the ring twice.                                      *)

\* The two ways to say that an operation is in the ring.
LEMMA PendingIs == \A op : Pending(op) <=> InRing(op)
  BY DEF Pending, InRing, Submitted, Completed, SqIndexes, CqIndexes

\* An entry that is new to the ring, submitted or left queued by a failure,
\* doubles nothing.
LEMMA EnterOnce ==
    ASSUME RingTypeOK, NEW e \in Ops, ~Submitted(e),
           \/ io_uring_submit(Append(sq, e))
           \/ io_uring_submit_fails(Append(sq, e)),
           NEW op, Once(op, sq, inflight)
    PROVE  Once(op, sq', inflight')
<1> DEFINE q == Append(sq, e)
<1>1. sq \in Seq(Ops) /\ inflight \subseteq Ops
  BY DEF RingTypeOK
<1>2. /\ q \in Seq(Ops)
      /\ DOMAIN q = 1..(Len(sq) + 1)
      /\ \A i \in 1..Len(sq) : q[i] = sq[i]
      /\ q[Len(sq) + 1] = e
      /\ DOMAIN sq = 1..Len(sq)
      /\ Len(sq) \in Nat
  BY <1>1, AppendMembers
<1> HIDE DEF q
<1>3. Once(op, q, inflight)
  <2>1. CASE e = op
    BY <1>2, <2>1 DEF Once, Submitted
  <2>2. CASE e # op
    BY <1>2, <2>2 DEF Once
  <2> QED BY <2>1, <2>2
<1>4. CASE io_uring_submit(q)
  BY <1>1, <1>2, <1>3, <1>4, SubmitEffect
<1>5. CASE io_uring_submit_fails(q)
  BY <1>3, <1>5 DEF io_uring_submit_fails
<1> QED BY <1>4, <1>5 DEF q

\* A new call of a thread prepares an operation that is not in the ring.
LEMMA NewOp ==
    ASSUME RingInv, IoSubmits
    PROVE  /\ Sqe(g_current) \in Ops
           /\ ~InRing(Sqe(g_current))
           /\ Sqe(g_current) # SignalRead
<1>1. PICK g, e : g = g_current /\ e = Sqe(g_current)
  OBVIOUS
<1>2. /\ g \in Ids /\ calls[g] \in Nat
      /\ e \in Ops /\ e # SignalRead
      /\ e.user_data = g /\ e.n = calls[g] + 1
  BY <1>1, CallNumbers DEF Sqe
<1>3. ~(e.n <= calls[e.user_data])
  BY <1>2
<1>4. ~InRing(e)
  BY <1>2, <1>3 DEF RingInv, OpsKnown
<1> QED BY <1>1, <1>2, <1>4

\* A blocking system call doubles nothing, whether its submit fails or not.
LEMMA SubmitsOnce ==
    ASSUME RingInv, OpsOnce, IoSubmits
    PROVE  OpsOnce'
<1> SUFFICES ASSUME NEW op \in Ops
             PROVE  OpOnce(op)'
  BY DEF OpsOnce
<1>1. PICK e : e = Sqe(g_current)
  OBVIOUS
<1>2. e \in Ops /\ ~Submitted(e) /\ ~Completed(e) /\ e # SignalRead
  BY <1>1, NewOp DEF InRing
<1>3. /\ Once(op, sq, inflight)
      /\ \A i, j \in DOMAIN cq : cq[i].op = op /\ cq[j].op = op => i = j
      /\ Completed(op) => ~Submitted(op)
  BY DEF OpsOnce, OpOnce
<1>4. cq' = cq
  BY DEF IoSubmits
<1>5. Once(op, sq', inflight') /\ (Submitted(op)' => Submitted(op) \/ op = e)
  <2>1. CASE SqFull
    BY <1>3, <2>1 DEF IoSubmits, Submitted
  <2>2. CASE ~SqFull
    <3>1. \/ io_uring_submit(Append(sq, e))
          \/ io_uring_submit_fails(Append(sq, e))
      BY <1>1, <2>2 DEF IoSubmits
    <3>2. Once(op, sq', inflight')
      BY <1>2, <1>3, <3>1, EnterOnce DEF RingInv
    <3>3. Submitted(op)' => Submitted(op) \/ op = e
      BY <1>2, <2>2, <3>1, EnterEffect
    <3> QED BY <3>2, <3>3
  <2> QED BY <2>1, <2>2
<1>6. Completed(op)' <=> Completed(op)
  BY <1>4 DEF Completed
<1> QED BY <1>2, <1>3, <1>4, <1>5, <1>6 DEF OpOnce

\* Nor does the signalfd read that is submitted again.
LEMMA RearmsOnce ==
    ASSUME RingInv, OpsOnce, SignalRearms
    PROVE  OpsOnce'
<1> SUFFICES ASSUME NEW op \in Ops
             PROVE  OpOnce(op)'
  BY DEF OpsOnce
<1>1. /\ cq # <<>> /\ cq' = Tail(cq) /\ Head(cq).op = SignalRead
      /\ RingTypeOK
  BY DEF SignalRearms, RingInv
<1>2. /\ Once(op, sq, inflight)
      /\ \A i, j \in DOMAIN cq : cq[i].op = op /\ cq[j].op = op => i = j
      /\ Completed(op) => ~Submitted(op)
  BY DEF OpsOnce, OpOnce
<1>3. /\ SignalRead \in Ops
      /\ Completed(SignalRead)
      /\ Completed(op)' => Completed(op)
      /\ \A i, j \in DOMAIN cq' : cq'[i].op = op /\ cq'[j].op = op => i = j
      /\ op = SignalRead => ~Completed(op)'
  BY <1>1, <1>2, ConsumeEffect
<1>4. ~Submitted(SignalRead)
  BY <1>3 DEF RingInv, SignalOnce
<1>5. /\ Once(op, sq', inflight')
      /\ Submitted(op)' => Submitted(op) \/ op = SignalRead
  <2>1. CASE SqFull
    BY <1>2, <2>1 DEF SignalRearms, rr_io_submit_signal_read, Submitted
  <2>2. CASE ~SqFull
    <3>1. \/ io_uring_submit(Append(sq, SignalRead))
          \/ io_uring_submit_fails(Append(sq, SignalRead))
      BY <2>2 DEF SignalRearms, rr_io_submit_signal_read
    <3>2. Once(op, sq', inflight')
      BY <1>1, <1>2, <1>3, <1>4, <3>1, EnterOnce
    <3>3. Submitted(op)' => Submitted(op) \/ op = SignalRead
      BY <1>3, <1>4, <2>2, <3>1, EnterEffect
    <3> QED BY <3>2, <3>3
  <2> QED BY <2>1, <2>2
<1> QED BY <1>2, <1>3, <1>5 DEF OpOnce

\* A completion that is taken leaves the others as they are.
LEMMA WakesOnce ==
    ASSUME RingInv, OpsOnce, CompletionWakes
    PROVE  OpsOnce'
<1> SUFFICES ASSUME NEW op \in Ops
             PROVE  OpOnce(op)'
  BY DEF OpsOnce
<1>1. /\ cq # <<>> /\ cq' = Tail(cq) /\ UNCHANGED <<sq, inflight>>
      /\ RingTypeOK
  BY DEF CompletionWakes, RingInv
<1>2. /\ Once(op, sq, inflight)
      /\ \A i, j \in DOMAIN cq : cq[i].op = op /\ cq[j].op = op => i = j
      /\ Completed(op) => ~Submitted(op)
  BY DEF OpsOnce, OpOnce
<1>3. /\ Completed(op)' => Completed(op)
      /\ \A i, j \in DOMAIN cq' : cq'[i].op = op /\ cq'[j].op = op => i = j
  BY <1>1, <1>2, ConsumeEffect
<1>4. Submitted(op)' <=> Submitted(op)
  BY <1>1 DEF Submitted
<1>5. Once(op, sq', inflight')
  BY <1>1, <1>2
<1> QED BY <1>2, <1>3, <1>4, <1>5 DEF OpOnce

\* An operation that the kernel completes changes sides.
LEMMA CompletesOnce ==
    ASSUME RingInv, OpsOnce, NEW x \in inflight, KernelCompletes(x)
    PROVE  OpsOnce'
<1> SUFFICES ASSUME NEW op \in Ops
             PROVE  OpOnce(op)'
  BY DEF OpsOnce
<1>1. /\ inflight' = inflight \ {x}
      /\ sq' = sq
      /\ DOMAIN cq = 1..Len(cq)
      /\ Len(cq) \in Nat
      /\ DOMAIN cq' = 1..(Len(cq) + 1)
      /\ \A i \in 1..Len(cq) : cq'[i] = cq[i]
      /\ cq'[Len(cq) + 1].op = x
      /\ \A y : Completed(y)' <=> Completed(y) \/ y = x
  BY CompleteEffect, Zenon DEF RingInv
<1>2. /\ Once(op, sq, inflight)
      /\ \A i, j \in DOMAIN cq : cq[i].op = op /\ cq[j].op = op => i = j
      /\ Completed(op) => ~Submitted(op)
  BY DEF OpsOnce, OpOnce
<1>3. Once(op, sq', inflight')
  BY <1>1, <1>2 DEF Once
<1>4. CASE op = x
  <2>1. ~Completed(op) /\ \A i \in DOMAIN sq : sq[i] # op
    BY <1>2, <1>4 DEF Submitted, Once
  <2>2. ~Submitted(op)'
    BY <1>1, <1>4, <2>1 DEF Submitted
  <2>3. \A i \in DOMAIN cq' : cq'[i].op = op => i = Len(cq) + 1
    BY <1>1, <2>1 DEF Completed
  <2> QED BY <1>3, <2>2, <2>3 DEF OpOnce
<1>5. CASE op # x
  <2>1. \A i \in DOMAIN cq' : cq'[i].op = op => i \in DOMAIN cq /\ cq[i].op = op
    BY <1>1, <1>5
  <2>2. Completed(op)' <=> Completed(op)
    BY <1>1, <1>5
  <2>3. Submitted(op)' => Submitted(op)
    BY <1>1 DEF Submitted
  <2> QED BY <1>2, <1>3, <2>1, <2>2, <2>3 DEF OpOnce
<1> QED BY <1>4, <1>5

\* No step brings an operation into the ring a second time.
LEMMA NextOnce ==
    ASSUME RingInv, OpsOnce, [NextRing]_ioVars
    PROVE  OpsOnce'
<1>1. CASE UNCHANGED <<sq, inflight, cq>>
  BY <1>1 DEF OpsOnce, OpOnce, Submitted, Completed
<1>2. CASE ~UNCHANGED <<sq, inflight, cq>>
  <2>1. \/ IoSubmits \/ SignalRearms \/ CompletionWakes
        \/ \E x \in inflight : KernelCompletes(x)
    BY <1>2 DEF NextRing, SchedulerStep, IoDelivers, rr_io_wait,
       SignalTerminates, ioVars, ringVars
  <2> QED BY <2>1, SubmitsOnce, RearmsOnce, WakesOnce, CompletesOnce
<1> QED BY <1>1, <1>2

-----------------------------------------------------------------------------
(* Nobody is forgotten.                                                    *)

\* A step that wakes only, or that changes neither calls nor waiters, keeps
\* every blocked join linked to its target.
LEMMA WakerFrame ==
    ASSUME CoreInv, JoinerHasWaker,
           UNCHANGED <<join_waiter, call>>,
           \A t \in Ids : /\ state'[t] = "BLOCKED" => state[t] = "BLOCKED"
                          /\ state[t] \notin {"NONE", "DONE"}
                                => state'[t] \notin {"NONE", "DONE"}
    PROVE  JoinerHasWaker'
<1> SUFFICES ASSUME NEW t \in Ids, state'[t] = "BLOCKED", call[t].kind = "join"
             PROVE  /\ state'[call[t].arg] \notin {"NONE", "DONE"}
                    /\ join_waiter[call[t].arg] = t
  BY DEF JoinerHasWaker
<1>1. call[t].arg \in Ids
  BY CallCases DEF CoreInv
<1> QED BY <1>1 DEF JoinerHasWaker

\* uthread_join leaves the caller's name with a live target that no other
\* thread is blocked on: EBUSY sees to that.
LEMMA WakerJoins ==
    ASSUME CoreInv, TypeOK', JoinerHasWaker, NEW id \in Ids, JoinBlocks(id)
    PROVE  JoinerHasWaker'
<1>1. PICK g : g = g_current
  OBVIOUS
<1>2. /\ g \in Ids /\ state[g] = "RUNNING"
      /\ state[id] \notin {"NONE", "DONE"} /\ id # g
      /\ join_waiter[id] \in {NoThread, g}
  BY <1>1 DEF JoinBlocks, AppRuns, JoinErrno, Registered, CoreInv, OneRunning,
     TypeOK
<1>3. \A t \in Ids :
        /\ state'[t] = IF t = g THEN "BLOCKED" ELSE state[t]
        /\ call'[t] = IF t = g THEN InJoin(id) ELSE call[t]
        /\ join_waiter'[t] = IF t = id THEN g ELSE join_waiter[t]
  BY <1>1 DEF JoinBlocks, rr_scheduler_block_current, CoreInv, TypeOK
<1> SUFFICES ASSUME NEW t \in Ids, state'[t] = "BLOCKED", call'[t].kind = "join"
             PROVE  /\ state'[call'[t].arg] \notin {"NONE", "DONE"}
                    /\ join_waiter'[call'[t].arg] = t
  BY DEF JoinerHasWaker
<1>4. CASE t = g
  BY <1>2, <1>3, <1>4 DEF InJoin
<1>5. CASE t # g
  <2>1. PICK b : b = call[t].arg
    OBVIOUS
  <2>2. call'[t] = call[t] /\ state[t] = "BLOCKED" /\ call[t].kind = "join"
    BY <1>3, <1>5
  <2>3. b \in Ids /\ state[b] \notin {"NONE", "DONE"} /\ join_waiter[b] = t
    BY <2>1, <2>2, CallCases DEF JoinerHasWaker, CoreInv
  <2>4. b # id
    BY <1>2, <1>5, <2>3 DEF NoThread, Ids
  <2> QED BY <1>3, <2>1, <2>2, <2>3, <2>4
<1> QED BY <1>4, <1>5

\* rr_scheduler_exit_current wakes the thread blocked on the one that ends.
LEMMA WakerExit ==
    ASSUME CoreInv, JoinerHasWaker, NEW v \in Retvals, Exit(v)
    PROVE  JoinerHasWaker'
<1>1. PICK g : g = g_current
  OBVIOUS
<1>2. /\ g \in Ids /\ state[g] = "RUNNING"
      /\ join_waiter' = join_waiter /\ call' = call
  BY <1>1 DEF Exit, AppRuns, CoreInv, OneRunning, TypeOK
<1>3. \A t \in Ids :
        state'[t] = IF t = g THEN "DONE"
                    ELSE IF /\ join_waiter[g] # NoThread
                            /\ state[join_waiter[g]] = "BLOCKED"
                            /\ t = join_waiter[g] THEN "RUNNABLE"
                    ELSE state[t]
  BY <1>1 DEF Exit
<1> SUFFICES ASSUME NEW t \in Ids, state'[t] = "BLOCKED", call[t].kind = "join"
             PROVE  /\ state'[call[t].arg] \notin {"NONE", "DONE"}
                    /\ join_waiter[call[t].arg] = t
  BY <1>2 DEF JoinerHasWaker
<1>4. PICK b : b = call[t].arg
  OBVIOUS
<1>5. state[t] = "BLOCKED"
  BY <1>3
<1>6. b \in Ids /\ state[b] \notin {"NONE", "DONE"} /\ join_waiter[b] = t
  BY <1>4, <1>5, CallCases DEF JoinerHasWaker, CoreInv
<1>7. b # g
  BY <1>3, <1>5, <1>6 DEF NoThread, Ids
<1>8. state'[b] \notin {"NONE", "DONE"}
  BY <1>3, <1>6, <1>7
<1> QED BY <1>4, <1>6, <1>8

\* No step leaves a joiner without a waker, and no stale wake-up either: it can
\* only end a join too early.
LEMMA CoreWaker ==
    ASSUME CoreInv, CoreInv', JoinerHasWaker, [CoreNext]_schedVars
    PROVE  JoinerHasWaker'
<1> USE DEF CoreInv
<1>0. running => g_current \in Ids /\ state[g_current] = "RUNNING"
  BY DEF OneRunning, TypeOK
<1>1. CASE UNCHANGED schedVars
  BY <1>1, WakerFrame DEF schedVars
<1>2. CASE Create
  <2>1. \A t \in Ids : state'[t] = state[t] \/ state'[t] = "RUNNABLE"
    BY <1>2 DEF Create, TypeOK
  <2> QED BY <1>2, <2>1, WakerFrame DEF Create
<1>3. CASE Yield
  <2>1. \A t \in Ids : state'[t] = state[t] \/ state'[t] = "RUNNABLE"
    BY <1>3 DEF Yield, TypeOK
  <2> QED BY <1>3, <2>1, WakerFrame DEF Yield
<1>4. ASSUME NEW id \in Ids, JoinRefused(id) \/ JoinFinished(id)
      PROVE  JoinerHasWaker'
  BY <1>4, WakerFrame DEF JoinRefused, JoinFinished
<1>5. ASSUME NEW id \in Ids, JoinBlocks(id)
      PROVE  JoinerHasWaker'
  BY <1>5, WakerJoins
<1>6. CASE JoinReturns \/ IoReturns
  <2>1. /\ \A t \in Ids : call'[t] = IF t = g_current THEN InApp ELSE call[t]
        /\ state' = state /\ join_waiter' = join_waiter
        /\ state[g_current] = "RUNNING"
    BY <1>0, <1>6 DEF JoinReturns, IoReturns, TypeOK
  <2> QED BY <2>1 DEF JoinerHasWaker
<1>7. CASE IoBlocks
  <2>1. \A t \in Ids :
          /\ state'[t] = IF t = g_current THEN "BLOCKED" ELSE state[t]
          /\ call'[t] = IF t = g_current THEN InIo ELSE call[t]
          /\ join_waiter' = join_waiter
    BY <1>7 DEF IoBlocks, rr_scheduler_block_current, TypeOK
  <2>2. InIo.kind = "io"
    BY DEF InIo
  <2> SUFFICES ASSUME NEW t \in Ids, state'[t] = "BLOCKED",
                      call'[t].kind = "join"
               PROVE  /\ state'[call'[t].arg] \notin {"NONE", "DONE"}
                      /\ join_waiter'[call'[t].arg] = t
    BY DEF JoinerHasWaker
  <2>3. t # g_current
    BY <2>1, <2>2
  <2>4. call'[t] = call[t] /\ state[t] = "BLOCKED"
    BY <2>1, <2>3
  <2>5. /\ call[t].arg \in Ids /\ state[call[t].arg] \notin {"NONE", "DONE"}
        /\ join_waiter[call[t].arg] = t
    BY <2>4, CallCases DEF JoinerHasWaker
  <2> QED BY <2>1, <2>4, <2>5
<1>8. ASSUME NEW v \in Retvals, Exit(v)
      PROVE  JoinerHasWaker'
  BY <1>8, WakerExit
<1>9. CASE Dispatch
  <2>1. \A t \in Ids : state'[t] = state[t] \/ state'[t] = "RUNNING"
    BY <1>9, DispatchEffect
  <2> QED BY <1>9, <2>1, WakerFrame, DispatchEffect
<1>10. ASSUME NEW id \in Ids, IoWakes(id) \/ Wakes(id)
       PROVE  JoinerHasWaker'
  <2>1. \A t \in Ids : state'[t] = state[t] \/ state'[t] = "RUNNABLE"
    BY <1>10 DEF IoWakes, Completes, Wakes, rr_scheduler_wake_by_id, TypeOK
  <2> QED BY <1>10, <2>1, WakerFrame DEF IoWakes, Completes, Wakes
<1> QED
  BY <1>1, <1>2, <1>3, <1>4, <1>5, <1>6, <1>7, <1>8, <1>9, <1>10
  DEF CoreNext, Next

\* A join returns 0 only for a thread that rr_scheduler_find found.
LEMMA OkNamesStep ==
    ASSUME CoreInv, OkNamesThread, [CoreNext]_schedVars
    PROVE  OkNamesThread'
<1> USE DEF CoreInv
<1>1. CASE ret' = ret
  BY <1>1 DEF OkNamesThread
<1>2. ASSUME NEW id \in Ids, JoinRefused(id) \/ JoinFinished(id)
      PROVE  OkNamesThread'
  BY <1>2 DEF JoinRefused, JoinFinished, JoinDelivers, OkNamesThread
<1>3. CASE JoinReturns
  <2>1. call[g_current].arg \in Ids
    BY <1>3, CallCases DEF JoinReturns, TypeOK
  <2> QED BY <1>3, <2>1 DEF JoinReturns, JoinDelivers, OkNamesThread
<1>4. \/ ret' = ret
      \/ JoinReturns
      \/ \E id \in Ids : JoinRefused(id) \/ JoinFinished(id)
  BY DEF CoreNext, Next, Create, Yield, JoinBlocks, IoBlocks, IoReturns, Exit,
     Dispatch, SwitchTo, IoWakes, Completes, Wakes, schedVars
<1> QED BY <1>1, <1>2, <1>3, <1>4

\* The operations, links and types of a thread are in order when the process
\* starts.
LEMMA InitFaultInv == InitRing => FaultInv
<1> SUFFICES ASSUME InitRing
             PROVE  FaultInv
  OBVIOUS
<1>1. RingInv
  BY InitRingInv
<1>2. OpsOnce
  BY DEF InitRing, OpsOnce, OpOnce, Once, Submitted, Completed
<1>3. JoinerHasWaker
  BY InitIInv DEF InitRing, IInv
<1>4. OkNamesThread
  BY DEF InitRing, Init, OkNamesThread
<1> QED BY <1>1, <1>2, <1>3, <1>4 DEF FaultInv

LEMMA NextFaultInv == FaultInv /\ [NextRing]_ioVars => FaultInv'
<1> SUFFICES ASSUME FaultInv, [NextRing]_ioVars
             PROVE  FaultInv'
  OBVIOUS
<1>1. RingInv' /\ [CoreNext]_schedVars /\ CoreInv /\ CoreInv'
  BY NextRingInv, RingStepIsCore DEF FaultInv, RingInv
<1>2. OpsOnce'
  BY NextOnce DEF FaultInv
<1>3. JoinerHasWaker'
  BY <1>1, CoreWaker DEF FaultInv
<1>4. OkNamesThread'
  BY <1>1, OkNamesStep DEF FaultInv
<1> QED BY <1>1, <1>2, <1>3, <1>4 DEF FaultInv

\* FaultInv holds in every state, however many submits fail.
THEOREM FaultInductive == RingSpec => []FaultInv
<1>1. FaultInv /\ UNCHANGED ioVars => FaultInv'
  BY NextFaultInv
<1> QED BY <1>1, InitFaultInv, NextFaultInv, PTL DEF RingSpec

\* However many submits fail, no wake-up is lost: a thread blocked in
\* uthread_join is named by a target that has yet to finish.  A stale
\* completion makes a join return too early, but never hang.
THEOREM RingWakeUpSafe == RingSpec => []JoinerHasWaker
<1>1. FaultInv => JoinerHasWaker
  BY DEF FaultInv
<1> QED BY <1>1, FaultInductive, PTL

\* However many submits fail, an idle scheduler in whose ring no system call is
\* pending is idle because of a ring of joins, or because every thread has
\* finished.
THEOREM RingStuckSafe == RingSpec => []StuckOnlyInJoinRing
<1>1. FaultInv => StuckOnlyInJoinRing
  BY StuckByJoins DEF FaultInv, RingInv
<1> QED BY <1>1, FaultInductive, PTL

-----------------------------------------------------------------------------
(* One thread at a time.                                                   *)

\* A thread that is not blocked has nothing in the ring and no name with a
\* live thread.
LEMMA SoundFree ==
    ASSUME NEW t \in Ids, Sound(t), state[t] # "BLOCKED"
    PROVE  /\ \A op \in Ops : op.user_data = t => ~Pending(op)
           /\ \A b \in Ids : join_waiter[b] = t => state[b] = "DONE"
  BY DEF Sound, OwnOpsOnly, OwnJoinOnly

\* A step that neither blocks nor wakes t, nor returns from a call of t, leaves
\* t in order, whatever it does to the others.
LEMMA SoundFrame ==
    ASSUME CoreInv, OkNamesThread, [CoreNext]_schedVars, NEW t \in Ids, Sound(t),
           \A op \in Ops : op.user_data = t /\ Pending(op)' => Pending(op),
           calls'[t] = calls[t],
           io_result'[t] = io_result[t],
           call'[t] = call[t],
           state'[t] = "BLOCKED" <=> state[t] = "BLOCKED",
           \A b \in Ids : join_waiter'[b] = t => join_waiter[b] = t,
           \/ sysret' = sysret
           \/ sysret'.by = t => sysret'.res \in {Failed, sysret'.n},
           \/ ret' = ret
           \/ ret'.by = t /\ ret'.res = "ok" => state'[ret'.of] = "DONE"
    PROVE  Sound(t)'
<1>1. \A b \in Ids : state[b] = "DONE" => state'[b] = "DONE"
  BY CoreDone DEF schedVars
<1>2. OwnOpsOnly(t)'
  BY DEF Sound, OwnOpsOnly
<1>3. OwnJoinOnly(t)'
  BY <1>1 DEF Sound, OwnJoinOnly
<1>4. call[t] = InIo /\ state'[t] # "BLOCKED" => io_result'[t] = calls'[t]
  BY DEF Sound, ReturnsRight
<1>5. call[t].kind = "join" /\ state'[t] # "BLOCKED"
            => state'[call[t].arg] = "DONE"
  BY <1>1, CallCases DEF Sound, ReturnsRight, CoreInv
<1>6. sysret'.by = t => sysret'.res \in {Failed, sysret'.n}
  BY DEF Sound, ReturnsRight
<1>7. ret'.by = t /\ ret'.res = "ok" => state'[ret'.of] = "DONE"
  BY <1>1 DEF Sound, ReturnsRight, OkNamesThread
<1>8. ReturnsRight(t)'
  BY <1>4, <1>5, <1>6, <1>7 DEF ReturnsRight
<1> QED BY <1>2, <1>3, <1>8 DEF Sound

\* uthread_join blocks the caller with its name in the one thread it waits for.
LEMMA SoundJoins ==
    ASSUME CoreInv, TypeOK', OkNamesThread, NEW t \in Ids, Sound(t),
           NEW id \in Ids, JoinBlocks(id), UNCHANGED ringVars
    PROVE  Sound(t)'
<1>1. PICK g : g = g_current
  OBVIOUS
<1>2. /\ g \in Ids /\ state[g] = "RUNNING" /\ state[id] # "DONE" /\ id # g
  BY <1>1 DEF JoinBlocks, AppRuns, JoinErrno, CoreInv, OneRunning, TypeOK
<1>3. \A u \in Ids :
        /\ state'[u] = IF u = g THEN "BLOCKED" ELSE state[u]
        /\ call'[u] = IF u = g THEN InJoin(id) ELSE call[u]
        /\ join_waiter'[u] = IF u = id THEN g ELSE join_waiter[u]
  BY <1>1 DEF JoinBlocks, rr_scheduler_block_current, CoreInv, TypeOK
<1>4. ret' = ret
  BY DEF JoinBlocks
<1>5. /\ calls' = calls /\ io_result' = io_result /\ sysret' = sysret
      /\ \A op : Pending(op)' <=> Pending(op)
  BY DEF ringVars, Pending, SqIndexes, CqIndexes
<1>6. [CoreNext]_schedVars
  BY DEF CoreNext, Next
<1>7. CASE t # g
  BY <1>3, <1>4, <1>5, <1>6, <1>7, SoundFrame
<1>8. CASE t = g
  <2>1. /\ \A op \in Ops : op.user_data = t => ~Pending(op)
        /\ \A b \in Ids : join_waiter[b] = t => state[b] = "DONE"
    BY <1>2, <1>8, SoundFree
  <2>2. OwnOpsOnly(t)'
    BY <1>5, <2>1 DEF OwnOpsOnly
  <2>3. OwnJoinOnly(t)'
    BY <1>2, <1>3, <1>8, <2>1 DEF OwnJoinOnly
  <2>4. InJoin(id) # InIo
    BY DEF InJoin, InIo
  <2>5. sysret.by = t => sysret.res \in {Failed, sysret.n}
    BY DEF Sound, ReturnsRight
  <2>6. ret.by = t /\ ret.res = "ok" => ret.of \in Ids /\ state[ret.of] = "DONE"
    BY DEF Sound, ReturnsRight, OkNamesThread
  <2>7. ret.by = t /\ ret.res = "ok" => state'[ret.of] = "DONE"
    BY <1>2, <1>3, <2>6
  <2>8. ReturnsRight(t)'
    BY <1>3, <1>4, <1>5, <1>8, <2>4, <2>5, <2>7 DEF ReturnsRight
  <2> QED BY <2>2, <2>3, <2>8 DEF Sound
<1> QED BY <1>7, <1>8

\* The rest of uthread_join: the thread joined has finished.
LEMMA SoundJoinReturns ==
    ASSUME CoreInv, OkNamesThread, NEW t \in Ids, Sound(t),
           JoinReturns, UNCHANGED ringVars
    PROVE  Sound(t)'
<1>1. PICK g : g = g_current
  OBVIOUS
<1>2. /\ g \in Ids /\ state[g] = "RUNNING" /\ call[g].kind = "join"
      /\ ret'.by = g /\ ret'.of = call[g].arg
  BY <1>1 DEF JoinReturns, JoinDelivers, CoreInv, OneRunning, TypeOK
<1>3. /\ state' = state /\ join_waiter' = join_waiter
      /\ \A u \in Ids : call'[u] = IF u = g THEN InApp ELSE call[u]
  BY <1>1 DEF JoinReturns, CoreInv, TypeOK
<1>4. /\ calls' = calls /\ io_result' = io_result /\ sysret' = sysret
      /\ \A op : Pending(op)' <=> Pending(op)
  BY DEF ringVars, Pending, SqIndexes, CqIndexes
<1>5. [CoreNext]_schedVars
  BY DEF CoreNext, Next
<1>6. CASE t # g
  BY <1>2, <1>3, <1>4, <1>5, <1>6, SoundFrame
<1>7. CASE t = g
  <2>1. /\ \A op \in Ops : op.user_data = t => ~Pending(op)
        /\ \A b \in Ids : join_waiter[b] = t => state[b] = "DONE"
    BY <1>2, <1>7, SoundFree
  <2>2. OwnOpsOnly(t)' /\ OwnJoinOnly(t)'
    BY <1>3, <1>4, <2>1 DEF OwnOpsOnly, OwnJoinOnly
  <2>3. /\ state[call[t].arg] = "DONE"
        /\ sysret.by = t => sysret.res \in {Failed, sysret.n}
    BY <1>2, <1>7 DEF Sound, ReturnsRight
  <2>4. call'[t] # InIo /\ call'[t].kind # "join"
    BY <1>3, <1>7 DEF InApp, InIo
  <2>5. state'[ret'.of] = "DONE"
    BY <1>2, <1>3, <1>7, <2>3
  <2>6. ReturnsRight(t)'
    BY <1>4, <2>3, <2>4, <2>5 DEF ReturnsRight
  <2> QED BY <2>2, <2>6 DEF Sound
<1> QED BY <1>6, <1>7

\* rr_scheduler_exit_current wakes the thread that waits for this one.
LEMMA SoundExit ==
    ASSUME CoreInv, OkNamesThread, NEW t \in Ids, Sound(t),
           NEW v \in Retvals, Exit(v), UNCHANGED ringVars
    PROVE  Sound(t)'
<1>1. PICK g : g = g_current
  OBVIOUS
<1>2. /\ g \in Ids /\ state[g] = "RUNNING"
      /\ join_waiter' = join_waiter /\ call' = call /\ ret' = ret
  BY <1>1 DEF Exit, AppRuns, CoreInv, OneRunning, TypeOK
<1>3. \A u \in Ids :
        state'[u] = IF u = g THEN "DONE"
                    ELSE IF /\ join_waiter[g] # NoThread
                            /\ state[join_waiter[g]] = "BLOCKED"
                            /\ u = join_waiter[g] THEN "RUNNABLE"
                    ELSE state[u]
  BY <1>1 DEF Exit
<1>4. /\ calls' = calls /\ io_result' = io_result /\ sysret' = sysret
      /\ \A op : Pending(op)' <=> Pending(op)
  BY DEF ringVars, Pending, SqIndexes, CqIndexes
<1>5. [CoreNext]_schedVars
  BY DEF CoreNext, Next
<1>6. CASE state'[t] = "BLOCKED" <=> state[t] = "BLOCKED"
  BY <1>2, <1>4, <1>5, <1>6, SoundFrame, Zenon
<1>7. CASE ~(state'[t] = "BLOCKED" <=> state[t] = "BLOCKED")
  <2>1. /\ state[t] = "BLOCKED" /\ state'[t] # "BLOCKED"
        /\ t # g /\ join_waiter[g] = t
    BY <1>2, <1>3, <1>7
  <2>2. call[t] = InJoin(g)
    BY <1>2, <2>1 DEF Sound, OwnJoinOnly
  <2>3. /\ \A op \in Ops : op.user_data = t => ~Pending(op)
        /\ \A b \in Ids : state[b] # "DONE" /\ join_waiter[b] = t => b = g
    <3>1. /\ InJoin(g) # InIo
          /\ \A b \in Ids : InJoin(b) = InJoin(g) => b = g
      BY DEF InJoin, InIo
    <3>2. \A b \in Ids : state[b] # "DONE" /\ join_waiter[b] = t
                            => call[t] = InJoin(b)
      BY DEF Sound, OwnJoinOnly
    <3>3. \A op \in Ops : op.user_data = t /\ Pending(op) => call[t] = InIo
      BY DEF Sound, OwnOpsOnly
    <3> QED BY <2>2, <3>1, <3>2, <3>3
  <2>4. OwnOpsOnly(t)'
    BY <1>4, <2>3 DEF OwnOpsOnly
  <2>5. OwnJoinOnly(t)'
    BY <1>2, <1>3, <2>3 DEF OwnJoinOnly
  <2>6. call'[t] # InIo /\ call'[t].arg = g /\ state'[g] = "DONE"
    BY <1>2, <1>3, <2>2 DEF InJoin, InIo
  <2>7. sysret.by = t => sysret.res \in {Failed, sysret.n}
    BY DEF Sound, ReturnsRight
  <2>8. ret.by = t /\ ret.res = "ok" => ret.of \in Ids /\ state[ret.of] = "DONE"
    BY DEF Sound, ReturnsRight, OkNamesThread
  <2>9. ret.by = t /\ ret.res = "ok" => state'[ret.of] = "DONE"
    BY <1>3, <2>8
  <2>10. ReturnsRight(t)'
    BY <1>2, <1>4, <2>6, <2>7, <2>9 DEF ReturnsRight
  <2> QED BY <2>4, <2>5, <2>10 DEF Sound
<1> QED BY <1>6, <1>7

\* A step of the application or of the scheduler that leaves the ring alone.
LEMMA SoundSchedulerStep ==
    ASSUME CoreInv, TypeOK', OkNamesThread, NEW t \in Ids, Sound(t),
           SchedulerStep
    PROVE  Sound(t)'
<1> USE DEF CoreInv
<1>1. UNCHANGED ringVars
  BY DEF SchedulerStep
<1>2. /\ calls' = calls /\ io_result' = io_result /\ sysret' = sysret
      /\ \A op : Pending(op)' <=> Pending(op)
  BY <1>1 DEF ringVars, Pending, SqIndexes, CqIndexes
<1>3. [CoreNext]_schedVars
  BY DEF SchedulerStep, CoreNext, Next
<1>4. running => g_current \in Ids /\ state[g_current] = "RUNNING"
  BY DEF OneRunning, TypeOK
<1>5. CASE Create
  <2>1. g_next_id \in Ids /\ g_next_id >= g_next_id
    BY <1>5 DEF Create, TypeOK
  <2>2. state[g_next_id] = "NONE"
    BY <2>1 DEF CallMatchesState
  <2>3. state'[t] = "BLOCKED" <=> state[t] = "BLOCKED"
    BY <1>5, <2>1, <2>2 DEF Create, TypeOK
  <2>4. call' = call /\ join_waiter' = join_waiter /\ ret' = ret
    BY <1>5 DEF Create
  <2> QED BY <1>2, <1>3, <2>3, <2>4, SoundFrame
<1>6. CASE Yield
  <2>1. state'[t] = "BLOCKED" <=> state[t] = "BLOCKED"
    BY <1>4, <1>6 DEF Yield, AppRuns, TypeOK
  <2>2. call' = call /\ join_waiter' = join_waiter /\ ret' = ret
    BY <1>6 DEF Yield
  <2> QED BY <1>2, <1>3, <2>1, <2>2, SoundFrame
<1>7. ASSUME NEW id \in Ids, JoinRefused(id)
      PROVE  Sound(t)'
  <2>1. /\ call' = call /\ join_waiter' = join_waiter /\ state' = state
        /\ ret'.res # "ok"
    BY <1>7 DEF JoinRefused
  <2> QED BY <1>2, <1>3, <2>1, SoundFrame
<1>8. ASSUME NEW id \in Ids, JoinFinished(id)
      PROVE  Sound(t)'
  <2>1. /\ call' = call /\ join_waiter' = join_waiter /\ state' = state
        /\ state'[ret'.of] = "DONE"
    BY <1>8 DEF JoinFinished, JoinDelivers
  <2> QED BY <1>2, <1>3, <2>1, SoundFrame
<1>9. ASSUME NEW id \in Ids, JoinBlocks(id)
      PROVE  Sound(t)'
  BY <1>1, <1>9, SoundJoins
<1>10. CASE JoinReturns
  BY <1>1, <1>10, SoundJoinReturns
<1>11. ASSUME NEW v \in Retvals, Exit(v)
       PROVE  Sound(t)'
  BY <1>1, <1>11, SoundExit
<1>12. CASE Dispatch
  <2>1. /\ state'[t] = "BLOCKED" <=> state[t] = "BLOCKED"
        /\ call' = call /\ join_waiter' = join_waiter /\ ret' = ret
    BY <1>12, DispatchEffect
  <2> QED BY <1>2, <1>3, <2>1, SoundFrame
<1> QED
  BY <1>5, <1>6, <1>7, <1>8, <1>9, <1>10, <1>11, <1>12 DEF SchedulerStep

\* A system call that is submitted blocks its caller with its own operation in
\* the ring; one that finds no free entry leaves nothing behind.
LEMMA SoundSubmits ==
    ASSUME RingInv, OkNamesThread, NEW t \in Ids, Sound(t), IoSubmits
    PROVE  Sound(t)' \/ SubmitFailsIn(t)
<1> USE DEF RingInv, CoreInv
<1>1. PICK g, e : g = g_current /\ e = Sqe(g_current)
  OBVIOUS
<1>2. /\ g \in Ids /\ state[g] = "RUNNING" /\ calls[g] \in Nat
      /\ \A u \in Ids : calls'[u] = IF u = g THEN calls[u] + 1 ELSE calls[u]
      /\ e \in Ops /\ e # SignalRead /\ e.user_data = g /\ e.n = calls[g] + 1
  BY <1>1, CallNumbers DEF Sqe
<1>3. cq' = cq /\ io_result' = io_result
  BY DEF IoSubmits
<1>4. [CoreNext]_schedVars
  BY DEF IoSubmits, CallFails, CoreNext, Next
<1>5. \A op : Pending(op)' => Pending(op) \/ op = e
  <2>1. CASE SqFull
    BY <1>3, <2>1 DEF IoSubmits, Pending, SqIndexes, CqIndexes
  <2>2. CASE ~SqFull
    <3>1. \/ io_uring_submit(Append(sq, e))
          \/ io_uring_submit_fails(Append(sq, e))
      BY <1>1, <2>2 DEF IoSubmits
    <3>2. \A op : Submitted(op)' => Submitted(op) \/ op = e
      BY <1>2, <2>2, <3>1, EnterEffect
    <3>3. \A op : Pending(op)' <=> Submitted(op)' \/ Completed(op)
      BY <1>3 DEF Pending, Submitted, Completed, SqIndexes, CqIndexes
    <3>4. \A op : Pending(op) <=> Submitted(op) \/ Completed(op)
      BY PendingIs DEF InRing
    <3> QED BY <3>2, <3>3, <3>4
  <2> QED BY <2>1, <2>2
<1>6. CASE t # g
  <2>1. /\ call'[t] = call[t] /\ state'[t] = state[t]
        /\ join_waiter' = join_waiter /\ ret' = ret
        /\ sysret' = sysret \/ sysret'.by # t
    BY <1>1, <1>6 DEF IoSubmits, CallFails, IoBlocks, schedVars,
       rr_scheduler_block_current, TypeOK
  <2>2. \A op \in Ops : op.user_data = t /\ Pending(op)' => Pending(op)
    BY <1>2, <1>5, <1>6
  <2> QED BY <1>2, <1>3, <1>4, <1>6, <2>1, <2>2, SoundFrame
<1>7. CASE t = g
  <2>1. /\ \A op \in Ops : op.user_data = t => ~Pending(op)
        /\ \A b \in Ids : join_waiter[b] = t => state[b] = "DONE"
    BY <1>2, <1>7, SoundFree
  <2>2. ret.by = t /\ ret.res = "ok" => ret.of \in Ids /\ state[ret.of] = "DONE"
    BY DEF Sound, ReturnsRight, OkNamesThread
  <2>3. call[t].kind = "app"
    BY <1>1, <1>7 DEF IoSubmits, AppRuns
  <2>4. CASE io_uring_submit(Append(sq, e)) /\ IoBlocks /\ UNCHANGED sysret
    <3>1. /\ \A u \in Ids :
                /\ state'[u] = IF u = g THEN "BLOCKED" ELSE state[u]
                /\ call'[u] = IF u = g THEN InIo ELSE call[u]
          /\ join_waiter' = join_waiter /\ ret' = ret
      BY <1>1, <2>4 DEF IoBlocks, rr_scheduler_block_current, TypeOK
    <3>2. OwnOpsOnly(t)'
      BY <1>2, <1>5, <1>7, <2>1, <3>1 DEF OwnOpsOnly
    <3>3. OwnJoinOnly(t)'
      BY <1>2, <1>7, <2>1, <3>1 DEF OwnJoinOnly
    <3>4. ret.by = t /\ ret.res = "ok" => state'[ret.of] = "DONE"
      BY <1>2, <2>2, <3>1
    <3>5. sysret.by = t => sysret.res \in {Failed, sysret.n}
      BY DEF Sound, ReturnsRight
    <3>6. ReturnsRight(t)'
      BY <1>7, <2>4, <3>1, <3>4, <3>5 DEF ReturnsRight
    <3> QED BY <3>2, <3>3, <3>6 DEF Sound
  <2>5. CASE io_uring_submit_fails(Append(sq, e))
    <3>1. submit_failures \in Nat /\ submit_failures' = submit_failures + 1
      BY <2>5 DEF io_uring_submit_fails, RingTypeOK
    <3>2. AppRuns /\ g_current = t
      BY <1>1, <1>7 DEF IoSubmits
    <3> QED BY <3>1, <3>2 DEF SubmitFailsIn
  <2>6. CASE CallFails /\ UNCHANGED <<sq, inflight>>
    <3>1. /\ state' = state /\ call' = call /\ join_waiter' = join_waiter
          /\ ret' = ret /\ sysret'.res = Failed
      BY <2>6 DEF CallFails, schedVars
    <3>2. \A op : Pending(op)' <=> Pending(op)
      BY <1>3, <2>6 DEF Pending, SqIndexes, CqIndexes
    <3>3. OwnOpsOnly(t)'
      BY <2>1, <3>2 DEF OwnOpsOnly
    <3>4. OwnJoinOnly(t)'
      BY <2>1, <3>1 DEF OwnJoinOnly
    <3>5. call'[t] # InIo /\ call'[t].kind # "join"
      BY <2>3, <3>1 DEF InIo
    <3>6. ReturnsRight(t)'
      BY <2>2, <3>1, <3>5 DEF ReturnsRight
    <3> QED BY <3>3, <3>4, <3>6 DEF Sound
  <2> QED BY <1>1, <2>4, <2>5, <2>6 DEF IoSubmits
<1> QED BY <1>6, <1>7

\* A system call that ends returns what the completion of its own operation
\* left in io_result.
LEMMA SoundDelivers ==
    ASSUME CoreInv, OkNamesThread, NEW t \in Ids, Sound(t), IoDelivers
    PROVE  Sound(t)'
<1>1. PICK g : g = g_current
  OBVIOUS
<1>2. /\ g \in Ids /\ state[g] = "RUNNING" /\ call[g].kind = "io"
      /\ sysret' = [by |-> g, n |-> calls[g], res |-> io_result[g]]
  BY <1>1, ZenonT(60) DEF IoDelivers, IoReturns, CoreInv, OneRunning, TypeOK
<1>3. /\ state' = state /\ join_waiter' = join_waiter /\ ret' = ret
      /\ \A u \in Ids : call'[u] = IF u = g THEN InApp ELSE call[u]
  BY <1>1, ZenonT(60) DEF IoDelivers, IoReturns, CoreInv, TypeOK
<1>4. /\ calls' = calls /\ io_result' = io_result
      /\ \A op : Pending(op)' <=> Pending(op)
  BY DEF IoDelivers, Pending, SqIndexes, CqIndexes
<1>5. [CoreNext]_schedVars
  BY DEF IoDelivers, CoreNext, Next
<1>6. CASE t # g
  BY <1>2, <1>3, <1>4, <1>5, <1>6, SoundFrame
<1>7. CASE t = g
  <2>1. /\ \A op \in Ops : op.user_data = t => ~Pending(op)
        /\ \A b \in Ids : join_waiter[b] = t => state[b] = "DONE"
    BY <1>2, <1>7, SoundFree
  <2>2. OwnOpsOnly(t)' /\ OwnJoinOnly(t)'
    BY <1>3, <1>4, <2>1 DEF OwnOpsOnly, OwnJoinOnly
  <2>3. call[t] = InIo
    BY <1>2, <1>7, CallCases DEF CoreInv
  <2>4. /\ io_result[t] = calls[t]
        /\ ret.by = t /\ ret.res = "ok" => state[ret.of] = "DONE"
    BY <1>2, <1>7, <2>3 DEF Sound, ReturnsRight
  <2>5. call'[t] # InIo /\ call'[t].kind # "join"
    BY <1>3, <1>7 DEF InApp, InIo
  <2>6. sysret'.res = sysret'.n
    BY <1>2, <1>7, <2>4
  <2>7. ReturnsRight(t)'
    BY <1>3, <2>4, <2>5, <2>6 DEF ReturnsRight
  <2> QED BY <2>2, <2>7 DEF Sound
<1> QED BY <1>6, <1>7

\* A completion wakes the thread it names, from the call it belongs to; for
\* every other thread nothing happens.
LEMMA SoundWakes ==
    ASSUME RingInv, OpsOnce, OkNamesThread, NEW t \in Ids, Sound(t),
           CompletionWakes
    PROVE  Sound(t)'
<1> USE DEF RingInv, CoreInv
<1>1. PICK op, u : op = Head(cq).op /\ u = op.user_data
  OBVIOUS
<1>2. /\ op \in Ops /\ u \in Ids /\ op # SignalRead
      /\ Head(cq).op # SignalRead /\ cq # <<>>
  BY <1>1, HeadNamesThread DEF CompletionWakes
<1>3. /\ cq' = Tail(cq)
      /\ UNCHANGED <<g_next_id, g_current, running, join_waiter, retval, call,
                     ret, sq, inflight, calls, sysret>>
  BY DEF CompletionWakes
<1>4. /\ \A x \in Ids :
            state'[x] = IF x = u /\ state[u] = "BLOCKED" THEN "RUNNABLE"
                        ELSE state[x]
      /\ \A x \in Ids :
            io_result'[x] = IF x = u /\ state[u] = "BLOCKED" THEN op.n
                            ELSE io_result[x]
  BY <1>1, <1>2, ZenonT(60) DEF CompletionWakes, rr_scheduler_wake_by_id, TypeOK, RingTypeOK
<1>5. [CoreNext]_schedVars
  <2>1. Wakes(u)
    BY <1>1, <1>3, ZenonT(60) DEF CompletionWakes, Wakes
  <2> QED BY <1>2, <2>1 DEF CoreNext
<1>6. /\ \A x \in Ops : Completed(x)' => Completed(x)
      /\ Completed(op)
      /\ ~Completed(op)'
  <2>1. \A i, j \in DOMAIN cq : cq[i].op = op /\ cq[j].op = op => i = j
    BY <1>2 DEF OpsOnce, OpOnce
  <2> QED BY <1>1, <1>2, <1>3, <2>1, ConsumeEffect
<1>7. /\ \A x : Pending(x) <=> Submitted(x) \/ Completed(x)
      /\ \A x : Pending(x)' <=> Submitted(x) \/ Completed(x)'
  <2>1. \A x : Pending(x) <=> Submitted(x) \/ Completed(x)
    BY PendingIs DEF InRing
  <2>2. \A x : Pending(x)' <=> Submitted(x) \/ Completed(x)'
    BY <1>3 DEF Pending, Submitted, Completed, SqIndexes, CqIndexes
  <2> QED BY <2>1, <2>2
<1>8. CASE t # u \/ state[t] # "BLOCKED"
  <2>1. /\ state'[t] = state[t] /\ io_result'[t] = io_result[t]
    BY <1>4, <1>8
  <2>2. \A x \in Ops : x.user_data = t /\ Pending(x)' => Pending(x)
    BY <1>6, <1>7
  <2> QED BY <1>3, <1>5, <2>1, <2>2, SoundFrame, ZenonT(60)
<1>9. CASE t = u /\ state[t] = "BLOCKED"
  <2>1. op.n = calls[t] /\ call[t] = InIo
    BY <1>1, <1>2, <1>6, <1>7, <1>9, Zenon DEF Sound, OwnOpsOnly
  <2>2. ~Pending(op)'
    BY <1>2, <1>6, <1>7 DEF OpsOnce, OpOnce
  <2>3. \A x \in Ops : x.user_data = t /\ Pending(x) => x = op
    <3> SUFFICES ASSUME NEW x \in Ops, x.user_data = t, Pending(x)
                 PROVE  x = op
      OBVIOUS
    <3>1. x.n = calls[t]
      BY DEF Sound, OwnOpsOnly
    <3>2. x.n = op.n /\ x.user_data = op.user_data
      BY <1>1, <1>9, <2>1, <3>1
    <3> QED BY <1>2, <3>2 DEF Ops
  <2>4. OwnOpsOnly(t)'
    BY <1>6, <1>7, <2>2, <2>3 DEF OwnOpsOnly
  <2>5. OwnJoinOnly(t)'
    <3>0. \A b \in Ids : InJoin(b) # InIo
      BY DEF InIo, InJoin
    <3>1. \A b \in Ids : join_waiter[b] = t => state[b] = "DONE"
      BY <2>1, <3>0 DEF Sound, OwnJoinOnly
    <3>2. \A b \in Ids : join_waiter'[b] = t => state'[b] = "DONE"
      BY <1>3, <1>4, <1>9, <3>1
    <3> QED BY <3>2 DEF OwnJoinOnly
  <2>6. io_result'[t] = calls'[t]
    BY <1>3, <1>4, <1>9, <2>1
  <2>7. call'[t].kind # "join"
    BY <1>3, <2>1 DEF InIo
  <2>8. sysret.by = t => sysret.res \in {Failed, sysret.n}
    BY DEF Sound, ReturnsRight
  <2>9. ret.by = t /\ ret.res = "ok" => ret.of \in Ids /\ state[ret.of] = "DONE"
    BY DEF Sound, ReturnsRight, OkNamesThread
  <2>10. ret.by = t /\ ret.res = "ok" => state'[ret.of] = "DONE"
    BY <1>4, <1>9, <2>9
  <2>11. ReturnsRight(t)'
    BY <1>3, <2>6, <2>7, <2>8, <2>10 DEF ReturnsRight
  <2> QED BY <2>4, <2>5, <2>11 DEF Sound
<1> QED BY <1>8, <1>9

\* The signalfd read belongs to no thread, and the kernel adds no operation.
LEMMA SoundRing ==
    ASSUME RingInv, OkNamesThread, NEW t \in Ids, Sound(t),
           \/ SignalTerminates
           \/ SignalRearms
           \/ \E x \in inflight : KernelCompletes(x)
           \/ UNCHANGED ioVars
    PROVE  Sound(t)'
<1> USE DEF RingInv
<1>1. UNCHANGED <<schedVars, calls, io_result, sysret>>
  BY DEF SignalTerminates, SignalRearms, KernelCompletes, ioVars, ringVars
<1>2. \A op \in Ops : op.user_data = t /\ Pending(op)' => Pending(op)
  <2> SUFFICES ASSUME NEW op \in Ops, op.user_data = t, Pending(op)'
               PROVE  Pending(op)
    OBVIOUS
  <2>0. /\ Pending(op) <=> Submitted(op) \/ Completed(op)
        /\ Submitted(op)' \/ Completed(op)'
        /\ op # SignalRead
    BY PendingIs DEF InRing, Pending, Submitted, Completed, SqIndexes,
       CqIndexes, SignalRead, RR_SIGNAL_SENTINEL, Ids
  <2>1. CASE SignalTerminates \/ UNCHANGED ioVars
    BY <2>0, <2>1, Zenon DEF SignalTerminates, ioVars, ringVars, Submitted, Completed
  <2>2. CASE SignalRearms
    <3>1. cq # <<>> /\ cq' = Tail(cq) /\ Head(cq).op = SignalRead
      BY <2>2, ZenonT(60) DEF SignalRearms
    <3>2. /\ Completed(op)' => Completed(op)
          /\ SignalRead \in Ops /\ Completed(SignalRead)
      BY <3>1, ConsumeEffect
    <3>3. ~Submitted(SignalRead)
      BY <3>2 DEF SignalOnce
    <3>4. Submitted(op)' => Submitted(op)
      <4>1. CASE SqFull
        BY <2>2, <4>1 DEF SignalRearms, rr_io_submit_signal_read, Submitted
      <4>2. CASE ~SqFull
        <5>1. \/ io_uring_submit(Append(sq, SignalRead))
              \/ io_uring_submit_fails(Append(sq, SignalRead))
          BY <2>2, <4>2 DEF SignalRearms, rr_io_submit_signal_read
        <5> QED BY <2>0, <3>2, <3>3, <4>2, <5>1, EnterEffect
      <4> QED BY <4>1, <4>2
    <3> QED BY <2>0, <3>2, <3>4
  <2>3. ASSUME NEW x \in inflight, KernelCompletes(x)
        PROVE  Pending(op)
    <3>1. /\ Completed(op)' => Completed(op) \/ op = x
          /\ inflight' \subseteq inflight /\ sq' = sq
      BY <2>3, CompleteEffect
    <3>2. Submitted(x)
      BY DEF Submitted
    <3>3. Submitted(op)' => Submitted(op)
      BY <3>1 DEF Submitted
    <3> QED BY <2>0, <3>1, <3>2, <3>3
  <2> QED BY <2>1, <2>2, <2>3
<1>3. CoreInv /\ [CoreNext]_schedVars
  BY <1>1
<1>4. /\ calls' = calls /\ io_result' = io_result /\ sysret' = sysret
      /\ call' = call /\ state' = state /\ join_waiter' = join_waiter
      /\ ret' = ret
  BY <1>1 DEF schedVars
<1> QED BY <1>2, <1>3, <1>4, SoundFrame, Zenon

\* A thread that is in order stays in order, unless a submit fails in a call of
\* its own.
LEMMA SoundStep ==
    ASSUME FaultInv, [NextRing]_ioVars, NEW t \in Ids, Sound(t)
    PROVE  Sound(t)' \/ SubmitFailsIn(t)
<1>1. RingInv /\ OpsOnce /\ OkNamesThread /\ CoreInv
  BY DEF FaultInv, RingInv
<1>2. TypeOK'
  BY NextFaultInv DEF FaultInv, RingInv, CoreInv
<1>3. CASE SchedulerStep
  BY <1>1, <1>2, <1>3, SoundSchedulerStep
<1>4. CASE IoSubmits
  BY <1>1, <1>4, SoundSubmits
<1>5. CASE IoDelivers
  BY <1>1, <1>5, SoundDelivers
<1>6. CASE CompletionWakes
  BY <1>1, <1>6, SoundWakes
<1>7. CASE \/ SignalTerminates \/ SignalRearms
           \/ \E x \in inflight : KernelCompletes(x)
           \/ UNCHANGED ioVars
  BY <1>1, <1>7, SoundRing
<1> QED BY <1>3, <1>4, <1>5, <1>6, <1>7 DEF NextRing, rr_io_wait

\* Faults stay local: a failing submit harms nobody but the thread whose call
\* it was.
THEOREM FaultsLocalSafe == RingSpec => FaultsStayLocal
<1>1. FaultInv /\ [NextRing]_ioVars =>
        [\A t \in Ids : Sound(t) => Sound(t)' \/ SubmitFailsIn(t)]_ioVars
  BY SoundStep
<1> QED BY <1>1, FaultInductive, PTL DEF RingSpec, FaultsStayLocal

\* Nothing is in the ring for a thread, and none has left its name, when the
\* process starts.
LEMMA InitSound ==
    ASSUME InitRing, NEW t \in Ids
    PROVE  Sound(t)
<1>1. OwnOpsOnly(t)
  BY DEF InitRing, OwnOpsOnly, Pending, SqIndexes, CqIndexes, SignalRead,
     RR_SIGNAL_SENTINEL, Ids
<1>2. OwnJoinOnly(t)
  BY DEF InitRing, Init, OwnJoinOnly, NoThread, Ids
<1>3. call[t] = InApp /\ sysret.by = 0 /\ ret.by = 0
  BY DEF InitRing, Init
<1>4. ReturnsRight(t)
  BY <1>3 DEF ReturnsRight, InApp, InIo, Ids
<1> QED BY <1>1, <1>2, <1>4 DEF Sound

\* A thread in none of whose calls a submit ever fails gets from each of its
\* system calls the result of that very call, and its joins return 0 only for
\* threads that have finished, however many submits fail in the calls of the
\* other threads and for the signalfd read.
THEOREM FaultContainment ==
    ASSUME NEW t \in Ids
    PROVE  RingSpec /\ [][~SubmitFailsIn(t)]_ioVars => []Sound(t)
<1>1. InitRing => Sound(t)
  BY InitSound
<1>2. /\ FaultInv /\ Sound(t) /\ [NextRing]_ioVars /\ [~SubmitFailsIn(t)]_ioVars
      => Sound(t)'
  <2> SUFFICES ASSUME FaultInv, Sound(t), [NextRing]_ioVars,
                      [~SubmitFailsIn(t)]_ioVars
               PROVE  Sound(t)'
    OBVIOUS
  <2>1. CASE UNCHANGED ioVars
    BY <2>1, SoundRing DEF FaultInv
  <2>2. CASE ~SubmitFailsIn(t)
    BY <2>2, SoundStep
  <2> QED BY <2>1, <2>2
<1> QED BY <1>1, <1>2, FaultInductive, PTL DEF RingSpec

=============================================================================
