---------------------------- MODULE IoRingProofs ----------------------------
(***************************************************************************)
(* What holds of IoRing for every number of threads, calls, entries and    *)
(* failing submits.                                                        *)
(*                                                                         *)
(* After a failing submit a completion may be stale and wake a thread from *)
(* whatever it is blocked in, so of the scheduler's invariant only its     *)
(* core is left; RingInv adds what is known of the operations.  While no   *)
(* submit has failed, CleanRing says more: every operation in the ring is  *)
(* that of the call its thread is blocked in, once.  That is what makes    *)
(* the ring keep the scheduler's contract.                                 *)
(***************************************************************************)
EXTENDS IoRing, SchedulerProofs, FiniteSetTheorems

\* A leaf that names no prover is left to SMT, with time to spare.
USE SMTT(30)

\* The operations in the ring, on either side of the kernel.
Submitted(op) == op \in inflight \/ \E i \in DOMAIN sq : sq[i] = op
Completed(op) == \E i \in DOMAIN cq : cq[i].op = op
InRing(op) == Submitted(op) \/ Completed(op)

\* The operation is at most once in the entries q and the operations fl.
Once(op, q, fl) ==
    /\ \A i, j \in DOMAIN q : q[i] = op /\ q[j] = op => i = j
    /\ op \in fl => \A i \in DOMAIN q : q[i] # op

IoOp(t) == [user_data |-> t, n |-> calls[t]]

InCall(t) == state[t] = "BLOCKED" /\ call[t].kind = "io"

\* What a wrapper or rr_io_submit_signal_read has prepared.
OpsKnown ==
    \A op \in Ops : InRing(op) =>
        \/ op = SignalRead
        \/ op.user_data \in Ids /\ op.n <= calls[op.user_data]

\* A thread in a system call finds the operation of that call.
CallInRing == \A t \in Ids : InCall(t) => InRing(IoOp(t))

\* An entry stays in the submission queue only because a submit failed.
QueuedByFailure == Len(sq) <= submit_failures

\* The signalfd read is in one place of the ring.
SignalOnce ==
    /\ Once(SignalRead, sq, inflight)
    /\ \A i, j \in DOMAIN cq :
            cq[i].op = SignalRead /\ cq[j].op = SignalRead => i = j
    /\ Completed(SignalRead) => ~Submitted(SignalRead)

\* The signalfd read is lost only to a full submission queue.
SignalKept == submit_failures < SqEntries => InRing(SignalRead)

RingInv ==
    /\ CoreInv
    /\ RingTypeOK
    /\ OpsKnown
    /\ CallInRing
    /\ QueuedByFailure
    /\ SignalOnce
    /\ SignalKept

\* The operation of the call its thread is blocked in.
Current(op) ==
    /\ op.user_data \in Ids
    /\ InCall(op.user_data)
    /\ op = IoOp(op.user_data)

CleanRing ==
    /\ \A op \in inflight : op # SignalRead => Current(op)
    /\ \A i \in DOMAIN cq : cq[i].op # SignalRead => Current(cq[i].op)
    /\ \A i \in DOMAIN cq : cq[i].op \notin inflight
    /\ \A i, j \in DOMAIN cq : cq[i].op = cq[j].op => i = j
    /\ \A t \in Ids : call[t].kind = "io" /\ state[t] # "BLOCKED"
                        => io_result[t] = calls[t]
    /\ ResultIsOwn

JoinedIsDone == ret.res = "ok" => ret.of \in Ids /\ state[ret.of] = "DONE"

CleanInv == submit_failures = 0 => IInv /\ CleanRing /\ JoinedIsDone

-----------------------------------------------------------------------------
(* Facts about the ring.                                                   *)

\* What dropping the first k members of a sequence leaves.
LEMMA SubSeqMembers ==
    ASSUME NEW S, NEW q \in Seq(S), NEW k \in 1..Len(q)
    PROVE  LET r == SubSeq(q, k + 1, Len(q)) IN
           /\ r \in Seq(S)
           /\ Len(r) = Len(q) - k
           /\ DOMAIN r = 1..(Len(q) - k)
           /\ \A i \in 1..(Len(q) - k) : r[i] = q[i + k]
  OBVIOUS

\* io_uring_submit loses nothing, invents nothing and doubles nothing: every
\* entry goes to the kernel or stays queued, and one at least goes.
LEMMA SubmitEffect ==
    ASSUME NEW q \in Seq(Ops), inflight \subseteq Ops, io_uring_submit(q)
    PROVE  /\ sq' \in Seq(Ops)
           /\ Len(sq') < Len(q)
           /\ inflight' \subseteq Ops
           /\ submit_failures' = submit_failures
           /\ \A op : Submitted(op)' <=>
                        op \in inflight \/ \E i \in DOMAIN q : q[i] = op
           /\ \A op : Once(op, q, inflight) => Once(op, sq', inflight')
<1>1. PICK k \in 1..Len(q) :
        /\ inflight' = inflight \cup {q[i] : i \in 1..k}
        /\ sq' = SubSeq(q, k + 1, Len(q))
        /\ submit_failures' = submit_failures
  BY DEF io_uring_submit
<1>2. /\ Len(q) \in Nat
      /\ DOMAIN q = 1..Len(q)
      /\ \A i \in 1..Len(q) : q[i] \in Ops
      /\ k \in Nat
  OBVIOUS
<1>3. /\ sq' \in Seq(Ops)
      /\ Len(sq') = Len(q) - k
      /\ DOMAIN sq' = 1..(Len(q) - k)
      /\ \A i \in 1..(Len(q) - k) : sq'[i] = q[i + k]
  BY <1>1, SubSeqMembers
<1>4. Len(sq') < Len(q)
  BY <1>2, <1>3
<1>5. inflight' \subseteq Ops
  BY <1>1, <1>2
<1>6. ASSUME NEW op
      PROVE  Submitted(op)' <=> op \in inflight \/ \E i \in DOMAIN q : q[i] = op
  <2>1. ASSUME NEW i \in DOMAIN q, q[i] = op
        PROVE  Submitted(op)'
    <3>1. CASE i <= k
      BY <1>1, <1>2, <2>1, <3>1 DEF Submitted
    <3>2. CASE i > k
      <4>1. i - k \in DOMAIN sq' /\ sq'[i - k] = q[i]
        BY <1>2, <1>3, <3>2
      <4> QED BY <2>1, <4>1 DEF Submitted
    <3> QED BY <1>2, <3>1, <3>2
  <2>2. ASSUME NEW i \in DOMAIN sq', sq'[i] = op
        PROVE  \E j \in DOMAIN q : q[j] = op
    <3>1. i + k \in DOMAIN q /\ q[i + k] = op
      BY <1>2, <1>3, <2>2
    <3> QED BY <3>1
  <2>3. ASSUME op \in inflight'
        PROVE  op \in inflight \/ \E j \in DOMAIN q : q[j] = op
    BY <1>1, <1>2, <2>3
  <2> QED BY <1>1, <2>1, <2>2, <2>3 DEF Submitted
<1>7. ASSUME NEW op, Once(op, q, inflight)
      PROVE  Once(op, sq', inflight')
  <2>1. ASSUME NEW i \in DOMAIN sq', NEW j \in DOMAIN sq',
               sq'[i] = op, sq'[j] = op
        PROVE  i = j
    <3>1. /\ i \in Int /\ j \in Int
          /\ i + k \in DOMAIN q /\ q[i + k] = op
          /\ j + k \in DOMAIN q /\ q[j + k] = op
      BY <1>2, <1>3, <2>1
    <3>2. i + k = j + k
      BY <1>7, <3>1 DEF Once
    <3> QED BY <1>2, <3>1, <3>2
  <2>2. ASSUME op \in inflight', NEW i \in DOMAIN sq', sq'[i] = op
        PROVE  FALSE
    <3>1. i + k \in DOMAIN q /\ q[i + k] = op /\ i \in 1..(Len(q) - k)
      BY <1>2, <1>3, <2>2
    <3>2. op \notin inflight
      BY <1>7, <3>1 DEF Once
    <3>3. PICK j \in 1..k : q[j] = op
      BY <1>1, <2>2, <3>2
    <3>4. j = i + k
      BY <1>2, <1>7, <3>1, <3>3 DEF Once
    <3> QED BY <1>2, <3>1, <3>3, <3>4
  <2> QED BY <2>1, <2>2 DEF Once
<1> QED BY <1>1, <1>3, <1>4, <1>5, <1>6, <1>7

\* One more entry e, submitted or left queued by a failure.  The signalfd read
\* is entered only when it is nowhere on this side of the kernel.
LEMMA EnterEffect ==
    ASSUME RingInv, ~SqFull, NEW e \in Ops,
           e = SignalRead => ~Submitted(SignalRead),
           \/ io_uring_submit(Append(sq, e))
           \/ io_uring_submit_fails(Append(sq, e))
    PROVE  /\ sq' \in Seq(Ops) /\ Len(sq') <= SqEntries
           /\ inflight' \subseteq Ops
           /\ submit_failures' \in 0..MaxSubmitFailures
           /\ submit_failures' >= submit_failures
           /\ QueuedByFailure'
           /\ \A op : Submitted(op)' <=> Submitted(op) \/ op = e
           /\ Once(SignalRead, sq', inflight')
<1> DEFINE q == Append(sq, e)
<1>1. /\ q \in Seq(Ops)
      /\ Len(q) = Len(sq) + 1
      /\ DOMAIN q = 1..(Len(sq) + 1)
      /\ \A i \in 1..Len(sq) : q[i] = sq[i]
      /\ q[Len(sq) + 1] = e
      /\ DOMAIN sq = 1..Len(sq)
      /\ Len(sq) \in Nat
      /\ inflight \subseteq Ops
      /\ Len(sq) < SqEntries
      /\ SqEntries \in Nat
      /\ submit_failures \in 0..MaxSubmitFailures
      /\ MaxSubmitFailures \in Nat
      /\ Len(sq) <= submit_failures
  <2>1. sq \in Seq(Ops) /\ Len(sq) \in Nat /\ DOMAIN sq = 1..Len(sq)
    BY DEF RingInv, RingTypeOK
  <2>2. /\ Len(sq) <= SqEntries /\ Len(sq) # SqEntries
        /\ Len(sq) <= submit_failures
        /\ submit_failures \in 0..MaxSubmitFailures
        /\ inflight \subseteq Ops
    BY DEF RingInv, RingTypeOK, SqFull, QueuedByFailure
  <2>3. Len(sq) < SqEntries
    <3>1. Len(sq) \in Nat /\ Len(sq) <= SqEntries /\ Len(sq) # SqEntries
      BY <2>1, <2>2
    <3>2. SqEntries \in Nat
      BY RingAssumption
    <3> QED BY <3>1, <3>2
  <2>4. /\ q \in Seq(Ops)
        /\ Len(q) = Len(sq) + 1
        /\ DOMAIN q = 1..(Len(sq) + 1)
        /\ \A i \in 1..Len(sq) : q[i] = sq[i]
        /\ q[Len(sq) + 1] = e
    BY <2>1, AppendMembers
  <2> QED BY <2>1, <2>2, <2>3, <2>4, RingAssumption, Zenon
<1> HIDE DEF q
<1>2. \A op : op \in inflight \/ (\E i \in DOMAIN q : q[i] = op)
                <=> Submitted(op) \/ op = e
  BY <1>1 DEF Submitted
<1>3. Once(SignalRead, q, inflight)
  <2>1. Once(SignalRead, sq, inflight)
    BY DEF RingInv, SignalOnce
  <2>2. CASE e = SignalRead
    BY <1>1, <2>2 DEF Once, Submitted
  <2>3. CASE e # SignalRead
    BY <1>1, <2>1, <2>3 DEF Once
  <2> QED BY <2>2, <2>3
<1>4. CASE io_uring_submit(q)
  <2>1. /\ sq' \in Seq(Ops)
        /\ Len(sq') < Len(q)
        /\ inflight' \subseteq Ops
        /\ submit_failures' = submit_failures
        /\ \A op : Submitted(op)' <=>
                     op \in inflight \/ \E i \in DOMAIN q : q[i] = op
        /\ \A op : Once(op, q, inflight) => Once(op, sq', inflight')
    BY <1>1, <1>4, SubmitEffect
  <2>2. Len(sq') \in Nat
    BY <2>1
  <2>3. Len(sq') <= Len(sq)
    BY <1>1, <2>1, <2>2
  <2>4. Len(sq') <= SqEntries /\ QueuedByFailure'
    BY <1>1, <2>1, <2>2, <2>3 DEF QueuedByFailure
  <2>5. \A op : Submitted(op)' <=> Submitted(op) \/ op = e
    BY <1>2, <2>1, Zenon
  <2> QED BY <1>1, <1>3, <2>1, <2>4, <2>5
<1>5. CASE io_uring_submit_fails(q)
  <2>1. /\ submit_failures < MaxSubmitFailures
        /\ submit_failures' = submit_failures + 1
        /\ sq' = q
        /\ inflight' = inflight
    BY <1>5 DEF io_uring_submit_fails
  <2>2. /\ Len(sq') <= SqEntries
        /\ QueuedByFailure'
        /\ submit_failures' \in 0..MaxSubmitFailures
        /\ submit_failures' >= submit_failures
    BY <1>1, <2>1 DEF QueuedByFailure
  <2>3. \A op : Submitted(op)' <=> Submitted(op) \/ op = e
    BY <1>2, <2>1 DEF Submitted
  <2> QED BY <1>1, <1>3, <2>1, <2>2, <2>3
<1> QED BY <1>4, <1>5 DEF q

\* What taking the oldest completion off the queue leaves.
LEMMA ConsumeEffect ==
    ASSUME RingTypeOK, cq # <<>>, cq' = Tail(cq)
    PROVE  /\ cq' \in Seq([op : Ops, res : {"done", "term", "other", "short"}])
           /\ Head(cq).op \in Ops
           /\ Completed(Head(cq).op)
           /\ \A op : Completed(op) => Completed(op)' \/ op = Head(cq).op
           /\ \A op : Completed(op)' => Completed(op)
           /\ \A op : (\A i, j \in DOMAIN cq :
                            cq[i].op = op /\ cq[j].op = op => i = j)
                    => /\ \A i, j \in DOMAIN cq' :
                            cq'[i].op = op /\ cq'[j].op = op => i = j
                       /\ op = Head(cq).op => ~Completed(op)'
<1> DEFINE S == [op : Ops, res : {"done", "term", "other", "short"}]
<1>1. cq \in Seq(S)
  BY DEF RingTypeOK
<1>2. /\ Head(cq) \in S
      /\ Head(cq) = cq[1]
      /\ cq' \in Seq(S)
      /\ Len(cq) \in Nat \ {0}
      /\ DOMAIN cq = 1..Len(cq)
      /\ DOMAIN cq' = 1..(Len(cq) - 1)
      /\ \A i \in 1..(Len(cq) - 1) : cq'[i] = cq[i + 1]
  BY <1>1, TailMembers, Zenon
<1>3. Head(cq).op \in Ops
  BY <1>2
<1> HIDE DEF S
<1>4. Completed(Head(cq).op)
  BY <1>2 DEF Completed
<1>5. ASSUME NEW op, Completed(op), op # Head(cq).op
      PROVE  Completed(op)'
  <2>1. PICK i \in DOMAIN cq : cq[i].op = op
    BY <1>5 DEF Completed
  <2>2. i - 1 \in DOMAIN cq' /\ cq'[i - 1] = cq[i]
    BY <1>2, <1>5, <2>1
  <2> QED BY <2>1, <2>2 DEF Completed
<1>6. \A i \in DOMAIN cq' : /\ i + 1 \in DOMAIN cq
                            /\ i \in Int /\ i + 1 # 1
                            /\ cq'[i] = cq[i + 1]
  BY <1>2
<1>7. ASSUME NEW op, Completed(op)'
      PROVE  Completed(op)
  BY <1>6, <1>7 DEF Completed
<1>8. ASSUME NEW op,
             \A i, j \in DOMAIN cq : cq[i].op = op /\ cq[j].op = op => i = j
      PROVE  /\ \A i, j \in DOMAIN cq' :
                    cq'[i].op = op /\ cq'[j].op = op => i = j
             /\ op = Head(cq).op => ~Completed(op)'
  <2>1. ASSUME NEW i \in DOMAIN cq', NEW j \in DOMAIN cq',
               cq'[i].op = op, cq'[j].op = op
        PROVE  i = j
    <3>1. i + 1 = j + 1
      BY <1>6, <1>8, <2>1
    <3> QED BY <1>6, <3>1
  <2>2. ASSUME op = Head(cq).op, NEW i \in DOMAIN cq', cq'[i].op = op
        PROVE  FALSE
    <3>1. 1 \in DOMAIN cq /\ cq[1].op = op
      BY <1>2, <2>2
    <3>2. i + 1 = 1
      BY <1>6, <1>8, <2>2, <3>1
    <3> QED BY <1>6, <3>2
  <2> QED BY <2>1, <2>2 DEF Completed
<1> QED BY <1>2, <1>3, <1>4, <1>5, <1>7, <1>8 DEF S

-----------------------------------------------------------------------------
(* RingInv is inductive.                                                   *)

\* rr_init leaves the signalfd read, and nothing else, in the ring.
LEMMA InitRingInv == InitRing => RingInv
<1> SUFFICES ASSUME InitRing
             PROVE  RingInv
  OBVIOUS
<1> USE DEF InitRing
<1>1. CoreInv
  BY InitCore
<1>2. SignalRead \in Ops
  BY RingAssumption, MaxThreadsAssumption
  DEF SignalRead, RR_SIGNAL_SENTINEL, Ops
<1>3. RingTypeOK
  <2>1. /\ sq \in Seq(Ops) /\ Len(sq) <= SqEntries
        /\ cq \in Seq([op : Ops, res : {"done", "term", "other", "short"}])
        /\ inflight \subseteq Ops
    BY <1>2, RingAssumption
  <2>2. 0 \in 0..MaxCalls /\ 0 \in 0..MaxThreads /\ 0 \in 0..MaxSubmitFailures
    BY RingAssumption, MaxThreadsAssumption
  <2>3. /\ calls \in [Ids -> 0..MaxCalls]
        /\ io_result \in [Ids -> 0..MaxCalls]
        /\ sysret \in [by : 0..MaxThreads, n : 0..MaxCalls, res : 0..MaxCalls]
    BY <2>2
  <2> QED BY <2>1, <2>2, <2>3, Zenon DEF RingTypeOK
<1>4. DOMAIN sq = {} /\ DOMAIN cq = {} /\ Len(sq) = 0
  OBVIOUS
<1>5. \A op : InRing(op) <=> op = SignalRead
  BY <1>4 DEF InRing, Submitted, Completed
<1>6. CallInRing
  BY DEF CallInRing, InCall, Init, InApp
<1>7. OpsKnown /\ QueuedByFailure /\ SignalKept
  BY <1>4, <1>5 DEF OpsKnown, QueuedByFailure, SignalKept
<1>8. SignalOnce
  BY <1>4 DEF SignalOnce, Once, Completed
<1> QED BY <1>1, <1>3, <1>6, <1>7, <1>8 DEF RingInv

\* A completion of a system call names a thread.
LEMMA HeadNamesThread ==
    ASSUME RingTypeOK, OpsKnown, cq # <<>>, Head(cq).op # SignalRead
    PROVE  /\ Head(cq).op \in Ops
           /\ Head(cq).op.user_data \in Ids
<1> DEFINE S == [op : Ops, res : {"done", "term", "other", "short"}]
<1>0. cq \in Seq(S)
  BY DEF RingTypeOK
<1> HIDE DEF S
<1>1. /\ Head(cq) \in S
      /\ Head(cq) = cq[1]
      /\ 1 \in DOMAIN cq
  BY <1>0, TailMembers
<1>2. Head(cq).op \in Ops
  BY <1>1 DEF S
<1>3. InRing(Head(cq).op)
  BY <1>1 DEF InRing, Completed
<1> QED BY <1>2, <1>3 DEF OpsKnown

\* What the ring does to the scheduler is what the scheduler does, but for
\* wake-ups that may be stale.
LEMMA RingStepIsCore ==
    ASSUME RingInv, [NextRing]_ioVars
    PROVE  [CoreNext]_schedVars
<1>1. CASE SchedulerStep
  BY <1>1 DEF SchedulerStep, CoreNext, Next
<1>2. CASE IoSubmits
  BY <1>2 DEF IoSubmits, CallFails, CoreNext, Next
<1>3. CASE IoDelivers
  BY <1>3 DEF IoDelivers, CoreNext, Next
<1>4. CASE SignalTerminates \/ SignalRearms
  BY <1>4 DEF SignalTerminates, SignalRearms
<1>5. CASE CompletionWakes
  <2>1. Head(cq).op.user_data \in Ids
    BY <1>5, HeadNamesThread DEF CompletionWakes, RingInv
  <2>2. Wakes(Head(cq).op.user_data)
    BY <1>5 DEF CompletionWakes, Wakes
  <2> QED BY <2>1, <2>2 DEF CoreNext
<1>6. ASSUME NEW op \in inflight, KernelCompletes(op)
      PROVE  [CoreNext]_schedVars
  BY <1>6 DEF KernelCompletes
<1>7. CASE UNCHANGED ioVars
  BY <1>7 DEF ioVars
<1> QED
  BY <1>1, <1>2, <1>3, <1>4, <1>5, <1>6, <1>7 DEF NextRing, rr_io_wait

\* Nothing but a submitted system call puts a thread into one.
LEMMA NoNewCall ==
    ASSUME CoreInv,
           \/ SchedulerStep
           \/ IoReturns
           \/ \E id \in Ids : Wakes(id)
           \/ UNCHANGED schedVars
    PROVE  \A t \in Ids : InCall(t)' => InCall(t)
<1> SUFFICES ASSUME NEW t \in Ids, state'[t] = "BLOCKED", call'[t].kind = "io"
             PROVE  state[t] = "BLOCKED" /\ call[t].kind = "io"
  BY DEF InCall
<1> USE DEF CoreInv, TypeOK
<1>0. InApp.kind = "app" /\ \A id \in Ids : InJoin(id).kind = "join"
  BY DEF InApp, InJoin
<1>1. CASE Create \/ Yield
  BY <1>1 DEF Create, Yield
<1>2. ASSUME NEW id \in Ids, JoinRefused(id) \/ JoinFinished(id)
      PROVE  state[t] = "BLOCKED" /\ call[t].kind = "io"
  BY <1>2 DEF JoinRefused, JoinFinished
<1>3. ASSUME NEW id \in Ids, JoinBlocks(id)
      PROVE  state[t] = "BLOCKED" /\ call[t].kind = "io"
  BY <1>0, <1>3 DEF JoinBlocks, rr_scheduler_block_current
<1>4. CASE JoinReturns \/ IoReturns
  BY <1>0, <1>4, Zenon DEF JoinReturns, IoReturns
<1>5. ASSUME NEW v \in Retvals, Exit(v)
      PROVE  state[t] = "BLOCKED" /\ call[t].kind = "io"
  BY <1>5 DEF Exit
<1>6. CASE Dispatch
  BY <1>6, DispatchEffect, Zenon
<1>7. ASSUME NEW id \in Ids, Wakes(id)
      PROVE  state[t] = "BLOCKED" /\ call[t].kind = "io"
  BY <1>7 DEF Wakes, rr_scheduler_wake_by_id
<1>8. CASE UNCHANGED schedVars
  BY <1>8 DEF schedVars
<1> QED
  BY <1>1, <1>2, <1>3, <1>4, <1>5, <1>6, <1>7, <1>8 DEF SchedulerStep

\* A step that moves no operation and starts no call preserves RingInv.
LEMMA FrameRingInv ==
    ASSUME RingInv, CoreInv', RingTypeOK',
           UNCHANGED <<sq, inflight, cq, calls, submit_failures>>,
           \A t \in Ids : InCall(t)' => InCall(t)
    PROVE  RingInv'
<1> USE DEF RingInv
<1>1. \A op : /\ InRing(op)' <=> InRing(op)
              /\ Submitted(op)' <=> Submitted(op)
              /\ Completed(op)' <=> Completed(op)
  BY DEF InRing, Submitted, Completed
<1>2. OpsKnown' /\ QueuedByFailure' /\ SignalKept'
  BY <1>1 DEF OpsKnown, QueuedByFailure, SignalKept
<1>3. CallInRing'
  BY <1>1 DEF CallInRing, IoOp
<1>4. SignalOnce'
  BY <1>1 DEF SignalOnce, Once
<1> QED BY <1>2, <1>3, <1>4

\* What a call that begins does to the numbers of the calls.
LEMMA CallNumbers ==
    ASSUME RingInv, IoSubmits
    PROVE  /\ g_current \in Ids
           /\ state[g_current] = "RUNNING"
           /\ calls' \in [Ids -> 0..MaxCalls]
           /\ calls[g_current] + 1 \in 1..MaxCalls
           /\ \A t \in Ids : calls[t] \in Nat
           /\ \A t \in Ids : calls'[t] = IF t = g_current THEN calls[t] + 1
                                         ELSE calls[t]
           /\ Sqe(g_current) \in Ops
           /\ Sqe(g_current) # SignalRead
           /\ Sqe(g_current) = IoOp(g_current)'
<1>1. /\ g_current \in Ids
      /\ state[g_current] = "RUNNING"
  BY DEF IoSubmits, AppRuns, RingInv, CoreInv, TypeOK, OneRunning
<1>2. /\ calls \in [Ids -> 0..MaxCalls]
      /\ calls[g_current] < MaxCalls
      /\ calls' = [calls EXCEPT ![g_current] = @ + 1]
  BY DEF IoSubmits, CallBegins, RingInv, RingTypeOK
<1>3. calls[g_current] + 1 \in 1..MaxCalls /\ \A t \in Ids : calls[t] \in Nat
  BY <1>1, <1>2, RingAssumption
<1>4. /\ calls' \in [Ids -> 0..MaxCalls]
      /\ \A t \in Ids : calls'[t] = IF t = g_current THEN calls[t] + 1
                                    ELSE calls[t]
  BY <1>1, <1>2, <1>3
<1>5. g_current \in 0..MaxThreads /\ g_current # 0
  BY <1>1, MaxThreadsAssumption DEF Ids
<1>6. Sqe(g_current) \in Ops /\ Sqe(g_current) # SignalRead
  BY <1>3, <1>5 DEF Sqe, Ops, SignalRead, RR_SIGNAL_SENTINEL
<1>7. g_current' = g_current /\ calls'[g_current] = calls[g_current] + 1
  BY <1>1, <1>4 DEF IoSubmits, CallFails, IoBlocks, rr_scheduler_block_current,
     schedVars
<1>8. Sqe(g_current) = IoOp(g_current)'
  BY <1>7 DEF Sqe, IoOp
<1> QED BY <1>1, <1>3, <1>4, <1>6, <1>8

\* A blocking system call preserves RingInv, whether it is submitted, queued
\* by a failing submit or finds the submission queue full: if it blocks, its
\* operation is in the ring.
LEMMA IoSubmitsInv ==
    ASSUME RingInv, CoreInv', IoSubmits
    PROVE  RingInv'
<1>0. PICK g, e : g = g_current /\ e = Sqe(g_current)
  OBVIOUS
<1>1. /\ g \in Ids
      /\ state[g] = "RUNNING"
      /\ calls' \in [Ids -> 0..MaxCalls]
      /\ calls[g] + 1 \in 1..MaxCalls
      /\ \A t \in Ids : calls[t] \in Nat
      /\ \A t \in Ids : calls'[t] = IF t = g THEN calls[t] + 1 ELSE calls[t]
      /\ e \in Ops
      /\ e # SignalRead
      /\ e = IoOp(g)'
      /\ e.user_data = g /\ e.n = calls[g] + 1
  <2>1. g_current' = g_current
    BY DEF IoSubmits, CallFails, IoBlocks, rr_scheduler_block_current, schedVars
  <2>2. Sqe(g_current) = IoOp(g_current)'
    BY CallNumbers
  <2>3. e = IoOp(g)'
    BY <1>0, <2>1, <2>2 DEF IoOp
  <2> QED BY <1>0, <2>3, CallNumbers DEF Sqe
<1>2. cq' = cq /\ io_result' = io_result /\ exited' = exited
  BY DEF IoSubmits
<1>3. /\ sq' \in Seq(Ops) /\ Len(sq') <= SqEntries
      /\ inflight' \subseteq Ops
      /\ submit_failures' \in 0..MaxSubmitFailures
      /\ submit_failures' >= submit_failures
      /\ QueuedByFailure'
      /\ Once(SignalRead, sq', inflight')
      /\ \A op : Submitted(op)' => Submitted(op) \/ op = e
      /\ \A op : Submitted(op) => Submitted(op)'
      /\ InCall(g)' => Submitted(e)'
  <2>1. CASE ~SqFull
    <3>1. \/ io_uring_submit(Append(sq, e))
          \/ io_uring_submit_fails(Append(sq, e))
      BY <1>0, <2>1 DEF IoSubmits
    <3> QED BY <1>1, <2>1, <3>1, EnterEffect
  <2>2. CASE SqFull
    <3>1. UNCHANGED <<sq, inflight, submit_failures>> /\ state' = state
      BY <2>2 DEF IoSubmits, CallFails, schedVars
    <3>2. submit_failures \in 0..MaxSubmitFailures
      BY DEF RingInv, RingTypeOK
    <3>3. submit_failures' \in 0..MaxSubmitFailures
          /\ submit_failures' >= submit_failures
      BY <3>1, <3>2, RingAssumption
    <3>4. /\ sq' \in Seq(Ops) /\ Len(sq') <= SqEntries
          /\ inflight' \subseteq Ops
          /\ QueuedByFailure'
          /\ Once(SignalRead, sq', inflight')
      BY <3>1 DEF RingInv, RingTypeOK, QueuedByFailure, SignalOnce, Once
    <3>5. \A op : Submitted(op)' <=> Submitted(op)
      BY <3>1 DEF Submitted
    <3>6. ~InCall(g)'
      BY <1>1, <3>1 DEF InCall
    <3> QED BY <3>3, <3>4, <3>5, <3>6
  <2> QED BY <2>1, <2>2
<1>4. \A op : Completed(op)' <=> Completed(op)
  BY <1>2 DEF Completed
<1>5. RingTypeOK'
  <2>1. sysret' \in [by : 0..MaxThreads, n : 0..MaxCalls, res : 0..MaxCalls]
    <3>1. sysret \in [by : 0..MaxThreads, n : 0..MaxCalls, res : 0..MaxCalls]
      BY DEF RingInv, RingTypeOK
    <3>2. g \in 0..MaxThreads /\ calls[g] + 1 \in 0..MaxCalls
      BY <1>1, MaxThreadsAssumption DEF Ids
    <3>3. Failed \in 0..MaxCalls
      BY RingAssumption DEF Failed
    <3> QED BY <1>0, <3>1, <3>2, <3>3 DEF IoSubmits, CallFails
  <2> QED BY <1>1, <1>2, <1>3, <2>1 DEF RingTypeOK, RingInv
<1>6. OpsKnown'
  <2> SUFFICES ASSUME NEW op \in Ops, InRing(op)', op # SignalRead
               PROVE  op.user_data \in Ids /\ op.n <= calls'[op.user_data]
    BY DEF OpsKnown
  <2>1. CASE op = e
    BY <1>1, <2>1
  <2>2. CASE op # e
    <3>1. InRing(op)
      BY <1>3, <1>4, <2>2 DEF InRing
    <3>2. op.user_data \in Ids /\ op.n <= calls[op.user_data]
      BY <3>1 DEF RingInv, OpsKnown
    <3>3. op.n \in Nat
      BY RingAssumption DEF Ops
    <3> QED BY <1>1, <3>2, <3>3
  <2> QED BY <2>1, <2>2
<1>7. CallInRing'
  <2> SUFFICES ASSUME NEW t \in Ids, InCall(t)'
               PROVE  InRing(IoOp(t))'
    BY DEF CallInRing
  <2>1. CASE t = g
    <3>1. InRing(e)'
      BY <1>1, <1>3, <2>1 DEF InRing, InCall
    <3>2. IoOp(t)' = e
      BY <1>1, <2>1 DEF IoOp
    <3> QED BY <3>1, <3>2 DEF InRing, Submitted, Completed
  <2>2. CASE t # g
    <3>1. state'[t] = state[t] /\ call'[t] = call[t]
      BY <1>0, <2>2 DEF IoSubmits, CallFails, IoBlocks, rr_scheduler_block_current,
         schedVars, RingInv, CoreInv, TypeOK
    <3>2. InCall(t)
      BY <3>1 DEF InCall
    <3>3. InRing(IoOp(t))
      BY <3>2 DEF RingInv, CallInRing
    <3>4. IoOp(t)' = IoOp(t)
      BY <1>1, <2>2 DEF IoOp
    <3>5. Submitted(IoOp(t))' \/ Completed(IoOp(t))'
      BY <1>3, <1>4, <3>3, <3>4 DEF InRing, Submitted, Completed
    <3> QED BY <3>5 DEF InRing
  <2> QED BY <2>1, <2>2
<1>8. SignalOnce'
  BY <1>1, <1>2, <1>3, <1>4 DEF RingInv, SignalOnce
<1>9. SignalKept'
  <2>1. submit_failures \in Int /\ submit_failures' \in Int /\ SqEntries \in Int
    BY <1>3, RingAssumption DEF RingInv, RingTypeOK
  <2>2. submit_failures' < SqEntries => submit_failures < SqEntries
    BY <1>3, <2>1
  <2> QED BY <1>3, <1>4, <2>2 DEF RingInv, SignalKept, InRing
<1> QED BY <1>3, <1>5, <1>6, <1>7, <1>8, <1>9 DEF RingInv

\* The return of a system call preserves RingInv.
LEMMA IoDeliversInv ==
    ASSUME RingInv, CoreInv', IoDelivers
    PROVE  RingInv'
<1>1. UNCHANGED <<sq, inflight, cq, calls, io_result, submit_failures, exited>>
  BY DEF IoDelivers
<1>2. sysret' \in [by : 0..MaxThreads, n : 0..MaxCalls, res : 0..MaxCalls]
  <2>1. g_current \in Ids /\ g_current \in 0..MaxThreads
    BY MaxThreadsAssumption DEF RingInv, CoreInv, TypeOK, Ids
  <2>2. calls[g_current] \in 0..MaxCalls /\ io_result[g_current] \in 0..MaxCalls
    BY <2>1 DEF RingInv, RingTypeOK
  <2> QED BY <2>1, <2>2 DEF IoDelivers
<1>3. RingTypeOK'
  BY <1>1, <1>2 DEF RingInv, RingTypeOK
<1>4. \A t \in Ids : InCall(t)' => InCall(t)
  BY NoNewCall DEF IoDelivers, RingInv
<1> QED BY <1>1, <1>3, <1>4, FrameRingInv

\* The signalfd read, entered again after its completion was taken, is in the
\* ring once; it is missing only if the submission queue was full.
LEMMA SignalRearmsInv ==
    ASSUME RingInv, CoreInv', SignalRearms
    PROVE  RingInv'
<1>1. /\ RingTypeOK
      /\ cq # <<>>
      /\ cq' = Tail(cq)
      /\ Head(cq).op = SignalRead
      /\ UNCHANGED <<calls, io_result, sysret, exited>>
      /\ UNCHANGED schedVars
  BY DEF SignalRearms, RingInv
<1>2. /\ cq' \in Seq([op : Ops, res : {"done", "term", "other", "short"}])
      /\ SignalRead \in Ops
      /\ Completed(SignalRead)
      /\ \A op : Completed(op) => Completed(op)' \/ op = SignalRead
      /\ \A op : Completed(op)' => Completed(op)
  BY <1>1, ConsumeEffect
<1>3. /\ \A i, j \in DOMAIN cq' :
            cq'[i].op = SignalRead /\ cq'[j].op = SignalRead => i = j
      /\ ~Completed(SignalRead)'
  BY <1>1, ConsumeEffect DEF RingInv, SignalOnce
<1>4. ~Submitted(SignalRead)
  BY <1>2 DEF RingInv, SignalOnce
<1>5. /\ sq' \in Seq(Ops) /\ Len(sq') <= SqEntries
      /\ inflight' \subseteq Ops
      /\ submit_failures' \in 0..MaxSubmitFailures
      /\ QueuedByFailure'
      /\ Once(SignalRead, sq', inflight')
      /\ \A op : Submitted(op)' => Submitted(op) \/ op = SignalRead
      /\ \A op : Submitted(op) => Submitted(op)'
      /\ submit_failures' < SqEntries => Submitted(SignalRead)'
  <2>1. CASE ~SqFull
    <3>1. \/ io_uring_submit(Append(sq, SignalRead))
          \/ io_uring_submit_fails(Append(sq, SignalRead))
      BY <2>1 DEF SignalRearms, rr_io_submit_signal_read
    <3> QED BY <1>2, <1>4, <2>1, <3>1, EnterEffect
  <2>2. CASE SqFull
    <3>1. UNCHANGED <<sq, inflight, submit_failures>>
      BY <2>2 DEF SignalRearms, rr_io_submit_signal_read
    <3>2. /\ sq' \in Seq(Ops) /\ Len(sq') <= SqEntries
          /\ inflight' \subseteq Ops
          /\ submit_failures' \in 0..MaxSubmitFailures
          /\ QueuedByFailure'
          /\ Once(SignalRead, sq', inflight')
      BY <3>1 DEF RingInv, RingTypeOK, QueuedByFailure, SignalOnce, Once
    <3>3. \A op : Submitted(op)' <=> Submitted(op)
      BY <3>1 DEF Submitted
    <3>4. SqEntries <= submit_failures' /\ submit_failures' \in Int
      BY <2>2, <3>1 DEF RingInv, RingTypeOK, QueuedByFailure, SqFull
    <3>5. ~(submit_failures' < SqEntries)
      BY <3>4, RingAssumption
    <3> QED BY <3>2, <3>3, <3>5
  <2> QED BY <2>1, <2>2
<1>6. RingTypeOK'
  BY <1>1, <1>2, <1>5 DEF RingTypeOK
<1>7. OpsKnown'
  BY <1>1, <1>2, <1>5 DEF RingInv, OpsKnown, InRing
<1>8. CallInRing'
  <2> SUFFICES ASSUME NEW t \in Ids, InCall(t)'
               PROVE  InRing(IoOp(t))'
    BY DEF CallInRing
  <2>1. PICK op : op = IoOp(t)
    OBVIOUS
  <2>2. InRing(op) /\ op # SignalRead /\ op = IoOp(t)'
    <3>1. InCall(t)
      BY <1>1 DEF InCall, schedVars
    <3>2. t # 0
      BY MaxThreadsAssumption DEF Ids
    <3> QED BY <1>1, <2>1, <3>1, <3>2
            DEF RingInv, CallInRing, IoOp, SignalRead, RR_SIGNAL_SENTINEL
  <2>3. InRing(op)'
    BY <1>2, <1>5, <2>2 DEF InRing
  <2> QED BY <2>2, <2>3 DEF InRing, Submitted, Completed
<1>9. SignalOnce' /\ SignalKept'
  BY <1>3, <1>5 DEF SignalOnce, SignalKept, InRing
<1> QED BY <1>5, <1>6, <1>7, <1>8, <1>9 DEF RingInv

\* A completion, stale or not, preserves RingInv: if it was the operation of
\* the call its thread is in, then the thread leaves the call.
LEMMA CompletionWakesInv ==
    ASSUME RingInv, CoreInv', CompletionWakes
    PROVE  RingInv'
<1>0. PICK op : op = Head(cq).op
  OBVIOUS
<1>1. /\ RingTypeOK
      /\ cq # <<>>
      /\ cq' = Tail(cq)
      /\ op # SignalRead
      /\ UNCHANGED <<sq, inflight, calls, sysret, submit_failures, exited>>
  BY <1>0 DEF CompletionWakes, RingInv
<1>2. /\ cq' \in Seq([op : Ops, res : {"done", "term", "other", "short"}])
      /\ op \in Ops
      /\ \A x : Completed(x) => Completed(x)' \/ x = op
      /\ \A x : Completed(x)' => Completed(x)
      /\ \A i, j \in DOMAIN cq' :
            cq'[i].op = SignalRead /\ cq'[j].op = SignalRead => i = j
  BY <1>0, <1>1, ConsumeEffect DEF RingInv, SignalOnce
<1>3. op.user_data \in Ids
  BY <1>0, <1>1, HeadNamesThread DEF RingInv
<1>4. Wakes(op.user_data)
  BY <1>0 DEF CompletionWakes, Wakes
<1>5. \A x : Submitted(x)' <=> Submitted(x)
  BY <1>1 DEF Submitted
<1>6. RingTypeOK'
  <2>1. io_result' = IF state[op.user_data] = "BLOCKED"
                     THEN [io_result EXCEPT ![op.user_data] = op.n]
                     ELSE io_result
    BY <1>0 DEF CompletionWakes
  <2>2. op.n \in 0..MaxCalls /\ io_result \in [Ids -> 0..MaxCalls]
    BY <1>1, <1>2 DEF Ops, RingTypeOK
  <2>3. io_result' \in [Ids -> 0..MaxCalls]
    BY <2>1, <2>2, Zenon
  <2> QED BY <1>1, <1>2, <2>3 DEF RingTypeOK
<1>7. OpsKnown'
  BY <1>1, <1>2, <1>5 DEF RingInv, OpsKnown, InRing
<1>8. CallInRing'
  <2> SUFFICES ASSUME NEW t \in Ids, InCall(t)'
               PROVE  InRing(IoOp(t))'
    BY DEF CallInRing
  <2>1. PICK x : x = IoOp(t)
    OBVIOUS
  <2>2. InCall(t)
    BY <1>3, <1>4, NoNewCall DEF RingInv
  <2>3. InRing(x) /\ x = IoOp(t)' /\ x.user_data = t
    BY <1>1, <2>1, <2>2 DEF RingInv, CallInRing, IoOp
  <2>4. x # op
    <3>1. op.user_data = t => state'[t] = "RUNNABLE"
      BY <1>4, <2>2
      DEF Wakes, rr_scheduler_wake_by_id, InCall, RingInv, CoreInv, TypeOK
    <3> QED BY <2>3, <3>1 DEF InCall
  <2>5. InRing(x)'
    BY <1>2, <1>5, <2>3, <2>4 DEF InRing
  <2> QED BY <2>3, <2>5 DEF InRing, Submitted, Completed
<1>9. QueuedByFailure' /\ SignalKept'
  BY <1>1, <1>2, <1>5 DEF RingInv, QueuedByFailure, SignalKept, InRing
<1>10. SignalOnce'
  BY <1>1, <1>2, <1>5 DEF RingInv, SignalOnce, Once
<1> QED BY <1>6, <1>7, <1>8, <1>9, <1>10 DEF RingInv

\* What a completion by the kernel does: the operation changes sides.
LEMMA CompleteEffect ==
    ASSUME RingTypeOK, NEW op \in inflight, KernelCompletes(op)
    PROVE  /\ cq' \in Seq([op : Ops, res : {"done", "term", "other", "short"}])
           /\ inflight' = inflight \ {op}
           /\ UNCHANGED <<schedVars, sq, calls, io_result, sysret,
                          submit_failures, exited>>
           /\ DOMAIN cq = 1..Len(cq)
           /\ Len(cq) \in Nat
           /\ DOMAIN cq' = 1..(Len(cq) + 1)
           /\ \A i \in 1..Len(cq) : cq'[i] = cq[i]
           /\ cq'[Len(cq) + 1].op = op
           /\ \A x : Completed(x)' <=> Completed(x) \/ x = op
<1> DEFINE S == [op : Ops, res : {"done", "term", "other", "short"}]
<1>1. PICK res \in {"done", "term", "other", "short"} :
        cq' = Append(cq, [op |-> op, res |-> res])
  BY DEF KernelCompletes
<1>2. cq \in Seq(S) /\ op \in Ops
  BY DEF RingTypeOK
<1>3. [op |-> op, res |-> res] \in S
  BY <1>2
<1> HIDE DEF S
<1>4. /\ cq' \in Seq(S)
      /\ DOMAIN cq = 1..Len(cq)
      /\ Len(cq) \in Nat
      /\ DOMAIN cq' = 1..(Len(cq) + 1)
      /\ \A i \in 1..Len(cq) : cq'[i] = cq[i]
      /\ cq'[Len(cq) + 1] = [op |-> op, res |-> res]
  BY <1>1, <1>2, <1>3, AppendMembers
<1>5. cq'[Len(cq) + 1].op = op
  BY <1>4
<1>6. \A x : Completed(x)' <=> Completed(x) \/ x = op
  BY <1>4, <1>5 DEF Completed
<1> QED BY <1>4, <1>5, <1>6 DEF S, KernelCompletes

\* The kernel's completions preserve RingInv.
LEMMA KernelCompletesInv ==
    ASSUME RingInv, CoreInv', NEW op \in inflight, KernelCompletes(op)
    PROVE  RingInv'
<1>1. /\ cq' \in Seq([op : Ops, res : {"done", "term", "other", "short"}])
      /\ inflight' = inflight \ {op}
      /\ UNCHANGED <<schedVars, sq, calls, io_result, sysret, submit_failures,
                     exited>>
      /\ DOMAIN cq = 1..Len(cq)
      /\ Len(cq) \in Nat
      /\ DOMAIN cq' = 1..(Len(cq) + 1)
      /\ \A i \in 1..Len(cq) : cq'[i] = cq[i]
      /\ cq'[Len(cq) + 1].op = op
      /\ \A x : Completed(x)' <=> Completed(x) \/ x = op
  BY CompleteEffect, Zenon DEF RingInv
<1>2. RingTypeOK'
  BY <1>1 DEF RingInv, RingTypeOK
<1>3. /\ \A x : Submitted(x)' => Submitted(x)
      /\ \A x : Submitted(x) => Submitted(x)' \/ x = op
  BY <1>1 DEF Submitted
<1>4. \A x : InRing(x)' <=> InRing(x)
  BY <1>1, <1>3 DEF InRing, Submitted
<1>5. OpsKnown' /\ QueuedByFailure' /\ SignalKept'
  BY <1>1, <1>4 DEF RingInv, OpsKnown, QueuedByFailure, SignalKept
<1>6. CallInRing'
  BY <1>1, <1>4 DEF RingInv, CallInRing, InCall, IoOp, schedVars
<1>7. SignalOnce'
  <2> USE DEF RingInv
  <2>1. Once(SignalRead, sq', inflight')
    BY <1>1 DEF SignalOnce, Once
  <2>2. CASE op = SignalRead
    <3>1. ~Completed(SignalRead) /\ \A i \in DOMAIN sq : sq[i] # SignalRead
      BY <2>2 DEF SignalOnce, Submitted, Once
    <3>2. ~Submitted(SignalRead)'
      BY <1>1, <2>2, <3>1 DEF Submitted
    <3>3. \A i \in DOMAIN cq' : cq'[i].op = SignalRead => i = Len(cq) + 1
      BY <1>1, <3>1 DEF Completed
    <3> QED BY <2>1, <3>2, <3>3 DEF SignalOnce
  <2>3. CASE op # SignalRead
    <3>1. \A i \in DOMAIN cq' : cq'[i].op = SignalRead
                => i \in DOMAIN cq /\ cq[i].op = SignalRead
      BY <1>1, <2>3
    <3>2. Completed(SignalRead)' => ~Submitted(SignalRead)'
      BY <1>1, <1>3, <2>3 DEF SignalOnce
    <3> QED BY <2>1, <3>1, <3>2 DEF SignalOnce
  <2> QED BY <2>2, <2>3
<1> QED BY <1>2, <1>5, <1>6, <1>7 DEF RingInv

\* Every step of the ring preserves RingInv.
LEMMA NextRingInv == RingInv /\ [NextRing]_ioVars => RingInv'
<1> SUFFICES ASSUME RingInv, [NextRing]_ioVars
             PROVE  RingInv'
  OBVIOUS
<1>1. CoreInv'
  BY RingStepIsCore, NextCore DEF RingInv
<1>2. CASE SchedulerStep
  <2>1. UNCHANGED ringVars
    BY <1>2 DEF SchedulerStep
  <2>2. RingTypeOK'
    BY <2>1 DEF ringVars, RingInv, RingTypeOK
  <2>3. \A t \in Ids : InCall(t)' => InCall(t)
    BY <1>2, NoNewCall DEF RingInv
  <2> QED BY <1>1, <2>1, <2>2, <2>3, FrameRingInv DEF ringVars
<1>3. CASE SignalTerminates \/ UNCHANGED ioVars
  <2>1. UNCHANGED <<schedVars, sq, inflight, cq, calls, io_result, sysret,
                    submit_failures>>
    BY <1>3 DEF SignalTerminates, ioVars, ringVars
  <2>2. exited' \in BOOLEAN
    BY <1>3, Zenon DEF SignalTerminates, ioVars, ringVars, RingInv, RingTypeOK
  <2>3. RingTypeOK'
    BY <2>1, <2>2 DEF RingInv, RingTypeOK
  <2>4. \A t \in Ids : InCall(t)' => InCall(t)
    BY <2>1, NoNewCall DEF RingInv
  <2> QED BY <1>1, <2>1, <2>3, <2>4, FrameRingInv
<1> QED
  BY <1>1, <1>2, <1>3, IoSubmitsInv, IoDeliversInv, SignalRearmsInv,
     CompletionWakesInv, KernelCompletesInv DEF NextRing, rr_io_wait

\* RingInv holds throughout, whatever submits fail.
THEOREM RingInductive == RingSpec => []RingInv
  BY InitRingInv, NextRingInv, PTL DEF RingSpec

-----------------------------------------------------------------------------
(* What survives failing submits.                                          *)

\* The types of the ring; in particular the submission queue never holds more
\* than its entries, since io_uring_get_sqe refuses when it is full.
THEOREM RingTypeCorrect == RingSpec => []RingTypeOK
<1>1. RingInv => RingTypeOK
  BY DEF RingInv
<1> QED BY <1>1, RingInductive, PTL

\* No lost completion: what a thread blocked in rr_io_submit_*_and_wait waits
\* for is queued, in the kernel or completed, after any failing submits and
\* any stale wake-ups.
THEOREM PendingSafe == RingSpec => []BlockedCallIsPending
<1>1. RingInv => BlockedCallIsPending
  BY DEF RingInv, CallInRing, BlockedCallIsPending, InCall, IoOp, InRing,
     Submitted, Completed, Pending, SqIndexes, CqIndexes
<1> QED BY <1>1, RingInductive, PTL

\* A set of indexes that are all equal is empty or has one member.
LEMMA AtMostOneIndex ==
    ASSUME NEW S, \A i, j \in S : i = j
    PROVE  Cardinality(S) = IF S = {} THEN 0 ELSE 1
<1>1. CASE S = {}
  BY <1>1, FS_EmptySet
<1>2. CASE S # {}
  <2>1. PICK x \in S : S = {x}
    BY <1>2
  <2> QED BY <1>2, <2>1, FS_Singleton
<1> QED BY <1>1, <1>2

\* One signalfd read is in the ring, never two, and it is lost only after as
\* many failing submits as the submission queue has entries.
THEOREM SignalReadSafe == RingSpec => []OneSignalRead
<1>1. RingInv => OneSignalRead
  <2> SUFFICES ASSUME RingInv
               PROVE  OneSignalRead
    OBVIOUS
  <2> DEFINE A == SqIndexes(SignalRead)
             B == CqIndexes(SignalRead)
  <2>1. /\ \A i, j \in A : i = j
        /\ \A i, j \in B : i = j
        /\ B # {} => A = {} /\ SignalRead \notin inflight
        /\ SignalRead \in inflight => A = {}
    BY DEF RingInv, SignalOnce, Once, Completed, Submitted, SqIndexes, CqIndexes
  <2>2. /\ Cardinality(A) = IF A = {} THEN 0 ELSE 1
        /\ Cardinality(B) = IF B = {} THEN 0 ELSE 1
    BY <2>1, AtMostOneIndex
  <2>3. submit_failures < SqEntries
            => A # {} \/ B # {} \/ SignalRead \in inflight
    BY DEF RingInv, SignalKept, InRing, Completed, Submitted, SqIndexes,
       CqIndexes
  <2> HIDE DEF A, B
  <2>4. Cardinality(A) + Cardinality(B)
            + (IF SignalRead \in inflight THEN 1 ELSE 0)
        = IF A # {} \/ B # {} \/ SignalRead \in inflight THEN 1 ELSE 0
    BY <2>1, <2>2
  <2>5. SignalReads = IF A # {} \/ B # {} \/ SignalRead \in inflight THEN 1
                      ELSE 0
    BY <2>4 DEF SignalReads, A, B
  <2> QED BY <2>3, <2>5 DEF OneSignalRead
<1> QED BY <1>1, RingInductive, PTL

\* The thread that has control is the RUNNING one, although a stale completion
\* may wake a thread from any block.
THEOREM RingControlSafe == RingSpec => []OneRunning
<1>1. RingInv => OneRunning
  BY DEF RingInv, CoreInv
<1> QED BY <1>1, RingInductive, PTL

\* The run queue stays exact under stale completions: rr_scheduler_wake_by_id
\* enqueues only a BLOCKED thread.
THEOREM RingQueueSafe == RingSpec => []RunQueueExact
<1>1. RingInv => RunQueueExact
  BY DEF RingInv, CoreInv
<1> QED BY <1>1, RingInductive, PTL

\* A finished thread stays finished: a stale completion cannot revive it.
THEOREM RingDoneStaysDone == RingSpec => DoneIsFinal
<1>1. RingInv /\ [NextRing]_ioVars =>
        [\A t \in Ids : state[t] = "DONE" =>
            state'[t] = "DONE" /\ retval'[t] = retval[t]]_schedVars
  BY RingStepIsCore, CoreDone DEF RingInv
<1> QED BY <1>1, RingInductive, PTL DEF RingSpec, DoneIsFinal

-----------------------------------------------------------------------------
(* While no submit has failed.                                             *)

\* The scheduler takes no thread out of a system call, and lets none pass the
\* block of one.
LEMMA CallStays ==
    ASSUME IInv, SchedulerStep
    PROVE  \A t \in Ids :
             /\ InCall(t) => InCall(t)'
             /\ call'[t].kind = "io" /\ state'[t] # "BLOCKED"
                    => call[t].kind = "io" /\ state[t] # "BLOCKED"
<1> SUFFICES ASSUME NEW t \in Ids
             PROVE  /\ InCall(t) => InCall(t)'
                    /\ call'[t].kind = "io" /\ state'[t] # "BLOCKED"
                           => call[t].kind = "io" /\ state[t] # "BLOCKED"
  OBVIOUS
<1> DEFINE Goal == /\ InCall(t) => InCall(t)'
                   /\ call'[t].kind = "io" /\ state'[t] # "BLOCKED"
                          => call[t].kind = "io" /\ state[t] # "BLOCKED"
<1> USE DEF IInv, TypeOK, InCall
<1>0. /\ InApp.kind = "app" /\ \A id \in Ids : InJoin(id).kind = "join"
      /\ running => g_current \in Ids /\ state[g_current] = "RUNNING"
  BY DEF InApp, InJoin, OneRunning
<1>1. CASE Create
  <2>1. g_next_id \in Ids /\ state[g_next_id] = "NONE"
    BY <1>1 DEF Create, CallMatchesState, Ids
  <2>2. call[g_next_id].kind = "app"
    BY <1>0, <2>1 DEF CallMatchesState
  <2> QED BY <1>1, <2>1, <2>2 DEF Create
<1>2. CASE Yield
  BY <1>0, <1>2 DEF Yield, AppRuns
<1>3. ASSUME NEW id \in Ids, JoinRefused(id) \/ JoinFinished(id)
      PROVE  Goal
  BY <1>3 DEF JoinRefused, JoinFinished
<1>4. ASSUME NEW id \in Ids, JoinBlocks(id)
      PROVE  Goal
  BY <1>0, <1>4 DEF JoinBlocks, AppRuns, rr_scheduler_block_current
<1>5. CASE JoinReturns
  BY <1>0, <1>5 DEF JoinReturns
<1>6. ASSUME NEW v \in Retvals, Exit(v)
      PROVE  Goal
  <2>1. /\ state[g_current] = "RUNNING"
        /\ call[g_current].kind = "app"
        /\ g_current \in Ids
        /\ call' = call
    BY <1>0, <1>6 DEF Exit, AppRuns
  <2>2. \/ state'[t] = state[t]
        \/ t = g_current
        \/ t = join_waiter[g_current] /\ join_waiter[g_current] # NoThread
    BY <1>6 DEF Exit
  <2>3. join_waiter[g_current] # NoThread
            => call[join_waiter[g_current]].kind = "join"
    BY <1>0, <2>1 DEF WaiterIsJoining
  <2> QED BY <2>1, <2>2, <2>3
<1>7. CASE Dispatch
  BY <1>7, DispatchEffect, Zenon DEF CoreInv
<1> HIDE DEF Goal
<1>8. Goal
  BY <1>1, <1>2, <1>3, <1>4, <1>5, <1>6, <1>7, ZenonT(60) DEF SchedulerStep, Goal
<1> QED BY <1>8 DEF Goal

\* While no submit has failed, a step of the ring is a step of the scheduler:
\* a completion finds its thread in the system call it belongs to.
LEMMA CleanStep ==
    ASSUME RingInv, CleanRing, [NextRing]_ioVars
    PROVE  [Next]_schedVars
<1>1. CASE SchedulerStep
  BY <1>1 DEF SchedulerStep, Next
<1>2. CASE IoSubmits
  BY <1>2 DEF IoSubmits, CallFails, Next
<1>3. CASE IoDelivers
  BY <1>3 DEF IoDelivers, Next
<1>4. CASE SignalTerminates \/ SignalRearms
  BY <1>4 DEF SignalTerminates, SignalRearms
<1>5. CASE CompletionWakes
  <2>1. PICK id : id = Head(cq).op.user_data
    OBVIOUS
  <2>2. Head(cq) = cq[1] /\ 1 \in DOMAIN cq
    <3>1. cq # <<>>
      BY <1>5 DEF CompletionWakes
    <3>2. cq \in Seq([op : Ops, res : {"done", "term", "other", "short"}])
      BY DEF RingInv, RingTypeOK
    <3> QED BY <3>1, <3>2
  <2>3. id \in Ids /\ call[id].kind = "io"
    BY <1>5, <2>1, <2>2, ZenonT(60) DEF CompletionWakes, CleanRing, Current, InCall
  <2>4. IoWakes(id)
    BY <1>5, <2>1, <2>3 DEF CompletionWakes, IoWakes, Completes
  <2> QED BY <2>3, <2>4 DEF Next
<1>6. ASSUME NEW op \in inflight, KernelCompletes(op)
      PROVE  [Next]_schedVars
  BY <1>6 DEF KernelCompletes
<1>7. CASE UNCHANGED ioVars
  BY <1>7 DEF ioVars
<1> QED
  BY <1>1, <1>2, <1>3, <1>4, <1>5, <1>6, <1>7 DEF NextRing, rr_io_wait

\* A join that returned 0 names a finished thread, and goes on to.
LEMMA JoinedStep ==
    ASSUME IInv, JoinedIsDone, [Next]_schedVars
    PROVE  JoinedIsDone'
<1>1. CASE UNCHANGED ret /\ Next
  BY <1>1, CoreDone DEF JoinedIsDone, IInv, CoreInv, CoreNext
<1>2. ASSUME NEW id \in Ids, JoinRefused(id)
      PROVE  JoinedIsDone'
  BY <1>2 DEF JoinRefused, JoinedIsDone
<1>3. ASSUME NEW id \in Ids, JoinFinished(id)
      PROVE  JoinedIsDone'
  BY <1>3 DEF JoinFinished, JoinDelivers, JoinedIsDone
<1>4. CASE JoinReturns
  <2>1. /\ g_current \in Ids
        /\ state[g_current] = "RUNNING"
        /\ call[g_current].kind = "join"
    BY <1>4 DEF JoinReturns, IInv, TypeOK, OneRunning
  <2>2. /\ call[g_current].arg \in Ids
        /\ state[call[g_current].arg] = "DONE"
    BY <2>1, CallCases DEF IInv, JoinerSeesDone
  <2> QED BY <1>4, <2>2, Zenon DEF JoinReturns, JoinDelivers, JoinedIsDone
<1>5. CASE UNCHANGED schedVars
  BY <1>5 DEF schedVars, JoinedIsDone
<1>6. CASE \/ Create \/ Yield \/ (\E id \in Ids : JoinBlocks(id))
           \/ IoBlocks \/ IoReturns \/ (\E v \in Retvals : Exit(v))
           \/ Dispatch \/ (\E id \in Ids : IoWakes(id))
  <2>1. UNCHANGED ret
    BY <1>6 DEF Create, Yield, JoinBlocks, IoBlocks, IoReturns, Exit, Dispatch,
       SwitchTo, IoWakes, Completes
  <2> QED BY <1>1, <1>6, <2>1 DEF Next
<1> QED BY <1>2, <1>3, <1>4, <1>5, <1>6 DEF Next

\* A step that moves no operation preserves CleanRing if it takes no thread out
\* of its call and lets none pass.
LEMMA CleanFrame ==
    ASSUME CleanRing, UNCHANGED <<inflight, cq, calls, io_result>>,
           \A t \in Ids :
             /\ InCall(t) => InCall(t)'
             /\ call'[t].kind = "io" /\ state'[t] # "BLOCKED"
                    => call[t].kind = "io" /\ state[t] # "BLOCKED",
           ResultIsOwn'
    PROVE  CleanRing'
<1>1. ASSUME NEW op, Current(op)
      PROVE  Current(op)'
  BY <1>1 DEF Current, IoOp
<1> QED BY <1>1, Zenon DEF CleanRing

\* A submitted call joins the ring as the operation of its blocked thread.
LEMMA CleanSubmits ==
    ASSUME RingInv, CleanRing, IoSubmits, submit_failures' = 0,
           submit_failures = 0
    PROVE  CleanRing'
<1>0. PICK g, e : g = g_current /\ e = Sqe(g_current)
  OBVIOUS
<1>1. /\ g \in Ids
      /\ state[g] = "RUNNING"
      /\ \A t \in Ids : t # g => calls'[t] = calls[t]
      /\ e \in Ops
      /\ e # SignalRead
      /\ e.user_data = g
  BY <1>0, CallNumbers DEF Sqe
<1>2. /\ ~SqFull
      /\ io_uring_submit(Append(sq, e))
      /\ IoBlocks
      /\ UNCHANGED <<sysret, cq, io_result>>
  <2>1. Len(sq) \in Nat /\ Len(sq) <= 0
    BY DEF RingInv, RingTypeOK, QueuedByFailure
  <2>2. ~SqFull
    BY <2>1, RingAssumption DEF SqFull
  <2>3. ~io_uring_submit_fails(Append(sq, e))
    BY DEF io_uring_submit_fails
  <2> QED BY <1>0, <2>2, <2>3 DEF IoSubmits
<1>3. e = IoOp(g)'
  <2>1. g_current' = g_current /\ e = IoOp(g_current)'
    BY <1>0, <1>2, CallNumbers DEF IoBlocks, rr_scheduler_block_current
  <2> QED BY <1>0, <2>1 DEF IoOp
<1>4. ASSUME NEW op \in inflight', op # e
      PROVE  op \in inflight
  <2>1. Submitted(op)' => Submitted(op) \/ op = e
    BY <1>1, <1>2, EnterEffect
  <2>2. Len(sq) = 0 /\ DOMAIN sq = 1..Len(sq)
    BY DEF RingInv, RingTypeOK, QueuedByFailure
  <2> QED BY <1>4, <2>1, <2>2 DEF Submitted
<1>5. \A t \in Ids : /\ state'[t] = IF t = g THEN "BLOCKED" ELSE state[t]
                     /\ call'[t] = IF t = g THEN InIo ELSE call[t]
  BY <1>0, <1>2 DEF IoBlocks, rr_scheduler_block_current, RingInv, CoreInv,
     TypeOK
<1>6. Current(e)'
  BY <1>1, <1>3, <1>5 DEF Current, InCall, InIo
<1>7. ASSUME NEW op, Current(op)
      PROVE  Current(op)' /\ op # e
  BY <1>1, <1>5, <1>7 DEF Current, InCall, IoOp
<1>8. /\ \A op \in inflight' : op # SignalRead => Current(op)'
      /\ \A i \in DOMAIN cq' : cq'[i].op # SignalRead => Current(cq[i].op)'
  BY <1>2, <1>4, <1>6, <1>7 DEF CleanRing
<1>9. /\ \A i \in DOMAIN cq : cq[i].op # e
      /\ \A i \in DOMAIN cq' : cq'[i].op \notin inflight'
  BY <1>1, <1>2, <1>4, <1>7 DEF CleanRing
<1>10. \A t \in Ids : call'[t].kind = "io" /\ state'[t] # "BLOCKED"
                        => io_result'[t] = calls'[t]
  BY <1>1, <1>2, <1>5 DEF CleanRing
<1>11. ResultIsOwn'
  BY <1>2 DEF CleanRing, ResultIsOwn
<1> QED BY <1>2, <1>8, <1>9, <1>10, <1>11 DEF CleanRing

\* The kernel's completions preserve CleanRing.
LEMMA CleanCompletes ==
    ASSUME RingInv, CleanRing, NEW op \in inflight, KernelCompletes(op)
    PROVE  CleanRing'
<1>1. /\ inflight' = inflight \ {op}
      /\ UNCHANGED <<schedVars, calls, io_result, sysret>>
      /\ DOMAIN cq = 1..Len(cq)
      /\ Len(cq) \in Nat
      /\ DOMAIN cq' = 1..(Len(cq) + 1)
      /\ \A i \in 1..Len(cq) : cq'[i] = cq[i]
      /\ cq'[Len(cq) + 1].op = op
  BY CompleteEffect DEF RingInv
<1>2. \A x : Current(x)' <=> Current(x)
  BY <1>1 DEF Current, InCall, IoOp, schedVars
<1>3. \A i \in DOMAIN cq' : \/ i \in DOMAIN cq /\ cq'[i] = cq[i]
                            \/ i = Len(cq) + 1 /\ cq'[i].op = op
  BY <1>1
<1>4. \A x \in inflight' : x # SignalRead => Current(x)'
  BY <1>1, <1>2 DEF CleanRing
<1>5. ASSUME NEW i \in DOMAIN cq'
      PROVE  /\ cq'[i].op # SignalRead => Current(cq'[i].op)
             /\ cq'[i].op \notin inflight'
  BY <1>1, <1>3 DEF CleanRing
<1>6. ASSUME NEW i \in DOMAIN cq', NEW j \in DOMAIN cq', cq'[i].op = cq'[j].op
      PROVE  i = j
  BY <1>3, <1>6 DEF CleanRing
<1>7. \A t \in Ids : call'[t].kind = "io" /\ state'[t] # "BLOCKED"
                        => io_result'[t] = calls'[t]
  BY <1>1, Zenon DEF CleanRing, schedVars
<1>8. ResultIsOwn'
  BY <1>1 DEF CleanRing, ResultIsOwn
<1> QED BY <1>2, <1>4, <1>5, <1>6, <1>7, <1>8 DEF CleanRing

\* The return of a system call hands over the number of that very call.
LEMMA CleanDelivers ==
    ASSUME RingInv, CleanRing, IoDelivers
    PROVE  CleanRing'
<1>1. /\ g_current \in Ids
      /\ state[g_current] = "RUNNING"
      /\ call[g_current].kind = "io"
      /\ state' = state
      /\ \A t \in Ids : call'[t] = IF t = g_current THEN InApp ELSE call[t]
      /\ UNCHANGED <<inflight, cq, calls, io_result>>
  BY DEF IoDelivers, IoReturns, RingInv, CoreInv, TypeOK, OneRunning
<1>2. io_result[g_current] = calls[g_current]
  BY <1>1, ZenonT(60) DEF CleanRing
<1>3. ResultIsOwn'
  BY <1>2 DEF IoDelivers, ResultIsOwn
<1>4. InApp.kind # "io"
  BY DEF InApp
<1>5. ASSUME NEW t \in Ids
      PROVE  /\ InCall(t) => InCall(t)'
             /\ call'[t].kind = "io" /\ state'[t] # "BLOCKED"
                    => call[t].kind = "io" /\ state[t] # "BLOCKED"
  BY <1>1, <1>4 DEF InCall
<1> QED BY <1>1, <1>3, <1>5, CleanFrame

\* Taking a completion of the signalfd read preserves CleanRing: the new read
\* is not that of a thread.
LEMMA CleanRearms ==
    ASSUME RingInv, RingInv', CleanRing, SignalRearms, submit_failures' = 0,
           submit_failures = 0
    PROVE  CleanRing'
<1>1. /\ RingTypeOK
      /\ cq # <<>>
      /\ cq' = Tail(cq)
      /\ Head(cq).op = SignalRead
      /\ UNCHANGED <<calls, io_result, sysret, schedVars>>
  BY DEF SignalRearms, RingInv
<1>2. /\ SignalRead \in Ops
      /\ Completed(SignalRead)
      /\ \A op : Completed(op)' => Completed(op)
  BY <1>1, ConsumeEffect
<1>3. ASSUME NEW i \in DOMAIN cq', NEW j \in DOMAIN cq', cq'[i].op = cq'[j].op
      PROVE  i = j
  <2>1. PICK x : x = cq'[i].op
    OBVIOUS
  <2>2. \A k, l \in DOMAIN cq : cq[k].op = x /\ cq[l].op = x => k = l
    BY DEF CleanRing
  <2> QED BY <1>1, <1>3, <2>1, <2>2, ConsumeEffect
<1>4. ASSUME NEW op \in inflight', op # SignalRead
      PROVE  op \in inflight
  <2>1. ~SqFull
    <3>1. Len(sq) \in Nat /\ Len(sq) <= 0
      BY DEF RingInv, RingTypeOK, QueuedByFailure
    <3> QED BY <3>1, RingAssumption DEF SqFull
  <2>2. ~Submitted(SignalRead)
    BY <1>2 DEF RingInv, SignalOnce
  <2>3. Submitted(op)' => Submitted(op) \/ op = SignalRead
    BY <1>2, <2>1, <2>2, EnterEffect DEF SignalRearms, rr_io_submit_signal_read
  <2>4. Len(sq) = 0 /\ DOMAIN sq = 1..Len(sq)
    BY DEF RingInv, RingTypeOK, QueuedByFailure
  <2> QED BY <1>4, <2>3, <2>4 DEF Submitted
<1>5. \A x : Current(x)' <=> Current(x)
  BY <1>1 DEF Current, InCall, IoOp, schedVars
<1>6. \A x \in inflight' : x # SignalRead => Current(x)'
  BY <1>4, <1>5 DEF CleanRing
<1>7. ASSUME NEW i \in DOMAIN cq'
      PROVE  /\ cq'[i].op # SignalRead => Current(cq'[i].op)
             /\ cq'[i].op \notin inflight'
  <2>1. PICK x : x = cq'[i].op
    OBVIOUS
  <2>2. Completed(x)'
    BY <2>1 DEF Completed
  <2>3. PICK j \in DOMAIN cq : cq[j].op = x
    BY <1>2, <2>2 DEF Completed
  <2>4. x = SignalRead => x \notin inflight'
    BY <2>2 DEF RingInv, SignalOnce, Submitted
  <2> QED BY <1>4, <2>1, <2>3, <2>4 DEF CleanRing
<1>8. \A t \in Ids : call'[t].kind = "io" /\ state'[t] # "BLOCKED"
                        => io_result'[t] = calls'[t]
  BY <1>1 DEF CleanRing, schedVars
<1>9. ResultIsOwn'
  BY <1>1 DEF CleanRing, ResultIsOwn
<1> QED BY <1>3, <1>5, <1>6, <1>7, <1>8, <1>9 DEF CleanRing

\* A completion wakes the thread of its call with the result of that call, and
\* no other operation of that thread is left.
LEMMA CleanWakes ==
    ASSUME RingInv, CleanRing, CompletionWakes
    PROVE  CleanRing'
<1>0. PICK op, id : op = Head(cq).op /\ id = op.user_data
  OBVIOUS
<1>1. /\ RingTypeOK
      /\ cq # <<>>
      /\ cq' = Tail(cq)
      /\ op # SignalRead
      /\ UNCHANGED <<inflight, calls, sysret, call>>
  BY <1>0 DEF CompletionWakes, RingInv
<1>2. /\ \A x : Completed(x)' => Completed(x)
      /\ Completed(op)
      /\ \A x : (\A i, j \in DOMAIN cq :
                        cq[i].op = x /\ cq[j].op = x => i = j)
                => /\ \A i, j \in DOMAIN cq' :
                        cq'[i].op = x /\ cq'[j].op = x => i = j
                   /\ x = op => ~Completed(x)'
  BY <1>0, <1>1, ConsumeEffect
<1>3. \A x : \A i, j \in DOMAIN cq : cq[i].op = x /\ cq[j].op = x => i = j
  BY DEF CleanRing
<1>4. /\ id \in Ids
      /\ InCall(id)
      /\ op = IoOp(id)
      /\ op.n = calls[id]
      /\ op \notin inflight
  BY <1>0, <1>1, <1>2 DEF CleanRing, Current, Completed, IoOp
<1>5. \A t \in Ids : /\ state'[t] = IF t = id THEN "RUNNABLE" ELSE state[t]
                     /\ io_result'[t] = IF t = id THEN op.n ELSE io_result[t]
  BY <1>0, <1>1, <1>4, ZenonT(60) DEF CompletionWakes, rr_scheduler_wake_by_id, InCall,
     RingTypeOK, RingInv, CoreInv, TypeOK
<1>6. ASSUME NEW x, Current(x), x # op
      PROVE  Current(x)'
  BY <1>1, <1>4, <1>5, <1>6 DEF Current, InCall, IoOp
<1>7. \A x \in inflight' : x # SignalRead => Current(x)'
  BY <1>1, <1>4, <1>6 DEF CleanRing
<1>8. ASSUME NEW i \in DOMAIN cq'
      PROVE  /\ cq'[i].op # SignalRead => Current(cq[i].op)'
             /\ cq'[i].op \notin inflight'
  <2>1. PICK x : x = cq'[i].op
    OBVIOUS
  <2>2. Completed(x)'
    BY <2>1 DEF Completed
  <2>3. x # op
    BY <1>2, <1>3, <2>2 DEF Completed
  <2>4. PICK j \in DOMAIN cq : cq[j].op = x
    BY <1>2, <2>2 DEF Completed
  <2>5. (x # SignalRead => Current(x)') /\ x \notin inflight'
    BY <1>1, <1>6, <2>3, <2>4 DEF CleanRing
  <2> QED BY <2>1, <2>5 DEF Current
<1>9. \A i, j \in DOMAIN cq' : cq'[i].op = cq'[j].op => i = j
  BY <1>2, <1>3
<1>10. \A t \in Ids : call'[t].kind = "io" /\ state'[t] # "BLOCKED"
                        => io_result'[t] = calls'[t]
  BY <1>1, <1>4, <1>5, Zenon DEF CleanRing
<1>11. ResultIsOwn'
  BY <1>1 DEF CleanRing, ResultIsOwn
<1> QED BY <1>7, <1>8, <1>9, <1>10, <1>11 DEF CleanRing

\* The ring starts clean.
LEMMA InitCleanInv == InitRing => CleanInv
<1> SUFFICES ASSUME InitRing
             PROVE  CleanInv
  OBVIOUS
<1>1. IInv
  BY InitIInv DEF InitRing
<1>2. DOMAIN cq = {}
  BY DEF InitRing
<1>3. CleanRing
  <2>1. \A op \in inflight : op = SignalRead
    BY DEF InitRing
  <2>2. \A t \in Ids : call[t].kind # "io"
    BY DEF InitRing, Init, InApp
  <2>3. ResultIsOwn
    BY DEF InitRing, ResultIsOwn, Failed
  <2> QED BY <1>2, <2>1, <2>2, <2>3, Zenon DEF CleanRing
<1>4. JoinedIsDone
  BY DEF InitRing, Init, JoinedIsDone
<1> QED BY <1>1, <1>3, <1>4 DEF CleanInv

\* CleanInv is preserved: a failing submit ends it, every other step keeps it.
LEMMA NextCleanInv ==
    RingInv /\ RingInv' /\ CleanInv /\ [NextRing]_ioVars => CleanInv'
<1> SUFFICES ASSUME RingInv, RingInv', CleanInv, [NextRing]_ioVars,
                    submit_failures' = 0
             PROVE  IInv' /\ CleanRing' /\ JoinedIsDone'
  BY DEF CleanInv
<1>1. submit_failures = 0
  <2>1. submit_failures \in Nat
    BY DEF RingInv, RingTypeOK
  <2>2. submit_failures' = submit_failures \/ submit_failures' = submit_failures + 1
    BY Zenon DEF NextRing, SchedulerStep, IoSubmits, IoDelivers, rr_io_wait,
       SignalTerminates, SignalRearms, rr_io_submit_signal_read,
       CompletionWakes, KernelCompletes, io_uring_submit,
       io_uring_submit_fails, ioVars, ringVars
  <2> QED BY <2>1, <2>2
<1>2. IInv /\ CleanRing /\ JoinedIsDone
  BY <1>1 DEF CleanInv
<1>3. [Next]_schedVars
  BY <1>2, CleanStep
<1>4. IInv'
  BY <1>2, <1>3, NextIInv
<1>5. JoinedIsDone'
  BY <1>2, <1>3, JoinedStep
<1>6. CASE SchedulerStep
  <2>1. UNCHANGED <<inflight, cq, calls, io_result, sysret>>
    BY <1>6 DEF SchedulerStep, ringVars
  <2>2. ResultIsOwn'
    BY <1>2, <2>1, Zenon DEF CleanRing, ResultIsOwn
  <2> QED BY <1>2, <1>4, <1>5, <1>6, <2>1, <2>2, CallStays, CleanFrame, Zenon
<1>7. CASE SignalTerminates \/ UNCHANGED ioVars
  <2>1. UNCHANGED <<schedVars, inflight, cq, calls, io_result, sysret>>
    BY <1>7 DEF SignalTerminates, ioVars, ringVars
  <2>2. ResultIsOwn'
    BY <1>2, <2>1 DEF CleanRing, ResultIsOwn
  <2>3. state' = state /\ call' = call
    BY <2>1 DEF schedVars
  <2>4. \A t \in Ids :
            /\ InCall(t) => InCall(t)'
            /\ call'[t].kind = "io" /\ state'[t] # "BLOCKED"
                   => call[t].kind = "io" /\ state[t] # "BLOCKED"
    BY <2>3 DEF InCall
  <2> QED BY <1>2, <1>4, <1>5, <2>1, <2>2, <2>4, CleanFrame, Zenon
<1> QED
  BY <1>1, <1>2, <1>4, <1>5, <1>6, <1>7, CleanSubmits, CleanDelivers,
     CleanRearms, CleanWakes, CleanCompletes DEF NextRing, rr_io_wait

\* CleanInv holds throughout.
THEOREM CleanInductive == RingSpec => []CleanInv
  BY InitCleanInv, NextCleanInv, RingInductive, PTL DEF RingSpec

\* A blocking wrapper returns the result of the operation it submitted, however
\* calls overlap and complete, as long as no submit has failed.
THEOREM ResultSafe == RingSpec => [](submit_failures = 0 => ResultIsOwn)
<1>1. CleanInv => (submit_failures = 0 => ResultIsOwn)
  BY DEF CleanInv, CleanRing
<1> QED BY <1>1, CleanInductive, PTL

\* uthread_join returns 0 only for a finished thread, as long as no submit has
\* failed: the failing submit is what a premature join takes.
THEOREM JoinOkSafe == RingSpec => [](submit_failures = 0 => JoinOkMeansDone)
<1>1. CleanInv => (submit_failures = 0 => JoinOkMeansDone)
  BY DEF CleanInv, JoinedIsDone, JoinOkMeansDone
<1> QED BY <1>1, CleanInductive, PTL

\* The ring implements the scheduler and its contract for completions: what
\* rr_io_wait wakes is a thread blocked in a system call.
THEOREM RingRefinement ==
    RingSpec /\ [](submit_failures = 0) => ImplementsScheduler
<1>1. InitRing => Init
  BY DEF InitRing
<1>2. RingInv /\ CleanInv /\ submit_failures = 0 /\ [NextRing]_ioVars
        => [Next]_schedVars
  BY CleanStep DEF CleanInv
<1> QED
  BY <1>1, <1>2, RingInductive, CleanInductive, PTL
  DEF RingSpec, ImplementsScheduler, SchedulerSpec

\* So the promises of rr.h hold of the scheduler and the ring together, as long
\* as no submit fails.
THEOREM RingKeepsApi ==
    RingSpec /\ [](submit_failures = 0) => ImplementsApi
<1>1. ImplementsScheduler => SchedulerSpec
  BY DEF ImplementsScheduler
<1> QED BY <1>1, RingRefinement, Refinement, PTL

=============================================================================
