------------------------- MODULE RecordReplayProofs -------------------------
(***************************************************************************)
(* What holds of RecordReplay for every number of threads and every        *)
(* program.                                                                *)
(*                                                                         *)
(* That a replay is exact is a relation between two runs.  The invariant   *)
(* says that there is a history h of the recording, one entry for each     *)
(* step the replay is to make, such that script, log and recorded          *)
(* prescribe each of these steps; that a recording, unless it is inside a  *)
(* blocking system call or stuck, is at the end of h; and that the replay  *)
(* is at some entry of h.  The replay is deterministic, so its next step   *)
(* leads to the next entry.                                                *)
(***************************************************************************)
EXTENDS RecordReplay, SchedulerProofs

\* A leaf that names no prover is left to SMT, with time to spare.
USE SMTT(30)

-----------------------------------------------------------------------------
(* The scheduler's state as a value, and its steps as functions of it.     *)

Sched(next, st, q, cur, run, waiter, retv, calls, r) ==
    [next |-> next, state |-> st, q |-> q, cur |-> cur, running |-> run,
     waiter |-> waiter, retval |-> retv, call |-> calls, ret |-> r]

Now ==
    Sched(g_next_id, state, g_runq, g_current, running, join_waiter, retval,
          call, ret)

CreateOf(s) ==
    Sched(s.next + 1, [s.state EXCEPT ![s.next] = "RUNNABLE"],
          Append(s.q, s.next), s.cur, s.running, s.waiter, s.retval, s.call,
          s.ret)

YieldOf(s) ==
    Sched(s.next, [s.state EXCEPT ![s.cur] = "RUNNABLE"],
          Append(s.q, s.cur), s.cur, FALSE, s.waiter, s.retval, s.call, s.ret)

ExitOf(s, v) ==
    LET w == s.waiter[s.cur]
        wakes == w # NoThread /\ s.state[w] = "BLOCKED"
    IN  Sched(s.next,
              [t \in Ids |-> IF t = s.cur THEN "DONE"
                             ELSE IF wakes /\ t = w THEN "RUNNABLE"
                             ELSE s.state[t]],
              IF wakes THEN Append(s.q, w) ELSE s.q,
              s.cur, FALSE, s.waiter, [s.retval EXCEPT ![s.cur] = v], s.call,
              s.ret)

ErrnoOf(s, id) ==
    IF s.state[id] = "NONE" THEN "ESRCH"
    ELSE IF id = s.cur THEN "EDEADLK"
    ELSE IF s.state[id] # "DONE" /\ s.waiter[id] \notin {NoThread, s.cur}
         THEN "EBUSY"
    ELSE "ok"

JoinBlocksIn(s, id) == ErrnoOf(s, id) = "ok" /\ s.state[id] # "DONE"

JoinOf(s, id) ==
    IF JoinBlocksIn(s, id)
    THEN Sched(s.next, [s.state EXCEPT ![s.cur] = "BLOCKED"], s.q, s.cur,
               FALSE, [s.waiter EXCEPT ![id] = s.cur], s.retval,
               [s.call EXCEPT ![s.cur] = InJoin(id)], s.ret)
    ELSE Sched(s.next, s.state, s.q, s.cur, s.running, s.waiter, s.retval,
               s.call,
               [by |-> s.cur, of |-> id, res |-> ErrnoOf(s, id),
                out |-> IF ErrnoOf(s, id) = "ok" THEN s.retval[id] ELSE NULL])

ResumeOf(s) ==
    Sched(s.next, s.state, s.q, s.cur, s.running, s.waiter, s.retval,
          [s.call EXCEPT ![s.cur] = InApp],
          [by |-> s.cur, of |-> s.call[s.cur].arg, res |-> "ok",
           out |-> s.retval[s.call[s.cur].arg]])

DispatchOf(s) ==
    Sched(s.next, [s.state EXCEPT ![Head(s.q)] = "RUNNING"], Tail(s.q),
          Head(s.q), TRUE, s.waiter, s.retval, s.call, s.ret)

-----------------------------------------------------------------------------
(* Histories.                                                              *)

\* The sequence u starts with the members of s.
Extends(s, u) == Len(s) <= Len(u) /\ \A i \in 1..Len(s) : u[i] = s[i]

\* An entry: the scheduler, how many calls of each thread have been made and
\* have returned, and the next event.
Entry ==
    [s |-> Now, cnt |-> [t \in Ids |-> Len(script[t])], pos |-> Len(log) + 1,
     res |-> [t \in Ids |-> Len(recorded[t])]]

\* The call that the current thread of a makes next.
NextOp(a, sc) == sc[a.s.cur][a.cnt[a.s.cur] + 1]

\* From a to b a call returns r to the current thread, or none does.
Returns(a, b, rc, r) ==
    LET g == a.s.cur IN
    /\ b.res = [a.res EXCEPT ![g] = a.res[g] + 1]
    /\ a.res[g] < Len(rc[g])
    /\ rc[g][a.res[g] + 1] = r

Silent(a, b) == b.res = a.res

\* From a to b the event ev is read, or none is.
Reads(a, b, lg, ev) ==
    /\ b.pos = a.pos + 1
    /\ a.pos <= Len(lg)
    /\ lg[a.pos] = ev

Unread(a, b) == b.pos = a.pos

DispatchStep(a, b, lg) ==
    /\ ~a.s.running
    /\ a.s.q # <<>>
    /\ b.s = DispatchOf(a.s)
    /\ b.cnt = a.cnt
    /\ Silent(a, b)
    /\ IF Head(a.s.q) = a.s.cur
       THEN Unread(a, b)
       ELSE Reads(a, b, lg, EvSched(a.s.cur, Head(a.s.q)))

ResumeStep(a, b, rc) ==
    /\ a.s.running
    /\ a.s.call[a.s.cur].kind = "join"
    /\ b.s = ResumeOf(a.s)
    /\ b.cnt = a.cnt
    /\ Unread(a, b)
    /\ Returns(a, b, rc, Joined(b.s.ret))

CallStep(a, b, sc, lg, rc) ==
    /\ a.s.running
    /\ a.s.call[a.s.cur].kind = "app"
    /\ a.cnt[a.s.cur] < Len(sc[a.s.cur])
    /\ b.cnt = [a.cnt EXCEPT ![a.s.cur] = a.cnt[a.s.cur] + 1]
    /\ \/ /\ NextOp(a, sc) = <<"create">>
          /\ a.s.next \in Ids
          /\ b.s = CreateOf(a.s)
          /\ Unread(a, b)
          /\ Returns(a, b, rc, Created(a.s.next))
       \/ /\ NextOp(a, sc) = <<"yield">>
          /\ b.s = YieldOf(a.s)
          /\ Unread(a, b)
          /\ Silent(a, b)
       \/ \E v \in Retvals :
            /\ NextOp(a, sc) = <<"exit", v>>
            /\ b.s = ExitOf(a.s, v)
            /\ Unread(a, b)
            /\ Silent(a, b)
       \/ \E id \in Ids :
            /\ NextOp(a, sc) = <<"join", id>>
            /\ b.s = JoinOf(a.s, id)
            /\ Unread(a, b)
            /\ IF JoinBlocksIn(a.s, id) THEN Silent(a, b)
               ELSE Returns(a, b, rc, Joined(b.s.ret))
       \/ \E nr \in {direct, blocking} :
            /\ NextOp(a, sc) = <<"syscall", nr>>
            /\ b.s = a.s
            /\ Reads(a, b, lg, EvSyscall(a.s.cur, nr))
            /\ Returns(a, b, rc, SysResult(a.pos))

Step(a, b, sc, lg, rc) ==
    \/ DispatchStep(a, b, lg)
    \/ ResumeStep(a, b, rc)
    \/ CallStep(a, b, sc, lg, rc)

\* script, log and recorded prescribe every step of h.
Chain(h, sc, lg, rc) ==
    \A k \in 1..(Len(h) - 1) : Step(h[k], h[k + 1], sc, lg, rc)

NoIo == \A t \in Ids : call[t].kind # "io"

\* Inside a blocking system call of the current thread, the recording has yet
\* to make the step from a; nothing else has moved.
InsideCall(a) ==
    LET g == g_current IN
    /\ \A t \in Ids : call[t].kind = "io" <=> t = g
    /\ a.s = Sched(g_next_id, [state EXCEPT ![g] = "RUNNING"],
                   IF state[g] = "RUNNABLE" THEN <<>> ELSE g_runq, g, TRUE,
                   join_waiter, retval, [call EXCEPT ![g] = InApp], ret)
    /\ state[g] = "RUNNABLE" => g_runq = <<g>>
    /\ script[g] # <<>>
    /\ script[g][Len(script[g])] = <<"syscall", blocking>>
    /\ a.cnt = [t \in Ids |-> IF t = g THEN Len(script[t]) - 1
                              ELSE Len(script[t])]
    /\ a.pos = Len(log) + 1
    /\ a.res = [t \in Ids |-> Len(recorded[t])]

\* Where a recording is in its history.
Recording(h) ==
    \/ Idle /\ NoIo
    \/ NoIo /\ h[Len(h)] = Entry
    \/ InsideCall(h[Len(h)])

\* The last entry of a complete recording: main returns.
Ended(h) ==
    LET z == h[Len(h)] IN
    /\ z.s.running /\ z.s.cur = 1 /\ z.s.call[1].kind = "app"
    /\ Len(script[1]) = z.cnt[1] + 1
    /\ NextOp(z, script) = <<"return">>
    /\ z.pos = Len(log) + 1
    /\ z.res = [t \in Ids |-> Len(recorded[t])]

\* The replay is at entry a.
ReplayAt(a) ==
    /\ Now = a.s
    /\ pc = [t \in Ids |-> a.cnt[t] + 1]
    /\ pos = a.pos
    /\ \A t \in Ids : /\ Len(replayed[t]) = a.res[t]
                      /\ Extends(replayed[t], recorded[t])

First ==
    [s |-> Sched(2, [t \in Ids |-> IF t = 1 THEN "RUNNING" ELSE "NONE"], <<>>,
                 1, TRUE, [t \in Ids |-> NoThread], [t \in Ids |-> NULL],
                 [t \in Ids |-> InApp],
                 [by |-> 0, of |-> 0, res |-> "none", out |-> NULL]),
     cnt |-> [t \in Ids |-> 0], pos |-> 2, res |-> [t \in Ids |-> 0]]

\* The log starts with the switch to main.
Started == log # <<>> /\ log[1] = EvSched(0, 1)

\* h is the history of the recording, and the process is where it should be.
Follows(h) ==
    /\ h # <<>>
    /\ h[1] = First
    /\ Started
    /\ Chain(h, script, log, recorded)
    /\ mode # "aborted"
    /\ mode = "record" => /\ Recording(h)
                          /\ \A t \in Ids : replayed[t] = <<>> /\ pc[t] = 1
                          /\ pos = 1
    /\ mode = "replay" => Ended(h) /\ \E k \in DOMAIN h : ReplayAt(h[k])
    /\ mode = "finished" => replayed = recorded /\ pos = Len(log) + 1

Scheds ==
    [next : Nat,
     state : [Ids -> {"NONE", "RUNNABLE", "RUNNING", "BLOCKED", "DONE"}],
     q : Seq(Ids), cur : Ids, running : BOOLEAN,
     waiter : [Ids -> 0..MaxThreads], retval : [Ids -> Retvals],
     call : [Ids -> Calls], ret : Joins]

Entries ==
    [s : Scheds, cnt : [Ids -> Nat], pos : Nat \ {0}, res : [Ids -> Nat]]

-----------------------------------------------------------------------------
(* The functions describe the actions.                                     *)

\* The scheduler's state is a value of the right type.
LEMMA NowType == TypeOK => Now \in Scheds
  BY DEF TypeOK, Now, Sched, Scheds

\* uthread_create that succeeds is CreateOf.
LEMMA CreateNow ==
  ASSUME TypeOK, Create, state' # state
  PROVE  Now' = CreateOf(Now)
  BY Zenon DEF Create, Now, Sched, CreateOf, rr_scheduler_enqueue

\* uthread_yield is YieldOf.
LEMMA YieldNow ==
  ASSUME Yield
  PROVE  Now' = YieldOf(Now)
  BY Zenon DEF Yield, Now, Sched, YieldOf, rr_scheduler_enqueue

\* uthread_exit is ExitOf.
LEMMA ExitNow ==
  ASSUME NEW v \in Retvals, Exit(v)
  PROVE  Now' = ExitOf(Now, v)
  BY Zenon DEF Exit, Now, Sched, ExitOf, rr_scheduler_enqueue

\* The errno of uthread_join is ErrnoOf.
LEMMA ErrnoNow ==
  ASSUME NEW id \in Ids
  PROVE  /\ JoinErrno(id) = ErrnoOf(Now, id)
         /\ JoinBlocksIn(Now, id) <=> JoinErrno(id) = "ok" /\ state[id] # "DONE"
  BY DEF JoinErrno, ErrnoOf, Now, Sched, Registered, JoinBlocksIn

\* uthread_join that returns at once, or blocks, is JoinOf.
LEMMA JoinAtOnceNow ==
  ASSUME NEW id \in Ids, JoinRefused(id) \/ JoinFinished(id)
  PROVE  Now' = JoinOf(Now, id) /\ ~JoinBlocksIn(Now, id)
<1>1. ~JoinBlocksIn(Now, id)
  BY ErrnoNow DEF JoinRefused, JoinFinished
<1>2. JoinErrno(id) = ErrnoOf(Now, id)
  BY ErrnoNow
<1>3. Now' = JoinOf(Now, id)
  BY <1>1, <1>2 DEF JoinRefused, JoinFinished, JoinDelivers, Now, Sched, JoinOf
<1> QED BY <1>1, <1>3

\* A join that blocks, as a function of the scheduler's state.
LEMMA JoinBlocksNow ==
  ASSUME NEW id \in Ids, JoinBlocks(id)
  PROVE  Now' = JoinOf(Now, id) /\ JoinBlocksIn(Now, id)
<1>1. JoinBlocksIn(Now, id)
  BY ErrnoNow DEF JoinBlocks
<1>2. Now' = JoinOf(Now, id)
  BY <1>1, Zenon DEF JoinBlocks, rr_scheduler_block_current, Now, Sched, JoinOf
<1> QED BY <1>1, <1>2

\* The end of a blocking uthread_join is ResumeOf.
LEMMA ResumeNow ==
  ASSUME JoinReturns
  PROVE  Now' = ResumeOf(Now)
  BY DEF JoinReturns, JoinDelivers, Now, Sched, ResumeOf

\* scheduler_loop is DispatchOf: the head of the queue is RUNNABLE.
LEMMA DispatchNow ==
  ASSUME TypeOK, RunQueueExact, Dispatch
  PROVE  Now' = DispatchOf(Now)
<1>1. state[Head(g_runq)] = "RUNNABLE"
  BY DEF TypeOK, RunQueueExact, Dispatch
<1> QED BY <1>1, Zenon DEF Dispatch, SwitchTo, Now, Sched, DispatchOf

-----------------------------------------------------------------------------
(* Types, and the scheduler's own invariant.                               *)

Op ==
    {<<"create">>, <<"yield">>, <<"return">>}
        \cup ({"exit"} \X Retvals) \cup ({"join"} \X Ids)
        \cup ({"syscall"} \X {direct, blocking})

Event ==
    [type : {"EV_SCHED", "EV_SYSCALL", "EV_SIGNAL"}, id : Nat, arg : Nat]

Result ==
    ({"create"} \X Nat)
        \cup ({"join"} \X {"none", "ok", "ESRCH", "EDEADLK", "EBUSY"} \X Retvals)
        \cup ({"syscall"} \X Nat)

RRTypeOK ==
    /\ mode \in {"record", "replay", "finished", "aborted"}
    /\ script \in [Ids -> Seq(Op)]
    /\ pc \in [Ids -> Nat]
    /\ log \in Seq(Event)
    /\ pos \in Nat
    /\ recorded \in [Ids -> Seq(Result)]
    /\ replayed \in [Ids -> Seq(Result)]
    /\ overlapped \in BOOLEAN

\* What rr_log_sched, rr_log_syscall and rr_log_signal append are events.
LEMMA EventTypes ==
  ASSUME TypeOK
  PROVE  /\ EvSched(0, 1) \in Event
         /\ \A i, j \in Ids : EvSched(i, j) \in Event
         /\ \A i \in Ids : EvSignal(i) \in Event
         /\ \A i \in Ids : /\ EvSyscall(i, direct) \in Event
                           /\ EvSyscall(i, blocking) \in Event
  BY DEF Ids, Event, EvSched, EvSyscall, EvSignal, direct, blocking

\* What the calls of a program are, and what they return.
LEMMA OpTypes ==
  /\ <<"create">> \in Op /\ <<"yield">> \in Op /\ <<"return">> \in Op
  /\ \A v \in Retvals : <<"exit", v>> \in Op
  /\ \A id \in Ids : <<"join", id>> \in Op
  /\ <<"syscall", direct>> \in Op
  /\ <<"syscall", blocking>> \in Op
  BY DEF Op

\* The results of calls are results.
LEMMA ResultTypes ==
  /\ \A n \in Nat : Created(n) \in Result
  /\ \A n \in Nat : SysResult(n) \in Result
  /\ \A r \in Joins : Joined(r) \in Result
<1>1. \A n \in Nat : Created(n) \in Result /\ SysResult(n) \in Result
  BY DEF Result, Created, SysResult
<1>2. \A r \in Joins : Joined(r) \in Result
  BY DEF Result, Joined, Joins
<1> QED BY <1>1, <1>2

\* A call of the program keeps the types of the script and the counters.
LEMMA DoesType ==
  ASSUME TypeOK, RRTypeOK, NEW op \in Op, Does(op)
  PROVE  script' \in [Ids -> Seq(Op)] /\ pc' \in [Ids -> Nat]
<1>1. g_current \in Ids
  BY DEF TypeOK
<1>2. CASE mode = "record"
  <2>1. Append(script[g_current], op) \in Seq(Op)
    BY <1>1, AppendMembers DEF RRTypeOK
  <2> QED BY <1>1, <1>2, <2>1, Zenon DEF RRTypeOK, Does
<1>3. CASE mode = "replay"
  BY <1>1, <1>3 DEF RRTypeOK, Does
<1> QED BY <1>2, <1>3 DEF Does

\* A result keeps the types of the results.
LEMMA SeesType ==
  ASSUME TypeOK, RRTypeOK, NEW r \in Result, Sees(r)
  PROVE  /\ recorded' \in [Ids -> Seq(Result)]
         /\ replayed' \in [Ids -> Seq(Result)]
<1>1. g_current \in Ids
  BY DEF TypeOK
<1>2. /\ Append(recorded[g_current], r) \in Seq(Result)
      /\ Append(replayed[g_current], r) \in Seq(Result)
  BY <1>1, AppendMembers DEF RRTypeOK
<1> QED BY <1>1, <1>2, Zenon DEF RRTypeOK, Sees

\* An event keeps the types of the log.
LEMMA LogsType ==
  ASSUME RRTypeOK, NEW ev \in Event, Logs(ev)
  PROVE  /\ log' \in Seq(Event)
         /\ Len(log') = Len(log) + 1
         /\ pos' \in Nat
         /\ overlapped' \in BOOLEAN
<1>1. log \in Seq(Event) /\ log' = Append(log, ev)
  BY DEF RRTypeOK, Logs
<1>2. log' \in Seq(Event) /\ Len(log') = Len(log) + 1
  BY <1>1, AppendMembers
<1>3. pos' \in Nat /\ overlapped' \in BOOLEAN
  BY DEF RRTypeOK, Logs
<1> QED BY <1>2, <1>3

\* Every step is a step of the scheduler, in the recording as in the replay,
\* or the start of the replaying process.
LEMMA RRSched ==
  ASSUME RRNext
  PROVE  \/ [Next]_schedVars
         \/ mode = "record" /\ mode' # "record" /\ Restart
<1>1. CASE UthreadCall
  BY <1>1, Zenon DEF UthreadCall, CreateCall, YieldCall, ExitCall, JoinCall,
              JoinCallReturns, Next
<1>2. CASE SyscallDirect
  BY <1>2 DEF SyscallDirect
<1>3. CASE SyscallSubmits \/ SyscallReturns \/ CompletionRecorded
           \/ DispatchRecorded
  BY <1>3 DEF SyscallSubmits, SyscallReturns, CompletionRecorded,
              DispatchRecorded, Next
<1>4. CASE SignalRecorded
  BY <1>4 DEF SignalRecorded
<1>5. CASE MainReturns
  BY <1>5 DEF MainReturns
<1>6. CASE SyscallReplayed
  BY <1>6 DEF SyscallReplayed
<1>7. CASE DispatchReplayed
  BY <1>7 DEF DispatchReplayed, Next
<1> QED BY <1>1, <1>2, <1>3, <1>4, <1>5, <1>6, <1>7 DEF RRNext

\* The replaying process starts as the recording one did.
LEMMA RestartIInv == Restart => IInv'
<1>1. Restart => Init'
  BY DEF Restart, Init
<1>2. Init' => IInv'
  BY InitIInv, PTL
<1> QED BY <1>1, <1>2

\* The types when rr_init is done.
LEMMA RRInitType == RRInit => RRTypeOK
<1> SUFFICES ASSUME RRInit
             PROVE  RRTypeOK
  OBVIOUS
<1>1. TypeOK
  BY InitTypeOK DEF RRInit
<1>2. EvSched(0, 1) \in Event
  BY <1>1, EventTypes
<1>3. log \in Seq(Event)
  BY <1>2 DEF RRInit
<1>4. <<>> \in Seq(Op) /\ <<>> \in Seq(Result)
  OBVIOUS
<1>5. /\ script \in [Ids -> Seq(Op)]
      /\ recorded \in [Ids -> Seq(Result)]
      /\ replayed \in [Ids -> Seq(Result)]
  BY <1>4 DEF RRInit
<1> QED BY <1>3, <1>5, Zenon DEF RRInit, RRTypeOK

\* The calls of rr.h keep the types.
LEMMA UthreadCallType ==
  ASSUME TypeOK, TypeOK', RRTypeOK, UthreadCall
  PROVE  RRTypeOK'
<1>1. UNCHANGED <<mode, log, pos, overlapped>>
  BY DEF UthreadCall, logVars
<1>2. script' \in [Ids -> Seq(Op)] /\ pc' \in [Ids -> Nat]
  <2>1. CASE CreateCall \/ YieldCall
    BY <2>1, DoesType, OpTypes DEF CreateCall, YieldCall
  <2>2. ASSUME NEW v \in Retvals, ExitCall(v)
        PROVE  script' \in [Ids -> Seq(Op)] /\ pc' \in [Ids -> Nat]
    BY <2>2, DoesType, OpTypes DEF ExitCall
  <2>3. ASSUME NEW id \in Ids, JoinCall(id)
        PROVE  script' \in [Ids -> Seq(Op)] /\ pc' \in [Ids -> Nat]
    BY <2>3, DoesType, OpTypes DEF JoinCall
  <2>4. CASE JoinCallReturns
    BY <2>4 DEF JoinCallReturns, programVars, RRTypeOK
  <2> QED BY <2>1, <2>2, <2>3, <2>4 DEF UthreadCall
<1>3. /\ recorded' \in [Ids -> Seq(Result)]
      /\ replayed' \in [Ids -> Seq(Result)]
  <2>1. ret' \in Joins /\ g_next_id \in Nat
    BY DEF TypeOK
  <2>2. Joined(ret') \in Result /\ Created(g_next_id) \in Result
    BY <2>1, ResultTypes
  <2>3. CASE Sees(Joined(ret')) \/ Sees(Created(g_next_id))
    BY <2>2, <2>3, SeesType
  <2>4. CASE UNCHANGED resultVars
    BY <2>4 DEF resultVars, RRTypeOK
  <2> QED BY <2>3, <2>4, Zenon DEF UthreadCall, CreateCall, YieldCall, ExitCall,
                            JoinCall, JoinCallReturns
<1> QED BY <1>1, <1>2, <1>3 DEF RRTypeOK

\* Every step keeps the types.
LEMMA RRNextType ==
  ASSUME TypeOK, TypeOK', RRTypeOK, RRNext
  PROVE  RRTypeOK'
<1>g. g_current \in Ids /\ g_current' \in Ids
  BY DEF TypeOK
<1>s. /\ EvSyscall(g_current, direct) \in Event
      /\ EvSyscall(g_current, blocking) \in Event
      /\ EvSignal(g_current) \in Event
      /\ EvSched(g_current, g_current') \in Event
  BY <1>g, EventTypes
<1>l. log \in Seq(Event) /\ Len(log) \in Nat /\ pos \in Nat
  BY DEF RRTypeOK
<1>1. CASE UthreadCall
  BY <1>1, UthreadCallType
<1>2. CASE SyscallDirect
  <2>1. /\ log' \in Seq(Event) /\ Len(log') \in Nat /\ pos' \in Nat
        /\ overlapped' \in BOOLEAN
    BY <1>2, <1>s, LogsType DEF SyscallDirect
  <2>2. SysResult(Len(log')) \in Result
    BY <2>1, ResultTypes
  <2>3. recorded' \in [Ids -> Seq(Result)] /\ replayed' \in [Ids -> Seq(Result)]
    BY <1>2, <2>2, SeesType DEF SyscallDirect
  <2>4. script' \in [Ids -> Seq(Op)] /\ pc' \in [Ids -> Nat]
    BY <1>2, DoesType, OpTypes DEF SyscallDirect
  <2> QED BY <1>2, <2>1, <2>3, <2>4 DEF SyscallDirect, RRTypeOK
<1>3. CASE SyscallSubmits
  <2>1. script' \in [Ids -> Seq(Op)] /\ pc' \in [Ids -> Nat]
    BY <1>3, DoesType, OpTypes DEF SyscallSubmits
  <2> QED BY <1>3, <2>1 DEF SyscallSubmits, RRTypeOK, logVars, resultVars
<1>4. CASE SyscallReturns
  <2>1. /\ log' \in Seq(Event) /\ Len(log') \in Nat /\ pos' \in Nat
        /\ overlapped' \in BOOLEAN
    BY <1>4, <1>s, LogsType DEF SyscallReturns
  <2>2. SysResult(Len(log')) \in Result
    BY <2>1, ResultTypes
  <2>3. recorded' \in [Ids -> Seq(Result)] /\ replayed' \in [Ids -> Seq(Result)]
    BY <1>4, <2>2, SeesType DEF SyscallReturns
  <2> QED BY <1>4, <2>1, <2>3 DEF SyscallReturns, RRTypeOK, programVars
<1>5. CASE CompletionRecorded
  BY <1>5 DEF CompletionRecorded, RRTypeOK, programVars, logVars, resultVars
<1>6. CASE SignalRecorded
  <2>1. /\ log' \in Seq(Event) /\ pos' \in Nat /\ overlapped' \in BOOLEAN
    BY <1>6, <1>s, LogsType DEF SignalRecorded
  <2> QED BY <1>6, <2>1 DEF SignalRecorded, RRTypeOK, programVars, resultVars
<1>7. CASE DispatchRecorded
  <2>1. /\ log' \in Seq(Event) /\ pos' \in Nat /\ overlapped' \in BOOLEAN
    BY <1>7, <1>s, LogsType DEF DispatchRecorded, logVars, RRTypeOK
  <2> QED BY <1>7, <2>1 DEF DispatchRecorded, RRTypeOK, programVars, resultVars
<1>8. CASE MainReturns
  <2>1. script' \in [Ids -> Seq(Op)] /\ pc' \in [Ids -> Nat]
    BY <1>8, DoesType, OpTypes DEF MainReturns
  <2>2. pos' \in Nat /\ UNCHANGED <<log, overlapped>>
    BY <1>8, <1>l DEF MainReturns, Consumes, logVars
  <2>3. mode' \in {"record", "replay", "finished", "aborted"}
    BY <1>8 DEF MainReturns
  <2> QED BY <1>8, <2>1, <2>2, <2>3 DEF MainReturns, RRTypeOK, resultVars
<1>9. CASE SyscallReplayed
  <2>1. PICK nr \in {direct, blocking} :
                /\ Does(<<"syscall", nr>>)
                /\ Sees(rr_replay_next_syscall(nr))
                /\ Consumes
                /\ UNCHANGED mode
    BY <1>9 DEF SyscallReplayed
  <2>2. script' \in [Ids -> Seq(Op)] /\ pc' \in [Ids -> Nat]
    BY <2>1, DoesType, OpTypes
  <2>3. rr_replay_next_syscall(nr) \in Result
    <3>1. \/ rr_replay_next_syscall(nr) = SysResult(pos)
          \/ rr_replay_next_syscall(nr) = SysResult(0)
      BY DEF rr_replay_next_syscall, Diverged
    <3> QED BY <3>1, <1>l, ResultTypes
  <2>4. recorded' \in [Ids -> Seq(Result)] /\ replayed' \in [Ids -> Seq(Result)]
    BY <2>1, <2>3, SeesType
  <2>5. pos' \in Nat /\ UNCHANGED <<log, overlapped>>
    BY <2>1, <1>l DEF Consumes
  <2> QED BY <2>1, <2>2, <2>4, <2>5 DEF RRTypeOK
<1>10. CASE DispatchReplayed
  <2>1. pos' \in Nat /\ UNCHANGED <<log, overlapped>>
    BY <1>10, <1>l DEF DispatchReplayed, Consumes, logVars
  <2>2. mode' \in {"record", "replay", "finished", "aborted"}
    BY <1>10 DEF DispatchReplayed
  <2> QED BY <1>10, <2>1, <2>2 DEF DispatchReplayed, RRTypeOK, programVars,
                                   resultVars
<1> QED BY <1>1, <1>2, <1>3, <1>4, <1>5, <1>6, <1>7, <1>8, <1>9, <1>10
        DEF RRNext

\* The scheduler's invariant and the types hold throughout.
BaseInv == IInv /\ RRTypeOK

\* Every step of the recording and of the replay keeps the base.
LEMMA BaseStep == BaseInv /\ [RRNext]_rrVars => BaseInv'
<1> SUFFICES ASSUME BaseInv, [RRNext]_rrVars
             PROVE  BaseInv'
  OBVIOUS
<1>1. CASE UNCHANGED rrVars
  <2>1. UNCHANGED schedVars
    BY <1>1 DEF rrVars
  <2>2. IInv'
    BY <2>1, NextIInv DEF BaseInv
  <2>3. RRTypeOK'
    BY <1>1 DEF BaseInv, RRTypeOK, rrVars, programVars, logVars, resultVars
  <2> QED BY <2>2, <2>3 DEF BaseInv
<1>2. CASE RRNext
  <2>1. IInv'
    BY <1>2, RRSched, RestartIInv, NextIInv DEF BaseInv
  <2>2. TypeOK /\ TypeOK'
    BY <2>1 DEF BaseInv, IInv
  <2> QED BY <1>2, <2>1, <2>2, RRNextType DEF BaseInv
<1> QED BY <1>1, <1>2

\* So it always holds.
LEMMA BaseInductive == RRSpec => []BaseInv
<1>1. RRInit => BaseInv
  BY InitIInv, RRInitType DEF RRInit, BaseInv
<1> QED BY <1>1, BaseStep, PTL DEF RRSpec

-----------------------------------------------------------------------------
(* The log names the runner.                                               *)

LatestSched(lg, j, i) ==
    /\ lg[j].type = "EV_SCHED"
    /\ \A k \in (j + 1)..i : lg[k].type # "EV_SCHED"

RunnerInv ==
    /\ \A i \in 1..Len(log) : log[i].type # "EV_SCHED" =>
            \E j \in 1..i : LatestSched(log, j, i) /\ log[j].id = log[i].id
    /\ mode = "record" =>
            \E j \in 1..Len(log) : /\ LatestSched(log, j, Len(log))
                                   /\ log[j].id = g_current

\* An event keeps RunnerInv if it is a switch to the new current thread, or
\* carries the id of the one that stays.
LEMMA RunnerAppend ==
  ASSUME RRTypeOK, RunnerInv, mode = "record", NEW ev \in Event,
         log' = Append(log, ev),
         \/ ev.type = "EV_SCHED" /\ ev.id = g_current'
         \/ /\ ev.type # "EV_SCHED"
            /\ ev.id = g_current
            /\ g_current' = g_current
  PROVE  RunnerInv'
<1> DEFINE n == Len(log)
<1>1. /\ log \in Seq(Event) /\ n \in Nat
      /\ Len(log') = n + 1
      /\ \A i \in 1..n : log'[i] = log[i]
      /\ log'[n + 1] = ev
  BY AppendMembers DEF RRTypeOK
<1> HIDE DEF n
<1>2. ASSUME NEW i \in 1..n, NEW j \in 1..i, LatestSched(log, j, i)
      PROVE  LatestSched(log', j, i)
  BY <1>1, <1>2 DEF LatestSched
<1>3. PICK r \in 1..n : LatestSched(log, r, n) /\ log[r].id = g_current
  BY DEF RunnerInv, n
<1>4. \E j \in 1..(n + 1) : /\ LatestSched(log', j, n + 1)
                            /\ log'[j].id = g_current'
  <2>1. CASE ev.type = "EV_SCHED" /\ ev.id = g_current'
    <3>1. LatestSched(log', n + 1, n + 1)
      BY <1>1, <2>1 DEF LatestSched
    <3> QED BY <1>1, <2>1, <3>1
  <2>2. CASE ev.type # "EV_SCHED" /\ g_current' = g_current
    <3>1. LatestSched(log', r, n + 1)
      BY <1>1, <1>3, <2>2 DEF LatestSched
    <3> QED BY <1>1, <1>3, <2>2, <3>1
  <2> QED BY <2>1, <2>2, Zenon
<1>5. ASSUME NEW i \in 1..(n + 1), log'[i].type # "EV_SCHED"
      PROVE  \E j \in 1..i : LatestSched(log', j, i) /\ log'[j].id = log'[i].id
  <2>1. CASE i \in 1..n
    <3>1. PICK j \in 1..i : LatestSched(log, j, i) /\ log[j].id = log[i].id
      BY <1>1, <1>5, <2>1 DEF RunnerInv, n
    <3>2. LatestSched(log', j, i)
      BY <1>2, <2>1, <3>1
    <3>3. j \in 1..n
      BY <1>1, <2>1, <3>1
    <3> QED BY <1>1, <2>1, <3>1, <3>2, <3>3
  <2>2. CASE i = n + 1
    BY <1>1, <1>4, <1>5, <2>2
  <2> QED BY <1>1, <2>1, <2>2
<1>6. Len(log') = n + 1
  BY <1>1
<1> QED BY <1>4, <1>5, <1>6, Zenon DEF RunnerInv

\* Without an event, the thread that runs stays or the recording is over.
LEMMA RunnerSame ==
  ASSUME RunnerInv, UNCHANGED log,
         mode' = "record" => mode = "record" /\ g_current' = g_current
  PROVE  RunnerInv'
  BY DEF RunnerInv

\* Every step keeps RunnerInv: a switch to another thread is logged.
LEMMA RunnerStep ==
  ASSUME BaseInv, BaseInv', RunnerInv, RRNext
  PROVE  RunnerInv'
<1>1. TypeOK /\ TypeOK' /\ RRTypeOK /\ g_current \in Ids /\ g_current' \in Ids
  BY DEF BaseInv, IInv, TypeOK
<1>2. /\ EvSyscall(g_current, direct) \in Event
      /\ EvSyscall(g_current, blocking) \in Event
      /\ EvSignal(g_current) \in Event
      /\ EvSched(g_current, g_current') \in Event
  BY <1>1, EventTypes
<1>3. CASE UthreadCall
  <2>1. UNCHANGED <<log, mode>>
    BY <1>3 DEF UthreadCall, logVars
  <2>2. g_current' = g_current
    BY <1>3, Zenon DEF UthreadCall, CreateCall, YieldCall, ExitCall, JoinCall,
                JoinCallReturns, Create, Yield, Exit, JoinRefused,
                JoinFinished, JoinBlocks, JoinReturns,
                rr_scheduler_block_current
  <2> QED BY <2>1, <2>2, RunnerSame
<1>4. CASE SyscallDirect
  <2>1. /\ log' = Append(log, EvSyscall(g_current, direct))
        /\ g_current' = g_current
        /\ mode = "record"
    BY <1>4 DEF SyscallDirect, Logs, schedVars
  <2>2. /\ EvSyscall(g_current, direct).type = "EV_SYSCALL"
        /\ EvSyscall(g_current, direct).id = g_current
    BY DEF EvSyscall
  <2> QED BY <1>1, <1>2, <2>1, <2>2, RunnerAppend
<1>5. CASE SyscallSubmits
  BY <1>5, RunnerSame DEF SyscallSubmits, IoBlocks, logVars,
                          rr_scheduler_block_current
<1>6. CASE SyscallReturns
  <2>1. /\ log' = Append(log, EvSyscall(g_current, blocking))
        /\ g_current' = g_current
        /\ mode = "record"
    BY <1>6 DEF SyscallReturns, Logs, IoReturns
  <2>2. /\ EvSyscall(g_current, blocking).type = "EV_SYSCALL"
        /\ EvSyscall(g_current, blocking).id = g_current
    BY DEF EvSyscall
  <2> QED BY <1>1, <1>2, <2>1, <2>2, RunnerAppend
<1>7. CASE CompletionRecorded
  BY <1>7, RunnerSame DEF CompletionRecorded, IoWakes, Completes, logVars
<1>8. CASE SignalRecorded
  <2>1. /\ log' = Append(log, EvSignal(g_current))
        /\ g_current' = g_current
        /\ mode = "record"
    BY <1>8 DEF SignalRecorded, Logs, schedVars
  <2>2. /\ EvSignal(g_current).type = "EV_SIGNAL"
        /\ EvSignal(g_current).id = g_current
    BY DEF EvSignal
  <2> QED BY <1>1, <1>2, <2>1, <2>2, RunnerAppend
<1>9. CASE DispatchRecorded
  <2>1. CASE g_current' # g_current
    <3>1. /\ log' = Append(log, EvSched(g_current, g_current'))
          /\ mode = "record"
      BY <1>9, <2>1 DEF DispatchRecorded, Logs
    <3>2. /\ EvSched(g_current, g_current').type = "EV_SCHED"
          /\ EvSched(g_current, g_current').id = g_current'
      BY DEF EvSched
    <3> QED BY <1>1, <1>2, <3>1, <3>2, RunnerAppend
  <2>2. CASE g_current' = g_current
    BY <1>9, <2>2, RunnerSame DEF DispatchRecorded, logVars
  <2> QED BY <2>1, <2>2
<1>10. CASE MainReturns
  <2>1. UNCHANGED log /\ mode' # "record"
    BY <1>10 DEF MainReturns, Consumes, logVars
  <2> QED BY <2>1, RunnerSame
<1>11. CASE SyscallReplayed
  <2>1. UNCHANGED log /\ mode' # "record"
    BY <1>11 DEF SyscallReplayed, Consumes
  <2> QED BY <2>1, RunnerSame
<1>12. CASE DispatchReplayed
  <2>1. UNCHANGED log /\ mode' # "record"
    BY <1>12 DEF DispatchReplayed, Consumes, logVars
  <2> QED BY <2>1, RunnerSame
<1> QED BY <1>3, <1>4, <1>5, <1>6, <1>7, <1>8, <1>9, <1>10, <1>11, <1>12
        DEF RRNext

\* There is one latest switch, so the thread it names is the one that
\* LogNamesRunner chooses.
LEMMA RunnerNamed == RRTypeOK /\ RunnerInv => LogNamesRunner
<1> SUFFICES ASSUME RRTypeOK, RunnerInv, NEW i \in DOMAIN log,
                    log[i].type # "EV_SCHED",
                    NEW s, s = CHOOSE j \in 1..i : LatestSched(log, j, i)
             PROVE  log[s].id = log[i].id
  BY DEF LogNamesRunner, LatestSched
<1>1. i \in 1..Len(log) /\ i \in Nat
  BY DEF RRTypeOK
<1>2. PICK j \in 1..i : LatestSched(log, j, i) /\ log[j].id = log[i].id
  BY <1>1 DEF RunnerInv
<1>3. s \in 1..i /\ LatestSched(log, s, i)
  BY <1>2
<1>4. s = j
  BY <1>1, <1>2, <1>3 DEF LatestSched
<1> QED BY <1>2, <1>4, Zenon

\* In every log, and so for every number of threads and every program, the
\* latest EV_SCHED before an event of a system call names the caller, and that
\* before a signal's the thread that ran last: scheduler_loop logs every switch
\* to another thread.
THEOREM LogNamesRunnerSafe == RRSpec => []LogNamesRunner
<1>1. RRInit => RunnerInv
  <2> SUFFICES ASSUME RRInit
               PROVE  RunnerInv
    OBVIOUS
  <2>1. /\ log = <<EvSched(0, 1)>> /\ Len(log) = 1
        /\ log[1] = EvSched(0, 1) /\ g_current = 1
    BY DEF RRInit, Init
  <2>2. log[1].type = "EV_SCHED" /\ log[1].id = 1
    BY <2>1 DEF EvSched
  <2> QED BY <2>1, <2>2 DEF RunnerInv, LatestSched
<1>2. BaseInv /\ BaseInv' /\ RunnerInv /\ [RRNext]_rrVars => RunnerInv'
  <2> SUFFICES ASSUME BaseInv, BaseInv', RunnerInv, UNCHANGED rrVars
               PROVE  RunnerInv'
    BY RunnerStep
  <2> QED BY RunnerSame DEF rrVars, logVars, schedVars
<1>3. BaseInv /\ RunnerInv => LogNamesRunner
  BY RunnerNamed DEF BaseInv
<1> QED BY <1>1, <1>2, <1>3, BaseInductive, PTL DEF RRSpec

\* The scheduler's invariant holds in the recording and in the replay.
THEOREM RecordReplayInductive == RRSpec => []IInv
<1>1. BaseInv => IInv
  BY DEF BaseInv
<1> QED BY <1>1, BaseInductive, PTL

\* The recording and the replay are each a run of the scheduler that starts
\* where rr_uthread_init_main leaves it: the log checks of the replay choose
\* among the scheduler's steps and add none.  The one step that is not the
\* scheduler's is the start of the replaying process.
THEOREM BothRunsSchedule ==
    RRSpec => /\ Init
              /\ [][\/ [Next]_schedVars
                    \/ mode = "record" /\ mode' # "record" /\ Init']_rrVars
<1>1. RRInit => Init
  BY DEF RRInit
<1>2. [RRNext]_rrVars =>
        [\/ [Next]_schedVars
         \/ mode = "record" /\ mode' # "record" /\ Init']_rrVars
  <2>1. Restart => Init'
    BY DEF Restart, Init
  <2> QED BY <2>1, RRSched
<1> QED BY <1>1, <1>2, PTL DEF RRSpec

-----------------------------------------------------------------------------
(* A history stays one when the recording goes on.                         *)

\* The parts of the scheduler's state as a value.
LEMMA NowFields ==
  /\ Now.next = g_next_id /\ Now.state = state /\ Now.q = g_runq
  /\ Now.cur = g_current /\ Now.running = running
  /\ Now.waiter = join_waiter /\ Now.retval = retval
  /\ Now.call = call /\ Now.ret = ret
  BY DEF Now, Sched

\* The entry a history gets for the present state.
LEMMA EntryFields ==
  ASSUME TypeOK, RRTypeOK
  PROVE  /\ Entry \in Entries
         /\ Entry.s = Now
         /\ Entry.s.cur = g_current
         /\ Entry.cnt = [t \in Ids |-> Len(script[t])]
         /\ Entry.pos = Len(log) + 1
         /\ Entry.res = [t \in Ids |-> Len(recorded[t])]
<1>1. Now \in Scheds
  BY NowType
<1>2. /\ [t \in Ids |-> Len(script[t])] \in [Ids -> Nat]
      /\ Len(log) + 1 \in Nat \ {0}
      /\ [t \in Ids |-> Len(recorded[t])] \in [Ids -> Nat]
  BY DEF RRTypeOK
<1>3. Entry \in Entries
  BY <1>1, <1>2 DEF Entry, Entries
<1> QED BY <1>3, NowFields DEF Entry

\* The same of the next state.
LEMMA EntryTypeNext == TypeOK' /\ RRTypeOK' => Entry' \in Entries
<1>1. TypeOK /\ RRTypeOK => Entry \in Entries
  BY EntryFields
<1>2. TypeOK' /\ RRTypeOK' => (Entry \in Entries)'
  BY <1>1, PTL
<1> QED BY <1>2

\* An element of a sequence is there in what extends it.
LEMMA ExtendsAt ==
  ASSUME NEW S, NEW s \in Seq(S), NEW u \in Seq(S), Extends(s, u),
         NEW i \in Nat, i < Len(s)
  PROVE  i < Len(u) /\ u[i + 1] = s[i + 1]
  BY DEF Extends

\* A step that script, log and recorded prescribe is still prescribed when
\* they have grown.
LEMMA StepExtends ==
  ASSUME NEW a \in Entries, NEW b \in Entries,
         NEW sc \in [Ids -> Seq(Op)], NEW sc2 \in [Ids -> Seq(Op)],
         NEW lg \in Seq(Event), NEW lg2 \in Seq(Event),
         NEW rc \in [Ids -> Seq(Result)], NEW rc2 \in [Ids -> Seq(Result)],
         \A t \in Ids : Extends(sc[t], sc2[t]),
         Extends(lg, lg2),
         \A t \in Ids : Extends(rc[t], rc2[t]),
         Step(a, b, sc, lg, rc)
  PROVE  Step(a, b, sc2, lg2, rc2)
<1> DEFINE g == a.s.cur
<1>1. /\ g \in Ids /\ a.cnt[g] \in Nat /\ a.res[g] \in Nat
      /\ a.pos \in Nat \ {0}
  BY Zenon DEF Entries, Scheds
<1>2. Len(lg) \in Nat /\ Len(lg2) \in Nat
  OBVIOUS
<1>3. ASSUME NEW ev, Reads(a, b, lg, ev)
      PROVE  Reads(a, b, lg2, ev)
  <2>1. PICK n : n = a.pos
    OBVIOUS
  <2>2. n \in Nat \ {0} /\ n <= Len(lg) /\ lg[n] = ev /\ b.pos = n + 1
    BY <1>1, <1>3, <2>1 DEF Reads
  <2>3. n \in 1..Len(lg) /\ n <= Len(lg2)
    BY <1>2, <2>2 DEF Extends
  <2>4. lg2[n] = ev
    BY <2>2, <2>3 DEF Extends
  <2> QED BY <2>1, <2>2, <2>3, <2>4, Zenon DEF Reads
<1>4. ASSUME NEW r, Returns(a, b, rc, r)
      PROVE  Returns(a, b, rc2, r)
  <2>1. /\ b.res = [a.res EXCEPT ![g] = a.res[g] + 1]
        /\ a.res[g] < Len(rc[g])
        /\ rc[g][a.res[g] + 1] = r
    BY <1>4 DEF Returns
  <2>2. /\ rc[g] \in Seq(Result) /\ rc2[g] \in Seq(Result)
        /\ Extends(rc[g], rc2[g])
    BY <1>1
  <2>c. a.res[g] \in Nat
    BY <1>1
  <2>3. a.res[g] < Len(rc2[g]) /\ rc2[g][a.res[g] + 1] = rc[g][a.res[g] + 1]
    <3>1. PICK x, y, i : x = rc[g] /\ y = rc2[g] /\ i = a.res[g]
      OBVIOUS
    <3>2. /\ x \in Seq(Result) /\ y \in Seq(Result) /\ Extends(x, y)
          /\ i \in Nat /\ i < Len(x)
      BY <2>1, <2>2, <2>c, <3>1, Zenon
    <3>3. i < Len(y) /\ y[i + 1] = x[i + 1]
      BY <3>2, ExtendsAt
    <3> QED BY <3>1, <3>3, Zenon
  <2> QED BY <2>1, <2>3 DEF Returns
<1>5. CASE DispatchStep(a, b, lg)
  BY <1>3, <1>5 DEF Step, DispatchStep
<1>6. CASE ResumeStep(a, b, rc)
  BY <1>4, <1>6 DEF Step, ResumeStep
<1>7. CASE CallStep(a, b, sc, lg, rc)
  <2>1. /\ sc[g] \in Seq(Op) /\ sc2[g] \in Seq(Op)
        /\ Extends(sc[g], sc2[g])
    BY <1>1
  <2>2. a.cnt[g] < Len(sc[g])
    BY <1>7, Zenon DEF CallStep
  <2>c. a.cnt[g] \in Nat
    BY <1>1
  <2>3. a.cnt[g] < Len(sc2[g]) /\ sc2[g][a.cnt[g] + 1] = sc[g][a.cnt[g] + 1]
    <3>1. PICK x, y, i : x = sc[g] /\ y = sc2[g] /\ i = a.cnt[g]
      OBVIOUS
    <3>2. /\ x \in Seq(Op) /\ y \in Seq(Op) /\ Extends(x, y)
          /\ i \in Nat /\ i < Len(x)
      BY <2>1, <2>2, <2>c, <3>1, Zenon
    <3>3. i < Len(y) /\ y[i + 1] = x[i + 1]
      BY <3>2, ExtendsAt
    <3> QED BY <3>1, <3>3, Zenon
  <2>4. NextOp(a, sc2) = NextOp(a, sc)
    BY <2>3 DEF NextOp
  <2>5. CallStep(a, b, sc2, lg2, rc2)
    BY <1>3, <1>4, <1>7, <2>3, <2>4, Zenon DEF CallStep
  <2> QED BY <2>5 DEF Step
<1> QED BY <1>5, <1>6, <1>7 DEF Step

\* A prescribed step adds an entry to a history.
LEMMA ChainAppend ==
  ASSUME NEW h \in Seq(Entries), h # <<>>, NEW e \in Entries,
         NEW sc, NEW lg, NEW rc,
         Chain(h, sc, lg, rc),
         Step(h[Len(h)], e, sc, lg, rc)
  PROVE  /\ Append(h, e) \in Seq(Entries)
         /\ Append(h, e) # <<>>
         /\ Append(h, e)[1] = h[1]
         /\ Append(h, e)[Len(Append(h, e))] = e
         /\ Chain(Append(h, e), sc, lg, rc)
<1> DEFINE n == Len(h)
           w == Append(h, e)
<1>1. /\ w \in Seq(Entries)
      /\ Len(w) = n + 1
      /\ \A i \in 1..n : w[i] = h[i]
      /\ w[n + 1] = e
      /\ n \in Nat \ {0}
  BY AppendMembers
<1> HIDE DEF n, w
<1>2. ASSUME NEW k \in 1..n
      PROVE  Step(w[k], w[k + 1], sc, lg, rc)
  <2>1. CASE k = n
    BY <1>1, <2>1 DEF n
  <2>2. CASE k \in 1..(n - 1)
    <3>1. w[k] = h[k] /\ w[k + 1] = h[k + 1]
      BY <1>1, <2>2
    <3>2. Step(h[k], h[k + 1], sc, lg, rc)
      BY <2>2 DEF Chain, n
    <3> QED BY <3>1, <3>2
  <2> QED BY <1>1, <2>1, <2>2
<1>3. Chain(w, sc, lg, rc)
  BY <1>1, <1>2 DEF Chain
<1>4. w # <<>> /\ w[1] = h[1]
  BY <1>1
<1> QED BY <1>1, <1>3, <1>4, Zenon DEF w

\* A history stays one when script, log and recorded have grown.
LEMMA ChainExtends ==
  ASSUME NEW h \in Seq(Entries),
         NEW sc \in [Ids -> Seq(Op)], NEW sc2 \in [Ids -> Seq(Op)],
         NEW lg \in Seq(Event), NEW lg2 \in Seq(Event),
         NEW rc \in [Ids -> Seq(Result)], NEW rc2 \in [Ids -> Seq(Result)],
         \A t \in Ids : Extends(sc[t], sc2[t]),
         Extends(lg, lg2),
         \A t \in Ids : Extends(rc[t], rc2[t]),
         Chain(h, sc, lg, rc)
  PROVE  Chain(h, sc2, lg2, rc2)
<1> SUFFICES ASSUME NEW k \in 1..(Len(h) - 1)
             PROVE  Step(h[k], h[k + 1], sc2, lg2, rc2)
  BY DEF Chain
<1>1. h[k] \in Entries /\ h[k + 1] \in Entries
  OBVIOUS
<1>2. Step(h[k], h[k + 1], sc, lg, rc)
  BY DEF Chain
<1> QED BY <1>1, <1>2, StepExtends, Zenon

\* Appending extends.
LEMMA AppendExtends ==
  ASSUME NEW S, NEW s \in Seq(S)
  PROVE  /\ Extends(s, s)
         /\ \A e \in S : Extends(s, Append(s, e))
<1>1. Extends(s, s)
  BY DEF Extends
<1>2. ASSUME NEW e \in S
      PROVE  Extends(s, Append(s, e))
  BY AppendMembers DEF Extends
<1> QED BY <1>1, <1>2

\* What the recording has done and seen only grows.
Grown ==
    /\ \A t \in Ids : Extends(script[t], script'[t])
    /\ Extends(log, log')
    /\ \A t \in Ids : Extends(recorded[t], recorded'[t])

\* No step shortens or changes what was scripted, logged or recorded.
LEMMA Grows ==
  ASSUME TypeOK, TypeOK', RRTypeOK, RRTypeOK', RRNext
  PROVE  Grown
<1>g. g_current \in Ids /\ g_current' \in Ids
  BY DEF TypeOK
<1>t. /\ \A t \in Ids : script[t] \in Seq(Op) /\ recorded[t] \in Seq(Result)
      /\ log \in Seq(Event)
      /\ script \in [Ids -> Seq(Op)] /\ recorded \in [Ids -> Seq(Result)]
  BY DEF RRTypeOK
<1>1. (\E op \in Op : Does(op)) \/ UNCHANGED script
  BY OpTypes, Zenon DEF RRNext, UthreadCall, CreateCall, YieldCall, ExitCall,
     JoinCall, JoinCallReturns, SyscallDirect, SyscallSubmits,
     SyscallReturns, CompletionRecorded, SignalRecorded, DispatchRecorded,
     MainReturns, SyscallReplayed, DispatchReplayed, programVars
<1>2. \A t \in Ids : Extends(script[t], script'[t])
  <2>1. CASE UNCHANGED script
    BY <1>t, <2>1, AppendExtends
  <2>2. ASSUME NEW op \in Op, Does(op), script' # script
        PROVE  \A t \in Ids : Extends(script[t], script'[t])
    <3>1. script' = [script EXCEPT ![g_current] = Append(@, op)]
      BY <2>2 DEF Does
    <3>2. /\ script'[g_current] = Append(script[g_current], op)
          /\ \A t \in Ids \ {g_current} : script'[t] = script[t]
      BY <1>g, <1>t, <3>1
    <3> QED BY <1>g, <1>t, <3>2, AppendExtends, Zenon
  <2> QED BY <1>1, <2>1, <2>2
<1>3. \/ \E r \in Result : recorded' = [recorded EXCEPT ![g_current] =
                                            Append(recorded[g_current], r)]
      \/ UNCHANGED recorded
  <2>1. ret' \in Joins /\ g_next_id \in Nat /\ Len(log') \in Nat
    BY DEF TypeOK, RRTypeOK
  <2>2. /\ Joined(ret') \in Result /\ Created(g_next_id) \in Result
        /\ SysResult(Len(log')) \in Result
    BY <2>1, ResultTypes
  <2>3. CASE UthreadCall
    BY <2>2, <2>3, Zenon DEF UthreadCall, CreateCall, YieldCall, ExitCall,
       JoinCall, JoinCallReturns, Sees, resultVars
  <2>4. CASE SyscallDirect \/ SyscallReturns
    BY <2>2, <2>4 DEF SyscallDirect, SyscallReturns, Sees
  <2>5. CASE SyscallReplayed
    BY <2>5 DEF SyscallReplayed, Sees
  <2>6. CASE \/ SyscallSubmits \/ CompletionRecorded \/ SignalRecorded
             \/ DispatchRecorded \/ MainReturns \/ DispatchReplayed
    BY <2>6 DEF SyscallSubmits, CompletionRecorded, SignalRecorded,
       DispatchRecorded, MainReturns, DispatchReplayed, resultVars
  <2> QED BY <2>3, <2>4, <2>5, <2>6 DEF RRNext
<1>4. \A t \in Ids : Extends(recorded[t], recorded'[t])
  <2>1. CASE UNCHANGED recorded
    BY <1>t, <2>1, AppendExtends
  <2>2. ASSUME NEW r \in Result,
               recorded' = [recorded EXCEPT ![g_current] =
                                Append(recorded[g_current], r)]
        PROVE  \A t \in Ids : Extends(recorded[t], recorded'[t])
    <3>1. /\ recorded'[g_current] = Append(recorded[g_current], r)
          /\ \A t \in Ids \ {g_current} : recorded'[t] = recorded[t]
      BY <1>g, <1>t, <2>2
    <3> QED BY <1>g, <1>t, <3>1, AppendExtends, Zenon
  <2> QED BY <1>3, <2>1, <2>2
<1>5. (\E ev \in Event : log' = Append(log, ev)) \/ UNCHANGED log
  <2>1. /\ EvSyscall(g_current, direct) \in Event
        /\ EvSyscall(g_current, blocking) \in Event
        /\ EvSignal(g_current) \in Event
        /\ EvSched(g_current, g_current') \in Event
    BY <1>g, EventTypes
  <2> QED
    BY <2>1 DEF RRNext, UthreadCall, SyscallDirect, SyscallSubmits,
       SyscallReturns, CompletionRecorded, SignalRecorded, DispatchRecorded,
       MainReturns, SyscallReplayed, DispatchReplayed, Logs, Consumes, logVars
<1>6. Extends(log, log')
  BY <1>5, <1>t, AppendExtends, Zenon
<1> QED BY <1>2, <1>4, <1>6 DEF Grown

-----------------------------------------------------------------------------
(* The recording makes the steps of its history.                           *)

\* A counter that one thread advanced.
LEMMA Bump ==
  ASSUME NEW f \in [Ids -> Nat], NEW f2 \in [Ids -> Nat], NEW g \in Ids,
         f2[g] = f[g] + 1,
         \A t \in Ids \ {g} : f2[t] = f[t]
  PROVE  f2 = [f EXCEPT ![g] = f[g] + 1]
  OBVIOUS

\* A call of the program that is recorded, from the history's point of view.
LEMMA DoesEntry ==
  ASSUME TypeOK, RRTypeOK, mode = "record", NEW op \in Op, Does(op)
  PROVE  LET g == g_current IN
         /\ UNCHANGED pc
         /\ script'[g] = Append(script[g], op)
         /\ Entry.cnt[g] < Len(script'[g])
         /\ script'[g][Entry.cnt[g] + 1] = op
         /\ Entry'.cnt = [Entry.cnt EXCEPT ![g] = Entry.cnt[g] + 1]
<1> DEFINE g == g_current
<1>1. g \in Ids /\ script \in [Ids -> Seq(Op)] /\ script[g] \in Seq(Op)
  BY DEF TypeOK, RRTypeOK
<1>2. UNCHANGED pc /\ script' = [script EXCEPT ![g] = Append(script[g], op)]
  BY DEF Does
<1>3. /\ script'[g] = Append(script[g], op)
      /\ \A t \in Ids \ {g} : script'[t] = script[t]
  BY <1>1, <1>2
<1>4. /\ Len(script'[g]) = Len(script[g]) + 1
      /\ script'[g][Len(script[g]) + 1] = op
      /\ Len(script[g]) \in Nat
  BY <1>1, <1>3, AppendMembers
<1>5. /\ Entry.cnt = [t \in Ids |-> Len(script[t])]
      /\ Entry'.cnt = [t \in Ids |-> Len(script'[t])]
  BY DEF Entry
<1>6. Entry.cnt[g] = Len(script[g])
  BY <1>1, <1>5
<1>7. Entry'.cnt = [Entry.cnt EXCEPT ![g] = Entry.cnt[g] + 1]
  <2>1. Entry.cnt \in [Ids -> Nat]
    BY <1>1, <1>5
  <2>2. script' \in [Ids -> Seq(Op)]
    BY DoesType
  <2>3. Entry'.cnt \in [Ids -> Nat]
    BY <1>5, <2>2
  <2>4. Entry'.cnt[g] = Entry.cnt[g] + 1
    BY <1>1, <1>4, <1>5, <1>6
  <2>5. \A t \in Ids \ {g} : Entry'.cnt[t] = Entry.cnt[t]
    BY <1>3, <1>5
  <2> QED BY <1>1, <2>1, <2>3, <2>4, <2>5, Bump, Zenon
<1> QED BY <1>2, <1>3, <1>4, <1>6, <1>7 DEF g

\* A result that is recorded, from the history's point of view.
LEMMA SeesEntry ==
  ASSUME TypeOK, RRTypeOK, mode = "record", NEW r \in Result, Sees(r),
         NEW a \in Entries, a.s.cur = g_current,
         a.res = [t \in Ids |-> Len(recorded[t])]
  PROVE  Returns(a, Entry', recorded', r) /\ UNCHANGED replayed
<1> DEFINE g == g_current
<1>1. /\ g \in Ids /\ recorded \in [Ids -> Seq(Result)]
      /\ recorded[g] \in Seq(Result)
  BY DEF TypeOK, RRTypeOK
<1>2. /\ UNCHANGED replayed
      /\ recorded' = [recorded EXCEPT ![g] = Append(recorded[g], r)]
  BY DEF Sees
<1>3. /\ recorded'[g] = Append(recorded[g], r)
      /\ \A t \in Ids \ {g} : recorded'[t] = recorded[t]
  BY <1>1, <1>2
<1>4. /\ Len(recorded'[g]) = Len(recorded[g]) + 1
      /\ recorded'[g][Len(recorded[g]) + 1] = r
      /\ Len(recorded[g]) \in Nat
  BY <1>1, <1>3, AppendMembers
<1>5. Entry'.res = [t \in Ids |-> Len(recorded'[t])]
  BY DEF Entry
<1>6. a.res[g] = Len(recorded[g])
  BY <1>1
<1>7. Entry'.res = [a.res EXCEPT ![g] = a.res[g] + 1]
  <2>1. a.res \in [Ids -> Nat]
    BY DEF Entries
  <2>2. recorded' \in [Ids -> Seq(Result)]
    BY SeesType
  <2>3. Entry'.res \in [Ids -> Nat]
    BY <1>5, <2>2
  <2>4. Entry'.res[g] = a.res[g] + 1
    BY <1>1, <1>4, <1>5, <1>6
  <2>5. \A t \in Ids \ {g} : Entry'.res[t] = a.res[t]
    BY <1>3, <1>5
  <2> QED BY <1>1, <2>1, <2>3, <2>4, <2>5, Bump, Zenon
<1>8. a.res[g] < Len(recorded'[g]) /\ recorded'[g][a.res[g] + 1] = r
  BY <1>4, <1>6
<1> QED BY <1>2, <1>7, <1>8, Zenon DEF Returns

\* An event that is recorded, from the history's point of view.
LEMMA LogsEntry ==
  ASSUME RRTypeOK, NEW ev \in Event, Logs(ev),
         NEW a, a.pos = Len(log) + 1
  PROVE  /\ Reads(a, Entry', log', ev)
         /\ Len(log') = a.pos
         /\ UNCHANGED pos
         /\ ~overlapped' => \A t \in Ids : call'[t].kind # "io"
<1>1. log \in Seq(Event) /\ log' = Append(log, ev)
  BY DEF RRTypeOK, Logs
<1>2. /\ Len(log') = Len(log) + 1
      /\ log'[Len(log) + 1] = ev
      /\ Len(log) \in Nat
  BY <1>1, AppendMembers
<1>3. Entry'.pos = Len(log') + 1
  BY DEF Entry
<1>4. Reads(a, Entry', log', ev) /\ Len(log') = a.pos
  BY <1>2, <1>3 DEF Reads
<1>5. UNCHANGED pos /\ (~overlapped' => \A t \in Ids : call'[t].kind # "io")
  BY Zenon DEF Logs
<1> QED BY <1>4, <1>5

\* What does not grow leaves the entry as it is.
LEMMA SameEntry ==
  /\ UNCHANGED script => Entry'.cnt = Entry.cnt
  /\ UNCHANGED log => Unread(Entry, Entry')
  /\ UNCHANGED recorded => Silent(Entry, Entry')
  BY DEF Entry, Unread, Silent

\* A call of rr.h makes one step of the history.
LEMMA UthreadCallRecorded ==
  ASSUME TypeOK, TypeOK', RRTypeOK, mode = "record", UthreadCall
  PROVE  Step(Entry, Entry', script', log', recorded')
<1> DEFINE a == Entry
           b == Entry'
           g == g_current
<1>1. /\ a \in Entries /\ a.s = Now /\ a.s.cur = g
      /\ a.res = [t \in Ids |-> Len(recorded[t])]
  BY EntryFields
<1>2. b.s = Now' /\ Unread(a, b)
  BY SameEntry, Zenon DEF UthreadCall, logVars, Entry
<1>3. /\ a.s.running = running /\ a.s.call[g].kind = call[g].kind
      /\ a.s.next = g_next_id
  BY <1>1, NowFields
<1>4. b.s.ret = ret'
  <2>1. Now'.ret = ret'
    BY DEF Now, Sched
  <2> QED BY <1>2, <2>1, Zenon
<1>5. ASSUME NEW op \in Op, Does(op)
      PROVE  /\ a.cnt[a.s.cur] < Len(script'[a.s.cur])
             /\ b.cnt = [a.cnt EXCEPT ![a.s.cur] = a.cnt[a.s.cur] + 1]
             /\ NextOp(a, script') = op
  BY <1>1, <1>5, DoesEntry, Zenon DEF NextOp
<1>6. ASSUME NEW r \in Result, Sees(r)
      PROVE  Returns(a, b, recorded', r)
  BY <1>1, <1>6, SeesEntry
<1>7. UNCHANGED resultVars => Silent(a, b)
  BY SameEntry DEF resultVars
<1>8. ret' \in Joins /\ g_next_id \in Nat
  BY DEF TypeOK
<1>9. Joined(ret') \in Result /\ Created(g_next_id) \in Result
  BY <1>8, ResultTypes
<1>10. AppRuns => a.s.running /\ a.s.call[a.s.cur].kind = "app"
  BY <1>1, <1>3 DEF AppRuns
<1> HIDE DEF a, b, g
<1>11. CASE CreateCall
  <2>1. /\ Create /\ state' # state /\ AppRuns /\ g_next_id \in Ids
        /\ Does(<<"create">>) /\ Sees(Created(g_next_id))
    BY <1>11 DEF CreateCall, Create
  <2>2. b.s = CreateOf(a.s)
    BY <1>1, <1>2, <2>1, CreateNow
  <2>3. CallStep(a, b, script', log', recorded')
    BY <1>2, <1>3, <1>5, <1>6, <1>9, <1>10, <2>1, <2>2, OpTypes, ZenonT(60) DEF CallStep
  <2> QED BY <2>3 DEF Step, a, b
<1>12. CASE YieldCall
  <2>1. Yield /\ AppRuns /\ Does(<<"yield">>) /\ UNCHANGED resultVars
    BY <1>12 DEF YieldCall, Yield
  <2>2. b.s = YieldOf(a.s)
    BY <1>1, <1>2, <2>1, YieldNow
  <2>3. CallStep(a, b, script', log', recorded')
    BY <1>2, <1>5, <1>7, <1>10, <2>1, <2>2, OpTypes, Zenon DEF CallStep
  <2> QED BY <2>3 DEF Step, a, b
<1>13. ASSUME NEW v \in Retvals, ExitCall(v)
       PROVE  Step(a, b, script', log', recorded')
  <2>1. Exit(v) /\ AppRuns /\ Does(<<"exit", v>>) /\ UNCHANGED resultVars
    BY <1>13 DEF ExitCall, Exit
  <2>2. b.s = ExitOf(a.s, v)
    BY <1>1, <1>2, <2>1, ExitNow
  <2>3. CallStep(a, b, script', log', recorded')
    BY <1>2, <1>5, <1>7, <1>10, <2>1, <2>2, OpTypes, ZenonT(60) DEF CallStep
  <2> QED BY <2>3 DEF Step
<1>14. ASSUME NEW id \in Ids, JoinCall(id)
       PROVE  Step(a, b, script', log', recorded')
  <2>1. AppRuns /\ Does(<<"join", id>>)
    BY <1>14 DEF JoinCall, JoinRefused, JoinFinished, JoinBlocks
  <2>2. CASE (JoinRefused(id) \/ JoinFinished(id)) /\ Sees(Joined(ret'))
    <3>1. b.s = JoinOf(a.s, id) /\ ~JoinBlocksIn(a.s, id)
      BY <1>1, <1>2, <2>2, JoinAtOnceNow
    <3>2. CallStep(a, b, script', log', recorded')
      BY <1>2, <1>4, <1>5, <1>6, <1>9, <1>10, <2>1, <2>2, <3>1, OpTypes, ZenonT(60)
      DEF CallStep
    <3> QED BY <3>2 DEF Step
  <2>3. CASE JoinBlocks(id) /\ UNCHANGED resultVars
    <3>1. b.s = JoinOf(a.s, id) /\ JoinBlocksIn(a.s, id)
      BY <1>1, <1>2, <2>3, JoinBlocksNow
    <3>2. CallStep(a, b, script', log', recorded')
      BY <1>2, <1>5, <1>7, <1>10, <2>1, <2>3, <3>1, OpTypes, Zenon DEF CallStep
    <3> QED BY <3>2 DEF Step
  <2> QED BY <1>14, <2>2, <2>3 DEF JoinCall
<1>15. CASE JoinCallReturns
  <2>1. JoinReturns /\ Sees(Joined(ret')) /\ UNCHANGED script
    BY <1>15 DEF JoinCallReturns, programVars
  <2>2. b.s = ResumeOf(a.s)
    BY <1>1, <1>2, <2>1, ResumeNow
  <2>3. b.cnt = a.cnt
    BY <2>1, SameEntry DEF a, b
  <2>4. a.s.running /\ a.s.call[a.s.cur].kind = "join"
    BY <1>1, <1>3, <2>1, ZenonT(60) DEF JoinReturns, g
  <2>5. ResumeStep(a, b, recorded')
    BY <1>2, <1>4, <1>6, <1>9, <2>1, <2>2, <2>3, <2>4 DEF ResumeStep
  <2> QED BY <2>5 DEF Step, a, b
<1> QED BY <1>11, <1>12, <1>13, <1>14, <1>15 DEF UthreadCall, a, b

\* A system call that does not block makes one step of the history.
LEMMA DirectRecorded ==
  ASSUME TypeOK, TypeOK', RRTypeOK, SyscallDirect
  PROVE  Step(Entry, Entry', script', log', recorded')
<1> DEFINE a == Entry
           b == Entry'
<1>1. /\ a \in Entries /\ a.s = Now /\ a.s.cur = g_current
      /\ a.pos = Len(log) + 1
      /\ a.res = [t \in Ids |-> Len(recorded[t])]
  BY EntryFields
<1>2. /\ mode = "record" /\ AppRuns /\ Does(<<"syscall", direct>>)
      /\ UNCHANGED schedVars
      /\ Logs(EvSyscall(g_current, direct))
      /\ Sees(SysResult(Len(log')))
  BY DEF SyscallDirect
<1>3. EvSyscall(g_current, direct) \in Event
  BY EventTypes DEF TypeOK
<1>4. Reads(a, b, log', EvSyscall(a.s.cur, direct)) /\ Len(log') = a.pos
  BY <1>1, <1>2, <1>3, LogsEntry
<1>5. SysResult(Len(log')) \in Result
  <2>1. Len(log') \in Nat
    BY <1>1, <1>4 DEF RRTypeOK
  <2> QED BY <2>1, ResultTypes
<1>6. Returns(a, b, recorded', SysResult(a.pos))
  BY <1>1, <1>2, <1>4, <1>5, SeesEntry
<1>7. /\ a.cnt[a.s.cur] < Len(script'[a.s.cur])
      /\ b.cnt = [a.cnt EXCEPT ![a.s.cur] = a.cnt[a.s.cur] + 1]
      /\ NextOp(a, script') = <<"syscall", direct>>
  BY <1>1, <1>2, DoesEntry, OpTypes, ZenonT(60) DEF NextOp
<1>8. b.s = a.s
  BY <1>1, <1>2 DEF Entry, Now, schedVars
<1>9. a.s.running /\ a.s.call[a.s.cur].kind = "app"
  BY <1>1, <1>2, NowFields, Zenon DEF AppRuns
<1> HIDE DEF a, b
<1>10. CallStep(a, b, script', log', recorded')
  BY <1>4, <1>6, <1>7, <1>8, <1>9, Zenon DEF CallStep
<1> QED BY <1>10 DEF Step, a, b

\* So does a turn of scheduler_loop.
LEMMA DispatchStepRecorded ==
  ASSUME TypeOK, TypeOK', RRTypeOK, RunQueueExact, DispatchRecorded
  PROVE  Step(Entry, Entry', script', log', recorded')
<1> DEFINE a == Entry
           b == Entry'
<1>1. /\ a.s = Now /\ a.s.cur = g_current /\ a.pos = Len(log) + 1
      /\ a.s.q = g_runq /\ a.s.running = running
  BY EntryFields, NowFields
<1>2. Dispatch /\ UNCHANGED <<script, recorded>>
  BY DEF DispatchRecorded, programVars, resultVars
<1>3. Now' = DispatchOf(Now) /\ b.s = Now'
  BY <1>2, DispatchNow DEF Entry
<1>4. g_current' = Head(g_runq)
  BY <1>3, Zenon DEF Now, Sched, DispatchOf
<1>5. b.cnt = a.cnt /\ Silent(a, b)
  BY <1>2, SameEntry, Zenon
<1>6. ~a.s.running /\ a.s.q # <<>>
  BY <1>1, <1>2, Zenon DEF Dispatch
<1>7. IF Head(a.s.q) = a.s.cur
      THEN Unread(a, b)
      ELSE Reads(a, b, log', EvSched(a.s.cur, Head(a.s.q)))
  <2>1. CASE g_current' = g_current
    BY <1>1, <1>4, <2>1, SameEntry DEF DispatchRecorded, logVars
  <2>2. CASE g_current' # g_current
    <3>1. EvSched(g_current, g_current') \in Event
      BY EventTypes DEF TypeOK
    <3>2. Logs(EvSched(g_current, g_current'))
      BY <2>2 DEF DispatchRecorded
    <3> QED BY <1>1, <1>4, <2>2, <3>1, <3>2, LogsEntry
  <2> QED BY <2>1, <2>2
<1> HIDE DEF a, b
<1>8. DispatchStep(a, b, log')
  BY <1>1, <1>3, <1>5, <1>6, <1>7 DEF DispatchStep
<1> QED BY <1>8 DEF Step, a, b

-----------------------------------------------------------------------------
(* How the history is carried along by the recording.                      *)

Recorded(h) == mode = "record" /\ Follows(h)

\* The first event stays the first.
LEMMA StaysStarted ==
  ASSUME RRTypeOK, RRTypeOK', Started, Extends(log, log')
  PROVE  Started'
<1>1. log \in Seq(Event) /\ log' \in Seq(Event)
  BY DEF RRTypeOK
<1>2. Len(log) \in Nat \ {0} /\ Len(log') \in Nat
  BY <1>1 DEF Started
<1>3. Len(log') >= 1 /\ log'[1] = log[1]
  BY <1>2 DEF Extends
<1> QED BY <1>1, <1>3 DEF Started

\* A step of the history is added at its end.
LEMMA HistoryGrows ==
  ASSUME BaseInv, BaseInv', NEW h \in Seq(Entries), Recorded(h), Grown,
         mode' = "record",
         UNCHANGED <<pc, pos, replayed>>,
         \A t \in Ids : call'[t].kind # "io",
         Step(h[Len(h)], Entry', script', log', recorded')
  PROVE  \E h2 \in Seq(Entries) : Follows(h2)'
<1>1. PICK e : e = Entry'
  OBVIOUS
<1>2. PICK sc, lg, rc : sc = script' /\ lg = log' /\ rc = recorded'
  OBVIOUS
<1>3. e \in Entries
  BY <1>1, EntryTypeNext DEF BaseInv, IInv
<1>4. Chain(h, sc, lg, rc)
  BY <1>2, ChainExtends, Zenon DEF Recorded, Follows, Grown, BaseInv, RRTypeOK
<1>5. h # <<>> /\ h[1] = First /\ Step(h[Len(h)], e, sc, lg, rc)
  BY <1>1, <1>2, Zenon DEF Recorded, Follows
<1>6. PICK h2 : h2 = Append(h, e)
  BY Zenon
<1>7. /\ h2 \in Seq(Entries) /\ h2 # <<>> /\ h2[1] = First
      /\ h2[Len(h2)] = e
      /\ Chain(h2, sc, lg, rc)
  BY <1>3, <1>4, <1>5, <1>6, ChainAppend
<1>8. Recording(h2)'
  BY <1>1, <1>7, Zenon DEF Recording, NoIo
<1>9. /\ \A t \in Ids : replayed'[t] = <<>> /\ pc'[t] = 1
      /\ pos' = 1
  BY DEF Recorded, Follows
<1>10. Started'
  BY StaysStarted DEF Recorded, Follows, Grown, BaseInv
<1>11. Follows(h2)'
  BY <1>2, <1>7, <1>8, <1>9, <1>10 DEF Follows
<1> QED BY <1>7, <1>11

\* The history stays as it is.
LEMMA HistoryStays ==
  ASSUME BaseInv, BaseInv', NEW h \in Seq(Entries), Recorded(h), Grown,
         mode' = "record",
         UNCHANGED <<pc, pos, replayed>>,
         Recording(h)'
  PROVE  \E h2 \in Seq(Entries) : Follows(h2)'
<1>1. PICK sc, lg, rc : sc = script' /\ lg = log' /\ rc = recorded'
  OBVIOUS
<1>2. Chain(h, sc, lg, rc)
  BY <1>1, ChainExtends, Zenon DEF Recorded, Follows, Grown, BaseInv, RRTypeOK
<1>3. /\ \A t \in Ids : replayed'[t] = <<>> /\ pc'[t] = 1
      /\ pos' = 1 /\ h # <<>> /\ h[1] = First
  BY DEF Recorded, Follows
<1>4. Started'
  BY StaysStarted DEF Recorded, Follows, Grown, BaseInv
<1> QED BY <1>1, <1>2, <1>3, <1>4 DEF Follows

\* A recording that is at the end of its history stays there, or enters a
\* blocking system call.
LEMMA AtEndKeeps ==
  ASSUME BaseInv, BaseInv', NEW h \in Seq(Entries), Recorded(h), Grown,
         RRNext, mode' = "record", NoIo, h[Len(h)] = Entry
  PROVE  \E h2 \in Seq(Entries) : Follows(h2)'
<1> DEFINE g == g_current
<1>0. /\ TypeOK /\ TypeOK' /\ RRTypeOK /\ RunQueueExact /\ OneRunning
      /\ g \in Ids /\ mode = "record" /\ call \in [Ids -> Calls]
      /\ state \in [Ids -> States]
  BY DEF BaseInv, IInv, TypeOK, Recorded, States
<1>1. CASE UthreadCall
  <2>1. Step(h[Len(h)], Entry', script', log', recorded')
    BY <1>0, <1>1, UthreadCallRecorded
  <2>2. UNCHANGED <<pc, pos, replayed>>
    BY <1>0, <1>1, Zenon DEF UthreadCall, CreateCall, YieldCall, ExitCall, JoinCall,
       JoinCallReturns, Does, Sees, logVars, resultVars, programVars
  <2>3. \A t \in Ids : call'[t].kind # "io"
    <3>1. \A id \in Ids : InApp.kind # "io" /\ InJoin(id).kind # "io"
      BY DEF InApp, InJoin
    <3>2. \/ call' = call
          \/ call' = [call EXCEPT ![g] = InApp]
          \/ \E id \in Ids : call' = [call EXCEPT ![g] = InJoin(id)]
      BY <1>1, Zenon DEF UthreadCall, CreateCall, YieldCall, ExitCall, JoinCall,
         JoinCallReturns, Create, Yield, Exit, JoinRefused, JoinFinished,
         JoinBlocks, JoinReturns, rr_scheduler_block_current
    <3> QED BY <1>0, <3>1, <3>2 DEF NoIo
  <2> QED BY <2>1, <2>2, <2>3, HistoryGrows
<1>2. CASE SyscallDirect
  <2>1. Step(h[Len(h)], Entry', script', log', recorded')
    BY <1>0, <1>2, DirectRecorded
  <2>2. UNCHANGED <<pc, pos, replayed, call>>
    BY <1>0, <1>2 DEF SyscallDirect, Does, Sees, Logs, schedVars
  <2> QED BY <2>1, <2>2, HistoryGrows, Zenon DEF NoIo
<1>3. CASE SyscallSubmits
  <2>1. UNCHANGED <<pc, pos, replayed, log, recorded>>
    BY <1>0, <1>3 DEF SyscallSubmits, Does, logVars, resultVars
  <2>2. /\ AppRuns
        /\ state' = [state EXCEPT ![g] = "BLOCKED"]
        /\ call' = [call EXCEPT ![g] = InIo]
        /\ UNCHANGED <<g_next_id, g_runq, g_current, retval, join_waiter, ret>>
    BY <1>3 DEF SyscallSubmits, IoBlocks, rr_scheduler_block_current
  <2>3. running /\ state[g] = "RUNNING" /\ call[g] = InApp
    BY <1>0, <2>2, CallCases DEF AppRuns, OneRunning
  <2>4. PICK a : a = h[Len(h)]
    OBVIOUS
  <2>5. \A t \in Ids : call'[t].kind = "io" <=> t = g
    BY <1>0, <2>2 DEF NoIo, InIo
  <2>6. /\ [state' EXCEPT ![g] = "RUNNING"] = state
        /\ [call' EXCEPT ![g] = InApp] = call
        /\ state'[g] = "BLOCKED"
    BY <1>0, <2>2, <2>3, Zenon
  <2>7. a.s = Sched(g_next_id', [state' EXCEPT ![g] = "RUNNING"], g_runq', g,
                    TRUE, join_waiter', retval', [call' EXCEPT ![g] = InApp],
                    ret')
    <3>1. a.s = Sched(g_next_id, state, g_runq, g, TRUE, join_waiter, retval,
                      call, ret)
      <4>1. a.s = Now
        BY <1>0, <2>4, EntryFields, Zenon
      <4>2. running = TRUE
        BY <1>0, <2>3, ZenonT(60) DEF TypeOK
      <4> QED BY <4>1, <4>2, Zenon DEF Now
    <3> QED BY <2>2, <2>6, <3>1, Zenon
  <2>8. /\ script'[g] = Append(script[g], <<"syscall", blocking>>)
        /\ script' = [script EXCEPT ![g] = Append(@, <<"syscall", blocking>>)]
    BY <1>0, <1>3, DoesEntry, OpTypes DEF SyscallSubmits, Does
  <2>9. /\ script'[g] # <<>>
        /\ script'[g][Len(script'[g])] = <<"syscall", blocking>>
        /\ Len(script'[g]) - 1 = Len(script[g])
    BY <1>0, <2>8, AppendMembers, OpTypes DEF RRTypeOK
  <2>10. a.cnt = [t \in Ids |-> IF t = g THEN Len(script'[t]) - 1
                                ELSE Len(script'[t])]
    <3>1. a.cnt = [t \in Ids |-> Len(script[t])]
      BY <2>4 DEF Entry
    <3>2. \A t \in Ids \ {g} : script'[t] = script[t]
      BY <1>0, <2>8 DEF RRTypeOK
    <3> QED BY <2>9, <3>1, <3>2
  <2>11. a.pos = Len(log') + 1 /\ a.res = [t \in Ids |-> Len(recorded'[t])]
    BY <2>1, <2>4 DEF Entry
  <2>12. InsideCall(a)'
    <3>1. g_current' = g
      BY <2>2
    <3> QED BY <2>5, <2>6, <2>7, <2>9, <2>10, <2>11, <3>1, Zenon DEF InsideCall
  <2>13. Recording(h)'
    BY <2>4, <2>12 DEF Recording
  <2> QED BY <2>1, <2>13, HistoryStays
<1>4. CASE SyscallReturns
  BY <1>0, <1>4 DEF SyscallReturns, IoReturns, NoIo
<1>5. CASE CompletionRecorded
  BY <1>5 DEF CompletionRecorded, IoWakes, Completes, NoIo
<1>6. CASE SignalRecorded
  <2>1. UNCHANGED <<pc, pos, replayed>> /\ Idle' /\ NoIo'
    BY <1>6 DEF SignalRecorded, Logs, programVars, resultVars, schedVars,
       Idle, NoIo
  <2>2. Recording(h)'
    BY <2>1 DEF Recording
  <2> QED BY <2>1, <2>2, HistoryStays
<1>7. CASE DispatchRecorded
  <2>1. Step(h[Len(h)], Entry', script', log', recorded')
    BY <1>0, <1>7, DispatchStepRecorded
  <2>2. UNCHANGED <<pc, pos, replayed, call>>
    BY <1>7 DEF DispatchRecorded, Dispatch, SwitchTo, Logs, logVars,
       programVars, resultVars
  <2> QED BY <2>1, <2>2, HistoryGrows DEF NoIo
<1>8. CASE MainReturns \/ SyscallReplayed \/ DispatchReplayed
  BY <1>0, <1>8 DEF MainReturns, SyscallReplayed, DispatchReplayed
<1> QED BY <1>1, <1>2, <1>3, <1>4, <1>5, <1>6, <1>7, <1>8 DEF RRNext

\* A recording in which every thread waits for another stays as it is.
LEMMA StuckKeeps ==
  ASSUME BaseInv, BaseInv', NEW h \in Seq(Entries), Recorded(h), Grown,
         RRNext, mode' = "record", Idle, NoIo
  PROVE  \E h2 \in Seq(Entries) : Follows(h2)'
<1>0. ~running /\ g_runq = <<>> /\ mode = "record"
  BY DEF Idle, Recorded
<1>1. SignalRecorded
  <2>1. ~UthreadCall
    BY <1>0, ZenonT(60) DEF UthreadCall, CreateCall, YieldCall, ExitCall, JoinCall,
       JoinCallReturns, Create, Yield, Exit, JoinRefused, JoinFinished,
       JoinBlocks, JoinReturns, AppRuns
  <2>2. ~(SyscallDirect \/ SyscallSubmits \/ SyscallReturns \/ MainReturns)
    BY <1>0 DEF SyscallDirect, SyscallSubmits, SyscallReturns, IoBlocks,
       IoReturns, AppRuns, MainReturns
  <2>3. ~CompletionRecorded
    BY DEF CompletionRecorded, IoWakes, Completes, NoIo
  <2>4. ~(DispatchRecorded \/ SyscallReplayed \/ DispatchReplayed)
    BY <1>0 DEF DispatchRecorded, Dispatch, SyscallReplayed, DispatchReplayed
  <2> QED BY <2>1, <2>2, <2>3, <2>4 DEF RRNext
<1>2. UNCHANGED <<pc, pos, replayed>> /\ Idle' /\ NoIo'
  BY <1>1 DEF SignalRecorded, Logs, programVars, resultVars, schedVars, Idle,
     NoIo
<1>3. Recording(h)'
  BY <1>2 DEF Recording
<1> QED BY <1>2, <1>3, HistoryStays

\* The end of a blocking system call is the step of the history that its start
\* left open: in between nothing else has moved.
LEMMA InsideReturns ==
  ASSUME BaseInv, BaseInv', NEW a \in Entries, InsideCall(a), SyscallReturns
  PROVE  /\ Step(a, Entry', script', log', recorded')
         /\ \A t \in Ids : call'[t].kind # "io"
         /\ UNCHANGED <<pc, pos, replayed>>
<1> DEFINE g == g_current
           b == Entry'
<1>0. /\ TypeOK /\ RRTypeOK /\ OneRunning /\ g \in Ids
      /\ call \in [Ids -> Calls] /\ state \in [Ids -> States]
  BY DEF BaseInv, IInv, TypeOK, States
<1>1. /\ running /\ mode = "record"
      /\ call' = [call EXCEPT ![g] = InApp]
      /\ UNCHANGED <<g_next_id, state, g_runq, g_current, running,
                     join_waiter, retval, ret, script, pc>>
      /\ Logs(EvSyscall(g, blocking))
      /\ Sees(SysResult(Len(log')))
  BY DEF SyscallReturns, IoReturns, programVars
<1>2. state[g] = "RUNNING"
  BY <1>0, <1>1 DEF OneRunning
<1>3. [state EXCEPT ![g] = "RUNNING"] = state
  BY <1>0, <1>2
<1>4. /\ a.s = Sched(g_next_id, state, g_runq, g, TRUE, join_waiter, retval,
                     call', ret)
      /\ a.pos = Len(log) + 1
      /\ a.res = [t \in Ids |-> Len(recorded[t])]
      /\ \A t \in Ids : call[t].kind = "io" <=> t = g
  BY <1>1, <1>2, <1>3, Zenon DEF InsideCall
<1>5. b.s = a.s
  <2>1. b.s = Sched(g_next_id', state', g_runq', g_current', running',
                    join_waiter', retval', call', ret')
    BY DEF Entry, Now
  <2>2. running' = TRUE
    BY <1>0, <1>1 DEF TypeOK
  <2> QED BY <1>1, <1>4, <2>1, <2>2, ZenonT(60)
<1>6. a.s.cur = g /\ a.s.running /\ a.s.call = call'
  <2>1. PICK s : s = a.s
    OBVIOUS
  <2>2. s = Sched(g_next_id, state, g_runq, g, TRUE, join_waiter, retval, call',
                  ret)
    BY <1>4, <2>1, ZenonT(60)
  <2>3. s.cur = g /\ s.running /\ s.call = call'
    BY <2>2 DEF Sched
  <2> QED BY <2>1, <2>3, Zenon
<1>7. \A t \in Ids : call'[t].kind # "io"
  BY <1>0, <1>1, <1>4, Zenon DEF InApp
<1>8. a.s.call[a.s.cur].kind = "app"
  <2>1. call'[g] = InApp
    BY <1>0, <1>1, Zenon DEF TypeOK
  <2>2. InApp.kind = "app"
    BY DEF InApp
  <2> QED BY <1>6, <2>1, <2>2, Zenon
<1>9. EvSyscall(g, blocking) \in Event
  BY <1>0, EventTypes
<1>10. /\ Reads(a, b, log', EvSyscall(a.s.cur, blocking))
       /\ Len(log') = a.pos
       /\ UNCHANGED pos
  BY <1>0, <1>1, <1>4, <1>6, <1>9, LogsEntry, ZenonT(60)
<1>11. SysResult(Len(log')) \in Result
  <2>1. Len(log') \in Nat
    <3>1. a.pos \in Nat
      BY DEF Entries
    <3> QED BY <1>10, <3>1
  <2> QED BY <2>1, ResultTypes
<1>12. Returns(a, b, recorded', SysResult(a.pos)) /\ UNCHANGED replayed
  BY <1>0, <1>1, <1>4, <1>6, <1>10, <1>11, SeesEntry, Zenon
<1>13. /\ Len(script[g]) \in Nat \ {0}
       /\ a.cnt[g] = Len(script[g]) - 1
       /\ script[g][Len(script[g])] = <<"syscall", blocking>>
  <2>1. /\ script[g] # <<>>
        /\ script[g][Len(script[g])] = <<"syscall", blocking>>
        /\ a.cnt = [t \in Ids |-> IF t = g THEN Len(script[t]) - 1
                                  ELSE Len(script[t])]
    BY Zenon DEF InsideCall
  <2>2. script[g] \in Seq(Op)
    BY <1>0 DEF RRTypeOK
  <2>3. Len(script[g]) \in Nat \ {0}
    BY <2>1, <2>2
  <2>4. a.cnt[g] = Len(script[g]) - 1
    BY <1>0, <2>1, ZenonT(60)
  <2> QED BY <2>1, <2>3, <2>4, Zenon
<1>14. /\ a.cnt[a.s.cur] < Len(script'[a.s.cur])
       /\ NextOp(a, script') = <<"syscall", blocking>>
  BY <1>1, <1>6, <1>13 DEF NextOp
<1>15. b.cnt = [a.cnt EXCEPT ![a.s.cur] = a.cnt[a.s.cur] + 1]
  <2>1. a.cnt \in [Ids -> Nat]
    BY DEF Entries
  <2>2. b.cnt = [t \in Ids |-> Len(script[t])]
    BY <1>1 DEF Entry
  <2>3. b.cnt \in [Ids -> Nat]
    BY <1>0, <2>2 DEF RRTypeOK
  <2>4. b.cnt[g] = a.cnt[g] + 1
    BY <1>0, <1>13, <2>2
  <2>5. \A t \in Ids \ {g} : b.cnt[t] = a.cnt[t]
    BY <2>2, ZenonT(60) DEF InsideCall
  <2> QED BY <1>0, <1>6, <2>1, <2>3, <2>4, <2>5, Bump
<1> HIDE DEF b
<1>16. CallStep(a, b, script', log', recorded')
  BY <1>5, <1>6, <1>8, <1>10, <1>12, <1>14, <1>15, Zenon DEF CallStep
<1> QED BY <1>1, <1>7, <1>10, <1>12, <1>16, ZenonT(60) DEF Step, b

\* Inside a blocking system call nothing but its completion, the switch back
\* and its end can happen without an event that overlaps it.
LEMMA InsideKeeps ==
  ASSUME BaseInv, BaseInv', NEW h \in Seq(Entries), Recorded(h), Grown,
         RRNext, mode' = "record", ~overlapped', InsideCall(h[Len(h)])
  PROVE  \E h2 \in Seq(Entries) : Follows(h2)'
<1> DEFINE g == g_current
<1>0. /\ TypeOK /\ RRTypeOK /\ RunQueueExact /\ OneRunning
      /\ g \in Ids /\ mode = "record" /\ g_runq \in Seq(Ids)
      /\ call \in [Ids -> Calls] /\ state \in [Ids -> States]
  BY DEF BaseInv, IInv, TypeOK, Recorded, States
<1>1. PICK a \in Entries : a = h[Len(h)]
  <2>1. h # <<>>
    BY DEF Recorded, Follows
  <2> QED BY <2>1
<1>2. /\ \A t \in Ids : call[t].kind = "io" <=> t = g
      /\ a.s = Sched(g_next_id, [state EXCEPT ![g] = "RUNNING"],
                     IF state[g] = "RUNNABLE" THEN <<>> ELSE g_runq, g, TRUE,
                     join_waiter, retval, [call EXCEPT ![g] = InApp], ret)
      /\ state[g] = "RUNNABLE" => g_runq = <<g>>
  BY <1>1, Zenon DEF InsideCall
<1>3. ~AppRuns /\ ~JoinReturns
  BY <1>0, <1>2 DEF AppRuns, JoinReturns
<1>4. CASE SyscallReturns
  BY <1>1, <1>4, InsideReturns, HistoryGrows, Zenon
<1>5. CASE CompletionRecorded
  <2>1. PICK id \in Ids : IoWakes(id)
    BY <1>5 DEF CompletionRecorded
  <2>2. id = g /\ ~running /\ g_runq = <<>>
    BY <1>2, <2>1 DEF IoWakes, Completes, Idle
  <2>3. state[g] # "RUNNABLE"
    BY <1>2, <2>2
  <2>4. UNCHANGED <<g_next_id, g_current, running, join_waiter, retval, call,
                    ret, script, pc, log, pos, recorded, replayed>>
    BY <1>5, <2>1, Zenon DEF CompletionRecorded, IoWakes, Completes, programVars,
       logVars, resultVars
  <2>5. /\ [state' EXCEPT ![g] = "RUNNING"] = [state EXCEPT ![g] = "RUNNING"]
        /\ state'[g] = "RUNNABLE" => g_runq' = <<g>>
        /\ state'[g] # "RUNNABLE" => g_runq' = <<>>
    <3>1. CASE state[g] = "BLOCKED"
      <4>1. state' = [state EXCEPT ![g] = "RUNNABLE"]
        BY <2>1, <2>2, <3>1 DEF IoWakes, Completes, rr_scheduler_wake_by_id
      <4>2. g_runq' = Append(<<>>, g)
        BY <2>1, <2>2, <3>1 DEF IoWakes, Completes, rr_scheduler_wake_by_id,
           rr_scheduler_enqueue
      <4> QED BY <1>0, <4>1, <4>2
    <3>2. CASE state[g] # "BLOCKED"
      BY <2>1, <2>2, <2>3, <3>2 DEF IoWakes, Completes, rr_scheduler_wake_by_id
    <3> QED BY <3>1, <3>2
  <2>6. InsideCall(a)'
    <3>1. a.s = Sched(g_next_id', [state' EXCEPT ![g] = "RUNNING"],
                      IF state'[g] = "RUNNABLE" THEN <<>> ELSE g_runq', g,
                      TRUE, join_waiter', retval', [call' EXCEPT ![g] = InApp],
                      ret')
      BY <1>2, <2>2, <2>3, <2>4, <2>5, Zenon
    <3>2. g_current' = g
      BY <2>4
    <3>3. InsideCall(a)
      BY <1>1
    <3> QED BY <1>2, <2>4, <2>5, <3>1, <3>2, <3>3, ZenonT(60) DEF InsideCall
  <2>7. Recording(h)'
    BY <1>1, <2>6 DEF Recording
  <2> QED BY <2>4, <2>7, HistoryStays
<1>6. CASE DispatchRecorded
  <2>1. /\ Dispatch /\ ~running
        /\ UNCHANGED <<call, script, pc, recorded, replayed>>
    BY <1>6 DEF DispatchRecorded, Dispatch, SwitchTo, programVars, resultVars
  <2>2. g_current' = g
    <3> SUFFICES ASSUME g_current' # g
                 PROVE  FALSE
      OBVIOUS
    <3>1. Logs(EvSched(g, g_current'))
      BY <1>6 DEF DispatchRecorded
    <3>2. call'[g].kind = "io"
      BY <1>0, <1>2, <2>1
    <3> QED BY <1>0, <3>1, <3>2, Zenon DEF Logs
  <2>3. /\ Head(g_runq) \in Ids /\ state[Head(g_runq)] = "RUNNABLE"
        /\ g_current' = Head(g_runq)
        /\ g_runq' = Tail(g_runq)
        /\ state' = [state EXCEPT ![Head(g_runq)] = "RUNNING"]
        /\ UNCHANGED <<g_next_id, join_waiter, retval, ret>>
    <3>1. g_runq # <<>> /\ Head(g_runq) \in Ids
      BY <1>0, <2>1, TailMembers DEF Dispatch
    <3>2. state[Head(g_runq)] = "RUNNABLE"
      BY <1>0, <3>1, TailMembers DEF RunQueueExact
    <3> QED BY <2>1, <3>1, <3>2 DEF Dispatch, SwitchTo
  <2>4. /\ state[g] = "RUNNABLE" /\ g_runq = <<g>>
        /\ state' = [state EXCEPT ![g] = "RUNNING"]
    BY <1>2, <2>2, <2>3
  <2>5. g_runq' = <<>> /\ state'[g] = "RUNNING"
    BY <1>0, <2>3, <2>4
  <2>6. [state' EXCEPT ![g] = "RUNNING"] = [state EXCEPT ![g] = "RUNNING"]
    BY <1>0, <2>4, Zenon
  <2>7. UNCHANGED <<log, pos>>
    BY <1>6, <2>2 DEF DispatchRecorded, logVars
  <2>8. InsideCall(a)'
    <3>1. a.s = Sched(g_next_id', [state' EXCEPT ![g] = "RUNNING"],
                      IF state'[g] = "RUNNABLE" THEN <<>> ELSE g_runq', g,
                      TRUE, join_waiter', retval', [call' EXCEPT ![g] = InApp],
                      ret')
      BY <1>2, <2>1, <2>3, <2>4, <2>5, <2>6
    <3> QED BY <1>1, <1>2, <2>1, <2>2, <2>5, <2>7, <3>1, Zenon DEF InsideCall
  <2>9. Recording(h)'
    BY <1>1, <2>8 DEF Recording
  <2> QED BY <2>1, <2>7, <2>9, HistoryStays
<1>7. CASE SignalRecorded
  <2>1. call'[g].kind = "io"
    BY <1>0, <1>2, <1>7 DEF SignalRecorded, schedVars
  <2> QED BY <1>0, <1>7, <2>1, Zenon DEF SignalRecorded, Logs
<1>8. CASE \/ UthreadCall \/ SyscallDirect \/ SyscallSubmits \/ MainReturns
           \/ SyscallReplayed \/ DispatchReplayed
  BY <1>0, <1>3, <1>8, Zenon DEF UthreadCall, CreateCall, YieldCall, ExitCall,
     JoinCall, JoinCallReturns, Create, Yield, Exit, JoinRefused,
     JoinFinished, JoinBlocks, SyscallDirect, SyscallSubmits, IoBlocks,
     MainReturns, SyscallReplayed, DispatchReplayed
<1> QED BY <1>4, <1>5, <1>6, <1>7, <1>8 DEF RRNext

-----------------------------------------------------------------------------
(* The replay follows the history.                                         *)

\* The calls of a script are told apart by their names, and a call of one name by
\* its argument.
LEMMA OpsDiffer ==
  ASSUME NEW v, NEW w
  PROVE  /\ <<"create">> # <<"return">> /\ <<"yield">> # <<"return">>
         /\ <<"create">> # <<"yield">>
         /\ <<"exit", v>> # <<"return">> /\ <<"exit", v>> # <<"create">>
         /\ <<"exit", v>> # <<"yield">> /\ <<"exit", v>> # <<"join", w>>
         /\ <<"exit", v>> # <<"syscall", w>>
         /\ <<"join", v>> # <<"return">> /\ <<"join", v>> # <<"create">>
         /\ <<"join", v>> # <<"yield">> /\ <<"join", v>> # <<"syscall", w>>
         /\ <<"syscall", v>> # <<"return">> /\ <<"syscall", v>> # <<"create">>
         /\ <<"syscall", v>> # <<"yield">>
         /\ <<"exit", v>> = <<"exit", w>> => v = w
         /\ <<"join", v>> = <<"join", w>> => v = w
         /\ <<"syscall", v>> = <<"syscall", w>> => v = w
OBVIOUS

\* The position after a proper prefix of a sequence is a position of it.
LEMMA NextInDomain ==
  ASSUME NEW S, NEW s \in Seq(S), NEW c \in Nat, c < Len(s)
  PROVE  c + 1 \in DOMAIN s
OBVIOUS

\* The last position of a sequence that is not empty is a position of it.
LEMMA LastInDomain ==
  ASSUME NEW S, NEW s \in Seq(S), NEW c \in Nat, Len(s) = c + 1
  PROVE  c + 1 \in DOMAIN s
OBVIOUS

\* The call that comes next decides what a step of the history is.
LEMMA CallStepIs ==
  ASSUME NEW a, NEW b, NEW sc, NEW lg, NEW rc, CallStep(a, b, sc, lg, rc)
  PROVE  /\ NextOp(a, sc) # <<"return">>
         /\ NextOp(a, sc) = <<"create">> =>
                /\ b.s = CreateOf(a.s) /\ Unread(a, b)
                /\ Returns(a, b, rc, Created(a.s.next))
         /\ NextOp(a, sc) = <<"yield">> =>
                b.s = YieldOf(a.s) /\ Unread(a, b) /\ Silent(a, b)
         /\ \A v \in Retvals : NextOp(a, sc) = <<"exit", v>> =>
                b.s = ExitOf(a.s, v) /\ Unread(a, b) /\ Silent(a, b)
         /\ \A id \in Ids : NextOp(a, sc) = <<"join", id>> =>
                /\ b.s = JoinOf(a.s, id) /\ Unread(a, b)
                /\ IF JoinBlocksIn(a.s, id) THEN Silent(a, b)
                   ELSE Returns(a, b, rc, Joined(b.s.ret))
         /\ \A nr \in {direct, blocking} : NextOp(a, sc) = <<"syscall", nr>> =>
                /\ b.s = a.s
                /\ Reads(a, b, lg, EvSyscall(a.s.cur, nr))
                /\ Returns(a, b, rc, SysResult(a.pos))
<1>1. PICK op : op = NextOp(a, sc)
  OBVIOUS
<1>2. \/ op = <<"create">> /\ b.s = CreateOf(a.s) /\ Unread(a, b)
         /\ Returns(a, b, rc, Created(a.s.next))
      \/ op = <<"yield">> /\ b.s = YieldOf(a.s) /\ Unread(a, b) /\ Silent(a, b)
      \/ \E v \in Retvals : op = <<"exit", v>> /\ b.s = ExitOf(a.s, v)
            /\ Unread(a, b) /\ Silent(a, b)
      \/ \E id \in Ids : op = <<"join", id>> /\ b.s = JoinOf(a.s, id)
            /\ Unread(a, b)
            /\ IF JoinBlocksIn(a.s, id) THEN Silent(a, b)
               ELSE Returns(a, b, rc, Joined(b.s.ret))
      \/ \E nr \in {direct, blocking} : op = <<"syscall", nr>> /\ b.s = a.s
            /\ Reads(a, b, lg, EvSyscall(a.s.cur, nr))
            /\ Returns(a, b, rc, SysResult(a.pos))
  BY <1>1, Zenon DEF CallStep
<1>3. /\ op # <<"return">>
      /\ op = <<"create">> =>
            /\ b.s = CreateOf(a.s) /\ Unread(a, b)
            /\ Returns(a, b, rc, Created(a.s.next))
      /\ op = <<"yield">> =>
            b.s = YieldOf(a.s) /\ Unread(a, b) /\ Silent(a, b)
  BY <1>2, OpsDiffer, Zenon
<1>4. \A v \in Retvals : op = <<"exit", v>> =>
            b.s = ExitOf(a.s, v) /\ Unread(a, b) /\ Silent(a, b)
  BY <1>2, OpsDiffer, Zenon
<1>5. \A id \in Ids : op = <<"join", id>> =>
            /\ b.s = JoinOf(a.s, id) /\ Unread(a, b)
            /\ IF JoinBlocksIn(a.s, id) THEN Silent(a, b)
               ELSE Returns(a, b, rc, Joined(b.s.ret))
  BY <1>2, OpsDiffer, Zenon
<1>6. \A nr \in {direct, blocking} : op = <<"syscall", nr>> =>
            /\ b.s = a.s
            /\ Reads(a, b, lg, EvSyscall(a.s.cur, nr))
            /\ Returns(a, b, rc, SysResult(a.pos))
  BY <1>2, OpsDiffer, Zenon
<1> QED BY <1>1, <1>3, <1>4, <1>5, <1>6, Zenon

\* The replayed program makes the call that the history has next.
LEMMA ReplayDoes ==
  ASSUME BaseInv, mode = "replay", NEW a \in Entries, NEW b \in Entries,
         ReplayAt(a), Step(a, b, script, log, recorded),
         AppRuns, NEW op, Does(op)
  PROVE  /\ CallStep(a, b, script, log, recorded)
         /\ NextOp(a, script) = op
         /\ pc' = [t \in Ids |-> b.cnt[t] + 1]
         /\ UNCHANGED script
<1> DEFINE g == g_current
<1>1. /\ g \in Ids /\ a.cnt \in [Ids -> Nat]
      /\ a.s = Now
      /\ pc = [t \in Ids |-> a.cnt[t] + 1]
  BY Zenon DEF BaseInv, IInv, TypeOK, Entries, ReplayAt
<1>2. /\ a.s.cur = g /\ a.s.running /\ a.s.call[a.s.cur].kind = "app"
  BY <1>1, NowFields, Zenon DEF AppRuns
<1>3. CallStep(a, b, script, log, recorded)
  BY <1>2, Zenon DEF Step, DispatchStep, ResumeStep
<1>4. /\ script[g][pc[g]] = op /\ UNCHANGED script
      /\ pc' = [pc EXCEPT ![g] = pc[g] + 1]
  BY DEF Does
<1>5. NextOp(a, script) = op
  BY <1>1, <1>2, <1>4 DEF NextOp
<1>6. b.cnt = [a.cnt EXCEPT ![g] = a.cnt[g] + 1]
  BY <1>2, <1>3, Zenon DEF CallStep
<1>7. pc' = [t \in Ids |-> b.cnt[t] + 1]
  BY <1>1, <1>4, <1>6, Zenon
<1> QED BY <1>3, <1>4, <1>5, <1>7, Zenon

\* A call that returns what the history has next keeps what has been replayed
\* a part of what was recorded.
LEMMA ReplaySees ==
  ASSUME BaseInv, BaseInv', mode = "replay",
         NEW a \in Entries, NEW b \in Entries,
         ReplayAt(a), NEW r \in Result, Sees(r), Returns(a, b, recorded, r)
  PROVE  \A t \in Ids : /\ Len(replayed'[t]) = b.res[t]
                        /\ Extends(replayed'[t], recorded'[t])
<1> DEFINE g == g_current
<1>1. /\ g \in Ids /\ a.res \in [Ids -> Nat]
      /\ replayed \in [Ids -> Seq(Result)]
      /\ recorded \in [Ids -> Seq(Result)]
      /\ \A t \in Ids : /\ Len(replayed[t]) = a.res[t]
                        /\ Extends(replayed[t], recorded[t])
      /\ a.s.cur = g
  BY NowFields, Zenon DEF BaseInv, IInv, TypeOK, RRTypeOK, Entries, ReplayAt
<1>2. /\ recorded' = recorded
      /\ replayed' = [replayed EXCEPT ![g] = Append(replayed[g], r)]
  BY DEF Sees
<1>3. /\ b.res = [a.res EXCEPT ![g] = a.res[g] + 1]
      /\ a.res[g] < Len(recorded[g])
      /\ recorded[g][a.res[g] + 1] = r
  BY <1>1, Zenon DEF Returns
<1>4. PICK x, y, n : x = replayed[g] /\ y = recorded[g] /\ n = a.res[g]
  BY Zenon
<1>5. /\ x \in Seq(Result) /\ y \in Seq(Result) /\ Len(x) = n /\ n \in Nat
      /\ Extends(x, y) /\ n < Len(y) /\ y[n + 1] = r
  BY <1>1, <1>3, <1>4, Zenon
<1>6. Len(Append(x, r)) = n + 1 /\ Extends(Append(x, r), y)
  <2>1. /\ Len(Append(x, r)) = n + 1
        /\ \A i \in 1..n : Append(x, r)[i] = x[i]
        /\ Append(x, r)[n + 1] = r
    BY <1>5, AppendMembers
  <2>2. ASSUME NEW i \in 1..(n + 1)
        PROVE  y[i] = Append(x, r)[i]
    BY <1>5, <2>1 DEF Extends
  <2>3. Len(Append(x, r)) <= Len(y)
    BY <1>5, <2>1
  <2> QED BY <2>1, <2>2, <2>3, ZenonT(60) DEF Extends
<1>7. replayed'[g] = Append(x, r) /\ b.res[g] = n + 1
  BY <1>1, <1>2, <1>3, <1>4, Zenon
<1>8. \A t \in Ids \ {g} : replayed'[t] = replayed[t] /\ b.res[t] = a.res[t]
  BY <1>1, <1>2, <1>3, ZenonT(60)
<1> QED BY <1>1, <1>2, <1>4, <1>6, <1>7, <1>8, Zenon

\* A call of rr.h in the replay leads to the next entry of the history.
LEMMA UthreadCallReplayed ==
  ASSUME BaseInv, BaseInv', mode = "replay",
         NEW a \in Entries, NEW b \in Entries,
         ReplayAt(a), Step(a, b, script, log, recorded), UthreadCall
  PROVE  ReplayAt(b)' /\ mode' = "replay" /\ UNCHANGED <<script, log, recorded>>
<1> DEFINE g == g_current
           Seen == \A t \in Ids : /\ Len(replayed'[t]) = b.res[t]
                                  /\ Extends(replayed'[t], recorded'[t])
<1>1. /\ TypeOK /\ TypeOK' /\ a.s = Now /\ pos = a.pos
      /\ pc = [t \in Ids |-> a.cnt[t] + 1]
      /\ a.s.cur = g /\ a.s.next = g_next_id
  BY NowFields, Zenon DEF BaseInv, IInv, ReplayAt
<1>2. mode' = "replay" /\ UNCHANGED <<log, pos>>
  BY DEF UthreadCall, logVars
<1>3. ASSUME UNCHANGED resultVars, Silent(a, b)
      PROVE  Seen
  BY <1>3, ZenonT(60) DEF ReplayAt, resultVars, Silent
<1>4. ret' \in Joins /\ g_next_id \in Nat
  BY <1>1 DEF TypeOK
<1>5. Joined(ret') \in Result /\ Created(g_next_id) \in Result
  BY <1>4, ResultTypes
<1>6. Now' = b.s => b.s.ret = ret'
  <2>1. Now'.ret = ret'
    BY DEF Now, Sched
  <2> QED BY <2>1, Zenon
<1>7. recorded' = recorded
  BY Zenon DEF UthreadCall, CreateCall, YieldCall, ExitCall, JoinCall,
     JoinCallReturns, Sees, resultVars
<1>8. ASSUME Now' = b.s, Unread(a, b), Seen, UNCHANGED script,
             pc' = [t \in Ids |-> b.cnt[t] + 1]
      PROVE  /\ ReplayAt(b)' /\ mode' = "replay"
             /\ UNCHANGED <<script, log, recorded>>
  BY <1>1, <1>2, <1>7, <1>8, Zenon DEF ReplayAt, Unread
<1>9. CASE CreateCall
  <2>1. /\ Create /\ state' # state /\ AppRuns
        /\ Does(<<"create">>) /\ Sees(Created(g_next_id))
    BY <1>9, Zenon DEF CreateCall, Create
  <2>2. /\ CallStep(a, b, script, log, recorded)
        /\ NextOp(a, script) = <<"create">> /\ UNCHANGED script
        /\ pc' = [t \in Ids |-> b.cnt[t] + 1]
    BY <2>1, ReplayDoes, Zenon
  <2>3. /\ b.s = CreateOf(a.s) /\ Unread(a, b)
        /\ Returns(a, b, recorded, Created(a.s.next))
    BY <2>2, CallStepIs, Zenon
  <2>4. Now' = b.s
    BY <1>1, <2>1, <2>3, CreateNow, Zenon
  <2>5. Seen
    BY <1>1, <1>5, <2>1, <2>3, ReplaySees, Zenon
  <2> QED BY <1>8, <2>2, <2>3, <2>4, <2>5, Zenon
<1>10. CASE YieldCall
  <2>1. Yield /\ AppRuns /\ Does(<<"yield">>) /\ UNCHANGED resultVars
    BY <1>10 DEF YieldCall, Yield
  <2>2. /\ CallStep(a, b, script, log, recorded)
        /\ NextOp(a, script) = <<"yield">> /\ UNCHANGED script
        /\ pc' = [t \in Ids |-> b.cnt[t] + 1]
    BY <2>1, ReplayDoes, Zenon
  <2>3. b.s = YieldOf(a.s) /\ Unread(a, b) /\ Silent(a, b)
    BY <2>2, CallStepIs, ZenonT(60)
  <2>4. Now' = b.s
    BY <1>1, <2>1, <2>3, YieldNow
  <2> QED BY <1>3, <1>8, <2>1, <2>2, <2>3, <2>4, ZenonT(60)
<1>11. ASSUME NEW v \in Retvals, ExitCall(v)
       PROVE  /\ ReplayAt(b)' /\ mode' = "replay"
              /\ UNCHANGED <<script, log, recorded>>
  <2>1. Exit(v) /\ AppRuns /\ Does(<<"exit", v>>) /\ UNCHANGED resultVars
    BY <1>11, Zenon DEF ExitCall, Exit
  <2>2. /\ CallStep(a, b, script, log, recorded)
        /\ NextOp(a, script) = <<"exit", v>> /\ UNCHANGED script
        /\ pc' = [t \in Ids |-> b.cnt[t] + 1]
    BY <2>1, ReplayDoes, Zenon
  <2>3. b.s = ExitOf(a.s, v) /\ Unread(a, b) /\ Silent(a, b)
    BY <2>2, CallStepIs, Zenon
  <2>4. Now' = b.s
    BY <1>1, <2>1, <2>3, ExitNow, Zenon
  <2> QED BY <1>3, <1>8, <2>1, <2>2, <2>3, <2>4, Zenon
<1>12. ASSUME NEW id \in Ids, JoinCall(id)
       PROVE  /\ ReplayAt(b)' /\ mode' = "replay"
              /\ UNCHANGED <<script, log, recorded>>
  <2>1. AppRuns /\ Does(<<"join", id>>)
    BY <1>12 DEF JoinCall, JoinRefused, JoinFinished, JoinBlocks
  <2>2. /\ CallStep(a, b, script, log, recorded)
        /\ NextOp(a, script) = <<"join", id>> /\ UNCHANGED script
        /\ pc' = [t \in Ids |-> b.cnt[t] + 1]
    BY <2>1, ReplayDoes, Zenon
  <2>3. /\ b.s = JoinOf(a.s, id) /\ Unread(a, b)
        /\ IF JoinBlocksIn(a.s, id) THEN Silent(a, b)
           ELSE Returns(a, b, recorded, Joined(b.s.ret))
    BY <2>2, CallStepIs, Zenon
  <2>4. CASE (JoinRefused(id) \/ JoinFinished(id)) /\ Sees(Joined(ret'))
    <3>1. Now' = b.s /\ ~JoinBlocksIn(a.s, id)
      BY <1>1, <2>3, <2>4, JoinAtOnceNow, Zenon
    <3>2. Returns(a, b, recorded, Joined(ret'))
      BY <1>6, <2>3, <3>1
    <3>3. Seen
      BY <1>5, <2>4, <3>2, ReplaySees, Zenon
    <3> QED BY <1>8, <2>2, <2>3, <3>1, <3>3, Zenon
  <2>5. CASE JoinBlocks(id) /\ UNCHANGED resultVars
    <3>1. Now' = b.s /\ JoinBlocksIn(a.s, id)
      BY <1>1, <2>3, <2>5, JoinBlocksNow, Zenon
    <3> QED BY <1>3, <1>8, <2>2, <2>3, <2>5, <3>1, Zenon
  <2> QED BY <1>12, <2>4, <2>5 DEF JoinCall
<1>13. CASE JoinCallReturns
  <2>1. JoinReturns /\ Sees(Joined(ret')) /\ UNCHANGED <<script, pc>>
    BY <1>13 DEF JoinCallReturns, programVars
  <2>2. ResumeStep(a, b, recorded)
    <3>1. a.s.running /\ a.s.call[a.s.cur].kind = "join"
      BY <1>1, <2>1, NowFields, Zenon DEF JoinReturns
    <3> QED BY <3>1, Zenon DEF Step, DispatchStep, CallStep
  <2>3. /\ b.s = ResumeOf(a.s) /\ b.cnt = a.cnt /\ Unread(a, b)
        /\ Returns(a, b, recorded, Joined(b.s.ret))
    BY <2>2, Zenon DEF ResumeStep
  <2>4. Now' = b.s
    BY <1>1, <2>1, <2>3, ResumeNow, Zenon
  <2>5. Seen
    BY <1>5, <1>6, <2>1, <2>3, <2>4, ReplaySees, Zenon
  <2> QED BY <1>1, <1>8, <2>1, <2>3, <2>4, <2>5, Zenon
<1> QED BY <1>9, <1>10, <1>11, <1>12, <1>13 DEF UthreadCall

\* A system call in the replay finds its own event, and returns its result.
LEMMA SyscallStepReplayed ==
  ASSUME BaseInv, BaseInv', mode = "replay",
         NEW a \in Entries, NEW b \in Entries,
         ReplayAt(a), Step(a, b, script, log, recorded), SyscallReplayed
  PROVE  ReplayAt(b)' /\ mode' = "replay" /\ UNCHANGED <<script, log, recorded>>
<1>1. PICK nr \in {direct, blocking} :
            /\ AppRuns /\ Does(<<"syscall", nr>>)
            /\ Sees(rr_replay_next_syscall(nr)) /\ Consumes
            /\ UNCHANGED <<schedVars, mode>>
  BY DEF SyscallReplayed
<1>2. /\ a.s = Now /\ pos = a.pos /\ a.s.cur = g_current
      /\ a.pos \in Nat /\ Len(log) \in Nat
  BY NowFields DEF ReplayAt, Entries, BaseInv, RRTypeOK
<1>3. /\ CallStep(a, b, script, log, recorded)
      /\ NextOp(a, script) = <<"syscall", nr>> /\ UNCHANGED script
      /\ pc' = [t \in Ids |-> b.cnt[t] + 1]
  BY <1>1, ReplayDoes
<1>4. /\ b.s = a.s
      /\ Reads(a, b, log, EvSyscall(a.s.cur, nr))
      /\ Returns(a, b, recorded, SysResult(a.pos))
  BY <1>3, CallStepIs, Zenon
<1>5. rr_replay_next_syscall(nr) = SysResult(a.pos) /\ SysResult(a.pos) \in Result
  BY <1>2, <1>4, ResultTypes DEF rr_replay_next_syscall, NextIs, Reads
<1>6. \A t \in Ids : /\ Len(replayed'[t]) = b.res[t]
                     /\ Extends(replayed'[t], recorded'[t])
  BY <1>1, <1>4, <1>5, ReplaySees, ZenonT(60)
<1>7. pos' = b.pos /\ UNCHANGED log
  BY <1>1, <1>2, <1>4 DEF Consumes, Reads
<1>8. Now' = b.s
  BY <1>1, <1>2, <1>4 DEF Now, schedVars
<1>9. recorded' = recorded
  BY <1>1 DEF Sees
<1> QED BY <1>1, <1>3, <1>6, <1>7, <1>8, <1>9, Zenon DEF ReplayAt

\* A switch in the replay is the one the log has next.
LEMMA DispatchStepReplayed ==
  ASSUME BaseInv, BaseInv', mode = "replay",
         NEW a \in Entries, NEW b \in Entries,
         ReplayAt(a), Step(a, b, script, log, recorded), DispatchReplayed
  PROVE  ReplayAt(b)' /\ mode' = "replay" /\ UNCHANGED <<script, log, recorded>>
<1>1. /\ a.s = Now /\ pos = a.pos /\ a.s.cur = g_current
      /\ a.s.q = g_runq /\ a.s.running = running
      /\ a.pos \in Nat /\ Len(log) \in Nat
  BY NowFields DEF ReplayAt, Entries, BaseInv, RRTypeOK
<1>2. DispatchStep(a, b, log)
  BY <1>1, Zenon DEF DispatchReplayed, Step, ResumeStep, CallStep
<1>3. /\ b.s = DispatchOf(a.s) /\ b.cnt = a.cnt /\ b.res = a.res
      /\ IF Head(g_runq) = g_current
         THEN b.pos = a.pos
         ELSE Reads(a, b, log, EvSched(g_current, Head(g_runq)))
  BY <1>1, <1>2, Zenon DEF DispatchStep, Silent, Unread
<1>4. Dispatch /\ pos' = b.pos /\ UNCHANGED <<log, mode>>
  <2>1. CASE Head(g_runq) = g_current
    BY <1>1, <1>3, <2>1, Zenon DEF DispatchReplayed, logVars
  <2>2. CASE Head(g_runq) # g_current
    <3>1. Reads(a, b, log, EvSched(g_current, Head(g_runq)))
      BY <1>3, <2>2
    <3>2. /\ rr_replay_expect_sched(g_current, Head(g_runq))
          /\ pos <= Len(log) /\ b.pos = pos + 1
      BY <1>1, <3>1 DEF rr_replay_expect_sched, NextIs, Reads
    <3> QED BY <2>2, <3>2 DEF DispatchReplayed, Consumes
  <2> QED BY <2>1, <2>2
<1>5. Now' = b.s
  BY <1>1, <1>3, <1>4, DispatchNow DEF BaseInv, IInv
<1>6. UNCHANGED <<script, pc, recorded, replayed>>
  BY DEF DispatchReplayed, programVars, resultVars
<1> QED BY <1>3, <1>4, <1>5, <1>6, ZenonT(60) DEF ReplayAt

\* The replay has one step to make, the one the history has next.
LEMMA ReplayGoesOn ==
  ASSUME BaseInv, BaseInv', mode = "replay",
         NEW a \in Entries, NEW b \in Entries,
         ReplayAt(a), Step(a, b, script, log, recorded), RRNext
  PROVE  ReplayAt(b)' /\ mode' = "replay" /\ UNCHANGED <<script, log, recorded>>
<1>1. CASE UthreadCall
  BY <1>1, UthreadCallReplayed
<1>2. CASE SyscallReplayed
  BY <1>2, SyscallStepReplayed
<1>3. CASE DispatchReplayed
  BY <1>3, DispatchStepReplayed
<1>4. CASE MainReturns
  <2>1. AppRuns /\ Does(<<"return">>)
    BY <1>4 DEF MainReturns
  <2>2. /\ CallStep(a, b, script, log, recorded)
        /\ NextOp(a, script) = <<"return">>
    BY <2>1, ReplayDoes
  <2> QED BY <2>2, CallStepIs
<1>5. CASE \/ SyscallDirect \/ SyscallSubmits \/ SyscallReturns
           \/ CompletionRecorded \/ SignalRecorded \/ DispatchRecorded
  BY <1>5 DEF SyscallDirect, SyscallSubmits, SyscallReturns,
     CompletionRecorded, SignalRecorded, DispatchRecorded
<1> QED BY <1>1, <1>2, <1>3, <1>4, <1>5 DEF RRNext

\* At the last entry main returns, and all of the recording has been replayed.
LEMMA ReplayEnds ==
  ASSUME BaseInv, BaseInv', mode = "replay",
         NEW h \in Seq(Entries), Ended(h),
         ReplayAt(h[Len(h)]), RRNext
  PROVE  /\ mode' = "finished" /\ replayed' = recorded' /\ pos' = Len(log') + 1
         /\ UNCHANGED <<script, log, recorded>>
<1>1. PICK z : z = h[Len(h)]
  OBVIOUS
<1>2. /\ z.s = Now /\ pos = Len(log) + 1
      /\ z.s.running /\ z.s.cur = 1 /\ z.s.call[1].kind = "app"
      /\ NextOp(z, script) = <<"return">>
      /\ pc = [t \in Ids |-> z.cnt[t] + 1]
      /\ z.res = [t \in Ids |-> Len(recorded[t])]
      /\ \A t \in Ids : /\ Len(replayed[t]) = z.res[t]
                        /\ Extends(replayed[t], recorded[t])
  BY <1>1, Zenon DEF Ended, ReplayAt
<1>3. g_current = 1 /\ 1 \in Ids /\ running /\ call[1].kind = "app"
  BY <1>2, NowFields, ZenonT(60) DEF BaseInv, IInv, TypeOK
<1>4. script[1][pc[1]] = <<"return">>
  BY <1>2, <1>3 DEF NextOp
<1>5. ASSUME NEW op, Does(op)
      PROVE  op = <<"return">>
  BY <1>3, <1>4, <1>5 DEF Does
<1>6. MainReturns
  <2>1. ~UthreadCall
    <3>1. ~JoinCallReturns
      BY <1>3 DEF JoinCallReturns, JoinReturns
    <3>2. \A v \in Retvals : <<"exit", v>> # <<"return">>
      OBVIOUS
    <3>3. \A id \in Ids : <<"join", id>> # <<"return">>
      OBVIOUS
    <3>4. <<"create">> # <<"return">> /\ <<"yield">> # <<"return">>
      OBVIOUS
    <3> QED BY <1>5, <3>1, <3>2, <3>3, <3>4, ZenonT(60) DEF UthreadCall, CreateCall,
               YieldCall, ExitCall, JoinCall
  <2>2. ~SyscallReplayed
    <3>1. \A nr \in {direct, blocking} : <<"syscall", nr>> # <<"return">>
      OBVIOUS
    <3> QED BY <1>5, <3>1 DEF SyscallReplayed
  <2>3. ~DispatchReplayed
    BY <1>3 DEF DispatchReplayed
  <2>4. ~(\/ SyscallDirect \/ SyscallSubmits \/ SyscallReturns
          \/ CompletionRecorded \/ SignalRecorded \/ DispatchRecorded)
    BY DEF SyscallDirect, SyscallSubmits, SyscallReturns,
       CompletionRecorded, SignalRecorded, DispatchRecorded
  <2> QED BY <2>1, <2>2, <2>3, <2>4 DEF RRNext
<1>7. /\ mode' = "finished"
      /\ UNCHANGED <<script, log, pos, recorded, replayed>>
  BY <1>6, Zenon DEF MainReturns, Does, logVars, resultVars
<1>8. replayed = recorded
  <2>1. /\ replayed \in [Ids -> Seq(Result)]
        /\ recorded \in [Ids -> Seq(Result)]
    BY DEF BaseInv, RRTypeOK
  <2>2. ASSUME NEW t \in Ids
        PROVE  replayed[t] = recorded[t]
    <3>1. PICK x, y : x = replayed[t] /\ y = recorded[t]
      OBVIOUS
    <3>2. /\ x \in Seq(Result) /\ y \in Seq(Result) /\ Len(x) = Len(y)
          /\ \A i \in 1..Len(x) : y[i] = x[i]
      BY <1>2, <2>1, <3>1, Zenon DEF Extends
    <3>3. x = y
      BY <3>2
    <3> QED BY <3>1, <3>3
  <2> QED BY <2>1, <2>2
<1> QED BY <1>2, <1>7, <1>8

-----------------------------------------------------------------------------
(* The replay is exact.                                                    *)

\* Threads that have made no call are at their first one.
LEMMA AllAtFirst ==
  ASSUME NEW p \in [Ids -> Nat], \A t \in Ids : p[t] = 1,
         NEW c, c = [t \in Ids |-> 0]
  PROVE  p = [t \in Ids |-> c[t] + 1]
<1>1. \A t \in Ids : c[t] + 1 = 1
  OBVIOUS
<1> QED BY <1>1

\* A sequence that is not empty has a first member.
LEMMA FirstIndex ==
  ASSUME NEW S, NEW q \in Seq(S), q # <<>>
  PROVE  1 \in DOMAIN q
<1>1. Len(q) \in Nat \ {0} /\ DOMAIN q = 1..Len(q)
  OBVIOUS
<1> QED BY <1>1

\* When main returns the recording is at the end of its history, and the
\* replay starts at the beginning.
LEMMA RecordingEnds ==
  ASSUME BaseInv, BaseInv', NEW h \in Seq(Entries), Recorded(h), Grown,
         MainReturns
  PROVE  Follows(h)'
<1> DEFINE g == g_current
<1>0. /\ TypeOK /\ TypeOK' /\ RRTypeOK /\ RRTypeOK' /\ mode = "record"
      /\ AppRuns /\ g = 1 /\ 1 \in Ids
      /\ Does(<<"return">>) /\ Restart /\ Consumes
      /\ mode' = IF rr_replay_expect_sched(0, 1) THEN "replay" ELSE "aborted"
      /\ UNCHANGED <<recorded, replayed>>
      /\ Started /\ h # <<>> /\ h[1] = First
      /\ Chain(h, script, log, recorded)
      /\ \A t \in Ids : replayed[t] = <<>> /\ pc[t] = 1
      /\ pos = 1
  BY Zenon DEF BaseInv, IInv, Recorded, Follows, MainReturns, resultVars, TypeOK
<1>1. h[Len(h)] = Entry
  <2>1. running /\ call[g].kind = "app"
    BY <1>0, Zenon DEF AppRuns
  <2>2. ~Idle /\ ~InsideCall(h[Len(h)])
    BY <1>0, <2>1, Zenon DEF Idle, InsideCall
  <2> QED BY <2>2, Zenon DEF Recorded, Follows, Recording
<1>2. PICK z \in Entries : z = h[Len(h)]
  BY <1>0
<1>3. /\ z.s = Now /\ z.s.cur = 1
      /\ z.pos = Len(log) + 1
      /\ z.cnt = [t \in Ids |-> Len(script[t])]
      /\ z.res = [t \in Ids |-> Len(recorded[t])]
      /\ z.s.running /\ z.s.call[1].kind = "app"
  BY <1>0, <1>1, <1>2, EntryFields, NowFields, ZenonT(60) DEF AppRuns
<1>4. /\ UNCHANGED pc /\ script'[1] = Append(script[1], <<"return">>)
      /\ script'[1][z.cnt[1] + 1] = <<"return">>
  BY <1>0, <1>1, <1>2, DoesEntry, OpTypes
<1>5. Len(script'[1]) = z.cnt[1] + 1
  <2>1. PICK x : x = script[1]
    OBVIOUS
  <2>2. x \in Seq(Op) /\ z.cnt[1] = Len(x)
    <3>1. 1 \in Ids /\ script \in [Ids -> Seq(Op)]
      BY <1>0, Zenon DEF RRTypeOK
    <3>2. script[1] \in Seq(Op)
      BY <3>1, Zenon
    <3>3. z.cnt[1] = Len(script[1])
      <4>1. PICK c : c = z.cnt
        OBVIOUS
      <4>2. c = [t \in Ids |-> Len(script[t])]
        BY <1>3, <4>1, Zenon
      <4>3. c[1] = Len(script[1])
        BY <3>1, <4>2
      <4> QED BY <4>1, <4>3, Zenon
    <3> QED BY <2>1, <3>2, <3>3, Zenon
  <2>3. Len(Append(x, <<"return">>)) = Len(x) + 1
    BY <2>2, AppendMembers, OpTypes
  <2> QED BY <1>4, <2>1, <2>2, <2>3, Zenon
<1>6. Len(log) \in Nat \ {0} /\ log[1] = EvSched(0, 1)
  BY <1>0 DEF Started, RRTypeOK
<1>7. UNCHANGED log /\ pos' = 2 /\ mode' = "replay"
  BY <1>0, <1>6 DEF Consumes, rr_replay_expect_sched, NextIs
<1>8. Ended(h)'
  BY <1>0, <1>2, <1>3, <1>4, <1>5, <1>7 DEF Ended, NextOp
<1>9. ReplayAt(First)'
  <2>1. Now' = First.s
    BY <1>0, ZenonT(60) DEF Restart, Now, First
  <2>2. /\ First.cnt = [t \in Ids |-> 0] /\ First.pos = 2
        /\ First.res = [t \in Ids |-> 0]
    BY DEF First
  <2>3. pc' = [t \in Ids |-> First.cnt[t] + 1]
    <3>1. pc' \in [Ids -> Nat] /\ \A t \in Ids : pc'[t] = 1
      BY <1>0, <1>4, Zenon DEF RRTypeOK
    <3> QED BY <2>2, <3>1, AllAtFirst, Zenon
  <2>4. \A t \in Ids : /\ Len(replayed'[t]) = First.res[t]
                       /\ Extends(replayed'[t], recorded'[t])
    <3> SUFFICES ASSUME NEW t \in Ids
                 PROVE  /\ Len(replayed'[t]) = First.res[t]
                        /\ Extends(replayed'[t], recorded'[t])
      OBVIOUS
    <3>1. replayed'[t] = <<>> /\ recorded'[t] \in Seq(Result)
      BY <1>0 DEF RRTypeOK
    <3> QED BY <2>2, <3>1 DEF Extends
  <2> QED BY <1>7, <2>1, <2>2, <2>3, <2>4 DEF ReplayAt
<1>10. 1 \in DOMAIN h
  BY <1>0, FirstIndex, Zenon
<1>11. Started'
  BY <1>0, StaysStarted DEF Grown
<1>12. Chain(h, script', log', recorded')
  <2>1. PICK sc, lg, rc : sc = script' /\ lg = log' /\ rc = recorded'
    OBVIOUS
  <2>2. Chain(h, sc, lg, rc)
    BY <1>0, <2>1, ChainExtends, Zenon DEF Grown, RRTypeOK
  <2> QED BY <2>1, <2>2
<1> QED BY <1>0, <1>7, <1>8, <1>9, <1>10, <1>11, <1>12, Zenon DEF Follows

\* The invariant: an unoverlapped recording has a history, and the process
\* follows it.
FollowsSome == ~overlapped => \E h \in Seq(Entries) : Follows(h)

\* Every step without overlapping calls keeps a history.
LEMMA FollowsStep ==
  ASSUME BaseInv, BaseInv', FollowsSome, RRNext
  PROVE  FollowsSome'
<1> SUFFICES ASSUME ~overlapped'
             PROVE  \E h \in Seq(Entries) : Follows(h)'
  BY DEF FollowsSome
<1>1. ~overlapped
  BY Zenon DEF RRNext, UthreadCall, SyscallDirect, SyscallSubmits,
     SyscallReturns, CompletionRecorded, SignalRecorded, DispatchRecorded,
     MainReturns, SyscallReplayed, DispatchReplayed, Logs, Consumes, logVars
<1>2. PICK h \in Seq(Entries) : Follows(h)
  BY <1>1 DEF FollowsSome
<1>3. /\ TypeOK /\ TypeOK' /\ RRTypeOK /\ RRTypeOK'
      /\ mode \in {"record", "replay", "finished", "aborted"}
  BY DEF BaseInv, IInv, RRTypeOK
<1>4. Grown
  BY <1>3, Grows
<1>5. CASE mode = "record"
  <2>1. Recorded(h)
    BY <1>2, <1>5 DEF Recorded
  <2>2. CASE MainReturns
    BY <1>4, <2>1, <2>2, RecordingEnds
  <2>3. CASE ~MainReturns
    <3>1. mode' = "record"
      BY <1>5, <2>3 DEF RRNext, UthreadCall, SyscallDirect, SyscallSubmits,
         SyscallReturns, CompletionRecorded, SignalRecorded,
         DispatchRecorded, SyscallReplayed, DispatchReplayed
    <3>2. Recording(h)
      BY <1>2, <1>5 DEF Follows
    <3> QED BY <1>4, <2>1, <3>1, <3>2, AtEndKeeps, StuckKeeps, InsideKeeps
            DEF Recording
  <2> QED BY <2>2, <2>3
<1>6. CASE mode = "replay"
  <2>1. PICK k \in DOMAIN h : ReplayAt(h[k])
    BY <1>2, <1>6 DEF Follows
  <2>2. Ended(h) /\ Chain(h, script, log, recorded) /\ Started /\ h # <<>>
        /\ h[1] = First
    BY <1>2, <1>6 DEF Follows
  <2>3. CASE k = Len(h)
    <3>1. /\ mode' = "finished" /\ replayed' = recorded'
          /\ pos' = Len(log') + 1
          /\ UNCHANGED <<script, log, recorded>>
      BY <1>6, <2>1, <2>2, <2>3, ReplayEnds
    <3> QED BY <2>2, <3>1 DEF Follows, Started
  <2>4. CASE k # Len(h)
    <3>1. /\ k \in 1..(Len(h) - 1) /\ k + 1 \in DOMAIN h
          /\ h[k] \in Entries /\ h[k + 1] \in Entries
      BY <2>1, <2>4
    <3>2. Step(h[k], h[k + 1], script, log, recorded)
      BY <2>2, <3>1 DEF Chain
    <3>3. /\ ReplayAt(h[k + 1])' /\ mode' = "replay"
          /\ UNCHANGED <<script, log, recorded>>
      BY <1>6, <2>1, <3>1, <3>2, ReplayGoesOn
    <3>4. Ended(h)'
      BY <2>2, <3>3, Zenon DEF Ended
    <3> QED BY <2>2, <3>1, <3>3, <3>4 DEF Follows, Started
  <2> QED BY <2>3, <2>4
<1>7. CASE mode \in {"finished", "aborted"}
  BY <1>7, Zenon DEF RRNext, UthreadCall, SyscallDirect, SyscallSubmits,
     SyscallReturns, CompletionRecorded, SignalRecorded, DispatchRecorded,
     MainReturns, Does, SyscallReplayed, DispatchReplayed
<1> QED BY <1>3, <1>5, <1>6, <1>7

\* The history of a recording that has just begun has one entry.
LEMMA FollowsInit == RRInit => FollowsSome
<1> SUFFICES ASSUME RRInit
             PROVE  \E h \in Seq(Entries) : Follows(h)
  BY DEF FollowsSome
<1>1. TypeOK /\ RRTypeOK
  BY InitTypeOK, RRInitType DEF RRInit
<1>2. Entry = First
  <2>1. Now = First.s
    BY DEF RRInit, Init, Now, First
  <2>2. Len(log) + 1 = 2
    BY DEF RRInit
  <2>3. /\ [t \in Ids |-> Len(script[t])] = [t \in Ids |-> 0]
        /\ [t \in Ids |-> Len(recorded[t])] = [t \in Ids |-> 0]
    BY DEF RRInit
  <2> QED BY <2>1, <2>2, <2>3, ZenonT(60) DEF Entry, First
<1>3. PICK e : e = First
  OBVIOUS
<1>4. e \in Entries
  BY <1>1, <1>2, <1>3, EntryFields
<1>5. <<e>> \in Seq(Entries) /\ Len(<<e>>) = 1 /\ <<e>>[1] = e /\ <<e>> # <<>>
  BY <1>4
<1>6. NoIo
  BY DEF RRInit, Init, NoIo, InApp
<1>7. Recording(<<e>>)
  BY <1>2, <1>3, <1>5, <1>6 DEF Recording
<1>8. Started
  BY DEF RRInit, Started
<1>9. Chain(<<e>>, script, log, recorded)
  BY <1>5 DEF Chain
<1>10. mode = "record" /\ pos = 1
  BY DEF RRInit
<1>11. \A t \in Ids : replayed[t] = <<>> /\ pc[t] = 1
  BY DEF RRInit
<1>12. Follows(<<e>>)
  BY <1>3, <1>5, <1>7, <1>8, <1>9, <1>10, <1>11, ZenonT(60) DEF Follows
<1> QED BY <1>5, <1>12, Zenon

\* A process that follows a history has replayed what was recorded.
LEMMA FollowsExact == BaseInv /\ FollowsSome => ReplayIsExactAlone
<1> SUFFICES ASSUME BaseInv, NEW h \in Seq(Entries), Follows(h)
             PROVE  ReplayIsExact
  BY DEF FollowsSome, ReplayIsExactAlone
<1>1. mode \in {"record", "replay", "finished"}
  BY DEF Follows, BaseInv, RRTypeOK
<1>2. ASSUME NEW t \in Ids
      PROVE  \A i \in DOMAIN replayed[t] :
                i \in DOMAIN recorded[t] /\ replayed[t][i] = recorded[t][i]
  <2>1. PICK x, y : x = replayed[t] /\ y = recorded[t]
    BY Zenon
  <2>2. x \in Seq(Result) /\ y \in Seq(Result)
    BY <2>1 DEF BaseInv, RRTypeOK
  <2>3. Extends(x, y)
    <3>1. CASE mode = "record"
      BY <2>1, <2>2, <3>1 DEF Follows, Extends
    <3>2. CASE mode = "replay"
      BY <2>1, <3>2 DEF Follows, ReplayAt
    <3>3. CASE mode = "finished"
      BY <2>1, <2>2, <3>3, AppendExtends DEF Follows
    <3> QED BY <1>1, <3>1, <3>2, <3>3
  <2>4. \A i \in DOMAIN x : i \in DOMAIN y /\ x[i] = y[i]
    BY <2>2, <2>3 DEF Extends
  <2> QED BY <2>1, <2>4, Zenon
<1> QED BY <1>1, <1>2, Zenon DEF ReplayIsExact, Follows

\* There is a history that the process follows, in every state.
LEMMA FollowsInductive == RRSpec => []FollowsSome
<1>1. BaseInv /\ BaseInv' /\ FollowsSome /\ [RRNext]_rrVars => FollowsSome'
  <2> SUFFICES ASSUME FollowsSome, UNCHANGED rrVars
               PROVE  FollowsSome'
    BY FollowsStep
  <2>1. UNCHANGED <<mode, script, pc, log, pos, overlapped, recorded, replayed,
                    g_next_id, state, g_runq, g_current, running,
                    join_waiter, retval, call, ret>>
    BY DEF rrVars, schedVars, programVars, logVars, resultVars
  <2>2. Entry' = Entry /\ Now' = Now
    BY <2>1, Zenon DEF Entry, Now
  <2>3. \A h : Recording(h)' <=> Recording(h)
    BY <2>1, <2>2, ZenonT(60) DEF Recording, Idle, NoIo, InsideCall
  <2>4. \A h : Ended(h)' <=> Ended(h)
    BY <2>1 DEF Ended
  <2>5. \A a : ReplayAt(a)' <=> ReplayAt(a)
    BY <2>1, <2>2 DEF ReplayAt
  <2>6. \A h : Follows(h)' <=> Follows(h)
    BY <2>1, <2>3, <2>4, <2>5 DEF Follows, Started
  <2> QED BY <2>1, <2>6 DEF FollowsSome
<1> QED BY <1>1, FollowsInit, BaseInductive, PTL DEF RRSpec

\* Replay is exact, for every number of threads and every program: if no event
\* was logged inside a system call of another thread, the replay makes the
\* switches of the recording, every call returns what it returned then, and
\* the whole log is read.
THEOREM ReplayExact == RRSpec => []ReplayIsExactAlone
  BY FollowsExact, FollowsInductive, BaseInductive, PTL

\* Some step of the replay can be taken: a dispatch, the end of a join, or the
\* call that the program makes next.
ReplayCanGoOn ==
    \/ ~running /\ g_runq # <<>>
    \/ running /\ call[g_current].kind = "join"
    \/ /\ AppRuns
       /\ pc[g_current] \in DOMAIN script[g_current]
       /\ LET op == script[g_current][pc[g_current]] IN
            \/ op = <<"create">> /\ g_next_id \in Ids
            \/ op = <<"yield">>
            \/ \E v \in Retvals : op = <<"exit", v>>
            \/ \E id \in Ids : op = <<"join", id>>
            \/ \E nr \in {direct, blocking} : op = <<"syscall", nr>>
            \/ op = <<"return">> /\ g_current = 1

\* The step that the history has next can be taken.
LEMMA HistoryGoesOn ==
  ASSUME BaseInv, NEW a \in Entries, NEW b, ReplayAt(a),
         Step(a, b, script, log, recorded)
  PROVE  ReplayCanGoOn
<1>1. PICK g, c : g = g_current /\ c = a.cnt[g]
  OBVIOUS
<1>2. /\ a.s = Now /\ a.s.cur = g /\ a.s.q = g_runq /\ a.s.running = running
      /\ a.s.call = call /\ a.s.next = g_next_id
  BY <1>1, NowFields, ZenonT(60) DEF ReplayAt
<1>3. g \in Ids /\ c \in Nat /\ script[g] \in Seq(Op) /\ pc[g] = c + 1
  BY <1>1 DEF BaseInv, IInv, TypeOK, RRTypeOK, Entries, ReplayAt
<1>4. CASE DispatchStep(a, b, log)
  BY <1>2, <1>4, Zenon DEF DispatchStep, ReplayCanGoOn
<1>5. CASE ResumeStep(a, b, recorded)
  BY <1>1, <1>2, <1>5, Zenon DEF ResumeStep, ReplayCanGoOn
<1>6. CASE CallStep(a, b, script, log, recorded)
  <2>1. PICK op : op = NextOp(a, script)
    OBVIOUS
  <2>2. /\ running /\ call[g].kind = "app" /\ c < Len(script[g])
        /\ \/ op = <<"create">> /\ g_next_id \in Ids
           \/ op = <<"yield">>
           \/ \E v \in Retvals : op = <<"exit", v>>
           \/ \E id \in Ids : op = <<"join", id>>
           \/ \E nr \in {direct, blocking} : op = <<"syscall", nr>>
    BY <1>1, <1>2, <1>6, <2>1, Zenon DEF CallStep
  <2>3. pc[g] \in DOMAIN script[g]
    BY <1>3, <2>2, NextInDomain, Zenon
  <2>4. script[g][pc[g]] = op
    BY <1>1, <1>2, <1>3, <2>1, Zenon DEF NextOp
  <2> QED BY <1>1, <2>2, <2>3, <2>4, Zenon DEF ReplayCanGoOn, AppRuns
<1> QED BY <1>4, <1>5, <1>6, Zenon DEF Step

\* At the last entry main can return.
LEMMA HistoryEnds ==
  ASSUME BaseInv, NEW h \in Seq(Entries), h # <<>>, Ended(h),
         ReplayAt(h[Len(h)])
  PROVE  ReplayCanGoOn
<1>1. PICK z : z = h[Len(h)]
  OBVIOUS
<1>2. z \in Entries
  BY <1>1
<1>3. /\ z.s = Now /\ z.s.running /\ z.s.cur = 1 /\ z.s.call[1].kind = "app"
      /\ Len(script[1]) = z.cnt[1] + 1
      /\ NextOp(z, script) = <<"return">>
      /\ pc = [t \in Ids |-> z.cnt[t] + 1]
  BY <1>1, Zenon DEF Ended, ReplayAt
<1>4. g_current = 1 /\ running /\ call[1].kind = "app"
  BY <1>3, NowFields, Zenon
<1>5. 1 \in Ids /\ z.cnt[1] \in Nat /\ script[1] \in Seq(Op)
  BY <1>2, MaxThreadsAssumption DEF Ids, Entries, BaseInv, RRTypeOK
<1>6. pc[1] = z.cnt[1] + 1
  BY <1>3, <1>5, Zenon
<1>7. pc[1] \in DOMAIN script[1]
  BY <1>3, <1>5, <1>6, LastInDomain, Zenon
<1>8. script[1][pc[1]] = <<"return">>
  BY <1>3, <1>6, Zenon DEF NextOp
<1> QED BY <1>4, <1>7, <1>8, Zenon DEF ReplayCanGoOn, AppRuns

\* A replay that follows a history can go on.
LEMMA FollowsGoesOn ==
  BaseInv /\ FollowsSome => (mode = "replay" /\ ~overlapped => ReplayCanGoOn)
<1> SUFFICES ASSUME BaseInv, mode = "replay", NEW h \in Seq(Entries), Follows(h)
             PROVE  ReplayCanGoOn
  BY DEF FollowsSome
<1>1. PICK k \in DOMAIN h : ReplayAt(h[k])
  BY Zenon DEF Follows
<1>2. h # <<>> /\ Ended(h) /\ Chain(h, script, log, recorded)
  BY Zenon DEF Follows
<1>3. CASE k = Len(h)
  BY <1>1, <1>2, <1>3, HistoryEnds
<1>4. CASE k # Len(h)
  <2>1. k \in 1..(Len(h) - 1) /\ h[k] \in Entries
    BY <1>4
  <2>2. Step(h[k], h[k + 1], script, log, recorded)
    BY <1>2, <2>1, Zenon DEF Chain
  <2> QED BY <1>1, <2>1, <2>2, HistoryGoesOn, Zenon
<1> QED BY <1>3, <1>4

\* The replay never gets stuck: if no event was logged inside a system call of
\* another thread, then until main has returned some thread can be dispatched,
\* end its join, or make the call that comes next.  With ReplayExact, the step
\* is the one that the recording made.
THEOREM ReplayNeverStuck ==
    RRSpec => [](mode = "replay" /\ ~overlapped => ReplayCanGoOn)
  BY FollowsGoesOn, FollowsInductive, BaseInductive, PTL

=============================================================================
