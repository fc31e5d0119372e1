------------------------------- MODULE IoRing -------------------------------
(***************************************************************************)
(* The asynchronous I/O of record mode, src/librr/src/io_uring.c, composed *)
(* with the scheduler that it blocks and wakes threads of.                 *)
(*                                                                         *)
(* A blocking system call takes a submission queue entry, tags it with the *)
(* caller's thread id, submits it and blocks.  rr_io_wait takes one        *)
(* completion at a time, in order, and wakes the thread whose id it finds  *)
(* there.  The signalfd read is one more operation of the same ring,       *)
(* tagged with RR_SIGNAL_SENTINEL and submitted again after each           *)
(* completion.                                                             *)
(*                                                                         *)
(* Every call of a thread has a number, and the result of an operation is  *)
(* the number of the call that prepared it: that is all the properties     *)
(* need to tell results apart.                                             *)
(*                                                                         *)
(* The kernel and liburing are external.  io_uring_submit hands the kernel *)
(* at least one entry or fails; entries it does not hand over stay in the  *)
(* submission queue and go with a later submit.                            *)
(***************************************************************************)
EXTENDS Scheduler, FiniteSets

CONSTANTS
    SqEntries,          \* entries of the submission queue (256 in rr_init)
    MaxCalls,           \* bound on the blocking system calls of one thread
    MaxSubmitFailures   \* bound on failing io_uring_submit calls

ASSUME RingAssumption ==
    /\ SqEntries \in Nat \ {0}
    /\ MaxCalls \in Nat
    /\ MaxSubmitFailures \in Nat

VARIABLES
    sq,                 \* prepared entries the kernel has not taken
    inflight,           \* operations the kernel is working on
    cq,                 \* completions not yet seen, oldest first
    calls,              \* calls[t]: number of t's latest blocking call
    io_result,          \* io_result[t], written by rr_scheduler_wake_by_id
    sysret,             \* the latest system call return: who, call, result
    submit_failures,    \* failing io_uring_submit calls so far
    exited              \* rr_signal_process has called _exit

ringVars ==
    <<sq, inflight, cq, calls, io_result, sysret, submit_failures, exited>>

ioVars == <<schedVars, ringVars>>

\* UINT64_MAX in the code: what counts is that it is no thread id.
RR_SIGNAL_SENTINEL == 0
SignalRead == [user_data |-> RR_SIGNAL_SENTINEL, n |-> 0]
Failed == 0                     \* the -1 of a call that was not submitted

\* rr_init leaves the signalfd read submitted.
InitRing ==
    /\ Init
    /\ sq = <<>>
    /\ inflight = {SignalRead}
    /\ cq = <<>>
    /\ calls = [t \in Ids |-> 0]
    /\ io_result = [t \in Ids |-> 0]
    /\ sysret = [by |-> 0, n |-> 0, res |-> 0]
    /\ submit_failures = 0
    /\ exited = FALSE

-----------------------------------------------------------------------------
(* liburing.                                                               *)

\* Mutant of SqFull: one entry too many.
SqFullLate == Len(sq) > SqEntries

\* io_uring_get_sqe returns NULL when the submission queue is full.
SqFull == Len(sq) = SqEntries

\* io_uring_submit returns how many entries the kernel took.
io_uring_submit(entries) ==
    \E taken \in 1..Len(entries) :
        /\ inflight' = inflight \cup {entries[i] : i \in 1..taken}
        /\ sq' = SubSeq(entries, taken + 1, Len(entries))
        /\ UNCHANGED submit_failures

\* io_uring_submit returns a negative errno.
io_uring_submit_fails(entries) ==
    /\ submit_failures < MaxSubmitFailures
    /\ submit_failures' = submit_failures + 1
    /\ sq' = entries
    /\ UNCHANGED inflight

\* The kernel finishes an operation, in any order.  The signalfd read ends
\* with a terminating signal, another signal, or less than a siginfo.
KernelCompletes(op) ==
    /\ op \in inflight
    /\ inflight' = inflight \ {op}
    /\ \E res \in IF op = SignalRead THEN {"term", "other", "short"}
                                     ELSE {"done"} :
            cq' = Append(cq, [op |-> op, res |-> res])
    /\ UNCHANGED <<schedVars, sq, calls, io_result, sysret, submit_failures,
                   exited>>

-----------------------------------------------------------------------------
(* Threads: rr_io_submit_*_and_wait.                                       *)

\* Mutant of Sqe: the entry keeps the tag of main.
SqeUntagged(t) == [user_data |-> 1, n |-> calls[t] + 1]

\* The entry a wrapper prepares for its caller.
Sqe(t) == [user_data |-> t, n |-> calls[t] + 1]

CallBegins == calls' = [calls EXCEPT ![g_current] = @ + 1]

\* The wrapper sees -1 before it could block.
CallFails ==
    /\ sysret' = [by |-> g_current, n |-> calls[g_current] + 1, res |-> Failed]
    /\ UNCHANGED schedVars

\* get_sqe, prep, submit_and_block up to the block.
IoSubmits ==
    LET entries == Append(sq, Sqe(g_current)) IN
    /\ AppRuns
    /\ calls[g_current] < MaxCalls
    /\ CallBegins
    /\ \/ /\ ~SqFull
          /\ io_uring_submit(entries)
          /\ IoBlocks
          /\ UNCHANGED sysret
       \/ /\ ~SqFull
          /\ io_uring_submit_fails(entries)
          /\ CallFails
       \/ /\ SqFull
          /\ CallFails
          /\ UNCHANGED <<sq, inflight, submit_failures>>
    /\ UNCHANGED <<cq, io_result, exited>>

\* submit_and_block after the block: return ut->io_result.
IoDelivers ==
    /\ IoReturns
    /\ sysret' = [by |-> g_current, n |-> calls[g_current],
                  res |-> io_result[g_current]]
    /\ UNCHANGED <<sq, inflight, cq, calls, io_result, submit_failures, exited>>

-----------------------------------------------------------------------------
(* The scheduler context: rr_io_wait.                                      *)

\* Mutant of rr_io_submit_signal_read: the read is not submitted again.
SignalNotRearmed == UNCHANGED <<sq, inflight, submit_failures>>

\* rr_io_submit_signal_read; rr_io_wait ignores its result.
rr_io_submit_signal_read ==
    \/ SqFull /\ UNCHANGED <<sq, inflight, submit_failures>>
    \/ /\ ~SqFull
       /\ \/ io_uring_submit(Append(sq, SignalRead))
          \/ io_uring_submit_fails(Append(sq, SignalRead))

\* rr_signal_process on SIGINT or SIGTERM: _exit.
SignalTerminates ==
    /\ Idle
    /\ cq # <<>>
    /\ Head(cq).op = SignalRead
    /\ Head(cq).res = "term"
    /\ exited' = TRUE
    /\ UNCHANGED <<schedVars, sq, inflight, cq, calls, io_result, sysret,
                   submit_failures>>

\* Any other completion of the signalfd read: read again.
SignalRearms ==
    /\ Idle
    /\ cq # <<>>
    /\ Head(cq).op = SignalRead
    /\ Head(cq).res # "term"
    /\ rr_io_submit_signal_read
    /\ cq' = Tail(cq)
    /\ UNCHANGED <<schedVars, calls, io_result, sysret, exited>>

\* A completion of a system call: rr_scheduler_wake_by_id(cqe->user_data).
CompletionWakes ==
    /\ Idle
    /\ cq # <<>>
    /\ LET op == Head(cq).op IN
        /\ op # SignalRead
        /\ rr_scheduler_wake_by_id(op.user_data)
        /\ io_result' = IF state[op.user_data] = "BLOCKED"
                        THEN [io_result EXCEPT ![op.user_data] = op.n]
                        ELSE io_result
    /\ cq' = Tail(cq)
    /\ UNCHANGED <<g_next_id, g_current, running, join_waiter, retval, call,
                   ret, sq, inflight, calls, sysret, submit_failures, exited>>

rr_io_wait == SignalTerminates \/ SignalRearms \/ CompletionWakes

\* What the application and the scheduler do without touching the ring.
SchedulerStep ==
    /\ \/ Create
       \/ Yield
       \/ \E id \in Ids : JoinRefused(id)
       \/ \E id \in Ids : JoinFinished(id)
       \/ \E id \in Ids : JoinBlocks(id)
       \/ JoinReturns
       \/ \E v \in Retvals : Exit(v)
       \/ Dispatch
    /\ UNCHANGED ringVars

NextRing ==
    /\ ~exited
    /\ \/ SchedulerStep
       \/ IoSubmits
       \/ IoDelivers
       \/ rr_io_wait
       \/ \E op \in inflight : KernelCompletes(op)

RingSpec == InitRing /\ [][NextRing]_ioVars

\* The scheduler loop always goes on, a thread that has control finishes the
\* call it is in, and (scheduling being cooperative) gives up the CPU in the
\* end.  Nothing is assumed of the kernel: an operation may stay in flight.
FairRingSpec ==
    /\ RingSpec
    /\ WF_ioVars(~exited /\ Dispatch /\ UNCHANGED ringVars)
    /\ WF_ioVars(~exited /\ JoinReturns /\ UNCHANGED ringVars)
    /\ WF_ioVars(~exited /\ IoDelivers)
    /\ WF_ioVars(~exited /\ LeavesCpu /\ UNCHANGED ringVars)
    /\ WF_ioVars(~exited /\ rr_io_wait)

-----------------------------------------------------------------------------
(* Properties.                                                             *)

Ops == [user_data : 0..MaxThreads, n : 0..MaxCalls]

\* Every ring variable has its type.
RingTypeOK ==
    /\ sq \in Seq(Ops) /\ Len(sq) <= SqEntries
    /\ inflight \subseteq Ops
    /\ cq \in Seq([op : Ops, res : {"done", "term", "other", "short"}])
    /\ calls \in [Ids -> 0..MaxCalls]
    /\ io_result \in [Ids -> 0..MaxCalls]
    /\ sysret \in [by : 0..MaxThreads, n : 0..MaxCalls, res : 0..MaxCalls]
    /\ submit_failures \in 0..MaxSubmitFailures
    /\ exited \in BOOLEAN

SqIndexes(op) == {i \in DOMAIN sq : sq[i] = op}
CqIndexes(op) == {i \in DOMAIN cq : cq[i].op = op}
Pending(op) == SqIndexes(op) # {} \/ op \in inflight \/ CqIndexes(op) # {}

\* No lost completion: a thread blocked in a system call has the operation of
\* that very call in the ring, whatever submits failed and whatever stale
\* completions came before.
BlockedCallIsPending ==
    \A t \in Ids : state[t] = "BLOCKED" /\ call[t].kind = "io"
                    => Pending([user_data |-> t, n |-> calls[t]])

\* A system call returns the result of the operation it submitted, or the
\* failure to submit, and never what another call of the thread left behind.
ResultIsOwn == sysret.res \in {Failed, sysret.n}

SignalReads ==
    Cardinality(SqIndexes(SignalRead)) + Cardinality(CqIndexes(SignalRead))
        + (IF SignalRead \in inflight THEN 1 ELSE 0)

\* One signalfd read is in the ring, never two (they share g_signal_info) and
\* never none: rr_io_wait ignores a failure to submit it again, and what
\* saves it is that the entry stays queued for the next submit.  Only when
\* SqEntries submits have failed can the read be lost.
OneSignalRead ==
    /\ SignalReads <= 1
    /\ submit_failures < SqEntries => SignalReads = 1

\* A join that returned 0 handed over what the target passed to uthread_exit:
\* the target has finished.
JoinOkMeansDone == ret.res = "ok" => state[ret.of] = "DONE"

\* The ring holds no operation of t but that of the call t is blocked in.
OwnOpsOnly(t) ==
    \A op \in Ops : op.user_data = t /\ Pending(op) =>
        op.n = calls[t] /\ state[t] = "BLOCKED" /\ call[t] = InIo

\* No live thread names t as its waiter but the one t is blocked joining.
OwnJoinOnly(t) ==
    \A b \in Ids : state[b] # "DONE" /\ join_waiter[b] = t =>
        state[t] = "BLOCKED" /\ call[t] = InJoin(b)

\* What a call of t is about to return, and what the latest one returned, is
\* the result of its own operation, or the end of the thread it joined.
ReturnsRight(t) ==
    /\ call[t] = InIo /\ state[t] # "BLOCKED" => io_result[t] = calls[t]
    /\ call[t].kind = "join" /\ state[t] # "BLOCKED"
            => state[call[t].arg] = "DONE"
    /\ sysret.by = t => sysret.res \in {Failed, sysret.n}
    /\ ret.by = t /\ ret.res = "ok" => state[ret.of] = "DONE"

Sound(t) == OwnOpsOnly(t) /\ OwnJoinOnly(t) /\ ReturnsRight(t)

\* io_uring_submit fails in a system call of t.
SubmitFailsIn(t) ==
    AppRuns /\ g_current = t /\ submit_failures' # submit_failures

\* A failing submit harms nobody but the thread whose call it was.  Only that
\* can make a later call of a thread return what is not its own, or a join of
\* it return early; the submits and stale completions of others cannot.
FaultsStayLocal ==
    [][\A t \in Ids : Sound(t) => Sound(t)' \/ SubmitFailsIn(t)]_ioVars

\* The ring keeps the contract Scheduler states for it.
ImplementsScheduler == SchedulerSpec

\* A thread whose system call has completed gets to run.
CompletedCallRuns ==
    \A t \in Ids :
        /\ state[t] = "BLOCKED"
        /\ \E i \in DOMAIN cq : cq[i].op = [user_data |-> t, n |-> calls[t]]
        ~> state[t] = "RUNNING" \/ exited

\* It does if the run queue keeps becoming empty.
CompletedCallRunsIfIdle == []<>Idle => CompletedCallRuns

=============================================================================
