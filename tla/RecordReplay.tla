---------------------------- MODULE RecordReplay ----------------------------
(***************************************************************************)
(* A program recorded with RR_MODE=record and run again with               *)
(* RR_MODE=replay: the scheduler of scheduler.c, the events it and the     *)
(* wrappers of syscall_wrappers.c log, and the checks of replay.c when     *)
(* they are read back.                                                     *)
(*                                                                         *)
(* The program is deterministic: what a thread does next depends on what   *)
(* its calls have returned.  The recording chooses what each thread does   *)
(* and keeps it in script; the replay follows the script.  Once a call     *)
(* returns something else than it did in the recording the program could   *)
(* do anything, and the properties have already failed.                    *)
(*                                                                         *)
(* A wrapper is "direct" when it calls the kernel itself and "blocking"    *)
(* when it goes through the ring.  The result of a system call is the      *)
(* number of its event.  Bytes, and what damage does to them, are          *)
(* EventLog's; here no event is lost.                                      *)
(***************************************************************************)
EXTENDS Scheduler, FiniteSets

CONSTANTS
    MaxOps,             \* bound on the calls of one thread
    MaxBlocking,        \* bound on the blocking system calls of the program
    MaxSignals          \* bound on the signals received

ASSUME ProgramAssumption ==
    MaxOps \in Nat /\ MaxBlocking \in Nat /\ MaxSignals \in Nat

VARIABLES
    mode,               \* "record", "replay", "finished" or "aborted"
    script,             \* script[t]: the calls t makes, in order
    pc,                 \* pc[t]: the next call of t in the replay
    log,                \* the events recorded
    pos,                \* the next event the replay reads
    recorded,           \* recorded[t]: what t's calls returned when recorded
    replayed,           \* replayed[t]: what they returned in the replay
    overlapped          \* an event was logged inside another thread's call

programVars == <<script, pc>>
logVars == <<log, pos, overlapped>>
resultVars == <<recorded, replayed>>
rrVars == <<schedVars, mode, programVars, logVars, resultVars>>

\* What rr_log_sched, rr_log_syscall and rr_log_signal write.
EvSched(from, to) == [type |-> "EV_SCHED", id |-> to, arg |-> from]
EvSyscall(id, nr) == [type |-> "EV_SYSCALL", id |-> id, arg |-> nr]
EvSignal(id) == [type |-> "EV_SIGNAL", id |-> id, arg |-> 0]

direct == 1
blocking == 2
\* What a thread sees of its calls: a number for a system call, 0 when its
\* event did not match and the wrapper returned -1.
Created(id) == <<"create", id>>
Joined(r) == <<"join", r.res, r.out>>
SysResult(n) == <<"syscall", n>>
Diverged == 0

\* rr_init in record mode: rr_log_sched(0, 1).
RRInit ==
    /\ Init
    /\ mode = "record"
    /\ script = [t \in Ids |-> <<>>]
    /\ pc = [t \in Ids |-> 1]
    /\ log = <<EvSched(0, 1)>>
    /\ pos = 1
    /\ recorded = [t \in Ids |-> <<>>]
    /\ replayed = [t \in Ids |-> <<>>]
    /\ overlapped = FALSE

-----------------------------------------------------------------------------
(* The program.                                                            *)

Does(op) ==
    \/ /\ mode = "record"
       /\ Len(script[g_current]) < MaxOps
       /\ script' = [script EXCEPT ![g_current] = Append(@, op)]
       /\ UNCHANGED pc
    \/ /\ mode = "replay"
       /\ pc[g_current] \in DOMAIN script[g_current]
       /\ script[g_current][pc[g_current]] = op
       /\ pc' = [pc EXCEPT ![g_current] = @ + 1]
       /\ UNCHANGED script

\* g_current's call returns r.
Sees(r) ==
    IF mode = "record"
    THEN /\ recorded' = [recorded EXCEPT ![g_current] = Append(@, r)]
         /\ UNCHANGED replayed
    ELSE /\ replayed' = [replayed EXCEPT ![g_current] = Append(@, r)]
         /\ UNCHANGED recorded

\* The calls of rr.h, which log nothing.  uthread_create succeeds.
CreateCall ==
    /\ Create /\ state' # state
    /\ Does(<<"create">>)
    /\ Sees(Created(g_next_id))

YieldCall == Yield /\ Does(<<"yield">>) /\ UNCHANGED resultVars

ExitCall(v) == Exit(v) /\ Does(<<"exit", v>>) /\ UNCHANGED resultVars

JoinCall(id) ==
    /\ Does(<<"join", id>>)
    /\ \/ (JoinRefused(id) \/ JoinFinished(id)) /\ Sees(Joined(ret'))
       \/ JoinBlocks(id) /\ UNCHANGED resultVars

JoinCallReturns == JoinReturns /\ Sees(Joined(ret')) /\ UNCHANGED programVars

UthreadCall ==
    /\ mode \in {"record", "replay"}
    /\ \/ CreateCall
       \/ YieldCall
       \/ \E v \in Retvals : ExitCall(v)
       \/ \E id \in Ids : JoinCall(id)
       \/ JoinCallReturns
    /\ UNCHANGED <<mode, logVars>>

-----------------------------------------------------------------------------
(* Recording.                                                              *)

\* An event is appended; overlapped notes that another call was in progress.
Logs(ev) ==
    /\ log' = Append(log, ev)
    /\ overlapped' = (overlapped \/ \E t \in Ids : call'[t].kind = "io")
    /\ UNCHANGED pos

\* A wrapper that calls the kernel itself and logs the result.
SyscallDirect ==
    /\ mode = "record"
    /\ AppRuns
    /\ Does(<<"syscall", direct>>)
    /\ UNCHANGED <<schedVars, mode>>
    /\ Logs(EvSyscall(g_current, direct))
    /\ Sees(SysResult(Len(log')))

Blockings == {e \in (Ids \X (1..MaxOps)) :
                /\ e[2] \in DOMAIN script[e[1]]
                /\ script[e[1]][e[2]] = <<"syscall", blocking>>}

\* A wrapper that goes through the ring: it blocks first and logs when it is
\* back.
SyscallSubmits ==
    /\ mode = "record"
    /\ Cardinality(Blockings) < MaxBlocking
    /\ IoBlocks
    /\ Does(<<"syscall", blocking>>)
    /\ UNCHANGED <<mode, logVars, resultVars>>

SyscallReturns ==
    /\ mode = "record"
    /\ IoReturns
    /\ Logs(EvSyscall(g_current, blocking))
    /\ Sees(SysResult(Len(log')))
    /\ UNCHANGED <<mode, programVars>>

\* A completion: rr_io_wait wakes the thread.
CompletionRecorded ==
    /\ mode = "record"
    /\ \E id \in Ids : IoWakes(id)
    /\ UNCHANGED <<mode, programVars, logVars, resultVars>>

\* rr_signal_process logs a signal, when the scheduler is idle.
SignalRecorded ==
    /\ mode = "record"
    /\ Idle
    /\ Len(SelectSeq(log, LAMBDA e : e.type = "EV_SIGNAL")) < MaxSignals
    /\ UNCHANGED schedVars
    /\ Logs(EvSignal(g_current))
    /\ UNCHANGED <<mode, programVars, resultVars>>

\* Mutant of DispatchRecorded: logs the switch as it was before.
DispatchRecordedStale ==
    /\ mode = "record"
    /\ Dispatch
    /\ IF g_current' # g_current THEN Logs(EvSched(g_current, g_current))
                                 ELSE UNCHANGED logVars
    /\ UNCHANGED <<mode, programVars, resultVars>>

\* scheduler_loop logs a switch to another thread, not one back to the same.
DispatchRecorded ==
    /\ mode = "record"
    /\ Dispatch
    /\ IF g_current' # g_current THEN Logs(EvSched(g_current, g_current'))
                                 ELSE UNCHANGED logVars
    /\ UNCHANGED <<mode, programVars, resultVars>>

-----------------------------------------------------------------------------
(* Replaying.                                                              *)

NextIs(ev) == pos <= Len(log) /\ log[pos] = ev

\* rr_replay_expect_sched: does the log allow this switch.
rr_replay_expect_sched(from, to) == NextIs(EvSched(from, to))

\* rr_replay_next_syscall: the result of g_current's call nr.  An event of
\* another type, call or thread makes the wrapper return -1.
rr_replay_next_syscall(nr) ==
    SysResult(IF NextIs(EvSyscall(g_current, nr)) THEN pos ELSE Diverged)

\* rr_replay_next_event moves on whether or not the event is the right one.
Consumes ==
    /\ pos' = IF pos <= Len(log) THEN pos + 1 ELSE pos
    /\ UNCHANGED <<log, overlapped>>

\* rr_uthread_init_main in the new process: the state Init describes.
Restart ==
    /\ g_next_id' = 2
    /\ state' = [t \in Ids |-> IF t = 1 THEN "RUNNING" ELSE "NONE"]
    /\ g_runq' = <<>>
    /\ g_current' = 1
    /\ running' = TRUE
    /\ join_waiter' = [t \in Ids |-> NoThread]
    /\ retval' = [t \in Ids |-> NULL]
    /\ call' = [t \in Ids |-> InApp]
    /\ ret' = [by |-> 0, of |-> 0, res |-> "none", out |-> NULL]

\* main returns: the process ends.  The recorded one is followed by the
\* replay, whose rr_init expects the switch to main; the replay by nothing.
MainReturns ==
    /\ AppRuns /\ g_current = 1
    /\ Does(<<"return">>)
    /\ \/ /\ mode = "record"
          /\ Restart
          /\ mode' = IF rr_replay_expect_sched(0, 1) THEN "replay" ELSE "aborted"
          /\ Consumes
       \/ /\ mode = "replay"
          /\ mode' = "finished"
          /\ UNCHANGED <<schedVars, logVars>>
    /\ UNCHANGED resultVars

\* Mutant of SyscallReplayed: the event stays in the log.
SyscallReplayedNoConsume ==
    \E nr \in {direct, blocking} :
        /\ mode = "replay"
        /\ AppRuns
        /\ Does(<<"syscall", nr>>)
        /\ Sees(rr_replay_next_syscall(nr))
        /\ UNCHANGED <<schedVars, mode, logVars>>

\* replay_get_event: both kinds of wrapper take their result from the log at
\* once, and nothing blocks.
SyscallReplayed ==
    \E nr \in {direct, blocking} :
        /\ mode = "replay"
        /\ AppRuns
        /\ Does(<<"syscall", nr>>)
        /\ Sees(rr_replay_next_syscall(nr))
        /\ Consumes
        /\ UNCHANGED <<schedVars, mode>>

\* scheduler_loop with rr_replay_expect_sched: a mismatch aborts.
DispatchReplayed ==
    /\ mode = "replay"
    /\ ~running /\ g_runq # <<>>
    /\ LET to == Head(g_runq) IN
        \/ /\ to = g_current
           /\ Dispatch
           /\ UNCHANGED <<mode, logVars>>
        \/ /\ to # g_current
           /\ rr_replay_expect_sched(g_current, to)
           /\ Dispatch
           /\ Consumes
           /\ UNCHANGED mode
        \/ /\ to # g_current
           /\ ~rr_replay_expect_sched(g_current, to)
           /\ mode' = "aborted"
           /\ Consumes
           /\ UNCHANGED schedVars
    /\ UNCHANGED <<programVars, resultVars>>

RRNext ==
    \/ UthreadCall
    \/ SyscallDirect
    \/ SyscallSubmits
    \/ SyscallReturns
    \/ CompletionRecorded
    \/ SignalRecorded
    \/ DispatchRecorded
    \/ MainReturns
    \/ SyscallReplayed
    \/ DispatchReplayed

RRSpec == RRInit /\ [][RRNext]_rrVars

\* The replay never waits for anything outside the process, so it goes on as
\* long as it can.  Nothing is assumed of the recording.
FairRRSpec == RRSpec /\ WF_rrVars(mode = "replay" /\ RRNext)

-----------------------------------------------------------------------------
(* Properties.                                                             *)

\* In every log, an event of a system call or a signal carries the id of the
\* thread the latest EV_SCHED switched to: the log alone says who made the
\* call, and who ran last when a signal came.
LogNamesRunner ==
    \A i \in DOMAIN log : log[i].type # "EV_SCHED" =>
        LET s == CHOOSE j \in 1..i :
                    /\ log[j].type = "EV_SCHED"
                    /\ \A k \in (j + 1)..i : log[k].type # "EV_SCHED"
        IN log[s].id = log[i].id

\* The replay makes the switches of the recording and every call returns what
\* it returned then: a finished replay has returned all of it and has read the
\* log to its end.
ReplayIsExact ==
    /\ mode # "aborted"
    /\ \A t \in Ids : \A i \in DOMAIN replayed[t] :
            i \in DOMAIN recorded[t] /\ replayed[t][i] = recorded[t][i]
    /\ mode = "finished" => replayed = recorded /\ pos = Len(log) + 1

\* It does for every recording in which no event falls inside a system call of
\* another thread: any use of threads, yields and joins, and blocking calls
\* that nothing else overlaps.
ReplayIsExactAlone == ~overlapped => ReplayIsExact

\* Such a replay reaches its end.
ReplayFinishes == mode = "replay" /\ ~overlapped ~> mode = "finished"

=============================================================================
