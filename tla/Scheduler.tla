----------------------------- MODULE Scheduler ------------------------------
(***************************************************************************)
(* The cooperative M:1 scheduler of librr: src/librr/src/scheduler.c and   *)
(* the uthread operations of src/librr/src/uthread.c.                      *)
(*                                                                         *)
(* One kernel thread is either inside scheduler_loop (running = FALSE) or  *)
(* inside the context of g_current (running = TRUE).  Control changes      *)
(* hands only at swapcontext, so the code between two switches is one      *)
(* step.  Where a function switches away in its middle (a join that        *)
(* blocks, a system call that blocks), call[t] says which function t's     *)
(* context will resume in, and the rest of that function is an action of   *)
(* its own.                                                                *)
(*                                                                         *)
(* A thread that blocks in a system call is woken by rr_io_wait.  This     *)
(* module states the contract the scheduler relies on: a completion is     *)
(* reported only for a thread that is blocked in a system call.  IoRing    *)
(* models the ring that has to keep it.                                    *)
(***************************************************************************)
EXTENDS Naturals, Sequences

CONSTANTS
    MaxThreads,     \* bound on thread ids: ids are 1..MaxThreads, 1 is main
    Retvals,        \* values passed to uthread_exit
    NULL            \* the null pointer, one of Retvals

ASSUME MaxThreadsAssumption == MaxThreads \in Nat \ {0}
ASSUME RetvalsAssumption == NULL \in Retvals

VARIABLES
    g_next_id,      \* the id the next uthread_create takes
    state,          \* state[t]: ut_state_t, or "NONE" if t is not registered
    g_runq,         \* the run queue, head first
    g_current,      \* the thread last switched to
    running,        \* does g_current, rather than the scheduler, have control
    join_waiter,    \* join_waiter[t]: the thread blocked joining t, or 0
    retval,         \* retval[t]: what t passed to uthread_exit
    call,           \* call[t]: the function t resumes in
    ret             \* what the latest uthread_join returned, and to whom

schedVars ==
    <<g_next_id, state, g_runq, g_current, running, join_waiter, retval, call,
      ret>>

Ids == 1..MaxThreads
NoThread == 0

InApp == [kind |-> "app", arg |-> NoThread]
InIo == [kind |-> "io", arg |-> NoThread]
InJoin(id) == [kind |-> "join", arg |-> id]

\* rr_uthread_init_main: main is registered, running, and takes id 1.
Init ==
    /\ g_next_id = 2
    /\ state = [t \in Ids |-> IF t = 1 THEN "RUNNING" ELSE "NONE"]
    /\ g_runq = <<>>
    /\ g_current = 1
    /\ running = TRUE
    /\ join_waiter = [t \in Ids |-> NoThread]
    /\ retval = [t \in Ids |-> NULL]
    /\ call = [t \in Ids |-> InApp]
    /\ ret = [by |-> 0, of |-> 0, res |-> "none", out |-> NULL]

-----------------------------------------------------------------------------
(* Threads: uthread.c and the part of scheduler.c that runs in a thread.   *)

rr_scheduler_enqueue(q, ut) == Append(q, ut)

\* rr_scheduler_find walks g_threads: it finds the registered threads.
Registered(id) == state[id] # "NONE"

\* The application code of g_current has control.
AppRuns == running /\ call[g_current].kind = "app"

\* Mutant of Create: the counter is not advanced.
CreateReusesId ==
    /\ AppRuns
    /\ g_next_id \in Ids
    /\ state' = [state EXCEPT ![g_next_id] = "RUNNABLE"]
    /\ g_runq' = rr_scheduler_enqueue(g_runq, g_next_id)
    /\ UNCHANGED <<g_next_id, g_current, running, join_waiter, retval, call, ret>>

\* Mutant of Create: the id is read after the counter was advanced.
CreateReadsNextId ==
    /\ AppRuns
    /\ g_next_id \in Ids
    /\ g_next_id' = g_next_id + 1
    /\ state' = [state EXCEPT ![g_next_id] = "RUNNABLE"]
    /\ g_runq' = rr_scheduler_enqueue(g_runq, g_next_id + 1)
    /\ UNCHANGED <<g_current, running, join_waiter, retval, call, ret>>

\* uthread_create.  A step that fails after g_next_id++ leaves the id unused;
\* a failure before it changes nothing.  (Lifecycle has the tables
\* that such a failure leaves out of step.)
Create ==
    /\ AppRuns
    /\ g_next_id \in Ids
    /\ g_next_id' = g_next_id + 1
    /\ \/ /\ state' = [state EXCEPT ![g_next_id] = "RUNNABLE"]
          /\ g_runq' = rr_scheduler_enqueue(g_runq, g_next_id)
       \/ UNCHANGED <<state, g_runq>>
    /\ UNCHANGED <<g_current, running, join_waiter, retval, call, ret>>

\* rr_scheduler_yield_current
Yield ==
    /\ AppRuns
    /\ state' = [state EXCEPT ![g_current] = "RUNNABLE"]
    /\ g_runq' = rr_scheduler_enqueue(g_runq, g_current)
    /\ running' = FALSE
    /\ UNCHANGED <<g_next_id, g_current, join_waiter, retval, call, ret>>

\* Mutant of rr_scheduler_block_current: forgets the state change.
BlockStaysRunning(where) ==
    /\ call' = [call EXCEPT ![g_current] = where]
    /\ running' = FALSE
    /\ UNCHANGED <<state, g_next_id, g_runq, g_current, retval>>

\* rr_scheduler_block_current, called from the function where records.
rr_scheduler_block_current(where) ==
    /\ state' = [state EXCEPT ![g_current] = "BLOCKED"]
    /\ call' = [call EXCEPT ![g_current] = where]
    /\ running' = FALSE
    /\ UNCHANGED <<g_next_id, g_runq, g_current, retval>>

\* Mutant of JoinErrno: the check for another waiter is missing.
JoinErrnoNoBusy(id) ==
    IF ~Registered(id) THEN "ESRCH"
    ELSE IF id = g_current THEN "EDEADLK"
    ELSE "ok"

\* The early returns of rr_uthread_join, in the code's order.
JoinErrno(id) ==
    IF ~Registered(id) THEN "ESRCH"
    ELSE IF id = g_current THEN "EDEADLK"
    ELSE IF state[id] # "DONE" /\ join_waiter[id] \notin {NoThread, g_current}
         THEN "EBUSY"
    ELSE "ok"

JoinRefused(id) ==
    /\ AppRuns
    /\ JoinErrno(id) # "ok"
    /\ ret' = [by |-> g_current, of |-> id, res |-> JoinErrno(id),
               out |-> NULL]
    /\ UNCHANGED <<g_next_id, state, g_runq, g_current, running, join_waiter,
                   retval, call>>

\* The end of rr_uthread_join: *out = target->retval; return 0.
JoinDelivers(id) ==
    ret' = [by |-> g_current, of |-> id, res |-> "ok", out |-> retval[id]]

\* The target has already finished: no block.
JoinFinished(id) ==
    /\ AppRuns
    /\ JoinErrno(id) = "ok"
    /\ state[id] = "DONE"
    /\ JoinDelivers(id)
    /\ UNCHANGED <<g_next_id, state, g_runq, g_current, running, join_waiter,
                   retval, call>>

\* Mutant of JoinBlocks: the caller blocks without leaving its name.
JoinBlocksAnonymously(id) ==
    /\ AppRuns
    /\ JoinErrno(id) = "ok"
    /\ state[id] # "DONE"
    /\ rr_scheduler_block_current(InJoin(id))
    /\ UNCHANGED <<join_waiter, ret>>

\* Mutant of JoinBlocks: the two ends of the link are swapped.
JoinBlocksSwapped(id) ==
    /\ AppRuns
    /\ JoinErrno(id) = "ok"
    /\ state[id] # "DONE"
    /\ join_waiter' = [join_waiter EXCEPT ![g_current] = id]
    /\ rr_scheduler_block_current(InJoin(id))
    /\ UNCHANGED ret

\* The target is alive: the caller leaves its name in the target and blocks.
JoinBlocks(id) ==
    /\ AppRuns
    /\ JoinErrno(id) = "ok"
    /\ state[id] # "DONE"
    /\ join_waiter' = [join_waiter EXCEPT ![id] = g_current]
    /\ rr_scheduler_block_current(InJoin(id))
    /\ UNCHANGED ret

\* rr_uthread_join after the switch back.  It does not look at the target's
\* state again.
JoinReturns ==
    /\ running
    /\ call[g_current].kind = "join"
    /\ JoinDelivers(call[g_current].arg)
    /\ call' = [call EXCEPT ![g_current] = InApp]
    /\ UNCHANGED <<g_next_id, state, g_runq, g_current, running, join_waiter,
                   retval>>

\* A system call submits its operation and blocks; later it returns.
IoBlocks ==
    /\ AppRuns
    /\ rr_scheduler_block_current(InIo)
    /\ UNCHANGED <<join_waiter, ret>>

IoReturns ==
    /\ running
    /\ call[g_current].kind = "io"
    /\ call' = [call EXCEPT ![g_current] = InApp]
    /\ UNCHANGED <<g_next_id, state, g_runq, g_current, running, join_waiter,
                   retval, ret>>

\* Mutant of Exit: the waiter is not woken.
ExitForgetsWaiter(v) ==
    /\ AppRuns
    /\ retval' = [retval EXCEPT ![g_current] = v]
    /\ state' = [state EXCEPT ![g_current] = "DONE"]
    /\ running' = FALSE
    /\ UNCHANGED <<g_next_id, g_runq, g_current, join_waiter, call, ret>>

\* Mutant of Exit: the waiter is enqueued but stays BLOCKED.
ExitLeavesWaiterBlocked(v) ==
    LET w == join_waiter[g_current] IN
    /\ AppRuns
    /\ retval' = [retval EXCEPT ![g_current] = v]
    /\ state' = [state EXCEPT ![g_current] = "DONE"]
    /\ g_runq' = IF w # NoThread THEN rr_scheduler_enqueue(g_runq, w)
                                 ELSE g_runq
    /\ running' = FALSE
    /\ UNCHANGED <<g_next_id, g_current, join_waiter, call, ret>>

\* rr_scheduler_exit_current
Exit(v) ==
    LET w == join_waiter[g_current]
        wakes == w # NoThread /\ state[w] = "BLOCKED"
    IN
    /\ AppRuns
    /\ retval' = [retval EXCEPT ![g_current] = v]
    /\ state' = [t \in Ids |-> IF t = g_current THEN "DONE"
                               ELSE IF wakes /\ t = w THEN "RUNNABLE"
                               ELSE state[t]]
    /\ g_runq' = IF wakes THEN rr_scheduler_enqueue(g_runq, w) ELSE g_runq
    /\ running' = FALSE
    /\ UNCHANGED <<g_next_id, g_current, join_waiter, call, ret>>

-----------------------------------------------------------------------------
(* The scheduler context: scheduler_loop.                                  *)

\* The rest of a turn: the switch to ut, unless it is not RUNNABLE.
SwitchTo(ut) ==
    /\ IF state[ut] = "RUNNABLE"
       THEN /\ g_current' = ut
            /\ state' = [state EXCEPT ![ut] = "RUNNING"]
            /\ running' = TRUE
       ELSE UNCHANGED <<g_current, state, running>>
    /\ UNCHANGED <<g_next_id, join_waiter, retval, call, ret>>

\* One turn of scheduler_loop with a non-empty queue: runq_pop_front, then
\* the switch.
Dispatch ==
    /\ ~running
    /\ g_runq # <<>>
    /\ g_runq' = Tail(g_runq)
    /\ SwitchTo(Head(g_runq))

\* scheduler_loop calls rr_io_wait only when the run queue is empty.
Idle == ~running /\ g_runq = <<>>

\* Mutant of rr_scheduler_wake_by_id: wakes whatever the state is.
WakeUnchecked(id) ==
    /\ state' = [state EXCEPT ![id] = "RUNNABLE"]
    /\ g_runq' = rr_scheduler_enqueue(g_runq, id)

\* Mutant of rr_scheduler_wake_by_id: the woken thread is not enqueued.
WakeNotQueued(id) ==
    IF state[id] = "BLOCKED"
    THEN state' = [state EXCEPT ![id] = "RUNNABLE"] /\ UNCHANGED g_runq
    ELSE UNCHANGED <<state, g_runq>>

\* rr_scheduler_wake_by_id: only a BLOCKED thread is woken.
rr_scheduler_wake_by_id(id) ==
    IF state[id] = "BLOCKED"
    THEN /\ state' = [state EXCEPT ![id] = "RUNNABLE"]
         /\ g_runq' = rr_scheduler_enqueue(g_runq, id)
    ELSE UNCHANGED <<state, g_runq>>

\* A completion for a thread blocked in a system call: rr_io_wait, when the
\* run queue is empty.
Completes(id) ==
    /\ call[id].kind = "io"
    /\ rr_scheduler_wake_by_id(id)
    /\ UNCHANGED <<g_next_id, g_current, running, join_waiter, retval, call,
                   ret>>

IoWakes(id) == Idle /\ Completes(id)

Next ==
    \/ Create
    \/ Yield
    \/ \E id \in Ids : JoinRefused(id)
    \/ \E id \in Ids : JoinFinished(id)
    \/ \E id \in Ids : JoinBlocks(id)
    \/ JoinReturns
    \/ IoBlocks
    \/ IoReturns
    \/ \E v \in Retvals : Exit(v)
    \/ Dispatch
    \/ \E id \in Ids : IoWakes(id)

SchedulerSpec == Init /\ [][Next]_schedVars

\* Scheduling is cooperative: the application is taken to give up the CPU
\* eventually, by one of the calls that switch to the scheduler.
LeavesCpu ==
    Yield \/ IoBlocks \/ (\E id \in Ids : JoinBlocks(id))
          \/ (\E v \in Retvals : Exit(v))

-----------------------------------------------------------------------------
(* Properties.                                                             *)

Calls == {InApp, InIo} \cup {InJoin(id) : id \in Ids}

Joins ==
    [by : 0..MaxThreads, of : 0..MaxThreads,
     res : {"none", "ok", "ESRCH", "EDEADLK", "EBUSY"}, out : Retvals]

\* Every variable has the type its C declaration gives it.
TypeOK ==
    /\ g_next_id \in Nat \ {0, 1}
    /\ state \in [Ids -> {"NONE", "RUNNABLE", "RUNNING", "BLOCKED", "DONE"}]
    /\ g_runq \in Seq(Ids)
    /\ g_current \in Ids
    /\ running \in BOOLEAN
    /\ join_waiter \in [Ids -> 0..MaxThreads]
    /\ retval \in [Ids -> Retvals]
    /\ call \in [Ids -> Calls]
    /\ ret \in Joins

\* The run queue holds exactly the RUNNABLE threads, each once.  The queue is
\* threaded through uthread_t.next, so a second enqueue of a queued thread
\* would cut the list, and a RUNNABLE thread outside it would never run.
RunQueueExact ==
    /\ \A i, j \in DOMAIN g_runq : g_runq[i] = g_runq[j] => i = j
    /\ \A i \in DOMAIN g_runq : state[g_runq[i]] = "RUNNABLE"
    /\ \A t \in Ids : state[t] = "RUNNABLE"
                        => \E i \in DOMAIN g_runq : g_runq[i] = t

\* One thread at most is RUNNING, it is g_current, and it is the one that has
\* control: rr_scheduler_current() names the caller in every wrapper.
OneRunning ==
    /\ running => state[g_current] = "RUNNING"
    /\ \A t \in Ids : state[t] = "RUNNING" => running /\ t = g_current

\* No lost wakeup: a thread blocked in uthread_join is named by a target that
\* has yet to finish, so some future rr_scheduler_exit_current wakes it.
JoinerHasWaker ==
    \A t \in Ids : state[t] = "BLOCKED" /\ call[t].kind = "join" =>
        LET target == call[t].arg IN
        /\ state[target] \notin {"NONE", "DONE"}
        /\ join_waiter[target] = t

\* A thread that left the block in uthread_join finds its target finished,
\* although rr_uthread_join does not check again after the switch.
JoinerSeesDone ==
    \A t \in Ids :
        call[t].kind = "join" /\ state[t] \in {"RUNNABLE", "RUNNING"}
        => state[call[t].arg] = "DONE"

\* The link is exact: while a thread lives, the waiter it names is blocked in
\* the join of that thread and of no other, so the UT_BLOCKED test in
\* rr_scheduler_exit_current never wakes a thread that blocks elsewhere.
WaiterIsJoining ==
    \A t \in Ids : state[t] # "DONE" /\ join_waiter[t] # NoThread =>
        /\ state[join_waiter[t]] = "BLOCKED"
        /\ call[join_waiter[t]] = InJoin(t)

\* A thread blocks only inside a call, only a thread that has started and not
\* finished is inside one, none joins itself, and ids not given out are free.
CallMatchesState ==
    \A t \in Ids :
        /\ state[t] = "BLOCKED" => call[t].kind # "app"
        /\ state[t] \in {"NONE", "DONE"} => call[t] = InApp
        /\ call[t].arg # t
        /\ t >= g_next_id => state[t] = "NONE"

\* When nothing can run and no system call is pending, the threads that have
\* not finished wait for each other in a ring of joins (uthread_join refuses
\* only the ring of length one): nobody is stuck for any other reason.
StuckOnlyInJoinRing ==
    Idle /\ (\A t \in Ids : state[t] = "BLOCKED" => call[t].kind # "io") =>
        LET stuck == {t \in Ids : state[t] \notin {"NONE", "DONE"}} IN
        \A t \in stuck : call[t].kind = "join" /\ call[t].arg \in stuck

\* A finished thread stays finished and its return value stays what it was,
\* for any join that comes later.
DoneIsFinal ==
    [][\A t \in Ids : state[t] = "DONE" =>
            state'[t] = "DONE" /\ retval'[t] = retval[t]]_schedVars

\* FIFO order: a RUNNABLE thread is dispatched, however often others yield.
EveryRunnableRuns ==
    \A t \in Ids : state[t] = "RUNNABLE" ~> state[t] = "RUNNING"

\* Once the target has finished, the join that waits for it returns.
JoinCompletes ==
    \A t, id \in Ids :
        call[t] = InJoin(id) /\ state[id] = "DONE" ~> call[t] = InApp

-----------------------------------------------------------------------------
(* The refinement mapping to UthreadApi.                                   *)

status ==
    [t \in Ids |-> IF state[t] = "NONE" THEN "none"
                   ELSE IF state[t] = "DONE" THEN "done"
                   ELSE "live"]

waiting == [t \in Ids |-> call[t].arg]

Api == INSTANCE UthreadApi WITH result <- retval

\* The scheduler keeps the promises of the uthread API.
ImplementsApi == Api!Spec

=============================================================================
