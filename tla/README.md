# A TLA+ model of librr

librr runs a multithreaded program on one kernel thread: user-level threads
(uthreads) with a cooperative scheduler, system calls made asynchronous with
io_uring, and a log of scheduling decisions and system call results from which a
run can be replayed. This directory specifies it in TLA+, checks small instances
with TLC, and proves with TLAPS that its safety properties hold for any number of
threads, calls and events.

## The system

| part | source (`src/librr/src/`) | state | operations |
|---|---|---|---|
| uthread API | `uthread.c` | `g_next_id`, `g_allocated`; per thread `state`, `retval`, `join_waiter`, stack, context | `uthread_create`, `_yield`, `_exit`, `_join` |
| scheduler | `scheduler.c` | run queue (a list through `uthread_t.next`), `g_current`, `g_threads` | `scheduler_loop`, yield, block, exit, wake, enqueue |
| asynchronous I/O | `io_uring.c` | the ring, `io_result` of each thread | `rr_io_submit_*_and_wait`, `rr_io_wait`, the signalfd read |
| recording | `record.c` | 4 MiB buffer, sequence number, log file | `rr_log_*`, append, flush, shutdown |
| replay | `replay.c` | file position, expected sequence number | `rr_replay_init`, `_next_event`, `_expect_sched`, `_next_syscall` |
| wrappers | `syscall_wrappers.c` | virtual time | one function per interposed libc call |
| signals | `signal.c` | mask, signalfd, alternate stack, `g_guard_pages` | `rr_signal_process`, `segv_handler`, guard registration |
| life cycle | `init.c` | mode, ready flag | `rr_init`, `rr_shutdown` |
| debug output | `log.c` | none | formats and writes |

How they interact. A wrapper called in record mode prepares a submission entry
tagged with the thread's id, submits it and blocks the thread. The scheduler
takes the next thread from the run queue; only when the queue is empty does it
call `rr_io_wait`, which waits for one completion and wakes the thread it names,
or handles a signal. Every switch to a different thread and every system call
result is logged; in replay mode wrappers take results from the log and the
scheduler compares its switches with it. `rr_init` and `rr_shutdown` build all
of this up and take it down.

`PROJECT.json` lists what is hard about it, each hazard with its line: wake-ups
that may be lost or go to the wrong call, a queue that breaks when a thread is
enqueued twice, failing and partial submits, starvation of completions, rings of
joins, a process that dies with events in its buffer, writes that fail inside an
event, the order of events in the log against the order in which the replay asks
for them, initialisations and creations that fail half-way, and conversions that
lose something at a boundary.

## Modules

| module | models |
|---|---|
| `UthreadApi` | abstract: what `rr.h` promises, without a scheduler |
| `Scheduler` | `scheduler.c` and `uthread.c`, the run queue a sequence; implements `UthreadApi` |
| `RunList` | the run queue as the linked list of `scheduler.c`; implements `Scheduler` |
| `IoRing` | `io_uring.c` and the signal handling of `rr_io_wait`, on top of `Scheduler` |
| `EventLog` | `record.c` and `replay.c` at the level of the bytes of the file |
| `RecordReplay` | a program recorded and replayed: `Scheduler` with the events of the wrappers, the scheduler and the signal handler |
| `Wrappers` | `syscall_wrappers.c`: each call's conversions, recorded and replayed; `nanosleep` |
| `Lifecycle` | `rr_init`, the thread and guard page tables, `segv_handler`, and the ends of the process |
| `*Proofs` | one for each module above but `UthreadApi`: its theorems |
| `RingFaultProofs` | more theorems about `IoRing`: what failing submits leave intact |
| `MC*` | the instances TLC checks |

**Steps.** There is one kernel thread and no preemption, so code between two
`swapcontext` calls is one action. `running` tells whether `g_current` or the
scheduler has control. A function that switches away in its middle is two
actions: `JoinBlocks` and `JoinReturns`, `IoSubmits` and `IoDelivers`,
`SleepBegins` and `SleepEnds`; `call[t]` remembers which of them `t` will resume
in. In `Lifecycle` each step of `rr_init` is an action, with its failure and the
undoing that follows as an alternative. Names follow the C code. Definitions
commented "Mutant of X" are plausible bugs in X, each of which must break a
property; nothing else uses them.

**Abstractions.**

- `Scheduler`: exit values are elements of `Retvals`. `uthread_create` may fail
  there, and always succeeds in `RecordReplay`.
- `RunList`: the sequence `g_runq` is kept only as a record of what was enqueued;
  all decisions are taken from the list.
- `IoRing`: a result is the number of the call that asked for it.
- `EventLog`: an event is a few units rather than bytes, the first `NumberUnits`
  of them its sequence number, so that a write can stop inside the number too.
  Units that begin with no number the recorder wrote (after a failed write the
  reader is no longer at the boundary of an event) may by chance be the number
  the replay expects: `rr_replay_next_event` then accepts or refuses them. The
  process may die between two events or while it logs one, when the event has its
  number and is not in the buffer (`CrashLogging`).
- `RecordReplay`: the program is any deterministic one: the recording chooses
  each thread's calls, the replay repeats them.
- `Wrappers`: one thread. Bytes are small numbers, an int has a few bits, and
  wrappers whose code differs only in the call they make are one operator.
- `Lifecycle`: what the runtime holds is a set of names, and the shutdown
  functions are functions on it. The contents of the log are one name,
  `"unsaved"`. Threads have a stack, a heap state and table entries; which of
  them runs is left open.

**External.** `io_uring_get_sqe`, `io_uring_submit` and the kernel's answers
are modelled as the code uses them: submit hands over a non-empty prefix of the
queue or fails; operations complete in any order; `mmap` may return an address
that was unmapped before. So are the application and the death of the process.

**Composition.** `Scheduler` leaves I/O open: `IoBlocks` blocks a thread and
`IoWakes` is allowed only for a thread in a system call. `ImplementsScheduler`,
checked by `io_ring` and proved as `RingRefinement`, says that `IoRing` keeps that
contract when no submit fails; with failing submits it does not, and
`io_ring_stale_join` shows what follows. `Wrappers`
gives each replayed call its own event; which event it really gets is
`RecordReplay`'s subject, and whether that event is whole is `EventLog`'s.

## Runs

Deadlock checking is off in the runs: a program may end, or stop in a ring of
joins (see `StuckOnlyInJoinRing`).

| run | instance | checks |
|---|---|---|
| `scheduler` | 3 threads, the linked list | types, the run queue and its list, the join links, `StuckOnlyInJoinRing`, `DoneIsFinal`, the refinements of `Scheduler` and `UthreadApi`; every RUNNABLE thread runs, a join of a finished thread returns |
| `io_ring` | 3 threads, 2 calls each, 2 entries, no failures | own results, the refinement of `Scheduler` |
| `io_ring_failures` | 2 threads, 2 calls, 2 entries, 3 failures | what survives failing and partial submits: no lost completion, one running thread, finished threads that stay finished in spite of stale completions, one signalfd read, a thread harmed only by failures of its own calls; a completed call's thread runs if the queue keeps becoming empty |
| `event_log` | 3 units per event, 2 of them the number, buffer of 8, 10 events, 3 failing writes | replay of a prefix after a crash, bounded loss, complete replay of a closed log, no numbered event accepted out of its place or behind a damaged one |
| `record_replay` | 3 threads, 3 calls each, 1 blocking call, 1 signal | exact replay when no event falls inside another thread's system call, and such a replay reaches its end |
| `lifecycle` | 5 thread ids, 3 stack addresses, tables of 2 then 4, 3 failures | what a failed `rr_init` leaves, the agreement of the tables, no double free, the log saved by an orderly end, no use of a closed ring, the thread `segv_handler` names |
| `wrappers` | 2 calls, events of 2 bytes, buffers of up to 4, 4-bit ints | recording is transparent, the replay returns and fills the same |

Five runs show a disagreement between the code and what the repository says;
the lines are quoted in `PROJECT.json`:

| run | what TLC finds |
|---|---|
| `io_ring_stale_join` | after a failing submit the entry stays queued; its completion ends a later join whose target still runs, because the join does not look again |
| `replay_overlap` | a system call during which another thread ran is not replayed: its event comes after theirs |
| `lifecycle_thread_exit` | `exit()` by a thread other than main unmaps the stack it runs on before the log is flushed |
| `lifecycle_overflow` | `rr_signal_init` blocks SIGSEGV, so a stack overflow kills the process without a report |
| `wrappers_file_offset` | reads are submitted with offset 0: a second read of a regular file returns its beginning |

**What the passing properties leave open.** Some properties hold only with an
exception, which is part of their statement, because the code behaves that way:

- `NoEventBehindGap`: an event that a failed write cut is accepted when its number
  is whole, with the next one's bytes behind it; and bytes that are no number of
  the recorder may pass for the expected one.
- `LossFitsRing`: besides what fits in the buffer, a process that dies may lose the
  event it is logging.
- `ResultIsOwn` is checked without failing submits: after one, the thread's next
  call may get the earlier call's result. `FaultsStayLocal` says that this
  happens to no other thread.
- `CompletedCallRunsIfIdle`: while any thread is RUNNABLE, completions and
  signals are not looked at.
- `ReplayIsExactAlone`: only when no event falls inside another thread's call. A
  deviating call returns -1 to the program, and the replay goes on.
- `FailedInitReleases`: after a half-done `rr_signal_init` the alternate stack may
  stay, and so do the handler and the mask as far as they were set; the property
  states which combinations there are, and that nothing else stays.
- `ReportNamesThread`: a guard page left by a failed creation may be named.
- `RecordingIsTransparent`: a call that could not be submitted fails with EPERM.
- `ReplayReturnsSame`: not the clock in real time mode, not a user id of 2^31 or
  more, not `getcwd(NULL, ...)`.
- `ReplayFillsSame`: only the first 64 bytes; not `accept`'s address and not
  `nanosleep`'s `rem`.

A sleep of zero length disarms its timer, so that the sleeping thread never
returns; `Wrappers` has this (`SleepEnds` needs an armed timer) and states no
property about it, as the repository says nothing of such a sleep.

**Bounds.** Three threads give rings of joins beyond the refused one, two joiners
of one target, and a queue with an order. Two calls per thread are needed for a
stale completion to meet a later call. Two entries make the queue fill up, and
three failures try to overfill it; the submission queue has 256 entries in the
code. The log's buffer is no multiple of the event size, as in the code, and is
filled several times. One blocking call and one signal suffice to put a foreign
event before the expected one; `replay_overlap` has no signals, so that its
counterexample is about threads. Tables of 2 entries grow twice with 5 threads, so
each insertion fails at an empty and at a full table; three failures leave stale
entries in all of them, and three addresses are used again. Two bytes per event
put `TimeSize` below the cap and `StructSize` above it, as 16 and 144 are in the
code; two calls make the second read of a stream or file.

**Fairness.** The scheduler loop never stops, so `ListDispatch`, `Dispatch` and
`rr_io_wait` are weakly fair, and so is the rest of a call whose thread has
control. Scheduling is cooperative: `scheduler` and `io_ring_failures` assume
that a thread with control calls, in the end, something that gives it up.
Nothing is assumed of the kernel. The replay waits for nothing outside the process, so its
next step is weakly fair; the recording has no fairness.

## Proofs

The theorems hold for every value of the constants that meets the assumptions of
the modules: `MaxThreads` at least 1, `NULL \in Retvals`; an event that has
a number and something behind it and fits in the buffer; stack addresses other than 0 and a first table
capacity of at least 1; a submission queue of at least one entry. For `Wrappers`
the sizes are ordered as in the code: a `timespec` fits in an event's data (16 of
64 bytes), a `stat` does not (144), some buffers are larger than the data, and a
transfer is smaller than the largest int (Linux moves at most `0x7ffff000` bytes
per call, so the cast of a result to `int32_t` keeps it). The bounds on calls,
failures and signals are arbitrary numbers. Every invariant, action property and
refinement that a passing run checks has a theorem.

**`SchedulerProofs`.** `TypeCorrect`, `Inductive` (`IInv`), `RunQueueSafe`,
`ControlSafe`, `WakeUpSafe`, `WaiterSafe`, `JoinSafe`, `CallSafe`, `StuckSafe`,
`DoneStaysDone` and `Refinement` (`Scheduler` implements `UthreadApi`). `IInv`
is the conjunction of the invariants of `Scheduler`; `CoreInv` is the part of it
that does not rely on a thread being woken only by what it waits for.
None of the interesting ones is inductive alone. That a join returns only after
its target has finished needs that nobody but the target's exit wakes a joiner;
this needs `WaiterIsJoining` (the waiter a live thread names is blocked in the
join of that thread) and `JoinerHasWaker`, these need that a thread is inside a
call only while it lives (`CallMatchesState`), and the queue's exactness needs
that the thread with control is not in it (`OneRunning`).

**`RunListProofs`.** `ListSafe`, `ListRefinement` and `ListKeepsApi`: the list
holds exactly the sequence, and the scheduler that works on the list implements
`Scheduler` and, through it, `UthreadApi`.
Enqueueing a thread that is already queued would cut the list, so the induction
carries `IInv` along: `RunQueueExact` says that the thread is not in the queue.

**`IoRingProofs`.** Two invariants, because failing submits take something away.

- `RingInv` holds whatever fails. It consists of `CoreInv`, of `CallInRing` (what
  a blocked call waits for is queued, in the kernel or completed), of the
  knowledge of which operations can be in the ring at all, of `QueuedByFailure`
  (no more entries are left in the submission queue than submits have failed) and
  of the signalfd read being there once. It gives `RingTypeCorrect`, `PendingSafe`,
  `SignalReadSafe`, `RingControlSafe`, `RingQueueSafe` and `RingDoneStaysDone`.
- `CleanInv` says that, as long as no submit has failed, every operation in the
  ring is the current call of a blocked thread and is there only once. This is
  what makes a completion reach the call it belongs to. It gives `ResultSafe`,
  `JoinOkSafe`, `RingRefinement` (`IoRing` implements `Scheduler`) and
  `RingKeepsApi` (and hence `UthreadApi`), all under `submit_failures = 0`. The
  condition is necessary: `io_ring_stale_join` violates `JoinOkMeansDone` with one
  failure.

**`RingFaultProofs`.** What holds after failing submits, beyond `RingInv`.
`FaultInv` adds `OpsOnce` (no operation is in two places of the ring: a call's
number is new, so its entry is too) and `JoinerHasWaker`, which needs only
`CoreInv` and survives stale wake-ups: a joiner that is woken too early is no
longer blocked, and one that is blocked is still named by its target. This gives
`RingWakeUpSafe` and `RingStuckSafe`: a stale completion may end a join early, but
no thread hangs because of it. `Sound(t)` says that nothing stale is about `t`:
every operation of `t` in the ring is that of the call it is blocked in, every
live thread that names `t` is the one it is blocked joining, and what its calls
return is right. It is inductive for each thread on its own, unless a submit
fails in a call of `t`. `FaultsLocalSafe` states this for each step, and
`FaultContainment` for behaviours: a thread none of whose own submits fail is
`Sound` for ever, whatever fails elsewhere. `io_ring_stale_join` shows
that the condition on its own submits cannot be dropped.

**`EventLogProofs`.** `LogTypeCorrect`, `DeliverySafe`, `GapSafe`, `LossSafe`,
`CleanSafe`. Every unit has a position in the stream of all units ever logged.
The inductive invariant `LogInv` says that a unit stands in the file no later
than at its position, that the distance, which is what was lost before it, only
grows along the file and is at most what is lost before the buffer, and that the
reader takes events from the start of the file, one slot after the other. If the
first units of a slot are a number the recorder wrote and the one that is
expected, nothing was lost before them, and all slots before are whole: this is
`NoEventBehindGap`. Without failing writes all distances are 0, which gives the
others.

**`RecordReplayProofs`.** `LogNamesRunnerSafe`, `RecordReplayInductive`,
`BothRunsSchedule`, `ReplayExact` and `ReplayNeverStuck`. `LogNamesRunnerSafe` is
about the events of system calls and of signals: the latter are logged by the
scheduler, where `rr_scheduler_current()` is still the thread that ran last. That a replay is exact relates two runs, and the state of the
recording is gone when the replay begins. The invariant `FollowsSome` says that
there is a history: a sequence of scheduler states, each with the position in the
log and the number of calls and results of each thread, in which every step is
prescribed by the program's script and the log. The recording, unless inside a blocking call, is at the
end of it and extends it by each step; the replay is at some entry, with the
reader at the log position that entry names. As a replayed step is determined by
the script and the log, it leads to the next entry, and the last entry is the
recording's end. An event logged inside another thread's call has no place in such
a history, which is why the theorem, like the property, leaves these recordings
out. Each step of a history also names what makes it possible (a thread in the run
queue, a free id, a call left in the script), so a replay at an entry can always go
on: `ReplayNeverStuck` is the safety half of `ReplayFinishes`.

**`WrappersProofs`.** `WrapTypeCorrect`, `TransparentSafe`, `ReturnsSafe`,
`FillsSafe`. `WrapInv` states, for each call made so far, what its
caller saw against the kernel's answer, and what a replay makes of its event; one
lemma for each kind of wrapper (`DataGood`, `ValueGood`, `SleepGood`, `IdGood`,
`CwdGood`) shows it for what that wrapper returns and logs.

**`LifecycleProofs`.** `LifeTypeCorrect`, `FailedInitSafe`, `TablesSafe`,
`FreeSafe`, `OrderlyEndSafe`, `RingSafe`, `ReportSafe`. The inductive invariant
`LifeInv` bounds what the runtime holds at each step of `rr_init`, says which
changes to the process's signals have been made by then (`SignalInv`), that there are no threads before `rr_uthread_init_main`, and relates the tables while
the library is ready: ids from `g_next_id` on are in no table, exactly the live
threads are in `g_allocated`, each has a stack of its own, and every guard page
belongs to a live thread with that stack or to a creation that failed. The last
part is what `ReportNamesThread` needs, as the stale entries are found first.

Each proof module is proved on its own with `tlapm`, in about a quarter of an hour
for the longest (`RecordReplayProofs`). A leaf that names no prover is left to SMT
with 30 seconds (`USE SMTT(30)` at the top of each module); the others name Zenon
or PTL. The time goes into the definitions and theorems in scope of each
obligation more than into the provers, so `Wrappers` and its proofs extend few
library modules.

Only model-checked: the liveness properties `EveryRunnableRuns`, `JoinCompletes`,
`CompletedCallRunsIfIdle` and `ReplayFinishes`, since fairness and `ENABLED` are
out of the prover's reach. The theorems about `Wrappers` hold for the
file and stream contents that the module fixes. The five disagreements are shown by
a counterexample, not by a proof.

## Not modelled

- Machine contexts (`makecontext`, `swapcontext`), TLS bases, and the size of
  stacks (`RR_STACK_SIZE`): no property depends on them.
- The header of the log, but for the refusal of a wrong one in `Lifecycle`, and
  logs written by something else than `record.c`.
- The branch of `rr_record_append` for entries larger than the buffer: all
  entries are of one, smaller size.
- `dlsym` and the calls made before the library is ready, which go to libc.
- The default action of signals in replay mode, where no mask is set.
- `log.c`, which has no state.
