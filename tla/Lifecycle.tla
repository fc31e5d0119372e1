----------------------------- MODULE Lifecycle ------------------------------
(***************************************************************************)
(* The life of a process that has librr loaded: rr_init, which may give up *)
(* after any of its steps, the threads main creates while the library is   *)
(* ready, and the ways the process ends.  Source: init.c, the init and     *)
(* shutdown functions of the other files of src/librr/src, the thread      *)
(* tables of uthread.c and scheduler.c, and the guard pages of signal.c.   *)
(*                                                                         *)
(* What the process holds is the set rt, and the shutdown functions are    *)
(* functions on it, composed as rr_init and rr_shutdown call them.         *)
(*                                                                         *)
(* A table grows by realloc, which may fail, so an insertion fails only    *)
(* when the table is full.  mmap may return the address of a stack that    *)
(* has been unmapped.  Which thread runs is left open: any that exists.    *)
(***************************************************************************)
EXTENDS Naturals, Sequences, FiniteSetsExt, Functions

CONSTANTS
    MaxThreads,     \* bound on thread ids
    Addrs,          \* addresses mmap returns for a stack and its guard page
    InitialCap,     \* the first capacity of a table (16)
    MaxFailures     \* bound on failing rr_uthread_create calls

ASSUME LifeAssumption ==
    /\ MaxThreads \in Nat \ {0}
    /\ Addrs \subseteq Nat \ {0}
    /\ InitialCap \in Nat \ {0}
    /\ MaxFailures \in Nat

VARIABLES
    mode,           \* RR_MODE: "record", "replay" or "none"
    at,             \* the step of rr_init that is next, or what came of it
    rt,             \* what the runtime holds
    signals,        \* what rr_signal_init has changed for the process
    heap,           \* heap[t]: "none", "live", "freed" or "freed twice"
    stack_map,      \* stack_map[t]: address of t's stack, or 0
    g_next_id,
    g_current,
    g_threads,      \* the scheduler's table
    g_allocated,    \* uthread.c's table
    g_guard_pages,  \* signal.c's table
    failures,       \* failing rr_uthread_create calls so far
    cause,          \* why the process ended
    report          \* the thread segv_handler named, or 0

threadVars ==
    <<heap, stack_map, g_next_id, g_threads, g_allocated, g_guard_pages,
      failures>>
endVars == <<cause, report>>
lifeVars == <<mode, at, rt, signals, threadVars, g_current, endVars>>

Ids == 1..MaxThreads

Resources ==
    {"log_ring", "log_fd", "unsaved", "altstack", "signalfd", "io_ring",
     "replay_fd", "sched_stack", "ready", "ring_misused"}

\* rr_parse_env: only "record" and "replay" are modes.
LifeInit ==
    /\ mode \in {"record", "replay", "none"}
    /\ at = CASE mode = "record" -> "record_init"
              [] mode = "replay" -> "replay_init"
              [] OTHER -> "scheduler_init"
    /\ rt = {}
    /\ signals = {}
    /\ heap = [t \in Ids |-> "none"]
    /\ stack_map = [t \in Ids |-> 0]
    /\ g_next_id = 1
    /\ g_current = 0
    /\ g_threads = <<>>
    /\ g_allocated = <<>>
    /\ g_guard_pages = <<>>
    /\ failures = 0
    /\ cause = "none"
    /\ report = 0

-----------------------------------------------------------------------------
(* The shutdown functions.                                                 *)

\* Mutant of rr_record_shutdown: no flush.
RecordShutdownNoFlush(h) == h \ {"log_fd", "log_ring"}

\* Flushes, closes, unmaps.  ("unsaved": events in the buffer.)
rr_record_shutdown(h) == h \ {"unsaved", "log_fd", "log_ring"}

rr_io_shutdown(h) == h \ {"io_ring"}

\* close is librr's own wrapper: while the library is ready and recording it
\* goes through the ring, even when the ring is gone.
close(h, fd) ==
    IF mode = "record" /\ "ready" \in h /\ "io_ring" \notin h
    THEN (h \ {fd}) \cup {"ring_misused"}
    ELSE h \ {fd}

\* The handler, the mask and the registered alternate stack stay as they are.
rr_signal_shutdown(h) == close(h, "signalfd") \ {"altstack"}

rr_replay_shutdown(h) == h \ {"replay_fd"}

rr_scheduler_shutdown(h) == h \ {"sched_stack"}

\* Mutant of ModeShutdown: the ring is left open.
ModeShutdownNoIo(h) ==
    CASE mode = "record" -> rr_record_shutdown(rr_signal_shutdown(h))
      [] mode = "replay" -> rr_replay_shutdown(h)
      [] OTHER -> h

\* What rr_init and rr_shutdown do after rr_scheduler_shutdown.
ModeShutdown(h) ==
    CASE mode = "record" ->
            rr_record_shutdown(rr_signal_shutdown(rr_io_shutdown(h)))
      [] mode = "replay" -> rr_replay_shutdown(h)
      [] OTHER -> h

\* free() of every thread of a table.
Freed(table) ==
    [t \in Ids |-> IF t \notin Range(table) THEN heap[t]
                   ELSE IF heap[t] = "live" THEN "freed" ELSE "freed twice"]

Unmapped(table) ==
    [t \in Ids |-> IF t \in Range(table) THEN 0 ELSE stack_map[t]]

\* rr_uthread_shutdown
rr_uthread_shutdown ==
    /\ heap' = Freed(g_allocated)
    /\ stack_map' = Unmapped(g_allocated)
    /\ g_allocated' = <<>>

-----------------------------------------------------------------------------
(* rr_init, step by step.                                                  *)

Goes(from, to, h) ==
    /\ at = from
    /\ at' = to
    /\ rt' = h
    /\ UNCHANGED <<mode, endVars>>

noThreadYet == UNCHANGED <<threadVars, g_current>>

\* rr_record_init undoes what it did when it fails.
RecordInit ==
    /\ \/ Goes("record_init", "signal_init", rt \cup {"log_ring", "log_fd"})
       \/ Goes("record_init", "gave_up", rt)
    /\ UNCHANGED signals /\ noThreadYet

SignalSteps == <<"altstack", "handler", "blocked">>

\* What rr_signal_init has changed after its first done steps.
SignalsAfter(done) == {SignalSteps[i] : i \in 1..done}

\* rr_signal_init fails after done of its steps, and undoes nothing but the
\* mapping of an alternate stack that it could not register.
SignalInit ==
    /\ \/ /\ Goes("signal_init", "io_init", rt \cup {"altstack", "signalfd"})
          /\ signals' = SignalsAfter(3)
       \/ \E done \in 0..3 :
            /\ signals' = SignalsAfter(done)
            /\ Goes("signal_init", "gave_up",
                    rr_record_shutdown(rt \cup (signals' \cap {"altstack"})))
    /\ noThreadYet

\* rr_io_init
IoInit ==
    /\ \/ Goes("io_init", "signal_read", rt \cup {"io_ring"})
       \/ Goes("io_init", "gave_up", rr_record_shutdown(rr_signal_shutdown(rt)))
    /\ UNCHANGED signals /\ noThreadYet

\* rr_io_submit_signal_read
SignalRead ==
    /\ \/ Goes("signal_read", "scheduler_init", rt)
       \/ Goes("signal_read", "gave_up", ModeShutdown(rt))
    /\ UNCHANGED signals /\ noThreadYet

\* rr_replay_init closes the log again when the header is not the right one.
ReplayInit ==
    /\ \/ Goes("replay_init", "scheduler_init", rt \cup {"replay_fd"})
       \/ Goes("replay_init", "gave_up", rt)
    /\ UNCHANGED signals /\ noThreadYet

\* rr_scheduler_init
SchedulerInit ==
    /\ \/ Goes("scheduler_init", "uthread_init", rt \cup {"sched_stack"})
       \/ Goes("scheduler_init", "gave_up", ModeShutdown(rt))
    /\ UNCHANGED signals /\ noThreadYet

\* rr_uthread_init_main.  When it fails, main's uthread_t has been freed or
\* never existed; g_threads may hold it until rr_scheduler_shutdown.
UthreadInitMain ==
    /\ \/ /\ Goes("uthread_init", "first_event", rt)
          /\ heap' = [heap EXCEPT ![1] = "live"]
          /\ g_current' = 1
          /\ g_threads' = <<1>>
          /\ g_allocated' = <<1>>
          /\ g_next_id' = 2
       \/ /\ Goes("uthread_init", "gave_up",
                  ModeShutdown(rr_scheduler_shutdown(rt)))
          /\ \/ UNCHANGED <<heap, g_current>>
             \/ g_current' = 1 /\ heap' = [heap EXCEPT ![1] = "freed"]
          /\ UNCHANGED <<g_threads, g_allocated, g_next_id>>
    /\ UNCHANGED <<signals, stack_map, g_guard_pages, failures>>

\* The first switch is logged, or looked for in the log, and the library is
\* ready.
FirstEvent ==
    /\ \/ /\ Goes("first_event", "main",
                  rt \cup {"ready"}
                     \cup (IF mode = "record" THEN {"unsaved"} ELSE {}))
          /\ UNCHANGED threadVars
       \/ /\ mode = "replay"
          /\ Goes("first_event", "gave_up",
                  rr_replay_shutdown(rr_scheduler_shutdown(rt)))
          /\ rr_uthread_shutdown
          /\ g_threads' = <<>>
          /\ UNCHANGED <<g_next_id, g_guard_pages, failures>>
    /\ UNCHANGED <<signals, g_current>>

rr_init ==
    \/ RecordInit \/ SignalInit \/ IoInit \/ SignalRead
    \/ ReplayInit \/ SchedulerInit \/ UthreadInitMain \/ FirstEvent

-----------------------------------------------------------------------------
(* Threads, while the library is ready.                                    *)

\* A table is full, and its next insertion needs realloc, when its length is
\* its capacity: 0, InitialCap, and twice as much each time.
Full(table) ==
    Len(table) = 0 \/ \E k \in 0..MaxThreads : Len(table) = InitialCap * 2^k

\* Mutant of Inserted: remember_thread is called first.
InsertedRememberFirst(n, t, mem) ==
    /\ n \in 1..2 => Full(<<g_guard_pages, g_threads>>[n])
    /\ g_allocated' = IF n >= 1 THEN Append(g_allocated, t) ELSE g_allocated
    /\ g_guard_pages' = IF n >= 2 THEN Append(g_guard_pages,
                                              [start |-> mem, utid |-> t])
                                  ELSE g_guard_pages
    /\ g_threads' = IF n >= 3 THEN Append(g_threads, t) ELSE g_threads

\* rr_register_guard_page, rr_scheduler_register_thread and remember_thread,
\* in this order: the first n succeed, and one that fails finds its table
\* full.  (With n = 0 the failure may also be one before them.)
Inserted(n, t, mem) ==
    /\ n \in 1..2 => Full(<<g_threads, g_allocated>>[n])
    /\ g_guard_pages' = IF n >= 1 THEN Append(g_guard_pages,
                                              [start |-> mem, utid |-> t])
                                  ELSE g_guard_pages
    /\ g_threads' = IF n >= 2 THEN Append(g_threads, t) ELSE g_threads
    /\ g_allocated' = IF n >= 3 THEN Append(g_allocated, t) ELSE g_allocated

\* rr_uthread_create, once it has a stack and has taken an id.  A failure
\* unmaps the stack and frees the thread, and leaves it in the tables it has
\* already got into.
CreateThread ==
    \E mem \in Addrs \ Range(stack_map), n \in 0..3 :
        LET t == g_next_id IN
        /\ at = "main"
        /\ t \in Ids
        /\ g_next_id' = t + 1
        /\ Inserted(n, t, mem)
        /\ \/ /\ n = 3
              /\ heap' = [heap EXCEPT ![t] = "live"]
              /\ stack_map' = [stack_map EXCEPT ![t] = mem]
              /\ UNCHANGED failures
           \/ /\ n < 3
              /\ failures < MaxFailures
              /\ failures' = failures + 1
              /\ heap' = [heap EXCEPT ![t] = "freed"]
              /\ UNCHANGED stack_map
        /\ UNCHANGED <<mode, at, rt, signals, g_current, endVars>>

\* calloc, mmap or mprotect fails before an id is taken: nothing is left.
CreateFails ==
    /\ at = "main"
    /\ failures < MaxFailures
    /\ failures' = failures + 1
    /\ UNCHANGED <<mode, at, rt, signals, heap, stack_map, g_next_id, g_threads,
                   g_allocated, g_guard_pages, g_current, endVars>>

\* Another thread gets control.
Switch(t) ==
    /\ at = "main"
    /\ t \in Range(g_allocated)
    /\ g_current' = t
    /\ UNCHANGED <<mode, at, rt, signals, threadVars, endVars>>

\* The application makes SIGSEGV deliverable.
UnblocksSegv ==
    /\ at = "main"
    /\ "blocked" \in signals
    /\ signals' = signals \ {"blocked"}
    /\ UNCHANGED <<mode, at, rt, threadVars, g_current, endVars>>

-----------------------------------------------------------------------------
(* The end of the process.                                                 *)

Ends(how, why) ==
    /\ at' = how
    /\ cause' = why
    /\ UNCHANGED <<mode, signals, g_next_id, g_current, failures>>

\* Mutant of ShutdownAll: the library is ready until all is undone.
ShutdownAllReadyLast == ModeShutdown(rr_scheduler_shutdown(rt)) \ {"ready"}

\* What rr_shutdown leaves when it gets to its end.
ShutdownAll == ModeShutdown(rr_scheduler_shutdown(rt \ {"ready"}))

\* exit(), or the return of main, on main's stack: rr_shutdown.
MainExits ==
    /\ at = "main"
    /\ g_current = 1
    /\ rt' = ShutdownAll
    /\ rr_uthread_shutdown
    /\ g_threads' = <<>>
    /\ g_guard_pages' = IF mode = "record" THEN <<>> ELSE g_guard_pages
    /\ Ends("exited", "exit")
    /\ UNCHANGED report

\* exit() on the stack of another thread: rr_uthread_shutdown unmaps that
\* stack under itself, and the process dies there.
ThreadExits ==
    /\ at = "main"
    /\ g_current # 1
    /\ LET i == CHOOSE i \in DOMAIN g_allocated : g_allocated[i] = g_current IN
        /\ heap' = Freed(SubSeq(g_allocated, 1, i - 1))
        /\ stack_map' = Unmapped(SubSeq(g_allocated, 1, i))
    /\ rt' = rt \ {"ready"}
    /\ Ends("killed", "exit")
    /\ UNCHANGED <<g_threads, g_allocated, g_guard_pages, report>>

\* SIGINT or SIGTERM: rr_signal_process saves the log and calls _exit.
Terminated ==
    /\ at = "main"
    /\ mode = "record"
    /\ rt' = rr_record_shutdown(rt)
    /\ Ends("terminated", "signal")
    /\ UNCHANGED <<heap, stack_map, g_threads, g_allocated, g_guard_pages, report>>

\* rr_init gave up: rr_shutdown does nothing, and uthread_exit is _exit.
ExitsNotReady ==
    /\ at = "gave_up"
    /\ Ends("exited", "exit")
    /\ UNCHANGED <<rt, heap, stack_map, g_threads, g_allocated, g_guard_pages,
                   report>>

\* Mutant of rr_is_guard_page_fault: the latest entry is taken for a match.
GuardLatest(addr) ==
    IF g_guard_pages = <<>> THEN 0
    ELSE g_guard_pages[Len(g_guard_pages)].utid

\* rr_is_guard_page_fault: the first entry whose page holds the address.
rr_is_guard_page_fault(addr) ==
    LET hits == {i \in DOMAIN g_guard_pages : g_guard_pages[i].start = addr}
    IN IF hits = {} THEN 0 ELSE g_guard_pages[Min(hits)].utid

\* The kernel can call segv_handler only when it is installed, SIGSEGV is not
\* blocked and the alternate stack is mapped; else it ends the process.
\* Either way the process dies.
Faults(addr, why) ==
    /\ report' = IF "handler" \in signals /\ "blocked" \notin signals
                    /\ "altstack" \in rt
                 THEN rr_is_guard_page_fault(addr)
                 ELSE 0
    /\ Ends("killed", why)
    /\ UNCHANGED <<rt, heap, stack_map, g_threads, g_allocated, g_guard_pages>>

\* The running thread gets to the end of its stack, or uses an address where
\* nothing is mapped.
Overflows ==
    /\ at = "main"
    /\ stack_map[g_current] # 0
    /\ Faults(stack_map[g_current], "overflow")

WildAccess ==
    \E addr \in ({0} \cup Addrs) \ (Range(stack_map) \ {0}) :
        at = "main" /\ Faults(addr, "fault")

LifeNext ==
    \/ rr_init
    \/ CreateThread
    \/ CreateFails
    \/ \E t \in Ids : Switch(t)
    \/ UnblocksSegv
    \/ MainExits
    \/ ThreadExits
    \/ Terminated
    \/ ExitsNotReady
    \/ Overflows
    \/ WildAccess

LifeSpec == LifeInit /\ [][LifeNext]_lifeVars

-----------------------------------------------------------------------------
(* Properties.                                                             *)

\* Every variable has its type.
LifeTypeOK ==
    /\ mode \in {"record", "replay", "none"}
    /\ rt \subseteq Resources
    /\ signals \subseteq Range(SignalSteps)
    /\ heap \in [Ids -> {"none", "live", "freed", "freed twice"}]
    /\ stack_map \in [Ids -> {0} \cup Addrs]
    /\ g_next_id \in 1..(MaxThreads + 1)
    /\ g_current \in 0..MaxThreads
    /\ g_threads \in Seq(Ids)
    /\ g_allocated \in Seq(Ids)
    /\ g_guard_pages \in Seq([start : Addrs, utid : Ids])
    /\ report \in 0..MaxThreads

\* An rr_init that gives up, wherever it does, leaves no descriptor, no buffer,
\* no thread and no event that was not saved.  What rr_signal_init changed
\* stays: when it failed itself, its first steps with the alternate stack still
\* mapped; when a later step failed, all of them, the mask and the handler
\* included, with the registered alternate stack unmapped.  Only a recording
\* process is left so.
FailedInitReleases ==
    at = "gave_up" =>
        /\ \E done \in 0..3 :
            /\ signals = SignalsAfter(done)
            /\ \/ rt = {} /\ done \in {0, 3}
               \/ rt = {"altstack"} /\ done > 0
            /\ done > 0 => mode = "record"
        /\ \A t \in Ids : heap[t] \in {"none", "freed"}
        /\ g_threads = <<>> /\ g_allocated = <<>>

Occurs(t, table) == Cardinality({i \in DOMAIN table : table[i] = t})

\* The three tables agree on the threads that exist, whatever creations have
\* failed: each is once in g_allocated, once in g_threads, and has its guard
\* page registered; no two share a stack.  A freed thread is never in
\* g_allocated.
ThreadsTracked ==
    at = "main" =>
        \A t \in Ids :
            /\ Occurs(t, g_allocated) = IF heap[t] = "live" THEN 1 ELSE 0
            /\ heap[t] = "live" => Occurs(t, g_threads) = 1
            /\ heap[t] = "live" /\ t # 1 =>
                /\ \E i \in DOMAIN g_guard_pages :
                    g_guard_pages[i] = [start |-> stack_map[t], utid |-> t]
                /\ \A u \in Ids \ {t} : stack_map[u] # stack_map[t]

\* No thread is freed twice, by a failing creation and again at the end.
NoDoubleFree == \A t \in Ids : heap[t] # "freed twice"

\* exit() on main's stack and SIGINT or SIGTERM save every event, and exit()
\* gives everything back.
OrderlyEndSaves ==
    /\ at \in {"exited", "terminated"} => "unsaved" \notin rt
    /\ at = "exited" => /\ rt \subseteq {"altstack"}
                        /\ \A t \in Ids : heap[t] # "live" /\ stack_map[t] = 0

\* The close of the signalfd in rr_signal_shutdown comes after the ring is
\* gone: it must not be one of the calls that go through the ring.
RingNotMisused == "ring_misused" \notin rt

\* segv_handler names the thread whose stack has overflowed, or one whose
\* creation failed and left its guard page in the table.
ReportNamesThread ==
    report # 0 => report = g_current \/ heap[report] = "freed"

\* Events are "flushed to disk when full or on exit", whichever thread calls
\* exit.
ExitSaves == cause = "exit" => "unsaved" \notin rt

\* While recording, a thread that overflows its stack is reported: the guard
\* page is there "for stack overflow detection", and rr_signal_init installs
\* the handler.
OverflowIsReported == mode = "record" /\ cause = "overflow" => report # 0

=============================================================================
