--------------------------- MODULE LifecycleProofs --------------------------
(***************************************************************************)
(* The safety properties of Lifecycle, for every number of threads, every  *)
(* set of addresses and any number of failures.                            *)
(*                                                                         *)
(* The inductive invariant LifeInv has four parts: what the runtime holds  *)
(* at each step of rr_init (Holds), what rr_signal_init has changed by     *)
(* then (SignalInv), that there are no threads before                      *)
(* rr_uthread_init_main (NoThreads), and how the tables, the heap and the  *)
(* stacks fit together while the library is ready (Tracked).               *)
(***************************************************************************)
EXTENDS Lifecycle, FiniteSetTheorems, WellFoundedInduction, TLAPS

\* A leaf that names no prover is left to SMT, with time to spare.
USE SMTT(30)

RecordSteps == {"record_init", "signal_init", "io_init", "signal_read"}
EarlySteps ==
    RecordSteps \cup {"replay_init", "scheduler_init", "uthread_init"}
InitSteps == EarlySteps \cup {"first_event"}
Ended == {"exited", "killed", "terminated"}

Logs == {"log_ring", "log_fd"}
Signal == {"altstack", "signalfd"}

\* An upper bound on what the runtime holds, by the step it is at.
Holds ==
    /\ at \in InitSteps \cup {"gave_up", "main"} \cup Ended
    /\ rt \subseteq Resources \ {"ring_misused"}
    /\ mode # "record" =>
        rt \cap (Logs \cup Signal \cup {"unsaved", "io_ring"}) = {}
    /\ mode # "replay" => "replay_fd" \notin rt
    /\ at \in RecordSteps => mode = "record"
    /\ at = "replay_init" => mode = "replay"
    /\ at \in InitSteps => rt \cap {"ready", "unsaved"} = {}
    /\ at \in RecordSteps \cup {"replay_init", "scheduler_init"} =>
        "sched_stack" \notin rt
    /\ at \in {"record_init", "replay_init"} => rt = {}
    /\ at = "signal_init" => rt \subseteq Logs
    /\ at = "io_init" => rt \subseteq Logs \cup Signal
    /\ at = "gave_up" => rt \subseteq {"altstack"}
    /\ at \in {"exited", "terminated"} => "unsaved" \notin rt
    /\ at = "exited" => rt \subseteq {"altstack"}

\* What is changed for the process, by the step rr_init is at.
SignalInv ==
    /\ mode # "record" => signals = {}
    /\ at \in {"record_init", "signal_init", "replay_init"} => signals = {}
    /\ mode = "record" /\ at \in {"io_init", "signal_read", "scheduler_init",
                                  "uthread_init", "first_event"}
            => signals = SignalsAfter(3)
    /\ at = "gave_up" =>
        \E done \in 0..3 :
            /\ signals = SignalsAfter(done)
            /\ "altstack" \in rt => done > 0
            /\ "altstack" \notin rt => done \in {0, 3}

\* Nothing has been allocated.
NoThreads ==
    /\ heap = [t \in Ids |-> "none"]
    /\ stack_map = [t \in Ids |-> 0]
    /\ g_next_id = 1
    /\ g_threads = <<>> /\ g_allocated = <<>> /\ g_guard_pages = <<>>

InTable(t, table) == \E i \in DOMAIN table : table[i] = t
Once(table) == \A i, j \in DOMAIN table : table[i] = table[j] => i = j

\* The ids from g_next_id on are unused.
Unused ==
    /\ g_next_id > 1
    /\ \A t \in Ids : t >= g_next_id =>
        heap[t] = "none" /\ stack_map[t] = 0 /\ ~InTable(t, g_threads)

\* Exactly the live threads are in g_allocated, and each has its own stack,
\* but main, which has none.
Stacks ==
    /\ \A t \in Ids : heap[t] = "live" <=> InTable(t, g_allocated)
    /\ \A t \in Ids : stack_map[t] # 0 <=> heap[t] = "live" /\ t # 1
    /\ \A t, u \in Ids : stack_map[t] # 0 /\ stack_map[t] = stack_map[u] => t = u

GuardPage == [start : Addrs, utid : Ids]

\* A guard page belongs to a thread that was created, and is that of its
\* stack as long as the thread lives.
Guards ==
    /\ \A g \in GuardPage : InTable(g, g_guard_pages) =>
        /\ heap[g.utid] \in {"live", "freed"}
        /\ heap[g.utid] = "live" => stack_map[g.utid] = g.start
    /\ \A t \in Ids : stack_map[t] # 0 =>
        InTable([start |-> stack_map[t], utid |-> t], g_guard_pages)

Tracked ==
    /\ Once(g_allocated) /\ Once(g_threads)
    /\ \A t \in Ids : heap[t] = "live" => InTable(t, g_threads)
    /\ \A t \in Ids : heap[t] # "freed twice"
    /\ InTable(g_current, g_allocated)
    /\ Unused /\ Stacks /\ Guards

\* The threads, by the step.
ThreadInv ==
    /\ LifeTypeOK
    /\ at \in EarlySteps => NoThreads
    /\ at \in {"first_event", "main"} => Tracked
    /\ NoDoubleFree
    /\ at \in {"gave_up", "exited"} =>
        /\ \A t \in Ids : heap[t] \in {"none", "freed"} /\ stack_map[t] = 0
        /\ g_threads = <<>> /\ g_allocated = <<>>
    /\ report # 0 => at = "killed"
    /\ ReportNamesThread

LifeInv == Holds /\ SignalInv /\ ThreadInv

-----------------------------------------------------------------------------
(* What the runtime holds.                                                 *)

\* A closed signalfd does not go through the ring when the library is not
\* ready.
LEMMA CloseIsPlain ==
    ASSUME NEW h, "ready" \notin h
    PROVE  rr_signal_shutdown(h) = h \ {"signalfd", "altstack"}
  BY DEF rr_signal_shutdown, close

\* What is left after the shutdown functions.
LEMMA ShutdownLeaves ==
    ASSUME NEW h \in SUBSET (Resources \ {"ring_misused", "ready", "sched_stack"}),
           mode # "record" =>
                h \cap (Logs \cup Signal \cup {"unsaved", "io_ring"}) = {},
           mode # "replay" => "replay_fd" \notin h
    PROVE  ModeShutdown(h) = {}
<1>1. CASE mode = "record"
  <2>1. rr_signal_shutdown(rr_io_shutdown(h)) = h \ {"io_ring", "signalfd", "altstack"}
    BY CloseIsPlain DEF rr_io_shutdown
  <2>2. ModeShutdown(h) = rr_record_shutdown(rr_signal_shutdown(rr_io_shutdown(h)))
    BY <1>1 DEF ModeShutdown
  <2> QED
    BY <1>1, <2>1, <2>2 DEF rr_record_shutdown, Resources
<1>2. CASE mode = "replay"
  BY <1>2 DEF ModeShutdown, rr_replay_shutdown, Resources, Logs, Signal
<1>3. CASE mode # "record" /\ mode # "replay"
  BY <1>3 DEF ModeShutdown, Resources, Logs, Signal
<1> QED
  BY <1>1, <1>2, <1>3

\* Holds is true at the start.
LEMMA HoldsInit == LifeInit => Holds
  BY DEF LifeInit, Holds, InitSteps, EarlySteps, RecordSteps, Ended, Logs,
         Signal, Resources

USE DEF InitSteps, EarlySteps, RecordSteps, Ended

\* Every step keeps Holds, whatever the threads do.
LEMMA HoldsStep ==
    ASSUME Holds, [LifeNext]_lifeVars
    PROVE  Holds'
<1>1. CASE RecordInit
  BY <1>1, Zenon DEF RecordInit, Goes, Holds, Resources, Logs, Signal
<1>2. CASE SignalInit
  <2>1. CASE Goes("signal_init", "io_init", rt \cup {"altstack", "signalfd"})
    BY <2>1 DEF Goes, Holds, Resources, Logs, Signal
  <2>2. CASE Goes("signal_init", "gave_up",
                  rr_record_shutdown(rt \cup (signals' \cap {"altstack"})))
    BY <2>2, Zenon DEF Goes, Holds, Resources, Logs, Signal, rr_record_shutdown
  <2> QED
    BY <1>2, <2>1, <2>2 DEF SignalInit
<1>3. CASE IoInit
  <2>1. CASE Goes("io_init", "signal_read", rt \cup {"io_ring"})
    BY <2>1 DEF Goes, Holds, Resources, Logs, Signal
  <2>2. CASE Goes("io_init", "gave_up",
                  rr_record_shutdown(rr_signal_shutdown(rt)))
    <3>1. at = "io_init" /\ "ready" \notin rt
      BY <2>2 DEF Goes, Holds
    <3>2. rr_signal_shutdown(rt) = rt \ {"signalfd", "altstack"}
      BY <3>1, CloseIsPlain
    <3>3. rt' = {}
      BY <2>2, <3>1, <3>2 DEF Goes, Holds, Logs, Signal, rr_record_shutdown
    <3> QED
      BY <2>2, <3>3 DEF Goes, Holds, Resources
  <2> QED
    BY <1>3, <2>1, <2>2 DEF IoInit
<1>4. CASE SignalRead
  <2>1. CASE Goes("signal_read", "scheduler_init", rt)
    BY <2>1 DEF Goes, Holds, Resources, Logs, Signal
  <2>2. CASE Goes("signal_read", "gave_up", ModeShutdown(rt))
    <3>1. rt' = {}
      BY <2>2, ShutdownLeaves DEF Goes, Holds
    <3> QED
      BY <2>2, <3>1 DEF Goes, Holds, Resources
  <2> QED
    BY <1>4, <2>1, <2>2 DEF SignalRead
<1>5. CASE ReplayInit
  BY <1>5, Zenon DEF ReplayInit, Goes, Holds, Resources, Logs, Signal
<1>6. CASE SchedulerInit
  <2>1. CASE Goes("scheduler_init", "uthread_init", rt \cup {"sched_stack"})
    BY <2>1 DEF Goes, Holds, Resources, Logs, Signal
  <2>2. CASE Goes("scheduler_init", "gave_up", ModeShutdown(rt))
    <3>1. rt' = {}
      BY <2>2, ShutdownLeaves DEF Goes, Holds
    <3> QED
      BY <2>2, <3>1 DEF Goes, Holds, Resources
  <2> QED
    BY <1>6, <2>1, <2>2 DEF SchedulerInit
<1>7. CASE UthreadInitMain
  <2>1. CASE Goes("uthread_init", "first_event", rt)
    BY <2>1 DEF Goes, Holds
  <2>2. CASE Goes("uthread_init", "gave_up",
                  ModeShutdown(rr_scheduler_shutdown(rt)))
    <3>1. rt' = {}
      BY <2>2, ShutdownLeaves DEF Goes, Holds, rr_scheduler_shutdown
    <3> QED
      BY <2>2, <3>1 DEF Goes, Holds, Resources
  <2> QED
    BY <1>7, <2>1, <2>2 DEF UthreadInitMain
<1>8. CASE FirstEvent
  <2>1. CASE Goes("first_event", "main",
                  rt \cup {"ready"}
                     \cup (IF mode = "record" THEN {"unsaved"} ELSE {}))
    BY <2>1 DEF Goes, Holds, Resources, Logs, Signal
  <2>2. CASE /\ mode = "replay"
             /\ Goes("first_event", "gave_up",
                     rr_replay_shutdown(rr_scheduler_shutdown(rt)))
    BY <2>2 DEF Goes, Holds, Resources, Logs, Signal, rr_replay_shutdown,
                rr_scheduler_shutdown
  <2> QED
    BY <1>8, <2>1, <2>2 DEF FirstEvent
<1>9. CASE MainExits
  <2>1. at = "main" /\ at' = "exited" /\ mode' = mode /\ rt' = ShutdownAll
    BY <1>9 DEF MainExits, Ends
  <2>2. rt' = {}
    BY <2>1, ShutdownLeaves DEF ShutdownAll, Holds, rr_scheduler_shutdown
  <2> QED
    BY <2>1, <2>2 DEF Holds, Resources
<1>10. CASE ThreadExits
  BY <1>10 DEF ThreadExits, Ends, Holds
<1>11. CASE Terminated
  BY <1>11 DEF Terminated, Ends, Holds, rr_record_shutdown
<1>12. CASE ExitsNotReady
  BY <1>12 DEF ExitsNotReady, Ends, Holds
<1>13. CASE Overflows \/ WildAccess
  BY <1>13 DEF Overflows, WildAccess, Faults, Ends, Holds
<1>14. CASE UNCHANGED <<at, rt, mode>>
  BY <1>14 DEF Holds
<1> QED
  BY <1>1, <1>2, <1>3, <1>4, <1>5, <1>6, <1>7, <1>8, <1>9, <1>10, <1>11, <1>12,
     <1>13, <1>14
  DEF LifeNext, rr_init, CreateThread, CreateFails, Switch, UnblocksSegv,
      lifeVars

\* The steps of rr_signal_init: none, and the first.
LEMMA StepsDone ==
    /\ SignalsAfter(0) = {}
    /\ \A done \in 0..3 : "altstack" \in SignalsAfter(done) <=> done > 0
<1>1. SignalSteps[1] = "altstack" /\ SignalSteps[2] # "altstack"
      /\ SignalSteps[3] # "altstack"
  BY DEF SignalSteps
<1>2. \A done \in 0..3 : 1 \in 1..done <=> done > 0
  OBVIOUS
<1>3. \A done \in 0..3 : \A i \in 1..done : i \in {1, 2, 3}
  OBVIOUS
<1>4. SignalsAfter(0) = {}
  BY DEF SignalsAfter
<1> QED
  BY <1>1, <1>2, <1>3, <1>4 DEF SignalsAfter

\* rr_signal_shutdown unmaps the alternate stack.
LEMMA ShutdownUnmaps ==
    ASSUME NEW h
    PROVE  /\ "altstack" \notin rr_record_shutdown(rr_signal_shutdown(h))
           /\ mode = "record" => "altstack" \notin ModeShutdown(h)
  BY DEF rr_signal_shutdown, rr_record_shutdown, ModeShutdown

\* SignalInv is true at the start.
LEMMA SignalsInit == LifeInit => SignalInv
  BY DEF LifeInit, SignalInv

\* Every step keeps SignalInv.
LEMMA SignalsStep ==
    ASSUME Holds, Holds', SignalInv, [LifeNext]_lifeVars
    PROVE  SignalInv'
<1>1. ASSUME at' = "gave_up", mode' = mode, UNCHANGED signals,
             signals = {} \/ signals = SignalsAfter(3), "altstack" \notin rt'
      PROVE  \E done \in 0..3 :
                /\ signals' = SignalsAfter(done)
                /\ "altstack" \in rt' => done > 0
                /\ "altstack" \notin rt' => done \in {0, 3}
  BY <1>1, StepsDone
<1>2. CASE SignalInit
  <2>1. mode = "record" /\ mode' = mode /\ at' \in {"io_init", "gave_up"}
    BY <1>2 DEF SignalInit, Goes, Holds
  <2>2. CASE at' = "io_init"
    BY <1>2, <2>1, <2>2 DEF SignalInit, Goes, SignalInv
  <2>3. CASE at' = "gave_up"
    <3>1. PICK done \in 0..3 :
            /\ signals' = SignalsAfter(done)
            /\ at = "signal_init"
            /\ rt' = rr_record_shutdown(rt \cup (signals' \cap {"altstack"}))
      BY <1>2, <2>3 DEF SignalInit, Goes
    <3>2. "altstack" \notin rt
      BY <3>1 DEF Holds, Logs
    <3>3. "altstack" \in rt' <=> done > 0
      BY <3>1, <3>2, StepsDone DEF rr_record_shutdown
    <3>4. "altstack" \notin rt' => done = 0
      BY <3>3
    <3> QED
      BY <2>1, <2>3, <3>1, <3>3, <3>4 DEF SignalInv
  <2> QED
    BY <2>1, <2>2, <2>3
<1>3. CASE RecordInit \/ ReplayInit
  <2>1. "altstack" \notin rt
    BY <1>3 DEF RecordInit, ReplayInit, Goes, Holds
  <2>2. at' = "gave_up" => "altstack" \notin rt'
    BY <1>3, <2>1 DEF RecordInit, ReplayInit, Goes
  <2> QED
    BY <1>1, <1>3, <2>2 DEF RecordInit, ReplayInit, Goes, SignalInv, Holds
<1>4. CASE IoInit \/ SignalRead
  <2>1. at' = "gave_up" => "altstack" \notin rt'
    BY <1>4, ShutdownUnmaps DEF IoInit, SignalRead, Goes, Holds
  <2> QED
    BY <1>1, <1>4, <2>1 DEF IoInit, SignalRead, Goes, SignalInv, Holds
<1>5. CASE SchedulerInit \/ UthreadInitMain \/ FirstEvent
  <2>1. /\ at \in {"scheduler_init", "uthread_init", "first_event"}
        /\ at' \in {"uthread_init", "first_event", "main", "gave_up"}
        /\ mode' = mode /\ UNCHANGED signals
        /\ mode = "record" => signals = SignalsAfter(3)
        /\ mode # "record" => signals = {}
    BY <1>5 DEF SchedulerInit, UthreadInitMain, FirstEvent, Goes, SignalInv
  <2>2. at' = "gave_up" => "altstack" \notin rt'
    <3>1. CASE mode = "record"
      BY <1>5, <3>1, ShutdownUnmaps
      DEF SchedulerInit, UthreadInitMain, FirstEvent, Goes
    <3>2. CASE mode # "record"
      BY <2>1, <3>2 DEF Holds, Signal
    <3> QED
      BY <3>1, <3>2
  <2> QED
    BY <1>1, <2>1, <2>2 DEF SignalInv
<1>6. CASE /\ at' \in {"main"} \cup Ended
           /\ mode' = mode
           /\ signals' = signals \/ (signals' = signals \ {"blocked"})
  BY <1>6 DEF SignalInv
<1>7. CASE UNCHANGED <<mode, at, rt, signals>>
  BY <1>7 DEF SignalInv
<1> QED
  BY <1>2, <1>3, <1>4, <1>5, <1>6, <1>7
  DEF LifeNext, rr_init, CreateThread, CreateFails, Switch, UnblocksSegv,
      MainExits, ThreadExits, Terminated, ExitsNotReady, Overflows, WildAccess,
      Faults, Ends, lifeVars

-----------------------------------------------------------------------------
(* The tables.                                                             *)

\* Appending to a table adds one entry, and keeps a table without repetition
\* so when the entry is new.
LEMMA TableGrows ==
    ASSUME NEW S, NEW table \in Seq(S), NEW e \in S
    PROVE  /\ Append(table, e) \in Seq(S)
           /\ \A u : InTable(u, Append(table, e)) <=> InTable(u, table) \/ u = e
           /\ Once(table) /\ ~InTable(e, table) => Once(Append(table, e))
<1> DEFINE n == Len(table)
           r == Append(table, e)
<1>1. /\ r \in Seq(S)
      /\ n \in Nat
      /\ DOMAIN table = 1..n
      /\ DOMAIN r = 1..(n + 1)
      /\ \A i \in 1..n : r[i] = table[i]
      /\ r[n + 1] = e
  OBVIOUS
<1> HIDE DEF n, r
<1>2. \A u : InTable(u, r) <=> InTable(u, table) \/ u = e
  BY <1>1 DEF InTable
<1>3. Once(table) /\ ~InTable(e, table) => Once(r)
  BY <1>1 DEF InTable, Once
<1> QED
  BY <1>1, <1>2, <1>3 DEF r

\* An empty table holds nothing.
LEMMA EmptyTable ==
    /\ \A u : ~InTable(u, <<>>)
    /\ Once(<<>>)
  BY DEF InTable, Once

\* Range and InTable say the same.
LEMMA RangeIsInTable ==
    ASSUME NEW table, NEW u
    PROVE  u \in Range(table) <=> InTable(u, table)
  BY DEF Range, InTable

\* A thread that is once in a table occurs once in it.
LEMMA OccursOnce ==
    ASSUME NEW table, NEW t, Once(table)
    PROVE  Occurs(t, table) = IF InTable(t, table) THEN 1 ELSE 0
<1> DEFINE at_t == {i \in DOMAIN table : table[i] = t}
<1>1. CASE InTable(t, table)
  <2>1. PICK i \in DOMAIN table : table[i] = t
    BY <1>1 DEF InTable
  <2>2. at_t = {i}
    BY <2>1 DEF Once
  <2> QED
    BY <1>1, <2>2, FS_Singleton, Zenon DEF Occurs
<1>2. CASE ~InTable(t, table)
  <2>1. at_t = {}
    BY <1>2 DEF InTable
  <2> QED
    BY <1>2, <2>1, FS_EmptySet DEF Occurs
<1> QED
  BY <1>1, <1>2

\* The first thread has the number 1.
LEMMA MainIsThread ==
    /\ 1 \in Ids /\ 0 \notin Ids /\ 0 \notin Addrs
    /\ Ids \subseteq 0..MaxThreads
    /\ \A t \in Ids : t \in Nat /\ t + 1 \in 1..(MaxThreads + 1)
  BY LifeAssumption DEF Ids

\* There are no threads at first.
LEMMA ThreadsInit == LifeInit => ThreadInv
<1> SUFFICES ASSUME LifeInit PROVE ThreadInv
  OBVIOUS
<1>1. LifeTypeOK
  BY MainIsThread, LifeAssumption DEF LifeInit, LifeTypeOK
<1>2. NoThreads /\ NoDoubleFree /\ ReportNamesThread
  BY DEF LifeInit, NoThreads, NoDoubleFree, ReportNamesThread
<1>3. at \in EarlySteps /\ report = 0
  BY DEF LifeInit
<1> QED
  BY <1>1, <1>2, <1>3 DEF ThreadInv

-----------------------------------------------------------------------------
(* The steps.                                                              *)

\* The parts of rr_init that come before the first thread.
LEMMA EarlyStep ==
    ASSUME ThreadInv, Holds', noThreadYet, UNCHANGED <<mode, endVars>>,
           at \in EarlySteps, at' \in EarlySteps \cup {"gave_up"},
           signals' \in SUBSET Range(SignalSteps)
    PROVE  ThreadInv'
<1>1. LifeTypeOK'
  BY Zenon DEF ThreadInv, LifeTypeOK, Holds, noThreadYet, threadVars, endVars
<1>2. NoThreads' /\ NoDoubleFree' /\ ReportNamesThread' /\ report' = 0
  BY Zenon
  DEF ThreadInv, NoThreads, NoDoubleFree, ReportNamesThread, noThreadYet,
         threadVars, endVars
<1>3. /\ \A t \in Ids : heap'[t] \in {"none", "freed"} /\ stack_map'[t] = 0
      /\ g_threads' = <<>> /\ g_allocated' = <<>>
  BY <1>2 DEF NoThreads
<1> QED
  BY <1>1, <1>2, <1>3 DEF ThreadInv

\* The steps of rr_init but the last two.
LEMMA EarlyActions ==
    ASSUME ThreadInv, Holds',
           RecordInit \/ SignalInit \/ IoInit \/ SignalRead \/ ReplayInit
                \/ SchedulerInit
    PROVE  ThreadInv'
<1>1. signals \in SUBSET Range(SignalSteps)
  BY Zenon DEF ThreadInv, LifeTypeOK
<1>2. CASE SignalInit
  <2>1. SUFFICES signals' \in SUBSET Range(SignalSteps)
    BY <1>2, EarlyStep DEF SignalInit, Goes
  <2>2. \A done \in 0..3 :
            SignalsAfter(done) \in SUBSET Range(SignalSteps)
    BY DEF SignalsAfter, SignalSteps, Range
  <2> QED
    BY <1>2, <2>2 DEF SignalInit
<1>3. CASE RecordInit \/ IoInit \/ SignalRead \/ ReplayInit \/ SchedulerInit
  BY <1>1, <1>3, EarlyStep
  DEF RecordInit, IoInit, SignalRead, ReplayInit, SchedulerInit, Goes
<1> QED
  BY <1>2, <1>3

\* rr_uthread_init_main makes main the only thread.
LEMMA MainStep ==
    ASSUME ThreadInv, Holds', UthreadInitMain
    PROVE  ThreadInv'
<1>1. /\ LifeTypeOK /\ NoThreads /\ report = 0
      /\ mode' = mode /\ report' = report /\ rt' \subseteq Resources
      /\ UNCHANGED <<signals, stack_map, g_guard_pages>>
  BY DEF ThreadInv, Holds, UthreadInitMain, Goes, endVars
<1>2. CASE /\ Goes("uthread_init", "first_event", rt)
           /\ heap' = [heap EXCEPT ![1] = "live"]
           /\ g_current' = 1
           /\ g_threads' = <<1>>
           /\ g_allocated' = <<1>>
           /\ g_next_id' = 2
  <2>1. <<1>> \in Seq(Ids) /\ 2 \in 1..(MaxThreads + 1) /\ 1 \in 0..MaxThreads
    BY MainIsThread
  <2>2. LifeTypeOK'
    BY <1>1, <1>2, <2>1, MainIsThread, Zenon DEF LifeTypeOK
  <2>3. (\A u : InTable(u, <<1>>) <=> u = 1) /\ Once(<<1>>)
    BY DEF InTable, Once
  <2>4. heap' = [t \in Ids |-> IF t = 1 THEN "live" ELSE "none"]
    BY <1>1, <1>2 DEF NoThreads
  <2>5. stack_map' = [t \in Ids |-> 0] /\ g_guard_pages' = <<>>
    BY <1>1 DEF NoThreads
  <2>6. Unused' /\ Stacks' /\ Guards'
    BY <1>2, <2>3, <2>4, <2>5, EmptyTable, MainIsThread
    DEF Unused, Stacks, Guards
  <2>7. Tracked'
    BY <1>2, <2>3, <2>4, <2>6, MainIsThread, Zenon DEF Tracked
  <2> QED
    BY <1>1, <1>2, <2>2, <2>4, <2>7, Zenon
    DEF ThreadInv, NoDoubleFree, ReportNamesThread, Goes
<1>3. CASE /\ Goes("uthread_init", "gave_up",
                   ModeShutdown(rr_scheduler_shutdown(rt)))
           /\ \/ UNCHANGED <<heap, g_current>>
              \/ g_current' = 1 /\ heap' = [heap EXCEPT ![1] = "freed"]
           /\ UNCHANGED <<g_threads, g_allocated, g_next_id>>
  <2>1. LifeTypeOK'
    BY <1>1, <1>3, MainIsThread, Zenon DEF LifeTypeOK
  <2>2. /\ \A t \in Ids : heap'[t] \in {"none", "freed"} /\ stack_map'[t] = 0
        /\ g_threads' = <<>> /\ g_allocated' = <<>>
    BY <1>1, <1>3 DEF NoThreads
  <2> QED
    BY <1>1, <1>3, <2>1, <2>2, Zenon
    DEF ThreadInv, NoDoubleFree, ReportNamesThread, Goes
<1> QED
  BY <1>2, <1>3 DEF UthreadInitMain

\* rr_uthread_shutdown frees each live thread once and unmaps all stacks.
LEMMA FreesAll ==
    ASSUME LifeTypeOK, Tracked, rr_uthread_shutdown
    PROVE  /\ heap' \in [Ids -> {"none", "freed"}]
           /\ stack_map' = [t \in Ids |-> 0]
           /\ g_allocated' = <<>>
<1>1. /\ heap \in [Ids -> {"none", "live", "freed", "freed twice"}]
      /\ \A t \in Ids : heap[t] # "freed twice"
      /\ \A t \in Ids : heap[t] = "live" <=> t \in Range(g_allocated)
      /\ \A t \in Ids : stack_map[t] # 0 => t \in Range(g_allocated)
  BY RangeIsInTable, Zenon DEF LifeTypeOK, Tracked, Stacks
<1>2. heap' \in [Ids -> {"none", "freed"}]
  BY <1>1, Zenon DEF rr_uthread_shutdown, Freed
<1>3. stack_map' = [t \in Ids |-> 0]
  BY <1>1, Zenon DEF rr_uthread_shutdown, Unmapped
<1> QED
  BY <1>2, <1>3 DEF rr_uthread_shutdown

\* What is left by the shutdown functions has the types of the variables.
LEMMA FreedTypes ==
    /\ \A h \in [Ids -> {"none", "freed"}] :
        h \in [Ids -> {"none", "live", "freed", "freed twice"}]
    /\ [t \in Ids |-> 0] \in [Ids -> {0} \cup Addrs]
    /\ \A S : <<>> \in Seq(S)
<1>1. ASSUME NEW h \in [Ids -> {"none", "freed"}]
      PROVE  h \in [Ids -> {"none", "live", "freed", "freed twice"}]
  BY Zenon
<1>2. [t \in Ids |-> 0] \in [Ids -> {0} \cup Addrs]
  OBVIOUS
<1>3. \A S : <<>> \in Seq(S)
  OBVIOUS
<1> QED
  BY <1>1, <1>2, <1>3, Zenon

\* The first event, which may be missing from the log to be replayed.
LEMMA FirstEventStep ==
    ASSUME ThreadInv, Holds', FirstEvent
    PROVE  ThreadInv'
<1>1. /\ LifeTypeOK /\ Tracked /\ report = 0 /\ NoDoubleFree
      /\ mode' = mode /\ report' = report /\ rt' \subseteq Resources
      /\ UNCHANGED <<signals, g_current>>
  BY DEF ThreadInv, Holds, FirstEvent, Goes, endVars
<1>2. CASE at' = "main" /\ UNCHANGED threadVars
  <2>1. LifeTypeOK'
    BY <1>1, <1>2, Zenon DEF LifeTypeOK, threadVars
  <2>2. Tracked' /\ NoDoubleFree'
    BY <1>1, <1>2, Zenon
    DEF Tracked, Unused, Stacks, Guards, NoDoubleFree, threadVars
  <2> QED
    BY <1>1, <1>2, <2>1, <2>2 DEF ThreadInv, ReportNamesThread
<1>3. CASE /\ at' = "gave_up"
           /\ rr_uthread_shutdown
           /\ g_threads' = <<>>
           /\ UNCHANGED <<g_next_id, g_guard_pages, failures>>
  <2>1. /\ heap' \in [Ids -> {"none", "freed"}]
        /\ stack_map' = [t \in Ids |-> 0]
        /\ g_allocated' = <<>>
    BY <1>1, <1>3, FreesAll
  <2>2. LifeTypeOK'
    BY <1>1, <1>3, <2>1, FreedTypes, Zenon DEF LifeTypeOK
  <2> QED
    BY <1>1, <1>3, <2>1, <2>2, Zenon
    DEF ThreadInv, NoDoubleFree, ReportNamesThread
<1> QED
  BY <1>2, <1>3 DEF FirstEvent, Goes

\* rr_uthread_create, whether it succeeds or not, keeps the tables in step.
LEMMA CreateStep ==
    ASSUME ThreadInv, Holds', CreateThread
    PROVE  ThreadInv'
<1> DEFINE t == g_next_id
<1>1. PICK mem \in Addrs \ Range(stack_map), n \in 0..3 :
        /\ at = "main"
        /\ t \in Ids
        /\ g_next_id' = t + 1
        /\ Inserted(n, t, mem)
        /\ heap' = [heap EXCEPT ![t] = IF n = 3 THEN "live" ELSE "freed"]
        /\ stack_map' = [stack_map EXCEPT ![t] = IF n = 3 THEN mem ELSE stack_map[t]]
        /\ UNCHANGED <<mode, at, rt, signals, g_current, endVars>>
  <2>1. PICK mem \in Addrs \ Range(stack_map), n \in 0..3 :
        /\ at = "main"
        /\ t \in Ids
        /\ g_next_id' = t + 1
        /\ Inserted(n, t, mem)
        /\ \/ /\ n = 3
              /\ heap' = [heap EXCEPT ![t] = "live"]
              /\ stack_map' = [stack_map EXCEPT ![t] = mem]
           \/ /\ n < 3
              /\ heap' = [heap EXCEPT ![t] = "freed"]
              /\ UNCHANGED stack_map
        /\ UNCHANGED <<mode, at, rt, signals, g_current, endVars>>
    BY DEF CreateThread
  <2>2. stack_map = [stack_map EXCEPT ![t] = stack_map[t]]
    BY Zenon DEF ThreadInv, LifeTypeOK
  <2> QED
    BY <2>1, <2>2
<1> DEFINE g == [start |-> mem, utid |-> t]
<1>2. /\ LifeTypeOK /\ Tracked /\ report = 0 /\ rt' \subseteq Resources
      /\ mem \in Addrs /\ mem # 0 /\ g \in GuardPage
  BY <1>1, MainIsThread DEF ThreadInv, Holds, GuardPage
<1>3. \A u \in Ids : stack_map[u] # mem
  <2>1. stack_map \in [Ids -> {0} \cup Addrs]
    BY <1>2, Zenon DEF LifeTypeOK
  <2> QED
    BY <1>1, <2>1 DEF Range
<1>4. heap[t] = "none" /\ stack_map[t] = 0 /\ ~InTable(t, g_threads)
  <2>1. t >= g_next_id
    BY <1>1, MainIsThread
  <2> QED
    BY <1>1, <1>2, <2>1, Zenon DEF Tracked, Unused
<1>5. ~InTable(t, g_allocated) /\ t # 1
  <2>1. ~InTable(t, g_allocated)
    BY <1>1, <1>2, <1>4, Zenon DEF Tracked, Stacks
  <2>2. g_next_id > 1
    BY <1>2, Zenon DEF Tracked, Unused
  <2>3. t # 1
    BY <1>1, <2>2, MainIsThread
  <2> QED
    BY <2>1, <2>3
\* What the tables hold after it.
<1>6. /\ g_guard_pages' \in Seq(GuardPage)
      /\ \A e : InTable(e, g_guard_pages')
                    <=> InTable(e, g_guard_pages) \/ (n >= 1 /\ e = g)
  <2>1. g_guard_pages \in Seq(GuardPage)
    BY <1>2, Zenon DEF LifeTypeOK, GuardPage
  <2>2. g_guard_pages' = IF n >= 1 THEN Append(g_guard_pages, g)
                                   ELSE g_guard_pages
    BY <1>1 DEF Inserted
  <2> HIDE DEF g
  <2> QED
    BY <1>2, <2>1, <2>2, TableGrows
<1>7. /\ g_threads' \in Seq(Ids) /\ Once(g_threads')
      /\ \A u : InTable(u, g_threads')
                    <=> InTable(u, g_threads) \/ (n >= 2 /\ u = t)
  <2>1. g_threads \in Seq(Ids) /\ Once(g_threads)
    BY <1>2, Zenon DEF LifeTypeOK, Tracked
  <2>2. g_threads' = IF n >= 2 THEN Append(g_threads, t) ELSE g_threads
    BY <1>1 DEF Inserted
  <2> QED
    BY <1>1, <1>4, <2>1, <2>2, TableGrows
<1>8. /\ g_allocated' \in Seq(Ids) /\ Once(g_allocated')
      /\ \A u : InTable(u, g_allocated')
                    <=> InTable(u, g_allocated) \/ (n >= 3 /\ u = t)
  <2>1. g_allocated \in Seq(Ids) /\ Once(g_allocated)
    BY <1>2, Zenon DEF LifeTypeOK, Tracked
  <2>2. g_allocated' = IF n >= 3 THEN Append(g_allocated, t) ELSE g_allocated
    BY <1>1 DEF Inserted
  <2> QED
    BY <1>1, <1>5, <2>1, <2>2, TableGrows
\* What the heap and the stacks are after it.
<1>9. /\ heap' \in [Ids -> {"none", "live", "freed", "freed twice"}]
      /\ heap'[t] = IF n = 3 THEN "live" ELSE "freed"
      /\ \A u \in Ids \ {t} : heap'[u] = heap[u]
  BY <1>1, <1>2, Zenon DEF LifeTypeOK
<1>10. /\ stack_map' \in [Ids -> {0} \cup Addrs]
       /\ stack_map'[t] = IF n = 3 THEN mem ELSE 0
       /\ \A u \in Ids \ {t} : stack_map'[u] = stack_map[u]
  BY <1>1, <1>2, <1>4, Zenon DEF LifeTypeOK
<1>11. /\ t \in Ids /\ t \in Nat /\ n \in 0..3 /\ g_next_id' = t + 1
       /\ t + 1 \in 1..(MaxThreads + 1)
  BY <1>1, MainIsThread
<1>12. LifeTypeOK'
  BY <1>1, <1>2, <1>6, <1>7, <1>8, <1>9, <1>10, <1>11, Zenon
  DEF LifeTypeOK, endVars, GuardPage
<1>13. Unused'
  <2>1. g_next_id' > 1
    BY <1>11, MainIsThread
  <2>2. ASSUME NEW u \in Ids, u >= t + 1
        PROVE  heap'[u] = "none" /\ stack_map'[u] = 0 /\ ~InTable(u, g_threads')
    <3>1. u # t /\ u >= t
      BY <1>11, <2>2, MainIsThread
    <3> QED
      BY <1>2, <1>7, <1>9, <1>10, <3>1, Zenon DEF Tracked, Unused
  <2> QED
    BY <1>11, <2>1, <2>2 DEF Unused
<1>14. Stacks'
  <2>1. Stacks
    BY <1>2, Zenon DEF Tracked
  <2>2. ASSUME NEW u \in Ids
        PROVE  heap'[u] = "live" <=> InTable(u, g_allocated')
    <3>1. heap[u] = "live" <=> InTable(u, g_allocated)
      BY <2>1 DEF Stacks
    <3>2. n >= 3 <=> n = 3
      BY <1>11
    <3>3. InTable(u, g_allocated') <=> InTable(u, g_allocated) \/ (n = 3 /\ u = t)
      BY <1>8, <3>2
    <3> QED
      BY <1>5, <1>9, <3>1, <3>3, Zenon
  <2>3. \A u \in Ids : stack_map'[u] # 0 <=> heap'[u] = "live" /\ u # 1
    BY <1>2, <1>5, <1>9, <1>10, <1>11, <2>1, Zenon DEF Stacks
  <2>4. \A u, v \in Ids :
            stack_map'[u] # 0 /\ stack_map'[u] = stack_map'[v] => u = v
    BY <1>3, <1>10, <1>11, <2>1 DEF Stacks
  <2> QED
    BY <2>2, <2>3, <2>4 DEF Stacks
<1>15. Guards'
  <2>1. Guards
    BY <1>2, Zenon DEF Tracked
  <2>2. ASSUME NEW e \in GuardPage, InTable(e, g_guard_pages')
        PROVE  /\ heap'[e.utid] \in {"live", "freed"}
               /\ heap'[e.utid] = "live" => stack_map'[e.utid] = e.start
    <3>1. CASE InTable(e, g_guard_pages)
      <4>1. /\ e.utid \in Ids
            /\ heap[e.utid] \in {"live", "freed"}
            /\ heap[e.utid] = "live" => stack_map[e.utid] = e.start
        BY <2>1, <3>1 DEF Guards, GuardPage
      <4> QED
        BY <1>4, <1>9, <1>10, <4>1, Zenon
    <3>2. CASE n >= 1 /\ e = g
      BY <1>9, <1>10, <1>11, <3>2, Zenon
    <3> QED
      BY <1>6, <2>2, <3>1, <3>2
  <2>3. ASSUME NEW u \in Ids, stack_map'[u] # 0
        PROVE  InTable([start |-> stack_map'[u], utid |-> u], g_guard_pages')
    <3>1. CASE u = t
      <4>1. n = 3 /\ stack_map'[u] = mem
        BY <1>10, <2>3, <3>1
      <4> QED
        BY <1>6, <3>1, <4>1
    <3>2. CASE u # t
      BY <1>6, <1>10, <2>1, <2>3, <3>2 DEF Guards
    <3> QED
      BY <3>1, <3>2
  <2> QED
    BY <2>2, <2>3 DEF Guards
<1>16. /\ \A u \in Ids : heap'[u] = "live" => InTable(u, g_threads')
       /\ \A u \in Ids : heap'[u] # "freed twice"
       /\ InTable(g_current', g_allocated')
  <2>1. ASSUME NEW u \in Ids
        PROVE  /\ heap'[u] = "live" => InTable(u, g_threads')
               /\ heap'[u] # "freed twice"
    <3>1. /\ heap[u] = "live" => InTable(u, g_threads)
          /\ heap[u] # "freed twice"
      BY <1>2, Zenon DEF Tracked
    <3>2. n = 3 => n >= 2
      OBVIOUS
    <3>3. InTable(u, g_threads') <=> InTable(u, g_threads) \/ (n >= 2 /\ u = t)
      BY <1>7
    <3> QED
      BY <1>9, <3>1, <3>2, <3>3, Zenon
  <2>2. InTable(g_current, g_allocated) /\ g_current' = g_current
    BY <1>1, <1>2, Zenon DEF Tracked
  <2>3. InTable(g_current, g_allocated')
    BY <1>8, <2>2
  <2> QED
    BY <2>1, <2>2, <2>3, Zenon
<1>17. Tracked'
  BY <1>7, <1>8, <1>13, <1>14, <1>15, <1>16, Zenon DEF Tracked
<1> QED
  BY <1>1, <1>2, <1>12, <1>16, <1>17, Zenon
  DEF ThreadInv, NoDoubleFree, ReportNamesThread, endVars

\* Steps that leave the threads alone.
LEMMA QuietStep ==
    ASSUME ThreadInv, Holds',
           at = "main", at' = "main" \/ at' = "terminated",
           UNCHANGED <<mode, heap, stack_map, g_next_id, g_threads, g_allocated,
                       g_guard_pages, report>>,
           signals' \in SUBSET signals,
           g_current' = g_current \/ InTable(g_current', g_allocated)
    PROVE  ThreadInv'
<1>1. LifeTypeOK /\ Tracked /\ report = 0
  BY DEF ThreadInv
<1>2. InTable(g_current', g_allocated) /\ g_current' \in Ids
  <2>1. InTable(g_current', g_allocated)
    BY <1>1, Zenon DEF Tracked
  <2>2. g_allocated \in Seq(Ids)
    BY <1>1, Zenon DEF LifeTypeOK
  <2> QED
    BY <2>1, <2>2 DEF InTable
<1>3. LifeTypeOK'
  BY <1>1, <1>2, MainIsThread, Zenon DEF LifeTypeOK, Holds
<1>4. Tracked' /\ NoDoubleFree'
  BY <1>1, <1>2, Zenon DEF Tracked, Unused, Stacks, Guards, NoDoubleFree
<1> QED
  BY <1>1, <1>3, <1>4 DEF ThreadInv, ReportNamesThread

\* exit() on main's stack.
LEMMA MainExitsStep ==
    ASSUME ThreadInv, Holds', MainExits
    PROVE  ThreadInv'
<1>1. /\ LifeTypeOK /\ Tracked /\ report = 0
      /\ at' = "exited" /\ g_threads' = <<>> /\ rt' \subseteq Resources
      /\ UNCHANGED <<mode, signals, g_next_id, g_current, report>>
      /\ rr_uthread_shutdown
      /\ g_guard_pages' \in {<<>>, g_guard_pages}
  BY DEF ThreadInv, Holds, MainExits, Ends
<1>2. /\ heap' \in [Ids -> {"none", "freed"}]
      /\ stack_map' = [t \in Ids |-> 0]
      /\ g_allocated' = <<>>
  BY <1>1, FreesAll
<1>3. LifeTypeOK'
  BY <1>1, <1>2, FreedTypes, Zenon DEF LifeTypeOK
<1> QED
  BY <1>1, <1>2, <1>3, Zenon DEF ThreadInv, NoDoubleFree, ReportNamesThread

\* exit() on another thread's stack frees the threads before it in
\* g_allocated, each for the first time.
LEMMA ThreadExitsStep ==
    ASSUME ThreadInv, Holds', ThreadExits
    PROVE  ThreadInv'
<1> DEFINE i == CHOOSE i \in DOMAIN g_allocated : g_allocated[i] = g_current
           before == SubSeq(g_allocated, 1, i - 1)
           upto == SubSeq(g_allocated, 1, i)
<1>1. /\ LifeTypeOK /\ Tracked /\ report = 0
      /\ at' = "killed" /\ rt' \subseteq Resources
      /\ UNCHANGED <<mode, signals, g_next_id, g_current, report, g_threads,
                     g_allocated, g_guard_pages>>
      /\ heap' = Freed(before)
      /\ stack_map' = Unmapped(upto)
  BY DEF ThreadInv, Holds, ThreadExits, Ends
<1>2. g_allocated \in Seq(Ids) /\ i \in DOMAIN g_allocated
  BY <1>1, Zenon DEF LifeTypeOK, Tracked, InTable
<1>3. \A t \in Range(before) : InTable(t, g_allocated)
  BY <1>2 DEF Range, InTable
<1> HIDE DEF i, before, upto
<1>4. \A t \in Ids : t \in Range(before) => heap[t] = "live"
  BY <1>1, <1>3, Zenon DEF Tracked, Stacks
<1>5. /\ heap \in [Ids -> {"none", "live", "freed", "freed twice"}]
      /\ \A t \in Ids : heap[t] # "freed twice"
  BY <1>1, Zenon DEF LifeTypeOK, Tracked
<1>6. /\ heap' \in [Ids -> {"none", "live", "freed", "freed twice"}]
      /\ \A t \in Ids : heap'[t] # "freed twice"
  BY <1>1, <1>4, <1>5, Zenon DEF Freed
<1>7. stack_map' \in [Ids -> {0} \cup Addrs]
  BY <1>1, Zenon DEF Unmapped, LifeTypeOK
<1>8. LifeTypeOK'
  BY <1>1, <1>6, <1>7, Zenon DEF LifeTypeOK
<1> QED
  BY <1>1, <1>6, <1>8, Zenon DEF ThreadInv, NoDoubleFree, ReportNamesThread

\* A set of natural numbers that is not empty has a least element.
LEMMA LeastNumber ==
    ASSUME NEW T \in SUBSET Nat, T # {}
    PROVE  \E x \in T : \A y \in T : x <= y
<1> DEFINE R == OpToRel(<, Nat)
<1>1. PICK x \in T : \A y \in T : ~ (<<y, x>> \in R)
  BY NatLessThanWellFounded, WFMin, Zenon
<1>2. \A y \in T : y < x => <<y, x>> \in R
  BY DEF OpToRel
<1>3. \A y \in T : ~ (y < x)
  BY <1>1, <1>2, Zenon
<1> QED
  BY <1>3

\* The entry rr_is_guard_page_fault finds is one of the table, and its page
\* holds the address.
LEMMA FirstHit ==
    ASSUME g_guard_pages \in Seq(GuardPage), NEW addr
    PROVE  \/ rr_is_guard_page_fault(addr) = 0
           \/ \E e \in GuardPage : /\ InTable(e, g_guard_pages)
                                   /\ e.start = addr
                                   /\ rr_is_guard_page_fault(addr) = e.utid
<1> DEFINE hits == {i \in DOMAIN g_guard_pages : g_guard_pages[i].start = addr}
<1>1. CASE hits = {}
  BY <1>1 DEF rr_is_guard_page_fault
<1>2. CASE hits # {}
  <2>1. hits \subseteq Nat
    OBVIOUS
  <2>2. \E x \in hits : \A y \in hits : x <= y
    BY <1>2, <2>1, LeastNumber, Zenon
  <2>3. Min(hits) \in hits
    BY <2>2 DEF Min
  <2>4. rr_is_guard_page_fault(addr) = g_guard_pages[Min(hits)].utid
    BY <1>2 DEF rr_is_guard_page_fault
  <2>5. g_guard_pages[Min(hits)] \in GuardPage
    BY <2>3
  <2> QED
    BY <2>3, <2>4, <2>5, Zenon DEF InTable
<1> QED
  BY <1>1, <1>2

\* segv_handler names the thread whose stack it is, or a thread that was
\* never completed.
LEMMA FaultStep ==
    ASSUME ThreadInv, Holds', Overflows \/ WildAccess
    PROVE  ThreadInv'
<1>1. PICK addr \in {0} \cup Addrs, why \in {"overflow", "fault"} :
        /\ Faults(addr, why)
        /\ addr = 0 \/ addr = stack_map[g_current] \/ addr \notin Range(stack_map)
        /\ at = "main"
  <2>1. CASE Overflows
    <3>1. LifeTypeOK /\ InTable(g_current, g_allocated)
      BY <2>1, Zenon DEF Overflows, ThreadInv, Tracked
    <3>2. g_allocated \in Seq(Ids) /\ stack_map \in [Ids -> {0} \cup Addrs]
      BY <3>1, Zenon DEF LifeTypeOK
    <3>3. g_current \in Ids
      BY <3>1, <3>2 DEF InTable
    <3> QED
      BY <2>1, <3>2, <3>3, Zenon DEF Overflows
  <2>2. CASE WildAccess
    BY <2>2 DEF WildAccess
  <2> QED
    BY <2>1, <2>2
<1>2. /\ LifeTypeOK /\ Tracked
      /\ at' = "killed" /\ rt' \subseteq Resources
      /\ UNCHANGED <<mode, signals, g_next_id, g_current, heap, stack_map,
                     g_threads, g_allocated, g_guard_pages>>
      /\ report' \in {0, rr_is_guard_page_fault(addr)}
  BY <1>1 DEF ThreadInv, Holds, Faults, Ends
<1>3. report' = 0 \/ (report' \in Ids /\ (report' = g_current
                                              \/ heap[report'] = "freed"))
  <2> SUFFICES ASSUME report' # 0
               PROVE  report' \in Ids /\ (report' = g_current
                                              \/ heap[report'] = "freed")
    OBVIOUS
  <2>1. g_guard_pages \in Seq(GuardPage)
    BY <1>2, Zenon DEF LifeTypeOK, GuardPage
  <2>2. PICK e \in GuardPage : /\ InTable(e, g_guard_pages)
                               /\ e.start = addr
                               /\ report' = e.utid
    BY <1>2, <2>1, FirstHit
  <2>3. e.utid \in Ids /\ e.start # 0
    BY MainIsThread DEF GuardPage
  <2>4. CASE heap[e.utid] = "live"
    <3>1. stack_map[e.utid] = addr /\ addr # 0
      BY <1>2, <2>2, <2>3, <2>4, Zenon DEF Tracked, Guards
    <3>2. stack_map \in [Ids -> {0} \cup Addrs]
      BY <1>2, Zenon DEF LifeTypeOK
    <3>3. addr = stack_map[g_current]
      BY <1>1, <2>3, <3>1, <3>2 DEF Range
    <3>4. g_current \in Ids
      <4>1. InTable(g_current, g_allocated) /\ g_allocated \in Seq(Ids)
        BY <1>2, Zenon DEF LifeTypeOK, Tracked
      <4> QED
        BY <4>1 DEF InTable
    <3>5. e.utid = g_current
      BY <1>2, <2>3, <3>1, <3>3, <3>4, Zenon DEF Tracked, Stacks
    <3> QED
      BY <2>2, <2>3, <3>5
  <2>5. CASE heap[e.utid] # "live"
    BY <1>2, <2>2, <2>3, <2>5, Zenon DEF Tracked, Guards
  <2> QED
    BY <2>4, <2>5
<1>4. LifeTypeOK'
  <2>1. report' \in 0..MaxThreads
    BY <1>3, LifeAssumption DEF Ids
  <2> QED
    BY <1>2, <2>1, Zenon DEF LifeTypeOK
<1> QED
  BY <1>2, <1>3, <1>4, Zenon
  DEF ThreadInv, NoDoubleFree, ReportNamesThread, Tracked

\* Every step keeps the threads' part of the invariant.
LEMMA ThreadStep ==
    ASSUME ThreadInv, Holds', [LifeNext]_lifeVars
    PROVE  ThreadInv'
<1>1. CASE rr_init
  BY <1>1, EarlyActions, MainStep, FirstEventStep DEF rr_init
<1>2. CASE CreateFails \/ UnblocksSegv \/ Terminated \/ \E t \in Ids : Switch(t)
  BY <1>2, QuietStep, RangeIsInTable
  DEF CreateFails, UnblocksSegv, Terminated, Switch, Ends, threadVars, endVars
<1>3. CASE ExitsNotReady
  <2>1. LifeTypeOK'
    BY <1>3, Zenon DEF ThreadInv, LifeTypeOK, Holds, ExitsNotReady, Ends
  <2> QED
    BY <1>3, <2>1, Zenon
    DEF ThreadInv, ExitsNotReady, Ends, NoDoubleFree, ReportNamesThread
<1>4. CASE UNCHANGED lifeVars
  BY <1>4, Zenon
  DEF ThreadInv, LifeTypeOK, NoThreads, Tracked, Unused, Stacks, Guards,
      NoDoubleFree, ReportNamesThread, lifeVars, threadVars, endVars
<1> QED
  BY <1>1, <1>2, <1>3, <1>4, CreateStep, MainExitsStep, ThreadExitsStep,
     FaultStep
  DEF LifeNext

-----------------------------------------------------------------------------
(* Theorems.                                                               *)

\* The inductive invariant holds in every reachable state.
THEOREM LifeInductive == LifeSpec => []LifeInv
<1>1. LifeInit => LifeInv
  BY HoldsInit, SignalsInit, ThreadsInit DEF LifeInv
<1>2. LifeInv /\ [LifeNext]_lifeVars => LifeInv'
  BY HoldsStep, SignalsStep, ThreadStep DEF LifeInv
<1> QED
  BY <1>1, <1>2, PTL DEF LifeSpec

\* Every variable of the life cycle keeps its type.
THEOREM LifeTypeCorrect == LifeSpec => []LifeTypeOK
<1>1. LifeInv => LifeTypeOK
  BY DEF LifeInv, ThreadInv
<1> QED
  BY <1>1, LifeInductive, PTL

\* rr_init gives back what it took, at whichever step it gives up, but for the
\* changes of rr_signal_init, of which it leaves exactly the listed ones.
THEOREM FailedInitSafe == LifeSpec => []FailedInitReleases
<1>1. LifeInv => FailedInitReleases
  <2> SUFFICES ASSUME LifeInv, at = "gave_up" PROVE FailedInitReleases
    BY DEF FailedInitReleases
  <2>1. PICK done \in 0..3 :
            /\ signals = SignalsAfter(done)
            /\ "altstack" \in rt => done > 0
            /\ "altstack" \notin rt => done \in {0, 3}
    BY DEF LifeInv, SignalInv
  <2>2. rt = {} \/ rt = {"altstack"}
    BY DEF LifeInv, Holds
  <2>3. done > 0 => mode = "record"
    <3>1. done > 0 => "altstack" \in signals
      BY <2>1, StepsDone
    <3> QED
      BY <3>1 DEF LifeInv, SignalInv
  <2>4. \/ rt = {} /\ done \in {0, 3}
        \/ rt = {"altstack"} /\ done > 0
    BY <2>1, <2>2
  <2>5. /\ \A t \in Ids : heap[t] \in {"none", "freed"}
        /\ g_threads = <<>> /\ g_allocated = <<>>
    BY DEF LifeInv, ThreadInv
  <2> QED
    BY <2>1, <2>3, <2>4, <2>5 DEF FailedInitReleases
<1> QED
  BY <1>1, LifeInductive, PTL

\* The tables of threads agree, whatever creations have failed.
THEOREM TablesSafe == LifeSpec => []ThreadsTracked
<1>1. LifeInv => ThreadsTracked
  <2> SUFFICES ASSUME LifeInv, at = "main", NEW t \in Ids
               PROVE  /\ Occurs(t, g_allocated) = IF heap[t] = "live" THEN 1 ELSE 0
                      /\ heap[t] = "live" => Occurs(t, g_threads) = 1
                      /\ heap[t] = "live" /\ t # 1 =>
                          /\ \E i \in DOMAIN g_guard_pages :
                              g_guard_pages[i] =
                                [start |-> stack_map[t], utid |-> t]
                          /\ \A u \in Ids \ {t} : stack_map[u] # stack_map[t]
    BY DEF ThreadsTracked
  <2>1. Tracked
    BY DEF LifeInv, ThreadInv
  <2>2. Occurs(t, g_allocated) = IF heap[t] = "live" THEN 1 ELSE 0
    BY <2>1, OccursOnce, Zenon DEF Tracked, Stacks
  <2>3. heap[t] = "live" => Occurs(t, g_threads) = 1
    BY <2>1, OccursOnce, Zenon DEF Tracked
  <2>4. ASSUME heap[t] = "live", t # 1
        PROVE  /\ InTable([start |-> stack_map[t], utid |-> t], g_guard_pages)
               /\ \A u \in Ids \ {t} : stack_map[u] # stack_map[t]
    BY <2>1, <2>4, Zenon DEF Tracked, Stacks, Guards
  <2> QED
    BY <2>2, <2>3, <2>4 DEF InTable
<1> QED
  BY <1>1, LifeInductive, PTL

\* No thread is freed twice.
THEOREM FreeSafe == LifeSpec => []NoDoubleFree
<1>1. LifeInv => NoDoubleFree
  BY DEF LifeInv, ThreadInv
<1> QED
  BY <1>1, LifeInductive, PTL

\* An orderly end saves the log, and exit() on main's stack gives everything
\* back.
THEOREM OrderlyEndSafe == LifeSpec => []OrderlyEndSaves
<1>1. LifeInv => OrderlyEndSaves
  BY DEF LifeInv, ThreadInv, Holds, OrderlyEndSaves
<1> QED
  BY <1>1, LifeInductive, PTL

\* No close goes through a ring that is gone.
THEOREM RingSafe == LifeSpec => []RingNotMisused
<1>1. LifeInv => RingNotMisused
  BY DEF LifeInv, Holds, RingNotMisused
<1> QED
  BY <1>1, LifeInductive, PTL

\* segv_handler names the thread that overflowed its stack, or one whose
\* creation failed.
THEOREM ReportSafe == LifeSpec => []ReportNamesThread
<1>1. LifeInv => ReportNamesThread
  BY DEF LifeInv, ThreadInv
<1> QED
  BY <1>1, LifeInductive, PTL

=============================================================================
