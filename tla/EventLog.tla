------------------------------ MODULE EventLog ------------------------------
(***************************************************************************)
(* The event log: src/librr/src/record.c writes it through a memory buffer *)
(* and src/librr/src/replay.c reads it back.                               *)
(*                                                                         *)
(* Bytes are grouped into units: an event is EventUnits units, the first   *)
(* NumberUnits of which hold its sequence number, and the n-th event is    *)
(* told apart from the others by its number.  A write to the log file may  *)
(* stop anywhere, in the middle of an event or of its number too.  What    *)
(* the reader then finds where it looks for a number can be anything: ids, *)
(* results and data that happen to equal the number it expects.            *)
(*                                                                         *)
(* The log header is written and checked before any event and is left out  *)
(* of the file.  rr_record_append's branch for an entry larger than the    *)
(* buffer is left out too: all entries are rr_event_t.                     *)
(***************************************************************************)
EXTENDS Naturals, Sequences

CONSTANTS
    EventUnits,         \* units of one rr_event_t
    NumberUnits,        \* units of its sequence number
    RingUnits,          \* units of the buffer (RR_LOG_RING_SIZE)
    MaxEvents,          \* bound on the events recorded
    MaxWriteFailures    \* bound on failing writes to the log file

ASSUME EventLogAssumption ==
    /\ NumberUnits \in Nat \ {0}
    /\ EventUnits \in Nat /\ NumberUnits < EventUnits
    /\ RingUnits \in Nat /\ EventUnits <= RingUnits
    /\ MaxEvents \in Nat
    /\ MaxWriteFailures \in Nat

VARIABLES
    recorder,           \* "running", "closed" or "crashed"
    g_rr_seq,           \* number of the latest event
    g_ring,             \* units in the buffer
    file,               \* units in the log file
    write_failures,     \* failing writes so far
    g_replay_header_ok, \* the replay has opened the log
    pos,                \* units of the file the replay has read
    g_expected_seq,     \* number the replay expects next
    delivered           \* events the replay has accepted

logVars ==
    <<recorder, g_rr_seq, g_ring, file, write_failures, g_replay_header_ok, pos,
      g_expected_seq, delivered>>

recorderVars == <<recorder, g_rr_seq, g_ring, file, write_failures>>
readerVars == <<g_replay_header_ok, pos, g_expected_seq, delivered>>

Event(n) == [k \in 1..EventUnits |-> [seq |-> n, part |-> k]]

\* The units ev begin with the number the recorder gave to event n.
HasNumber(ev, n) == \A k \in 1..NumberUnits : ev[k] = Event(n)[k]

\* They begin with a number the recorder wrote.
Numbered(ev) == \E n \in 1..MaxEvents : HasNumber(ev, n)

\* rr_record_init
LogInit ==
    /\ recorder = "running"
    /\ g_rr_seq = 0
    /\ g_ring = <<>>
    /\ file = <<>>
    /\ write_failures = 0
    /\ g_replay_header_ok = FALSE
    /\ pos = 0
    /\ g_expected_seq = 1
    /\ delivered = <<>>

-----------------------------------------------------------------------------
(* Recording.                                                              *)

\* The first n units of the buffer reach the file.
Written(n) == file' = file \o SubSeq(g_ring, 1, n)

\* rr_write_direct repeats short writes until all is written, or gives up at
\* an error after having written a part.
rr_write_direct ==
    \/ Written(Len(g_ring)) /\ UNCHANGED write_failures
    \/ /\ write_failures < MaxWriteFailures
       /\ write_failures' = write_failures + 1
       /\ \E n \in 0..(Len(g_ring) - 1) : Written(n)

\* rr_record_flush.  Its callers empty the buffer whether or not the write
\* failed, as it does.
rr_record_flush ==
    IF g_ring = <<>> THEN UNCHANGED <<file, write_failures>>
                     ELSE rr_write_direct

\* Mutant of RingFull: off by one.
RingFullLate == Len(g_ring) + EventUnits > RingUnits + 1

\* rr_record_append's test for room.
RingFull == Len(g_ring) + EventUnits > RingUnits

\* Mutant of rr_record_append: the full buffer is reused before it is written.
AppendDropsBuffer(entry) ==
    /\ g_ring' = IF RingFull THEN entry ELSE g_ring \o entry
    /\ UNCHANGED <<file, write_failures>>

rr_record_append(entry) ==
    \/ /\ RingFull
       /\ rr_record_flush
       /\ g_ring' = entry
    \/ /\ ~RingFull
       /\ g_ring' = g_ring \o entry
       /\ UNCHANGED <<file, write_failures>>

\* rr_log_syscall, rr_log_signal, rr_log_sched: rr_next_seq, then the append.
rr_log_event ==
    /\ recorder = "running"
    /\ g_rr_seq < MaxEvents
    /\ g_rr_seq' = g_rr_seq + 1
    /\ rr_record_append(Event(g_rr_seq'))
    /\ UNCHANGED <<recorder, readerVars>>

\* Mutant of rr_record_shutdown: closes without the flush.
ShutdownNoFlush ==
    /\ recorder = "running"
    /\ recorder' = "closed"
    /\ g_ring' = <<>>
    /\ UNCHANGED <<file, write_failures, g_rr_seq, readerVars>>

\* rr_record_shutdown, from rr_shutdown or on SIGINT and SIGTERM.
rr_record_shutdown ==
    /\ recorder = "running"
    /\ recorder' = "closed"
    /\ rr_record_flush
    /\ g_ring' = <<>>
    /\ UNCHANGED <<g_rr_seq, readerVars>>

\* The process dies and n units of the buffer have reached the file.
Dies(n) ==
    /\ recorder = "running"
    /\ recorder' = "crashed"
    /\ Written(n)
    /\ g_ring' = <<>>
    /\ UNCHANGED <<write_failures, readerVars>>

\* The process dies between two events, or between two writes of
\* rr_record_shutdown's flush.
Crash == UNCHANGED g_rr_seq /\ \E n \in 0..Len(g_ring) : Dies(n)

\* The process dies inside rr_log_syscall, rr_log_signal or rr_log_sched: the
\* event has its number and is not in the buffer yet.  When the buffer is full
\* the flush that makes room may be under way.
CrashLogging ==
    /\ g_rr_seq < MaxEvents
    /\ g_rr_seq' = g_rr_seq + 1
    /\ \/ Dies(0)
       \/ RingFull /\ \E n \in 1..Len(g_ring) : Dies(n)

-----------------------------------------------------------------------------
(* Replaying.                                                              *)

\* rr_replay_init
rr_replay_init ==
    /\ recorder # "running"
    /\ ~g_replay_header_ok
    /\ g_replay_header_ok' = TRUE
    /\ g_expected_seq' = 1
    /\ UNCHANGED <<recorderVars, pos, delivered>>

\* rr_read_full succeeds when the file holds one more event's worth of units.
rr_read_full == pos + EventUnits <= Len(file)

\* Mutant of rr_replay_next_event: no test of the sequence number.
NextEventAnySeq ==
    /\ g_replay_header_ok
    /\ pos < Len(file)
    /\ IF ~rr_read_full
       THEN pos' = Len(file) /\ UNCHANGED <<g_expected_seq, delivered>>
       ELSE /\ pos' = pos + EventUnits
            /\ g_expected_seq' = g_expected_seq + 1
            /\ delivered' =
                    Append(delivered, SubSeq(file, pos + 1, pos + EventUnits))
    /\ UNCHANGED <<recorderVars, g_replay_header_ok>>

\* Mutant of rr_replay_next_event: a short read at the end is not noticed.
NextEventShortRead ==
    /\ g_replay_header_ok
    /\ pos < Len(file)
    /\ LET end == IF pos + EventUnits > Len(file) THEN Len(file)
                                                  ELSE pos + EventUnits
           ev == SubSeq(file, pos + 1, end)
       IN
        /\ pos' = end
        /\ IF ev[1] = [seq |-> g_expected_seq, part |-> 1]
           THEN /\ g_expected_seq' = g_expected_seq + 1
                /\ delivered' = Append(delivered, ev)
           ELSE UNCHANGED <<g_expected_seq, delivered>>
    /\ UNCHANGED <<recorderVars, g_replay_header_ok>>

\* rr_replay_next_event.  At the end of the file rr_read_full consumes what is
\* left and the call fails with ENODATA; an event with another number is
\* consumed and the call fails with EPROTO; the application goes on after
\* both.  Units that are no number may or may not equal the expected one.
rr_replay_next_event ==
    /\ g_replay_header_ok
    /\ pos < Len(file)
    /\ IF ~rr_read_full
       THEN pos' = Len(file) /\ UNCHANGED <<g_expected_seq, delivered>>
       ELSE LET ev == SubSeq(file, pos + 1, pos + EventUnits) IN
            /\ pos' = pos + EventUnits
            /\ \/ /\ HasNumber(ev, g_expected_seq) \/ ~Numbered(ev)
                  /\ g_expected_seq' = g_expected_seq + 1
                  /\ delivered' = Append(delivered, ev)
               \/ /\ ~HasNumber(ev, g_expected_seq)
                  /\ UNCHANGED <<g_expected_seq, delivered>>
    /\ UNCHANGED <<recorderVars, g_replay_header_ok>>

LogNext ==
    \/ rr_log_event
    \/ rr_record_shutdown
    \/ Crash
    \/ CrashLogging
    \/ rr_replay_init
    \/ rr_replay_next_event

LogSpec == LogInit /\ [][LogNext]_logVars

-----------------------------------------------------------------------------
(* Properties.                                                             *)

Units == [seq : 1..MaxEvents, part : 1..EventUnits]

\* Every variable has its type, and the buffer is never overrun: memcpy in
\* rr_record_append stays below RR_LOG_RING_SIZE.
LogTypeOK ==
    /\ recorder \in {"running", "closed", "crashed"}
    /\ g_replay_header_ok \in BOOLEAN
    /\ g_rr_seq \in 0..MaxEvents
    /\ g_ring \in Seq(Units) /\ Len(g_ring) <= RingUnits
    /\ file \in Seq(Units)
    /\ write_failures \in 0..MaxWriteFailures
    /\ pos \in 0..Len(file)
    /\ g_expected_seq = Len(delivered) + 1
    /\ delivered \in Seq(Seq(Units))

\* The replay hands out what was recorded: its n-th event is the n-th event
\* logged, whole.  Wherever the recording process dies, this holds as long as
\* no write to the log fails.
DeliveredIsLogged ==
    write_failures = 0 => \A i \in DOMAIN delivered : delivered[i] = Event(i)

\* Whatever writes fail, an event logged behind a gap is never believed: its
\* number is too high for the count of events read so far.  An event accepted
\* with a number of the recorder's has the right one, and everything accepted
\* before it is whole.  (Only bytes that are no number can pass for one.)
NoEventBehindGap ==
    \A i \in DOMAIN delivered : Numbered(delivered[i]) =>
        /\ HasNumber(delivered[i], i)
        /\ \A j \in 1..(i - 1) : delivered[j] = Event(j)

\* Room for the event that a dead process may have been logging.
InHand == IF recorder = "crashed" THEN EventUnits ELSE 0

\* What a process has not saved fits in the buffer, and with it the one event
\* that a dead process was logging: all older events are in the file, whole
\* and in order.
LossFitsRing ==
    write_failures = 0 =>
        LET saved == Len(file) \div EventUnits IN
        /\ \A n \in 1..saved :
            SubSeq(file, (n - 1) * EventUnits + 1, n * EventUnits) = Event(n)
        /\ (g_rr_seq - saved) * EventUnits <= RingUnits + InHand

\* A log closed by rr_record_shutdown replays to its last event.
CleanLogReplaysWhole ==
    /\ recorder = "closed"
    /\ write_failures = 0
    /\ g_replay_header_ok
    /\ pos = Len(file)
    => Len(delivered) = g_rr_seq

=============================================================================
