--------------------------- MODULE EventLogProofs ---------------------------
(***************************************************************************)
(* The safety properties of EventLog, for every size of an event and of    *)
(* the buffer, any number of events and any number of failing writes.      *)
(*                                                                         *)
(* Every unit has a position in the stream of all units ever logged.  The  *)
(* log file is that stream with pieces missing: a unit may stand earlier   *)
(* in the file than its position, never later, and the distance, which is  *)
(* the number of units lost before it, only grows along the file.  The     *)
(* reader never expects a number higher than the count of events it has    *)
(* read, so the number of an event is the expected one only when nothing   *)
(* was lost before it and everything read before it was accepted.          *)
(***************************************************************************)
EXTENDS EventLog, Integers, TLAPS

\* A leaf that names no prover is left to SMT, with time to spare.
USE SMTT(30)

Position(u) == (u.seq - 1) * EventUnits + u.part

\* The file: no unit is behind its position, and what is lost stays lost.
FileInv ==
    /\ \A i \in 1..Len(file) : i <= Position(file[i])
    /\ \A i, j \in 1..Len(file) :
        i <= j => Position(file[i]) - i <= Position(file[j]) - j
    /\ write_failures = 0 => \A i \in 1..Len(file) : Position(file[i]) = i

\* The buffer ends with the latest event, and no more is lost before a unit of
\* the file than before the buffer.
RingInv ==
    LET logged == g_rr_seq * EventUnits
        lost == logged - Len(g_ring) - Len(file)
    IN
    recorder = "running" =>
        /\ \A i \in 1..Len(g_ring) :
            Position(g_ring[i]) = logged - Len(g_ring) + i
        /\ lost >= 0
        /\ \A i \in 1..Len(file) : Position(file[i]) - i <= lost
        /\ write_failures = 0 => lost = 0

\* Without failing writes, b whole events have left the buffer, and the rest
\* fits in it, but for an event in hand when the process died.
SavedInv ==
    write_failures = 0 =>
        /\ recorder = "closed" => Len(file) = g_rr_seq * EventUnits
        /\ \E b \in 0..g_rr_seq :
            /\ b * EventUnits <= Len(file)
            /\ g_rr_seq * EventUnits - b * EventUnits <= RingUnits + InHand
            /\ recorder = "running" => b * EventUnits = Len(file)

\* The m-th event accepted, from 0, is the m-th event's worth of the file.
InSlot(m) ==
    \A k \in 1..EventUnits : delivered[m + 1][k] = file[m * EventUnits + k]

\* The reader has accepted no more events than it has read.  While it has
\* accepted all it has read, and always when no write has failed, they are the
\* file's from its start.
ReaderInv ==
    LET n == Len(delivered) IN
    /\ recorder = "running" => ~g_replay_header_ok
    /\ ~g_replay_header_ok => n = 0 /\ pos = 0
    /\ n * EventUnits <= pos
    /\ \A m \in 0..(n - 1) : Len(delivered[m + 1]) = EventUnits
    /\ pos = n * EventUnits \/ write_failures = 0 =>
        \A m \in 0..(n - 1) : InSlot(m)
    /\ write_failures = 0 =>
        \/ pos = n * EventUnits
        \/ pos = Len(file) /\ Len(file) < n * EventUnits + EventUnits

LogInv ==
    LogTypeOK /\ FileInv /\ RingInv /\ SavedInv /\ ReaderInv /\ NoEventBehindGap

-----------------------------------------------------------------------------
(* Arithmetic and sequences.                                               *)

\* Multiples of EventUnits.
LEMMA Multiples ==
    /\ \A a \in Nat : a * EventUnits \in Nat
    /\ 0 * EventUnits = 0
    /\ \A a \in Nat : (a + 1) * EventUnits = a * EventUnits + EventUnits
    /\ \A a, b \in Nat : a < b => a * EventUnits + EventUnits <= b * EventUnits
<1>1. EventUnits \in Nat
  BY EventLogAssumption
<1>2. ASSUME NEW a \in Nat
      PROVE  a * EventUnits \in Nat /\ (a + 1) * EventUnits = a * EventUnits + EventUnits
  BY <1>1
<1>3. ASSUME NEW a \in Nat, NEW b \in Nat, a < b
      PROVE  a * EventUnits + EventUnits <= b * EventUnits
  <2>1. PICK d \in Nat : b = (a + 1) + d
    <3>1. b - (a + 1) \in Nat /\ b = (a + 1) + (b - (a + 1))
      BY <1>3
    <3> QED
      BY <3>1
  <2>2. b * EventUnits = (a * EventUnits + EventUnits) + d * EventUnits
    BY <1>1, <2>1
  <2>3. d * EventUnits \in Nat /\ a * EventUnits \in Nat
    BY <1>2
  <2> QED
    BY <1>1, <2>2, <2>3
<1> QED
  BY <1>1, <1>2, <1>3

\* A unit is determined by its position.
LEMMA PositionUnique ==
    ASSUME NEW u \in Units, NEW m \in Nat, NEW k \in 1..EventUnits,
           Position(u) = m * EventUnits + k
    PROVE  u = [seq |-> m + 1, part |-> k]
<1> DEFINE a == u.seq - 1
<1>1. /\ a \in Nat /\ u.seq = a + 1 /\ u.part \in 1..EventUnits
      /\ EventUnits \in Nat
      /\ u = [seq |-> u.seq, part |-> u.part]
  BY EventLogAssumption DEF Units
<1>2. a * EventUnits + u.part = m * EventUnits + k
  BY DEF Position
<1> HIDE DEF a
<1>3. a * EventUnits \in Nat /\ m * EventUnits \in Nat
  BY <1>1, Multiples
<1>4. ~ (a < m)
  <2> SUFFICES ASSUME a < m PROVE FALSE
    OBVIOUS
  <2>1. a * EventUnits + EventUnits <= m * EventUnits
    BY <1>1, Multiples
  <2> QED
    BY <1>1, <1>2, <1>3, <2>1
<1>5. ~ (m < a)
  <2> SUFFICES ASSUME m < a PROVE FALSE
    OBVIOUS
  <2>1. m * EventUnits + EventUnits <= a * EventUnits
    BY <1>1, Multiples
  <2> QED
    BY <1>1, <1>2, <1>3, <2>1
<1>6. a = m
  BY <1>1, <1>4, <1>5
<1>7. u.part = k
  BY <1>1, <1>2, <1>3, <1>6
<1> QED
  BY <1>1, <1>6, <1>7

\* The units of an event follow each other in the stream.
LEMMA EventIsUnits ==
    ASSUME NEW m \in Nat, m + 1 <= MaxEvents
    PROVE  /\ Event(m + 1) \in Seq(Units)
           /\ Len(Event(m + 1)) = EventUnits
           /\ \A k \in 1..EventUnits :
                /\ Event(m + 1)[k] = [seq |-> m + 1, part |-> k]
                /\ Position(Event(m + 1)[k]) = m * EventUnits + k
<1>1. EventUnits \in Nat /\ MaxEvents \in Nat /\ m + 1 \in 1..MaxEvents
  BY EventLogAssumption
<1>2. Event(m + 1) \in [1..EventUnits -> Units]
  BY <1>1 DEF Event, Units
<1>3. Event(m + 1) \in Seq(Units) /\ Len(Event(m + 1)) = EventUnits
  BY <1>1, <1>2
<1>4. ASSUME NEW k \in 1..EventUnits
      PROVE  /\ Event(m + 1)[k] = [seq |-> m + 1, part |-> k]
             /\ Position(Event(m + 1)[k]) = m * EventUnits + k
  <2>1. Event(m + 1)[k] = [seq |-> m + 1, part |-> k]
    BY DEF Event
  <2>2. (m + 1) - 1 = m
    OBVIOUS
  <2> QED
    BY <2>1, <2>2 DEF Position
<1> QED
  BY <1>3, <1>4

\* Units have positions.
LEMMA PositionType == \A u \in Units : Position(u) \in Nat
<1> SUFFICES ASSUME NEW u \in Units PROVE Position(u) \in Nat
  OBVIOUS
<1>1. u.seq - 1 \in Nat /\ u.part \in Nat
  BY EventLogAssumption DEF Units
<1>2. (u.seq - 1) * EventUnits \in Nat
  BY <1>1, Multiples
<1> QED
  BY <1>1, <1>2 DEF Position

\* One sequence at the end of another.
LEMMA Joined ==
    ASSUME NEW S, NEW s \in Seq(S), NEW p \in Seq(S), NEW q, q = s \o p
    PROVE  /\ q \in Seq(S)
           /\ Len(q) = Len(s) + Len(p)
           /\ \A i \in 1..Len(s) : q[i] = s[i]
           /\ \A i \in 1..Len(p) : q[Len(s) + i] = p[i]
<1>1. s \o p \in Seq(S) /\ Len(s \o p) = Len(s) + Len(p)
  OBVIOUS
<1>2. \A i \in 1..Len(s) : (s \o p)[i] = s[i]
  OBVIOUS
<1>3. ASSUME NEW i \in 1..Len(p)
      PROVE  (s \o p)[Len(s) + i] = p[i]
  <2>1. Len(s) \in Nat /\ Len(s) + i \in 1..(Len(s) + Len(p))
    OBVIOUS
  <2>2. (Len(s) + i) - Len(s) = i /\ ~ (Len(s) + i <= Len(s))
    BY <2>1
  <2> QED
    BY <2>1, <2>2
<1> QED
  BY <1>1, <1>2, <1>3

-----------------------------------------------------------------------------
(* Recording.                                                              *)

\* The types of the recorder's variables, taken apart.
LEMMA Types ==
    ASSUME LogTypeOK
    PROVE  /\ EventUnits \in Nat \ {0, 1} /\ NumberUnits \in 1..EventUnits /\ RingUnits \in Nat /\ MaxEvents \in Nat
           /\ EventUnits <= RingUnits
           /\ g_rr_seq \in Nat /\ g_rr_seq <= MaxEvents
           /\ g_rr_seq * EventUnits \in Nat
           /\ g_ring \in Seq(Units) /\ Len(g_ring) \in Nat
           /\ Len(g_ring) <= RingUnits
           /\ file \in Seq(Units) /\ Len(file) \in Nat
           /\ \A i \in 1..Len(g_ring) : Position(g_ring[i]) \in Nat
           /\ \A i \in 1..Len(file) : Position(file[i]) \in Nat
<1>1. /\ g_ring \in Seq(Units) /\ file \in Seq(Units)
      /\ g_rr_seq \in Nat /\ g_rr_seq <= MaxEvents /\ Len(g_ring) <= RingUnits
  BY EventLogAssumption DEF LogTypeOK
<1>2. g_rr_seq * EventUnits \in Nat
  BY <1>1, Multiples
<1>3. /\ \A i \in 1..Len(g_ring) : Position(g_ring[i]) \in Nat
      /\ \A i \in 1..Len(file) : Position(file[i]) \in Nat
  BY <1>1, PositionType
<1>4. Len(g_ring) \in Nat /\ Len(file) \in Nat
  BY <1>1
<1> QED
  BY <1>1, <1>2, <1>3, <1>4, EventLogAssumption

\* How many units are lost before the buffer.
Lost == g_rr_seq * EventUnits - Len(g_ring) - Len(file)

\* Units written from the buffer keep the order of the file.
LEMMA FileGrows ==
    ASSUME LogTypeOK, FileInv, RingInv, recorder = "running",
           NEW n \in 0..Len(g_ring), Written(n),
           write_failures' = 0 => write_failures = 0
    PROVE  /\ file' \in Seq(Units)
           /\ Len(file') = Len(file) + n
           /\ FileInv'
           /\ \A i \in 1..Len(file') : Position(file'[i]) - i <= Lost
<1> DEFINE f == Len(file)
           L == Lost
<1>1. /\ file' \in Seq(Units)
      /\ Len(file') = f + n
      /\ \A i \in 1..f : file'[i] = file[i]
      /\ \A i \in 1..n : file'[f + i] = g_ring[i]
  <2> DEFINE p == SubSeq(g_ring, 1, n)
  <2>1. g_ring \in Seq(Units) /\ file \in Seq(Units)
    BY DEF LogTypeOK
  <2>2. p \in Seq(Units)
    BY <2>1
  <2>3. Len(p) = n /\ \A i \in 1..n : p[i] = g_ring[i]
    BY <2>1
  <2>4. file' = file \o p
    BY DEF Written
  <2> HIDE DEF p
  <2>5. file' \in Seq(Units) /\ Len(file') = Len(file) + Len(p)
    BY <2>1, <2>2, <2>4, Joined
  <2>6. \A i \in 1..Len(file) : file'[i] = file[i]
    BY <2>1, <2>2, <2>4, Joined
  <2>7. \A i \in 1..Len(p) : file'[Len(file) + i] = p[i]
    BY <2>1, <2>2, <2>4, Joined
  <2> QED
    BY <2>3, <2>5, <2>6, <2>7
<1>2. /\ f \in Nat /\ n \in Nat /\ n <= Len(g_ring) /\ L \in Int /\ L >= 0
      /\ \A i \in 1..f : Position(file[i]) \in Nat
      /\ \A i \in 1..n : Position(g_ring[i]) = L + f + i
      /\ \A i \in 1..f : Position(file[i]) - i <= L
      /\ write_failures = 0 => L = 0
  BY Types DEF RingInv, Lost
<1> HIDE DEF f, L
<1>3. ASSUME NEW i \in 1..(f + n)
      PROVE  \/ i \in 1..f /\ file'[i] = file[i]
             \/ i > f /\ Position(file'[i]) = L + i
  <2>1. CASE i <= f
    BY <1>1, <1>2, <2>1
  <2>2. CASE i > f
    <3>1. i - f \in 1..n /\ i = f + (i - f)
      BY <1>2, <2>2
    <3>2. file'[i] = g_ring[i - f] /\ Position(g_ring[i - f]) = L + f + (i - f)
      BY <1>1, <1>2, <3>1
    <3> QED
      BY <1>2, <2>2, <3>1, <3>2
  <2> QED
    BY <1>2, <2>1, <2>2
<1>4. \A i \in 1..(f + n) : i <= Position(file'[i]) /\ Position(file'[i]) - i <= L
  <2> SUFFICES ASSUME NEW i \in 1..(f + n)
               PROVE  i <= Position(file'[i]) /\ Position(file'[i]) - i <= L
    OBVIOUS
  <2>1. CASE i \in 1..f /\ file'[i] = file[i]
    <3>1. i <= Position(file[i])
      BY <2>1 DEF FileInv, f
    <3> QED
      BY <1>2, <2>1, <3>1
  <2>2. CASE i > f /\ Position(file'[i]) = L + i
    BY <1>2, <2>2
  <2> QED
    BY <1>3, <2>1, <2>2
<1>5. ASSUME NEW i \in 1..(f + n), NEW j \in 1..(f + n), i <= j
      PROVE  Position(file'[i]) - i <= Position(file'[j]) - j
  <2>1. CASE j > f
    <3>1. Position(file'[j]) = L + j
      BY <1>2, <1>3, <2>1
    <3>2. Position(file'[j]) - j = L
      BY <1>2, <3>1
    <3> QED
      BY <1>4, <3>2
  <2>2. CASE j <= f
    <3>1. i \in 1..f /\ j \in 1..f
      BY <1>2, <1>5, <2>2
    <3>2. file'[i] = file[i] /\ file'[j] = file[j]
      BY <1>1, <3>1
    <3> QED
      BY <1>5, <3>1, <3>2 DEF FileInv, f
  <2> QED
    BY <1>2, <2>1, <2>2
<1>6. write_failures' = 0 => \A i \in 1..(f + n) : Position(file'[i]) = i
  BY <1>2, <1>3 DEF FileInv, f
<1>7. FileInv'
  BY <1>1, <1>4, <1>5, <1>6 DEF FileInv
<1> QED
  BY <1>1, <1>4, <1>7 DEF f, L

\* rr_record_flush writes some part of the buffer, and all of it unless a
\* write fails.
LEMMA FlushWrites ==
    ASSUME LogTypeOK, rr_record_flush
    PROVE  /\ write_failures' \in 0..MaxWriteFailures
           /\ write_failures' = 0 => write_failures = 0
           /\ \E n \in 0..Len(g_ring) :
                Written(n) /\ (write_failures' = 0 => n = Len(g_ring))
<1>1. /\ g_ring \in Seq(Units) /\ file \in Seq(Units) /\ Len(g_ring) \in Nat
      /\ write_failures \in 0..MaxWriteFailures /\ MaxWriteFailures \in Nat
  BY EventLogAssumption DEF LogTypeOK
<1>2. CASE g_ring = <<>>
  <2>1. UNCHANGED <<file, write_failures>>
    BY <1>2 DEF rr_record_flush
  <2>2. Len(g_ring) = 0 /\ SubSeq(g_ring, 1, 0) = <<>>
    BY <1>2
  <2>3. file \o <<>> = file
    BY <1>1
  <2>4. Written(0)
    BY <2>1, <2>2, <2>3, Zenon DEF Written
  <2> QED
    BY <1>1, <2>1, <2>2, <2>4
<1>3. CASE g_ring # <<>>
  <2>1. rr_write_direct
    BY <1>3 DEF rr_record_flush
  <2>2. CASE Written(Len(g_ring)) /\ UNCHANGED write_failures
    BY <1>1, <2>2
  <2>3. CASE /\ write_failures < MaxWriteFailures
             /\ write_failures' = write_failures + 1
             /\ \E n \in 0..(Len(g_ring) - 1) : Written(n)
    <3>1. write_failures' \in 0..MaxWriteFailures /\ write_failures' # 0
      BY <1>1, <2>3
    <3>2. \E n \in 0..Len(g_ring) : Written(n)
      BY <1>1, <2>3
    <3> QED
      BY <3>1, <3>2
  <2> QED
    BY <2>1, <2>2, <2>3 DEF rr_write_direct
<1> QED
  BY <1>2, <1>3

\* Before the replay begins its part of the invariant is about nothing.
LEMMA NoReaderYet ==
    ASSUME LogTypeOK, ReaderInv, recorder = "running", UNCHANGED readerVars,
           file' \in Seq(Units)
    PROVE  /\ ReaderInv'
           /\ g_replay_header_ok' \in BOOLEAN
           /\ pos' \in 0..Len(file')
           /\ g_expected_seq' = Len(delivered') + 1
           /\ delivered' \in Seq(Seq(Units))
           /\ NoEventBehindGap'
<1>1. /\ ~g_replay_header_ok /\ Len(delivered) = 0 /\ pos = 0
      /\ UNCHANGED <<g_replay_header_ok, pos, g_expected_seq, delivered>>
  BY DEF ReaderInv, readerVars
<1>2. ReaderInv'
  <2>1. \A m \in 0..(0 - 1) : FALSE
    OBVIOUS
  <2>2. 0 * EventUnits = 0 /\ 0 <= 0
    BY Multiples
  <2>3. Len(delivered') = 0 /\ pos' = 0
    BY <1>1
  <2> QED
    BY <1>1, <2>1, <2>2, <2>3, Zenon DEF ReaderInv
<1>3. Len(file') \in Nat
  OBVIOUS
<1>4. DOMAIN delivered' = {}
  BY <1>1 DEF LogTypeOK
<1>5. NoEventBehindGap'
  BY <1>4, Zenon DEF NoEventBehindGap
<1> QED
  BY <1>1, <1>2, <1>3, <1>5 DEF LogTypeOK

\* The process closes the log or dies: what it had in the buffer is written
\* in part.
LEMMA RecorderStops ==
    ASSUME LogInv, recorder = "running", recorder' \in {"closed", "crashed"},
           NEW n \in 0..Len(g_ring), Written(n),
           write_failures' \in 0..MaxWriteFailures,
           write_failures' = 0 => write_failures = 0,
           write_failures' = 0 /\ recorder' = "closed" => n = Len(g_ring),
           g_ring' = <<>>, UNCHANGED readerVars,
           g_rr_seq' \in g_rr_seq..(g_rr_seq + 1), g_rr_seq' <= MaxEvents,
           recorder' = "closed" => g_rr_seq' = g_rr_seq
    PROVE  LogInv'
<1>1. LogTypeOK /\ FileInv /\ RingInv /\ SavedInv /\ ReaderInv
  BY DEF LogInv
<1>2. /\ file' \in Seq(Units)
      /\ Len(file') = Len(file) + n
      /\ FileInv'
  BY <1>1, FileGrows
<1>3. RingInv'
  BY DEF RingInv
<1>4. LogTypeOK' /\ ReaderInv'
  <2>1. <<>> \in Seq(Units) /\ Len(<<>>) = 0 /\ RingUnits \in Nat
    BY EventLogAssumption
  <2>2. g_rr_seq' \in 0..MaxEvents
    BY <1>1, Types
  <2> QED
    BY <1>1, <1>2, <2>1, <2>2, NoReaderYet DEF LogTypeOK
<1>5. SavedInv'
  <2> SUFFICES ASSUME write_failures' = 0 PROVE SavedInv'
    BY DEF SavedInv
  <2> DEFINE logged == g_rr_seq * EventUnits
             now == g_rr_seq' * EventUnits
  <2>1. /\ write_failures = 0 /\ logged \in Nat /\ Len(file) \in Nat
        /\ Len(g_ring) \in Nat /\ n \in Nat
        /\ logged - Len(g_ring) - Len(file) = 0
        /\ EventUnits \in Nat /\ RingUnits \in Nat /\ g_rr_seq \in Nat
    BY <1>1, Types DEF RingInv
  <2>2. PICK b \in 0..g_rr_seq :
            /\ b * EventUnits = Len(file)
            /\ logged - b * EventUnits <= RingUnits
    <3>1. RingUnits + InHand = RingUnits
      BY <2>1 DEF InHand
    <3> QED
      BY <1>1, <2>1, <3>1 DEF SavedInv
  <2>3. /\ now \in Nat
        /\ \/ g_rr_seq' = g_rr_seq /\ now = logged
           \/ recorder' = "crashed" /\ now = logged + EventUnits
    <3>1. g_rr_seq' = g_rr_seq \/ g_rr_seq' = g_rr_seq + 1
      BY <2>1
    <3>2. (g_rr_seq + 1) * EventUnits = logged + EventUnits
      BY <2>1, Multiples
    <3>3. CASE g_rr_seq' = g_rr_seq
      <4>1. now = logged
        BY <3>3, Zenon
      <4> QED
        BY <2>1, <3>3, <4>1, Zenon
    <3>4. CASE g_rr_seq' = g_rr_seq + 1
      <4>1. now = logged + EventUnits
        BY <3>2, <3>4, Zenon
      <4> HIDE DEF now, logged
      <4>2. now \in Nat
        BY <2>1, <4>1
      <4>3. recorder' # "closed"
        BY <2>1, <3>4
      <4> QED
        BY <4>1, <4>2, <4>3, Zenon
    <3> QED
      BY <3>1, <3>3, <3>4, Zenon
  <2> HIDE DEF logged, now
  <2>4. b * EventUnits <= Len(file') /\ b \in 0..g_rr_seq'
    BY <1>2, <2>1, <2>2
  <2>5. recorder' = "closed" => Len(file') = now
    BY <1>2, <2>1, <2>3
  <2>6. now - b * EventUnits <= RingUnits + InHand'
    BY <2>1, <2>2, <2>3 DEF InHand
  <2> QED
    BY <2>4, <2>5, <2>6 DEF SavedInv, now
<1>6. NoEventBehindGap'
  BY <1>1, NoReaderYet, <1>2
<1> QED
  BY <1>2, <1>3, <1>4, <1>5, <1>6 DEF LogInv

\* An event that finds the buffer full: the buffer is written, in part if a
\* write fails, and begins anew with the event.
LEMMA EventFlushes ==
    ASSUME LogInv, recorder = "running", g_rr_seq < MaxEvents,
           g_rr_seq' = g_rr_seq + 1, rr_record_flush,
           g_ring' = Event(g_rr_seq'), UNCHANGED <<recorder, readerVars>>
    PROVE  LogInv'
<1> DEFINE logged == g_rr_seq * EventUnits
           ev == Event(g_rr_seq + 1)
<1>1. LogTypeOK /\ FileInv /\ RingInv /\ SavedInv /\ ReaderInv
  BY DEF LogInv
<1>2. PICK n \in 0..Len(g_ring) :
        Written(n) /\ (write_failures' = 0 => n = Len(g_ring))
  BY <1>1, FlushWrites
<1>3. /\ write_failures' \in 0..MaxWriteFailures
      /\ write_failures' = 0 => write_failures = 0
  BY <1>1, FlushWrites
<1>4. /\ file' \in Seq(Units)
      /\ Len(file') = Len(file) + n
      /\ FileInv'
      /\ \A i \in 1..Len(file') : Position(file'[i]) - i <= Lost
  BY <1>1, <1>2, <1>3, FileGrows
<1>5. /\ EventUnits \in Nat \ {0, 1} /\ RingUnits \in Nat /\ EventUnits <= RingUnits
      /\ g_rr_seq \in Nat /\ g_rr_seq + 1 <= MaxEvents /\ MaxEvents \in Nat
      /\ logged \in Nat /\ Len(g_ring) \in Nat /\ Len(file) \in Nat /\ n \in Nat
      /\ n <= Len(g_ring)
  BY <1>1, Types
<1>6. /\ ev \in Seq(Units)
      /\ Len(ev) = EventUnits
      /\ \A k \in 1..EventUnits : Position(ev[k]) = logged + k
  BY <1>5, EventIsUnits, Zenon
<1>7. g_rr_seq' * EventUnits = logged + EventUnits
  BY <1>5, Multiples
<1>8. /\ Lost = logged - Len(g_ring) - Len(file)
      /\ Lost >= 0 /\ (write_failures = 0 => Lost = 0)
  BY <1>1 DEF RingInv, Lost
<1> HIDE DEF logged, ev
<1>9. g_ring' = ev /\ recorder' = "running"
  BY DEF ev
<1>10. LogTypeOK' /\ ReaderInv' /\ NoEventBehindGap'
  <2>1. /\ g_rr_seq' \in 0..MaxEvents
        /\ g_ring' \in Seq(Units) /\ Len(g_ring') <= RingUnits
    BY <1>5, <1>6, <1>9
  <2> QED
    BY <1>1, <1>3, <1>4, <1>9, <2>1, NoReaderYet DEF LogTypeOK
<1>11. RingInv'
  <2> DEFINE lost == (logged + EventUnits) - EventUnits - Len(file')
  <2>1. /\ lost = Lost + Len(g_ring) - n
        /\ Lost \in Int /\ lost \in Int /\ lost >= Lost /\ lost >= 0
    BY <1>4, <1>5, <1>8
  <2>2. \A i \in 1..Len(file') : Position(file'[i]) - i <= lost
    <3>1. \A i \in 1..Len(file') : Position(file'[i]) \in Nat /\ i \in Nat
      BY <1>4, PositionType
    <3> HIDE DEF lost
    <3> QED
      BY <1>4, <2>1, <3>1
  <2>3. write_failures' = 0 => lost = 0
    BY <1>2, <1>3, <1>5, <1>8, <2>1
  <2>4. \A i \in 1..EventUnits :
            Position(ev[i]) = (logged + EventUnits) - EventUnits + i
    BY <1>5, <1>6
  <2> QED
    BY <1>6, <1>7, <1>9, <2>1, <2>2, <2>3, <2>4, Zenon DEF RingInv
<1>12. SavedInv'
  <2> SUFFICES ASSUME write_failures' = 0 PROVE SavedInv'
    BY DEF SavedInv
  <2>1. Len(file') = logged
    BY <1>2, <1>3, <1>4, <1>5, <1>8
  <2>2. g_rr_seq \in 0..g_rr_seq'
    BY <1>5
  <2>3. logged + EventUnits - logged <= RingUnits
    BY <1>5
  <2>4. g_rr_seq * EventUnits = logged
    BY DEF logged
  <2> QED
    BY <1>5, <1>7, <1>9, <2>1, <2>2, <2>3, <2>4 DEF SavedInv, InHand
<1> QED
  BY <1>4, <1>10, <1>11, <1>12 DEF LogInv

\* An event that finds room in the buffer.
LEMMA EventFits ==
    ASSUME LogInv, recorder = "running", g_rr_seq < MaxEvents,
           g_rr_seq' = g_rr_seq + 1, ~RingFull,
           NEW ev, ev = Event(g_rr_seq + 1), g_ring' = g_ring \o ev,
           UNCHANGED <<file, write_failures, recorder, readerVars>>
    PROVE  LogInv'
<1> DEFINE logged == g_rr_seq * EventUnits
           r == Len(g_ring)
<1>1. LogTypeOK /\ FileInv /\ RingInv /\ SavedInv /\ ReaderInv
  BY DEF LogInv
<1>2. /\ EventUnits \in Nat \ {0, 1} /\ RingUnits \in Nat
      /\ g_rr_seq \in Nat /\ g_rr_seq + 1 <= MaxEvents /\ MaxEvents \in Nat
      /\ logged \in Nat /\ r \in Nat /\ Len(file) \in Nat
      /\ r + EventUnits <= RingUnits
      /\ g_ring \in Seq(Units)
      /\ \A i \in 1..Len(file) : Position(file[i]) \in Nat
  BY <1>1, Types DEF RingFull
<1>3. /\ ev \in Seq(Units)
      /\ Len(ev) = EventUnits
      /\ \A k \in 1..EventUnits : Position(ev[k]) = logged + k
  BY <1>2, EventIsUnits, Zenon
<1>4. g_rr_seq' * EventUnits = logged + EventUnits
  BY <1>2, Multiples
<1>5. g_ring' = g_ring \o ev /\ recorder' = "running"
  OBVIOUS
<1>6. g_ring' \in Seq(Units) /\ Len(g_ring') = r + EventUnits
  <2>1. ev \in Seq(Units) /\ g_ring \in Seq(Units)
    BY <1>2, <1>3
  <2>2. g_ring' \in Seq(Units)
    BY <1>5, <2>1
  <2>3. Len(g_ring') = r + Len(ev)
    BY <1>5, <2>1
  <2> QED
    BY <1>3, <2>2, <2>3
<1>7. \A i \in 1..r : g_ring'[i] = g_ring[i]
  BY <1>2, <1>3, <1>5, Joined
<1>8. \A i \in 1..EventUnits : g_ring'[r + i] = ev[i]
  BY <1>2, <1>3, <1>5, Joined
<1>9. /\ \A i \in 1..r : Position(g_ring[i]) = logged - r + i
      /\ logged - r - Len(file) >= 0
      /\ \A i \in 1..Len(file) : Position(file[i]) - i <= logged - r - Len(file)
      /\ write_failures = 0 => logged - r - Len(file) = 0
  BY <1>1 DEF RingInv
<1>10. LogTypeOK' /\ ReaderInv' /\ NoEventBehindGap'
  <2>1. /\ g_rr_seq' \in 0..MaxEvents
        /\ Len(g_ring') <= RingUnits
    BY <1>2, <1>6
  <2>2. file' \in Seq(Units)
    BY <1>1 DEF LogTypeOK
  <2> QED
    BY <1>1, <1>5, <1>6, <2>1, <2>2, NoReaderYet DEF LogTypeOK
<1> HIDE DEF logged, r
<1>11. RingInv'
  <2>1. /\ (logged + EventUnits) - (r + EventUnits) = logged - r
        /\ (logged + EventUnits) - (r + EventUnits) - Len(file)
                = logged - r - Len(file)
    BY <1>2
  <2>2. ASSUME NEW i \in 1..(r + EventUnits)
        PROVE  Position(g_ring'[i]) = logged - r + i
    <3>1. CASE i \in 1..r
      BY <1>7, <1>9, <3>1, Zenon
    <3>2. CASE i \notin 1..r
      <4>1. i - r \in 1..EventUnits /\ r + (i - r) = i
        BY <1>2, <3>2
      <4>2. g_ring'[i] = ev[i - r] /\ Position(ev[i - r]) = logged + (i - r)
        BY <1>3, <1>8, <4>1, Zenon
      <4>3. logged + (i - r) = logged - r + i
        BY <1>2, <4>1
      <4> QED
        BY <4>2, <4>3, Zenon
    <3> QED
      BY <3>1, <3>2, Zenon
  <2> QED
    BY <1>4, <1>5, <1>6, <1>9, <2>1, <2>2 DEF RingInv
<1>12. SavedInv'
  <2> SUFFICES ASSUME write_failures = 0 PROVE SavedInv'
    BY DEF SavedInv
  <2>1. PICK b \in 0..g_rr_seq : b * EventUnits = Len(file)
    BY <1>1 DEF SavedInv
  <2>2. /\ b \in 0..g_rr_seq'
        /\ logged + EventUnits - b * EventUnits <= RingUnits
    BY <1>2, <1>9, <2>1
  <2>3. /\ b * EventUnits = Len(file') /\ b * EventUnits <= Len(file')
        /\ g_rr_seq' * EventUnits - b * EventUnits <= RingUnits
    BY <1>2, <1>4, <2>1, <2>2
  <2>4. RingUnits + InHand' = RingUnits
    BY <1>2, <1>5 DEF InHand
  <2> QED
    BY <1>5, <2>2, <2>3, <2>4 DEF SavedInv
<1>13. FileInv'
  BY <1>1 DEF FileInv
<1> QED
  BY <1>10, <1>11, <1>12, <1>13 DEF LogInv

-----------------------------------------------------------------------------
(* Replaying.                                                              *)

\* rr_replay_init
LEMMA ReplayOpens ==
    ASSUME LogInv, rr_replay_init
    PROVE  LogInv'
<1>1. /\ LogTypeOK /\ FileInv /\ RingInv /\ SavedInv /\ ReaderInv
      /\ Len(delivered) = 0 /\ pos = 0 /\ recorder # "running"
      /\ g_replay_header_ok' = TRUE /\ g_expected_seq' = 1
      /\ UNCHANGED <<recorder, g_rr_seq, g_ring, file, write_failures, pos,
                     delivered>>
  BY DEF LogInv, ReaderInv, rr_replay_init, recorderVars
<1>2. LogTypeOK'
  BY <1>1 DEF LogTypeOK
<1>3. FileInv' /\ RingInv' /\ SavedInv'
  BY <1>1 DEF FileInv, RingInv, SavedInv, InHand
<1>4. ReaderInv'
  <2>1. \A m \in 0..(0 - 1) : FALSE
    OBVIOUS
  <2>2. 0 * EventUnits = 0 /\ 0 <= 0
    BY Multiples
  <2>3. Len(delivered') = 0 /\ pos' = 0
    BY <1>1
  <2> QED
    BY <1>1, <2>1, <2>2, <2>3, Zenon DEF ReaderInv
<1>5. DOMAIN delivered' = {}
  BY <1>1 DEF LogTypeOK
<1>6. NoEventBehindGap'
  BY <1>5, Zenon DEF NoEventBehindGap
<1> QED
  BY <1>2, <1>3, <1>4, <1>6 DEF LogInv

\* An accepted event none of whose units is out of place is the event logged.
LEMMA WholeEvent ==
    ASSUME LogTypeOK, ReaderInv, NEW m \in Nat, m < Len(delivered), InSlot(m),
           \A k \in 1..EventUnits :
                Position(file[m * EventUnits + k]) = m * EventUnits + k
    PROVE  delivered[m + 1] = Event(m + 1)
<1> DEFINE n == Len(delivered)
<1>1. /\ n \in Nat /\ file \in Seq(Units) /\ Len(file) \in Nat
      /\ pos \in Nat /\ pos <= Len(file)
      /\ EventUnits \in Nat /\ m \in 0..(n - 1)
      /\ delivered[m + 1] \in Seq(Units)
  BY EventLogAssumption DEF LogTypeOK
<1>2. Len(delivered[m + 1]) = EventUnits /\ n * EventUnits <= pos
  BY <1>1, Zenon DEF ReaderInv
<1>3. /\ m * EventUnits \in Nat /\ n * EventUnits \in Nat
      /\ m * EventUnits + EventUnits <= n * EventUnits
  BY <1>1, Multiples
<1>4. ASSUME NEW k \in 1..EventUnits
      PROVE  delivered[m + 1][k] = [seq |-> m + 1, part |-> k]
  <2>1. m * EventUnits + k \in 1..Len(file)
    BY <1>1, <1>2, <1>3
  <2>2. file[m * EventUnits + k] \in Units
    BY <1>1, <2>1
  <2>3. file[m * EventUnits + k] = [seq |-> m + 1, part |-> k]
    BY <2>2, PositionUnique
  <2> QED
    BY <2>3 DEF InSlot
<1>5. delivered[m + 1] = [k \in 1..EventUnits |-> delivered[m + 1][k]]
  BY <1>1, <1>2
<1> QED
  BY <1>4, <1>5 DEF Event

\* When the reader has accepted all it has read and the next unit is in its
\* place, nothing was lost and the events accepted are the ones logged.
LEMMA AllBeforeWhole ==
    ASSUME LogInv, pos = Len(delivered) * EventUnits, pos + 1 <= Len(file),
           Position(file[pos + 1]) = pos + 1
    PROVE  \A j \in 1..Len(delivered) : delivered[j] = Event(j)
<1> SUFFICES ASSUME NEW j \in 1..Len(delivered)
             PROVE  delivered[j] = Event(j)
  OBVIOUS
<1> DEFINE m == j - 1
           J == pos + 1
<1>1. /\ LogTypeOK /\ FileInv /\ ReaderInv
      /\ Len(delivered) \in Nat /\ file \in Seq(Units) /\ Len(file) \in Nat
      /\ pos \in Nat /\ EventUnits \in Nat
  BY EventLogAssumption DEF LogInv, LogTypeOK
<1>2. m \in Nat /\ m < Len(delivered) /\ m + 1 = j /\ m \in 0..(Len(delivered) - 1)
  BY <1>1
<1>3. InSlot(m)
  BY <1>1, <1>2, Zenon DEF ReaderInv
<1> HIDE DEF m
<1>4. m * EventUnits \in Nat /\ m * EventUnits + EventUnits <= pos
  BY <1>1, <1>2, Multiples
<1>5. J \in 1..Len(file) /\ Position(file[J]) = J
  BY <1>1
<1>6. ASSUME NEW k \in 1..EventUnits
      PROVE  Position(file[m * EventUnits + k]) = m * EventUnits + k
  <2> DEFINE I == m * EventUnits + k
  <2>1. I \in 1..Len(file) /\ I <= J
    BY <1>1, <1>4, <1>5
  <2> HIDE DEF I, J
  <2>2. Position(file[I]) \in Nat /\ Position(file[J]) \in Nat
    BY <1>1, <1>5, <2>1, PositionType
  <2>3. I <= Position(file[I])
    BY <1>1, <2>1 DEF FileInv
  <2>4. Position(file[I]) - I <= Position(file[J]) - J
    BY <1>1, <1>5, <2>1 DEF FileInv
  <2>5. Position(file[I]) = I
    BY <1>5, <2>1, <2>2, <2>3, <2>4
  <2> QED
    BY <2>5 DEF I
<1>7. delivered[m + 1] = Event(m + 1)
  BY <1>1, <1>2, <1>3, <1>6, WholeEvent, Zenon
<1> QED
  BY <1>2, <1>7

\* An event is accepted: one more is delivered.
LEMMA AcceptStep ==
    ASSUME LogInv, NEW ev \in Seq(Units), Len(ev) = EventUnits,
           \A k \in 1..EventUnits : ev[k] = file[pos + k],
           g_replay_header_ok, pos + EventUnits <= Len(file),
           HasNumber(ev, g_expected_seq) \/ ~Numbered(ev),
           pos' = pos + EventUnits, g_expected_seq' = g_expected_seq + 1,
           delivered' = Append(delivered, ev),
           UNCHANGED <<recorderVars, g_replay_header_ok>>
    PROVE  LogInv'
<1> DEFINE n == Len(delivered)
<1>1. /\ LogTypeOK /\ FileInv /\ RingInv /\ SavedInv /\ ReaderInv
      /\ NoEventBehindGap /\ recorder # "running"
      /\ UNCHANGED <<recorder, g_rr_seq, g_ring, file, write_failures,
                     g_replay_header_ok>>
  BY DEF LogInv, ReaderInv, recorderVars
<1>2. FileInv' /\ RingInv' /\ SavedInv'
  BY <1>1 DEF FileInv, RingInv, SavedInv, InHand
<1>3. /\ n \in Nat /\ Len(file) \in Nat /\ pos \in Nat /\ n * EventUnits \in Nat
      /\ EventUnits \in Nat \ {0, 1} /\ NumberUnits \in 1..EventUnits
      /\ n * EventUnits <= pos
      /\ write_failures = 0 => pos = n * EventUnits
      /\ file \in Seq(Units) /\ delivered \in Seq(Seq(Units))
      /\ g_expected_seq = n + 1
      /\ (n + 1) * EventUnits = n * EventUnits + EventUnits
  <2>1. /\ delivered \in Seq(Seq(Units)) /\ file \in Seq(Units)
        /\ pos \in 0..Len(file) /\ g_expected_seq = n + 1
    BY <1>1 DEF LogTypeOK
  <2>2. n \in Nat /\ Len(file) \in Nat /\ pos \in Nat
    BY <2>1
  <2>3. /\ n * EventUnits \in Nat
        /\ (n + 1) * EventUnits = n * EventUnits + EventUnits
    BY <2>2, Multiples
  <2>4. EventUnits \in Nat \ {0, 1} /\ NumberUnits \in 1..EventUnits
    BY <1>1, Types
  <2>5. /\ n * EventUnits <= pos
        /\ write_failures = 0 => pos = n * EventUnits
    BY <1>1, <2>2, <2>3, <2>4 DEF ReaderInv
  <2> QED
    BY <2>1, <2>2, <2>3, <2>4, <2>5
<1>4. /\ delivered' \in Seq(Seq(Units)) /\ Len(delivered') = n + 1
      /\ delivered'[n + 1] = ev
      /\ \A i \in 1..n : delivered'[i] = delivered[i]
  <2>1. delivered' \in Seq(Seq(Units)) /\ Len(delivered') = n + 1
    BY <1>3
  <2>2. delivered'[n + 1] = ev
    BY <1>3
  <2>3. \A i \in 1..n : delivered'[i] = delivered[i]
    BY <1>3
  <2> QED
    BY <2>1, <2>2, <2>3
<1>5. LogTypeOK'
  <2>1. g_expected_seq' = Len(delivered') + 1 /\ pos' \in 0..Len(file)
    BY <1>3, <1>4
  <2> QED
    BY <1>1, <1>4, <2>1 DEF LogTypeOK
<1>6. ReaderInv'
  <2>1. (n + 1) - 1 = n /\ (n + 1) * EventUnits <= pos'
    BY <1>3
  <2>2. ASSUME NEW m \in 0..n
        PROVE  \/ m = n /\ delivered'[m + 1] = ev
               \/ m \in 0..(n - 1) /\ delivered'[m + 1] = delivered[m + 1]
    <3>1. m = n \/ (m \in 0..(n - 1) /\ m + 1 \in 1..n)
      BY <1>3
    <3> QED
      BY <1>4, <3>1, Zenon
  <2>3. ASSUME NEW m \in 0..n PROVE Len(delivered'[m + 1]) = EventUnits
    BY <1>1, <2>2, Zenon DEF ReaderInv
  <2>4. ASSUME pos' = (n + 1) * EventUnits \/ write_failures = 0,
               NEW m \in 0..n
        PROVE  InSlot(m)'
    <3>1. pos = n * EventUnits
      BY <1>3, <2>4
    <3>2. CASE m = n /\ delivered'[m + 1] = ev
      BY <1>1, <3>1, <3>2, Zenon DEF InSlot
    <3>3. CASE m \in 0..(n - 1) /\ delivered'[m + 1] = delivered[m + 1]
      BY <1>1, <3>1, <3>3, Zenon DEF InSlot, ReaderInv
    <3> QED
      BY <2>2, <3>2, <3>3, Zenon
  <2>5. write_failures = 0 => pos' = (n + 1) * EventUnits
    BY <1>3
  <2> QED
    BY <1>1, <1>4, <2>1, <2>3, <2>4, <2>5 DEF ReaderInv
<1>7. ASSUME Numbered(ev)
      PROVE  HasNumber(ev, n + 1) /\ \A j \in 1..n : delivered[j] = Event(j)
  <2>1. HasNumber(ev, n + 1)
    BY <1>3, <1>7
  <2>2. 1 \in 1..NumberUnits /\ 1 \in 1..EventUnits
    BY <1>3
  <2>3. file[pos + 1] = [seq |-> n + 1, part |-> 1]
    <3>1. ev[1] = Event(n + 1)[1] /\ ev[1] = file[pos + 1]
      BY <2>1, <2>2, Zenon DEF HasNumber
    <3>2. Event(n + 1)[1] = [seq |-> n + 1, part |-> 1]
      BY <2>2 DEF Event
    <3> QED
      BY <3>1, <3>2, Zenon
  <2>4. Position(file[pos + 1]) = n * EventUnits + 1
    <3>1. (n + 1) - 1 = n
      BY <1>3
    <3> QED
      BY <2>3, <3>1 DEF Position
  <2>5. pos + 1 \in 1..Len(file)
    BY <1>3
  <2>6. pos + 1 <= Position(file[pos + 1])
    BY <1>1, <2>5 DEF FileInv
  <2>7. pos = n * EventUnits /\ pos + 1 <= Len(file)
    <3>1. pos \in Nat /\ n * EventUnits \in Nat /\ n * EventUnits <= pos
      BY <1>3
    <3> HIDE DEF n
    <3> QED
      BY <2>4, <2>5, <2>6, <3>1
  <2> QED
    BY <2>1, <2>4, <2>7, AllBeforeWhole
<1>8. NoEventBehindGap'
  <2> SUFFICES ASSUME NEW i \in 1..(n + 1), Numbered(delivered'[i])
               PROVE  /\ HasNumber(delivered'[i], i)
                      /\ \A j \in 1..(i - 1) : delivered'[j] = Event(j)
    <3>1. DOMAIN delivered' = 1..(n + 1)
      BY <1>4
    <3> QED
      BY <3>1, Zenon DEF NoEventBehindGap
  <2>1. CASE i = n + 1
    <3>1. i - 1 = n
      BY <1>3, <2>1
    <3> QED
      BY <1>4, <1>7, <2>1, <3>1, Zenon
  <2>2. CASE i # n + 1
    <3>1. i \in 1..n /\ DOMAIN delivered = 1..n /\ 1..(i - 1) \subseteq 1..n
      BY <1>3, <2>2
    <3> QED
      BY <1>1, <1>4, <3>1, Zenon DEF NoEventBehindGap
  <2> QED
    BY <2>1, <2>2
<1> QED
  BY <1>2, <1>5, <1>6, <1>8 DEF LogInv

\* rr_replay_next_event: in an undamaged file every event is accepted.
LEMMA NextEventStep ==
    ASSUME LogInv, rr_replay_next_event
    PROVE  LogInv'
<1> DEFINE n == Len(delivered)
           len == Len(file)
<1>1. /\ LogTypeOK /\ FileInv /\ RingInv /\ SavedInv /\ ReaderInv
      /\ NoEventBehindGap
      /\ UNCHANGED <<recorder, g_rr_seq, g_ring, file, write_failures,
                     g_replay_header_ok>>
      /\ g_replay_header_ok /\ recorder # "running" /\ pos < len
  BY DEF LogInv, ReaderInv, rr_replay_next_event, recorderVars
<1>2. FileInv' /\ RingInv' /\ SavedInv'
  BY <1>1 DEF FileInv, RingInv, SavedInv, InHand
<1>3. /\ n \in Nat /\ len \in Nat /\ pos \in Nat /\ n * EventUnits \in Nat
      /\ EventUnits \in Nat \ {0, 1} /\ NumberUnits \in 1..EventUnits
      /\ n * EventUnits <= pos
      /\ write_failures = 0 => pos = n * EventUnits
      /\ file \in Seq(Units) /\ g_expected_seq = n + 1
  <2>1. /\ delivered \in Seq(Seq(Units)) /\ file \in Seq(Units)
        /\ pos \in 0..len /\ g_expected_seq = n + 1
    BY <1>1 DEF LogTypeOK
  <2>2. n \in Nat /\ len \in Nat /\ pos \in Nat
    BY <2>1
  <2>3. n * EventUnits \in Nat
    BY <2>2, Multiples
  <2>4. /\ n * EventUnits <= pos
        /\ write_failures = 0 => pos = n * EventUnits
    BY <1>1, <2>2 DEF ReaderInv
  <2>5. EventUnits \in Nat \ {0, 1} /\ NumberUnits \in 1..EventUnits
    BY <1>1, Types
  <2> QED
    BY <2>1, <2>2, <2>3, <2>4, <2>5
<1>4. ASSUME UNCHANGED <<g_expected_seq, delivered>>, pos' \in 0..len, pos < pos',
             write_failures = 0 => pos' = len /\ len < n * EventUnits + EventUnits
      PROVE  LogInv'
  <2>1. LogTypeOK'
    BY <1>1, <1>4 DEF LogTypeOK
  <2>2. n * EventUnits <= pos' /\ pos' # n * EventUnits
    BY <1>3, <1>4
  <2>3. \A m : InSlot(m)' <=> InSlot(m)
    BY <1>1, <1>4 DEF InSlot
  <2>4. ReaderInv'
    BY <1>1, <1>4, <2>2, <2>3, Zenon DEF ReaderInv
  <2>5. NoEventBehindGap'
    BY <1>1, <1>4 DEF NoEventBehindGap
  <2> QED
    BY <1>2, <2>1, <2>4, <2>5 DEF LogInv
<1>5. CASE ~rr_read_full
  <2>1. pos' = len /\ UNCHANGED <<g_expected_seq, delivered>>
    BY <1>5 DEF rr_replay_next_event
  <2>2. write_failures = 0 => len < n * EventUnits + EventUnits
    BY <1>3, <1>5 DEF rr_read_full
  <2>3. pos' \in 0..len /\ pos < pos'
    BY <1>1, <1>3, <2>1
  <2> QED
    BY <1>4, <2>1, <2>2, <2>3
<1>6. CASE rr_read_full
  <2> DEFINE ev == SubSeq(file, pos + 1, pos + EventUnits)
  <2>1. pos + EventUnits <= len /\ pos' = pos + EventUnits
    BY <1>6 DEF rr_replay_next_event, rr_read_full
  <2>2. ev \in Seq(Units) /\ Len(ev) = EventUnits
    BY <1>3, <2>1
  <2>3. \A k \in 1..EventUnits : ev[k] = file[pos + k]
    BY <1>3, <2>1
  <2>4. \/ /\ HasNumber(ev, g_expected_seq) \/ ~Numbered(ev)
           /\ g_expected_seq' = g_expected_seq + 1
           /\ delivered' = Append(delivered, ev)
        \/ /\ ~HasNumber(ev, g_expected_seq)
           /\ UNCHANGED <<g_expected_seq, delivered>>
    BY <1>6, Zenon DEF rr_replay_next_event
  <2>5. UNCHANGED <<recorderVars, g_replay_header_ok>>
    BY DEF rr_replay_next_event
  <2> HIDE DEF ev
  <2>6. CASE ~HasNumber(ev, g_expected_seq) /\ UNCHANGED <<g_expected_seq, delivered>>
    <3>1. write_failures # 0
      <4> SUFFICES ASSUME write_failures = 0
                   PROVE  \A k \in 1..NumberUnits : ev[k] = Event(n + 1)[k]
        BY <1>3, <2>6 DEF HasNumber
      <4> SUFFICES ASSUME NEW k \in 1..NumberUnits
                   PROVE  ev[k] = Event(n + 1)[k]
        OBVIOUS
      <4>1. k \in 1..EventUnits /\ pos + k \in 1..len
        BY <1>3, <2>1
      <4>2. /\ Position(file[pos + k]) = n * EventUnits + k
            /\ file[pos + k] \in Units
        BY <1>1, <1>3, <4>1 DEF FileInv
      <4>3. file[pos + k] = [seq |-> n + 1, part |-> k]
        BY <1>3, <4>1, <4>2, PositionUnique, Zenon
      <4>4. Event(n + 1)[k] = [seq |-> n + 1, part |-> k]
        BY <4>1 DEF Event
      <4> QED
        BY <2>3, <4>1, <4>3, <4>4
    <3>2. pos' \in 0..len /\ pos < pos'
      BY <1>3, <2>1
    <3> QED
      BY <1>4, <2>6, <3>1, <3>2
  <2> QED
    BY <1>1, <2>1, <2>2, <2>3, <2>4, <2>5, <2>6, AcceptStep
<1> QED
  BY <1>5, <1>6

-----------------------------------------------------------------------------
(* Theorems.                                                               *)

\* Events are logged one by one until the recorder stops.
LEMMA LogStep ==
    ASSUME LogInv, [LogNext]_logVars
    PROVE  LogInv'
<1>1. CASE rr_log_event
  <2>1. /\ recorder = "running" /\ g_rr_seq < MaxEvents
        /\ g_rr_seq' = g_rr_seq + 1 /\ rr_record_append(Event(g_rr_seq'))
        /\ UNCHANGED <<recorder, readerVars>>
    BY <1>1 DEF rr_log_event
  <2>2. CASE RingFull /\ rr_record_flush /\ g_ring' = Event(g_rr_seq')
    BY <2>1, <2>2, EventFlushes
  <2>3. CASE /\ ~RingFull /\ g_ring' = g_ring \o Event(g_rr_seq')
             /\ UNCHANGED <<file, write_failures>>
    <3>1. g_ring' = g_ring \o Event(g_rr_seq + 1)
      BY <2>1, <2>3
    <3> QED
      BY <2>1, <2>3, <3>1, EventFits
  <2> QED
    BY <2>1, <2>2, <2>3 DEF rr_record_append
<1>2. CASE rr_record_shutdown
  <2>1. /\ recorder = "running" /\ recorder' = "closed" /\ rr_record_flush
        /\ g_ring' = <<>> /\ UNCHANGED <<g_rr_seq, readerVars>>
    BY <1>2 DEF rr_record_shutdown
  <2>2. /\ LogTypeOK
        /\ g_rr_seq' \in g_rr_seq..(g_rr_seq + 1) /\ g_rr_seq' <= MaxEvents
    BY <2>1, EventLogAssumption DEF LogInv, LogTypeOK
  <2>3. PICK n \in 0..Len(g_ring) :
            Written(n) /\ (write_failures' = 0 => n = Len(g_ring))
    BY <2>1, <2>2, FlushWrites
  <2>4. /\ write_failures' \in 0..MaxWriteFailures
        /\ write_failures' = 0 => write_failures = 0
    BY <2>1, <2>2, FlushWrites
  <2> QED
    BY <2>1, <2>2, <2>3, <2>4, RecorderStops
<1>3. CASE Crash \/ CrashLogging
  <2>1. PICK n \in 0..Len(g_ring) : Dies(n)
    <3>1. Len(g_ring) \in Nat
      BY DEF LogInv, LogTypeOK
    <3> QED
      BY <1>3, <3>1 DEF Crash, CrashLogging
  <2>2. /\ g_rr_seq \in Nat /\ g_rr_seq <= MaxEvents /\ MaxEvents \in Nat
        /\ write_failures \in 0..MaxWriteFailures
    BY EventLogAssumption DEF LogInv, LogTypeOK
  <2>3. g_rr_seq' \in g_rr_seq..(g_rr_seq + 1) /\ g_rr_seq' <= MaxEvents
    BY <1>3, <2>2 DEF Crash, CrashLogging
  <2>4. /\ recorder = "running" /\ recorder' = "crashed" /\ g_ring' = <<>>
        /\ Written(n) /\ UNCHANGED <<write_failures, readerVars>>
    BY <2>1 DEF Dies
  <2> QED
    BY <2>1, <2>2, <2>3, <2>4, RecorderStops
<1>4. CASE UNCHANGED logVars
  <2>1. LogTypeOK' /\ FileInv' /\ RingInv' /\ SavedInv'
    BY <1>4, Zenon
    DEF LogInv, LogTypeOK, FileInv, RingInv, SavedInv, InHand, logVars
  <2>2. ReaderInv' /\ NoEventBehindGap'
    BY <1>4, Zenon DEF LogInv, ReaderInv, InSlot, NoEventBehindGap, logVars
  <2> QED
    BY <2>1, <2>2 DEF LogInv
<1> QED
  BY <1>1, <1>2, <1>3, <1>4, ReplayOpens, NextEventStep DEF LogNext

\* The inductive invariant holds in every reachable state.
THEOREM LogInductive == LogSpec => []LogInv
<1>1. LogInit => LogInv
  <2> SUFFICES ASSUME LogInit PROVE LogInv
    OBVIOUS
  <2>1. /\ recorder = "running" /\ g_rr_seq = 0 /\ g_ring = <<>> /\ file = <<>>
        /\ write_failures = 0 /\ g_replay_header_ok = FALSE /\ pos = 0
        /\ g_expected_seq = 1 /\ delivered = <<>>
        /\ Len(g_ring) = 0 /\ Len(file) = 0 /\ Len(delivered) = 0
        /\ g_rr_seq * EventUnits = 0
    BY Multiples DEF LogInit
  <2>2. LogTypeOK
    <3>1. /\ g_ring \in Seq(Units) /\ file \in Seq(Units)
          /\ delivered \in Seq(Seq(Units))
      BY <2>1
    <3>2. g_rr_seq \in 0..MaxEvents /\ write_failures \in 0..MaxWriteFailures
      BY <2>1, EventLogAssumption
    <3>3. pos \in 0..Len(file) /\ Len(g_ring) <= RingUnits
      BY <2>1, EventLogAssumption
    <3>4. g_expected_seq = Len(delivered) + 1
      BY <2>1
    <3> QED
      BY <2>1, <3>1, <3>2, <3>3, <3>4, Zenon DEF LogTypeOK
  <2>3. FileInv /\ RingInv
    BY <2>1 DEF FileInv, RingInv
  <2>4. SavedInv
    BY <2>1, EventLogAssumption DEF SavedInv, InHand
  <2>5. ReaderInv
    BY <2>1 DEF ReaderInv
  <2>6. NoEventBehindGap
    BY <2>1 DEF NoEventBehindGap
  <2> QED
    BY <2>2, <2>3, <2>4, <2>5, <2>6 DEF LogInv
<1> QED
  BY <1>1, LogStep, PTL DEF LogSpec

\* Every variable keeps its type, and the buffer is never overrun.
THEOREM LogTypeCorrect == LogSpec => []LogTypeOK
<1>1. LogInv => LogTypeOK
  BY DEF LogInv
<1> QED
  BY <1>1, LogInductive, PTL

\* The replay hands out what was recorded, as long as no write has failed.
THEOREM DeliverySafe == LogSpec => []DeliveredIsLogged
<1>1. LogInv => DeliveredIsLogged
  <2> SUFFICES ASSUME LogInv, write_failures = 0, NEW i \in DOMAIN delivered
               PROVE  delivered[i] = Event(i)
    BY DEF DeliveredIsLogged
  <2> DEFINE m == i - 1
  <2>1. /\ LogTypeOK /\ FileInv /\ ReaderInv
        /\ Len(delivered) \in Nat /\ i \in 1..Len(delivered)
        /\ pos \in Nat /\ pos <= Len(file) /\ EventUnits \in Nat
        /\ Len(file) \in Nat
        /\ Len(delivered) * EventUnits <= pos
    BY EventLogAssumption DEF LogInv, LogTypeOK, ReaderInv
  <2>2. m \in Nat /\ m < Len(delivered) /\ m + 1 = i
    BY <2>1
  <2> HIDE DEF m
  <2>3. /\ m * EventUnits \in Nat /\ Len(delivered) * EventUnits \in Nat
        /\ m * EventUnits + EventUnits <= Len(delivered) * EventUnits
    BY <2>1, <2>2, Multiples
  <2>4. \A k \in 1..EventUnits : m * EventUnits + k \in 1..Len(file)
    BY <2>1, <2>3
  <2>5. \A k \in 1..EventUnits :
            Position(file[m * EventUnits + k]) = m * EventUnits + k
    BY <2>1, <2>4 DEF FileInv
  <2>6. InSlot(m)
    <3>1. m \in 0..(Len(delivered) - 1)
      BY <2>1, <2>2
    <3> QED
      BY <2>1, <3>1, Zenon DEF ReaderInv
  <2>7. delivered[m + 1] = Event(m + 1)
    BY <2>1, <2>2, <2>5, <2>6, WholeEvent, Zenon
  <2> QED
    BY <2>2, <2>7
<1> QED
  BY <1>1, LogInductive, PTL

\* Whatever writes fail, an event accepted with a number of the recorder's has
\* the right one, and all accepted before it are the ones logged: behind a gap
\* no event is believed.
THEOREM GapSafe == LogSpec => []NoEventBehindGap
<1>1. LogInv => NoEventBehindGap
  BY DEF LogInv
<1> QED
  BY <1>1, LogInductive, PTL

\* A log closed by rr_record_shutdown replays to its last event.
THEOREM CleanSafe == LogSpec => []CleanLogReplaysWhole
<1>1. LogInv => CleanLogReplaysWhole
  <2> SUFFICES ASSUME LogInv, recorder = "closed", write_failures = 0,
                      pos = Len(file)
               PROVE  Len(delivered) = g_rr_seq
    BY DEF CleanLogReplaysWhole
  <2> DEFINE n == Len(delivered)
  <2>1. /\ n \in Nat /\ g_rr_seq \in Nat /\ EventUnits \in Nat
        /\ EventUnits >= 1 /\ Len(file) \in Nat
    BY EventLogAssumption DEF LogInv, LogTypeOK
  <2>2. Len(file) = g_rr_seq * EventUnits
    BY DEF LogInv, SavedInv
  <2>3. /\ n * EventUnits <= Len(file)
        /\ Len(file) < n * EventUnits + EventUnits
    <3>1. n * EventUnits \in Nat
      BY <2>1, Multiples
    <3> QED
      BY <2>1, <3>1 DEF LogInv, ReaderInv
  <2> HIDE DEF n
  <2>4. n * EventUnits \in Nat /\ g_rr_seq * EventUnits \in Nat
    BY <2>1, Multiples
  <2>5. ~(n < g_rr_seq)
    BY <2>1, <2>2, <2>3, <2>4, Multiples
  <2>6. ~(g_rr_seq < n)
    BY <2>1, <2>2, <2>3, <2>4, Multiples
  <2>7. n = g_rr_seq
    BY <2>1, <2>5, <2>6
  <2> QED
    BY <2>7 DEF n
<1> QED
  BY <1>1, LogInductive, PTL

\* What a process has not saved fits in the buffer, and with it the one event
\* it was logging when it died; all older events are in the file, whole and in
\* order.
THEOREM LossSafe == LogSpec => []LossFitsRing
<1>1. LogInv => LossFitsRing
  <2> DEFINE saved == Len(file) \div EventUnits
  <2> SUFFICES ASSUME LogInv, write_failures = 0
               PROVE  /\ \A n \in 1..saved :
                            SubSeq(file, (n - 1) * EventUnits + 1,
                                         n * EventUnits) = Event(n)
                      /\ (g_rr_seq - saved) * EventUnits <= RingUnits + InHand
    BY DEF LossFitsRing
  <2>1. /\ g_rr_seq \in Nat /\ EventUnits \in Nat /\ EventUnits >= 1
        /\ Len(file) \in Nat /\ file \in Seq(Units) /\ RingUnits \in Nat
    BY EventLogAssumption DEF LogInv, LogTypeOK
  <2>2. /\ saved \in Nat
        /\ saved * EventUnits <= Len(file)
        /\ Len(file) < saved * EventUnits + EventUnits
    BY <2>1
  <2> HIDE DEF saved
  <2>3. ASSUME NEW n \in 1..saved
        PROVE  SubSeq(file, (n - 1) * EventUnits + 1, n * EventUnits) = Event(n)
    <3> DEFINE m == n - 1
               ev == SubSeq(file, m * EventUnits + 1, n * EventUnits)
    <3>1. m \in Nat /\ n \in Nat /\ n = m + 1 /\ m < saved
      BY <2>2
    <3> HIDE DEF m
    <3>2. /\ m * EventUnits \in Nat /\ saved * EventUnits \in Nat
          /\ n * EventUnits = m * EventUnits + EventUnits
          /\ m * EventUnits + EventUnits <= saved * EventUnits
      BY <2>2, <3>1, Multiples, Zenon
    <3>3. /\ Len(ev) = EventUnits /\ ev \in Seq(Units)
          /\ \A k \in 1..EventUnits : ev[k] = file[m * EventUnits + k]
      BY <2>1, <2>2, <3>2
    <3>4. ASSUME NEW k \in 1..EventUnits
          PROVE  ev[k] = [seq |-> m + 1, part |-> k]
      <4>1. m * EventUnits + k \in 1..Len(file)
        BY <2>1, <2>2, <3>2
      <4>2. /\ file[m * EventUnits + k] \in Units
            /\ Position(file[m * EventUnits + k]) = m * EventUnits + k
        BY <2>1, <4>1 DEF LogInv, FileInv
      <4>3. file[m * EventUnits + k] = [seq |-> m + 1, part |-> k]
        BY <3>1, <4>2, PositionUnique
      <4> QED
        BY <3>3, <4>3
    <3> HIDE DEF ev
    <3>5. ev = [k \in 1..EventUnits |-> ev[k]]
      BY <3>3
    <3>6. ev = Event(n)
      BY <3>1, <3>4, <3>5 DEF Event
    <3> QED
      BY <3>6 DEF ev, m
  <2>4. PICK b \in 0..g_rr_seq :
            /\ b * EventUnits <= Len(file)
            /\ g_rr_seq * EventUnits - b * EventUnits <= RingUnits + InHand
    BY DEF LogInv, SavedInv
  <2>5. /\ b \in Nat /\ b * EventUnits \in Nat /\ saved * EventUnits \in Nat
        /\ g_rr_seq * EventUnits \in Nat
    BY <2>1, <2>2, <2>4, Multiples
  <2>6. b <= saved
    BY <2>1, <2>2, <2>4, <2>5, Multiples
  <2>7. b * EventUnits <= saved * EventUnits
    BY <2>1, <2>2, <2>5, <2>6, Multiples
  <2>8. (g_rr_seq - saved) * EventUnits
            = g_rr_seq * EventUnits - saved * EventUnits
    BY <2>1, <2>2
  <2>9. (g_rr_seq - saved) * EventUnits <= RingUnits + InHand
    <3>1. InHand \in Nat
      BY <2>1 DEF InHand
    <3> QED
      BY <2>1, <3>1, <2>4, <2>5, <2>7, <2>8
  <2> QED
    BY <2>3, <2>9
<1> QED
  BY <1>1, LogInductive, PTL

=============================================================================
