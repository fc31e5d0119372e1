--------------------------- MODULE WrappersProofs ---------------------------
(***************************************************************************)
(* What holds of Wrappers for every size of an event, of an int and of the *)
(* caller's buffers, and for every number of calls.                        *)
(*                                                                         *)
(* Each property speaks of one call at a time, so the invariant collects   *)
(* what holds of each call: of its answer and what the caller saw, and of  *)
(* its event and what a replay makes of it.  One lemma for each kind of    *)
(* wrapper shows it for what that wrapper returns and logs.                *)
(***************************************************************************)
EXTENDS Wrappers, FiniteSetTheorems, TLAPS

\* A leaf that names no prover is left to SMT, with time to spare.
USE SMTT(30)

-----------------------------------------------------------------------------
(* Arithmetic and sequences.                                               *)

\* A power of two is a positive number: the number of subsets of a set.
LEMMA PowerType ==
  ASSUME NEW n \in Nat
  PROVE  /\ 2^n \in Nat \ {0}
         /\ Cardinality(SUBSET (1..n)) = 2^n
         /\ IsFiniteSet(SUBSET (1..n))
<1>1. IsFiniteSet(1..n) /\ Cardinality(1..n) = n
  BY FS_Interval
<1>2. IsFiniteSet(SUBSET (1..n)) /\ Cardinality(SUBSET (1..n)) = 2^n
  BY <1>1, FS_SUBSET, Zenon
<1>3. Cardinality(SUBSET (1..n)) \in Nat
  BY <1>2, FS_CardinalityType
<1>4. SUBSET (1..n) # {}
  BY Zenon
<1>5. Cardinality(SUBSET (1..n)) # 0
  BY <1>2, <1>4, FS_EmptySet
<1> QED BY <1>2, <1>3, <1>5

\* The next power of two is twice as large: a subset of 1..(n+1) does or does
\* not have n + 1 as a member.
LEMMA PowerDoubles ==
  ASSUME NEW n \in Nat
  PROVE  2^(n + 1) = 2 * 2^n
<1> DEFINE S == SUBSET (1..n)
           W == {X \in SUBSET (1..(n + 1)) : n + 1 \in X}
           f == [X \in S |-> X \cup {n + 1}]
<1>1. /\ IsFiniteSet(S) /\ Cardinality(S) = 2^n
      /\ Cardinality(SUBSET (1..(n + 1))) = 2^(n + 1)
      /\ 2^n \in Nat
  BY PowerType
<1>2. f \in [S -> W]
  OBVIOUS
<1>3. \A X, Y \in S : f[X] = f[Y] => X = Y
  <2> SUFFICES ASSUME NEW X \in S, NEW Y \in S, f[X] = f[Y]
               PROVE  X = Y
    OBVIOUS
  <2>1. n + 1 \notin X /\ n + 1 \notin Y
    OBVIOUS
  <2>2. X \cup {n + 1} = Y \cup {n + 1}
    OBVIOUS
  <2> QED BY <2>1, <2>2
<1>4. \A Z \in W : \E X \in S : f[X] = Z
  <2> SUFFICES ASSUME NEW Z \in W
               PROVE  \E X \in S : f[X] = Z
    BY Zenon
  <2>1. Z \ {n + 1} \in S
    OBVIOUS
  <2>2. f[Z \ {n + 1}] = Z
    BY <2>1
  <2> QED BY <2>1, <2>2, Zenon
<1>5. f \in Bijection(S, W)
  BY <1>2, <1>3, <1>4, Zenon DEF Bijection, Injection, Surjection, IsInjective
<1>6. ExistsBijection(S, W)
  BY <1>5, Zenon DEF ExistsBijection
<1>7. IsFiniteSet(W) /\ Cardinality(W) = 2^n
  BY <1>1, <1>6, FS_Bijection
<1>8. SUBSET (1..(n + 1)) = S \cup W /\ S \cap W = {}
  <2>1. ASSUME NEW X \in SUBSET (1..(n + 1)), n + 1 \notin X
        PROVE  X \in S
    BY <2>1
  <2>2. S \subseteq SUBSET (1..(n + 1))
    OBVIOUS
  <2>3. \A X \in S : n + 1 \notin X
    OBVIOUS
  <2> QED BY <2>1, <2>2, <2>3
<1>9. Cardinality({}) = 0
  BY FS_EmptySet
<1> HIDE DEF S, W
<1>10. Cardinality(S \cup W) = 2^n + 2^n - 0
  BY <1>1, <1>7, <1>8, <1>9, FS_Union, ZenonT(60)
<1>11. PICK p : p = 2^n
  OBVIOUS
<1>12. p \in Nat /\ 2^(n + 1) = p + p - 0
  BY <1>1, <1>8, <1>10, <1>11, Zenon
<1>13. p + p - 0 = 2 * p
  BY <1>12
<1> QED BY <1>11, <1>12, <1>13, Zenon

\* The range of an int, and of an unsigned one.
LEMMA IntRange ==
  /\ 2^(IntBits - 1) \in Nat /\ 2^IntBits \in Nat
  /\ 2^IntBits = 2 * 2^(IntBits - 1)
  /\ 2^(IntBits - 1) > MaxSize /\ MaxSize >= 2
<1>1. IntBits - 1 \in Nat /\ (IntBits - 1) + 1 = IntBits /\ IntBits \in Nat
  BY WrapperAssumption
<1>2. 2^(IntBits - 1) \in Nat /\ 2^IntBits \in Nat
  BY <1>1, PowerType, Zenon
<1>3. 2^IntBits = 2 * 2^(IntBits - 1)
  BY <1>1, PowerDoubles
<1>4. MaxSize < 2^(IntBits - 1) /\ MaxSize > DataCap /\ DataCap \in Nat \ {0}
      /\ MaxSize \in Nat
  BY WrapperAssumption
<1>5. 2^(IntBits - 1) > MaxSize /\ MaxSize >= 2
  BY <1>2, <1>4
<1> QED BY <1>2, <1>3, <1>5

\* The smaller of two numbers.
LEMMA MinPair ==
  ASSUME NEW a \in Int, NEW b \in Int
  PROVE  Min({a, b}) = IF a <= b THEN a ELSE b
  BY DEF Min

-----------------------------------------------------------------------------
(* What holds of one call.                                                 *)

Bytes == Seq(Nat)
Answers == [ret : Int, data : Bytes, ok : BOOLEAN]
Results == [ret : Int, errno : Int, buf : Bytes]
Fns == StatusFns \cup TimeFns \cup StructFns \cup
       {"read", "recv", "write", "getpid", "getuid", "getcwd", "nanosleep"}
Events == [nr : Fns, retval : Int, data : Bytes]

\* What a replay makes of the event, unless real time was asked for.
Rep(c, ev) ==
    CASE c.fn \in {"read", "recv"} -> read_replayed(c, ev)
      [] c.fn \in TimeFns \cup StructFns -> WithData(c, ev)
      [] c.fn = "getuid" -> getuid_replayed(c, ev)
      [] c.fn = "getcwd" -> getcwd_replayed(c, ev)
      [] OTHER -> value_replayed(c, ev)

Transparent(c, k, s) ==
    IF ~k.ok THEN s.ret = -1 /\ s.errno = EPERM
    ELSE /\ s.errno = IF k.ret < 0 THEN -k.ret ELSE 0
         /\ k.ret < 0 => s.ret = IF c.fn = "getcwd" THEN 0 ELSE -1
         /\ k.ret >= 0 => /\ c.fn # "getcwd" => s.ret = k.ret
                          /\ c.fn # "nanosleep" =>
                                s.buf = Copied(Untouched(c.n), k.data, c.n)

Same(c, s, r) ==
    \/ c.fn = "getuid" /\ s.ret >= 2^(IntBits - 1)
    \/ c.fn = "getcwd" /\ c.n = 0
    \/ r.ret = s.ret /\ r.errno = s.errno

Fills(c, s, r) ==
    \/ /\ c.fn = "getcwd" /\ s.ret = 1
       /\ c.n > 0 => StringOf(r.buf) = SubSeq(StringOf(s.buf), 1,
                                    Min({DataCap, Len(StringOf(s.buf))}))
    \/ \A j \in 1..c.n :
        r.buf[j] = IF j <= LoggedBytes(c) THEN s.buf[j] ELSE Old

EventOK(ev) ==
    /\ ev \in Events
    /\ ev.retval \in -(2^(IntBits - 1))..(2^(IntBits - 1) - 1)
    /\ Len(ev.data) <= DataCap

\* What a wrapper sees and logs of the answer k is as it should be.
Good(c, k, s, ev) ==
    /\ k \in Answers /\ s \in Results /\ EventOK(ev)
    /\ Transparent(c, k, s)
    /\ Rep(c, ev) \in Results
    /\ Len(Rep(c, ev).buf) = c.n
    /\ Same(c, s, Rep(c, ev))
    /\ Fills(c, s, Rep(c, ev))

\* The invariant.
WrapInv ==
    /\ mode \in {"record", "asleep", "replay"}
    /\ stream \in 0..4
    /\ calls \in Seq(Calls \cup Sleeps)
    /\ kernel \in Seq(Answers) /\ seen \in Seq(Results)
    /\ log \in Seq(Events) /\ again \in Seq(Results)
    /\ Len(kernel) = Len(log) /\ Len(seen) = Len(log)
    /\ IF mode = "asleep"
       THEN Len(calls) = Len(log) + 1 /\ calls[Len(calls)] \in Sleeps
       ELSE Len(calls) = Len(log)
    /\ Len(again) <= Len(log)
    /\ \A i \in 1..Len(log) : Good(calls[i], kernel[i], seen[i], log[i])
    /\ \A i \in 1..Len(again) :
        /\ Len(again[i].buf) = calls[i].n
        /\ RealTime(calls[i]) \/ again[i] = Rep(calls[i], log[i])

-----------------------------------------------------------------------------
(* Buffers, events and the kernel's answers.                               *)

\* memcpy into a fresh buffer keeps its size; each byte is the data's as far
\* as the data and the bound go, and the old one after that.
LEMMA CopiedIs ==
  ASSUME NEW n \in Nat, NEW data \in Bytes, NEW max \in Int
  PROVE  LET b == Copied(Untouched(n), data, max) IN
         /\ b \in Bytes /\ Len(b) = n /\ DOMAIN b = 1..n
         /\ \A j \in 1..n :
              b[j] = IF j <= Len(data) /\ j <= max THEN data[j] ELSE Old
<1>1. Untouched(n) \in Seq(Nat) /\ Len(Untouched(n)) = n
  BY DEF Untouched, Old
<1>2. \A j \in 1..n : Untouched(n)[j] = Old
  BY DEF Untouched
<1>3. Copied(Untouched(n), data, max) =
        [j \in 1..n |-> IF j <= Len(data) /\ j <= max THEN data[j] ELSE Old]
  BY <1>1, <1>2 DEF Copied
<1>4. \A j \in 1..n :
        (IF j <= Len(data) /\ j <= max THEN data[j] ELSE Old) \in Nat
  BY DEF Old, Bytes
<1> QED BY <1>3, <1>4 DEF Bytes

\* A fresh buffer, and that copying nothing leaves it as it is.
LEMMA UntouchedIs ==
  ASSUME NEW n \in Nat
  PROVE  /\ Untouched(n) \in Bytes /\ Len(Untouched(n)) = n
         /\ \A j \in 1..n : Untouched(n)[j] = Old
         /\ \A max \in Int : Copied(Untouched(n), <<>>, max) = Untouched(n)
<1>1. Untouched(n) \in Seq(Nat) /\ Len(Untouched(n)) = n
  BY DEF Untouched, Old
<1>2. \A j \in 1..n : Untouched(n)[j] = Old
  BY DEF Untouched
<1>3. ASSUME NEW max \in Int
      PROVE  Copied(Untouched(n), <<>>, max) = Untouched(n)
  <2>1. \A j \in 1..n : ~(j <= Len(<<>>))
    OBVIOUS
  <2>2. Copied(Untouched(n), <<>>, max) = [j \in 1..n |-> Old]
    BY <1>1, <1>2, <2>1 DEF Copied
  <2> QED BY <2>2 DEF Untouched
<1> QED BY <1>1, <1>2, <1>3 DEF Bytes

\* The event of rr_log_syscall: the value, and the data up to DataCap bytes.
LEMMA LogIs ==
  ASSUME NEW fn \in Fns, NEW retval \in Int, NEW data \in Bytes
  PROVE  LET ev == rr_log_syscall(fn, retval, data) IN
         /\ ev \in Events /\ ev.retval = retval
         /\ Len(ev.data) <= DataCap /\ Len(ev.data) <= Len(data)
         /\ Len(ev.data) = Len(data) \/ Len(ev.data) = DataCap
         /\ \A j \in 1..Len(ev.data) : ev.data[j] = data[j]
<1>1. DataCap \in Nat /\ Len(data) \in Nat
  BY WrapperAssumption DEF Bytes
<1>2. PICK m : m = Min({Len(data), DataCap})
  OBVIOUS
<1>3. m \in Nat /\ m <= DataCap /\ m <= Len(data)
      /\ (m = Len(data) \/ m = DataCap)
  BY <1>1, <1>2, MinPair
<1>4. /\ SubSeq(data, 1, m) \in Seq(Nat) /\ Len(SubSeq(data, 1, m)) = m
      /\ \A j \in 1..m : SubSeq(data, 1, m)[j] = data[j]
  BY <1>1, <1>3 DEF Bytes
<1>5. rr_log_syscall(fn, retval, data) =
        [nr |-> fn, retval |-> retval, data |-> SubSeq(data, 1, m)]
  BY <1>2 DEF rr_log_syscall
<1> QED BY <1>3, <1>4, <1>5 DEF Events, Bytes

\* What all answers but a user id have in common: a negative value comes with
\* no data, and is -1 if the call was not submitted; the value fits an int.
Shape(k) ==
    /\ k \in Answers
    /\ ~k.ok => k.ret = -1
    /\ k.ret < 0 => k.data = <<>>
    /\ k.ret \in -2..(2^(IntBits - 1) - 1)

\* The answers that are errors.
LEMMA RefusedShape ==
  ASSUME NEW k \in {Fails, NotSubmitted}
  PROVE  Shape(k) /\ k.ret < 0
<1>1. <<>> \in Bytes
  BY DEF Bytes
<1>2. PICK p : p = 2^(IntBits - 1)
  OBVIOUS
<1>3. p \in Nat /\ p > 2
  BY <1>2, IntRange, WrapperAssumption
<1>4. -1 \in -2..(p - 1) /\ -2 \in -2..(p - 1)
  BY <1>3
<1>5. k = [ret |-> -2, data |-> <<>>, ok |-> TRUE] \/
      k = [ret |-> -1, data |-> <<>>, ok |-> FALSE]
  BY DEF Fails, NotSubmitted, Answer, EIO
<1>6. k \in Answers /\ (~k.ok => k.ret = -1) /\ k.data = <<>>
      /\ (k.ret = -2 \/ k.ret = -1)
  <2>1. CASE k = [ret |-> -2, data |-> <<>>, ok |-> TRUE]
    BY <1>1, <2>1 DEF Answers
  <2>2. CASE k = [ret |-> -1, data |-> <<>>, ok |-> FALSE]
    BY <1>1, <2>2 DEF Answers
  <2> QED BY <1>5, <2>1, <2>2
<1>7. k.ret \in -2..(p - 1) /\ k.ret < 0
  BY <1>4, <1>6
<1> QED BY <1>2, <1>6, <1>7 DEF Shape

\* An answer that is not an error.
LEMMA AnswerShape ==
  ASSUME NEW r \in Nat, r < 2^(IntBits - 1), NEW data \in Bytes
  PROVE  /\ Shape(Answer(r, data)) /\ Answer(r, data).ok
         /\ Answer(r, data).ret = r /\ Answer(r, data).data = data
<1>1. PICK p : p = 2^(IntBits - 1)
  OBVIOUS
<1>2. p \in Nat /\ r < p
  BY <1>1, IntRange
<1>3. r \in -2..(p - 1) /\ ~(r < 0)
  BY <1>2
<1>4. Answer(r, data) = [ret |-> r, data |-> data, ok |-> TRUE]
  BY DEF Answer
<1> QED BY <1>1, <1>3, <1>4 DEF Shape, Answers

\* The sizes the calls have.
LEMMA CallType ==
  ASSUME NEW c \in Calls
  PROVE  /\ c.n \in Nat /\ c.fn \in Fns
         /\ c.fn \in {"read", "recv"} =>
              /\ c.fd \in {"stream", "file"}
              /\ c.n <= MaxSize
         /\ c.fn \notin {"read", "recv"} => c.fd = "none"
         /\ c.fn \in {"write", "getcwd"} => c.n <= MaxSize
         /\ c.fn \in StatusFns \ {"accept"} => c.n = 0
         /\ c.fn \in {"getpid", "getuid"} => c.n = 0
         /\ \/ c.fn \in {"read", "recv", "write", "getpid", "getuid", "getcwd"}
            \/ c.fn \in StatusFns \/ c.fn \in TimeFns \/ c.fn \in StructFns
<1>1. /\ MaxSize \in Nat /\ TimeSize \in Nat /\ StructSize \in Nat
  BY WrapperAssumption
<1>2. CASE c \in [fn : {"read"}, fd : {"stream", "file"}, n : 0..MaxSize]
              \cup [fn : {"recv"}, fd : {"stream"}, n : 0..MaxSize]
  BY <1>1, <1>2 DEF Fns, StatusFns
<1>3. CASE c \in [fn : {"write", "getcwd"}, fd : {"none"}, n : 0..MaxSize]
  BY <1>1, <1>3 DEF Fns, StatusFns
<1>4. CASE c \in [fn : {"accept"}, fd : {"none"}, n : 0..1]
  BY <1>1, <1>4 DEF Fns, StatusFns
<1>5. CASE c \in [fn : StatusFns \cup {"getpid", "getuid"}, fd : {"none"},
                  n : {0}]
  BY <1>1, <1>5 DEF Fns, StatusFns
<1>6. CASE c \in [fn : TimeFns, fd : {"none"}, n : {TimeSize}]
  BY <1>1, <1>6 DEF Fns, StatusFns, TimeFns
<1>7. CASE c \in [fn : StructFns, fd : {"none"}, n : {StructSize}]
  BY <1>1, <1>7 DEF Fns, StatusFns, StructFns
<1> QED BY <1>2, <1>3, <1>4, <1>5, <1>6, <1>7 DEF Calls

\* The answers to a read: an error, or as many bytes as the value says, no
\* more than asked for and no more than the stream still has.
LEMMA ReadAnswer ==
  ASSUME NEW c \in Calls, c.fn \in {"read", "recv"}, stream \in 0..4,
         NEW k \in Kernel(c)
  PROVE  /\ Shape(k)
         /\ k.ret >= 0 => Len(k.data) = k.ret /\ k.ret <= c.n
         /\ c.fd = "stream" => stream + Len(k.data) \in 0..4
         /\ c.fd = "stream" /\ k.ret >= 0 =>
              k.data = SubSeq(Content["stream"], stream + 1, stream + k.ret)
<1>1. c.n \in Nat /\ c.fd \in {"stream", "file"} /\ c.n <= MaxSize
  BY CallType
<1>2. k \in rr_io_submit_read(c) \/ k \in {Fails, NotSubmitted}
  <2>1. Kernel(c) = rr_io_submit_read(c) \cup {Fails} \cup
            (IF c.n = 0 /\ c.fn = "read" THEN {} ELSE {NotSubmitted})
    BY DEF Kernel, StatusFns, TimeFns, StructFns
  <2> QED BY <2>1
<1>3. CASE k \in {Fails, NotSubmitted}
  <2>1. Shape(k) /\ k.ret < 0 /\ k.ret \in Int
    BY <1>3, RefusedShape DEF Shape, Answers
  <2>2. Len(k.data) = 0
    BY <2>1 DEF Shape
  <2> QED BY <2>1, <2>2
<1>4. CASE k \in rr_io_submit_read(c)
  <2>1. PICK off : off = IF c.fd = "stream" THEN stream ELSE 0
    OBVIOUS
  <2>2. PICK s : s = Content[c.fd]
    OBVIOUS
  <2>3. s \in Seq(Nat) /\ Len(s) \in 3..4 /\ (c.fd = "stream" => Len(s) = 4)
    <3>1. CASE c.fd = "stream"
      <4>1. s = <<1, 2, 3, 4>>
        BY <2>2, <3>1 DEF Content
      <4> QED BY <4>1
    <3>2. CASE c.fd = "file"
      <4>1. s = <<5, 6, 7>>
        BY <2>2, <3>2 DEF Content
      <4> QED BY <3>2, <4>1
    <3> QED BY <1>1, <3>1, <3>2
  <2>4. off \in 0..Len(s)
    <3>1. CASE c.fd = "stream"
      <4>1. off = stream /\ Len(s) = 4
        BY <2>1, <2>3, <3>1
      <4> QED BY <4>1
    <3>2. CASE c.fd = "file"
      <4>1. off = 0 /\ Len(s) \in Nat
        BY <2>1, <2>3, <3>2
      <4> QED BY <4>1
    <3> QED BY <1>1, <3>1, <3>2
  <2>5. PICK m : m = Min({c.n, Len(s) - off})
    OBVIOUS
  <2>6. m \in Nat /\ m <= c.n /\ off + m <= Len(s)
    BY <1>1, <2>3, <2>4, <2>5, MinPair
  <2>7. PICK len \in 0..m : k = ReadAt(s, off, len)
    BY <1>4, <2>1, <2>2, <2>5, Zenon DEF rr_io_submit_read
  <2>8. PICK d : d = SubSeq(s, off + 1, off + len)
    BY Zenon
  <2>9. len \in Nat /\ len <= c.n /\ off + len <= Len(s) /\ off \in Nat
    BY <2>3, <2>4, <2>6, <2>7, <1>1
  <2>10. d \in Bytes /\ Len(d) = len
    BY <2>3, <2>8, <2>9 DEF Bytes
  <2>11. len < 2^(IntBits - 1)
    <3>1. /\ MaxSize \in Nat /\ 2^(IntBits - 1) \in Nat
          /\ 2^(IntBits - 1) > MaxSize
      BY IntRange, WrapperAssumption
    <3> QED BY <1>1, <2>9, <3>1
  <2>12. k = Answer(len, d)
    BY <2>7, <2>8 DEF ReadAt
  <2>13. Shape(k) /\ k.ret = len /\ k.data = d
    BY <2>9, <2>10, <2>11, <2>12, AnswerShape
  <2>14. c.fd = "stream" => stream + len \in 0..4
    <3> SUFFICES ASSUME c.fd = "stream"
                 PROVE  stream + len \in 0..4
      OBVIOUS
    <3>1. off = stream /\ Len(s) = 4
      BY <2>1, <2>3
    <3> QED BY <2>9, <3>1
  <2>15. c.fd = "stream" =>
            k.data = SubSeq(Content["stream"], stream + 1, stream + k.ret)
    BY <2>1, <2>2, <2>8, <2>13
  <2> QED BY <2>9, <2>10, <2>13, <2>14, <2>15
<1> QED BY <1>2, <1>3, <1>4

-----------------------------------------------------------------------------
(* The wrappers.                                                           *)

\* What a wrapper that only passes the answer on returns and logs.
Plain(c, k, data) ==
    [sees |-> Native(c, k), ev |-> rr_log_syscall(c.fn, k.ret, data)]

\* raw_to_int, on a value and on an error.
LEMMA RawIs ==
  ASSUME NEW raw \in Int, NEW buf \in Bytes
  PROVE  LET r == raw_to_int(raw, buf) IN
         /\ r \in Results /\ r.buf = buf
         /\ r.ret = IF raw < 0 THEN -1 ELSE raw
         /\ r.errno = IF raw < 0 THEN -raw ELSE 0
<1>1. CASE raw < 0
  <2>1. raw_to_int(raw, buf) = [ret |-> -1, errno |-> -raw, buf |-> buf]
    BY <1>1 DEF raw_to_int, Result
  <2> QED BY <1>1, <2>1 DEF Results
<1>2. CASE ~(raw < 0)
  <2>1. raw_to_int(raw, buf) = [ret |-> raw, errno |-> 0, buf |-> buf]
    BY <1>2 DEF raw_to_int, Result
  <2> QED BY <1>2, <2>1 DEF Results
<1> QED BY <1>1, <1>2

\* What the caller sees of an answer that is passed on.
LEMMA NativeIs ==
  ASSUME NEW c, c.n \in Nat, NEW k, Shape(k)
  PROVE  LET s == Native(c, k) IN
         /\ s \in Results /\ s.buf = Copied(Untouched(c.n), k.data, c.n)
         /\ s.ret = IF k.ret < 0 THEN -1 ELSE k.ret
         /\ s.errno = IF k.ret < 0 THEN -k.ret ELSE 0
<1>1. k.ret \in Int /\ k.data \in Bytes
  BY DEF Shape, Answers
<1>2. Copied(Untouched(c.n), k.data, c.n) \in Bytes
  BY <1>1, CopiedIs
<1> QED BY <1>1, <1>2, RawIs DEF Native

\* A direct call logs the kernel's value although it goes by way of errno, and
\* a call through the ring logs -1 if it was not submitted: the kernel's value
\* in both cases.
LEMMA PassedOn ==
  ASSUME NEW c, c.n \in Nat, NEW k, Shape(k), NEW data
  PROVE  Direct(c, k, data) = Plain(c, k, data) /\
         Ring(c, k, data) = Plain(c, k, data)
<1>1. k.ret \in Int /\ (~k.ok => k.ret = -1)
  BY DEF Shape, Answers
<1>2. to_log_int(Native(c, k)) = k.ret
  <2>1. PICK s : s = Native(c, k)
    OBVIOUS
  <2>2. /\ s.ret = IF k.ret < 0 THEN -1 ELSE k.ret
        /\ s.errno = IF k.ret < 0 THEN -k.ret ELSE 0
    BY <2>1, NativeIs
  <2>3. to_log_int(s) = k.ret
    BY <1>1, <2>2 DEF to_log_int
  <2> QED BY <2>1, <2>3
<1>3. (IF k.ok THEN k.ret ELSE -1) = k.ret
  BY <1>1
<1>4. Direct(c, k, data) = Plain(c, k, data)
  BY <1>2 DEF Direct, Plain
<1>5. Ring(c, k, data) = Plain(c, k, data)
  BY <1>3 DEF Ring, Plain, Native
<1> QED BY <1>4, <1>5

\* What is passed on is transparent, and its event is in order.
LEMMA PlainGood ==
  ASSUME NEW c, c.n \in Nat, c.fn \in Fns \ {"getcwd"}, NEW k, Shape(k),
         NEW data \in Bytes
  PROVE  LET s == Plain(c, k, data).sees
             ev == Plain(c, k, data).ev IN
         /\ k \in Answers /\ s \in Results /\ EventOK(ev)
         /\ Transparent(c, k, s)
         /\ ev.retval = k.ret
<1>1. PICK s : s = Native(c, k)
  OBVIOUS
<1>2. PICK ev : ev = rr_log_syscall(c.fn, k.ret, data)
  OBVIOUS
<1>3. Plain(c, k, data).sees = s /\ Plain(c, k, data).ev = ev
  BY <1>1, <1>2 DEF Plain
<1>4. k \in Answers /\ k.ret \in Int /\ (~k.ok => k.ret = -1)
  BY DEF Shape, Answers
<1>5. /\ s \in Results /\ s.buf = Copied(Untouched(c.n), k.data, c.n)
      /\ s.ret = IF k.ret < 0 THEN -1 ELSE k.ret
      /\ s.errno = IF k.ret < 0 THEN -k.ret ELSE 0
  BY <1>1, NativeIs
<1>6. ev \in Events /\ ev.retval = k.ret /\ Len(ev.data) <= DataCap
  BY <1>2, <1>4, LogIs
<1>7. k.ret \in -(2^(IntBits - 1))..(2^(IntBits - 1) - 1)
  <2>1. PICK p : p = 2^(IntBits - 1)
    OBVIOUS
  <2>2. p \in Nat /\ p > 2
    BY <2>1, IntRange, WrapperAssumption
  <2>3. k.ret \in -2..(p - 1)
    BY <2>1 DEF Shape
  <2>4. k.ret \in -p..(p - 1)
    BY <2>2, <2>3
  <2> QED BY <2>1, <2>4
<1>8. EventOK(ev)
  BY <1>6, <1>7 DEF EventOK
<1>9. Transparent(c, k, s)
  <2>1. CASE ~k.ok
    <3>1. s.ret = -1 /\ s.errno = 1
      BY <1>4, <1>5, <2>1
    <3> QED BY <2>1, <3>1 DEF Transparent, EPERM
  <2>2. CASE k.ok
    <3>1. (k.ret < 0 => s.ret = -1) /\ (k.ret >= 0 => s.ret = k.ret)
      BY <1>4, <1>5
    <3> QED BY <1>5, <2>2, <3>1 DEF Transparent
  <2> QED BY <2>1, <2>2
<1> QED BY <1>3, <1>4, <1>5, <1>6, <1>8, <1>9

\* Copying the event's data fills a buffer as copying the answer's did, up to
\* DataCap bytes.
LEMMA CopiedFromEvent ==
  ASSUME NEW n \in Nat, NEW fn \in Fns, NEW retval \in Int,
         NEW data \in Bytes, NEW max \in Int,
         Len(data) <= max \/ n <= max
  PROVE  LET ev == rr_log_syscall(fn, retval, data) IN
         \A j \in 1..n :
            Copied(Untouched(n), ev.data, max)[j] =
                IF j <= DataCap THEN Copied(Untouched(n), data, n)[j] ELSE Old
<1>1. PICK d : d = rr_log_syscall(fn, retval, data).data
  OBVIOUS
<1>2. /\ d \in Bytes
      /\ Len(d) <= DataCap /\ Len(d) <= Len(data)
      /\ Len(d) = Len(data) \/ Len(d) = DataCap
      /\ \A j \in 1..Len(d) : d[j] = data[j]
  BY <1>1, LogIs DEF Events
<1>3. DataCap \in Nat /\ Len(data) \in Nat /\ Len(d) \in Nat
  BY <1>2, WrapperAssumption DEF Bytes
<1> SUFFICES ASSUME NEW j \in 1..n
             PROVE  Copied(Untouched(n), d, max)[j] =
                IF j <= DataCap THEN Copied(Untouched(n), data, n)[j] ELSE Old
  BY <1>1
<1>4. Copied(Untouched(n), d, max)[j] =
        IF j <= Len(d) /\ j <= max THEN d[j] ELSE Old
  BY <1>2, CopiedIs
<1>5. Copied(Untouched(n), data, n)[j] =
        IF j <= Len(data) /\ j <= n THEN data[j] ELSE Old
  <2>1. n \in Int
    OBVIOUS
  <2>2. \A i \in 1..n : Copied(Untouched(n), data, n)[i] =
          IF i <= Len(data) /\ i <= n THEN data[i] ELSE Old
    BY <2>1, CopiedIs, ZenonT(60)
  <2> QED BY <2>2
<1>6. CASE j <= Len(d)
  <2>1. j <= max /\ j <= DataCap /\ j <= Len(data) /\ j <= n /\ j \in 1..Len(d)
    BY <1>2, <1>3, <1>6
  <2> QED BY <1>2, <1>4, <1>5, <1>6, <2>1
<1>7. CASE ~(j <= Len(d))
  <2>1. ~(j <= DataCap) \/ ~(j <= Len(data))
    BY <1>2, <1>3, <1>7
  <2> QED BY <1>4, <1>5, <1>7, <2>1
<1> QED BY <1>6, <1>7

\* Which of the replaying functions a call has.
LEMMA RepIs ==
  ASSUME NEW c, NEW ev
  PROVE  /\ c.fn \in {"read", "recv"} => Rep(c, ev) = read_replayed(c, ev)
         /\ c.fn \in TimeFns \cup StructFns => Rep(c, ev) = WithData(c, ev)
         /\ c.fn = "getuid" => Rep(c, ev) = getuid_replayed(c, ev)
         /\ c.fn = "getcwd" => Rep(c, ev) = getcwd_replayed(c, ev)
         /\ c.fn \in StatusFns \cup {"write", "getpid", "nanosleep"} =>
                Rep(c, ev) = value_replayed(c, ev)
<1>1. c.fn \in {"read", "recv"} => Rep(c, ev) = read_replayed(c, ev)
  BY DEF Rep, TimeFns, StructFns
<1>2. c.fn \in TimeFns \cup StructFns => Rep(c, ev) = WithData(c, ev)
  BY DEF Rep, TimeFns, StructFns
<1>3. c.fn = "getuid" => Rep(c, ev) = getuid_replayed(c, ev)
  BY DEF Rep, TimeFns, StructFns
<1>4. c.fn = "getcwd" => Rep(c, ev) = getcwd_replayed(c, ev)
  BY DEF Rep, TimeFns, StructFns
<1>5. c.fn \in StatusFns \cup {"write", "getpid", "nanosleep"} =>
        Rep(c, ev) = value_replayed(c, ev)
  BY DEF Rep, StatusFns, TimeFns, StructFns
<1> QED BY <1>1, <1>2, <1>3, <1>4, <1>5

\* A result with the value and the errno that raw_to_int makes of the
\* kernel's value returns the same.
LEMMA RawSame ==
  ASSUME NEW c, NEW k, Shape(k), c.n \in Nat, NEW buf \in Bytes
  PROVE  Same(c, Native(c, k), raw_to_int(k.ret, buf))
<1>1. k.ret \in Int
  BY DEF Shape, Answers
<1>2. /\ Native(c, k).ret = raw_to_int(k.ret, buf).ret
      /\ Native(c, k).errno = raw_to_int(k.ret, buf).errno
  BY <1>1, NativeIs, RawIs
<1> QED BY <1>2 DEF Same

\* read, recv, the clocks and the calls that fill a structure.
LEMMA DataGood ==
  ASSUME NEW c, c.n \in Nat,
         c.fn \in {"read", "recv"} \cup TimeFns \cup StructFns,
         NEW k, Shape(k),
         c.fn \in {"read", "recv"} /\ k.ret >= 0 => Len(k.data) = k.ret
  PROVE  Good(c, k, Plain(c, k, k.data).sees, Plain(c, k, k.data).ev)
<1>1. PICK s : s = Native(c, k)
  OBVIOUS
<1>2. PICK ev : ev = rr_log_syscall(c.fn, k.ret, k.data)
  OBVIOUS
<1>3. Plain(c, k, k.data).sees = s /\ Plain(c, k, k.data).ev = ev
  BY <1>1, <1>2 DEF Plain
<1>4. k.ret \in Int /\ k.data \in Bytes /\ (k.ret < 0 => k.data = <<>>)
  BY DEF Shape, Answers
<1>5. /\ c.fn \in Fns \ {"getcwd"}
      /\ c.fn \notin {"accept", "nanosleep"}
  BY DEF Fns, TimeFns, StructFns
<1>6. /\ k \in Answers /\ s \in Results /\ EventOK(ev)
      /\ Transparent(c, k, s) /\ ev.retval = k.ret
  BY <1>3, <1>4, <1>5, PlainGood
<1>7. s.buf = Copied(Untouched(c.n), k.data, c.n)
  BY <1>1, NativeIs
<1>8. ev.data \in Bytes /\ c.n \in Int
  BY <1>6 DEF EventOK, Events
<1>9. LoggedBytes(c) = DataCap
  BY <1>5 DEF LoggedBytes
<1>10. \E buf \in Bytes :
         /\ Rep(c, ev) = raw_to_int(k.ret, buf) /\ Len(buf) = c.n
         /\ \A j \in 1..c.n : buf[j] = IF j <= DataCap THEN s.buf[j] ELSE Old
  <2>1. CASE c.fn \in {"read", "recv"}
    <3>1. Rep(c, ev) =
            raw_to_int(k.ret, Copied(Untouched(c.n), ev.data, k.ret))
      BY <1>6, <2>1, RepIs DEF read_replayed
    <3>2. /\ Copied(Untouched(c.n), ev.data, k.ret) \in Bytes
          /\ Len(Copied(Untouched(c.n), ev.data, k.ret)) = c.n
      BY <1>4, <1>8, CopiedIs, Zenon
    <3>3. CASE k.ret >= 0
      <4>1. Len(k.data) <= k.ret
        BY <1>4, <2>1, <3>3
      <4>2. \A j \in 1..c.n : Copied(Untouched(c.n), ev.data, k.ret)[j] =
              IF j <= DataCap THEN s.buf[j] ELSE Old
        BY <1>2, <1>4, <1>5, <1>7, <4>1, CopiedFromEvent
      <4> QED BY <3>1, <3>2, <4>2
    <3>4. CASE ~(k.ret >= 0)
      <4>1. k.data = <<>> /\ k.ret < 0
        BY <1>4, <3>4
      <4>2. \A j \in 1..c.n : s.buf[j] = Old
        BY <1>7, <1>8, <4>1, UntouchedIs
      <4>3. \A j \in 1..c.n : ~(j <= k.ret)
        BY <1>4, <4>1
      <4>4. \A j \in 1..c.n :
              Copied(Untouched(c.n), ev.data, k.ret)[j] = Old
        BY <1>4, <1>8, <4>3, CopiedIs, Zenon
      <4> QED BY <3>1, <3>2, <4>2, <4>4
    <3> QED BY <3>3, <3>4
  <2>2. CASE c.fn \in TimeFns \cup StructFns
    <3>1. Rep(c, ev) = raw_to_int(k.ret,
            IF k.ret < 0 THEN Untouched(c.n)
                         ELSE Copied(Untouched(c.n), ev.data, c.n))
      BY <1>6, <2>2, RepIs DEF WithData
    <3>2. CASE k.ret < 0
      <4>1. s.buf = Untouched(c.n)
        BY <1>4, <1>7, <1>8, <3>2, UntouchedIs
      <4>2. /\ Untouched(c.n) \in Bytes /\ Len(Untouched(c.n)) = c.n
            /\ \A j \in 1..c.n : Untouched(c.n)[j] = Old
        BY UntouchedIs
      <4> QED BY <3>1, <3>2, <4>1, <4>2
    <3>3. CASE ~(k.ret < 0)
      <4>1. /\ Copied(Untouched(c.n), ev.data, c.n) \in Bytes
            /\ Len(Copied(Untouched(c.n), ev.data, c.n)) = c.n
        BY <1>8, CopiedIs
      <4>2. c.n <= c.n
        BY <1>8
      <4>3. \A j \in 1..c.n : Copied(Untouched(c.n), ev.data, c.n)[j] =
              IF j <= DataCap THEN s.buf[j] ELSE Old
        BY <1>2, <1>4, <1>5, <1>7, <1>8, <4>2, CopiedFromEvent
      <4> QED BY <3>1, <3>3, <4>1, <4>3
    <3> QED BY <3>2, <3>3
  <2> QED BY <2>1, <2>2
<1>11. PICK buf \in Bytes :
         /\ Rep(c, ev) = raw_to_int(k.ret, buf) /\ Len(buf) = c.n
         /\ \A j \in 1..c.n : buf[j] = IF j <= DataCap THEN s.buf[j] ELSE Old
  BY <1>10
<1>12. Rep(c, ev) \in Results /\ Rep(c, ev).buf = buf
  BY <1>4, <1>11, RawIs
<1>13. Same(c, s, Rep(c, ev))
  BY <1>1, <1>11, RawSame
<1>14. Fills(c, s, Rep(c, ev))
  BY <1>9, <1>11, <1>12 DEF Fills
<1> QED BY <1>3, <1>6, <1>11, <1>12, <1>13, <1>14 DEF Good

\* write, send, accept, connect, openat and close: the value alone.  Only
\* accept has an answer with data, and its data is not logged.
LEMMA ValueGood ==
  ASSUME NEW c, c.n \in Nat, c.fn \in StatusFns \cup {"write"},
         NEW k, Shape(k),
         c.fn # "accept" => c.n = 0 \/ k.data = <<>>
  PROVE  Good(c, k, Plain(c, k, <<>>).sees, Plain(c, k, <<>>).ev)
<1>1. PICK s : s = Native(c, k)
  OBVIOUS
<1>2. PICK ev : ev = rr_log_syscall(c.fn, k.ret, <<>>)
  OBVIOUS
<1>3. Plain(c, k, <<>>).sees = s /\ Plain(c, k, <<>>).ev = ev
  BY <1>1, <1>2 DEF Plain
<1>4. k.ret \in Int /\ k.data \in Bytes /\ c.n \in Int
  BY DEF Shape, Answers
<1>5. c.fn \in Fns \ {"getcwd"} /\ <<>> \in Bytes
  BY DEF Fns, StatusFns, Bytes
<1>6. /\ k \in Answers /\ s \in Results /\ EventOK(ev)
      /\ Transparent(c, k, s) /\ ev.retval = k.ret
  BY <1>3, <1>5, PlainGood
<1>7. Rep(c, ev) = raw_to_int(k.ret, Untouched(c.n))
  BY <1>6, RepIs DEF value_replayed
<1>8. /\ Untouched(c.n) \in Bytes /\ Len(Untouched(c.n)) = c.n
      /\ \A j \in 1..c.n : Untouched(c.n)[j] = Old
      /\ Copied(Untouched(c.n), <<>>, c.n) = Untouched(c.n)
  BY <1>4, UntouchedIs
<1>9. Rep(c, ev) \in Results /\ Rep(c, ev).buf = Untouched(c.n)
  BY <1>4, <1>7, <1>8, RawIs
<1>10. Same(c, s, Rep(c, ev))
  BY <1>1, <1>7, <1>8, RawSame
<1>11. Fills(c, s, Rep(c, ev))
  <2>1. s.buf = Copied(Untouched(c.n), k.data, c.n)
    BY <1>1, NativeIs
  <2>2. CASE c.fn = "accept"
    <3>1. \A j \in 1..c.n : ~(j <= LoggedBytes(c))
      BY <2>2 DEF LoggedBytes
    <3> QED BY <1>8, <1>9, <3>1 DEF Fills
  <2>3. CASE c.n = 0
    <3>1. 1..c.n = {}
      BY <2>3
    <3> QED BY <3>1 DEF Fills
  <2>4. CASE k.data = <<>>
    <3>1. \A j \in 1..c.n : s.buf[j] = Old
      BY <1>8, <2>1, <2>4
    <3> QED BY <1>8, <1>9, <3>1 DEF Fills
  <2> QED BY <2>2, <2>3, <2>4
<1> QED BY <1>3, <1>6, <1>8, <1>9, <1>10, <1>11 DEF Good

\* nanosleep: rem is zeroed when the sleep ends and is not reproduced.
LEMMA SleepGood ==
  ASSUME NEW c \in Sleeps, NEW k, Shape(k), k.ret <= 0
  PROVE  Good(c, k, nanosleep(c, k).sees, nanosleep(c, k).ev)
<1>1. c.n \in Nat /\ c.fn = "nanosleep"
  BY DEF Sleeps
<1>2. k \in Answers /\ k.ret \in Int /\ (~k.ok => k.ret = -1)
  BY DEF Shape, Answers
<1>3. PICK b : b = IF k.ret < 0 THEN Untouched(c.n) ELSE [i \in 1..c.n |-> 0]
  BY Zenon
<1>4. PICK s : s = raw_to_int(k.ret, b)
  OBVIOUS
<1>5. PICK ev : ev = rr_log_syscall(c.fn, k.ret, <<>>)
  OBVIOUS
<1>6. nanosleep(c, k).sees = s /\ nanosleep(c, k).ev = ev
  <2>1. (IF k.ok THEN k.ret ELSE -1) = k.ret
    BY <1>2
  <2> QED BY <1>3, <1>4, <1>5, <2>1 DEF nanosleep
<1>7. b \in Bytes
  <2>1. Untouched(c.n) \in Bytes
    BY <1>1, UntouchedIs
  <2>2. [i \in 1..c.n |-> 0] \in Bytes
    BY <1>1 DEF Bytes
  <2> QED BY <1>3, <2>1, <2>2
<1>8. /\ s \in Results
      /\ s.ret = IF k.ret < 0 THEN -1 ELSE k.ret
      /\ s.errno = IF k.ret < 0 THEN -k.ret ELSE 0
  BY <1>2, <1>4, <1>7, RawIs
<1>9. EventOK(ev) /\ ev.retval = k.ret
  <2>1. c.fn \in Fns \ {"getcwd"} /\ <<>> \in Bytes
    BY <1>1 DEF Fns, Bytes
  <2>2. Plain(c, k, <<>>).ev = ev
    BY <1>5 DEF Plain
  <2> QED BY <1>1, <2>1, <2>2, PlainGood
<1>10. Transparent(c, k, s)
  <2>1. CASE ~k.ok
    <3>1. s.ret = -1 /\ s.errno = 1
      BY <1>2, <1>8, <2>1
    <3> QED BY <2>1, <3>1 DEF Transparent, EPERM
  <2>2. CASE k.ok
    <3>1. (k.ret < 0 => s.ret = -1) /\ (k.ret >= 0 => s.ret = k.ret)
      BY <1>2, <1>8
    <3> QED BY <1>1, <1>8, <2>2, <3>1 DEF Transparent
  <2> QED BY <2>1, <2>2
<1>11. Rep(c, ev) = raw_to_int(k.ret, Untouched(c.n))
  BY <1>1, <1>9, RepIs DEF value_replayed
<1>12. /\ Untouched(c.n) \in Bytes /\ Len(Untouched(c.n)) = c.n
       /\ \A j \in 1..c.n : Untouched(c.n)[j] = Old
  BY <1>1, UntouchedIs
<1>13. /\ Rep(c, ev) \in Results /\ Rep(c, ev).buf = Untouched(c.n)
       /\ Rep(c, ev).ret = s.ret /\ Rep(c, ev).errno = s.errno
  BY <1>2, <1>8, <1>11, <1>12, RawIs
<1>14. \A j \in 1..c.n : ~(j <= LoggedBytes(c))
  BY <1>1 DEF LoggedBytes
<1>15. Same(c, s, Rep(c, ev)) /\ Fills(c, s, Rep(c, ev))
  BY <1>12, <1>13, <1>14 DEF Same, Fills
<1> QED BY <1>2, <1>6, <1>8, <1>9, <1>10, <1>12, <1>13, <1>15 DEF Good

\* A cast to int32_t yields an int, the number itself if it is one.
LEMMA ToIntIs ==
  ASSUME NEW u \in 0..(2^IntBits - 1)
  PROVE  /\ ToInt(u) \in -(2^(IntBits - 1))..(2^(IntBits - 1) - 1)
         /\ u < 2^(IntBits - 1) => ToInt(u) = u
         /\ u >= 2^(IntBits - 1) => ToInt(u) < 0
<1>1. PICK p : p = 2^(IntBits - 1)
  OBVIOUS
<1>2. PICK q : q = 2^IntBits
  OBVIOUS
<1>3. p \in Nat /\ q \in Nat /\ q = 2 * p
  BY <1>1, <1>2, IntRange
<1>4. ToInt(u) = IF u >= p THEN u - q ELSE u
  BY <1>1, <1>2 DEF ToInt
<1>5. u \in 0..(q - 1)
  BY <1>2
<1>6. /\ ToInt(u) \in -p..(p - 1)
      /\ u < p => ToInt(u) = u
      /\ u >= p => ToInt(u) < 0
  BY <1>3, <1>4, <1>5
<1> QED BY <1>1, <1>6

\* A cast to an unsigned type yields a number, the int itself if it is not
\* negative.
LEMMA ToUnsignedIs ==
  ASSUME NEW i \in Int
  PROVE  /\ ToUnsigned(i) \in Int
         /\ 0 <= i /\ i < 2^(IntBits - 1) => ToUnsigned(i) = i
<1>1. PICK p : p = 2^(IntBits - 1)
  OBVIOUS
<1>2. PICK q : q = 2^IntBits
  OBVIOUS
<1>3. p \in Nat /\ q \in Nat /\ q = 2 * p /\ p > 0
  BY <1>1, <1>2, IntRange, WrapperAssumption
<1>4. ToUnsigned(i) = i % q
  BY <1>2 DEF ToUnsigned
<1>5. i % q \in Int
  BY <1>3
<1>6. 0 <= i /\ i < p => i % q = i
  BY <1>3
<1> QED BY <1>1, <1>4, <1>5, <1>6

\* getpid and getuid: the value goes through an int32_t.
LEMMA IdGood ==
  ASSUME NEW c, c.n = 0, c.fn \in {"getpid", "getuid"},
         NEW u \in 0..(2^IntBits - 1),
         c.fn = "getpid" => u < 2^(IntBits - 1)
  PROVE  LET k == Answer(u, <<>>) IN
         Good(c, k, id_call(c, k).sees, id_call(c, k).ev)
<1>1. PICK k : k = Answer(u, <<>>)
  OBVIOUS
<1>2. PICK s : s = Result(u, 0, <<>>)
  OBVIOUS
<1>3. PICK i : i = ToInt(u)
  OBVIOUS
<1>4. PICK ev : ev = rr_log_syscall(c.fn, i, <<>>)
  OBVIOUS
<1>5. u \in Int /\ u >= 0 /\ <<>> \in Bytes
  BY IntRange DEF Bytes
<1>6. k \in Answers /\ k.ret = u /\ k.ok /\ k.data = <<>>
  <2>1. k = [ret |-> u, data |-> <<>>, ok |-> TRUE]
    BY <1>1 DEF Answer
  <2> QED BY <1>5, <2>1 DEF Answers
<1>7. s \in Results /\ s.ret = u /\ s.errno = 0 /\ s.buf = <<>>
  BY <1>2, <1>5 DEF Result, Results
<1>8. id_call(c, k).sees = s /\ id_call(c, k).ev = ev
  BY <1>2, <1>3, <1>4, <1>6 DEF id_call
<1>9. /\ i \in -(2^(IntBits - 1))..(2^(IntBits - 1) - 1)
      /\ u < 2^(IntBits - 1) => i = u
      /\ u >= 2^(IntBits - 1) => i < 0
  BY <1>3, ToIntIs
<1>10. i \in Int
  BY <1>9, IntRange
<1>11. EventOK(ev) /\ ev.retval = i
  <2>1. c.fn \in Fns
    BY DEF Fns
  <2>2. ev \in Events /\ ev.retval = i /\ Len(ev.data) <= DataCap
    BY <1>4, <1>5, <1>10, <2>1, LogIs
  <2> QED BY <1>9, <2>2 DEF EventOK
<1>12. Untouched(c.n) = <<>>
  BY DEF Untouched
<1>13. Transparent(c, k, s)
  <2>1. Copied(Untouched(c.n), <<>>, c.n) = <<>>
    BY <1>12, UntouchedIs
  <2>2. ~(k.ret < 0)
    BY <1>5, <1>6
  <2> QED BY <1>6, <1>7, <2>1, <2>2 DEF Transparent
<1>14. PICK r : r = raw_to_int(i, <<>>)
  OBVIOUS
<1>15. /\ r \in Results /\ r.buf = <<>>
       /\ r.ret = IF i < 0 THEN -1 ELSE i
       /\ r.errno = IF i < 0 THEN -i ELSE 0
  BY <1>5, <1>10, <1>14, RawIs
<1>16. u < 2^(IntBits - 1) => r.ret = u /\ r.errno = 0
  BY <1>5, <1>9, <1>15
<1>17. 1..c.n = {} /\ Len(<<>>) = c.n
  OBVIOUS
<1>18. /\ Rep(c, ev) \in Results /\ Rep(c, ev).buf = <<>>
       /\ Same(c, s, Rep(c, ev))
  <2>1. CASE c.fn = "getpid"
    <3>1. Rep(c, ev) = r
      BY <1>11, <1>12, <1>14, <2>1, RepIs DEF value_replayed
    <3> QED BY <1>7, <1>15, <1>16, <2>1, <3>1 DEF Same
  <2>2. CASE c.fn = "getuid"
    <3>1. Rep(c, ev) = Result(ToUnsigned(r.ret), r.errno, <<>>)
      BY <1>11, <1>14, <2>2, RepIs DEF getuid_replayed
    <3>2. r.ret \in Int /\ r.errno \in Int
      BY <1>15 DEF Results
    <3>3. ToUnsigned(r.ret) \in Int
      BY <3>2, ToUnsignedIs
    <3>4. /\ Rep(c, ev) \in Results /\ Rep(c, ev).buf = <<>>
          /\ Rep(c, ev).ret = ToUnsigned(r.ret)
          /\ Rep(c, ev).errno = r.errno
      BY <1>5, <3>1, <3>2, <3>3 DEF Result, Results
    <3>5. CASE u < 2^(IntBits - 1)
      <4>1. ToUnsigned(r.ret) = u
        BY <1>5, <1>16, <3>5, ToUnsignedIs
      <4> QED BY <1>7, <1>16, <3>4, <3>5, <4>1 DEF Same
    <3>6. CASE ~(u < 2^(IntBits - 1))
      <4>1. u >= 2^(IntBits - 1)
        BY <1>5, <3>6, IntRange
      <4> QED BY <1>7, <2>2, <3>4, <4>1 DEF Same
    <3> QED BY <3>5, <3>6
  <2> QED BY <2>1, <2>2
<1>19. Fills(c, s, Rep(c, ev))
  BY <1>17 DEF Fills
<1>20. Good(c, k, s, ev)
  BY <1>6, <1>7, <1>11, <1>13, <1>17, <1>18, <1>19 DEF Good
<1> QED BY <1>1, <1>8, <1>20

\* The string in a buffer ends before its first NUL.
LEMMA StringIs ==
  ASSUME NEW buf \in Bytes, NEW p \in Nat, p < Len(buf),
         buf[p + 1] = NUL, \A j \in 1..p : buf[j] # NUL
  PROVE  StringOf(buf) = SubSeq(buf, 1, p)
<1>1. PICK ends : ends = {i \in DOMAIN buf : buf[i] = NUL}
  BY Zenon
<1>2. DOMAIN buf = 1..Len(buf) /\ Len(buf) \in Nat
  BY DEF Bytes
<1>3. p + 1 \in ends
  BY <1>1, <1>2
<1>4. \A i \in ends : i \in Nat /\ p + 1 <= i
  BY <1>1, <1>2
<1>5. Min(ends) = p + 1
  <2>1. \A x \in ends : (\A y \in ends : x <= y) => x = p + 1
    BY <1>3, <1>4
  <2> QED BY <1>3, <1>4, <2>1 DEF Min
<1>6. ends # {} /\ (p + 1) - 1 = p
  BY <1>3
<1>7. StringOf(buf) = SubSeq(buf, 1, Min(ends) - 1)
  BY <1>1, <1>6, Zenon DEF StringOf
<1> QED BY <1>5, <1>6, <1>7

\* Two buffers that agree on a prefix have the same prefix.
LEMMA SamePrefix ==
  ASSUME NEW a \in Bytes, NEW b \in Bytes, NEW p \in Nat,
         p <= Len(a), p <= Len(b), \A j \in 1..p : a[j] = b[j]
  PROVE  SubSeq(a, 1, p) = SubSeq(b, 1, p)
  BY DEF Bytes

\* A prefix of a prefix.
LEMMA PrefixOfPrefix ==
  ASSUME NEW a \in Bytes, NEW p \in Nat, NEW q \in Nat, p <= q, q <= Len(a)
  PROVE  SubSeq(SubSeq(a, 1, q), 1, p) = SubSeq(a, 1, p)
  BY DEF Bytes

\* A path that fits the buffer is there with its NUL.
LEMMA PathCopied ==
  ASSUME NEW n \in Nat, NEW d \in Bytes, Len(d) < n
  PROVE  LET w == Copied(Untouched(n), Append(d, NUL), n) IN
         /\ w \in Bytes /\ Len(w) = n /\ w[Len(d) + 1] = NUL
         /\ \A j \in 1..Len(d) : w[j] = d[j]
<1>1. PICK z : z = Append(d, NUL)
  BY Zenon
<1>2. z \in Bytes
  BY <1>1 DEF Bytes, NUL
<1>3. /\ Len(d) \in Nat /\ Len(z) = Len(d) + 1 /\ z[Len(d) + 1] = NUL
      /\ \A j \in 1..Len(d) : z[j] = d[j]
  BY <1>1 DEF Bytes
<1>4. n \in Int
  OBVIOUS
<1>5. /\ Copied(Untouched(n), z, n) \in Bytes
      /\ Len(Copied(Untouched(n), z, n)) = n
      /\ \A j \in 1..n : Copied(Untouched(n), z, n)[j] =
            IF j <= Len(z) /\ j <= n THEN z[j] ELSE Old
  BY <1>2, <1>4, CopiedIs, Zenon
<1>6. \A j \in 1..(Len(d) + 1) : j \in 1..n /\ j <= Len(z) /\ j <= n
  BY <1>3
<1>7. \A j \in 1..(Len(d) + 1) : Copied(Untouched(n), z, n)[j] = z[j]
  BY <1>5, <1>6
<1>8. /\ Len(d) + 1 \in 1..(Len(d) + 1)
      /\ \A j \in 1..Len(d) : j \in 1..(Len(d) + 1)
  BY <1>3
<1>9. /\ Copied(Untouched(n), z, n)[Len(d) + 1] = NUL
      /\ \A j \in 1..Len(d) : Copied(Untouched(n), z, n)[j] = d[j]
  BY <1>3, <1>7, <1>8
<1> QED BY <1>1, <1>5, <1>9

\* A path that fits the buffer: what the event has of it, and what a replay
\* makes of that, a string cut off after DataCap bytes.
LEMMA PathReplayed ==
  ASSUME NEW n \in Nat, NEW d \in Bytes, Len(d) < n,
         \A j \in 1..Len(d) : d[j] # NUL,
         NEW e \in Bytes, Len(e) <= DataCap, Len(e) <= Len(d),
         Len(e) = Len(d) \/ Len(e) = DataCap,
         \A j \in 1..Len(e) : e[j] = d[j]
  PROVE  LET b == [Copied(Untouched(n), e, Len(e)) EXCEPT ![Len(e) + 1] = NUL]
             s == StringOf(Copied(Untouched(n), Append(d, NUL), n)) IN
         /\ b \in Bytes /\ Len(b) = n
         /\ StringOf(b) = SubSeq(s, 1, Min({DataCap, Len(s)}))
<1>1. PICK l : l = Len(e)
  OBVIOUS
<1>2. PICK D : D = Len(d)
  OBVIOUS
<1>3. l \in Nat /\ D \in Nat /\ l <= D /\ D < n /\ DataCap \in Nat
      /\ l <= DataCap /\ (l = D \/ l = DataCap)
  BY <1>1, <1>2, WrapperAssumption DEF Bytes
<1>4. PICK a : a = Copied(Untouched(n), e, l)
  OBVIOUS
<1>5. a \in Bytes /\ Len(a) = n /\ \A j \in 1..l : a[j] = e[j]
  <2>1. l \in Int
    BY <1>3
  <2>2. /\ Copied(Untouched(n), e, l) \in Bytes
        /\ Len(Copied(Untouched(n), e, l)) = n
        /\ \A j \in 1..n : Copied(Untouched(n), e, l)[j] =
              IF j <= Len(e) /\ j <= l THEN e[j] ELSE Old
    BY <2>1, CopiedIs, ZenonT(60)
  <2>3. \A j \in 1..l : j \in 1..n /\ j <= l
    BY <1>3
  <2> QED BY <1>1, <1>4, <2>2, <2>3
<1>6. PICK b : b = [a EXCEPT ![l + 1] = NUL]
  BY Zenon
<1>7. /\ b \in Bytes /\ Len(b) = n /\ b[l + 1] = NUL
      /\ \A j \in 1..l : b[j] = d[j]
  <2>1. l + 1 \in 1..n /\ NUL \in Nat
    BY <1>3 DEF NUL
  <2>2. b \in Seq(Nat) /\ Len(b) = n /\ b[l + 1] = NUL
    BY <1>5, <1>6, <2>1 DEF Bytes
  <2>3. \A j \in 1..l : j # l + 1 /\ j \in 1..n
    BY <1>3
  <2>4. \A j \in 1..l : b[j] = a[j]
    BY <1>5, <1>6, <2>3 DEF Bytes
  <2> QED BY <1>1, <1>5, <2>2, <2>4 DEF Bytes
<1>8. StringOf(b) = SubSeq(b, 1, l)
  <2>1. \A j \in 1..l : b[j] # NUL
    BY <1>2, <1>3, <1>7
  <2>2. l < Len(b)
    BY <1>3, <1>7
  <2> QED BY <1>3, <1>7, <2>1, <2>2, StringIs, Zenon
<1>9. PICK w : w = Copied(Untouched(n), Append(d, NUL), n)
  OBVIOUS
<1>10. /\ w \in Bytes /\ Len(w) = n /\ w[D + 1] = NUL
       /\ \A j \in 1..D : w[j] = d[j]
  BY <1>2, <1>9, PathCopied
<1>11. StringOf(w) = SubSeq(w, 1, D)
  <2>1. \A j \in 1..D : w[j] # NUL
    BY <1>2, <1>10
  <2>2. D < Len(w)
    BY <1>3, <1>10
  <2> QED BY <1>3, <1>10, <2>1, <2>2, StringIs, Zenon
<1>12. Len(StringOf(w)) = D
  BY <1>3, <1>10, <1>11 DEF Bytes
<1>13. Min({DataCap, D}) = l
  <2>1. Min({DataCap, D}) = IF DataCap <= D THEN DataCap ELSE D
    BY <1>3, MinPair
  <2> QED BY <1>3, <2>1
<1>14. SubSeq(StringOf(w), 1, l) = SubSeq(w, 1, l)
  BY <1>3, <1>10, <1>11, PrefixOfPrefix
<1>15. SubSeq(b, 1, l) = SubSeq(w, 1, l)
  <2>1. l <= Len(b) /\ l <= Len(w) /\ \A j \in 1..l : j \in 1..D
    BY <1>3, <1>7, <1>10
  <2>2. \A j \in 1..l : b[j] = w[j]
    BY <1>7, <1>10, <2>1
  <2> QED BY <1>3, <1>7, <1>10, <2>1, <2>2, SamePrefix
<1>16. StringOf(b) = SubSeq(StringOf(w), 1, Min({DataCap, Len(StringOf(w))}))
  BY <1>8, <1>12, <1>13, <1>14, <1>15, Zenon
<1> QED BY <1>1, <1>4, <1>6, <1>7, <1>9, <1>16, Zenon

\* The errno of a failing call.
LEMMA MinusTwo ==
  \A v : v = -2 => v < 0 /\ -v = 2 /\ ~(v >= 0)
<1>1. \A v \in Int : v + 2 = 0 => v < 0 /\ -v = 2 /\ ~(v >= 0)
  OBVIOUS
<1>2. \A v : v = -2 => v \in Int /\ v + 2 = 0
  OBVIOUS
<1> QED BY <1>1, <1>2, Zenon

\* getcwd.  Without a buffer the replay returns NULL, and no string.
LEMMA CwdGood ==
  ASSUME NEW c, c.n \in Nat, c.fn = "getcwd",
         NEW k, k = Fails \/ \E d \in Cwds :
                    /\ k = Answer(0, Append(d, NUL))
                    /\ c.n = 0 \/ Len(d) < c.n
  PROVE  Good(c, k, getcwd(c, k).sees, getcwd(c, k).ev)
<1>1. c.fn \in Fns /\ c.n \in Int /\ <<>> \in Bytes
  BY DEF Fns, Bytes
<1>2. PICK p : p = 2^(IntBits - 1)
  OBVIOUS
<1>3. p \in Nat /\ p > 2
  BY <1>2, IntRange, WrapperAssumption
<1>4. -2 \in -p..(p - 1) /\ 0 \in -p..(p - 1)
  BY <1>3
<1>5. /\ Untouched(c.n) \in Bytes /\ Len(Untouched(c.n)) = c.n
      /\ \A j \in 1..c.n : Untouched(c.n)[j] = Old
  BY UntouchedIs
<1>6. CASE k = Fails
  <2>1. /\ k = [ret |-> -2, data |-> <<>>, ok |-> TRUE]
    BY <1>6 DEF Fails, Answer, EIO
  <2>2. k \in Answers /\ k.ret = -2 /\ k.ok
    BY <1>1, <2>1 DEF Answers
  <2>3. PICK s : s = Result(0, 2, Untouched(c.n))
    OBVIOUS
  <2>4. PICK ev : ev = rr_log_syscall(c.fn, k.ret, <<>>)
    OBVIOUS
  <2>5. getcwd(c, k).sees = s /\ getcwd(c, k).ev = ev
    <3>1. k.ret < 0 /\ -k.ret = 2
      BY <2>2, MinusTwo, Zenon
    <3> QED BY <2>3, <2>4, <3>1 DEF getcwd
  <2>6. s \in Results /\ s.ret = 0 /\ s.errno = 2 /\ s.buf = Untouched(c.n)
    BY <1>5, <2>3 DEF Result, Results
  <2>7. ev \in Events /\ ev.retval = -2 /\ Len(ev.data) <= DataCap
    <3>1. k.ret \in Int
      BY <2>2
    <3>2. ev \in Events /\ ev.retval = k.ret /\ Len(ev.data) <= DataCap
      BY <1>1, <2>4, <3>1, LogIs
    <3> QED BY <2>2, <3>2
  <2>8. EventOK(ev)
    BY <1>2, <1>4, <2>7 DEF EventOK
  <2>9. Transparent(c, k, s)
    <3>1. k.ret < 0 /\ -k.ret = 2 /\ ~(k.ret >= 0)
      BY <2>2, MinusTwo, Zenon
    <3> QED BY <2>2, <2>6, <3>1 DEF Transparent
  <2>10. Rep(c, ev) = s
    <3>1. Rep(c, ev) = getcwd_replayed(c, ev)
      BY RepIs
    <3>2. ev.retval < 0 /\ -ev.retval = 2
      BY <2>7, MinusTwo, Zenon
    <3> QED BY <2>3, <3>1, <3>2 DEF getcwd_replayed
  <2>11. Same(c, s, s)
    BY DEF Same
  <2>12. Fills(c, s, s)
    BY <1>5, <2>6 DEF Fills
  <2> QED BY <1>5, <2>2, <2>5, <2>6, <2>8, <2>9, <2>10, <2>11, <2>12 DEF Good
<1>7. CASE k # Fails
  <2>1. PICK d \in Cwds : /\ k = Answer(0, Append(d, NUL))
                          /\ c.n = 0 \/ Len(d) < c.n
    BY <1>7
  <2>2. d \in Bytes /\ \A j \in 1..Len(d) : d[j] # NUL
    <3>1. CASE d = <<1>>
      BY <3>1 DEF Bytes, NUL
    <3>2. CASE d = <<1, 2, 3>>
      BY <3>2 DEF Bytes, NUL
    <3> QED BY <3>1, <3>2 DEF Cwds
  <2>3. PICK z : z = Append(d, NUL)
    BY Zenon
  <2>4. /\ z \in Bytes /\ Len(z) = Len(d) + 1 /\ Len(d) \in Nat
        /\ \A j \in 1..Len(d) : z[j] = d[j]
    BY <2>2, <2>3 DEF Bytes, NUL
  <2>5. k \in Answers /\ k.ret = 0 /\ k.ok /\ k.data = z
    <3>1. k = [ret |-> 0, data |-> z, ok |-> TRUE]
      BY <2>1, <2>3 DEF Answer
    <3> QED BY <2>4, <3>1 DEF Answers
  <2>6. PICK w : w = Copied(Untouched(c.n), z, c.n)
    OBVIOUS
  <2>7. w \in Bytes
    BY <1>1, <2>4, <2>6, CopiedIs, Zenon
  <2>8. PICK s : s = Result(1, 0, w)
    OBVIOUS
  <2>9. s \in Results /\ s.ret = 1 /\ s.errno = 0 /\ s.buf = w
    BY <2>7, <2>8 DEF Result, Results
  <2>10. PICK m : m = Min({Len(z) - 1, c.n})
    OBVIOUS
  <2>11. m \in Nat /\ m <= Len(d) /\ (c.n # 0 => m = Len(d))
    <3>1. Len(z) - 1 = Len(d) /\ Len(z) - 1 \in Int
      BY <2>4
    <3>2. m = IF Len(d) <= c.n THEN Len(d) ELSE c.n
      BY <1>1, <2>10, <3>1, MinPair
    <3> QED BY <1>1, <2>1, <2>4, <3>2
  <2>12. PICK x : x = SubSeq(z, 1, m)
    BY Zenon
  <2>13. x \in Bytes /\ Len(x) = m /\ \A j \in 1..m : x[j] = d[j]
    <3>1. m <= Len(z) /\ \A j \in 1..m : j \in 1..Len(d)
      BY <2>4, <2>11
    <3>2. x \in Seq(Nat) /\ Len(x) = m /\ \A j \in 1..m : x[j] = z[j]
      BY <2>4, <2>11, <2>12, <3>1 DEF Bytes
    <3> QED BY <2>4, <3>1, <3>2 DEF Bytes
  <2>14. PICK ev : ev = rr_log_syscall(c.fn, k.ret, x)
    OBVIOUS
  <2>15. getcwd(c, k).sees = s /\ getcwd(c, k).ev = ev
    BY <2>5, <2>6, <2>8, <2>10, <2>12, <2>14 DEF getcwd
  <2>16. /\ ev \in Events /\ ev.retval = k.ret
         /\ Len(ev.data) <= DataCap /\ Len(ev.data) <= Len(x)
         /\ Len(ev.data) = Len(x) \/ Len(ev.data) = DataCap
         /\ \A j \in 1..Len(ev.data) : ev.data[j] = x[j]
    <3>1. k.ret \in Int
      BY <2>5
    <3> QED BY <1>1, <2>13, <2>14, <3>1, LogIs
  <2>17. EventOK(ev)
    BY <1>2, <1>4, <2>5, <2>16 DEF EventOK
  <2>18. Transparent(c, k, s)
    BY <2>5, <2>6, <2>9 DEF Transparent
  <2>19. CASE c.n = 0
    <3>1. Rep(c, ev) = [ret |-> 0, errno |-> 0, buf |-> <<>>]
      <4>1. Rep(c, ev) = getcwd_replayed(c, ev)
        BY RepIs
      <4>2. ~(ev.retval < 0)
        BY <2>5, <2>16
      <4> QED BY <2>19, <4>1, <4>2 DEF getcwd_replayed, Result
    <3>2. Rep(c, ev) \in Results /\ Len(Rep(c, ev).buf) = c.n
      BY <1>1, <2>19, <3>1 DEF Results
    <3>3. Same(c, s, Rep(c, ev))
      BY <2>19 DEF Same
    <3>4. Fills(c, s, Rep(c, ev))
      BY <2>9, <2>19 DEF Fills
    <3> QED BY <2>5, <2>9, <2>15, <2>17, <2>18, <3>2, <3>3, <3>4 DEF Good
  <2>20. CASE c.n # 0
    <3>1. PICK e : e = ev.data
      OBVIOUS
    <3>2. /\ e \in Bytes /\ Len(e) <= DataCap /\ Len(e) <= Len(d)
          /\ Len(e) = Len(d) \/ Len(e) = DataCap
          /\ \A j \in 1..Len(e) : e[j] = d[j]
      <4>1. Len(x) = Len(d) /\ m = Len(d)
        BY <2>11, <2>13, <2>20
      <4>2. e \in Bytes /\ Len(e) \in Nat
        BY <2>16, <3>1 DEF Events, Bytes
      <4>3. /\ Len(e) <= DataCap /\ Len(e) <= Len(d)
            /\ Len(e) = Len(d) \/ Len(e) = DataCap
        BY <2>16, <3>1, <4>1
      <4>4. \A j \in 1..Len(e) : j \in 1..m
        BY <2>4, <4>1, <4>2, <4>3
      <4>5. \A j \in 1..Len(e) : e[j] = d[j]
        BY <2>13, <2>16, <3>1, <4>4
      <4> QED BY <4>2, <4>3, <4>5
    <3>3. Len(d) < c.n
      BY <2>1, <2>20
    <3>4. Min({Len(e), c.n - 1}) = Len(e)
      <4>1. Len(e) \in Int /\ c.n - 1 \in Int /\ Len(e) <= c.n - 1
        BY <2>4, <3>2, <3>3 DEF Bytes
      <4> QED BY <4>1, MinPair
    <3>5. PICK b : b = [Copied(Untouched(c.n), e, Len(e))
                            EXCEPT ![Len(e) + 1] = NUL]
      BY Zenon
    <3>6. /\ b \in Bytes /\ Len(b) = c.n
          /\ StringOf(b) = SubSeq(StringOf(w), 1,
                                  Min({DataCap, Len(StringOf(w))}))
      BY <2>2, <2>3, <2>6, <3>2, <3>3, <3>5, PathReplayed, Zenon
    <3>7. Rep(c, ev) = Result(1, 0, b)
      <4>1. Rep(c, ev) = getcwd_replayed(c, ev)
        BY RepIs
      <4>2. ~(ev.retval < 0)
        BY <2>5, <2>16
      <4> QED BY <2>20, <3>1, <3>4, <3>5, <4>1, <4>2, Zenon DEF getcwd_replayed
    <3>8. /\ Rep(c, ev) \in Results /\ Rep(c, ev).buf = b
          /\ Rep(c, ev).ret = 1 /\ Rep(c, ev).errno = 0
      BY <3>6, <3>7 DEF Result, Results
    <3>9. Same(c, s, Rep(c, ev))
      BY <2>9, <3>8 DEF Same
    <3>10. Fills(c, s, Rep(c, ev))
      BY <2>9, <3>6, <3>8, Zenon DEF Fills
    <3> QED BY <2>5, <2>9, <2>15, <2>17, <2>18, <3>6, <3>8, <3>9, <3>10
            DEF Good
  <2> QED BY <2>19, <2>20
<1> QED BY <1>6, <1>7

\* The answers to the other calls.
LEMMA KernelIs ==
  ASSUME NEW c \in Calls, NEW k \in Kernel(c)
  PROVE  /\ c.fn = "write" =>
              \/ k \in {Fails, NotSubmitted}
              \/ \E r \in 0..c.n : k = Answer(r, <<>>)
         /\ c.fn \in StatusFns =>
              \/ k \in {Fails, NotSubmitted}
              \/ \E r \in 0..1 : k = Answer(r, [i \in 1..c.n |-> i])
         /\ c.fn \in TimeFns \cup StructFns =>
              k = Fails \/ k = Answer(0, [i \in 1..c.n |-> i])
         /\ c.fn = "getpid" =>
              \E r \in 1..(2^(IntBits - 1) - 1) : k = Answer(r, <<>>)
         /\ c.fn = "getuid" =>
              \E r \in 0..(2^IntBits - 1) : k = Answer(r, <<>>)
         /\ c.fn = "getcwd" =>
              \/ k = Fails
              \/ \E d \in Cwds : /\ k = Answer(0, Append(d, NUL))
                                 /\ c.n = 0 \/ Len(d) < c.n
<1>1. ASSUME c.fn = "write"
      PROVE  \/ k \in {Fails, NotSubmitted}
             \/ \E r \in 0..c.n : k = Answer(r, <<>>)
  <2>1. Kernel(c) = {Answer(r, <<>>) : r \in 0..c.n} \cup {Fails} \cup
                    (IF c.n = 0 THEN {} ELSE {NotSubmitted})
    BY <1>1 DEF Kernel, StatusFns, TimeFns, StructFns
  <2> QED BY <2>1
<1>2. ASSUME c.fn \in StatusFns
      PROVE  \/ k \in {Fails, NotSubmitted}
             \/ \E r \in 0..1 : k = Answer(r, [i \in 1..c.n |-> i])
  <2>1. Kernel(c) = {Answer(r, [i \in 1..c.n |-> i]) : r \in 0..1}
                    \cup {Fails, NotSubmitted}
    BY <1>2 DEF Kernel, StatusFns, TimeFns, StructFns
  <2> QED BY <2>1
<1>3. ASSUME c.fn \in TimeFns \cup StructFns
      PROVE  k = Fails \/ k = Answer(0, [i \in 1..c.n |-> i])
  <2>1. Kernel(c) = {Answer(0, [i \in 1..c.n |-> i]), Fails}
    BY <1>3 DEF Kernel, StatusFns, TimeFns, StructFns
  <2> QED BY <2>1
<1>4. ASSUME c.fn = "getpid"
      PROVE  \E r \in 1..(2^(IntBits - 1) - 1) : k = Answer(r, <<>>)
  <2>1. Kernel(c) = {Answer(r, <<>>) : r \in 1..(2^(IntBits - 1) - 1)}
    BY <1>4 DEF Kernel, StatusFns, TimeFns, StructFns
  <2> QED BY <2>1
<1>5. ASSUME c.fn = "getuid"
      PROVE  \E r \in 0..(2^IntBits - 1) : k = Answer(r, <<>>)
  <2>1. Kernel(c) = {Answer(r, <<>>) : r \in 0..(2^IntBits - 1)}
    BY <1>5 DEF Kernel, StatusFns, TimeFns, StructFns
  <2> QED BY <2>1
<1>6. ASSUME c.fn = "getcwd"
      PROVE  \/ k = Fails
             \/ \E d \in Cwds : /\ k = Answer(0, Append(d, NUL))
                                /\ c.n = 0 \/ Len(d) < c.n
  <2>1. Kernel(c) = {Answer(0, Append(d, NUL)) :
                        d \in {d \in Cwds : c.n = 0 \/ Len(d) < c.n}}
                    \cup {Fails}
    BY <1>6 DEF Kernel, StatusFns, TimeFns, StructFns
  <2> QED BY <2>1
<1> QED BY <1>1, <1>2, <1>3, <1>4, <1>5, <1>6

\* The answers of the clocks and of the calls that fill a structure.
LEMMA StructAnswer ==
  ASSUME NEW c \in Calls, c.fn \in TimeFns \cup StructFns, NEW k \in Kernel(c)
  PROVE  Shape(k)
<1>1. CASE k = Fails
  BY <1>1, RefusedShape
<1>2. CASE k = Answer(0, [i \in 1..c.n |-> i])
  <2>1. 0 \in Nat /\ 0 < 2^(IntBits - 1)
    BY IntRange, WrapperAssumption
  <2>2. [i \in 1..c.n |-> i] \in Bytes
    BY CallType DEF Bytes
  <2> QED BY <1>2, <2>1, <2>2, AnswerShape
<1> QED BY <1>1, <1>2, KernelIs

\* read and recv pass the answer on, an empty read without the ring.
LEMMA ReadRecorded ==
  ASSUME NEW c \in Calls, c.fn \in {"read", "recv"}, stream \in 0..4,
         NEW k \in Kernel(c)
  PROVE  Recorded(c, k) = Plain(c, k, k.data)
<1>1. c.n \in Nat
  BY CallType
<1>2. Shape(k) /\ (k.ret >= 0 => Len(k.data) = k.ret /\ k.ret <= c.n)
  BY ReadAnswer
<1>3. CASE c.fn = "recv" \/ c.n # 0
  <2>1. Recorded(c, k) = Ring(c, k, k.data)
    BY <1>3 DEF Recorded, read, recv, StatusFns, TimeFns, StructFns
  <2> QED BY <1>1, <1>2, <2>1, PassedOn
<1>4. CASE c.fn = "read" /\ c.n = 0
  <2>1. Recorded(c, k) = Direct(c, k, <<>>)
    BY <1>4 DEF Recorded, read, StatusFns, TimeFns, StructFns
  <2>2. k.data \in Seq(Nat) /\ k.ret \in Int
    BY <1>2 DEF Shape, Answers, Bytes
  <2>3. k.data = <<>>
    <3>1. CASE k.ret < 0
      BY <1>2, <3>1 DEF Shape
    <3>2. CASE ~(k.ret < 0)
      <4>1. Len(k.data) = 0
        BY <1>2, <1>4, <2>2, <3>2
      <4> QED BY <2>2, <4>1
    <3> QED BY <3>1, <3>2
  <2> QED BY <1>1, <1>2, <2>1, <2>3, PassedOn
<1> QED BY <1>3, <1>4

\* Every call that is recorded is in order, whatever the kernel answers, and a
\* stream's position stays inside it.
LEMMA RecordedGood ==
  ASSUME NEW c \in Calls, stream \in 0..4, NEW k \in Kernel(c)
  PROVE  /\ Good(c, k, Recorded(c, k).sees, Recorded(c, k).ev)
         /\ (IF c.fd = "stream" THEN stream + Len(k.data) ELSE stream) \in 0..4
<1>1. c.n \in Nat /\ (c.fn \notin {"read", "recv"} => c.fd = "none")
  BY CallType
<1>2. PICK p : p = 2^(IntBits - 1)
  OBVIOUS
<1>3. p \in Nat /\ p > MaxSize /\ p > 2 /\ MaxSize \in Nat
  BY <1>2, IntRange, WrapperAssumption
<1>4. c.fd # "stream" => (IF c.fd = "stream" THEN stream + Len(k.data)
                                              ELSE stream) \in 0..4
  OBVIOUS
<1>5. [i \in 1..c.n |-> i] \in Bytes /\ <<>> \in Bytes
  BY <1>1 DEF Bytes
<1>6. ASSUME NEW r \in Nat, r < p, NEW data \in Bytes, k = Answer(r, data)
      PROVE  Shape(k) /\ k.data = data
  BY <1>2, <1>6, AnswerShape
<1>7. CASE c.fn \in {"read", "recv"}
  <2>1. /\ Shape(k) /\ (k.ret >= 0 => Len(k.data) = k.ret /\ k.ret <= c.n)
        /\ c.fd = "stream" => stream + Len(k.data) \in 0..4
    BY <1>7, ReadAnswer
  <2>2. Good(c, k, Plain(c, k, k.data).sees, Plain(c, k, k.data).ev)
    BY <1>1, <1>7, <2>1, DataGood
  <2>3. Recorded(c, k) = Plain(c, k, k.data)
    BY <1>7, ReadRecorded
  <2> QED BY <1>4, <2>1, <2>2, <2>3
<1>8. CASE c.fn = "write"
  <2>1. Shape(k) /\ k.data = <<>>
    <3>1. CASE k \in {Fails, NotSubmitted}
      BY <3>1, RefusedShape DEF Shape
    <3>2. ASSUME NEW r \in 0..c.n, k = Answer(r, <<>>)
          PROVE  Shape(k) /\ k.data = <<>>
      <4>1. c.n <= MaxSize
        BY <1>8, CallType
      <4>2. r \in Nat /\ r < p
        BY <1>1, <1>3, <4>1
      <4> QED BY <1>5, <1>6, <3>2, <4>2
    <3> QED BY <1>8, <3>1, <3>2, KernelIs, Zenon
  <2>2. Good(c, k, Plain(c, k, <<>>).sees, Plain(c, k, <<>>).ev)
    BY <1>1, <1>8, <2>1, ValueGood
  <2>3. \/ Recorded(c, k) = Direct(c, k, <<>>)
        \/ Recorded(c, k) = Ring(c, k, <<>>)
    BY <1>8 DEF Recorded, write, StatusFns, TimeFns, StructFns
  <2>4. Recorded(c, k) = Plain(c, k, <<>>)
    BY <1>1, <2>1, <2>3, PassedOn
  <2> QED BY <1>1, <1>4, <1>8, <2>2, <2>4
<1>9. CASE c.fn \in StatusFns
  <2>1. Shape(k)
    <3>1. CASE k \in {Fails, NotSubmitted}
      BY <3>1, RefusedShape
    <3>2. ASSUME NEW r \in 0..1, k = Answer(r, [i \in 1..c.n |-> i])
          PROVE  Shape(k)
      <4>1. r \in Nat /\ r < p
        BY <1>3
      <4> QED BY <1>5, <1>6, <3>2, <4>1
    <3> QED BY <1>9, <3>1, <3>2, KernelIs
  <2>2. c.fn # "accept" => c.n = 0
    BY <1>9, CallType
  <2>3. Good(c, k, Plain(c, k, <<>>).sees, Plain(c, k, <<>>).ev)
    BY <1>1, <1>9, <2>1, <2>2, ValueGood
  <2>4. Recorded(c, k) = Ring(c, k, <<>>)
    BY <1>9 DEF Recorded, status_call, StatusFns, TimeFns, StructFns
  <2>5. Recorded(c, k) = Plain(c, k, <<>>)
    BY <1>1, <2>1, <2>4, PassedOn
  <2>6. c.fd # "stream"
    BY <1>1, <1>9 DEF StatusFns
  <2> QED BY <1>4, <2>3, <2>5, <2>6
<1>10. CASE c.fn \in TimeFns \cup StructFns
  <2>1. Shape(k)
    BY <1>10, StructAnswer
  <2>2. c.fn \notin {"read", "recv"}
    BY <1>10 DEF TimeFns, StructFns
  <2>3. Good(c, k, Plain(c, k, k.data).sees, Plain(c, k, k.data).ev)
    BY <1>1, <1>10, <2>1, <2>2, DataGood
  <2>4. Recorded(c, k) = Direct(c, k, k.data)
    BY <1>10 DEF Recorded, time_call, struct_call, StatusFns, TimeFns,
                 StructFns
  <2>5. Recorded(c, k) = Plain(c, k, k.data)
    BY <1>1, <2>1, <2>4, PassedOn
  <2> QED BY <1>1, <1>4, <2>2, <2>3, <2>5
<1>11. CASE c.fn \in {"getpid", "getuid"}
  <2>1. c.n = 0
    BY <1>11, CallType
  <2>2. PICK u \in 0..(2^IntBits - 1) :
            k = Answer(u, <<>>) /\ (c.fn = "getpid" => u < 2^(IntBits - 1))
    <3>1. CASE c.fn = "getuid"
      BY <3>1, KernelIs, Zenon
    <3>2. CASE c.fn = "getpid"
      <4>1. PICK r \in 1..(2^(IntBits - 1) - 1) : k = Answer(r, <<>>)
        BY <3>2, KernelIs, Zenon
      <4>2. PICK q : q = 2^IntBits
        OBVIOUS
      <4>3. q = 2 * p /\ r \in 1..(p - 1)
        BY <1>2, <4>1, <4>2, IntRange
      <4>4. r \in 0..(q - 1) /\ r < p
        BY <1>3, <4>3
      <4> QED BY <1>2, <4>1, <4>2, <4>4
    <3> QED BY <1>11, <3>1, <3>2
  <2>3. Good(c, k, id_call(c, k).sees, id_call(c, k).ev)
    BY <1>11, <2>1, <2>2, IdGood
  <2>4. Recorded(c, k) = id_call(c, k)
    BY <1>11 DEF Recorded, StatusFns, TimeFns, StructFns
  <2> QED BY <1>1, <1>4, <1>11, <2>3, <2>4
<1>12. CASE c.fn = "getcwd"
  <2>1. Good(c, k, getcwd(c, k).sees, getcwd(c, k).ev)
    BY <1>1, <1>12, KernelIs, CwdGood, Zenon
  <2>2. Recorded(c, k) = getcwd(c, k)
    BY <1>12 DEF Recorded, StatusFns, TimeFns, StructFns
  <2> QED BY <1>1, <1>4, <1>12, <2>1, <2>2
<1> QED BY <1>7, <1>8, <1>9, <1>10, <1>11, <1>12, CallType

\* What a replay returns: what the event determines, except for the clocks in
\* real time mode, which ask the kernel.
LEMMA ReplayedIs ==
  ASSUME NEW c \in Calls \cup Sleeps, NEW k, NEW s, NEW ev, Good(c, k, s, ev),
         NEW r \in Replayed(c, ev)
  PROVE  /\ r \in Results /\ Len(r.buf) = c.n
         /\ RealTime(c) \/ r = Rep(c, ev)
<1>1. Rep(c, ev) \in Results /\ Len(Rep(c, ev).buf) = c.n
  BY DEF Good
<1>2. c.fn \in Fns
  <2>1. ASSUME c \in Sleeps
        PROVE  c.fn \in Fns
    BY <2>1 DEF Sleeps, Fns
  <2> QED BY <2>1, CallType
<1>3. CASE RealTime(c)
  <2>1. c.fn \in TimeFns /\ ~virtual
    BY <1>3 DEF RealTime
  <2>2. c \in Calls
    <3>1. c \in Sleeps => c.fn = "nanosleep"
      BY DEF Sleeps
    <3> QED BY <2>1, <3>1 DEF TimeFns
  <2>3. Replayed(c, ev) = {Native(c, a) : a \in Kernel(c)}
    BY <2>1 DEF Replayed, TimeFns, StructFns
  <2>4. PICK a \in Kernel(c) : r = Native(c, a)
    BY <2>3
  <2>5. Shape(a) /\ c.n \in Nat
    BY <2>1, <2>2, StructAnswer, CallType
  <2>6. r \in Results /\ r.buf = Copied(Untouched(c.n), a.data, c.n)
    BY <2>4, <2>5, NativeIs
  <2>7. Len(Copied(Untouched(c.n), a.data, c.n)) = c.n
    <3>1. a.data \in Bytes /\ c.n \in Int
      BY <2>5 DEF Shape, Answers
    <3> QED BY <2>5, <3>1, CopiedIs, Zenon
  <2> QED BY <1>3, <2>6, <2>7
<1>4. CASE ~RealTime(c)
  <2>1. Replayed(c, ev) = {Rep(c, ev)}
    <3>1. CASE c.fn \in {"read", "recv"}
      BY <3>1, RepIs DEF Replayed, TimeFns, StructFns
    <3>2. CASE c.fn \in TimeFns
      <4>1. virtual
        BY <1>4, <3>2 DEF RealTime
      <4>2. Replayed(c, ev) = {WithData(c, ev)}
        BY <3>2, <4>1 DEF Replayed, TimeFns, StructFns
      <4> QED BY <3>2, <4>2, RepIs
    <3>3. CASE c.fn \in StructFns
      BY <3>3, RepIs DEF Replayed, TimeFns, StructFns
    <3>4. CASE c.fn = "getuid"
      BY <3>4, RepIs DEF Replayed, TimeFns, StructFns
    <3>5. CASE c.fn = "getcwd"
      BY <3>5, RepIs DEF Replayed, TimeFns, StructFns
    <3>6. CASE c.fn \in StatusFns \cup {"write", "getpid", "nanosleep"}
      <4>1. Replayed(c, ev) = {value_replayed(c, ev)}
        BY <3>6 DEF Replayed, StatusFns, TimeFns, StructFns
      <4> QED BY <3>6, <4>1, RepIs
    <3> QED BY <1>2, <3>1, <3>2, <3>3, <3>4, <3>5, <3>6 DEF Fns
  <2> QED BY <1>1, <2>1
<1> QED BY <1>3, <1>4

-----------------------------------------------------------------------------
(* The invariant.                                                          *)

\* A call that returns while recording.
LEMMA RecordStep ==
  ASSUME WrapInv, mode' = "record", stream' \in 0..4,
         NEW c, NEW k, NEW s, NEW ev, Good(c, k, s, ev),
         calls' \in Seq(Calls \cup Sleeps), Len(calls') = Len(log) + 1,
         \A i \in 1..Len(log) : calls'[i] = calls[i],
         calls'[Len(log) + 1] = c,
         kernel' = Append(kernel, k), seen' = Append(seen, s),
         log' = Append(log, ev), virtual' = virtual, again' = again
  PROVE  WrapInv'
<1>1. /\ kernel \in Seq(Answers) /\ seen \in Seq(Results)
      /\ log \in Seq(Events) /\ again \in Seq(Results)
      /\ Len(kernel) = Len(log) /\ Len(seen) = Len(log)
      /\ Len(again) <= Len(log)
  BY DEF WrapInv
<1>2. k \in Answers /\ s \in Results /\ ev \in Events
  BY DEF Good, EventOK
<1>3. /\ kernel' \in Seq(Answers) /\ Len(kernel') = Len(kernel) + 1
      /\ kernel'[Len(kernel) + 1] = k
      /\ \A i \in 1..Len(kernel) : kernel'[i] = kernel[i]
  BY <1>1, <1>2
<1>4. /\ seen' \in Seq(Results) /\ Len(seen') = Len(seen) + 1
      /\ seen'[Len(seen) + 1] = s
      /\ \A i \in 1..Len(seen) : seen'[i] = seen[i]
  BY <1>1, <1>2
<1>5. /\ log' \in Seq(Events) /\ Len(log') = Len(log) + 1
      /\ log'[Len(log) + 1] = ev
      /\ \A i \in 1..Len(log) : log'[i] = log[i]
  BY <1>1, <1>2
<1>6. Len(log) \in Nat /\ Len(again) \in Nat
  BY <1>1
<1>7. ASSUME NEW i \in 1..Len(log')
      PROVE  Good(calls'[i], kernel'[i], seen'[i], log'[i])
  <2>1. CASE i \in 1..Len(log)
    <3>1. Good(calls[i], kernel[i], seen[i], log[i])
      BY <2>1 DEF WrapInv
    <3> QED BY <1>1, <1>3, <1>4, <1>5, <2>1, <3>1
  <2>2. CASE i = Len(log) + 1
    BY <1>1, <1>3, <1>4, <1>5, <2>2
  <2>3. i \in 1..(Len(log) + 1)
    BY <1>5
  <2>4. i \in 1..Len(log) \/ i = Len(log) + 1
    BY <1>6, <2>3
  <2> QED BY <2>1, <2>2, <2>4, Zenon
<1>8. ASSUME NEW i \in 1..Len(again')
      PROVE  /\ Len(again'[i].buf) = calls'[i].n
             /\ RealTime(calls[i])' \/ again'[i] = Rep(calls'[i], log'[i])
  <2>1. i \in 1..Len(again) /\ i \in 1..Len(log)
    BY <1>1, <1>6
  <2>2. /\ Len(again[i].buf) = calls[i].n
        /\ RealTime(calls[i]) \/ again[i] = Rep(calls[i], log[i])
    BY <2>1 DEF WrapInv
  <2>3. calls'[i] = calls[i] /\ log'[i] = log[i] /\ again'[i] = again[i]
    BY <1>5, <2>1
  <2>4. RealTime(calls[i])' <=> RealTime(calls[i])
    BY <2>3 DEF RealTime
  <2> QED BY <2>2, <2>3, <2>4
<1>9. Len(again') <= Len(log')
  BY <1>1, <1>5, <1>6
<1>10. Len(calls') = Len(log') /\ Len(kernel') = Len(log')
       /\ Len(seen') = Len(log') /\ again' \in Seq(Results)
  BY <1>1, <1>3, <1>4, <1>5
<1> QED BY <1>3, <1>4, <1>5, <1>7, <1>8, <1>9, <1>10 DEF WrapInv

\* Nothing was called yet.
LEMMA WrapInitInv == WrapInit => WrapInv
<1> SUFFICES ASSUME WrapInit
             PROVE  WrapInv
  OBVIOUS
<1>1. /\ calls = <<>> /\ kernel = <<>> /\ seen = <<>>
      /\ log = <<>> /\ again = <<>> /\ mode = "record" /\ stream = 0
  BY DEF WrapInit
<1>2. Len(<<>>) = 0 /\ 1..0 = {}
  OBVIOUS
<1>3. /\ calls \in Seq(Calls \cup Sleeps) /\ kernel \in Seq(Answers)
      /\ seen \in Seq(Results) /\ log \in Seq(Events)
      /\ again \in Seq(Results) /\ stream \in 0..4
  BY <1>1
<1> QED BY <1>1, <1>2, <1>3 DEF WrapInv

\* A call that is answered while recording.
LEMMA CallRecordedInv == WrapInv /\ CallRecorded => WrapInv'
<1> SUFFICES ASSUME WrapInv, CallRecorded
             PROVE  WrapInv'
  OBVIOUS
<1>0. PICK c \in Calls : \E k \in Kernel(c) :
        /\ mode = "record"
        /\ calls' = Append(calls, c)
        /\ Returns(k, Recorded(c, k))
        /\ stream' = IF c.fd = "stream" THEN stream + Len(k.data) ELSE stream
        /\ UNCHANGED <<mode, virtual, again>>
  BY DEF CallRecorded
<1>1. PICK k \in Kernel(c) :
        /\ mode = "record"
        /\ calls' = Append(calls, c)
        /\ Returns(k, Recorded(c, k))
        /\ stream' = IF c.fd = "stream" THEN stream + Len(k.data) ELSE stream
        /\ UNCHANGED <<mode, virtual, again>>
  BY <1>0
<1>2. /\ calls \in Seq(Calls \cup Sleeps) /\ Len(calls) = Len(log)
      /\ stream \in 0..4
  BY <1>1 DEF WrapInv
<1>3. /\ Good(c, k, Recorded(c, k).sees, Recorded(c, k).ev)
      /\ stream' \in 0..4
  BY <1>1, <1>2, RecordedGood
<1>4. /\ calls' \in Seq(Calls \cup Sleeps) /\ Len(calls') = Len(log) + 1
      /\ \A i \in 1..Len(log) : calls'[i] = calls[i]
      /\ calls'[Len(log) + 1] = c
  BY <1>1, <1>2
<1>5. /\ kernel' = Append(kernel, k)
      /\ seen' = Append(seen, Recorded(c, k).sees)
      /\ log' = Append(log, Recorded(c, k).ev)
      /\ mode' = "record" /\ virtual' = virtual /\ again' = again
  BY <1>1 DEF Returns
<1> QED BY <1>3, <1>4, <1>5, RecordStep

\* nanosleep that blocks, or fails at once.
LEMMA SleepBeginsInv == WrapInv /\ SleepBegins => WrapInv'
<1> SUFFICES ASSUME WrapInv, SleepBegins
             PROVE  WrapInv'
  OBVIOUS
<1>1. PICK c \in Sleeps :
        /\ mode = "record"
        /\ calls' = Append(calls, c)
        /\ \/ mode' = "asleep" /\ UNCHANGED <<kernel, seen, log>>
           \/ /\ \E k \in {Fails, NotSubmitted} : Returns(k, nanosleep(c, k))
              /\ UNCHANGED mode
        /\ UNCHANGED <<virtual, again, stream>>
  BY DEF SleepBegins
<1>2. /\ calls \in Seq(Calls \cup Sleeps) /\ Len(calls) = Len(log)
      /\ stream \in 0..4 /\ log \in Seq(Events)
  BY <1>1 DEF WrapInv
<1>3. /\ calls' \in Seq(Calls \cup Sleeps) /\ Len(calls') = Len(log) + 1
      /\ \A i \in 1..Len(log) : calls'[i] = calls[i]
      /\ calls'[Len(log) + 1] = c
  BY <1>1, <1>2
<1>4. CASE mode' = "asleep" /\ UNCHANGED <<kernel, seen, log>>
  <2>1. /\ calls' \in Seq(Calls \cup Sleeps)
        /\ Len(calls') = Len(log') + 1 /\ calls'[Len(calls')] \in Sleeps
    BY <1>3, <1>4
  <2>2. ASSUME NEW i \in 1..Len(log')
        PROVE  Good(calls'[i], kernel'[i], seen'[i], log'[i])
    <3>1. Good(calls[i], kernel[i], seen[i], log[i])
      BY <1>4, <2>2 DEF WrapInv
    <3> QED BY <1>3, <1>4, <3>1
  <2>3. ASSUME NEW i \in 1..Len(again')
        PROVE  /\ Len(again'[i].buf) = calls'[i].n
               /\ RealTime(calls[i])' \/ again'[i] = Rep(calls'[i], log'[i])
    <3>1. i \in 1..Len(again) /\ i \in 1..Len(log)
      <4>1. again \in Seq(Results) /\ Len(again) <= Len(log)
        BY DEF WrapInv
      <4> QED BY <1>1, <1>2, <4>1
    <3>2. /\ Len(again[i].buf) = calls[i].n
          /\ RealTime(calls[i]) \/ again[i] = Rep(calls[i], log[i])
      BY <3>1 DEF WrapInv
    <3>3. calls'[i] = calls[i] /\ log'[i] = log[i] /\ again'[i] = again[i]
      BY <1>1, <1>3, <1>4, <3>1
    <3>4. RealTime(calls[i])' <=> RealTime(calls[i])
      BY <1>1, <3>3 DEF RealTime
    <3> QED BY <3>2, <3>3, <3>4
  <2>4. /\ kernel' \in Seq(Answers) /\ seen' \in Seq(Results)
        /\ log' \in Seq(Events) /\ again' \in Seq(Results)
        /\ Len(kernel') = Len(log') /\ Len(seen') = Len(log')
        /\ Len(again') <= Len(log') /\ stream' \in 0..4
    BY <1>1, <1>4 DEF WrapInv
  <2> QED BY <1>4, <2>1, <2>2, <2>3, <2>4 DEF WrapInv
<1>5. CASE /\ \E k \in {Fails, NotSubmitted} : Returns(k, nanosleep(c, k))
           /\ UNCHANGED mode
  <2>1. PICK k \in {Fails, NotSubmitted} : Returns(k, nanosleep(c, k))
    BY <1>5
  <2>2. Shape(k) /\ k.ret <= 0
    <3>1. Shape(k) /\ k.ret < 0 /\ k.ret \in Int
      BY RefusedShape DEF Shape, Answers
    <3> QED BY <3>1
  <2>3. Good(c, k, nanosleep(c, k).sees, nanosleep(c, k).ev)
    BY <2>2, SleepGood
  <2>4. /\ kernel' = Append(kernel, k)
        /\ seen' = Append(seen, nanosleep(c, k).sees)
        /\ log' = Append(log, nanosleep(c, k).ev)
        /\ mode' = "record" /\ virtual' = virtual /\ again' = again
        /\ stream' \in 0..4
    BY <1>1, <1>2, <1>5, <2>1 DEF Returns
  <2> QED BY <1>3, <2>3, <2>4, RecordStep
<1> QED BY <1>1, <1>4, <1>5

\* nanosleep that returns when its timer expires.
LEMMA SleepEndsInv == WrapInv /\ SleepEnds => WrapInv'
<1> SUFFICES ASSUME WrapInv, SleepEnds
             PROVE  WrapInv'
  OBVIOUS
<1>1. PICK c : c = Sleeper
  OBVIOUS
<1>2. PICK k : k = Answer(0, <<>>)
  OBVIOUS
<1>3. /\ mode = "asleep" /\ mode' = "record"
      /\ Returns(k, nanosleep(c, k))
      /\ UNCHANGED <<virtual, calls, again, stream>>
  BY <1>1, <1>2 DEF SleepEnds
<1>4. /\ calls \in Seq(Calls \cup Sleeps) /\ Len(calls) = Len(log) + 1
      /\ calls[Len(calls)] \in Sleeps /\ stream \in 0..4
  BY <1>3 DEF WrapInv
<1>5. c = calls[Len(log) + 1] /\ c \in Sleeps
  BY <1>1, <1>4 DEF Sleeper
<1>6. Shape(k) /\ k.ret <= 0
  <2>1. 0 \in Nat /\ 0 < 2^(IntBits - 1) /\ <<>> \in Bytes
    BY IntRange, WrapperAssumption DEF Bytes
  <2>2. Shape(k) /\ k.ret = 0
    BY <1>2, <2>1, AnswerShape
  <2> QED BY <2>2
<1>7. Good(c, k, nanosleep(c, k).sees, nanosleep(c, k).ev)
  BY <1>5, <1>6, SleepGood
<1>8. /\ kernel' = Append(kernel, k)
      /\ seen' = Append(seen, nanosleep(c, k).sees)
      /\ log' = Append(log, nanosleep(c, k).ev)
      /\ virtual' = virtual /\ again' = again /\ stream' \in 0..4
      /\ calls' = calls
  BY <1>3, <1>4 DEF Returns
<1> QED BY <1>3, <1>4, <1>5, <1>7, <1>8, RecordStep

\* Steps that leave the recording alone.
LEMMA ReplayStep ==
  ASSUME WrapInv,
         mode \in {"record", "replay"}, mode' \in {"record", "replay"},
         UNCHANGED <<virtual, calls, kernel, seen, log, stream>>,
         again' \in Seq(Results), Len(again') <= Len(log),
         \A i \in 1..Len(again') :
            /\ Len(again'[i].buf) = calls[i].n
            /\ RealTime(calls[i]) \/ again'[i] = Rep(calls[i], log[i])
  PROVE  WrapInv'
<1>1. \A i \in 1..Len(again') :
        /\ Len(again'[i].buf) = calls'[i].n
        /\ RealTime(calls[i])' \/ again'[i] = Rep(calls'[i], log'[i])
  BY DEF RealTime
<1>2. \A i \in 1..Len(log') : Good(calls'[i], kernel'[i], seen'[i], log'[i])
  BY DEF WrapInv
<1>3. /\ stream' \in 0..4 /\ calls' \in Seq(Calls \cup Sleeps)
      /\ kernel' \in Seq(Answers) /\ seen' \in Seq(Results)
      /\ log' \in Seq(Events)
      /\ Len(kernel') = Len(log') /\ Len(seen') = Len(log')
      /\ Len(calls') = Len(log')
  BY DEF WrapInv
<1> QED BY <1>1, <1>2, <1>3, Zenon DEF WrapInv

\* The replay begins.
LEMMA ReplayBeginsInv == WrapInv /\ ReplayBegins => WrapInv'
<1> SUFFICES ASSUME WrapInv, ReplayBegins
             PROVE  WrapInv'
  OBVIOUS
<1>1. /\ mode = "record" /\ mode' = "replay" /\ again' = again
      /\ UNCHANGED <<virtual, calls, kernel, seen, log, stream>>
  BY DEF ReplayBegins
<1>2. /\ again \in Seq(Results) /\ Len(again) <= Len(log)
      /\ \A i \in 1..Len(again) :
            /\ Len(again[i].buf) = calls[i].n
            /\ RealTime(calls[i]) \/ again[i] = Rep(calls[i], log[i])
  BY DEF WrapInv
<1> QED BY <1>1, <1>2, ReplayStep

\* A call that is replayed.
LEMMA CallReplayedInv == WrapInv /\ CallReplayed => WrapInv'
<1> SUFFICES ASSUME WrapInv, CallReplayed
             PROVE  WrapInv'
  OBVIOUS
<1>1. PICK m : m = Len(again) + 1
  OBVIOUS
<1>2. /\ mode = "replay" /\ mode' = mode /\ m \in DOMAIN log
      /\ \E r \in Replayed(calls[m], log[m]) : again' = Append(again, r)
      /\ UNCHANGED <<virtual, calls, kernel, seen, log, stream>>
  BY <1>1 DEF CallReplayed
<1>3. PICK r \in Replayed(calls[m], log[m]) : again' = Append(again, r)
  BY <1>2
<1>4. /\ again \in Seq(Results) /\ log \in Seq(Events)
      /\ calls \in Seq(Calls \cup Sleeps) /\ Len(calls) = Len(log)
  BY <1>2 DEF WrapInv
<1>5. Len(again) \in Nat /\ m \in 1..Len(log) /\ m <= Len(log)
  BY <1>2, <1>4
<1>6. Good(calls[m], kernel[m], seen[m], log[m])
  BY <1>5 DEF WrapInv
<1>7. calls[m] \in Calls \cup Sleeps
  BY <1>4, <1>5
<1>8. /\ r \in Results /\ Len(r.buf) = calls[m].n
      /\ RealTime(calls[m]) \/ r = Rep(calls[m], log[m])
  BY <1>6, <1>7, ReplayedIs
<1>9. /\ again' \in Seq(Results) /\ Len(again') = m /\ again'[m] = r
      /\ \A i \in 1..Len(again) : again'[i] = again[i]
  BY <1>1, <1>3, <1>4, <1>8
<1>10. ASSUME NEW i \in 1..Len(again')
       PROVE  /\ Len(again'[i].buf) = calls[i].n
              /\ RealTime(calls[i]) \/ again'[i] = Rep(calls[i], log[i])
  <2>1. i \in 1..m
    BY <1>9
  <2>2. i \in 1..Len(again) \/ i = m
    BY <1>1, <1>5, <2>1
  <2>3. CASE i = m
    BY <1>8, <1>9, <2>3
  <2>4. CASE i \in 1..Len(again)
    <3>1. /\ Len(again[i].buf) = calls[i].n
          /\ RealTime(calls[i]) \/ again[i] = Rep(calls[i], log[i])
      BY <2>4 DEF WrapInv
    <3> QED BY <1>9, <2>4, <3>1
  <2> QED BY <2>2, <2>3, <2>4
<1> QED BY <1>2, <1>5, <1>9, <1>10, ReplayStep

\* Nothing happens.
LEMMA WrapStutterInv == WrapInv /\ UNCHANGED wrapVars => WrapInv'
  BY DEF WrapInv, wrapVars, RealTime

-----------------------------------------------------------------------------
(* The theorems.                                                           *)

\* The invariant holds in every behaviour of the wrappers: what a call of
\* syscall_wrappers.c showed its caller and put into its event, and what a
\* replay makes of that event, fit together for every call made so far.
THEOREM WrapInductive == WrapSpec => []WrapInv
<1>1. WrapInit => WrapInv
  BY WrapInitInv
<1>2. WrapInv /\ [WrapNext]_wrapVars => WrapInv'
  BY CallRecordedInv, SleepBeginsInv, SleepEndsInv, ReplayBeginsInv,
     CallReplayedInv, WrapStutterInv DEF WrapNext
<1> QED BY <1>1, <1>2, PTL DEF WrapSpec

\* The variables keep their types, no event has more than DataCap bytes (the
\* memcpy of rr_log_syscall), and every value that is logged is an int.
THEOREM WrapTypeCorrect == WrapSpec => []WrapTypeOK
<1>1. WrapInv => WrapTypeOK
  <2> SUFFICES ASSUME WrapInv
               PROVE  WrapTypeOK
    OBVIOUS
  <2>1. log \in Seq(Events) /\ again \in Seq(Results)
    BY DEF WrapInv
  <2>2. DOMAIN log = 1..Len(log) /\ DOMAIN again = 1..Len(again)
    BY <2>1
  <2>3. \A i \in DOMAIN log :
          /\ log[i].retval \in -(2^(IntBits - 1))..(2^(IntBits - 1) - 1)
          /\ Len(log[i].data) <= DataCap
    BY <2>2 DEF WrapInv, Good, EventOK
  <2>4. \A i \in DOMAIN again : Len(again[i].buf) = calls[i].n
    BY <2>2 DEF WrapInv
  <2>5. /\ stream \in 0..Len(Content.stream)
        /\ mode \in {"record", "asleep", "replay"}
    <3>1. Content.stream = <<1, 2, 3, 4>>
      BY DEF Content
    <3>2. Len(Content.stream) = 4
      BY <3>1
    <3> QED BY <3>2 DEF WrapInv
  <2> QED BY <2>3, <2>4, <2>5 DEF WrapTypeOK
<1> QED BY <1>1, WrapInductive, PTL

\* While recording, every wrapper hands its caller the kernel's value (or the
\* value that stands for a failure), errno and bytes, and EPERM for a call that
\* could not be submitted.
THEOREM TransparentSafe == WrapSpec => []RecordingIsTransparent
<1>1. WrapInv => RecordingIsTransparent
  <2> SUFFICES ASSUME WrapInv, NEW i \in DOMAIN seen
               PROVE  Transparent(calls[i], kernel[i], seen[i])
    BY DEF RecordingIsTransparent, Transparent
  <2>1. i \in 1..Len(log)
    BY DEF WrapInv
  <2>2. Good(calls[i], kernel[i], seen[i], log[i])
    BY <2>1 DEF WrapInv
  <2> QED BY <2>2 DEF Good
<1> QED BY <1>1, WrapInductive, PTL

\* What the theorems about the replay have in common: a replayed call is one
\* that asked for real time, or returns what its event determines.
LEMMA ReplayedGood ==
  ASSUME WrapInv, NEW i \in DOMAIN again
  PROVE  \/ RealTime(calls[i])
         \/ /\ Same(calls[i], seen[i], again[i])
            /\ Fills(calls[i], seen[i], again[i])
<1>1. again \in Seq(Results) /\ log \in Seq(Events) /\ Len(again) <= Len(log)
  BY DEF WrapInv
<1>2. i \in 1..Len(again) /\ i \in 1..Len(log)
  BY <1>1
<1>3. RealTime(calls[i]) \/ again[i] = Rep(calls[i], log[i])
  BY <1>2 DEF WrapInv
<1>4. Good(calls[i], kernel[i], seen[i], log[i])
  BY <1>2 DEF WrapInv
<1> QED BY <1>3, <1>4 DEF Good

\* A replayed call returns the value and the errno that it returned when it
\* was recorded; the exceptions are the clocks in real time mode, a user id
\* that is too large for the int32_t of the event, and getcwd without a buffer.
THEOREM ReturnsSafe == WrapSpec => []ReplayReturnsSame
<1>1. WrapInv => ReplayReturnsSame
  <2> SUFFICES ASSUME WrapInv, NEW i \in DOMAIN again
               PROVE  RealTime(calls[i]) \/ Same(calls[i], seen[i], again[i])
    BY DEF ReplayReturnsSame, Same
  <2> QED BY ReplayedGood
<1> QED BY <1>1, WrapInductive, PTL

\* A replayed call fills its buffer as the recorded one did, up to the DataCap
\* bytes of an event; getcwd's path is cut off there and ended with a NUL.
THEOREM FillsSafe == WrapSpec => []ReplayFillsSame
<1>1. WrapInv => ReplayFillsSame
  <2> SUFFICES ASSUME WrapInv, NEW i \in DOMAIN again
               PROVE  RealTime(calls[i]) \/ Fills(calls[i], seen[i], again[i])
    BY DEF ReplayFillsSame, Fills
  <2> QED BY ReplayedGood
<1> QED BY <1>1, WrapInductive, PTL

=============================================================================
