------------------------------ MODULE Wrappers ------------------------------
(***************************************************************************)
(* The system call wrappers, src/librr/src/syscall_wrappers.c: what each   *)
(* of them makes of the kernel's answer when it records, what it puts into *)
(* the event, and what it makes of the event when it replays.              *)
(*                                                                         *)
(* A thread makes a few calls while recording and the same calls again in  *)
(* the replay.  A call is [fn, fd, n]: the function, where it reads from,  *)
(* and the size of the caller's buffer, structure, rem or address (0: the  *)
(* pointer is NULL).                                                       *)
(* The kernel answers [ret, data, ok]: ret is negative for an errno, data  *)
(* is what goes into the buffer, and ok is FALSE when the call could not   *)
(* be submitted to the ring.  The caller sees [ret, errno, buf].           *)
(*                                                                         *)
(* Bytes are small numbers, an event holds DataCap of them, and an int has *)
(* IntBits bits.  Which event a replayed call gets is RecordReplay's       *)
(* subject; here it gets its own.                                          *)
(***************************************************************************)
EXTENDS Integers, Sequences, FiniteSetsExt

CONSTANTS
    DataCap,        \* bytes of data in an event (64)
    IntBits,        \* bits of an int (32)
    TimeSize,       \* sizeof(struct timespec), at most DataCap
    StructSize,     \* sizeof(struct stat), more than DataCap
    MaxSize,        \* bound on the size of a buffer; the kernel transfers no
                    \* more than an int can count
    MaxCalls        \* bound on the calls

ASSUME WrapperAssumption ==
    /\ DataCap \in Nat \ {0} /\ IntBits \in Nat \ {0} /\ MaxCalls \in Nat
    /\ TimeSize \in 1..DataCap
    /\ StructSize \in Nat /\ StructSize > DataCap
    /\ MaxSize \in Nat /\ MaxSize > DataCap /\ MaxSize < 2^(IntBits - 1)

VARIABLES
    mode,           \* "record", "asleep" (recording, in nanosleep) or "replay"
    virtual,        \* replay_time_virtual
    calls,          \* the calls made, in order
    kernel,         \* the kernel's answers to them
    seen,           \* what the caller saw when recording
    log,            \* the events
    again,          \* what the caller saw in the replay
    stream          \* bytes of the stream read so far

wrapVars == <<mode, virtual, calls, kernel, seen, log, again, stream>>

StatusFns == {"send", "accept", "connect", "openat", "close"}
TimeFns == {"clock_gettime", "gettimeofday"}
StructFns == {"uname", "stat", "fstat", "lstat"}

\* Bytes: what a buffer holds before the call, and the end of a string.
Old == 9
NUL == 0
Untouched(n) == [i \in 1..n |-> Old]

\* The errnos that matter: EPERM is 1, and raw_to_int(-1) yields it.
EPERM == 1
EIO == 2

Content == [stream |-> <<1, 2, 3, 4>>, file |-> <<5, 6, 7>>]
Cwds == {<<1>>, <<1, 2, 3>>}

WrapInit ==
    /\ mode = "record"
    /\ virtual \in BOOLEAN
    /\ calls = <<>> /\ kernel = <<>> /\ seen = <<>>
    /\ log = <<>> /\ again = <<>>
    /\ stream = 0

-----------------------------------------------------------------------------
(* The kernel.                                                             *)

Answer(ret, data) == [ret |-> ret, data |-> data, ok |-> TRUE]
Fails == Answer(-EIO, <<>>)
NotSubmitted == [ret |-> -1, data |-> <<>>, ok |-> FALSE]

\* A read at an offset of something with this content.
ReadAt(content, offset, len) ==
    Answer(len, SubSeq(content, offset + 1, offset + len))

\* The read that rr_io_submit_read_and_wait and rr_io_submit_recv_and_wait
\* ask for: the offset is 0, which a stream ignores.  A stream may return
\* less than was asked for.
rr_io_submit_read(c) ==
    LET off == IF c.fd = "stream" THEN stream ELSE 0
        rest == Len(Content[c.fd]) - off
    IN {ReadAt(Content[c.fd], off, len) : len \in 0..Min({c.n, rest})}

\* What the kernel may answer to a call.
Kernel(c) ==
    CASE c.fn \in {"read", "recv"} ->
            rr_io_submit_read(c) \cup {Fails} \cup
            (IF c.n = 0 /\ c.fn = "read" THEN {} ELSE {NotSubmitted})
      [] c.fn = "write" ->
            {Answer(r, <<>>) : r \in 0..c.n} \cup {Fails} \cup
            (IF c.n = 0 THEN {} ELSE {NotSubmitted})
      [] c.fn \in StatusFns ->
            {Answer(r, [i \in 1..c.n |-> i]) : r \in 0..1}
                \cup {Fails, NotSubmitted}
      [] c.fn \in TimeFns \cup StructFns ->
            {Answer(0, [i \in 1..c.n |-> i]), Fails}
      [] c.fn = "getpid" -> {Answer(r, <<>>) : r \in 1..(2^(IntBits - 1) - 1)}
      [] c.fn = "getuid" -> {Answer(r, <<>>) : r \in 0..(2^IntBits - 1)}
      [] c.fn = "getcwd" ->
            {Answer(0, Append(d, NUL)) :
                d \in {d \in Cwds : c.n = 0 \/ Len(d) < c.n}} \cup {Fails}

-----------------------------------------------------------------------------
(* Conversions.                                                            *)

\* A cast to int32_t, and one back to an unsigned type.
ToInt(u) == IF u >= 2^(IntBits - 1) THEN u - 2^IntBits ELSE u
ToUnsigned(i) == i % 2^IntBits

Result(ret, errno, buf) == [ret |-> ret, errno |-> errno, buf |-> buf]

\* Mutant of raw_to_int: the error is returned as it is.
RawToIntKeepsSign(raw, buf) == Result(raw, 0, buf)

\* raw_to_int and raw_to_ssize.  (errno 0: left alone.)
raw_to_int(raw, buf) ==
    IF raw < 0 THEN Result(-1, -raw, buf) ELSE Result(raw, 0, buf)

\* Mutant of to_log_int: the errno is not looked up.
ToLogIntPlain(r) == r.ret

\* to_log_int: the errno of a call that returned -1.
to_log_int(r) == IF r.ret = -1 THEN -r.errno ELSE r.ret

\* memcpy of at most max bytes to the start of buf.
Copied(buf, data, max) ==
    [i \in 1..Len(buf) |->
        IF i <= Len(data) /\ i <= max THEN data[i] ELSE buf[i]]

\* Mutant of rr_log_syscall: the data is not capped.
LogUncapped(fn, retval, data) ==
    [nr |-> fn, retval |-> retval, data |-> data]

\* Mutant of rr_log_syscall: one byte less than there is room for.
LogCapsEarly(fn, retval, data) ==
    [nr |-> fn, retval |-> retval,
     data |-> SubSeq(data, 1, Min({Len(data), DataCap - 1}))]

\* The event that rr_log_syscall writes.
rr_log_syscall(fn, retval, data) ==
    [nr |-> fn, retval |-> retval,
     data |-> SubSeq(data, 1, Min({Len(data), DataCap}))]

-----------------------------------------------------------------------------
(* Recording: the event and what the caller sees.                          *)

\* The kernel's answer as libc would hand it over.
Native(c, k) == raw_to_int(k.ret, Copied(Untouched(c.n), k.data, c.n))

\* A wrapper that calls the kernel itself.
Direct(c, k, data) ==
    [sees |-> Native(c, k),
     ev |-> rr_log_syscall(c.fn, to_log_int(Native(c, k)), data)]

\* A wrapper that goes through the ring; -1 stands for a call that could not
\* be submitted.
Ring(c, k, data) ==
    LET raw == IF k.ok THEN k.ret ELSE -1 IN
    [sees |-> raw_to_int(raw, Copied(Untouched(c.n), k.data, c.n)),
     ev |-> rr_log_syscall(c.fn, raw, data)]

read(c, k) == IF c.n = 0 THEN Direct(c, k, <<>>) ELSE Ring(c, k, k.data)
recv(c, k) == Ring(c, k, k.data)
write(c, k) == IF c.n = 0 THEN Direct(c, k, <<>>) ELSE Ring(c, k, <<>>)

\* send, accept, connect, openat, close
status_call(c, k) == Ring(c, k, <<>>)

\* clock_gettime, gettimeofday
time_call(c, k) == Direct(c, k, k.data)

\* uname, stat, fstat, lstat
struct_call(c, k) == Direct(c, k, k.data)

\* getpid, getuid: the caller gets the kernel's value, the event an int32_t.
id_call(c, k) ==
    [sees |-> Result(k.ret, 0, <<>>),
     ev |-> rr_log_syscall(c.fn, ToInt(k.ret), <<>>)]

\* getcwd returns a pointer: 1 for one that is not NULL.  The event has the
\* string without its NUL, as far as size bytes go.
getcwd(c, k) ==
    [sees |-> IF k.ret < 0
              THEN Result(0, -k.ret, Untouched(c.n))
              ELSE Result(1, 0, Copied(Untouched(c.n), k.data, c.n)),
     ev |-> rr_log_syscall(c.fn, k.ret,
                IF k.ret < 0 THEN <<>>
                ELSE SubSeq(k.data, 1, Min({Len(k.data) - 1, c.n})))]

Recorded(c, k) ==
    CASE c.fn = "read" -> read(c, k)
      [] c.fn = "recv" -> recv(c, k)
      [] c.fn = "write" -> write(c, k)
      [] c.fn \in StatusFns -> status_call(c, k)
      [] c.fn \in TimeFns -> time_call(c, k)
      [] c.fn \in StructFns -> struct_call(c, k)
      [] c.fn \in {"getpid", "getuid"} -> id_call(c, k)
      [] c.fn = "getcwd" -> getcwd(c, k)

\* nanosleep: timerfd_create and timerfd_settime may fail; the read of the
\* timer may not be submitted, or fail; else rem is zeroed.
nanosleep(c, k) ==
    LET raw == IF k.ok THEN k.ret ELSE -1 IN
    [sees |-> raw_to_int(raw, IF raw < 0 THEN Untouched(c.n)
                                         ELSE [i \in 1..c.n |-> 0]),
     ev |-> rr_log_syscall(c.fn, raw, <<>>)]

-----------------------------------------------------------------------------
(* Replaying: what the caller sees of an event.                            *)

\* Data is copied when the call succeeded, never past the buffer.
WithData(c, ev) ==
    raw_to_int(ev.retval, IF ev.retval < 0 THEN Untouched(c.n)
                          ELSE Copied(Untouched(c.n), ev.data, c.n))

\* read and recv copy no more than they return.
read_replayed(c, ev) ==
    raw_to_int(ev.retval, Copied(Untouched(c.n), ev.data, ev.retval))

\* write, the status calls, getpid and nanosleep: the value alone.
value_replayed(c, ev) == raw_to_int(ev.retval, Untouched(c.n))

\* getuid: a negative value becomes (uid_t)-1.
getuid_replayed(c, ev) ==
    LET r == raw_to_int(ev.retval, <<>>) IN
    Result(ToUnsigned(r.ret), r.errno, <<>>)

\* getcwd: the string of the event, its NUL added; NULL without a buffer.
getcwd_replayed(c, ev) ==
    IF ev.retval < 0 THEN Result(0, -ev.retval, Untouched(c.n))
    ELSE IF c.n = 0 THEN Result(0, 0, <<>>)
    ELSE LET len == Min({Len(ev.data), c.n - 1}) IN
         Result(1, 0, [Copied(Untouched(c.n), ev.data, len)
                        EXCEPT ![len + 1] = NUL])

Replayed(c, ev) ==
    CASE c.fn \in {"read", "recv"} -> {read_replayed(c, ev)}
      [] c.fn \in TimeFns ->
            IF virtual THEN {WithData(c, ev)}
                       ELSE {Native(c, k) : k \in Kernel(c)}
      [] c.fn \in StructFns -> {WithData(c, ev)}
      [] c.fn = "getuid" -> {getuid_replayed(c, ev)}
      [] c.fn = "getcwd" -> {getcwd_replayed(c, ev)}
      [] OTHER -> {value_replayed(c, ev)}

-----------------------------------------------------------------------------
(* The thread.                                                             *)

Calls ==
    [fn : {"read"}, fd : {"stream", "file"}, n : 0..MaxSize] \cup
    [fn : {"recv"}, fd : {"stream"}, n : 0..MaxSize] \cup
    [fn : {"write", "getcwd"}, fd : {"none"}, n : 0..MaxSize] \cup
    [fn : {"accept"}, fd : {"none"}, n : 0..1] \cup
    [fn : StatusFns \cup {"getpid", "getuid"}, fd : {"none"}, n : {0}] \cup
    [fn : TimeFns, fd : {"none"}, n : {TimeSize}] \cup
    [fn : StructFns, fd : {"none"}, n : {StructSize}]

Sleeps == [fn : {"nanosleep"}, fd : {"zero", "positive"}, n : 0..1]

Returns(k, r) ==
    /\ kernel' = Append(kernel, k)
    /\ seen' = Append(seen, r.sees)
    /\ log' = Append(log, r.ev)

\* A call that is answered.
CallRecorded ==
    \E c \in Calls : \E k \in Kernel(c) :
        /\ mode = "record"
        /\ Len(calls) < MaxCalls
        /\ calls' = Append(calls, c)
        /\ Returns(k, Recorded(c, k))
        /\ stream' = IF c.fd = "stream" THEN stream + Len(k.data) ELSE stream
        /\ UNCHANGED <<mode, virtual, again>>

\* nanosleep arms a timer and reads it; or one of the steps fails at once.
SleepBegins ==
    \E c \in Sleeps :
        /\ mode = "record"
        /\ Len(calls) < MaxCalls
        /\ calls' = Append(calls, c)
        /\ \/ mode' = "asleep" /\ UNCHANGED <<kernel, seen, log>>
           \/ /\ \E k \in {Fails, NotSubmitted} : Returns(k, nanosleep(c, k))
              /\ UNCHANGED mode
        /\ UNCHANGED <<virtual, again, stream>>

\* timerfd_settime with it_value = *req: zero disarms the timer.
Armed(c) == c.fd # "zero"

\* The call that sleeps.
Sleeper == calls[Len(calls)]

\* The timer expires and its read completes.
SleepEnds ==
    /\ mode = "asleep"
    /\ Armed(Sleeper)
    /\ mode' = "record"
    /\ LET k == Answer(0, <<>>) IN Returns(k, nanosleep(Sleeper, k))
    /\ UNCHANGED <<virtual, calls, again, stream>>

\* The recording ends and the replay begins.
ReplayBegins ==
    /\ mode = "record"
    /\ mode' = "replay"
    /\ UNCHANGED <<virtual, calls, kernel, seen, log, again, stream>>

CallReplayed ==
    LET i == Len(again) + 1 IN
    /\ mode = "replay"
    /\ i \in DOMAIN log
    /\ \E r \in Replayed(calls[i], log[i]) : again' = Append(again, r)
    /\ UNCHANGED <<mode, virtual, calls, kernel, seen, log, stream>>

WrapNext ==
    CallRecorded \/ SleepBegins \/ SleepEnds \/ ReplayBegins \/ CallReplayed

WrapSpec == WrapInit /\ [][WrapNext]_wrapVars

-----------------------------------------------------------------------------
(* Properties.                                                             *)

\* Every variable has its type, and no event holds more than DataCap bytes:
\* the memcpy of rr_log_syscall stays inside the event.
WrapTypeOK ==
    /\ mode \in {"record", "asleep", "replay"}
    /\ \A i \in DOMAIN log :
        /\ log[i].retval \in -(2^(IntBits - 1))..(2^(IntBits - 1) - 1)
        /\ Len(log[i].data) <= DataCap
    /\ \A i \in DOMAIN again : Len(again[i].buf) = calls[i].n
    /\ stream \in 0..Len(Content.stream)

\* While recording, the caller gets the kernel's answer: its value or the value
\* that stands for a failure, its errno and its bytes.  A call that could not
\* be submitted fails with EPERM.
RecordingIsTransparent ==
    \A i \in DOMAIN seen :
        LET c == calls[i]  k == kernel[i]  s == seen[i] IN
        IF ~k.ok THEN s.ret = -1 /\ s.errno = EPERM
        ELSE /\ s.errno = IF k.ret < 0 THEN -k.ret ELSE 0
             /\ k.ret < 0 => s.ret = IF c.fn = "getcwd" THEN 0 ELSE -1
             /\ k.ret >= 0 => /\ c.fn # "getcwd" => s.ret = k.ret
                              /\ c.fn # "nanosleep" =>
                                    s.buf = Copied(Untouched(c.n), k.data, c.n)

\* The replayed value is no function of the log: real time was asked for.
RealTime(c) == c.fn \in TimeFns /\ ~virtual

\* A replayed call returns what it returned when it was recorded, with the
\* same errno.  Three kinds of call do not: the clock in real time mode, a
\* user id too large for an int, and getcwd without a buffer.
ReplayReturnsSame ==
    \A i \in DOMAIN again :
        LET c == calls[i]  s == seen[i]  r == again[i] IN
        \/ RealTime(c)
        \/ c.fn = "getuid" /\ s.ret >= 2^(IntBits - 1)
        \/ c.fn = "getcwd" /\ c.n = 0
        \/ r.ret = s.ret /\ r.errno = s.errno

\* How much of its buffer a call finds in its event.
LoggedBytes(c) == IF c.fn \in {"accept", "nanosleep"} THEN 0 ELSE DataCap

\* A C string in a buffer.
StringOf(buf) ==
    LET ends == {i \in DOMAIN buf : buf[i] = NUL}
    IN IF ends = {} THEN buf ELSE SubSeq(buf, 1, Min(ends) - 1)

\* A replayed call fills the caller's buffer as the recorded one did, up to
\* DataCap bytes, and leaves the rest as it was; accept's address and
\* nanosleep's rem are not reproduced at all.  getcwd's path is cut off and
\* ended.
ReplayFillsSame ==
    \A i \in DOMAIN again :
        LET c == calls[i]  s == seen[i].buf  r == again[i].buf IN
        \/ RealTime(c)
        \/ /\ c.fn = "getcwd" /\ seen[i].ret = 1
           /\ c.n > 0 => StringOf(r) = SubSeq(StringOf(s), 1,
                                        Min({DataCap, Len(StringOf(s))}))
        \/ \A j \in 1..c.n :
            r[j] = IF j <= LoggedBytes(c) THEN s[j] ELSE Old

\* The sequences of s, one after the other.
Concat(s) ==
    LET upTo[i \in 0..Len(s)] ==
            IF i = 0 THEN <<>> ELSE upTo[i - 1] \o s[i]
    IN upTo[Len(s)]

\* What the reads of fd handed over, one after the other.
BytesRead(fd) ==
    Concat([i \in 1..Len(seen) |->
        IF calls[i].fd = fd /\ seen[i].ret > 0
        THEN SubSeq(seen[i].buf, 1, seen[i].ret)
        ELSE <<>>])

\* Reads of a regular file get its bytes in order, none twice and none left
\* out.
FileInOrder ==
    \E n \in 0..Len(Content.file) :
        BytesRead("file") = SubSeq(Content.file, 1, n)

=============================================================================
