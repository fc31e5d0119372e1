----------------------------- MODULE UthreadApi -----------------------------
(***************************************************************************)
(* What the calls of include/rr.h promise an application, and nothing      *)
(* about how: uthread_create makes a thread live, uthread_exit finishes it *)
(* with a value, and uthread_join hands that value to its caller when, and *)
(* only when, the target has finished.  A join may be refused, but only    *)
(* for the reason its errno names.                                         *)
(*                                                                         *)
(* There is no run queue, no scheduler and no I/O here.  Scheduler is      *)
(* shown to implement this specification.                                  *)
(***************************************************************************)
EXTENDS Naturals

CONSTANTS
    MaxThreads,     \* thread ids are 1..MaxThreads; id 1 is main
    Retvals,        \* values a thread may pass to uthread_exit
    NULL            \* the null pointer, one of Retvals

VARIABLES
    status,         \* status[t]: "none", "live" or "done"
    waiting,        \* waiting[t]: the thread t is joining, 0 if none
    result,         \* result[t]: the value t passed to uthread_exit
    ret             \* what the latest uthread_join call returned, and to whom

apiVars == <<status, waiting, result, ret>>

ApiIds == 1..MaxThreads

Init ==
    /\ status = [t \in ApiIds |-> IF t = 1 THEN "live" ELSE "none"]
    /\ waiting = [t \in ApiIds |-> 0]
    /\ result = [t \in ApiIds |-> NULL]
    /\ ret = [by |-> 0, of |-> 0, res |-> "none", out |-> NULL]

Active(t) == status[t] = "live" /\ waiting[t] = 0

Spawn(id) ==
    /\ status[id] = "none"
    /\ status' = [status EXCEPT ![id] = "live"]
    /\ UNCHANGED <<waiting, result, ret>>

Finish(t, v) ==
    /\ Active(t)
    /\ status' = [status EXCEPT ![t] = "done"]
    /\ result' = [result EXCEPT ![t] = v]
    /\ UNCHANGED <<waiting, ret>>

\* At most one thread waits for a live target.
Wait(t, id) ==
    /\ Active(t)
    /\ id # t
    /\ status[id] = "live"
    /\ \A u \in ApiIds : waiting[u] # id
    /\ waiting' = [waiting EXCEPT ![t] = id]
    /\ UNCHANGED <<status, result, ret>>

\* A join succeeds only for a finished target, with the target's own value.
Joined(t, id) ==
    /\ status[t] = "live"
    /\ waiting[t] \in {0, id}
    /\ status[id] = "done"
    /\ waiting' = [waiting EXCEPT ![t] = 0]
    /\ ret' = [by |-> t, of |-> id, res |-> "ok", out |-> result[id]]
    /\ UNCHANGED <<status, result>>

Refused(t, id, errno) ==
    /\ Active(t)
    /\ \/ errno = "ESRCH" /\ status[id] = "none"
       \/ errno = "EDEADLK" /\ id = t
       \/ errno = "EBUSY" /\ \E u \in ApiIds \ {t} : waiting[u] = id
    /\ ret' = [by |-> t, of |-> id, res |-> errno, out |-> NULL]
    /\ UNCHANGED <<status, waiting, result>>

Next ==
    \/ \E id \in ApiIds : Spawn(id)
    \/ \E t \in ApiIds, v \in Retvals : Finish(t, v)
    \/ \E t, id \in ApiIds :
        \/ Wait(t, id)
        \/ Joined(t, id)
        \/ \E errno \in {"ESRCH", "EDEADLK", "EBUSY"} : Refused(t, id, errno)

Spec == Init /\ [][Next]_apiVars

=============================================================================
