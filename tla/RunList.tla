------------------------------ MODULE RunList -------------------------------
(***************************************************************************)
(* The run queue as src/librr/src/scheduler.c keeps it: a list threaded    *)
(* through uthread_t.next, with g_runq_head and g_runq_tail.               *)
(*                                                                         *)
(* Scheduler has the queue as the sequence g_runq.  Here g_runq is only a  *)
(* record of what was enqueued and popped: the scheduler takes its next    *)
(* thread, and its decision that there is none, from the list.  The list   *)
(* is shown to hold exactly g_runq, and this scheduler to implement        *)
(* Scheduler.                                                              *)
(***************************************************************************)
EXTENDS Scheduler

VARIABLES
    g_runq_head,    \* first thread of the list, or 0
    g_runq_tail,    \* last thread of the list, or 0
    next            \* next[t]: uthread_t.next, or 0

linkVars == <<g_runq_head, g_runq_tail, next>>
listVars == <<schedVars, linkVars>>

\* uthread_t comes from calloc.
ListInit ==
    /\ Init
    /\ g_runq_head = NoThread
    /\ g_runq_tail = NoThread
    /\ next = [t \in Ids |-> NoThread]

\* Mutant of ListEnqueue: the new thread is put in front.
ListEnqueueFront(ut) ==
    /\ next' = [next EXCEPT ![ut] = g_runq_head]
    /\ g_runq_head' = ut
    /\ g_runq_tail' = IF g_runq_tail = NoThread THEN ut ELSE g_runq_tail

\* Mutant of ListEnqueue: the old tail is not linked to the new one.
ListEnqueueUnlinked(ut) ==
    /\ next' = [next EXCEPT ![ut] = NoThread]
    /\ g_runq_head' = IF g_runq_tail = NoThread THEN ut ELSE g_runq_head
    /\ g_runq_tail' = ut

\* rr_scheduler_enqueue
ListEnqueue(ut) ==
    /\ IF g_runq_tail = NoThread
       THEN /\ next' = [next EXCEPT ![ut] = NoThread]
            /\ g_runq_head' = ut
       ELSE /\ next' = [next EXCEPT ![ut] = NoThread, ![g_runq_tail] = ut]
            /\ UNCHANGED g_runq_head
    /\ g_runq_tail' = ut

\* Mutant of runq_pop_front: the tail of an emptied list is kept.
PopKeepsTail ==
    /\ g_runq_head' = next[g_runq_head]
    /\ next' = [next EXCEPT ![g_runq_head] = NoThread]
    /\ UNCHANGED g_runq_tail

\* runq_pop_front of a list that is not empty.
runq_pop_front ==
    /\ g_runq_head' = next[g_runq_head]
    /\ g_runq_tail' = IF next[g_runq_head] = NoThread THEN NoThread
                                                      ELSE g_runq_tail
    /\ next' = [next EXCEPT ![g_runq_head] = NoThread]

-----------------------------------------------------------------------------
(* The operations of Scheduler, with what they do to the list.             *)

\* What a thread does without touching the queue.
KeepsList(A) == A /\ UNCHANGED linkVars

ListCreate ==
    /\ Create
    /\ IF state' # state THEN ListEnqueue(g_next_id) ELSE UNCHANGED linkVars

ListYield == Yield /\ ListEnqueue(g_current)

\* Mutant of ListExit: the waiter is not enqueued.
ListExitForgets(v) == KeepsList(Exit(v))

ListExit(v) ==
    LET w == join_waiter[g_current] IN
    /\ Exit(v)
    /\ IF w # NoThread /\ state[w] = "BLOCKED" THEN ListEnqueue(w)
                                               ELSE UNCHANGED linkVars

\* One turn of scheduler_loop.
ListDispatch ==
    /\ ~running
    /\ g_runq_head # NoThread
    /\ runq_pop_front
    /\ SwitchTo(g_runq_head)
    /\ g_runq' = Tail(g_runq)

\* rr_io_wait, when runq_pop_front returns NULL.
ListIoWakes(id) ==
    /\ ~running
    /\ g_runq_head = NoThread
    /\ Completes(id)
    /\ IF state[id] = "BLOCKED" THEN ListEnqueue(id) ELSE UNCHANGED linkVars

ListReturns == KeepsList(JoinReturns \/ IoReturns)

ListBlocks == KeepsList(IoBlocks \/ \E id \in Ids : JoinBlocks(id))

ListNext ==
    \/ ListCreate
    \/ ListYield
    \/ \E id \in Ids : KeepsList(JoinRefused(id))
    \/ \E id \in Ids : KeepsList(JoinFinished(id))
    \/ ListBlocks
    \/ ListReturns
    \/ \E v \in Retvals : ListExit(v)
    \/ ListDispatch
    \/ \E id \in Ids : ListIoWakes(id)

ListSpec == ListInit /\ [][ListNext]_listVars

\* The scheduler loop goes on, and a thread with control finishes the call it
\* is in and gives up the CPU in the end.
FairListSpec ==
    /\ ListSpec
    /\ WF_listVars(ListDispatch)
    /\ WF_listVars(ListReturns)
    /\ WF_listVars(ListYield \/ ListBlocks \/ \E v \in Retvals : ListExit(v))

-----------------------------------------------------------------------------
(* Properties.                                                             *)

\* The list is the queue: walking next from g_runq_head meets the threads of
\* g_runq in their order and ends at g_runq_tail.  A thread enqueued twice, or
\* a tail left behind by the last pop, would break it.
ListIsQueue ==
    LET n == Len(g_runq) IN
    /\ n = 0 => g_runq_head = NoThread /\ g_runq_tail = NoThread
    /\ n > 0 => /\ g_runq_head = g_runq[1]
                /\ g_runq_tail = g_runq[n]
                /\ next[g_runq[n]] = NoThread
    /\ \A i \in 1..(n - 1) : next[g_runq[i]] = g_runq[i + 1]

\* The scheduler that works on the list dispatches, and idles, exactly as the
\* one with the queue, so all that holds of Scheduler holds of it.
ImplementsQueue == SchedulerSpec

=============================================================================
