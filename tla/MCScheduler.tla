---------------------------- MODULE MCScheduler -----------------------------
(***************************************************************************)
(* The instance of the scheduler that TLC checks, with the run queue as a  *)
(* linked list.  Three threads are enough for a ring of joins longer than  *)
(* the one uthread_join refuses, for two joiners of one target, and for a  *)
(* list with a head, a tail and a link between them.                       *)
(***************************************************************************)
EXTENDS RunList
=============================================================================
