--------------------------- MODULE MCRecordReplay ---------------------------
(***************************************************************************)
(* The instances of RecordReplay that TLC checks.  Three calls for each of *)
(* three threads let main create two threads and return, or create, yield  *)
(* and join; one blocking system call, overlapped or not, and one signal   *)
(* are enough to put a foreign event in front of the one that the replay   *)
(* expects.                                                                *)
(***************************************************************************)
EXTENDS RecordReplay
=============================================================================
