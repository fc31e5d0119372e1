------------------------------ MODULE MCIoRing ------------------------------
(***************************************************************************)
(* The instances of IoRing that TLC checks.  With no failing submit, three *)
(* threads with two calls each overlap their operations and complete them  *)
(* in every order.  With failing submits, two threads are enough for a     *)
(* stale completion to reach a later call or a join of the same thread.    *)
(***************************************************************************)
EXTENDS IoRing
=============================================================================
