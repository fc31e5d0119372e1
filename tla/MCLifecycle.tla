---------------------------- MODULE MCLifecycle -----------------------------
(***************************************************************************)
(* The instances of Lifecycle that TLC checks.  Tables of capacity two     *)
(* grow twice with five threads, so that each insertion can be the one     *)
(* that fails; three addresses for the stacks make mmap reuse that of a    *)
(* creation that failed.                                                   *)
(***************************************************************************)
EXTENDS Lifecycle
=============================================================================
