----------------------------- MODULE MCWrappers -----------------------------
(***************************************************************************)
(* The instances of Wrappers that TLC checks.  An event holds two bytes,   *)
(* and buffers of up to four bytes hold less, as much and more; ints of    *)
(* four bits have user ids on both sides of the sign; two calls read the   *)
(* same stream or file twice.                                              *)
(***************************************************************************)
EXTENDS Wrappers
=============================================================================
