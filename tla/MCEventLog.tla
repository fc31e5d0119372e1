----------------------------- MODULE MCEventLog -----------------------------
(***************************************************************************)
(* The instances of EventLog that TLC checks.  Three units to an event,    *)
(* two of them its number, let a write stop inside the number and behind   *)
(* it; a buffer of eight units holds two events and has room left over, as *)
(* the 4 MiB buffer does.                                                  *)
(***************************************************************************)
EXTENDS EventLog
=============================================================================
