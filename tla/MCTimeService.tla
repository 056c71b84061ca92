---------------------------- MODULE MCTimeService ----------------------------
(***************************************************************************)
(* The time service for TLC.                                               *)
(***************************************************************************)
EXTENDS TimeService

(* A time zone and the magic number.                                       *)
MCGarbage == {3, Goodbye}
=============================================================================
