---------------------------- MODULE MCPreemptDemo ----------------------------
(***************************************************************************)
(* The demo programs on the preemptive kernel for TLC.                     *)
(***************************************************************************)
EXTENDS PreemptDemo

(* The points at which the timer signal does no harm.                      *)
SafePoints == Points \ Harmful
=============================================================================
