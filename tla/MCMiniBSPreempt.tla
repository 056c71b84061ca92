-------------------------- MODULE MCMiniBSPreempt --------------------------
(***************************************************************************)
(* Instances of MiniBSPreempt for TLC.                                     *)
(***************************************************************************)
EXTENDS MiniBSPreempt

(* The points at which the timer signal does no harm to careful programs.  *)
SafePoints == Points \ Harmful

BeforeSleep == {"user", "w_block", "w_for"}
=============================================================================
