---------------------------- MODULE MCMiniBSDemo ----------------------------
(***************************************************************************)
(* The demo programs for TLC: seven processes, four signal variables.      *)
(***************************************************************************)
EXTENDS MiniBSDemo

MCGarbage == {NoPid, 0}
=============================================================================
