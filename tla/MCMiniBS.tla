------------------------------ MODULE MCMiniBS ------------------------------
(***************************************************************************)
(* Instances of MiniBS for TLC.                                            *)
(***************************************************************************)
EXTENDS MiniBSPromise

(* malloc hands out fresh zero pages (0 is a pid: that of init) or blocks  *)
(* that hold something that is no pid.                                     *)
MCGarbage == {NoPid, 0}
=============================================================================
