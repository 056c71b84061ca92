-------------------------- MODULE MCLeakingProgram ---------------------------
(***************************************************************************)
(* The allocation monitor for TLC, with its limits, the blocks of main and *)
(* the widths of size_t and int scaled down.                               *)
(***************************************************************************)
EXTENDS LeakingProgram

MCLength == [foo |-> 3, bar |-> 2, answer |-> 2]

(* A size that is granted, zero, and a char below zero.                    *)
MCChars == {0, 4, 6, -6}
=============================================================================
