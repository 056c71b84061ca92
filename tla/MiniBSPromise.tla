---------------------------- MODULE MiniBSPromise ----------------------------
(***************************************************************************)
(* The kernel of MiniBS implements KernelPromise, for programs that keep   *)
(* all the obligations.  A process is inside a call in the promise while   *)
(* the kernel has its context stored in that call, whatever the queue and  *)
(* the state the kernel keeps for it.                                      *)
(***************************************************************************)
EXTENDS MiniBS

CallOf(p) ==
    IF at[p] \in {"waitpid", "swait"} THEN [op |-> at[p], on |-> arg[p]] ELSE NULL

(* The variables of the promise                                            *)
CreatedPids == {p \in Proc : state[p] # "NONE"}
InCall      == [p \in Proc |-> CallOf(p)]
Finished    == {p \in Proc : Ended(p)}
WaitedFor   == {p \in Proc : Reaped(p)}
Used        == {s \in Sid : signals[s].used}
SetSids     == {s \in Sid : signals[s].value = 1}

Promise == INSTANCE KernelPromise WITH
    None <- NULL, created <- CreatedPids, call <- InCall, ended <- Finished,
    reaped <- WaitedFor, used <- Used, set <- SetSids, running <- active_process

(* NULL, no call, is none of the calls.                                    *)
ASSUME PromiseAssumption == NULL \notin Promise!Calls

(* Every step of the kernel is one the comments allow: a call returns      *)
(* exactly when they say it does, no wake-up is missed or invented, and    *)
(* the ready process with the smallest pid gets the processor              *)
(* (syscalls.h:9-28, process_manager.c:107-108).                           *)
KeepsPromise == Promise!Spec
=============================================================================
