------------------------------ MODULE MiniBSDemo ------------------------------
(***************************************************************************)
(* The programs of "Blatt 6 - MiniBS Dynamisch/processes.c" on the         *)
(* cooperative kernel.                                                     *)
(***************************************************************************)
EXTENDS MiniBS, DemoPrograms

demoVars == <<vars, programVars>>

DemoInit == Init /\ ProgramInit(Proc)

Runs(op, x) == InUserCode /\ Executes(active_process, op, x)

Create(f) == Runs("create", f) /\ create_process /\ Created(active_process, next_pid, f)

NewSignal(i) ==
    /\ Runs("new", i)
    /\ mbs_signal_new
    /\ bed' = [bed EXCEPT ![i] = NewSid]
    /\ UNCHANGED <<function, child>>

CallOnSignal(i) ==
    /\ \/ Runs("swait", i) /\ mbs_swait(bed[i])
       \/ Runs("signal", i) /\ mbs_signal(bed[i])
    /\ UNCHANGED <<function, child, bed>>

WaitForChild(k) ==
    /\ Runs("waitpid", k)
    /\ waitpid(child[active_process][k])
    /\ UNCHANGED <<function, child, bed>>

println == Runs("println", 0) /\ UNCHANGED <<vars, function, child, bed>>

Assign(i) == InUserCode /\ Assigns(active_process, i) /\ UNCHANGED vars

(* Nothing changes any more: a process that polls keeps the processor, or  *)
(* the Unix process has exited or hangs.                                   *)
Polling == InUserCode /\ Spins(active_process)
AtRest == Polling \/ host \notin {"boot", "running"}
Stay == AtRest /\ UNCHANGED demoVars

DemoNext ==
    \/ Boot /\ UNCHANGED programVars
    \/ \E f \in DOMAIN Text : Create(f)
    \/ \E i \in 0..3 : NewSignal(i) \/ CallOnSignal(i) \/ Assign(i)
    \/ \E k \in 1..2 : WaitForChild(k)
    \/ println
    \/ InUserCode /\ AtEnd(active_process) /\ process_wrapper_End /\ UNCHANGED programVars
    \/ (waitpid_Resume \/ mbs_swait_Resume) /\ UNCHANGED programVars
    \/ Stay

(* The Unix process gets processor time: steps go on unless the active     *)
(* process only polls, or the kernel has exited or hangs.  Behaviours that *)
(* end early are among the fair ones.  This is WF_demoVars(DemoNext) with  *)
(* its ENABLED spelled out.                                                *)
Fairness == []<>AtRest \/ []<><<DemoNext>>_demoVars

DemoSpec == DemoInit /\ [][DemoNext]_demoVars /\ Fairness

-----------------------------------------------------------------------------
(* The programs keep every obligation the kernel needs, so what is shown   *)
(* under the obligations holds of the system as it is shipped              *)
(* (processes.c:13-146).                                                   *)
KeepsObligations ==
    InUserCode =>
        IF AtEnd(active_process) THEN MayExit(active_process)
        ELSE LET op == Instruction(active_process)[1]
                 x == Instruction(active_process)[2]
             IN  CASE op = "signal"  -> MaySignal(bed[x])
                   [] op = "waitpid" -> MayWaitpid(child[active_process][x])
                                       /\ AloneInWaitpid(child[active_process][x])
                   [] OTHER          -> TRUE

(* Process p runs function f and has come back from mbs_swait(bed[i]);     *)
(* some process runs f and has called mbs_signal(bed[i]).                  *)
Passed(p, f, i) == Past(p, f, "swait", i) /\ at[p] # "swait"
Set(f, i) == \E p \in Proc : Past(p, f, "signal", i)

(* proc1 passes B1 and B2 only after proc2 and proc3 have set them, and    *)
(* those pass B4 and B3 only after proc1 has (processes.c:13-66).          *)
MeetingOrder ==
    \A p \in Proc :
        /\ Passed(p, "proc1", 0) => Set("proc2", 0)
        /\ Passed(p, "proc1", 1) => Set("proc3", 1)
        /\ Passed(p, "proc2", 3) => Set("proc1", 3)
        /\ Passed(p, "proc3", 2) => Set("proc1", 2)

(* The part with signals ends: init comes back from waitpid(proc1) and     *)
(* starts the second part (processes.c:139-143).  Neither a process that   *)
(* polls nor an exit of the kernel, which ends the Unix process when       *)
(* nothing is runnable (process_manager.c:95-99), comes before.            *)
SignalPartEnds == <>(host = "running" /\ function[active_process] = "bw_proc1")

(* The part that polls starves: nothing takes the processor from bw_proc1, *)
(* so the processes it waits for never run an instruction                  *)
(* (processes.c:78-130).                                                   *)
PollingStarves ==
    \A p \in Proc : function[p] \in {"bw_proc2", "bw_proc3"} =>
        active_process # p /\ line[p] = 1
=============================================================================
