----------------------------- MODULE PreemptDemo -----------------------------
(***************************************************************************)
(* The programs of "Blatt 5 - Mini-BS/Aufgabe 8 - MiniBS/processes.c" on   *)
(* the preemptive kernel.                                                  *)
(***************************************************************************)
EXTENDS MiniBSPreempt, DemoPrograms

VARIABLE ran           \* since the last signal a process has executed something

demoVars == <<vars, programVars, ran>>

DemoInit == Init /\ ProgramInit(Proc) /\ ran = FALSE

Runs(op, x) == Executing("user") /\ Executes(active_process, op, x)

Create(f) == Runs("create", f) /\ create_process /\ Created(active_process, next_pid, f)

NewSignal(i) ==
    /\ Runs("new", i)
    /\ mbs_signal_new
    /\ bed' = [bed EXCEPT ![i] = NewSid]
    /\ UNCHANGED <<function, child>>

CallOnSignal(i) ==
    /\ \/ Runs("swait", i) /\ mbs_swait(bed[i])
       \/ Runs("signal", i) /\ mbs_signal(bed[i])
    /\ UNCHANGED <<function, child, bed>>

WaitForChild(k) ==
    /\ Runs("waitpid", k)
    /\ waitpid(child[active_process][k])
    /\ UNCHANGED <<function, child, bed>>

Say_ == Runs("println", 0) /\ println /\ UNCHANGED <<function, child, bed>>

Assign(i) == Executing("user") /\ Assigns(active_process, i) /\ UNCHANGED vars

Return ==
    /\ Executing("user") /\ AtEnd(active_process)
    /\ process_wrapper_State
    /\ UNCHANGED programVars

(* The rest of a call that has been entered.                               *)
InKernel ==
    /\ \/ schedule_Switch
       \/ waitpid_State \/ waitpid_For \/ waitpid_Schedule \/ waitpid_Again
       \/ mbs_swait_Value \/ mbs_swait_Waiting \/ mbs_signal_Append
       \/ process_wrapper_Wake \/ process_wrapper_Schedule
    /\ UNCHANGED programVars

Moves ==
    \/ Boot /\ UNCHANGED programVars
    \/ \E f \in DOMAIN Text : Create(f)
    \/ \E i \in 0..3 : NewSignal(i) \/ CallOnSignal(i) \/ Assign(i)
    \/ \E k \in 1..2 : WaitForChild(k)
    \/ Say_
    \/ Return
    \/ InKernel

Polling == Executing("user") /\ Spins(active_process)

Step == Moves /\ ran' = (ran \/ (host = "running" /\ Here # "schedule"))

(* 500 ms of processor time lie between two signals: a process has         *)
(* executed a statement since the last one, or turned in its loop.         *)
Tick ==
    /\ ran \/ Polling
    /\ handleSigprof /\ ran' = FALSE
    /\ UNCHANGED programVars

Done == host = "exited" /\ UNCHANGED demoVars

DemoNext == Step \/ Tick \/ Done

(* The Unix process gets processor time, and its timer goes on: steps go   *)
(* on unless the active process only polls, and the signal arrives when a  *)
(* process runs with it unblocked for long, which only one that polls      *)
(* does.  These are WF_demoVars(Step) and WF_demoVars(Tick) with ENABLED   *)
(* spelled out.                                                            *)
Fairness ==
    /\ []<>(Polling \/ host \notin {"boot", "running"}) \/ []<><<Step>>_demoVars
    /\ []<>(~ Polling \/ blocked) \/ []<><<Tick>>_demoVars

DemoSpec == DemoInit /\ [][DemoNext]_demoVars /\ Fairness

-----------------------------------------------------------------------------
(* run_queue is served in turn: who is in it gets the processor, whatever  *)
(* the numbers of the others.  select_next_process takes its head          *)
(* (process_manager.c:159-163), although the comment before it promises    *)
(* the smallest pid (process_manager.c:155-156), with which a process that *)
(* polls for one of a higher number would poll for ever.                   *)
ServedInTurn == \A p \in Proc : p \in Members(mem, "run") ~> active_process = p

(* Every process returns from its main function, and then the Unix process *)
(* exits (processes.c:134-146).                                            *)
AllReturn == <>(host = "exited" /\ \A p \in Proc : Ended(p))

(* With the timer both parts end, also for those that wait for a process   *)
(* that polls, and no process waits for its turn for ever: if the signal   *)
(* spares the four harmful windows.  In these the same programs may lose a *)
(* wake-up or damage run_queue, and nothing is claimed.  Both parts of the *)
(* conclusion rest on the order of run_queue (process_manager.c:159-163).  *)
DemoEndsUnlessHarmed == TickAt \cap Harmful = {} => ServedInTurn /\ AllReturn

(* However the timer mixes them, bw_proc1 sets B3 only after the other two *)
(* have set B1 and B2, and each of those ends only after bw_proc1 has set  *)
(* the variable it polls (processes.c:79-131).                             *)
PollingOrder ==
    \A p, q \in Proc :
        /\ Past(p, "bw_proc1", "set", 2) =>
               /\ function[q] = "bw_proc2" => Past(q, "bw_proc2", "set", 0)
               /\ function[q] = "bw_proc3" => Past(q, "bw_proc3", "set", 1)
        /\ function[p] = "bw_proc1" =>
               /\ function[q] = "bw_proc2" /\ AtEnd(q) => Past(p, "bw_proc1", "set", 3)
               /\ function[q] = "bw_proc3" /\ AtEnd(q) => Past(p, "bw_proc1", "set", 2)
=============================================================================
