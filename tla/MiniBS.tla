------------------------------- MODULE MiniBS -------------------------------
(***************************************************************************)
(* The kernel of "Blatt 6 - MiniBS Dynamisch" (process_manager.c,          *)
(* syscalls.c): cooperative user-level processes in one Unix process.  A   *)
(* process runs until a system call of its own blocks it or its main       *)
(* function returns; schedule() then picks the runnable process with the   *)
(* smallest pid.  Nothing preempts, so a system call is one step up to the *)
(* point where it calls schedule(), and one more step from the return of   *)
(* schedule() to its own return.                                           *)
(*                                                                         *)
(* The processes are arbitrary programs: in user code the active process   *)
(* may make any call with any argument.  Discipline names the obligations  *)
(* such programs keep; with {} there are none.                             *)
(***************************************************************************)
EXTENDS PQueue, Integers

CONSTANTS MaxProcs,    \* bound: processes created in a run (next_pid never wraps)
          NumSignals,  \* NUM_SIGNALS
          Garbage,     \* what the uninitialised waiting_for of a new process may hold
          Discipline   \* which of Obligations the programs keep

NoPid == -1            \* stands for every int that is no process number
Sid == 0..(NumSignals - 1)
Obligations == {"signal", "free", "waitpid", "alone", "exit"}

ASSUME KernelAssumption ==
    /\ MaxProcs \in Nat \ {0}
    /\ NumSignals \in Nat \ {0}
    /\ Proc = 0..(MaxProcs - 1)
    /\ Garbage # {} /\ Garbage \subseteq Proc \cup {NoPid}
    /\ Discipline \subseteq Obligations

VARIABLES
    next_pid,          \* number of the next process
    state,             \* process_t.state ("NONE": the structure is not allocated)
    waiting_for,       \* process_t.waiting_for
    mem,               \* run_queue, wait_queue, zombie_queue and the next fields
    active_process,
    signals,           \* [Sid -> [used, value, waiting]]
    at,                \* where the saved context of a process continues
    arg,               \* argument of the call it is in (NoPid in user code)
    host               \* the Unix process: "boot", "running", "exited" or "hung"

procVars == <<state, waiting_for>>
ctxVars == <<at, arg>>
vars == <<next_pid, state, waiting_for, mem, active_process, signals, at, arg, host>>

TypeOK ==
    /\ next_pid \in 0..MaxProcs
    /\ state \in [Proc -> {"NONE", "RUNNABLE", "BLOCKED", "ZOMBIE"}]
    /\ waiting_for \in [Proc -> Proc \cup {NoPid}]
    /\ mem \in Memory
    /\ active_process \in Pointer
    /\ signals \in [Sid -> [used : BOOLEAN, value : {0, 1}, waiting : Pointer]]
    /\ at \in [Proc -> {"none", "user", "waitpid", "swait", "exit"}]
    /\ arg \in [Proc -> Proc \cup Sid \cup {NoPid}]
    /\ \A p \in Proc : /\ at[p] = "waitpid" => arg[p] \in Proc \cup {NoPid}
                       /\ at[p] = "swait" => arg[p] \in Sid
    /\ host \in {"boot", "running", "exited", "hung"}

Init ==
    /\ next_pid = 0
    /\ state = [p \in Proc |-> "NONE"]
    /\ waiting_for = [p \in Proc |-> NoPid]
    /\ mem = EmptyQueues
    /\ active_process = NULL
    /\ signals = [s \in Sid |-> [used |-> FALSE, value |-> 0, waiting |-> NULL]]
    /\ at = [p \in Proc |-> "none"]
    /\ arg = [p \in Proc |-> NoPid]
    /\ host = "boot"

-----------------------------------------------------------------------------
(* schedule() and what it calls                                            *)

QueueOf(st) == CASE st = "RUNNABLE" -> "run"
                 [] st = "BLOCKED"  -> "wait"
                 [] st = "ZOMBIE"   -> "zombie"

select_next_process_FIFO(m) == m.first["run"]      \* mutant: the head is taken

select_next_process(m) ==
    LET runnable == Members(m, "run")
    IN  CHOOSE p \in runnable : \A x \in runnable : p <= x

(* The queues after schedule() has filed the active process, whose state   *)
(* is st.                                                                  *)
Filed(m, st) ==
    IF active_process = NULL THEN m ELSE queue_append(m, QueueOf(st), active_process)

(* What schedule() makes of the queues m: it exits the Unix process when   *)
(* nothing is runnable and never returns when the run list is cyclic.      *)
Scheduled(m, st) ==
    LET filed == Filed(m, st)
        chosen == select_next_process(filed)
    IN  IF filed.first["run"] = NULL
        THEN [host |-> "exited", active |-> NULL, mem |-> filed]
        ELSE IF Endless(filed, "run")
        THEN [host |-> "hung", active |-> active_process, mem |-> filed]
        ELSE [host |-> "running", active |-> chosen,
              mem |-> queue_dequeue(filed, "run", chosen)]

schedule(m, st) ==
    LET next == Scheduled(m, st)
    IN  host' = next.host /\ active_process' = next.active /\ mem' = next.mem

-----------------------------------------------------------------------------
(* Obligations of the programs                                             *)

Obliged(name, condition) == name \in Discipline => condition

Ended(p) == at[p] = "exit"
Reaped(p) == Ended(p) /\ p \notin Members(mem, "zombie")

(* A variable is not signalled again before the process it woke has run.   *)
MaySignal(s) == signals[s].waiting # NULL => state[signals[s].waiting] = "BLOCKED"

(* A variable is not freed while a process is inside mbs_swait on it.      *)
MayFree(s) == \A p \in Proc : at[p] = "swait" => arg[p] # s

(* waitpid is called for another process that nobody has waited for yet,   *)
MayWaitpid(q) == q \in Proc \ {active_process} /\ ~ Reaped(q)

(* nor is waiting for at the moment.                                       *)
AloneInWaitpid(q) == \A w \in Proc : at[w] = "waitpid" => arg[w] # q

(* A process does not end while another sleeps in mbs_swait whose left-    *)
(* over or uninitialised waiting_for happens to be its pid.                *)
MayExit(p) == \A w \in Proc : at[w] = "swait" /\ state[w] = "BLOCKED" => waiting_for[w] # p

-----------------------------------------------------------------------------
(* main() and the system calls                                             *)

(* The process structure of create_process.                                *)
Allocate(p) ==
    /\ next_pid' = next_pid + 1
    /\ state' = [state EXCEPT ![p] = "RUNNABLE"]
    /\ \E g \in Garbage : waiting_for' = [waiting_for EXCEPT ![p] = g]
    /\ at' = [at EXCEPT ![p] = "user"]
    /\ UNCHANGED <<arg, signals>>

(* main: create_process(init); schedule().                                 *)
Boot ==
    /\ host = "boot"
    /\ Allocate(next_pid)
    /\ schedule(queue_append(mem, "run", next_pid), "RUNNABLE")

(* The active process executes its main function.                          *)
InUserCode == host = "running" /\ at[active_process] = "user"

(* The active process returns from the schedule() it called in `call'.     *)
ResumedIn(call) == host = "running" /\ at[active_process] = call

create_process ==
    /\ InUserCode
    /\ next_pid < MaxProcs
    /\ Allocate(next_pid)
    /\ mem' = queue_append(mem, "run", next_pid)
    /\ UNCHANGED <<active_process, host>>

(* The active process blocks inside `call' with argument x.                *)
Block(call, x) ==
    /\ state' = [state EXCEPT ![active_process] = "BLOCKED"]
    /\ at' = [at EXCEPT ![active_process] = call]
    /\ arg' = [arg EXCEPT ![active_process] = x]
    /\ schedule(mem, "BLOCKED")

(* `call' returns to the user code of the active process.                  *)
ReturnToUser ==
    /\ at' = [at EXCEPT ![active_process] = "user"]
    /\ arg' = [arg EXCEPT ![active_process] = NoPid]
    /\ UNCHANGED <<active_process, host>>

(* The loop of waitpid, entered at the call and after each schedule().     *)
WaitpidLoop(q) ==
    /\ IF q \in Members(mem, "zombie")
       THEN /\ mem' = queue_dequeue(mem, "zombie", q)
            /\ ReturnToUser
            /\ UNCHANGED procVars
       ELSE /\ waiting_for' = [waiting_for EXCEPT ![active_process] = q]
            /\ Block("waitpid", q)
    /\ UNCHANGED <<next_pid, signals>>

waitpid(q) ==
    /\ InUserCode
    /\ Obliged("waitpid", MayWaitpid(q))
    /\ Obliged("alone", AloneInWaitpid(q))
    /\ WaitpidLoop(q)

waitpid_Resume == ResumedIn("waitpid") /\ WaitpidLoop(arg[active_process])

FreeSids == {s \in Sid : ~ signals[s].used}

(* What mbs_signal_new returns.                                            *)
NewSid ==
    IF FreeSids = {} THEN -1 ELSE CHOOSE s \in FreeSids : \A t \in FreeSids : s <= t

mbs_signal_new ==
    /\ InUserCode
    /\ IF FreeSids = {} THEN UNCHANGED signals
       ELSE signals' = [signals EXCEPT ![NewSid] = [used |-> TRUE, value |-> 0, waiting |-> NULL]]
    /\ UNCHANGED <<next_pid, procVars, mem, active_process, ctxVars, host>>

(* CHECK_SID passes.                                                       *)
ValidSid(s) == s \in Sid /\ signals[s].used

mbs_signal_free(s) ==
    /\ InUserCode
    /\ Obliged("free", MayFree(s))
    /\ IF ValidSid(s) THEN signals' = [signals EXCEPT ![s].used = FALSE]
       ELSE UNCHANGED signals
    /\ UNCHANGED <<next_pid, procVars, mem, active_process, ctxVars, host>>

mbs_swait_NoWaiterCheck(s) ==   \* mutant: `waiting != NULL' not checked
    /\ InUserCode
    /\ ValidSid(s)
    /\ IF signals[s].value = 0
       THEN /\ signals' = [signals EXCEPT ![s].waiting = active_process]
            /\ Block("swait", s)
       ELSE /\ signals' = [signals EXCEPT ![s].value = 0, ![s].waiting = NULL]
            /\ UNCHANGED <<mem, active_process, state, ctxVars, host>>
    /\ UNCHANGED <<next_pid, waiting_for>>

mbs_swait_NoBlock(s) ==         \* mutant: the value is not looked at
    /\ InUserCode
    /\ IF ValidSid(s) /\ signals[s].waiting = NULL
       THEN signals' = [signals EXCEPT ![s].value = 0]
       ELSE UNCHANGED signals
    /\ UNCHANGED <<next_pid, procVars, mem, active_process, ctxVars, host>>

mbs_swait(s) ==
    /\ InUserCode
    /\ IF ~ ValidSid(s) \/ signals[s].waiting # NULL      \* returns -1
       THEN UNCHANGED <<signals, mem, active_process, state, ctxVars, host>>
       ELSE IF signals[s].value = 0
       THEN /\ signals' = [signals EXCEPT ![s].waiting = active_process]
            /\ Block("swait", s)
       ELSE /\ signals' = [signals EXCEPT ![s].value = 0, ![s].waiting = NULL]
            /\ UNCHANGED <<mem, active_process, state, ctxVars, host>>
    /\ UNCHANGED <<next_pid, waiting_for>>

mbs_swait_Resume_KeepsWaiter ==   \* mutant: `waiting = NULL' forgotten
    /\ ResumedIn("swait")
    /\ signals' = [signals EXCEPT ![arg[active_process]].value = 0]
    /\ ReturnToUser
    /\ UNCHANGED <<next_pid, procVars, mem>>

(* After schedule() mbs_swait checks nothing again.                        *)
mbs_swait_Resume ==
    /\ ResumedIn("swait")
    /\ signals' = [signals EXCEPT ![arg[active_process]].value = 0,
                                  ![arg[active_process]].waiting = NULL]
    /\ ReturnToUser
    /\ UNCHANGED <<next_pid, procVars, mem>>

(* mutants: the value is counted; the woken process is not put into        *)
(* run_queue; the value is not set when a process waits                    *)
mbs_signal_Counts(s) ==
    LET w == signals[s].waiting
    IN  /\ InUserCode
        /\ ValidSid(s)
        /\ Obliged("signal", MaySignal(s))
        /\ w = NULL
        /\ signals' = [signals EXCEPT ![s].value = @ + 1]
        /\ UNCHANGED <<next_pid, procVars, mem, active_process, ctxVars, host>>

mbs_signal_NoAppend(s) ==
    LET w == signals[s].waiting
    IN  /\ InUserCode
        /\ ValidSid(s)
        /\ Obliged("signal", MaySignal(s))
        /\ signals' = [signals EXCEPT ![s].value = 1]
        /\ IF w = NULL THEN UNCHANGED <<mem, state>>
           ELSE /\ state' = [state EXCEPT ![w] = "RUNNABLE"]
                /\ mem' = queue_dequeue(mem, "wait", w)
        /\ UNCHANGED <<next_pid, waiting_for, active_process, ctxVars, host>>

mbs_signal_NoValue(s) ==
    LET w == signals[s].waiting
    IN  /\ InUserCode
        /\ ValidSid(s)
        /\ Obliged("signal", MaySignal(s))
        /\ IF w = NULL
           THEN signals' = [signals EXCEPT ![s].value = 1] /\ UNCHANGED <<mem, state>>
           ELSE /\ state' = [state EXCEPT ![w] = "RUNNABLE"]
                /\ mem' = queue_append(queue_dequeue(mem, "wait", w), "run", w)
                /\ UNCHANGED signals
        /\ UNCHANGED <<next_pid, waiting_for, active_process, ctxVars, host>>

mbs_signal(s) ==
    LET w == signals[s].waiting
    IN  /\ InUserCode
        /\ IF ~ ValidSid(s) THEN UNCHANGED <<signals, mem, state>>
           ELSE /\ Obliged("signal", MaySignal(s))
                /\ signals' = [signals EXCEPT ![s].value = 1]
                /\ IF w = NULL THEN UNCHANGED <<mem, state>>
                   ELSE /\ state' = [state EXCEPT ![w] = "RUNNABLE"]
                        /\ mem' = queue_append(queue_dequeue(mem, "wait", w), "run", w)
        /\ UNCHANGED <<next_pid, waiting_for, active_process, ctxVars, host>>

(* mutants: nobody is woken; `state = STATE_ZOMBIE' forgotten              *)
process_wrapper_End_NoWake ==
    /\ InUserCode
    /\ Obliged("exit", MayExit(active_process))
    /\ state' = [state EXCEPT ![active_process] = "ZOMBIE"]
    /\ schedule(mem, "ZOMBIE")
    /\ at' = [at EXCEPT ![active_process] = "exit"]
    /\ UNCHANGED <<next_pid, waiting_for, signals, arg>>

process_wrapper_End_Runnable ==
    /\ InUserCode
    /\ Obliged("exit", MayExit(active_process))
    /\ schedule(mem, "RUNNABLE")
    /\ at' = [at EXCEPT ![active_process] = "exit"]
    /\ UNCHANGED <<next_pid, procVars, signals, arg>>

(* process_wrapper from the return of the main function on: the process    *)
(* becomes a zombie and the first process waiting for it is woken.         *)
process_wrapper_End ==
    LET p == active_process
        woken == Found(mem, "wait", {x \in Proc : waiting_for[x] = p})
        w == CHOOSE x \in woken : TRUE
        ended == [state EXCEPT ![p] = "ZOMBIE"]
    IN  /\ InUserCode
        /\ Obliged("exit", MayExit(p))
        /\ IF woken = {}
           THEN state' = ended /\ schedule(mem, "ZOMBIE")
           ELSE /\ state' = [ended EXCEPT ![w] = "RUNNABLE"]
                /\ schedule(queue_append(queue_dequeue(mem, "wait", w), "run", w), "ZOMBIE")
        /\ at' = [at EXCEPT ![p] = "exit"]
        /\ UNCHANGED <<next_pid, waiting_for, signals, arg>>

(* The Unix process is gone (or spins for ever).                           *)
Stopped == host \in {"exited", "hung"} /\ UNCHANGED vars

SystemCall ==
    \/ create_process
    \/ mbs_signal_new
    \/ \E q \in Proc \cup {NoPid} : waitpid(q)
    \/ \E s \in Sid : mbs_swait(s) \/ mbs_signal(s) \/ mbs_signal_free(s)

Next ==
    \/ Boot
    \/ SystemCall
    \/ waitpid_Resume
    \/ mbs_swait_Resume
    \/ process_wrapper_End
    \/ Stopped

Spec == Init /\ [][Next]_vars

-----------------------------------------------------------------------------
(* Properties of programs that keep the obligations                        *)

(* The three lists stay proper lists with a true end, and no process is in *)
(* two of them, whatever the order of calls (process_manager.h:30-34).     *)
QueuesWellFormed == Proper(mem)

(* No process is lost or kept twice: a runnable process is the active one  *)
(* or in run_queue, a blocked one in wait_queue, and zombie_queue has only *)
(* zombies (the switch of schedule, and every wake-up that changes state   *)
(* and queue together).                                                    *)
NoProcessLost ==
    /\ active_process \notin Members(mem, "run")
    /\ \A p \in Proc :
        /\ state[p] = "RUNNABLE" <=> p = active_process \/ p \in Members(mem, "run")
        /\ state[p] = "BLOCKED" <=> p \in Members(mem, "wait")
        /\ p \in Members(mem, "zombie") => state[p] = "ZOMBIE"

(* A process asleep in waitpid waits for a process that has not ended: its *)
(* end wakes the waiter (syscalls.h:12-15, process_manager.c:57-61).       *)
WaitpidNotForgotten ==
    \A w \in Members(mem, "wait") :
        at[w] = "waitpid" /\ arg[w] \in Proc => ~ Ended(arg[w])

(* A process asleep in mbs_swait is the registered waiter of its variable, *)
(* which is in use and unset: no signal has been missed (syscalls.c:129).  *)
SwaitNotForgotten ==
    \A w \in Members(mem, "wait") :
        at[w] = "swait" => signals[arg[w]] = [used |-> TRUE, value |-> 0, waiting |-> w]

(* The Unix process ends only when no process is runnable any more         *)
(* (process_manager.c:96).                                                 *)
EndsWhenNothingRunnable == host = "exited" => \A p \in Proc : state[p] # "RUNNABLE"

(* Properties of all programs                                              *)

(* signals[].waiting never points to a process that has left mbs_swait.    *)
WaiterIsInSwait ==
    \A s \in Sid : signals[s].waiting # NULL =>
        at[signals[s].waiting] = "swait" /\ arg[signals[s].waiting] = s

(* schedule() never returns into a process that has ended                  *)
(* (process_manager.c:63-67).                                              *)
ZombieNeverResumed == host = "running" => at[active_process] # "exit"

=============================================================================
