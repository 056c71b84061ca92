---------------------------- MODULE MiniBSPreempt ----------------------------
(***************************************************************************)
(* The kernel of "Blatt 5 - Mini-BS/Aufgabe 8 - MiniBS" (process_manager.c, *)
(* syscalls.c): MiniBS with a timer.  Every 500 ms SIGPROF runs schedule() *)
(* on the stack of the active process, unless enterKernelBlockSignals() has *)
(* blocked the signal.  These calls do not nest: a queue function that     *)
(* ends with exitKernelUnblockSignals() opens the section around it.  One  *)
(* action here is the code from one point at which the signal may arrive   *)
(* to the next; between two such points the signal is blocked or nothing   *)
(* another process can see is written.  TickAt says at which points it     *)
(* does arrive, so that what each of them spoils can be told apart.        *)
(***************************************************************************)
EXTENDS PQueue, Integers

CONSTANTS MaxProcs,    \* bound: processes created in a run
          NumSignals,  \* NUM_SIGNALS
          Garbage,     \* what the uninitialised waiting_for of a new process may hold
          Careful,     \* whether the programs keep the obligations below
          TickAt,      \* the points at which SIGPROF arrives
          MaxDepth     \* bound: calls of schedule() nested on one stack

NoPid == -1            \* stands for every int that is no process number
Sid == 0..(NumSignals - 1)

(* Points of the code at which the signal is, or may be, unblocked: in the *)
(* main function of a process, between two statements of a call, in        *)
(* schedule() after queue_append.                                          *)
Calls == {"w_block", "w_for", "w_sched", "w_again", "s_value", "s_waiting", "sig_append",
          "x_search", "x_sched", "x_done"}
Points == Calls \cup {"user", "schedule"}

(* The windows in which the signal spoils what a careful program relies    *)
(* on: a process is filed as blocked before its waker can find it, or as   *)
(* ended before it has woken its waiter; schedule() files one twice        *)
(* (syscalls.c:63-67, process_manager.c:99-106, 118-138).                  *)
Harmful == {"w_block", "w_for", "x_search", "schedule"}

ASSUME KernelAssumption ==
    /\ MaxProcs \in Nat \ {0} /\ NumSignals \in Nat \ {0} /\ MaxDepth \in Nat \ {0}
    /\ Proc = 0..(MaxProcs - 1)
    /\ Garbage # {} /\ Garbage \subseteq Proc \cup {NoPid}
    /\ Careful \in BOOLEAN
    /\ TickAt \subseteq Points

VARIABLES
    next_pid,          \* number of the next process
    state,             \* process_t.state ("NONE": the structure is not allocated)
    waiting_for,       \* process_t.waiting_for
    mem,               \* run_queue, wait_queue, zombie_queue and the next fields
    active_process,
    signals,           \* [Sid -> [used, value, waiting]]
    at,                \* where a process is, calls of schedule() apart
    arg,               \* argument of the call it is in (NoPid in user code)
    depth,             \* calls of schedule() on its stack
    blocked,           \* SIGPROF is blocked
    host               \* "boot", "running", "exited", "failed", "hung", "crashed"

procVars == <<next_pid, state, waiting_for>>
ctxVars == <<at, arg, depth>>
vars == <<procVars, mem, active_process, signals, ctxVars, blocked, host>>

TypeOK ==
    /\ next_pid \in 0..MaxProcs
    /\ state \in [Proc -> {"NONE", "RUNNABLE", "BLOCKED", "ZOMBIE"}]
    /\ waiting_for \in [Proc -> Proc \cup {NoPid}]
    /\ mem \in Memory
    /\ active_process \in Pointer
    /\ signals \in [Sid -> [used : BOOLEAN, value : {0, 1}, waiting : Pointer]]
    /\ at \in [Proc -> {"none", "user"} \cup Calls]
    /\ arg \in [Proc -> Proc \cup Sid \cup {NoPid}]
    /\ depth \in [Proc -> 0..MaxDepth]
    /\ blocked \in BOOLEAN
    /\ host \in {"boot", "running", "exited", "failed", "hung", "crashed"}

(* main before create_process(init).  Its few instructions never use up    *)
(* the 500 ms of processor time after which the timer expires first.       *)
Init ==
    /\ next_pid = 0
    /\ state = [p \in Proc |-> "NONE"]
    /\ waiting_for = [p \in Proc |-> NoPid]
    /\ mem = EmptyQueues
    /\ active_process = NULL
    /\ signals = [s \in Sid |-> [used |-> FALSE, value |-> 0, waiting |-> NULL]]
    /\ at = [p \in Proc |-> "none"]
    /\ arg = [p \in Proc |-> NoPid]
    /\ depth = [p \in Proc |-> 0]
    /\ blocked = FALSE
    /\ host = "boot"

-----------------------------------------------------------------------------
(* The queue functions with their signal masks                             *)

Block == blocked' = TRUE
Unblock == blocked' = FALSE

(* A process that touches memory through a null pointer ends the Unix      *)
(* process, one that searches a cyclic list in vain keeps it busy for      *)
(* ever: either way nothing else happens any more.                         *)
Stops(how) == host' = how /\ UNCHANGED <<mem, blocked, ctxVars>>

(* queue_append on the queues m: it ends with the signal unblocked.        *)
Appends(m, q, p) ==
    IF p = NULL \/ AppendFaults(m, q) THEN host' = "crashed" /\ UNCHANGED <<mem, blocked>>
    ELSE mem' = queue_append(m, q, p) /\ Unblock /\ UNCHANGED host

(* queue_get_process, queue_get_process_waiting_for and queue_dequeue:     *)
(* they end with the signal blocked if they find something and unblocked   *)
(* if they do not.                                                         *)
Loops(q, T) == Found(mem, q, T) = {} /\ Endless(mem, q)
Finds(q, T) == Found(mem, q, T) # {}
Hit(q, T) == CHOOSE p \in Found(mem, q, T) : TRUE

-----------------------------------------------------------------------------
(* schedule(), called by the active process or by handleSigprof            *)

QueueOf(st) == CASE st = "RUNNABLE" -> "run"
                 [] st = "BLOCKED"  -> "wait"
                 [] st = "ZOMBIE"   -> "zombie"

(* Up to the end of queue_append; the active process has state st.         *)
EnterSchedule(st) ==
    /\ Appends(mem, QueueOf(st), active_process)
    /\ depth' = [depth EXCEPT ![active_process] = @ + 1]
    /\ depth[active_process] < MaxDepth

(* The point the active process is at.                                     *)
Here == IF depth[active_process] > 0 THEN "schedule" ELSE at[active_process]

handleSigprof ==
    /\ host = "running"
    /\ ~ blocked
    /\ Here \in TickAt
    /\ EnterSchedule(state[active_process])
    /\ UNCHANGED <<procVars, active_process, signals, at, arg>>

(* mutant: the smallest pid is chosen, as the comment says                 *)
select_next_process_Smallest(m) ==
    LET runnable == Members(m, "run")
    IN  IF runnable = {} THEN NULL ELSE CHOOSE p \in runnable : \A x \in runnable : p <= x

select_next_process(m) == m.first["run"]

schedule_Switch_KeepsHead ==     \* mutant: the process is left in run_queue
    LET next == mem.first["run"]
    IN  /\ host = "running" /\ Here = "schedule"
        /\ active_process' = next
        /\ IF next = NULL THEN host' = "exited" /\ UNCHANGED <<depth, blocked>>
           ELSE /\ blocked' = (depth[next] = 0)
                /\ depth' = [depth EXCEPT ![next] = IF @ > 0 THEN @ - 1 ELSE 0]
                /\ UNCHANGED host
        /\ UNCHANGED <<procVars, mem, signals, at, arg>>

(* From select_next_process on: the head of run_queue gets the processor.  *)
(* A process that was switched out comes back from its innermost schedule, *)
(* which unblocks the signal; a new one starts with the signal blocked.    *)
schedule_Switch ==
    LET next == select_next_process(mem)
    IN  /\ host = "running" /\ Here = "schedule"
        /\ active_process' = next
        /\ IF next = NULL
           THEN host' = "exited" /\ UNCHANGED <<mem, depth, blocked>>
           ELSE /\ mem' = queue_dequeue(mem, "run", next)
                /\ blocked' = (depth[next] = 0)
                /\ depth' = [depth EXCEPT ![next] = IF @ > 0 THEN @ - 1 ELSE 0]
                /\ UNCHANGED host
        /\ UNCHANGED <<procVars, signals, at, arg>>

-----------------------------------------------------------------------------
(* Obligations of the programs (those of MiniBS)                           *)

Executing(point) == host = "running" /\ Here = point

Ended(p) == at[p] \in {"x_search", "x_sched", "x_done"}
InWaitpid(p) == at[p] \in {"w_block", "w_for", "w_sched", "w_again"}
InSwait(p) == at[p] \in {"s_value", "s_waiting"}
Reaped(p) == state[p] = "ZOMBIE" /\ depth[p] > 0 /\ p \notin Members(mem, "zombie")

MaySignal(s) == signals[s].waiting # NULL => state[signals[s].waiting] = "BLOCKED"
MayFree(s) == \A p \in Proc : InSwait(p) => arg[p] # s
MayWaitpid(q) ==
    /\ q \in Proc \ {active_process} /\ ~ Reaped(q)
    /\ \A w \in Proc : InWaitpid(w) => arg[w] # q
MayExit(p) == \A w \in Proc : InSwait(w) /\ state[w] = "BLOCKED" => waiting_for[w] # p

-----------------------------------------------------------------------------
(* main and the system calls                                               *)

Goto(point, x) ==
    /\ at' = [at EXCEPT ![active_process] = point]
    /\ arg' = [arg EXCEPT ![active_process] = x]

Allocate(p) ==
    /\ next_pid' = next_pid + 1
    /\ state' = [state EXCEPT ![p] = "RUNNABLE"]
    /\ \E g \in Garbage : waiting_for' = [waiting_for EXCEPT ![p] = g]
    /\ at' = [at EXCEPT ![p] = "user"]
    /\ UNCHANGED <<arg, signals>>

(* main: create_process(init); schedule().                                 *)
Boot ==
    /\ host = "boot" /\ host' = "running"
    /\ Allocate(next_pid)
    /\ active_process' = next_pid
    /\ mem' = queue_dequeue(queue_append(mem, "run", next_pid), "run", next_pid)
    /\ Block
    /\ UNCHANGED depth

println ==
    /\ Executing("user")
    /\ Unblock
    /\ UNCHANGED <<procVars, mem, active_process, signals, ctxVars, host>>

create_process ==
    /\ Executing("user")
    /\ next_pid < MaxProcs
    /\ Allocate(next_pid)
    /\ Appends(mem, "run", next_pid)
    /\ UNCHANGED <<active_process, depth>>

(* queue_get_process(&zombie_queue, q), at the call and after a schedule().  *)
LookForZombie(q) ==
    /\ IF Loops("zombie", {q}) THEN Stops("hung")
       ELSE /\ Unblock
            /\ IF Finds("zombie", {q})
               THEN mem' = queue_dequeue(mem, "zombie", q) /\ Goto("user", NoPid)
               ELSE UNCHANGED mem /\ Goto("w_block", q)
            /\ UNCHANGED <<depth, host>>
    /\ UNCHANGED <<procVars, active_process, signals>>

waitpid(q) ==
    /\ Executing("user")
    /\ Careful => MayWaitpid(q)
    /\ LookForZombie(q)

waitpid_Again == Executing("w_again") /\ LookForZombie(arg[active_process])

waitpid_State ==
    /\ Executing("w_block")
    /\ state' = [state EXCEPT ![active_process] = "BLOCKED"]
    /\ Goto("w_for", arg[active_process])
    /\ UNCHANGED <<next_pid, waiting_for, mem, active_process, signals, depth, blocked, host>>

waitpid_For_Forgotten ==         \* mutant: `waiting_for' not set
    /\ Executing("w_for")
    /\ Goto("w_sched", arg[active_process])
    /\ UNCHANGED <<procVars, mem, active_process, signals, depth, blocked, host>>

waitpid_For ==
    /\ Executing("w_for")
    /\ waiting_for' = [waiting_for EXCEPT ![active_process] = arg[active_process]]
    /\ Goto("w_sched", arg[active_process])
    /\ UNCHANGED <<next_pid, state, mem, active_process, signals, depth, blocked, host>>

waitpid_Schedule ==
    /\ Executing("w_sched")
    /\ EnterSchedule(state[active_process])
    /\ Goto("w_again", arg[active_process])
    /\ UNCHANGED <<procVars, active_process, signals>>

FreeSids == {s \in Sid : ~ signals[s].used}

(* What mbs_signal_new returns.                                            *)
NewSid ==
    IF FreeSids = {} THEN -1 ELSE CHOOSE s \in FreeSids : \A t \in FreeSids : s <= t

(* With a free variable it returns in the middle of its loop.              *)
mbs_signal_new ==
    /\ Executing("user")
    /\ IF FreeSids = {} THEN Unblock /\ UNCHANGED signals
       ELSE /\ Block
            /\ signals' = [signals EXCEPT ![NewSid] = [used |-> TRUE, value |-> 0, waiting |-> NULL]]
    /\ UNCHANGED <<procVars, mem, active_process, ctxVars, host>>

(* CHECK_SID passes; if not, the call returns with the signal blocked.     *)
ValidSid(s) == s \in Sid /\ signals[s].used

mbs_signal_free(s) ==
    /\ Executing("user")
    /\ Careful => MayFree(s)
    /\ IF ValidSid(s) THEN Unblock /\ signals' = [signals EXCEPT ![s].used = FALSE]
       ELSE Block /\ UNCHANGED signals
    /\ UNCHANGED <<procVars, mem, active_process, ctxVars, host>>

mbs_swait_NoWaiterCheck(s) ==    \* mutant: `waiting != NULL' not checked
    /\ Executing("user")
    /\ ValidSid(s) /\ signals[s].value = 0
    /\ signals' = [signals EXCEPT ![s].waiting = active_process]
    /\ state' = [state EXCEPT ![active_process] = "BLOCKED"]
    /\ EnterSchedule("BLOCKED")
    /\ Goto("s_value", s)
    /\ UNCHANGED <<next_pid, waiting_for, active_process>>

(* Only a call that sleeps comes to an unblocked point; every other return *)
(* leaves the signal blocked (exitKernelUnblockSignals follows `return').  *)
mbs_swait(s) ==
    /\ Executing("user")
    /\ IF ~ ValidSid(s) \/ signals[s].waiting # NULL
       THEN Block /\ UNCHANGED <<signals, state, mem, ctxVars, host>>
       ELSE IF signals[s].value = 0
       THEN /\ signals' = [signals EXCEPT ![s].waiting = active_process]
            /\ state' = [state EXCEPT ![active_process] = "BLOCKED"]
            /\ EnterSchedule("BLOCKED")
            /\ Goto("s_value", s)
       ELSE /\ signals' = [signals EXCEPT ![s].value = 0, ![s].waiting = NULL]
            /\ Block
            /\ UNCHANGED <<state, mem, ctxVars, host>>
    /\ UNCHANGED <<next_pid, waiting_for, active_process>>

mbs_swait_Value ==
    /\ Executing("s_value")
    /\ signals' = [signals EXCEPT ![arg[active_process]].value = 0]
    /\ Goto("s_waiting", arg[active_process])
    /\ UNCHANGED <<procVars, mem, active_process, depth, blocked, host>>

mbs_swait_Waiting_Keeps ==       \* mutant: `waiting = NULL' forgotten
    /\ Executing("s_waiting")
    /\ Goto("user", NoPid)
    /\ UNCHANGED <<procVars, mem, active_process, signals, depth, blocked, host>>

mbs_swait_Waiting ==
    /\ Executing("s_waiting")
    /\ signals' = [signals EXCEPT ![arg[active_process]].waiting = NULL]
    /\ Goto("user", NoPid)
    /\ UNCHANGED <<procVars, mem, active_process, depth, blocked, host>>

mbs_signal_Counts(s) ==          \* mutant: the value is counted
    /\ Executing("user")
    /\ ValidSid(s) /\ signals[s].waiting = NULL
    /\ signals' = [signals EXCEPT ![s].value = @ + 1]
    /\ UNCHANGED <<procVars, mem, active_process, ctxVars, blocked, host>>

(* If queue_dequeue does not find the waiting process, it has unblocked    *)
(* the signal before the process is appended.                              *)
mbs_signal(s) ==
    LET w == signals[s].waiting
    IN  /\ Executing("user")
        /\ IF ~ ValidSid(s)
           THEN Block /\ UNCHANGED <<signals, state, mem, ctxVars, host>>
           ELSE /\ Careful => MaySignal(s)
                /\ signals' = [signals EXCEPT ![s].value = 1]
                /\ IF w = NULL THEN Unblock /\ UNCHANGED <<state, mem, ctxVars, host>>
                   ELSE /\ state' = [state EXCEPT ![w] = "RUNNABLE"]
                        /\ IF Loops("wait", {w}) THEN Stops("hung")
                           ELSE IF Finds("wait", {w})
                           THEN /\ Appends(queue_dequeue(mem, "wait", w), "run", w)
                                /\ UNCHANGED ctxVars
                           ELSE /\ Unblock
                                /\ Goto("sig_append", s)
                                /\ UNCHANGED <<mem, depth, host>>
        /\ UNCHANGED <<next_pid, waiting_for, active_process>>

mbs_signal_Append ==
    /\ Executing("sig_append")
    /\ Appends(mem, "run", signals[arg[active_process]].waiting)
    /\ Goto("user", NoPid)
    /\ UNCHANGED <<procVars, active_process, signals, depth>>

process_wrapper_State_Kept ==    \* mutant: `state = STATE_ZOMBIE' forgotten
    /\ Executing("user")
    /\ Careful => MayExit(active_process)
    /\ Goto("x_search", NoPid)
    /\ UNCHANGED <<procVars, mem, active_process, signals, depth, blocked, host>>

(* process_wrapper after the main function has returned.                   *)
process_wrapper_State ==
    /\ Executing("user")
    /\ Careful => MayExit(active_process)
    /\ state' = [state EXCEPT ![active_process] = "ZOMBIE"]
    /\ Goto("x_search", NoPid)
    /\ UNCHANGED <<next_pid, waiting_for, mem, active_process, signals, depth, blocked, host>>

process_wrapper_Wake ==
    LET waiting == {x \in Proc : waiting_for[x] = active_process}
        w == Hit("wait", waiting)
    IN  /\ Executing("x_search")
        /\ IF Loops("wait", waiting) THEN Stops("hung") /\ UNCHANGED state
           ELSE /\ Goto("x_sched", NoPid)
                /\ UNCHANGED depth
                /\ IF Finds("wait", waiting)
                   THEN /\ state' = [state EXCEPT ![w] = "RUNNABLE"]
                        /\ Appends(queue_dequeue(mem, "wait", w), "run", w)
                   ELSE Unblock /\ UNCHANGED <<state, mem, host>>
        /\ UNCHANGED <<next_pid, waiting_for, active_process, signals>>

process_wrapper_Schedule ==
    /\ Executing("x_sched")
    /\ EnterSchedule(state[active_process])
    /\ Goto("x_done", NoPid)
    /\ UNCHANGED <<procVars, active_process, signals>>

(* schedule() has returned into a process that has ended: exit(FAILURE).   *)
process_wrapper_Error ==
    /\ Executing("x_done")
    /\ host' = "failed"
    /\ UNCHANGED <<procVars, mem, active_process, signals, ctxVars, blocked>>

Stopped == host \in {"exited", "failed", "hung", "crashed"} /\ UNCHANGED vars

Waitpid ==
    \/ \E q \in Proc \cup {NoPid} : waitpid(q)
    \/ waitpid_State \/ waitpid_For \/ waitpid_Schedule \/ waitpid_Again

Signals ==
    \/ mbs_signal_new
    \/ \E s \in Sid \cup {NoPid} : mbs_signal_free(s) \/ mbs_swait(s) \/ mbs_signal(s)
    \/ mbs_swait_Value \/ mbs_swait_Waiting \/ mbs_signal_Append

ProcessWrapper ==
    \/ process_wrapper_State \/ process_wrapper_Wake
    \/ process_wrapper_Schedule \/ process_wrapper_Error

Next ==
    \/ Boot
    \/ handleSigprof
    \/ schedule_Switch
    \/ println
    \/ create_process
    \/ Waitpid
    \/ Signals
    \/ ProcessWrapper
    \/ Stopped

Spec == Init /\ [][Next]_vars

-----------------------------------------------------------------------------
(* Properties of careful programs while the signal arrives only at points  *)
(* where it does no harm                                                   *)

Waits(p) == p # active_process \/ Here = "schedule"

(* A process that does not have the processor, or that schedule() has just *)
(* filed, is in the queue of its state; the running one is in none         *)
(* (process_manager.c:123-139).                                            *)
NoProcessLost ==
    \A p \in Proc :
        /\ p \in Members(mem, "run") <=> state[p] = "RUNNABLE" /\ Waits(p)
        /\ p \in Members(mem, "wait") <=> state[p] = "BLOCKED" /\ Waits(p)
        /\ p \in Members(mem, "zombie") => state[p] = "ZOMBIE" /\ Waits(p)

(* A process asleep in waitpid waits for one that has not ended: its end   *)
(* wakes the waiter (syscalls.c:52-55, process_manager.c:101-105).         *)
WaitpidNotForgotten ==
    \A w \in Members(mem, "wait") : InWaitpid(w) => arg[w] \notin Members(mem, "zombie")

(* A process asleep in mbs_swait is the registered waiter of its variable, *)
(* which is in use and unset: no signal has been missed, although the      *)
(* variable is reset in two steps (syscalls.c:151, 169-170).               *)
SwaitNotForgotten ==
    \A w \in Members(mem, "wait") :
        InSwait(w) => signals[arg[w]] = [used |-> TRUE, value |-> 0, waiting |-> w]

(* schedule() never returns into a process that has ended                  *)
(* (process_manager.c:108-109).                                            *)
ZombieNeverResumed == ~ Executing("x_done")

(* Properties of all programs, wherever the signal arrives                 *)

(* signals[].waiting never points to a process that has left mbs_swait.    *)
WaiterIsInSwait ==
    \A s \in Sid : signals[s].waiting # NULL =>
        InSwait(signals[s].waiting) /\ arg[signals[s].waiting] = s
=============================================================================
