---------------------------- MODULE MiniBSProofs ----------------------------
(***************************************************************************)
(* Theorems about the kernel of MiniBS, for any number of processes and    *)
(* signal variables: types, queues, wake-ups and the promise of its calls. *)
(* Last come those about the demo programs on it, which do what the ones   *)
(* before demand of a program.                                             *)
(***************************************************************************)
EXTENDS MiniBSPromise, MiniBSDemo, DemoFacts, PQueueProofs

States == {"RUNNABLE", "BLOCKED", "ZOMBIE"}

-----------------------------------------------------------------------------
(* select_next_process returns a process of run_queue with the smallest    *)
(* pid of all that are in it.                                              *)
LEMMA SelectSpec ==
    ASSUME NEW m \in Memory, m.first["run"] # NULL
    PROVE  /\ select_next_process(m) \in Members(m, "run")
           /\ \A x \in Members(m, "run") : select_next_process(m) <= x
<1>1. Members(m, "run") \in SUBSET Proc /\ Members(m, "run") # {}
  BY VisitedClosed DEF Members, Queue
<1>2. \E x \in Members(m, "run") : \A y \in Members(m, "run") : x <= y
  BY <1>1, LeastElement, KernelAssumption
<1> QED
  BY <1>2 DEF select_next_process

-----------------------------------------------------------------------------
(* Types, whatever the programs do                                         *)

(* schedule() leaves valid pointers, even on damaged queues.               *)
LEMMA ScheduledType ==
    ASSUME active_process \in Pointer, NEW m \in Memory, NEW st \in States
    PROVE  LET r == Scheduled(m, st)
           IN  /\ r.host \in {"running", "exited", "hung"}
               /\ r.active \in Pointer
               /\ r.mem \in Memory
               /\ r.host = "running" => r.active \in Proc
<1> DEFINE filed == Filed(m, st)
           chosen == select_next_process(filed)
<1>1. filed \in Memory
  BY AppendType DEF Filed, QueueOf, States, Queue, Pointer
<1> HIDE DEF filed
<1>2. CASE filed.first["run"] = NULL
  BY <1>1, <1>2 DEF Scheduled, Pointer, filed
<1>3. CASE filed.first["run"] # NULL /\ Endless(filed, "run")
  BY <1>1, <1>3 DEF Scheduled, filed
<1>4. CASE filed.first["run"] # NULL /\ ~ Endless(filed, "run")
  <2>1. chosen \in Proc
    BY <1>1, <1>4, SelectSpec, VisitedClosed DEF Members, Queue
  <2>2. queue_dequeue(filed, "run", chosen) \in Memory
    BY <1>1, <2>1, DequeueType DEF Queue
  <2>3. Scheduled(m, st) = [host |-> "running", active |-> chosen,
                            mem |-> queue_dequeue(filed, "run", chosen)]
    BY <1>4 DEF Scheduled, filed
  <2> HIDE DEF chosen
  <2> QED
    BY <2>1, <2>2, <2>3 DEF Pointer
<1> QED
  BY <1>2, <1>3, <1>4

(* TypeOK, with what the actions need of it: the Unix process starts with  *)
(* no process, and while it runs there is an active one.                   *)
TypeInv ==
    /\ TypeOK
    /\ host = "boot" => next_pid = 0
    /\ host = "running" => active_process \in Proc

(* The state after a call of schedule().                                   *)
LEMMA ScheduleTypes ==
    ASSUME TypeOK, NEW m \in Memory, NEW st \in States, schedule(m, st)
    PROVE  /\ mem' \in Memory
           /\ active_process' \in Pointer
           /\ host' \in {"running", "exited", "hung"}
           /\ host' = "running" => active_process' \in Proc
BY ScheduledType DEF TypeOK, schedule

(* Assignments to the fields of a signal variable.                         *)
SignalTable == [Sid -> [used : BOOLEAN, value : {0, 1}, waiting : Pointer]]

LEMMA SignalAssignments ==
    ASSUME signals \in SignalTable, NEW s \in Sid
    PROVE  /\ [signals EXCEPT ![s].used = FALSE] \in SignalTable
           /\ [signals EXCEPT ![s].value = 1] \in SignalTable
           /\ [signals EXCEPT ![s].value = 0, ![s].waiting = NULL] \in SignalTable
           /\ \A p \in Pointer : [signals EXCEPT ![s].waiting = p] \in SignalTable
           /\ [signals EXCEPT ![s] = [used |-> TRUE, value |-> 0, waiting |-> NULL]] \in SignalTable
BY DEF SignalTable, Pointer

(* mbs_signal_new returns a number in the table if one is free.            *)
LEMMA NewSidFree == FreeSids # {} => NewSid \in FreeSids
<1>1. NumSignals \in Nat /\ FreeSids \in SUBSET (0..(NumSignals - 1))
  BY KernelAssumption DEF FreeSids, Sid
<1>2. FreeSids # {} => \E s \in FreeSids : \A t \in FreeSids : s <= t
  BY <1>1, LeastElement
<1> QED
  BY <1>2 DEF NewSid

LEMMA TypeInit == Init => TypeInv
BY KernelAssumption DEF Init, TypeInv, TypeOK, EmptyQueues, Memory, Pointer, NoPid

LEMMA TypeNext == TypeInv /\ [Next]_vars => TypeInv'
<1> SUFFICES ASSUME TypeInv, [Next]_vars PROVE TypeInv'
  OBVIOUS
<1> USE DEF TypeInv
<1>0. Proc = 0..(MaxProcs - 1) /\ MaxProcs \in Nat \ {0} /\ Garbage \subseteq Proc \cup {NoPid}
  BY KernelAssumption
<1>a. signals \in SignalTable
  BY DEF TypeOK, SignalTable
<1>1. CASE Boot
  <2>1. next_pid = 0 /\ next_pid \in Proc
    BY <1>0, <1>1 DEF Boot
  <2>2. queue_append(mem, "run", next_pid) \in Memory
    BY <2>1, AppendType DEF TypeOK, Queue
  <2>3. /\ mem' \in Memory
        /\ active_process' \in Pointer
        /\ host' \in {"running", "exited", "hung"}
        /\ host' = "running" => active_process' \in Proc
    BY <1>1, <2>2, ScheduleTypes DEF Boot, States
  <2>4. PICK g \in Garbage : waiting_for' = [waiting_for EXCEPT ![next_pid] = g]
    BY <1>1 DEF Boot, Allocate
  <2> QED
    BY <1>0, <1>1, <2>1, <2>3, <2>4 DEF Boot, Allocate, TypeOK
<1>2. CASE create_process
  <2>1. next_pid \in Proc /\ next_pid + 1 \in 0..MaxProcs
    BY <1>0, <1>2 DEF create_process, TypeOK
  <2>2. mem' \in Memory
    BY <1>2, <2>1, AppendType DEF create_process, TypeOK, Queue
  <2>3. PICK g \in Garbage : waiting_for' = [waiting_for EXCEPT ![next_pid] = g]
    BY <1>2 DEF create_process, Allocate
  <2> QED
    BY <1>0, <1>2, <2>1, <2>2, <2>3 DEF create_process, Allocate, TypeOK, InUserCode
<1>3. ASSUME NEW q \in Proc \cup {NoPid}, WaitpidLoop(q), host = "running"
      PROVE  TypeInv'
  <2>1. CASE q \in Members(mem, "zombie")
    <3>1. q \in Proc /\ mem' \in Memory
      BY <1>3, <2>1, DequeueType, VisitedClosed DEF WaitpidLoop, TypeOK, Queue, Members
    <3> QED
      BY <1>3, <2>1, <3>1 DEF WaitpidLoop, ReturnToUser, procVars, TypeOK
  <2>2. CASE q \notin Members(mem, "zombie")
    <3>1. /\ mem' \in Memory
          /\ active_process' \in Pointer
          /\ host' \in {"running", "exited", "hung"}
          /\ host' = "running" => active_process' \in Proc
      BY <1>3, <2>2, ScheduleTypes DEF WaitpidLoop, Block, TypeOK, States
    <3> QED
      BY <1>3, <2>2, <3>1 DEF WaitpidLoop, Block, TypeOK
  <2> QED
    BY <2>1, <2>2
<1>4. CASE \E q \in Proc \cup {NoPid} : waitpid(q)
  BY <1>3, <1>4 DEF waitpid, InUserCode
<1>5. CASE waitpid_Resume
  BY <1>3, <1>5 DEF waitpid_Resume, ResumedIn, TypeOK
<1>6. CASE mbs_signal_new
  <2>1. FreeSids # {} => NewSid \in Sid
    BY NewSidFree DEF FreeSids
  <2>2. signals' \in SignalTable
    BY <1>6, <1>a, <2>1, SignalAssignments DEF mbs_signal_new
  <2> QED
    BY <1>6, <2>2 DEF mbs_signal_new, procVars, ctxVars, TypeOK, SignalTable
<1>7. CASE \E s \in Sid : mbs_signal_free(s)
  <2>1. PICK s \in Sid : mbs_signal_free(s)
    BY <1>7
  <2>2. signals' \in SignalTable
    BY <2>1, <1>a, SignalAssignments DEF mbs_signal_free
  <2> QED
    BY <2>1, <2>2 DEF mbs_signal_free, procVars, ctxVars, TypeOK, SignalTable
<1>8. CASE \E s \in Sid : mbs_swait(s)
  <2>1. PICK s \in Sid : mbs_swait(s)
    BY <1>8
  <2>2. signals' \in SignalTable
    <3>1. active_process \in Pointer
      BY DEF TypeOK
    <3>2. \/ signals' = signals
          \/ signals' = [signals EXCEPT ![s].waiting = active_process]
          \/ signals' = [signals EXCEPT ![s].value = 0, ![s].waiting = NULL]
      BY <2>1 DEF mbs_swait
    <3> QED
      BY <1>a, <3>1, <3>2, SignalAssignments
  <2>3. CASE ValidSid(s) /\ signals[s].waiting = NULL /\ signals[s].value = 0
    <3>1. /\ mem' \in Memory
          /\ active_process' \in Pointer
          /\ host' \in {"running", "exited", "hung"}
          /\ host' = "running" => active_process' \in Proc
      BY <2>1, <2>3, ScheduleTypes DEF mbs_swait, Block, TypeOK, States
    <3> QED
      BY <2>1, <2>2, <2>3, <3>1 DEF mbs_swait, Block, TypeOK, SignalTable
  <2>4. CASE ~ (ValidSid(s) /\ signals[s].waiting = NULL /\ signals[s].value = 0)
    BY <2>1, <2>2, <2>4 DEF mbs_swait, ctxVars, TypeOK, SignalTable
  <2> QED
    BY <2>3, <2>4
<1>9. CASE mbs_swait_Resume
  <2>1. arg[active_process] \in Sid
    BY <1>9 DEF mbs_swait_Resume, ResumedIn, TypeOK
  <2>2. signals' \in SignalTable
    BY <1>9, <2>1, <1>a, SignalAssignments DEF mbs_swait_Resume
  <2> QED
    BY <1>9, <2>2 DEF mbs_swait_Resume, ResumedIn, ReturnToUser, procVars, TypeOK, SignalTable
<1>10. CASE \E s \in Sid : mbs_signal(s)
  <2>1. PICK s \in Sid : mbs_signal(s)
    BY <1>10
  <2>2. signals' \in SignalTable
    BY <2>1, <1>a, SignalAssignments DEF mbs_signal
  <2>3. CASE ~ ValidSid(s) \/ signals[s].waiting = NULL
    BY <2>1, <2>2, <2>3 DEF mbs_signal, ctxVars, TypeOK, SignalTable
  <2>4. CASE ValidSid(s) /\ signals[s].waiting # NULL
    <3>1. signals[s].waiting \in Proc
      BY <2>4 DEF TypeOK, Pointer
    <3>2. mem' \in Memory
      BY <2>1, <2>4, <3>1, AppendType, DequeueType DEF mbs_signal, TypeOK, Queue
    <3> QED
      BY <2>1, <2>2, <2>4, <3>1, <3>2 DEF mbs_signal, ctxVars, TypeOK, SignalTable
  <2> QED
    BY <2>3, <2>4
<1>11. CASE process_wrapper_End
  <2> DEFINE p == active_process
             woken == Found(mem, "wait", {x \in Proc : waiting_for[x] = p})
             w == CHOOSE x \in woken : TRUE
  <2>1. p \in Proc
    BY <1>11 DEF process_wrapper_End, InUserCode
  <2>2. /\ mem' \in Memory
        /\ active_process' \in Pointer
        /\ host' \in {"running", "exited", "hung"}
        /\ host' = "running" => active_process' \in Proc
        /\ state' \in [Proc -> {"NONE", "RUNNABLE", "BLOCKED", "ZOMBIE"}]
    <3>1. CASE woken = {}
      BY <1>11, <2>1, <3>1, ScheduleTypes DEF process_wrapper_End, TypeOK, States
    <3>2. CASE woken # {}
      <4>1. w \in Proc
        <5>1. woken \subseteq Members(mem, "wait")
          BY FoundInMembers DEF TypeOK, Queue
        <5>2. Members(mem, "wait") \subseteq Proc
          BY VisitedClosed DEF TypeOK, Queue, Members
        <5> QED
          BY <3>2, <5>1, <5>2
      <4>2. queue_append(queue_dequeue(mem, "wait", w), "run", w) \in Memory
        BY <4>1, AppendType, DequeueType DEF TypeOK, Queue
      <4> QED
        BY <1>11, <2>1, <3>2, <4>1, <4>2, ScheduleTypes DEF process_wrapper_End, TypeOK, States
    <3> QED
      BY <3>1, <3>2
  <2> QED
    BY <1>11, <2>1, <2>2 DEF process_wrapper_End, TypeOK
<1>12. CASE Stopped \/ UNCHANGED vars
  BY <1>12 DEF Stopped, vars, TypeOK
<1> QED
  BY <1>1, <1>2, <1>4, <1>5, <1>6, <1>7, <1>8, <1>9, <1>10, <1>11, <1>12 DEF Next, SystemCall

(* Every variable keeps its type, and the argument of the call a process   *)
(* is in is one that call takes, for all programs, also those that damage  *)
(* run_queue: no call of theirs makes the kernel store a bad pointer.      *)
THEOREM TypeCorrect == Spec => []TypeOK
<1>1. TypeInv => TypeOK
  BY DEF TypeInv
<1> QED
  BY <1>1, TypeInit, TypeNext, PTL DEF Spec

-----------------------------------------------------------------------------
(* Queues and states, for programs that do not signal a variable again     *)
(* before the process it woke has run                                      *)

(* State and queue of every process agree, the active one apart.           *)
Placed(m, st, p) ==
    /\ st[p] = "RUNNABLE" <=> p \in Members(m, "run")
    /\ st[p] = "BLOCKED" <=> p \in Members(m, "wait")
    /\ p \in Members(m, "zombie") => st[p] = "ZOMBIE"

(* The inductive invariant: NoProcessLost is not preserved by itself, for  *)
(* a process that is appended must be known to be in no queue, a new one   *)
(* because it has no state yet.                                            *)
KernelInv ==
    /\ TypeInv
    /\ QueuesWellFormed
    /\ NoProcessLost
    /\ \A p \in Proc : p >= next_pid => state[p] = "NONE"
    /\ host # "hung"
    /\ host \in {"boot", "exited"} => active_process = NULL
    /\ host = "exited" => Members(mem, "run") = {}

(* schedule() files the active process and takes the chosen one out of     *)
(* run_queue, so that states and queues agree again.                       *)
LEMMA ScheduleKeeps ==
    ASSUME active_process \in Pointer, NEW m \in Memory, Proper(m), NEW st \in States,
           \A q \in Queue : active_process \notin Members(m, q),
           \A p \in Proc \ {active_process} : Placed(m, state', p),
           active_process # NULL => state'[active_process] = st,
           schedule(m, st)
    PROVE  /\ QueuesWellFormed'
           /\ NoProcessLost'
           /\ host' # "hung"
           /\ host' = "exited" => active_process' = NULL /\ Members(mem', "run") = {}
<1> DEFINE filed == Filed(m, st)
           chosen == select_next_process(filed)
<1>1. filed \in Memory /\ Proper(filed) /\ \A p \in Proc : Placed(filed, state', p)
  <2>1. CASE active_process = NULL
    BY <2>1, NullAssumption DEF Filed
  <2>2. CASE active_process # NULL
    <3>1. active_process \in Proc /\ QueueOf(st) \in Queue
      BY <2>2 DEF Pointer, QueueOf, States, Queue
    <3>2. /\ filed \in Memory
          /\ Proper(filed)
          /\ Members(filed, QueueOf(st)) = Members(m, QueueOf(st)) \cup {active_process}
          /\ \A r \in Queue \ {QueueOf(st)} : Members(filed, r) = Members(m, r)
      BY <2>2, <3>1, AppendAdds DEF Filed
    <3> HIDE DEF filed
    <3>3. ASSUME NEW p \in Proc \ {active_process} PROVE Placed(filed, state', p)
      BY <3>2 DEF Placed, Queue
    <3>4. Placed(filed, state', active_process)
      BY <2>2, <3>2 DEF Placed, Queue, QueueOf, States
    <3> QED
      BY <3>2, <3>3, <3>4
  <2> QED
    BY <2>1, <2>2
<1>2. ~ Endless(filed, "run")
  BY <1>1, ProperEnds DEF Proper, Queue
<1>3. /\ host' = Scheduled(m, st).host
      /\ active_process' = Scheduled(m, st).active
      /\ mem' = Scheduled(m, st).mem
  BY DEF schedule
<1> HIDE DEF filed
<1>4. CASE filed.first["run"] = NULL
  <2>1. host' = "exited" /\ active_process' = NULL /\ mem' = filed
    BY <1>3, <1>4 DEF Scheduled, filed
  <2>2. Members(filed, "run") = {}
    BY <1>4 DEF Members, Visited
  <2> QED
    BY <1>1, <2>1, <2>2, NullAssumption DEF QueuesWellFormed, NoProcessLost, Placed
<1>5. CASE filed.first["run"] # NULL
  <2>1. host' = "running" /\ active_process' = chosen /\ mem' = queue_dequeue(filed, "run", chosen)
    BY <1>2, <1>3, <1>5 DEF Scheduled, filed
  <2>2. chosen \in Members(filed, "run")
    BY <1>1, <1>5, SelectSpec
  <2> HIDE DEF chosen
  <2>3. /\ Proper(mem')
        /\ Members(mem', "run") = Members(filed, "run") \ {chosen}
        /\ \A r \in Queue \ {"run"} : Members(mem', r) = Members(filed, r)
    BY <1>1, <2>1, <2>2, DequeueRemoves DEF Queue
  <2> QED
    BY <1>1, <2>1, <2>2, <2>3 DEF QueuesWellFormed, NoProcessLost, Placed, Queue
<1> QED
  BY <1>4, <1>5

(* The running process is in no queue, and neither is a new one.           *)
LEMMA ActiveInNoQueue ==
    ASSUME KernelInv
    PROVE  /\ \A q \in Queue : active_process \notin Members(mem, q)
           /\ \A p \in Proc \ {active_process} : Placed(mem, state, p)
           /\ next_pid \in Proc => /\ next_pid # active_process
                                   /\ \A q \in Queue : next_pid \notin Members(mem, q)
<1>1. mem \in Memory /\ next_pid \in Nat
  BY KernelAssumption DEF KernelInv, TypeInv, TypeOK
<1>2. \A q \in Queue : Members(mem, q) \subseteq Proc
  BY <1>1, VisitedClosed DEF Members
<1>3. next_pid \in Proc => state[next_pid] = "NONE"
  BY <1>1 DEF KernelInv
<1>4. \A p \in Proc : /\ state[p] = "RUNNABLE" <=> p = active_process \/ p \in Members(mem, "run")
                      /\ state[p] = "BLOCKED" <=> p \in Members(mem, "wait")
                      /\ p \in Members(mem, "zombie") => state[p] = "ZOMBIE"
  BY DEF KernelInv, NoProcessLost
<1>5. active_process \notin Members(mem, "run")
  BY DEF KernelInv, NoProcessLost
<1>6. \A q \in Queue : active_process \notin Members(mem, q)
  BY <1>2, <1>4, <1>5 DEF Queue
<1>7. next_pid \in Proc => next_pid # active_process
  BY <1>3, <1>4
<1>8. \A q \in Queue : next_pid \in Proc => next_pid \notin Members(mem, q)
  BY <1>3, <1>4 DEF Queue
<1> QED
  BY <1>4, <1>6, <1>7, <1>8 DEF Placed

LEMMA KernelInit == Init => KernelInv
<1> SUFFICES ASSUME Init PROVE KernelInv
  OBVIOUS
<1>1. \A q \in Queue : Members(mem, q) = {} /\ mem.first[q] = NULL
  BY DEF Init, EmptyQueues, Members, Visited
<1>2. Proper(mem)
  BY <1>1 DEF Proper, WellFormed
<1> QED
  BY <1>1, <1>2, TypeInit, NullAssumption
  DEF Init, KernelInv, QueuesWellFormed, NoProcessLost, Queue

-----------------------------------------------------------------------------
(* The obligations of the programs, as conditions on the steps             *)

KeptSignal(D, s) == mbs_signal(s) /\ ("signal" \in D /\ ValidSid(s) => MaySignal(s))
KeptFree(D, s) == mbs_signal_free(s) /\ ("free" \in D => MayFree(s))
KeptWaitpid(D, q) ==
    waitpid(q) /\ ("waitpid" \in D => MayWaitpid(q)) /\ ("alone" \in D => AloneInWaitpid(q))
KeptEnd(D) == process_wrapper_End /\ ("exit" \in D => MayExit(active_process))

(* A step of programs that keep the obligations of D, whatever those of    *)
(* Discipline are: what is proved of such steps holds of all programs that *)
(* keep the obligations of D, and of those of processes.c, of which it is  *)
(* proved that they do.                                                    *)
KeptNext(D) ==
    \/ Boot \/ create_process \/ waitpid_Resume \/ mbs_swait_Resume \/ Stopped
    \/ mbs_signal_new
    \/ \E q \in Proc \cup {NoPid} : KeptWaitpid(D, q)
    \/ \E s \in Sid : mbs_swait(s) \/ KeptSignal(D, s) \/ KeptFree(D, s)
    \/ KeptEnd(D)

LEMMA KeptIsNext ==
    ASSUME NEW D
    PROVE  [KeptNext(D)]_vars => [Next]_vars
BY DEF KeptNext, KeptSignal, KeptFree, KeptWaitpid, KeptEnd, Next, SystemCall

(* The programs of Discipline keep all its obligations.                    *)
LEMMA DisciplineIsKept ==
    ASSUME NEW D \in SUBSET Discipline
    PROVE  [Next]_vars => [KeptNext(D)]_vars
BY DEF KeptNext, KeptSignal, KeptFree, KeptWaitpid, KeptEnd, Next, SystemCall,
       mbs_signal, mbs_signal_free, waitpid, process_wrapper_End, Obliged

LEMMA KernelNext ==
    ASSUME NEW D, "signal" \in D
    PROVE  KernelInv /\ [KeptNext(D)]_vars => KernelInv'
<1> SUFFICES ASSUME KernelInv, [KeptNext(D)]_vars PROVE KernelInv'
  OBVIOUS
<1>0. /\ TypeInv' /\ TypeInv
      /\ mem \in Memory /\ Proper(mem)
      /\ active_process \in Pointer
      /\ host = "running" => active_process \in Proc
      /\ next_pid \in Nat
      /\ state \in [Proc -> {"NONE"} \cup States]
  BY TypeNext, KeptIsNext, KernelAssumption DEF KernelInv, TypeInv, TypeOK, QueuesWellFormed, States
<1>a. /\ \A q \in Queue : active_process \notin Members(mem, q)
      /\ \A p \in Proc \ {active_process} : Placed(mem, state, p)
  BY ActiveInNoQueue
<1>b. Proc \subseteq Nat /\ \A p \in Proc : p >= next_pid => state[p] = "NONE"
  BY KernelAssumption DEF KernelInv
<1>c. host = "running" => state[active_process] = "RUNNABLE" /\ active_process < next_pid
  <2>1. host = "running" => state[active_process] = "RUNNABLE"
    BY <1>0 DEF KernelInv, NoProcessLost
  <2>2. host = "running" => active_process \in Nat /\ ~ (active_process >= next_pid)
    BY <1>0, <1>b, <2>1
  <2> QED
    BY <1>0, <2>1, <2>2
<1>1. CASE Boot
  <2>1. next_pid = 0 /\ next_pid \in Proc /\ active_process = NULL
    BY <1>0, <1>1, KernelAssumption DEF Boot, TypeInv, KernelInv
  <2> DEFINE n == queue_append(mem, "run", next_pid)
  <2>2. /\ n \in Memory /\ Proper(n)
        /\ Members(n, "run") = Members(mem, "run") \cup {next_pid}
        /\ \A r \in Queue \ {"run"} : Members(n, r) = Members(mem, r)
    BY <1>0, <2>1, ActiveInNoQueue, AppendAdds DEF Queue
  <2>3. state' = [state EXCEPT ![next_pid] = "RUNNABLE"] /\ schedule(n, "RUNNABLE")
        /\ next_pid' = next_pid + 1
    BY <1>1 DEF Boot, Allocate
  <2> HIDE DEF n
  <2>4. \A q \in Queue : next_pid \notin Members(mem, q)
    BY <2>1, ActiveInNoQueue
  <2>5. \A q \in Queue : active_process \notin Members(n, q)
    BY <1>a, <2>1, <2>2, NullAssumption DEF Queue
  <2>6. \A p \in Proc \ {active_process} : Placed(n, state', p)
    BY <1>0, <1>a, <2>1, <2>2, <2>3, <2>4, NullAssumption DEF Placed, Queue
  <2>7. /\ QueuesWellFormed'
        /\ NoProcessLost'
        /\ host' # "hung"
        /\ host' = "exited" => active_process' = NULL /\ Members(mem', "run") = {}
    BY <1>0, <2>1, <2>2, <2>3, <2>5, <2>6, ScheduleKeeps DEF States
  <2>8. \A p \in Proc : p >= next_pid' => state'[p] = "NONE"
    BY <1>0, <1>b, <2>1, <2>3
  <2>9. host' # "boot"
    BY <1>0, <2>2, <2>3, ScheduledType DEF schedule, States
  <2> QED
    BY <1>0, <2>7, <2>8, <2>9 DEF KernelInv
<1>2. CASE create_process
  <2>1. /\ next_pid \in Proc /\ next_pid # active_process
        /\ \A q \in Queue : next_pid \notin Members(mem, q)
        /\ host = "running"
    BY <1>0, <1>2, ActiveInNoQueue, KernelAssumption DEF create_process, InUserCode
  <2>2. /\ mem' = queue_append(mem, "run", next_pid)
        /\ state' = [state EXCEPT ![next_pid] = "RUNNABLE"]
        /\ next_pid' = next_pid + 1
        /\ active_process' = active_process /\ host' = host
    BY <1>2 DEF create_process, Allocate
  <2>3. /\ Proper(mem')
        /\ Members(mem', "run") = Members(mem, "run") \cup {next_pid}
        /\ \A r \in Queue \ {"run"} : Members(mem', r) = Members(mem, r)
    BY <1>0, <2>1, <2>2, AppendAdds DEF Queue
  <2>4. NoProcessLost'
    BY <1>0, <1>a, <1>c, <2>1, <2>2, <2>3 DEF NoProcessLost, Placed, Queue
  <2>5. \A p \in Proc : p >= next_pid' => state'[p] = "NONE"
    BY <1>0, <1>b, <2>2
  <2> QED
    BY <1>0, <2>1, <2>2, <2>3, <2>4, <2>5 DEF KernelInv, QueuesWellFormed
<1>3. ASSUME NEW call, NEW x, Block(call, x), host = "running", next_pid' = next_pid
      PROVE  KernelInv'
  <2>1. state' = [state EXCEPT ![active_process] = "BLOCKED"] /\ schedule(mem, "BLOCKED")
    BY <1>3 DEF Block
  <2>2. state'[active_process] = "BLOCKED"
    BY <1>0, <1>3, <2>1
  <2>3. \A p \in Proc \ {active_process} : Placed(mem, state', p)
    BY <1>0, <1>a, <2>1 DEF Placed
  <2>4. /\ QueuesWellFormed'
        /\ NoProcessLost'
        /\ host' # "hung"
        /\ host' = "exited" => active_process' = NULL /\ Members(mem', "run") = {}
    BY <1>0, <1>a, <2>1, <2>2, <2>3, ScheduleKeeps DEF States
  <2>5. \A p \in Proc : p >= next_pid' => state'[p] = "NONE"
    BY <1>0, <1>b, <1>c, <1>3, <2>1
  <2>6. host' # "boot"
    BY <1>0, <2>1, ScheduledType DEF schedule, States
  <2> QED
    BY <1>0, <2>4, <2>5, <2>6 DEF KernelInv
<1>4. ASSUME NEW q, WaitpidLoop(q), host = "running"
      PROVE  KernelInv'
  <2>1. CASE q \in Members(mem, "zombie")
    <3>1. /\ mem' = queue_dequeue(mem, "zombie", q)
          /\ active_process' = active_process /\ host' = host
          /\ state' = state /\ next_pid' = next_pid
      BY <1>4, <2>1 DEF WaitpidLoop, ReturnToUser, procVars
    <3>2. /\ Proper(mem')
          /\ Members(mem', "zombie") = Members(mem, "zombie") \ {q}
          /\ \A r \in Queue \ {"zombie"} : Members(mem', r) = Members(mem, r)
      BY <1>0, <2>1, <3>1, DequeueRemoves DEF Queue
    <3> QED
      BY <1>0, <1>4, <3>1, <3>2 DEF KernelInv, QueuesWellFormed, NoProcessLost, Queue
  <2>2. CASE q \notin Members(mem, "zombie")
    BY <1>3, <1>4, <2>2 DEF WaitpidLoop
  <2> QED
    BY <2>1, <2>2
<1>5. CASE (\E q \in Proc \cup {NoPid} : KeptWaitpid(D, q)) \/ waitpid_Resume
  BY <1>4, <1>5 DEF KeptWaitpid, waitpid, waitpid_Resume, InUserCode, ResumedIn
<1>6. ASSUME UNCHANGED <<next_pid, state, mem, active_process, host>>
      PROVE  KernelInv'
  BY <1>0, <1>6 DEF KernelInv, QueuesWellFormed, NoProcessLost
<1>7. CASE mbs_signal_new \/ (\E s \in Sid : KeptFree(D, s)) \/ mbs_swait_Resume
  BY <1>6, <1>7 DEF mbs_signal_new, KeptFree, mbs_signal_free, mbs_swait_Resume, ReturnToUser, procVars
<1>8. CASE \E s \in Sid : mbs_swait(s)
  <2>1. PICK s \in Sid : mbs_swait(s)
    BY <1>8
  <2>2. CASE ValidSid(s) /\ signals[s].waiting = NULL /\ signals[s].value = 0
    BY <1>3, <2>1, <2>2 DEF mbs_swait, InUserCode
  <2>3. CASE ~ (ValidSid(s) /\ signals[s].waiting = NULL /\ signals[s].value = 0)
    BY <1>6, <2>1, <2>3 DEF mbs_swait
  <2> QED
    BY <2>2, <2>3
<1>9. CASE \E s \in Sid : KeptSignal(D, s)
  <2>1. PICK s \in Sid : KeptSignal(D, s)
    BY <1>9
  <2> DEFINE w == signals[s].waiting
  <2>2. CASE ~ ValidSid(s) \/ w = NULL
    BY <1>6, <2>1, <2>2 DEF KeptSignal, mbs_signal
  <2>3. CASE ValidSid(s) /\ w # NULL
    <3>1. w \in Proc /\ state[w] = "BLOCKED"
      BY <1>0, <2>1, <2>3 DEF KeptSignal, mbs_signal, MaySignal, TypeInv, TypeOK, Pointer
    <3>2. /\ mem' = queue_append(queue_dequeue(mem, "wait", w), "run", w)
          /\ state' = [state EXCEPT ![w] = "RUNNABLE"]
          /\ next_pid' = next_pid /\ active_process' = active_process /\ host' = host
          /\ host = "running"
      BY <2>1, <2>3 DEF KeptSignal, mbs_signal, InUserCode
    <3> HIDE DEF w
    <3>3. w \in Members(mem, "wait") /\ w # active_process
      BY <1>0, <1>c, <3>1, <3>2 DEF KernelInv, NoProcessLost
    <3>4. /\ Proper(mem')
          /\ Members(mem', "run") = Members(mem, "run") \cup {w}
          /\ Members(mem', "wait") = Members(mem, "wait") \ {w}
          /\ Members(mem', "zombie") = Members(mem, "zombie")
      BY <1>0, <3>2, <3>3, WakeMoves
    <3>5. NoProcessLost'
      BY <1>0, <3>1, <3>2, <3>3, <3>4 DEF KernelInv, NoProcessLost
    <3>6. \A p \in Proc : p >= next_pid' => state'[p] = "NONE"
      BY <1>0, <1>b, <3>1, <3>2
    <3> QED
      BY <1>0, <3>2, <3>4, <3>5, <3>6 DEF KernelInv, QueuesWellFormed
  <2> QED
    BY <2>2, <2>3
<1>10. CASE KeptEnd(D)
  <2> DEFINE p == active_process
             woken == Found(mem, "wait", {x \in Proc : waiting_for[x] = p})
             w == CHOOSE x \in woken : TRUE
             ended == [state EXCEPT ![p] = "ZOMBIE"]
  <2>1. host = "running" /\ p \in Proc /\ next_pid' = next_pid
    BY <1>0, <1>10 DEF KeptEnd, process_wrapper_End, InUserCode
  <2>2. \E m \in Memory :
           /\ Proper(m)
           /\ schedule(m, "ZOMBIE")
           /\ \A q \in Queue : p \notin Members(m, q)
           /\ \A x \in Proc \ {p} : Placed(m, state', x)
           /\ state'[p] = "ZOMBIE"
           /\ \A x \in Proc : x >= next_pid => state'[x] = "NONE"
    <3>1. CASE woken = {}
      <4>1. state' = ended /\ schedule(mem, "ZOMBIE")
        BY <1>10, <3>1 DEF KeptEnd, process_wrapper_End
      <4>2. \A x \in Proc \ {p} : Placed(mem, state', x)
        BY <1>0, <1>a, <4>1 DEF Placed
      <4>3. state'[p] = "ZOMBIE" /\ \A x \in Proc : x >= next_pid => state'[x] = "NONE"
        BY <1>0, <1>b, <1>c, <2>1, <4>1
      <4> QED
        BY <1>0, <1>a, <4>1, <4>2, <4>3
    <3>2. CASE woken # {}
      <4> DEFINE n == queue_append(queue_dequeue(mem, "wait", w), "run", w)
      <4>1. state' = [ended EXCEPT ![w] = "RUNNABLE"] /\ schedule(n, "ZOMBIE")
        BY <1>10, <3>2 DEF KeptEnd, process_wrapper_End
      <4>2. w \in Members(mem, "wait")
        BY <1>0, <3>2, FoundInMembers DEF Queue
      <4>3. w \in Proc \ {p} /\ state[w] = "BLOCKED"
        <5>1. w \in Proc
          BY <1>0, <4>2, VisitedClosed DEF Members, Queue
        <5>2. w # p
          BY <1>a, <4>2 DEF Queue
        <5> QED
          BY <4>2, <5>1, <5>2 DEF KernelInv, NoProcessLost
      <4>4. /\ n \in Memory
            /\ Proper(n)
            /\ Members(n, "run") = Members(mem, "run") \cup {w}
            /\ Members(n, "wait") = Members(mem, "wait") \ {w}
            /\ Members(n, "zombie") = Members(mem, "zombie")
        BY <1>0, <4>2, WakeMoves
      <4> HIDE DEF n, w
      <4>5. \A q \in Queue : p \notin Members(n, q)
        BY <1>a, <4>3, <4>4 DEF Queue
      <4>6. \A x \in Proc \ {p} : Placed(n, state', x)
        <5>1. \A x \in Proc \ {p, w} : state'[x] = state[x]
          BY <1>0, <4>1
        <5>2. state'[w] = "RUNNABLE"
          BY <1>0, <4>1, <4>3
        <5>3. w \notin Members(mem, "zombie")
          BY <4>3 DEF KernelInv, NoProcessLost
        <5> QED
          BY <1>a, <4>4, <5>1, <5>2, <5>3 DEF Placed
      <4>7. state'[p] = "ZOMBIE" /\ \A x \in Proc : x >= next_pid => state'[x] = "NONE"
        BY <1>0, <1>b, <1>c, <2>1, <4>1, <4>3
      <4> QED
        BY <4>1, <4>4, <4>5, <4>6, <4>7
    <3> QED
      BY <3>1, <3>2
  <2>3. PICK m \in Memory :
           /\ Proper(m)
           /\ schedule(m, "ZOMBIE")
           /\ \A q \in Queue : p \notin Members(m, q)
           /\ \A x \in Proc \ {p} : Placed(m, state', x)
           /\ state'[p] = "ZOMBIE"
           /\ \A x \in Proc : x >= next_pid => state'[x] = "NONE"
    BY <2>2
  <2>4. /\ QueuesWellFormed'
        /\ NoProcessLost'
        /\ host' # "hung"
        /\ host' = "exited" => active_process' = NULL /\ Members(mem', "run") = {}
    BY <1>0, <2>3, ScheduleKeeps DEF States
  <2>5. host' # "boot"
    BY <1>0, <2>3, ScheduledType DEF schedule, States
  <2> QED
    BY <1>0, <2>1, <2>3, <2>4, <2>5 DEF KernelInv
<1>11. CASE Stopped \/ UNCHANGED vars
  BY <1>6, <1>11 DEF Stopped, vars
<1> QED
  BY <1>1, <1>2, <1>5, <1>7, <1>8, <1>9, <1>10, <1>11 DEF KeptNext

(* The three queues stay proper lists with a true end, for any number of   *)
(* processes: the obligation on mbs_signal is all the lists need, whatever *)
(* the programs do otherwise (process_manager.h:30-34).                    *)
THEOREM QueuesStayProper ==
    ASSUME "signal" \in Discipline
    PROVE  Spec => []QueuesWellFormed
<1>1. KernelInv /\ [Next]_vars => KernelInv'
  BY KernelNext, DisciplineIsKept
<1>2. KernelInv => QueuesWellFormed
  BY DEF KernelInv
<1> QED
  BY <1>1, <1>2, KernelInit, PTL DEF Spec

(* No process is lost or kept twice: its state says in which queue it is   *)
(* (schedule, mbs_signal and process_wrapper move it with the state).      *)
THEOREM ProcessesAreKept ==
    ASSUME "signal" \in Discipline
    PROVE  Spec => []NoProcessLost
<1>1. KernelInv /\ [Next]_vars => KernelInv'
  BY KernelNext, DisciplineIsKept
<1>2. KernelInv => NoProcessLost
  BY DEF KernelInv
<1> QED
  BY <1>1, <1>2, KernelInit, PTL DEF Spec

(* schedule() calls exit() only when no process is runnable, as its        *)
(* comment says (process_manager.c:96).                                    *)
THEOREM ExitIsLast ==
    ASSUME "signal" \in Discipline
    PROVE  Spec => []EndsWhenNothingRunnable
<1>1. KernelInv /\ [Next]_vars => KernelInv'
  BY KernelNext, DisciplineIsKept
<1>2. KernelInv => EndsWhenNothingRunnable
  BY NullAssumption DEF KernelInv, NoProcessLost, EndsWhenNothingRunnable
<1> QED
  BY <1>1, <1>2, KernelInit, PTL DEF Spec

-----------------------------------------------------------------------------
(* Waiters, whatever the programs do                                       *)

(* A process that waits for a variable is inside mbs_swait on it; one that *)
(* is not created yet is inside nothing.                                   *)
WaiterInv ==
    /\ TypeInv
    /\ WaiterIsInSwait
    /\ \A p \in Proc : p >= next_pid => at[p] = "none"

LEMMA WaiterNext == WaiterInv /\ [Next]_vars => WaiterInv'
<1> SUFFICES ASSUME WaiterInv, [Next]_vars PROVE WaiterInv'
  OBVIOUS
<1>0. /\ TypeInv' /\ TypeInv
      /\ signals \in SignalTable
      /\ at \in [Proc -> {"none", "user", "waitpid", "swait", "exit"}]
      /\ arg \in [Proc -> Proc \cup Sid \cup {NoPid}]
      /\ next_pid \in Nat /\ Proc \subseteq Nat
      /\ host = "running" => active_process \in Proc
  BY TypeNext, KernelAssumption DEF WaiterInv, TypeInv, TypeOK, SignalTable
<1>1. \A s \in Sid : signals[s].waiting # NULL =>
          /\ signals[s].waiting \in Proc
          /\ at[signals[s].waiting] = "swait"
          /\ arg[signals[s].waiting] = s
  BY <1>0 DEF WaiterInv, WaiterIsInSwait, SignalTable, Pointer
<1>2. \A p \in Proc : p >= next_pid => at[p] = "none"
  BY DEF WaiterInv
<1>3. ASSUME NEW x, at' = [at EXCEPT ![next_pid] = x], UNCHANGED <<arg, signals>>,
             next_pid' = next_pid + 1
      PROVE  WaiterInv'
  BY <1>0, <1>1, <1>2, <1>3 DEF WaiterInv, WaiterIsInSwait
<1>4. CASE Boot \/ create_process
  BY <1>3, <1>4 DEF Boot, create_process, Allocate
<1>5. ASSUME active_process \in Proc, at[active_process] \in {"user", "waitpid"},
             NEW x, at' = [at EXCEPT ![active_process] = x],
             NEW y, arg' = [arg EXCEPT ![active_process] = y],
             UNCHANGED <<signals, next_pid>>
      PROVE  WaiterInv'
  BY <1>0, <1>1, <1>2, <1>5 DEF WaiterInv, WaiterIsInSwait
<1>6. CASE \E q \in Proc \cup {NoPid} : waitpid(q)
  BY <1>0, <1>5, <1>6 DEF waitpid, InUserCode, WaitpidLoop, Block, ReturnToUser
<1>7. CASE waitpid_Resume
  BY <1>0, <1>5, <1>7 DEF waitpid_Resume, ResumedIn, WaitpidLoop, Block, ReturnToUser
<1>8. CASE UNCHANGED <<at, arg, next_pid>> /\ \A s \in Sid : signals'[s].waiting \in {NULL, signals[s].waiting}
  BY <1>0, <1>1, <1>2, <1>8 DEF WaiterInv, WaiterIsInSwait
<1>9. CASE mbs_signal_new
  <2>1. FreeSids # {} => NewSid \in Sid
    BY NewSidFree DEF FreeSids
  <2> QED
    BY <1>0, <1>8, <1>9, <2>1 DEF mbs_signal_new, ctxVars, SignalTable
<1>10. CASE \E s \in Sid : mbs_signal_free(s) \/ mbs_signal(s)
  BY <1>0, <1>8, <1>10 DEF mbs_signal_free, mbs_signal, ctxVars, SignalTable
<1>11. CASE \E s \in Sid : mbs_swait(s)
  <2>1. PICK s \in Sid : mbs_swait(s)
    BY <1>11
  <2>2. CASE ValidSid(s) /\ signals[s].waiting = NULL /\ signals[s].value = 0
    <3>1. /\ signals' = [signals EXCEPT ![s].waiting = active_process]
          /\ at' = [at EXCEPT ![active_process] = "swait"]
          /\ arg' = [arg EXCEPT ![active_process] = s]
          /\ next_pid' = next_pid
          /\ active_process \in Proc /\ at[active_process] = "user"
      BY <1>0, <2>1, <2>2 DEF mbs_swait, Block, InUserCode
    <3>2. WaiterIsInSwait'
      <4> SUFFICES ASSUME NEW t \in Sid, signals'[t].waiting # NULL
                   PROVE  at'[signals'[t].waiting] = "swait" /\ arg'[signals'[t].waiting] = t
        BY DEF WaiterIsInSwait
      <4>1. CASE t = s
        BY <1>0, <3>1, <4>1 DEF SignalTable
      <4>2. CASE t # s
        BY <1>0, <1>1, <3>1, <4>2 DEF SignalTable
      <4> QED
        BY <4>1, <4>2
    <3> QED
      BY <1>0, <1>2, <3>1, <3>2 DEF WaiterInv
  <2>3. CASE ~ (ValidSid(s) /\ signals[s].waiting = NULL /\ signals[s].value = 0)
    BY <1>0, <1>8, <2>1, <2>3 DEF mbs_swait, ctxVars, SignalTable
  <2> QED
    BY <2>2, <2>3
<1>12. CASE mbs_swait_Resume
  <2> DEFINE s == arg[active_process]
  <2>1. /\ s \in Sid /\ active_process \in Proc /\ at[active_process] = "swait"
        /\ signals' = [signals EXCEPT ![s].value = 0, ![s].waiting = NULL]
        /\ at' = [at EXCEPT ![active_process] = "user"]
        /\ arg' = [arg EXCEPT ![active_process] = NoPid]
        /\ next_pid' = next_pid
    BY <1>0, <1>12 DEF mbs_swait_Resume, ResumedIn, ReturnToUser, TypeInv, TypeOK
  <2>2. \A t \in Sid : signals'[t].waiting # NULL =>
            t # s /\ signals'[t].waiting = signals[t].waiting
    BY <1>0, <2>1 DEF SignalTable
  <2>3. \A t \in Sid : signals'[t].waiting # NULL => signals[t].waiting # active_process
    BY <1>1, <2>2
  <2>4. WaiterIsInSwait'
    <3> SUFFICES ASSUME NEW t \in Sid, signals'[t].waiting # NULL
                 PROVE  at'[signals'[t].waiting] = "swait" /\ arg'[signals'[t].waiting] = t
      BY DEF WaiterIsInSwait
    <3> DEFINE w == signals'[t].waiting
    <3>1. /\ w \in Proc /\ w # active_process
          /\ at[w] = "swait" /\ arg[w] = t
      BY <1>1, <2>2, <2>3
    <3> HIDE DEF w
    <3>2. at'[w] = at[w] /\ arg'[w] = arg[w]
      BY <1>0, <2>1, <3>1
    <3> QED
      BY <3>1, <3>2 DEF w
  <2>5. \A p \in Proc : p >= next_pid' => at'[p] = "none"
    BY <1>0, <1>2, <2>1
  <2> QED
    BY <1>0, <2>4, <2>5 DEF WaiterInv
<1>13. CASE process_wrapper_End
  BY <1>0, <1>1, <1>2, <1>13 DEF process_wrapper_End, InUserCode, WaiterInv, WaiterIsInSwait
<1>14. CASE Stopped \/ UNCHANGED vars
  BY <1>8, <1>0, <1>14 DEF Stopped, vars
<1> QED
  BY <1>4, <1>6, <1>7, <1>9, <1>10, <1>11, <1>12, <1>13, <1>14 DEF Next, SystemCall

(* signals[].waiting never points to a process that has left mbs_swait,    *)
(* so mbs_signal never wakes one out of another call, for all programs     *)
(* (syscalls.c:133-166).                                                   *)
THEOREM WaitersStayInSwait == Spec => []WaiterIsInSwait
<1>1. Init => WaiterInv
  BY TypeInit DEF Init, WaiterInv, WaiterIsInSwait
<1>2. WaiterInv => WaiterIsInSwait
  BY DEF WaiterInv
<1> QED
  BY <1>1, <1>2, WaiterNext, PTL DEF Spec

-----------------------------------------------------------------------------
(* The wake-ups: no process that sleeps has been forgotten, none that has  *)
(* ended runs                                                              *)

(* Where a process is, by its state.                                       *)
PlaceInv ==
    \A p \in Proc :
        /\ state[p] = "NONE" <=> at[p] = "none"
        /\ state[p] = "ZOMBIE" <=> at[p] = "exit"
        /\ state[p] = "BLOCKED" => at[p] \in {"waitpid", "swait"}

(* A process inside mbs_swait is registered with its variable until it     *)
(* leaves; while it sleeps no signal has been sent.                        *)
SwaitInv ==
    \A p \in Proc : at[p] = "swait" =>
        /\ signals[arg[p]].used /\ signals[arg[p]].waiting = p
        /\ state[p] = "BLOCKED" => signals[arg[p]].value = 0

(* A process inside waitpid is the only one that waits for its pid, and    *)
(* finds an ended process in zombie_queue when it looks again.             *)
WaitpidInv ==
    /\ \A w \in Proc : at[w] = "waitpid" /\ state[w] = "BLOCKED" =>
           waiting_for[w] = arg[w] /\ (arg[w] \in Proc => ~ Ended(arg[w]))
    /\ \A v, w \in Proc : at[v] = "waitpid" /\ at[w] = "waitpid" /\ arg[v] = arg[w] => v = w
    /\ \A w \in Proc : at[w] = "waitpid" /\ arg[w] \in Proc => ~ Reaped(arg[w])

-----------------------------------------------------------------------------
(* What schedule() does to zombie_queue.                                   *)
LEMMA ScheduleZombies ==
    ASSUME active_process \in Proc, NEW m \in Memory, Proper(m), NEW st \in States,
           \A q \in Queue : active_process \notin Members(m, q), schedule(m, st)
    PROVE  Members(mem', "zombie") = IF st = "ZOMBIE"
                                     THEN Members(m, "zombie") \cup {active_process}
                                     ELSE Members(m, "zombie")
<1> DEFINE filed == Filed(m, st)
           chosen == select_next_process(filed)
<1>1. QueueOf(st) \in Queue /\ (QueueOf(st) = "zombie" <=> st = "ZOMBIE")
  BY DEF QueueOf, States, Queue
<1>2. /\ filed \in Memory /\ Proper(filed)
      /\ Members(filed, QueueOf(st)) = Members(m, QueueOf(st)) \cup {active_process}
      /\ \A r \in Queue \ {QueueOf(st)} : Members(filed, r) = Members(m, r)
  BY <1>1, AppendAdds, NullAssumption DEF Filed
<1> HIDE DEF filed
<1>3. ~ Endless(filed, "run")
  BY <1>2, ProperEnds DEF Proper, Queue
<1>4. mem' = Scheduled(m, st).mem
  BY DEF schedule
<1>5. CASE filed.first["run"] = NULL
  BY <1>1, <1>2, <1>4, <1>5 DEF Scheduled, filed, Queue
<1>6. CASE filed.first["run"] # NULL
  <2>1. mem' = queue_dequeue(filed, "run", chosen)
    BY <1>3, <1>4, <1>6 DEF Scheduled, filed
  <2>2. chosen \in Members(filed, "run")
    BY <1>2, <1>6, SelectSpec
  <2> HIDE DEF chosen
  <2>3. \A r \in Queue \ {"run"} : Members(mem', r) = Members(filed, r)
    BY <1>2, <2>1, <2>2, DequeueRemoves DEF Queue
  <2> QED BY <1>1, <1>2, <2>3 DEF Queue
<1> QED BY <1>5, <1>6

(* What the steps need to know of a state.                                 *)
LEMMA KernelFacts ==
    ASSUME KernelInv
    PROVE  /\ TypeInv /\ mem \in Memory /\ Proper(mem)
           /\ state \in [Proc -> {"NONE", "RUNNABLE", "BLOCKED", "ZOMBIE"}]
           /\ waiting_for \in [Proc -> Proc \cup {NoPid}]
           /\ signals \in SignalTable
           /\ at \in [Proc -> {"none", "user", "waitpid", "swait", "exit"}]
           /\ arg \in [Proc -> Proc \cup Sid \cup {NoPid}]
           /\ \A p \in Proc : /\ at[p] = "waitpid" => arg[p] \in Proc \cup {NoPid}
                              /\ at[p] = "swait" => arg[p] \in Sid
           /\ host = "running" => active_process \in Proc /\ state[active_process] = "RUNNABLE"
           /\ next_pid \in Proc => state[next_pid] = "NONE"
           /\ \A q \in Queue : active_process \notin Members(mem, q)
           /\ \A p \in Proc : state[p] = "BLOCKED" <=> p \in Members(mem, "wait")
           /\ \A p \in Proc : p \in Members(mem, "zombie") => state[p] = "ZOMBIE"
<1>1. next_pid \in Nat /\ Proc \subseteq Nat
  BY KernelAssumption DEF KernelInv, TypeInv, TypeOK
<1>2. next_pid \in Proc => state[next_pid] = "NONE"
  BY <1>1 DEF KernelInv
<1>3. \A q \in Queue : active_process \notin Members(mem, q)
  BY ActiveInNoQueue
<1> QED
  BY <1>2, <1>3 DEF KernelInv, TypeInv, TypeOK, NoProcessLost, QueuesWellFormed, SignalTable

(* The end of a process wakes the first process in wait_queue whose        *)
(* waiting_for is its pid, if there is one, and makes a zombie of it.      *)
LEMMA EndEffect ==
    ASSUME KernelInv, process_wrapper_End
    PROVE  /\ active_process \in Proc /\ at[active_process] = "user"
           /\ at' = [at EXCEPT ![active_process] = "exit"]
           /\ UNCHANGED <<next_pid, waiting_for, signals, arg>>
           /\ Members(mem', "zombie") = Members(mem, "zombie") \cup {active_process}
           /\ \/ /\ \A x \in Proc : state[x] = "BLOCKED" => waiting_for[x] # active_process
                 /\ state' = [state EXCEPT ![active_process] = "ZOMBIE"]
              \/ \E w \in Proc \ {active_process} :
                    /\ state[w] = "BLOCKED" /\ waiting_for[w] = active_process
                    /\ state' = [[state EXCEPT ![active_process] = "ZOMBIE"] EXCEPT ![w] = "RUNNABLE"]
<1> DEFINE p == active_process
           woken == Found(mem, "wait", {x \in Proc : waiting_for[x] = p})
           w == CHOOSE x \in woken : TRUE
           ended == [state EXCEPT ![p] = "ZOMBIE"]
<1>1. /\ p \in Proc /\ at[p] = "user"
      /\ at' = [at EXCEPT ![p] = "exit"]
      /\ UNCHANGED <<next_pid, waiting_for, signals, arg>>
  BY KernelFacts DEF process_wrapper_End, InUserCode
<1>2. /\ mem \in Memory /\ Proper(mem) /\ \A q \in Queue : p \notin Members(mem, q)
      /\ \A x \in Proc : state[x] = "BLOCKED" <=> x \in Members(mem, "wait")
      /\ Members(mem, "wait") \subseteq Proc
  <2>1. mem \in Memory
    BY KernelFacts
  <2>2. Members(mem, "wait") \subseteq Proc
    BY <2>1, VisitedClosed DEF Members, Queue
  <2> QED BY <2>2, KernelFacts
<1>3. CASE woken = {}
  <2>1. state' = ended /\ schedule(mem, "ZOMBIE")
    BY <1>3 DEF process_wrapper_End
  <2>2. Members(mem', "zombie") = Members(mem, "zombie") \cup {p}
    BY <1>1, <1>2, <2>1, ScheduleZombies DEF States
  <2>3. Members(mem, "wait") \cap {x \in Proc : waiting_for[x] = p} = {}
    BY <1>2, <1>3, FoundInMembers DEF Queue
  <2>4. \A x \in Proc : state[x] = "BLOCKED" => waiting_for[x] # p
    BY <1>2, <2>3
  <2> QED BY <1>1, <2>1, <2>2, <2>4
<1>4. CASE woken # {}
  <2> DEFINE n == queue_append(queue_dequeue(mem, "wait", w), "run", w)
  <2>1. state' = [ended EXCEPT ![w] = "RUNNABLE"] /\ schedule(n, "ZOMBIE")
    BY <1>4 DEF process_wrapper_End
  <2>2. w \in Members(mem, "wait") /\ w \in {x \in Proc : waiting_for[x] = p}
    BY <1>2, <1>4, FoundInMembers DEF Queue
  <2>3. w \in Proc \ {p} /\ state[w] = "BLOCKED" /\ waiting_for[w] = p
    BY <1>2, <2>2 DEF Queue
  <2>4. /\ n \in Memory
        /\ Proper(n)
        /\ Members(n, "run") = Members(mem, "run") \cup {w}
        /\ Members(n, "wait") = Members(mem, "wait") \ {w}
        /\ Members(n, "zombie") = Members(mem, "zombie")
    BY <1>2, <2>2, WakeMoves
  <2> HIDE DEF n, w
  <2>5. \A q \in Queue : p \notin Members(n, q)
    BY <1>2, <2>3, <2>4 DEF Queue
  <2>6. Members(mem', "zombie") = Members(mem, "zombie") \cup {p}
    BY <1>1, <2>1, <2>4, <2>5, ScheduleZombies DEF States
  <2> QED BY <1>1, <2>1, <2>3, <2>6
<1> QED BY <1>3, <1>4

(* mbs_signal of a registered process, which is asleep.                    *)
LEMMA SignalEffect ==
    ASSUME KernelInv, NEW s \in Sid, mbs_signal(s), ValidSid(s) => MaySignal(s)
    PROVE  /\ UNCHANGED <<next_pid, waiting_for, active_process, at, arg, host>>
           /\ \/ UNCHANGED <<signals, mem, state>>
              \/ /\ signals[s].used /\ signals[s].waiting = NULL
                 /\ signals' = [signals EXCEPT ![s].value = 1] /\ UNCHANGED <<mem, state>>
              \/ \E w \in Proc :
                    /\ signals[s].used /\ signals[s].waiting = w /\ state[w] = "BLOCKED"
                    /\ signals' = [signals EXCEPT ![s].value = 1]
                    /\ state' = [state EXCEPT ![w] = "RUNNABLE"]
                    /\ Members(mem', "zombie") = Members(mem, "zombie")
<1> DEFINE w == signals[s].waiting
<1>1. UNCHANGED <<next_pid, waiting_for, active_process, at, arg, host>>
  BY DEF mbs_signal, ctxVars
<1>2. CASE ~ ValidSid(s) \/ w = NULL
  BY <1>1, <1>2 DEF mbs_signal, ValidSid
<1>3. CASE ValidSid(s) /\ w # NULL
  <2>1. /\ w \in Proc /\ state[w] = "BLOCKED" /\ signals[s].used
        /\ mem \in Memory /\ Proper(mem) /\ w \in Members(mem, "wait")
    BY <1>3, KernelFacts DEF MaySignal, SignalTable, Pointer, ValidSid
  <2>2. /\ mem' = queue_append(queue_dequeue(mem, "wait", w), "run", w)
        /\ state' = [state EXCEPT ![w] = "RUNNABLE"]
        /\ signals' = [signals EXCEPT ![s].value = 1]
    BY <1>3 DEF mbs_signal
  <2>3. Members(mem', "zombie") = Members(mem, "zombie")
    BY <2>1, <2>2, WakeMoves
  <2> QED BY <1>1, <2>1, <2>2, <2>3
<1> QED BY <1>2, <1>3

LEMMA PlaceNext ==
    ASSUME NEW D, "signal" \in D
    PROVE  KernelInv /\ PlaceInv /\ [KeptNext(D)]_vars => PlaceInv'
<1> SUFFICES ASSUME KernelInv, PlaceInv, [KeptNext(D)]_vars PROVE PlaceInv'
  OBVIOUS
<1>0. /\ state \in [Proc -> {"NONE", "RUNNABLE", "BLOCKED", "ZOMBIE"}]
      /\ at \in [Proc -> {"none", "user", "waitpid", "swait", "exit"}]
      /\ host = "running" => active_process \in Proc /\ state[active_process] = "RUNNABLE"
      /\ next_pid \in Proc => state[next_pid] = "NONE"
  BY KernelFacts
<1>1. ASSUME Allocate(next_pid) PROVE PlaceInv'
  BY <1>0, <1>1 DEF Allocate, PlaceInv
<1>2. ASSUME host = "running", NEW call \in {"waitpid", "swait"}, NEW x, Block(call, x)
      PROVE  PlaceInv'
  BY <1>0, <1>2 DEF Block, PlaceInv
<1>3. ASSUME host = "running", ReturnToUser, UNCHANGED state PROVE PlaceInv'
  BY <1>0, <1>3 DEF ReturnToUser, PlaceInv
<1>4. ASSUME UNCHANGED <<state, at>> PROVE PlaceInv'
  BY <1>4 DEF PlaceInv
<1>5. CASE Boot \/ create_process
  BY <1>1, <1>5 DEF Boot, create_process
<1>6. CASE (\E q \in Proc \cup {NoPid} : KeptWaitpid(D, q)) \/ waitpid_Resume
  BY <1>2, <1>3, <1>6 DEF KeptWaitpid, waitpid, waitpid_Resume, WaitpidLoop, InUserCode, ResumedIn, procVars
<1>7. CASE \E s \in Sid : mbs_swait(s)
  BY <1>2, <1>4, <1>7 DEF mbs_swait, InUserCode, ctxVars
<1>8. CASE mbs_swait_Resume
  BY <1>3, <1>8 DEF mbs_swait_Resume, ResumedIn, procVars
<1>9. CASE mbs_signal_new \/ (\E s \in Sid : KeptFree(D, s)) \/ Stopped \/ UNCHANGED vars
  BY <1>4, <1>9 DEF mbs_signal_new, KeptFree, mbs_signal_free, Stopped, vars, procVars, ctxVars
<1>10. CASE \E s \in Sid : KeptSignal(D, s)
  <2>1. PICK s \in Sid : KeptSignal(D, s)
    BY <1>10
  <2>2. at' = at /\ (state' = state \/ \E w \in Proc : state[w] = "BLOCKED"
                                        /\ state' = [state EXCEPT ![w] = "RUNNABLE"])
    BY <2>1, SignalEffect DEF KeptSignal
  <2> QED BY <1>0, <2>2 DEF PlaceInv
<1>11. CASE KeptEnd(D)
  <2>1. /\ active_process \in Proc /\ at[active_process] = "user"
        /\ at' = [at EXCEPT ![active_process] = "exit"]
        /\ \/ state' = [state EXCEPT ![active_process] = "ZOMBIE"]
           \/ \E w \in Proc \ {active_process} :
                 /\ state[w] = "BLOCKED"
                 /\ state' = [[state EXCEPT ![active_process] = "ZOMBIE"] EXCEPT ![w] = "RUNNABLE"]
    BY <1>11, EndEffect DEF KeptEnd
  <2> QED BY <1>0, <2>1 DEF PlaceInv
<1> QED
  BY <1>5, <1>6, <1>7, <1>8, <1>9, <1>10, <1>11 DEF KeptNext

LEMMA SwaitNext ==
    ASSUME NEW D, "signal" \in D, "free" \in D
    PROVE  KernelInv /\ PlaceInv /\ SwaitInv /\ [KeptNext(D)]_vars => SwaitInv'
<1> SUFFICES ASSUME KernelInv, PlaceInv, SwaitInv, [KeptNext(D)]_vars PROVE SwaitInv'
  OBVIOUS
<1>0. /\ state \in [Proc -> {"NONE", "RUNNABLE", "BLOCKED", "ZOMBIE"}]
      /\ signals \in SignalTable
      /\ at \in [Proc -> {"none", "user", "waitpid", "swait", "exit"}]
      /\ arg \in [Proc -> Proc \cup Sid \cup {NoPid}]
      /\ \A p \in Proc : at[p] = "swait" => arg[p] \in Sid
      /\ host = "running" => active_process \in Proc /\ state[active_process] = "RUNNABLE"
      /\ next_pid \in Proc => state[next_pid] = "NONE"
  BY KernelFacts
<1>1. \A p \in Proc : at[p] = "swait" =>
        /\ arg[p] \in Sid /\ signals[arg[p]].used /\ signals[arg[p]].waiting = p
        /\ state[p] = "BLOCKED" => signals[arg[p]].value = 0
  BY <1>0 DEF SwaitInv
<1>2. ASSUME Allocate(next_pid) PROVE SwaitInv'
  BY <1>0, <1>1, <1>2 DEF Allocate, SwaitInv
<1>3. ASSUME host = "running", at[active_process] \in {"user", "waitpid"},
             NEW x, Block("waitpid", x), UNCHANGED signals
      PROVE  SwaitInv'
  BY <1>0, <1>1, <1>3 DEF Block, SwaitInv
<1>4. ASSUME host = "running", ReturnToUser, UNCHANGED <<state, signals>> PROVE SwaitInv'
  BY <1>0, <1>1, <1>4 DEF ReturnToUser, SwaitInv
<1>5. ASSUME UNCHANGED <<state, at, arg, signals>> PROVE SwaitInv'
  BY <1>5 DEF SwaitInv
<1>6. CASE Boot \/ create_process
  BY <1>2, <1>6 DEF Boot, create_process
<1>7. CASE (\E q \in Proc \cup {NoPid} : KeptWaitpid(D, q)) \/ waitpid_Resume
  BY <1>3, <1>4, <1>7 DEF KeptWaitpid, waitpid, waitpid_Resume, WaitpidLoop, InUserCode, ResumedIn, procVars
<1>8. CASE Stopped \/ UNCHANGED vars
  BY <1>5, <1>8 DEF Stopped, vars
<1>9. CASE mbs_signal_new
  <2>1. FreeSids # {} => NewSid \in Sid /\ ~ signals[NewSid].used
    BY NewSidFree DEF FreeSids
  <2>2. UNCHANGED <<state, at, arg>>
    BY <1>9 DEF mbs_signal_new, procVars, ctxVars
  <2>3. \A t \in Sid : signals[t].used => signals'[t] = signals[t]
    BY <1>0, <1>9, <2>1 DEF mbs_signal_new, SignalTable
  <2> QED BY <1>1, <2>2, <2>3 DEF SwaitInv
<1>10. CASE \E s \in Sid : KeptFree(D, s)
  <2>1. PICK s \in Sid : KeptFree(D, s)
    BY <1>10
  <2>2. /\ UNCHANGED <<state, at, arg>> /\ MayFree(s)
        /\ \A t \in Sid \ {s} : signals'[t] = signals[t]
    BY <1>0, <2>1 DEF KeptFree, mbs_signal_free, procVars, ctxVars, SignalTable
  <2> QED BY <1>1, <2>2 DEF SwaitInv, MayFree
<1>11. CASE \E s \in Sid : mbs_swait(s)
  <2>1. PICK s \in Sid : mbs_swait(s)
    BY <1>11
  <2>2. host = "running" /\ at[active_process] = "user"
    BY <2>1 DEF mbs_swait, InUserCode
  <2>3. CASE ~ ValidSid(s) \/ signals[s].waiting # NULL
    BY <1>5, <2>1, <2>3 DEF mbs_swait, ctxVars
  <2>4. CASE ValidSid(s) /\ signals[s].waiting = NULL /\ signals[s].value = 0
    <3>1. /\ signals' = [signals EXCEPT ![s].waiting = active_process]
          /\ state' = [state EXCEPT ![active_process] = "BLOCKED"]
          /\ at' = [at EXCEPT ![active_process] = "swait"]
          /\ arg' = [arg EXCEPT ![active_process] = s]
      BY <2>1, <2>4 DEF mbs_swait, Block
    <3>2. \A p \in Proc \ {active_process} : at[p] = "swait" => arg[p] # s
      BY <1>1, <2>4, NullAssumption
    <3>3. /\ signals'[s].used /\ signals'[s].waiting = active_process /\ signals'[s].value = 0
          /\ \A t \in Sid \ {s} : signals'[t] = signals[t]
      BY <1>0, <2>4, <3>1 DEF SignalTable, ValidSid
    <3>4. ASSUME NEW p \in Proc \ {active_process}, at'[p] = "swait"
          PROVE  /\ signals'[arg'[p]].used /\ signals'[arg'[p]].waiting = p
                 /\ state'[p] = "BLOCKED" => signals'[arg'[p]].value = 0
      BY <1>0, <1>1, <3>1, <3>2, <3>3, <3>4
    <3> QED BY <1>0, <2>2, <3>1, <3>3, <3>4 DEF SwaitInv
  <2>5. CASE ValidSid(s) /\ signals[s].waiting = NULL /\ signals[s].value # 0
    <3>1. /\ state' = state /\ at' = at /\ arg' = arg
          /\ signals' = [signals EXCEPT ![s].value = 0, ![s].waiting = NULL]
      BY <2>1, <2>5 DEF mbs_swait, ctxVars
    <3>2. \A t \in Sid \ {s} : signals'[t] = signals[t]
      BY <1>0, <3>1 DEF SignalTable
    <3>3. ASSUME NEW p \in Proc, at[p] = "swait"
          PROVE  /\ signals'[arg[p]].used /\ signals'[arg[p]].waiting = p
                 /\ state'[p] = "BLOCKED" => signals'[arg[p]].value = 0
      <4>1. arg[p] \in Sid \ {s}
        BY <1>1, <2>5, <3>3, NullAssumption
      <4>2. signals'[arg[p]] = signals[arg[p]] /\ state' = state
        BY <3>1, <3>2, <4>1
      <4> QED BY <1>1, <3>3, <4>2
    <3>4. at' = at /\ arg' = arg
      BY <3>1
    <3> QED BY <3>3, <3>4 DEF SwaitInv
  <2> QED BY <2>3, <2>4, <2>5
<1>12. CASE mbs_swait_Resume
  <2> DEFINE s == arg[active_process]
  <2>1. /\ s \in Sid /\ active_process \in Proc /\ at[active_process] = "swait"
        /\ signals' = [signals EXCEPT ![s].value = 0, ![s].waiting = NULL]
        /\ at' = [at EXCEPT ![active_process] = "user"]
        /\ arg' = [arg EXCEPT ![active_process] = NoPid]
        /\ state' = state
    BY <1>0, <1>12 DEF mbs_swait_Resume, ResumedIn, ReturnToUser, procVars
  <2>2. \A t \in Sid \ {s} : signals'[t] = signals[t]
    BY <1>0, <2>1 DEF SignalTable
  <2>3. \A p \in Proc \ {active_process} : at[p] = "swait" => arg[p] # s
    BY <1>1, <2>1
  <2>4. at'[active_process] = "user"
        /\ \A p \in Proc \ {active_process} : at'[p] = at[p] /\ arg'[p] = arg[p]
    BY <1>0, <2>1
  <2>5. state' = state
    BY <2>1
  <2> HIDE DEF s
  <2>6. ASSUME NEW p \in Proc, at'[p] = "swait"
        PROVE  /\ signals'[arg'[p]].used /\ signals'[arg'[p]].waiting = p
               /\ state'[p] = "BLOCKED" => signals'[arg'[p]].value = 0
    <3>1. p # active_process
      BY <2>4, <2>6
    <3>2. at[p] = "swait" /\ arg'[p] = arg[p] /\ arg[p] \in Sid \ {s}
      BY <1>1, <2>3, <2>4, <2>6, <3>1
    <3> QED BY <1>1, <2>2, <2>5, <3>2
  <2> QED BY <2>6 DEF SwaitInv
<1>13. CASE \E s \in Sid : KeptSignal(D, s)
  <2>1. PICK s \in Sid : KeptSignal(D, s)
    BY <1>13
  <2>2. at' = at /\ arg' = arg
    BY <2>1, SignalEffect DEF KeptSignal
  <2>3. CASE UNCHANGED <<signals, mem, state>>
    BY <1>5, <2>2, <2>3
  <2>4. CASE /\ signals[s].used /\ signals[s].waiting = NULL
             /\ signals' = [signals EXCEPT ![s].value = 1] /\ UNCHANGED <<mem, state>>
    <3>1. \A t \in Sid \ {s} : signals'[t] = signals[t]
      BY <1>0, <2>4 DEF SignalTable
    <3>2. ASSUME NEW p \in Proc, at[p] = "swait"
          PROVE  /\ signals'[arg[p]].used /\ signals'[arg[p]].waiting = p
                 /\ state'[p] = "BLOCKED" => signals'[arg[p]].value = 0
      <4>1. arg[p] # s
        BY <1>1, <2>4, <3>2, NullAssumption
      <4> QED BY <1>1, <2>4, <3>1, <3>2, <4>1
    <3> QED BY <2>2, <3>2 DEF SwaitInv
  <2>5. ASSUME NEW w \in Proc, signals[s].waiting = w, state[w] = "BLOCKED",
               signals' = [signals EXCEPT ![s].value = 1],
               state' = [state EXCEPT ![w] = "RUNNABLE"]
        PROVE  SwaitInv'
    <3>1. /\ \A t \in Sid \ {s} : signals'[t] = signals[t]
          /\ signals'[s].used = signals[s].used /\ signals'[s].waiting = w
      BY <1>0, <2>5 DEF SignalTable
    <3>2. \A p \in Proc \ {w} : (at[p] = "swait" => arg[p] # s) /\ state'[p] = state[p]
      BY <1>0, <1>1, <2>5
    <3>3. state'[w] # "BLOCKED"
      BY <1>0, <2>5
    <3>4. ASSUME NEW p \in Proc, at[p] = "swait"
          PROVE  /\ signals'[arg[p]].used /\ signals'[arg[p]].waiting = p
                 /\ state'[p] = "BLOCKED" => signals'[arg[p]].value = 0
      <4>1. CASE p # w
        BY <1>1, <3>1, <3>2, <3>4, <4>1
      <4>2. CASE p = w
        BY <1>1, <3>1, <3>3, <3>4, <4>2
      <4> QED BY <4>1, <4>2
    <3> QED BY <2>2, <3>4 DEF SwaitInv
  <2> QED BY <2>1, <2>3, <2>4, <2>5, SignalEffect DEF KeptSignal
<1>14. CASE KeptEnd(D)
  <2>1. /\ active_process \in Proc /\ UNCHANGED <<signals, arg>>
        /\ at' = [at EXCEPT ![active_process] = "exit"]
        /\ \/ state' = [state EXCEPT ![active_process] = "ZOMBIE"]
           \/ \E w \in Proc : state' = [[state EXCEPT ![active_process] = "ZOMBIE"] EXCEPT ![w] = "RUNNABLE"]
    BY <1>14, EndEffect DEF KeptEnd
  <2>2. \A p \in Proc : /\ at'[p] = "swait" => at[p] = "swait"
                        /\ state'[p] = "BLOCKED" => state[p] = "BLOCKED"
    BY <1>0, <2>1
  <2> QED BY <1>1, <2>1, <2>2 DEF SwaitInv
<1> QED
  BY <1>6, <1>7, <1>8, <1>9, <1>10, <1>11, <1>12, <1>13, <1>14 DEF KeptNext

(* A step that leaves p outside of waitpid, takes nobody else into it, and *)
(* no zombie out of its queue for whom another one waits.                  *)
LEMMA WaitpidFrame ==
    ASSUME WaitpidInv, NEW p \in Proc, at[p] # "exit", at'[p] \notin {"exit", "waitpid"},
           \A w \in Proc \ {p} : /\ at'[w] = at[w] /\ arg'[w] = arg[w]
                                 /\ waiting_for'[w] = waiting_for[w]
                                 /\ state'[w] = "BLOCKED" => state[w] = "BLOCKED",
           \A w \in Proc \ {p} :
               at[w] = "waitpid" /\ arg[w] \in Members(mem, "zombie") =>
                   arg[w] \in Members(mem', "zombie")
    PROVE  WaitpidInv'
<1>1. \A x \in Proc : Ended(x)' <=> Ended(x)
  BY DEF Ended
<1>2. \A w \in Proc : at'[w] = "waitpid" => w # p /\ at[w] = "waitpid" /\ arg'[w] = arg[w]
  OBVIOUS
<1>3. ASSUME NEW w \in Proc, at'[w] = "waitpid", arg'[w] \in Proc
      PROVE  ~ Reaped(arg[w])'
  <2>1. w # p /\ at[w] = "waitpid" /\ arg'[w] = arg[w]
    BY <1>2, <1>3
  <2>2. Ended(arg[w]) => arg[w] \in Members(mem, "zombie")
    BY <1>3, <2>1 DEF WaitpidInv, Reaped
  <2>3. at'[arg'[w]] = "exit" => arg'[w] \in Members(mem', "zombie")
    BY <1>3, <2>1, <2>2 DEF Ended
  <2> QED BY <2>3 DEF Reaped, Ended
<1>4. ASSUME NEW w \in Proc, at'[w] = "waitpid", state'[w] = "BLOCKED"
      PROVE  waiting_for'[w] = arg'[w] /\ (arg'[w] \in Proc => at'[arg'[w]] # "exit")
  <2>1. w # p /\ at[w] = "waitpid" /\ arg'[w] = arg[w] /\ state[w] = "BLOCKED"
        /\ waiting_for'[w] = waiting_for[w]
    BY <1>2, <1>4
  <2>2. waiting_for[w] = arg[w] /\ (arg[w] \in Proc => at[arg[w]] # "exit")
    BY <2>1 DEF WaitpidInv, Ended
  <2> QED BY <2>1, <2>2
<1>5. \A v, w \in Proc : at'[v] = "waitpid" /\ at'[w] = "waitpid" /\ arg'[v] = arg'[w] => v = w
  BY <1>2 DEF WaitpidInv
<1> QED BY <1>3, <1>4, <1>5 DEF WaitpidInv, Ended

(* The loop of waitpid, when nobody else waits for q and q has not been    *)
(* waited for already.                                                     *)
LEMMA WaitpidLoopStep ==
    ASSUME KernelInv, WaitpidInv, host = "running", at[active_process] \in {"user", "waitpid"},
           NEW q \in Proc \cup {NoPid}, WaitpidLoop(q),
           \A w \in Proc \ {active_process} : at[w] = "waitpid" => arg[w] # q,
           q \in Proc => ~ Reaped(q)
    PROVE  WaitpidInv'
<1> DEFINE p == active_process
<1>0. /\ p \in Proc /\ mem \in Memory /\ Proper(mem) /\ \A r \in Queue : p \notin Members(mem, r)
      /\ state \in [Proc -> {"NONE", "RUNNABLE", "BLOCKED", "ZOMBIE"}]
      /\ waiting_for \in [Proc -> Proc \cup {NoPid}]
      /\ at \in [Proc -> {"none", "user", "waitpid", "swait", "exit"}]
      /\ arg \in [Proc -> Proc \cup Sid \cup {NoPid}]
  BY KernelFacts
<1>1. CASE q \in Members(mem, "zombie")
  <2>1. /\ mem' = queue_dequeue(mem, "zombie", q)
        /\ at' = [at EXCEPT ![p] = "user"] /\ arg' = [arg EXCEPT ![p] = NoPid]
        /\ state' = state /\ waiting_for' = waiting_for
    BY <1>1 DEF WaitpidLoop, ReturnToUser, procVars
  <2>2. Members(mem', "zombie") = Members(mem, "zombie") \ {q}
    BY <1>0, <1>1, <2>1, DequeueRemoves DEF Queue
  <2>3. /\ at'[p] = "user"
        /\ \A w \in Proc \ {p} : at'[w] = at[w] /\ arg'[w] = arg[w]
    BY <1>0, <2>1
  <2> QED BY <1>0, <2>1, <2>2, <2>3, WaitpidFrame
<1>2. CASE q \notin Members(mem, "zombie")
  <2>1. /\ waiting_for' = [waiting_for EXCEPT ![p] = q]
        /\ state' = [state EXCEPT ![p] = "BLOCKED"]
        /\ at' = [at EXCEPT ![p] = "waitpid"]
        /\ arg' = [arg EXCEPT ![p] = q]
        /\ schedule(mem, "BLOCKED")
    BY <1>2 DEF WaitpidLoop, Block
  <2>2. Members(mem', "zombie") = Members(mem, "zombie")
    BY <1>0, <2>1, ScheduleZombies DEF States
  <2>3. /\ at'[p] = "waitpid" /\ arg'[p] = q /\ waiting_for'[p] = q
        /\ \A w \in Proc \ {p} : /\ at'[w] = at[w] /\ arg'[w] = arg[w]
                                 /\ waiting_for'[w] = waiting_for[w] /\ state'[w] = state[w]
    BY <1>0, <2>1
  <2>4. \A x \in Proc : at'[x] = "exit" <=> at[x] = "exit"
    BY <1>0, <2>3
  <2>5. q \in Proc => at[q] # "exit"
    BY <1>2 DEF Reaped, Ended
  <2>6. ASSUME NEW w \in Proc, at'[w] = "waitpid", state'[w] = "BLOCKED"
        PROVE  waiting_for'[w] = arg'[w] /\ (arg'[w] \in Proc => at'[arg'[w]] # "exit")
    <3>1. CASE w = p
      BY <2>3, <2>4, <2>5, <3>1
    <3>2. CASE w # p
      <4>1. waiting_for[w] = arg[w] /\ (arg[w] \in Proc => at[arg[w]] # "exit")
        BY <2>3, <2>6, <3>2 DEF WaitpidInv, Ended
      <4> QED BY <2>3, <2>4, <3>2, <4>1
    <3> QED BY <3>1, <3>2
  <2>7. ASSUME NEW v \in Proc, NEW w \in Proc, at'[v] = "waitpid", at'[w] = "waitpid", arg'[v] = arg'[w]
        PROVE  v = w
    <3>1. CASE v # p /\ w # p
      BY <2>3, <2>7, <3>1 DEF WaitpidInv
    <3> QED BY <2>3, <2>7, <3>1
  <2>8. ASSUME NEW w \in Proc, at'[w] = "waitpid", arg'[w] \in Proc
        PROVE  at'[arg'[w]] = "exit" => arg'[w] \in Members(mem', "zombie")
    <3>1. CASE w = p
      <4>1. arg'[w] = q
        BY <2>3, <3>1
      <4>2. q \in Proc
        BY <2>8, <4>1
      <4>3. at'[q] # "exit"
        BY <2>4, <2>5, <4>2
      <4> QED BY <4>1, <4>3
    <3>2. CASE w # p
      <4>1. at[w] = "waitpid" /\ arg'[w] = arg[w]
        BY <2>3, <2>8, <3>2
      <4>2. at[arg[w]] = "exit" => arg[w] \in Members(mem, "zombie")
        BY <2>8, <4>1 DEF WaitpidInv, Reaped, Ended
      <4>3. at'[arg[w]] = "exit" => at[arg[w]] = "exit"
        BY <2>4, <2>8, <4>1
      <4> QED BY <2>2, <4>1, <4>2, <4>3
    <3> QED BY <3>1, <3>2
  <2> QED BY <2>6, <2>7, <2>8 DEF WaitpidInv, Reaped, Ended
<1> QED BY <1>1, <1>2

LEMMA WaitpidNext ==
    ASSUME NEW D, {"signal", "waitpid", "alone", "exit"} \subseteq D
    PROVE  KernelInv /\ PlaceInv /\ WaitpidInv /\ [KeptNext(D)]_vars => WaitpidInv'
<1> SUFFICES ASSUME KernelInv, PlaceInv, WaitpidInv, [KeptNext(D)]_vars PROVE WaitpidInv'
  OBVIOUS
<1> DEFINE p == active_process
<1>0. /\ mem \in Memory /\ Proper(mem) /\ \A r \in Queue : p \notin Members(mem, r)
      /\ state \in [Proc -> {"NONE", "RUNNABLE", "BLOCKED", "ZOMBIE"}]
      /\ waiting_for \in [Proc -> Proc \cup {NoPid}]
      /\ at \in [Proc -> {"none", "user", "waitpid", "swait", "exit"}]
      /\ arg \in [Proc -> Proc \cup Sid \cup {NoPid}]
      /\ \A w \in Proc : at[w] = "waitpid" => arg[w] \in Proc \cup {NoPid}
      /\ host = "running" => p \in Proc
      /\ next_pid \in Proc => state[next_pid] = "NONE"
  BY KernelFacts
<1>1. CASE Boot
  <2>1. next_pid = 0 /\ next_pid \in Proc /\ \A w \in Proc : state[w] = "NONE"
    BY <1>1, KernelAssumption DEF Boot, KernelInv, TypeInv
  <2>2. \A w \in Proc : at'[w] \in {"none", "user"}
    BY <1>0, <1>1, <2>1 DEF Boot, Allocate, PlaceInv
  <2> QED BY <2>2 DEF WaitpidInv
<1>2. CASE create_process
  <2>1. next_pid \in Proc
    BY <1>2, KernelAssumption DEF create_process, KernelInv, TypeInv, TypeOK
  <2>2. at[next_pid] = "none"
    BY <1>0, <2>1 DEF PlaceInv
  <2>3. /\ at'[next_pid] = "user"
        /\ \A w \in Proc \ {next_pid} : /\ at'[w] = at[w] /\ arg'[w] = arg[w]
                                        /\ waiting_for'[w] = waiting_for[w] /\ state'[w] = state[w]
    BY <1>0, <1>2, <2>1 DEF create_process, Allocate
  <2>4. \A r \in Queue : next_pid \notin Members(mem, r)
    BY <2>1, ActiveInNoQueue
  <2>5. Members(mem', "zombie") = Members(mem, "zombie")
    BY <1>0, <1>2, <2>1, <2>4, AppendAdds DEF create_process, Queue
  <2> QED BY <2>1, <2>2, <2>3, <2>5, WaitpidFrame
<1>3. CASE \E q \in Proc \cup {NoPid} : KeptWaitpid(D, q)
  <2>1. PICK q \in Proc \cup {NoPid} : KeptWaitpid(D, q)
    BY <1>3
  <2>2. /\ host = "running" /\ at[p] = "user" /\ WaitpidLoop(q)
        /\ \A w \in Proc : at[w] = "waitpid" => arg[w] # q
        /\ ~ Reaped(q)
    BY <2>1 DEF KeptWaitpid, waitpid, InUserCode, MayWaitpid, AloneInWaitpid
  <2> QED BY <2>2, WaitpidLoopStep
<1>4. CASE waitpid_Resume
  <2>1. host = "running" /\ at[p] = "waitpid" /\ WaitpidLoop(arg[p]) /\ p \in Proc
    BY <1>0, <1>4 DEF waitpid_Resume, ResumedIn
  <2>2. /\ arg[p] \in Proc \cup {NoPid}
        /\ \A w \in Proc \ {p} : at[w] = "waitpid" => arg[w] # arg[p]
        /\ arg[p] \in Proc => ~ Reaped(arg[p])
    BY <1>0, <2>1 DEF WaitpidInv
  <2> QED BY <2>1, <2>2, WaitpidLoopStep
<1>5. ASSUME host = "running", at[p] = "user",
             at' = at, arg' = arg, waiting_for' = waiting_for,
             \A w \in Proc : state'[w] = "BLOCKED" => state[w] = "BLOCKED",
             Members(mem', "zombie") = Members(mem, "zombie")
      PROVE  WaitpidInv'
  BY <1>0, <1>5, WaitpidFrame
<1>6. CASE mbs_signal_new \/ \E s \in Sid : KeptFree(D, s)
  BY <1>5, <1>6 DEF mbs_signal_new, KeptFree, mbs_signal_free, InUserCode, procVars, ctxVars
<1>7. CASE \E s \in Sid : mbs_swait(s)
  <2>1. PICK s \in Sid : mbs_swait(s)
    BY <1>7
  <2>2. host = "running" /\ at[p] = "user" /\ waiting_for' = waiting_for /\ p \in Proc
    BY <1>0, <2>1 DEF mbs_swait, InUserCode
  <2>3. CASE UNCHANGED <<mem, active_process, state, ctxVars, host>>
    BY <1>5, <2>2, <2>3 DEF ctxVars
  <2>4. CASE Block("swait", s)
    <3>1. /\ at'[p] = "swait" /\ schedule(mem, "BLOCKED")
          /\ \A w \in Proc \ {p} : at'[w] = at[w] /\ arg'[w] = arg[w] /\ state'[w] = state[w]
      BY <1>0, <2>2, <2>4 DEF Block
    <3>2. Members(mem', "zombie") = Members(mem, "zombie")
      BY <1>0, <2>2, <3>1, ScheduleZombies DEF States
    <3> QED BY <2>2, <3>1, <3>2, WaitpidFrame
  <2> QED BY <2>1, <2>3, <2>4 DEF mbs_swait
<1>8. CASE mbs_swait_Resume
  <2>1. /\ at[p] = "swait" /\ p \in Proc /\ at'[p] = "user"
        /\ \A w \in Proc \ {p} : at'[w] = at[w] /\ arg'[w] = arg[w]
        /\ waiting_for' = waiting_for /\ state' = state /\ mem' = mem
    BY <1>0, <1>8 DEF mbs_swait_Resume, ResumedIn, ReturnToUser, procVars
  <2> QED BY <2>1, WaitpidFrame
<1>9. CASE \E s \in Sid : KeptSignal(D, s)
  <2>1. PICK s \in Sid : KeptSignal(D, s)
    BY <1>9
  <2>2. host = "running" /\ at[p] = "user"
    BY <2>1 DEF KeptSignal, mbs_signal, InUserCode
  <2>3. /\ at' = at /\ arg' = arg /\ waiting_for' = waiting_for
        /\ Members(mem', "zombie") = Members(mem, "zombie")
        /\ state' = state \/ \E w \in Proc : state' = [state EXCEPT ![w] = "RUNNABLE"]
    BY <2>1, SignalEffect DEF KeptSignal
  <2>4. \A w \in Proc : state'[w] = "BLOCKED" => state[w] = "BLOCKED"
    BY <1>0, <2>3
  <2> QED BY <1>5, <2>2, <2>3, <2>4
<1>10. CASE KeptEnd(D)
  <2>1. /\ p \in Proc /\ at[p] = "user" /\ MayExit(p)
        /\ at' = [at EXCEPT ![p] = "exit"] /\ arg' = arg /\ waiting_for' = waiting_for
        /\ Members(mem', "zombie") = Members(mem, "zombie") \cup {p}
    BY <1>10, EndEffect DEF KeptEnd
  <2>2. /\ at'[p] = "exit" /\ \A w \in Proc \ {p} : at'[w] = at[w]
    BY <1>0, <2>1
  <2>3. \A w \in Proc : state[w] = "BLOCKED" /\ waiting_for[w] = p => at[w] = "waitpid" /\ arg[w] = p
    <3>1. \A w \in Proc : state[w] = "BLOCKED" /\ waiting_for[w] = p => at[w] = "waitpid"
      BY <2>1 DEF MayExit, PlaceInv
    <3> QED BY <3>1 DEF WaitpidInv
  <2>4. \A w \in Proc : state'[w] = "BLOCKED" =>
            state[w] = "BLOCKED" /\ ~ (at[w] = "waitpid" /\ arg[w] = p)
    <3>1. CASE /\ \A x \in Proc : state[x] = "BLOCKED" => waiting_for[x] # p
               /\ state' = [state EXCEPT ![p] = "ZOMBIE"]
      BY <1>0, <2>1, <3>1 DEF WaitpidInv
    <3>2. ASSUME NEW x \in Proc \ {p}, state[x] = "BLOCKED", waiting_for[x] = p,
                 state' = [[state EXCEPT ![p] = "ZOMBIE"] EXCEPT ![x] = "RUNNABLE"],
                 NEW w \in Proc, state'[w] = "BLOCKED"
          PROVE  state[w] = "BLOCKED" /\ ~ (at[w] = "waitpid" /\ arg[w] = p)
      <4>1. w # x /\ state[w] = "BLOCKED"
        BY <1>0, <2>1, <3>2
      <4>2. at[x] = "waitpid" /\ arg[x] = p
        BY <2>3, <3>2
      <4> QED BY <4>1, <4>2 DEF WaitpidInv
    <3> QED BY <1>10, <3>1, <3>2, EndEffect DEF KeptEnd
  <2>5. ASSUME NEW w \in Proc, at'[w] = "waitpid"
        PROVE  /\ at[w] = "waitpid"
               /\ state'[w] = "BLOCKED" =>
                      waiting_for'[w] = arg'[w] /\ (arg'[w] \in Proc => at'[arg'[w]] # "exit")
               /\ arg'[w] \in Proc /\ at'[arg'[w]] = "exit" => arg'[w] \in Members(mem', "zombie")
    <3>1. at[w] = "waitpid" /\ w # p
      BY <2>2, <2>5
    <3>2. arg[w] \in Proc /\ at[arg[w]] = "exit" => arg[w] \in Members(mem, "zombie")
      BY <3>1 DEF WaitpidInv, Reaped, Ended
    <3>3. arg'[w] \in Proc /\ at'[arg'[w]] = "exit" => arg'[w] \in Members(mem', "zombie")
      BY <2>1, <2>2, <3>2
    <3>4. ASSUME state'[w] = "BLOCKED"
          PROVE  waiting_for'[w] = arg'[w] /\ (arg'[w] \in Proc => at'[arg'[w]] # "exit")
      <4>1. state[w] = "BLOCKED" /\ arg[w] # p
        BY <2>4, <3>1, <3>4
      <4>2. waiting_for[w] = arg[w] /\ (arg[w] \in Proc => at[arg[w]] # "exit")
        BY <3>1, <4>1 DEF WaitpidInv, Ended
      <4> QED BY <2>1, <2>2, <4>1, <4>2
    <3> QED BY <3>1, <3>3, <3>4
  <2>6. \A v, w \in Proc : at'[v] = "waitpid" /\ at'[w] = "waitpid" /\ arg'[v] = arg'[w] => v = w
    BY <2>1, <2>5 DEF WaitpidInv
  <2> QED BY <2>5, <2>6 DEF WaitpidInv, Reaped, Ended
<1>11. CASE Stopped \/ UNCHANGED vars
  BY <1>11 DEF Stopped, vars, WaitpidInv, Reaped, Ended
<1> QED
  BY <1>1, <1>2, <1>3, <1>4, <1>6, <1>7, <1>8, <1>9, <1>10, <1>11 DEF KeptNext

-----------------------------------------------------------------------------
LEMMA PlaceInit == Init => PlaceInv
BY DEF Init, PlaceInv

LEMMA PlaceInvariant ==
    ASSUME "signal" \in Discipline
    PROVE  Spec => [](KernelInv /\ PlaceInv)
<1>1. KernelInv /\ [Next]_vars => KernelInv'
  BY KernelNext, DisciplineIsKept
<1>2. KernelInv /\ PlaceInv /\ [Next]_vars => PlaceInv'
  BY PlaceNext, DisciplineIsKept
<1> QED BY <1>1, <1>2, KernelInit, PlaceInit, PTL DEF Spec

(* A process asleep in mbs_swait is registered with its variable, which is *)
(* in use and unset (syscalls.c:129): it takes two obligations, those on   *)
(* mbs_signal and mbs_signal_free.                                         *)
THEOREM NoSignalIsMissed ==
    ASSUME "signal" \in Discipline, "free" \in Discipline
    PROVE  Spec => []SwaitNotForgotten
<1>1. Init => SwaitInv
  BY DEF Init, SwaitInv
<1>2. KernelInv /\ PlaceInv /\ SwaitInv /\ [Next]_vars => SwaitInv'
  BY SwaitNext, DisciplineIsKept
<1>3. KernelInv /\ PlaceInv /\ SwaitInv => SwaitNotForgotten
  <2> SUFFICES ASSUME KernelInv, SwaitInv, NEW w \in Members(mem, "wait"), at[w] = "swait"
               PROVE  signals[arg[w]] = [used |-> TRUE, value |-> 0, waiting |-> w]
    BY DEF SwaitNotForgotten
  <2>1. mem \in Memory /\ signals \in SignalTable
    BY KernelFacts
  <2>2. w \in Proc
    BY <2>1, VisitedClosed DEF Members, Queue
  <2>3. state[w] = "BLOCKED" /\ arg[w] \in Sid
    BY <2>2, KernelFacts
  <2>4. signals[arg[w]].used /\ signals[arg[w]].waiting = w /\ signals[arg[w]].value = 0
    BY <2>2, <2>3 DEF SwaitInv
  <2> QED BY <2>1, <2>3, <2>4 DEF SignalTable
<1>4. Spec => []SwaitInv
  BY <1>1, <1>2, PlaceInvariant, PTL DEF Spec
<1> QED BY <1>3, <1>4, PlaceInvariant, PTL

(* A process asleep in waitpid waits for a process that has not ended: its *)
(* end wakes the waiter (process_manager.c:57-61, syscalls.c:49-62), if    *)
(* the programs keep the obligations on mbs_signal, waitpid and the end.   *)
THEOREM NoEndIsMissed ==
    ASSUME {"signal", "waitpid", "alone", "exit"} \subseteq Discipline
    PROVE  Spec => []WaitpidNotForgotten
<1>1. Init => WaitpidInv
  BY DEF Init, WaitpidInv
<1>2. KernelInv /\ PlaceInv /\ WaitpidInv /\ [Next]_vars => WaitpidInv'
  BY WaitpidNext, DisciplineIsKept
<1>3. KernelInv /\ PlaceInv /\ WaitpidInv => WaitpidNotForgotten
  <2> SUFFICES ASSUME KernelInv, WaitpidInv, NEW w \in Members(mem, "wait"),
                      at[w] = "waitpid", arg[w] \in Proc
               PROVE  ~ Ended(arg[w])
    BY DEF WaitpidNotForgotten
  <2>1. mem \in Memory
    BY KernelFacts
  <2>2. w \in Proc
    BY <2>1, VisitedClosed DEF Members, Queue
  <2>3. state[w] = "BLOCKED"
    BY <2>2, KernelFacts
  <2> QED BY <2>2, <2>3 DEF WaitpidInv
<1>4. Spec => [](KernelInv /\ PlaceInv)
  BY PlaceInvariant
<1>5. Spec => []WaitpidInv
  BY <1>1, <1>2, <1>4, PTL DEF Spec
<1> QED BY <1>3, <1>4, <1>5, PTL

-----------------------------------------------------------------------------
(* What no program can break                                               *)

(* A second mbs_signal before the woken process has run cuts run_queue or  *)
(* makes its end a cycle.  It stays a list of processes that are in no     *)
(* other queue, and the other two queues keep their ends.                  *)
AreQueues(m) ==
    /\ AreLists(m)
    /\ \A q \in {"wait", "zombie"} : \E s : Chain(m, q, s) /\ HasEnd(m, s)

(* So processes that have ended and those that have not are never mixed.   *)
ApartInv ==
    /\ WaiterInv
    /\ host \in {"boot", "running"} =>
          /\ AreQueues(mem)
          /\ \A q \in Queue : active_process \notin Members(mem, q)
          /\ \A q \in {"run", "wait"} : \A p \in Members(mem, q) : at[p] \notin {"none", "exit"}
          /\ \A p \in Members(mem, "zombie") : at[p] = "exit"
    /\ host = "boot" => active_process = NULL
    /\ ZombieNeverResumed

(* A process that is in neither of the other queues is appended to         *)
(* run_queue, which may have it already.                                   *)
LEMMA AppendToRun ==
    ASSUME NEW m \in Memory, AreQueues(m), NEW w \in Proc,
           w \notin Members(m, "wait"), w \notin Members(m, "zombie")
    PROVE  LET n == queue_append(m, "run", w)
           IN  /\ n \in Memory
               /\ AreQueues(n)
               /\ Members(n, "run") \subseteq Members(m, "run") \cup {w}
               /\ Members(n, "wait") = Members(m, "wait")
               /\ Members(n, "zombie") = Members(m, "zombie")
<1> DEFINE n == queue_append(m, "run", w)
<1>1. /\ n \in Memory
      /\ AreLists(n)
      /\ Members(n, "run") \subseteq Members(m, "run") \cup {w}
      /\ \A r \in Queue \ {"run"} : Members(n, r) = Members(m, r)
      /\ \A r \in Queue \ {"run"} : \A s :
            Chain(m, r, s) => Chain(n, r, s) /\ (HasEnd(m, s) => HasEnd(n, s))
  <2>1. CASE w \notin Members(m, "run")
    <3>1. \A r \in Queue : w \notin Members(m, r)
      BY <2>1 DEF Queue
    <3>2. /\ n \in Memory
          /\ AreLists(n)
          /\ Members(n, "run") = Members(m, "run") \cup {w}
          /\ \A r \in Queue \ {"run"} : Members(n, r) = Members(m, r)
          /\ \A s : Chain(m, "run", s) => Chain(n, "run", Append(s, w)) /\ HasEnd(n, Append(s, w))
          /\ \A r \in Queue \ {"run"} : \A s :
                Chain(m, r, s) => Chain(n, r, s) /\ (HasEnd(m, s) => HasEnd(n, s))
      BY <3>1, AppendLists DEF AreQueues, Queue
    <3> QED
      BY <3>2
  <2>2. CASE w \in Members(m, "run")
    <3>1. /\ n \in Memory
          /\ AreLists(n)
          /\ Members(n, "run") \subseteq Members(m, "run")
          /\ \A r \in Queue \ {"run"} : Members(n, r) = Members(m, r)
          /\ \A r \in Queue \ {"run"} : \A s :
                Chain(m, r, s) => Chain(n, r, s) /\ (HasEnd(m, s) => HasEnd(n, s))
      BY <2>2, AppendAgainLists DEF AreQueues, Queue
    <3> QED
      BY <3>1
  <2> QED
    BY <2>1, <2>2
<1> HIDE DEF n
<1>2. AreQueues(n)
  BY <1>1 DEF AreQueues, Queue
<1> QED
  BY <1>1, <1>2 DEF Queue, n

(* A process is taken out of a queue whose list has an end.                *)
LEMMA TakeOut ==
    ASSUME NEW m \in Memory, AreQueues(m), NEW q \in Queue, NEW p \in Members(m, q),
           \E s : Chain(m, q, s) /\ HasEnd(m, s)
    PROVE  LET n == queue_dequeue(m, q, p)
           IN  /\ n \in Memory
               /\ AreQueues(n)
               /\ Members(n, q) = Members(m, q) \ {p}
               /\ \A r \in Queue \ {q} : Members(n, r) = Members(m, r)
<1> DEFINE n == queue_dequeue(m, q, p)
<1>1. PICK s : Chain(m, q, s) /\ HasEnd(m, s)
  OBVIOUS
<1>2. /\ n \in Memory
      /\ AreLists(n)
      /\ Members(n, q) = Members(m, q) \ {p}
      /\ \A r \in Queue \ {q} : Members(n, r) = Members(m, r)
      /\ \A k \in 1..Len(s) :
            p = s[k] => Chain(n, q, RemoveAt(s, k)) /\ HasEnd(n, RemoveAt(s, k))
      /\ \A r \in Queue \ {q} : \A u :
            Chain(m, r, u) => Chain(n, r, u) /\ (HasEnd(m, u) => HasEnd(n, u))
  BY <1>1, DequeueLists DEF AreQueues
<1> HIDE DEF n
<1>3. PICK k \in 1..Len(s) : p = s[k]
  BY <1>1, ChainMembers
<1>4. ASSUME NEW r \in {"wait", "zombie"} PROVE \E u : Chain(n, r, u) /\ HasEnd(n, u)
  <2>1. CASE r = q
    BY <1>2, <1>3, <2>1
  <2>2. CASE r # q
    BY <1>2, <2>2 DEF AreQueues, Queue
  <2> QED
    BY <2>1, <2>2
<1> QED
  BY <1>2, <1>4 DEF AreQueues, n

(* A wake-up, of a process that is in wait_queue or has left it.           *)
LEMMA WakeUp ==
    ASSUME NEW m \in Memory, AreQueues(m), NEW w \in Proc, w \notin Members(m, "zombie")
    PROVE  LET n == queue_append(queue_dequeue(m, "wait", w), "run", w)
           IN  /\ n \in Memory
               /\ AreQueues(n)
               /\ Members(n, "run") \subseteq Members(m, "run") \cup {w}
               /\ Members(n, "wait") \subseteq Members(m, "wait")
               /\ Members(n, "zombie") = Members(m, "zombie")
<1> DEFINE d == queue_dequeue(m, "wait", w)
<1>1. /\ d \in Memory
      /\ AreQueues(d)
      /\ Members(d, "wait") = Members(m, "wait") \ {w}
      /\ \A r \in Queue \ {"wait"} : Members(d, r) = Members(m, r)
  <2>1. CASE w \in Members(m, "wait")
    <3>1. \E s : Chain(m, "wait", s) /\ HasEnd(m, s)
      BY DEF AreQueues
    <3> QED
      BY <2>1, <3>1, TakeOut DEF Queue
  <2>2. CASE w \notin Members(m, "wait")
    BY <2>2 DEF queue_dequeue
  <2> QED
    BY <2>1, <2>2
<1> HIDE DEF d
<1>2. w \notin Members(d, "wait") /\ w \notin Members(d, "zombie")
  BY <1>1 DEF Queue
<1>3. LET n == queue_append(d, "run", w)
      IN  /\ n \in Memory
          /\ AreQueues(n)
          /\ Members(n, "run") \subseteq Members(d, "run") \cup {w}
          /\ Members(n, "wait") = Members(d, "wait")
          /\ Members(n, "zombie") = Members(d, "zombie")
  BY <1>1, <1>2, AppendToRun
<1> QED
  BY <1>1, <1>3 DEF Queue, d

(* schedule(), if it returns: the process it chooses leaves run_queue for  *)
(* good, and nothing moves but that process and the one that called it.    *)
LEMMA ScheduleReturns ==
    ASSUME active_process \in Pointer, NEW m \in Memory, AreQueues(m), NEW st \in States,
           \A q \in Queue : active_process \notin Members(m, q),
           schedule(m, st), host' = "running"
    PROVE  /\ AreQueues(mem')
           /\ \A q \in Queue : active_process' \notin Members(mem', q)
           /\ active_process' \in Members(m, "run") \/ (st = "RUNNABLE" /\ active_process' = active_process)
           /\ \A q \in Queue : \A p \in Members(mem', q) :
                 p \in Members(m, q) \/ (q = QueueOf(st) /\ p = active_process)
<1> DEFINE filed == Filed(m, st)
           chosen == select_next_process(filed)
<1>0. QueueOf(st) \in Queue /\ (QueueOf(st) = "run" => st = "RUNNABLE")
  BY DEF QueueOf, States, Queue
<1>1. /\ filed \in Memory /\ AreQueues(filed)
      /\ \A q \in Queue : \A p \in Members(filed, q) :
            p \in Members(m, q) \/ (q = QueueOf(st) /\ p = active_process)
  <2>1. CASE active_process = NULL
    BY <2>1 DEF Filed
  <2>2. CASE active_process # NULL
    <3> DEFINE q == QueueOf(st)
    <3>1. active_process \in Proc /\ q \in Queue /\ filed = queue_append(m, q, active_process)
      BY <1>0, <2>2 DEF Pointer, Filed
    <3> HIDE DEF q
    <3>2. LET n == queue_append(m, q, active_process)
          IN  /\ n \in Memory
              /\ AreLists(n)
              /\ Members(n, q) = Members(m, q) \cup {active_process}
              /\ \A r \in Queue \ {q} : Members(n, r) = Members(m, r)
              /\ \A s : Chain(m, q, s) =>
                    Chain(n, q, Append(s, active_process)) /\ HasEnd(n, Append(s, active_process))
              /\ \A r \in Queue \ {q} : \A s :
                    Chain(m, r, s) => Chain(n, r, s) /\ (HasEnd(m, s) => HasEnd(n, s))
      BY <3>1, AppendLists DEF AreQueues
    <3> HIDE DEF filed
    <3>3. ASSUME NEW r \in {"wait", "zombie"} PROVE \E u : Chain(filed, r, u) /\ HasEnd(filed, u)
      <4>1. PICK s : Chain(m, r, s) /\ HasEnd(m, s)
        BY DEF AreQueues
      <4>2. r \in Queue
        BY DEF Queue
      <4> QED
        BY <3>1, <3>2, <4>1, <4>2
    <3> QED
      BY <3>1, <3>2, <3>3 DEF AreQueues, q
  <2> QED
    BY <2>1, <2>2
<1>2. filed.first["run"] # NULL /\ ~ Endless(filed, "run")
      /\ active_process' = chosen /\ mem' = queue_dequeue(filed, "run", chosen)
  BY DEF schedule, Scheduled
<1> HIDE DEF filed
<1>3. chosen \in Members(filed, "run")
  BY <1>1, <1>2, SelectSpec
<1> HIDE DEF chosen
<1>4. \E s : Chain(filed, "run", s) /\ HasEnd(filed, s)
  <2>1. PICK s : Chain(filed, "run", s)
    BY <1>1 DEF AreQueues, AreLists, Queue
  <2> QED
    BY <1>1, <1>2, <2>1, ChainEndless DEF Queue
<1>5. LET n == queue_dequeue(filed, "run", chosen)
      IN  /\ n \in Memory
          /\ AreQueues(n)
          /\ Members(n, "run") = Members(filed, "run") \ {chosen}
          /\ \A r \in Queue \ {"run"} : Members(n, r) = Members(filed, r)
  BY <1>1, <1>3, <1>4, TakeOut DEF Queue
<1>6. \A r \in Queue \ {"run"} : chosen \notin Members(filed, r)
  BY <1>1, <1>3 DEF AreQueues, AreLists, Queue
<1> QED
  BY <1>0, <1>1, <1>2, <1>3, <1>5, <1>6 DEF Queue

LEMMA ApartNext == ApartInv /\ [Next]_vars => ApartInv'
<1> SUFFICES ASSUME ApartInv, [Next]_vars PROVE ApartInv'
  OBVIOUS
<1>0. /\ WaiterInv' /\ TypeInv' /\ TypeInv
      /\ mem \in Memory /\ active_process \in Pointer
      /\ host = "running" => active_process \in Proc
      /\ host' = "running" => active_process' \in Proc
      /\ next_pid \in Nat
      /\ at \in [Proc -> {"none", "user", "waitpid", "swait", "exit"}]
      /\ \A p \in Proc : p >= next_pid => at[p] = "none"
  BY WaiterNext DEF ApartInv, WaiterInv, TypeInv, TypeOK
<1>1. \A q \in Queue : Members(mem, q) \subseteq Proc
  BY <1>0, VisitedClosed DEF Members
<1>2. host \in {"boot", "running"} =>
          /\ AreQueues(mem)
          /\ \A q \in Queue : active_process \notin Members(mem, q)
          /\ \A q \in {"run", "wait"} : \A p \in Members(mem, q) : at[p] \notin {"none", "exit"}
          /\ \A p \in Members(mem, "zombie") : at[p] = "exit"
  BY DEF ApartInv
<1>3. ASSUME NEW m \in Memory, AreQueues(m), NEW st \in States, schedule(m, st),
             \A q \in Queue : active_process \notin Members(m, q),
             \A q \in {"run", "wait"} : \A p \in Members(m, q) : at'[p] \notin {"none", "exit"},
             \A p \in Members(m, "zombie") : at'[p] = "exit",
             st = "RUNNABLE" => active_process = NULL,
             st = "BLOCKED" => at'[active_process] \notin {"none", "exit"},
             st = "ZOMBIE" => at'[active_process] = "exit"
      PROVE  ApartInv'
  <2>1. host' \in {"running", "exited", "hung"}
    BY <1>0, <1>3, ScheduleTypes DEF TypeInv
  <2>2. CASE host' = "running"
    <3>1. /\ AreQueues(mem')
          /\ \A q \in Queue : active_process' \notin Members(mem', q)
          /\ \/ active_process' \in Members(m, "run")
             \/ st = "RUNNABLE" /\ active_process' = active_process
          /\ \A q \in Queue : \A p \in Members(mem', q) :
                p \in Members(m, q) \/ (q = QueueOf(st) /\ p = active_process)
      BY <1>0, <1>3, <2>2, ScheduleReturns
    <3>2. active_process' \in Members(m, "run")
      BY <1>0, <1>3, <2>2, <3>1, NullAssumption
    <3>3. mem' \in Memory /\ \A q \in Queue : Members(mem', q) \subseteq Proc
      BY <1>0, VisitedClosed DEF TypeInv, TypeOK, Members
    <3>4. ASSUME NEW q \in {"run", "wait"}, NEW p \in Members(mem', q)
          PROVE  at'[p] \notin {"none", "exit"}
      BY <1>3, <3>1, <3>3, NullAssumption DEF Queue, QueueOf, States
    <3>5. ASSUME NEW p \in Members(mem', "zombie") PROVE at'[p] = "exit"
      BY <1>3, <3>1, <3>3, NullAssumption DEF Queue, QueueOf, States
    <3>6. at'[active_process'] # "exit"
      BY <1>3, <3>2
    <3> QED
      BY <1>0, <2>2, <3>1, <3>4, <3>5, <3>6 DEF ApartInv, ZombieNeverResumed
  <2>3. CASE host' # "running"
    BY <1>0, <2>1, <2>3 DEF ApartInv, ZombieNeverResumed
  <2> QED
    BY <2>2, <2>3
<1>4. ASSUME mem' \in Memory, AreQueues(mem'), host = "running", host' = "running",
             active_process' = active_process, at'[active_process] # "exit",
             \A q \in Queue : active_process \notin Members(mem', q),
             \A q \in {"run", "wait"} : \A p \in Members(mem', q) : at'[p] \notin {"none", "exit"},
             \A p \in Members(mem', "zombie") : at'[p] = "exit"
      PROVE  ApartInv'
  BY <1>0, <1>4 DEF ApartInv, ZombieNeverResumed
(* A new process is appended to run_queue, of which it is no member yet.   *)
<1>5. ASSUME host \in {"boot", "running"}, Allocate(next_pid), next_pid \in Proc
      PROVE  LET n == queue_append(mem, "run", next_pid)
             IN  /\ n \in Memory /\ AreQueues(n)
                 /\ \A q \in {"run", "wait"} : \A p \in Members(n, q) : at'[p] \notin {"none", "exit"}
                 /\ \A p \in Members(n, "zombie") : at'[p] = "exit"
                 /\ \A q \in Queue : \A p \in Members(n, q) : p \in Members(mem, q) \cup {next_pid}
                 /\ at[next_pid] = "none" /\ at' = [at EXCEPT ![next_pid] = "user"]
  <2> DEFINE n == queue_append(mem, "run", next_pid)
  <2>1. at[next_pid] = "none" /\ at' = [at EXCEPT ![next_pid] = "user"]
    BY <1>0, <1>5 DEF Allocate
  <2>2. \A q \in Queue : next_pid \notin Members(mem, q)
    BY <1>2, <1>5, <2>1 DEF Queue
  <2>3. /\ n \in Memory /\ AreQueues(n)
        /\ Members(n, "run") \subseteq Members(mem, "run") \cup {next_pid}
        /\ Members(n, "wait") = Members(mem, "wait")
        /\ Members(n, "zombie") = Members(mem, "zombie")
    BY <1>0, <1>2, <1>5, <2>2, AppendToRun DEF Queue
  <2> HIDE DEF n
  <2>4. \A q \in Queue : Members(mem, q) \subseteq Proc
    BY <1>1
  <2>5. ASSUME NEW q \in {"run", "wait"}, NEW p \in Members(n, q) PROVE at'[p] \notin {"none", "exit"}
    <3>1. p \in Proc /\ (p = next_pid \/ p \in Members(mem, q))
      BY <1>5, <2>3, <2>4, <2>5 DEF Queue
    <3> QED
      BY <1>0, <1>2, <1>5, <2>1, <3>1
  <2>6. ASSUME NEW p \in Members(n, "zombie") PROVE at'[p] = "exit"
    BY <1>0, <1>2, <1>5, <2>1, <2>2, <2>3, <2>4, <2>6 DEF Queue
  <2> QED
    BY <2>1, <2>3, <2>5, <2>6 DEF n, Queue
<1>6. CASE Boot
  <2>1. /\ next_pid = 0 /\ next_pid \in Proc /\ host = "boot" /\ active_process = NULL
        /\ Allocate(next_pid) /\ schedule(queue_append(mem, "run", next_pid), "RUNNABLE")
    BY <1>0, <1>6, KernelAssumption DEF Boot, TypeInv, ApartInv
  <2> DEFINE n == queue_append(mem, "run", next_pid)
  <2>2. /\ n \in Memory /\ AreQueues(n)
        /\ \A q \in {"run", "wait"} : \A p \in Members(n, q) : at'[p] \notin {"none", "exit"}
        /\ \A p \in Members(n, "zombie") : at'[p] = "exit"
    BY <1>5, <2>1
  <2>3. \A q \in Queue : active_process \notin Members(n, q)
    BY <2>1, <2>2, VisitedClosed, NullAssumption DEF Members
  <2>4. schedule(n, "RUNNABLE")
    BY <2>1
  <2> HIDE DEF n
  <2> QED
    BY <1>3, <2>1, <2>2, <2>3, <2>4 DEF States
<1>7. CASE create_process
  <2>1. /\ host = "running" /\ host' = host /\ active_process' = active_process
        /\ at[active_process] = "user" /\ next_pid \in Proc
        /\ Allocate(next_pid) /\ mem' = queue_append(mem, "run", next_pid)
    BY <1>0, <1>7, KernelAssumption DEF create_process, InUserCode
  <2>2. /\ mem' \in Memory /\ AreQueues(mem')
        /\ \A q \in {"run", "wait"} : \A p \in Members(mem', q) : at'[p] \notin {"none", "exit"}
        /\ \A p \in Members(mem', "zombie") : at'[p] = "exit"
        /\ \A q \in Queue : \A p \in Members(mem', q) : p \in Members(mem, q) \cup {next_pid}
        /\ at[next_pid] = "none" /\ at' = [at EXCEPT ![next_pid] = "user"]
    BY <1>5, <2>1
  <2>3. active_process \in Proc /\ active_process # next_pid /\ at'[active_process] = "user"
    BY <1>0, <2>1, <2>2
  <2>4. \A q \in Queue : active_process \notin Members(mem', q)
    BY <1>2, <2>1, <2>2, <2>3
  <2> QED
    BY <1>4, <2>1, <2>2, <2>3, <2>4
(* The calls that leave the queues and the processor alone.                *)
<1>8. ASSUME host = "running", UNCHANGED <<mem, active_process, host>>,
             at' = at \/ at' = [at EXCEPT ![active_process] = "user"]
      PROVE  ApartInv'
  <2>1. at[active_process] # "exit"
    BY <1>8 DEF ApartInv, ZombieNeverResumed
  <2>2. \A q \in Queue : \A p \in Members(mem, q) : p \in Proc \ {active_process} /\ at'[p] = at[p]
    BY <1>0, <1>1, <1>2, <1>8
  <2>3. at'[active_process] # "exit"
    BY <1>0, <1>8, <2>1
  <2> QED
    BY <1>0, <1>2, <1>4, <1>8, <2>2, <2>3 DEF Queue
(* The active process blocks.                                              *)
<1>9. ASSUME host = "running", NEW call \in {"waitpid", "swait"}, NEW x, Block(call, x)
      PROVE  ApartInv'
  <2>1. at' = [at EXCEPT ![active_process] = call] /\ schedule(mem, "BLOCKED")
    BY <1>9 DEF Block
  <2>2. \A q \in Queue : \A p \in Members(mem, q) : p \in Proc \ {active_process} /\ at'[p] = at[p]
    BY <1>0, <1>1, <1>2, <1>9, <2>1
  <2>3. at'[active_process] = call
    BY <1>0, <1>9, <2>1
  <2>4. /\ \A q \in {"run", "wait"} : \A p \in Members(mem, q) : at'[p] \notin {"none", "exit"}
        /\ \A p \in Members(mem, "zombie") : at'[p] = "exit"
    BY <1>2, <1>9, <2>2 DEF Queue
  <2> QED
    BY <1>0, <1>2, <1>3, <1>9, <2>1, <2>3, <2>4 DEF States
<1>10. ASSUME host = "running", NEW q \in Proc \cup Sid \cup {NoPid}, WaitpidLoop(q) PROVE ApartInv'
  <2>1. CASE q \in Members(mem, "zombie")
    <3>1. /\ mem' = queue_dequeue(mem, "zombie", q) /\ UNCHANGED <<active_process, host>>
          /\ at' = [at EXCEPT ![active_process] = "user"]
      BY <1>10, <2>1 DEF WaitpidLoop, ReturnToUser
    <3>2. \E s : Chain(mem, "zombie", s) /\ HasEnd(mem, s)
      BY <1>2, <1>10 DEF AreQueues
    <3>3. /\ mem' \in Memory /\ AreQueues(mem')
          /\ Members(mem', "zombie") = Members(mem, "zombie") \ {q}
          /\ \A r \in Queue \ {"zombie"} : Members(mem', r) = Members(mem, r)
      BY <1>0, <1>2, <1>10, <2>1, <3>1, <3>2, TakeOut DEF Queue
    <3>4. \A r \in Queue : \A p \in Members(mem, r) : p \in Proc \ {active_process} /\ at'[p] = at[p]
      BY <1>0, <1>1, <1>2, <1>10, <3>1
    <3>5. at'[active_process] = "user"
      BY <1>0, <1>10, <3>1
    <3> QED
      BY <1>2, <1>4, <1>10, <3>1, <3>3, <3>4, <3>5 DEF Queue
  <2>2. CASE q \notin Members(mem, "zombie")
    BY <1>9, <1>10, <2>2 DEF WaitpidLoop
  <2> QED
    BY <2>1, <2>2
<1>11. ASSUME NEW q \in Proc \cup {NoPid}, waitpid(q) PROVE ApartInv'
  BY <1>10, <1>11 DEF waitpid, InUserCode
<1>12. CASE waitpid_Resume
  <2>1. arg[active_process] \in Proc \cup Sid \cup {NoPid}
    BY <1>0, <1>12 DEF waitpid_Resume, ResumedIn, TypeOK, TypeInv
  <2> QED
    BY <1>10, <1>12, <2>1 DEF waitpid_Resume, ResumedIn
<1>13. CASE mbs_signal_new \/ mbs_swait_Resume \/ \E s \in Sid : mbs_signal_free(s)
  BY <1>8, <1>13 DEF mbs_signal_new, mbs_swait_Resume, mbs_signal_free, InUserCode, ResumedIn,
                     ReturnToUser, ctxVars
<1>14. ASSUME NEW s \in Sid, mbs_swait(s) PROVE ApartInv'
  BY <1>8, <1>9, <1>14 DEF mbs_swait, InUserCode, ctxVars
<1>15. ASSUME NEW s \in Sid, mbs_signal(s) PROVE ApartInv'
  <2> DEFINE w == signals[s].waiting
  <2>1. host = "running" /\ UNCHANGED <<active_process, at, host>>
    BY <1>15 DEF mbs_signal, InUserCode, ctxVars
  <2>2. \/ mem' = mem
        \/ w # NULL /\ mem' = queue_append(queue_dequeue(mem, "wait", w), "run", w)
    BY <1>15 DEF mbs_signal
  <2>3. CASE mem' = mem
    BY <1>8, <2>1, <2>3
  <2>4. CASE w # NULL /\ mem' = queue_append(queue_dequeue(mem, "wait", w), "run", w)
    <3>1. w \in Proc /\ at[w] = "swait"
      <4>1. w \in Proc
        BY <1>0, <1>15, <2>4 DEF TypeInv, TypeOK, Pointer
      <4>2. at[w] = "swait"
        BY <1>15, <2>4 DEF ApartInv, WaiterInv, WaiterIsInSwait
      <4> QED
        BY <4>1, <4>2
    <3>2. w \notin Members(mem, "zombie") /\ w # active_process
      BY <1>2, <1>15, <2>1, <3>1 DEF mbs_signal, InUserCode
    <3> HIDE DEF w
    <3>3. /\ mem' \in Memory /\ AreQueues(mem')
          /\ Members(mem', "run") \subseteq Members(mem, "run") \cup {w}
          /\ Members(mem', "wait") \subseteq Members(mem, "wait")
          /\ Members(mem', "zombie") = Members(mem, "zombie")
      BY <1>0, <1>2, <2>1, <2>4, <3>1, <3>2, WakeUp
    <3>4. at[active_process] # "exit"
      BY <2>1 DEF ApartInv, ZombieNeverResumed
    <3>5. \A q \in Queue : active_process \notin Members(mem', q)
      BY <1>2, <2>1, <3>2, <3>3 DEF Queue
    <3>6. \A q \in {"run", "wait"} : \A p \in Members(mem', q) : at'[p] \notin {"none", "exit"}
      BY <1>2, <2>1, <3>1, <3>3
    <3> QED
      BY <1>2, <1>4, <2>1, <3>3, <3>4, <3>5, <3>6
  <2> QED
    BY <2>2, <2>3, <2>4
<1>16. CASE process_wrapper_End
  <2> DEFINE woken == Found(mem, "wait", {x \in Proc : waiting_for[x] = active_process})
             w == CHOOSE x \in woken : TRUE
  <2>1. /\ host = "running" /\ active_process \in Proc
        /\ at' = [at EXCEPT ![active_process] = "exit"]
        /\ IF woken = {} THEN schedule(mem, "ZOMBIE")
           ELSE schedule(queue_append(queue_dequeue(mem, "wait", w), "run", w), "ZOMBIE")
    BY <1>0, <1>16 DEF process_wrapper_End, InUserCode
  <2>2. woken \subseteq Members(mem, "wait")
    BY <1>0, FoundInMembers DEF Queue
  <2>3. woken # {} => w \in woken
    OBVIOUS
  <2> HIDE DEF w, woken
  <2>4. at'[active_process] = "exit"
    BY <1>0, <2>1
  <2>5. \A q \in Queue : \A p \in Members(mem, q) : p \in Proc \ {active_process} /\ at'[p] = at[p]
    BY <1>0, <1>1, <1>2, <2>1
  <2>6. CASE woken = {}
    <3>1. /\ \A q \in {"run", "wait"} : \A p \in Members(mem, q) : at'[p] \notin {"none", "exit"}
          /\ \A p \in Members(mem, "zombie") : at'[p] = "exit"
      BY <1>2, <2>1, <2>5 DEF Queue
    <3> QED
      BY <1>0, <1>2, <1>3, <2>1, <2>4, <2>6, <3>1 DEF States
  <2>7. CASE woken # {}
    <3> DEFINE n == queue_append(queue_dequeue(mem, "wait", w), "run", w)
    <3>1. /\ w \in Proc /\ w # active_process /\ w \in Members(mem, "wait")
          /\ at'[w] \notin {"none", "exit"}
      BY <1>2, <2>1, <2>2, <2>3, <2>5, <2>7 DEF Queue
    <3>2. w \notin Members(mem, "zombie")
      BY <1>2, <2>1, <3>1 DEF AreQueues, AreLists, Queue
    <3>3. /\ n \in Memory /\ AreQueues(n)
          /\ Members(n, "run") \subseteq Members(mem, "run") \cup {w}
          /\ Members(n, "wait") \subseteq Members(mem, "wait")
          /\ Members(n, "zombie") = Members(mem, "zombie")
      BY <1>0, <1>2, <2>1, <3>1, <3>2, WakeUp
    <3>4. schedule(n, "ZOMBIE")
      BY <2>1, <2>7
    <3> HIDE DEF n
    <3>5. \A q \in Queue : active_process \notin Members(n, q)
      BY <1>2, <2>1, <3>1, <3>3 DEF Queue
    <3>6. \A q \in {"run", "wait"} : \A p \in Members(n, q) : at'[p] \notin {"none", "exit"}
      BY <1>2, <2>1, <2>5, <3>1, <3>3 DEF Queue
    <3>7. \A p \in Members(n, "zombie") : at'[p] = "exit"
      BY <1>2, <2>1, <2>5, <3>3 DEF Queue
    <3> QED
      BY <1>3, <2>4, <3>3, <3>4, <3>5, <3>6, <3>7 DEF States
  <2> QED
    BY <2>6, <2>7
<1>17. CASE Stopped \/ UNCHANGED vars
  BY <1>0, <1>17 DEF Stopped, vars, ApartInv, ZombieNeverResumed
<1> QED
  BY <1>6, <1>7, <1>11, <1>12, <1>13, <1>14, <1>15, <1>16, <1>17 DEF Next, SystemCall

(* schedule() never returns into a process that has ended, whatever the    *)
(* programs do (process_manager.c:63-67).                                  *)
THEOREM NoZombieResumes == Spec => []ZombieNeverResumed
<1>1. Init => ApartInv
  <2> SUFFICES ASSUME Init PROVE ApartInv
    OBVIOUS
  <2>1. TypeInv
    BY TypeInit
  <2>2. WaiterInv
    BY <2>1 DEF Init, WaiterInv, WaiterIsInSwait
  <2>3. mem = EmptyQueues /\ host = "boot" /\ active_process = NULL
    BY DEF Init
  <2>4. \A q \in Queue : Members(mem, q) = {}
    BY <2>3 DEF Members, Visited, EmptyQueues
  <2>5. \A q \in Queue : Chain(mem, q, <<>>) /\ HasEnd(mem, <<>>)
    BY <2>3 DEF Chain, HasEnd, EmptyQueues
  <2>6. AreQueues(mem)
    BY <2>4, <2>5 DEF AreQueues, AreLists, Queue
  <2> QED
    BY <2>2, <2>3, <2>4, <2>6 DEF ApartInv, ZombieNeverResumed, Queue
<1>2. ApartInv /\ [Next]_vars => ApartInv'
  BY ApartNext
<1>3. ApartInv => ZombieNeverResumed
  BY DEF ApartInv
<1> QED
  BY <1>1, <1>2, <1>3, PTL DEF Spec

-----------------------------------------------------------------------------
(* KernelPromise, which the kernel implements                              *)

(* A runnable process inside a call has got what it waits for.             *)
ReadyInv ==
    \A w \in Proc :
        /\ at[w] = "waitpid" => arg[w] \in Proc /\ (state[w] = "RUNNABLE" => Ended(arg[w]))
        /\ at[w] = "swait" /\ state[w] = "RUNNABLE" => signals[arg[w]].value = 1

PromiseInv == KernelInv /\ PlaceInv /\ WaiterInv /\ SwaitInv /\ WaitpidInv /\ ReadyInv

-----------------------------------------------------------------------------
(* schedule() gives the processor to the runnable process with the         *)
(* smallest pid.                                                           *)
LEMMA ScheduleChooses ==
    ASSUME KernelInv', active_process \in Pointer, NEW m \in Memory, Proper(m), NEW st \in States,
           \A q \in Queue : active_process \notin Members(m, q), schedule(m, st),
           NEW R, R = {p \in Proc : state'[p] = "RUNNABLE"}
    PROVE  active_process' = IF R = {} THEN NULL ELSE CHOOSE p \in R : \A x \in R : p <= x
<1> DEFINE filed == Filed(m, st)
           chosen == select_next_process(filed)
<1>1. filed \in Memory /\ Proper(filed)
  <2>1. QueueOf(st) \in Queue
    BY DEF QueueOf, States, Queue
  <2>2. CASE active_process = NULL
    BY <2>2 DEF Filed
  <2>3. CASE active_process \in Proc
    BY <2>1, <2>3, AppendAdds, NullAssumption DEF Filed
  <2> QED BY <2>2, <2>3 DEF Pointer
<1> HIDE DEF filed
<1>2. /\ \A p \in Proc : p \in R <=> p = active_process' \/ p \in Members(mem', "run")
      /\ host' = "exited" => active_process' = NULL /\ Members(mem', "run") = {}
      /\ host' # "hung"
  BY DEF KernelInv, NoProcessLost
<1>3. CASE filed.first["run"] = NULL
  <2>1. host' = "exited"
    BY <1>3 DEF schedule, Scheduled, filed
  <2>2. R = {}
    BY <1>2, <2>1, NullAssumption
  <2> QED BY <1>2, <2>1, <2>2
<1>4. CASE filed.first["run"] # NULL
  <2>1. ~ Endless(filed, "run")
    BY <1>2, <1>4 DEF schedule, Scheduled, filed
  <2>2. active_process' = chosen /\ mem' = queue_dequeue(filed, "run", chosen)
    BY <1>4, <2>1 DEF schedule, Scheduled, filed
  <2>3. chosen \in Members(filed, "run")
    BY <1>1, <1>4, SelectSpec
  <2>4. Members(filed, "run") \subseteq Proc
    BY <1>1, VisitedClosed DEF Members, Queue
  <2>5. chosen = CHOOSE p \in Members(filed, "run") : \A x \in Members(filed, "run") : p <= x
    BY DEF select_next_process
  <2> HIDE DEF chosen
  <2>6. Members(mem', "run") = Members(filed, "run") \ {chosen}
    BY <1>1, <2>2, <2>3, DequeueRemoves DEF Queue
  <2>7. R = Members(filed, "run")
    BY <1>2, <2>2, <2>3, <2>4, <2>6
  <2> QED BY <2>2, <2>3, <2>5, <2>7
<1> QED BY <1>3, <1>4

(* The calls of the next state.                                            *)
LEMMA NextCalls ==
    /\ InCall' = [p \in Proc |-> IF at'[p] \in {"waitpid", "swait"}
                                 THEN [op |-> at'[p], on |-> arg'[p]] ELSE NULL]
    /\ \A p \in Proc : at'[p] = "user" => InCall'[p] = NULL
    /\ \A p \in Proc : at'[p] = "waitpid" /\ arg'[p] \in Proc =>
           InCall'[p] = [op |-> "waitpid", on |-> arg'[p]] /\ InCall'[p] # NULL
    /\ \A p \in Proc : at'[p] = "swait" /\ arg'[p] \in Sid =>
           InCall'[p] = [op |-> "swait", on |-> arg'[p]] /\ InCall'[p] # NULL
BY PromiseAssumption DEF InCall, CallOf, Promise!Calls

(* Ready in the promise is what RUNNABLE is in the kernel.                 *)
LEMMA ReadyIsRunnable ==
    ASSUME PromiseInv'
    PROVE  Promise!Ready = {p \in Proc : state'[p] = "RUNNABLE"}
<1>1. /\ state' \in [Proc -> {"NONE", "RUNNABLE", "BLOCKED", "ZOMBIE"}]
      /\ at' \in [Proc -> {"none", "user", "waitpid", "swait", "exit"}]
      /\ \A p \in Proc : at'[p] = "swait" => arg'[p] \in Sid
      /\ \A s \in Sid : signals'[s].value \in {0, 1}
  BY DEF PromiseInv, KernelInv, TypeInv, TypeOK
<1>2. ASSUME NEW p \in Proc
      PROVE  p \in Promise!Ready <=> state'[p] = "RUNNABLE"
  <2>1. CASE at'[p] \in {"none", "exit"}
    BY <1>2, <2>1 DEF Promise!Ready, CreatedPids, Finished, SetSids, PromiseInv, PlaceInv, Ended
  <2>2. CASE at'[p] = "user"
    <3>1. state'[p] = "RUNNABLE"
      BY <1>1, <2>2 DEF PromiseInv, PlaceInv
    <3>2. InCall'[p] = NULL
      BY <2>2, NextCalls
    <3> QED BY <2>2, <3>1, <3>2 DEF Promise!Ready, CreatedPids, Finished, SetSids, Promise!Holds, Ended
  <2>3. CASE at'[p] = "waitpid"
    <3>1. arg'[p] \in Proc /\ (state'[p] = "RUNNABLE" <=> at'[arg'[p]] = "exit")
          /\ state'[p] # "NONE"
      BY <1>1, <2>3 DEF PromiseInv, PlaceInv, ReadyInv, WaitpidInv, Ended
    <3>2. InCall'[p] = [op |-> "waitpid", on |-> arg'[p]] /\ InCall'[p] # NULL
      BY <2>3, <3>1, NextCalls
    <3> QED BY <2>3, <3>1, <3>2 DEF Promise!Ready, CreatedPids, Finished, SetSids, Promise!Holds, Ended
  <2>4. CASE at'[p] = "swait"
    <3>1. arg'[p] \in Sid /\ (state'[p] = "RUNNABLE" <=> signals'[arg'[p]].value = 1)
          /\ state'[p] # "NONE"
      BY <1>1, <2>4 DEF PromiseInv, PlaceInv, ReadyInv, SwaitInv
    <3>2. InCall'[p] = [op |-> "swait", on |-> arg'[p]] /\ InCall'[p] # NULL
      BY <2>4, <3>1, NextCalls
    <3> QED BY <2>4, <3>1, <3>2 DEF Promise!Ready, CreatedPids, Finished, SetSids, Promise!Holds, Ended
  <2> QED BY <1>1, <2>1, <2>2, <2>3, <2>4
<1>3. Promise!Ready \subseteq Proc
  BY DEF Promise!Ready, CreatedPids
<1> QED BY <1>2, <1>3

(* schedule() is the Dispatch of the promise.                              *)
LEMMA Dispatches ==
    ASSUME PromiseInv', active_process \in Pointer, NEW m \in Memory, Proper(m), NEW st \in States,
           \A q \in Queue : active_process \notin Members(m, q), schedule(m, st)
    PROVE  Promise!Dispatch
<1>1. KernelInv'
  BY DEF PromiseInv
<1> QED BY <1>1, ReadyIsRunnable, ScheduleChooses DEF Promise!Dispatch

-----------------------------------------------------------------------------
(* The loop of waitpid, for a process of the table.                        *)
LEMMA ReadyLoopStep ==
    ASSUME KernelInv, PlaceInv, ReadyInv, host = "running", NEW q \in Proc, WaitpidLoop(q),
           at[active_process] \in {"user", "waitpid"}
    PROVE  ReadyInv'
<1> DEFINE p == active_process
<1>0. /\ p \in Proc
      /\ state \in [Proc -> {"NONE", "RUNNABLE", "BLOCKED", "ZOMBIE"}]
      /\ at \in [Proc -> {"none", "user", "waitpid", "swait", "exit"}]
      /\ arg \in [Proc -> Proc \cup Sid \cup {NoPid}]
  BY KernelFacts
<1>1. signals' = signals
  BY DEF WaitpidLoop
<1>2. \A w \in Proc \ {p} : at'[w] = at[w] /\ arg'[w] = arg[w] /\ state'[w] = state[w]
  BY <1>0 DEF WaitpidLoop, ReturnToUser, Block, procVars
<1>3. at'[p] = "user" \/ (at'[p] = "waitpid" /\ arg'[p] = q /\ state'[p] = "BLOCKED")
  BY <1>0 DEF WaitpidLoop, ReturnToUser, Block, procVars
<1>4. \A w \in Proc : at'[w] = "exit" <=> at[w] = "exit"
  BY <1>0, <1>2, <1>3
<1>5. ASSUME NEW w \in Proc
      PROVE  /\ at'[w] = "waitpid" =>
                    arg'[w] \in Proc /\ (state'[w] = "RUNNABLE" => at'[arg'[w]] = "exit")
             /\ at'[w] = "swait" /\ state'[w] = "RUNNABLE" => signals'[arg'[w]].value = 1
  <2>1. CASE w = p
    BY <1>3, <2>1
  <2>2. CASE w # p
    <3>1. /\ at[w] = "waitpid" => arg[w] \in Proc /\ (state[w] = "RUNNABLE" => at[arg[w]] = "exit")
          /\ at[w] = "swait" /\ state[w] = "RUNNABLE" => signals[arg[w]].value = 1
      BY DEF ReadyInv, Ended
    <3> QED BY <1>1, <1>2, <1>4, <2>2, <3>1
  <2> QED BY <2>1, <2>2
<1> QED BY <1>5 DEF ReadyInv, Ended

(* The other steps; a process woken by a signal or by an end finds what it *)
(* waited for.                                                             *)
LEMMA ReadyNext ==
    PromiseInv /\ [KeptNext(Obligations)]_vars => ReadyInv'
<1> SUFFICES ASSUME PromiseInv, [KeptNext(Obligations)]_vars PROVE ReadyInv'
  OBVIOUS
<1> DEFINE p == active_process
<1>0. /\ state \in [Proc -> {"NONE", "RUNNABLE", "BLOCKED", "ZOMBIE"}]
      /\ signals \in SignalTable
      /\ at \in [Proc -> {"none", "user", "waitpid", "swait", "exit"}]
      /\ arg \in [Proc -> Proc \cup Sid \cup {NoPid}]
      /\ \A w \in Proc : at[w] = "swait" => arg[w] \in Sid
      /\ host = "running" => p \in Proc /\ state[p] = "RUNNABLE"
      /\ next_pid \in Proc => state[next_pid] = "NONE"
      /\ KernelInv /\ PlaceInv /\ SwaitInv
  BY KernelFacts DEF PromiseInv
<1>1. \A w \in Proc : 
        /\ at[w] = "waitpid" => arg[w] \in Proc /\ (state[w] = "RUNNABLE" => at[arg[w]] = "exit")
        /\ at[w] = "swait" /\ state[w] = "RUNNABLE" => signals[arg[w]].value = 1
        /\ at[w] = "swait" => arg[w] \in Sid /\ signals[arg[w]].used /\ signals[arg[w]].waiting = w
  BY <1>0 DEF PromiseInv, ReadyInv, SwaitInv, Ended
<1>2. ASSUME at' = at, arg' = arg, signals' = signals, state' = state PROVE ReadyInv'
  BY <1>1, <1>2 DEF ReadyInv, Ended
<1>3. CASE Stopped \/ UNCHANGED vars
  BY <1>2, <1>3 DEF Stopped, vars
<1>4. CASE Boot \/ create_process
  <2>1. next_pid \in Proc /\ at[next_pid] = "none"
    BY <1>0, <1>4, KernelAssumption DEF Boot, create_process, KernelInv, TypeInv, TypeOK, PlaceInv
  <2>2. Allocate(next_pid)
    BY <1>4 DEF Boot, create_process
  <2>3. /\ at'[next_pid] = "user" /\ arg' = arg /\ signals' = signals
        /\ \A w \in Proc \ {next_pid} : at'[w] = at[w] /\ state'[w] = state[w]
    BY <1>0, <2>1, <2>2 DEF Allocate
  <2> QED BY <1>1, <2>1, <2>3 DEF ReadyInv, Ended
<1>5. CASE \E q \in Proc \cup {NoPid} : KeptWaitpid(Obligations, q)
  <2>1. PICK q \in Proc \cup {NoPid} : KeptWaitpid(Obligations, q)
    BY <1>5
  <2>2. q \in Proc /\ WaitpidLoop(q) /\ host = "running" /\ at[p] = "user"
    BY <2>1 DEF KeptWaitpid, waitpid, Obligations, MayWaitpid, InUserCode
  <2>3. ReadyInv
    BY DEF PromiseInv
  <2> QED BY <1>0, <2>2, <2>3, ReadyLoopStep
<1>6. CASE waitpid_Resume
  <2>1. WaitpidLoop(arg[p]) /\ host = "running" /\ at[p] = "waitpid" /\ arg[p] \in Proc
    BY <1>0, <1>1, <1>6 DEF waitpid_Resume, ResumedIn
  <2>2. ReadyInv
    BY DEF PromiseInv
  <2> QED BY <1>0, <2>1, <2>2, ReadyLoopStep
<1>7. CASE mbs_signal_new
  <2>1. FreeSids # {} => NewSid \in Sid /\ ~ signals[NewSid].used
    BY NewSidFree DEF FreeSids
  <2>2. /\ at' = at /\ arg' = arg /\ state' = state
        /\ \A t \in Sid : signals[t].used => signals'[t] = signals[t]
    BY <1>0, <1>7, <2>1 DEF mbs_signal_new, procVars, ctxVars, SignalTable
  <2> QED BY <1>1, <2>2 DEF ReadyInv, Ended
<1>8. CASE \E s \in Sid : KeptFree(Obligations, s)
  <2>1. PICK s \in Sid : KeptFree(Obligations, s)
    BY <1>8
  <2>2. /\ at' = at /\ arg' = arg /\ state' = state
        /\ \A t \in Sid : signals'[t].value = signals[t].value
    BY <1>0, <2>1 DEF KeptFree, mbs_signal_free, procVars, ctxVars, SignalTable
  <2> QED BY <1>1, <2>2 DEF ReadyInv, Ended
<1>9. CASE \E s \in Sid : mbs_swait(s)
  <2>1. PICK s \in Sid : mbs_swait(s)
    BY <1>9
  <2>2. host = "running" /\ at[p] = "user" /\ p \in Proc
    BY <1>0, <2>1 DEF mbs_swait, InUserCode
  <2>3. CASE ~ ValidSid(s) \/ signals[s].waiting # NULL
    BY <1>2, <2>1, <2>3 DEF mbs_swait, ctxVars
  <2>4. CASE ValidSid(s) /\ signals[s].waiting = NULL /\ signals[s].value = 0
    <3>1. /\ signals' = [signals EXCEPT ![s].waiting = p]
          /\ state' = [state EXCEPT ![p] = "BLOCKED"]
          /\ at' = [at EXCEPT ![p] = "swait"]
          /\ arg' = [arg EXCEPT ![p] = s]
      BY <2>1, <2>4 DEF mbs_swait, Block
    <3>2. /\ at'[p] = "swait" /\ state'[p] = "BLOCKED"
          /\ \A w \in Proc \ {p} : at'[w] = at[w] /\ arg'[w] = arg[w] /\ state'[w] = state[w]
          /\ \A t \in Sid : signals'[t].value = signals[t].value
      BY <1>0, <2>2, <3>1 DEF SignalTable
    <3> QED BY <1>1, <2>2, <3>2 DEF ReadyInv, Ended
  <2>5. CASE ValidSid(s) /\ signals[s].waiting = NULL /\ signals[s].value # 0
    <3>1. /\ state' = state /\ at' = at /\ arg' = arg
          /\ signals' = [signals EXCEPT ![s].value = 0, ![s].waiting = NULL]
      BY <2>1, <2>5 DEF mbs_swait, ctxVars
    <3>2. \A t \in Sid \ {s} : signals'[t] = signals[t]
      BY <1>0, <3>1 DEF SignalTable
    <3>3. \A w \in Proc : at[w] = "swait" => arg[w] \in Sid \ {s}
      BY <1>1, <2>5, NullAssumption
    <3>4. state' = state /\ at' = at /\ arg' = arg
      BY <3>1
    <3> QED BY <1>1, <3>2, <3>3, <3>4 DEF ReadyInv, Ended
  <2> QED BY <2>3, <2>4, <2>5
<1>10. CASE mbs_swait_Resume
  <2> DEFINE s == arg[p]
  <2>1. /\ s \in Sid /\ p \in Proc /\ at[p] = "swait" /\ state' = state
        /\ signals' = [signals EXCEPT ![s].value = 0, ![s].waiting = NULL]
        /\ at' = [at EXCEPT ![p] = "user"]
        /\ arg' = [arg EXCEPT ![p] = NoPid]
    BY <1>0, <1>10 DEF mbs_swait_Resume, ResumedIn, ReturnToUser, procVars
  <2>2. /\ at'[p] = "user"
        /\ \A w \in Proc \ {p} : at'[w] = at[w] /\ arg'[w] = arg[w]
        /\ \A t \in Sid \ {s} : signals'[t] = signals[t]
    BY <1>0, <2>1 DEF SignalTable
  <2>3. \A w \in Proc \ {p} : at[w] = "swait" => arg[w] \in Sid \ {s}
    BY <1>1, <2>1
  <2>4. state' = state /\ p \in Proc /\ at[p] = "swait"
    BY <2>1
  <2> HIDE DEF s
  <2>5. \A w \in Proc : at'[w] = "exit" <=> at[w] = "exit"
    BY <2>2, <2>4
  <2> QED BY <1>1, <2>2, <2>3, <2>4, <2>5 DEF ReadyInv, Ended
<1>11. CASE \E s \in Sid : KeptSignal(Obligations, s)
  <2>1. PICK s \in Sid : KeptSignal(Obligations, s)
    BY <1>11
  <2>2. mbs_signal(s) /\ (ValidSid(s) => MaySignal(s))
    BY <2>1 DEF KeptSignal, Obligations
  <2>3. at' = at /\ arg' = arg
    BY <1>0, <2>2, SignalEffect
  <2>4. CASE UNCHANGED <<signals, mem, state>>
    BY <1>2, <2>3, <2>4
  <2>5. CASE state' = state /\ signals' = [signals EXCEPT ![s].value = 1]
    <3>1. \A t \in Sid : signals'[t].value \in {1, signals[t].value}
      BY <1>0, <2>5 DEF SignalTable
    <3> QED BY <1>1, <2>3, <2>5, <3>1 DEF ReadyInv, Ended
  <2>6. ASSUME NEW w \in Proc, signals[s].waiting = w,
               signals' = [signals EXCEPT ![s].value = 1],
               state' = [state EXCEPT ![w] = "RUNNABLE"]
        PROVE  ReadyInv'
    <3>1. at[w] = "swait" /\ arg[w] = s
      BY <2>6, NullAssumption DEF PromiseInv, WaiterInv, WaiterIsInSwait
    <3>2. /\ \A t \in Sid : signals'[t].value \in {1, signals[t].value}
          /\ signals'[s].value = 1
          /\ \A x \in Proc \ {w} : state'[x] = state[x]
      BY <1>0, <2>6 DEF SignalTable
    <3> QED BY <1>1, <2>3, <3>1, <3>2 DEF ReadyInv, Ended
  <2> QED BY <1>0, <2>2, <2>4, <2>5, <2>6, SignalEffect
<1>12. CASE KeptEnd(Obligations)
  <2>1. /\ p \in Proc /\ MayExit(p)
        /\ at' = [at EXCEPT ![p] = "exit"] /\ arg' = arg /\ signals' = signals
    BY <1>0, <1>12, EndEffect DEF KeptEnd, Obligations
  <2>2. at'[p] = "exit" /\ \A w \in Proc \ {p} : at'[w] = at[w]
    BY <1>0, <2>1
  <2>3. arg' = arg /\ signals' = signals
    BY <2>1
  <2>4. CASE state' = [state EXCEPT ![p] = "ZOMBIE"]
    <3>1. \A w \in Proc \ {p} : state'[w] = state[w]
      BY <1>0, <2>4
    <3> QED BY <1>1, <2>2, <2>3, <3>1 DEF ReadyInv, Ended
  <2>5. ASSUME NEW x \in Proc \ {p}, state[x] = "BLOCKED", waiting_for[x] = p,
               state' = [[state EXCEPT ![p] = "ZOMBIE"] EXCEPT ![x] = "RUNNABLE"]
        PROVE  ReadyInv'
    <3>1. at[x] = "waitpid" /\ arg[x] = p
      BY <1>0, <2>1, <2>5 DEF MayExit, PlaceInv, PromiseInv, WaitpidInv
    <3>2. \A w \in Proc \ {p, x} : state'[w] = state[w]
      BY <1>0, <2>5
    <3> QED BY <1>1, <2>1, <2>2, <2>3, <3>1, <3>2 DEF ReadyInv, Ended
  <2> QED BY <1>0, <1>12, <2>4, <2>5, EndEffect DEF KeptEnd
<1> QED
  BY <1>3, <1>4, <1>5, <1>6, <1>7, <1>8, <1>9, <1>10, <1>11, <1>12 DEF KeptNext

-----------------------------------------------------------------------------
(* The state functions of the promise, by what the kernel assigns          *)

LEMMA ThisCall ==
    /\ \A p \in Proc : at[p] \notin {"waitpid", "swait"} => InCall[p] = NULL
    /\ \A p \in Proc : at[p] = "waitpid" => InCall[p] = [op |-> "waitpid", on |-> arg[p]]
    /\ \A p \in Proc : at[p] = "swait" => InCall[p] = [op |-> "swait", on |-> arg[p]]
BY DEF InCall, CallOf

LEMMA CallsStay ==
    ASSUME arg' = arg, \A p \in Proc : at'[p] = at[p] \/ {at[p], at'[p]} \cap {"waitpid", "swait"} = {}
    PROVE  InCall' = InCall
BY DEF InCall, CallOf

LEMMA CallBegins ==
    ASSUME NEW p \in Proc, NEW op \in {"waitpid", "swait"}, NEW x,
           at \in [Proc -> {"none", "user", "waitpid", "swait", "exit"}],
           arg \in [Proc -> Proc \cup Sid \cup {NoPid}],
           at' = [at EXCEPT ![p] = op], arg' = [arg EXCEPT ![p] = x]
    PROVE  InCall' = [InCall EXCEPT ![p] = [op |-> op, on |-> x]]
BY DEF InCall, CallOf

LEMMA CallReturns ==
    ASSUME NEW p \in Proc, NEW x,
           at \in [Proc -> {"none", "user", "waitpid", "swait", "exit"}],
           arg \in [Proc -> Proc \cup Sid \cup {NoPid}],
           at' = [at EXCEPT ![p] = "user"], arg' = [arg EXCEPT ![p] = x]
    PROVE  InCall' = [InCall EXCEPT ![p] = NULL]
BY DEF InCall, CallOf

LEMMA SetsStay ==
    /\ at' = at => Finished' = Finished
    /\ at' = at /\ Members(mem', "zombie") = Members(mem, "zombie") => WaitedFor' = WaitedFor
    /\ signals' = signals => Used' = Used /\ SetSids' = SetSids
BY DEF Finished, WaitedFor, Used, SetSids, Ended, Reaped

LEMMA CreatedStays ==
    ASSUME \A p \in Proc : state'[p] = "NONE" <=> state[p] = "NONE"
    PROVE  CreatedPids' = CreatedPids
BY DEF CreatedPids

LEMMA FinishedStays ==
    ASSUME \A p \in Proc : at'[p] = "exit" <=> at[p] = "exit"
    PROVE  /\ Finished' = Finished
           /\ Members(mem', "zombie") = Members(mem, "zombie") => WaitedFor' = WaitedFor
BY DEF Finished, WaitedFor, Ended, Reaped

LEMMA UserCode ==
    ASSUME KernelInv, host = "running", at[active_process] = "user"
    PROVE  Promise!InUserCode(active_process)
BY KernelFacts, ThisCall, NullAssumption DEF Promise!InUserCode

-----------------------------------------------------------------------------
(* Every step of the kernel is a step of the promise or none               *)

LEMMA BootStep ==
    ASSUME PromiseInv, PromiseInv', Boot
    PROVE  Promise!Start(next_pid) /\ next_pid \in Proc
<1>1. /\ next_pid \in Proc /\ \A w \in Proc : state[w] = "NONE" /\ at[w] = "none"
      /\ active_process = NULL /\ mem \in Memory /\ Proper(mem)
      /\ state \in [Proc -> {"NONE", "RUNNABLE", "BLOCKED", "ZOMBIE"}]
      /\ at \in [Proc -> {"none", "user", "waitpid", "swait", "exit"}]
  BY KernelFacts, KernelAssumption DEF Boot, PromiseInv, KernelInv, TypeInv, TypeOK, PlaceInv
<1> DEFINE m == queue_append(mem, "run", next_pid)
<1>2. /\ Allocate(next_pid) /\ schedule(m, "RUNNABLE")
  BY DEF Boot
<1>3. m \in Memory /\ Proper(m)
  BY <1>1, AppendAdds, ActiveInNoQueue DEF PromiseInv, Queue
<1>4. \A q \in Queue : active_process \notin Members(m, q)
  BY <1>1, <1>3, VisitedClosed, NullAssumption DEF Members
<1> HIDE DEF m
<1>5. Promise!Dispatch
  BY <1>1, <1>2, <1>3, <1>4, Dispatches DEF Pointer, States
<1>6. /\ at'[next_pid] = "user" /\ state'[next_pid] = "RUNNABLE" /\ arg' = arg /\ signals' = signals
      /\ \A w \in Proc \ {next_pid} : at'[w] = at[w] /\ state'[w] = state[w]
  BY <1>1, <1>2 DEF Allocate
<1>7. CreatedPids = {} /\ CreatedPids' = {next_pid}
  BY <1>1, <1>6 DEF CreatedPids
<1>8. InCall' = InCall /\ Used' = Used /\ SetSids' = SetSids
  BY <1>1, <1>6, CallsStay, SetsStay
<1>9. Finished' = Finished /\ WaitedFor' = WaitedFor
  BY <1>1, <1>6 DEF Finished, WaitedFor, Ended, Reaped
<1> QED BY <1>1, <1>5, <1>7, <1>8, <1>9 DEF Promise!Start

LEMMA CreateStep ==
    ASSUME PromiseInv, create_process
    PROVE  Promise!Create(next_pid) /\ next_pid \in Proc
<1>1. /\ next_pid \in Proc /\ state[next_pid] = "NONE" /\ at[next_pid] = "none"
      /\ mem \in Memory /\ Proper(mem)
      /\ state \in [Proc -> {"NONE", "RUNNABLE", "BLOCKED", "ZOMBIE"}]
      /\ at \in [Proc -> {"none", "user", "waitpid", "swait", "exit"}]
  BY KernelFacts, KernelAssumption DEF create_process, PromiseInv, KernelInv, TypeInv, TypeOK, PlaceInv
<1>2. /\ mem' = queue_append(mem, "run", next_pid) /\ active_process' = active_process
      /\ Allocate(next_pid) /\ host = "running" /\ at[active_process] = "user"
  BY DEF create_process, InUserCode
<1>3. Members(mem', "zombie") = Members(mem, "zombie")
  BY <1>1, <1>2, AppendAdds, ActiveInNoQueue DEF PromiseInv, Queue
<1>4. /\ at'[next_pid] = "user" /\ state'[next_pid] = "RUNNABLE" /\ arg' = arg /\ signals' = signals
      /\ \A w \in Proc \ {next_pid} : at'[w] = at[w] /\ state'[w] = state[w]
  BY <1>1, <1>2 DEF Allocate
<1>5. next_pid \in Proc \ CreatedPids /\ CreatedPids' = CreatedPids \cup {next_pid}
  BY <1>1, <1>4 DEF CreatedPids
<1>6. InCall' = InCall /\ Used' = Used /\ SetSids' = SetSids
  BY <1>1, <1>4, CallsStay, SetsStay
<1>7. Finished' = Finished /\ WaitedFor' = WaitedFor
  BY <1>1, <1>3, <1>4, FinishedStays
<1>8. Promise!InUserCode(active_process)
  BY <1>2, UserCode DEF PromiseInv
<1> QED BY <1>1, <1>2, <1>5, <1>6, <1>7, <1>8 DEF Promise!Create

LEMMA WaitpidStep ==
    ASSUME PromiseInv, PromiseInv', host = "running", NEW q \in Proc, WaitpidLoop(q), ~ Reaped(q),
           \/ at[active_process] = "user"
           \/ at[active_process] = "waitpid" /\ arg[active_process] = q /\ Ended(q)
    PROVE  Promise!waitpid(q)
<1> DEFINE p == active_process
           c == [op |-> "waitpid", on |-> q]
<1>0. /\ p \in Proc /\ mem \in Memory /\ Proper(mem) /\ \A r \in Queue : p \notin Members(mem, r)
      /\ state \in [Proc -> {"NONE", "RUNNABLE", "BLOCKED", "ZOMBIE"}]
      /\ at \in [Proc -> {"none", "user", "waitpid", "swait", "exit"}]
      /\ arg \in [Proc -> Proc \cup Sid \cup {NoPid}]
      /\ \A w \in Proc : w \in Members(mem, "zombie") => Ended(w)
      /\ state[p] = "RUNNABLE"
  BY KernelFacts DEF PromiseInv, PlaceInv, Ended
<1>1. Used' = Used /\ SetSids' = SetSids
  BY SetsStay DEF WaitpidLoop
<1>2. CASE q \in Members(mem, "zombie")
  <2>1. /\ mem' = queue_dequeue(mem, "zombie", q) /\ active_process' = active_process
        /\ at' = [at EXCEPT ![p] = "user"] /\ arg' = [arg EXCEPT ![p] = NoPid]
        /\ state' = state
    BY <1>2 DEF WaitpidLoop, ReturnToUser, procVars
  <2>2. Members(mem', "zombie") = Members(mem, "zombie") \ {q}
    BY <1>0, <1>2, <2>1, DequeueRemoves DEF Queue
  <2>3. InCall' = [InCall EXCEPT ![p] = NULL] /\ InCall[p] \in {NULL, c}
    BY <1>0, <2>1, CallReturns, ThisCall
  <2>4. \A w \in Proc : at'[w] = "exit" <=> at[w] = "exit"
    BY <1>0, <2>1
  <2>5. CreatedPids' = CreatedPids /\ Finished' = Finished
    BY <2>1, <2>4, CreatedStays, FinishedStays
  <2>6. q \in Finished \ WaitedFor /\ WaitedFor' = WaitedFor \cup {q}
    BY <1>0, <1>2, <2>2, <2>4 DEF Finished, WaitedFor, Ended, Reaped
  <2>7. p # NULL
    BY <1>0, NullAssumption
  <2> QED BY <1>1, <2>1, <2>3, <2>5, <2>6, <2>7 DEF Promise!waitpid, Promise!Completes
<1>3. CASE q \notin Members(mem, "zombie")
  <2>1. /\ state' = [state EXCEPT ![p] = "BLOCKED"]
        /\ at' = [at EXCEPT ![p] = "waitpid"] /\ arg' = [arg EXCEPT ![p] = q]
        /\ schedule(mem, "BLOCKED")
    BY <1>3 DEF WaitpidLoop, Block
  <2>2. ~ Ended(q) /\ at[p] = "user"
    BY <1>3 DEF Reaped
  <2>3. Members(mem', "zombie") = Members(mem, "zombie")
    BY <1>0, <2>1, ScheduleZombies DEF States
  <2>4. InCall' = [InCall EXCEPT ![p] = c]
    BY <1>0, <2>1, CallBegins
  <2>5. \A w \in Proc : /\ at'[w] = "exit" <=> at[w] = "exit"
                        /\ state'[w] = "NONE" <=> state[w] = "NONE"
    BY <1>0, <2>1, <2>2
  <2>6. CreatedPids' = CreatedPids /\ Finished' = Finished /\ WaitedFor' = WaitedFor
    BY <2>3, <2>5, CreatedStays, FinishedStays
  <2>7. Promise!Dispatch
    BY <1>0, <2>1, Dispatches DEF Pointer, States
  <2>8. Promise!InUserCode(active_process)
    BY <2>2, UserCode DEF PromiseInv
  <2>9. q \notin Finished
    BY <2>2 DEF Finished
  <2> QED BY <1>1, <2>4, <2>6, <2>7, <2>8, <2>9 DEF Promise!waitpid, Promise!Block
<1> QED BY <1>2, <1>3

(* Who is not in mbs_swait on s is in another call, or in none.            *)
LEMMA NotInSwait ==
    ASSUME NEW s \in Sid, NEW w \in Proc, at[w] = "swait" => arg[w] # s
    PROVE  InCall[w] # [op |-> "swait", on |-> s]
<1> DEFINE c == [op |-> "swait", on |-> s]
<1>1. c # NULL /\ c.op = "swait" /\ c.on = s
  BY PromiseAssumption DEF Promise!Calls
<1> HIDE DEF c
<1>2. CASE at[w] \notin {"waitpid", "swait"}
  BY <1>1, <1>2, ThisCall DEF c
<1>3. CASE at[w] \in {"waitpid", "swait"}
  <2> DEFINE d == [op |-> at[w], on |-> arg[w]]
  <2>1. InCall[w] = d
    BY <1>3, ThisCall
  <2>2. d.op = at[w] /\ d.on = arg[w]
    OBVIOUS
  <2> HIDE DEF d
  <2>3. d # c
    BY <1>1, <2>2
  <2> QED BY <2>1, <2>3 DEF c
<1> QED BY <1>2, <1>3

LEMMA SwaitStep ==
    ASSUME PromiseInv, PromiseInv', NEW s \in Sid, mbs_swait(s)
    PROVE  Promise!mbs_swait(s) \/ UNCHANGED Promise!vars
<1> DEFINE p == active_process
           c == [op |-> "swait", on |-> s]
<1>0. /\ p \in Proc /\ mem \in Memory /\ Proper(mem) /\ \A r \in Queue : p \notin Members(mem, r)
      /\ state \in [Proc -> {"NONE", "RUNNABLE", "BLOCKED", "ZOMBIE"}]
      /\ at \in [Proc -> {"none", "user", "waitpid", "swait", "exit"}]
      /\ arg \in [Proc -> Proc \cup Sid \cup {NoPid}]
      /\ signals \in SignalTable /\ state[p] = "RUNNABLE" /\ at[p] = "user"
  BY KernelFacts DEF PromiseInv, mbs_swait, InUserCode
<1>1. Promise!InUserCode(active_process)
  BY UserCode DEF PromiseInv, mbs_swait, InUserCode
<1>2. CASE ~ ValidSid(s) \/ signals[s].waiting # NULL
  <2>1. /\ signals' = signals /\ mem' = mem /\ active_process' = active_process
        /\ state' = state /\ at' = at /\ arg' = arg
    BY <1>2 DEF mbs_swait, ctxVars
  <2> QED BY <2>1, SetsStay, CallsStay, CreatedStays DEF Promise!vars
<1>3. ASSUME ValidSid(s), signals[s].waiting = NULL
      PROVE  s \in Used /\ \A w \in Proc \ {p} : InCall[w] # c
  <2>1. s \in Used
    BY <1>3 DEF ValidSid, Used
  <2>2. \A w \in Proc : at[w] = "swait" => arg[w] # s
    BY <1>3, NullAssumption DEF PromiseInv, SwaitInv
  <2> QED BY <2>1, <2>2, NotInSwait
<1>4. CASE ValidSid(s) /\ signals[s].waiting = NULL /\ signals[s].value = 0
  <2>1. /\ signals' = [signals EXCEPT ![s].waiting = p]
        /\ state' = [state EXCEPT ![p] = "BLOCKED"]
        /\ at' = [at EXCEPT ![p] = "swait"]
        /\ arg' = [arg EXCEPT ![p] = s]
        /\ schedule(mem, "BLOCKED")
    BY <1>4 DEF mbs_swait, Block
  <2>2. Members(mem', "zombie") = Members(mem, "zombie")
    BY <1>0, <2>1, ScheduleZombies DEF States
  <2>3. InCall' = [InCall EXCEPT ![p] = c]
    BY <1>0, <2>1, CallBegins
  <2>4. \A w \in Proc : /\ at'[w] = "exit" <=> at[w] = "exit"
                        /\ state'[w] = "NONE" <=> state[w] = "NONE"
    BY <1>0, <2>1
  <2>5. CreatedPids' = CreatedPids /\ Finished' = Finished /\ WaitedFor' = WaitedFor
    BY <2>2, <2>4, CreatedStays, FinishedStays
  <2>6. Used' = Used /\ SetSids' = SetSids
    <3>1. \A t \in Sid : /\ signals'[t].used = signals[t].used
                         /\ signals'[t].value = signals[t].value
      BY <1>0, <2>1 DEF SignalTable
    <3> QED BY <3>1 DEF Used, SetSids
  <2>7. Promise!Dispatch
    BY <1>0, <2>1, Dispatches DEF Pointer, States
  <2>8. s \notin SetSids
    BY <1>4 DEF SetSids
  <2> QED BY <1>1, <1>3, <1>4, <2>3, <2>5, <2>6, <2>7, <2>8 DEF Promise!mbs_swait, Promise!Block
<1>5. CASE ValidSid(s) /\ signals[s].waiting = NULL /\ signals[s].value # 0
  <2>1. /\ signals' = [signals EXCEPT ![s].value = 0, ![s].waiting = NULL]
        /\ state' = state /\ at' = at /\ arg' = arg
        /\ active_process' = active_process /\ mem' = mem
    BY <1>5 DEF mbs_swait, ctxVars
  <2>2. /\ CreatedPids' = CreatedPids /\ Finished' = Finished /\ WaitedFor' = WaitedFor
        /\ InCall' = InCall
    BY <2>1, SetsStay, CallsStay, CreatedStays
  <2>3. InCall[p] = NULL /\ InCall' = [InCall EXCEPT ![p] = NULL]
    <3>1. InCall[p] = NULL
      BY <1>0, ThisCall
    <3>2. InCall \in [Proc -> {InCall[w] : w \in Proc}]
      BY DEF InCall
    <3> QED BY <1>0, <2>2, <3>1, <3>2
  <2>4. s \in SetSids /\ Used' = Used /\ SetSids' = SetSids \ {s}
    <3>1. /\ \A t \in Sid : signals'[t].used = signals[t].used
          /\ \A t \in Sid \ {s} : signals'[t].value = signals[t].value
          /\ signals'[s].value = 0 /\ signals[s].value = 1
      BY <1>0, <1>5, <2>1 DEF SignalTable
    <3> QED BY <3>1 DEF Used, SetSids
  <2>5. p # NULL
    BY <1>0, NullAssumption
  <2> QED BY <1>3, <1>5, <2>1, <2>2, <2>3, <2>4, <2>5 DEF Promise!mbs_swait, Promise!Completes
<1> QED BY <1>2, <1>4, <1>5

LEMMA SwaitReturnStep ==
    ASSUME PromiseInv, mbs_swait_Resume
    PROVE  Promise!mbs_swait(arg[active_process]) /\ arg[active_process] \in Sid
<1> DEFINE p == active_process
           s == arg[p]
           c == [op |-> "swait", on |-> s]
<1>0. /\ p \in Proc /\ at[p] = "swait" /\ s \in Sid /\ p # NULL
      /\ state[p] = "RUNNABLE"
      /\ at \in [Proc -> {"none", "user", "waitpid", "swait", "exit"}]
      /\ arg \in [Proc -> Proc \cup Sid \cup {NoPid}]
      /\ signals \in SignalTable
  BY KernelFacts, NullAssumption DEF PromiseInv, mbs_swait_Resume, ResumedIn
<1>1. /\ signals' = [signals EXCEPT ![s].value = 0, ![s].waiting = NULL]
      /\ at' = [at EXCEPT ![p] = "user"] /\ arg' = [arg EXCEPT ![p] = NoPid]
      /\ state' = state /\ mem' = mem /\ active_process' = active_process
  BY DEF mbs_swait_Resume, ReturnToUser, procVars
<1>2. /\ signals[s].used /\ signals[s].value = 1
      /\ \A w \in Proc \ {p} : at[w] = "swait" => arg[w] # s
  BY <1>0 DEF PromiseInv, SwaitInv, ReadyInv
<1>3. InCall[p] = c /\ InCall' = [InCall EXCEPT ![p] = NULL]
  BY <1>0, <1>1, CallReturns, ThisCall
<1>4. \A w \in Proc \ {p} : InCall[w] # c
  BY <1>0, <1>2, NotInSwait
<1>5. s \in Used /\ s \in SetSids /\ Used' = Used /\ SetSids' = SetSids \ {s}
  <2>1. /\ \A t \in Sid : signals'[t].used = signals[t].used
        /\ \A t \in Sid \ {s} : signals'[t].value = signals[t].value
        /\ signals'[s].value = 0
    BY <1>0, <1>1 DEF SignalTable
  <2> QED BY <1>0, <1>2, <2>1 DEF Used, SetSids
<1>6. CreatedPids' = CreatedPids /\ Finished' = Finished /\ WaitedFor' = WaitedFor
  <2>1. \A w \in Proc : at'[w] = "exit" <=> at[w] = "exit"
    BY <1>0, <1>1
  <2> QED BY <1>1, <2>1, CreatedStays, FinishedStays
<1> QED BY <1>0, <1>1, <1>3, <1>4, <1>5, <1>6 DEF Promise!mbs_swait, Promise!Completes

LEMMA SignalStep ==
    ASSUME PromiseInv, NEW s \in Sid, mbs_signal(s), ValidSid(s) => MaySignal(s)
    PROVE  Promise!mbs_signal(s) \/ UNCHANGED Promise!vars
<1>0. /\ state \in [Proc -> {"NONE", "RUNNABLE", "BLOCKED", "ZOMBIE"}]
      /\ signals \in SignalTable
  BY KernelFacts DEF PromiseInv
<1>1. Promise!InUserCode(active_process)
  BY UserCode DEF PromiseInv, mbs_signal, InUserCode
<1>2. at' = at /\ arg' = arg /\ active_process' = active_process
  BY SignalEffect DEF PromiseInv
<1>3. InCall' = InCall /\ Finished' = Finished
  BY <1>2, CallsStay, SetsStay
<1>4. CASE UNCHANGED <<signals, mem, state>>
  BY <1>2, <1>3, <1>4, SetsStay, CreatedStays DEF Promise!vars
<1>5. ASSUME signals[s].used, signals' = [signals EXCEPT ![s].value = 1],
             Members(mem', "zombie") = Members(mem, "zombie"),
             \A w \in Proc : state'[w] = "NONE" <=> state[w] = "NONE"
      PROVE  Promise!mbs_signal(s)
  <2>1. s \in Used /\ Used' = Used /\ SetSids' = SetSids \cup {s}
    <3>1. /\ \A t \in Sid : signals'[t].used = signals[t].used
          /\ \A t \in Sid \ {s} : signals'[t].value = signals[t].value
          /\ signals'[s].value = 1
      BY <1>0, <1>5 DEF SignalTable
    <3> QED BY <1>5, <3>1 DEF Used, SetSids
  <2>2. CreatedPids' = CreatedPids /\ WaitedFor' = WaitedFor
    BY <1>2, <1>5, SetsStay, CreatedStays
  <2> QED BY <1>1, <1>2, <1>3, <2>1, <2>2 DEF Promise!mbs_signal
<1>6. CASE /\ signals[s].used /\ signals' = [signals EXCEPT ![s].value = 1]
           /\ mem' = mem /\ state' = state
  BY <1>5, <1>6
<1>7. ASSUME NEW w \in Proc, signals[s].used, state[w] = "BLOCKED",
             signals' = [signals EXCEPT ![s].value = 1],
             state' = [state EXCEPT ![w] = "RUNNABLE"],
             Members(mem', "zombie") = Members(mem, "zombie")
      PROVE  Promise!mbs_signal(s)
  <2>1. \A x \in Proc : state'[x] = "NONE" <=> state[x] = "NONE"
    BY <1>0, <1>7
  <2> QED BY <1>5, <1>7, <2>1
<1> QED BY <1>4, <1>6, <1>7, SignalEffect DEF PromiseInv

LEMMA NewStep ==
    ASSUME PromiseInv, mbs_signal_new
    PROVE  (NewSid \in Sid /\ Promise!mbs_signal_new(NewSid)) \/ UNCHANGED Promise!vars
<1>1. /\ Promise!InUserCode(active_process)
      /\ state' = state /\ mem' = mem /\ at' = at /\ arg' = arg /\ active_process' = active_process
  BY UserCode DEF PromiseInv, mbs_signal_new, InUserCode, procVars, ctxVars
<1>2. /\ CreatedPids' = CreatedPids /\ Finished' = Finished /\ WaitedFor' = WaitedFor
      /\ InCall' = InCall
  BY <1>1, SetsStay, CallsStay, CreatedStays
<1>3. CASE FreeSids = {}
  <2>1. Used' = Used /\ SetSids' = SetSids
    BY <1>3, SetsStay DEF mbs_signal_new
  <2> QED BY <1>1, <1>2, <2>1 DEF Promise!vars
<1>4. CASE FreeSids # {}
  <2>1. NewSid \in Sid /\ ~ signals[NewSid].used /\ signals \in SignalTable
    BY <1>4, NewSidFree, KernelFacts DEF FreeSids, PromiseInv
  <2>2. /\ signals'[NewSid].used /\ signals'[NewSid].value = 0
        /\ \A t \in Sid \ {NewSid} : signals'[t] = signals[t]
    BY <1>4, <2>1 DEF mbs_signal_new, SignalTable
  <2>3. NewSid \notin Used /\ Used' = Used \cup {NewSid} /\ SetSids' = SetSids \ {NewSid}
    BY <2>1, <2>2 DEF Used, SetSids
  <2> QED BY <1>1, <1>2, <2>1, <2>3 DEF Promise!mbs_signal_new
<1> QED BY <1>3, <1>4

LEMMA FreeStep ==
    ASSUME PromiseInv, NEW s \in Sid, mbs_signal_free(s)
    PROVE  Promise!mbs_signal_free(s) \/ UNCHANGED Promise!vars
<1>1. /\ Promise!InUserCode(active_process) /\ signals \in SignalTable
      /\ state' = state /\ mem' = mem /\ at' = at /\ arg' = arg /\ active_process' = active_process
  BY UserCode, KernelFacts DEF PromiseInv, mbs_signal_free, InUserCode, procVars, ctxVars
<1>2. /\ CreatedPids' = CreatedPids /\ Finished' = Finished /\ WaitedFor' = WaitedFor
      /\ InCall' = InCall
  BY <1>1, SetsStay, CallsStay, CreatedStays
<1>3. CASE ~ ValidSid(s)
  <2>1. Used' = Used /\ SetSids' = SetSids
    BY <1>3, SetsStay DEF mbs_signal_free
  <2> QED BY <1>1, <1>2, <2>1 DEF Promise!vars
<1>4. CASE ValidSid(s)
  <2>1. /\ signals[s].used /\ ~ signals'[s].used
        /\ \A t \in Sid : signals'[t].value = signals[t].value
        /\ \A t \in Sid \ {s} : signals'[t].used = signals[t].used
    BY <1>1, <1>4 DEF mbs_signal_free, SignalTable, ValidSid
  <2>2. s \in Used /\ Used' = Used \ {s} /\ SetSids' = SetSids
    BY <2>1 DEF Used, SetSids
  <2> QED BY <1>1, <1>2, <2>2 DEF Promise!mbs_signal_free
<1> QED BY <1>3, <1>4

LEMMA EndStep ==
    ASSUME PromiseInv, PromiseInv', process_wrapper_End
    PROVE  Promise!End
<1> DEFINE p == active_process
           woken == Found(mem, "wait", {x \in Proc : waiting_for[x] = p})
           w == CHOOSE x \in woken : TRUE
           n == queue_append(queue_dequeue(mem, "wait", w), "run", w)
<1>0. /\ p \in Proc /\ mem \in Memory /\ Proper(mem) /\ \A r \in Queue : p \notin Members(mem, r)
      /\ state \in [Proc -> {"NONE", "RUNNABLE", "BLOCKED", "ZOMBIE"}]
      /\ at \in [Proc -> {"none", "user", "waitpid", "swait", "exit"}]
      /\ host = "running" /\ at[p] = "user" /\ state[p] = "RUNNABLE"
  BY KernelFacts DEF PromiseInv, process_wrapper_End, InUserCode
<1>1. /\ at' = [at EXCEPT ![p] = "exit"] /\ arg' = arg /\ signals' = signals
      /\ Members(mem', "zombie") = Members(mem, "zombie") \cup {p}
      /\ \/ state' = [state EXCEPT ![p] = "ZOMBIE"]
         \/ \E x \in Proc \ {p} : /\ state[x] = "BLOCKED"
                                  /\ state' = [[state EXCEPT ![p] = "ZOMBIE"] EXCEPT ![x] = "RUNNABLE"]
  BY EndEffect DEF PromiseInv
<1>2. /\ at'[p] = "exit" /\ \A x \in Proc \ {p} : at'[x] = at[x]
      /\ \A x \in Proc : state'[x] = "NONE" <=> state[x] = "NONE"
  BY <1>0, <1>1
<1>3. CreatedPids' = CreatedPids
  BY <1>2, CreatedStays
<1>4. InCall' = InCall
  BY <1>0, <1>1, <1>2, CallsStay
<1>5. Used' = Used /\ SetSids' = SetSids
  BY <1>1, SetsStay
<1>6. Finished' = Finished \cup {p}
  BY <1>0, <1>2 DEF Finished, Ended
<1>7. WaitedFor' = WaitedFor
  BY <1>0, <1>1, <1>2 DEF WaitedFor, Reaped, Ended
<1>8. Promise!Dispatch
  <2>1. CASE woken = {}
    <3>1. schedule(mem, "ZOMBIE")
      BY <2>1 DEF process_wrapper_End
    <3> QED BY <1>0, <3>1, Dispatches DEF Pointer, States
  <2>2. CASE woken # {}
    <3>1. schedule(n, "ZOMBIE")
      BY <2>2 DEF process_wrapper_End
    <3>2. w \in Members(mem, "wait")
      BY <1>0, <2>2, FoundInMembers DEF Queue
    <3>3. /\ n \in Memory
          /\ Proper(n)
          /\ Members(n, "run") = Members(mem, "run") \cup {w}
          /\ Members(n, "wait") = Members(mem, "wait") \ {w}
          /\ Members(n, "zombie") = Members(mem, "zombie")
      BY <1>0, <3>2, WakeMoves
    <3> HIDE DEF n, w
    <3>4. \A q \in Queue : p \notin Members(n, q)
      BY <1>0, <3>2, <3>3 DEF Queue
    <3> QED BY <1>0, <3>1, <3>3, <3>4, Dispatches DEF Pointer, States
  <2> QED BY <2>1, <2>2
<1>9. Promise!InUserCode(active_process)
  BY <1>0, UserCode DEF PromiseInv
<1> QED BY <1>3, <1>4, <1>5, <1>6, <1>7, <1>8, <1>9 DEF Promise!End

LEMMA EveryStep ==
    PromiseInv /\ PromiseInv' /\ [KeptNext(Obligations)]_vars => [Promise!Next]_(Promise!vars)
<1> SUFFICES ASSUME PromiseInv, PromiseInv', [KeptNext(Obligations)]_vars
             PROVE  Promise!Next \/ UNCHANGED Promise!vars
  OBVIOUS
<1>1. CASE Boot
  BY <1>1, BootStep DEF Promise!Next
<1>2. CASE create_process
  BY <1>2, CreateStep DEF Promise!Next
<1>3. CASE \E q \in Proc \cup {NoPid} : KeptWaitpid(Obligations, q)
  <2>1. PICK q \in Proc \cup {NoPid} : KeptWaitpid(Obligations, q)
    BY <1>3
  <2>2. /\ q \in Proc /\ WaitpidLoop(q) /\ ~ Reaped(q)
        /\ host = "running" /\ at[active_process] = "user"
    BY <2>1 DEF KeptWaitpid, waitpid, Obligations, MayWaitpid, InUserCode
  <2> QED BY <2>2, WaitpidStep DEF Promise!Next
<1>4. CASE waitpid_Resume
  <2>1. /\ host = "running" /\ at[active_process] = "waitpid" /\ WaitpidLoop(arg[active_process])
        /\ active_process \in Proc /\ state[active_process] = "RUNNABLE"
    BY <1>4, KernelFacts DEF waitpid_Resume, ResumedIn, PromiseInv
  <2>2. arg[active_process] \in Proc /\ Ended(arg[active_process]) /\ ~ Reaped(arg[active_process])
    BY <2>1 DEF PromiseInv, ReadyInv, WaitpidInv
  <2> QED BY <2>1, <2>2, WaitpidStep DEF Promise!Next
<1>5. CASE \E s \in Sid : mbs_swait(s) \/ KeptSignal(Obligations, s) \/ KeptFree(Obligations, s)
  <2>1. PICK s \in Sid : \/ mbs_swait(s)
                         \/ mbs_signal(s) /\ (ValidSid(s) => MaySignal(s))
                         \/ mbs_signal_free(s)
    BY <1>5 DEF KeptSignal, KeptFree, Obligations
  <2> QED BY <2>1, SwaitStep, SignalStep, FreeStep DEF Promise!Next
<1>6. CASE mbs_signal_new
  BY <1>6, NewStep DEF Promise!Next
<1>7. CASE mbs_swait_Resume
  BY <1>7, SwaitReturnStep DEF Promise!Next
<1>8. CASE KeptEnd(Obligations)
  BY <1>8, EndStep DEF Promise!Next, KeptEnd
<1>9. CASE Stopped \/ UNCHANGED vars
  <2>1. /\ state' = state /\ signals' = signals /\ mem' = mem /\ at' = at /\ arg' = arg
        /\ active_process' = active_process
    BY <1>9 DEF Stopped, vars
  <2> QED BY <2>1, SetsStay, CallsStay, CreatedStays DEF Promise!vars
<1> QED
  BY <1>1, <1>2, <1>3, <1>4, <1>5, <1>6, <1>7, <1>8, <1>9 DEF KeptNext

-----------------------------------------------------------------------------
LEMMA PromiseInit == Init => PromiseInv /\ Promise!Init
<1> SUFFICES ASSUME Init PROVE PromiseInv /\ Promise!Init
  OBVIOUS
<1>1. \A p \in Proc : state[p] = "NONE" /\ at[p] = "none"
  BY DEF Init
<1>2. /\ CreatedPids = {} /\ Finished = {} /\ WaitedFor = {} /\ Used = {} /\ SetSids = {}
      /\ InCall = [p \in Proc |-> NULL] /\ active_process = NULL
  BY <1>1 DEF Init, CreatedPids, Finished, WaitedFor, Used, SetSids, InCall, CallOf, Ended, Reaped
<1>3. SwaitInv /\ WaitpidInv /\ ReadyInv
  BY <1>1 DEF SwaitInv, WaitpidInv, ReadyInv, Reaped, Ended
<1>4. WaiterInv
  BY TypeInit DEF Init, WaiterInv, WaiterIsInSwait
<1>5. KernelInv /\ PlaceInv
  BY KernelInit, PlaceInit
<1> QED BY <1>2, <1>3, <1>4, <1>5 DEF PromiseInv, Promise!Init

(* What the kernel keeps in every step of programs that keep all the       *)
(* obligations.                                                            *)
LEMMA PromiseNext == PromiseInv /\ [KeptNext(Obligations)]_vars => PromiseInv'
<1> SUFFICES ASSUME PromiseInv, [KeptNext(Obligations)]_vars PROVE PromiseInv'
  OBVIOUS
<1>1. {"signal", "free", "waitpid", "alone", "exit"} \subseteq Obligations
  BY DEF Obligations
<1>2. KernelInv' /\ PlaceInv' /\ WaiterInv'
  BY <1>1, KernelNext, PlaceNext, WaiterNext, KeptIsNext DEF PromiseInv
<1>3. SwaitInv' /\ WaitpidInv'
  BY <1>1, SwaitNext, WaitpidNext DEF PromiseInv
<1>4. ReadyInv'
  BY ReadyNext
<1> QED BY <1>2, <1>3, <1>4 DEF PromiseInv

-----------------------------------------------------------------------------
(* The kernel implements its promise: in every behaviour of programs that  *)
(* keep the obligations, a call returns exactly when what it waits for has *)
(* happened and the ready process with the smallest pid gets the processor *)
(* (syscalls.h:9-28, process_manager.c:107-108).                           *)
THEOREM KernelImplementsPromise ==
    ASSUME Discipline = Obligations
    PROVE  Spec => KeepsPromise
<1>1. [Next]_vars => [KeptNext(Obligations)]_vars
  BY DisciplineIsKept
<1>2. PromiseInv /\ PromiseInv' /\ [KeptNext(Obligations)]_vars => [Promise!Next]_(Promise!vars)
  BY EveryStep
<1> QED BY <1>1, <1>2, PromiseInit, PromiseNext, PTL DEF Spec, KeepsPromise, Promise!Spec

-----------------------------------------------------------------------------
(***************************************************************************)
(* The demo programs on this kernel.                                       *)
(***************************************************************************)
(* Process p has come back from its instruction l, which is a call.        *)
Back(p, l, call) == line[p] > l + 1 \/ (line[p] = l + 1 /\ at[p] # call)

(* Where the processes are in their programs: nothing takes the processor  *)
(* from a process in user code, so one that is not active has not begun.   *)
PlacesInv ==
    \A p \in Proc :
        /\ at[p] = "exit" => p \in 0..6 /\ line[p] > Length(p)
        /\ at[p] = "none" => line[p] = 1
        /\ at[p] = "user" /\ p # active_process => line[p] = 1
        /\ at[p] = "waitpid" => Joins(p, line[p] - 1, arg[p])
        /\ at[p] = "swait" => Swaits(p, line[p] - 1, arg[p])

(* A process has been waited for when the call that waits for it is over.  *)
JoinInv ==
    \A p \in {0, 1, 4}, l \in 1..20, c \in 1..6 :
        Joins(p, l, c) => (Reaped(c) <=> Back(p, l, "waitpid"))

(* The variables that proc1 has got so far, and where it keeps them.       *)
TableInv ==
    /\ \A s \in Sid : signals[s].used <=> s < 4 /\ s + 1 < line[1]
    /\ line[4] = 1 => \A i \in 0..3 : i + 1 < line[1] => bed[i] = i

(* A variable is set between its signal and the end of the wait for it.    *)
MeetInv ==
    \A p, g \in 1..3, l, k \in 1..20, i \in 0..3 :
        Meets(p, l, i, g, k) =>
            /\ signals[i].value = 1 <=> line[g] > k /\ ~ Back(p, l, "swait")
            /\ Back(p, l, "swait") => line[g] > k

(* bw_proc1 never gives the processor away again.                          *)
StarveInv ==
    line[4] > 1 =>
        /\ active_process = 4 /\ at[4] = "user" /\ host = "running"
        /\ line[4] <= 7 /\ line[5] = 1 /\ line[6] = 1 /\ bed[0] = 0

ProgramInv == ProgramsRun(Proc, next_pid) /\ (next_pid = 0 => host = "boot")

DemoInv ==
    PromiseInv /\ ProgramInv /\ PlacesInv /\ JoinInv /\ TableInv /\ MeetInv /\ StarveInv

DemoSize == MaxProcs >= 7 /\ NumSignals >= 4

-----------------------------------------------------------------------------
LEMMA Programs ==
    /\ Main(0) = "init" /\ Main(1) = "proc1" /\ Main(2) = "proc2" /\ Main(3) = "proc3"
    /\ Main(4) = "bw_proc1" /\ Main(5) = "bw_proc2" /\ Main(6) = "bw_proc3"
    /\ Length(0) = 7 /\ Length(1) = 19 /\ Length(2) = 5 /\ Length(3) = 5
    /\ Length(4) = 16 /\ Length(5) = 5 /\ Length(6) = 5
BY DEF Main, Length

LEMMA Script ==
    ASSUME NEW p \in 0..6, NEW l \in 1..Length(p), NEW x
    PROVE  LET i == Text[Main(p)][l]
           IN  /\ i = <<i[1], i[2]>>
               /\ i = <<"create", x>> <=> Creates(p, l, x)
               /\ i = <<"new", x>> <=> Allots(p, l, x)
               /\ i = <<"swait", x>> <=> Swaits(p, l, x)
               /\ i = <<"signal", x>> <=> Raises(p, l, x)
               /\ i = <<"waitpid", x>> <=> Awaits(p, l, x)
               /\ i[1] = "clear" <=> Clears(p, l)
               /\ i = <<"spin", x>> <=> Polls(p, l, x)
               /\ i = <<"set", x>> <=> Sets(p, l, x)
<1> DEFINE Agrees(f, q) ==
             LET i == Text[f][l]
             IN  /\ i = <<i[1], i[2]>>
                 /\ i = <<"create", x>> <=> Creates(q, l, x)
                 /\ i = <<"new", x>> <=> Allots(q, l, x)
                 /\ i = <<"swait", x>> <=> Swaits(q, l, x)
                 /\ i = <<"signal", x>> <=> Raises(q, l, x)
                 /\ i = <<"waitpid", x>> <=> Awaits(q, l, x)
                 /\ i[1] = "clear" <=> Clears(q, l)
                 /\ i = <<"spin", x>> <=> Polls(q, l, x)
                 /\ i = <<"set", x>> <=> Sets(q, l, x)
<1> USE DEF Creates, Allots, Swaits, Raises, Awaits, Clears, Polls, Sets, Say
<1>1. ASSUME l \in 1..7 PROVE Agrees("init", 0)
  BY <1>1 DEF Text
<1>2. ASSUME l \in 1..19 PROVE Agrees("proc1", 1)
  BY <1>2 DEF Text, proc1, New, Children, Join
<1>3. ASSUME l \in 1..5 PROVE Agrees("proc2", 2)
  BY <1>3 DEF Text
<1>4. ASSUME l \in 1..5 PROVE Agrees("proc3", 3)
  BY <1>4 DEF Text
<1>5. ASSUME l \in 1..16 PROVE Agrees("bw_proc1", 4)
  BY <1>5 DEF Text, bw_proc1, Children, Join
<1>6. ASSUME l \in 1..5 PROVE Agrees("bw_proc2", 5)
  BY <1>6 DEF Text
<1>7. ASSUME l \in 1..5 PROVE Agrees("bw_proc3", 6)
  BY <1>7 DEF Text
<1>8. Agrees(Main(p), p)
  <2> HIDE DEF Agrees
  <2>1. CASE p = 0
    BY <1>1, <2>1, Programs
  <2>2. CASE p = 1
    BY <1>2, <2>2, Programs
  <2>3. CASE p = 2
    BY <1>3, <2>3, Programs
  <2>4. CASE p = 3
    BY <1>4, <2>4, Programs
  <2>5. CASE p = 4
    BY <1>5, <2>5, Programs
  <2>6. CASE p = 5
    BY <1>6, <2>6, Programs
  <2>7. CASE p = 6
    BY <1>7, <2>7, Programs
  <2> QED BY <2>1, <2>2, <2>3, <2>4, <2>5, <2>6, <2>7
<1> QED BY <1>8

LEMMA Lengths == \A p \in 0..6 : Len(Text[Main(p)]) = Length(p)
<1>1. Len(proc1) = 19
  BY DEF proc1, New, Children, Join, Say
<1>2. Len(bw_proc1) = 16
  BY DEF bw_proc1, Children, Join, Say
<1>3. /\ Len(Text["init"]) = 7 /\ Len(Text["proc1"]) = 19 /\ Len(Text["bw_proc1"]) = 16
      /\ Len(Text["proc2"]) = 5 /\ Len(Text["proc3"]) = 5
      /\ Len(Text["bw_proc2"]) = 5 /\ Len(Text["bw_proc3"]) = 5
  BY <1>1, <1>2 DEF Text
<1> SUFFICES ASSUME NEW p \in 0..6 PROVE Len(Text[Main(p)]) = Length(p)
  OBVIOUS
<1>4. p \in {0, 1, 2, 3, 4, 5, 6}
  OBVIOUS
<1> QED BY <1>3, <1>4, Programs

(* What a waitpid of the text waits for.                                   *)
LEMMA WaitsJoin ==
    ASSUME NEW p, NEW l, NEW k, Awaits(p, l, k)
    PROVE  Joins(p, l, Offspring(p, l)[k])
<1>1. <<p, l, k>> \in {<<0, 3, 1>>, <<0, 6, 2>>, <<1, 18, 2>>, <<1, 19, 1>>, <<4, 15, 2>>, <<4, 16, 1>>}
  BY DEF Awaits
<1> QED BY <1>1 DEF Joins, Offspring

-----------------------------------------------------------------------------
LEMMA DemoProcs ==
    ASSUME DemoInv, DemoSize
    PROVE  /\ 0..6 \subseteq Proc /\ Proc \subseteq Nat /\ 0..3 \subseteq Sid
           /\ next_pid \in 0..7 /\ KernelInv
<1>1. KernelInv
  BY DEF DemoInv, PromiseInv
<1>2. next_pid \in Nat /\ next_pid <= 7
  BY <1>1, KernelAssumption DEF KernelInv, TypeInv, TypeOK, DemoInv, ProgramInv, ProgramsRun, CreatedInOrder
<1>3. /\ MaxProcs \in Nat /\ NumSignals \in Nat /\ Proc = 0..(MaxProcs - 1)
      /\ MaxProcs >= 7 /\ NumSignals >= 4
  BY KernelAssumption DEF DemoSize
<1>4. 0..6 \subseteq Proc /\ Proc \subseteq Nat /\ 0..3 \subseteq Sid
  BY <1>3 DEF Sid
<1> QED BY <1>1, <1>2, <1>4

LEMMA DemoTypes ==
    ASSUME DemoInv
    PROVE  /\ line \in [Proc -> Nat \ {0}] /\ function \in [Proc -> DOMAIN Text]
           /\ child \in [Proc -> Seq(Proc)] /\ bed \in [0..3 -> Int]
           /\ at \in [Proc -> {"none", "user", "waitpid", "swait", "exit"}]
           /\ arg \in [Proc -> Proc \cup Sid \cup {NoPid}]
           /\ signals \in SignalTable
           /\ state \in [Proc -> {"NONE", "RUNNABLE", "BLOCKED", "ZOMBIE"}]
<1>1. KernelInv
  BY DEF DemoInv, PromiseInv
<1> QED BY <1>1, KernelFacts DEF DemoInv, ProgramInv, ProgramsRun

LEMMA DemoPlaces ==
    ASSUME DemoInv, NEW p \in Proc
    PROVE  /\ child[p] = Offspring(p, line[p])
           /\ p < next_pid => p \in 0..6 /\ function[p] = Main(p) /\ line[p] <= Length(p) + 1
           /\ p >= next_pid => function[p] = "init" /\ line[p] = 1
BY DEF DemoInv, ProgramInv, ProgramsRun

LEMMA DemoLines ==
    ASSUME DemoInv, DemoSize
    PROVE  /\ \A q \in 0..6 : q \in Proc /\ line[q] \in Nat \ {0}
           /\ CreatedInOrder(next_pid)
<1>1. CreatedInOrder(next_pid)
  BY DEF DemoInv, ProgramInv, ProgramsRun
<1> QED BY <1>1, DemoProcs, DemoTypes

(* The invariants at one place of the table.                               *)
LEMMA Meeting ==
    ASSUME DemoInv, NEW p, NEW l, NEW i, NEW g, NEW k, Meets(p, l, i, g, k)
    PROVE  /\ signals[i].value = 1 <=> line[g] > k /\ ~ Back(p, l, "swait")
           /\ Back(p, l, "swait") => line[g] > k
<1>1. p \in 1..3 /\ g \in 1..3 /\ l \in 1..20 /\ k \in 1..20 /\ i \in 0..3
  BY DEF Meets
<1>2. MeetInv
  BY DEF DemoInv
<1> QED BY <1>1, <1>2 DEF MeetInv

LEMMA Joining ==
    ASSUME DemoInv, NEW p, NEW l, NEW c, Joins(p, l, c)
    PROVE  Reaped(c) <=> Back(p, l, "waitpid")
<1>1. p \in {0, 1, 4} /\ l \in 1..20 /\ c \in 1..6
  BY DEF Joins
<1>2. JoinInv
  BY DEF DemoInv
<1> QED BY <1>1, <1>2 DEF JoinInv

(* The active process in its program.                                      *)
LEMMA InProgram ==
    ASSUME DemoInv, DemoSize, host = "running"
    PROVE  /\ active_process \in 0..6 /\ active_process < next_pid
           /\ function[active_process] = Main(active_process)
           /\ line[active_process] \in 1..(Length(active_process) + 1)
           /\ AtEnd(active_process) <=> line[active_process] > Length(active_process)
<1> DEFINE p == active_process
<1>1. p \in Proc /\ state[p] = "RUNNABLE" /\ p \in Nat /\ next_pid \in Nat
  BY DemoProcs, KernelFacts
<1>2. p < next_pid
  <2>1. ~ (p >= next_pid)
    BY <1>1, DemoProcs DEF KernelInv
  <2> QED BY <1>1, <2>1
<1>3. p \in 0..6 /\ function[p] = Main(p) /\ line[p] <= Length(p) + 1 /\ line[p] \in Nat \ {0}
  BY <1>1, <1>2, DemoPlaces, DemoTypes
<1>4. Length(p) \in Nat
  BY <1>3, Programs
<1>5. AtEnd(p) <=> line[p] > Length(p)
  BY <1>3, Lengths DEF AtEnd
<1>6. line[p] \in 1..(Length(p) + 1)
  BY <1>3, <1>4
<1> QED BY <1>2, <1>3, <1>5, <1>6

LEMMA Executed ==
    ASSUME DemoInv, DemoSize, NEW op, NEW x, Runs(op, x)
    PROVE  /\ host = "running" /\ at[active_process] = "user"
           /\ line[active_process] \in 1..Length(active_process)
           /\ Text[Main(active_process)][line[active_process]] = <<op, x>>
           /\ Instruction(active_process) = <<op, x>>
           /\ line'[active_process] = line[active_process] + 1
           /\ \A q \in Proc \ {active_process} : line'[q] = line[q]
           /\ line' \in [Proc -> Nat \ {0}]
<1>1. host = "running" /\ at[active_process] = "user" /\ Executes(active_process, op, x)
  BY DEF Runs, InUserCode
<1>2. line' = [line EXCEPT ![active_process] = @ + 1]
  BY <1>1 DEF Executes
<1>3. active_process \in Proc
  BY <1>1, InProgram, DemoProcs
<1>4. ~ AtEnd(active_process) /\ Instruction(active_process) = <<op, x>>
  BY <1>1 DEF Executes
<1>5. line \in [Proc -> Nat \ {0}]
  BY DemoTypes
<1>6. Length(active_process) \in Nat
  BY <1>1, InProgram, Programs
<1> QED BY <1>1, <1>2, <1>3, <1>4, <1>5, <1>6, InProgram DEF Instruction

-----------------------------------------------------------------------------
(* The variable a signal or an swait of the text names, which proc1 has    *)
(* got before.                                                             *)
LEMMA BedHolds ==
    ASSUME DemoInv, DemoSize, host = "running", NEW i,
           \/ Raises(active_process, line[active_process], i)
           \/ Swaits(active_process, line[active_process], i)
    PROVE  /\ active_process \in 1..3 /\ i \in 0..3 /\ i \in Sid
           /\ bed[i] = i /\ signals[i].used
<1> DEFINE p == active_process
<1>1. p \in 1..3 /\ i \in 0..3 /\ (p = 1 => line[1] > i + 1)
  BY DEF Raises, Swaits
<1>2. p < next_pid /\ CreatedInOrder(next_pid) /\ line[1] \in Nat /\ line[4] \in Nat \ {0}
      /\ next_pid \in Nat /\ i \in Sid
  BY <1>1, InProgram, DemoLines, DemoProcs
<1>3. line[1] > i + 1
  BY <1>1, <1>2 DEF CreatedInOrder
<1>4. line[4] = 1
  BY <1>1, <1>2 DEF DemoInv, StarveInv
<1> QED BY <1>1, <1>2, <1>3, <1>4 DEF DemoInv, TableInv

(* Nobody is registered with the variable of an instruction, but the       *)
(* process that waits for it in the text, and that one only asleep.        *)
LEMMA RegisteredWaits ==
    ASSUME DemoInv, DemoSize, NEW i \in 0..3, NEW w, signals[i].waiting = w, w # NULL
    PROVE  /\ w \in 1..3 /\ at[w] = "swait" /\ arg[w] = i /\ Swaits(w, line[w] - 1, i)
           /\ state[w] \in {"BLOCKED", "RUNNABLE"}
           /\ state[w] = "RUNNABLE" => signals[i].value = 1
           /\ \A l, g, k : Meets(w, l, i, g, k) => ~ Back(w, l, "swait")
<1>1. w \in Proc /\ i \in Sid
  BY DemoProcs, DemoTypes DEF SignalTable, Pointer
<1>2. at[w] = "swait" /\ arg[w] = i
  BY <1>1 DEF DemoInv, PromiseInv, WaiterInv, WaiterIsInSwait
<1>3. Swaits(w, line[w] - 1, i)
  BY <1>1, <1>2 DEF DemoInv, PlacesInv
<1>4. line[w] \in Nat
  BY <1>1, DemoTypes
<1>5. \A l, g, k : Meets(w, l, i, g, k) => ~ Back(w, l, "swait")
  BY <1>2, <1>3, <1>4 DEF Swaits, Meets, Back
<1>6. state[w] \in {"BLOCKED", "RUNNABLE"}
  BY <1>1, <1>2, DemoTypes DEF DemoInv, PromiseInv, PlaceInv
<1>7. state[w] = "RUNNABLE" => signals[i].value = 1
  BY <1>1, <1>2 DEF DemoInv, PromiseInv, ReadyInv
<1>8. w \in 1..3
  BY <1>3 DEF Swaits
<1> QED BY <1>2, <1>3, <1>5, <1>6, <1>7, <1>8

LEMMA SignalIsFirst ==
    ASSUME DemoInv, DemoSize, host = "running", at[active_process] = "user", NEW i,
           Raises(active_process, line[active_process], i)
    PROVE  MaySignal(bed[i])
<1>1. active_process \in 1..3 /\ i \in 0..3 /\ bed[i] = i
  BY BedHolds
<1> SUFFICES ASSUME NEW w, signals[i].waiting = w, w # NULL PROVE state[w] = "BLOCKED"
  BY <1>1 DEF MaySignal
<1>2. /\ w \in 1..3 /\ Swaits(w, line[w] - 1, i)
      /\ state[w] \in {"BLOCKED", "RUNNABLE"}
      /\ state[w] = "RUNNABLE" => signals[i].value = 1
  BY <1>1, RegisteredWaits
<1>3. line[active_process] \in Nat
  BY <1>1, DemoLines
<1>4. Meets(w, line[w] - 1, i, active_process, line[active_process])
  BY <1>2 DEF Raises, Swaits, Meets
<1>5. signals[i].value # 1
  BY <1>3, <1>4, Meeting
<1> QED BY <1>2, <1>5

LEMMA WaitIsFirst ==
    ASSUME DemoInv, DemoSize, host = "running", at[active_process] = "user", NEW k,
           Awaits(active_process, line[active_process], k)
    PROVE  LET c == child[active_process][k]
           IN  /\ Joins(active_process, line[active_process], c) /\ c \in Proc
               /\ MayWaitpid(c) /\ AloneInWaitpid(c)
<1> DEFINE p == active_process
           c == child[p][k]
<1>1. p \in Proc /\ 0..6 \subseteq Proc /\ Proc \subseteq Nat
  BY InProgram, DemoProcs
<1>2. child[p] = Offspring(p, line[p])
  BY <1>1, DemoPlaces
<1>3. Joins(p, line[p], c)
  BY <1>2, WaitsJoin
<1> HIDE DEF c
<1>4. c \in 1..6 /\ c # p /\ p \in {0, 1, 4} /\ line[p] \in 1..20
  BY <1>3 DEF Joins
<1>5. ~ Back(p, line[p], "waitpid")
  BY <1>4 DEF Back
<1>6. ~ Reaped(c)
  BY <1>3, <1>4, <1>5 DEF DemoInv, JoinInv
<1>7. ASSUME NEW w \in Proc, at[w] = "waitpid", arg[w] = c
      PROVE  FALSE
  <2>1. Joins(w, line[w] - 1, c) /\ line[w] \in Nat
    BY <1>7, DemoTypes DEF DemoInv, PlacesInv
  <2>2. w = p
    BY <1>3, <2>1 DEF Joins
  <2> QED BY <1>7, <2>2
<1> QED BY <1>1, <1>3, <1>4, <1>6, <1>7 DEF MayWaitpid, AloneInWaitpid, c

(* A process that ends finds nobody asleep in mbs_swait.                   *)
LEMMA EndIsAlone ==
    ASSUME DemoInv, DemoSize, host = "running", at[active_process] = "user", AtEnd(active_process)
    PROVE  MayExit(active_process)
<1> DEFINE p == active_process
<1>1. p \in 0..6 /\ p < next_pid /\ line[p] = Length(p) + 1 /\ 0..6 \subseteq Proc
  BY InProgram, DemoProcs, Programs
<1> SUFFICES ASSUME NEW w \in Proc, at[w] = "swait", state[w] = "BLOCKED"
             PROVE  FALSE
  BY DEF MayExit
<1>2. w \in 1..3 /\ Swaits(w, line[w] - 1, arg[w]) /\ arg[w] \in 0..3 /\ w # p
  BY DEF DemoInv, PlacesInv, Swaits
<1>3. signals[arg[w]].value = 0
  BY DEF DemoInv, PromiseInv, SwaitInv
<1>4. \A q \in 0..6 : line[q] \in Nat \ {0}
  BY <1>1, DemoTypes
<1>5. \A g, k : Meets(w, line[w] - 1, arg[w], g, k) => line[g] <= k
  <2> SUFFICES ASSUME NEW g, NEW k, Meets(w, line[w] - 1, arg[w], g, k)
               PROVE  line[g] <= k
    OBVIOUS
  <2>1. ~ Back(w, line[w] - 1, "swait")
    BY <1>2, <1>4 DEF Back
  <2>2. ~ (line[g] > k)
    BY <1>3, <2>1, Meeting
  <2>3. g \in 1..3 /\ k \in 1..20
    BY DEF Meets
  <2> QED BY <1>4, <2>2, <2>3
<1>6. ASSUME NEW q, NEW l, NEW c, Joins(q, l, c), Back(q, l, "waitpid")
      PROVE  at[c] = "exit" /\ line[c] > Length(c)
  <2>1. Reaped(c) /\ c \in Proc
    BY <1>1, <1>6, Joining DEF Joins
  <2> QED BY <2>1 DEF Reaped, Ended, DemoInv, PlacesInv
<1>7. CASE p = 0
  <2>1. Joins(0, 3, 1) /\ Joins(1, 18, 3) /\ Joins(1, 19, 2)
    BY DEF Joins
  <2>2. Back(0, 3, "waitpid")
    BY <1>1, <1>7, Programs DEF Back
  <2>3. at[1] = "exit" /\ line[1] > 19
    BY <1>6, <2>1, <2>2, Programs
  <2>4. Back(1, 18, "waitpid") /\ Back(1, 19, "waitpid")
    BY <1>4, <2>3 DEF Back
  <2>5. at[2] = "exit" /\ at[3] = "exit"
    BY <1>6, <2>1, <2>4
  <2> QED BY <1>2, <2>3, <2>5
<1>8. CASE p = 1
  <2>1. Back(1, 18, "waitpid") /\ Back(1, 19, "waitpid")
    BY <1>1, <1>8, Programs DEF Back
  <2>2. Reaped(2) /\ Reaped(3)
    BY <2>1, Joining DEF Joins
  <2> QED BY <1>2, <1>8, <2>2 DEF Reaped, Ended
<1>9. CASE p = 2
  <2>1. line[1] > 16
    BY <1>1, <1>9, Programs, Meeting DEF Back, Meets
  <2>2. w = 1 => line[1] <= 13
    BY <1>2, <1>4 DEF Swaits
  <2>3. w = 3 => line[1] <= 14
    BY <1>2, <1>5 DEF Swaits, Meets
  <2> QED BY <1>2, <1>4, <1>9, <2>1, <2>2, <2>3
<1>10. CASE p = 3
  <2>1. line[1] > 14
    BY <1>1, <1>10, Programs, Meeting DEF Back, Meets
  <2>2. w = 1 => line[1] <= 13
    BY <1>2, <1>4 DEF Swaits
  <2>3. w = 2 => line[1] <= 16
    BY <1>2, <1>5 DEF Swaits, Meets
  <2>4. line[1] > 16
    <3>1. /\ at[1] = "exit" => line[1] > 19
          /\ at[1] \in {"none", "user"} => line[1] = 1
          /\ at[1] = "waitpid" => line[1] - 1 \in {18, 19}
          /\ at[1] = "swait" => line[1] - 1 \in {10, 12}
      BY <1>1, <1>10, Programs DEF DemoInv, PlacesInv, Joins, Swaits
    <3>2. at[1] \in {"none", "user", "waitpid", "swait", "exit"} /\ line[1] \in Nat
      BY <1>1, <1>4, DemoTypes
    <3> QED BY <2>1, <3>1, <3>2
  <2> QED BY <1>2, <1>4, <1>10, <2>1, <2>2, <2>3, <2>4
<1>11. CASE p = 4
  BY <1>1, <1>4, <1>11, Programs DEF DemoInv, StarveInv
<1>12. CASE p \in {5, 6}
  BY <1>1, <1>4, <1>12, Programs, DemoLines, DemoProcs DEF DemoInv, StarveInv, CreatedInOrder
<1> QED BY <1>1, <1>7, <1>8, <1>9, <1>10, <1>11, <1>12

(* So the programs keep the obligations the kernel needs.                  *)
LEMMA DemoKeeps == ASSUME DemoInv, DemoSize PROVE KeepsObligations
<1> SUFFICES ASSUME InUserCode PROVE KeepsObligations
  BY DEF KeepsObligations
<1>1. host = "running" /\ at[active_process] = "user"
  BY DEF InUserCode
<1>2. CASE AtEnd(active_process)
  BY <1>1, <1>2, EndIsAlone DEF KeepsObligations
<1>3. CASE ~ AtEnd(active_process)
  <2> DEFINE op == Instruction(active_process)[1]
             x == Instruction(active_process)[2]
  <2>1. /\ active_process \in 0..6
        /\ line[active_process] \in 1..Length(active_process)
        /\ Instruction(active_process) = Text[Main(active_process)][line[active_process]]
    BY <1>1, <1>3, InProgram, Programs DEF Instruction
  <2>2. Instruction(active_process) = <<op, x>>
    BY <2>1, Script
  <2>3. op = "signal" => MaySignal(bed[x])
    <3> HIDE DEF op, x
    <3>1. op = "signal" => Raises(active_process, line[active_process], x)
      BY <2>1, <2>2, Script
    <3> QED BY <1>1, <3>1, SignalIsFirst
  <2>4. op = "waitpid" => MayWaitpid(child[active_process][x]) /\ AloneInWaitpid(child[active_process][x])
    <3> HIDE DEF op, x
    <3>1. op = "waitpid" => Awaits(active_process, line[active_process], x)
      BY <2>1, <2>2, Script
    <3> QED BY <1>1, <3>1, WaitIsFirst
  <2> QED BY <1>3, <2>3, <2>4 DEF KeepsObligations
<1> QED BY <1>2, <1>3

-----------------------------------------------------------------------------
(* Every step of the demo programs is one of the kernel for programs that  *)
(* keep the obligations, or leaves the kernel alone.                       *)
LEMMA DemoIsKept ==
    ASSUME DemoInv, DemoSize, [DemoNext]_demoVars
    PROVE  [KeptNext(Obligations)]_vars
<1>1. CASE Boot
  BY <1>1 DEF KeptNext
<1>2. CASE \E f \in DOMAIN Text : Create(f)
  BY <1>2 DEF Create, KeptNext
<1>3. ASSUME NEW i \in 0..3, NewSignal(i) \/ Assign(i) PROVE [KeptNext(Obligations)]_vars
  BY <1>3 DEF NewSignal, Assign, KeptNext
<1>4. ASSUME NEW i \in 0..3, CallOnSignal(i) PROVE [KeptNext(Obligations)]_vars
  <2>1. CASE Runs("swait", i) /\ mbs_swait(bed[i])
    <3>1. Swaits(active_process, line[active_process], i) /\ host = "running"
      BY <2>1, Executed, InProgram, Script
    <3>2. bed[i] \in Sid
      BY <3>1, BedHolds
    <3> QED BY <2>1, <3>2 DEF KeptNext
  <2>2. CASE Runs("signal", i) /\ mbs_signal(bed[i])
    <3>1. /\ Raises(active_process, line[active_process], i)
          /\ host = "running" /\ at[active_process] = "user"
      BY <2>2, Executed, InProgram, Script
    <3>2. bed[i] \in Sid /\ MaySignal(bed[i])
      BY <3>1, BedHolds, SignalIsFirst
    <3> QED BY <2>2, <3>2 DEF KeptNext, KeptSignal
  <2> QED BY <1>4, <2>1, <2>2 DEF CallOnSignal
<1>5. ASSUME NEW k \in 1..2, WaitForChild(k) PROVE [KeptNext(Obligations)]_vars
  <2>1. /\ Awaits(active_process, line[active_process], k)
        /\ host = "running" /\ at[active_process] = "user"
    BY <1>5, Executed, InProgram, Script DEF WaitForChild
  <2>2. LET c == child[active_process][k]
        IN  c \in Proc /\ MayWaitpid(c) /\ AloneInWaitpid(c)
    BY <2>1, WaitIsFirst
  <2> QED BY <1>5, <2>2 DEF WaitForChild, KeptNext, KeptWaitpid
<1>6. CASE println \/ Stay \/ UNCHANGED demoVars
  BY <1>6 DEF println, Stay, demoVars
<1>7. CASE InUserCode /\ AtEnd(active_process) /\ process_wrapper_End
  BY <1>7, EndIsAlone DEF InUserCode, KeptNext, KeptEnd
<1>8. CASE waitpid_Resume \/ mbs_swait_Resume
  BY <1>8 DEF KeptNext
<1> QED BY <1>1, <1>2, <1>3, <1>4, <1>5, <1>6, <1>7, <1>8 DEF DemoNext

-----------------------------------------------------------------------------
(* What holds of the programs besides PromiseInv.                          *)
Rest == ProgramInv /\ PlacesInv /\ JoinInv /\ TableInv /\ MeetInv /\ StarveInv

(* Joins and Meets are read off the instructions.                          *)
LEMMA Tables ==
    /\ \A p, l, c : Joins(p, l, c) => p \in {0, 1, 4} /\ l \in 1..20 /\ c \in 1..6 /\ \E k : Awaits(p, l, k)
    /\ \A p, l, i, g, k : Meets(p, l, i, g, k) =>
           /\ p \in 1..3 /\ g \in 1..3 /\ l \in 1..20 /\ k \in 1..20 /\ i \in 0..3 /\ p # g
           /\ Swaits(p, l, i) /\ Raises(g, k, i)
BY DEF Joins, Awaits, Meets, Swaits, Raises

(* A step that executes an instruction: no other process gets further.     *)
LEMMA BackExecuted ==
    ASSUME DemoInv, DemoSize, NEW op, NEW x, Runs(op, x),
           at'[active_process] \in {"user", op},
           \A q \in 0..6 \ {active_process} : at'[q] = at[q] \/ line[q] = 1,
           NEW q \in 0..6, NEW l \in 1..20, NEW call \in {"waitpid", "swait"}
    PROVE  Back(q, l, call)' <=> \/ Back(q, l, call)
                                \/ (q = active_process /\ l = line[q] /\ at'[q] # call)
<1>1. /\ at[active_process] = "user" /\ line'[active_process] = line[active_process] + 1
      /\ \A r \in Proc \ {active_process} : line'[r] = line[r]
  BY Executed
<1>2. line[q] \in Nat \ {0} /\ q \in Proc
  BY DemoLines
<1>3. CASE q = active_process
  BY <1>1, <1>2, <1>3 DEF Back
<1>4. CASE q # active_process
  <2>1. line'[q] = line[q]
    BY <1>1, <1>2, <1>4
  <2> QED BY <1>2, <1>4, <2>1 DEF Back
<1> QED BY <1>3, <1>4

(* The processes are where they should be after an instruction that        *)
(* returns at once.                                                        *)
LEMMA PlacesExecuted ==
    ASSUME DemoInv, DemoSize, NEW op, NEW x, Runs(op, x), arg' = arg,
           active_process' = active_process,
           \A q \in Proc : at'[q] = at[q] \/ (at'[q] = "user" /\ line[q] = 1 /\ q # active_process)
    PROVE  PlacesInv'
<1>1. /\ at[active_process] = "user" /\ line'[active_process] = line[active_process] + 1
      /\ \A r \in Proc \ {active_process} : line'[r] = line[r]
      /\ active_process \in Proc
  BY Executed, InProgram, DemoLines
<1>2. /\ at'[active_process] = "user"
      /\ \A q \in Proc \ {active_process} :
             line'[q] = line[q] /\ arg'[q] = arg[q]
             /\ (at'[q] = at[q] \/ (at'[q] = "user" /\ line[q] = 1))
  BY <1>1
<1> QED BY <1>2 DEF DemoInv, PlacesInv

LEMMA JoinExecuted ==
    ASSUME DemoInv, DemoSize, NEW op, NEW x, Runs(op, x), op # "waitpid",
           at'[active_process] \in {"user", op},
           \A q \in 0..6 \ {active_process} : at'[q] = at[q] \/ line[q] = 1,
           \A c \in 1..6 : Reaped(c)' <=> Reaped(c)
    PROVE  JoinInv'
<1> SUFFICES ASSUME NEW p \in {0, 1, 4}, NEW l \in 1..20, NEW c \in 1..6, Joins(p, l, c)
             PROVE  Reaped(c)' <=> Back(p, l, "waitpid")'
  BY DEF JoinInv
<1>1. ~ (p = active_process /\ l = line[p])
  BY Executed, InProgram, Tables, Script
<1>2. Back(p, l, "waitpid")' <=> Back(p, l, "waitpid")
  BY <1>1, BackExecuted
<1> QED BY <1>2, Joining

LEMMA MeetExecuted ==
    ASSUME DemoInv, DemoSize, NEW op, NEW x, Runs(op, x), op \notin {"swait", "signal"},
           at'[active_process] \in {"user", op},
           \A q \in 0..6 \ {active_process} : at'[q] = at[q] \/ line[q] = 1,
           \A i \in 0..3 : signals'[i].value = signals[i].value
    PROVE  MeetInv'
<1> SUFFICES ASSUME NEW p \in 1..3, NEW g \in 1..3, NEW l \in 1..20, NEW k \in 1..20,
                    NEW i \in 0..3, Meets(p, l, i, g, k)
             PROVE  /\ signals'[i].value = 1 <=> line'[g] > k /\ ~ Back(p, l, "swait")'
                    /\ Back(p, l, "swait")' => line'[g] > k
  BY DEF MeetInv
<1>1. ~ (p = active_process /\ l = line[p]) /\ ~ (g = active_process /\ k = line[g])
  BY Executed, InProgram, Tables, Script
<1>2. Back(p, l, "swait")' <=> Back(p, l, "swait")
  BY <1>1, BackExecuted
<1>3. line[g] \in Nat /\ (line'[g] = line[g] \/ (g = active_process /\ line'[g] = line[g] + 1))
  BY Executed, DemoLines
<1>4. line'[g] > k <=> line[g] > k
  BY <1>1, <1>3
<1> QED BY <1>2, <1>4, Meeting

LEMMA ProgramExecuted ==
    ASSUME DemoInv, DemoSize, NEW op, NEW x, Runs(op, x), op # "create",
           function' = function, child' = child, next_pid' = next_pid, bed' \in [0..3 -> Int]
    PROVE  ProgramInv'
<1> DEFINE p == active_process
<1>1. /\ p \in 0..6 /\ line[p] \in 1..Length(p) /\ line'[p] = line[p] + 1
      /\ \A q \in Proc \ {p} : line'[q] = line[q]
      /\ line' \in [Proc -> Nat \ {0}] /\ p < next_pid
      /\ \A f : ~ Creates(p, line[p], f)
  BY Executed, InProgram, Script
<1>2. /\ 0..6 \subseteq Proc /\ Length(p) \in Nat /\ next_pid \in Nat
      /\ \A q \in 0..6 : line[q] \in Nat \ {0}
  BY <1>1, Programs, DemoProcs, DemoLines
<1>3. /\ p = 0 => line[0] # 2 /\ line[0] # 5
      /\ p = 1 => line[1] # 6 /\ line[1] # 8
      /\ p = 4 => line[4] # 3 /\ line[4] # 5
  <2>1. /\ ~ Creates(p, line[p], "proc1") /\ ~ Creates(p, line[p], "bw_proc1")
        /\ ~ Creates(p, line[p], "proc2") /\ ~ Creates(p, line[p], "proc3")
        /\ ~ Creates(p, line[p], "bw_proc2") /\ ~ Creates(p, line[p], "bw_proc3")
    BY <1>1
  <2> QED BY <2>1 DEF Creates
<1>4. /\ CreatedInOrder(next_pid)'
      /\ Offspring(p, line'[p]) = Offspring(p, line[p])
  <2>1. /\ (line'[0] > 2 <=> line[0] > 2) /\ (line'[0] > 5 <=> line[0] > 5)
        /\ (line'[1] > 6 <=> line[1] > 6) /\ (line'[1] > 8 <=> line[1] > 8)
        /\ (line'[4] > 3 <=> line[4] > 3) /\ (line'[4] > 5 <=> line[4] > 5)
    <3>1. ASSUME NEW q \in {0, 1, 4}, NEW n \in Nat, ~ (p = q /\ line[q] = n)
          PROVE  line'[q] > n <=> line[q] > n
      BY <1>1, <1>2, <3>1
    <3> QED BY <1>3, <3>1
  <2>2. CreatedInOrder(next_pid)'
    BY <2>1, DemoLines DEF CreatedInOrder
  <2>3. Offspring(p, line'[p]) = Offspring(p, line[p])
    BY <2>1 DEF Offspring
  <2> QED BY <2>2, <2>3
<1>5. ASSUME NEW q \in Proc
      PROVE  /\ child[q] = Offspring(q, line'[q])
             /\ q < next_pid => q \in 0..6 /\ function[q] = Main(q) /\ line'[q] <= Length(q) + 1
             /\ q >= next_pid => function[q] = "init" /\ line'[q] = 1
  <2>1. CASE q = p
    BY <1>1, <1>2, <1>4, <2>1, DemoPlaces
  <2>2. CASE q # p
    BY <1>1, <2>2, DemoPlaces
  <2> QED BY <2>1, <2>2
<1>6. 0 < next_pid'
  BY <1>1, <1>2
<1> QED BY <1>1, <1>4, <1>5, <1>6, DemoTypes DEF ProgramInv, ProgramsRun

LEMMA TableExecuted ==
    ASSUME DemoInv, DemoSize, NEW op, NEW x, Runs(op, x), op # "new",
           active_process \notin {4, 5, 6} => bed' = bed,
           \A s \in Sid : signals'[s].used = signals[s].used
    PROVE  TableInv'
<1> DEFINE p == active_process
<1>1. /\ p \in 0..6 /\ line[p] \in 1..Length(p) /\ line'[p] = line[p] + 1
      /\ \A q \in Proc \ {p} : line'[q] = line[q]
      /\ p < next_pid /\ \A i : ~ Allots(p, line[p], i)
  BY Executed, InProgram, Script
<1>2. /\ 0..6 \subseteq Proc /\ next_pid \in Nat /\ \A q \in 0..6 : line[q] \in Nat \ {0}
      /\ CreatedInOrder(next_pid) /\ Sid \subseteq Nat
  BY DemoProcs, DemoLines DEF Sid
<1>3. \A s \in Nat : s < 4 => (s + 1 < line'[1] <=> s + 1 < line[1])
  <2>1. p = 1 => line[1] \notin 1..4
    BY <1>1 DEF Allots
  <2> QED BY <1>1, <1>2, <2>1
<1>4. line'[4] = 1 => line[4] = 1 /\ bed' = bed
  <2>1. p = 4 => line'[4] # 1
    BY <1>1, <1>2
  <2>2. p \in {5, 6} => line[4] # 1
    BY <1>1, <1>2 DEF CreatedInOrder
  <2>3. p # 4 => line'[4] = line[4]
    BY <1>1, <1>2
  <2> QED BY <2>1, <2>2, <2>3
<1> QED BY <1>2, <1>3, <1>4 DEF DemoInv, TableInv

LEMMA StarveExecuted ==
    ASSUME DemoInv, DemoSize, NEW op, NEW x, Runs(op, x), op \notin {"swait", "waitpid"},
           active_process' = active_process, host' = host, at'[active_process] = "user",
           active_process = 4 => bed'[0] = (IF op = "clear" THEN 0 ELSE bed[0]),
           op = "spin" => bed[x] # 0
    PROVE  StarveInv'
<1> DEFINE p == active_process
<1>1. /\ p \in 0..6 /\ line[p] \in 1..Length(p) /\ line'[p] = line[p] + 1
      /\ \A q \in Proc \ {p} : line'[q] = line[q]
      /\ p < next_pid /\ host = "running"
  BY Executed, InProgram
<1>2. /\ 0..6 \subseteq Proc /\ next_pid \in Nat /\ \A q \in 0..6 : line[q] \in Nat \ {0}
      /\ CreatedInOrder(next_pid)
  BY DemoProcs, DemoLines
<1>3. CASE p # 4
  BY <1>1, <1>2, <1>3 DEF DemoInv, StarveInv
<1>4. CASE p = 4
  <2>1. line'[5] = line[5] /\ line'[6] = line[6] /\ line'[4] = line[4] + 1
    BY <1>1, <1>2, <1>4
  <2>2. line[5] = 1 /\ line[6] = 1
    <3>1. CASE line[4] > 1
      BY <3>1 DEF DemoInv, StarveInv
    <3>2. CASE line[4] = 1
      <4>1. ~ (5 < next_pid) /\ ~ (6 < next_pid)
        BY <1>2, <3>2 DEF CreatedInOrder
      <4> QED BY <1>2, <4>1, DemoPlaces
    <3> QED BY <1>2, <3>1, <3>2
  <2>3. op = "clear" <=> line[4] = 1
    <3>1. Text[Main(4)][line[4]] = <<op, x>> /\ line[4] \in 1..Length(4)
      BY <1>4, Executed
    <3>2. Text[Main(4)][line[4]][1] = "clear" <=> Clears(4, line[4])
      BY <3>1, Script
    <3> QED BY <3>1, <3>2 DEF Clears
  <2>4. line[4] > 1 => bed[0] = 0 /\ line[4] <= 7
    BY DEF DemoInv, StarveInv
  <2>5. line[4] # 7
    <3> SUFFICES ASSUME line[4] = 7 PROVE FALSE
      OBVIOUS
    <3>1. Text[Main(4)][7] = <<op, x>>
      BY <1>4, Executed
    <3>2. Text[Main(4)][7] = <<"spin", 0>> <=> Polls(4, 7, 0)
      BY Script, Programs
    <3>3. op = "spin" /\ x = 0
      BY <3>1, <3>2 DEF Polls
    <3> QED BY <1>4, <2>4, <3>3
  <2>6. bed'[0] = 0 /\ line'[4] <= 7
    BY <1>2, <1>4, <2>1, <2>3, <2>4, <2>5
  <2> QED BY <1>1, <1>4, <2>1, <2>2, <2>6 DEF StarveInv
<1> QED BY <1>3, <1>4

-----------------------------------------------------------------------------
(* One lemma for every action of the programs.                             *)
LEMMA RestPrintln ==
    ASSUME DemoInv, DemoSize, println
    PROVE  Rest'
<1>1. /\ Runs("println", 0) /\ UNCHANGED <<vars, function, child, bed>>
      /\ UNCHANGED <<next_pid, mem, active_process, signals, at, arg, host>>
  BY DEF println, vars
<1>2. at'[active_process] = "user" /\ \A c \in 1..6 : Reaped(c)' <=> Reaped(c)
  BY <1>1, Executed DEF Reaped, Ended
<1>3. bed \in [0..3 -> Int]
  BY DemoTypes
<1>4. ProgramInv'
  BY <1>1, <1>3, ProgramExecuted
<1>5. PlacesInv'
  BY <1>1, PlacesExecuted
<1>6. JoinInv'
  BY <1>1, <1>2, JoinExecuted
<1>7. TableInv'
  BY <1>1, TableExecuted
<1>8. MeetInv'
  BY <1>1, <1>2, MeetExecuted
<1>9. StarveInv'
  BY <1>1, <1>2, StarveExecuted
<1> QED BY <1>4, <1>5, <1>6, <1>7, <1>8, <1>9 DEF Rest

LEMMA RestAssign ==
    ASSUME DemoInv, DemoSize, NEW i \in 0..3, Assign(i)
    PROVE  Rest'
<1> DEFINE p == active_process
<1>1. /\ UNCHANGED <<next_pid, mem, active_process, signals, at, arg, host>>
      /\ UNCHANGED <<function, child>> /\ at' = at /\ mem' = mem
  BY DEF Assign, Assigns, vars
<1>2. bed \in [0..3 -> Int]
  BY DemoTypes
<1>3. PICK op \in {"set", "clear", "spin"} :
          /\ Runs(op, i)
          /\ op = "set" => bed' = [bed EXCEPT ![i] = 1]
          /\ op = "clear" => bed' = [j \in 0..3 |-> 0]
          /\ op = "spin" => bed[i] # 0 /\ bed' = bed
  BY DEF Assign, Assigns, Runs
<1>4. at'[p] = "user" /\ \A c \in 1..6 : Reaped(c)' <=> Reaped(c)
  BY <1>1, <1>3, Executed DEF Reaped, Ended
<1>5. bed' \in [0..3 -> Int]
  BY <1>2, <1>3
<1>6. /\ op = "set" <=> Sets(p, line[p], i)
      /\ op = "clear" => Clears(p, line[p])
      /\ op = "spin" <=> Polls(p, line[p], i)
  <2>1. p \in 0..6 /\ line[p] \in 1..Length(p) /\ Text[Main(p)][line[p]] = <<op, i>>
    BY <1>3, Executed, InProgram
  <2> DEFINE t == Text[Main(p)][line[p]]
  <2>2. /\ t = <<"set", i>> <=> Sets(p, line[p], i)
        /\ t[1] = "clear" <=> Clears(p, line[p])
        /\ t = <<"spin", i>> <=> Polls(p, line[p], i)
    BY <2>1, Script
  <2> HIDE DEF t
  <2>3. t = <<op, i>> /\ t[1] = op
    BY <2>1 DEF t
  <2> QED BY <2>2, <2>3
<1>7. p \notin {4, 5, 6} => bed' = bed
  BY <1>3, <1>6 DEF Sets, Clears
<1>8. p = 4 => bed'[0] = (IF op = "clear" THEN 0 ELSE bed[0])
  <2>1. p = 4 /\ op = "set" => i # 0
    BY <1>6 DEF Sets
  <2> QED BY <1>2, <1>3, <2>1
<1>9. ProgramInv'
  BY <1>1, <1>3, <1>5, ProgramExecuted
<1>10. PlacesInv'
  BY <1>1, <1>3, PlacesExecuted
<1>11. JoinInv'
  BY <1>1, <1>3, <1>4, JoinExecuted
<1>12. TableInv'
  BY <1>1, <1>3, <1>7, TableExecuted
<1>13. MeetInv'
  BY <1>1, <1>3, <1>4, MeetExecuted
<1>14. StarveInv'
  BY <1>1, <1>3, <1>4, <1>8, StarveExecuted
<1> QED BY <1>9, <1>10, <1>11, <1>12, <1>13, <1>14 DEF Rest

LEMMA RestNew ==
    ASSUME DemoInv, DemoSize, NEW i \in 0..3, NewSignal(i)
    PROVE  Rest'
<1> DEFINE p == active_process
<1>1. /\ Runs("new", i) /\ mbs_signal_new /\ bed' = [bed EXCEPT ![i] = NewSid]
      /\ UNCHANGED <<next_pid, mem, active_process, at, arg, host>>
      /\ UNCHANGED <<function, child>>
  BY DEF NewSignal, mbs_signal_new, ctxVars
<1>2. /\ p \in 0..6 /\ line[p] \in 1..Length(p) /\ line'[p] = line[p] + 1
      /\ \A q \in Proc \ {p} : line'[q] = line[q]
      /\ p < next_pid /\ Allots(p, line[p], i)
  BY <1>1, Executed, InProgram, Script
<1>3. p = 1 /\ line[1] = i + 1 /\ line'[1] = i + 2
  BY <1>2 DEF Allots
<1>4. /\ 0..6 \subseteq Proc /\ next_pid \in Nat /\ \A q \in 0..6 : line[q] \in Nat \ {0}
      /\ CreatedInOrder(next_pid) /\ Sid \subseteq Nat /\ 0..3 \subseteq Sid
      /\ signals \in SignalTable
  <2>1. Sid \subseteq Nat
    BY KernelAssumption DEF Sid
  <2>2. 0..6 \subseteq Proc /\ next_pid \in Nat /\ 0..3 \subseteq Sid
    BY DemoProcs
  <2>3. CreatedInOrder(next_pid) /\ \A q \in 0..6 : line[q] \in Nat \ {0}
    BY DemoLines
  <2> QED BY <2>1, <2>2, <2>3, DemoTypes
<1>5. line[2] = 1 /\ line[3] = 1 /\ line[4] = 1
  <2>1. next_pid < 3
    BY <1>3, <1>4 DEF CreatedInOrder
  <2> QED BY <1>4, <2>1, DemoPlaces
<1>6. NewSid = i /\ FreeSids # {}
  <2>1. \A s \in Sid : s \in FreeSids <=> s >= 4 \/ s >= i
    BY <1>3, <1>4 DEF FreeSids, DemoInv, TableInv
  <2>2. i \in FreeSids /\ \A s \in FreeSids : i <= s
    BY <1>4, <2>1 DEF FreeSids
  <2>3. FreeSids # {} /\ NewSid \in FreeSids
    BY <2>2, NewSidFree
  <2>4. \A s \in FreeSids : NewSid <= s
    BY <2>2, <2>3 DEF NewSid
  <2>5. FreeSids \subseteq Nat
    BY <1>4 DEF FreeSids
  <2> QED BY <2>2, <2>3, <2>4, <2>5
<1>7. /\ signals' = [signals EXCEPT ![i] = [used |-> TRUE, value |-> 0, waiting |-> NULL]]
      /\ bed' = [bed EXCEPT ![i] = i]
  BY <1>1, <1>6 DEF mbs_signal_new
<1>8. signals[i].value = 0
  <2>1. PICK q, l, g, k : Meets(q, l, i, g, k) /\ g \in 1..3 /\ k \in 1..20 /\ line[g] <= k
    <3>1. Meets(1, 10, 0, 2, 2) /\ Meets(1, 12, 1, 3, 2) /\ Meets(3, 4, 2, 1, 14) /\ Meets(2, 4, 3, 1, 16)
      BY DEF Meets
    <3> QED BY <1>3, <1>5, <3>1
  <2>2. ~ (line[g] > k)
    BY <1>4, <2>1
  <2> QED BY <1>4, <2>1, <2>2, Meeting DEF SignalTable
<1>9. \A j \in 0..3 : signals'[j].value = signals[j].value
  BY <1>4, <1>7, <1>8 DEF SignalTable
<1>10. at'[p] = "user" /\ \A c \in 1..6 : Reaped(c)' <=> Reaped(c)
  BY <1>1, Executed DEF Reaped, Ended
<1>11. bed \in [0..3 -> Int] /\ bed' \in [0..3 -> Int]
  BY <1>7, DemoTypes
<1>12. ProgramInv'
  BY <1>1, <1>11, ProgramExecuted
<1>13. PlacesInv'
  BY <1>1, PlacesExecuted
<1>14. JoinInv'
  BY <1>1, <1>10, JoinExecuted
<1>15. TableInv'
  <2>1. \A s \in Sid : signals'[s].used <=> signals[s].used \/ s = i
    BY <1>4, <1>7 DEF SignalTable
  <2>2. \A s \in Sid : signals'[s].used <=> s < 4 /\ s + 1 < line'[1]
    BY <1>3, <1>4, <2>1 DEF DemoInv, TableInv
  <2>3. \A j \in 0..3 : j + 1 < line'[1] => bed'[j] = j
    BY <1>3, <1>5, <1>7, <1>11 DEF DemoInv, TableInv
  <2> QED BY <2>2, <2>3 DEF TableInv
<1>16. MeetInv'
  BY <1>1, <1>9, <1>10, MeetExecuted
<1>17. StarveInv'
  BY <1>1, <1>3, <1>10, StarveExecuted
<1> QED BY <1>12, <1>13, <1>14, <1>15, <1>16, <1>17 DEF Rest

(* The pids create_process has returned are appended to child.             *)
LEMMA Appends ==
    ASSUME NEW d \in Nat, NEW e \in Nat
    PROVE  Append(<<>>, e) = <<e>> /\ Append(<<d>>, e) = <<d, e>>
<1>1. Append(<<>>, e) = <<e>>
  <2>1. Append(<<>>, e) \in Seq(Nat) /\ <<e>> \in Seq(Nat)
    OBVIOUS
  <2>2. Len(Append(<<>>, e)) = 1 /\ Append(<<>>, e)[1] = e
    OBVIOUS
  <2>3. Len(<<e>>) = 1 /\ <<e>>[1] = e
    OBVIOUS
  <2> QED BY <2>1, <2>2, <2>3, SeqEqual
<1>2. Append(<<d>>, e) = <<d, e>>
  <2>1. Append(<<d>>, e) \in Seq(Nat) /\ <<d, e>> \in Seq(Nat)
    OBVIOUS
  <2>2. Len(Append(<<d>>, e)) = 2 /\ Append(<<d>>, e)[1] = d /\ Append(<<d>>, e)[2] = e
    OBVIOUS
  <2>3. Len(<<d, e>>) = 2 /\ <<d, e>>[1] = d /\ <<d, e>>[2] = e
    OBVIOUS
  <2>4. \A i \in 1..2 : Append(<<d>>, e)[i] = <<d, e>>[i]
    BY <2>2, <2>3
  <2> QED BY <2>1, <2>2, <2>3, <2>4, SeqEqual
<1> QED BY <1>1, <1>2

LEMMA RestCreate ==
    ASSUME DemoInv, DemoSize, NEW f \in DOMAIN Text, Create(f)
    PROVE  Rest'
<1> DEFINE p == active_process
           n == next_pid
<1>1. /\ Runs("create", f) /\ create_process /\ Created(p, n, f)
      /\ UNCHANGED <<active_process, arg, signals, host, bed>> /\ n' = n + 1
      /\ at' = [at EXCEPT ![n] = "user"] /\ mem' = queue_append(mem, "run", n)
      /\ function' = [function EXCEPT ![n] = f]
      /\ child' = [child EXCEPT ![p] = Append(@, n)] /\ n < MaxProcs
  BY DEF Create, create_process, Created, Allocate
<1>2. /\ p \in 0..6 /\ line[p] \in 1..Length(p) /\ line'[p] = line[p] + 1
      /\ \A q \in Proc \ {p} : line'[q] = line[q]
      /\ p < n /\ Creates(p, line[p], f) /\ line' \in [Proc -> Nat \ {0}]
      /\ at[p] = "user"
  BY <1>1, Executed, InProgram, Script
<1>3. /\ 0..6 \subseteq Proc /\ n \in Nat /\ \A q \in 0..6 : line[q] \in Nat \ {0}
      /\ CreatedInOrder(n) /\ KernelInv /\ n \in 0..7
  BY DemoProcs, DemoLines
<1>4. n \in Proc /\ n # p
  BY <1>1, <1>2, <1>3, KernelAssumption
<1>5. at[n] = "none" /\ line[n] = 1 /\ child[n] = Offspring(n, 1) /\ function[n] = "init"
  BY <1>3, <1>4, KernelFacts, DemoPlaces DEF DemoInv, PromiseInv, PlaceInv
<1>6. <<p, line[p], f, n>> \in {<<0, 2, "proc1", 1>>, <<0, 5, "bw_proc1", 4>>, <<1, 6, "proc2", 2>>,
                                <<1, 8, "proc3", 3>>, <<4, 3, "bw_proc2", 5>>, <<4, 5, "bw_proc3", 6>>}
  <2>1. <<p, line[p], f>> \in {<<0, 2, "proc1">>, <<0, 5, "bw_proc1">>, <<1, 6, "proc2">>,
                               <<1, 8, "proc3">>, <<4, 3, "bw_proc2">>, <<4, 5, "bw_proc3">>}
    BY <1>2 DEF Creates
  <2>2. p = 0 /\ line[0] = 5 => line[1] > 19
    <3> SUFFICES ASSUME p = 0, line[0] = 5 PROVE line[1] > 19
      OBVIOUS
    <3>1. Joins(0, 3, 1) /\ Back(0, 3, "waitpid")
      BY DEF Joins, Back
    <3>2. at[1] = "exit"
      BY <3>1, Joining DEF Reaped, Ended
    <3> QED BY <1>3, <3>2, Programs DEF DemoInv, PlacesInv
  <2>3. /\ p = 0 /\ line[0] = 2 => n = 1
        /\ p = 0 /\ line[0] = 5 => n = 4
        /\ p = 1 /\ line[1] = 6 => n = 2
        /\ p = 1 /\ line[1] = 8 => n = 3
        /\ p = 4 /\ line[4] = 3 => n = 5
        /\ p = 4 /\ line[4] = 5 => n = 6
    BY <1>2, <1>3, <2>2 DEF CreatedInOrder
  <2> QED BY <2>1, <2>3
<1>7. f = Main(n) /\ n \in 1..6
  BY <1>6, Programs
<1>8. CreatedInOrder(n)'
  <2>1. /\ (line'[0] > 2 <=> line[0] > 2 \/ n = 1) /\ (line'[0] > 5 <=> line[0] > 5 \/ n = 4)
        /\ (line'[1] > 6 <=> line[1] > 6 \/ n = 2) /\ (line'[1] > 8 <=> line[1] > 8 \/ n = 3)
        /\ (line'[4] > 3 <=> line[4] > 3 \/ n = 5) /\ (line'[4] > 5 <=> line[4] > 5 \/ n = 6)
    BY <1>2, <1>3, <1>6
  <2> QED BY <1>1, <1>3, <1>7, <2>1 DEF CreatedInOrder
<1>9. Offspring(p, line'[p]) = Append(child[p], n)
  <2>1. child[p] = Offspring(p, line[p])
    BY <1>2, <1>3, DemoPlaces
  <2>2. Offspring(p, line[p] + 1) = Append(Offspring(p, line[p]), n)
    <3>1. /\ Offspring(0, 2) = <<>> /\ Offspring(0, 3) = <<1>>
          /\ Offspring(0, 5) = <<1>> /\ Offspring(0, 6) = <<1, 4>>
          /\ Offspring(1, 6) = <<>> /\ Offspring(1, 7) = <<2>>
          /\ Offspring(1, 8) = <<2>> /\ Offspring(1, 9) = <<2, 3>>
          /\ Offspring(4, 3) = <<>> /\ Offspring(4, 4) = <<5>>
          /\ Offspring(4, 5) = <<5>> /\ Offspring(4, 6) = <<5, 6>>
      BY DEF Offspring
    <3>2. /\ Append(<<>>, 1) = <<1>> /\ Append(<<1>>, 4) = <<1, 4>>
          /\ Append(<<>>, 2) = <<2>> /\ Append(<<2>>, 3) = <<2, 3>>
          /\ Append(<<>>, 5) = <<5>> /\ Append(<<5>>, 6) = <<5, 6>>
      <4>1. \A d, e \in {1, 2, 3, 4, 5, 6} : Append(<<>>, e) = <<e>> /\ Append(<<d>>, e) = <<d, e>>
        BY Appends
      <4> QED BY <4>1, Zenon
    <3>3. CASE p = 0 /\ line[p] = 2 /\ n = 1
      <4>1. Offspring(p, line[p]) = <<>> /\ Offspring(p, line[p] + 1) = <<1>>
        BY <3>1, <3>3
      <4> QED BY <3>2, <3>3, <4>1, Zenon
    <3>4. CASE p = 0 /\ line[p] = 5 /\ n = 4
      <4>1. Offspring(p, line[p]) = <<1>> /\ Offspring(p, line[p] + 1) = <<1, 4>>
        BY <3>1, <3>4
      <4> QED BY <3>2, <3>4, <4>1, Zenon
    <3>5. CASE p = 1 /\ line[p] = 6 /\ n = 2
      <4>1. Offspring(p, line[p]) = <<>> /\ Offspring(p, line[p] + 1) = <<2>>
        BY <3>1, <3>5
      <4> QED BY <3>2, <3>5, <4>1, Zenon
    <3>6. CASE p = 1 /\ line[p] = 8 /\ n = 3
      <4>1. Offspring(p, line[p]) = <<2>> /\ Offspring(p, line[p] + 1) = <<2, 3>>
        BY <3>1, <3>6
      <4> QED BY <3>2, <3>6, <4>1, Zenon
    <3>7. CASE p = 4 /\ line[p] = 3 /\ n = 5
      <4>1. Offspring(p, line[p]) = <<>> /\ Offspring(p, line[p] + 1) = <<5>>
        BY <3>1, <3>7
      <4> QED BY <3>2, <3>7, <4>1, Zenon
    <3>8. CASE p = 4 /\ line[p] = 5 /\ n = 6
      <4>1. Offspring(p, line[p]) = <<5>> /\ Offspring(p, line[p] + 1) = <<5, 6>>
        BY <3>1, <3>8
      <4> QED BY <3>2, <3>8, <4>1, Zenon
    <3> QED BY <1>6, <3>3, <3>4, <3>5, <3>6, <3>7, <3>8
  <2> QED BY <1>2, <2>1, <2>2
<1>10. ProgramInv'
  <2>1. ASSUME NEW q \in Proc
        PROVE  /\ child'[q] = Offspring(q, line'[q])
               /\ q < n + 1 => q \in 0..6 /\ function'[q] = Main(q) /\ line'[q] <= Length(q) + 1
               /\ q >= n + 1 => function'[q] = "init" /\ line'[q] = 1
    <3>1. q \in Nat
      BY DemoProcs
    <3>2. /\ child'[q] = IF q = p THEN Append(child[p], n) ELSE child[q]
          /\ function'[q] = IF q = n THEN f ELSE function[q]
      BY <1>1, <1>2, <1>3, <1>4, DemoTypes
    <3>3. /\ child[q] = Offspring(q, line[q])
          /\ q < n => q \in 0..6 /\ function[q] = Main(q) /\ line[q] <= Length(q) + 1
          /\ q >= n => function[q] = "init" /\ line[q] = 1
      BY DemoPlaces
    <3>4. CASE q = p
      <4>1. Length(p) \in Nat
        BY <1>2, Programs
      <4>2. q < n /\ line'[q] <= Length(q) + 1 /\ q \in 0..6
        BY <1>2, <3>4, <4>1
      <4>3. ~ (q >= n + 1)
        BY <1>3, <3>1, <4>2
      <4> QED BY <1>4, <1>9, <3>2, <3>3, <3>4, <4>2, <4>3
    <3>5. CASE q = n
      <4>1. line'[q] = 1 /\ 1 <= Length(q) + 1
        BY <1>2, <1>4, <1>5, <1>7, <3>5, Programs
      <4>2. child'[q] = Offspring(q, 1) /\ function'[q] = Main(q) /\ q \in 0..6
        BY <1>4, <1>5, <1>7, <3>2, <3>5
      <4>3. ~ (q >= n + 1)
        BY <1>3, <3>5
      <4> QED BY <4>1, <4>2, <4>3
    <3>6. CASE q # p /\ q # n
      <4>1. line'[q] = line[q] /\ (q < n + 1 <=> q < n) /\ (q >= n + 1 => q >= n)
        BY <1>2, <1>3, <3>1, <3>6
      <4> QED BY <3>2, <3>3, <3>6, <4>1
    <3> QED BY <3>4, <3>5, <3>6
  <2>2. function' \in [Proc -> DOMAIN Text] /\ child' \in [Proc -> Seq(Proc)] /\ bed' \in [0..3 -> Int]
    <3>1. p \in Proc /\ n \in Proc
      BY <1>2, <1>3, <1>4
    <3>2. child[p] \in Seq(Proc) /\ Append(child[p], n) \in Seq(Proc)
      BY <3>1, DemoTypes
    <3> QED BY <1>1, <3>1, <3>2, DemoTypes
  <2>3. n' = n + 1 /\ n' # 0
    BY <1>1, <1>3
  <2> QED BY <1>2, <1>8, <2>1, <2>2, <2>3 DEF ProgramInv, ProgramsRun
<1>11. at \in [Proc -> {"none", "user", "waitpid", "swait", "exit"}]
  BY DemoTypes
<1>12. \A q \in Proc : at'[q] = at[q] \/ (at'[q] = "user" /\ line[q] = 1 /\ q # p)
  BY <1>1, <1>4, <1>5, <1>11
<1>13. at'[p] = "user" /\ \A c \in 1..6 : Reaped(c)' <=> Reaped(c)
  <2>1. Members(mem', "zombie") = Members(mem, "zombie")
    BY <1>1, <1>3, <1>4, KernelFacts, AppendAdds, ActiveInNoQueue DEF Queue
  <2> QED BY <1>1, <1>2, <1>4, <1>5, <1>11, <2>1 DEF Reaped, Ended
<1>14. PlacesInv'
  BY <1>1, <1>12, PlacesExecuted
<1>15. JoinInv'
  BY <1>1, <1>3, <1>12, <1>13, JoinExecuted
<1>16. TableInv'
  BY <1>1, TableExecuted
<1>17. MeetInv'
  BY <1>1, <1>3, <1>12, <1>13, MeetExecuted
<1>18. StarveInv'
  BY <1>1, <1>13, StarveExecuted
<1> QED BY <1>10, <1>14, <1>15, <1>16, <1>17, <1>18 DEF Rest

-----------------------------------------------------------------------------
(* What a step inside a call of the active process finds: only bw_proc1    *)
(* itself is past its first line while it runs.                            *)
LEMMA OthersRun ==
    ASSUME DemoInv, DemoSize, host = "running",
           active_process # 4 \/ at[4] # "user" \/ line[4] > 7
    PROVE  line[4] = 1
<1>1. line[4] \in Nat \ {0}
  BY DemoLines
<1> QED BY <1>1 DEF DemoInv, StarveInv

(* Each variable and each child has its place in the tables.               *)
LEMMA OnePlace ==
    /\ \A p, l, i, q, m, g, k : Raises(p, l, i) /\ Meets(q, m, i, g, k) => g = p /\ k = l
    /\ \A p, l, i, q, m, g, k : Swaits(p, l, i) /\ Meets(q, m, i, g, k) => q = p /\ m = l
    /\ \A p, l, i, j : Raises(p, l, i) /\ Raises(p, l, j) => i = j
    /\ \A p, l, i, j : Swaits(p, l, i) /\ Swaits(p, l, j) => i = j
    /\ \A p, l, i, j : ~ (Swaits(p, l, i) /\ Raises(p, l, j))
    /\ \A p, l, c, d : Joins(p, l, c) /\ Joins(p, l, d) => c = d
    /\ \A p, l, q, m, c : Joins(p, l, c) /\ Joins(q, m, c) => p = q /\ l = m
BY DEF Raises, Swaits, Meets, Joins

(* The processes are where they should be when the active one blocks.      *)
LEMMA PlacesBlocked ==
    ASSUME DemoInv, DemoSize, NEW op \in {"waitpid", "swait"}, NEW x, NEW y, Runs(op, x),
           at' = [at EXCEPT ![active_process] = op], arg' = [arg EXCEPT ![active_process] = y],
           IF op = "waitpid" THEN Joins(active_process, line[active_process], y)
                             ELSE Swaits(active_process, line[active_process], y)
    PROVE  PlacesInv'
<1> DEFINE p == active_process
<1>1. /\ at[p] = "user" /\ line'[p] = line[p] + 1 /\ p \in Proc /\ line[p] \in Nat
      /\ \A r \in Proc \ {p} : line'[r] = line[r]
  BY Executed, InProgram, DemoLines
<1>2. /\ at'[p] = op /\ arg'[p] = y /\ line'[p] - 1 = line[p]
      /\ \A r \in Proc \ {p} : at'[r] = at[r] /\ arg'[r] = arg[r] /\ line'[r] = line[r]
  BY <1>1, DemoTypes
<1>3. ASSUME NEW q \in Proc
      PROVE  /\ at'[q] = "exit" => q \in 0..6 /\ line'[q] > Length(q)
             /\ at'[q] = "none" => line'[q] = 1
             /\ at'[q] = "user" => q # p /\ line'[q] = 1
             /\ at'[q] = "waitpid" => Joins(q, line'[q] - 1, arg'[q])
             /\ at'[q] = "swait" => Swaits(q, line'[q] - 1, arg'[q])
  <2>1. CASE q = p
    BY <1>2, <2>1
  <2>2. CASE q # p
    BY <1>2, <2>2 DEF DemoInv, PlacesInv
  <2> QED BY <2>1, <2>2
<1> QED BY <1>3 DEF PlacesInv

(* And when a call of it returns without blocking.                         *)
LEMMA PlacesReturned ==
    ASSUME DemoInv, DemoSize, NEW op, NEW x, Runs(op, x), NEW y,
           at' = at, arg' = [arg EXCEPT ![active_process] = y],
           active_process' = active_process
    PROVE  PlacesInv'
<1> DEFINE p == active_process
<1>1. /\ at[p] = "user" /\ line'[p] = line[p] + 1 /\ p \in Proc /\ line[p] \in Nat
      /\ \A r \in Proc \ {p} : line'[r] = line[r]
  BY Executed, InProgram, DemoLines
<1>2. /\ at'[p] = "user" /\ arg'[p] = y
      /\ \A r \in Proc \ {p} : at'[r] = at[r] /\ arg'[r] = arg[r] /\ line'[r] = line[r]
  BY <1>1, DemoTypes
<1> QED BY <1>2 DEF DemoInv, PlacesInv

(* A meeting other than that of variable i is not touched by a signal of i *)
(* or a wait for i.                                                        *)
LEMMA MeetOther ==
    ASSUME DemoInv, DemoSize, NEW op \in {"swait", "signal"}, NEW i, Runs(op, i),
           at'[active_process] \in {"user", op},
           \A q \in 0..6 \ {active_process} : at'[q] = at[q],
           NEW p, NEW l, NEW j, NEW g, NEW k, Meets(p, l, j, g, k), j # i,
           signals'[j].value = signals[j].value
    PROVE  /\ signals'[j].value = 1 <=> line'[g] > k /\ ~ Back(p, l, "swait")'
           /\ Back(p, l, "swait")' => line'[g] > k
<1>1. /\ p \in 1..3 /\ g \in 1..3 /\ l \in 1..20 /\ k \in 1..20
      /\ Swaits(p, l, j) /\ Raises(g, k, j)
  BY Tables
<1>2. Swaits(active_process, line[active_process], i) \/ Raises(active_process, line[active_process], i)
  BY Executed, InProgram, Script
<1>3. ~ (p = active_process /\ l = line[p]) /\ ~ (g = active_process /\ k = line[g])
  BY <1>1, <1>2, OnePlace
<1>4. Back(p, l, "swait")' <=> Back(p, l, "swait")
  BY <1>1, <1>3, BackExecuted
<1>5. line[g] \in Nat /\ (line'[g] = line[g] \/ (g = active_process /\ line'[g] = line[g] + 1))
  BY <1>1, Executed, DemoLines
<1>6. line'[g] > k <=> line[g] > k
  BY <1>1, <1>3, <1>5
<1> QED BY <1>4, <1>6, Meeting

LEMMA RestSignal ==
    ASSUME DemoInv, DemoSize, NEW i \in 0..3, Runs("signal", i), mbs_signal(bed[i]),
           UNCHANGED <<function, child, bed>>
    PROVE  Rest'
<1> DEFINE p == active_process
<1>1. /\ p \in 0..6 /\ line[p] \in 1..Length(p) /\ line'[p] = line[p] + 1
      /\ \A q \in Proc \ {p} : line'[q] = line[q]
      /\ Raises(p, line[p], i) /\ host = "running" /\ at[p] = "user"
  BY Executed, InProgram, Script
<1>2. p \in 1..3 /\ i \in Sid /\ bed[i] = i /\ signals[i].used
  BY <1>1, BedHolds
<1>3. MaySignal(i)
  BY <1>1, <1>2, SignalIsFirst
<1>4. /\ UNCHANGED <<next_pid, active_process, at, arg, host>>
      /\ signals' = [signals EXCEPT ![i].value = 1]
      /\ Members(mem', "zombie") = Members(mem, "zombie")
  <2>1. KernelInv /\ mbs_signal(i)
    BY <1>2, DemoProcs
  <2>2. signals' = [signals EXCEPT ![i].value = 1]
    BY <1>2, <2>1 DEF mbs_signal, ValidSid
  <2> QED BY <1>2, <1>3, <2>1, <2>2, SignalEffect
<1>5. \A s \in Sid : /\ signals'[s].used = signals[s].used
                     /\ signals'[s].value = IF s = i THEN 1 ELSE signals[s].value
  BY <1>2, <1>4, DemoTypes DEF SignalTable
<1>6. 0..3 \subseteq Sid /\ bed \in [0..3 -> Int] /\ \A q \in 0..6 : line[q] \in Nat
  BY DemoProcs, DemoTypes, DemoLines
<1>7. at'[p] = "user" /\ \A c \in 1..6 : Reaped(c)' <=> Reaped(c)
  BY <1>1, <1>4 DEF Reaped, Ended
<1>8. ProgramInv'
  BY <1>4, <1>6, ProgramExecuted
<1>9. PlacesInv'
  BY <1>4, PlacesExecuted
<1>10. JoinInv'
  BY <1>4, <1>7, JoinExecuted
<1>11. TableInv'
  BY <1>5, TableExecuted
<1>12. MeetInv'
  <2> SUFFICES ASSUME NEW q \in 1..3, NEW g \in 1..3, NEW l \in 1..20, NEW k \in 1..20,
                      NEW j \in 0..3, Meets(q, l, j, g, k)
               PROVE  /\ signals'[j].value = 1 <=> line'[g] > k /\ ~ Back(q, l, "swait")'
                      /\ Back(q, l, "swait")' => line'[g] > k
    BY DEF MeetInv
  <2>1. CASE j # i
    BY <1>4, <1>5, <1>6, <1>7, <2>1, MeetOther
  <2>2. CASE j = i
    <3>1. g = p /\ k = line[p] /\ q # p
      BY <1>1, <2>2, OnePlace, Tables
    <3>2. line'[g] > k /\ ~ (line[g] > k)
      BY <1>1, <3>1
    <3>3. ~ Back(q, l, "swait")
      BY <3>2, Meeting
    <3>4. ~ Back(q, l, "swait")'
      BY <1>4, <1>7, <3>1, <3>3, BackExecuted
    <3> QED BY <1>5, <1>6, <2>2, <3>2, <3>4
  <2> QED BY <2>1, <2>2
<1>13. StarveInv'
  BY <1>2, <1>4, <1>7, StarveExecuted
<1> QED BY <1>8, <1>9, <1>10, <1>11, <1>12, <1>13 DEF Rest

LEMMA RestSwait ==
    ASSUME DemoInv, DemoSize, NEW i \in 0..3, Runs("swait", i), mbs_swait(bed[i]),
           UNCHANGED <<function, child, bed>>
    PROVE  Rest'
<1> DEFINE p == active_process
<1>1. /\ p \in 0..6 /\ line[p] \in 1..Length(p) /\ line'[p] = line[p] + 1
      /\ \A q \in Proc \ {p} : line'[q] = line[q]
      /\ Swaits(p, line[p], i) /\ host = "running" /\ at[p] = "user"
  BY Executed, InProgram, Script
<1>2. p \in 1..3 /\ i \in Sid /\ bed[i] = i /\ signals[i].used
  BY <1>1, BedHolds
<1>3. /\ 0..3 \subseteq Sid /\ bed \in [0..3 -> Int] /\ \A q \in 0..6 : line[q] \in Nat \ {0}
      /\ 0..6 \subseteq Proc /\ KernelInv /\ signals \in SignalTable
      /\ at \in [Proc -> {"none", "user", "waitpid", "swait", "exit"}]
  BY DemoProcs, DemoTypes, DemoLines
<1>4. signals[i].waiting = NULL
  <2> SUFFICES ASSUME NEW w, signals[i].waiting = w, w # NULL PROVE FALSE
    OBVIOUS
  <2>1. w \in 1..3 /\ at[w] = "swait" /\ Swaits(w, line[w] - 1, i)
    BY RegisteredWaits
  <2>2. w = p
    BY <1>1, <2>1 DEF Swaits
  <2> QED BY <1>1, <2>1, <2>2
<1>5. next_pid' = next_pid /\ ValidSid(i) /\ mbs_swait(i)
  BY <1>2 DEF mbs_swait, ValidSid
<1>6. ProgramInv'
  BY <1>3, <1>5, ProgramExecuted
<1>7. line[4] = 1 /\ line'[4] = 1
  BY <1>1, <1>2, <1>3, OthersRun
<1>8. StarveInv'
  BY <1>7 DEF StarveInv
<1>9. CASE signals[i].value = 1
  <2>1. /\ UNCHANGED <<active_process, mem, at, arg, host>>
        /\ signals' = [signals EXCEPT ![i].value = 0, ![i].waiting = NULL]
    BY <1>4, <1>5, <1>9 DEF mbs_swait, ctxVars
  <2>2. \A s \in Sid : /\ signals'[s].used = signals[s].used
                       /\ signals'[s].value = IF s = i THEN 0 ELSE signals[s].value
    BY <1>2, <1>3, <2>1 DEF SignalTable
  <2>3. at'[p] = "user" /\ \A c \in 1..6 : Reaped(c)' <=> Reaped(c)
    BY <1>1, <2>1 DEF Reaped, Ended
  <2>4. PlacesInv'
    BY <2>1, PlacesExecuted
  <2>5. JoinInv'
    BY <2>1, <2>3, JoinExecuted
  <2>6. TableInv'
    BY <2>2, TableExecuted
  <2>7. MeetInv'
    <3> SUFFICES ASSUME NEW q \in 1..3, NEW g \in 1..3, NEW l \in 1..20, NEW k \in 1..20,
                        NEW j \in 0..3, Meets(q, l, j, g, k)
                 PROVE  /\ signals'[j].value = 1 <=> line'[g] > k /\ ~ Back(q, l, "swait")'
                        /\ Back(q, l, "swait")' => line'[g] > k
      BY DEF MeetInv
    <3>1. CASE j # i
      <4>1. signals'[j].value = signals[j].value
        BY <1>3, <2>2, <3>1
      <4>2. at'[p] = "user" /\ \A r \in 0..6 \ {p} : at'[r] = at[r]
        BY <2>1, <2>3
      <4> QED BY <3>1, <4>1, <4>2, MeetOther
    <3>2. CASE j = i
      <4>1. q = p /\ l = line[p] /\ g # p
        BY <1>1, <3>2, OnePlace, Tables
      <4>2. line[g] > k /\ line'[g] = line[g]
        BY <1>1, <1>3, <1>9, <3>2, <4>1, Meeting
      <4>3. Back(q, l, "swait")'
        BY <2>1, <2>3, <4>1, BackExecuted
      <4> QED BY <1>3, <2>2, <3>2, <4>2, <4>3
    <3> QED BY <3>1, <3>2
  <2> QED BY <1>6, <1>8, <2>4, <2>5, <2>6, <2>7 DEF Rest
<1>10. CASE signals[i].value = 0
  <2>1. /\ at' = [at EXCEPT ![p] = "swait"] /\ arg' = [arg EXCEPT ![p] = i]
        /\ schedule(mem, "BLOCKED")
        /\ signals' = [signals EXCEPT ![i].waiting = p]
    BY <1>4, <1>5, <1>10 DEF mbs_swait, Block
  <2>2. \A s \in Sid : signals'[s].used = signals[s].used /\ signals'[s].value = signals[s].value
    BY <1>2, <1>3, <2>1 DEF SignalTable
  <2>3. Members(mem', "zombie") = Members(mem, "zombie")
    BY <1>1, <1>3, <2>1, KernelFacts, ScheduleZombies DEF States
  <2>4. at'[p] = "swait" /\ \A q \in Proc \ {p} : at'[q] = at[q]
    BY <1>1, <1>3, <2>1
  <2>5. \A c \in 1..6 : Reaped(c)' <=> Reaped(c)
    BY <1>1, <1>3, <2>3, <2>4 DEF Reaped, Ended
  <2>6. PlacesInv'
    BY <1>1, <2>1, PlacesBlocked
  <2>7. JoinInv'
    BY <1>3, <2>4, <2>5, JoinExecuted
  <2>8. TableInv'
    BY <2>2, TableExecuted
  <2>9. MeetInv'
    <3> SUFFICES ASSUME NEW q \in 1..3, NEW g \in 1..3, NEW l \in 1..20, NEW k \in 1..20,
                        NEW j \in 0..3, Meets(q, l, j, g, k)
                 PROVE  /\ signals'[j].value = 1 <=> line'[g] > k /\ ~ Back(q, l, "swait")'
                        /\ Back(q, l, "swait")' => line'[g] > k
      BY DEF MeetInv
    <3>1. Back(q, l, "swait")' <=> Back(q, l, "swait")
      BY <1>3, <2>4, BackExecuted
    <3>2. ~ (g = p /\ k = line[g])
      BY <1>1, OnePlace, Tables
    <3>3. line'[g] > k <=> line[g] > k
      BY <1>1, <1>3, <3>2
    <3> QED BY <1>3, <2>2, <3>1, <3>3, Meeting
  <2> QED BY <1>6, <1>8, <2>6, <2>7, <2>8, <2>9 DEF Rest
<1> QED BY <1>2, <1>3, <1>9, <1>10 DEF SignalTable

LEMMA RestWaitForChild ==
    ASSUME DemoInv, DemoSize, NEW n \in 1..2, WaitForChild(n)
    PROVE  Rest'
<1> DEFINE p == active_process
<1> SUFFICES ASSUME NEW c, c = child[p][n]
             PROVE  Rest'
  OBVIOUS
<1>1. /\ p \in 0..6 /\ line[p] \in 1..Length(p) /\ line'[p] = line[p] + 1
      /\ \A q \in Proc \ {p} : line'[q] = line[q]
      /\ Awaits(p, line[p], n) /\ host = "running" /\ at[p] = "user"
      /\ Runs("waitpid", n) /\ waitpid(c) /\ UNCHANGED <<function, child, bed>>
  BY Executed, InProgram, Script DEF WaitForChild
<1>2. Joins(p, line[p], c) /\ c \in Proc /\ ~ Reaped(c)
  BY <1>1, WaitIsFirst DEF MayWaitpid
<1>3. /\ 0..3 \subseteq Sid /\ bed \in [0..3 -> Int] /\ \A q \in 0..6 : line[q] \in Nat \ {0}
      /\ 0..6 \subseteq Proc /\ KernelInv
      /\ at \in [Proc -> {"none", "user", "waitpid", "swait", "exit"}]
  BY DemoProcs, DemoTypes, DemoLines
<1>4. p \in {0, 1, 4} /\ line[p] \in 1..20 /\ c \in 1..6 /\ (p = 4 => line[4] > 7)
  BY <1>2 DEF Joins
<1>5. next_pid' = next_pid /\ signals' = signals /\ WaitpidLoop(c)
  BY <1>1 DEF waitpid, WaitpidLoop
<1>6. ProgramInv'
  BY <1>1, <1>3, <1>5, ProgramExecuted
<1>7. line[4] = 1
  BY <1>1, <1>4, OthersRun
<1>8. TableInv'
  BY <1>1, <1>5, TableExecuted
<1>9. p # 4 /\ line'[4] = 1
  BY <1>1, <1>3, <1>4, <1>7
<1>10. StarveInv'
  BY <1>9 DEF StarveInv
<1>11. CASE c \in Members(mem, "zombie")
  <2>1. /\ mem' = queue_dequeue(mem, "zombie", c) /\ at' = [at EXCEPT ![p] = "user"]
        /\ arg' = [arg EXCEPT ![p] = NoPid] /\ active_process' = active_process
    BY <1>5, <1>11 DEF WaitpidLoop, ReturnToUser
  <2>2. Members(mem', "zombie") = Members(mem, "zombie") \ {c}
    BY <1>3, <1>11, <2>1, KernelFacts, DequeueRemoves DEF Queue
  <2>3. at' = at /\ at'[p] = "user" /\ Ended(c)
    <3>1. at' = at
      BY <1>1, <1>3, <2>1
    <3>2. state[c] = "ZOMBIE"
      BY <1>2, <1>3, <1>11, KernelFacts
    <3> QED BY <1>1, <1>2, <3>1, <3>2 DEF Ended, DemoInv, PromiseInv, PlaceInv
  <2>4. Reaped(c)' /\ \A d \in 1..6 \ {c} : Reaped(d)' <=> Reaped(d)
    <3>1. Reaped(c)'
      BY <2>2, <2>3 DEF Reaped, Ended
    <3>2. ASSUME NEW d \in 1..6 \ {c} PROVE Reaped(d)' <=> Reaped(d)
      BY <2>2, <2>3 DEF Reaped, Ended
    <3> QED BY <3>1, <3>2
  <2>5. PlacesInv'
    BY <1>1, <1>3, <2>1, <2>3, PlacesReturned
  <2>6. JoinInv'
    <3> SUFFICES ASSUME NEW q \in {0, 1, 4}, NEW l \in 1..20, NEW d \in 1..6, Joins(q, l, d)
                 PROVE  Reaped(d)' <=> Back(q, l, "waitpid")'
      BY DEF JoinInv
    <3>1. CASE d = c
      <4>1. q = p /\ l = line[p]
        BY <1>2, <3>1, OnePlace
      <4>2. Back(q, l, "waitpid")'
        BY <1>1, <2>3, <4>1, BackExecuted
      <4> QED BY <2>4, <3>1, <4>2
    <3>2. CASE d # c
      <4>1. ~ (q = p /\ l = line[q])
        BY <1>2, <3>2, OnePlace
      <4>2. Back(q, l, "waitpid")' <=> Back(q, l, "waitpid")
        BY <1>1, <2>3, <4>1, BackExecuted
      <4> QED BY <2>4, <3>2, <4>2, Joining
    <3> QED BY <3>1, <3>2
  <2>7. MeetInv'
    BY <1>1, <1>5, <2>3, MeetExecuted
  <2> QED BY <1>6, <1>8, <1>10, <2>5, <2>6, <2>7 DEF Rest
<1>12. CASE c \notin Members(mem, "zombie")
  <2>1. /\ at' = [at EXCEPT ![p] = "waitpid"] /\ arg' = [arg EXCEPT ![p] = c]
        /\ schedule(mem, "BLOCKED")
    BY <1>5, <1>12 DEF WaitpidLoop, Block
  <2>2. Members(mem', "zombie") = Members(mem, "zombie")
    BY <1>1, <1>3, <2>1, KernelFacts, ScheduleZombies DEF States
  <2>3. at'[p] = "waitpid" /\ \A q \in Proc \ {p} : at'[q] = at[q]
    BY <1>1, <1>3, <2>1
  <2>4. \A d \in 1..6 : Reaped(d)' <=> Reaped(d)
    BY <1>1, <1>3, <2>2, <2>3 DEF Reaped, Ended
  <2>5. PlacesInv'
    BY <1>1, <1>2, <2>1, PlacesBlocked
  <2>6. JoinInv'
    <3> SUFFICES ASSUME NEW q \in {0, 1, 4}, NEW l \in 1..20, NEW d \in 1..6, Joins(q, l, d)
                 PROVE  Reaped(d)' <=> Back(q, l, "waitpid")'
      BY DEF JoinInv
    <3>1. Back(q, l, "waitpid")' <=> Back(q, l, "waitpid")
      BY <1>1, <1>3, <2>3, BackExecuted
    <3> QED BY <2>4, <3>1, Joining
  <2>7. MeetInv'
    BY <1>1, <1>3, <1>5, <2>3, MeetExecuted
  <2> QED BY <1>6, <1>8, <1>10, <2>5, <2>6, <2>7 DEF Rest
<1> QED BY <1>11, <1>12

-----------------------------------------------------------------------------
(* A step inside a call executes no instruction: a process gets further    *)
(* only by leaving its call.                                               *)
LEMMA BackReturned ==
    ASSUME line' = line, NEW q, line[q] \in Nat, NEW l \in 1..20, NEW call \in {"waitpid", "swait"}
    PROVE  /\ Back(q, l, call) /\ at'[q] # call => Back(q, l, call)'
           /\ Back(q, l, call)' => Back(q, l, call) \/ (line[q] = l + 1 /\ at[q] = call /\ at'[q] # call)
           /\ at'[q] = at[q] => (Back(q, l, call)' <=> Back(q, l, call))
BY DEF Back

LEMMA UnlessExecuted ==
    ASSUME DemoInv, UNCHANGED programVars, next_pid' = next_pid, host = "running"
    PROVE  ProgramInv'
<1>1. next_pid # 0
  BY DEF DemoInv, ProgramInv
<1>2. UNCHANGED <<function, line, child, bed>>
  BY DEF programVars
<1>3. CreatedInOrder(next_pid)'
  BY <1>2 DEF DemoInv, ProgramInv, ProgramsRun, CreatedInOrder
<1> QED BY <1>1, <1>2, <1>3 DEF DemoInv, ProgramInv, ProgramsRun

LEMMA RestWaitpidResume ==
    ASSUME DemoInv, DemoSize, waitpid_Resume, UNCHANGED programVars
    PROVE  Rest'
<1> DEFINE p == active_process
<1> SUFFICES ASSUME NEW c, c = arg[p]
             PROVE  Rest'
  OBVIOUS
<1>1. host = "running" /\ at[p] = "waitpid" /\ WaitpidLoop(c)
  BY DEF waitpid_Resume, ResumedIn
<1>2. /\ p \in 0..6 /\ p \in Proc /\ state[p] = "RUNNABLE" /\ KernelInv /\ 0..6 \subseteq Proc
      /\ at \in [Proc -> {"none", "user", "waitpid", "swait", "exit"}]
      /\ line \in [Proc -> Nat \ {0}]
      /\ arg \in [Proc -> Proc \cup Sid \cup {NoPid}]
  BY <1>1, InProgram, DemoProcs, DemoTypes, KernelFacts
<1>3. c \in Proc /\ Ended(c) /\ ~ Reaped(c) /\ Joins(p, line[p] - 1, c)
  BY <1>1, <1>2 DEF DemoInv, PromiseInv, ReadyInv, WaitpidInv, PlacesInv
<1>4. c \in Members(mem, "zombie")
  BY <1>3 DEF Reaped
<1>5. /\ mem' = queue_dequeue(mem, "zombie", c) /\ at' = [at EXCEPT ![p] = "user"]
      /\ arg' = [arg EXCEPT ![p] = NoPid] /\ active_process' = active_process
      /\ next_pid' = next_pid /\ signals' = signals
  BY <1>1, <1>4 DEF WaitpidLoop, ReturnToUser
<1>6. Members(mem', "zombie") = Members(mem, "zombie") \ {c}
  BY <1>2, <1>4, <1>5, KernelFacts, DequeueRemoves DEF Queue
<1>7. UNCHANGED <<function, line, child, bed>>
  BY DEF programVars
<1>8. at'[p] = "user" /\ \A q \in Proc \ {p} : at'[q] = at[q] /\ arg'[q] = arg[q]
  BY <1>2, <1>5
<1>9. ProgramInv'
  BY <1>1, <1>5, UnlessExecuted
<1>10. PlacesInv'
  BY <1>5, <1>7, <1>8 DEF DemoInv, PlacesInv
<1>11. JoinInv'
  <2> SUFFICES ASSUME NEW q \in {0, 1, 4}, NEW l \in 1..20, NEW d \in 1..6, Joins(q, l, d)
               PROVE  Reaped(d)' <=> Back(q, l, "waitpid")'
    BY DEF JoinInv
  <2>1. q \in Proc /\ line[q] \in Nat /\ line[p] \in Nat
    BY <1>2
  <2>2. CASE d = c
    <3>1. q = p /\ l = line[p] - 1
      BY <1>3, <2>2, OnePlace
    <3>2. Back(q, l, "waitpid")'
      BY <1>7, <1>8, <2>1, <3>1 DEF Back
    <3>3. at'[c] = "exit"
      BY <1>1, <1>3, <1>8 DEF Ended
    <3>4. Reaped(d)'
      BY <1>6, <2>2, <3>3 DEF Reaped, Ended
    <3> QED BY <3>2, <3>4
  <2>3. CASE d # c
    <3>1. ~ (q = p /\ l = line[p] - 1)
      BY <1>3, <2>3, OnePlace
    <3>2. Back(q, l, "waitpid")' <=> Back(q, l, "waitpid")
      BY <1>1, <1>7, <1>8, <2>1, <3>1, BackReturned
    <3>3. at'[d] = "exit" <=> at[d] = "exit"
      BY <1>1, <1>2, <1>8
    <3>4. Reaped(d)' <=> Reaped(d)
      BY <1>6, <2>3, <3>3 DEF Reaped, Ended
    <3> QED BY <3>2, <3>4, Joining
  <2> QED BY <2>2, <2>3
<1>12. TableInv'
  BY <1>5, <1>7 DEF DemoInv, TableInv
<1>13. MeetInv'
  <2> SUFFICES ASSUME NEW q \in 1..3, NEW g \in 1..3, NEW l \in 1..20, NEW k \in 1..20,
                      NEW j \in 0..3, Meets(q, l, j, g, k)
               PROVE  /\ signals'[j].value = 1 <=> line'[g] > k /\ ~ Back(q, l, "swait")'
                      /\ Back(q, l, "swait")' => line'[g] > k
    BY DEF MeetInv
  <2>1. q \in Proc /\ line[q] \in Nat
    BY <1>2
  <2>2. Back(q, l, "swait")' <=> Back(q, l, "swait")
    BY <1>1, <1>7, <1>8, <2>1 DEF Back
  <2> QED BY <1>5, <1>7, <2>2, Meeting
<1>14. StarveInv'
  <2>1. line'[4] = 1
    BY <1>1, <1>7, OthersRun
  <2> QED BY <2>1 DEF StarveInv
<1> QED BY <1>9, <1>10, <1>11, <1>12, <1>13, <1>14 DEF Rest

LEMMA RestSwaitResume ==
    ASSUME DemoInv, DemoSize, mbs_swait_Resume, UNCHANGED programVars
    PROVE  Rest'
<1> DEFINE p == active_process
<1> SUFFICES ASSUME NEW i, i = arg[p]
             PROVE  Rest'
  OBVIOUS
<1>1. /\ host = "running" /\ at[p] = "swait"
      /\ signals' = [signals EXCEPT ![i].value = 0, ![i].waiting = NULL]
      /\ at' = [at EXCEPT ![p] = "user"] /\ arg' = [arg EXCEPT ![p] = NoPid]
      /\ UNCHANGED <<active_process, next_pid, mem>>
  BY DEF mbs_swait_Resume, ResumedIn, ReturnToUser
<1>2. /\ p \in 0..6 /\ p \in Proc /\ state[p] = "RUNNABLE" /\ 0..6 \subseteq Proc
      /\ at \in [Proc -> {"none", "user", "waitpid", "swait", "exit"}]
      /\ line \in [Proc -> Nat \ {0}] /\ signals \in SignalTable /\ 0..3 \subseteq Sid
      /\ arg \in [Proc -> Proc \cup Sid \cup {NoPid}]
  BY <1>1, InProgram, DemoProcs, DemoTypes, KernelFacts
<1>3. Swaits(p, line[p] - 1, i) /\ signals[i].value = 1
  BY <1>1, <1>2 DEF DemoInv, PromiseInv, ReadyInv, PlacesInv
<1>4. i \in 0..3
  BY <1>3 DEF Swaits
<1>5. \A s \in Sid : /\ signals'[s].used = signals[s].used
                     /\ signals'[s].value = IF s = i THEN 0 ELSE signals[s].value
  BY <1>1, <1>2, <1>4 DEF SignalTable
<1>7. UNCHANGED <<function, line, child, bed>>
  BY DEF programVars
<1>8. at'[p] = "user" /\ \A q \in Proc \ {p} : at'[q] = at[q] /\ arg'[q] = arg[q]
  BY <1>1, <1>2
<1>9. ProgramInv'
  BY <1>1, UnlessExecuted
<1>10. PlacesInv'
  BY <1>1, <1>7, <1>8 DEF DemoInv, PlacesInv
<1>11. JoinInv'
  <2> SUFFICES ASSUME NEW q \in {0, 1, 4}, NEW l \in 1..20, NEW d \in 1..6, Joins(q, l, d)
               PROVE  Reaped(d)' <=> Back(q, l, "waitpid")'
    BY DEF JoinInv
  <2>1. q \in Proc /\ line[q] \in Nat /\ d \in Proc
    BY <1>2
  <2>2. Back(q, l, "waitpid")' <=> Back(q, l, "waitpid")
    BY <1>1, <1>7, <1>8, <2>1 DEF Back
  <2>3. at'[d] = "exit" <=> at[d] = "exit"
    BY <1>1, <1>8, <2>1
  <2>4. Reaped(d)' <=> Reaped(d)
    BY <1>1, <2>3 DEF Reaped, Ended
  <2> QED BY <2>2, <2>4, Joining
<1>12. TableInv'
  BY <1>5, <1>7 DEF DemoInv, TableInv
<1>13. MeetInv'
  <2> SUFFICES ASSUME NEW q \in 1..3, NEW g \in 1..3, NEW l \in 1..20, NEW k \in 1..20,
                      NEW j \in 0..3, Meets(q, l, j, g, k)
               PROVE  /\ signals'[j].value = 1 <=> line'[g] > k /\ ~ Back(q, l, "swait")'
                      /\ Back(q, l, "swait")' => line'[g] > k
    BY DEF MeetInv
  <2>1. q \in Proc /\ line[q] \in Nat /\ line[p] \in Nat /\ line[g] \in Nat /\ j \in Sid
    BY <1>2
  <2>2. CASE j = i
    <3>1. q = p /\ l = line[p] - 1
      BY <1>3, <2>2, OnePlace
    <3>2. Back(q, l, "swait")'
      BY <1>7, <1>8, <2>1, <3>1 DEF Back
    <3>3. line[g] > k
      BY <1>3, <2>2, Meeting
    <3> QED BY <1>5, <1>7, <2>1, <2>2, <3>2, <3>3
  <2>3. CASE j # i
    <3>1. ~ (q = p /\ l = line[p] - 1)
      <4>1. Swaits(q, l, j)
        BY Tables
      <4> QED BY <1>3, <2>3, <4>1, OnePlace
    <3>2. Back(q, l, "swait")' <=> Back(q, l, "swait")
      BY <1>1, <1>7, <1>8, <2>1, <3>1, BackReturned
    <3> QED BY <1>5, <1>7, <2>1, <2>3, <3>2, Meeting
  <2> QED BY <2>2, <2>3
<1>14. StarveInv'
  <2>1. line'[4] = 1
    BY <1>1, <1>7, OthersRun
  <2> QED BY <2>1 DEF StarveInv
<1> QED BY <1>9, <1>10, <1>11, <1>12, <1>13, <1>14 DEF Rest

LEMMA RestEnd ==
    ASSUME DemoInv, DemoSize, InUserCode, AtEnd(active_process), process_wrapper_End,
           UNCHANGED programVars
    PROVE  Rest'
<1> SUFFICES ASSUME NEW p, p = active_process
             PROVE  Rest'
  OBVIOUS
<1>1. host = "running" /\ at[p] = "user"
  BY DEF InUserCode
<1>2. /\ p \in 0..6 /\ p \in Proc /\ 0..6 \subseteq Proc /\ KernelInv
      /\ line[p] = Length(p) + 1 /\ line[p] > Length(p)
      /\ at \in [Proc -> {"none", "user", "waitpid", "swait", "exit"}]
      /\ line \in [Proc -> Nat \ {0}]
  <2>1. p \in 0..6 /\ line[p] \in 1..(Length(p) + 1) /\ line[p] > Length(p)
    BY <1>1, InProgram
  <2>2. Length(p) \in Nat
    BY <2>1, Programs
  <2>3. line[p] = Length(p) + 1
    BY <2>1, <2>2
  <2> QED BY <2>1, <2>3, DemoProcs, DemoTypes
<1>3. /\ at' = [at EXCEPT ![p] = "exit"] /\ UNCHANGED <<next_pid, signals, arg>>
      /\ Members(mem', "zombie") = Members(mem, "zombie") \cup {p}
  BY <1>2, EndEffect
<1>4. UNCHANGED <<function, line, child, bed>>
  BY DEF programVars
<1>5. at'[p] = "exit" /\ \A q \in Proc \ {p} : at'[q] = at[q]
  BY <1>2, <1>3
<1>6. ProgramInv'
  BY <1>1, <1>3, UnlessExecuted
<1>7. PlacesInv'
  <2>1. ASSUME NEW q \in Proc
        PROVE  /\ at'[q] = "exit" => q \in 0..6 /\ line'[q] > Length(q)
               /\ at'[q] = "none" => line'[q] = 1
               /\ at'[q] = "user" => line'[q] = 1
               /\ at'[q] = "waitpid" => Joins(q, line'[q] - 1, arg'[q])
               /\ at'[q] = "swait" => Swaits(q, line'[q] - 1, arg'[q])
    <3>1. CASE q = p
      BY <1>2, <1>4, <1>5, <3>1
    <3>2. CASE q # p
      BY <1>3, <1>4, <1>5, <3>2 DEF DemoInv, PlacesInv
    <3> QED BY <3>1, <3>2
  <2> QED BY <2>1 DEF PlacesInv
<1>8. ASSUME NEW q \in 0..6, NEW l \in 1..20, NEW call \in {"waitpid", "swait"}
      PROVE  Back(q, l, call)' <=> Back(q, l, call)
  <2>1. q \in Proc /\ line[q] \in Nat
    BY <1>2
  <2> QED BY <1>1, <1>4, <1>5, <2>1 DEF Back
<1>9. JoinInv'
  <2> SUFFICES ASSUME NEW q \in {0, 1, 4}, NEW l \in 1..20, NEW d \in 1..6, Joins(q, l, d)
               PROVE  Reaped(d)' <=> Back(q, l, "waitpid")'
    BY DEF JoinInv
  <2>1. Reaped(d)' <=> Reaped(d)
    BY <1>1, <1>2, <1>3, <1>5 DEF Reaped, Ended
  <2> QED BY <1>8, <2>1, Joining
<1>10. TableInv'
  BY <1>3, <1>4 DEF DemoInv, TableInv
<1>11. MeetInv'
  <2> SUFFICES ASSUME NEW q \in 1..3, NEW g \in 1..3, NEW l \in 1..20, NEW k \in 1..20,
                      NEW j \in 0..3, Meets(q, l, j, g, k)
               PROVE  /\ signals'[j].value = 1 <=> line'[g] > k /\ ~ Back(q, l, "swait")'
                      /\ Back(q, l, "swait")' => line'[g] > k
    BY DEF MeetInv
  <2> QED BY <1>3, <1>4, <1>8, Meeting
<1>12. StarveInv'
  <2>1. p = 4 => line[4] > 7
    BY <1>2, Programs
  <2>2. line'[4] = 1
    BY <1>1, <1>4, <2>1, OthersRun
  <2> QED BY <2>2 DEF StarveInv
<1> QED BY <1>6, <1>7, <1>9, <1>10, <1>11, <1>12 DEF Rest

LEMMA RestBoot ==
    ASSUME DemoInv, DemoSize, Boot, UNCHANGED programVars
    PROVE  Rest'
<1>1. /\ host = "boot" /\ next_pid = 0 /\ next_pid' = 1 /\ UNCHANGED <<arg, signals>>
      /\ at' = [at EXCEPT ![0] = "user"]
  <2>1. host = "boot" /\ next_pid = 0
    BY DEF Boot, DemoInv, PromiseInv, KernelInv, TypeInv
  <2> QED BY <2>1 DEF Boot, Allocate
<1>2. UNCHANGED <<function, line, child, bed>>
  BY DEF programVars
<1>3. /\ 0..6 \subseteq Proc /\ Proc \subseteq Nat /\ CreatedInOrder(0)
      /\ at \in [Proc -> {"none", "user", "waitpid", "swait", "exit"}]
  BY <1>1, DemoProcs, DemoLines, DemoTypes
<1>4. \A q \in Proc : /\ line[q] = 1 /\ function[q] = "init" /\ child[q] = Offspring(q, line[q])
                      /\ at[q] = "none"
  BY <1>1, <1>3, KernelFacts, DemoPlaces DEF DemoInv, PromiseInv, PlaceInv, KernelInv
<1>5. \A q \in Proc : at'[q] = IF q = 0 THEN "user" ELSE "none"
  BY <1>1, <1>3, <1>4
<1>6. ProgramInv'
  <2>1. CreatedInOrder(next_pid)'
    BY <1>1, <1>2, <1>3 DEF CreatedInOrder
  <2>2. ASSUME NEW q \in Proc
        PROVE  /\ q < 1 => q \in 0..6 /\ function[q] = Main(q) /\ line[q] <= Length(q) + 1
    BY <1>3, <1>4, Programs
  <2>3. ProgramsRun(Proc, next_pid)'
    BY <1>1, <1>2, <1>4, <2>1, <2>2, DemoTypes DEF ProgramsRun
  <2> QED BY <1>1, <2>3 DEF ProgramInv
<1>7. PlacesInv'
  BY <1>2, <1>4, <1>5 DEF PlacesInv
<1>8. ASSUME NEW q \in 0..6, NEW l \in 1..20, NEW call \in {"waitpid", "swait"}
      PROVE  ~ Back(q, l, call) /\ ~ Back(q, l, call)'
  BY <1>2, <1>3, <1>4 DEF Back
<1>9. JoinInv'
  <2>1. \A d \in 1..6 : ~ Reaped(d)'
    BY <1>3, <1>5 DEF Reaped, Ended
  <2> QED BY <1>8, <2>1 DEF JoinInv
<1>10. TableInv'
  BY <1>1, <1>2 DEF DemoInv, TableInv
<1>11. MeetInv'
  BY <1>1, <1>2, <1>8, Meeting DEF MeetInv
<1>12. StarveInv'
  BY <1>2, <1>3, <1>4 DEF StarveInv
<1> QED BY <1>6, <1>7, <1>9, <1>10, <1>11, <1>12 DEF Rest

(* The actions together, and a step that changes nothing.                  *)
LEMMA RestNext ==
    ASSUME DemoInv, DemoSize, [DemoNext]_demoVars
    PROVE  Rest'
<1>1. CASE Boot /\ UNCHANGED programVars
  BY <1>1, RestBoot
<1>2. ASSUME NEW f \in DOMAIN Text, Create(f) PROVE Rest'
  BY <1>2, RestCreate
<1>3. ASSUME NEW i \in 0..3, NewSignal(i) \/ CallOnSignal(i) \/ Assign(i) PROVE Rest'
  BY <1>3, RestNew, RestAssign, RestSwait, RestSignal DEF CallOnSignal
<1>4. ASSUME NEW k \in 1..2, WaitForChild(k) PROVE Rest'
  BY <1>4, RestWaitForChild
<1>5. CASE println
  BY <1>5, RestPrintln
<1>6. CASE InUserCode /\ AtEnd(active_process) /\ process_wrapper_End /\ UNCHANGED programVars
  BY <1>6, RestEnd
<1>7. CASE (waitpid_Resume \/ mbs_swait_Resume) /\ UNCHANGED programVars
  BY <1>7, RestWaitpidResume, RestSwaitResume
<1>8. CASE UNCHANGED demoVars
  <2>1. Rest
    BY DEF DemoInv, Rest
  <2>2. /\ UNCHANGED <<next_pid, mem, active_process, signals, at, arg, host>>
        /\ UNCHANGED <<function, line, child, bed>>
    BY <1>8 DEF demoVars, vars, programVars
  <2>3. ProgramInv'
    BY <2>1, <2>2 DEF Rest, ProgramInv, ProgramsRun, CreatedInOrder
  <2>4. PlacesInv' /\ TableInv' /\ StarveInv'
    BY <2>1, <2>2 DEF Rest, PlacesInv, TableInv, StarveInv
  <2>5. JoinInv' /\ MeetInv'
    <3>1. ASSUME NEW q, NEW l, NEW call PROVE Back(q, l, call)' <=> Back(q, l, call)
      BY <2>2 DEF Back
    <3>2. ASSUME NEW c PROVE Reaped(c)' <=> Reaped(c)
      BY <2>2 DEF Reaped, Ended
    <3>3. JoinInv'
      <4>1. JoinInv
        BY <2>1 DEF Rest
      <4> QED BY <4>1, <3>1, <3>2 DEF JoinInv
    <3>4. MeetInv'
      <4>1. MeetInv
        BY <2>1 DEF Rest
      <4>2. signals' = signals /\ line' = line
        BY <2>2
      <4> QED BY <4>1, <4>2, <3>1 DEF MeetInv
    <3> QED BY <3>3, <3>4
  <2> QED BY <2>3, <2>4, <2>5 DEF Rest
<1> QED BY <1>1, <1>2, <1>3, <1>4, <1>5, <1>6, <1>7, <1>8 DEF DemoNext, Stay

LEMMA DemoInvNext == ASSUME DemoInv, DemoSize, [DemoNext]_demoVars PROVE DemoInv'
<1>1. PromiseInv'
  BY DemoIsKept, PromiseNext DEF DemoInv
<1>2. Rest'
  BY RestNext
<1> QED BY <1>1, <1>2 DEF Rest, DemoInv

LEMMA DemoInvInit == ASSUME DemoInit, DemoSize PROVE DemoInv
<1>1. PromiseInv
  BY PromiseInit DEF DemoInit
<1>2. /\ next_pid = 0 /\ at = [q \in Proc |-> "none"] /\ host = "boot"
      /\ signals = [s \in Sid |-> [used |-> FALSE, value |-> 0, waiting |-> NULL]]
  BY DEF DemoInit, Init
<1>3. /\ function = [q \in Proc |-> "init"] /\ line = [q \in Proc |-> 1]
      /\ child = [q \in Proc |-> <<>>] /\ bed = [i \in 0..3 |-> 0]
  BY DEF DemoInit, ProgramInit
<1>4. /\ 0..6 \subseteq Proc /\ Proc \subseteq Nat /\ 0..3 \subseteq Sid /\ Sid \subseteq Nat
  <2>1. /\ MaxProcs \in Nat /\ NumSignals \in Nat /\ Proc = 0..(MaxProcs - 1)
        /\ MaxProcs >= 7 /\ NumSignals >= 4
    BY KernelAssumption DEF DemoSize
  <2> QED BY <2>1 DEF Sid
<1>5. ProgramInv
  <2>1. "init" \in DOMAIN Text
    BY DEF Text
  <2>2. CreatedInOrder(0)
    BY <1>3, <1>4 DEF CreatedInOrder
  <2>3. \A q \in Proc : child[q] = Offspring(q, line[q])
    <3>1. ASSUME NEW q PROVE Offspring(q, 1) = <<>>
      <4>1. CASE q = 0
        BY <4>1 DEF Offspring
      <4>2. CASE q = 1
        BY <4>2 DEF Offspring
      <4>3. CASE q = 4
        BY <4>3 DEF Offspring
      <4>4. CASE q \notin {0, 1, 4}
        BY <4>4 DEF Offspring
      <4> QED BY <4>1, <4>2, <4>3, <4>4
    <3> QED BY <1>3, <3>1
  <2>4. \A q \in Proc : ~ (q < 0)
    BY <1>4
  <2>5. /\ line \in [Proc -> Nat \ {0}] /\ function \in [Proc -> DOMAIN Text]
        /\ child \in [Proc -> Seq(Proc)] /\ bed \in [0..3 -> Int]
    BY <1>3, <2>1
  <2>6. ProgramsRun(Proc, 0)
    BY <1>3, <2>2, <2>3, <2>4, <2>5 DEF ProgramsRun
  <2> QED BY <1>2, <2>6 DEF ProgramInv
<1>6. PlacesInv
  BY <1>2, <1>3 DEF PlacesInv
<1>7. ASSUME NEW q \in 0..6, NEW l \in 1..20, NEW call \in {"waitpid", "swait"}
      PROVE  ~ Back(q, l, call)
  BY <1>3, <1>4 DEF Back
<1>8. JoinInv
  <2>1. \A d \in 1..6 : ~ Reaped(d)
    BY <1>2, <1>4 DEF Reaped, Ended
  <2> QED BY <1>7, <2>1 DEF JoinInv
<1>9. TableInv
  <2>1. line[1] = 1
    BY <1>3, <1>4
  <2>2. ASSUME NEW s \in Sid PROVE signals[s].used <=> s < 4 /\ s + 1 < line[1]
    BY <1>2, <1>4, <2>1
  <2> QED BY <2>1, <2>2 DEF TableInv
<1>10. MeetInv
  <2>1. \A i \in 0..3 : signals[i].value # 1
    BY <1>2, <1>4
  <2>2. \A g \in 1..3, k \in 1..20 : ~ (line[g] > k)
    BY <1>3, <1>4
  <2> QED BY <1>7, <2>1, <2>2 DEF MeetInv
<1>11. StarveInv
  BY <1>3, <1>4 DEF StarveInv
<1> QED BY <1>1, <1>5, <1>6, <1>8, <1>9, <1>10, <1>11 DEF DemoInv

LEMMA DemoInvariant == ASSUME DemoSize PROVE DemoSpec => []DemoInv
<1>1. DemoInit => DemoInv
  BY DemoInvInit
<1>2. DemoInv /\ [DemoNext]_demoVars => DemoInv'
  BY DemoInvNext
<1> QED BY <1>1, <1>2, PTL DEF DemoSpec

-----------------------------------------------------------------------------
(* What an swait of the text waits for.                                    *)
LEMMA WaitMeets ==
    ASSUME NEW p, NEW l, NEW i, Swaits(p, l, i)
    PROVE  \E g, k : Meets(p, l, i, g, k)
<1>1. Meets(1, 10, 0, 2, 2) /\ Meets(1, 12, 1, 3, 2) /\ Meets(3, 4, 2, 1, 14) /\ Meets(2, 4, 3, 1, 16)
  BY DEF Meets
<1> QED BY <1>1 DEF Swaits

(* A process that has come back from its mbs_swait finds the process that  *)
(* signals the variable past its mbs_signal.                               *)
LEMMA PassedMeets ==
    ASSUME DemoInv, DemoSize, NEW p \in Proc, NEW f \in {"proc1", "proc2", "proc3"}, NEW i \in 0..3,
           Passed(p, f, i)
    PROVE  \E l, g, k : p \in 1..3 /\ f = Main(p) /\ Meets(p, l, i, g, k) /\ Set(Main(g), i)
<1>1. PICK l \in 1..(line[p] - 1) : Text[f][l] = <<"swait", i>>
  BY DEF Passed, Past
<1>2. function[p] = f /\ at[p] # "swait"
  BY DEF Passed, Past
<1>3. /\ 0..6 \subseteq Proc /\ Proc \subseteq Nat /\ next_pid \in Nat
      /\ \A q \in Proc : line[q] \in Nat \ {0}
  <2>1. line \in [Proc -> Nat \ {0}]
    BY DemoTypes
  <2> QED BY <2>1, DemoProcs
<1>4. p \in 0..6 /\ f = Main(p) /\ line[p] <= Length(p) + 1
  <2>1. ~ (p >= next_pid)
    BY <1>2, DemoPlaces
  <2> QED BY <1>2, <1>3, <2>1, DemoPlaces
<1>5. p \in 1..3 /\ l \in 1..Length(p)
  BY <1>1, <1>3, <1>4, Programs
<1>6. Swaits(p, l, i)
  BY <1>1, <1>4, <1>5, Script
<1>7. PICK g, k : Meets(p, l, i, g, k)
  BY <1>6, WaitMeets
<1>8. Back(p, l, "swait")
  BY <1>1, <1>2, <1>3 DEF Back
<1>9. line[g] > k /\ g \in 1..3 /\ k \in 1..20 /\ Raises(g, k, i)
  BY <1>7, <1>8, Meeting, Tables
<1>10. function[g] = Main(g) /\ line[g] <= Length(g) + 1 /\ Length(g) \in Nat
  <2>1. line[g] # 1
    BY <1>9
  <2>2. ~ (g >= next_pid)
    BY <1>3, <1>9, <2>1, DemoPlaces
  <2> QED BY <1>3, <1>9, <2>2, DemoPlaces, Programs
<1>11. k \in 1..(line[g] - 1) /\ k \in 1..Length(g)
  BY <1>3, <1>9, <1>10
<1>12. Text[Main(g)][k] = <<"signal", i>>
  BY <1>9, <1>11, Script
<1>13. Set(Main(g), i)
  BY <1>3, <1>9, <1>10, <1>11, <1>12 DEF Set, Past
<1> QED BY <1>4, <1>5, <1>7, <1>13

LEMMA DemoMeets == ASSUME DemoInv, DemoSize PROVE MeetingOrder
<1> SUFFICES ASSUME NEW p \in Proc
             PROVE  /\ Passed(p, "proc1", 0) => Set("proc2", 0)
                    /\ Passed(p, "proc1", 1) => Set("proc3", 1)
                    /\ Passed(p, "proc2", 3) => Set("proc1", 3)
                    /\ Passed(p, "proc3", 2) => Set("proc1", 2)
  BY DEF MeetingOrder
<1>1. ASSUME NEW f \in {"proc1", "proc2", "proc3"}, NEW i \in 0..3, Passed(p, f, i)
      PROVE  \E g : f = Main(p) /\ Set(Main(g), i) /\
                    <<p, i, g>> \in {<<1, 0, 2>>, <<1, 1, 3>>, <<3, 2, 1>>, <<2, 3, 1>>}
  BY <1>1, PassedMeets DEF Meets
<1>2. Passed(p, "proc1", 0) => Set("proc2", 0)
  BY <1>1, Programs
<1>3. Passed(p, "proc1", 1) => Set("proc3", 1)
  BY <1>1, Programs
<1>4. Passed(p, "proc2", 3) => Set("proc1", 3)
  BY <1>1, Programs
<1>5. Passed(p, "proc3", 2) => Set("proc1", 2)
  BY <1>1, Programs
<1> QED BY <1>2, <1>3, <1>4, <1>5

LEMMA DemoStarves == ASSUME DemoInv, DemoSize PROVE PollingStarves
<1> SUFFICES ASSUME NEW p \in Proc, function[p] \in {"bw_proc2", "bw_proc3"}
             PROVE  active_process # p /\ line[p] = 1
  BY DEF PollingStarves
<1>1. /\ Proc \subseteq Nat /\ next_pid \in Nat /\ CreatedInOrder(next_pid) /\ line[4] \in Nat
  BY DemoProcs, DemoLines
<1>2. p < next_pid /\ p \in 0..6 /\ function[p] = Main(p)
  <2>1. ~ (p >= next_pid)
    BY DemoPlaces
  <2> QED BY <1>1, <2>1, DemoPlaces
<1>3. p \in {5, 6}
  BY <1>2, Programs
<1>4. line[4] > 1
  BY <1>1, <1>2, <1>3 DEF CreatedInOrder
<1> QED BY <1>3, <1>4 DEF DemoInv, StarveInv

-----------------------------------------------------------------------------
(* The demo programs keep every obligation the kernel needs of them, on    *)
(* the kernel as it is, whatever an uninitialised waiting_for holds        *)
(* (processes.c:13-146).                                                   *)
THEOREM ProgramsKeepObligations ==
    ASSUME DemoSize
    PROVE  DemoSpec => []KeepsObligations
<1>1. DemoInv => KeepsObligations
  BY DemoKeeps
<1> QED BY <1>1, DemoInvariant, PTL

(* A process passes a variable only after the one that sets it has         *)
(* signalled it: proc1 waits for proc2 and proc3 and they wait for proc1   *)
(* (processes.c:13-66).                                                    *)
THEOREM ProgramsMeet ==
    ASSUME DemoSize
    PROVE  DemoSpec => []MeetingOrder
<1>1. DemoInv => MeetingOrder
  BY DemoMeets
<1> QED BY <1>1, DemoInvariant, PTL

(* bw_proc2 and bw_proc3 never run an instruction: bw_proc1, which created *)
(* them, polls for ever (processes.c:78-130).                              *)
THEOREM PollersStarve ==
    ASSUME DemoSize
    PROVE  DemoSpec => []PollingStarves
<1>1. DemoInv => PollingStarves
  BY DemoStarves
<1> QED BY <1>1, DemoInvariant, PTL

(* So the queues of the kernel stay proper, no process is lost and no      *)
(* wake-up is missed while it runs them, with no obligation assumed.       *)
THEOREM ShippedSystemIsSafe ==
    ASSUME DemoSize
    PROVE  DemoSpec => [](QueuesWellFormed /\ NoProcessLost /\ WaitpidNotForgotten /\ SwaitNotForgotten)
<1>1. DemoInv => QueuesWellFormed /\ NoProcessLost /\ WaitpidNotForgotten /\ SwaitNotForgotten
  <2> SUFFICES ASSUME DemoInv
               PROVE  QueuesWellFormed /\ NoProcessLost /\ WaitpidNotForgotten /\ SwaitNotForgotten
    OBVIOUS
  <2>1. QueuesWellFormed /\ NoProcessLost
    BY DEF DemoInv, PromiseInv, KernelInv
  <2>2. KernelInv
    BY DEF DemoInv, PromiseInv
  <2>3. \A w \in Members(mem, "wait") : w \in Proc /\ state[w] = "BLOCKED"
    BY <2>2, KernelFacts, VisitedClosed DEF Members, Queue
  <2>4. WaitpidNotForgotten
    BY <2>3 DEF WaitpidNotForgotten, DemoInv, PromiseInv, WaitpidInv
  <2>5. SwaitNotForgotten
    <3> SUFFICES ASSUME NEW w \in Members(mem, "wait"), at[w] = "swait"
                 PROVE  signals[arg[w]] = [used |-> TRUE, value |-> 0, waiting |-> w]
      BY DEF SwaitNotForgotten
    <3>1. arg[w] \in Sid /\ signals \in SignalTable
      BY <2>2, <2>3, KernelFacts
    <3>2. signals[arg[w]].used /\ signals[arg[w]].waiting = w /\ signals[arg[w]].value = 0
      BY <2>3 DEF DemoInv, PromiseInv, SwaitInv
    <3> QED BY <3>1, <3>2 DEF SignalTable
  <2> QED BY <2>1, <2>4, <2>5
<1> QED BY <1>1, DemoInvariant, PTL

(* And every step of it is one that the comments of syscalls.h allow.      *)
THEOREM ShippedSystemKeepsPromise ==
    ASSUME DemoSize
    PROVE  DemoSpec => KeepsPromise
<1>1. DemoInit => Promise!Init
  BY PromiseInit DEF DemoInit
<1>2. DemoInv /\ DemoInv' /\ [DemoNext]_demoVars => [Promise!Next]_(Promise!vars)
  BY DemoIsKept, EveryStep DEF DemoInv
<1> QED BY <1>1, <1>2, DemoInvariant, PTL DEF DemoSpec, KeepsPromise, Promise!Spec
=============================================================================
