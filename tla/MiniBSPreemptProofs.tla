------------------------- MODULE MiniBSPreemptProofs -------------------------
(***************************************************************************)
(* Theorems about the kernel of MiniBS with a timer, for any number of     *)
(* processes and signal variables.  The first two hold for every program   *)
(* and wherever the timer signal arrives.  The others say what careful     *)
(* programs can rely on as long as it does not arrive at one of the four   *)
(* points at which the code is not ready for it, and that the shipped      *)
(* demo programs are such programs.                                        *)
(***************************************************************************)
EXTENDS PreemptDemo, DemoFacts, PQueueProofs

-----------------------------------------------------------------------------
(* Pointers, in queues of any shape                                        *)

(* All pointers of the queues point to processes of S or nowhere.          *)
PointsInto(m, S) ==
    /\ \A p \in Proc : m.next[p] \in S \cup {NULL}
    /\ \A q \in Queue : m.first[q] \in S \cup {NULL} /\ m.last[q] \in S \cup {NULL}

(* A traversal comes only to processes of S.                               *)
LEMMA VisitsInside ==
    ASSUME NEW m \in Memory, NEW S \in SUBSET Proc, PointsInto(m, S), NEW q \in Queue, NEW T
    PROVE  Visited(m, q, T) \subseteq S /\ Members(m, q) \subseteq S /\ Found(m, q, T) \subseteq S
<1>1. m.first[q] \in S \cup {NULL} /\ \A U : Closed(m.next, S, U)
  BY DEF PointsInto, Closed
<1> QED
  BY <1>1, VisitedLeast DEF Members, Found

LEMMA AppendInside ==
    ASSUME NEW m \in Memory, NEW S \in SUBSET Proc, PointsInto(m, S), NEW q \in Queue, NEW p \in S
    PROVE  PointsInto(queue_append(m, q, p), S)
<1> DEFINE n == queue_append(m, q, p)
<1>1. /\ m.next \in [Proc -> Pointer] /\ m.first \in [Queue -> Pointer]
      /\ m.last \in [Queue -> Pointer]
      /\ \A x \in Proc : m.next[x] \in S \cup {NULL}
      /\ \A r \in Queue : m.first[r] \in S \cup {NULL} /\ m.last[r] \in S \cup {NULL}
  BY DEF Memory, PointsInto
<1>2. CASE m.first[q] = NULL
  <2>1. n = [next |-> [m.next EXCEPT ![p] = NULL],
             first |-> [m.first EXCEPT ![q] = p], last |-> [m.last EXCEPT ![q] = p]]
    BY <1>2 DEF queue_append, Memory
  <2> HIDE DEF n
  <2> QED
    BY <1>1, <2>1 DEF PointsInto, n
<1>3. CASE m.first[q] # NULL
  <2>1. n = [next |-> [[m.next EXCEPT ![p] = NULL] EXCEPT ![m.last[q]] = p],
             first |-> m.first, last |-> [m.last EXCEPT ![q] = p]]
    BY <1>3 DEF queue_append, Memory
  <2> HIDE DEF n
  <2> QED
    BY <1>1, <2>1 DEF PointsInto, n
<1> QED
  BY <1>2, <1>3

LEMMA DequeueInside ==
    ASSUME NEW m \in Memory, NEW S \in SUBSET Proc, PointsInto(m, S), NEW q \in Queue, NEW p
    PROVE  PointsInto(queue_dequeue(m, q, p), S)
<1> DEFINE n == queue_dequeue(m, q, p)
           previous == Previous(m, q, p)
<1>1. CASE p \notin Members(m, q)
  BY <1>1 DEF queue_dequeue
<1>2. CASE p \in Members(m, q)
  <2>1. /\ n.first = IF previous = NULL THEN [m.first EXCEPT ![q] = m.next[p]] ELSE m.first
        /\ n.last = [m.last EXCEPT ![q] = IF @ = p THEN previous ELSE @]
        /\ n.next[p] = NULL
        /\ previous # NULL => n.next[previous] = m.next[p]
        /\ \A x \in Proc \ {p, previous} : n.next[x] = m.next[x]
    BY <1>2, DequeueFields
  <2>2. p \in S /\ p \in Proc
    BY <1>2, VisitsInside
  <2>3. previous \in S \cup {NULL}
    <3>1. previous = NULL \/ previous \in Members(m, q)
      BY <1>2, PreviousSpec
    <3> QED
      BY <3>1, VisitsInside
  <2>4. m.next[p] \in S \cup {NULL}
    BY <2>2 DEF PointsInto
  <2> HIDE DEF n, previous
  <2>5. \A x \in Proc : n.next[x] \in S \cup {NULL}
    <3> SUFFICES ASSUME NEW x \in Proc PROVE n.next[x] \in S \cup {NULL}
      OBVIOUS
    <3>1. x = p \/ (x = previous /\ previous # NULL) \/ x \in Proc \ {p, previous}
      BY NullAssumption
    <3>2. m.next[x] \in S \cup {NULL}
      BY DEF PointsInto
    <3> QED
      BY <2>1, <2>4, <3>1, <3>2
  <2>6. m.first \in [Queue -> Pointer] /\ m.last \in [Queue -> Pointer]
    BY DEF Memory
  <2>7. \A r \in Queue : n.first[r] \in S \cup {NULL} /\ n.last[r] \in S \cup {NULL}
    BY <2>1, <2>2, <2>3, <2>4, <2>6 DEF PointsInto
  <2> QED
    BY <2>5, <2>7 DEF PointsInto, n
<1> QED
  BY <1>1, <1>2

-----------------------------------------------------------------------------
(* Types, whatever the programs do and wherever the signal arrives         *)

(* The processes whose structure is allocated.                             *)
Live == {p \in Proc : state[p] # "NONE"}

SignalTable == [Sid -> [used : BOOLEAN, value : {0, 1}, waiting : Pointer]]

(* TypeOK is not inductive: schedule() files a process by its state, so    *)
(* that no pointer may lead to a process without one, and a call indexes   *)
(* arrays with the argument it was given before it was interrupted.        *)
TypeInv ==
    /\ TypeOK
    /\ PointsInto(mem, Live)
    /\ active_process \in Live \cup {NULL}
    /\ \A s \in Sid : signals[s].waiting \in Live \cup {NULL}
    /\ \A p \in Proc : /\ InWaitpid(p) => arg[p] \in Proc \cup {NoPid}
                       /\ InSwait(p) \/ at[p] = "sig_append" => arg[p] \in Sid
    /\ host = "boot" => next_pid = 0
    /\ host = "running" => active_process \in Proc
    /\ \A p \in Proc : p >= next_pid => state[p] = "NONE" /\ at[p] = "none"

(* What the steps need of it, with the sets of functions opened up.        *)
LEMMA TypeFacts ==
    ASSUME TypeInv
    PROVE  /\ next_pid \in 0..MaxProcs
           /\ state \in [Proc -> {"NONE", "RUNNABLE", "BLOCKED", "ZOMBIE"}]
           /\ waiting_for \in [Proc -> Proc \cup {NoPid}]
           /\ mem \in Memory
           /\ active_process \in Pointer
           /\ signals \in SignalTable
           /\ at \in [Proc -> {"none", "user"} \cup Calls]
           /\ arg \in [Proc -> Proc \cup Sid \cup {NoPid}]
           /\ depth \in [Proc -> 0..MaxDepth]
           /\ blocked \in BOOLEAN
           /\ host \in {"boot", "running", "exited", "failed", "hung", "crashed"}
           /\ Live \in SUBSET Proc /\ PointsInto(mem, Live)
           /\ host = "running" => active_process \in Proc /\ active_process \in Live
           /\ next_pid \in Proc => state[next_pid] = "NONE" /\ at[next_pid] = "none"
           /\ Proc = 0..(MaxProcs - 1) /\ Proc \subseteq Nat /\ MaxProcs \in Nat \ {0}
           /\ next_pid \in Nat
<1>1. /\ Proc = 0..(MaxProcs - 1) /\ Proc \subseteq Nat /\ MaxProcs \in Nat \ {0}
      /\ next_pid \in 0..MaxProcs /\ next_pid \in Nat
  BY KernelAssumption DEF TypeInv, TypeOK
<1>2. next_pid \in Proc => state[next_pid] = "NONE" /\ at[next_pid] = "none"
  BY <1>1 DEF TypeInv
<1>3. host = "running" => active_process \in Proc /\ active_process \in Live
  BY NullAssumption DEF TypeInv
<1>4. Live \in SUBSET Proc
  BY DEF Live
<1> QED
  BY <1>1, <1>2, <1>3, <1>4 DEF TypeInv, TypeOK, SignalTable

(* queue_append puts a valid pointer or nothing into the queues.           *)
LEMMA AppendsTypes ==
    ASSUME NEW S \in SUBSET Proc, mem \in Memory, PointsInto(mem, S),
           NEW m \in Memory, PointsInto(m, S), NEW q \in Queue, NEW p \in S \cup {NULL},
           blocked \in BOOLEAN, Appends(m, q, p)
    PROVE  /\ mem' \in Memory /\ PointsInto(mem', S)
           /\ blocked' \in BOOLEAN
           /\ host' \in {host, "crashed"}
<1>1. CASE p = NULL \/ AppendFaults(m, q)
  BY <1>1 DEF Appends
<1>2. CASE ~ (p = NULL \/ AppendFaults(m, q))
  <2>1. mem' = queue_append(m, q, p) /\ blocked' = FALSE /\ host' = host
    BY <1>2 DEF Appends, Unblock
  <2> QED
    BY <1>2, <2>1, AppendType, AppendInside
<1> QED
  BY <1>1, <1>2

(* mbs_signal_new returns a number in the table if one is free.            *)
LEMMA NewSidFree == FreeSids # {} => NewSid \in FreeSids
<1>1. NumSignals \in Nat /\ FreeSids \in SUBSET (0..(NumSignals - 1))
  BY KernelAssumption DEF FreeSids, Sid
<1>2. FreeSids # {} => \E s \in FreeSids : \A t \in FreeSids : s <= t
  BY <1>1, LeastElement
<1> QED
  BY <1>2 DEF NewSid

LEMMA TypeInit == Init => TypeInv
<1> SUFFICES ASSUME Init PROVE TypeInv
  OBVIOUS
<1>1. TypeOK
  <2>1. 0 \in 0..MaxProcs /\ 0 \in 0..MaxDepth
    BY KernelAssumption
  <2>2. mem \in Memory /\ active_process \in Pointer
    BY DEF Init, EmptyQueues, Memory, Pointer
  <2>3. signals \in SignalTable
    BY DEF Init, SignalTable, Pointer
  <2> QED
    BY <2>1, <2>2, <2>3 DEF Init, TypeOK, SignalTable
<1>2. PointsInto(mem, Live)
  BY DEF Init, EmptyQueues, PointsInto
<1>3. \A p \in Proc : ~ InWaitpid(p) /\ ~ InSwait(p) /\ at[p] # "sig_append"
  BY DEF Init, InWaitpid, InSwait
<1> QED
  BY <1>1, <1>2, <1>3 DEF Init, TypeInv

WaitpidPoints == {"w_block", "w_for", "w_sched", "w_again"}
SwaitPoints == {"s_value", "s_waiting"}

(* Where a call may take a process, and the argument it has there.         *)
GoodPoint(x, y) ==
    \/ x \in WaitpidPoints /\ y \in Proc \cup {NoPid}
    \/ x \in SwaitPoints \cup {"sig_append"} /\ y \in Sid
    \/ x \in {"user", "x_search", "x_sched", "x_done"} /\ y = NoPid

(* A step of a running system that neither creates a process nor forgets   *)
(* one keeps the types if each of its assignments does.                    *)
LEMMA TypeStep ==
    ASSUME TypeInv, host = "running", next_pid' = next_pid,
           state' \in [Proc -> {"NONE", "RUNNABLE", "BLOCKED", "ZOMBIE"}],
           \A p \in Proc : state'[p] = "NONE" <=> state[p] = "NONE",
           waiting_for' \in [Proc -> Proc \cup {NoPid}],
           mem' \in Memory, PointsInto(mem', Live),
           active_process' \in Live \cup {NULL},
           signals' \in SignalTable,
           \A s \in Sid : signals'[s].waiting \in Live \cup {NULL},
           UNCHANGED <<at, arg>> \/ \E x, y : GoodPoint(x, y) /\ Goto(x, y),
           depth' \in [Proc -> 0..MaxDepth], blocked' \in BOOLEAN,
           host' \in {"running", "exited", "failed", "hung", "crashed"},
           host' = "running" => active_process' # NULL
    PROVE  TypeInv'
<1>0. /\ next_pid \in 0..MaxProcs /\ next_pid \in Nat /\ Proc \subseteq Nat
      /\ at \in [Proc -> {"none", "user"} \cup Calls]
      /\ arg \in [Proc -> Proc \cup Sid \cup {NoPid}]
      /\ active_process \in Proc /\ active_process \in Live
      /\ \A p \in Proc : p >= next_pid => state[p] = "NONE" /\ at[p] = "none"
      /\ \A p \in Proc : /\ at[p] \in WaitpidPoints => arg[p] \in Proc \cup {NoPid}
                         /\ at[p] \in SwaitPoints \cup {"sig_append"} => arg[p] \in Sid
  BY TypeFacts DEF TypeInv, InWaitpid, InSwait, WaitpidPoints, SwaitPoints
<1>1. Live' = Live
  BY DEF Live
<1>2. ~ (active_process >= next_pid)
  BY <1>0 DEF Live
<1>3. /\ at' \in [Proc -> {"none", "user"} \cup Calls]
      /\ arg' \in [Proc -> Proc \cup Sid \cup {NoPid}]
      /\ \A p \in Proc : p >= next_pid => at'[p] = "none"
      /\ \A p \in Proc : /\ at'[p] \in WaitpidPoints => arg'[p] \in Proc \cup {NoPid}
                         /\ at'[p] \in SwaitPoints \cup {"sig_append"} => arg'[p] \in Sid
  <2>1. CASE UNCHANGED <<at, arg>>
    BY <1>0, <2>1
  <2>2. ASSUME NEW x, NEW y, GoodPoint(x, y), Goto(x, y)
        PROVE  <1>3!1 /\ <1>3!2 /\ <1>3!3 /\ <1>3!4
    <3>1. x \in {"none", "user"} \cup Calls /\ y \in Proc \cup Sid \cup {NoPid}
      BY <2>2 DEF GoodPoint, WaitpidPoints, SwaitPoints, Calls
    <3>2. at' = [at EXCEPT ![active_process] = x] /\ arg' = [arg EXCEPT ![active_process] = y]
      BY <2>2 DEF Goto
    <3>3. /\ x \in WaitpidPoints => y \in Proc \cup {NoPid}
          /\ x \in SwaitPoints \cup {"sig_append"} => y \in Sid
      BY <2>2 DEF GoodPoint, WaitpidPoints, SwaitPoints
    <3>4. at' \in [Proc -> {"none", "user"} \cup Calls] /\ arg' \in [Proc -> Proc \cup Sid \cup {NoPid}]
      BY <1>0, <3>1, <3>2
    <3>5. /\ at'[active_process] = x /\ arg'[active_process] = y
          /\ \A p \in Proc \ {active_process} : at'[p] = at[p] /\ arg'[p] = arg[p]
      BY <1>0, <3>2
    <3>6. \A p \in Proc : p >= next_pid => at'[p] = "none"
      BY <1>0, <1>2, <3>5
    <3>7. \A p \in Proc : /\ at'[p] \in WaitpidPoints => arg'[p] \in Proc \cup {NoPid}
                          /\ at'[p] \in SwaitPoints \cup {"sig_append"} => arg'[p] \in Sid
      <4> SUFFICES ASSUME NEW p \in Proc
                   PROVE  /\ at'[p] \in WaitpidPoints => arg'[p] \in Proc \cup {NoPid}
                          /\ at'[p] \in SwaitPoints \cup {"sig_append"} => arg'[p] \in Sid
        OBVIOUS
      <4>1. CASE p = active_process
        BY <3>3, <3>5, <4>1
      <4>2. CASE p # active_process
        BY <1>0, <3>5, <4>2
      <4> QED
        BY <4>1, <4>2
    <3> QED
      BY <3>4, <3>6, <3>7
  <2> QED
    BY <2>1, <2>2
<1>4. TypeOK'
  <2>1. active_process' \in Pointer
    BY DEF Live, Pointer
  <2> QED
    BY <1>0, <1>3, <2>1 DEF TypeOK, SignalTable
<1>5. \A p \in Proc : /\ InWaitpid(p)' => arg'[p] \in Proc \cup {NoPid}
                      /\ InSwait(p)' \/ at'[p] = "sig_append" => arg'[p] \in Sid
  BY <1>3 DEF InWaitpid, InSwait, WaitpidPoints, SwaitPoints
<1>6. \A p \in Proc : p >= next_pid' => state'[p] = "NONE" /\ at'[p] = "none"
  BY <1>0, <1>3
<1>7. host' = "running" => active_process' \in Proc
  BY DEF Live
<1> QED
  BY <1>1, <1>4, <1>5, <1>6, <1>7 DEF TypeInv

States == {"RUNNABLE", "BLOCKED", "ZOMBIE"}

(* The active process enters schedule().                                   *)
LEMMA EnterTypes ==
    ASSUME TypeInv, host = "running", NEW st \in States, EnterSchedule(st)
    PROVE  /\ mem' \in Memory /\ PointsInto(mem', Live)
           /\ blocked' \in BOOLEAN
           /\ host' \in {"running", "crashed"}
           /\ depth' \in [Proc -> 0..MaxDepth]
<1>1. /\ active_process \in Proc /\ active_process \in Live /\ Live \in SUBSET Proc
      /\ mem \in Memory /\ PointsInto(mem, Live) /\ blocked \in BOOLEAN
      /\ depth \in [Proc -> 0..MaxDepth]
  BY TypeFacts
<1>2. QueueOf(st) \in Queue /\ active_process \in Live \cup {NULL}
  BY <1>1 DEF QueueOf, States, Queue
<1>3. Appends(mem, QueueOf(st), active_process)
  BY DEF EnterSchedule
<1>4. /\ mem' \in Memory /\ PointsInto(mem', Live)
      /\ blocked' \in BOOLEAN /\ host' \in {host, "crashed"}
  BY <1>1, <1>2, <1>3, AppendsTypes
<1>5. depth' \in [Proc -> 0..MaxDepth]
  <2>1. /\ depth' = [depth EXCEPT ![active_process] = depth[active_process] + 1]
        /\ depth[active_process] < MaxDepth
    BY DEF EnterSchedule
  <2>2. depth[active_process] + 1 \in 0..MaxDepth
    BY <1>1, <2>1, KernelAssumption
  <2> QED
    BY <1>1, <2>1, <2>2
<1> QED
  BY <1>4, <1>5

(* Assignments to the fields of a signal variable.                         *)
LEMMA SignalAssignments ==
    ASSUME signals \in SignalTable, NEW s \in Sid
    PROVE  /\ [signals EXCEPT ![s].used = FALSE] \in SignalTable
           /\ [signals EXCEPT ![s].value = 1] \in SignalTable
           /\ [signals EXCEPT ![s].value = 0] \in SignalTable
           /\ [signals EXCEPT ![s].value = 0, ![s].waiting = NULL] \in SignalTable
           /\ \A p \in Pointer : [signals EXCEPT ![s].waiting = p] \in SignalTable
           /\ [signals EXCEPT ![s] = [used |-> TRUE, value |-> 0, waiting |-> NULL]] \in SignalTable
BY DEF SignalTable, Pointer

(* The calls on signal variables assign to them in one of these ways.      *)
LEMMA SignalTypes ==
    ASSUME TypeInv, host = "running", NEW s \in Sid,
           \/ signals' = signals
           \/ signals' = [signals EXCEPT ![s].used = FALSE]
           \/ signals' = [signals EXCEPT ![s].value = 1]
           \/ signals' = [signals EXCEPT ![s].value = 0]
           \/ signals' = [signals EXCEPT ![s].value = 0, ![s].waiting = NULL]
           \/ signals' = [signals EXCEPT ![s].waiting = NULL]
           \/ signals' = [signals EXCEPT ![s].waiting = active_process]
           \/ signals' = [signals EXCEPT ![s] = [used |-> TRUE, value |-> 0, waiting |-> NULL]]
    PROVE  /\ signals' \in SignalTable
           /\ \A t \in Sid : signals'[t].waiting \in Live \cup {NULL}
<1>1. /\ signals \in SignalTable /\ active_process \in Pointer /\ active_process \in Live
      /\ \A t \in Sid : signals[t].waiting \in Live \cup {NULL}
  BY TypeFacts DEF TypeInv
<1>2. signals' \in SignalTable
  <2>1. NULL \in Pointer
    BY DEF Pointer
  <2>2. /\ [signals EXCEPT ![s].used = FALSE] \in SignalTable
        /\ [signals EXCEPT ![s].value = 1] \in SignalTable
        /\ [signals EXCEPT ![s].value = 0] \in SignalTable
        /\ [signals EXCEPT ![s].value = 0, ![s].waiting = NULL] \in SignalTable
        /\ [signals EXCEPT ![s].waiting = NULL] \in SignalTable
        /\ [signals EXCEPT ![s].waiting = active_process] \in SignalTable
        /\ [signals EXCEPT ![s] = [used |-> TRUE, value |-> 0, waiting |-> NULL]] \in SignalTable
    BY <1>1, <2>1, SignalAssignments
  <2> QED
    BY <1>1, <2>2
<1>3. \A t \in Sid : signals'[t].waiting \in {signals[t].waiting, active_process, NULL}
  BY <1>1 DEF SignalTable
<1> QED
  BY <1>1, <1>2, <1>3

LEMMA TypeNext == TypeInv /\ [Next]_vars => TypeInv'
<1> SUFFICES ASSUME TypeInv, [Next]_vars PROVE TypeInv'
  OBVIOUS
<1> DEFINE a == active_process
<1>0. /\ next_pid \in 0..MaxProcs /\ next_pid \in Nat
      /\ state \in [Proc -> {"NONE", "RUNNABLE", "BLOCKED", "ZOMBIE"}]
      /\ waiting_for \in [Proc -> Proc \cup {NoPid}]
      /\ mem \in Memory /\ signals \in SignalTable
      /\ depth \in [Proc -> 0..MaxDepth] /\ blocked \in BOOLEAN
      /\ Live \in SUBSET Proc /\ PointsInto(mem, Live)
      /\ host = "running" => a \in Proc /\ a \in Live /\ state[a] \in States /\ a # NULL
      /\ a \in Live \cup {NULL}
      /\ \A s \in Sid : signals[s].waiting \in Live \cup {NULL}
      /\ \A p \in Proc : /\ at[p] \in WaitpidPoints => arg[p] \in Proc \cup {NoPid}
                         /\ at[p] \in SwaitPoints \cup {"sig_append"} => arg[p] \in Sid
      /\ Proc = 0..(MaxProcs - 1) /\ MaxProcs \in Nat \ {0} /\ Garbage \subseteq Proc \cup {NoPid}
  BY TypeFacts, KernelAssumption, NullAssumption
  DEF TypeInv, Live, States, InWaitpid, InSwait, WaitpidPoints, SwaitPoints
<1>a. ASSUME next_pid \in Proc, Allocate(next_pid),
             state' = [state EXCEPT ![next_pid] = "RUNNABLE"],
             mem' \in Memory, PointsInto(mem', Live \cup {next_pid}),
             active_process' \in Live \cup {next_pid, NULL}, UNCHANGED depth, blocked' \in BOOLEAN,
             host' \in {"running", "crashed"}, host' = "running" => active_process' # NULL
      PROVE  TypeInv'
  <2>1. Live' = Live \cup {next_pid}
    BY <1>0, <1>a DEF Live
  <2>2. PICK g \in Garbage : waiting_for' = [waiting_for EXCEPT ![next_pid] = g]
    BY <1>a DEF Allocate
  <2>3. /\ next_pid' = next_pid + 1 /\ next_pid' \in 0..MaxProcs
        /\ at' = [at EXCEPT ![next_pid] = "user"] /\ UNCHANGED <<arg, signals>>
    BY <1>0, <1>a DEF Allocate
  <2>4. TypeOK'
    <3>1. active_process' \in Pointer
      BY <1>0, <1>a DEF Pointer
    <3> QED
      BY <1>0, <1>a, <2>2, <2>3, <3>1, TypeFacts DEF TypeOK, SignalTable
  <2>5. \A p \in Proc : /\ InWaitpid(p)' => arg'[p] \in Proc \cup {NoPid}
                        /\ InSwait(p)' \/ at'[p] = "sig_append" => arg'[p] \in Sid
    BY <1>0, <2>3, TypeFacts DEF InWaitpid, InSwait, WaitpidPoints, SwaitPoints
  <2>6. \A p \in Proc : p >= next_pid' => state'[p] = "NONE" /\ at'[p] = "none"
    <3>1. \A p \in Proc : p >= next_pid' => p # next_pid /\ p >= next_pid
      BY <1>0, <2>3
    <3> QED
      BY <1>0, <1>a, <2>3, <3>1, TypeFacts DEF TypeInv
  <2> QED
    BY <1>a, <2>1, <2>3, <2>4, <2>5, <2>6, <1>0 DEF TypeInv
<1>b. ASSUME host = "running", next_pid' = next_pid, UNCHANGED <<state, waiting_for, signals>>,
             \/ UNCHANGED <<mem, blocked, depth, host>>
             \/ Stops("hung")
             \/ EnterSchedule(state[a])
             \/ /\ mem' \in Memory /\ PointsInto(mem', Live) /\ blocked' \in BOOLEAN
                /\ host' \in {"running", "crashed"} /\ UNCHANGED depth,
             active_process' = active_process,
             UNCHANGED <<at, arg>> \/ \E x, y : GoodPoint(x, y) /\ Goto(x, y)
      PROVE  TypeInv'
  <2>1. /\ mem' \in Memory /\ PointsInto(mem', Live)
        /\ blocked' \in BOOLEAN
        /\ host' \in {"running", "hung", "crashed"}
        /\ depth' \in [Proc -> 0..MaxDepth]
    <3>1. CASE UNCHANGED <<mem, blocked, depth, host>>
      BY <1>0, <1>b, <3>1
    <3>2. CASE Stops("hung")
      BY <1>0, <1>b, <3>2 DEF Stops, ctxVars
    <3>3. CASE EnterSchedule(state[a])
      BY <1>0, <1>b, <3>3, EnterTypes
    <3> QED
      BY <1>0, <1>b, <3>1, <3>2, <3>3
  <2>2. signals' \in SignalTable /\ \A s \in Sid : signals'[s].waiting \in Live \cup {NULL}
    BY <1>0, <1>b
  <2> QED
    BY <1>0, <1>b, <2>1, <2>2, TypeStep
<1>1. CASE Boot
  <2>1. next_pid = 0 /\ next_pid \in Proc
    BY <1>0, <1>1 DEF Boot, TypeInv
  <2> DEFINE n == queue_append(mem, "run", next_pid)
  <2>2. n \in Memory /\ PointsInto(n, Live \cup {next_pid})
    <3>1. PointsInto(mem, Live \cup {next_pid}) /\ Live \cup {next_pid} \in SUBSET Proc
      BY <1>0, <2>1 DEF PointsInto
    <3> QED
      BY <1>0, <2>1, <3>1, AppendType, AppendInside DEF Queue
  <2>3. mem' = queue_dequeue(n, "run", next_pid)
    BY <1>1 DEF Boot
  <2> HIDE DEF n
  <2>4. mem' \in Memory /\ PointsInto(mem', Live \cup {next_pid})
    <3>1. Live \cup {next_pid} \in SUBSET Proc /\ "run" \in Queue
      BY <1>0, <2>1 DEF Queue
    <3> QED
      BY <2>1, <2>2, <2>3, <3>1, DequeueType, DequeueInside
  <2>5. next_pid # NULL
    BY <2>1, NullAssumption
  <2> QED
    BY <1>1, <1>a, <2>1, <2>4, <2>5 DEF Boot, Allocate, Block
<1>2. CASE create_process
  <2>1. next_pid \in Proc /\ host = "running"
    BY <1>0, <1>2 DEF create_process, Executing
  <2>2. /\ mem' \in Memory /\ PointsInto(mem', Live \cup {next_pid})
        /\ blocked' \in BOOLEAN /\ host' \in {host, "crashed"}
    <3>1. /\ PointsInto(mem, Live \cup {next_pid}) /\ Live \cup {next_pid} \in SUBSET Proc
          /\ "run" \in Queue /\ next_pid \in (Live \cup {next_pid}) \cup {NULL}
      BY <1>0, <2>1 DEF PointsInto, Queue
    <3>2. Appends(mem, "run", next_pid)
      BY <1>2 DEF create_process
    <3> QED
      BY <1>0, <3>1, <3>2, AppendsTypes
  <2>3. state' = [state EXCEPT ![next_pid] = "RUNNABLE"] /\ Allocate(next_pid)
        /\ UNCHANGED <<active_process, depth>>
    BY <1>2 DEF create_process, Allocate
  <2> QED
    BY <1>0, <1>a, <2>1, <2>2, <2>3
<1>3. CASE handleSigprof
  BY <1>b, <1>3 DEF handleSigprof, procVars
<1>4. CASE schedule_Switch
  <2> DEFINE next == select_next_process(mem)
  <2>1. /\ host = "running" /\ active_process' = next /\ next \in Live \cup {NULL}
        /\ UNCHANGED <<next_pid, state, waiting_for, signals, at, arg>>
    BY <1>0, <1>4 DEF schedule_Switch, procVars, select_next_process, PointsInto, Queue
  <2>2. CASE next = NULL
    BY <1>0, <1>4, <2>1, <2>2, TypeStep DEF schedule_Switch
  <2>3. CASE next # NULL
    <3>1. /\ mem' = queue_dequeue(mem, "run", next)
          /\ blocked' = (depth[next] = 0)
          /\ depth' = [depth EXCEPT ![next] = IF @ > 0 THEN @ - 1 ELSE 0]
          /\ host' = host
      BY <1>4, <2>3 DEF schedule_Switch
    <3>2. next \in Proc /\ "run" \in Queue
      BY <1>0, <2>1, <2>3 DEF Queue
    <3>3. mem' \in Memory /\ PointsInto(mem', Live)
      BY <1>0, <3>1, <3>2, DequeueType, DequeueInside
    <3>4. depth' \in [Proc -> 0..MaxDepth] /\ blocked' \in BOOLEAN
      BY <1>0, <3>1, <3>2, KernelAssumption
    <3> HIDE DEF next
    <3> QED
      BY <1>0, <2>1, <2>3, <3>1, <3>3, <3>4, TypeStep
  <2> QED
    BY <2>2, <2>3
<1>5. CASE println
  BY <1>0, <1>b, <1>5 DEF println, Executing, Unblock, procVars, ctxVars
<1>6. ASSUME NEW q \in Proc \cup {NoPid}, LookForZombie(q), host = "running"
      PROVE  TypeInv'
  <2>0. UNCHANGED <<next_pid, state, waiting_for, active_process, signals>>
    BY <1>6 DEF LookForZombie, procVars
  <2>1. CASE Loops("zombie", {q})
    <3>1. Stops("hung")
      BY <1>6, <2>1 DEF LookForZombie
    <3> QED
      BY <1>6, <1>b, <2>0, <3>1 DEF Stops, ctxVars
  <2>2. CASE ~ Loops("zombie", {q}) /\ Finds("zombie", {q})
    <3>1. mem' = queue_dequeue(mem, "zombie", q) /\ Goto("user", NoPid) /\ blocked' = FALSE
          /\ UNCHANGED <<depth, host>>
      BY <1>6, <2>2 DEF LookForZombie, Unblock
    <3>2. q \in Proc /\ "zombie" \in Queue
      BY <1>0, <2>2, VisitsInside DEF Finds, Found, Queue
    <3>3. mem' \in Memory /\ PointsInto(mem', Live)
      BY <1>0, <3>1, <3>2, DequeueType, DequeueInside
    <3>4. \E x, y : GoodPoint(x, y) /\ Goto(x, y)
      BY <3>1 DEF GoodPoint
    <3> QED
      BY <1>0, <1>6, <1>b, <2>0, <3>1, <3>3, <3>4
  <2>3. CASE ~ Loops("zombie", {q}) /\ ~ Finds("zombie", {q})
    <3>1. mem' = mem /\ Goto("w_block", q) /\ blocked' = FALSE /\ UNCHANGED <<depth, host>>
      BY <1>6, <2>3 DEF LookForZombie, Unblock
    <3>2. \E x, y : GoodPoint(x, y) /\ Goto(x, y)
      BY <1>6, <3>1 DEF GoodPoint, WaitpidPoints
    <3> QED
      BY <1>0, <1>6, <1>b, <2>0, <3>1, <3>2
  <2> QED
    BY <2>1, <2>2, <2>3
<1>7. CASE \E q \in Proc \cup {NoPid} : waitpid(q)
  BY <1>6, <1>7 DEF waitpid, Executing
<1>8. CASE waitpid_Again
  BY <1>0, <1>6, <1>8 DEF waitpid_Again, Executing, Here, WaitpidPoints
<1>9. CASE waitpid_State
  <2>1. host = "running" /\ at[a] = "w_block" /\ Goto("w_for", arg[a])
    BY <1>9 DEF waitpid_State, Executing, Here
  <2>2. \E x, y : GoodPoint(x, y) /\ Goto(x, y)
    BY <1>0, <2>1 DEF GoodPoint, WaitpidPoints
  <2>3. state' = [state EXCEPT ![a] = "BLOCKED"]
        /\ UNCHANGED <<next_pid, waiting_for, mem, active_process, signals, depth, blocked, host>>
    BY <1>9 DEF waitpid_State
  <2>4. /\ state' \in [Proc -> {"NONE", "RUNNABLE", "BLOCKED", "ZOMBIE"}]
        /\ \A p \in Proc : state'[p] = "NONE" <=> state[p] = "NONE"
    BY <1>0, <2>1, <2>3 DEF States
  <2> QED
    BY <1>0, <2>1, <2>2, <2>3, <2>4, TypeStep
<1>10. CASE waitpid_For
  <2>1. host = "running" /\ at[a] = "w_for" /\ Goto("w_sched", arg[a])
    BY <1>10 DEF waitpid_For, Executing, Here
  <2>2. \E x, y : GoodPoint(x, y) /\ Goto(x, y)
    BY <1>0, <2>1 DEF GoodPoint, WaitpidPoints
  <2>3. waiting_for' = [waiting_for EXCEPT ![a] = arg[a]]
        /\ UNCHANGED <<next_pid, state, mem, active_process, signals, depth, blocked, host>>
    BY <1>10 DEF waitpid_For
  <2>4. waiting_for' \in [Proc -> Proc \cup {NoPid}]
    BY <1>0, <2>1, <2>3 DEF WaitpidPoints
  <2> QED
    BY <1>0, <2>1, <2>2, <2>3, <2>4, TypeStep
<1>11. CASE waitpid_Schedule
  <2>1. host = "running" /\ at[a] = "w_sched" /\ Goto("w_again", arg[a])
    BY <1>11 DEF waitpid_Schedule, Executing, Here
  <2>2. \E x, y : GoodPoint(x, y) /\ Goto(x, y)
    BY <1>0, <2>1 DEF GoodPoint, WaitpidPoints
  <2> QED
    BY <1>b, <1>11, <2>1, <2>2 DEF waitpid_Schedule, procVars
<1>c. ASSUME host = "running", next_pid' = next_pid, UNCHANGED <<state, waiting_for, depth>>,
             mem' \in Memory, PointsInto(mem', Live), blocked' \in BOOLEAN,
             host' \in {"running", "crashed"}, active_process' = active_process,
             NEW s \in Sid,
             \/ signals' = signals
             \/ signals' = [signals EXCEPT ![s].used = FALSE]
             \/ signals' = [signals EXCEPT ![s].value = 1]
             \/ signals' = [signals EXCEPT ![s].value = 0]
             \/ signals' = [signals EXCEPT ![s].value = 0, ![s].waiting = NULL]
             \/ signals' = [signals EXCEPT ![s].waiting = NULL]
             \/ signals' = [signals EXCEPT ![s] = [used |-> TRUE, value |-> 0, waiting |-> NULL]],
             UNCHANGED <<at, arg>> \/ \E x, y : GoodPoint(x, y) /\ Goto(x, y)
      PROVE  TypeInv'
  <2>1. /\ signals' \in SignalTable
        /\ \A t \in Sid : signals'[t].waiting \in Live \cup {NULL}
    BY <1>c, SignalTypes
  <2> QED
    BY <1>0, <1>c, <2>1, TypeStep
<1>12. CASE mbs_signal_new
  <2>1. host = "running" /\ UNCHANGED <<procVars, mem, active_process, ctxVars, host>>
    BY <1>12 DEF mbs_signal_new, Executing
  <2>2. CASE FreeSids = {}
    BY <1>0, <1>b, <1>12, <2>1, <2>2 DEF mbs_signal_new, Unblock, procVars, ctxVars
  <2>3. CASE FreeSids # {}
    <3>1. NewSid \in Sid
      BY <2>3, NewSidFree DEF FreeSids
    <3>2. signals' = [signals EXCEPT ![NewSid] = [used |-> TRUE, value |-> 0, waiting |-> NULL]]
          /\ blocked' = TRUE
      BY <1>12, <2>3 DEF mbs_signal_new, Block
    <3> QED
      BY <1>0, <1>c, <2>1, <3>1, <3>2 DEF procVars, ctxVars
  <2> QED
    BY <2>2, <2>3
<1>13. CASE \E s \in Sid \cup {NoPid} : mbs_signal_free(s)
  <2>1. PICK s \in Sid \cup {NoPid} : mbs_signal_free(s)
    BY <1>13
  <2>2. host = "running" /\ UNCHANGED <<procVars, mem, active_process, ctxVars, host>>
    BY <2>1 DEF mbs_signal_free, Executing
  <2>3. CASE ValidSid(s)
    <3>1. s \in Sid /\ signals' = [signals EXCEPT ![s].used = FALSE] /\ blocked' = FALSE
      BY <2>1, <2>3 DEF mbs_signal_free, ValidSid, Unblock
    <3> QED
      BY <1>0, <1>c, <2>2, <3>1 DEF procVars, ctxVars
  <2>4. CASE ~ ValidSid(s)
    BY <1>0, <1>b, <2>1, <2>2, <2>4 DEF mbs_signal_free, Block, procVars, ctxVars
  <2> QED
    BY <2>3, <2>4
<1>14. CASE \E s \in Sid \cup {NoPid} : mbs_swait(s)
  <2>1. PICK s \in Sid \cup {NoPid} : mbs_swait(s)
    BY <1>14
  <2>2. host = "running" /\ UNCHANGED <<next_pid, waiting_for, active_process>>
    BY <2>1 DEF mbs_swait, Executing
  <2>3. CASE ~ ValidSid(s) \/ signals[s].waiting # NULL
    BY <1>0, <1>b, <2>1, <2>2, <2>3 DEF mbs_swait, Block, ctxVars
  <2>4. CASE ValidSid(s) /\ signals[s].waiting = NULL /\ signals[s].value = 0
    <3>1. /\ s \in Sid
          /\ signals' = [signals EXCEPT ![s].waiting = active_process]
          /\ state' = [state EXCEPT ![a] = "BLOCKED"]
          /\ EnterSchedule("BLOCKED") /\ Goto("s_value", s)
      BY <2>1, <2>4 DEF mbs_swait, ValidSid
    <3>2. /\ signals' \in SignalTable
          /\ \A t \in Sid : signals'[t].waiting \in Live \cup {NULL}
      BY <2>2, <3>1, SignalTypes
    <3>3. /\ state' \in [Proc -> {"NONE", "RUNNABLE", "BLOCKED", "ZOMBIE"}]
          /\ \A p \in Proc : state'[p] = "NONE" <=> state[p] = "NONE"
      BY <1>0, <2>2, <3>1 DEF States
    <3>4. /\ mem' \in Memory /\ PointsInto(mem', Live)
          /\ blocked' \in BOOLEAN
          /\ host' \in {"running", "crashed"}
          /\ depth' \in [Proc -> 0..MaxDepth]
      BY <2>2, <3>1, EnterTypes DEF States
    <3>5. \E x, y : GoodPoint(x, y) /\ Goto(x, y)
      BY <3>1 DEF GoodPoint, SwaitPoints
    <3> QED
      BY <1>0, <2>2, <3>2, <3>3, <3>4, <3>5, TypeStep
  <2>5. CASE ValidSid(s) /\ signals[s].waiting = NULL /\ signals[s].value # 0
    <3>1. /\ s \in Sid /\ signals' = [signals EXCEPT ![s].value = 0, ![s].waiting = NULL]
          /\ blocked' = TRUE /\ UNCHANGED <<state, mem, ctxVars, host>>
      BY <2>1, <2>5 DEF mbs_swait, ValidSid, Block
    <3> QED
      BY <1>0, <1>c, <2>2, <3>1 DEF ctxVars
  <2> QED
    BY <2>3, <2>4, <2>5
<1>15. CASE mbs_swait_Value
  <2>1. /\ host = "running" /\ arg[a] \in Sid
        /\ signals' = [signals EXCEPT ![arg[a]].value = 0] /\ Goto("s_waiting", arg[a])
        /\ UNCHANGED <<procVars, mem, active_process, depth, blocked, host>>
    BY <1>0, <1>15 DEF mbs_swait_Value, Executing, Here, SwaitPoints
  <2>2. \E x, y : GoodPoint(x, y) /\ Goto(x, y)
    BY <2>1 DEF GoodPoint, SwaitPoints
  <2> QED
    BY <1>0, <1>c, <2>1, <2>2 DEF procVars
<1>16. CASE mbs_swait_Waiting
  <2>1. /\ host = "running" /\ arg[a] \in Sid
        /\ signals' = [signals EXCEPT ![arg[a]].waiting = NULL] /\ Goto("user", NoPid)
        /\ UNCHANGED <<procVars, mem, active_process, depth, blocked, host>>
    BY <1>0, <1>16 DEF mbs_swait_Waiting, Executing, Here, SwaitPoints
  <2>2. \E x, y : GoodPoint(x, y) /\ Goto(x, y)
    BY <2>1 DEF GoodPoint
  <2> QED
    BY <1>0, <1>c, <2>1, <2>2 DEF procVars
<1>17. CASE \E s \in Sid \cup {NoPid} : mbs_signal(s)
  <2>1. PICK s \in Sid \cup {NoPid} : mbs_signal(s)
    BY <1>17
  <2> DEFINE w == signals[s].waiting
  <2>2. host = "running" /\ UNCHANGED <<next_pid, waiting_for, active_process>>
    BY <2>1 DEF mbs_signal, Executing
  <2>3. CASE ~ ValidSid(s)
    BY <1>0, <1>b, <2>1, <2>2, <2>3 DEF mbs_signal, Block, ctxVars
  <2>4. CASE ValidSid(s)
    <3>1. s \in Sid /\ signals' = [signals EXCEPT ![s].value = 1]
      BY <2>1, <2>4 DEF mbs_signal, ValidSid
    <3>2. CASE w = NULL
      <4>1. UNCHANGED <<state, mem, ctxVars, host>> /\ blocked' = FALSE
        BY <2>1, <2>4, <3>2 DEF mbs_signal, Unblock
      <4> QED
        BY <1>0, <1>c, <2>2, <3>1, <4>1 DEF ctxVars
    <3>3. CASE w # NULL
      <4>1. w \in Live /\ w \in Proc
        BY <1>0, <3>1, <3>3
      <4>2. state' = [state EXCEPT ![w] = "RUNNABLE"]
        BY <2>1, <2>4, <3>3 DEF mbs_signal
      <4>3. /\ state' \in [Proc -> {"NONE", "RUNNABLE", "BLOCKED", "ZOMBIE"}]
            /\ \A p \in Proc : state'[p] = "NONE" <=> state[p] = "NONE"
        BY <1>0, <4>1, <4>2 DEF Live
      <4>4. /\ signals' \in SignalTable
            /\ \A t \in Sid : signals'[t].waiting \in Live \cup {NULL}
        BY <2>2, <3>1, SignalTypes
      <4>5. /\ mem' \in Memory /\ PointsInto(mem', Live) /\ blocked' \in BOOLEAN
            /\ host' \in {"running", "hung", "crashed"} /\ UNCHANGED depth
            /\ UNCHANGED <<at, arg>> \/ Goto("sig_append", s)
        <5>1. CASE Loops("wait", {w})
          BY <1>0, <2>1, <2>2, <2>4, <3>3, <5>1 DEF mbs_signal, Stops, ctxVars
        <5>2. CASE ~ Loops("wait", {w}) /\ Finds("wait", {w})
          <6> DEFINE n == queue_dequeue(mem, "wait", w)
          <6>1. Appends(n, "run", w) /\ UNCHANGED ctxVars
            BY <2>1, <2>4, <3>3, <5>2 DEF mbs_signal
          <6>2. n \in Memory /\ PointsInto(n, Live) /\ "run" \in Queue /\ w \in Live \cup {NULL}
            BY <1>0, <4>1, DequeueType, DequeueInside DEF Queue
          <6> HIDE DEF n, w
          <6>3. mem' \in Memory /\ PointsInto(mem', Live) /\ blocked' \in BOOLEAN
                /\ host' \in {host, "crashed"}
            BY <1>0, <6>1, <6>2, AppendsTypes
          <6> QED
            BY <2>2, <6>1, <6>3 DEF ctxVars
        <5>3. CASE ~ Loops("wait", {w}) /\ ~ Finds("wait", {w})
          BY <1>0, <2>1, <2>2, <2>4, <3>3, <5>3 DEF mbs_signal, Unblock
        <5> QED
          BY <5>1, <5>2, <5>3
      <4>6. UNCHANGED <<at, arg>> \/ \E x, y : GoodPoint(x, y) /\ Goto(x, y)
        BY <3>1, <4>5 DEF GoodPoint
      <4> QED
        BY <1>0, <2>2, <4>3, <4>4, <4>5, <4>6, TypeStep
    <3> QED
      BY <3>2, <3>3
  <2> QED
    BY <2>3, <2>4
<1>18. CASE mbs_signal_Append
  <2> DEFINE w == signals[arg[a]].waiting
  <2>1. /\ host = "running" /\ arg[a] \in Sid /\ Appends(mem, "run", w) /\ Goto("user", NoPid)
        /\ UNCHANGED <<procVars, active_process, signals, depth>>
    BY <1>0, <1>18 DEF mbs_signal_Append, Executing, Here
  <2>2. w \in Live \cup {NULL} /\ "run" \in Queue
    BY <1>0, <2>1 DEF Queue
  <2>3. mem' \in Memory /\ PointsInto(mem', Live) /\ blocked' \in BOOLEAN /\ host' \in {host, "crashed"}
    BY <1>0, <2>1, <2>2, AppendsTypes
  <2>4. \E x, y : GoodPoint(x, y) /\ Goto(x, y)
    BY <2>1 DEF GoodPoint
  <2> QED
    BY <1>b, <2>1, <2>3, <2>4 DEF procVars
<1>19. CASE process_wrapper_State
  <2>1. host = "running" /\ Goto("x_search", NoPid)
        /\ state' = [state EXCEPT ![a] = "ZOMBIE"]
        /\ UNCHANGED <<next_pid, waiting_for, mem, active_process, signals, depth, blocked, host>>
    BY <1>19 DEF process_wrapper_State, Executing
  <2>2. \E x, y : GoodPoint(x, y) /\ Goto(x, y)
    BY <2>1 DEF GoodPoint
  <2>3. /\ state' \in [Proc -> {"NONE", "RUNNABLE", "BLOCKED", "ZOMBIE"}]
        /\ \A p \in Proc : state'[p] = "NONE" <=> state[p] = "NONE"
    BY <1>0, <2>1 DEF States
  <2> QED
    BY <1>0, <2>1, <2>2, <2>3, TypeStep
<1>20. CASE process_wrapper_Wake
  <2> DEFINE waiting == {x \in Proc : waiting_for[x] = a}
             w == Hit("wait", waiting)
  <2>1. host = "running" /\ UNCHANGED <<next_pid, waiting_for, active_process, signals>>
    BY <1>20 DEF process_wrapper_Wake, Executing
  <2>2. CASE Loops("wait", waiting)
    BY <1>b, <1>20, <2>1, <2>2 DEF process_wrapper_Wake, Stops, ctxVars
  <2>3. CASE ~ Loops("wait", waiting)
    <3>1. Goto("x_sched", NoPid) /\ UNCHANGED depth
      BY <1>20, <2>3 DEF process_wrapper_Wake
    <3>2. \E x, y : GoodPoint(x, y) /\ Goto(x, y)
      BY <3>1 DEF GoodPoint
    <3>3. CASE ~ Finds("wait", waiting)
      <4>1. UNCHANGED <<state, mem, host>> /\ blocked' = FALSE
        BY <1>20, <2>3, <3>3 DEF process_wrapper_Wake, Unblock
      <4> QED
        BY <1>0, <1>b, <2>1, <3>1, <3>2, <4>1
    <3>4. CASE Finds("wait", waiting)
      <4> DEFINE n == queue_dequeue(mem, "wait", w)
      <4>1. state' = [state EXCEPT ![w] = "RUNNABLE"] /\ Appends(n, "run", w)
        BY <1>20, <2>3, <3>4 DEF process_wrapper_Wake
      <4>2. w \in Live /\ w \in Proc
        <5>1. w \in Found(mem, "wait", waiting)
          BY <3>4 DEF Finds, Hit
        <5> QED
          BY <1>0, <5>1, VisitsInside DEF Queue
      <4>3. n \in Memory /\ PointsInto(n, Live) /\ "run" \in Queue /\ w \in Live \cup {NULL}
        BY <1>0, <4>2, DequeueType, DequeueInside DEF Queue
      <4> HIDE DEF n, w
      <4>4. mem' \in Memory /\ PointsInto(mem', Live) /\ blocked' \in BOOLEAN
            /\ host' \in {host, "crashed"}
        BY <1>0, <4>1, <4>3, AppendsTypes
      <4>5. /\ state' \in [Proc -> {"NONE", "RUNNABLE", "BLOCKED", "ZOMBIE"}]
            /\ \A p \in Proc : state'[p] = "NONE" <=> state[p] = "NONE"
        BY <1>0, <4>1, <4>2 DEF Live
      <4> QED
        BY <1>0, <2>1, <3>1, <3>2, <4>4, <4>5, TypeStep
    <3> QED
      BY <3>3, <3>4
  <2> QED
    BY <2>2, <2>3
<1>21. CASE process_wrapper_Schedule
  <2>1. host = "running" /\ Goto("x_done", NoPid)
    BY <1>21 DEF process_wrapper_Schedule, Executing
  <2>2. \E x, y : GoodPoint(x, y) /\ Goto(x, y)
    BY <2>1 DEF GoodPoint
  <2> QED
    BY <1>b, <1>21, <2>1, <2>2 DEF process_wrapper_Schedule, procVars
<1>22. CASE process_wrapper_Error
  BY <1>0, <1>22, TypeStep DEF process_wrapper_Error, Executing, procVars, ctxVars
<1>23. CASE Stopped \/ UNCHANGED vars
  <2>1. UNCHANGED <<next_pid, state, waiting_for, mem, active_process, signals, at, arg, depth,
                    blocked, host>>
    BY <1>23 DEF Stopped, vars, procVars, ctxVars
  <2> QED
    BY <2>1 DEF TypeInv, TypeOK, Live, PointsInto, InWaitpid, InSwait
<1> QED
  BY <1>1, <1>2, <1>3, <1>4, <1>5, <1>7, <1>8, <1>9, <1>10, <1>11, <1>12, <1>13, <1>14, <1>15,
     <1>16, <1>17, <1>18, <1>19, <1>20, <1>21, <1>22, <1>23
  DEF Next, Waitpid, Signals, ProcessWrapper

(* Every variable keeps its type for all programs and wherever the signal  *)
(* arrives: a damaged queue may lose processes, loop or crash, but it      *)
(* never holds a pointer to anything but a process that was created        *)
(* (process_manager.c:118-139, 174-267).                                   *)
THEOREM TypeCorrect == Spec => []TypeOK
<1>1. TypeInv => TypeOK
  BY DEF TypeInv
<1> QED
  BY <1>1, TypeInit, TypeNext, PTL DEF Spec

-----------------------------------------------------------------------------
(* Waiters, whatever the programs do and wherever the signal arrives       *)

WaiterInv == TypeInv /\ WaiterIsInSwait

(* A step keeps WaiterIsInSwait if it registers nobody and takes nobody    *)
(* but the active process out of a call that is not mbs_swait.             *)
LEMMA WaiterStep ==
    ASSUME WaiterInv, \A s \in Sid : signals'[s].waiting \in {NULL, signals[s].waiting},
           NEW p, ~ InSwait(p),
           \A r \in Proc \ {p} : at'[r] = at[r] /\ arg'[r] = arg[r]
    PROVE  WaiterIsInSwait'
<1> SUFFICES ASSUME NEW s \in Sid, signals'[s].waiting # NULL
             PROVE  InSwait(signals[s].waiting)' /\ (arg[signals[s].waiting])' = s
  BY DEF WaiterIsInSwait
<1>1. signals[s].waiting # NULL /\ signals'[s].waiting = signals[s].waiting
  OBVIOUS
<1>2. /\ signals[s].waiting \in Proc
      /\ at[signals[s].waiting] \in SwaitPoints
      /\ arg[signals[s].waiting] = s
  BY <1>1, TypeFacts DEF WaiterInv, WaiterIsInSwait, InSwait, SwaitPoints, SignalTable, Pointer
<1>3. signals[s].waiting # p
  BY <1>2 DEF InSwait, SwaitPoints
<1> QED
  BY <1>1, <1>2, <1>3 DEF InSwait, SwaitPoints

LEMMA WaiterNext == WaiterInv /\ [Next]_vars => WaiterInv'
<1> SUFFICES ASSUME WaiterInv, [Next]_vars PROVE WaiterIsInSwait'
  BY TypeNext DEF WaiterInv
<1> DEFINE a == active_process
<1>0. /\ TypeInv /\ signals \in SignalTable
      /\ at \in [Proc -> {"none", "user"} \cup Calls]
      /\ arg \in [Proc -> Proc \cup Sid \cup {NoPid}]
      /\ host = "running" => a \in Proc
      /\ next_pid \in Proc => at[next_pid] = "none"
  BY TypeFacts DEF WaiterInv
<1>a. ASSUME NEW p \in Proc, at[p] \notin SwaitPoints,
             UNCHANGED at \/ \E x : at' = [at EXCEPT ![p] = x],
             UNCHANGED arg \/ \E y : arg' = [arg EXCEPT ![p] = y],
             UNCHANGED signals
      PROVE  WaiterIsInSwait'
  <2>1. \A r \in Proc \ {p} : at'[r] = at[r] /\ arg'[r] = arg[r]
    BY <1>0, <1>a
  <2>2. ~ InSwait(p) /\ \A s \in Sid : signals'[s].waiting \in {NULL, signals[s].waiting}
    BY <1>a DEF InSwait, SwaitPoints
  <2> QED
    BY <2>1, <2>2, WaiterStep
<1>b. ASSUME UNCHANGED <<at, arg>>, \A s \in Sid : signals'[s].waiting \in {NULL, signals[s].waiting}
      PROVE  WaiterIsInSwait'
  <2> SUFFICES ASSUME NEW s \in Sid, signals'[s].waiting # NULL
               PROVE  InSwait(signals[s].waiting)' /\ (arg[signals[s].waiting])' = s
    BY DEF WaiterIsInSwait
  <2> QED
    BY <1>b DEF WaiterInv, WaiterIsInSwait, InSwait
<1>1. CASE Boot \/ create_process
  <2>1. Allocate(next_pid) /\ next_pid \in Proc
    BY <1>0, <1>1, KernelAssumption, TypeFacts DEF Boot, create_process, TypeInv
  <2> QED
    BY <1>0, <1>a, <2>1 DEF Allocate, SwaitPoints
<1>2. ASSUME NEW point \in Points \ (SwaitPoints \cup {"schedule"}), Executing(point),
             NEW x, NEW y, Goto(x, y), UNCHANGED signals
      PROVE  WaiterIsInSwait'
  <2>1. a \in Proc /\ at[a] = point /\ point \notin SwaitPoints
    BY <1>0, <1>2 DEF Executing, Here
  <2> QED
    BY <1>2, <1>a, <2>1 DEF Goto
<1>3. CASE \/ handleSigprof \/ schedule_Switch \/ println \/ process_wrapper_Error \/ Stopped
           \/ UNCHANGED vars
  BY <1>b, <1>3 DEF handleSigprof, schedule_Switch, println, process_wrapper_Error, Stopped,
                    vars, ctxVars
<1>4. ASSUME NEW q, NEW point \in {"user", "w_again"}, Executing(point), LookForZombie(q)
      PROVE  WaiterIsInSwait'
  <2>1. point \in Points \ (SwaitPoints \cup {"schedule"}) /\ UNCHANGED signals
    BY <1>4 DEF Points, Calls, SwaitPoints, LookForZombie
  <2>2. UNCHANGED <<at, arg>> \/ \E x, y : Goto(x, y)
    BY <1>4 DEF LookForZombie, Stops, ctxVars
  <2>3. CASE UNCHANGED <<at, arg>>
    BY <1>b, <2>1, <2>3
  <2>4. CASE \E x, y : Goto(x, y)
    BY <1>2, <1>4, <2>1, <2>4
  <2> QED
    BY <2>2, <2>3, <2>4
<1>5. CASE Waitpid
  <2>1. CASE \E q \in Proc \cup {NoPid} : waitpid(q)
    BY <1>4, <2>1 DEF waitpid
  <2>2. CASE waitpid_Again
    BY <1>4, <2>2 DEF waitpid_Again
  <2>3. CASE waitpid_State
    BY <1>2, <2>3 DEF waitpid_State, Points, Calls, SwaitPoints
  <2>4. CASE waitpid_For
    BY <1>2, <2>4 DEF waitpid_For, Points, Calls, SwaitPoints
  <2>5. CASE waitpid_Schedule
    BY <1>2, <2>5 DEF waitpid_Schedule, Points, Calls, SwaitPoints
  <2> QED
    BY <1>5, <2>1, <2>2, <2>3, <2>4, <2>5 DEF Waitpid
<1>6. CASE ProcessWrapper
  <2>1. CASE process_wrapper_State
    BY <1>2, <2>1 DEF process_wrapper_State, Points, Calls, SwaitPoints
  <2>2. CASE process_wrapper_Wake
    <3>1. UNCHANGED signals /\ (UNCHANGED <<at, arg>> \/ Goto("x_sched", NoPid))
      BY <2>2 DEF process_wrapper_Wake, Stops, ctxVars
    <3>2. Executing("x_search") /\ "x_search" \in Points \ (SwaitPoints \cup {"schedule"})
      BY <2>2 DEF process_wrapper_Wake, Points, Calls, SwaitPoints
    <3> QED
      BY <1>2, <1>b, <3>1, <3>2
  <2>3. CASE process_wrapper_Schedule
    BY <1>2, <2>3 DEF process_wrapper_Schedule, Points, Calls, SwaitPoints
  <2> QED
    BY <1>3, <1>6, <2>1, <2>2, <2>3 DEF ProcessWrapper
<1>7. CASE mbs_signal_new
  <2>1. FreeSids # {} => NewSid \in Sid
    BY NewSidFree DEF FreeSids
  <2>2. \A s \in Sid : signals'[s].waiting \in {NULL, signals[s].waiting}
    BY <1>0, <1>7, <2>1 DEF mbs_signal_new, SignalTable
  <2> QED
    BY <1>7, <1>b, <2>2 DEF mbs_signal_new, ctxVars
<1>8. CASE \E s \in Sid \cup {NoPid} : mbs_signal_free(s)
  <2>1. PICK s \in Sid \cup {NoPid} : mbs_signal_free(s)
    BY <1>8
  <2>2. \A t \in Sid : signals'[t].waiting \in {NULL, signals[t].waiting}
    BY <1>0, <2>1 DEF mbs_signal_free, SignalTable
  <2> QED
    BY <1>b, <2>1, <2>2 DEF mbs_signal_free, ctxVars
<1>9. CASE \E s \in Sid \cup {NoPid} : mbs_swait(s)
  <2>1. PICK s \in Sid \cup {NoPid} : mbs_swait(s)
    BY <1>9
  <2>2. CASE ValidSid(s) /\ signals[s].waiting = NULL /\ signals[s].value = 0
    <3>1. /\ s \in Sid /\ a \in Proc /\ at[a] = "user"
          /\ signals' = [signals EXCEPT ![s].waiting = a]
          /\ at' = [at EXCEPT ![a] = "s_value"] /\ arg' = [arg EXCEPT ![a] = s]
      BY <1>0, <2>1, <2>2 DEF mbs_swait, ValidSid, Executing, Here, Goto
    <3>2. /\ signals'[s].waiting = a /\ \A t \in Sid \ {s} : signals'[t].waiting = signals[t].waiting
          /\ at'[a] = "s_value" /\ arg'[a] = s
          /\ \A r \in Proc \ {a} : at'[r] = at[r] /\ arg'[r] = arg[r]
      BY <1>0, <3>1 DEF SignalTable
    <3> SUFFICES ASSUME NEW t \in Sid, signals'[t].waiting # NULL
                 PROVE  InSwait(signals[t].waiting)' /\ (arg[signals[t].waiting])' = t
      BY DEF WaiterIsInSwait
    <3>3. CASE t = s
      BY <3>2, <3>3 DEF InSwait
    <3>4. CASE t # s
      <4>1. /\ signals[t].waiting \in Proc
            /\ at[signals[t].waiting] \in SwaitPoints
            /\ arg[signals[t].waiting] = t
        BY <1>0, <3>2, <3>4 DEF WaiterInv, WaiterIsInSwait, InSwait, SwaitPoints, SignalTable, Pointer
      <4>2. signals[t].waiting # a
        BY <3>1, <4>1 DEF SwaitPoints
      <4> QED
        BY <3>2, <3>4, <4>1, <4>2 DEF InSwait, SwaitPoints
    <3> QED
      BY <3>3, <3>4
  <2>3. CASE ~ (ValidSid(s) /\ signals[s].waiting = NULL /\ signals[s].value = 0)
    <3>1. UNCHANGED ctxVars /\ (UNCHANGED signals \/
             (s \in Sid /\ signals' = [signals EXCEPT ![s].value = 0, ![s].waiting = NULL]))
      BY <2>1, <2>3 DEF mbs_swait, ValidSid
    <3>2. \A t \in Sid : signals'[t].waiting \in {NULL, signals[t].waiting}
      BY <1>0, <3>1 DEF SignalTable
    <3> QED
      BY <1>b, <3>1, <3>2 DEF ctxVars
  <2> QED
    BY <2>2, <2>3
<1>10. CASE mbs_swait_Value
  <2>1. /\ a \in Proc /\ at[a] = "s_value" /\ arg[a] \in Sid
        /\ signals' = [signals EXCEPT ![arg[a]].value = 0]
        /\ at' = [at EXCEPT ![a] = "s_waiting"] /\ arg' = [arg EXCEPT ![a] = arg[a]]
    BY <1>0, <1>10 DEF mbs_swait_Value, Executing, Here, Goto, TypeInv, InSwait
  <2>2. /\ \A t \in Sid : signals'[t].waiting = signals[t].waiting
        /\ arg' = arg /\ at'[a] = "s_waiting" /\ \A r \in Proc \ {a} : at'[r] = at[r]
    BY <1>0, <2>1 DEF SignalTable
  <2> SUFFICES ASSUME NEW t \in Sid, signals'[t].waiting # NULL
               PROVE  InSwait(signals[t].waiting)' /\ (arg[signals[t].waiting])' = t
    BY DEF WaiterIsInSwait
  <2>3. /\ signals[t].waiting \in Proc
        /\ at[signals[t].waiting] \in SwaitPoints
        /\ arg[signals[t].waiting] = t
    BY <1>0, <2>2 DEF WaiterInv, WaiterIsInSwait, InSwait, SwaitPoints, SignalTable, Pointer
  <2> QED
    BY <2>2, <2>3 DEF InSwait, SwaitPoints
<1>11. CASE mbs_swait_Waiting
  <2>1. /\ a \in Proc /\ at[a] = "s_waiting" /\ arg[a] \in Sid
        /\ signals' = [signals EXCEPT ![arg[a]].waiting = NULL]
        /\ at' = [at EXCEPT ![a] = "user"] /\ arg' = [arg EXCEPT ![a] = NoPid]
    BY <1>0, <1>11 DEF mbs_swait_Waiting, Executing, Here, Goto, TypeInv, InSwait
  <2>2. /\ signals'[arg[a]].waiting = NULL
        /\ \A t \in Sid \ {arg[a]} : signals'[t].waiting = signals[t].waiting
        /\ \A r \in Proc \ {a} : at'[r] = at[r] /\ arg'[r] = arg[r]
    BY <1>0, <2>1 DEF SignalTable
  <2> SUFFICES ASSUME NEW t \in Sid, signals'[t].waiting # NULL
               PROVE  InSwait(signals[t].waiting)' /\ (arg[signals[t].waiting])' = t
    BY DEF WaiterIsInSwait
  <2>3. t # arg[a] /\ signals'[t].waiting = signals[t].waiting
    BY <2>2
  <2>4. /\ signals[t].waiting \in Proc
        /\ at[signals[t].waiting] \in SwaitPoints
        /\ arg[signals[t].waiting] = t
    BY <1>0, <2>3 DEF WaiterInv, WaiterIsInSwait, InSwait, SwaitPoints, SignalTable, Pointer
  <2>5. signals[t].waiting # a
    BY <2>3, <2>4
  <2> QED
    BY <2>2, <2>3, <2>4, <2>5 DEF InSwait, SwaitPoints
<1>12. CASE \E s \in Sid \cup {NoPid} : mbs_signal(s)
  <2>1. PICK s \in Sid \cup {NoPid} : mbs_signal(s)
    BY <1>12
  <2>2. a \in Proc /\ at[a] = "user"
    BY <1>0, <2>1 DEF mbs_signal, Executing, Here
  <2>3. \A t \in Sid : signals'[t].waiting = signals[t].waiting
    <3>1. UNCHANGED signals \/ (s \in Sid /\ signals' = [signals EXCEPT ![s].value = 1])
      BY <2>1 DEF mbs_signal, ValidSid
    <3> QED
      BY <1>0, <3>1 DEF SignalTable
  <2>4. UNCHANGED <<at, arg>> \/ Goto("sig_append", s)
    BY <2>1 DEF mbs_signal, Stops, ctxVars
  <2>5. \A r \in Proc \ {a} : at'[r] = at[r] /\ arg'[r] = arg[r]
    BY <1>0, <2>4 DEF Goto
  <2>6. ~ InSwait(a)
    BY <2>2 DEF InSwait
  <2> QED
    BY <2>3, <2>5, <2>6, WaiterStep
<1>13. CASE mbs_signal_Append
  BY <1>2, <1>13 DEF mbs_signal_Append, Points, Calls, SwaitPoints
<1> QED
  BY <1>1, <1>3, <1>5, <1>6, <1>7, <1>8, <1>9, <1>10, <1>11, <1>12, <1>13 DEF Next, Signals

(* signals[].waiting never points to a process that has left mbs_swait,    *)
(* for all programs and wherever the signal arrives: mbs_signal never      *)
(* takes a process out of another call for one that waits for the variable *)
(* (syscalls.c:155-188).                                                   *)
THEOREM WaitersStayInSwait == Spec => []WaiterIsInSwait
<1>1. Init => WaiterInv
  BY TypeInit DEF Init, WaiterInv, WaiterIsInSwait
<1>2. WaiterInv => WaiterIsInSwait
  BY DEF WaiterInv
<1> QED
  BY <1>1, <1>2, WaiterNext, PTL DEF Spec

-----------------------------------------------------------------------------
(* Queues and states, for careful programs and a signal that does not      *)
(* arrive at the points it may do harm at                                  *)

(* The process has the processor, and schedule() has not filed it.         *)
OnCpu(p) == p = active_process /\ depth[p] = 0

(* Its state says in which queue a process is.                             *)
Placed(m, st, p) ==
    /\ p \in Members(m, "run") <=> st[p] = "RUNNABLE"
    /\ p \in Members(m, "wait") <=> st[p] = "BLOCKED"
    /\ p \in Members(m, "zombie") => st[p] = "ZOMBIE"

(* Where a process is, by its state; what does not run is in schedule() or *)
(* has not started, and is at none of the harmful points.                  *)
PlaceOf(p) ==
    /\ at[p] = "none" <=> state[p] = "NONE"
    /\ Ended(p) <=> state[p] = "ZOMBIE"
    /\ at[p] \in {"user", "w_block", "s_waiting"} => state[p] = "RUNNABLE"
    /\ at[p] = "w_for" => state[p] = "BLOCKED"
    /\ at[p] # "sig_append"
    /\ depth[p] \in {0, 1} /\ (at[p] = "none" => depth[p] = 0)
    /\ OnCpu(p) => /\ at[p] # "x_done"
                   /\ at[p] \in {"w_again", "s_value"} => state[p] = "RUNNABLE"
    /\ ~ OnCpu(p) => /\ at[p] \notin {"w_block", "w_for", "x_search"}
                     /\ depth[p] = 0 => at[p] \in {"none", "user"}

(* The inductive invariant: NoProcessLost needs to know that the queues    *)
(* are proper lists, and where a process can be when schedule() files it.  *)
KernelInv ==
    /\ TypeInv
    /\ host \in {"boot", "running", "exited"}
    /\ host # "running" => active_process = NULL
    /\ Proper(mem)
    /\ \A p \in Proc : PlaceOf(p)
    /\ \A p \in Proc : IF OnCpu(p) THEN \A q \in Queue : p \notin Members(mem, q)
                       ELSE Placed(mem, state, p)

LEMMA KernelFacts ==
    ASSUME KernelInv
    PROVE  /\ TypeInv /\ mem \in Memory /\ Proper(mem)
           /\ state \in [Proc -> {"NONE", "RUNNABLE", "BLOCKED", "ZOMBIE"}]
           /\ waiting_for \in [Proc -> Proc \cup {NoPid}]
           /\ signals \in SignalTable
           /\ at \in [Proc -> {"none", "user"} \cup Calls]
           /\ arg \in [Proc -> Proc \cup Sid \cup {NoPid}]
           /\ depth \in [Proc -> 0..MaxDepth]
           /\ active_process \in Pointer
           /\ host = "running" => active_process \in Proc
           /\ next_pid \in Proc => state[next_pid] = "NONE" /\ at[next_pid] = "none"
           /\ \A q \in Queue : Members(mem, q) \in SUBSET Proc
           /\ \A p \in Proc : PlaceOf(p)
           /\ \A p \in Proc : ~ OnCpu(p) => Placed(mem, state, p)
           /\ \A p \in Proc : OnCpu(p) => \A q \in Queue : p \notin Members(mem, q)
           /\ \A p \in Proc : /\ InWaitpid(p) => arg[p] \in Proc \cup {NoPid}
                              /\ InSwait(p) => arg[p] \in Sid
<1>1. TypeInv /\ mem \in Memory
  BY TypeFacts DEF KernelInv
<1>2. \A q \in Queue : Members(mem, q) \in SUBSET Proc
  BY <1>1, VisitedClosed DEF Members
<1>3. \A p \in Proc : ~ OnCpu(p) => Placed(mem, state, p)
  BY DEF KernelInv
<1>4. \A p \in Proc : OnCpu(p) => \A q \in Queue : p \notin Members(mem, q)
  BY DEF KernelInv
<1>5. \A p \in Proc : PlaceOf(p)
  BY DEF KernelInv
<1>6. \A p \in Proc : /\ InWaitpid(p) => arg[p] \in Proc \cup {NoPid}
                      /\ InSwait(p) => arg[p] \in Sid
  BY <1>1 DEF TypeInv
<1> QED
  BY <1>1, <1>2, <1>3, <1>4, <1>5, <1>6, TypeFacts DEF KernelInv

(* Which process runs.                                                     *)
LEMMA Running ==
    ASSUME KernelInv, NEW point \in Points, Executing(point)
    PROVE  /\ host = "running" /\ active_process \in Proc
           /\ point # "schedule" => OnCpu(active_process) /\ at[active_process] = point
           /\ point = "schedule" => depth[active_process] = 1 /\ \A p \in Proc : ~ OnCpu(p)
<1>1. /\ host = "running" /\ Here = point /\ active_process \in Proc
      /\ depth[active_process] \in {0, 1}
      /\ at[active_process] \in {"none", "user"} \cup Calls
  BY KernelFacts DEF Executing, PlaceOf
<1> QED
  BY <1>1 DEF Here, OnCpu, Calls

(* queue_append of a process that is in no queue succeeds.                 *)
LEMMA AppendsProper ==
    ASSUME NEW m \in Memory, Proper(m), NEW q \in Queue, NEW p \in Proc,
           \A r \in Queue : p \notin Members(m, r), Appends(m, q, p)
    PROVE  /\ mem' \in Memory /\ Proper(mem')
           /\ Members(mem', q) = Members(m, q) \cup {p}
           /\ \A r \in Queue \ {q} : Members(mem', r) = Members(m, r)
           /\ blocked' = FALSE /\ host' = host
<1>1. ~ AppendFaults(m, q)
  <2>1. m.first[q] # NULL => m.last[q] \in Members(m, q)
    BY DEF Proper, WellFormed
  <2>2. Members(m, q) \in SUBSET Proc
    BY VisitedClosed DEF Members
  <2> QED
    BY <2>1, <2>2, NullAssumption DEF AppendFaults
<1>2. mem' = queue_append(m, q, p) /\ blocked' = FALSE /\ host' = host
  BY <1>1, NullAssumption DEF Appends, Unblock
<1>3. LET n == queue_append(m, q, p)
      IN  /\ n \in Memory
          /\ Proper(n)
          /\ Members(n, q) = Members(m, q) \cup {p}
          /\ \A r \in Queue \ {q} : Members(n, r) = Members(m, r)
  BY AppendAdds
<1> QED
  BY <1>2, <1>3

(* The running process enters schedule().                                  *)
LEMMA EnterEffect ==
    ASSUME KernelInv, OnCpu(active_process), active_process \in Proc, NEW st \in States,
           EnterSchedule(st)
    PROVE  /\ mem' \in Memory /\ Proper(mem')
           /\ Members(mem', QueueOf(st)) = Members(mem, QueueOf(st)) \cup {active_process}
           /\ \A r \in Queue \ {QueueOf(st)} : Members(mem', r) = Members(mem, r)
           /\ depth' = [depth EXCEPT ![active_process] = 1]
           /\ host' = host
<1>1. /\ mem \in Memory /\ Proper(mem) /\ QueueOf(st) \in Queue
      /\ \A r \in Queue : active_process \notin Members(mem, r)
  BY KernelFacts DEF QueueOf, States, Queue
<1>2. Appends(mem, QueueOf(st), active_process)
  BY DEF EnterSchedule
<1>3. depth' = [depth EXCEPT ![active_process] = 1]
  BY DEF EnterSchedule, OnCpu
<1> QED
  BY <1>1, <1>2, <1>3, AppendsProper

(* queue_dequeue of a sleeping process and queue_append to run_queue.      *)
LEMMA WakeEffect ==
    ASSUME KernelInv, NEW w \in Members(mem, "wait"),
           Appends(queue_dequeue(mem, "wait", w), "run", w)
    PROVE  /\ mem' \in Memory /\ Proper(mem')
           /\ Members(mem', "run") = Members(mem, "run") \cup {w}
           /\ Members(mem', "wait") = Members(mem, "wait") \ {w}
           /\ Members(mem', "zombie") = Members(mem, "zombie")
           /\ host' = host
<1> DEFINE d == queue_dequeue(mem, "wait", w)
<1>1. mem \in Memory /\ Proper(mem) /\ w \in Proc
  BY KernelFacts DEF Queue
<1>2. /\ d \in Memory
      /\ Proper(d)
      /\ Members(d, "wait") = Members(mem, "wait") \ {w}
      /\ \A r \in Queue \ {"wait"} : Members(d, r) = Members(mem, r)
  BY <1>1, DequeueRemoves DEF Queue
<1> HIDE DEF d
<1>3. \A r \in Queue : w \notin Members(d, r)
  BY <1>1, <1>2 DEF Proper, Queue
<1>4. Appends(d, "run", w)
  BY DEF d
<1>5. /\ mem' \in Memory /\ Proper(mem')
      /\ Members(mem', "run") = Members(d, "run") \cup {w}
      /\ \A r \in Queue \ {"run"} : Members(mem', r) = Members(d, r)
      /\ host' = host
  BY <1>1, <1>2, <1>3, <1>4, AppendsProper DEF Queue
<1> QED
  BY <1>2, <1>5 DEF Queue

(* A search in a proper queue ends, and finds a member if there is one.    *)
LEMMA SearchEnds ==
    ASSUME KernelInv, NEW q \in Queue, NEW T
    PROVE  /\ ~ Loops(q, T)
           /\ Finds(q, T) => Hit(q, T) \in Members(mem, q) \cap T
           /\ ~ Finds(q, T) => Members(mem, q) \cap T = {}
<1>1. mem \in Memory /\ WellFormed(mem, q)
  BY KernelFacts DEF Proper
<1>2. ~ Endless(mem, q)
  BY <1>1, ProperEnds
<1>3. /\ Found(mem, q, T) \subseteq Members(mem, q) \cap T
      /\ Found(mem, q, T) = {} => Members(mem, q) \cap T = {}
  BY <1>1, FoundInMembers
<1>4. Finds(q, T) => Hit(q, T) \in Found(mem, q, T)
  BY DEF Finds, Hit
<1> QED
  BY <1>2, <1>3, <1>4 DEF Loops, Finds

(* What the actions that touch the queues do.                              *)
LEMMA SwitchEffect ==
    ASSUME KernelInv, schedule_Switch
    PROVE  /\ host = "running" /\ active_process \in Proc /\ depth[active_process] = 1
           /\ \A p \in Proc : ~ OnCpu(p)
           /\ UNCHANGED <<next_pid, state, waiting_for, signals, at, arg>>
           /\ mem' \in Memory /\ Proper(mem')
           /\ \A r \in Queue \ {"run"} : Members(mem', r) = Members(mem, r)
           /\ \/ /\ host' = "exited" /\ active_process' = NULL /\ depth' = depth
                 /\ Members(mem', "run") = Members(mem, "run")
              \/ /\ host' = "running" /\ active_process' \in Members(mem, "run")
                 /\ state[active_process'] = "RUNNABLE"
                 /\ depth' = [depth EXCEPT ![active_process'] = 0]
                 /\ Members(mem', "run") = Members(mem, "run") \ {active_process'}
<1> DEFINE next == select_next_process(mem)
<1>1. /\ host = "running" /\ active_process \in Proc /\ depth[active_process] = 1
      /\ \A p \in Proc : ~ OnCpu(p)
  BY Running DEF schedule_Switch, Executing, Points
<1>2. UNCHANGED <<next_pid, state, waiting_for, signals, at, arg>> /\ active_process' = next
  BY DEF schedule_Switch, procVars
<1>3. mem \in Memory /\ Proper(mem) /\ depth \in [Proc -> 0..MaxDepth]
  BY KernelFacts
<1>4. CASE next = NULL
  BY <1>1, <1>2, <1>3, <1>4 DEF schedule_Switch
<1>5. CASE next # NULL
  <2>1. /\ mem' = queue_dequeue(mem, "run", next)
        /\ depth' = [depth EXCEPT ![next] = IF depth[next] > 0 THEN depth[next] - 1 ELSE 0]
        /\ host' = host
    BY <1>5 DEF schedule_Switch
  <2>2. next \in Members(mem, "run")
    BY <1>3, <1>5, VisitedClosed DEF select_next_process, Members, Queue
  <2>3. next \in Proc /\ state[next] = "RUNNABLE" /\ depth[next] \in {0, 1}
    BY <1>1, <2>2, KernelFacts DEF Placed, PlaceOf, Queue
  <2> HIDE DEF next
  <2>4. depth' = [depth EXCEPT ![next] = 0]
    <3>1. (IF depth[next] > 0 THEN depth[next] - 1 ELSE 0) = 0
      BY <2>3
    <3> QED
      BY <2>1, <3>1
  <2>5. /\ mem' \in Memory /\ Proper(mem')
        /\ Members(mem', "run") = Members(mem, "run") \ {next}
        /\ \A r \in Queue \ {"run"} : Members(mem', r) = Members(mem, r)
    BY <1>3, <2>1, <2>2, DequeueRemoves DEF Queue
  <2> QED
    BY <1>1, <1>2, <2>1, <2>2, <2>3, <2>4, <2>5
<1> QED
  BY <1>4, <1>5

LEMMA LookEffect ==
    ASSUME KernelInv, NEW q, LookForZombie(q)
    PROVE  /\ UNCHANGED <<next_pid, state, waiting_for, active_process, signals, depth, host>>
           /\ mem' \in Memory /\ Proper(mem')
           /\ \A r \in Queue \ {"zombie"} : Members(mem', r) = Members(mem, r)
           /\ Members(mem', "zombie") = Members(mem, "zombie") \ {q}
           /\ \/ q \in Members(mem, "zombie") /\ Goto("user", NoPid)
              \/ q \notin Members(mem, "zombie") /\ Goto("w_block", q)
<1>1. ~ Loops("zombie", {q}) /\ mem \in Memory /\ Proper(mem) /\ "zombie" \in Queue
  BY SearchEnds, KernelFacts DEF Queue
<1>2. UNCHANGED <<next_pid, state, waiting_for, active_process, signals, depth, host>>
  BY <1>1 DEF LookForZombie, procVars
<1>3. CASE Finds("zombie", {q})
  <2>1. q \in Members(mem, "zombie")
    <3>1. Hit("zombie", {q}) \in Members(mem, "zombie") \cap {q}
      BY <1>1, <1>3, SearchEnds
    <3> QED
      BY <3>1
  <2>2. mem' = queue_dequeue(mem, "zombie", q) /\ Goto("user", NoPid)
    BY <1>1, <1>3 DEF LookForZombie
  <2>3. /\ mem' \in Memory /\ Proper(mem')
        /\ Members(mem', "zombie") = Members(mem, "zombie") \ {q}
        /\ \A r \in Queue \ {"zombie"} : Members(mem', r) = Members(mem, r)
    BY <1>1, <2>1, <2>2, DequeueRemoves
  <2> QED
    BY <1>2, <2>1, <2>2, <2>3
<1>4. CASE ~ Finds("zombie", {q})
  <2>1. q \notin Members(mem, "zombie")
    <3>1. Members(mem, "zombie") \cap {q} = {}
      BY <1>1, <1>4, SearchEnds
    <3> QED
      BY <3>1
  <2>2. mem' = mem /\ Goto("w_block", q)
    BY <1>1, <1>4 DEF LookForZombie
  <2> QED
    BY <1>1, <1>2, <2>1, <2>2
<1> QED
  BY <1>3, <1>4

(* mbs_signal finds the registered process asleep: by the obligation it is *)
(* blocked, and what is blocked and does not run is in wait_queue.         *)
LEMMA SignalEffect ==
    ASSUME KernelInv, NEW s, mbs_signal(s), ValidSid(s) => MaySignal(s)
    PROVE  /\ OnCpu(active_process) /\ active_process \in Proc /\ at[active_process] = "user"
           /\ host = "running"
           /\ UNCHANGED <<next_pid, waiting_for, active_process, at, arg, depth, host>>
           /\ \/ UNCHANGED <<signals, mem, state>>
              \/ /\ s \in Sid /\ signals[s].used /\ signals[s].waiting = NULL
                 /\ signals' = [signals EXCEPT ![s].value = 1] /\ UNCHANGED <<mem, state>>
              \/ \E w \in Members(mem, "wait") :
                    /\ s \in Sid /\ signals[s].used /\ signals[s].waiting = w
                    /\ w \in Proc /\ state[w] = "BLOCKED"
                    /\ signals' = [signals EXCEPT ![s].value = 1]
                    /\ state' = [state EXCEPT ![w] = "RUNNABLE"]
                    /\ Appends(queue_dequeue(mem, "wait", w), "run", w)
<1> DEFINE w == signals[s].waiting
<1>1. /\ OnCpu(active_process) /\ active_process \in Proc /\ at[active_process] = "user"
      /\ host = "running"
  BY Running DEF mbs_signal, Points
<1>2. UNCHANGED <<next_pid, waiting_for, active_process>>
  BY DEF mbs_signal
<1>3. CASE ~ ValidSid(s)
  BY <1>1, <1>2, <1>3 DEF mbs_signal, ctxVars
<1>4. CASE ValidSid(s) /\ w = NULL
  BY <1>1, <1>2, <1>4 DEF mbs_signal, ctxVars, ValidSid
<1>5. CASE ValidSid(s) /\ w # NULL
  <2>1. /\ s \in Sid /\ signals[s].used /\ w \in Proc /\ state[w] = "BLOCKED"
    BY <1>5, KernelFacts DEF mbs_signal, ValidSid, MaySignal, SignalTable, Pointer
  <2>2. /\ signals' = [signals EXCEPT ![s].value = 1]
        /\ state' = [state EXCEPT ![w] = "RUNNABLE"]
    BY <1>5 DEF mbs_signal
  <2>3. w \in Members(mem, "wait")
    <3>1. w # active_process
      BY <1>1, <2>1, KernelFacts DEF PlaceOf
    <3>2. ~ OnCpu(w)
      BY <3>1 DEF OnCpu
    <3> QED
      BY <2>1, <3>2, KernelFacts DEF Placed
  <2>4. ~ Loops("wait", {w}) /\ Finds("wait", {w})
    <3>1. ~ Loops("wait", {w}) /\ (~ Finds("wait", {w}) => Members(mem, "wait") \cap {w} = {})
      BY SearchEnds DEF Queue
    <3> QED
      BY <2>3, <3>1
  <2>5. Appends(queue_dequeue(mem, "wait", w), "run", w) /\ UNCHANGED ctxVars
    BY <1>5, <2>4 DEF mbs_signal
  <2>6. host' = host
    BY <2>3, <2>5, WakeEffect
  <2> HIDE DEF w
  <2>7. signals[s].waiting = w
    BY DEF w
  <2>8. UNCHANGED <<next_pid, waiting_for, active_process, at, arg, depth, host>>
    BY <1>2, <2>5, <2>6 DEF ctxVars
  <2> QED
    BY <1>1, <2>1, <2>2, <2>3, <2>5, <2>7, <2>8
<1> QED
  BY <1>3, <1>4, <1>5

(* The end of a process wakes one that sleeps and whose waiting_for is its *)
(* pid, if there is any.                                                   *)
LEMMA EndEffect ==
    ASSUME KernelInv, process_wrapper_Wake
    PROVE  /\ OnCpu(active_process) /\ active_process \in Proc /\ at[active_process] = "x_search"
           /\ host = "running"
           /\ Goto("x_sched", NoPid)
           /\ UNCHANGED <<next_pid, waiting_for, active_process, signals, depth, host>>
           /\ \/ /\ \A x \in Members(mem, "wait") : waiting_for[x] # active_process
                 /\ UNCHANGED <<state, mem>>
              \/ \E w \in Members(mem, "wait") :
                    /\ w \in Proc /\ waiting_for[w] = active_process
                    /\ state' = [state EXCEPT ![w] = "RUNNABLE"]
                    /\ Appends(queue_dequeue(mem, "wait", w), "run", w)
<1> DEFINE waiting == {x \in Proc : waiting_for[x] = active_process}
           w == Hit("wait", waiting)
<1>1. /\ OnCpu(active_process) /\ active_process \in Proc /\ at[active_process] = "x_search"
      /\ host = "running"
  BY Running DEF process_wrapper_Wake, Points, Calls
<1>2. UNCHANGED <<next_pid, waiting_for, active_process, signals>>
  BY DEF process_wrapper_Wake
<1>3. /\ ~ Loops("wait", waiting)
      /\ Finds("wait", waiting) => w \in Members(mem, "wait") \cap waiting
      /\ ~ Finds("wait", waiting) => Members(mem, "wait") \cap waiting = {}
  BY SearchEnds DEF Queue
<1>4. Goto("x_sched", NoPid) /\ UNCHANGED depth
  BY <1>3 DEF process_wrapper_Wake
<1>5. CASE ~ Finds("wait", waiting)
  <2>1. UNCHANGED <<state, mem, host>>
    BY <1>3, <1>5 DEF process_wrapper_Wake
  <2>2. \A x \in Members(mem, "wait") : waiting_for[x] # active_process
    BY <1>3, <1>5, KernelFacts DEF Queue
  <2> QED
    BY <1>1, <1>2, <1>4, <2>1, <2>2
<1>6. CASE Finds("wait", waiting)
  <2>1. /\ state' = [state EXCEPT ![w] = "RUNNABLE"]
        /\ Appends(queue_dequeue(mem, "wait", w), "run", w)
    BY <1>3, <1>6 DEF process_wrapper_Wake
  <2>2. w \in Members(mem, "wait") /\ w \in Proc /\ waiting_for[w] = active_process
    BY <1>3, <1>6
  <2> HIDE DEF w
  <2>3. host' = host
    BY <2>1, <2>2, WakeEffect
  <2> QED
    BY <1>1, <1>2, <1>4, <2>1, <2>2, <2>3
<1> QED
  BY <1>5, <1>6

LEMMA KernelInit == Init => KernelInv
<1> SUFFICES ASSUME Init PROVE KernelInv
  OBVIOUS
<1>1. \A q \in Queue : Members(mem, q) = {} /\ mem.first[q] = NULL
  BY DEF Init, EmptyQueues, Members, Visited
<1>2. Proper(mem)
  BY <1>1 DEF Proper, WellFormed
<1>3. \A p \in Proc : p # active_process /\ PlaceOf(p)
  BY NullAssumption DEF Init, PlaceOf, Ended, OnCpu
<1> QED
  BY <1>1, <1>2, <1>3, TypeInit DEF Init, KernelInv, Placed, Queue

(* Where the running process may be and in which state.                    *)
RunsAt(x, st) ==
    \/ x \in {"user", "w_block", "s_waiting"} /\ st = "RUNNABLE"
    \/ x = "w_for" /\ st = "BLOCKED"
    \/ x = "w_sched" /\ st \in {"RUNNABLE", "BLOCKED"}
    \/ x \in {"x_search", "x_sched"} /\ st = "ZOMBIE"

(* Where a process may be filed and by which state.                        *)
FiledAt(x, st) ==
    \/ x \in {"user", "s_waiting"} /\ st = "RUNNABLE"
    \/ x \in {"w_sched", "w_again", "s_value"} /\ st \in {"RUNNABLE", "BLOCKED"}
    \/ x \in {"x_sched", "x_done"} /\ st = "ZOMBIE"

(* A step of the running process that leaves it the processor; it may wake *)
(* others.                                                                 *)
LEMMA RunStep ==
    ASSUME KernelInv, TypeInv', OnCpu(active_process), active_process \in Proc,
           host = "running", UNCHANGED <<active_process, depth, host>>,
           Proper(mem'), \A q \in Queue : active_process \notin Members(mem', q),
           \A p \in Proc \ {active_process} :
               /\ at'[p] = at[p]
               /\ state'[p] = state[p] \/ (state[p] = "BLOCKED" /\ state'[p] = "RUNNABLE")
               /\ Placed(mem', state', p),
           RunsAt(at'[active_process], state'[active_process])
    PROVE  KernelInv'
<1>1. \A p \in Proc : OnCpu(p)' <=> OnCpu(p)
  BY DEF OnCpu
<1>2. PlaceOf(active_process)'
  BY KernelFacts DEF OnCpu, RunsAt, PlaceOf, Ended
<1>3. ASSUME NEW p \in Proc \ {active_process} PROVE PlaceOf(p)'
  <2>1. PlaceOf(p) /\ ~ OnCpu(p)
    BY KernelFacts DEF OnCpu
  <2> QED
    BY <1>1, <1>3, <2>1 DEF PlaceOf, Ended
<1>4. \A p \in Proc : PlaceOf(p)'
  BY <1>2, <1>3
<1>5. \A p \in Proc : IF OnCpu(p)' THEN \A q \in Queue : p \notin Members(mem', q)
                      ELSE Placed(mem', state', p)
  BY <1>1 DEF OnCpu
<1> QED
  BY <1>4, <1>5 DEF KernelInv

(* A step of the running process that ends in schedule().                  *)
LEMMA EnterStep ==
    ASSUME KernelInv, TypeInv', OnCpu(active_process), active_process \in Proc,
           host = "running", UNCHANGED active_process,
           NEW st \in States, EnterSchedule(st), state'[active_process] = st,
           \A p \in Proc \ {active_process} : at'[p] = at[p] /\ state'[p] = state[p],
           FiledAt(at'[active_process], st)
    PROVE  KernelInv'
<1>0. depth \in [Proc -> 0..MaxDepth]
  BY KernelFacts
<1>1. /\ mem' \in Memory /\ Proper(mem')
      /\ Members(mem', QueueOf(st)) = Members(mem, QueueOf(st)) \cup {active_process}
      /\ \A r \in Queue \ {QueueOf(st)} : Members(mem', r) = Members(mem, r)
      /\ depth' = [depth EXCEPT ![active_process] = 1]
      /\ host' = host
  BY EnterEffect
<1>2. \A p \in Proc : ~ OnCpu(p)'
  BY <1>0, <1>1 DEF OnCpu
<1>3. /\ depth'[active_process] = 1
      /\ \A p \in Proc \ {active_process} : depth'[p] = depth[p] /\ ~ OnCpu(p)
  BY <1>0, <1>1 DEF OnCpu
<1>4. PlaceOf(active_process)'
  BY <1>2, <1>3 DEF FiledAt, PlaceOf, Ended
<1>5. ASSUME NEW p \in Proc \ {active_process} PROVE PlaceOf(p)' /\ Placed(mem', state', p)
  <2>1. PlaceOf(p) /\ Placed(mem, state, p)
    BY <1>3, KernelFacts
  <2>2. PlaceOf(p)'
    BY <1>2, <1>3, <2>1 DEF PlaceOf, Ended
  <2>3. \A r \in Queue : p \in Members(mem', r) <=> p \in Members(mem, r)
    BY <1>1
  <2> QED
    BY <2>1, <2>2, <2>3 DEF Placed, Queue
<1>6. Placed(mem', state', active_process)
  <2>1. \A r \in Queue : active_process \notin Members(mem, r)
    BY KernelFacts
  <2>2. QueueOf(st) \in Queue /\ \A r \in Queue : active_process \in Members(mem', r) <=> r = QueueOf(st)
    BY <1>1, <2>1 DEF QueueOf, States, Queue
  <2> QED
    BY <2>2 DEF Placed, QueueOf, States, Queue
<1>7. \A p \in Proc : PlaceOf(p)' /\ Placed(mem', state', p)
  BY <1>4, <1>5, <1>6
<1> QED
  BY <1>1, <1>2, <1>7 DEF KernelInv

(* A step of the running process that wakes w and otherwise moves only     *)
(* itself.                                                                 *)
LEMMA WakeStep ==
    ASSUME KernelInv, TypeInv', OnCpu(active_process), active_process \in Proc,
           host = "running", UNCHANGED <<active_process, depth>>,
           NEW w \in Members(mem, "wait"), w \in Proc,
           Appends(queue_dequeue(mem, "wait", w), "run", w),
           state' = [state EXCEPT ![w] = "RUNNABLE"],
           \A p \in Proc \ {active_process} : at'[p] = at[p],
           RunsAt(at'[active_process], state[active_process])
    PROVE  KernelInv'
<1>0. /\ state \in [Proc -> {"NONE", "RUNNABLE", "BLOCKED", "ZOMBIE"}]
      /\ \A q \in Queue : active_process \notin Members(mem, q)
      /\ \A p \in Proc \ {active_process} : Placed(mem, state, p)
  BY KernelFacts DEF OnCpu
<1>1. /\ Proper(mem')
      /\ Members(mem', "run") = Members(mem, "run") \cup {w}
      /\ Members(mem', "wait") = Members(mem, "wait") \ {w}
      /\ Members(mem', "zombie") = Members(mem, "zombie")
      /\ host' = host
  BY WakeEffect
<1>2. w # active_process /\ state[w] = "BLOCKED" /\ state'[w] = "RUNNABLE"
      /\ w \notin Members(mem, "zombie")
      /\ \A p \in Proc \ {w} : state'[p] = state[p]
  BY <1>0 DEF Placed, Queue
<1>3. ASSUME NEW p \in Proc \ {active_process} PROVE Placed(mem', state', p)
  <2>1. CASE p = w
    BY <1>1, <1>2, <2>1 DEF Placed
  <2>2. CASE p # w
    <3>1. Placed(mem, state, p) /\ state'[p] = state[p]
      BY <1>0, <1>2, <1>3, <2>2
    <3> QED
      BY <1>1, <2>2, <3>1 DEF Placed
  <2> QED
    BY <2>1, <2>2
<1>4. \A q \in Queue : active_process \notin Members(mem', q)
  BY <1>0, <1>1, <1>2 DEF Queue
<1>5. state'[active_process] = state[active_process]
  BY <1>2
<1> QED
  BY <1>1, <1>2, <1>3, <1>4, <1>5, RunStep

(* Steps of programs that keep the obligations, with the signal at none of *)
(* the harmful points.  What is proved of such steps holds of all careful  *)
(* programs, and of those of processes.c, which are shown to be careful.   *)
KeptTick == handleSigprof /\ Here \notin Harmful

KeptWaitpid ==
    \/ \E q \in Proc \cup {NoPid} : waitpid(q) /\ MayWaitpid(q)
    \/ waitpid_State \/ waitpid_For \/ waitpid_Schedule \/ waitpid_Again

KeptSignals ==
    \/ mbs_signal_new
    \/ \E s \in Sid \cup {NoPid} :
          \/ mbs_signal_free(s) /\ MayFree(s)
          \/ mbs_swait(s)
          \/ mbs_signal(s) /\ (ValidSid(s) => MaySignal(s))
    \/ mbs_swait_Value \/ mbs_swait_Waiting \/ mbs_signal_Append

KeptWrapper ==
    \/ process_wrapper_State /\ MayExit(active_process)
    \/ process_wrapper_Wake \/ process_wrapper_Schedule \/ process_wrapper_Error

KeptNext ==
    \/ Boot \/ KeptTick \/ schedule_Switch \/ println \/ create_process
    \/ KeptWaitpid \/ KeptSignals \/ KeptWrapper \/ Stopped

LEMMA KeptIsNext == [KeptNext]_vars => [Next]_vars
BY DEF KeptNext, KeptTick, KeptWaitpid, KeptSignals, KeptWrapper,
       Next, Waitpid, Signals, ProcessWrapper

LEMMA CarefulIsKept ==
    ASSUME Careful, TickAt \cap Harmful = {}
    PROVE  [Next]_vars => [KeptNext]_vars
<1>1. handleSigprof => KeptTick
  BY DEF handleSigprof, KeptTick
<1>2. Waitpid => KeptWaitpid
  BY DEF Waitpid, KeptWaitpid, waitpid
<1>3. Signals => KeptSignals
  BY DEF Signals, KeptSignals, mbs_signal_free, mbs_signal
<1>4. ProcessWrapper => KeptWrapper
  BY DEF ProcessWrapper, KeptWrapper, process_wrapper_State
<1> QED
  BY <1>1, <1>2, <1>3, <1>4 DEF Next, KeptNext

LEMMA KernelNext == KernelInv /\ [KeptNext]_vars => KernelInv'
<1> SUFFICES ASSUME KernelInv, [KeptNext]_vars PROVE KernelInv'
  OBVIOUS
<1> DEFINE a == active_process
<1>0. /\ TypeInv /\ TypeInv'
      /\ mem \in Memory /\ Proper(mem)
      /\ state \in [Proc -> {"NONE", "RUNNABLE", "BLOCKED", "ZOMBIE"}]
      /\ at \in [Proc -> {"none", "user"} \cup Calls]
      /\ depth \in [Proc -> 0..MaxDepth]
      /\ host = "running" => a \in Proc
      /\ next_pid \in Proc => state[next_pid] = "NONE" /\ at[next_pid] = "none"
      /\ \A p \in Proc : PlaceOf(p)
      /\ \A p \in Proc : ~ OnCpu(p) => Placed(mem, state, p)
      /\ \A p \in Proc : OnCpu(p) => \A q \in Queue : p \notin Members(mem, q)
  <2>1. TypeInv
    BY KernelFacts
  <2> QED
    BY <2>1, KernelFacts, TypeNext, KeptIsNext
<1>a. ASSUME NEW point \in Points \ {"schedule"}, Executing(point)
      PROVE  host = "running" /\ a \in Proc /\ OnCpu(a) /\ at[a] = point
  BY <1>a, Running
<1>b. ASSUME NEW point \in Points \ {"schedule"}, Executing(point),
             UNCHANGED <<active_process, depth, host, mem>>,
             UNCHANGED state \/ \E st : state' = [state EXCEPT ![a] = st],
             UNCHANGED at \/ \E x, y : Goto(x, y),
             RunsAt(at'[a], state'[a])
      PROVE  KernelInv'
  <2>1. host = "running" /\ a \in Proc /\ OnCpu(a)
    BY <1>a, <1>b
  <2>2. \A q \in Queue : a \notin Members(mem', q)
    BY <1>0, <1>b, <2>1
  <2>3. \A p \in Proc \ {a} : at'[p] = at[p] /\ state'[p] = state[p] /\ Placed(mem', state', p)
    <3>1. \A p \in Proc \ {a} : at'[p] = at[p] /\ state'[p] = state[p]
      BY <1>0, <1>b DEF Goto
    <3>2. \A p \in Proc \ {a} : Placed(mem, state, p)
      BY <1>0 DEF OnCpu
    <3> QED
      BY <1>b, <3>1, <3>2 DEF Placed
  <2> QED
    BY <1>0, <1>b, <2>1, <2>2, <2>3, RunStep
<1>1. CASE Boot
  <2>1. /\ next_pid = 0 /\ next_pid \in Proc /\ host = "boot" /\ a = NULL
        /\ \A p \in Proc : state[p] = "NONE" /\ at[p] = "none" /\ ~ OnCpu(p)
        /\ \A p \in Proc : \A q \in Queue : p \notin Members(mem, q)
    <3>1. next_pid = 0 /\ next_pid \in Proc /\ host = "boot" /\ a = NULL
      BY <1>0, <1>1, KernelAssumption DEF Boot, TypeInv, KernelInv
    <3>2. \A p \in Proc : state[p] = "NONE" /\ at[p] = "none"
      BY <1>0, <3>1, TypeFacts DEF TypeInv
    <3>3. \A p \in Proc : ~ OnCpu(p)
      BY <3>1, NullAssumption DEF OnCpu
    <3> QED
      BY <1>0, <3>1, <3>2, <3>3 DEF Placed, Queue
  <2> DEFINE n == queue_append(mem, "run", next_pid)
  <2>2. /\ n \in Memory /\ Proper(n)
        /\ Members(n, "run") = Members(mem, "run") \cup {next_pid}
        /\ \A r \in Queue \ {"run"} : Members(n, r) = Members(mem, r)
    BY <1>0, <2>1, AppendAdds DEF Queue
  <2>3. mem' = queue_dequeue(n, "run", next_pid) /\ active_process' = next_pid
        /\ state' = [state EXCEPT ![next_pid] = "RUNNABLE"] /\ host' = "running"
        /\ at' = [at EXCEPT ![next_pid] = "user"] /\ depth' = depth
    BY <1>1 DEF Boot, Allocate
  <2> HIDE DEF n
  <2>4. /\ Proper(mem') /\ \A q \in Queue : Members(mem', q) = {}
    <3>1. \A q \in Queue : Members(mem, q) = {}
      BY <2>1, KernelFacts
    <3>2. /\ Proper(mem')
          /\ Members(mem', "run") = Members(n, "run") \ {next_pid}
          /\ \A r \in Queue \ {"run"} : Members(mem', r) = Members(n, r)
      BY <2>2, <2>3, DequeueRemoves DEF Queue
    <3> QED
      BY <2>2, <3>1, <3>2 DEF Queue
  <2>a. \A p \in Proc : depth'[p] = 0
    BY <1>0, <2>1, <2>3 DEF PlaceOf
  <2>5. \A p \in Proc : PlaceOf(p)'
    <3>1. state'[next_pid] = "RUNNABLE" /\ at'[next_pid] = "user"
          /\ \A p \in Proc \ {next_pid} : state'[p] = "NONE" /\ at'[p] = "none"
      BY <1>0, <2>1, <2>3
    <3> QED
      BY <2>a, <3>1 DEF PlaceOf, Ended
  <2>6. \A p \in Proc \ {next_pid} : Placed(mem', state', p)
    BY <1>0, <2>1, <2>3, <2>4 DEF Placed, Queue
  <2>7. \A p \in Proc : p = next_pid => OnCpu(p)'
    BY <2>a, <2>1, <2>3 DEF OnCpu
  <2>8. \A p \in Proc : IF OnCpu(p)' THEN \A q \in Queue : p \notin Members(mem', q)
                        ELSE Placed(mem', state', p)
    BY <2>4, <2>6, <2>7
  <2> QED
    BY <1>0, <2>3, <2>4, <2>5, <2>8 DEF KernelInv
<1>2. CASE create_process
  <2>1. Executing("user") /\ "user" \in Points \ {"schedule"} /\ next_pid \in Proc
    BY <1>0, <1>2, TypeFacts DEF create_process, Points
  <2>2. host = "running" /\ a \in Proc /\ OnCpu(a) /\ at[a] = "user"
    BY <2>1, <1>a
  <2>3. /\ state[next_pid] = "NONE" /\ at[next_pid] = "none" /\ next_pid # a
        /\ depth[next_pid] = 0
    BY <1>0, <2>1, <2>2 DEF PlaceOf
  <2>4. \A r \in Queue : next_pid \notin Members(mem, r)
    BY <1>0, <2>1, <2>3 DEF Placed, OnCpu, Queue
  <2>5. /\ Appends(mem, "run", next_pid) /\ state' = [state EXCEPT ![next_pid] = "RUNNABLE"]
        /\ at' = [at EXCEPT ![next_pid] = "user"] /\ depth' = depth /\ active_process' = a
    BY <1>2 DEF create_process, Allocate
  <2>6. /\ Proper(mem')
        /\ Members(mem', "run") = Members(mem, "run") \cup {next_pid}
        /\ \A r \in Queue \ {"run"} : Members(mem', r) = Members(mem, r)
        /\ host' = host
    BY <1>0, <2>1, <2>4, <2>5, AppendsProper DEF Queue
  <2>7. ASSUME NEW p \in Proc
        PROVE  /\ PlaceOf(p)'
               /\ IF OnCpu(p)' THEN \A q \in Queue : p \notin Members(mem', q)
                  ELSE Placed(mem', state', p)
    <3>0. OnCpu(p)' <=> OnCpu(p)
      BY <2>5 DEF OnCpu
    <3>1. CASE p = next_pid
      <4>1. ~ OnCpu(p) /\ state'[p] = "RUNNABLE" /\ at'[p] = "user" /\ depth'[p] = 0
        BY <1>0, <2>1, <2>3, <2>5, <3>1 DEF OnCpu
      <4>2. PlaceOf(p)'
        BY <3>0, <4>1 DEF PlaceOf, Ended
      <4>3. Placed(mem', state', p)
        BY <2>4, <2>6, <3>1, <4>1 DEF Placed, Queue
      <4> QED
        BY <3>0, <4>1, <4>2, <4>3
    <3>2. CASE p # next_pid
      <4>1. state'[p] = state[p] /\ at'[p] = at[p] /\ depth'[p] = depth[p] /\ PlaceOf(p)
        BY <1>0, <2>1, <2>5, <2>7, <3>2
      <4>2. PlaceOf(p)'
        BY <3>0, <4>1 DEF PlaceOf, Ended
      <4>3. \A r \in Queue : p \in Members(mem', r) <=> p \in Members(mem, r)
        BY <2>6, <3>2
      <4>4. IF OnCpu(p) THEN \A q \in Queue : p \notin Members(mem', q)
            ELSE Placed(mem', state', p)
        BY <1>0, <2>7, <4>1, <4>3 DEF Placed, Queue
      <4> QED
        BY <3>0, <4>2, <4>4
    <3> QED
      BY <3>1, <3>2
  <2> QED
    BY <1>0, <2>2, <2>5, <2>6, <2>7 DEF KernelInv
<1>3. CASE KeptTick
  <2>1. /\ host = "running" /\ Here \in TickAt /\ EnterSchedule(state[a])
        /\ UNCHANGED <<procVars, active_process, signals, at, arg>>
    BY <1>3 DEF KeptTick, handleSigprof
  <2>2. Here \in Points \ {"schedule"} /\ Executing(Here) /\ Here \notin Harmful
    BY <1>3, <2>1, KernelAssumption DEF Executing, KeptTick, Harmful
  <2>3. a \in Proc /\ OnCpu(a) /\ at[a] \in Points \ Harmful
    BY <1>a, <2>2
  <2>4. PlaceOf(a) /\ state[a] \in States /\ FiledAt(at[a], state[a])
    <3>1. PlaceOf(a) /\ state[a] \in {"NONE", "RUNNABLE", "BLOCKED", "ZOMBIE"}
      BY <1>0, <2>3
    <3> QED
      BY <2>3, <3>1 DEF PlaceOf, Ended, States, FiledAt, Points, Calls, Harmful
  <2> QED
    BY <1>0, <2>1, <2>3, <2>4, EnterStep DEF procVars
<1>4. CASE schedule_Switch
  <2>1. /\ host = "running" /\ a \in Proc /\ depth[a] = 1
        /\ \A p \in Proc : ~ OnCpu(p)
        /\ UNCHANGED <<next_pid, state, waiting_for, signals, at, arg>>
        /\ mem' \in Memory /\ Proper(mem')
        /\ \A r \in Queue \ {"run"} : Members(mem', r) = Members(mem, r)
    BY <1>4, SwitchEffect
  <2>2. \A p \in Proc : PlaceOf(p) /\ Placed(mem, state, p)
    BY <1>0, <2>1
  <2>3. CASE /\ host' = "exited" /\ active_process' = NULL /\ depth' = depth
             /\ Members(mem', "run") = Members(mem, "run")
    <3>1. \A p \in Proc : ~ OnCpu(p)'
      BY <2>3, NullAssumption DEF OnCpu
    <3>2. \A p \in Proc : PlaceOf(p)' /\ Placed(mem', state', p)
      BY <2>1, <2>2, <2>3, <3>1 DEF PlaceOf, Ended, Placed, Queue
    <3> QED
      BY <1>0, <2>1, <2>3, <3>1, <3>2 DEF KernelInv
  <2>4. ASSUME host' = "running", NEW next \in Members(mem, "run"), active_process' = next,
               state[next] = "RUNNABLE", depth' = [depth EXCEPT ![next] = 0],
               Members(mem', "run") = Members(mem, "run") \ {next}
        PROVE  KernelInv'
    <3>1. next \in Proc /\ next \notin Members(mem, "wait") /\ next \notin Members(mem, "zombie")
      BY <2>2, <2>4, KernelFacts DEF Placed, Queue
    <3>2. /\ depth'[next] = 0 /\ \A p \in Proc \ {next} : depth'[p] = depth[p]
          /\ \A p \in Proc : OnCpu(p)' <=> p = next
      BY <1>0, <2>4, <3>1 DEF OnCpu
    <3>3. \A p \in Proc : PlaceOf(p)'
      <4>1. PlaceOf(next)'
        BY <2>1, <2>2, <2>4, <3>1, <3>2 DEF PlaceOf, Ended
      <4>2. ASSUME NEW p \in Proc \ {next} PROVE PlaceOf(p)'
        BY <2>1, <2>2, <3>2, <4>2 DEF PlaceOf, Ended
      <4> QED
        BY <4>1, <4>2
    <3>4. \A q \in Queue : next \notin Members(mem', q)
      BY <2>1, <2>4, <3>1 DEF Queue
    <3>5. \A p \in Proc \ {next} : Placed(mem', state', p)
      BY <2>1, <2>2, <2>4 DEF Placed, Queue
    <3>6. \A p \in Proc : IF OnCpu(p)' THEN \A q \in Queue : p \notin Members(mem', q)
                          ELSE Placed(mem', state', p)
      BY <3>2, <3>4, <3>5
    <3> QED
      BY <1>0, <2>1, <2>4, <3>3, <3>6 DEF KernelInv
  <2> QED
    BY <1>4, <2>3, <2>4, SwitchEffect
<1>5. CASE println
  <2>1. Executing("user") /\ "user" \in Points \ {"schedule"}
        /\ UNCHANGED <<procVars, mem, active_process, signals, ctxVars, host>>
    BY <1>5 DEF println, Points
  <2>2. a \in Proc /\ OnCpu(a) /\ at[a] = "user"
    BY <1>a, <2>1
  <2>3. RunsAt(at'[a], state'[a])
    BY <1>0, <2>1, <2>2 DEF PlaceOf, RunsAt, procVars, ctxVars
  <2> QED
    BY <1>b, <2>1, <2>3 DEF procVars, ctxVars
<1>6. ASSUME NEW q, NEW point \in {"user", "w_again"}, Executing(point), LookForZombie(q)
      PROVE  KernelInv'
  <2>1. host = "running" /\ a \in Proc /\ OnCpu(a) /\ at[a] = point
    BY <1>6, <1>a DEF Points, Calls
  <2>2. /\ UNCHANGED <<next_pid, state, waiting_for, active_process, signals, depth, host>>
        /\ mem' \in Memory /\ Proper(mem')
        /\ \A r \in Queue \ {"zombie"} : Members(mem', r) = Members(mem, r)
        /\ Members(mem', "zombie") = Members(mem, "zombie") \ {q}
        /\ \/ Goto("user", NoPid)
           \/ Goto("w_block", q)
    BY <1>6, LookEffect
  <2>3. \A r \in Queue : a \notin Members(mem', r)
    BY <1>0, <2>1, <2>2 DEF Queue
  <2>4. ASSUME NEW p \in Proc \ {a}
        PROVE  at'[p] = at[p] /\ state'[p] = state[p] /\ Placed(mem', state', p)
    <3>1. Placed(mem, state, p)
      BY <1>0, <2>4 DEF OnCpu
    <3> QED
      BY <1>0, <2>2, <2>4, <3>1 DEF Placed, Goto, Queue
  <2>5. RunsAt(at'[a], state'[a])
    <3>1. at'[a] \in {"user", "w_block"} /\ state'[a] = state[a]
      BY <1>0, <2>1, <2>2 DEF Goto
    <3>2. state[a] = "RUNNABLE"
      BY <1>0, <1>6, <2>1 DEF PlaceOf
    <3> QED
      BY <3>1, <3>2 DEF RunsAt
  <2> QED
    BY <1>0, <2>1, <2>2, <2>3, <2>4, <2>5, RunStep
<1>7. CASE KeptWaitpid
  <2>1. CASE \E q \in Proc \cup {NoPid} : waitpid(q)
    BY <1>6, <2>1 DEF waitpid
  <2>2. CASE waitpid_Again
    BY <1>6, <2>2 DEF waitpid_Again
  <2>3. CASE waitpid_State
    <3>1. /\ Executing("w_block") /\ "w_block" \in Points \ {"schedule"}
          /\ state' = [state EXCEPT ![a] = "BLOCKED"] /\ Goto("w_for", arg[a])
          /\ UNCHANGED <<active_process, depth, host, mem>>
      BY <2>3 DEF waitpid_State, Points, Calls
    <3>2. a \in Proc
      BY <1>a, <3>1
    <3>3. RunsAt(at'[a], state'[a])
      BY <1>0, <3>1, <3>2 DEF RunsAt, Goto
    <3> QED
      BY <1>b, <3>1, <3>3
  <2>4. CASE waitpid_For
    <3>1. /\ Executing("w_for") /\ "w_for" \in Points \ {"schedule"} /\ Goto("w_sched", arg[a])
          /\ UNCHANGED <<active_process, depth, host, mem, state>>
      BY <2>4 DEF waitpid_For, Points, Calls
    <3>2. a \in Proc /\ at[a] = "w_for"
      BY <1>a, <3>1
    <3>3. RunsAt(at'[a], state'[a])
      BY <1>0, <3>1, <3>2 DEF RunsAt, Goto, PlaceOf
    <3> QED
      BY <1>b, <3>1, <3>3
  <2>5. CASE waitpid_Schedule
    <3>1. /\ Executing("w_sched") /\ "w_sched" \in Points \ {"schedule"}
          /\ EnterSchedule(state[a]) /\ Goto("w_again", arg[a])
          /\ UNCHANGED <<active_process, state>>
      BY <2>5 DEF waitpid_Schedule, Points, Calls, procVars
    <3>2. host = "running" /\ a \in Proc /\ OnCpu(a) /\ at[a] = "w_sched"
      BY <1>a, <3>1
    <3>3. state[a] \in {"RUNNABLE", "BLOCKED"}
      BY <1>0, <3>2 DEF PlaceOf, Ended
    <3>4. at'[a] = "w_again" /\ \A p \in Proc \ {a} : at'[p] = at[p]
      BY <1>0, <3>1, <3>2 DEF Goto
    <3>5. state[a] \in States /\ FiledAt(at'[a], state[a])
      BY <3>3, <3>4 DEF FiledAt, States
    <3> QED
      BY <1>0, <3>1, <3>2, <3>4, <3>5, EnterStep
  <2> QED
    BY <1>7, <2>1, <2>2, <2>3, <2>4, <2>5 DEF KeptWaitpid
<1>8. ASSUME Executing("user"), UNCHANGED <<state, mem, active_process, at, depth, host>>
      PROVE  KernelInv'
  <2>1. a \in Proc /\ OnCpu(a) /\ at[a] = "user" /\ "user" \in Points \ {"schedule"}
    BY <1>a, <1>8 DEF Points
  <2>2. RunsAt(at'[a], state'[a])
    BY <1>0, <1>8, <2>1 DEF PlaceOf, RunsAt
  <2> QED
    BY <1>b, <1>8, <2>1, <2>2
<1>9. CASE KeptSignals
  <2>1. CASE mbs_signal_new
    BY <1>8, <2>1 DEF mbs_signal_new, procVars, ctxVars
  <2>2. CASE \E s \in Sid \cup {NoPid} : mbs_signal_free(s)
    BY <1>8, <2>2 DEF mbs_signal_free, procVars, ctxVars
  <2>3. CASE \E s \in Sid \cup {NoPid} : mbs_swait(s)
    <3>1. PICK s \in Sid \cup {NoPid} : mbs_swait(s)
      BY <2>3
    <3>2. Executing("user") /\ UNCHANGED active_process
      BY <3>1 DEF mbs_swait
    <3>3. CASE UNCHANGED <<state, mem, ctxVars, host>>
      BY <1>8, <3>2, <3>3 DEF ctxVars
    <3>4. CASE /\ state' = [state EXCEPT ![a] = "BLOCKED"]
               /\ EnterSchedule("BLOCKED") /\ Goto("s_value", s)
      <4>1. host = "running" /\ a \in Proc /\ OnCpu(a)
        BY <1>a, <3>2 DEF Points
      <4>2. /\ at'[a] = "s_value" /\ state'[a] = "BLOCKED"
            /\ \A p \in Proc \ {a} : at'[p] = at[p] /\ state'[p] = state[p]
        BY <1>0, <3>4, <4>1 DEF Goto
      <4>3. "BLOCKED" \in States /\ FiledAt(at'[a], "BLOCKED")
        BY <4>2 DEF FiledAt, States
      <4> QED
        BY <1>0, <3>2, <3>4, <4>1, <4>2, <4>3, EnterStep
    <3> QED
      BY <3>1, <3>3, <3>4 DEF mbs_swait
  <2>4. CASE \E s \in Sid \cup {NoPid} : mbs_signal(s) /\ (ValidSid(s) => MaySignal(s))
    <3>1. PICK s \in Sid \cup {NoPid} : mbs_signal(s) /\ (ValidSid(s) => MaySignal(s))
      BY <2>4
    <3>2. /\ Executing("user") /\ OnCpu(a) /\ a \in Proc /\ host = "running" /\ at[a] = "user"
          /\ UNCHANGED <<active_process, at, depth, host>>
      BY <3>1, SignalEffect DEF mbs_signal
    <3>3. CASE UNCHANGED <<mem, state>>
      BY <1>8, <3>2, <3>3
    <3>4. ASSUME NEW w \in Members(mem, "wait"), w \in Proc,
                 state' = [state EXCEPT ![w] = "RUNNABLE"],
                 Appends(queue_dequeue(mem, "wait", w), "run", w)
          PROVE  KernelInv'
      <4>1. RunsAt(at'[a], state[a])
        BY <1>0, <3>2 DEF PlaceOf, RunsAt
      <4> QED
        BY <1>0, <3>2, <3>4, <4>1, WakeStep
    <3> QED
      BY <3>1, <3>3, <3>4, SignalEffect
  <2>5. CASE mbs_swait_Value
    <3>1. /\ Executing("s_value") /\ "s_value" \in Points \ {"schedule"}
          /\ Goto("s_waiting", arg[a])
          /\ UNCHANGED <<active_process, depth, host, mem, state>>
      BY <2>5 DEF mbs_swait_Value, Points, Calls, procVars
    <3>2. a \in Proc /\ OnCpu(a) /\ at[a] = "s_value"
      BY <1>a, <3>1
    <3>3. RunsAt(at'[a], state'[a])
      BY <1>0, <3>1, <3>2 DEF RunsAt, Goto, PlaceOf
    <3> QED
      BY <1>b, <3>1, <3>3
  <2>6. CASE mbs_swait_Waiting
    <3>1. /\ Executing("s_waiting") /\ "s_waiting" \in Points \ {"schedule"}
          /\ Goto("user", NoPid)
          /\ UNCHANGED <<active_process, depth, host, mem, state>>
      BY <2>6 DEF mbs_swait_Waiting, Points, Calls, procVars
    <3>2. a \in Proc /\ OnCpu(a) /\ at[a] = "s_waiting"
      BY <1>a, <3>1
    <3>3. RunsAt(at'[a], state'[a])
      BY <1>0, <3>1, <3>2 DEF RunsAt, Goto, PlaceOf
    <3> QED
      BY <1>b, <3>1, <3>3
  <2>7. CASE mbs_signal_Append
    <3>1. a \in Proc /\ at[a] = "sig_append"
      BY <2>7, <1>a DEF mbs_signal_Append, Points, Calls
    <3> QED
      BY <1>0, <3>1 DEF PlaceOf
  <2> QED
    BY <1>9, <2>1, <2>2, <2>3, <2>4, <2>5, <2>6, <2>7 DEF KeptSignals
<1>10. CASE KeptWrapper
  <2>1. CASE process_wrapper_State
    <3>1. /\ Executing("user") /\ "user" \in Points \ {"schedule"}
          /\ state' = [state EXCEPT ![a] = "ZOMBIE"] /\ Goto("x_search", NoPid)
          /\ UNCHANGED <<active_process, depth, host, mem>>
      BY <2>1 DEF process_wrapper_State, Points
    <3>2. a \in Proc
      BY <1>a, <3>1
    <3>3. RunsAt(at'[a], state'[a])
      BY <1>0, <3>1, <3>2 DEF RunsAt, Goto
    <3> QED
      BY <1>b, <3>1, <3>3
  <2>2. CASE process_wrapper_Wake
    <3>1. /\ OnCpu(a) /\ a \in Proc /\ at[a] = "x_search" /\ host = "running"
          /\ Goto("x_sched", NoPid)
          /\ UNCHANGED <<active_process, depth, host>>
      BY <2>2, EndEffect
    <3>2. /\ at'[a] = "x_sched" /\ \A p \in Proc \ {a} : at'[p] = at[p]
          /\ state[a] = "ZOMBIE" /\ RunsAt(at'[a], state[a])
      <4>1. at'[a] = "x_sched" /\ \A p \in Proc \ {a} : at'[p] = at[p]
        BY <1>0, <3>1 DEF Goto
      <4>2. state[a] = "ZOMBIE"
        BY <1>0, <3>1 DEF PlaceOf, Ended
      <4> QED
        BY <4>1, <4>2 DEF RunsAt
    <3>3. CASE UNCHANGED <<state, mem>>
      <4>1. Executing("x_search") /\ "x_search" \in Points \ {"schedule"}
        BY <2>2 DEF process_wrapper_Wake, Points, Calls
      <4> QED
        BY <1>b, <3>1, <3>2, <3>3, <4>1
    <3>4. ASSUME NEW w \in Members(mem, "wait"), w \in Proc,
                 state' = [state EXCEPT ![w] = "RUNNABLE"],
                 Appends(queue_dequeue(mem, "wait", w), "run", w)
          PROVE  KernelInv'
      BY <1>0, <3>1, <3>2, <3>4, WakeStep
    <3> QED
      BY <2>2, <3>3, <3>4, EndEffect
  <2>3. CASE process_wrapper_Schedule
    <3>1. /\ Executing("x_sched") /\ "x_sched" \in Points \ {"schedule"}
          /\ EnterSchedule(state[a]) /\ Goto("x_done", NoPid)
          /\ UNCHANGED <<active_process, state>>
      BY <2>3 DEF process_wrapper_Schedule, Points, Calls, procVars
    <3>2. host = "running" /\ a \in Proc /\ OnCpu(a) /\ at[a] = "x_sched"
      BY <1>a, <3>1
    <3>3. state[a] = "ZOMBIE"
      BY <1>0, <3>2 DEF PlaceOf, Ended
    <3>4. at'[a] = "x_done" /\ \A p \in Proc \ {a} : at'[p] = at[p]
      BY <1>0, <3>1, <3>2 DEF Goto
    <3>5. state[a] \in States /\ FiledAt(at'[a], state[a])
      BY <3>3, <3>4 DEF FiledAt, States
    <3> QED
      BY <1>0, <3>1, <3>2, <3>4, <3>5, EnterStep
  <2>4. CASE process_wrapper_Error
    <3>1. a \in Proc /\ OnCpu(a) /\ at[a] = "x_done"
      BY <2>4, <1>a DEF process_wrapper_Error, Points, Calls
    <3> QED
      BY <1>0, <3>1 DEF PlaceOf
  <2> QED
    BY <1>10, <2>1, <2>2, <2>3, <2>4 DEF KeptWrapper
<1>11. CASE Stopped \/ UNCHANGED vars
  <2>1. UNCHANGED vars
    BY <1>11 DEF Stopped
  <2> QED
    BY <1>0, <2>1
    DEF vars, procVars, ctxVars, KernelInv, PlaceOf, Ended, OnCpu, Placed
<1> QED
  BY <1>1, <1>2, <1>3, <1>4, <1>5, <1>7, <1>9, <1>10, <1>11 DEF KeptNext

LEMMA KernelInvariant ==
    ASSUME Careful, TickAt \cap Harmful = {}
    PROVE  Spec => []KernelInv
<1>1. KernelInv /\ [Next]_vars => KernelInv'
  BY KernelNext, CarefulIsKept
<1> QED
  BY <1>1, KernelInit, PTL DEF Spec

LEMMA KernelKeeps == KernelInv => NoProcessLost
<1> SUFFICES ASSUME KernelInv, NEW p \in Proc
             PROVE  /\ p \in Members(mem, "run") <=> state[p] = "RUNNABLE" /\ Waits(p)
                    /\ p \in Members(mem, "wait") <=> state[p] = "BLOCKED" /\ Waits(p)
                    /\ p \in Members(mem, "zombie") => state[p] = "ZOMBIE" /\ Waits(p)
  BY DEF NoProcessLost
<1>1. Waits(p) <=> ~ OnCpu(p)
  <2>1. depth[p] \in {0, 1} /\ at[p] \in {"none", "user"} \cup Calls
    BY KernelFacts DEF PlaceOf
  <2> QED
    BY <2>1 DEF Waits, Here, OnCpu, Calls
<1> QED
  BY <1>1, KernelFacts DEF Placed, Queue

(* No process is lost or filed twice, although schedule() may run on the   *)
(* stack of any process that is in a call or in its own code: what does    *)
(* not run is in the queue of its state (process_manager.c:118-139).       *)
THEOREM ProcessesAreKept ==
    ASSUME Careful, TickAt \cap Harmful = {}
    PROVE  Spec => []NoProcessLost
<1>1. KernelInv => NoProcessLost
  BY KernelKeeps
<1> QED
  BY <1>1, KernelInvariant, PTL

(* The queues stay lists, so that no search of them runs into a null       *)
(* pointer or around a circle for ever, and the exit(FAILURE) of           *)
(* process_wrapper is never reached (process_manager.c:108-109, 173-267).  *)
THEOREM KernelNeverBreaks ==
    ASSUME Careful, TickAt \cap Harmful = {}
    PROVE  Spec => [](Proper(mem) /\ host \notin {"failed", "hung", "crashed"})
<1>1. KernelInv => Proper(mem) /\ host \notin {"failed", "hung", "crashed"}
  BY DEF KernelInv
<1> QED
  BY <1>1, KernelInvariant, PTL

LEMMA KernelResumes == KernelInv => ZombieNeverResumed
<1> SUFFICES ASSUME KernelInv, Executing("x_done") PROVE FALSE
  BY DEF ZombieNeverResumed
<1>1. active_process \in Proc /\ OnCpu(active_process) /\ at[active_process] = "x_done"
  BY Running DEF Points, Calls
<1> QED
  BY <1>1, KernelFacts DEF PlaceOf

(* schedule() never returns into a process that has ended, so that the     *)
(* exit(FAILURE) after it is dead code (process_manager.c:108-109).        *)
THEOREM NoZombieResumes ==
    ASSUME Careful, TickAt \cap Harmful = {}
    PROVE  Spec => []ZombieNeverResumed
<1>1. KernelInv => ZombieNeverResumed
  BY KernelResumes
<1> QED
  BY <1>1, KernelInvariant, PTL

-----------------------------------------------------------------------------
(* Signal variables                                                        *)

(* A process inside mbs_swait is registered with its variable until it     *)
(* leaves; while it sleeps no signal has been sent.                        *)
SwaitInv ==
    \A p \in Proc : InSwait(p) =>
        /\ signals[arg[p]].used /\ signals[arg[p]].waiting = p
        /\ state[p] = "BLOCKED" => signals[arg[p]].value = 0

(* A step that takes nobody into mbs_swait and leaves the variables alone  *)
(* for which somebody is registered.                                       *)
LEMMA SwaitStep ==
    ASSUME SwaitInv,
           \A p \in Proc : at'[p] \in SwaitPoints =>
               /\ at[p] \in SwaitPoints /\ arg'[p] = arg[p]
               /\ signals'[arg[p]] = signals[arg[p]]
               /\ state'[p] = "BLOCKED" => state[p] = "BLOCKED"
    PROVE  SwaitInv'
BY DEF SwaitInv, InSwait, SwaitPoints

LEMMA SwaitNext == KernelInv /\ SwaitInv /\ [KeptNext]_vars => SwaitInv'
<1> SUFFICES ASSUME KernelInv, SwaitInv, [KeptNext]_vars PROVE SwaitInv'
  OBVIOUS
<1> DEFINE a == active_process
<1>0. /\ state \in [Proc -> {"NONE", "RUNNABLE", "BLOCKED", "ZOMBIE"}]
      /\ signals \in SignalTable
      /\ at \in [Proc -> {"none", "user"} \cup Calls]
      /\ arg \in [Proc -> Proc \cup Sid \cup {NoPid}]
      /\ \A p \in Proc : at[p] \in SwaitPoints =>
            /\ arg[p] \in Sid /\ signals[arg[p]].used /\ signals[arg[p]].waiting = p
            /\ state[p] = "BLOCKED" => signals[arg[p]].value = 0
      /\ \A p \in Proc : PlaceOf(p)
  BY KernelFacts DEF SwaitInv, InSwait, SwaitPoints
<1>a. ASSUME NEW p \in Proc, at'[p] \notin SwaitPoints, UNCHANGED signals,
             \A r \in Proc \ {p} : /\ at'[r] = at[r] /\ arg'[r] = arg[r]
                                   /\ state'[r] = "BLOCKED" => state[r] = "BLOCKED"
      PROVE  SwaitInv'
  BY <1>a, SwaitStep
<1>b. ASSUME UNCHANGED <<at, arg, state>>,
             \A p \in Proc : at[p] \in SwaitPoints => signals'[arg[p]] = signals[arg[p]]
      PROVE  SwaitInv'
  BY <1>b, SwaitStep
<1>c. ASSUME NEW point \in Points \ {"schedule"}, Executing(point), UNCHANGED signals,
             NEW x, NEW y, Goto(x, y), x \notin SwaitPoints,
             UNCHANGED state \/ \E st : state' = [state EXCEPT ![a] = st]
      PROVE  SwaitInv'
  <2>1. a \in Proc
    BY <1>c, Running
  <2>2. /\ at'[a] = x
        /\ \A r \in Proc \ {a} : at'[r] = at[r] /\ arg'[r] = arg[r] /\ state'[r] = state[r]
    BY <1>0, <1>c, <2>1 DEF Goto
  <2> QED
    BY <1>a, <1>c, <2>1, <2>2
<1>1. CASE Boot \/ create_process
  <2>1. Allocate(next_pid) /\ next_pid \in Proc /\ UNCHANGED signals
    BY <1>1, TypeFacts, KernelAssumption DEF Boot, create_process, Allocate, KernelInv, TypeInv
  <2>2. at'[next_pid] = "user"
        /\ \A r \in Proc \ {next_pid} : at'[r] = at[r] /\ arg'[r] = arg[r] /\ state'[r] = state[r]
    BY <1>0, <2>1 DEF Allocate
  <2> QED
    BY <1>a, <2>1, <2>2 DEF SwaitPoints
<1>2. CASE KeptTick \/ schedule_Switch \/ println \/ Stopped \/ UNCHANGED vars
  BY <1>b, <1>2 DEF KeptTick, handleSigprof, schedule_Switch, println, Stopped, vars, procVars, ctxVars
<1>3. ASSUME NEW q, NEW point \in {"user", "w_again"}, Executing(point), LookForZombie(q)
      PROVE  SwaitInv'
  <2>1. UNCHANGED <<state, signals>> /\ (Goto("user", NoPid) \/ Goto("w_block", q))
    BY <1>3, LookEffect
  <2> QED
    BY <1>3, <1>c, <2>1 DEF Points, Calls, SwaitPoints
<1>4. CASE KeptWaitpid
  <2>1. CASE (\E q \in Proc \cup {NoPid} : waitpid(q)) \/ waitpid_Again
    BY <1>3, <2>1 DEF waitpid, waitpid_Again
  <2>2. CASE waitpid_State
    BY <1>c, <2>2 DEF waitpid_State, Points, Calls, SwaitPoints
  <2>3. CASE waitpid_For
    BY <1>c, <2>3 DEF waitpid_For, Points, Calls, SwaitPoints
  <2>4. CASE waitpid_Schedule
    BY <1>c, <2>4 DEF waitpid_Schedule, Points, Calls, SwaitPoints, procVars
  <2> QED
    BY <1>4, <2>1, <2>2, <2>3, <2>4 DEF KeptWaitpid
<1>5. CASE mbs_signal_new
  <2>1. FreeSids # {} => NewSid \in Sid /\ ~ signals[NewSid].used
    BY NewSidFree DEF FreeSids
  <2>2. \A t \in Sid : signals[t].used => signals'[t] = signals[t]
    BY <1>0, <1>5, <2>1 DEF mbs_signal_new, SignalTable
  <2> QED
    BY <1>0, <1>5, <1>b, <2>2 DEF mbs_signal_new, procVars, ctxVars
<1>6. CASE \E s \in Sid \cup {NoPid} : mbs_signal_free(s) /\ MayFree(s)
  <2>1. PICK s \in Sid \cup {NoPid} : mbs_signal_free(s) /\ MayFree(s)
    BY <1>6
  <2>2. /\ UNCHANGED <<state, at, arg>>
        /\ \A p \in Proc : at[p] \in SwaitPoints => arg[p] # s
        /\ \A t \in Sid \ {s} : signals'[t] = signals[t]
    BY <1>0, <2>1 DEF mbs_signal_free, MayFree, InSwait, SwaitPoints, procVars, ctxVars, SignalTable
  <2> QED
    BY <1>0, <1>b, <2>2
<1>7. CASE \E s \in Sid \cup {NoPid} : mbs_swait(s)
  <2>1. PICK s \in Sid \cup {NoPid} : mbs_swait(s)
    BY <1>7
  <2>2. CASE ~ ValidSid(s) \/ signals[s].waiting # NULL
    BY <1>b, <2>1, <2>2 DEF mbs_swait, ctxVars
  <2>3. CASE ValidSid(s) /\ signals[s].waiting = NULL /\ signals[s].value # 0
    <3>1. s \in Sid /\ UNCHANGED <<state, at, arg>>
          /\ signals' = [signals EXCEPT ![s].value = 0, ![s].waiting = NULL]
      BY <2>1, <2>3 DEF mbs_swait, ctxVars, ValidSid
    <3>2. \A p \in Proc : at[p] \in SwaitPoints => arg[p] \in Sid \ {s}
      BY <1>0, <2>3, NullAssumption
    <3>3. \A t \in Sid \ {s} : signals'[t] = signals[t]
      BY <1>0, <3>1 DEF SignalTable
    <3> QED
      BY <1>b, <3>1, <3>2, <3>3
  <2>4. CASE ValidSid(s) /\ signals[s].waiting = NULL /\ signals[s].value = 0
    <3>1. /\ s \in Sid /\ signals[s].used
          /\ signals' = [signals EXCEPT ![s].waiting = a]
          /\ state' = [state EXCEPT ![a] = "BLOCKED"] /\ Goto("s_value", s)
      BY <2>1, <2>4 DEF mbs_swait, ValidSid
    <3>2. a \in Proc
      BY <2>1, Running DEF mbs_swait, Points
    <3>3. /\ at'[a] = "s_value" /\ arg'[a] = s
          /\ \A r \in Proc \ {a} : at'[r] = at[r] /\ arg'[r] = arg[r] /\ state'[r] = state[r]
          /\ signals'[s].used /\ signals'[s].waiting = a /\ signals'[s].value = 0
          /\ \A t \in Sid \ {s} : signals'[t] = signals[t]
      BY <1>0, <2>4, <3>1, <3>2 DEF Goto, SignalTable
    <3>4. ASSUME NEW p \in Proc, at'[p] \in SwaitPoints
          PROVE  /\ signals'[arg'[p]].used /\ signals'[arg'[p]].waiting = p
                 /\ state'[p] = "BLOCKED" => signals'[arg'[p]].value = 0
      <4>1. CASE p = a
        BY <3>3, <4>1
      <4>2. CASE p # a
        <5>1. at[p] \in SwaitPoints /\ arg'[p] = arg[p] /\ state'[p] = state[p]
          BY <3>3, <3>4, <4>2
        <5>2. arg[p] \in Sid \ {s}
          BY <1>0, <2>4, <5>1, <3>4, NullAssumption
        <5>3. signals'[arg[p]] = signals[arg[p]]
          BY <3>3, <5>2
        <5> QED
          BY <1>0, <3>4, <5>1, <5>3
      <4> QED
        BY <4>1, <4>2
    <3> QED
      BY <3>4 DEF SwaitInv, InSwait, SwaitPoints
  <2> QED
    BY <2>2, <2>3, <2>4
<1>8. CASE mbs_swait_Value
  <2>1. /\ a \in Proc /\ OnCpu(a) /\ at[a] = "s_value" /\ UNCHANGED state
        /\ signals' = [signals EXCEPT ![arg[a]].value = 0] /\ Goto("s_waiting", arg[a])
    BY <1>8, Running DEF mbs_swait_Value, Points, Calls, procVars
  <2>2. arg[a] \in Sid
    BY <1>0, <2>1 DEF SwaitPoints
  <2>3. /\ \A t \in Sid : /\ signals'[t].used = signals[t].used
                          /\ signals'[t].waiting = signals[t].waiting
                          /\ signals[t].value = 0 => signals'[t].value = 0
        /\ arg' = arg /\ at'[a] = "s_waiting" /\ \A r \in Proc \ {a} : at'[r] = at[r]
    BY <1>0, <2>1, <2>2 DEF Goto, SignalTable
  <2>4. ASSUME NEW p \in Proc, at'[p] \in SwaitPoints
        PROVE  /\ signals'[arg'[p]].used /\ signals'[arg'[p]].waiting = p
               /\ state'[p] = "BLOCKED" => signals'[arg'[p]].value = 0
    <3>1. at[p] \in SwaitPoints
      BY <2>1, <2>3, <2>4 DEF SwaitPoints
    <3> QED
      BY <1>0, <2>1, <2>3, <2>4, <3>1
  <2> QED
    BY <2>4 DEF SwaitInv, InSwait, SwaitPoints
<1>9. CASE mbs_swait_Waiting
  <2>1. /\ a \in Proc /\ at[a] = "s_waiting" /\ UNCHANGED state
        /\ signals' = [signals EXCEPT ![arg[a]].waiting = NULL] /\ Goto("user", NoPid)
    BY <1>9, Running DEF mbs_swait_Waiting, Points, Calls, procVars
  <2>2. arg[a] \in Sid /\ signals[arg[a]].waiting = a
    BY <1>0, <2>1 DEF SwaitPoints
  <2>3. /\ \A t \in Sid \ {arg[a]} : signals'[t] = signals[t]
        /\ at'[a] = "user"
        /\ \A r \in Proc \ {a} : at'[r] = at[r] /\ arg'[r] = arg[r]
    BY <1>0, <2>1 DEF Goto, SignalTable
  <2>4. \A r \in Proc \ {a} : at[r] \in SwaitPoints => arg[r] \in Sid \ {arg[a]}
    BY <1>0, <2>2
  <2>5. \A p \in Proc : at'[p] \in SwaitPoints =>
            /\ at[p] \in SwaitPoints /\ arg'[p] = arg[p]
            /\ signals'[arg[p]] = signals[arg[p]]
            /\ state'[p] = "BLOCKED" => state[p] = "BLOCKED"
    BY <2>1, <2>3, <2>4 DEF SwaitPoints
  <2> QED
    BY <2>5, SwaitStep
<1>10. CASE mbs_signal_Append
  <2>1. a \in Proc /\ at[a] = "sig_append"
    BY <1>10, Running DEF mbs_signal_Append, Points, Calls
  <2> QED
    BY <1>0, <2>1 DEF PlaceOf
<1>11. CASE \E s \in Sid \cup {NoPid} : mbs_signal(s) /\ (ValidSid(s) => MaySignal(s))
  <2>1. PICK s \in Sid \cup {NoPid} : mbs_signal(s) /\ (ValidSid(s) => MaySignal(s))
    BY <1>11
  <2>2. at' = at /\ arg' = arg
    BY <2>1, SignalEffect
  <2>3. CASE UNCHANGED <<signals, mem, state>>
    BY <1>b, <2>2, <2>3
  <2>4. CASE /\ s \in Sid /\ signals[s].waiting = NULL
             /\ signals' = [signals EXCEPT ![s].value = 1] /\ UNCHANGED state
    <3>1. \A t \in Sid \ {s} : signals'[t] = signals[t]
      BY <1>0, <2>4 DEF SignalTable
    <3>2. \A p \in Proc : at[p] \in SwaitPoints => arg[p] \in Sid \ {s}
      BY <1>0, <2>4, NullAssumption
    <3> QED
      BY <1>b, <2>2, <2>4, <3>1, <3>2
  <2>5. ASSUME s \in Sid, NEW w \in Proc, signals[s].waiting = w,
               signals' = [signals EXCEPT ![s].value = 1],
               state' = [state EXCEPT ![w] = "RUNNABLE"]
        PROVE  SwaitInv'
    <3>1. /\ \A t \in Sid \ {s} : signals'[t] = signals[t]
          /\ signals'[s].used = signals[s].used /\ signals'[s].waiting = w
      BY <1>0, <2>5 DEF SignalTable
    <3>2. /\ state'[w] = "RUNNABLE" /\ \A p \in Proc \ {w} : state'[p] = state[p]
          /\ \A p \in Proc \ {w} : at[p] \in SwaitPoints => arg[p] # s
      BY <1>0, <2>5
    <3>3. ASSUME NEW p \in Proc, at[p] \in SwaitPoints
          PROVE  /\ signals'[arg[p]].used /\ signals'[arg[p]].waiting = p
                 /\ state'[p] = "BLOCKED" => signals'[arg[p]].value = 0
      <4>1. CASE p # w
        BY <1>0, <3>1, <3>2, <3>3, <4>1
      <4>2. CASE p = w
        BY <1>0, <3>1, <3>2, <3>3, <4>2
      <4> QED
        BY <4>1, <4>2
    <3> QED
      BY <2>2, <3>3 DEF SwaitInv, InSwait, SwaitPoints
  <2> QED
    BY <2>1, <2>3, <2>4, <2>5, SignalEffect
<1>12. CASE KeptWrapper
  <2>1. CASE process_wrapper_State
    BY <1>c, <2>1 DEF process_wrapper_State, Points, Calls, SwaitPoints
  <2>2. CASE process_wrapper_Wake
    <3>1. /\ a \in Proc /\ Goto("x_sched", NoPid) /\ UNCHANGED signals
          /\ state' = state \/ \E w \in Proc : state' = [state EXCEPT ![w] = "RUNNABLE"]
      BY <2>2, EndEffect
    <3>2. /\ at'[a] = "x_sched"
          /\ \A r \in Proc \ {a} : /\ at'[r] = at[r] /\ arg'[r] = arg[r]
                                   /\ state'[r] = "BLOCKED" => state[r] = "BLOCKED"
      BY <1>0, <3>1 DEF Goto
    <3> QED
      BY <1>a, <3>1, <3>2 DEF SwaitPoints
  <2>3. CASE process_wrapper_Schedule
    BY <1>c, <2>3 DEF process_wrapper_Schedule, Points, Calls, SwaitPoints, procVars
  <2>4. CASE process_wrapper_Error
    BY <1>b, <2>4 DEF process_wrapper_Error, procVars, ctxVars
  <2> QED
    BY <1>12, <2>1, <2>2, <2>3, <2>4 DEF KeptWrapper
<1> QED
  BY <1>1, <1>2, <1>4, <1>5, <1>6, <1>7, <1>8, <1>9, <1>10, <1>11, <1>12 DEF KeptNext, KeptSignals

LEMMA SwaitKeeps == KernelInv /\ SwaitInv => SwaitNotForgotten
<1> SUFFICES ASSUME KernelInv, SwaitInv, NEW w \in Members(mem, "wait"), InSwait(w)
             PROVE  signals[arg[w]] = [used |-> TRUE, value |-> 0, waiting |-> w]
  BY DEF SwaitNotForgotten
<1>1. w \in Proc /\ signals \in SignalTable /\ arg[w] \in Sid
  BY KernelFacts DEF Queue
<1>2. state[w] = "BLOCKED"
  BY <1>1, KernelFacts DEF Placed, Queue
<1>3. signals[arg[w]].used /\ signals[arg[w]].waiting = w /\ signals[arg[w]].value = 0
  BY <1>1, <1>2 DEF SwaitInv
<1> QED
  BY <1>1, <1>3 DEF SignalTable

(* A process asleep in mbs_swait is registered with its variable, which is *)
(* in use and unset, although the variable is reset in two steps between   *)
(* which the signal may arrive (syscalls.c:151, 169-170).                  *)
THEOREM NoSignalIsMissed ==
    ASSUME Careful, TickAt \cap Harmful = {}
    PROVE  Spec => []SwaitNotForgotten
<1>1. Init => SwaitInv
  BY DEF Init, SwaitInv, InSwait
<1>2. KernelInv /\ SwaitInv /\ [Next]_vars => SwaitInv'
  BY SwaitNext, CarefulIsKept
<1>3. KernelInv /\ SwaitInv => SwaitNotForgotten
  BY SwaitKeeps
<1>4. Spec => []KernelInv
  BY KernelInvariant
<1>5. Spec => []SwaitInv
  BY <1>1, <1>2, <1>4, PTL DEF Spec
<1> QED
  BY <1>3, <1>4, <1>5, PTL

-----------------------------------------------------------------------------
(* waitpid                                                                 *)

EndPoints == {"x_sched", "x_done"}

(* The waiter has searched zombie_queue in vain and not been woken since.  *)
Commits(w) == at[w] \in {"w_block", "w_for"} \/ state[w] = "BLOCKED"
Sleeps(w) == at[w] \in {"w_sched", "w_again"} /\ state[w] = "BLOCKED"

Expects(w) ==
    /\ arg[w] \in Proc \ {w}
    /\ ~ Reaped(arg[w])
    /\ Commits(w) => at[arg[w]] \notin EndPoints
    /\ Sleeps(w) => waiting_for[w] = arg[w]

(* Nobody else waits for the same process; the process waited for has not  *)
(* been taken out of zombie_queue, and while the waiter has not been woken *)
(* it has not passed the point at which it wakes.  That its end cannot     *)
(* wake a process in mbs_swait instead rests on MayExit, which a process   *)
(* ends with and keeps until it has woken its waiter.                      *)
WaitpidInv ==
    /\ \A p \in Proc : at[p] = "x_search" => MayExit(p)
    /\ \A v, w \in Proc : InWaitpid(v) /\ InWaitpid(w) /\ arg[v] = arg[w] => v = w
    /\ \A w \in Proc : InWaitpid(w) => Expects(w)

(* A step that takes nobody into waitpid.                                  *)
LEMMA WaitpidStep ==
    ASSUME WaitpidInv, \A p \in Proc : at'[p] = "x_search" => MayExit(p)',
           \A w \in Proc : InWaitpid(w)' =>
               /\ InWaitpid(w) /\ arg'[w] = arg[w]
               /\ \A q \in Proc : q = arg[w] =>
                     /\ Reaped(q)' => Reaped(q)
                     /\ Commits(w)' => Commits(w) /\ (at'[q] \in EndPoints => at[q] \in EndPoints)
                     /\ Sleeps(w)' => \/ Sleeps(w) /\ waiting_for'[w] = waiting_for[w]
                                      \/ waiting_for'[w] = q
    PROVE  WaitpidInv'
<1>1. ASSUME NEW w \in Proc, InWaitpid(w)' PROVE Expects(w)'
  <2>1. PICK q \in Proc \ {w} : q = arg[w]
    BY <1>1 DEF WaitpidInv, Expects
  <2>2. /\ InWaitpid(w) /\ Expects(w) /\ arg'[w] = q
        /\ Reaped(q)' => Reaped(q)
        /\ Commits(w)' => Commits(w) /\ (at'[q] \in EndPoints => at[q] \in EndPoints)
        /\ Sleeps(w)' => \/ Sleeps(w) /\ waiting_for'[w] = waiting_for[w]
                         \/ waiting_for'[w] = q
    BY <1>1, <2>1 DEF WaitpidInv
  <2>3. /\ ~ Reaped(q) /\ (Commits(w) => at[q] \notin EndPoints)
        /\ Sleeps(w) => waiting_for[w] = q
    BY <2>1, <2>2 DEF Expects
  <2>4. ~ Reaped(arg[w])'
    BY <2>2, <2>3 DEF Reaped
  <2>5. /\ Commits(w)' => at'[q] \notin EndPoints
        /\ Sleeps(w)' => waiting_for'[w] = q
    BY <2>2, <2>3
  <2> QED
    BY <2>1, <2>2, <2>4, <2>5 DEF Expects
<1>2. ASSUME NEW v \in Proc, NEW w \in Proc, InWaitpid(v)', InWaitpid(w)', arg'[v] = arg'[w]
      PROVE  v = w
  <2>1. InWaitpid(v) /\ InWaitpid(w) /\ arg[v] = arg[w]
    BY <1>2
  <2> QED
    BY <2>1 DEF WaitpidInv
<1> QED
  BY <1>1, <1>2 DEF WaitpidInv

(* The search of zombie_queue for q, which nobody else waits for: if it    *)
(* fails, q has not filed itself, and it has not been reaped.              *)
LEMMA LookStep ==
    ASSUME KernelInv, WaitpidInv, NEW a \in Proc, a = active_process, OnCpu(a),
           at[a] # "x_search", NEW q \in Proc \ {a}, ~ Reaped(q),
           \A w \in Proc \ {a} : InWaitpid(w) => arg[w] # q,
           LookForZombie(q)
    PROVE  WaitpidInv'
<1>0. /\ at \in [Proc -> {"none", "user"} \cup Calls]
      /\ arg \in [Proc -> Proc \cup Sid \cup {NoPid}]
      /\ \A p \in Proc : PlaceOf(p)
  BY KernelFacts
<1>1. /\ UNCHANGED <<state, waiting_for, depth>>
      /\ Members(mem', "zombie") = Members(mem, "zombie") \ {q}
      /\ \/ q \in Members(mem, "zombie") /\ Goto("user", NoPid)
         \/ q \notin Members(mem, "zombie") /\ Goto("w_block", q)
  BY LookEffect
<1>2. /\ \A p \in Proc \ {a} : at'[p] = at[p] /\ arg'[p] = arg[p]
      /\ \/ q \in Members(mem, "zombie") /\ at'[a] = "user"
         \/ q \notin Members(mem, "zombie") /\ at'[a] = "w_block" /\ arg'[a] = q
  BY <1>0, <1>1 DEF Goto
<1>3. \A p \in Proc : at'[p] # "x_search"
  BY <1>0, <1>2 DEF PlaceOf, OnCpu
<1>4. \A p \in Proc \ {q} : Reaped(p)' => Reaped(p)
  BY <1>1 DEF Reaped
<1>5. ASSUME NEW w \in Proc \ {a}, InWaitpid(w)'
      PROVE  InWaitpid(w) /\ arg'[w] = arg[w] /\ arg[w] # q /\ Expects(w)'
  <2>1. InWaitpid(w) /\ arg'[w] = arg[w] /\ arg[w] # q
    BY <1>2, <1>5 DEF InWaitpid
  <2>2. PICK r \in Proc \ {w} : r = arg[w]
    BY <2>1 DEF WaitpidInv, Expects
  <2>3. /\ ~ Reaped(r) /\ (Commits(w) => at[r] \notin EndPoints)
        /\ Sleeps(w) => waiting_for[w] = r
    BY <2>1, <2>2 DEF WaitpidInv, Expects
  <2>4. ~ Reaped(r)'
    BY <1>4, <2>1, <2>2, <2>3
  <2>5. ~ Reaped(arg[w])'
    BY <2>1, <2>2, <2>4 DEF Reaped
  <2>6. /\ Commits(w)' => at'[r] \notin EndPoints
        /\ Sleeps(w)' => waiting_for'[w] = r
    BY <1>1, <1>2, <2>3 DEF Commits, Sleeps, EndPoints
  <2> QED
    BY <2>1, <2>2, <2>5, <2>6 DEF Expects
<1>6. CASE at'[a] = "user"
  <2>1. ~ InWaitpid(a)'
    BY <1>6 DEF InWaitpid
  <2> QED
    BY <1>3, <1>5, <2>1 DEF WaitpidInv
<1>7. CASE q \notin Members(mem, "zombie") /\ at'[a] = "w_block" /\ arg'[a] = q
  <2>1. at[q] \notin EndPoints
    <3>1. SUFFICES ASSUME at[q] \in EndPoints PROVE FALSE
      OBVIOUS
    <3>2. state[q] = "ZOMBIE" /\ depth[q] \in {0, 1} /\ ~ OnCpu(q)
      BY <1>0, <3>1 DEF PlaceOf, Ended, EndPoints, OnCpu
    <3>3. depth[q] > 0
      BY <1>0, <3>1, <3>2 DEF PlaceOf, EndPoints
    <3> QED
      BY <1>7, <3>2, <3>3 DEF Reaped
  <2>2. Expects(a)'
    <3>1. ~ Reaped(q)'
      BY <1>1, <1>7 DEF Reaped
    <3>2. ~ Reaped(arg[a])'
      BY <1>7, <3>1 DEF Reaped
    <3>3. at'[q] \notin EndPoints
      BY <1>2, <2>1
    <3> QED
      BY <1>7, <3>2, <3>3 DEF Expects, Sleeps
  <2>3. ASSUME NEW v \in Proc, NEW w \in Proc, InWaitpid(v)', InWaitpid(w)', arg'[v] = arg'[w]
        PROVE  v = w
    <3>1. CASE v # a /\ w # a
      BY <1>5, <2>3, <3>1 DEF WaitpidInv
    <3>2. CASE v = a \/ w = a
      BY <1>5, <1>7, <2>3, <3>2
    <3> QED
      BY <3>1, <3>2
  <2> QED
    BY <1>3, <1>5, <2>2, <2>3 DEF WaitpidInv
<1> QED
  BY <1>2, <1>6, <1>7

LEMMA WaitpidNext == KernelInv /\ WaitpidInv /\ [KeptNext]_vars => WaitpidInv'
<1> SUFFICES ASSUME KernelInv, WaitpidInv, [KeptNext]_vars, NEW a, a = active_process
             PROVE  WaitpidInv'
  OBVIOUS
<1>0. /\ state \in [Proc -> {"NONE", "RUNNABLE", "BLOCKED", "ZOMBIE"}]
      /\ waiting_for \in [Proc -> Proc \cup {NoPid}]
      /\ at \in [Proc -> {"none", "user"} \cup Calls]
      /\ arg \in [Proc -> Proc \cup Sid \cup {NoPid}]
      /\ depth \in [Proc -> 0..MaxDepth]
      /\ \A p \in Proc : PlaceOf(p)
      /\ \A p \in Proc : ~ OnCpu(p) => at[p] # "x_search"
  BY KernelFacts DEF PlaceOf
<1>a. ASSUME NEW point \in Points \ {"schedule"}, Executing(point)
      PROVE  /\ host = "running" /\ a \in Proc /\ OnCpu(a) /\ at[a] = point /\ depth[a] = 0
             /\ \A p \in Proc \ {a} : ~ OnCpu(p) /\ at[p] # "x_search"
  BY <1>0, <1>a, Running DEF OnCpu
<1>q. ASSUME NEW b \in Proc, UNCHANGED waiting_for, at'[b] # "x_search",
             \A p \in Proc \ {b} :
                 /\ at'[p] = at[p] /\ arg'[p] = arg[p] /\ at[p] # "x_search"
                 /\ state'[p] \in {state[p], "RUNNABLE"},
             \A p \in Proc : Reaped(p)' => Reaped(p),
             at'[b] \in EndPoints => at[b] \in EndPoints,
             InWaitpid(b)' => /\ InWaitpid(b) /\ arg'[b] = arg[b]
                              /\ Commits(b)' => Commits(b)
                              /\ Sleeps(b)' => Sleeps(b)
      PROVE  WaitpidInv'
  <2>1. \A p \in Proc : at'[p] # "x_search" /\ (at'[p] \in EndPoints => at[p] \in EndPoints)
    BY <1>q
  <2>2. ASSUME NEW w \in Proc, InWaitpid(w)'
        PROVE  /\ InWaitpid(w) /\ arg'[w] = arg[w]
               /\ Commits(w)' => Commits(w)
               /\ Sleeps(w)' => Sleeps(w)
    <3>1. CASE w = b
      BY <1>q, <2>2, <3>1
    <3>2. CASE w # b
      BY <1>q, <2>2, <3>2 DEF InWaitpid, Commits, Sleeps
    <3> QED
      BY <3>1, <3>2
  <2> QED
    BY <1>q, <2>1, <2>2, WaitpidStep
<1>u. ASSUME NEW point \in Points \ {"schedule"}, Executing(point),
             UNCHANGED <<waiting_for, depth>>,
             Members(mem', "zombie") = Members(mem, "zombie"),
             \A p \in Proc \ {a} : /\ at'[p] = at[p] /\ arg'[p] = arg[p]
                                   /\ state'[p] \in {state[p], "RUNNABLE"},
             at'[a] \notin EndPoints \cup {"x_search"},
             InWaitpid(a)' => /\ InWaitpid(a) /\ arg'[a] = arg[a]
                              /\ Commits(a)' => Commits(a)
                              /\ Sleeps(a)' => Sleeps(a)
      PROVE  WaitpidInv'
  <2>1. /\ a \in Proc /\ depth[a] = 0 /\ \A p \in Proc \ {a} : at[p] # "x_search"
    BY <1>a, <1>u
  <2>2. \A p \in Proc : Reaped(p)' => Reaped(p)
    BY <1>u, <2>1 DEF Reaped
  <2> QED
    BY <1>q, <1>u, <2>1, <2>2
<1>e. ASSUME NEW point \in Points \ {"schedule", "x_search"}, Executing(point),
             UNCHANGED waiting_for, NEW st \in States, state'[a] = st, EnterSchedule(st),
             \A p \in Proc \ {a} : at'[p] = at[p] /\ arg'[p] = arg[p] /\ state'[p] = state[p],
             at'[a] # "x_search",
             at'[a] \in EndPoints => at[a] \in EndPoints,
             InWaitpid(a)' => /\ InWaitpid(a) /\ arg'[a] = arg[a]
                              /\ Commits(a)' => Commits(a)
                              /\ Sleeps(a)' => Sleeps(a)
      PROVE  WaitpidInv'
  <2>1. /\ a \in Proc /\ OnCpu(a) /\ \A p \in Proc \ {a} : at[p] # "x_search"
    BY <1>a, <1>e
  <2>2. /\ Members(mem', QueueOf(st)) = Members(mem, QueueOf(st)) \cup {a}
        /\ \A r \in Queue \ {QueueOf(st)} : Members(mem', r) = Members(mem, r)
        /\ depth' = [depth EXCEPT ![a] = 1]
    BY <1>e, <2>1, EnterEffect
  <2>3. /\ Members(mem, "zombie") \subseteq Members(mem', "zombie")
        /\ st = "ZOMBIE" => a \in Members(mem', "zombie")
    BY <2>2 DEF QueueOf, Queue
  <2>4. \A p \in Proc : Reaped(p)' => Reaped(p)
    BY <1>0, <1>e, <2>1, <2>2, <2>3 DEF Reaped
  <2> QED
    BY <1>e, <1>q, <2>1, <2>4

<1>1. CASE Boot \/ create_process
  <2>1. /\ Allocate(next_pid) /\ next_pid \in Proc /\ depth' = depth
        /\ \A p \in Proc : p # next_pid => at[p] # "x_search"
    <3>1. Allocate(next_pid) /\ next_pid \in Proc /\ depth' = depth
      BY <1>1, TypeFacts, KernelAssumption DEF Boot, create_process, Allocate, KernelInv, TypeInv
    <3>2. ASSUME NEW p \in Proc PROVE at[p] # "x_search"
      <4>1. CASE Boot
        BY <1>0, <4>1, NullAssumption DEF Boot, OnCpu, KernelInv
      <4>2. CASE create_process
        <5>1. Executing("user") /\ "user" \in Points \ {"schedule"}
          BY <4>2 DEF create_process, Points
        <5> QED
          BY <1>a, <5>1
      <4> QED
        BY <1>1, <4>1, <4>2
    <3> QED
      BY <3>1, <3>2
  <2>2. /\ at'[next_pid] = "user" /\ state'[next_pid] = "RUNNABLE"
        /\ \A p \in Proc \ {next_pid} :
              /\ at'[p] = at[p] /\ arg'[p] = arg[p] /\ state'[p] = state[p]
              /\ waiting_for'[p] = waiting_for[p]
    BY <1>0, <2>1 DEF Allocate
  <2>3. Members(mem', "zombie") = Members(mem, "zombie")
    <3>1. mem \in Memory /\ Proper(mem) /\ state[next_pid] = "NONE" /\ ~ OnCpu(next_pid)
      <4>1. state[next_pid] = "NONE" /\ at[next_pid] = "none" /\ mem \in Memory /\ Proper(mem)
        BY <2>1, KernelFacts
      <4>2. CASE Boot
        BY <2>1, <4>1, <4>2, NullAssumption DEF Boot, KernelInv, OnCpu
      <4>3. CASE create_process
        BY <1>a, <4>1, <4>3 DEF create_process, Points, OnCpu
      <4> QED
        BY <1>1, <4>1, <4>2, <4>3
    <3>2. \A r \in Queue : next_pid \notin Members(mem, r)
      BY <2>1, <3>1, KernelFacts DEF Placed, Queue
    <3>3. CASE create_process
      <4>1. Appends(mem, "run", next_pid)
        BY <3>3 DEF create_process
      <4> QED
        BY <2>1, <3>1, <3>2, <4>1, AppendsProper DEF Queue
    <3>4. CASE Boot
      <4> DEFINE n == queue_append(mem, "run", next_pid)
      <4>1. /\ n \in Memory /\ Proper(n)
            /\ Members(n, "run") = Members(mem, "run") \cup {next_pid}
            /\ \A r \in Queue \ {"run"} : Members(n, r) = Members(mem, r)
        BY <2>1, <3>1, <3>2, AppendAdds DEF Queue
      <4>2. mem' = queue_dequeue(n, "run", next_pid)
        BY <3>4 DEF Boot
      <4> HIDE DEF n
      <4>3. \A r \in Queue \ {"run"} : Members(mem', r) = Members(n, r)
        BY <4>1, <4>2, DequeueRemoves DEF Queue
      <4> QED
        BY <4>1, <4>3 DEF Queue
    <3> QED
      BY <1>1, <3>3, <3>4
  <2>4. \A p \in Proc : /\ at'[p] # "x_search"
                        /\ Reaped(p)' => Reaped(p)
                        /\ at'[p] \in EndPoints => at[p] \in EndPoints
    BY <2>1, <2>2, <2>3 DEF Reaped, EndPoints
  <2>5. ASSUME NEW w \in Proc, InWaitpid(w)'
        PROVE  /\ InWaitpid(w) /\ arg'[w] = arg[w]
               /\ Commits(w)' => Commits(w)
               /\ Sleeps(w)' => Sleeps(w) /\ waiting_for'[w] = waiting_for[w]
    BY <2>2, <2>5 DEF InWaitpid, Commits, Sleeps
  <2> QED
    BY <2>4, <2>5, WaitpidStep
<1>2. CASE KeptTick
  <2>1. /\ host = "running" /\ Here \in TickAt /\ EnterSchedule(state[a])
        /\ UNCHANGED <<procVars, active_process, signals, at, arg>>
    BY <1>2 DEF KeptTick, handleSigprof
  <2>2. Here \in Points \ {"schedule", "x_search"} /\ Executing(Here)
    BY <1>2, <2>1, KernelAssumption DEF Executing, KeptTick, Harmful
  <2>3. a \in Proc /\ OnCpu(a) /\ at[a] = Here
    BY <1>a, <2>2
  <2>4. state[a] \in States
    BY <1>0, <2>2, <2>3 DEF PlaceOf, States, Points, Calls
  <2> QED
    BY <1>e, <2>1, <2>2, <2>3, <2>4 DEF procVars, InWaitpid, Commits, Sleeps
<1>3. CASE schedule_Switch
  <2>1. /\ \A p \in Proc : ~ OnCpu(p)
        /\ UNCHANGED <<state, waiting_for, at, arg>>
        /\ Members(mem', "zombie") = Members(mem, "zombie")
        /\ depth' = depth \/ \E n : depth' = [depth EXCEPT ![n] = 0]
    BY <1>3, SwitchEffect DEF Queue
  <2>2. \A p \in Proc : Reaped(p)' => Reaped(p)
    BY <1>0, <2>1 DEF Reaped
  <2> QED
    BY <1>0, <2>1, <2>2, WaitpidStep DEF InWaitpid, Commits, Sleeps
<1>4. CASE println \/ mbs_signal_new \/ \E s \in Sid \cup {NoPid} : mbs_signal_free(s) /\ MayFree(s)
  <2>1. Executing("user") /\ UNCHANGED <<waiting_for, depth, mem, at, arg, state>>
    BY <1>4 DEF println, mbs_signal_new, mbs_signal_free, procVars, ctxVars
  <2> QED
    BY <1>a, <1>u, <2>1 DEF Points, Calls, EndPoints, InWaitpid, Commits, Sleeps

<1>5. CASE KeptWaitpid
  <2>1. ASSUME NEW q \in Proc \cup {NoPid}, waitpid(q), MayWaitpid(q) PROVE WaitpidInv'
    <3>1. Executing("user") /\ MayWaitpid(q) /\ LookForZombie(q)
      BY <2>1 DEF waitpid
    <3>2. /\ a \in Proc /\ OnCpu(a) /\ at[a] # "x_search"
          /\ q \in Proc \ {a} /\ ~ Reaped(q)
          /\ \A w \in Proc : InWaitpid(w) => arg[w] # q
      BY <1>a, <3>1 DEF MayWaitpid, Points
    <3> QED
      BY <3>1, <3>2, LookStep
  <2>2. CASE waitpid_Again
    <3>1. Executing("w_again") /\ LookForZombie(arg[a])
      BY <2>2 DEF waitpid_Again
    <3>2. a \in Proc /\ OnCpu(a) /\ at[a] = "w_again"
      BY <1>a, <3>1 DEF Points, Calls
    <3>3. PICK q \in Proc \ {a} : q = arg[a]
      BY <3>2 DEF WaitpidInv, Expects, InWaitpid
    <3>4. /\ ~ Reaped(q)
          /\ \A w \in Proc \ {a} : InWaitpid(w) => arg[w] # q
      BY <3>2, <3>3 DEF WaitpidInv, Expects, InWaitpid
    <3> QED
      BY <3>1, <3>2, <3>3, <3>4, LookStep
  <2>3. CASE waitpid_State
    <3>1. /\ Executing("w_block") /\ Goto("w_for", arg[a])
          /\ state' = [state EXCEPT ![a] = "BLOCKED"]
          /\ UNCHANGED <<waiting_for, mem, depth>>
      BY <2>3 DEF waitpid_State
    <3>2. a \in Proc /\ at[a] = "w_block"
      BY <1>a, <3>1 DEF Points, Calls
    <3> QED
      BY <1>0, <1>u, <3>1, <3>2
      DEF Points, Calls, EndPoints, Goto, InWaitpid, Commits, Sleeps
  <2>4. CASE waitpid_For
    <3>1. /\ Executing("w_for") /\ Goto("w_sched", arg[a])
          /\ waiting_for' = [waiting_for EXCEPT ![a] = arg[a]]
          /\ UNCHANGED <<state, mem, depth>>
      BY <2>4 DEF waitpid_For
    <3>2. a \in Proc /\ at[a] = "w_for" /\ \A p \in Proc : at[p] # "x_search"
      BY <1>a, <3>1 DEF Points, Calls
    <3>3. /\ at'[a] = "w_sched" /\ arg' = arg /\ waiting_for'[a] = arg[a]
          /\ \A p \in Proc \ {a} : at'[p] = at[p] /\ waiting_for'[p] = waiting_for[p]
      BY <1>0, <3>1, <3>2 DEF Goto
    <3>4. \A p \in Proc : Reaped(p)' => Reaped(p)
      BY <3>1 DEF Reaped
    <3>5. \A p \in Proc : /\ at'[p] # "x_search"
                          /\ at'[p] \in EndPoints => at[p] \in EndPoints
      BY <3>2, <3>3 DEF EndPoints
    <3>6. ASSUME NEW w \in Proc, InWaitpid(w)'
          PROVE  /\ InWaitpid(w) /\ arg'[w] = arg[w]
                 /\ Commits(w)' => Commits(w)
                 /\ Sleeps(w)' => \/ Sleeps(w) /\ waiting_for'[w] = waiting_for[w]
                                  \/ waiting_for'[w] = arg[w]
      BY <3>1, <3>2, <3>3, <3>6 DEF InWaitpid, Commits, Sleeps
    <3> QED
      BY <3>4, <3>5, <3>6, WaitpidStep
  <2>5. CASE waitpid_Schedule
    <3>1. /\ Executing("w_sched") /\ EnterSchedule(state[a]) /\ Goto("w_again", arg[a])
          /\ UNCHANGED <<state, waiting_for>>
      BY <2>5 DEF waitpid_Schedule, procVars
    <3>2. a \in Proc /\ at[a] = "w_sched"
      BY <1>a, <3>1 DEF Points, Calls
    <3>3. state[a] \in States
      BY <1>0, <3>2 DEF PlaceOf, States
    <3> QED
      BY <1>0, <1>e, <3>1, <3>2, <3>3
      DEF Points, Calls, EndPoints, Goto, InWaitpid, Commits, Sleeps
  <2> QED
    BY <1>5, <2>1, <2>2, <2>3, <2>4, <2>5 DEF KeptWaitpid
<1>6. CASE \E s \in Sid \cup {NoPid} : mbs_swait(s)
  <2>1. PICK s \in Sid \cup {NoPid} : mbs_swait(s)
    BY <1>6
  <2>2. Executing("user") /\ UNCHANGED waiting_for /\ a \in Proc /\ at[a] = "user"
    BY <1>a, <2>1 DEF mbs_swait, Points
  <2>3. CASE UNCHANGED <<state, mem, ctxVars>>
    BY <1>u, <2>2, <2>3 DEF ctxVars, Points, EndPoints, InWaitpid
  <2>4. CASE /\ state' = [state EXCEPT ![a] = "BLOCKED"]
             /\ EnterSchedule("BLOCKED") /\ Goto("s_value", s)
    BY <1>0, <1>e, <2>2, <2>4 DEF Goto, Points, States, EndPoints, InWaitpid
  <2> QED
    BY <2>1, <2>3, <2>4 DEF mbs_swait
<1>7. CASE mbs_swait_Value
  <2>1. /\ Executing("s_value") /\ Goto("s_waiting", arg[a])
        /\ UNCHANGED <<state, waiting_for, mem, depth>>
    BY <1>7 DEF mbs_swait_Value, procVars
  <2>2. a \in Proc
    BY <1>a, <2>1 DEF Points, Calls
  <2> QED
    BY <1>0, <1>u, <2>1, <2>2 DEF Points, Calls, EndPoints, Goto, InWaitpid
<1>8. CASE mbs_swait_Waiting
  <2>1. /\ Executing("s_waiting") /\ Goto("user", NoPid)
        /\ UNCHANGED <<state, waiting_for, mem, depth>>
    BY <1>8 DEF mbs_swait_Waiting, procVars
  <2>2. a \in Proc
    BY <1>a, <2>1 DEF Points, Calls
  <2> QED
    BY <1>0, <1>u, <2>1, <2>2 DEF Points, Calls, EndPoints, Goto, InWaitpid
<1>9. CASE mbs_signal_Append
  <2>1. a \in Proc /\ at[a] = "sig_append"
    BY <1>9, <1>a DEF mbs_signal_Append, Points, Calls
  <2> QED
    BY <1>0, <2>1 DEF PlaceOf
<1>10. CASE \E s \in Sid \cup {NoPid} : mbs_signal(s) /\ (ValidSid(s) => MaySignal(s))
  <2>1. PICK s \in Sid \cup {NoPid} : mbs_signal(s) /\ (ValidSid(s) => MaySignal(s))
    BY <1>10
  <2>2. /\ Executing("user") /\ UNCHANGED <<waiting_for, at, arg, depth>>
        /\ at[a] = "user"
        /\ \/ UNCHANGED <<mem, state>>
           \/ \E w \in Members(mem, "wait") :
                 /\ state' = [state EXCEPT ![w] = "RUNNABLE"]
                 /\ Appends(queue_dequeue(mem, "wait", w), "run", w)
    <3>1. Executing("user")
      BY <2>1 DEF mbs_signal
    <3> QED
      BY <2>1, <3>1, SignalEffect
  <2>3. /\ Members(mem', "zombie") = Members(mem, "zombie")
        /\ \A p \in Proc : state'[p] \in {state[p], "RUNNABLE"}
    BY <1>0, <2>2, WakeEffect
  <2> QED
    BY <1>u, <2>2, <2>3 DEF Points, EndPoints, InWaitpid

<1>11. CASE process_wrapper_State /\ MayExit(active_process)
  <2>1. /\ Executing("user") /\ MayExit(a) /\ Goto("x_search", NoPid)
        /\ state' = [state EXCEPT ![a] = "ZOMBIE"]
        /\ UNCHANGED <<waiting_for, mem, depth>>
    BY <1>11 DEF process_wrapper_State
  <2>2. /\ a \in Proc /\ depth[a] = 0 /\ \A p \in Proc \ {a} : at[p] # "x_search"
    BY <1>a, <2>1 DEF Points
  <2>3. /\ at'[a] = "x_search"
        /\ \A p \in Proc \ {a} : at'[p] = at[p] /\ arg'[p] = arg[p] /\ state'[p] = state[p]
    BY <1>0, <2>1, <2>2 DEF Goto
  <2>4. \A p \in Proc : Reaped(p)' => Reaped(p)
    BY <2>1, <2>2, <2>3 DEF Reaped
  <2>5. \A p \in Proc : at'[p] \in EndPoints => at[p] \in EndPoints
    BY <2>3 DEF EndPoints
  <2>6. ASSUME NEW p \in Proc, at'[p] = "x_search" PROVE MayExit(p)'
    <3>1. p = a
      BY <2>2, <2>3, <2>6
    <3>2. ASSUME NEW w \in Proc, InSwait(w)', state'[w] = "BLOCKED"
          PROVE  waiting_for'[w] # p
      BY <2>1, <2>3, <3>1, <3>2 DEF MayExit, InSwait
    <3> QED
      BY <3>2 DEF MayExit
  <2>7. ASSUME NEW w \in Proc, InWaitpid(w)'
        PROVE  /\ InWaitpid(w) /\ arg'[w] = arg[w]
               /\ Commits(w)' => Commits(w)
               /\ Sleeps(w)' => Sleeps(w) /\ waiting_for'[w] = waiting_for[w]
    BY <2>1, <2>3, <2>7 DEF InWaitpid, Commits, Sleeps
  <2> QED
    BY <2>4, <2>5, <2>6, <2>7, WaitpidStep
<1>12. CASE process_wrapper_Wake
  <2>1. /\ OnCpu(a) /\ a \in Proc /\ at[a] = "x_search" /\ Goto("x_sched", NoPid)
        /\ UNCHANGED <<waiting_for, depth>>
    BY <1>12, EndEffect
  <2>2. MayExit(a) /\ depth[a] = 0 /\ \A p \in Proc \ {a} : ~ OnCpu(p) /\ at[p] # "x_search"
    BY <1>0, <2>1 DEF WaitpidInv, OnCpu
  <2>3. /\ at'[a] = "x_sched"
        /\ \A p \in Proc \ {a} : at'[p] = at[p] /\ arg'[p] = arg[p]
    BY <1>0, <2>1 DEF Goto
  <2>4. /\ Members(mem', "zombie") = Members(mem, "zombie")
        /\ \A p \in Proc : state'[p] \in {state[p], "RUNNABLE"}
    BY <1>0, <1>12, EndEffect, WakeEffect
  <2>5. \A p \in Proc : Reaped(p)' => Reaped(p)
    BY <2>1, <2>4 DEF Reaped
  <2>6. ASSUME NEW w \in Proc, InWaitpid(w)'
        PROVE  /\ InWaitpid(w) /\ arg'[w] = arg[w]
               /\ Commits(w)' => Commits(w)
               /\ Sleeps(w)' => Sleeps(w) /\ waiting_for'[w] = waiting_for[w]
    BY <2>1, <2>3, <2>4, <2>6 DEF InWaitpid, Commits, Sleeps
  (* The waiter of the process that ends is the one that it wakes.         *)
  <2>7. ASSUME NEW w \in Proc, InWaitpid(w)', Commits(w)' PROVE arg[w] # a
    <3>1. SUFFICES ASSUME arg[w] = a PROVE FALSE
      OBVIOUS
    <3>2. InWaitpid(w) /\ Commits(w) /\ w # a /\ ~ OnCpu(w)
      BY <2>2, <2>6, <2>7, <3>1 DEF WaitpidInv, Expects
    <3>3. Sleeps(w) /\ at'[w] = at[w] /\ at[w] \in {"w_sched", "w_again"}
      BY <1>0, <2>3, <3>2 DEF PlaceOf, Commits, Sleeps, InWaitpid
    <3>4. state'[w] = "BLOCKED" /\ waiting_for[w] = a
      BY <2>7, <3>1, <3>2, <3>3 DEF Commits, WaitpidInv, Expects
    <3>5. w \in Members(mem, "wait")
      BY <3>2, <3>3, KernelFacts DEF Placed, Sleeps
    <3>6. PICK h \in Members(mem, "wait") :
            /\ h \in Proc /\ waiting_for[h] = a /\ state' = [state EXCEPT ![h] = "RUNNABLE"]
      BY <1>12, <3>4, <3>5, EndEffect
    <3>7. ~ OnCpu(h) /\ state[h] = "BLOCKED"
      <4>1. ~ OnCpu(h)
        BY <3>6, KernelFacts DEF Queue
      <4> QED
        BY <3>6, <4>1, KernelFacts DEF Placed
    <3>8. ~ InSwait(h)
      BY <2>2, <3>6, <3>7 DEF MayExit
    <3>9. at[h] \in {"w_sched", "w_again"}
      BY <1>0, <3>6, <3>7, <3>8 DEF PlaceOf, Ended, InSwait, Calls
    <3>10. InWaitpid(h) /\ arg[h] = a
      BY <3>6, <3>7, <3>9 DEF InWaitpid, WaitpidInv, Expects, Sleeps
    <3>11. h = w
      BY <3>1, <3>2, <3>6, <3>10 DEF WaitpidInv
    <3> QED
      BY <1>0, <3>4, <3>6, <3>11
  <2>8. \A p \in Proc \ {a} : at'[p] \in EndPoints => at[p] \in EndPoints
    BY <2>3
  <2>9. \A p \in Proc : at'[p] # "x_search"
    BY <2>2, <2>3
  <2> QED
    BY <2>5, <2>6, <2>7, <2>8, <2>9, WaitpidStep
<1>13. CASE process_wrapper_Schedule
  <2>1. /\ Executing("x_sched") /\ EnterSchedule(state[a]) /\ Goto("x_done", NoPid)
        /\ UNCHANGED <<state, waiting_for>>
    BY <1>13 DEF process_wrapper_Schedule, procVars
  <2>2. a \in Proc /\ at[a] = "x_sched"
    BY <1>a, <2>1 DEF Points, Calls
  <2>3. state[a] \in States
    BY <1>0, <2>2 DEF PlaceOf, States
  <2> QED
    BY <1>0, <1>e, <2>1, <2>2, <2>3 DEF Points, Calls, EndPoints, Goto, InWaitpid
<1>14. CASE process_wrapper_Error \/ Stopped \/ UNCHANGED vars
  <2>1. UNCHANGED <<state, waiting_for, mem, at, arg, depth>>
    BY <1>14 DEF process_wrapper_Error, Stopped, vars, procVars, ctxVars
  <2> QED
    BY <2>1 DEF WaitpidInv, MayExit, InSwait, InWaitpid, Expects, Commits, Sleeps, Reaped
<1> QED
  BY <1>1, <1>2, <1>3, <1>4, <1>5, <1>6, <1>7, <1>8, <1>9, <1>10, <1>11, <1>12, <1>13, <1>14
  DEF KeptNext, KeptSignals, KeptWrapper

LEMMA WaitpidKeeps == KernelInv /\ WaitpidInv => WaitpidNotForgotten
<1> SUFFICES ASSUME KernelInv, WaitpidInv, NEW w \in Members(mem, "wait"), InWaitpid(w),
                    arg[w] \in Members(mem, "zombie")
             PROVE  FALSE
  BY DEF WaitpidNotForgotten
<1>1. w \in Proc /\ arg[w] \in Proc
  BY KernelFacts DEF Queue
<1>2. PICK q \in Proc : q = arg[w]
  BY <1>1
<1>3. /\ ~ OnCpu(w) /\ state[w] = "BLOCKED" /\ ~ OnCpu(q) /\ state[q] = "ZOMBIE"
  BY <1>1, <1>2, KernelFacts DEF Placed, Queue
<1>4. at[q] \in EndPoints
  BY <1>2, <1>3, KernelFacts DEF PlaceOf, Ended, EndPoints
<1> QED
  BY <1>1, <1>2, <1>3, <1>4 DEF WaitpidInv, Expects, Commits

(* A process asleep in waitpid waits for one that has not ended, although  *)
(* the search of zombie_queue, the change of state and that of waiting_for *)
(* are not one step (syscalls.c:62-71, process_manager.c:101-105).         *)
THEOREM NoEndIsMissed ==
    ASSUME Careful, TickAt \cap Harmful = {}
    PROVE  Spec => []WaitpidNotForgotten
<1>1. Init => WaitpidInv
  BY DEF Init, WaitpidInv, InWaitpid
<1>2. KernelInv /\ WaitpidInv /\ [Next]_vars => WaitpidInv'
  BY WaitpidNext, CarefulIsKept
<1>3. KernelInv /\ WaitpidInv => WaitpidNotForgotten
  BY WaitpidKeeps
<1>4. Spec => []KernelInv
  BY KernelInvariant
<1>5. Spec => []WaitpidInv
  BY <1>1, <1>2, <1>4, PTL DEF Spec
<1> QED
  BY <1>3, <1>4, <1>5, PTL

-----------------------------------------------------------------------------
(* The demo programs of processes.c                                        *)

(* A process comes back from mbs_swait only after a signal: no end of      *)
(* another process wakes it, and nobody else takes the signal.             *)
ReadyInv ==
    \A p \in Proc : at[p] = "s_value" /\ state[p] = "RUNNABLE" => signals[arg[p]].value = 1

(* What the kernel promises programs that keep the obligations.            *)
ServiceInv == KernelInv /\ WaiterIsInSwait /\ SwaitInv /\ WaitpidInv /\ ReadyInv

(* Process p has come back from its waitpid in line l; it has taken the    *)
(* signal it waits for in line l.                                          *)
Joined(p, l) == line[p] > l + 1 \/ (line[p] = l + 1 /\ ~ InWaitpid(p))
Consumed(p, l) == line[p] > l + 1 \/ (line[p] = l + 1 /\ at[p] # "s_value")

(* Where a process is by the kernel, it is by its program.                 *)
PlacesInv ==
    \A p \in Proc :
        /\ Ended(p) => p \in 0..6 /\ line[p] > Length(p)
        /\ at[p] = "none" => line[p] = 1
        /\ InWaitpid(p) => Joins(p, line[p] - 1, arg[p])
        /\ InSwait(p) => Swaits(p, line[p] - 1, arg[p])

(* A child has been taken out of zombie_queue exactly when the wait for it *)
(* is over.                                                                *)
JoinInv ==
    \A p \in {0, 1, 4}, l \in 1..20, c \in 1..6 :
        Joins(p, l, c) => (Reaped(c) <=> Joined(p, l))

(* The variables proc1 has got, and that bed names them until bw_proc1     *)
(* clears it.                                                              *)
TableInv ==
    /\ \A s \in Sid : signals[s].used <=> s < 4 /\ s + 1 < line[1]
    /\ line[4] = 1 => \A i \in 0..3 : i + 1 < line[1] => bed[i] = i

(* A variable is set from its signal to the end of the wait for it, which  *)
(* ends only after the signal.                                             *)
MeetInv ==
    \A p \in 1..3, g \in 1..3, l \in 1..20, k \in 1..20, i \in 0..3 :
        Meets(p, l, i, g, k) =>
            /\ signals[i].value = 1 <=> line[g] > k /\ ~ Consumed(p, l)
            /\ Consumed(p, l) => line[g] > k

(* Once bw_proc1 has cleared bed, an int is not 0 exactly when the process *)
(* that sets it has done so, and nobody is past a loop that polls it       *)
(* before that.                                                            *)
PollInv ==
    line[4] > 1 =>
        /\ \A p \in 4..6, l \in 1..20, i \in 0..3 : Sets(p, l, i) => (bed[i] # 0 <=> line[p] > l)
        /\ \A p \in 4..6, g \in 4..6, l \in 1..20, k \in 1..20, i \in 0..3 :
               Polls(p, l, i) /\ Sets(g, k, i) /\ line[p] > l => line[g] > k

(* proc2 and proc3 end in any order, and what malloc has left in           *)
(* waiting_for of proc2 must not make it look as if it waited for proc3.   *)
StaleInv == waiting_for[2] # 3

Rest ==
    /\ ProgramsRun(Proc, next_pid)
    /\ PlacesInv /\ JoinInv /\ TableInv /\ MeetInv /\ PollInv /\ StaleInv

DemoInv == ServiceInv /\ Rest

DemoSize == MaxProcs >= 7 /\ NumSignals >= 4

-----------------------------------------------------------------------------
(* The tables of DemoFacts agree with the text of the programs             *)

LEMMA Programs ==
    /\ Main(0) = "init" /\ Main(1) = "proc1" /\ Main(2) = "proc2" /\ Main(3) = "proc3"
    /\ Main(4) = "bw_proc1" /\ Main(5) = "bw_proc2" /\ Main(6) = "bw_proc3"
    /\ Length(0) = 7 /\ Length(1) = 19 /\ Length(2) = 5 /\ Length(3) = 5
    /\ Length(4) = 16 /\ Length(5) = 5 /\ Length(6) = 5
BY DEF Main, Length

LEMMA Script ==
    ASSUME NEW p \in 0..6, NEW l \in 1..Length(p), NEW x
    PROVE  LET i == Text[Main(p)][l]
           IN  /\ i = <<i[1], i[2]>>
               /\ i = <<"create", x>> <=> Creates(p, l, x)
               /\ i = <<"new", x>> <=> Allots(p, l, x)
               /\ i = <<"swait", x>> <=> Swaits(p, l, x)
               /\ i = <<"signal", x>> <=> Raises(p, l, x)
               /\ i = <<"waitpid", x>> <=> Awaits(p, l, x)
               /\ i[1] = "clear" <=> Clears(p, l)
               /\ i = <<"spin", x>> <=> Polls(p, l, x)
               /\ i = <<"set", x>> <=> Sets(p, l, x)
<1> DEFINE Agrees(f, q) ==
             LET i == Text[f][l]
             IN  /\ i = <<i[1], i[2]>>
                 /\ i = <<"create", x>> <=> Creates(q, l, x)
                 /\ i = <<"new", x>> <=> Allots(q, l, x)
                 /\ i = <<"swait", x>> <=> Swaits(q, l, x)
                 /\ i = <<"signal", x>> <=> Raises(q, l, x)
                 /\ i = <<"waitpid", x>> <=> Awaits(q, l, x)
                 /\ i[1] = "clear" <=> Clears(q, l)
                 /\ i = <<"spin", x>> <=> Polls(q, l, x)
                 /\ i = <<"set", x>> <=> Sets(q, l, x)
<1> USE DEF Creates, Allots, Swaits, Raises, Awaits, Clears, Polls, Sets, Say
<1>1. ASSUME l \in 1..7 PROVE Agrees("init", 0)
  BY <1>1 DEF Text
<1>2. ASSUME l \in 1..19 PROVE Agrees("proc1", 1)
  BY <1>2 DEF Text, proc1, New, Children, Join
<1>3. ASSUME l \in 1..5 PROVE Agrees("proc2", 2)
  BY <1>3 DEF Text
<1>4. ASSUME l \in 1..5 PROVE Agrees("proc3", 3)
  BY <1>4 DEF Text
<1>5. ASSUME l \in 1..16 PROVE Agrees("bw_proc1", 4)
  BY <1>5 DEF Text, bw_proc1, Children, Join
<1>6. ASSUME l \in 1..5 PROVE Agrees("bw_proc2", 5)
  BY <1>6 DEF Text
<1>7. ASSUME l \in 1..5 PROVE Agrees("bw_proc3", 6)
  BY <1>7 DEF Text
<1>8. Agrees(Main(p), p)
  <2> HIDE DEF Agrees
  <2>1. CASE p = 0
    BY <1>1, <2>1, Programs
  <2>2. CASE p = 1
    BY <1>2, <2>2, Programs
  <2>3. CASE p = 2
    BY <1>3, <2>3, Programs
  <2>4. CASE p = 3
    BY <1>4, <2>4, Programs
  <2>5. CASE p = 4
    BY <1>5, <2>5, Programs
  <2>6. CASE p = 5
    BY <1>6, <2>6, Programs
  <2>7. CASE p = 6
    BY <1>7, <2>7, Programs
  <2> QED BY <2>1, <2>2, <2>3, <2>4, <2>5, <2>6, <2>7
<1> QED BY <1>8

LEMMA Lengths == \A p \in 0..6 : Len(Text[Main(p)]) = Length(p)
<1>1. Len(proc1) = 19
  BY DEF proc1, New, Children, Join, Say
<1>2. Len(bw_proc1) = 16
  BY DEF bw_proc1, Children, Join, Say
<1>3. /\ Len(Text["init"]) = 7 /\ Len(Text["proc1"]) = 19 /\ Len(Text["bw_proc1"]) = 16
      /\ Len(Text["proc2"]) = 5 /\ Len(Text["proc3"]) = 5
      /\ Len(Text["bw_proc2"]) = 5 /\ Len(Text["bw_proc3"]) = 5
  BY <1>1, <1>2 DEF Text
<1> SUFFICES ASSUME NEW p \in 0..6 PROVE Len(Text[Main(p)]) = Length(p)
  OBVIOUS
<1>4. p \in {0, 1, 2, 3, 4, 5, 6}
  OBVIOUS
<1> QED BY <1>3, <1>4, Programs

(* What a waitpid of the text waits for.                                   *)
LEMMA WaitsJoin ==
    ASSUME NEW p, NEW l, NEW k, Awaits(p, l, k)
    PROVE  Joins(p, l, Offspring(p, l)[k])
<1>1. <<p, l, k>> \in {<<0, 3, 1>>, <<0, 6, 2>>, <<1, 18, 2>>, <<1, 19, 1>>, <<4, 15, 2>>, <<4, 16, 1>>}
  BY DEF Awaits
<1> QED BY <1>1 DEF Joins, Offspring

(* Joins, Meets and the rest are read off the instructions.                *)
LEMMA Tables ==
    /\ \A p, l, c : Joins(p, l, c) =>
           p \in {0, 1, 4} /\ l \in 1..20 /\ c \in 1..6 /\ \E k : Awaits(p, l, k)
    /\ \A p, l, i, g, k : Meets(p, l, i, g, k) =>
           /\ p \in 1..3 /\ g \in 1..3 /\ l \in 1..20 /\ k \in 1..20 /\ i \in 0..3 /\ p # g
           /\ Swaits(p, l, i) /\ Raises(g, k, i)
BY DEF Joins, Awaits, Meets, Swaits, Raises

(* Each variable and each child has its place in the tables.               *)
LEMMA OnePlace ==
    /\ \A p, l, i, q, m, g, k : Raises(p, l, i) /\ Meets(q, m, i, g, k) => g = p /\ k = l
    /\ \A p, l, i, q, m, g, k : Swaits(p, l, i) /\ Meets(q, m, i, g, k) => q = p /\ m = l
    /\ \A p, l, i, j : Raises(p, l, i) /\ Raises(p, l, j) => i = j
    /\ \A p, l, i, j : Swaits(p, l, i) /\ Swaits(p, l, j) => i = j
    /\ \A p, l, i, j : ~ (Swaits(p, l, i) /\ Raises(p, l, j))
    /\ \A p, l, c, d : Joins(p, l, c) /\ Joins(p, l, d) => c = d
    /\ \A p, l, q, m, c : Joins(p, l, c) /\ Joins(q, m, c) => p = q /\ l = m
BY DEF Raises, Swaits, Meets, Joins

(* The pids create_process has returned are appended to child.             *)
LEMMA AppendsPid ==
    ASSUME NEW d \in Nat, NEW e \in Nat
    PROVE  Append(<<>>, e) = <<e>> /\ Append(<<d>>, e) = <<d, e>>
<1>1. Append(<<>>, e) = <<e>>
  <2>1. Append(<<>>, e) \in Seq(Nat) /\ <<e>> \in Seq(Nat)
    OBVIOUS
  <2>2. Len(Append(<<>>, e)) = 1 /\ Append(<<>>, e)[1] = e
    OBVIOUS
  <2>3. Len(<<e>>) = 1 /\ <<e>>[1] = e
    OBVIOUS
  <2> QED BY <2>1, <2>2, <2>3, SeqEqual
<1>2. Append(<<d>>, e) = <<d, e>>
  <2>1. Append(<<d>>, e) \in Seq(Nat) /\ <<d, e>> \in Seq(Nat)
    OBVIOUS
  <2>2. Len(Append(<<d>>, e)) = 2 /\ Append(<<d>>, e)[1] = d /\ Append(<<d>>, e)[2] = e
    OBVIOUS
  <2>3. Len(<<d, e>>) = 2 /\ <<d, e>>[1] = d /\ <<d, e>>[2] = e
    OBVIOUS
  <2>4. \A i \in 1..2 : Append(<<d>>, e)[i] = <<d, e>>[i]
    BY <2>2, <2>3
  <2> QED BY <2>1, <2>2, <2>3, <2>4, SeqEqual
<1> QED BY <1>1, <1>2

-----------------------------------------------------------------------------
(* Who wakes a process in mbs_swait                                        *)

LEMMA ReadyStep ==
    ASSUME ReadyInv,
           \A p \in Proc : at'[p] = "s_value" /\ state'[p] = "RUNNABLE" =>
               /\ at[p] = "s_value" /\ arg'[p] = arg[p]
               /\ \/ state[p] = "RUNNABLE" /\ signals'[arg[p]].value = signals[arg[p]].value
                  \/ signals'[arg[p]].value = 1
    PROVE  ReadyInv'
BY DEF ReadyInv

LEMMA ReadyNext ==
    KernelInv /\ WaiterIsInSwait /\ SwaitInv /\ WaitpidInv /\ ReadyInv /\ [KeptNext]_vars => ReadyInv'
<1> SUFFICES ASSUME KernelInv, WaiterIsInSwait, SwaitInv, WaitpidInv, ReadyInv, [KeptNext]_vars,
                    NEW a, a = active_process
             PROVE  ReadyInv'
  OBVIOUS
<1>0. /\ state \in [Proc -> {"NONE", "RUNNABLE", "BLOCKED", "ZOMBIE"}]
      /\ signals \in SignalTable
      /\ at \in [Proc -> {"none", "user"} \cup Calls]
      /\ arg \in [Proc -> Proc \cup Sid \cup {NoPid}]
      /\ \A p \in Proc : at[p] = "s_value" =>
            arg[p] \in Sid /\ signals[arg[p]].used /\ signals[arg[p]].waiting = p
      /\ \A p \in Proc : PlaceOf(p)
  BY KernelFacts DEF SwaitInv, InSwait
<1>a. ASSUME NEW p \in Proc, at'[p] # "s_value", UNCHANGED signals,
             \A r \in Proc \ {p} : at'[r] = at[r] /\ arg'[r] = arg[r] /\ state'[r] = state[r]
      PROVE  ReadyInv'
  BY <1>a, ReadyStep
<1>b. ASSUME UNCHANGED <<at, arg, state>>,
             \A p \in Proc : at[p] = "s_value" => signals'[arg[p]].value \in {signals[arg[p]].value, 1}
      PROVE  ReadyInv'
  BY <1>b, ReadyStep
<1>c. ASSUME NEW point \in Points \ {"schedule"}, Executing(point), UNCHANGED signals,
             NEW x, NEW y, Goto(x, y), x # "s_value",
             UNCHANGED state \/ \E st : state' = [state EXCEPT ![a] = st]
      PROVE  ReadyInv'
  <2>1. a \in Proc
    BY <1>c, Running
  <2>2. /\ at'[a] = x
        /\ \A r \in Proc \ {a} : at'[r] = at[r] /\ arg'[r] = arg[r] /\ state'[r] = state[r]
    BY <1>0, <1>c, <2>1 DEF Goto
  <2> QED
    BY <1>a, <1>c, <2>1, <2>2
<1>1. CASE Boot \/ create_process
  <2>1. Allocate(next_pid) /\ next_pid \in Proc /\ UNCHANGED signals
    BY <1>1, TypeFacts, KernelAssumption DEF Boot, create_process, Allocate, KernelInv, TypeInv
  <2>2. at'[next_pid] = "user"
        /\ \A r \in Proc \ {next_pid} : at'[r] = at[r] /\ arg'[r] = arg[r] /\ state'[r] = state[r]
    BY <1>0, <2>1 DEF Allocate
  <2> QED
    BY <1>a, <2>1, <2>2
<1>2. CASE KeptTick \/ schedule_Switch \/ println \/ Stopped \/ UNCHANGED vars
  BY <1>b, <1>2 DEF KeptTick, handleSigprof, schedule_Switch, println, Stopped, vars, procVars, ctxVars
<1>3. ASSUME NEW q, NEW point \in {"user", "w_again"}, Executing(point), LookForZombie(q)
      PROVE  ReadyInv'
  <2>1. UNCHANGED <<state, signals>> /\ (Goto("user", NoPid) \/ Goto("w_block", q))
    BY <1>3, LookEffect
  <2> QED
    BY <1>3, <1>c, <2>1 DEF Points, Calls
<1>4. CASE KeptWaitpid
  <2>1. CASE (\E q \in Proc \cup {NoPid} : waitpid(q)) \/ waitpid_Again
    BY <1>3, <2>1 DEF waitpid, waitpid_Again
  <2>2. CASE waitpid_State
    BY <1>c, <2>2 DEF waitpid_State, Points, Calls
  <2>3. CASE waitpid_For
    BY <1>c, <2>3 DEF waitpid_For, Points, Calls
  <2>4. CASE waitpid_Schedule
    BY <1>c, <2>4 DEF waitpid_Schedule, Points, Calls, procVars
  <2> QED
    BY <1>4, <2>1, <2>2, <2>3, <2>4 DEF KeptWaitpid
<1>5. CASE mbs_signal_new
  <2>1. FreeSids # {} => NewSid \in Sid /\ ~ signals[NewSid].used
    BY NewSidFree DEF FreeSids
  <2>2. \A t \in Sid : signals[t].used => signals'[t] = signals[t]
    BY <1>0, <1>5, <2>1 DEF mbs_signal_new, SignalTable
  <2> QED
    BY <1>0, <1>5, <1>b, <2>2 DEF mbs_signal_new, procVars, ctxVars
<1>6. CASE \E s \in Sid \cup {NoPid} : mbs_signal_free(s) /\ MayFree(s)
  <2>1. PICK s \in Sid \cup {NoPid} : mbs_signal_free(s)
    BY <1>6
  <2>2. \A t \in Sid : signals'[t].value = signals[t].value
    BY <1>0, <2>1 DEF mbs_signal_free, SignalTable
  <2> QED
    BY <1>0, <1>b, <2>1, <2>2 DEF mbs_signal_free, procVars, ctxVars
<1>7. CASE \E s \in Sid \cup {NoPid} : mbs_swait(s)
  <2>1. PICK s \in Sid \cup {NoPid} : mbs_swait(s)
    BY <1>7
  <2>2. CASE ~ ValidSid(s) \/ signals[s].waiting # NULL
    BY <1>b, <2>1, <2>2 DEF mbs_swait, ctxVars
  <2>3. CASE ValidSid(s) /\ signals[s].waiting = NULL /\ signals[s].value # 0
    <3>1. s \in Sid /\ UNCHANGED <<state, at, arg>>
          /\ signals' = [signals EXCEPT ![s].value = 0, ![s].waiting = NULL]
      BY <2>1, <2>3 DEF mbs_swait, ctxVars, ValidSid
    <3>2. \A p \in Proc : at[p] = "s_value" => arg[p] \in Sid \ {s}
      BY <1>0, <2>3, NullAssumption
    <3>3. \A t \in Sid \ {s} : signals'[t] = signals[t]
      BY <1>0, <3>1 DEF SignalTable
    <3> QED
      BY <1>b, <3>1, <3>2, <3>3
  <2>4. CASE ValidSid(s) /\ signals[s].waiting = NULL /\ signals[s].value = 0
    <3>1. /\ s \in Sid
          /\ signals' = [signals EXCEPT ![s].waiting = a]
          /\ state' = [state EXCEPT ![a] = "BLOCKED"] /\ Goto("s_value", s)
      BY <2>1, <2>4 DEF mbs_swait, ValidSid
    <3>2. a \in Proc
      BY <2>1, Running DEF mbs_swait, Points
    <3>3. /\ state'[a] = "BLOCKED" /\ \A t \in Sid : signals'[t].value = signals[t].value
          /\ \A r \in Proc \ {a} : at'[r] = at[r] /\ arg'[r] = arg[r] /\ state'[r] = state[r]
      BY <1>0, <3>1, <3>2 DEF Goto, SignalTable
    <3> QED
      BY <1>0, <3>3, ReadyStep
  <2> QED
    BY <2>2, <2>3, <2>4
<1>8. CASE mbs_swait_Value
  <2>1. /\ a \in Proc /\ at[a] = "s_value" /\ UNCHANGED state
        /\ signals' = [signals EXCEPT ![arg[a]].value = 0] /\ Goto("s_waiting", arg[a])
    BY <1>8, Running DEF mbs_swait_Value, Points, Calls, procVars
  <2>2. /\ \A t \in Sid \ {arg[a]} : signals'[t] = signals[t]
        /\ at'[a] = "s_waiting" /\ \A r \in Proc \ {a} : at'[r] = at[r] /\ arg'[r] = arg[r]
    BY <1>0, <2>1 DEF Goto, SignalTable
  <2>3. \A r \in Proc \ {a} : at[r] = "s_value" => arg[r] \in Sid \ {arg[a]}
    BY <1>0, <2>1
  <2> QED
    BY <2>1, <2>2, <2>3, ReadyStep
<1>9. CASE mbs_swait_Waiting
  <2>1. /\ a \in Proc /\ at[a] = "s_waiting" /\ UNCHANGED state /\ arg[a] \in Sid
        /\ signals' = [signals EXCEPT ![arg[a]].waiting = NULL] /\ Goto("user", NoPid)
    BY <1>9, Running, KernelFacts DEF mbs_swait_Waiting, Points, Calls, procVars, InSwait
  <2>2. /\ \A t \in Sid : signals'[t].value = signals[t].value
        /\ at'[a] = "user" /\ \A r \in Proc \ {a} : at'[r] = at[r] /\ arg'[r] = arg[r]
    BY <1>0, <2>1 DEF Goto, SignalTable
  <2> QED
    BY <1>0, <2>1, <2>2, ReadyStep
<1>10. CASE mbs_signal_Append
  <2>1. a \in Proc /\ at[a] = "sig_append"
    BY <1>10, Running DEF mbs_signal_Append, Points, Calls
  <2> QED
    BY <1>0, <2>1 DEF PlaceOf
<1>11. CASE \E s \in Sid \cup {NoPid} : mbs_signal(s) /\ (ValidSid(s) => MaySignal(s))
  <2>1. PICK s \in Sid \cup {NoPid} : mbs_signal(s) /\ (ValidSid(s) => MaySignal(s))
    BY <1>11
  <2>2. at' = at /\ arg' = arg
    BY <2>1, SignalEffect
  <2>3. CASE UNCHANGED <<signals, mem, state>>
    BY <1>b, <2>2, <2>3
  <2>4. ASSUME s \in Sid, signals' = [signals EXCEPT ![s].value = 1],
               \/ UNCHANGED state
               \/ \E w \in Proc : signals[s].waiting = w /\ state' = [state EXCEPT ![w] = "RUNNABLE"]
        PROVE  ReadyInv'
    <3>1. signals'[s].value = 1 /\ \A t \in Sid \ {s} : signals'[t] = signals[t]
      BY <1>0, <2>4 DEF SignalTable
    <3>2. \A w \in Proc : signals[s].waiting = w => arg[w] = s
      BY <2>4, NullAssumption DEF WaiterIsInSwait
    <3>3. \A p \in Proc : state'[p] = state[p] \/ arg[p] = s
      BY <1>0, <2>4, <3>2
    <3> QED
      BY <1>0, <2>2, <3>1, <3>3, ReadyStep
  <2> QED
    BY <2>1, <2>3, <2>4, SignalEffect
<1>12. CASE KeptWrapper
  <2>1. CASE process_wrapper_State
    BY <1>c, <2>1 DEF process_wrapper_State, Points, Calls
  <2>2. CASE process_wrapper_Wake
    <3>1. /\ a \in Proc /\ at[a] = "x_search" /\ Goto("x_sched", NoPid) /\ UNCHANGED signals
          /\ \/ UNCHANGED state
             \/ \E w \in Members(mem, "wait") :
                   w \in Proc /\ waiting_for[w] = a /\ state' = [state EXCEPT ![w] = "RUNNABLE"]
      BY <2>2, EndEffect
    <3>2. \A w \in Members(mem, "wait") : w \in Proc /\ waiting_for[w] = a => at[w] # "s_value"
      <4>1. \A w \in Members(mem, "wait") : w \in Proc => state[w] = "BLOCKED"
        BY KernelFacts DEF Placed, Queue
      <4> QED
        BY <3>1, <4>1 DEF WaitpidInv, MayExit, InSwait
    <3>3. /\ at'[a] = "x_sched" /\ \A r \in Proc \ {a} : at'[r] = at[r] /\ arg'[r] = arg[r]
          /\ \A r \in Proc : at[r] = "s_value" => state'[r] = state[r]
      BY <1>0, <3>1, <3>2 DEF Goto
    <3> QED
      BY <3>1, <3>3, ReadyStep
  <2>3. CASE process_wrapper_Schedule
    BY <1>c, <2>3 DEF process_wrapper_Schedule, Points, Calls, procVars
  <2>4. CASE process_wrapper_Error
    BY <1>b, <2>4 DEF process_wrapper_Error, procVars, ctxVars
  <2> QED
    BY <1>12, <2>1, <2>2, <2>3, <2>4 DEF KeptWrapper
<1> QED
  BY <1>1, <1>2, <1>4, <1>5, <1>6, <1>7, <1>8, <1>9, <1>10, <1>11, <1>12 DEF KeptNext, KeptSignals

LEMMA ServiceInit == Init => ServiceInv
<1>1. Init => WaiterIsInSwait /\ SwaitInv /\ WaitpidInv /\ ReadyInv
  BY DEF Init, WaiterIsInSwait, SwaitInv, InSwait, WaitpidInv, InWaitpid, ReadyInv
<1> QED
  BY <1>1, KernelInit DEF ServiceInv

LEMMA ServiceNext == ServiceInv /\ [KeptNext]_vars => ServiceInv'
<1> SUFFICES ASSUME ServiceInv, [KeptNext]_vars PROVE ServiceInv'
  OBVIOUS
<1>1. KernelInv' /\ SwaitInv' /\ WaitpidInv' /\ ReadyInv'
  BY KernelNext, SwaitNext, WaitpidNext, ReadyNext DEF ServiceInv
<1>2. WaiterIsInSwait'
  BY KeptIsNext, WaiterNext DEF ServiceInv, KernelInv, WaiterInv
<1> QED
  BY <1>1, <1>2 DEF ServiceInv

-----------------------------------------------------------------------------
(* What DemoInv says of a state                                            *)

LEMMA DemoProcs ==
    ASSUME DemoInv, DemoSize
    PROVE  /\ 0..6 \subseteq Proc /\ Proc \subseteq Nat /\ 0..3 \subseteq Sid /\ Sid \subseteq Nat
           /\ next_pid \in 0..7 /\ next_pid \in Nat /\ KernelInv
<1>1. KernelInv
  BY DEF DemoInv, ServiceInv
<1>2. next_pid \in Nat /\ next_pid <= 7
  BY <1>1, TypeFacts DEF KernelInv, DemoInv, Rest, ProgramsRun, CreatedInOrder
<1>3. /\ MaxProcs \in Nat /\ NumSignals \in Nat /\ Proc = 0..(MaxProcs - 1)
      /\ MaxProcs >= 7 /\ NumSignals >= 4
  BY KernelAssumption DEF DemoSize
<1>4. 0..6 \subseteq Proc /\ Proc \subseteq Nat /\ 0..3 \subseteq Sid /\ Sid \subseteq Nat
  BY <1>3 DEF Sid
<1> QED
  BY <1>1, <1>2, <1>4

LEMMA DemoTypes ==
    ASSUME DemoInv
    PROVE  /\ line \in [Proc -> Nat \ {0}] /\ function \in [Proc -> DOMAIN Text]
           /\ child \in [Proc -> Seq(Proc)] /\ bed \in [0..3 -> Int]
           /\ at \in [Proc -> {"none", "user"} \cup Calls]
           /\ arg \in [Proc -> Proc \cup Sid \cup {NoPid}]
           /\ signals \in SignalTable
           /\ state \in [Proc -> {"NONE", "RUNNABLE", "BLOCKED", "ZOMBIE"}]
           /\ waiting_for \in [Proc -> Proc \cup {NoPid}]
<1>1. KernelInv
  BY DEF DemoInv, ServiceInv
<1> QED
  BY <1>1, KernelFacts DEF DemoInv, Rest, ProgramsRun

LEMMA DemoPlaces ==
    ASSUME DemoInv, NEW p \in Proc
    PROVE  /\ child[p] = Offspring(p, line[p])
           /\ p < next_pid => p \in 0..6 /\ function[p] = Main(p) /\ line[p] <= Length(p) + 1
           /\ p >= next_pid => function[p] = "init" /\ line[p] = 1
BY DEF DemoInv, Rest, ProgramsRun

LEMMA DemoLines ==
    ASSUME DemoInv, DemoSize
    PROVE  /\ \A q \in 0..6 : q \in Proc /\ line[q] \in Nat \ {0}
           /\ CreatedInOrder(next_pid)
<1>1. CreatedInOrder(next_pid)
  BY DEF DemoInv, Rest, ProgramsRun
<1> QED
  BY <1>1, DemoProcs, DemoTypes

(* The invariants at one place of the table.                               *)
LEMMA Meeting ==
    ASSUME DemoInv, NEW p, NEW l, NEW i, NEW g, NEW k, Meets(p, l, i, g, k)
    PROVE  /\ signals[i].value = 1 <=> line[g] > k /\ ~ Consumed(p, l)
           /\ Consumed(p, l) => line[g] > k
<1>1. p \in 1..3 /\ g \in 1..3 /\ l \in 1..20 /\ k \in 1..20 /\ i \in 0..3
  BY DEF Meets
<1>2. MeetInv
  BY DEF DemoInv, Rest
<1> QED
  BY <1>1, <1>2 DEF MeetInv

LEMMA Joining ==
    ASSUME DemoInv, NEW p, NEW l, NEW c, Joins(p, l, c)
    PROVE  Reaped(c) <=> Joined(p, l)
<1>1. p \in {0, 1, 4} /\ l \in 1..20 /\ c \in 1..6
  BY DEF Joins
<1>2. JoinInv
  BY DEF DemoInv, Rest
<1> QED
  BY <1>1, <1>2 DEF JoinInv

(* The running process in its program.                                     *)
LEMMA InProgram ==
    ASSUME DemoInv, DemoSize, Executing("user")
    PROVE  /\ active_process \in 0..6 /\ active_process \in Proc /\ active_process < next_pid
           /\ host = "running" /\ at[active_process] = "user" /\ OnCpu(active_process)
           /\ function[active_process] = Main(active_process)
           /\ line[active_process] \in 1..(Length(active_process) + 1)
           /\ AtEnd(active_process) <=> line[active_process] > Length(active_process)
<1> SUFFICES ASSUME NEW p, p = active_process
             PROVE  /\ p \in 0..6 /\ p \in Proc /\ p < next_pid
                    /\ host = "running" /\ at[p] = "user" /\ OnCpu(p)
                    /\ function[p] = Main(p) /\ line[p] \in 1..(Length(p) + 1)
                    /\ AtEnd(p) <=> line[p] > Length(p)
  OBVIOUS
<1>1. p \in Proc /\ host = "running" /\ at[p] = "user" /\ OnCpu(p)
  BY DemoProcs, Running DEF Points
<1>2. p < next_pid
  <2>1. p \in Nat /\ next_pid \in Nat /\ TypeInv
    BY <1>1, DemoProcs DEF KernelInv
  <2>2. ~ (p >= next_pid)
    BY <1>1, <2>1 DEF TypeInv
  <2> QED
    BY <2>1, <2>2
<1>3. p \in 0..6 /\ function[p] = Main(p) /\ line[p] <= Length(p) + 1 /\ line[p] \in Nat \ {0}
  BY <1>1, <1>2, DemoPlaces, DemoTypes
<1>4. Length(p) \in Nat
  BY <1>3, Programs
<1>5. AtEnd(p) <=> line[p] > Length(p)
  BY <1>3, Lengths DEF AtEnd
<1>6. line[p] \in 1..(Length(p) + 1)
  BY <1>3, <1>4
<1> QED
  BY <1>1, <1>2, <1>3, <1>5, <1>6

LEMMA Executed ==
    ASSUME DemoInv, DemoSize, NEW op, NEW x, Runs(op, x)
    PROVE  /\ Executing("user") /\ active_process \in 0..6 /\ at[active_process] = "user"
           /\ line[active_process] \in 1..Length(active_process)
           /\ Text[Main(active_process)][line[active_process]] = <<op, x>>
           /\ line'[active_process] = line[active_process] + 1
           /\ \A q \in Proc \ {active_process} : line'[q] = line[q]
           /\ line' \in [Proc -> Nat \ {0}]
<1> SUFFICES ASSUME NEW p, p = active_process
             PROVE  /\ Executing("user") /\ p \in 0..6 /\ at[p] = "user"
                    /\ line[p] \in 1..Length(p)
                    /\ Text[Main(p)][line[p]] = <<op, x>>
                    /\ line'[p] = line[p] + 1
                    /\ \A q \in Proc \ {p} : line'[q] = line[q]
                    /\ line' \in [Proc -> Nat \ {0}]
  OBVIOUS
<1>1. Executing("user") /\ Executes(p, op, x)
  BY DEF Runs
<1>2. /\ p \in 0..6 /\ p \in Proc /\ at[p] = "user" /\ function[p] = Main(p)
      /\ line[p] \in 1..(Length(p) + 1) /\ (AtEnd(p) <=> line[p] > Length(p))
  BY <1>1, InProgram
<1>3. line' = [line EXCEPT ![p] = line[p] + 1] /\ ~ AtEnd(p) /\ Instruction(p) = <<op, x>>
  BY <1>1 DEF Executes
<1>4. line \in [Proc -> Nat \ {0}] /\ Length(p) \in Nat
  BY <1>2, DemoTypes, Programs
<1>5. line'[p] = line[p] + 1 /\ \A q \in Proc \ {p} : line'[q] = line[q]
  BY <1>2, <1>3, <1>4
<1>6. line' \in [Proc -> Nat \ {0}] /\ line[p] \in 1..Length(p)
  BY <1>2, <1>3, <1>4
<1> QED
  BY <1>1, <1>2, <1>3, <1>5, <1>6 DEF Instruction

(* A process whose waiter has got past its waitpid has ended.              *)
LEMMA JoinedHasEnded ==
    ASSUME DemoInv, DemoSize, NEW p, NEW l, NEW c, Joins(p, l, c), Joined(p, l)
    PROVE  Ended(c) /\ line[c] > Length(c)
<1>1. c \in Proc
  BY DemoProcs DEF Joins
<1>2. state[c] = "ZOMBIE"
  BY Joining DEF Reaped
<1>3. Ended(c)
  BY <1>1, <1>2, DemoProcs, KernelFacts DEF PlaceOf
<1> QED
  BY <1>1, <1>3 DEF DemoInv, Rest, PlacesInv

(* bw_proc1 starts when proc1 to proc3 have ended.                         *)
LEMMA FirstPartOver ==
    ASSUME DemoInv, DemoSize, line[0] > 4
    PROVE  \A c \in 1..3 : Ended(c) /\ line[c] > Length(c)
<1>1. \A q \in 0..6 : line[q] \in Nat
  BY DemoLines
<1>2. Joins(0, 3, 1) /\ Joins(1, 18, 3) /\ Joins(1, 19, 2)
  BY DEF Joins
<1>3. Joined(0, 3)
  BY DEF Joined
<1>4. Ended(1) /\ line[1] > 19
  BY <1>2, <1>3, JoinedHasEnded, Programs
<1>5. Joined(1, 18) /\ Joined(1, 19)
  BY <1>1, <1>4 DEF Joined, Ended, InWaitpid
<1>6. Ended(2) /\ line[2] > Length(2) /\ Ended(3) /\ line[3] > Length(3)
  BY <1>2, <1>5, JoinedHasEnded
<1> QED
  BY <1>4, <1>6, Programs

LEMMA SecondPart ==
    ASSUME DemoInv, DemoSize, line[4] > 1 \/ next_pid >= 5
    PROVE  line[0] > 5 /\ \A c \in 1..3 : Ended(c) /\ line[c] > Length(c)
<1>1. /\ CreatedInOrder(next_pid) /\ next_pid \in Nat /\ 4 \in Proc /\ 0 \in Proc
      /\ line[0] \in Nat
  BY DemoLines, DemoProcs
<1>2. next_pid >= 5
  <2>1. line[4] > 1 => ~ (4 >= next_pid)
    BY <1>1, DemoPlaces
  <2> QED
    BY <1>1, <2>1
<1>3. line[0] > 5
  BY <1>1, <1>2 DEF CreatedInOrder
<1>4. line[0] > 4
  BY <1>1, <1>3
<1> QED
  BY <1>3, <1>4, FirstPartOver

-----------------------------------------------------------------------------
(* The programs keep the obligations                                       *)

(* The variable a signal or an swait of the text names, which proc1 has    *)
(* got before.                                                             *)
LEMMA BedHolds ==
    ASSUME DemoInv, DemoSize, Executing("user"), NEW i,
           \/ Raises(active_process, line[active_process], i)
           \/ Swaits(active_process, line[active_process], i)
    PROVE  /\ active_process \in 1..3 /\ i \in 0..3 /\ i \in Sid
           /\ bed[i] = i /\ signals[i].used
<1> SUFFICES ASSUME NEW p, p = active_process
             PROVE  p \in 1..3 /\ i \in 0..3 /\ i \in Sid /\ bed[i] = i /\ signals[i].used
  OBVIOUS
<1>1. p \in 1..3 /\ i \in 0..3 /\ (p = 1 => line[1] > i + 1)
  BY DEF Raises, Swaits
<1>2. /\ p < next_pid /\ at[p] = "user" /\ CreatedInOrder(next_pid)
      /\ line[1] \in Nat /\ line[4] \in Nat \ {0}
      /\ next_pid \in Nat /\ i \in Sid
  BY <1>1, InProgram, DemoLines, DemoProcs
<1>3. line[1] > i + 1
  BY <1>1, <1>2 DEF CreatedInOrder
<1>4. line[4] = 1
  <2>1. line[4] > 1 => Ended(p)
    BY <1>1, SecondPart
  <2> QED
    BY <1>2, <2>1 DEF Ended
<1> QED
  BY <1>1, <1>2, <1>3, <1>4 DEF DemoInv, Rest, TableInv

(* Nobody is registered with the variable of an instruction but the        *)
(* process that waits for it in the text, and that one is asleep as long   *)
(* as the variable has not been set for it.                                *)
LEMMA RegisteredWaits ==
    ASSUME DemoInv, DemoSize, NEW i \in 0..3, NEW w, signals[i].waiting = w, w # NULL
    PROVE  /\ w \in 1..3 /\ InSwait(w) /\ arg[w] = i /\ Swaits(w, line[w] - 1, i)
           /\ state[w] = "BLOCKED" \/ signals[i].value = 1 \/ Consumed(w, line[w] - 1)
<1>1. w \in Proc /\ i \in Sid
  BY DemoProcs, DemoTypes DEF SignalTable, Pointer
<1>2. InSwait(w) /\ arg[w] = i
  BY <1>1 DEF DemoInv, ServiceInv, WaiterIsInSwait
<1>3. Swaits(w, line[w] - 1, i) /\ w \in 1..3
  BY <1>1, <1>2 DEF DemoInv, Rest, PlacesInv, Swaits
<1>4. state[w] \in {"BLOCKED", "RUNNABLE"}
  BY <1>1, <1>2, DemoTypes, DemoProcs, KernelFacts DEF PlaceOf, InSwait, Ended
<1>5. CASE at[w] = "s_value"
  BY <1>1, <1>2, <1>4, <1>5, <1>3 DEF DemoInv, ServiceInv, ReadyInv
<1>6. CASE at[w] = "s_waiting"
  <2>1. line[w] \in Nat
    BY <1>1, DemoTypes
  <2>2. Consumed(w, line[w] - 1)
    BY <1>6, <2>1 DEF Consumed
  <2> QED
    BY <1>2, <1>3, <2>2
<1> QED
  BY <1>2, <1>5, <1>6 DEF InSwait

(* A variable is signalled once, before its waiter has come back.          *)
LEMMA SignalIsFirst ==
    ASSUME DemoInv, DemoSize, Executing("user"), NEW i,
           Raises(active_process, line[active_process], i)
    PROVE  MaySignal(bed[i])
<1>1. active_process \in 1..3 /\ i \in 0..3 /\ bed[i] = i
  BY BedHolds
<1> SUFFICES ASSUME NEW w, signals[i].waiting = w, w # NULL PROVE state[w] = "BLOCKED"
  BY <1>1 DEF MaySignal
<1>2. /\ w \in 1..3 /\ Swaits(w, line[w] - 1, i)
      /\ state[w] = "BLOCKED" \/ signals[i].value = 1 \/ Consumed(w, line[w] - 1)
  BY <1>1, RegisteredWaits
<1>3. line[active_process] \in Nat
  BY <1>1, DemoLines
<1>4. Meets(w, line[w] - 1, i, active_process, line[active_process])
  BY <1>2 DEF Raises, Swaits, Meets
<1>5. signals[i].value # 1 /\ ~ Consumed(w, line[w] - 1)
  BY <1>3, <1>4, Meeting
<1> QED
  BY <1>2, <1>5

LEMMA WaitIsFirst ==
    ASSUME DemoInv, DemoSize, Executing("user"), NEW k,
           Awaits(active_process, line[active_process], k),
           NEW c, c = child[active_process][k]
    PROVE  /\ Joins(active_process, line[active_process], c)
           /\ c \in 1..6 /\ c \in Proc /\ MayWaitpid(c)
<1> SUFFICES ASSUME NEW p, p = active_process
             PROVE  Joins(p, line[p], c) /\ c \in 1..6 /\ c \in Proc /\ MayWaitpid(c)
  OBVIOUS
<1>1. p \in Proc /\ 0..6 \subseteq Proc /\ Proc \subseteq Nat /\ at[p] = "user"
  BY InProgram, DemoProcs
<1>2. child[p] = Offspring(p, line[p])
  BY <1>1, DemoPlaces
<1>3. Joins(p, line[p], c)
  BY <1>2, WaitsJoin
<1>4. c \in 1..6 /\ c # p /\ p \in {0, 1, 4} /\ line[p] \in 1..20
  BY <1>3 DEF Joins
<1>5. ~ Joined(p, line[p])
  BY <1>4 DEF Joined
<1>6. ~ Reaped(c)
  BY <1>3, <1>5, Joining
<1>7. ASSUME NEW w \in Proc, InWaitpid(w), arg[w] = c
      PROVE  FALSE
  <2>1. Joins(w, line[w] - 1, c) /\ line[w] \in Nat
    BY <1>7, DemoTypes DEF DemoInv, Rest, PlacesInv
  <2>2. w = p
    BY <1>3, <2>1 DEF Joins
  <2> QED
    BY <1>1, <1>7, <2>2 DEF InWaitpid
<1> QED
  BY <1>1, <1>3, <1>4, <1>6, <1>7 DEF MayWaitpid

(* The end of a process wakes nobody in mbs_swait: when a process ends,    *)
(* nobody is asleep there, but for proc2 while proc3 ends.                 *)
LEMMA EndIsAlone ==
    ASSUME DemoInv, DemoSize, Executing("user"), AtEnd(active_process)
    PROVE  MayExit(active_process)
<1> SUFFICES ASSUME NEW p, p = active_process, NEW w \in Proc, InSwait(w), state[w] = "BLOCKED",
                    waiting_for[w] = p
             PROVE  FALSE
  BY DEF MayExit
<1>1. /\ p \in 0..6 /\ p < next_pid /\ line[p] = Length(p) + 1 /\ 0..6 \subseteq Proc
      /\ at[p] = "user" /\ next_pid \in Nat
  BY InProgram, DemoProcs, Programs
<1>2. w \in 1..3 /\ Swaits(w, line[w] - 1, arg[w]) /\ arg[w] \in 0..3 /\ w # p
  BY <1>1 DEF DemoInv, Rest, PlacesInv, Swaits, InSwait
<1>3. signals[arg[w]].value = 0 /\ at[w] = "s_value"
  BY DemoProcs, KernelFacts DEF DemoInv, ServiceInv, SwaitInv, InSwait, PlaceOf
<1>4. \A q \in 0..6 : line[q] \in Nat \ {0}
  BY <1>1, DemoTypes
<1>5. \A g, k : Meets(w, line[w] - 1, arg[w], g, k) => line[g] <= k
  <2> SUFFICES ASSUME NEW g, NEW k, Meets(w, line[w] - 1, arg[w], g, k)
               PROVE  line[g] <= k
    OBVIOUS
  <2>1. ~ Consumed(w, line[w] - 1)
    BY <1>2, <1>3, <1>4 DEF Consumed
  <2>2. ~ (line[g] > k)
    BY <1>3, <2>1, Meeting
  <2>3. g \in 1..3 /\ k \in 1..20
    BY DEF Meets
  <2> QED
    BY <1>4, <2>2, <2>3
<1>6. ~ Ended(w)
  BY DEF Ended, InSwait
<1>7. CASE p = 0
  <2>1. line[0] > 4
    BY <1>1, <1>7, Programs
  <2> QED
    BY <1>2, <1>6, <2>1, FirstPartOver
<1>8. CASE p = 1
  <2>1. Joins(1, 18, 3) /\ Joins(1, 19, 2) /\ line[1] = 20
    BY <1>1, <1>8, Programs DEF Joins
  <2>2. Joined(1, 18) /\ Joined(1, 19)
    BY <1>1, <1>8, <2>1 DEF Joined, InWaitpid
  <2>3. Ended(2) /\ Ended(3)
    BY <2>1, <2>2, JoinedHasEnded
  <2> QED
    BY <1>2, <1>6, <1>8, <2>3
<1>9. CASE p = 2
  <2>1. Meets(2, 4, 3, 1, 16) /\ Consumed(2, 4)
    BY <1>1, <1>9, Programs DEF Consumed, Meets
  <2>2. line[1] > 16
    BY <2>1, Meeting
  <2>3. w = 1 => line[1] <= 13
    BY <1>2, <1>4 DEF Swaits
  <2>4. w = 3 => line[1] <= 14
    BY <1>2, <1>5 DEF Swaits, Meets
  <2> QED
    BY <1>2, <1>4, <1>9, <2>2, <2>3, <2>4
<1>10. CASE p = 3
  <2>1. Meets(3, 4, 2, 1, 14) /\ Consumed(3, 4)
    BY <1>1, <1>10, Programs DEF Consumed, Meets
  <2>2. line[1] > 14
    BY <2>1, Meeting
  <2>3. w = 1 => line[1] <= 13
    BY <1>2, <1>4 DEF Swaits
  <2>4. w # 2
    BY <1>10 DEF DemoInv, Rest, StaleInv
  <2> QED
    BY <1>2, <1>4, <1>10, <2>2, <2>3, <2>4
<1>11. CASE p \in 4..6
  BY <1>1, <1>2, <1>6, <1>11, SecondPart
<1> QED
  BY <1>1, <1>7, <1>8, <1>9, <1>10, <1>11

-----------------------------------------------------------------------------
(* Every step of the demo programs is one of the kernel for programs that  *)
(* keep the obligations, or leaves the kernel alone.                       *)
LEMMA DemoIsKept ==
    ASSUME DemoInv, DemoSize, TickAt \cap Harmful = {}, [DemoNext]_demoVars
    PROVE  [KeptNext]_vars
<1>1. CASE Boot
  BY <1>1 DEF KeptNext
<1>2. CASE \E f \in DOMAIN Text : Create(f)
  BY <1>2 DEF Create, KeptNext
<1>3. ASSUME NEW i \in 0..3, NewSignal(i) \/ Assign(i) PROVE [KeptNext]_vars
  BY <1>3 DEF NewSignal, Assign, KeptNext, KeptSignals
<1>4. ASSUME NEW i \in 0..3, CallOnSignal(i) PROVE [KeptNext]_vars
  <2>1. CASE Runs("swait", i) /\ mbs_swait(bed[i])
    <3>1. Swaits(active_process, line[active_process], i) /\ Executing("user")
      BY <2>1, Executed, Script
    <3>2. bed[i] \in Sid
      BY <3>1, BedHolds
    <3> QED
      BY <2>1, <3>2 DEF KeptNext, KeptSignals
  <2>2. CASE Runs("signal", i) /\ mbs_signal(bed[i])
    <3>1. Raises(active_process, line[active_process], i) /\ Executing("user")
      BY <2>2, Executed, Script
    <3>2. bed[i] \in Sid /\ MaySignal(bed[i])
      BY <3>1, BedHolds, SignalIsFirst
    <3> QED
      BY <2>2, <3>2 DEF KeptNext, KeptSignals
  <2> QED
    BY <1>4, <2>1, <2>2 DEF CallOnSignal
<1>5. ASSUME NEW k \in 1..2, WaitForChild(k) PROVE [KeptNext]_vars
  <2>1. Awaits(active_process, line[active_process], k) /\ Executing("user")
    BY <1>5, Executed, Script DEF WaitForChild
  <2>2. PICK c : c = child[active_process][k]
    OBVIOUS
  <2>3. c \in Proc /\ MayWaitpid(c)
    BY <2>1, <2>2, WaitIsFirst
  <2> QED
    BY <1>5, <2>2, <2>3 DEF WaitForChild, KeptNext, KeptWaitpid
<1>6. CASE Say_ \/ Done \/ UNCHANGED demoVars
  BY <1>6 DEF Say_, Done, KeptNext, demoVars
<1>7. CASE Return
  BY <1>7, EndIsAlone DEF Return, KeptNext, KeptWrapper
<1>8. CASE InKernel
  BY <1>8 DEF InKernel, KeptNext, KeptWaitpid, KeptSignals, KeptWrapper
<1>9. CASE Tick
  BY <1>9 DEF Tick, handleSigprof, KeptNext, KeptTick
<1> QED
  BY <1>1, <1>2, <1>3, <1>4, <1>5, <1>6, <1>7, <1>8, <1>9 DEF DemoNext, Step, Moves

-----------------------------------------------------------------------------
(* Which processes have been taken out of zombie_queue                     *)

(* Nobody, by a step of the running process that leaves that queue alone.  *)
LEMMA ReapedRunning ==
    ASSUME KernelInv, OnCpu(active_process), depth' = depth,
           Members(mem', "zombie") = Members(mem, "zombie"),
           \A p \in Proc \ {active_process} : state'[p] = "ZOMBIE" <=> state[p] = "ZOMBIE",
           NEW p \in Proc
    PROVE  Reaped(p)' <=> Reaped(p)
<1>1. CASE p = active_process
  <2>1. ~ (depth[p] > 0)
    BY <1>1 DEF OnCpu
  <2> QED
    BY <2>1 DEF Reaped
<1>2. CASE p # active_process
  BY <1>2 DEF Reaped
<1> QED
  BY <1>1, <1>2

(* Nor by one that enters schedule().                                      *)
LEMMA ReapedEntering ==
    ASSUME KernelInv, OnCpu(active_process), active_process \in Proc, NEW st \in States,
           EnterSchedule(st), state'[active_process] = st,
           \A p \in Proc \ {active_process} : state'[p] = state[p],
           NEW p \in Proc
    PROVE  Reaped(p)' <=> Reaped(p)
<1>1. /\ Members(mem', QueueOf(st)) = Members(mem, QueueOf(st)) \cup {active_process}
      /\ \A r \in Queue \ {QueueOf(st)} : Members(mem', r) = Members(mem, r)
      /\ depth' = [depth EXCEPT ![active_process] = 1]
  BY EnterEffect
<1>2. depth \in [Proc -> 0..MaxDepth] /\ depth[active_process] = 0 /\ "zombie" \in Queue
  BY KernelFacts DEF OnCpu, Queue
<1>3. CASE p = active_process
  <2>1. st = "ZOMBIE" => p \in Members(mem', "zombie")
    BY <1>1, <1>3 DEF QueueOf
  <2> QED
    BY <1>2, <1>3, <2>1 DEF Reaped
<1>4. CASE p # active_process
  <2>1. depth'[p] = depth[p] /\ state'[p] = state[p]
    BY <1>1, <1>2, <1>4
  <2>2. p \in Members(mem', "zombie") <=> p \in Members(mem, "zombie")
    BY <1>1, <1>2, <1>4
  <2> QED
    BY <2>1, <2>2 DEF Reaped
<1> QED
  BY <1>3, <1>4

(* Nor by one in which schedule() hands over the processor.                *)
LEMMA ReapedSwitching ==
    ASSUME KernelInv, schedule_Switch, NEW p \in Proc
    PROVE  Reaped(p)' <=> Reaped(p)
<1>1. /\ state' = state /\ Members(mem', "zombie") = Members(mem, "zombie")
      /\ \/ depth' = depth
         \/ /\ state[active_process'] = "RUNNABLE"
            /\ depth' = [depth EXCEPT ![active_process'] = 0]
  BY SwitchEffect DEF Queue
<1>2. depth \in [Proc -> 0..MaxDepth]
  BY KernelFacts
<1>3. PICK n : n = active_process'
  OBVIOUS
<1>4. depth'[p] = depth[p] \/ state[p] = "RUNNABLE"
  BY <1>1, <1>2, <1>3
<1> QED
  BY <1>1, <1>4 DEF Reaped

(* waitpid takes out the process it looks for, if that has ended.          *)
LEMMA ReapedLooking ==
    ASSUME KernelInv, OnCpu(active_process), active_process \in Proc, NEW q,
           LookForZombie(q), NEW p \in Proc
    PROVE  /\ Reaped(p)' <=> Reaped(p) \/ (p = q /\ Goto("user", NoPid))
           /\ Goto("user", NoPid) => q \in Proc /\ Ended(q) /\ q # active_process
<1>1. /\ UNCHANGED <<state, depth>>
      /\ Members(mem', "zombie") = Members(mem, "zombie") \ {q}
      /\ \/ q \in Members(mem, "zombie") /\ Goto("user", NoPid)
         \/ q \notin Members(mem, "zombie") /\ Goto("w_block", q)
  BY LookEffect
<1>2. ~ (Goto("user", NoPid) /\ Goto("w_block", q))
  <2>1. active_process \in Proc /\ at \in [Proc -> {"none", "user"} \cup Calls]
    BY KernelFacts
  <2> QED
    BY <2>1 DEF Goto
<1>3. CASE q \in Members(mem, "zombie")
  <2>1. q \in Proc /\ q # active_process /\ state[q] = "ZOMBIE" /\ ~ OnCpu(q)
    BY <1>3, KernelFacts DEF Queue, OnCpu, Placed
  <2>2. Ended(q) /\ depth[q] > 0
    BY <2>1, KernelFacts DEF PlaceOf, Ended
  <2> QED
    BY <1>1, <1>3, <2>1, <2>2 DEF Reaped
<1>4. CASE q \notin Members(mem, "zombie")
  <2>1. Members(mem', "zombie") = Members(mem, "zombie") /\ ~ Goto("user", NoPid)
    BY <1>1, <1>2, <1>4
  <2> QED
    BY <1>1, <2>1 DEF Reaped
<1> QED
  BY <1>3, <1>4

-----------------------------------------------------------------------------
(* Steps inside a call: no instruction is executed                         *)

LEMMA JoinQuiet ==
    ASSUME DemoInv, line' = line,
           \A p \in {0, 1, 4} : InWaitpid(p)' <=> InWaitpid(p),
           \A c \in 1..6 : Reaped(c)' <=> Reaped(c)
    PROVE  JoinInv'
<1> SUFFICES ASSUME NEW p \in {0, 1, 4}, NEW l \in 1..20, NEW c \in 1..6, Joins(p, l, c)
             PROVE  Reaped(c)' <=> Joined(p, l)'
  BY DEF JoinInv
<1>1. Joined(p, l)' <=> Joined(p, l)
  BY DEF Joined
<1> QED
  BY <1>1, Joining

LEMMA MeetQuiet ==
    ASSUME DemoInv, line' = line,
           \A p \in 1..3 : at'[p] = "s_value" <=> at[p] = "s_value",
           \A i \in 0..3 : signals'[i].value = signals[i].value
    PROVE  MeetInv'
<1> SUFFICES ASSUME NEW p \in 1..3, NEW g \in 1..3, NEW l \in 1..20, NEW k \in 1..20,
                    NEW i \in 0..3, Meets(p, l, i, g, k)
             PROVE  /\ signals'[i].value = 1 <=> line'[g] > k /\ ~ Consumed(p, l)'
                    /\ Consumed(p, l)' => line'[g] > k
  BY DEF MeetInv
<1>1. Consumed(p, l)' <=> Consumed(p, l)
  BY DEF Consumed
<1> QED
  BY <1>1, Meeting

(* The running process goes from a point of a call to the next, or leaves  *)
(* it, and nothing else happens to the programs.                           *)
LEMMA RestMoves ==
    ASSUME DemoInv, DemoSize, UNCHANGED programVars, next_pid' = next_pid,
           waiting_for'[2] # 3, NEW a \in Proc, a = active_process,
           \A s \in Sid : signals'[s].used = signals[s].used,
           UNCHANGED <<at, arg>> \/ \E x, y :
               /\ Goto(x, y) /\ x # "none"
               /\ x \in WaitpidPoints => InWaitpid(a) /\ y = arg[a]
               /\ x \in SwaitPoints => InSwait(a) /\ y = arg[a]
               /\ Ended(a)' =>
                     \/ Ended(a)
                     \/ a \in 0..6 /\ line[a] > Length(a),
           JoinInv', MeetInv'
    PROVE  Rest'
<1>1. UNCHANGED <<function, line, child, bed>>
  BY DEF programVars
<1>2. ProgramsRun(Proc, next_pid)'
  BY <1>1 DEF DemoInv, Rest, ProgramsRun, CreatedInOrder
<1>3. PlacesInv'
  <2>1. PlacesInv
    BY DEF DemoInv, Rest
  <2>2. CASE UNCHANGED <<at, arg>>
    BY <1>1, <2>1, <2>2 DEF PlacesInv, Ended, InWaitpid, InSwait
  <2>3. ASSUME NEW x, NEW y, Goto(x, y), x # "none",
               x \in WaitpidPoints => InWaitpid(a) /\ y = arg[a],
               x \in SwaitPoints => InSwait(a) /\ y = arg[a],
               Ended(a)' =>
                     \/ Ended(a)
                     \/ a \in 0..6 /\ line[a] > Length(a)
        PROVE  PlacesInv'
    <3>1. /\ at'[a] = x /\ arg'[a] = y
          /\ \A q \in Proc \ {a} : at'[q] = at[q] /\ arg'[q] = arg[q]
      BY <2>3, DemoTypes DEF Goto
    <3>2. ASSUME NEW q \in Proc
          PROVE  /\ Ended(q)' => q \in 0..6 /\ line'[q] > Length(q)
                 /\ at'[q] = "none" => line'[q] = 1
                 /\ InWaitpid(q)' => Joins(q, line'[q] - 1, arg'[q])
                 /\ InSwait(q)' => Swaits(q, line'[q] - 1, arg'[q])
      <4>1. CASE q = a
        <5>1. Ended(q)' => q \in 0..6 /\ line'[q] > Length(q)
          BY <1>1, <2>1, <2>3, <4>1 DEF PlacesInv
        <5>2. InWaitpid(q)' => InWaitpid(q) /\ arg'[q] = arg[q]
          BY <2>3, <3>1, <4>1 DEF InWaitpid, WaitpidPoints
        <5>3. InSwait(q)' => InSwait(q) /\ arg'[q] = arg[q]
          BY <2>3, <3>1, <4>1 DEF InSwait, SwaitPoints
        <5> QED
          BY <1>1, <2>1, <2>3, <3>1, <4>1, <5>1, <5>2, <5>3 DEF PlacesInv
      <4>2. CASE q # a
        BY <1>1, <2>1, <3>1, <4>2 DEF PlacesInv, Ended, InWaitpid, InSwait
      <4> QED
        BY <4>1, <4>2
    <3> QED
      BY <3>2 DEF PlacesInv
  <2> QED
    BY <2>2, <2>3
<1>4. TableInv'
  BY <1>1 DEF DemoInv, Rest, TableInv
<1>5. PollInv'
  BY <1>1 DEF DemoInv, Rest, PollInv
<1> QED
  BY <1>2, <1>3, <1>4, <1>5 DEF Rest, StaleInv

(* A step that moves no process into or out of waitpid, and none past the  *)
(* reset of a variable.                                                    *)
LEMMA RestQuiet ==
    ASSUME DemoInv, DemoSize, UNCHANGED programVars, next_pid' = next_pid,
           waiting_for'[2] # 3, NEW a \in Proc, a = active_process,
           \A s \in Sid : /\ signals'[s].used = signals[s].used
                          /\ signals'[s].value = signals[s].value,
           \A c \in Proc : Reaped(c)' <=> Reaped(c),
           UNCHANGED <<at, arg>> \/ \E x, y :
               /\ Goto(x, y) /\ x # "none"
               /\ x \in WaitpidPoints <=> InWaitpid(a)
               /\ x = "s_value" <=> at[a] = "s_value"
               /\ x \in WaitpidPoints => y = arg[a]
               /\ x \in SwaitPoints => InSwait(a) /\ y = arg[a]
               /\ Ended(a)' =>
                     \/ Ended(a)
                     \/ a \in 0..6 /\ line[a] > Length(a)
    PROVE  Rest'
<1>1. line' = line /\ 0..6 \subseteq Proc /\ 0..3 \subseteq Sid
  BY DemoProcs DEF programVars
<1>2. \A q \in Proc : (InWaitpid(q)' <=> InWaitpid(q)) /\ (at'[q] = "s_value" <=> at[q] = "s_value")
  <2>1. CASE UNCHANGED <<at, arg>>
    BY <2>1 DEF InWaitpid
  <2>2. ASSUME NEW x, NEW y, Goto(x, y), x \in WaitpidPoints <=> InWaitpid(a),
               x = "s_value" <=> at[a] = "s_value"
        PROVE  \A q \in Proc : /\ InWaitpid(q)' <=> InWaitpid(q)
                               /\ at'[q] = "s_value" <=> at[q] = "s_value"
    <3>1. /\ at'[a] = x
          /\ \A q \in Proc \ {a} : at'[q] = at[q]
      BY <2>2, DemoTypes DEF Goto
    <3>2. ASSUME NEW q \in Proc
          PROVE  (InWaitpid(q)' <=> InWaitpid(q)) /\ (at'[q] = "s_value" <=> at[q] = "s_value")
      BY <2>2, <3>1 DEF InWaitpid, WaitpidPoints
    <3> QED
      BY <3>2
  <2> QED
    BY <2>1, <2>2
<1>3. JoinInv'
  BY <1>1, <1>2, JoinQuiet
<1>4. MeetInv'
  BY <1>1, <1>2, MeetQuiet
<1> QED
  BY <1>3, <1>4, RestMoves

(* The running process in a call.                                          *)
LEMMA InCall ==
    ASSUME DemoInv, DemoSize, NEW point \in Calls, Executing(point)
    PROVE  /\ active_process \in Proc /\ at[active_process] = point /\ OnCpu(active_process)
           /\ host = "running" /\ KernelInv
<1> QED
  BY DemoProcs, Running DEF Points, Calls

LEMMA RestTick ==
    ASSUME DemoInv, DemoSize, KeptTick, UNCHANGED programVars
    PROVE  Rest'
<1>1. /\ host = "running" /\ Here \notin Harmful /\ EnterSchedule(state[active_process])
      /\ UNCHANGED <<next_pid, state, waiting_for, active_process, signals, at, arg>>
  BY DEF KeptTick, handleSigprof, procVars
<1>2. KernelInv /\ active_process \in Proc
  BY <1>1, DemoProcs, KernelFacts
<1>3. OnCpu(active_process)
  BY <1>1, <1>2, KernelFacts DEF Here, Harmful, OnCpu, PlaceOf
<1>4. state[active_process] \in States
  BY <1>1, <1>2, TypeFacts DEF KernelInv, Live, States
<1>5. \A p \in Proc : Reaped(p)' <=> Reaped(p)
  BY <1>1, <1>2, <1>3, <1>4, ReapedEntering
<1>6. waiting_for'[2] # 3
  BY <1>1 DEF DemoInv, Rest, StaleInv
<1> QED
  BY <1>1, <1>2, <1>5, <1>6, RestQuiet

LEMMA RestSwitch ==
    ASSUME DemoInv, DemoSize, schedule_Switch, UNCHANGED programVars
    PROVE  Rest'
<1>1. KernelInv
  BY DemoProcs
<1>2. /\ UNCHANGED <<next_pid, waiting_for, signals, at, arg>> /\ active_process \in Proc
  BY <1>1, SwitchEffect
<1>3. \A p \in Proc : Reaped(p)' <=> Reaped(p)
  BY <1>1, ReapedSwitching
<1>4. waiting_for'[2] # 3
  BY <1>2 DEF DemoInv, Rest, StaleInv
<1> QED
  BY <1>2, <1>3, <1>4, RestQuiet

LEMMA RestSleeps ==
    ASSUME DemoInv, DemoSize, waitpid_State \/ waitpid_For, UNCHANGED programVars
    PROVE  Rest'
<1> SUFFICES ASSUME NEW a, a = active_process PROVE Rest'
  OBVIOUS
<1>1. /\ \/ at[a] = "w_block" /\ Goto("w_for", arg[a])
            /\ state' = [state EXCEPT ![a] = "BLOCKED"] /\ UNCHANGED waiting_for
         \/ at[a] = "w_for" /\ Goto("w_sched", arg[a])
            /\ waiting_for' = [waiting_for EXCEPT ![a] = arg[a]] /\ UNCHANGED state
      /\ a \in Proc /\ OnCpu(a) /\ KernelInv
  BY InCall DEF waitpid_State, waitpid_For, Calls
<1>2. UNCHANGED <<next_pid, mem, active_process, signals, depth>>
  BY DEF waitpid_State, waitpid_For
<1>3. /\ state \in [Proc -> {"NONE", "RUNNABLE", "BLOCKED", "ZOMBIE"}]
      /\ waiting_for \in [Proc -> Proc \cup {NoPid}] /\ 0..6 \subseteq Proc
  BY DemoTypes, DemoProcs
<1>4. \A p \in Proc : Reaped(p)' <=> Reaped(p)
  BY <1>1, <1>2, <1>3, ReapedRunning
<1>5. a \in {0, 1, 4} /\ InWaitpid(a)
  BY <1>1, Tables DEF DemoInv, Rest, PlacesInv, InWaitpid
<1>6. waiting_for'[2] # 3
  BY <1>1, <1>3, <1>5 DEF DemoInv, Rest, StaleInv
<1>7. \E x, y : /\ Goto(x, y) /\ x # "none" /\ x \in WaitpidPoints /\ x # "s_value" /\ y = arg[a]
                /\ x \notin SwaitPoints /\ ~ Ended(a)'
  <2>1. ASSUME NEW x, Goto(x, arg[a]), x \in {"w_for", "w_sched"} PROVE ~ Ended(a)'
    BY <1>1, <2>1, DemoTypes DEF Goto, Ended
  <2> QED
    BY <1>1, <2>1 DEF WaitpidPoints, SwaitPoints
<1>8. at[a] # "s_value"
  BY <1>1
<1> QED
  BY <1>1, <1>2, <1>4, <1>5, <1>6, <1>7, <1>8, RestQuiet

LEMMA RestSchedule ==
    ASSUME DemoInv, DemoSize, waitpid_Schedule \/ process_wrapper_Schedule, UNCHANGED programVars
    PROVE  Rest'
<1> SUFFICES ASSUME NEW a, a = active_process PROVE Rest'
  OBVIOUS
<1>1. /\ \/ at[a] = "w_sched" /\ Goto("w_again", arg[a])
         \/ at[a] = "x_sched" /\ Goto("x_done", NoPid)
      /\ EnterSchedule(state[a]) /\ a \in Proc /\ OnCpu(a) /\ host = "running" /\ KernelInv
  BY InCall DEF waitpid_Schedule, process_wrapper_Schedule, Calls
<1>2. UNCHANGED <<next_pid, state, waiting_for, active_process, signals>>
  BY DEF waitpid_Schedule, process_wrapper_Schedule, procVars
<1>3. state[a] \in States
  BY <1>1, TypeFacts DEF KernelInv, Live, States
<1>4. \A p \in Proc : Reaped(p)' <=> Reaped(p)
  BY <1>1, <1>2, <1>3, ReapedEntering
<1>5. waiting_for'[2] # 3
  BY <1>2 DEF DemoInv, Rest, StaleInv
<1>6. \E x, y : /\ Goto(x, y) /\ x # "none" /\ x # "s_value" /\ x \notin SwaitPoints
                /\ x \in WaitpidPoints <=> InWaitpid(a)
                /\ x \in WaitpidPoints => y = arg[a]
                /\ Ended(a)' => Ended(a)
  <2>1. CASE at[a] = "w_sched" /\ Goto("w_again", arg[a])
    <3>1. ~ Ended(a)'
      BY <1>1, <2>1, DemoTypes DEF Goto, Ended
    <3> QED
      BY <2>1, <3>1 DEF InWaitpid, WaitpidPoints, SwaitPoints
  <2>2. CASE at[a] = "x_sched" /\ Goto("x_done", NoPid)
    BY <2>2 DEF InWaitpid, WaitpidPoints, SwaitPoints, Ended
  <2> QED
    BY <1>1, <2>1, <2>2
<1>7. at[a] # "s_value"
  BY <1>1
<1> QED
  BY <1>1, <1>2, <1>4, <1>5, <1>6, <1>7, RestQuiet

(* The search after the sleep: if it finds the child, waitpid returns.     *)
LEMMA RestAgain ==
    ASSUME DemoInv, DemoSize, waitpid_Again, UNCHANGED programVars
    PROVE  Rest'
<1> SUFFICES ASSUME NEW a, a = active_process, NEW c, c = arg[a] PROVE Rest'
  OBVIOUS
<1>1. at[a] = "w_again" /\ LookForZombie(c) /\ a \in Proc /\ OnCpu(a) /\ KernelInv
  BY InCall DEF waitpid_Again, Calls
<1>2. /\ UNCHANGED <<next_pid, waiting_for, active_process, signals>>
      /\ Goto("user", NoPid) \/ Goto("w_block", c)
  BY <1>1, LookEffect
<1>3. waiting_for'[2] # 3
  BY <1>2 DEF DemoInv, Rest, StaleInv
<1>4. \A p \in Proc : Reaped(p)' <=> Reaped(p) \/ (p = c /\ Goto("user", NoPid))
  BY <1>1, ReapedLooking
<1>5. InWaitpid(a) /\ Joins(a, line[a] - 1, c)
  BY <1>1 DEF InWaitpid, DemoInv, Rest, PlacesInv
<1>6. at \in [Proc -> {"none", "user"} \cup Calls] /\ line[a] \in Nat /\ 0..6 \subseteq Proc
  BY <1>1, DemoTypes, DemoProcs
<1>7. CASE ~ Goto("user", NoPid)
  <2>1. Goto("w_block", c) /\ at'[a] = "w_block"
    BY <1>1, <1>2, <1>6, <1>7 DEF Goto
  <2>2. \A p \in Proc : Reaped(p)' <=> Reaped(p)
    BY <1>4, <1>7
  <2>3. ~ Ended(a)'
    BY <2>1 DEF Ended
  <2>4. "w_block" \in WaitpidPoints /\ "w_block" \notin SwaitPoints /\ at[a] # "s_value"
    BY <1>1 DEF WaitpidPoints, SwaitPoints
  <2> QED
    BY <1>1, <1>2, <1>3, <1>5, <2>1, <2>2, <2>3, <2>4, RestQuiet
<1>8. CASE Goto("user", NoPid)
  <2>1. at'[a] = "user" /\ \A q \in Proc \ {a} : at'[q] = at[q]
    BY <1>1, <1>6, <1>8 DEF Goto
  <2>2. line' = line
    BY DEF programVars
  <2>3. JoinInv'
    <3> SUFFICES ASSUME NEW p \in {0, 1, 4}, NEW l \in 1..20, NEW d \in 1..6, Joins(p, l, d)
                 PROVE  Reaped(d)' <=> Joined(p, l)'
      BY DEF JoinInv
    <3>1. p \in Proc /\ d \in Proc
      BY <1>6
    <3>2. CASE d = c
      <4>1. p = a /\ l = line[a] - 1
        BY <1>5, <3>2, OnePlace
      <4>2. Joined(p, l)'
        BY <1>6, <2>1, <2>2, <4>1 DEF Joined, InWaitpid
      <4> QED
        BY <1>4, <1>8, <3>1, <3>2, <4>2
    <3>3. CASE d # c
      <4>1. ~ (p = a /\ l = line[a] - 1)
        BY <1>5, <3>3, OnePlace
      <4>2. Joined(p, l)' <=> Joined(p, l)
        <5>1. CASE p = a
          BY <1>6, <2>2, <4>1, <5>1 DEF Joined
        <5>2. CASE p # a
          BY <2>1, <2>2, <3>1, <5>2 DEF Joined, InWaitpid
        <5> QED
          BY <5>1, <5>2
      <4> QED
        BY <1>4, <3>1, <3>3, <4>2, Joining
    <3> QED
      BY <3>2, <3>3
  <2>4. MeetInv'
    <3>1. \A p \in 1..3 : at'[p] = "s_value" <=> at[p] = "s_value"
      BY <1>1, <1>6, <2>1
    <3> QED
      BY <1>2, <2>2, <3>1, MeetQuiet
  <2>5. "user" \notin WaitpidPoints /\ "user" \notin SwaitPoints /\ ~ Ended(a)'
    BY <2>1 DEF WaitpidPoints, SwaitPoints, Ended
  <2> QED
    BY <1>1, <1>2, <1>3, <1>8, <2>3, <2>4, <2>5, RestMoves
<1> QED
  BY <1>7, <1>8

(* A process that comes back from its sleep in mbs_swait has been          *)
(* signalled; it resets the variable and ends the wait.                    *)
LEMMA RestValue ==
    ASSUME DemoInv, DemoSize, mbs_swait_Value, UNCHANGED programVars
    PROVE  Rest'
<1> SUFFICES ASSUME NEW a, a = active_process, NEW s, s = arg[a] PROVE Rest'
  OBVIOUS
<1>1. /\ at[a] = "s_value" /\ a \in Proc /\ OnCpu(a) /\ host = "running" /\ KernelInv
      /\ signals' = [signals EXCEPT ![s].value = 0] /\ Goto("s_waiting", s)
      /\ UNCHANGED <<next_pid, state, waiting_for, mem, active_process, depth>>
  BY InCall DEF mbs_swait_Value, Calls, procVars
<1>2. /\ Swaits(a, line[a] - 1, s) /\ InSwait(a)
  BY <1>1 DEF InSwait, DemoInv, Rest, PlacesInv
<1>3. signals[s].value = 1
  <2>1. state[a] = "RUNNABLE"
    BY <1>1, KernelFacts DEF PlaceOf
  <2> QED
    BY <1>1, <2>1 DEF DemoInv, ServiceInv, ReadyInv
<1>4. /\ at \in [Proc -> {"none", "user"} \cup Calls] /\ signals \in SignalTable
      /\ \A q \in 0..6 : q \in Proc /\ line[q] \in Nat
      /\ line[a] \in Nat /\ 0..3 \subseteq Sid /\ s \in 0..3
  <2>1. \A q \in 0..6 : q \in Proc /\ line[q] \in Nat
    BY DemoLines
  <2>2. line[a] \in Nat
    BY <1>1, DemoTypes
  <2>3. s \in 0..3
    BY <1>2 DEF Swaits
  <2> QED
    BY <2>1, <2>2, <2>3, DemoTypes, DemoProcs
<1>5. \A t \in Sid : /\ signals'[t].used = signals[t].used
                     /\ signals'[t].value = IF t = s THEN 0 ELSE signals[t].value
  BY <1>1, <1>4 DEF SignalTable
<1>6. at'[a] = "s_waiting" /\ \A q \in Proc \ {a} : at'[q] = at[q]
  BY <1>1, <1>4 DEF Goto
<1>7. line' = line
  BY DEF programVars
<1>8. JoinInv'
  <2>1. \A q \in {0, 1, 4} : InWaitpid(q)' <=> InWaitpid(q)
    BY <1>1, <1>4, <1>6 DEF InWaitpid
  <2>2. \A d \in 1..6 : Reaped(d)' <=> Reaped(d)
    BY <1>1 DEF Reaped
  <2> QED
    BY <1>7, <2>1, <2>2, JoinQuiet
<1>9. MeetInv'
  <2> SUFFICES ASSUME NEW q \in 1..3, NEW g \in 1..3, NEW l \in 1..20, NEW k \in 1..20,
                      NEW j \in 0..3, Meets(q, l, j, g, k)
               PROVE  /\ signals'[j].value = 1 <=> line'[g] > k /\ ~ Consumed(q, l)'
                      /\ Consumed(q, l)' => line'[g] > k
    BY DEF MeetInv
  <2>1. q \in Proc /\ line[q] \in Nat /\ j \in Sid
    BY <1>4
  <2>2. CASE j = s
    <3>1. q = a /\ l = line[a] - 1
      BY <1>2, <2>2, OnePlace
    <3>2. Consumed(q, l)'
      BY <1>4, <1>6, <1>7, <3>1 DEF Consumed
    <3>3. line[g] > k
      BY <1>3, <2>2, Meeting
    <3> QED
      BY <1>5, <1>7, <2>1, <2>2, <3>2, <3>3
  <2>3. CASE j # s
    <3>1. ~ (q = a /\ l = line[a] - 1)
      <4>1. Swaits(q, l, j)
        BY Tables
      <4> QED
        BY <1>2, <2>3, <4>1, OnePlace
    <3>2. Consumed(q, l)' <=> Consumed(q, l)
      <4>1. CASE q = a
        BY <1>4, <1>7, <3>1, <4>1 DEF Consumed
      <4>2. CASE q # a
        BY <1>6, <1>7, <2>1, <4>2 DEF Consumed
      <4> QED
        BY <4>1, <4>2
    <3> QED
      BY <1>5, <1>7, <2>1, <2>3, <3>2, Meeting
  <2> QED
    BY <2>2, <2>3
<1>10. waiting_for'[2] # 3 /\ ~ Ended(a)'
  BY <1>1, <1>6 DEF DemoInv, Rest, StaleInv, Ended
<1>11. "s_waiting" \notin WaitpidPoints /\ "s_waiting" # "none"
  BY DEF WaitpidPoints
<1> QED
  BY <1>1, <1>2, <1>5, <1>8, <1>9, <1>10, <1>11, RestMoves

LEMMA RestWaiting ==
    ASSUME DemoInv, DemoSize, mbs_swait_Waiting, UNCHANGED programVars
    PROVE  Rest'
<1> SUFFICES ASSUME NEW a, a = active_process, NEW s, s = arg[a] PROVE Rest'
  OBVIOUS
<1>1. /\ at[a] = "s_waiting" /\ a \in Proc /\ OnCpu(a) /\ host = "running" /\ KernelInv
      /\ signals' = [signals EXCEPT ![s].waiting = NULL] /\ Goto("user", NoPid)
      /\ UNCHANGED <<next_pid, state, waiting_for, mem, active_process, depth>>
  BY InCall DEF mbs_swait_Waiting, Calls, procVars
<1>2. at \in [Proc -> {"none", "user"} \cup Calls] /\ signals \in SignalTable
  BY DemoTypes
<1>3. \A t \in Sid : signals'[t].used = signals[t].used /\ signals'[t].value = signals[t].value
  BY <1>1, <1>2 DEF SignalTable
<1>4. \A p \in Proc : Reaped(p)' <=> Reaped(p)
  BY <1>1 DEF Reaped
<1>5. waiting_for'[2] # 3
  BY <1>1 DEF DemoInv, Rest, StaleInv
<1>6. ~ Ended(a)' /\ ~ InWaitpid(a)
  BY <1>1, <1>2 DEF Goto, Ended, InWaitpid
<1>7. "user" \notin WaitpidPoints /\ "user" \notin SwaitPoints
  BY DEF WaitpidPoints, SwaitPoints
<1> QED
  BY <1>1, <1>3, <1>4, <1>5, <1>6, <1>7, RestQuiet

(* The end of a process.                                                   *)
LEMMA RestEnds ==
    ASSUME DemoInv, DemoSize, Return \/ (process_wrapper_Wake /\ UNCHANGED programVars)
    PROVE  Rest'
<1> SUFFICES ASSUME NEW a, a = active_process PROVE Rest'
  OBVIOUS
<1>0. UNCHANGED programVars /\ KernelInv /\ state \in [Proc -> {"NONE", "RUNNABLE", "BLOCKED", "ZOMBIE"}]
  BY DemoProcs, DemoTypes DEF Return
<1>1. /\ a \in Proc /\ OnCpu(a) /\ depth' = depth
      /\ UNCHANGED <<next_pid, waiting_for, active_process, signals>>
      /\ \/ at[a] = "user" /\ Goto("x_search", NoPid) /\ a \in 0..6 /\ line[a] > Length(a)
         \/ at[a] = "x_search" /\ Goto("x_sched", NoPid)
      /\ Members(mem', "zombie") = Members(mem, "zombie")
      /\ \A p \in Proc \ {a} : state'[p] = "ZOMBIE" <=> state[p] = "ZOMBIE"
  <2>1. CASE Return
    <3>1. /\ Executing("user") /\ AtEnd(a) /\ state' = [state EXCEPT ![a] = "ZOMBIE"]
          /\ Goto("x_search", NoPid)
          /\ UNCHANGED <<next_pid, waiting_for, mem, active_process, signals, depth>>
      BY <2>1 DEF Return, process_wrapper_State
    <3>2. a \in 0..6 /\ a \in Proc /\ OnCpu(a) /\ at[a] = "user" /\ line[a] > Length(a)
      BY <3>1, InProgram
    <3> QED
      BY <1>0, <3>1, <3>2
  <2>2. CASE process_wrapper_Wake
    <3>1. /\ OnCpu(a) /\ a \in Proc /\ at[a] = "x_search" /\ Goto("x_sched", NoPid)
          /\ UNCHANGED <<next_pid, waiting_for, active_process, signals, depth>>
          /\ \/ UNCHANGED <<state, mem>>
             \/ \E w \in Members(mem, "wait") :
                   /\ w \in Proc
                   /\ state' = [state EXCEPT ![w] = "RUNNABLE"]
                   /\ Appends(queue_dequeue(mem, "wait", w), "run", w)
      BY <1>0, <2>2, EndEffect
    <3>2. ASSUME NEW w \in Members(mem, "wait"), w \in Proc,
                 state' = [state EXCEPT ![w] = "RUNNABLE"],
                 Appends(queue_dequeue(mem, "wait", w), "run", w)
          PROVE  /\ Members(mem', "zombie") = Members(mem, "zombie")
                 /\ \A p \in Proc \ {a} : state'[p] = "ZOMBIE" <=> state[p] = "ZOMBIE"
      <4>1. state[w] = "BLOCKED"
        BY <1>0, <3>2, KernelFacts DEF Placed, Queue
      <4>2. Members(mem', "zombie") = Members(mem, "zombie")
        BY <1>0, <3>2, WakeEffect
      <4> QED
        BY <1>0, <3>2, <4>1, <4>2
    <3> QED
      BY <3>1, <3>2
  <2> QED
    BY <2>1, <2>2
<1>2. \A p \in Proc : Reaped(p)' <=> Reaped(p)
  BY <1>0, <1>1, ReapedRunning
<1>3. waiting_for'[2] # 3
  BY <1>1 DEF DemoInv, Rest, StaleInv
<1>4. \E x, y : /\ Goto(x, y) /\ x # "none" /\ x # "s_value" /\ x \notin SwaitPoints
                /\ x \notin WaitpidPoints
                /\ Ended(a) \/ (a \in 0..6 /\ line[a] > Length(a))
  BY <1>1 DEF WaitpidPoints, SwaitPoints, Ended
<1>5. ~ InWaitpid(a) /\ at[a] # "s_value"
  BY <1>1 DEF InWaitpid
<1> QED
  BY <1>0, <1>1, <1>2, <1>3, <1>4, <1>5, RestQuiet

LEMMA RestInKernel ==
    ASSUME DemoInv, DemoSize, InKernel
    PROVE  Rest'
<1>1. UNCHANGED programVars
  BY DEF InKernel
<1>2. ~ mbs_signal_Append
  <2> SUFFICES ASSUME mbs_signal_Append PROVE FALSE
    OBVIOUS
  <2>1. active_process \in Proc /\ at[active_process] = "sig_append" /\ KernelInv
    BY InCall DEF mbs_signal_Append, Calls
  <2> QED
    BY <2>1, KernelFacts DEF PlaceOf
<1> QED
  BY <1>1, <1>2, RestSwitch, RestSleeps, RestSchedule, RestAgain, RestValue, RestWaiting, RestEnds
  DEF InKernel

-----------------------------------------------------------------------------
(* Steps that execute an instruction: no other process gets further        *)

LEMMA JoinedExecuted ==
    ASSUME DemoInv, DemoSize, NEW op, NEW x, Runs(op, x), NEW a, a = active_process,
           \A q \in 0..6 \ {a} : at'[q] = at[q] \/ line[q] = 1,
           NEW q \in 0..6, NEW l \in 1..20
    PROVE  /\ Joined(q, l)' <=> Joined(q, l) \/ (q = a /\ l = line[q] /\ ~ InWaitpid(q)')
           /\ Consumed(q, l)' <=> Consumed(q, l) \/ (q = a /\ l = line[q] /\ at'[q] # "s_value")
<1>1. /\ at[a] = "user" /\ line'[a] = line[a] + 1
      /\ \A r \in Proc \ {a} : line'[r] = line[r]
  BY Executed
<1>2. line[q] \in Nat \ {0} /\ q \in Proc
  BY DemoLines
<1>3. CASE q = a
  BY <1>1, <1>2, <1>3 DEF Joined, Consumed, InWaitpid
<1>4. CASE q # a
  <2>1. line'[q] = line[q]
    BY <1>1, <1>2, <1>4
  <2> QED
    BY <1>2, <1>4, <2>1 DEF Joined, Consumed, InWaitpid
<1> QED
  BY <1>3, <1>4

(* The running process returns at once or sleeps in the call it makes.     *)
LEMMA PlacesExecuted ==
    ASSUME DemoInv, DemoSize, NEW op, NEW x, Runs(op, x), NEW a, a = active_process,
           \A q \in Proc \ {a} : /\ arg'[q] = arg[q]
                                 /\ at'[q] = at[q] \/ (at'[q] = "user" /\ line[q] = 1),
           \/ at'[a] = "user"
           \/ at'[a] = "w_block" /\ Joins(a, line[a], arg'[a])
           \/ at'[a] = "s_value" /\ Swaits(a, line[a], arg'[a])
    PROVE  PlacesInv'
<1>1. /\ line'[a] = line[a] + 1 /\ a \in Proc /\ line[a] \in Nat
      /\ \A r \in Proc \ {a} : line'[r] = line[r]
  BY Executed, DemoLines
<1>2. line'[a] - 1 = line[a]
  BY <1>1
<1>3. ASSUME NEW q \in Proc
      PROVE  /\ Ended(q)' => q \in 0..6 /\ line'[q] > Length(q)
             /\ at'[q] = "none" => line'[q] = 1
             /\ InWaitpid(q)' => Joins(q, line'[q] - 1, arg'[q])
             /\ InSwait(q)' => Swaits(q, line'[q] - 1, arg'[q])
  <2>1. CASE q = a
    BY <1>2, <2>1 DEF Ended, InWaitpid, InSwait
  <2>2. CASE q # a
    BY <1>1, <2>2 DEF DemoInv, Rest, PlacesInv, Ended, InWaitpid, InSwait
  <2> QED
    BY <2>1, <2>2
<1> QED
  BY <1>3 DEF PlacesInv

LEMMA JoinExecuted ==
    ASSUME DemoInv, DemoSize, NEW op, NEW x, Runs(op, x), op # "waitpid", NEW a, a = active_process,
           \A q \in 0..6 \ {a} : at'[q] = at[q] \/ line[q] = 1,
           \A c \in 1..6 : Reaped(c)' <=> Reaped(c)
    PROVE  JoinInv'
<1> SUFFICES ASSUME NEW p \in {0, 1, 4}, NEW l \in 1..20, NEW c \in 1..6, Joins(p, l, c)
             PROVE  Reaped(c)' <=> Joined(p, l)'
  BY DEF JoinInv
<1>1. ~ (p = a /\ l = line[p])
  BY Executed, Tables, Script
<1>2. Joined(p, l)' <=> Joined(p, l)
  BY <1>1, JoinedExecuted
<1> QED
  BY <1>2, Joining

(* An instruction that neither waits for a variable nor signals one leaves *)
(* all meetings alone.  One that does leaves those of the others alone.    *)
LEMMA MeetOther ==
    ASSUME DemoInv, DemoSize, NEW op, NEW x, Runs(op, x), NEW a, a = active_process,
           \A q \in 0..6 \ {a} : at'[q] = at[q] \/ line[q] = 1,
           NEW p, NEW l, NEW i, NEW g, NEW k, Meets(p, l, i, g, k),
           op \in {"swait", "signal"} => x # i,
           signals'[i].value = signals[i].value
    PROVE  /\ signals'[i].value = 1 <=> line'[g] > k /\ ~ Consumed(p, l)'
           /\ Consumed(p, l)' => line'[g] > k
<1>1. /\ p \in 1..3 /\ g \in 1..3 /\ l \in 1..20 /\ k \in 1..20
      /\ Swaits(p, l, i) /\ Raises(g, k, i)
  BY Tables
<1>2. ~ (p = a /\ l = line[p]) /\ ~ (g = a /\ k = line[g])
  BY <1>1, Executed, Script
<1>3. Consumed(p, l)' <=> Consumed(p, l)
  BY <1>1, <1>2, JoinedExecuted
<1>4. line[g] \in Nat /\ (line'[g] = line[g] \/ (g = a /\ line'[g] = line[g] + 1))
  BY <1>1, Executed, DemoLines
<1>5. line'[g] > k <=> line[g] > k
  BY <1>1, <1>2, <1>4
<1> QED
  BY <1>3, <1>5, Meeting

LEMMA MeetExecuted ==
    ASSUME DemoInv, DemoSize, NEW op, NEW x, Runs(op, x), op \notin {"swait", "signal"},
           NEW a, a = active_process,
           \A q \in 0..6 \ {a} : at'[q] = at[q] \/ line[q] = 1,
           \A i \in 0..3 : signals'[i].value = signals[i].value
    PROVE  MeetInv'
<1> SUFFICES ASSUME NEW p \in 1..3, NEW g \in 1..3, NEW l \in 1..20, NEW k \in 1..20,
                    NEW i \in 0..3, Meets(p, l, i, g, k)
             PROVE  /\ signals'[i].value = 1 <=> line'[g] > k /\ ~ Consumed(p, l)'
                    /\ Consumed(p, l)' => line'[g] > k
  BY DEF MeetInv
<1> QED
  BY MeetOther

LEMMA ProgramsExecuted ==
    ASSUME DemoInv, DemoSize, NEW op, NEW x, Runs(op, x), op # "create",
           function' = function, child' = child, next_pid' = next_pid, bed' \in [0..3 -> Int]
    PROVE  ProgramsRun(Proc, next_pid)'
<1> SUFFICES ASSUME NEW p, p = active_process PROVE ProgramsRun(Proc, next_pid)'
  OBVIOUS
<1>1. /\ p \in 0..6 /\ line[p] \in 1..Length(p) /\ line'[p] = line[p] + 1
      /\ \A q \in Proc \ {p} : line'[q] = line[q]
      /\ line' \in [Proc -> Nat \ {0}] /\ p < next_pid
      /\ \A f : ~ Creates(p, line[p], f)
  BY Executed, InProgram, Script
<1>2. /\ 0..6 \subseteq Proc /\ Length(p) \in Nat /\ next_pid \in Nat
      /\ \A q \in 0..6 : line[q] \in Nat \ {0}
  BY <1>1, Programs, DemoProcs, DemoLines
<1>3. /\ p = 0 => line[0] # 2 /\ line[0] # 5
      /\ p = 1 => line[1] # 6 /\ line[1] # 8
      /\ p = 4 => line[4] # 3 /\ line[4] # 5
  <2>1. /\ ~ Creates(p, line[p], "proc1") /\ ~ Creates(p, line[p], "bw_proc1")
        /\ ~ Creates(p, line[p], "proc2") /\ ~ Creates(p, line[p], "proc3")
        /\ ~ Creates(p, line[p], "bw_proc2") /\ ~ Creates(p, line[p], "bw_proc3")
    BY <1>1
  <2> QED
    BY <2>1 DEF Creates
<1>4. /\ CreatedInOrder(next_pid)'
      /\ Offspring(p, line'[p]) = Offspring(p, line[p])
  <2>1. /\ (line'[0] > 2 <=> line[0] > 2) /\ (line'[0] > 5 <=> line[0] > 5)
        /\ (line'[1] > 6 <=> line[1] > 6) /\ (line'[1] > 8 <=> line[1] > 8)
        /\ (line'[4] > 3 <=> line[4] > 3) /\ (line'[4] > 5 <=> line[4] > 5)
    <3>1. ASSUME NEW q \in {0, 1, 4}, NEW n \in Nat, ~ (p = q /\ line[q] = n)
          PROVE  line'[q] > n <=> line[q] > n
      BY <1>1, <1>2, <3>1
    <3> QED
      BY <1>3, <3>1
  <2>2. CreatedInOrder(next_pid)'
    BY <2>1, DemoLines DEF CreatedInOrder
  <2>3. Offspring(p, line'[p]) = Offspring(p, line[p])
    BY <2>1 DEF Offspring
  <2> QED
    BY <2>2, <2>3
<1>5. ASSUME NEW q \in Proc
      PROVE  /\ child[q] = Offspring(q, line'[q])
             /\ q < next_pid => q \in 0..6 /\ function[q] = Main(q) /\ line'[q] <= Length(q) + 1
             /\ q >= next_pid => function[q] = "init" /\ line'[q] = 1
  <2>1. CASE q = p
    BY <1>1, <1>2, <1>4, <2>1, DemoPlaces
  <2>2. CASE q # p
    BY <1>1, <2>2, DemoPlaces
  <2> QED
    BY <2>1, <2>2
<1> QED
  BY <1>1, <1>4, <1>5, DemoTypes DEF ProgramsRun

LEMMA TableExecuted ==
    ASSUME DemoInv, DemoSize, NEW op, NEW x, Runs(op, x), op # "new",
           active_process \notin {4, 5, 6} => bed' = bed,
           \A s \in Sid : signals'[s].used = signals[s].used
    PROVE  TableInv'
<1> SUFFICES ASSUME NEW p, p = active_process PROVE TableInv'
  OBVIOUS
<1>1. /\ p \in 0..6 /\ line[p] \in 1..Length(p) /\ line'[p] = line[p] + 1
      /\ \A q \in Proc \ {p} : line'[q] = line[q]
      /\ p < next_pid /\ \A i : ~ Allots(p, line[p], i)
  BY Executed, InProgram, Script
<1>2. /\ 0..6 \subseteq Proc /\ next_pid \in Nat /\ \A q \in 0..6 : line[q] \in Nat \ {0}
      /\ CreatedInOrder(next_pid) /\ Sid \subseteq Nat
  BY DemoProcs, DemoLines
<1>3. \A s \in Nat : s < 4 => (s + 1 < line'[1] <=> s + 1 < line[1])
  <2>1. p = 1 => line[1] \notin 1..4
    BY <1>1 DEF Allots
  <2> QED
    BY <1>1, <1>2, <2>1
<1>4. line'[4] = 1 => line[4] = 1 /\ bed' = bed
  <2>1. p = 4 => line'[4] # 1
    BY <1>1, <1>2
  <2>2. p \in {5, 6} => line[4] # 1
    BY <1>1, <1>2 DEF CreatedInOrder
  <2>3. p # 4 => line'[4] = line[4]
    BY <1>1, <1>2
  <2> QED
    BY <2>1, <2>2, <2>3
<1>5. TableInv
  BY DEF DemoInv, Rest
<1>6. \A s \in Sid : signals'[s].used <=> s < 4 /\ s + 1 < line'[1]
  <2> SUFFICES ASSUME NEW s \in Sid PROVE signals'[s].used <=> s < 4 /\ s + 1 < line'[1]
    OBVIOUS
  <2>1. s \in Nat
    BY <1>2
  <2>2. s < 4 => (s + 1 < line'[1] <=> s + 1 < line[1])
    BY <1>3, <2>1
  <2>3. signals[s].used <=> s < 4 /\ s + 1 < line[1]
    BY <1>5 DEF TableInv
  <2> QED
    BY <2>2, <2>3
<1>7. line'[4] = 1 => \A i \in 0..3 : i + 1 < line'[1] => bed'[i] = i
  BY <1>3, <1>4, <1>5 DEF TableInv
<1> QED
  BY <1>6, <1>7 DEF TableInv

(* The three instructions of the second part that touch bed.               *)
Touches == {"set", "clear", "spin"}

LEMMA PollExecuted ==
    ASSUME DemoInv, DemoSize, NEW op, NEW x, Runs(op, x), op \notin Touches,
           bed' = bed \/ line'[4] = 1
    PROVE  PollInv'
<1> SUFFICES ASSUME line'[4] > 1, NEW a, a = active_process
             PROVE  PollInv'
  BY DEF PollInv
<1>1. /\ a \in 0..6 /\ line[a] \in 1..Length(a) /\ line'[a] = line[a] + 1
      /\ \A q \in Proc \ {a} : line'[q] = line[q]
      /\ \A i : ~ Sets(a, line[a], i) /\ ~ Polls(a, line[a], i)
      /\ ~ Clears(a, line[a])
  <2>1. /\ a \in 0..6 /\ line[a] \in 1..Length(a) /\ line'[a] = line[a] + 1
        /\ \A q \in Proc \ {a} : line'[q] = line[q]
        /\ Text[Main(a)][line[a]] = <<op, x>>
    BY Executed
  <2>2. ASSUME NEW i PROVE ~ Sets(a, line[a], i) /\ ~ Polls(a, line[a], i) /\ ~ Clears(a, line[a])
    <3> DEFINE t == Text[Main(a)][line[a]]
    <3>1. /\ t = <<"set", i>> <=> Sets(a, line[a], i)
          /\ t[1] = "clear" <=> Clears(a, line[a])
          /\ t = <<"spin", i>> <=> Polls(a, line[a], i)
      <4>1. a \in 0..6 /\ line[a] \in 1..Length(a)
        BY <2>1
      <4> QED
        BY <4>1, Script
    <3>2. t = <<op, x>> /\ t[1] = op
      BY <2>1
    <3> HIDE DEF t
    <3> QED
      BY <3>1, <3>2 DEF Touches
  <2> QED
    BY <2>1, <2>2
<1>2. \A q \in 0..6 : q \in Proc /\ line[q] \in Nat \ {0}
  BY DemoLines
<1>3. line[4] > 1 /\ bed' = bed
  BY <1>1, <1>2 DEF Clears
<1>4. ASSUME NEW q \in 4..6, NEW l \in 1..20, ~ (q = a /\ l = line[a])
      PROVE  line'[q] > l <=> line[q] > l
  BY <1>1, <1>2, <1>4
<1>5. ASSUME NEW q \in 4..6, NEW l \in 1..20, NEW i, Sets(q, l, i) \/ Polls(q, l, i)
      PROVE  line'[q] > l <=> line[q] > l
  BY <1>1, <1>4, <1>5
<1> QED
  BY <1>3, <1>5 DEF DemoInv, Rest, PollInv

(* Where the running process stands when it touches bed.                   *)
LEMMA Touching ==
    ASSUME DemoInv, DemoSize, NEW op \in Touches, NEW i \in 0..3, Runs(op, i),
           NEW a, a = active_process
    PROVE  /\ op = "set" => Sets(a, line[a], i)
           /\ op = "clear" => Clears(a, line[a])
           /\ op = "spin" => Polls(a, line[a], i)
           /\ op # "set" => \A j : ~ Sets(a, line[a], j)
           /\ op # "spin" => \A j : ~ Polls(a, line[a], j)
           /\ a \in 4..6 /\ (op # "clear" => line[4] > 1)
           /\ op = "clear" => a = 4 /\ line[4] = 1 /\ line[5] = 1 /\ line[6] = 1
<1>1. a \in 0..6 /\ line[a] \in 1..Length(a) /\ Text[Main(a)][line[a]] = <<op, i>>
  BY Executed
<1>2. a < next_pid /\ next_pid \in Nat /\ CreatedInOrder(next_pid) /\ 0..6 \subseteq Proc
      /\ \A q \in 0..6 : line[q] \in Nat \ {0}
  BY DemoLines, DemoProcs, InProgram DEF Runs
<1>3. /\ op = "set" <=> Sets(a, line[a], i)
      /\ op = "clear" <=> Clears(a, line[a])
      /\ op = "spin" <=> Polls(a, line[a], i)
  <2> DEFINE t == Text[Main(a)][line[a]]
  <2>1. /\ t = <<"set", i>> <=> Sets(a, line[a], i)
        /\ t[1] = "clear" <=> Clears(a, line[a])
        /\ t = <<"spin", i>> <=> Polls(a, line[a], i)
    BY <1>1, Script
  <2> HIDE DEF t
  <2>2. t = <<op, i>> /\ t[1] = op
    BY <1>1 DEF t
  <2> QED
    BY <2>1, <2>2
<1>4. ASSUME NEW j PROVE (op # "set" => ~ Sets(a, line[a], j)) /\ (op # "spin" => ~ Polls(a, line[a], j))
  BY <1>1, Script
<1>5. a \in 4..6 /\ (op # "clear" /\ a = 4 => line[4] > 1) /\ (op = "clear" => a = 4 /\ line[4] = 1)
  BY <1>3 DEF Touches, Sets, Clears, Polls
<1>6. op # "clear" => line[4] > 1
  BY <1>2, <1>5 DEF CreatedInOrder
<1>7. op = "clear" => line[5] = 1 /\ line[6] = 1
  <2> SUFFICES ASSUME line[4] = 1 PROVE line[5] = 1 /\ line[6] = 1
    BY <1>5
  <2>1. 5 >= next_pid /\ 6 >= next_pid
    BY <1>2 DEF CreatedInOrder
  <2> QED
    BY <1>2, <2>1, DemoPlaces
<1> QED
  BY <1>3, <1>4, <1>5, <1>6, <1>7

LEMMA PollTouched ==
    ASSUME DemoInv, DemoSize, NEW op \in Touches, NEW i \in 0..3, Runs(op, i),
           op = "set" => bed' = [bed EXCEPT ![i] = 1],
           op = "clear" => bed' = [j \in 0..3 |-> 0],
           op = "spin" => bed[i] # 0 /\ bed' = bed
    PROVE  PollInv'
<1> SUFFICES ASSUME NEW a, a = active_process PROVE PollInv'
  OBVIOUS
<1>1. /\ a \in 4..6 /\ line[a] \in Nat /\ line'[a] = line[a] + 1
      /\ \A q \in Proc \ {a} : line'[q] = line[q]
      /\ \A q \in 0..6 : q \in Proc /\ line[q] \in Nat \ {0}
  BY Executed, DemoLines, Touching
<1>2. bed \in [0..3 -> Int]
  BY DemoTypes
<1>3. CASE op = "clear"
  <2>1. line'[4] = 2 /\ line'[5] = 1 /\ line'[6] = 1 /\ \A j \in 0..3 : bed'[j] = 0
    BY <1>1, <1>3, Touching
  <2>2. \A p \in 4..6, l \in 1..20, j \in 0..3 :
            Sets(p, l, j) \/ Polls(p, l, j) => ~ (line'[p] > l)
    BY <2>1 DEF Sets, Polls
  <2> QED
    BY <2>1, <2>2 DEF PollInv
<1>4. CASE op # "clear"
  <2>1. /\ \A p \in 4..6, l \in 1..20, j \in 0..3 : Sets(p, l, j) => (bed[j] # 0 <=> line[p] > l)
        /\ \A p \in 4..6, g \in 4..6, l \in 1..20, k \in 1..20, j \in 0..3 :
               Polls(p, l, j) /\ Sets(g, k, j) /\ line[p] > l => line[g] > k
    BY <1>4, Touching DEF DemoInv, Rest, PollInv
  <2>2. ASSUME NEW q \in 4..6, NEW l \in 1..20
        PROVE  line'[q] > l <=> line[q] > l \/ (q = a /\ l = line[a])
    BY <1>1
  <2>3. ASSUME NEW p \in 4..6, NEW l \in 1..20, NEW j \in 0..3, Sets(p, l, j)
        PROVE  bed'[j] # 0 <=> line'[p] > l
    <3>1. CASE p = a /\ l = line[a]
      <4>1. op = "set" /\ Sets(a, line[a], i)
        BY <2>3, <3>1, Touching
      <4>2. j = i
        BY <2>3, <3>1, <4>1 DEF Sets
      <4> QED
        BY <1>2, <2>2, <3>1, <4>1, <4>2
    <3>2. CASE ~ (p = a /\ l = line[a])
      <4>1. op = "set" => i # j
        <5>1. op = "set" => Sets(a, line[a], i)
          BY Touching
        <5> QED
          BY <2>3, <3>2, <5>1 DEF Sets
      <4>2. bed'[j] = bed[j]
        BY <1>2, <1>4, <4>1 DEF Touches
      <4> QED
        BY <2>1, <2>2, <2>3, <3>2, <4>2
    <3> QED
      BY <3>1, <3>2
  <2>4. ASSUME NEW p \in 4..6, NEW g \in 4..6, NEW l \in 1..20, NEW k \in 1..20, NEW j \in 0..3,
               Polls(p, l, j), Sets(g, k, j), line'[p] > l
        PROVE  line'[g] > k
    <3>1. CASE p = a /\ l = line[a]
      <4>1. op = "spin" /\ Polls(a, line[a], i)
        BY <2>4, <3>1, Touching
      <4>2. j = i /\ bed[j] # 0
        BY <2>4, <3>1, <4>1 DEF Polls
      <4> QED
        BY <2>1, <2>2, <2>4, <4>2
    <3>2. CASE ~ (p = a /\ l = line[a])
      BY <2>1, <2>2, <2>4, <3>2
    <3> QED
      BY <3>1, <3>2
  <2> QED
    BY <2>3, <2>4 DEF PollInv
<1> QED
  BY <1>3, <1>4

-----------------------------------------------------------------------------
(* One lemma for every action of the programs                              *)

(* println and the assignments: the kernel is not involved.                *)
LEMMA RestPlain ==
    ASSUME DemoInv, DemoSize, NEW op, NEW x, Runs(op, x),
           op \notin {"create", "new", "swait", "signal", "waitpid"},
           UNCHANGED <<function, child>>, bed' \in [0..3 -> Int],
           active_process \notin {4, 5, 6} => bed' = bed,
           UNCHANGED <<next_pid, state, waiting_for, mem, signals, at, arg, depth>>,
           PollInv'
    PROVE  Rest'
<1> SUFFICES ASSUME NEW a, a = active_process PROVE Rest'
  OBVIOUS
<1>1. at'[a] = "user" /\ a \in 0..6
  BY Executed
<1>2. \A c \in 1..6 : Reaped(c)' <=> Reaped(c)
  BY DEF Reaped
<1>3. ProgramsRun(Proc, next_pid)'
  BY ProgramsExecuted
<1>4. PlacesInv'
  BY <1>1, PlacesExecuted
<1>5. JoinInv'
  BY <1>2, JoinExecuted
<1>6. TableInv'
  BY TableExecuted
<1>7. MeetInv'
  BY MeetExecuted
<1>8. StaleInv'
  BY DEF DemoInv, Rest, StaleInv
<1> QED
  BY <1>3, <1>4, <1>5, <1>6, <1>7, <1>8 DEF Rest

LEMMA RestPrintln ==
    ASSUME DemoInv, DemoSize, Say_
    PROVE  Rest'
<1>1. /\ Runs("println", 0) /\ UNCHANGED <<function, child, bed>>
      /\ UNCHANGED <<next_pid, state, waiting_for, mem, signals, at, arg, depth>>
  BY DEF Say_, println, procVars, ctxVars
<1>2. PollInv'
  BY <1>1, PollExecuted DEF Touches
<1> QED
  BY <1>1, <1>2, RestPlain, DemoTypes

LEMMA RestAssign ==
    ASSUME DemoInv, DemoSize, NEW i \in 0..3, Assign(i)
    PROVE  Rest'
<1>1. /\ UNCHANGED <<function, child>>
      /\ UNCHANGED <<next_pid, state, waiting_for, mem, signals, at, arg, depth>>
  BY DEF Assign, Assigns, vars, procVars, ctxVars
<1>2. PICK op \in Touches :
          /\ Runs(op, i)
          /\ op = "set" => bed' = [bed EXCEPT ![i] = 1]
          /\ op = "clear" => bed' = [j \in 0..3 |-> 0]
          /\ op = "spin" => bed[i] # 0 /\ bed' = bed
  BY DEF Assign, Assigns, Runs, Touches
<1>3. bed' \in [0..3 -> Int]
  BY <1>2, DemoTypes DEF Touches
<1>4. active_process \in 4..6
  BY <1>2, Touching
<1>5. PollInv'
  BY <1>2, PollTouched
<1>6. op \notin {"create", "new", "swait", "signal", "waitpid"}
  BY DEF Touches
<1> QED
  BY <1>1, <1>2, <1>3, <1>4, <1>5, <1>6, RestPlain

LEMMA RestNew ==
    ASSUME DemoInv, DemoSize, NEW i \in 0..3, NewSignal(i)
    PROVE  Rest'
<1> SUFFICES ASSUME NEW p, p = active_process PROVE Rest'
  OBVIOUS
<1>1. /\ Runs("new", i) /\ mbs_signal_new /\ bed' = [bed EXCEPT ![i] = NewSid]
      /\ UNCHANGED <<next_pid, state, waiting_for, mem, at, arg, depth>>
      /\ UNCHANGED <<function, child>>
  BY DEF NewSignal, mbs_signal_new, ctxVars, procVars
<1>2. /\ p \in 0..6 /\ line[p] \in 1..Length(p) /\ line'[p] = line[p] + 1
      /\ \A q \in Proc \ {p} : line'[q] = line[q]
      /\ p < next_pid /\ Allots(p, line[p], i) /\ at[p] = "user"
  BY <1>1, Executed, InProgram, Script
<1>3. p = 1 /\ line[1] = i + 1 /\ line'[1] = i + 2
  BY <1>2 DEF Allots
<1>4. /\ 0..6 \subseteq Proc /\ next_pid \in Nat /\ Sid \subseteq Nat /\ 0..3 \subseteq Sid
      /\ \A q \in 0..6 : line[q] \in Nat \ {0}
      /\ CreatedInOrder(next_pid) /\ signals \in SignalTable /\ bed \in [0..3 -> Int]
  BY DemoProcs, DemoLines, DemoTypes
<1>5. line[2] = 1 /\ line[3] = 1 /\ line[4] = 1 /\ line'[4] = 1
  <2>1. next_pid < 3
    BY <1>3, <1>4 DEF CreatedInOrder
  <2> QED
    BY <1>2, <1>3, <1>4, <2>1, DemoPlaces
<1>6. NewSid = i /\ FreeSids # {}
  <2>1. \A s \in Sid : s \in FreeSids <=> s >= 4 \/ s >= i
    BY <1>3, <1>4 DEF FreeSids, DemoInv, Rest, TableInv
  <2>2. i \in FreeSids /\ \A s \in FreeSids : i <= s
    BY <1>4, <2>1 DEF FreeSids
  <2>3. FreeSids # {} /\ NewSid \in FreeSids
    BY <2>2, NewSidFree
  <2>4. \A s \in FreeSids : NewSid <= s
    BY <2>2, <2>3 DEF NewSid
  <2>5. FreeSids \subseteq Nat
    BY <1>4 DEF FreeSids
  <2> QED
    BY <2>2, <2>3, <2>4, <2>5
<1>7. /\ signals' = [signals EXCEPT ![i] = [used |-> TRUE, value |-> 0, waiting |-> NULL]]
      /\ bed' = [bed EXCEPT ![i] = i]
  BY <1>1, <1>6 DEF mbs_signal_new
<1>8. signals[i].value = 0
  <2>1. PICK q, l, g, k : Meets(q, l, i, g, k) /\ g \in 1..3 /\ k \in 1..20 /\ line[g] <= k
    <3>1. Meets(1, 10, 0, 2, 2) /\ Meets(1, 12, 1, 3, 2) /\ Meets(3, 4, 2, 1, 14) /\ Meets(2, 4, 3, 1, 16)
      BY DEF Meets
    <3> QED
      BY <1>3, <1>5, <3>1
  <2>2. ~ (line[g] > k)
    BY <1>4, <2>1
  <2> QED
    BY <1>4, <2>1, <2>2, Meeting DEF SignalTable
<1>9. \A j \in 0..3 : signals'[j].value = signals[j].value
  BY <1>4, <1>7, <1>8 DEF SignalTable
<1>10. at'[p] = "user" /\ \A c \in 1..6 : Reaped(c)' <=> Reaped(c)
  BY <1>1, <1>2 DEF Reaped
<1>11. bed' \in [0..3 -> Int]
  BY <1>4, <1>7
<1>12. ProgramsRun(Proc, next_pid)'
  BY <1>1, <1>11, ProgramsExecuted
<1>13. PlacesInv'
  BY <1>1, <1>10, PlacesExecuted
<1>14. JoinInv'
  BY <1>1, <1>10, JoinExecuted
<1>15. TableInv'
  <2>1. \A s \in Sid : signals'[s].used <=> signals[s].used \/ s = i
    BY <1>4, <1>7 DEF SignalTable
  <2>2. \A s \in Sid : signals'[s].used <=> s < 4 /\ s + 1 < line'[1]
    BY <1>3, <1>4, <2>1 DEF DemoInv, Rest, TableInv
  <2>3. \A j \in 0..3 : j + 1 < line'[1] => bed'[j] = j
    BY <1>3, <1>4, <1>5, <1>7 DEF DemoInv, Rest, TableInv
  <2> QED
    BY <2>2, <2>3 DEF TableInv
<1>16. MeetInv'
  BY <1>1, <1>9, MeetExecuted
<1>17. PollInv'
  BY <1>1, <1>5, PollExecuted DEF Touches
<1>18. StaleInv'
  BY <1>1 DEF DemoInv, Rest, StaleInv
<1> QED
  BY <1>12, <1>13, <1>14, <1>15, <1>16, <1>17, <1>18 DEF Rest

LEMMA RestSignal ==
    ASSUME DemoInv, DemoSize, NEW i \in 0..3, Runs("signal", i), mbs_signal(bed[i]),
           UNCHANGED <<function, child, bed>>
    PROVE  Rest'
<1> SUFFICES ASSUME NEW p, p = active_process PROVE Rest'
  OBVIOUS
<1>1. /\ p \in 0..6 /\ line[p] \in 1..Length(p) /\ line'[p] = line[p] + 1
      /\ \A q \in Proc \ {p} : line'[q] = line[q]
      /\ Raises(p, line[p], i) /\ Executing("user") /\ at[p] = "user"
  <2>1. /\ p \in 0..6 /\ line[p] \in 1..Length(p) /\ line'[p] = line[p] + 1
        /\ \A q \in Proc \ {p} : line'[q] = line[q]
        /\ Text[Main(p)][line[p]] = <<"signal", i>> /\ Executing("user") /\ at[p] = "user"
    BY Executed
  <2>2. Raises(p, line[p], i)
    BY <2>1, Script
  <2> QED
    BY <2>1, <2>2
<1>2. p \in 1..3 /\ i \in Sid /\ bed[i] = i /\ signals[i].used
  BY <1>1, BedHolds
<1>3. MaySignal(i)
  BY <1>1, <1>2, SignalIsFirst
<1>4. mbs_signal(i) /\ KernelInv
  BY <1>2, DemoProcs
<1>5. /\ OnCpu(p) /\ p \in Proc
      /\ UNCHANGED <<next_pid, waiting_for, active_process, at, arg, depth>>
      /\ signals' = [signals EXCEPT ![i].value = 1]
      /\ Members(mem', "zombie") = Members(mem, "zombie")
      /\ \A q \in Proc : state'[q] = "ZOMBIE" <=> state[q] = "ZOMBIE"
  <2>1. signals' = [signals EXCEPT ![i].value = 1]
    BY <1>2, <1>4 DEF mbs_signal, ValidSid
  <2>2. /\ OnCpu(p) /\ p \in Proc
        /\ UNCHANGED <<next_pid, waiting_for, active_process, at, arg, depth>>
        /\ \/ UNCHANGED <<mem, state>>
           \/ \E w \in Members(mem, "wait") :
                 /\ w \in Proc /\ state[w] = "BLOCKED"
                 /\ state' = [state EXCEPT ![w] = "RUNNABLE"]
                 /\ Appends(queue_dequeue(mem, "wait", w), "run", w)
    BY <1>3, <1>4, SignalEffect
  <2>3. ASSUME NEW w \in Members(mem, "wait"), w \in Proc, state[w] = "BLOCKED",
               state' = [state EXCEPT ![w] = "RUNNABLE"],
               Appends(queue_dequeue(mem, "wait", w), "run", w)
        PROVE  /\ Members(mem', "zombie") = Members(mem, "zombie")
               /\ \A q \in Proc : state'[q] = "ZOMBIE" <=> state[q] = "ZOMBIE"
    <3>1. Members(mem', "zombie") = Members(mem, "zombie")
      BY <1>4, <2>3, WakeEffect
    <3> QED
      BY <2>3, <3>1, DemoTypes
  <2> QED
    BY <2>1, <2>2, <2>3
<1>6. \A s \in Sid : /\ signals'[s].used = signals[s].used
                     /\ signals'[s].value = IF s = i THEN 1 ELSE signals[s].value
  BY <1>2, <1>5, DemoTypes DEF SignalTable
<1>7. 0..6 \subseteq Proc /\ 0..3 \subseteq Sid /\ bed \in [0..3 -> Int] /\ \A q \in 0..6 : line[q] \in Nat
  BY DemoProcs, DemoTypes, DemoLines
<1>8. at'[p] = "user" /\ \A c \in 1..6 : Reaped(c)' <=> Reaped(c)
  BY <1>1, <1>4, <1>5, <1>7, ReapedRunning
<1>9. ProgramsRun(Proc, next_pid)'
  BY <1>5, <1>7, ProgramsExecuted
<1>10. PlacesInv'
  BY <1>5, <1>8, PlacesExecuted
<1>11. JoinInv'
  BY <1>5, <1>8, JoinExecuted
<1>12. TableInv'
  BY <1>6, TableExecuted
<1>13. MeetInv'
  <2> SUFFICES ASSUME NEW q \in 1..3, NEW g \in 1..3, NEW l \in 1..20, NEW k \in 1..20,
                      NEW j \in 0..3, Meets(q, l, j, g, k)
               PROVE  /\ signals'[j].value = 1 <=> line'[g] > k /\ ~ Consumed(q, l)'
                      /\ Consumed(q, l)' => line'[g] > k
    BY DEF MeetInv
  <2>1. CASE j # i
    <3>1. signals'[j].value = signals[j].value
      BY <1>6, <1>7, <2>1
    <3> QED
      BY <1>5, <2>1, <3>1, MeetOther
  <2>2. CASE j = i
    <3>1. g = p /\ k = line[p] /\ q # p
      BY <1>1, <2>2, OnePlace, Tables
    <3>2. line'[g] > k /\ ~ (line[g] > k)
      BY <1>1, <3>1
    <3>3. ~ Consumed(q, l)
      BY <3>2, Meeting
    <3>4. ~ Consumed(q, l)'
      BY <1>5, <3>1, <3>3, JoinedExecuted
    <3> QED
      BY <1>6, <1>7, <2>2, <3>2, <3>4
  <2> QED
    BY <2>1, <2>2
<1>14. PollInv'
  BY PollExecuted DEF Touches
<1>15. StaleInv'
  BY <1>5 DEF DemoInv, Rest, StaleInv
<1> QED
  BY <1>9, <1>10, <1>11, <1>12, <1>13, <1>14, <1>15 DEF Rest

LEMMA RestSwait ==
    ASSUME DemoInv, DemoSize, NEW i \in 0..3, Runs("swait", i), mbs_swait(bed[i]),
           UNCHANGED <<function, child, bed>>
    PROVE  Rest'
<1> SUFFICES ASSUME NEW p, p = active_process PROVE Rest'
  OBVIOUS
<1>1. /\ p \in 0..6 /\ line[p] \in 1..Length(p) /\ line'[p] = line[p] + 1
      /\ \A q \in Proc \ {p} : line'[q] = line[q]
      /\ Swaits(p, line[p], i) /\ Executing("user") /\ at[p] = "user"
  <2>1. /\ p \in 0..6 /\ line[p] \in 1..Length(p) /\ line'[p] = line[p] + 1
        /\ \A q \in Proc \ {p} : line'[q] = line[q]
        /\ Text[Main(p)][line[p]] = <<"swait", i>> /\ Executing("user") /\ at[p] = "user"
    BY Executed
  <2>2. Swaits(p, line[p], i)
    BY <2>1, Script
  <2> QED
    BY <2>1, <2>2
<1>2. p \in 1..3 /\ i \in 0..3 /\ i \in Sid /\ bed[i] = i /\ signals[i].used
  BY <1>1, BedHolds
<1>3. /\ 0..3 \subseteq Sid /\ bed \in [0..3 -> Int] /\ \A q \in 0..6 : line[q] \in Nat \ {0}
      /\ 0..6 \subseteq Proc /\ KernelInv /\ signals \in SignalTable
      /\ at \in [Proc -> {"none", "user"} \cup Calls]
      /\ arg \in [Proc -> Proc \cup Sid \cup {NoPid}]
  BY DemoProcs, DemoTypes, DemoLines
<1>4. signals[i].waiting = NULL
  <2> SUFFICES ASSUME NEW w, signals[i].waiting = w, w # NULL PROVE FALSE
    OBVIOUS
  <2>1. w \in 1..3 /\ InSwait(w) /\ Swaits(w, line[w] - 1, i)
    BY RegisteredWaits
  <2>2. w = p
    BY <1>1, <2>1 DEF Swaits
  <2> QED
    BY <1>1, <2>1, <2>2 DEF InSwait
<1>5. /\ UNCHANGED <<next_pid, waiting_for, active_process>> /\ ValidSid(i) /\ mbs_swait(i)
      /\ p \in Proc /\ OnCpu(p)
  BY <1>1, <1>2, InProgram DEF mbs_swait, ValidSid
<1>6. ProgramsRun(Proc, next_pid)'
  BY <1>3, <1>5, ProgramsExecuted
<1>7. PollInv' /\ StaleInv'
  BY <1>5, PollExecuted DEF Touches, DemoInv, Rest, StaleInv
<1>8. CASE signals[i].value = 1
  <2>1. /\ UNCHANGED <<state, mem, at, arg, depth>>
        /\ signals' = [signals EXCEPT ![i].value = 0, ![i].waiting = NULL]
    BY <1>4, <1>5, <1>8 DEF mbs_swait, ctxVars
  <2>2. \A s \in Sid : /\ signals'[s].used = signals[s].used
                       /\ signals'[s].value = IF s = i THEN 0 ELSE signals[s].value
    BY <1>2, <1>3, <2>1 DEF SignalTable
  <2>3. at'[p] = "user" /\ \A c \in 1..6 : Reaped(c)' <=> Reaped(c)
    BY <1>1, <2>1 DEF Reaped
  <2>4. PlacesInv'
    BY <2>1, <2>3, PlacesExecuted
  <2>5. JoinInv'
    BY <2>1, <2>3, JoinExecuted
  <2>6. TableInv'
    BY <2>2, TableExecuted
  <2>7. MeetInv'
    <3> SUFFICES ASSUME NEW q \in 1..3, NEW g \in 1..3, NEW l \in 1..20, NEW k \in 1..20,
                        NEW j \in 0..3, Meets(q, l, j, g, k)
                 PROVE  /\ signals'[j].value = 1 <=> line'[g] > k /\ ~ Consumed(q, l)'
                        /\ Consumed(q, l)' => line'[g] > k
      BY DEF MeetInv
    <3>1. CASE j # i
      <4>1. signals'[j].value = signals[j].value
        BY <1>3, <2>2, <3>1
      <4>2. \A r \in 0..6 \ {p} : at'[r] = at[r] \/ line[r] = 1
        BY <2>1
      <4> QED
        BY <3>1, <4>1, <4>2, MeetOther
    <3>2. CASE j = i
      <4>1. q = p /\ l = line[p] /\ g # p
        BY <1>1, <3>2, OnePlace, Tables
      <4>2. line[g] > k /\ line'[g] = line[g]
        BY <1>1, <1>3, <1>8, <3>2, <4>1, Meeting
      <4>3. Consumed(q, l)'
        BY <2>1, <2>3, <4>1, JoinedExecuted
      <4> QED
        BY <1>3, <2>2, <3>2, <4>2, <4>3
    <3> QED
      BY <3>1, <3>2
  <2> QED
    BY <1>6, <1>7, <2>4, <2>5, <2>6, <2>7 DEF Rest
<1>9. CASE signals[i].value = 0
  <2>1. /\ Goto("s_value", i) /\ EnterSchedule("BLOCKED")
        /\ state' = [state EXCEPT ![p] = "BLOCKED"]
        /\ signals' = [signals EXCEPT ![i].waiting = p]
    BY <1>4, <1>5, <1>9 DEF mbs_swait
  <2>2. \A s \in Sid : signals'[s].used = signals[s].used /\ signals'[s].value = signals[s].value
    BY <1>2, <1>3, <2>1 DEF SignalTable
  <2>3. /\ at'[p] = "s_value" /\ arg'[p] = i
        /\ \A q \in Proc \ {p} : at'[q] = at[q] /\ arg'[q] = arg[q]
    BY <1>3, <1>5, <2>1 DEF Goto
  <2>4. \A c \in Proc : Reaped(c)' <=> Reaped(c)
    <3>1. state'[p] = "BLOCKED" /\ \A q \in Proc \ {p} : state'[q] = state[q]
      BY <1>5, <2>1, DemoTypes
    <3> QED
      BY <1>3, <1>5, <2>1, <3>1, ReapedEntering DEF States
  <2>5. PlacesInv'
    BY <1>1, <2>3, PlacesExecuted
  <2>6. JoinInv'
    BY <1>3, <2>3, <2>4, JoinExecuted
  <2>7. TableInv'
    BY <2>2, TableExecuted
  <2>8. MeetInv'
    <3> SUFFICES ASSUME NEW q \in 1..3, NEW g \in 1..3, NEW l \in 1..20, NEW k \in 1..20,
                        NEW j \in 0..3, Meets(q, l, j, g, k)
                 PROVE  /\ signals'[j].value = 1 <=> line'[g] > k /\ ~ Consumed(q, l)'
                        /\ Consumed(q, l)' => line'[g] > k
      BY DEF MeetInv
    <3>1. Consumed(q, l)' <=> Consumed(q, l)
      BY <1>3, <2>3, JoinedExecuted
    <3>2. ~ (g = p /\ k = line[g])
      BY <1>1, OnePlace, Tables
    <3>3. line'[g] > k <=> line[g] > k
      BY <1>1, <1>3, <3>2
    <3>4. signals'[j].value = signals[j].value
      BY <1>3, <2>2
    <3> QED
      BY <3>1, <3>3, <3>4, Meeting
  <2> QED
    BY <1>6, <1>7, <2>5, <2>6, <2>7, <2>8 DEF Rest
<1> QED
  BY <1>2, <1>3, <1>8, <1>9 DEF SignalTable

LEMMA RestCreate ==
    ASSUME DemoInv, DemoSize, 3 \notin Garbage, NEW f \in DOMAIN Text, Create(f)
    PROVE  Rest'
<1> SUFFICES ASSUME NEW p, p = active_process, NEW n, n = next_pid
             PROVE  Rest'
  OBVIOUS
<1>1. /\ Runs("create", f) /\ Created(p, n, f) /\ Allocate(n) /\ Appends(mem, "run", n)
      /\ UNCHANGED <<active_process, depth, arg, signals, bed>> /\ next_pid' = n + 1
      /\ at' = [at EXCEPT ![n] = "user"] /\ state' = [state EXCEPT ![n] = "RUNNABLE"]
      /\ function' = [function EXCEPT ![n] = f]
      /\ child' = [child EXCEPT ![p] = Append(@, n)] /\ n < MaxProcs
  BY DEF Create, create_process, Created, Allocate
<1>2. /\ p \in 0..6 /\ line[p] \in 1..Length(p) /\ line'[p] = line[p] + 1
      /\ \A q \in Proc \ {p} : line'[q] = line[q]
      /\ p < n /\ Creates(p, line[p], f) /\ line' \in [Proc -> Nat \ {0}]
      /\ at[p] = "user" /\ OnCpu(p) /\ p \in Proc
  BY <1>1, Executed, InProgram, Script
<1>3. /\ 0..6 \subseteq Proc /\ n \in Nat /\ \A q \in 0..6 : line[q] \in Nat \ {0}
      /\ CreatedInOrder(n) /\ KernelInv /\ n \in 0..7 /\ Proc \subseteq Nat
  BY DemoProcs, DemoLines
<1>4. n \in Proc /\ n # p
  BY <1>1, <1>2, <1>3, KernelAssumption
<1>5. /\ at[n] = "none" /\ state[n] = "NONE" /\ line[n] = 1
      /\ child[n] = Offspring(n, 1) /\ function[n] = "init"
  BY <1>3, <1>4, KernelFacts, DemoPlaces
<1>6. <<p, line[p], f, n>> \in {<<0, 2, "proc1", 1>>, <<0, 5, "bw_proc1", 4>>, <<1, 6, "proc2", 2>>,
                                <<1, 8, "proc3", 3>>, <<4, 3, "bw_proc2", 5>>, <<4, 5, "bw_proc3", 6>>}
  <2>1. <<p, line[p], f>> \in {<<0, 2, "proc1">>, <<0, 5, "bw_proc1">>, <<1, 6, "proc2">>,
                               <<1, 8, "proc3">>, <<4, 3, "bw_proc2">>, <<4, 5, "bw_proc3">>}
    BY <1>2 DEF Creates
  <2>2. p = 0 /\ line[0] = 5 => line[1] > 19
    <3> SUFFICES ASSUME line[0] = 5 PROVE line[1] > 19
      OBVIOUS
    <3>1. line[0] > 4
      OBVIOUS
    <3> QED
      BY <3>1, FirstPartOver, Programs
  <2>3. /\ p = 0 /\ line[0] = 2 => n = 1
        /\ p = 0 /\ line[0] = 5 => n = 4
        /\ p = 1 /\ line[1] = 6 => n = 2
        /\ p = 1 /\ line[1] = 8 => n = 3
        /\ p = 4 /\ line[4] = 3 => n = 5
        /\ p = 4 /\ line[4] = 5 => n = 6
    BY <1>2, <1>3, <2>2 DEF CreatedInOrder
  <2> QED
    BY <2>1, <2>3
<1>7. f = Main(n) /\ n \in 1..6
  BY <1>6, Programs
<1>8. CreatedInOrder(next_pid)'
  <2>1. /\ (line'[0] > 2 <=> line[0] > 2 \/ n = 1) /\ (line'[0] > 5 <=> line[0] > 5 \/ n = 4)
        /\ (line'[1] > 6 <=> line[1] > 6 \/ n = 2) /\ (line'[1] > 8 <=> line[1] > 8 \/ n = 3)
        /\ (line'[4] > 3 <=> line[4] > 3 \/ n = 5) /\ (line'[4] > 5 <=> line[4] > 5 \/ n = 6)
    BY <1>2, <1>3, <1>6
  <2> QED
    BY <1>1, <1>3, <1>7, <2>1 DEF CreatedInOrder
<1>9. Offspring(p, line'[p]) = Append(child[p], n)
  <2>1. child[p] = Offspring(p, line[p])
    BY <1>2, <1>3, DemoPlaces
  <2>2. Offspring(p, line[p] + 1) = Append(Offspring(p, line[p]), n)
    <3>1. /\ Offspring(0, 2) = <<>> /\ Offspring(0, 3) = <<1>>
          /\ Offspring(0, 5) = <<1>> /\ Offspring(0, 6) = <<1, 4>>
          /\ Offspring(1, 6) = <<>> /\ Offspring(1, 7) = <<2>>
          /\ Offspring(1, 8) = <<2>> /\ Offspring(1, 9) = <<2, 3>>
          /\ Offspring(4, 3) = <<>> /\ Offspring(4, 4) = <<5>>
          /\ Offspring(4, 5) = <<5>> /\ Offspring(4, 6) = <<5, 6>>
      BY DEF Offspring
    <3>2. /\ Append(<<>>, 1) = <<1>> /\ Append(<<1>>, 4) = <<1, 4>>
          /\ Append(<<>>, 2) = <<2>> /\ Append(<<2>>, 3) = <<2, 3>>
          /\ Append(<<>>, 5) = <<5>> /\ Append(<<5>>, 6) = <<5, 6>>
      <4>1. \A d, e \in {1, 2, 3, 4, 5, 6} : Append(<<>>, e) = <<e>> /\ Append(<<d>>, e) = <<d, e>>
        BY AppendsPid
      <4> QED
        BY <4>1, Zenon
    <3>3. CASE p = 0 /\ line[p] = 2 /\ n = 1
      <4>1. Offspring(p, line[p]) = <<>> /\ Offspring(p, line[p] + 1) = <<1>>
        BY <3>1, <3>3
      <4> QED
        BY <3>2, <3>3, <4>1, Zenon
    <3>4. CASE p = 0 /\ line[p] = 5 /\ n = 4
      <4>1. Offspring(p, line[p]) = <<1>> /\ Offspring(p, line[p] + 1) = <<1, 4>>
        BY <3>1, <3>4
      <4> QED
        BY <3>2, <3>4, <4>1, Zenon
    <3>5. CASE p = 1 /\ line[p] = 6 /\ n = 2
      <4>1. Offspring(p, line[p]) = <<>> /\ Offspring(p, line[p] + 1) = <<2>>
        BY <3>1, <3>5
      <4> QED
        BY <3>2, <3>5, <4>1, Zenon
    <3>6. CASE p = 1 /\ line[p] = 8 /\ n = 3
      <4>1. Offspring(p, line[p]) = <<2>> /\ Offspring(p, line[p] + 1) = <<2, 3>>
        BY <3>1, <3>6
      <4> QED
        BY <3>2, <3>6, <4>1, Zenon
    <3>7. CASE p = 4 /\ line[p] = 3 /\ n = 5
      <4>1. Offspring(p, line[p]) = <<>> /\ Offspring(p, line[p] + 1) = <<5>>
        BY <3>1, <3>7
      <4> QED
        BY <3>2, <3>7, <4>1, Zenon
    <3>8. CASE p = 4 /\ line[p] = 5 /\ n = 6
      <4>1. Offspring(p, line[p]) = <<5>> /\ Offspring(p, line[p] + 1) = <<5, 6>>
        BY <3>1, <3>8
      <4> QED
        BY <3>2, <3>8, <4>1, Zenon
    <3> QED
      BY <1>6, <3>3, <3>4, <3>5, <3>6, <3>7, <3>8
  <2> QED
    BY <1>2, <2>1, <2>2
<1>10. ProgramsRun(Proc, next_pid)'
  <2>1. ASSUME NEW q \in Proc
        PROVE  /\ child'[q] = Offspring(q, line'[q])
               /\ q < n + 1 => q \in 0..6 /\ function'[q] = Main(q) /\ line'[q] <= Length(q) + 1
               /\ q >= n + 1 => function'[q] = "init" /\ line'[q] = 1
    <3>1. q \in Nat
      BY DemoProcs
    <3>2. /\ child'[q] = IF q = p THEN Append(child[p], n) ELSE child[q]
          /\ function'[q] = IF q = n THEN f ELSE function[q]
      BY <1>1, <1>2, <1>3, <1>4, DemoTypes
    <3>3. /\ child[q] = Offspring(q, line[q])
          /\ q < n => q \in 0..6 /\ function[q] = Main(q) /\ line[q] <= Length(q) + 1
          /\ q >= n => function[q] = "init" /\ line[q] = 1
      BY DemoPlaces
    <3>4. CASE q = p
      <4>1. Length(p) \in Nat
        BY <1>2, Programs
      <4>2. q < n /\ line'[q] <= Length(q) + 1 /\ q \in 0..6
        BY <1>2, <3>4, <4>1
      <4>3. ~ (q >= n + 1)
        BY <1>3, <3>1, <4>2
      <4> QED
        BY <1>4, <1>9, <3>2, <3>3, <3>4, <4>2, <4>3
    <3>5. CASE q = n
      <4>1. line'[q] = 1 /\ 1 <= Length(q) + 1
        BY <1>2, <1>4, <1>5, <1>7, <3>5, Programs
      <4>2. child'[q] = Offspring(q, 1) /\ function'[q] = Main(q) /\ q \in 0..6
        BY <1>4, <1>5, <1>7, <3>2, <3>5
      <4>3. ~ (q >= n + 1)
        BY <1>3, <3>5
      <4> QED
        BY <4>1, <4>2, <4>3
    <3>6. CASE q # p /\ q # n
      <4>1. line'[q] = line[q] /\ (q < n + 1 <=> q < n) /\ (q >= n + 1 => q >= n)
        BY <1>2, <1>3, <3>1, <3>6
      <4> QED
        BY <3>2, <3>3, <3>6, <4>1
    <3> QED
      BY <3>4, <3>5, <3>6
  <2>2. function' \in [Proc -> DOMAIN Text] /\ child' \in [Proc -> Seq(Proc)] /\ bed' \in [0..3 -> Int]
    <3>1. child[p] \in Seq(Proc) /\ Append(child[p], n) \in Seq(Proc)
      BY <1>2, <1>4, DemoTypes
    <3> QED
      BY <1>1, <1>2, <1>4, <3>1, DemoTypes
  <2> QED
    BY <1>1, <1>2, <1>8, <2>1, <2>2 DEF ProgramsRun
<1>11. \A q \in Proc \ {p} : at'[q] = at[q] \/ (at'[q] = "user" /\ line[q] = 1)
  BY <1>1, <1>4, <1>5, DemoTypes
<1>12. at'[p] = "user"
  BY <1>1, <1>2, <1>4, DemoTypes
<1>13. \A c \in Proc : Reaped(c)' <=> Reaped(c)
  <2>1. Members(mem', "zombie") = Members(mem, "zombie")
    <3>1. ~ OnCpu(n) /\ \A q \in Queue : n \notin Members(mem, q)
      BY <1>2, <1>3, <1>4, <1>5, KernelFacts DEF OnCpu, Placed, Queue
    <3> QED
      BY <1>1, <1>3, <1>4, <3>1, KernelFacts, AppendsProper DEF Queue
  <2>2. \A q \in Proc \ {p} : state'[q] = "ZOMBIE" <=> state[q] = "ZOMBIE"
    BY <1>1, <1>4, <1>5, DemoTypes
  <2> QED
    BY <1>1, <1>2, <1>3, <2>1, <2>2, ReapedRunning
<1>14. PlacesInv'
  BY <1>1, <1>11, <1>12, PlacesExecuted
<1>15. JoinInv'
  BY <1>1, <1>3, <1>11, <1>13, JoinExecuted
<1>16. TableInv'
  BY <1>1, TableExecuted
<1>17. MeetInv'
  BY <1>1, <1>3, <1>11, MeetExecuted
<1>18. PollInv'
  BY <1>1, PollExecuted DEF Touches
<1>19. StaleInv'
  <2>1. PICK g \in Garbage : waiting_for' = [waiting_for EXCEPT ![n] = g]
    BY <1>1 DEF Allocate
  <2>2. waiting_for[2] # 3 /\ 2 \in Proc
    BY <1>3 DEF DemoInv, Rest, StaleInv
  <2> QED
    BY <2>1, <2>2, DemoTypes DEF StaleInv
<1> QED
  BY <1>10, <1>14, <1>15, <1>16, <1>17, <1>18, <1>19 DEF Rest

LEMMA RestWaitForChild ==
    ASSUME DemoInv, DemoSize, NEW n \in 1..2, WaitForChild(n)
    PROVE  Rest'
<1> SUFFICES ASSUME NEW p, p = active_process, NEW c, c = child[p][n]
             PROVE  Rest'
  OBVIOUS
<1>1. /\ p \in 0..6 /\ line[p] \in 1..Length(p) /\ line'[p] = line[p] + 1
      /\ \A q \in Proc \ {p} : line'[q] = line[q]
      /\ Awaits(p, line[p], n) /\ Executing("user") /\ at[p] = "user"
      /\ Runs("waitpid", n) /\ LookForZombie(c) /\ UNCHANGED <<function, child, bed>>
  <2>1. Runs("waitpid", n) /\ LookForZombie(c) /\ UNCHANGED <<function, child, bed>>
    BY DEF WaitForChild, waitpid
  <2>2. /\ p \in 0..6 /\ line[p] \in 1..Length(p) /\ line'[p] = line[p] + 1
        /\ \A q \in Proc \ {p} : line'[q] = line[q]
        /\ Text[Main(p)][line[p]] = <<"waitpid", n>> /\ Executing("user") /\ at[p] = "user"
    BY <2>1, Executed
  <2>3. Awaits(p, line[p], n)
    BY <2>2, Script
  <2> QED
    BY <2>1, <2>2, <2>3
<1>2. Joins(p, line[p], c) /\ c \in 1..6 /\ c \in Proc
  BY <1>1, WaitIsFirst
<1>3. /\ bed \in [0..3 -> Int] /\ \A q \in 0..6 : line[q] \in Nat \ {0}
      /\ 0..6 \subseteq Proc /\ KernelInv /\ OnCpu(p) /\ p \in Proc
      /\ at \in [Proc -> {"none", "user"} \cup Calls]
      /\ arg \in [Proc -> Proc \cup Sid \cup {NoPid}]
  BY <1>1, InProgram, DemoProcs, DemoTypes, DemoLines
<1>4. /\ UNCHANGED <<next_pid, waiting_for, active_process, signals>>
      /\ Goto("user", NoPid) \/ Goto("w_block", c)
  BY <1>1, <1>3, LookEffect
<1>5. \A q \in Proc : Reaped(q)' <=> Reaped(q) \/ (q = c /\ Goto("user", NoPid))
  BY <1>1, <1>3, ReapedLooking
<1>6. /\ Goto("user", NoPid) => at'[p] = "user"
      /\ ~ Goto("user", NoPid) => at'[p] = "w_block" /\ arg'[p] = c
      /\ \A q \in Proc \ {p} : at'[q] = at[q] /\ arg'[q] = arg[q]
  BY <1>3, <1>4 DEF Goto
<1>7. ProgramsRun(Proc, next_pid)'
  BY <1>1, <1>3, <1>4, ProgramsExecuted
<1>8. PlacesInv'
  BY <1>1, <1>2, <1>6, PlacesExecuted
<1>9. JoinInv'
  <2> SUFFICES ASSUME NEW q \in {0, 1, 4}, NEW l \in 1..20, NEW d \in 1..6, Joins(q, l, d)
               PROVE  Reaped(d)' <=> Joined(q, l)'
    BY DEF JoinInv
  <2>1. Joined(q, l)' <=> Joined(q, l) \/ (q = p /\ l = line[q] /\ ~ InWaitpid(q)')
    BY <1>1, <1>3, <1>6, JoinedExecuted
  <2>2. CASE d = c
    <3>1. q = p /\ l = line[p]
      BY <1>2, <2>2, OnePlace
    <3>2. ~ InWaitpid(q)' <=> Goto("user", NoPid)
      BY <1>6, <3>1 DEF InWaitpid
    <3> QED
      BY <1>2, <1>5, <2>1, <2>2, <3>1, <3>2, Joining
  <2>3. CASE d # c
    <3>1. ~ (q = p /\ l = line[q])
      BY <1>2, <2>3, OnePlace
    <3> QED
      BY <1>3, <1>5, <2>1, <2>3, <3>1, Joining
  <2> QED
    BY <2>2, <2>3
<1>10. TableInv'
  BY <1>1, <1>4, TableExecuted
<1>11. MeetInv'
  BY <1>1, <1>3, <1>4, <1>6, MeetExecuted
<1>12. PollInv'
  BY <1>1, PollExecuted DEF Touches
<1>13. StaleInv'
  BY <1>4 DEF DemoInv, Rest, StaleInv
<1> QED
  BY <1>7, <1>8, <1>9, <1>10, <1>11, <1>12, <1>13 DEF Rest

LEMMA RestBoot ==
    ASSUME DemoInv, DemoSize, Boot, UNCHANGED programVars
    PROVE  Rest'
<1>1. /\ host = "boot" /\ next_pid = 0 /\ KernelInv
  BY DemoProcs DEF Boot, KernelInv, TypeInv
<1>2. /\ next_pid' = 1 /\ UNCHANGED <<arg, signals, depth>>
      /\ at' = [at EXCEPT ![0] = "user"] /\ state' = [state EXCEPT ![0] = "RUNNABLE"]
      /\ \E g \in Garbage : waiting_for' = [waiting_for EXCEPT ![0] = g]
  <2>1. Allocate(0) /\ depth' = depth
    <3>1. Allocate(next_pid) /\ UNCHANGED depth
      BY DEF Boot
    <3> QED BY <1>1, <3>1
  <2>2. next_pid' = 1
    <3>1. next_pid' = next_pid + 1
      BY DEF Boot, Allocate
    <3> QED BY <1>1, <3>1
  <2>3. arg' = arg /\ signals' = signals
    BY <2>1 DEF Allocate
  <2>4. at' = [at EXCEPT ![0] = "user"] /\ state' = [state EXCEPT ![0] = "RUNNABLE"]
    BY <2>1 DEF Allocate
  <2>5. \E g \in Garbage : waiting_for' = [waiting_for EXCEPT ![0] = g]
    BY <2>1 DEF Allocate
  <2> QED BY <2>1, <2>2, <2>3, <2>4, <2>5
<1>3. UNCHANGED <<function, line, child, bed>>
  BY DEF programVars
<1>4. /\ 0..6 \subseteq Proc /\ Proc \subseteq Nat /\ CreatedInOrder(0)
      /\ at \in [Proc -> {"none", "user"} \cup Calls]
      /\ state \in [Proc -> {"NONE", "RUNNABLE", "BLOCKED", "ZOMBIE"}]
  BY <1>1, DemoProcs, DemoLines, DemoTypes
<1>5. \A q \in Proc : /\ line[q] = 1 /\ function[q] = "init" /\ child[q] = Offspring(q, line[q])
                      /\ at[q] = "none" /\ state[q] = "NONE"
  <2>1. \A q \in Proc : at[q] = "none" /\ state[q] = "NONE"
    BY <1>1, <1>4 DEF KernelInv, TypeInv
  <2> QED
    BY <1>1, <1>4, <2>1, DemoPlaces
<1>6. \A q \in Proc : /\ at'[q] = IF q = 0 THEN "user" ELSE "none"
                      /\ state'[q] = IF q = 0 THEN "RUNNABLE" ELSE "NONE"
  BY <1>2, <1>4, <1>5
<1>7. ProgramsRun(Proc, next_pid)'
  <2>1. CreatedInOrder(next_pid)'
    BY <1>2, <1>3, <1>4 DEF CreatedInOrder
  <2>2. ASSUME NEW q \in Proc
        PROVE  q < 1 => q \in 0..6 /\ function[q] = Main(q) /\ line[q] <= Length(q) + 1
    BY <1>4, <1>5, Programs
  <2> QED
    BY <1>2, <1>3, <1>5, <2>1, <2>2, DemoTypes DEF ProgramsRun
<1>8. PlacesInv'
  BY <1>3, <1>5, <1>6 DEF PlacesInv, Ended, InWaitpid, InSwait
<1>9. ASSUME NEW q \in 0..6, NEW l \in 1..20
      PROVE  ~ Joined(q, l) /\ ~ Joined(q, l)' /\ ~ Consumed(q, l) /\ ~ Consumed(q, l)'
  BY <1>3, <1>4, <1>5 DEF Joined, Consumed
<1>10. JoinInv'
  <2>1. \A d \in 1..6 : ~ Reaped(d)'
    BY <1>4, <1>6 DEF Reaped
  <2> QED
    BY <1>9, <2>1 DEF JoinInv
<1>11. TableInv'
  BY <1>2, <1>3 DEF DemoInv, Rest, TableInv
<1>12. MeetInv'
  BY <1>2, <1>3, <1>9, Meeting DEF MeetInv
<1>13. PollInv'
  BY <1>3 DEF DemoInv, Rest, PollInv
<1>14. StaleInv'
  BY <1>2, <1>4, DemoTypes DEF DemoInv, Rest, StaleInv
<1> QED
  BY <1>7, <1>8, <1>10, <1>11, <1>12, <1>13, <1>14 DEF Rest

LEMMA RestNext ==
    ASSUME DemoInv, DemoSize, TickAt \cap Harmful = {}, 3 \notin Garbage, [DemoNext]_demoVars
    PROVE  Rest'
<1>1. CASE Boot /\ UNCHANGED programVars
  BY <1>1, RestBoot
<1>2. ASSUME NEW f \in DOMAIN Text, Create(f) PROVE Rest'
  BY <1>2, RestCreate
<1>3. ASSUME NEW i \in 0..3, NewSignal(i) \/ CallOnSignal(i) \/ Assign(i) PROVE Rest'
  BY <1>3, RestNew, RestAssign, RestSwait, RestSignal DEF CallOnSignal
<1>4. ASSUME NEW k \in 1..2, WaitForChild(k) PROVE Rest'
  BY <1>4, RestWaitForChild
<1>5. CASE Say_ \/ Return \/ InKernel
  BY <1>5, RestPrintln, RestEnds, RestInKernel
<1>6. CASE Tick
  <2>1. KeptTick /\ UNCHANGED programVars
    BY <1>6 DEF Tick, KeptTick, handleSigprof
  <2> QED
    BY <2>1, RestTick
<1>7. CASE UNCHANGED demoVars
  <2>1. Rest
    BY DEF DemoInv
  <2>2. /\ UNCHANGED <<next_pid, state, waiting_for, mem, signals, at, arg, depth>>
        /\ UNCHANGED <<function, line, child, bed>>
    BY <1>7 DEF demoVars, vars, procVars, ctxVars, programVars
  <2>3. ProgramsRun(Proc, next_pid)'
    BY <2>1, <2>2 DEF Rest, ProgramsRun, CreatedInOrder
  <2>4. PlacesInv' /\ TableInv' /\ PollInv' /\ StaleInv'
    BY <2>1, <2>2 DEF Rest, PlacesInv, TableInv, PollInv, StaleInv, Ended, InWaitpid, InSwait
  <2>5. JoinInv'
    BY <2>2, JoinQuiet DEF InWaitpid, Reaped
  <2>6. MeetInv'
    BY <2>2, MeetQuiet
  <2> QED
    BY <2>3, <2>4, <2>5, <2>6 DEF Rest
<1> QED
  BY <1>1, <1>2, <1>3, <1>4, <1>5, <1>6, <1>7 DEF DemoNext, Step, Moves, Done

-----------------------------------------------------------------------------
(* The demo invariant                                                      *)

LEMMA DemoInvInit == ASSUME DemoInit, DemoSize PROVE DemoInv
<1>1. ServiceInv
  BY ServiceInit DEF DemoInit
<1>2. /\ next_pid = 0 /\ at = [q \in Proc |-> "none"] /\ state = [q \in Proc |-> "NONE"]
      /\ waiting_for = [q \in Proc |-> NoPid] /\ mem = EmptyQueues
      /\ signals = [s \in Sid |-> [used |-> FALSE, value |-> 0, waiting |-> NULL]]
  BY DEF DemoInit, Init
<1>3. /\ function = [q \in Proc |-> "init"] /\ line = [q \in Proc |-> 1]
      /\ child = [q \in Proc |-> <<>>] /\ bed = [i \in 0..3 |-> 0]
  BY DEF DemoInit, ProgramInit
<1>4. /\ 0..6 \subseteq Proc /\ Proc \subseteq Nat /\ 0..3 \subseteq Sid /\ Sid \subseteq Nat
  <2>1. /\ MaxProcs \in Nat /\ NumSignals \in Nat /\ Proc = 0..(MaxProcs - 1)
        /\ MaxProcs >= 7 /\ NumSignals >= 4
    BY KernelAssumption DEF DemoSize
  <2> QED BY <2>1 DEF Sid
<1>5. ProgramsRun(Proc, next_pid)
  <2>1. "init" \in DOMAIN Text
    BY DEF Text
  <2>2. CreatedInOrder(0)
    BY <1>3, <1>4 DEF CreatedInOrder
  <2>3. \A q \in Proc : child[q] = Offspring(q, line[q])
    <3>1. ASSUME NEW q PROVE Offspring(q, 1) = <<>>
      <4>1. CASE q = 0
        BY <4>1 DEF Offspring
      <4>2. CASE q = 1
        BY <4>2 DEF Offspring
      <4>3. CASE q = 4
        BY <4>3 DEF Offspring
      <4>4. CASE q \notin {0, 1, 4}
        BY <4>4 DEF Offspring
      <4> QED BY <4>1, <4>2, <4>3, <4>4
    <3> QED BY <1>3, <3>1
  <2>4. \A q \in Proc : ~ (q < 0)
    BY <1>4
  <2>5. /\ line \in [Proc -> Nat \ {0}] /\ function \in [Proc -> DOMAIN Text]
        /\ child \in [Proc -> Seq(Proc)] /\ bed \in [0..3 -> Int]
    BY <1>3, <2>1
  <2>6. ProgramsRun(Proc, 0)
    BY <1>3, <2>2, <2>3, <2>4, <2>5 DEF ProgramsRun
  <2> QED BY <1>2, <2>6
<1>6. PlacesInv
  BY <1>2, <1>3 DEF PlacesInv, Ended, InWaitpid, InSwait
<1>7. ASSUME NEW q \in 0..6, NEW l \in 1..20
      PROVE  ~ Joined(q, l) /\ ~ Consumed(q, l)
  BY <1>3, <1>4 DEF Joined, Consumed
<1>8. JoinInv
  <2>1. \A d \in 1..6 : ~ Reaped(d)
    BY <1>2, <1>4 DEF Reaped
  <2> QED BY <1>7, <2>1 DEF JoinInv
<1>9. TableInv
  <2>1. line[1] = 1
    BY <1>3, <1>4
  <2>2. ASSUME NEW s \in Sid PROVE signals[s].used <=> s < 4 /\ s + 1 < line[1]
    BY <1>2, <1>4, <2>1
  <2>3. \A i \in 0..3 : ~ (i + 1 < line[1])
    BY <2>1
  <2> QED BY <2>2, <2>3 DEF TableInv
<1>10. MeetInv
  <2>1. \A i \in 0..3 : signals[i].value # 1
    BY <1>2, <1>4
  <2>2. \A g \in 1..3, k \in 1..20 : ~ (line[g] > k)
    BY <1>3, <1>4
  <2> QED BY <1>7, <2>1, <2>2 DEF MeetInv
<1>11. PollInv /\ StaleInv
  BY <1>2, <1>3, <1>4 DEF PollInv, StaleInv, NoPid
<1> QED BY <1>1, <1>5, <1>6, <1>8, <1>9, <1>10, <1>11 DEF DemoInv, Rest

LEMMA DemoInvNext ==
    ASSUME DemoSize, TickAt \cap Harmful = {}, 3 \notin Garbage
    PROVE  DemoInv /\ [DemoNext]_demoVars => DemoInv'
<1> SUFFICES ASSUME DemoInv, [DemoNext]_demoVars PROVE DemoInv'
  OBVIOUS
<1>1. ServiceInv'
  <2>1. [KeptNext]_vars
    BY DemoIsKept
  <2> QED BY <2>1, ServiceNext DEF DemoInv
<1> QED BY <1>1, RestNext DEF DemoInv

LEMMA DemoInvariant ==
    ASSUME DemoSize, TickAt \cap Harmful = {}, 3 \notin Garbage
    PROVE  DemoSpec => []DemoInv
<1>1. DemoInit => DemoInv
  BY DemoInvInit
<1>2. DemoInv /\ [DemoNext]_demoVars => DemoInv'
  BY DemoInvNext
<1> QED BY <1>1, <1>2, PTL DEF DemoSpec

-----------------------------------------------------------------------------
(* The order in which the polled ints are passed                           *)

LEMMA Executor ==
    ASSUME DemoInv, DemoSize, NEW p \in Proc, function[p] \in {"bw_proc1", "bw_proc2", "bw_proc3"}
    PROVE  p \in 4..6 /\ function[p] = Main(p) /\ line[p] \in Nat \ {0} /\ line[p] <= Length(p) + 1
<1>1. ~ (p >= next_pid)
  BY DemoPlaces
<1>2. p \in 0..6 /\ function[p] = Main(p) /\ line[p] <= Length(p) + 1
  BY <1>1, DemoProcs, DemoPlaces
<1> QED BY <1>2, DemoLines, Programs

(* To be past an assignment to an int is to have executed it.              *)
LEMMA PastSet ==
    ASSUME DemoInv, DemoSize, NEW p \in Proc, NEW i \in 0..3,
           function[p] \in {"bw_proc1", "bw_proc2", "bw_proc3"}
    PROVE  Past(p, function[p], "set", i) <=> \E l \in 1..20 : Sets(p, l, i) /\ line[p] > l
<1>1. p \in 4..6 /\ function[p] = Main(p) /\ line[p] \in Nat \ {0} /\ line[p] <= Length(p) + 1
  BY Executor
<1>2. Length(p) \in 1..20
  BY <1>1, Programs
<1>3. ASSUME NEW k \in 1..(line[p] - 1)
      PROVE  Text[Main(p)][k] = <<"set", i>> <=> Sets(p, k, i)
  <2>1. k \in 1..Length(p)
    BY <1>1, <1>2
  <2> QED BY <1>1, <2>1, Script
<1>4. ASSUME NEW l \in 1..20, line[p] > l PROVE l \in 1..(line[p] - 1)
  BY <1>1, <1>4
<1>5. ASSUME NEW l \in 1..(line[p] - 1) PROVE l \in 1..20 /\ line[p] > l
  BY <1>1, <1>2
<1>6. Past(p, function[p], "set", i) <=> \E k \in 1..(line[p] - 1) : Text[Main(p)][k] = <<"set", i>>
  BY <1>1 DEF Past
<1> QED BY <1>3, <1>4, <1>5, <1>6

LEMMA DemoPolls == ASSUME DemoInv, DemoSize PROVE PollingOrder
<1> SUFFICES ASSUME NEW p \in Proc, NEW q \in Proc
             PROVE  /\ Past(p, "bw_proc1", "set", 2) =>
                           /\ function[q] = "bw_proc2" => Past(q, "bw_proc2", "set", 0)
                           /\ function[q] = "bw_proc3" => Past(q, "bw_proc3", "set", 1)
                    /\ function[p] = "bw_proc1" =>
                           /\ function[q] = "bw_proc2" /\ AtEnd(q) => Past(p, "bw_proc1", "set", 3)
                           /\ function[q] = "bw_proc3" /\ AtEnd(q) => Past(p, "bw_proc1", "set", 2)
  BY DEF PollingOrder
<1>1. /\ Sets(5, 2, 0) /\ Sets(6, 2, 1) /\ Sets(4, 11, 2) /\ Sets(4, 13, 3)
      /\ \A l : Sets(4, l, 2) => l = 11
  BY DEF Sets
<1>2. /\ line[4] \in Nat \ {0} /\ line[5] \in Nat \ {0} /\ line[6] \in Nat \ {0}
  BY DemoLines
<1>3. ASSUME NEW f \in {"bw_proc1", "bw_proc2", "bw_proc3"}, NEW r \in Proc, function[r] = f
      PROVE  r = (CASE f = "bw_proc1" -> 4 [] f = "bw_proc2" -> 5 [] f = "bw_proc3" -> 6)
  BY <1>3, Executor, Programs
<1>4. ASSUME line[4] > 1
      PROVE  /\ line[4] > 7 => line[5] > 2
             /\ line[4] > 9 => line[6] > 2
             /\ line[5] > 4 => line[4] > 13
             /\ line[6] > 4 => line[4] > 11
  <2>1. \A m, g \in 4..6, l, k \in 1..20, i \in 0..3 :
            Polls(m, l, i) /\ Sets(g, k, i) /\ line[m] > l => line[g] > k
    BY <1>4 DEF DemoInv, Rest, PollInv
  <2>2. line[4] > 7 => line[5] > 2
    BY <2>1 DEF Polls, Sets
  <2>3. line[4] > 9 => line[6] > 2
    BY <2>1 DEF Polls, Sets
  <2>4. line[5] > 4 => line[4] > 13
    BY <2>1 DEF Polls, Sets
  <2>5. line[6] > 4 => line[4] > 11
    BY <2>1 DEF Polls, Sets
  <2> QED BY <2>2, <2>3, <2>4, <2>5
<1>5. ASSUME Past(p, "bw_proc1", "set", 2)
      PROVE  /\ function[q] = "bw_proc2" => Past(q, "bw_proc2", "set", 0)
             /\ function[q] = "bw_proc3" => Past(q, "bw_proc3", "set", 1)
  <2>1. function[p] = "bw_proc1"
    BY <1>5 DEF Past
  <2>2. p = 4
    BY <1>3, <2>1
  <2>3. \E l \in 1..20 : Sets(p, l, 2) /\ line[p] > l
    BY <1>5, <2>1, PastSet
  <2>4. line[4] > 11
    BY <1>1, <2>2, <2>3
  <2>5. line[4] > 1 /\ line[4] > 7 /\ line[4] > 9
    BY <1>2, <2>4
  <2>6. line[5] > 2
    BY <1>4, <2>5
  <2>7. line[6] > 2
    BY <1>4, <2>5
  <2>8. ASSUME function[q] = "bw_proc2" PROVE Past(q, "bw_proc2", "set", 0)
    <3>1. q = 5
      BY <1>3, <2>8
    <3> QED BY <1>1, <2>6, <2>8, <3>1, PastSet
  <2>9. ASSUME function[q] = "bw_proc3" PROVE Past(q, "bw_proc3", "set", 1)
    <3>1. q = 6
      BY <1>3, <2>9
    <3> QED BY <1>1, <2>7, <2>9, <3>1, PastSet
  <2> QED BY <2>8, <2>9
<1>6. ASSUME function[q] \in {"bw_proc2", "bw_proc3"}, AtEnd(q)
      PROVE  line[q] > 4 /\ line[4] > 1
  <2>1. q \in 5..6 /\ function[q] = Main(q)
    BY <1>6, Executor, Programs
  <2>2. Len(Text[Main(q)]) = 5
    <3>1. Length(q) = 5 /\ q \in 0..6
      BY <2>1, Programs
    <3> QED BY <3>1, Lengths
  <2>3. line[q] > 5
    BY <1>6, <2>1, <2>2 DEF AtEnd
  <2>4. line[4] > 3
    <3>1. ~ (q >= next_pid)
      BY <1>6, DemoPlaces
    <3>2. next_pid >= 6
      BY <2>1, <3>1, DemoProcs
    <3> QED BY <3>2, DemoLines DEF CreatedInOrder
  <2> QED BY <1>2, <2>1, <2>3, <2>4
<1>7. ASSUME function[p] = "bw_proc1", function[q] = "bw_proc2", AtEnd(q)
      PROVE  Past(p, "bw_proc1", "set", 3)
  <2>1. p = 4 /\ q = 5
    BY <1>3, <1>7
  <2>2. line[5] > 4 /\ line[4] > 1
    BY <1>6, <1>7, <2>1
  <2>3. line[4] > 13
    BY <1>4, <2>2
  <2> QED BY <1>1, <1>7, <2>1, <2>3, PastSet
<1>8. ASSUME function[p] = "bw_proc1", function[q] = "bw_proc3", AtEnd(q)
      PROVE  Past(p, "bw_proc1", "set", 2)
  <2>1. p = 4 /\ q = 6
    BY <1>3, <1>8
  <2>2. line[6] > 4 /\ line[4] > 1
    BY <1>6, <1>8, <2>1
  <2>3. line[4] > 11
    BY <1>4, <2>2
  <2> QED BY <1>1, <1>8, <2>1, <2>3, PastSet
<1> QED BY <1>5, <1>7, <1>8

-----------------------------------------------------------------------------
(* The theorems on the shipped programs assume that the timer spares the   *)
(* four windows and that malloc does not leave a 3 in waiting_for, which   *)
(* new memory does not: proc2 would seem to wait for proc3 (StaleInv).     *)

(* However the timer mixes them, bw_proc1 sets B3 only after the other two *)
(* have set B1 and B2, and each of those ends only after bw_proc1 has set  *)
(* the int it polls (processes.c:79-131).                                  *)
THEOREM PollersTakeTurns ==
    ASSUME DemoSize, TickAt \cap Harmful = {}, 3 \notin Garbage
    PROVE  DemoSpec => []PollingOrder
<1>1. DemoInv => PollingOrder
  BY DemoPolls
<1> QED BY <1>1, DemoInvariant, PTL

(* So the kernel loses no process, misses no wake-up, resumes none that    *)
(* has ended and never stops on a damaged queue while it runs these        *)
(* programs, with nothing assumed of them (processes.c:13-146).            *)
THEOREM ShippedProgramsAreSafe ==
    ASSUME DemoSize, TickAt \cap Harmful = {}, 3 \notin Garbage
    PROVE  DemoSpec => [](/\ NoProcessLost /\ ZombieNeverResumed
                          /\ WaitpidNotForgotten /\ SwaitNotForgotten
                          /\ host \notin {"failed", "hung", "crashed"})
<1>1. DemoInv => NoProcessLost /\ ZombieNeverResumed /\ WaitpidNotForgotten /\ SwaitNotForgotten
  BY KernelKeeps, KernelResumes, WaitpidKeeps, SwaitKeeps DEF DemoInv, ServiceInv
<1>2. DemoInv => host \notin {"failed", "hung", "crashed"}
  BY DEF DemoInv, ServiceInv, KernelInv
<1> QED BY <1>1, <1>2, DemoInvariant, PTL

(* Every system call the programs make is one that the comments of         *)
(* syscalls.h allow, though nothing in the kernel enforces it              *)
(* (processes.c:13-146, syscalls.h:11-30).                                 *)
THEOREM ProgramsAreCareful ==
    ASSUME DemoSize, TickAt \cap Harmful = {}, 3 \notin Garbage
    PROVE  DemoSpec => [][KeptNext]_vars
<1>1. DemoInv /\ [DemoNext]_demoVars => [KeptNext]_vars
  BY DemoIsKept
<1> QED BY <1>1, DemoInvariant, PTL DEF DemoSpec

-----------------------------------------------------------------------------
(* A process goes on after mbs_swait only when the variable was signalled: *)
(* no end of another process, no second signal and no tick brings it back  *)
(* earlier (syscalls.c:151-174, 176-189).                                  *)
THEOREM SwaitWaitsForSignal ==
    ASSUME Careful, TickAt \cap Harmful = {}
    PROVE  Spec => [][mbs_swait_Value => signals[arg[active_process]].value = 1]_vars
<1>1. Init => ServiceInv
  BY ServiceInit
<1>2. ServiceInv /\ [Next]_vars => ServiceInv'
  BY ServiceNext, CarefulIsKept
<1>3. ASSUME ServiceInv, mbs_swait_Value PROVE signals[arg[active_process]].value = 1
  <2>1. KernelInv /\ ReadyInv
    BY <1>3 DEF ServiceInv
  <2>2. active_process \in Proc /\ OnCpu(active_process) /\ at[active_process] = "s_value"
    BY <1>3, <2>1, Running DEF mbs_swait_Value, Points, Calls
  <2>3. state[active_process] = "RUNNABLE"
    BY <2>1, <2>2, KernelFacts DEF PlaceOf
  <2> QED BY <2>1, <2>2, <2>3 DEF ReadyInv
<1> QED BY <1>1, <1>2, <1>3, PTL DEF Spec
=============================================================================
