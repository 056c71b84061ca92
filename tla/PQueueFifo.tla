----------------------------- MODULE PQueueFifo -----------------------------
(***************************************************************************)
(* The linked lists of PQueue under any sequence of queue calls in which a *)
(* process is appended only while it is in no queue (the condition under   *)
(* which schedule, process_wrapper and create_process append).  Shown: the *)
(* lists stay well formed and implement the sequences of FifoQueues,       *)
(* although all three queues share one `next' field per process.           *)
(***************************************************************************)
EXTENDS PQueue, Integers, FiniteSets

VARIABLES
    mem,
    taken          \* what the last call has returned: none or one process

vars == <<mem, taken>>

Init == mem = EmptyQueues /\ taken = {}

Enqueued == UNION {Members(mem, q) : q \in Queue}

AppendProcess(q, p) ==
    /\ p \notin Enqueued
    /\ mem' = queue_append(mem, q, p)
    /\ taken' = {}

GetHead(q) ==
    /\ mem' = queue_get_head(mem, q)
    /\ taken' = {mem.first[q]} \ {NULL}

(* queue_get_process (T = the process with that pid) and                   *)
(* queue_get_process_waiting_for (T = the processes waiting for that pid): *)
(* take out the first that matches; the queue is unchanged if none does.   *)
queue_get(m, q, T) ==
    IF Found(m, q, T) = {} THEN m
    ELSE queue_dequeue(m, q, CHOOSE p \in Found(m, q, T) : TRUE)

GetMatching(q, T) ==
    /\ mem' = queue_get(mem, q, T)
    /\ taken' = Found(mem, q, T)

Next == \E q \in Queue :
    \/ \E p \in Proc : AppendProcess(q, p)
    \/ GetHead(q)
    \/ \E T \in SUBSET Proc : GetMatching(q, T)

Spec == Init /\ [][Next]_vars

-----------------------------------------------------------------------------
(* The list read from first to NULL, as a sequence.                        *)
ListOf(m, q) ==
    LET n == Cardinality(Members(m, q))
        node[i \in 1..n] == IF i = 1 THEN m.first[q] ELSE m.next[node[i - 1]]
    IN  [i \in 1..n |-> node[i]]

Fifo == INSTANCE FifoQueues WITH content <- [q \in Queue |-> ListOf(mem, q)]

(* Every call adds at the end or takes out one process, the first that     *)
(* matches, and the others keep their order (process_manager.h:76-93).     *)
ImplementsFifo == Fifo!Spec
=============================================================================
