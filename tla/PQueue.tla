------------------------------- MODULE PQueue -------------------------------
(***************************************************************************)
(* The singly linked process queues of MiniBS (process_manager.c).  The    *)
(* program keeps three queues, run_queue, wait_queue and zombie_queue;     *)
(* each is a pair of pointers `first' and `last', and a process has ONE    *)
(* `next' field, which all queues share.  The operators work on that       *)
(* memory, a record                                                        *)
(*   [next  |-> Proc  -> process or NULL,                                  *)
(*    first |-> Queue -> process or NULL,                                  *)
(*    last  |-> Queue -> process or NULL]                                  *)
(* and make no assumption on its shape: they say what the C code does also *)
(* to a list that is cyclic or whose `last' is not its end.                *)
(***************************************************************************)
CONSTANTS Proc,  \* the process structures (an element stands for its address)
          NULL   \* the null pointer

ASSUME NullAssumption == NULL \notin Proc

Queue == {"run", "wait", "zombie"}
Pointer == Proc \cup {NULL}
Memory == [next : [Proc -> Pointer], first : [Queue -> Pointer], last : [Queue -> Pointer]]

EmptyQueues ==
    [next  |-> [p \in Proc |-> NULL],
     first |-> [q \in Queue |-> NULL],
     last  |-> [q \in Queue |-> NULL]]

-----------------------------------------------------------------------------
(* Traversals                                                              *)

(* S has every successor of its processes, those in T apart.               *)
Closed(next, S, T) == \A x \in S \ T : next[x] \in S \cup {NULL}

(* What `for (proc = queue->first; proc != NULL; proc = proc->next)' has   *)
(* visited when it stops at the first process of T, that one included: the *)
(* least set that has the first process and is closed in this sense.       *)
Visited(m, q, T) ==
    LET covers == {S \in SUBSET Proc : m.first[q] \in S /\ Closed(m.next, S, T)}
    IN  IF m.first[q] = NULL THEN {} ELSE {x \in Proc : \A S \in covers : x \in S}

Members(m, q) == Visited(m, q, {})

Found_All(m, q, T) == Members(m, q) \cap T    \* mutant: the search goes on

(* The process at which that traversal stops: none or one.                 *)
Found(m, q, T) == Visited(m, q, T) \cap T

(* A traversal that finds nothing to stop at never ends on a cycle.        *)
Endless(m, q) == m.first[q] # NULL /\ \A x \in Members(m, q) : m.next[x] # NULL

-----------------------------------------------------------------------------
(* queue_append, queue_dequeue, queue_get_head                             *)

queue_append_LIFO(m, q, p) ==         \* mutant: p put before the first process
    IF m.first[q] = NULL
    THEN [m EXCEPT !.next[p] = NULL, !.first[q] = p, !.last[q] = p]
    ELSE [m EXCEPT !.next[p] = m.first[q], !.first[q] = p]

queue_append(m, q, p) ==
    LET cleared == [m EXCEPT !.next[p] = NULL]
    IN  IF m.first[q] = NULL
        THEN [cleared EXCEPT !.first[q] = p, !.last[q] = p]
        ELSE [cleared EXCEPT !.next[m.last[q]] = p, !.last[q] = p]

(* queue->last->next with queue->last == NULL.                             *)
AppendFaults(m, q) == m.first[q] # NULL /\ m.last[q] = NULL

(* `previous' of queue_dequeue when it has come to p.                      *)
Previous(m, q, p) ==
    IF m.first[q] = p THEN NULL
    ELSE CHOOSE x \in Visited(m, q, {p}) : x # p /\ m.next[x] = p

queue_dequeue_StaleLast(m, q, p) ==   \* mutant: `queue->last = previous' forgotten
    IF p \notin Members(m, q) THEN m
    ELSE IF Previous(m, q, p) = NULL
         THEN [m EXCEPT !.first[q] = m.next[p], !.next[p] = NULL]
         ELSE [m EXCEPT !.next[Previous(m, q, p)] = m.next[p], !.next[p] = NULL]

queue_dequeue(m, q, p) ==
    LET previous == Previous(m, q, p)
        unlinked == IF previous = NULL THEN [m EXCEPT !.first[q] = m.next[p]]
                    ELSE [m EXCEPT !.next[previous] = m.next[p]]
    IN  IF p \notin Members(m, q) THEN m
        ELSE [unlinked EXCEPT !.last[q] = IF @ = p THEN previous ELSE @, !.next[p] = NULL]

queue_get_head(m, q) ==
    LET result == m.first[q]
    IN  IF result = NULL THEN m
        ELSE [m EXCEPT !.first[q] = m.next[result],
                       !.last[q] = IF m.next[result] = NULL THEN NULL ELSE @,
                       !.next[result] = NULL]

-----------------------------------------------------------------------------
(* A queue is well formed: `last' is the last process of the list and no   *)
(* process is entered twice (no two predecessors, none before the first).  *)
WellFormed(m, q) ==
    \/ m.first[q] = NULL
    \/ /\ m.last[q] \in Members(m, q)
       /\ m.next[m.last[q]] = NULL
       /\ \A x \in Members(m, q) : m.next[x] # m.first[q]
       /\ \A x, y \in Members(m, q) : m.next[x] = m.next[y] /\ m.next[x] # NULL => x = y

(* All three queues are, and no process is in two of them.                 *)
Proper(m) ==
    /\ \A q \in Queue : WellFormed(m, q)
    /\ \A q, r \in Queue : q # r => Members(m, q) \cap Members(m, r) = {}
=============================================================================
