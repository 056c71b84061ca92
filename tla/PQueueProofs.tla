---------------------------- MODULE PQueueProofs ----------------------------
(***************************************************************************)
(* What the queue operations of PQueue do, for every set of processes and  *)
(* every memory they may be called in.  All arguments go through sets that *)
(* are closed under `next': the processes of a list are the least such set *)
(* that has the first one, so no induction over the list is needed.        *)
(* Where one over numbers is, LeastElement takes its place.                *)
(***************************************************************************)
EXTENDS SequencesExt, SequenceTheorems, PQueue, Integers, FiniteSetTheorems, TLAPS

-----------------------------------------------------------------------------
(* Traversals, in any memory                                               *)

(* The processes of a list are among any set that has the first one and is *)
(* closed (the for loops of process_manager.c:166-171).                    *)
LEMMA VisitedLeast ==
    ASSUME NEW m \in Memory, NEW q \in Queue, NEW T, NEW S \in SUBSET Proc,
           m.first[q] \in S \cup {NULL}, Closed(m.next, S, T)
    PROVE  Visited(m, q, T) \subseteq S
BY DEF Visited

(* A traversal visits the first process, and the successor of everything   *)
(* it visits and does not stop at.                                         *)
LEMMA VisitedClosed ==
    ASSUME NEW m \in Memory, NEW q \in Queue, NEW T
    PROVE  /\ Visited(m, q, T) \in SUBSET Proc
           /\ m.first[q] \in Visited(m, q, T) \cup {NULL}
           /\ Closed(m.next, Visited(m, q, T), T)
<1>1. m.first[q] \in Pointer /\ m.next \in [Proc -> Pointer]
  BY DEF Memory
<1>2. CASE m.first[q] = NULL
  BY <1>2 DEF Visited, Closed
<1>3. CASE m.first[q] # NULL
  <2>1. m.first[q] \in Proc
    BY <1>1, <1>3 DEF Pointer
  <2>2. ASSUME NEW x \in Visited(m, q, T), x \notin T, m.next[x] # NULL
        PROVE  m.next[x] \in Visited(m, q, T)
    <3>1. x \in Proc /\ m.next[x] \in Proc
      BY <1>1, <1>3, <2>2 DEF Visited, Pointer
    <3>2. ASSUME NEW S \in SUBSET Proc, m.first[q] \in S, Closed(m.next, S, T)
          PROVE  m.next[x] \in S
      BY <1>3, <2>2, <3>2 DEF Visited, Closed
    <3> QED
      BY <1>3, <3>1, <3>2 DEF Visited
  <2> QED
    BY <1>3, <2>1, <2>2 DEF Visited, Closed
<1> QED
  BY <1>2, <1>3

(* Everything visited but the first process has a visited predecessor the  *)
(* traversal went on from.                                                 *)
LEMMA VisitedHasPrevious ==
    ASSUME NEW m \in Memory, NEW q \in Queue, NEW T,
           NEW x \in Visited(m, q, T), x # m.first[q]
    PROVE  \E y \in Visited(m, q, T) \ T : y # x /\ m.next[y] = x
<1> SUFFICES ASSUME \A y \in Visited(m, q, T) \ T : y # x => m.next[y] # x
             PROVE  FALSE
  OBVIOUS
<1> DEFINE S == Visited(m, q, T) \ {x}
<1>1. S \in SUBSET Proc /\ m.first[q] \in S \cup {NULL} /\ Closed(m.next, S, T)
  BY VisitedClosed DEF Closed
<1> QED
  BY <1>1, VisitedLeast

(* A traversal that stops early visits only processes of the list, and it  *)
(* stops exactly if the list has one to stop at.                           *)
LEMMA FoundInMembers ==
    ASSUME NEW m \in Memory, NEW q \in Queue, NEW T
    PROVE  /\ Visited(m, q, T) \subseteq Members(m, q)
           /\ Found(m, q, T) \subseteq Members(m, q) \cap T
           /\ Found(m, q, T) = {} => Members(m, q) \cap T = {}
<1>1. Visited(m, q, T) \subseteq Members(m, q)
  <2>1. Members(m, q) \in SUBSET Proc /\ m.first[q] \in Members(m, q) \cup {NULL}
    BY VisitedClosed DEF Members
  <2>2. Closed(m.next, Members(m, q), T)
    BY VisitedClosed DEF Members, Closed
  <2> QED
    BY <2>1, <2>2, VisitedLeast
<1>2. ASSUME Found(m, q, T) = {}
      PROVE  Members(m, q) \subseteq Visited(m, q, T)
  <2>1. Closed(m.next, Visited(m, q, T), {})
    BY <1>2, VisitedClosed DEF Closed, Found
  <2> QED
    BY <2>1, VisitedClosed, VisitedLeast DEF Members
<1> QED
  BY <1>1, <1>2 DEF Found

(* The list of a queue depends on its first pointer and on the next fields *)
(* of its own processes only.                                              *)
LEMMA MembersFrame ==
    ASSUME NEW m \in Memory, NEW n \in Memory, NEW q \in Queue,
           n.first[q] = m.first[q],
           \A x \in Members(m, q) : n.next[x] = m.next[x]
    PROVE  Members(n, q) = Members(m, q)
<1>1. Members(n, q) \subseteq Members(m, q)
  <2>1. Members(m, q) \in SUBSET Proc /\ n.first[q] \in Members(m, q) \cup {NULL}
    BY VisitedClosed DEF Members
  <2>2. Closed(n.next, Members(m, q), {})
    BY VisitedClosed DEF Members, Closed
  <2> QED
    BY <2>1, <2>2, VisitedLeast DEF Members
<1>2. Members(m, q) \subseteq Members(n, q)
  <2>1. Members(n, q) \in SUBSET Proc /\ m.first[q] \in Members(n, q) \cup {NULL}
    BY VisitedClosed DEF Members
  <2>2. Closed(m.next, Members(n, q), {})
    BY <1>1, VisitedClosed DEF Members, Closed
  <2> QED
    BY <2>1, <2>2, VisitedLeast DEF Members
<1> QED
  BY <1>1, <1>2

-----------------------------------------------------------------------------
(* Types, in any memory                                                    *)

(* When queue_dequeue has come to a process of the list, `previous' is     *)
(* NULL or the process it has come from (process_manager.c:194-211).       *)
LEMMA PreviousSpec ==
    ASSUME NEW m \in Memory, NEW q \in Queue, NEW p \in Members(m, q)
    PROVE  \/ Previous(m, q, p) = NULL /\ m.first[q] = p
           \/ /\ m.first[q] # p
              /\ Previous(m, q, p) \in Members(m, q)
              /\ Previous(m, q, p) # p
              /\ m.next[Previous(m, q, p)] = p
<1>1. CASE m.first[q] = p
  BY <1>1 DEF Previous
<1>2. CASE m.first[q] # p
  <2>1. p \in Visited(m, q, {p})
    BY FoundInMembers DEF Found
  <2>2. \E x \in Visited(m, q, {p}) : x # p /\ m.next[x] = p
    BY <1>2, <2>1, VisitedHasPrevious
  <2>3. Previous(m, q, p) \in Visited(m, q, {p})
        /\ Previous(m, q, p) # p /\ m.next[Previous(m, q, p)] = p
    BY <1>2, <2>2 DEF Previous
  <2> QED
    BY <1>2, <2>3, FoundInMembers
<1> QED
  BY <1>1, <1>2

(* queue_append leaves valid pointers, even on a damaged list.             *)
LEMMA AppendType ==
    ASSUME NEW m \in Memory, NEW q \in Queue, NEW p \in Proc
    PROVE  queue_append(m, q, p) \in Memory
BY DEF queue_append, Memory, Pointer

(* What queue_dequeue writes, field by field.                              *)
LEMMA DequeueFields ==
    ASSUME NEW m \in Memory, NEW q \in Queue, NEW p \in Members(m, q)
    PROVE  LET n == queue_dequeue(m, q, p)
               previous == Previous(m, q, p)
           IN  /\ n \in Memory
               /\ n.first = IF previous = NULL THEN [m.first EXCEPT ![q] = m.next[p]] ELSE m.first
               /\ n.last = [m.last EXCEPT ![q] = IF @ = p THEN previous ELSE @]
               /\ n.next[p] = NULL
               /\ previous # NULL => n.next[previous] = m.next[p]
               /\ \A x \in Proc \ {p, previous} : n.next[x] = m.next[x]
<1> DEFINE previous == Previous(m, q, p)
<1>1. p \in Proc /\ previous \in Pointer /\ previous # p
      /\ (previous # NULL => previous \in Proc)
  BY PreviousSpec, VisitedClosed, NullAssumption DEF Members, Pointer
<1>2. CASE previous = NULL
  <2>1. queue_dequeue(m, q, p) =
          [next |-> [m.next EXCEPT ![p] = NULL],
           first |-> [m.first EXCEPT ![q] = m.next[p]],
           last |-> [m.last EXCEPT ![q] = IF @ = p THEN previous ELSE @]]
    BY <1>1, <1>2 DEF queue_dequeue, Memory
  <2> QED
    BY <1>1, <1>2, <2>1 DEF Memory, Pointer
<1>3. CASE previous # NULL
  <2>1. queue_dequeue(m, q, p) =
          [next |-> [m.next EXCEPT ![previous] = m.next[p], ![p] = NULL],
           first |-> m.first,
           last |-> [m.last EXCEPT ![q] = IF @ = p THEN previous ELSE @]]
    BY <1>1, <1>3 DEF queue_dequeue, Memory
  <2> QED
    BY <1>1, <1>3, <2>1 DEF Memory, Pointer
<1> QED
  BY <1>2, <1>3

(* queue_dequeue leaves valid pointers, even on a damaged list.            *)
LEMMA DequeueType ==
    ASSUME NEW m \in Memory, NEW q \in Queue, NEW p \in Proc
    PROVE  queue_dequeue(m, q, p) \in Memory
<1>1. CASE p \in Members(m, q)
  BY <1>1, DequeueFields
<1>2. CASE p \notin Members(m, q)
  BY <1>2 DEF queue_dequeue
<1> QED
  BY <1>1, <1>2

-----------------------------------------------------------------------------
(* What the operations do to proper queues                                 *)

(* What queue_append writes, field by field.                               *)
LEMMA AppendFields ==
    ASSUME NEW m \in Memory, NEW q \in Queue, NEW p \in Proc,
           m.first[q] # NULL => m.last[q] \in Proc \ {p}
    PROVE  LET n == queue_append(m, q, p)
           IN  /\ n \in Memory
               /\ n.first = IF m.first[q] = NULL THEN [m.first EXCEPT ![q] = p] ELSE m.first
               /\ n.last = [m.last EXCEPT ![q] = p]
               /\ n.next[p] = NULL
               /\ m.first[q] # NULL => n.next[m.last[q]] = p
               /\ \A x \in Proc \ {p} :
                     m.first[q] = NULL \/ x # m.last[q] => n.next[x] = m.next[x]
<1>1. CASE m.first[q] = NULL
  <2>1. queue_append(m, q, p) =
          [next |-> [m.next EXCEPT ![p] = NULL],
           first |-> [m.first EXCEPT ![q] = p],
           last |-> [m.last EXCEPT ![q] = p]]
    BY <1>1 DEF queue_append, Memory
  <2> QED
    BY <1>1, <2>1 DEF Memory, Pointer
<1>2. CASE m.first[q] # NULL
  <2>1. queue_append(m, q, p) =
          [next |-> [m.next EXCEPT ![p] = NULL, ![m.last[q]] = p],
           first |-> m.first,
           last |-> [m.last EXCEPT ![q] = p]]
    BY <1>2 DEF queue_append, Memory
  <2> QED
    BY <1>2, <2>1 DEF Memory, Pointer
<1> QED
  BY <1>1, <1>2

(* A process that is in no queue is put into queue q, at its end, and the  *)
(* other queues stay what they are (process_manager.c:131-144).            *)
THEOREM AppendAdds ==
    ASSUME NEW m \in Memory, Proper(m), NEW q \in Queue, NEW p \in Proc,
           \A r \in Queue : p \notin Members(m, r)
    PROVE  LET n == queue_append(m, q, p)
           IN  /\ n \in Memory
               /\ Proper(n)
               /\ Members(n, q) = Members(m, q) \cup {p}
               /\ \A r \in Queue \ {q} : Members(n, r) = Members(m, r)
               /\ n.last[q] = p
<1> DEFINE n == queue_append(m, q, p)
           last == m.last[q]
<1>1. /\ WellFormed(m, q)
      /\ \A r \in Queue : Members(m, r) \subseteq Proc
      /\ m.first[q] = NULL => Members(m, q) = {}
      /\ m.first[q] # NULL => m.first[q] \in Members(m, q)
      /\ \A x \in Members(m, q) : m.next[x] \in Members(m, q) \cup {NULL}
  BY VisitedClosed DEF Proper, Members, Closed, Visited
<1>2. m.first[q] # NULL => last \in Members(m, q) /\ m.next[last] = NULL
  BY <1>1 DEF WellFormed
<1>3. m.first[q] # NULL => last \in Proc \ {p}
  BY <1>1, <1>2
<1>4. /\ n \in Memory
      /\ n.first = IF m.first[q] = NULL THEN [m.first EXCEPT ![q] = p] ELSE m.first
      /\ n.last = [m.last EXCEPT ![q] = p]
      /\ n.next[p] = NULL
      /\ m.first[q] # NULL => n.next[last] = p
      /\ \A x \in Proc \ {p} : m.first[q] = NULL \/ x # last => n.next[x] = m.next[x]
  BY <1>3, AppendFields
<1>5. /\ n.first[q] = IF m.first[q] = NULL THEN p ELSE m.first[q]
      /\ n.last[q] = p
      /\ \A r \in Queue \ {q} : n.first[r] = m.first[r] /\ n.last[r] = m.last[r]
  BY <1>4 DEF Memory
<1> HIDE DEF n
<1>6. \A r \in Queue \ {q} : Members(n, r) = Members(m, r) /\ WellFormed(n, r)
  <2> SUFFICES ASSUME NEW r \in Queue \ {q}
               PROVE  Members(n, r) = Members(m, r) /\ WellFormed(n, r)
    OBVIOUS
  <2>1. m.first[q] # NULL => last \notin Members(m, r)
    BY <1>2 DEF Proper
  <2>2. \A x \in Members(m, r) : n.next[x] = m.next[x]
    BY <1>1, <1>4, <2>1
  <2>3. Members(n, r) = Members(m, r)
    BY <1>4, <1>5, <2>2, MembersFrame
  <2> QED
    BY <1>5, <2>2, <2>3 DEF Proper, WellFormed
<1>7. Members(n, q) \subseteq Members(m, q) \cup {p}
  <2> DEFINE S == Members(m, q) \cup {p}
  <2>1. S \in SUBSET Proc /\ n.first[q] \in S \cup {NULL}
    BY <1>1, <1>5
  <2>2. Closed(n.next, S, {})
    BY <1>1, <1>4 DEF Closed
  <2> QED
    BY <1>4, <2>1, <2>2, VisitedLeast DEF Members
<1>8. /\ Members(n, q) \subseteq Proc
      /\ n.first[q] \in Members(n, q) \cup {NULL}
      /\ \A x \in Members(n, q) : n.next[x] \in Members(n, q) \cup {NULL}
  BY <1>4, VisitedClosed DEF Members, Closed
<1>9. Members(m, q) \subseteq Members(n, q)
  <2>1. CASE m.first[q] = NULL
    BY <1>1, <2>1
  <2>2. CASE m.first[q] # NULL
    <3> DEFINE S == Members(n, q) \ {p}
    <3>1. S \in SUBSET Proc /\ m.first[q] \in S \cup {NULL}
      BY <1>1, <1>5, <1>8, <2>2
    <3>2. Closed(m.next, S, {})
      <4> SUFFICES ASSUME NEW x \in S PROVE m.next[x] \in S \cup {NULL}
        BY DEF Closed
      <4>1. x \in Members(m, q) /\ m.next[x] # p
        BY <1>1, <1>7, NullAssumption
      <4>2. CASE x = last
        BY <1>2, <2>2, <4>2
      <4>3. CASE x # last
        BY <1>4, <1>8, <3>1, <4>1, <4>3
      <4> QED
        BY <4>2, <4>3
    <3> QED
      BY <3>1, <3>2, VisitedLeast DEF Members
  <2> QED
    BY <2>1, <2>2
<1>10. p \in Members(n, q)
  BY <1>2, <1>4, <1>5, <1>8, <1>9, NullAssumption
<1>11. WellFormed(n, q)
  <2>1. n.last[q] \in Members(n, q) /\ n.next[n.last[q]] = NULL
    BY <1>4, <1>5, <1>10
  <2>2. \A x \in Members(n, q) : n.next[x] = IF x = p THEN NULL
                                            ELSE IF x = last THEN p ELSE m.next[x]
    BY <1>1, <1>4, <1>7, <1>8
  <2>3. \A x \in Members(n, q) : n.next[x] # n.first[q]
    BY <1>1, <1>5, <1>7, <2>2, NullAssumption DEF WellFormed
  <2>4. \A x, y \in Members(n, q) : n.next[x] = n.next[y] /\ n.next[x] # NULL => x = y
    BY <1>1, <1>7, <2>2 DEF WellFormed
  <2> QED
    BY <2>1, <2>3, <2>4 DEF WellFormed
<1>12. Members(n, q) = Members(m, q) \cup {p}
  BY <1>7, <1>9, <1>10
<1>13. Proper(n)
  BY <1>6, <1>11, <1>12 DEF Proper
<1> QED
  BY <1>4, <1>5, <1>6, <1>12, <1>13 DEF n

(* A process of queue q is taken out of it, wherever it stands, and the    *)
(* other queues stay what they are (process_manager.c:190-214).            *)
THEOREM DequeueRemoves ==
    ASSUME NEW m \in Memory, Proper(m), NEW q \in Queue, NEW p \in Members(m, q)
    PROVE  LET n == queue_dequeue(m, q, p)
           IN  /\ n \in Memory
               /\ Proper(n)
               /\ Members(n, q) = Members(m, q) \ {p}
               /\ \A r \in Queue \ {q} : Members(n, r) = Members(m, r)
<1> DEFINE n == queue_dequeue(m, q, p)
           previous == Previous(m, q, p)
<1>1. /\ WellFormed(m, q)
      /\ \A r \in Queue : Members(m, r) \subseteq Proc
      /\ m.first[q] \in Members(m, q)
      /\ \A x \in Members(m, q) : m.next[x] \in Members(m, q) \cup {NULL}
      /\ p \in Proc /\ p # NULL
  <2>1. m.first[q] # NULL
    BY DEF Members, Visited
  <2> QED
    BY <2>1, VisitedClosed, NullAssumption DEF Proper, Members, Closed
<1>2. /\ m.last[q] \in Members(m, q)
      /\ m.next[m.last[q]] = NULL
      /\ \A x \in Members(m, q) : m.next[x] # m.first[q]
      /\ \A x, y \in Members(m, q) : m.next[x] = m.next[y] /\ m.next[x] # NULL => x = y
  BY <1>1, NullAssumption DEF WellFormed
<1>3. \/ previous = NULL /\ m.first[q] = p
      \/ /\ m.first[q] # p
         /\ previous \in Members(m, q) \ {p}
         /\ m.next[previous] = p
  BY PreviousSpec
<1>4. /\ n \in Memory
      /\ n.first = IF previous = NULL THEN [m.first EXCEPT ![q] = m.next[p]] ELSE m.first
      /\ n.last = [m.last EXCEPT ![q] = IF @ = p THEN previous ELSE @]
      /\ n.next[p] = NULL
      /\ previous # NULL => n.next[previous] = m.next[p]
      /\ \A x \in Proc \ {p, previous} : n.next[x] = m.next[x]
  BY DequeueFields
<1>5. /\ n.first[q] = IF previous = NULL THEN m.next[p] ELSE m.first[q]
      /\ n.last[q] = IF m.last[q] = p THEN previous ELSE m.last[q]
      /\ \A r \in Queue \ {q} : n.first[r] = m.first[r] /\ n.last[r] = m.last[r]
  BY <1>4 DEF Memory
<1> HIDE DEF n, previous
<1>6. \A r \in Queue \ {q} : Members(n, r) = Members(m, r) /\ WellFormed(n, r)
  <2> SUFFICES ASSUME NEW r \in Queue \ {q}
               PROVE  Members(n, r) = Members(m, r) /\ WellFormed(n, r)
    OBVIOUS
  <2>1. p \notin Members(m, r) /\ previous \notin Members(m, r)
    BY <1>1, <1>3, NullAssumption DEF Proper
  <2>2. \A x \in Members(m, r) : n.next[x] = m.next[x]
    BY <1>1, <1>4, <2>1
  <2>3. Members(n, r) = Members(m, r)
    BY <1>4, <1>5, <2>2, MembersFrame
  <2> QED
    BY <1>5, <2>2, <2>3 DEF Proper, WellFormed
<1>7. m.next[p] # p
  BY <1>1, <1>2, <1>3
<1>8. Members(n, q) \subseteq Members(m, q) \ {p}
  <2> DEFINE S == Members(m, q) \ {p}
  <2>1. S \in SUBSET Proc /\ n.first[q] \in S \cup {NULL}
    BY <1>1, <1>3, <1>5, <1>7, NullAssumption
  <2>2. Closed(n.next, S, {})
    <3> SUFFICES ASSUME NEW x \in S PROVE n.next[x] \in S \cup {NULL}
      BY DEF Closed
    <3>1. CASE x = previous
      BY <1>1, <1>3, <1>4, <1>7, <3>1, NullAssumption
    <3>2. CASE x # previous
      BY <1>1, <1>2, <1>3, <1>4, <3>2, NullAssumption
    <3> QED
      BY <3>1, <3>2
  <2> QED
    BY <1>4, <2>1, <2>2, VisitedLeast DEF Members
<1>9. /\ n.first[q] \in Members(n, q) \cup {NULL}
      /\ \A x \in Members(n, q) : n.next[x] \in Members(n, q) \cup {NULL}
  BY <1>4, VisitedClosed DEF Members, Closed
<1>10. previous # NULL => previous \in Members(n, q)
  <2> SUFFICES ASSUME previous # NULL, previous \notin Members(n, q)
               PROVE  FALSE
    OBVIOUS
  <2>1. m.first[q] \in Members(n, q) \cup {NULL}
    BY <1>5, <1>9
  <2>2. Closed(m.next, Members(n, q), {})
    BY <1>1, <1>4, <1>8, <1>9 DEF Closed
  <2>3. Members(m, q) \subseteq Members(n, q)
    BY <1>1, <1>8, <2>1, <2>2, VisitedLeast DEF Members
  <2> QED
    BY <1>8, <2>3
<1>11. Members(m, q) \subseteq Members(n, q) \cup {p}
  <2> DEFINE S == Members(n, q) \cup {p}
  <2>1. S \in SUBSET Proc /\ m.first[q] \in S \cup {NULL}
    BY <1>1, <1>3, <1>5, <1>8, <1>9, NullAssumption
  <2>2. Closed(m.next, S, {})
    <3> SUFFICES ASSUME NEW x \in S PROVE m.next[x] \in S \cup {NULL}
      BY DEF Closed
    <3>1. CASE x = p
      BY <1>4, <1>5, <1>9, <1>10, <3>1
    <3>2. CASE x = previous
      BY <1>1, <1>3, <1>8, <3>2, NullAssumption
    <3>3. CASE x # p /\ x # previous
      BY <1>1, <1>4, <1>8, <1>9, <3>3
    <3> QED
      BY <3>1, <3>2, <3>3
  <2> QED
    BY <2>1, <2>2, VisitedLeast DEF Members
<1>12. Members(n, q) = Members(m, q) \ {p}
  BY <1>8, <1>11
<1>13. WellFormed(n, q)
  <2> SUFFICES ASSUME n.first[q] # NULL PROVE WellFormed(n, q)
    BY DEF WellFormed
  <2>1. \A x \in Members(n, q) :
           n.next[x] = IF x = previous THEN m.next[p] ELSE m.next[x]
    BY <1>1, <1>3, <1>4, <1>8, NullAssumption
  <2>2. n.last[q] \in Members(n, q) /\ n.next[n.last[q]] = NULL
    <3>1. CASE m.last[q] = p
      BY <1>2, <1>5, <1>10, <2>1, <3>1
    <3>2. CASE m.last[q] # p
      BY <1>1, <1>2, <1>3, <1>5, <1>12, <2>1, <3>2, NullAssumption
    <3> QED
      BY <3>1, <3>2
  <2>3. \A x \in Members(n, q) : n.next[x] # n.first[q]
    BY <1>1, <1>2, <1>3, <1>5, <1>12, <2>1, NullAssumption
  <2>4. \A x, y \in Members(n, q) : n.next[x] = n.next[y] /\ n.next[x] # NULL => x = y
    BY <1>2, <1>3, <1>8, <2>1
  <2> QED
    BY <2>2, <2>3, <2>4 DEF WellFormed
<1>14. Proper(n)
  BY <1>6, <1>12, <1>13 DEF Proper
<1> QED
  BY <1>4, <1>6, <1>12, <1>14 DEF n

(* A proper queue has an end, so every search of it comes to one.          *)
LEMMA ProperEnds ==
    ASSUME NEW m \in Memory, NEW q \in Queue, WellFormed(m, q)
    PROVE  ~ Endless(m, q)
BY DEF WellFormed, Endless

(* A process is moved from wait_queue to run_queue.                        *)
LEMMA WakeMoves ==
    ASSUME NEW m \in Memory, Proper(m), NEW w \in Members(m, "wait")
    PROVE  LET n == queue_append(queue_dequeue(m, "wait", w), "run", w)
           IN  /\ n \in Memory
               /\ Proper(n)
               /\ Members(n, "run") = Members(m, "run") \cup {w}
               /\ Members(n, "wait") = Members(m, "wait") \ {w}
               /\ Members(n, "zombie") = Members(m, "zombie")
<1> DEFINE d == queue_dequeue(m, "wait", w)
<1>1. w \in Proc
  BY VisitedClosed DEF Members, Queue
<1>2. /\ d \in Memory
      /\ Proper(d)
      /\ Members(d, "wait") = Members(m, "wait") \ {w}
      /\ \A r \in Queue \ {"wait"} : Members(d, r) = Members(m, r)
  BY DequeueRemoves DEF Queue
<1> HIDE DEF d
<1>3. \A r \in Queue : w \notin Members(d, r)
  BY <1>2 DEF Proper, Queue
<1>4. LET n == queue_append(d, "run", w)
      IN  /\ n \in Memory
          /\ Proper(n)
          /\ Members(n, "run") = Members(d, "run") \cup {w}
          /\ \A r \in Queue \ {"run"} : Members(n, r) = Members(d, r)
  BY <1>1, <1>2, <1>3, AppendAdds DEF Queue
<1> QED
  BY <1>2, <1>4 DEF d, Queue

-----------------------------------------------------------------------------
(* A non-empty set of pids or signal numbers has a least element (the      *)
(* loops of select_next_process and mbs_signal_new look for it).  The sets *)
(* of smaller elements form a family of finite sets, and a minimal one of  *)
(* these is empty.                                                         *)
LEMMA LeastElement ==
    ASSUME NEW n \in Nat, NEW T \in SUBSET (0..(n - 1)), T # {}
    PROVE  \E x \in T : \A y \in T : x <= y
<1> DEFINE below(x) == {y \in T : y < x}
           family == {below(x) : x \in T}
<1>1. T \subseteq Int /\ IsFiniteSet(T)
  <2>1. IsFiniteSet(0..(n - 1))
    BY FS_Interval
  <2>2. IsFiniteSet(T)
    BY <2>1, FS_Subset
  <2> QED
    BY <2>2
<1>2. family \subseteq FiniteSubsetsOf(T)
  <2>1. \A x \in T : below(x) \subseteq T /\ IsFiniteSet(below(x))
    BY <1>1, FS_Subset
  <2> QED
    BY <2>1 DEF FiniteSubsetsOf
<1>3. PICK d \in family : \A e \in family : <<e, d>> \notin StrictSubsetOrdering(T)
  <2>1. family # {}
    OBVIOUS
  <2> HIDE DEF family
  <2> QED
    BY <1>2, <2>1, FS_StrictSubsetOrderingWellFounded, WFMin
<1>4. PICK x \in T : d = below(x)
  BY <1>3
<1>5. \A y \in T : ~ (y < x)
  <2> SUFFICES ASSUME NEW y \in T, y < x PROVE FALSE
    OBVIOUS
  <2>1. y \in below(x) /\ y \notin below(y)
    BY <1>1
  <2>2. below(y) \subseteq below(x)
    <3>1. ASSUME NEW z \in T, z < y PROVE z < x
      BY <1>1, <3>1
    <3> QED
      BY <3>1
  <2>3. <<below(y), below(x)>> \in StrictSubsetOrdering(T)
    BY <2>1, <2>2 DEF StrictSubsetOrdering
  <2> QED
    BY <1>3, <1>4, <2>3
<1> QED
  BY <1>1, <1>5

-----------------------------------------------------------------------------
(* Lists as sequences                                                      *)

(* The list of q is s; its last process has no successor or, after that    *)
(* process was appended a second time, is its own.                         *)
Chain(m, q, s) ==
    /\ s \in Seq(Proc)
    /\ \A i, j \in 1..Len(s) : s[i] = s[j] => i = j
    /\ m.first[q] = IF Len(s) = 0 THEN NULL ELSE s[1]
    /\ \A i \in 1..(Len(s) - 1) : m.next[s[i]] = s[i + 1]
    /\ Len(s) # 0 => m.last[q] = s[Len(s)] /\ m.next[s[Len(s)]] \in {NULL, s[Len(s)]}

(* The last process has no successor.                                      *)
HasEnd(m, s) == Len(s) # 0 => m.next[s[Len(s)]] = NULL

(* The processes of the list are the elements of the sequence.             *)
LEMMA ChainMembers ==
    ASSUME NEW m \in Memory, NEW q \in Queue, NEW s, Chain(m, q, s)
    PROVE  /\ s \in Seq(Proc) /\ Len(s) \in Nat
           /\ \A i \in 1..Len(s) : s[i] \in Proc /\ s[i] # NULL /\ s[i] \in Members(m, q)
           /\ \A x \in Members(m, q) : x \in Proc /\ \E i \in 1..Len(s) : s[i] = x
           /\ m.first[q] = NULL <=> Len(s) = 0
<1> DEFINE S == {s[i] : i \in 1..Len(s)}
<1>1. s \in Seq(Proc) /\ Len(s) \in Nat
  BY DEF Chain
<1>2. \A i \in 1..Len(s) : s[i] \in Proc /\ s[i] # NULL
  BY <1>1, NullAssumption
<1>3. m.first[q] = NULL <=> Len(s) = 0
  BY <1>1, <1>2 DEF Chain
<1>4. Members(m, q) \subseteq S
  <2>1. S \in SUBSET Proc /\ m.first[q] \in S \cup {NULL}
    BY <1>1, <1>2 DEF Chain
  <2>2. ASSUME NEW i \in 1..Len(s) PROVE m.next[s[i]] \in S \cup {NULL}
    <3>1. CASE i = Len(s)
      BY <1>1, <3>1 DEF Chain
    <3>2. CASE i # Len(s)
      <4>1. i \in 1..(Len(s) - 1) /\ i + 1 \in 1..Len(s)
        BY <1>1, <3>2
      <4> QED
        BY <4>1 DEF Chain
    <3> QED
      BY <3>1, <3>2
  <2>3. Closed(m.next, S, {})
    BY <2>2 DEF Closed
  <2> QED
    BY <2>1, <2>3, VisitedLeast DEF Members
<1>5. \A i \in 1..Len(s) : s[i] \in Members(m, q)
  <2> DEFINE T == {i \in 1..Len(s) : s[i] \notin Members(m, q)}
  <2> SUFFICES ASSUME T # {} PROVE FALSE
    OBVIOUS
  <2>1. PICK i \in T : \A j \in T : i <= j
    <3>1. Len(s) + 1 \in Nat /\ T \in SUBSET (0..((Len(s) + 1) - 1))
      BY <1>1
    <3> HIDE DEF T
    <3> QED
      BY <3>1, LeastElement
  <2>2. /\ m.first[q] \in Members(m, q) \cup {NULL}
        /\ \A x \in Members(m, q) : m.next[x] \in Members(m, q) \cup {NULL}
    BY VisitedClosed DEF Members, Closed
  <2>3. CASE i = 1
    BY <1>1, <1>2, <2>1, <2>2, <2>3 DEF Chain
  <2>4. CASE i # 1
    <3>1. i - 1 \in 1..(Len(s) - 1) /\ (i - 1) + 1 = i /\ i - 1 \notin T /\ i - 1 \in 1..Len(s)
      BY <1>1, <2>1, <2>4
    <3>2. m.next[s[i - 1]] = s[i] /\ s[i - 1] \in Members(m, q)
      BY <3>1 DEF Chain
    <3> QED
      BY <1>2, <2>1, <2>2, <3>2
  <2> QED
    BY <2>3, <2>4
<1> QED
  BY <1>1, <1>2, <1>3, <1>4, <1>5

(* A list of which an operation writes nothing stays the same.             *)
LEMMA ChainFrame ==
    ASSUME NEW m \in Memory, NEW n, NEW q \in Queue, NEW s, Chain(m, q, s),
           n.first[q] = m.first[q], n.last[q] = m.last[q],
           \A x \in Members(m, q) : n.next[x] = m.next[x]
    PROVE  Chain(n, q, s) /\ (HasEnd(m, s) => HasEnd(n, s))
<1>1. /\ Len(s) \in Nat
      /\ \A i \in 1..Len(s) : s[i] \in Members(m, q)
  BY ChainMembers
<1>2. \A i \in 1..Len(s) : n.next[s[i]] = m.next[s[i]]
  BY <1>1
<1>3. /\ \A i \in 1..(Len(s) - 1) : i \in 1..Len(s)
      /\ Len(s) # 0 => Len(s) \in 1..Len(s)
  BY <1>1
<1> QED
  BY <1>2, <1>3 DEF Chain, HasEnd

(* A list that has an end is well formed and searched in finite time; one  *)
(* that has none is not.                                                   *)
LEMMA ChainEndless ==
    ASSUME NEW m \in Memory, NEW q \in Queue, NEW s, Chain(m, q, s), ~ Endless(m, q)
    PROVE  HasEnd(m, s)
<1> SUFFICES ASSUME Len(s) # 0, m.next[s[Len(s)]] # NULL PROVE Endless(m, q)
  BY DEF HasEnd
<1>1. /\ s \in Seq(Proc) /\ Len(s) \in Nat
      /\ \A i \in 1..Len(s) : s[i] \in Proc /\ s[i] # NULL /\ s[i] \in Members(m, q)
      /\ \A x \in Members(m, q) : x \in Proc /\ \E i \in 1..Len(s) : s[i] = x
      /\ m.first[q] = NULL <=> Len(s) = 0
  BY ChainMembers
<1>2. ASSUME NEW x \in Members(m, q) PROVE m.next[x] # NULL
  <2>1. PICK i \in 1..Len(s) : s[i] = x
    BY <1>1
  <2>2. i # Len(s) => i \in 1..(Len(s) - 1) /\ i + 1 \in 1..Len(s)
    BY <1>1
  <2> QED
    BY <1>1, <2>1, <2>2 DEF Chain
<1> QED
  BY <1>1, <1>2 DEF Endless

(* queue_append puts a process that is not in the list at its end.         *)
LEMMA ChainAppend ==
    ASSUME NEW m \in Memory, NEW q \in Queue, NEW p \in Proc, NEW s, Chain(m, q, s),
           p \notin Members(m, q)
    PROVE  LET n == queue_append(m, q, p)
           IN  Chain(n, q, Append(s, p)) /\ HasEnd(n, Append(s, p))
<1> DEFINE n == queue_append(m, q, p)
           t == Append(s, p)
<1>1. /\ s \in Seq(Proc) /\ Len(s) \in Nat
      /\ \A i \in 1..Len(s) : s[i] \in Proc /\ s[i] # NULL /\ s[i] \in Members(m, q)
      /\ \A x \in Members(m, q) : x \in Proc /\ \E i \in 1..Len(s) : s[i] = x
      /\ m.first[q] = NULL <=> Len(s) = 0
  BY ChainMembers
<1>2. m.first[q] # NULL => Len(s) \in 1..Len(s) /\ m.last[q] = s[Len(s)] /\ m.last[q] \in Proc \ {p}
  BY <1>1 DEF Chain
<1>3. /\ n \in Memory
      /\ n.first = IF m.first[q] = NULL THEN [m.first EXCEPT ![q] = p] ELSE m.first
      /\ n.last = [m.last EXCEPT ![q] = p]
      /\ n.next[p] = NULL
      /\ m.first[q] # NULL => n.next[m.last[q]] = p
      /\ \A x \in Proc \ {p} : m.first[q] = NULL \/ x # m.last[q] => n.next[x] = m.next[x]
  <2>1. m.first[q] # NULL => m.last[q] \in Proc \ {p}
    BY <1>2
  <2> QED
    BY <2>1, AppendFields
<1>4. m.first \in [Queue -> Pointer] /\ m.last \in [Queue -> Pointer]
  BY DEF Memory
<1> HIDE DEF n
<1>5. /\ t \in Seq(Proc) /\ Len(t) = Len(s) + 1 /\ t[Len(t)] = p
      /\ \A i \in 1..Len(s) : t[i] = s[i]
  BY <1>1
<1> HIDE DEF t
<1>6. ASSUME NEW i \in 1..Len(t), NEW j \in 1..Len(t), t[i] = t[j] PROVE i = j
  <2>1. \A k, l \in 1..Len(s) : s[k] = s[l] => k = l
    BY DEF Chain
  <2> QED
    BY <1>1, <1>5, <1>6, <2>1
<1>7. n.first[q] = IF Len(t) = 0 THEN NULL ELSE t[1]
  <2>1. CASE Len(s) = 0
    BY <1>1, <1>3, <1>4, <1>5, <2>1
  <2>2. CASE Len(s) # 0
    <3>1. 1 \in 1..Len(s) /\ Len(t) # 0
      BY <1>1, <1>5, <2>2
    <3> QED
      BY <1>1, <1>3, <1>5, <2>2, <3>1 DEF Chain
  <2> QED
    BY <2>1, <2>2
<1>8. ASSUME NEW i \in 1..(Len(t) - 1) PROVE n.next[t[i]] = t[i + 1]
  <2>1. i \in 1..Len(s) /\ m.first[q] # NULL
    BY <1>1, <1>5
  <2>2. CASE i = Len(s)
    BY <1>2, <1>3, <1>5, <2>1, <2>2
  <2>3. CASE i # Len(s)
    <3>1. i \in 1..(Len(s) - 1) /\ i + 1 \in 1..Len(s)
      BY <1>1, <2>1, <2>3
    <3>2. s[i] # s[Len(s)] /\ m.next[s[i]] = s[i + 1]
      BY <1>2, <2>1, <2>3, <3>1 DEF Chain
    <3>3. s[i] \in Proc \ {p} /\ s[i] # m.last[q]
      BY <1>1, <1>2, <2>1, <3>2
    <3> QED
      BY <1>3, <1>5, <2>1, <3>1, <3>2, <3>3
  <2> QED
    BY <2>2, <2>3
<1>9. n.last[q] = t[Len(t)] /\ n.next[t[Len(t)]] = NULL
  BY <1>3, <1>4, <1>5
<1> QED
  BY <1>5, <1>6, <1>7, <1>8, <1>9 DEF Chain, HasEnd, n, t

(* Appending a process that is in the list already: the list now ends      *)
(* there, and what followed is lost, or the process is its own successor.  *)
LEMMA ChainAppendAgain ==
    ASSUME NEW m \in Memory, NEW q \in Queue, NEW s, Chain(m, q, s), NEW p \in Members(m, q)
    PROVE  LET n == queue_append(m, q, p)
           IN  \E t : Chain(n, q, t) /\ \A i \in 1..Len(t) : t[i] \in Members(m, q)
<1> DEFINE n == queue_append(m, q, p)
           last == m.last[q]
<1>1. /\ s \in Seq(Proc) /\ Len(s) \in Nat
      /\ \A i \in 1..Len(s) : s[i] \in Proc /\ s[i] # NULL /\ s[i] \in Members(m, q)
      /\ \A x \in Members(m, q) : x \in Proc /\ \E i \in 1..Len(s) : s[i] = x
      /\ m.first[q] = NULL <=> Len(s) = 0
  BY ChainMembers
<1>2. PICK k \in 1..Len(s) : p = s[k]
  BY <1>1
<1>3. /\ Len(s) # 0 /\ Len(s) \in 1..Len(s) /\ m.first[q] # NULL /\ m.first[q] = s[1]
      /\ last = s[Len(s)] /\ last \in Proc /\ p \in Proc
  BY <1>1, <1>2 DEF Chain
<1>4. n = [next |-> [m.next EXCEPT ![p] = NULL, ![last] = p],
           first |-> m.first,
           last |-> [m.last EXCEPT ![q] = p]]
  BY <1>3 DEF queue_append, Memory
<1>5. /\ n.first = m.first /\ n.last[q] = p
      /\ n.next[last] = p
      /\ p # last => n.next[p] = NULL
      /\ \A x \in Proc \ {p, last} : n.next[x] = m.next[x]
  BY <1>3, <1>4 DEF Memory
<1> HIDE DEF n, last
<1>6. \A i \in 1..(Len(s) - 1) : i \in 1..Len(s) /\ i # Len(s) /\ i + 1 \in 1..Len(s)
  BY <1>1
<1>7. \A i, j \in 1..Len(s) : s[i] = s[j] => i = j
  BY DEF Chain
<1>8. ASSUME k = Len(s)
      PROVE  \E t : Chain(n, q, t) /\ \A i \in 1..Len(t) : t[i] \in Members(m, q)
  <2>1. p = last
    BY <1>2, <1>3, <1>8
  <2>2. \A i \in 1..(Len(s) - 1) : s[i] \in Proc \ {p, last}
    BY <1>1, <1>3, <1>6, <1>7, <2>1
  <2>3. \A i \in 1..(Len(s) - 1) : n.next[s[i]] = s[i + 1]
    BY <1>5, <2>2 DEF Chain
  <2>4. Chain(n, q, s)
    BY <1>3, <1>5, <2>1, <2>3 DEF Chain
  <2> QED
    BY <1>1, <2>4
<1>9. ASSUME k # Len(s)
      PROVE  \E u : Chain(n, q, u) /\ \A i \in 1..Len(u) : u[i] \in Members(m, q)
  <2> DEFINE t == SubSeq(s, 1, k)
  <2>1. /\ t \in Seq(Proc) /\ Len(t) = k /\ k \in Nat /\ k # 0
        /\ \A i \in 1..k : t[i] = s[i] /\ i \in 1..Len(s) /\ i # Len(s)
    BY <1>1, <1>9
  <2> HIDE DEF t
  <2>2. \A i \in 1..(k - 1) : i \in 1..k /\ i + 1 \in 1..k /\ i # k /\ i \in 1..(Len(s) - 1)
    BY <1>1, <2>1
  <2>3. \A i \in 1..(k - 1) : s[i] \in Proc \ {p, last}
    BY <1>1, <1>2, <1>3, <1>7, <2>1, <2>2
  <2>4. ASSUME NEW i \in 1..(k - 1) PROVE n.next[t[i]] = t[i + 1]
    <3>1. m.next[s[i]] = s[i + 1] /\ t[i] = s[i] /\ t[i + 1] = s[i + 1]
      BY <2>1, <2>2 DEF Chain
    <3>2. n.next[s[i]] = m.next[s[i]]
      BY <1>5, <2>3
    <3> QED
      BY <3>1, <3>2
  <2>5. p # last
    BY <1>2, <1>3, <1>7, <1>9
  <2>6. 1 \in 1..k /\ k \in 1..k
    BY <2>1
  <2>7. n.first[q] = t[1] /\ t[k] = p /\ n.next[t[k]] = NULL
    BY <1>2, <1>3, <1>5, <2>1, <2>5, <2>6
  <2>8. \A i, j \in 1..k : t[i] = t[j] => i = j
    BY <1>7, <2>1
  <2>9. Chain(n, q, t)
    BY <1>5, <2>1, <2>4, <2>7, <2>8 DEF Chain
  <2> QED
    BY <1>1, <2>1, <2>9
<1> QED
  BY <1>8, <1>9 DEF n

(* Neither operation changes a list that has none of its processes.        *)
LEMMA ChainAppendOther ==
    ASSUME NEW m \in Memory, NEW q \in Queue, NEW p \in Proc, NEW s, Chain(m, q, s),
           NEW r \in Queue \ {q}, NEW u, Chain(m, r, u),
           p \notin Members(m, r), Members(m, q) \cap Members(m, r) = {}
    PROVE  LET n == queue_append(m, q, p)
           IN  Chain(n, r, u) /\ (HasEnd(m, u) => HasEnd(n, u))
<1> DEFINE n == queue_append(m, q, p)
<1>1. /\ m.first[q] # NULL => m.last[q] \in Members(m, q) /\ m.last[q] \in Proc
      /\ Members(m, r) \subseteq Proc
  <2>1. Len(s) # 0 => Len(s) \in 1..Len(s)
    BY ChainMembers
  <2> QED
    BY <2>1, ChainMembers DEF Chain
<1>2. /\ n.first[r] = m.first[r] /\ n.last[r] = m.last[r]
      /\ \A x \in Proc \ {p} : m.first[q] = NULL \/ x # m.last[q] => n.next[x] = m.next[x]
  BY <1>1 DEF queue_append, Memory
<1> HIDE DEF n
<1>3. \A x \in Members(m, r) : n.next[x] = m.next[x]
  BY <1>1, <1>2
<1> QED
  BY <1>2, <1>3, ChainFrame DEF n

LEMMA ChainDequeueOther ==
    ASSUME NEW m \in Memory, NEW q \in Queue, NEW p \in Members(m, q),
           NEW r \in Queue \ {q}, NEW u, Chain(m, r, u), Members(m, q) \cap Members(m, r) = {}
    PROVE  LET n == queue_dequeue(m, q, p)
           IN  Chain(n, r, u) /\ (HasEnd(m, u) => HasEnd(n, u))
<1> DEFINE n == queue_dequeue(m, q, p)
           previous == Previous(m, q, p)
<1>1. /\ n \in Memory
      /\ n.first = IF previous = NULL THEN [m.first EXCEPT ![q] = m.next[p]] ELSE m.first
      /\ n.last = [m.last EXCEPT ![q] = IF @ = p THEN previous ELSE @]
      /\ n.next[p] = NULL
      /\ previous # NULL => n.next[previous] = m.next[p]
      /\ \A x \in Proc \ {p, previous} : n.next[x] = m.next[x]
  BY DequeueFields
<1>2. previous \in Members(m, q) \cup {NULL}
  BY PreviousSpec
<1>3. m.first \in [Queue -> Pointer] /\ m.last \in [Queue -> Pointer]
  BY DEF Memory
<1> HIDE DEF n, previous
<1>4. Members(m, r) \subseteq Proc
  BY VisitedClosed DEF Members
<1>5. n.first[r] = m.first[r] /\ n.last[r] = m.last[r]
  BY <1>1, <1>3
<1>6. \A x \in Members(m, r) : n.next[x] = m.next[x]
  BY <1>1, <1>2, <1>4, NullAssumption
<1> QED
  BY <1>5, <1>6, ChainFrame DEF n

(* RemoveAt leaves out one element and keeps the order of the others.      *)
LEMMA RemoveAtElements ==
    ASSUME NEW S, NEW s \in Seq(S), NEW k \in 1..Len(s)
    PROVE  /\ RemoveAt(s, k) \in Seq(S)
           /\ Len(RemoveAt(s, k)) = Len(s) - 1
           /\ \A i \in 1..(Len(s) - 1) :
                 RemoveAt(s, k)[i] = IF i < k THEN s[i] ELSE s[i + 1]
<1> DEFINE a == SubSeq(s, 1, k - 1)
           b == SubSeq(s, k + 1, Len(s))
<1>1. Len(s) \in Nat /\ k \in Nat
  OBVIOUS
<1>2. a \in Seq(S) /\ Len(a) = k - 1 /\ \A i \in 1..(k - 1) : a[i] = s[i]
  OBVIOUS
<1>3. b \in Seq(S) /\ Len(b) = Len(s) - k /\ \A i \in 1..(Len(s) - k) : b[i] = s[i + k]
  OBVIOUS
<1>4. RemoveAt(s, k) = a \o b
  BY DEF RemoveAt
<1> HIDE DEF a, b
<1>5. /\ a \o b \in Seq(S)
      /\ Len(a \o b) = Len(s) - 1
      /\ \A i \in 1..(Len(s) - 1) :
            (a \o b)[i] = IF i <= k - 1 THEN a[i] ELSE b[i - (k - 1)]
  <2>1. /\ a \o b \in Seq(S)
        /\ Len(a \o b) = Len(a) + Len(b)
        /\ \A i \in 1..(Len(a) + Len(b)) :
              (a \o b)[i] = IF i <= Len(a) THEN a[i] ELSE b[i - Len(a)]
    BY <1>2, <1>3, ConcatProperties
  <2>2. Len(a) + Len(b) = Len(s) - 1
    BY <1>1, <1>2, <1>3
  <2> QED
    BY <1>2, <2>1, <2>2
<1>6. ASSUME NEW i \in 1..(Len(s) - 1)
      PROVE  (a \o b)[i] = IF i < k THEN s[i] ELSE s[i + 1]
  <2>1. CASE i < k
    <3>1. i <= k - 1 /\ i \in 1..(k - 1)
      BY <1>1, <2>1
    <3> QED
      BY <1>2, <1>5, <2>1, <3>1
  <2>2. CASE i >= k
    <3>0. ~ (i <= k - 1) /\ i - (k - 1) \in 1..(Len(s) - k)
      BY <1>1, <2>2
    <3>1. (a \o b)[i] = b[i - (k - 1)] /\ i - (k - 1) \in 1..(Len(s) - k)
      BY <1>5, <3>0
    <3>2. b[i - (k - 1)] = s[(i - (k - 1)) + k]
      BY <1>3, <3>1
    <3>3. (i - (k - 1)) + k = i + 1
      BY <1>1
    <3> QED
      BY <2>2, <3>1, <3>2, <3>3
  <2>3. i < k \/ i >= k
    BY <1>1
  <2> QED
    BY <2>1, <2>2, <2>3
<1> QED
  BY <1>4, <1>5, <1>6

(* queue_dequeue of the k-th process of a list that has an end.            *)
LEMMA ChainDequeue ==
    ASSUME NEW m \in Memory, NEW q \in Queue, NEW s, Chain(m, q, s), HasEnd(m, s),
           NEW k \in 1..Len(s), NEW p \in Members(m, q), p = s[k]
    PROVE  LET n == queue_dequeue(m, q, p)
           IN  Chain(n, q, RemoveAt(s, k)) /\ HasEnd(n, RemoveAt(s, k))
<1> DEFINE n == queue_dequeue(m, q, p)
           previous == Previous(m, q, p)
           t == RemoveAt(s, k)
<1>1. /\ s \in Seq(Proc) /\ Len(s) \in Nat
      /\ \A i \in 1..Len(s) : s[i] \in Proc /\ s[i] # NULL /\ s[i] \in Members(m, q)
      /\ \A x \in Members(m, q) : x \in Proc /\ \E i \in 1..Len(s) : s[i] = x
  BY ChainMembers
<1>0. Len(s) \in Nat /\ k \in Nat /\ 1 <= k /\ k <= Len(s)
  BY <1>1
<1>2. /\ m.first[q] = s[1]
      /\ m.last[q] = s[Len(s)]
      /\ \A i, j \in 1..Len(s) : s[i] = s[j] => i = j
      /\ \A i \in 1..(Len(s) - 1) : m.next[s[i]] = s[i + 1]
      /\ m.next[s[Len(s)]] = NULL
  <2>1. Len(s) # 0
    BY <1>1
  <2> QED
    BY <2>1 DEF Chain, HasEnd
<1>3. previous = IF k = 1 THEN NULL ELSE s[k - 1]
  <2>1. \/ previous = NULL /\ m.first[q] = p
        \/ /\ m.first[q] # p
           /\ previous \in Members(m, q)
           /\ previous # p
           /\ m.next[previous] = p
    BY PreviousSpec
  <2> HIDE DEF previous
  <2>2. CASE previous = NULL /\ m.first[q] = p
    <3>1. 1 \in 1..Len(s) /\ s[1] = s[k]
      BY <1>1, <1>2, <2>2
    <3>2. k = 1
      BY <1>2, <3>1
    <3> QED
      BY <2>2, <3>2
  <2>3. CASE m.first[q] # p /\ previous \in Members(m, q) /\ m.next[previous] = p
    <3>1. PICK j \in 1..Len(s) : s[j] = previous
      BY <1>1, <2>3
    <3>2. j # Len(s) /\ k # 1
      BY <1>1, <1>2, <2>3, <3>1
    <3>3. j \in 1..(Len(s) - 1) /\ j + 1 \in 1..Len(s)
      BY <1>1, <3>2
    <3>4. k = j + 1
      BY <1>2, <2>3, <3>1, <3>3
    <3>5. k - 1 = j
      BY <3>4
    <3> QED
      BY <3>1, <3>2, <3>5
  <2> QED
    BY <2>1, <2>2, <2>3
<1>4. /\ n \in Memory
      /\ n.first = IF previous = NULL THEN [m.first EXCEPT ![q] = m.next[p]] ELSE m.first
      /\ n.last = [m.last EXCEPT ![q] = IF @ = p THEN previous ELSE @]
      /\ n.next[p] = NULL
      /\ previous # NULL => n.next[previous] = m.next[p]
      /\ \A x \in Proc \ {p, previous} : n.next[x] = m.next[x]
  BY DequeueFields
<1>5. m.first \in [Queue -> Pointer] /\ m.last \in [Queue -> Pointer]
  BY DEF Memory
<1>6. /\ t \in Seq(Proc) /\ Len(t) = Len(s) - 1
      /\ \A i \in 1..(Len(s) - 1) : t[i] = IF i < k THEN s[i] ELSE s[i + 1]
  BY <1>1, RemoveAtElements
<1> HIDE DEF n, previous, t
<1>7. ASSUME NEW i \in 1..Len(t), NEW j \in 1..Len(t), t[i] = t[j] PROVE i = j
  BY <1>1, <1>2, <1>6, <1>7
<1>8. /\ k # 1 => previous = s[k - 1] /\ k - 1 \in 1..Len(s) /\ previous # NULL /\ k - 1 \in 1..(Len(s) - 1)
      /\ k = 1 => previous = NULL
  BY <1>1, <1>3
<1>9. n.first[q] = IF Len(t) = 0 THEN NULL ELSE t[1]
  <2>1. CASE k = 1 /\ Len(s) = 1
    BY <1>2, <1>4, <1>5, <1>6, <1>8, <2>1
  <2>2. CASE k = 1 /\ Len(s) # 1
    <3>0. Len(s) - 1 \in Nat /\ Len(s) - 1 # 0
      BY <1>0, <2>2
    <3>1. 1 \in 1..(Len(s) - 1) /\ ~ (1 < k)
      BY <2>2, <3>0
    <3>2. t[1] = s[1 + 1] /\ m.next[s[1]] = s[1 + 1] /\ Len(t) # 0
      BY <1>2, <1>6, <3>1
    <3> QED
      BY <1>4, <1>5, <1>8, <2>2, <3>2
  <2>3. CASE k # 1
    <3>1. 1 \in 1..(Len(s) - 1) /\ 1 < k
      BY <1>1, <2>3
    <3>2. t[1] = s[1] /\ Len(t) # 0
      BY <1>6, <3>1
    <3> QED
      BY <1>2, <1>4, <1>8, <2>3, <3>2
  <2> QED
    BY <2>1, <2>2, <2>3
<1>10. ASSUME NEW i \in 1..Len(t)
       PROVE  n.next[t[i]] = IF i = Len(t) THEN NULL ELSE t[i + 1]
  <2> DEFINE j == IF i < k THEN i ELSE i + 1
  <2>1. /\ i \in 1..(Len(s) - 1) /\ j \in 1..Len(s) /\ j # k /\ t[i] = s[j]
        /\ i # Len(t) => i + 1 \in 1..(Len(s) - 1)
    BY <1>1, <1>6
  <2>2. CASE i = k - 1
    <3>1. /\ k # 1 /\ j = k - 1 /\ ~ (i + 1 < k)
          /\ i = Len(t) => k = Len(s)
          /\ i # Len(t) => k \in 1..(Len(s) - 1) /\ (i + 1) + 1 = k + 1
      BY <1>1, <1>6, <2>1, <2>2
    <3>2. n.next[t[i]] = m.next[s[k]]
      BY <1>4, <1>8, <2>1, <3>1
    <3>3. CASE i = Len(t)
      BY <1>2, <3>1, <3>2, <3>3
    <3>4. CASE i # Len(t)
      <4>1. t[i + 1] = s[k + 1] /\ m.next[s[k]] = s[k + 1]
        BY <1>2, <1>6, <2>1, <3>1, <3>4
      <4> QED
        BY <3>2, <3>4, <4>1
    <3> QED
      BY <3>3, <3>4
  <2>3. CASE i # k - 1
    <3>1. /\ k # 1 => j # k - 1
          /\ i = Len(t) => j = Len(s)
          /\ i # Len(t) => j \in 1..(Len(s) - 1) /\ j + 1 = IF i + 1 < k THEN i + 1 ELSE (i + 1) + 1
      BY <1>1, <1>6, <2>1, <2>3
    <3>2. s[j] # p /\ s[j] # previous /\ s[j] \in Proc
      BY <1>1, <1>2, <1>8, <2>1, <3>1
    <3>3. n.next[t[i]] = m.next[s[j]]
      BY <1>4, <2>1, <3>2
    <3> HIDE DEF j
    <3>4. CASE i = Len(t)
      BY <1>2, <3>1, <3>3, <3>4
    <3>5. CASE i # Len(t)
      <4>1. m.next[s[j]] = s[j + 1]
        BY <1>2, <3>1, <3>5
      <4>2. t[i + 1] = s[j + 1]
        BY <1>6, <2>1, <3>1, <3>5
      <4> QED
        BY <3>3, <3>5, <4>1, <4>2
    <3> QED
      BY <3>4, <3>5
  <2> QED
    BY <2>2, <2>3
<1>11. Len(t) # 0 => n.last[q] = t[Len(t)]
  <2> SUFFICES ASSUME Len(t) # 0 PROVE n.last[q] = t[Len(t)]
    OBVIOUS
  <2>1. Len(t) \in 1..(Len(s) - 1) /\ Len(t) \in Nat /\ Len(s) \in 1..Len(s)
    BY <1>1, <1>6
  <2>2. CASE k = Len(s)
    <3>1. Len(t) < k /\ Len(t) = k - 1 /\ k # 1
      BY <1>1, <1>6, <2>1, <2>2
    <3> QED
      BY <1>2, <1>4, <1>5, <1>6, <1>8, <2>1, <2>2, <3>1
  <2>3. CASE k # Len(s)
    <3>1. ~ (Len(t) < k) /\ Len(t) + 1 = Len(s)
      BY <1>1, <1>6, <2>1, <2>3
    <3>2. t[Len(t)] = s[Len(s)] /\ s[Len(s)] # p
      BY <1>2, <1>6, <2>1, <2>3, <3>1
    <3> QED
      BY <1>2, <1>4, <1>5, <3>2
  <2> QED
    BY <2>2, <2>3
<1>12. /\ \A i \in 1..(Len(t) - 1) : i \in 1..Len(t) /\ i # Len(t)
       /\ Len(t) # 0 => Len(t) \in 1..Len(t)
  BY <1>1, <1>6
<1> QED
  BY <1>6, <1>7, <1>9, <1>10, <1>11, <1>12 DEF Chain, HasEnd, n, t

(* Each queue is a list, and no process is in two of them.                 *)
AreLists(m) ==
    /\ \A q \in Queue : \E s : Chain(m, q, s)
    /\ \A q, r \in Queue : q # r => Members(m, q) \cap Members(m, r) = {}

(* A list and its processes determine each other.                          *)
LEMMA ChainSameMembers ==
    ASSUME NEW m \in Memory, NEW n \in Memory, NEW q \in Queue, NEW s, Chain(m, q, s), Chain(n, q, s)
    PROVE  Members(n, q) = Members(m, q)
<1>1. /\ \A i \in 1..Len(s) : s[i] \in Members(m, q)
      /\ \A x \in Members(m, q) : \E i \in 1..Len(s) : s[i] = x
  BY ChainMembers
<1>2. /\ \A i \in 1..Len(s) : s[i] \in Members(n, q)
      /\ \A x \in Members(n, q) : \E i \in 1..Len(s) : s[i] = x
  BY ChainMembers
<1> QED
  BY <1>1, <1>2

(* What queue_append and queue_dequeue do to all three lists.              *)
LEMMA AppendLists ==
    ASSUME NEW m \in Memory, AreLists(m), NEW q \in Queue, NEW p \in Proc,
           \A r \in Queue : p \notin Members(m, r)
    PROVE  LET n == queue_append(m, q, p)
           IN  /\ n \in Memory
               /\ AreLists(n)
               /\ Members(n, q) = Members(m, q) \cup {p}
               /\ \A r \in Queue \ {q} : Members(n, r) = Members(m, r)
               /\ \A s : Chain(m, q, s) => Chain(n, q, Append(s, p)) /\ HasEnd(n, Append(s, p))
               /\ \A r \in Queue \ {q} : \A s :
                     Chain(m, r, s) => Chain(n, r, s) /\ (HasEnd(m, s) => HasEnd(n, s))
<1> DEFINE n == queue_append(m, q, p)
<1>1. PICK s : Chain(m, q, s)
  BY DEF AreLists
<1>2. n \in Memory
  BY AppendType
<1>3. \A u : Chain(m, q, u) => Chain(n, q, Append(u, p)) /\ HasEnd(n, Append(u, p))
  BY ChainAppend
<1>4. ASSUME NEW r \in Queue \ {q}, NEW u, Chain(m, r, u)
      PROVE  Chain(n, r, u) /\ (HasEnd(m, u) => HasEnd(n, u))
  <2>1. Members(m, q) \cap Members(m, r) = {}
    BY DEF AreLists
  <2> QED
    BY <1>1, <1>4, <2>1, ChainAppendOther
<1> HIDE DEF n
<1>5. ASSUME NEW r \in Queue \ {q} PROVE Members(n, r) = Members(m, r)
  <2>1. PICK u : Chain(m, r, u)
    BY DEF AreLists
  <2> QED
    BY <1>2, <1>4, <2>1, ChainSameMembers
<1>6. Members(n, q) = Members(m, q) \cup {p}
  <2> DEFINE t == Append(s, p)
  <2>1. Chain(n, q, t)
    BY <1>1, <1>3
  <2>2. /\ s \in Seq(Proc) /\ Len(s) \in Nat
        /\ \A i \in 1..Len(s) : s[i] \in Members(m, q)
        /\ \A x \in Members(m, q) : \E i \in 1..Len(s) : s[i] = x
    BY <1>1, ChainMembers
  <2>3. Len(t) = Len(s) + 1 /\ t[Len(t)] = p /\ \A i \in 1..Len(s) : t[i] = s[i]
    BY <2>2
  <2> HIDE DEF t
  <2>4. /\ \A i \in 1..Len(t) : t[i] \in Members(n, q)
        /\ \A x \in Members(n, q) : \E i \in 1..Len(t) : t[i] = x
    BY <1>2, <2>1, ChainMembers
  <2>5. \A i \in 1..Len(t) : i \in 1..Len(s) \/ i = Len(t)
    BY <2>2, <2>3
  <2>6. \A i \in 1..Len(s) : i \in 1..Len(t)
    BY <2>2, <2>3
  <2>7. Len(t) \in 1..Len(t)
    BY <2>2, <2>3
  <2>8. Members(n, q) \subseteq Members(m, q) \cup {p}
    BY <2>2, <2>3, <2>4, <2>5
  <2>9. Members(m, q) \cup {p} \subseteq Members(n, q)
    BY <2>2, <2>3, <2>4, <2>6, <2>7
  <2> QED
    BY <2>8, <2>9
<1>7. AreLists(n)
  <2>1. ASSUME NEW r \in Queue PROVE \E u : Chain(n, r, u)
    BY <1>1, <1>3, <1>4 DEF AreLists
  <2>2. ASSUME NEW r \in Queue, NEW o \in Queue, r # o
        PROVE  Members(n, r) \cap Members(n, o) = {}
    BY <1>5, <1>6, <2>2 DEF AreLists
  <2> QED
    BY <2>1, <2>2 DEF AreLists
<1> QED
  BY <1>2, <1>3, <1>4, <1>5, <1>6, <1>7 DEF n

LEMMA AppendAgainLists ==
    ASSUME NEW m \in Memory, AreLists(m), NEW q \in Queue, NEW p \in Members(m, q)
    PROVE  LET n == queue_append(m, q, p)
           IN  /\ n \in Memory
               /\ AreLists(n)
               /\ Members(n, q) \subseteq Members(m, q)
               /\ \A r \in Queue \ {q} : Members(n, r) = Members(m, r)
               /\ \A r \in Queue \ {q} : \A s :
                     Chain(m, r, s) => Chain(n, r, s) /\ (HasEnd(m, s) => HasEnd(n, s))
<1> DEFINE n == queue_append(m, q, p)
<1>1. PICK s : Chain(m, q, s)
  BY DEF AreLists
<1>2. p \in Proc /\ n \in Memory
  BY <1>1, ChainMembers, AppendType
<1>3. PICK t : Chain(n, q, t) /\ \A i \in 1..Len(t) : t[i] \in Members(m, q)
  BY <1>1, ChainAppendAgain
<1>4. ASSUME NEW r \in Queue \ {q}, NEW u, Chain(m, r, u)
      PROVE  Chain(n, r, u) /\ (HasEnd(m, u) => HasEnd(n, u))
  <2>1. Members(m, q) \cap Members(m, r) = {} /\ p \notin Members(m, r)
    BY DEF AreLists
  <2> QED
    BY <1>1, <1>2, <1>4, <2>1, ChainAppendOther
<1> HIDE DEF n
<1>5. ASSUME NEW r \in Queue \ {q} PROVE Members(n, r) = Members(m, r)
  <2>1. PICK u : Chain(m, r, u)
    BY DEF AreLists
  <2> QED
    BY <1>2, <1>4, <2>1, ChainSameMembers
<1>6. Members(n, q) \subseteq Members(m, q)
  <2>1. \A x \in Members(n, q) : \E i \in 1..Len(t) : t[i] = x
    BY <1>2, <1>3, ChainMembers
  <2> QED
    BY <1>3, <2>1
<1>7. AreLists(n)
  <2>1. ASSUME NEW r \in Queue PROVE \E u : Chain(n, r, u)
    BY <1>3, <1>4 DEF AreLists
  <2>2. ASSUME NEW r \in Queue, NEW o \in Queue, r # o
        PROVE  Members(n, r) \cap Members(n, o) = {}
    BY <1>5, <1>6, <2>2 DEF AreLists
  <2> QED
    BY <2>1, <2>2 DEF AreLists
<1> QED
  BY <1>2, <1>4, <1>5, <1>6, <1>7 DEF n

LEMMA DequeueLists ==
    ASSUME NEW m \in Memory, AreLists(m), NEW q \in Queue, NEW p \in Members(m, q),
           NEW s, Chain(m, q, s), HasEnd(m, s)
    PROVE  LET n == queue_dequeue(m, q, p)
           IN  /\ n \in Memory
               /\ AreLists(n)
               /\ Members(n, q) = Members(m, q) \ {p}
               /\ \A r \in Queue \ {q} : Members(n, r) = Members(m, r)
               /\ \A k \in 1..Len(s) :
                     p = s[k] => Chain(n, q, RemoveAt(s, k)) /\ HasEnd(n, RemoveAt(s, k))
               /\ \A r \in Queue \ {q} : \A u :
                     Chain(m, r, u) => Chain(n, r, u) /\ (HasEnd(m, u) => HasEnd(n, u))
<1> DEFINE n == queue_dequeue(m, q, p)
<1>1. /\ s \in Seq(Proc) /\ Len(s) \in Nat
      /\ \A i \in 1..Len(s) : s[i] \in Members(m, q)
      /\ \A x \in Members(m, q) : \E i \in 1..Len(s) : s[i] = x
  BY ChainMembers
<1>2. n \in Memory
  BY DequeueFields
<1>3. ASSUME NEW k \in 1..Len(s), p = s[k]
      PROVE  Chain(n, q, RemoveAt(s, k)) /\ HasEnd(n, RemoveAt(s, k))
  BY <1>3, ChainDequeue
<1>4. ASSUME NEW r \in Queue \ {q}, NEW u, Chain(m, r, u)
      PROVE  Chain(n, r, u) /\ (HasEnd(m, u) => HasEnd(n, u))
  <2>1. Members(m, q) \cap Members(m, r) = {}
    BY DEF AreLists
  <2> QED
    BY <1>4, <2>1, ChainDequeueOther
<1> HIDE DEF n
<1>5. ASSUME NEW r \in Queue \ {q} PROVE Members(n, r) = Members(m, r)
  <2>1. PICK u : Chain(m, r, u)
    BY DEF AreLists
  <2> QED
    BY <1>2, <1>4, <2>1, ChainSameMembers
<1>6. PICK k \in 1..Len(s) : p = s[k]
  BY <1>1
<1>7. Members(n, q) = Members(m, q) \ {p}
  <2> DEFINE t == RemoveAt(s, k)
  <2>1. Chain(n, q, t)
    BY <1>3, <1>6
  <2>2. /\ t \in Seq(Proc) /\ Len(t) = Len(s) - 1
        /\ \A i \in 1..(Len(s) - 1) : t[i] = IF i < k THEN s[i] ELSE s[i + 1]
    BY <1>1, RemoveAtElements
  <2> HIDE DEF t
  <2>3. /\ \A i \in 1..Len(t) : t[i] \in Members(n, q)
        /\ \A x \in Members(n, q) : \E i \in 1..Len(t) : t[i] = x
    BY <1>2, <2>1, ChainMembers
  <2>4. \A i, j \in 1..Len(s) : s[i] = s[j] => i = j
    BY DEF Chain
  <2>5. ASSUME NEW x \in Members(n, q) PROVE x \in Members(m, q) \ {p}
    <3>1. PICK i \in 1..Len(t) : t[i] = x
      BY <2>3
    <3> DEFINE j == IF i < k THEN i ELSE i + 1
    <3>2. j \in 1..Len(s) /\ j # k /\ x = s[j]
      BY <1>1, <2>2, <3>1
    <3> HIDE DEF j
    <3> QED
      BY <1>1, <1>6, <2>4, <3>2
  <2>6. ASSUME NEW x \in Members(m, q) \ {p} PROVE x \in Members(n, q)
    <3>1. PICK j \in 1..Len(s) : s[j] = x
      BY <1>1
    <3> DEFINE i == IF j < k THEN j ELSE j - 1
    <3>2. j # k
      BY <1>6, <3>1
    <3>3. i \in 1..(Len(s) - 1) /\ (IF i < k THEN i ELSE i + 1) = j
      BY <1>1, <3>2
    <3> HIDE DEF i
    <3>4. t[i] = x /\ i \in 1..Len(t)
      BY <2>2, <3>1, <3>3
    <3> QED
      BY <2>3, <3>4
  <2> QED
    BY <2>5, <2>6
<1>8. AreLists(n)
  <2>1. ASSUME NEW r \in Queue PROVE \E u : Chain(n, r, u)
    BY <1>3, <1>4, <1>6 DEF AreLists
  <2>2. ASSUME NEW r \in Queue, NEW o \in Queue, r # o
        PROVE  Members(n, r) \cap Members(n, o) = {}
    BY <1>5, <1>7, <2>2 DEF AreLists
  <2> QED
    BY <2>1, <2>2 DEF AreLists
<1> QED
  BY <1>2, <1>3, <1>4, <1>5, <1>7, <1>8 DEF n
=============================================================================
