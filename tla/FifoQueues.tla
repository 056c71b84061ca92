----------------------------- MODULE FifoQueues -----------------------------
(***************************************************************************)
(* What the comments of process_manager.h:74-92 promise of the process     *)
(* queues, without pointers: each queue is a sequence; a process is added  *)
(* at the end; a search takes out the first process that matches.          *)
(***************************************************************************)
EXTENDS Naturals, SequencesExt

CONSTANTS Proc, Queue

VARIABLES
    content,       \* [Queue -> Seq(Proc)]
    taken          \* what the last call has taken out: none or one process

Occurs(p, s) == \E i \in DOMAIN s : s[i] = p

Init == content = [q \in Queue |-> <<>>] /\ taken = {}

(* A process is appended only when it is in no queue.                      *)
Append_(q, p) ==
    /\ \A r \in Queue : ~ Occurs(p, content[r])
    /\ content' = [content EXCEPT ![q] = Append(@, p)]
    /\ taken' = {}

(* The i-th process of s is the first one in T.                            *)
First(s, T, i) == s[i] \in T /\ \A k \in 1..(i - 1) : s[k] \notin T

(* A search for the processes in T; the head is the first of them all.     *)
Take(q, T) ==
    \/ /\ \A i \in DOMAIN content[q] : content[q][i] \notin T
       /\ taken' = {}
       /\ UNCHANGED content
    \/ \E i \in DOMAIN content[q] :
          /\ First(content[q], T, i)
          /\ taken' = {content[q][i]}
          /\ content' = [content EXCEPT ![q] = RemoveAt(@, i)]

Next == \E q \in Queue :
    \/ \E p \in Proc : Append_(q, p)
    \/ \E T \in SUBSET Proc : Take(q, T)

vars == <<content, taken>>

Spec == Init /\ [][Next]_vars
=============================================================================
