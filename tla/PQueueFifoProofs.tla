-------------------------- MODULE PQueueFifoProofs --------------------------
(***************************************************************************)
(* The linked lists of PQueue implement the sequences of FifoQueues, for   *)
(* every set of processes and any sequence of queue calls.                 *)
(***************************************************************************)
EXTENDS PQueueFifo, PQueueProofs

(* The list of q is s and has an end.                                      *)
IsList(m, q, s) == Chain(m, q, s) /\ HasEnd(m, s)

LEMMA ListFacts ==
    ASSUME NEW m \in Memory, NEW q \in Queue, NEW s, IsList(m, q, s)
    PROVE  /\ s \in Seq(Proc) /\ Len(s) \in Nat
           /\ \A i \in 1..Len(s) : s[i] \in Proc /\ s[i] # NULL /\ s[i] \in Members(m, q)
           /\ \A x \in Members(m, q) : \E i \in 1..Len(s) : s[i] = x
           /\ \A i, j \in 1..Len(s) : s[i] = s[j] => i = j
           /\ m.first[q] = NULL <=> Len(s) = 0
           /\ Len(s) # 0 => m.first[q] = s[1] /\ m.last[q] = s[Len(s)]
           /\ \A i \in 1..Len(s) : m.next[s[i]] = IF i = Len(s) THEN NULL ELSE s[i + 1]
<1>1. /\ s \in Seq(Proc) /\ Len(s) \in Nat
      /\ \A i \in 1..Len(s) : s[i] \in Proc /\ s[i] # NULL /\ s[i] \in Members(m, q)
      /\ \A x \in Members(m, q) : x \in Proc /\ \E i \in 1..Len(s) : s[i] = x
      /\ m.first[q] = NULL <=> Len(s) = 0
  BY ChainMembers DEF IsList
<1>2. /\ \A i, j \in 1..Len(s) : s[i] = s[j] => i = j
      /\ Len(s) # 0 => m.first[q] = s[1] /\ m.last[q] = s[Len(s)]
  BY DEF IsList, Chain
<1>3. ASSUME NEW i \in 1..Len(s)
      PROVE  m.next[s[i]] = IF i = Len(s) THEN NULL ELSE s[i + 1]
  <2>1. Len(s) # 0 /\ (i # Len(s) => i \in 1..(Len(s) - 1))
    BY <1>1
  <2> QED
    BY <2>1 DEF IsList, Chain, HasEnd
<1> QED
  BY <1>1, <1>2, <1>3

(* ListOf finds that sequence: its recursive function has this one value.  *)
LEMMA ListOfIs ==
    ASSUME NEW m \in Memory, NEW q \in Queue, NEW s, IsList(m, q, s)
    PROVE  ListOf(m, q) = s
<1> DEFINE n == Cardinality(Members(m, q))
           IsNode(f) == f = [i \in 1..n |-> IF i = 1 THEN m.first[q] ELSE m.next[f[i - 1]]]
           node == CHOOSE f : IsNode(f)
<1>0. /\ s \in Seq(Proc) /\ Len(s) \in Nat
      /\ \A i \in 1..Len(s) : s[i] \in Proc /\ s[i] # NULL /\ s[i] \in Members(m, q)
      /\ \A x \in Members(m, q) : \E i \in 1..Len(s) : s[i] = x
      /\ \A i, j \in 1..Len(s) : s[i] = s[j] => i = j
      /\ m.first[q] = NULL <=> Len(s) = 0
      /\ Len(s) # 0 => m.first[q] = s[1] /\ m.last[q] = s[Len(s)]
      /\ \A i \in 1..Len(s) : m.next[s[i]] = IF i = Len(s) THEN NULL ELSE s[i + 1]
  BY ListFacts
<1>1. s \in Seq(Proc) /\ Len(s) \in Nat /\ s = [i \in 1..Len(s) |-> s[i]]
  BY <1>0
<1>2. n = Len(s)
  <2> DEFINE f == [i \in 1..Len(s) |-> s[i]]
  <2>1. f \in Bijection(1..Len(s), Members(m, q))
    <3>1. f \in [1..Len(s) -> Members(m, q)]
      BY <1>0
    <3>2. \A i, j \in 1..Len(s) : f[i] = f[j] => i = j
      BY <1>0
    <3>3. \A x \in Members(m, q) : \E i \in 1..Len(s) : f[i] = x
      BY <1>0
    <3> QED
      BY <3>1, <3>2, <3>3 DEF Bijection, Injection, IsInjective, Surjection
  <2>2. ExistsBijection(1..Len(s), Members(m, q))
    BY <2>1 DEF ExistsBijection
  <2> QED
    BY <1>1, <2>2, FS_CountingElements
<1>3. ListOf(m, q) = [i \in 1..n |-> node[i]]
  BY DEF ListOf
<1> HIDE DEF n
<1>4. IsNode(s)
  <2>1. ASSUME NEW i \in 1..n
        PROVE  s[i] = IF i = 1 THEN m.first[q] ELSE m.next[s[i - 1]]
    <3>1. CASE i = 1
      BY <1>0, <1>2, <3>1
    <3>2. CASE i # 1
      <4>1. i - 1 \in 1..Len(s) /\ i - 1 # Len(s) /\ (i - 1) + 1 = i
        BY <1>1, <1>2, <3>2
      <4> QED
        BY <1>0, <3>2, <4>1
    <3> QED
      BY <3>1, <3>2
  <2> QED
    BY <1>1, <1>2, <2>1
<1>5. IsNode(node)
  BY <1>4
<1> HIDE DEF node
<1>6. \A i \in 1..n : node[i] = s[i]
  <2> DEFINE T == {i \in 1..n : node[i] # s[i]}
  <2> SUFFICES ASSUME T # {} PROVE FALSE
    OBVIOUS
  <2>1. PICK i \in T : \A j \in T : i <= j
    <3>1. n + 1 \in Nat /\ T \in SUBSET (0..((n + 1) - 1))
      BY <1>1, <1>2
    <3> HIDE DEF T
    <3> QED
      BY <3>1, LeastElement
  <2>2. CASE i = 1
    BY <1>4, <1>5, <2>1, <2>2
  <2>3. CASE i # 1
    <3>1. i - 1 \in 1..n /\ node[i - 1] = s[i - 1]
      BY <1>1, <1>2, <2>1, <2>3
    <3>2. node[i] = m.next[node[i - 1]] /\ s[i] = m.next[s[i - 1]]
      BY <1>4, <1>5, <2>1, <2>3
    <3> QED
      BY <2>1, <3>1, <3>2
  <2> QED
    BY <2>2, <2>3
<1> QED
  BY <1>1, <1>2, <1>3, <1>6

(* A search of a list for the processes in T stops at the first of them.   *)
LEMMA SearchFindsFirst ==
    ASSUME NEW m \in Memory, NEW q \in Queue, NEW s, IsList(m, q, s), NEW T
    PROVE  /\ \A k \in 1..Len(s) : Fifo!First(s, T, k) => Found(m, q, T) = {s[k]}
           /\ Found(m, q, T) = {} <=> \A i \in 1..Len(s) : s[i] \notin T
<1>1. /\ s \in Seq(Proc) /\ Len(s) \in Nat
      /\ \A i \in 1..Len(s) : s[i] \in Proc /\ s[i] # NULL /\ s[i] \in Members(m, q)
      /\ \A x \in Members(m, q) : \E i \in 1..Len(s) : s[i] = x
      /\ m.first[q] = IF Len(s) = 0 THEN NULL ELSE s[1]
      /\ \A i \in 1..Len(s) : m.next[s[i]] = IF i = Len(s) THEN NULL ELSE s[i + 1]
  BY ListFacts
<1>2. /\ Found(m, q, T) \subseteq Members(m, q) \cap T
      /\ Found(m, q, T) = {} => Members(m, q) \cap T = {}
  BY FoundInMembers
<1>3. ASSUME NEW k \in 1..Len(s), Fifo!First(s, T, k) PROVE Found(m, q, T) = {s[k]}
  <2> DEFINE S == {s[j] : j \in 1..k}
  <2>1. s[k] \in T /\ \A j \in 1..(k - 1) : s[j] \notin T
    BY <1>3 DEF Fifo!First
  <2>2. S \in SUBSET Proc /\ m.first[q] \in S \cup {NULL}
    BY <1>1
  <2>3. Closed(m.next, S, T)
    <3> SUFFICES ASSUME NEW x \in S \ T PROVE m.next[x] \in S
      BY DEF Closed
    <3>1. PICK j \in 1..k : x = s[j]
      OBVIOUS
    <3>2. j # k
      BY <2>1, <3>1
    <3>3. j + 1 \in 1..k /\ j \in 1..Len(s) /\ j # Len(s)
      BY <1>1, <3>2
    <3> QED
      BY <1>1, <3>1, <3>3
  <2>4. Visited(m, q, T) \subseteq S
    BY <2>2, <2>3, VisitedLeast
  <2>5. S \cap T = {s[k]}
    <3>1. \A j \in 1..k : j = k \/ j \in 1..(k - 1)
      BY <1>1
    <3> QED
      BY <1>1, <2>1, <3>1
  <2>6. Found(m, q, T) # {}
    BY <1>1, <1>2, <2>1
  <2> QED
    BY <2>4, <2>5, <2>6 DEF Found
<1> QED
  BY <1>1, <1>2, <1>3

(* If a sequence has a process in T, it has a first one.                   *)
LEMMA HasFirst ==
    ASSUME NEW s \in Seq(Proc), NEW T, \E i \in 1..Len(s) : s[i] \in T
    PROVE  \E k \in 1..Len(s) : Fifo!First(s, T, k)
<1> DEFINE I == {i \in 1..Len(s) : s[i] \in T}
<1>1. Len(s) + 1 \in Nat /\ I \in SUBSET (0..((Len(s) + 1) - 1)) /\ I # {}
  OBVIOUS
<1> HIDE DEF I
<1>2. PICK k \in I : \A i \in I : k <= i
  BY <1>1, LeastElement
<1>3. k \in 1..Len(s) /\ s[k] \in T
  BY DEF I
<1>4. ASSUME NEW i \in 1..(k - 1) PROVE s[i] \notin T
  BY <1>1, <1>2, <1>3 DEF I
<1> QED
  BY <1>3, <1>4 DEF Fifo!First

(* On a proper list queue_get_head is queue_dequeue of the first process,  *)
(* although it writes `last' on another condition.                         *)
LEMMA HeadIsDequeued ==
    ASSUME NEW m \in Memory, NEW q \in Queue, NEW s, IsList(m, q, s),
           NEW p \in Members(m, q), m.first[q] = p
    PROVE  queue_get_head(m, q) = queue_dequeue(m, q, p)
<1>1. p \in Proc /\ p # NULL
  BY VisitedClosed, NullAssumption DEF Members
<1>2. Previous(m, q, p) = NULL
  BY DEF Previous
<1>3. m.last[q] = p <=> m.next[p] = NULL
  <2>1. /\ Len(s) \in Nat
        /\ \A i \in 1..Len(s) : s[i] # NULL
        /\ \A i, j \in 1..Len(s) : s[i] = s[j] => i = j
        /\ m.first[q] = NULL <=> Len(s) = 0
        /\ Len(s) # 0 => m.first[q] = s[1] /\ m.last[q] = s[Len(s)]
        /\ \A i \in 1..Len(s) : m.next[s[i]] = IF i = Len(s) THEN NULL ELSE s[i + 1]
    BY ListFacts
  <2>2. Len(s) # 0 /\ p = s[1] /\ m.last[q] = s[Len(s)]
    BY <1>1, <2>1
  <2>3. 1 \in 1..Len(s) /\ Len(s) \in 1..Len(s) /\ (1 # Len(s) => 1 + 1 \in 1..Len(s))
    <3> DEFINE len == Len(s)
    <3>1. len \in Nat /\ len # 0
      BY <2>1, <2>2
    <3> HIDE DEF len
    <3>2. 1 \in 1..len /\ len \in 1..len /\ (1 # len => 1 + 1 \in 1..len)
      BY <3>1
    <3> QED
      BY <3>2 DEF len
  <2>4. m.next[s[1]] = IF 1 = Len(s) THEN NULL ELSE s[1 + 1]
    BY <2>1, <2>3
  <2> QED
    BY <2>1, <2>2, <2>3, <2>4
<1> QED
  BY <1>1, <1>2, <1>3 DEF queue_get_head, queue_dequeue

-----------------------------------------------------------------------------
(* The steps of FifoQueues                                                 *)

Content(m) == [q \in Queue |-> ListOf(m, q)]

With(c, q, s) == [c EXCEPT ![q] = s]

Lists(m) == \A q \in Queue : IsList(m, q, ListOf(m, q))

(* The inductive invariant: the queues are separate lists with an end.     *)
ListInv == mem \in Memory /\ AreLists(mem) /\ Lists(mem)

(* An operation that changes one list leaves the queues lists, and makes   *)
(* one change of the content.                                              *)
LEMMA OneListChanged ==
    ASSUME NEW m \in Memory, Lists(m), NEW n \in Memory, NEW q \in Queue, NEW s, IsList(n, q, s),
           \A r \in Queue \ {q} : \A t : IsList(m, r, t) => IsList(n, r, t)
    PROVE  Lists(n) /\ Content(n) = With(Content(m), q, s)
<1>1. ListOf(n, q) = s
  BY ListOfIs
<1>2. ASSUME NEW r \in Queue \ {q} PROVE IsList(n, r, ListOf(m, r))
  BY DEF Lists
<1>3. \A r \in Queue \ {q} : ListOf(n, r) = ListOf(m, r)
  BY <1>2, ListOfIs
<1>4. Lists(n)
  BY <1>1, <1>2, <1>3 DEF Lists
<1>5. \A r \in Queue : Content(n)[r] = IF r = q THEN s ELSE Content(m)[r]
  BY <1>1, <1>3 DEF Content
<1> QED
  BY <1>4, <1>5 DEF Content, With

(* queue_append and queue_dequeue as operations on the content.            *)
LEMMA AppendContent ==
    ASSUME NEW m \in Memory, AreLists(m), Lists(m), NEW q \in Queue, NEW p \in Proc,
           \A r \in Queue : p \notin Members(m, r), NEW n, n = queue_append(m, q, p)
    PROVE  /\ n \in Memory /\ AreLists(n) /\ Lists(n)
           /\ Content(n) = With(Content(m), q, Append(Content(m)[q], p))
           /\ \A r \in Queue : \A i \in DOMAIN Content(m)[r] : Content(m)[r][i] # p
<1>1. /\ n \in Memory
      /\ AreLists(n)
      /\ Members(n, q) = Members(m, q) \cup {p}
      /\ \A r \in Queue \ {q} : Members(n, r) = Members(m, r)
      /\ \A s : Chain(m, q, s) => Chain(n, q, Append(s, p)) /\ HasEnd(n, Append(s, p))
      /\ \A r \in Queue \ {q} : \A s :
            Chain(m, r, s) => Chain(n, r, s) /\ (HasEnd(m, s) => HasEnd(n, s))
  BY AppendLists
<1> DEFINE t == Append(ListOf(m, q), p)
<1>2. IsList(n, q, t) /\ \A r \in Queue \ {q} : \A s : IsList(m, r, s) => IsList(n, r, s)
  BY <1>1 DEF Lists, IsList
<1>3. Lists(n) /\ Content(n) = With(Content(m), q, t)
  <2> HIDE DEF t
  <2> QED
    BY <1>1, <1>2, OneListChanged
<1>4. n \in Memory /\ AreLists(n)
  BY <1>1
<1>5. ASSUME NEW r \in Queue, NEW i \in DOMAIN Content(m)[r] PROVE Content(m)[r][i] # p
  <2>1. Content(m)[r] = ListOf(m, r) /\ IsList(m, r, ListOf(m, r))
    BY DEF Content, Lists
  <2>2. i \in 1..Len(ListOf(m, r)) /\ ListOf(m, r)[i] \in Members(m, r)
    BY <2>1, ListFacts
  <2> QED
    BY <2>1, <2>2
<1> QED
  BY <1>3, <1>4, <1>5 DEF Content

LEMMA DequeueContent ==
    ASSUME NEW m \in Memory, AreLists(m), Lists(m), NEW q \in Queue,
           NEW s, s = Content(m)[q], NEW k \in DOMAIN s, NEW n, n = queue_dequeue(m, q, s[k])
    PROVE  /\ n \in Memory /\ AreLists(n) /\ Lists(n)
           /\ Content(n) = With(Content(m), q, RemoveAt(Content(m)[q], k))
<1> DEFINE p == s[k]
           t == RemoveAt(s, k)
<1>1. IsList(m, q, s) /\ Chain(m, q, s) /\ HasEnd(m, s)
  BY DEF Content, Lists, IsList
<1>2. k \in 1..Len(s) /\ p \in Members(m, q) /\ p = s[k] /\ n = queue_dequeue(m, q, p)
  BY <1>1, ListFacts
<1> HIDE DEF p
<1>3. LET d == queue_dequeue(m, q, p)
      IN  /\ d \in Memory
          /\ AreLists(d)
          /\ Members(d, q) = Members(m, q) \ {p}
          /\ \A r \in Queue \ {q} : Members(d, r) = Members(m, r)
          /\ \A j \in 1..Len(s) :
                p = s[j] => Chain(d, q, RemoveAt(s, j)) /\ HasEnd(d, RemoveAt(s, j))
          /\ \A r \in Queue \ {q} : \A u :
                Chain(m, r, u) => Chain(d, r, u) /\ (HasEnd(m, u) => HasEnd(d, u))
  BY <1>1, <1>2, DequeueLists
<1>4. IsList(n, q, t) /\ \A r \in Queue \ {q} : \A u : IsList(m, r, u) => IsList(n, r, u)
  BY <1>2, <1>3 DEF IsList
<1>5. n \in Memory /\ AreLists(n)
  BY <1>2, <1>3
<1>6. Lists(n) /\ Content(n) = With(Content(m), q, t)
  <2> HIDE DEF t
  <2> QED
    BY <1>4, <1>5, OneListChanged
<1> QED
  BY <1>5, <1>6

(* A search of one queue.  q and T are the arguments, m the memory before, *)
(* n the memory and t the result after it.                                 *)
LEMMA SearchContent ==
    ASSUME NEW m \in Memory, AreLists(m), Lists(m), NEW q \in Queue, NEW T,
           NEW n, n = queue_get(m, q, T), NEW t, t = Found(m, q, T)
    PROVE  /\ n \in Memory /\ AreLists(n) /\ Lists(n)
           /\ \/ /\ \A i \in DOMAIN Content(m)[q] : Content(m)[q][i] \notin T
                 /\ t = {} /\ Content(n) = Content(m)
              \/ \E k \in DOMAIN Content(m)[q] :
                    /\ Fifo!First(Content(m)[q], T, k)
                    /\ t = {Content(m)[q][k]}
                    /\ Content(n) = With(Content(m), q, RemoveAt(Content(m)[q], k))
<1> DEFINE s == Content(m)[q]
<1>1. IsList(m, q, s) /\ s \in Seq(Proc) /\ DOMAIN s = 1..Len(s) /\ s = Content(m)[q]
  <2>1. IsList(m, q, s) /\ s = Content(m)[q]
    BY DEF Content, Lists
  <2> HIDE DEF s
  <2> QED
    BY <2>1, ListFacts
<1> HIDE DEF s
<1>2. /\ \A k \in 1..Len(s) : Fifo!First(s, T, k) => Found(m, q, T) = {s[k]}
      /\ Found(m, q, T) = {} <=> \A i \in 1..Len(s) : s[i] \notin T
  BY <1>1, SearchFindsFirst
<1>3. CASE Found(m, q, T) = {}
  BY <1>1, <1>2, <1>3 DEF queue_get
<1>4. CASE Found(m, q, T) # {}
  <2>1. PICK k \in 1..Len(s) : Fifo!First(s, T, k)
    BY <1>1, <1>2, <1>4, HasFirst
  <2>2. Found(m, q, T) = {s[k]} /\ k \in DOMAIN s
    BY <1>1, <1>2, <2>1
  <2>3. n = queue_dequeue(m, q, s[k])
    BY <1>4, <2>2 DEF queue_get
  <2>4. /\ n \in Memory /\ AreLists(n) /\ Lists(n)
        /\ Content(n) = With(Content(m), q, RemoveAt(Content(m)[q], k))
    <3>1. s = Content(m)[q] /\ k \in DOMAIN s
      BY <1>1, <2>2
    <3> QED
      BY <2>3, <3>1, DequeueContent
  <2> QED
    BY <1>1, <2>1, <2>2, <2>4
<1> QED
  BY <1>3, <1>4

(* queue_get_head is a search for any process.                             *)
LEMMA HeadIsSearch ==
    ASSUME NEW m \in Memory, AreLists(m), Lists(m), NEW q \in Queue
    PROVE  /\ queue_get_head(m, q) = queue_get(m, q, Proc)
           /\ {m.first[q]} \ {NULL} = Found(m, q, Proc)
<1> DEFINE s == ListOf(m, q)
           p == m.first[q]
<1>1. IsList(m, q, s)
  BY DEF Lists
<1>2. /\ s \in Seq(Proc) /\ Len(s) \in Nat
      /\ \A i \in 1..Len(s) : s[i] \in Proc /\ s[i] # NULL /\ s[i] \in Members(m, q)
      /\ \A x \in Members(m, q) : \E i \in 1..Len(s) : s[i] = x
      /\ m.first[q] = NULL <=> Len(s) = 0
      /\ Len(s) # 0 => m.first[q] = s[1] /\ m.last[q] = s[Len(s)]
  BY <1>1, ListFacts
<1>3. /\ \A k \in 1..Len(s) : Fifo!First(s, Proc, k) => Found(m, q, Proc) = {s[k]}
      /\ Found(m, q, Proc) = {} <=> \A i \in 1..Len(s) : s[i] \notin Proc
  BY <1>1, SearchFindsFirst
<1>4. CASE m.first[q] = NULL
  <2>1. Found(m, q, Proc) = {}
    BY <1>2, <1>3, <1>4
  <2> QED
    BY <1>4, <2>1 DEF queue_get_head, queue_get
<1>5. CASE m.first[q] # NULL
  <2>1. 1 \in 1..Len(s) /\ s[1] = p
    BY <1>2, <1>5
  <2>2. Fifo!First(s, Proc, 1)
    BY <1>2, <2>1 DEF Fifo!First
  <2>3. Found(m, q, Proc) = {p} /\ p \in Members(m, q)
    BY <1>2, <1>3, <2>1, <2>2
  <2>4. queue_get_head(m, q) = queue_dequeue(m, q, p)
    BY <1>1, <2>3, HeadIsDequeued
  <2> QED
    BY <1>5, <2>3, <2>4 DEF queue_get
<1> QED
  BY <1>4, <1>5

-----------------------------------------------------------------------------
(* Every queue call of the kernel does to the linked lists what a sequence *)
(* promises: it adds at the end or takes out the first process that        *)
(* matches, and the others keep their order (process_manager.h:76-93); for *)
(* every set of processes and any sequence of calls.                       *)
THEOREM QueuesAreSequences == Spec => ImplementsFifo
<1>1. Init => ListInv /\ Fifo!Init
  <2> SUFFICES ASSUME Init PROVE ListInv /\ Fifo!Init
    OBVIOUS
  <2>1. mem = EmptyQueues /\ taken = {}
    BY DEF Init
  <2>2. mem \in Memory /\ \A q \in Queue : mem.first[q] = NULL
    BY <2>1 DEF EmptyQueues, Memory, Pointer
  <2>3. \A q \in Queue : Members(mem, q) = {}
    BY <2>2 DEF Members, Visited
  <2>4. ASSUME NEW q \in Queue PROVE Chain(mem, q, <<>>) /\ HasEnd(mem, <<>>)
    BY <2>2 DEF Chain, HasEnd
  <2>5. AreLists(mem)
    BY <2>3, <2>4 DEF AreLists
  <2>6. ASSUME NEW q \in Queue PROVE ListOf(mem, q) = <<>> /\ IsList(mem, q, <<>>)
    BY <2>2, <2>4, ListOfIs DEF IsList
  <2> QED
    BY <2>1, <2>2, <2>5, <2>6 DEF ListInv, Lists, Fifo!Init
<1>2. ListInv /\ [Next]_vars => ListInv' /\ [Fifo!Next]_(Fifo!vars)
  <2> SUFFICES ASSUME ListInv, [Next]_vars
               PROVE  ListInv' /\ [Fifo!Next]_(Fifo!vars)
    OBVIOUS
  <2>1. mem \in Memory /\ AreLists(mem) /\ Lists(mem)
    BY DEF ListInv
  <2>2. ASSUME NEW q \in Queue, NEW p \in Proc, AppendProcess(q, p)
        PROVE  ListInv' /\ Fifo!Append_(q, p)
    <3>1. \A r \in Queue : p \notin Members(mem, r)
      BY <2>2 DEF AppendProcess, Enqueued
    <3>2. mem' = queue_append(mem, q, p) /\ taken' = {}
      BY <2>2 DEF AppendProcess
    <3>3. /\ mem' \in Memory /\ AreLists(mem') /\ Lists(mem')
          /\ Content(mem') = With(Content(mem), q, Append(Content(mem)[q], p))
          /\ \A r \in Queue : \A i \in DOMAIN Content(mem)[r] : Content(mem)[r][i] # p
      BY <2>1, <3>1, <3>2, AppendContent
    <3> QED
      BY <3>2, <3>3 DEF ListInv, Fifo!Append_, Fifo!Occurs, Content, With
  <2>3. ASSUME NEW q \in Queue, NEW T, mem' = queue_get(mem, q, T), taken' = Found(mem, q, T)
        PROVE  ListInv' /\ Fifo!Take(q, T)
    <3>1. /\ mem' \in Memory /\ AreLists(mem') /\ Lists(mem')
          /\ \/ /\ \A i \in DOMAIN Content(mem)[q] : Content(mem)[q][i] \notin T
                /\ taken' = {} /\ Content(mem') = Content(mem)
             \/ \E k \in DOMAIN Content(mem)[q] :
                   /\ Fifo!First(Content(mem)[q], T, k)
                   /\ taken' = {Content(mem)[q][k]}
                   /\ Content(mem') = With(Content(mem), q, RemoveAt(Content(mem)[q], k))
      BY <2>1, <2>3, SearchContent
    <3>2. ListInv'
      BY <3>1 DEF ListInv
    <3>3. \A s, k : Fifo!RemoveAt(s, k) = RemoveAt(s, k)
      BY DEF Fifo!RemoveAt, RemoveAt
    <3>4. Fifo!Take(q, T)
      BY <3>1, <3>3 DEF Fifo!Take, Content, With
    <3> QED
      BY <3>2, <3>4
  <2>4. ASSUME NEW q \in Queue, GetHead(q)
        PROVE  ListInv' /\ Fifo!Take(q, Proc)
    BY <2>1, <2>3, <2>4, HeadIsSearch DEF GetHead
  <2>5. ASSUME NEW q \in Queue, NEW T \in SUBSET Proc, GetMatching(q, T)
        PROVE  ListInv' /\ Fifo!Take(q, T)
    BY <2>3, <2>5 DEF GetMatching
  <2>6. CASE UNCHANGED vars
    BY <2>6 DEF vars, ListInv, Fifo!vars
  <2> QED
    BY <2>2, <2>4, <2>5, <2>6 DEF Next, Fifo!Next
<1> QED
  BY <1>1, <1>2, PTL DEF Spec, ImplementsFifo, Fifo!Spec
=============================================================================
