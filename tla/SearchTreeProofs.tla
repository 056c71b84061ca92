-------------------------- MODULE SearchTreeProofs ---------------------------
(***************************************************************************)
(* The search trees, for every heap, every set of values and every number  *)
(* of trees.  Their links are right although createTree trusts what malloc *)
(* returns, and cleanUpTree frees nodes others still point to for a        *)
(* moment; every allocated node is in one tree; and the trees are the sets *)
(* TreePromise describes.                                                  *)
(***************************************************************************)
EXTENDS SearchTree, SequenceTheorems, TLAPS

USE TreeAssumption

Frame == [node : Address, at : {"right", "left", "free"}]

(* A block that is not allocated has been left, or reset, to nulls.        *)
BlankBlocks ==
    \A a \in Address \ allocated : left[a] = NULL /\ right[a] = NULL /\ parent[a] = NULL

(* Nodes link to nodes, to no node twice, and are named by them.           *)
Linked ==
    \A a \in allocated :
        /\ left[a] # NULL => left[a] \in allocated /\ parent[left[a]] = a
        /\ right[a] # NULL => right[a] \in allocated /\ parent[right[a]] = a
        /\ left[a] # NULL => left[a] # right[a]

RootsInv == \A t \in roots : t \in allocated /\ parent[t] = NULL

CallInv == call # NoCall => call.node \in allocated

(* What a call of cleanUpTree has already cleared.                         *)
Ready(f) ==
    /\ f.node \in allocated
    /\ f.at # "right" => right[f.node] = NULL
    /\ f.at = "free" => left[f.node] = NULL

(* The call f has called g for the branch it is at.                        *)
Calls(f, g) == f.at # "free" /\ Child(f) = g.node

StackInv ==
    /\ \A i \in 1..Len(stack) : Ready(stack[i])
    /\ \A i \in 2..Len(stack) : Calls(stack[i], stack[i - 1])
    /\ stack # <<>> => /\ parent[stack[Len(stack)].node] = NULL
                       /\ stack[Len(stack)].node \notin roots
                       /\ call = NoCall

LinkInv == TypeOK /\ BlankBlocks /\ Linked /\ RootsInv /\ CallInv /\ StackInv

-----------------------------------------------------------------------------
LEMMA Replaced ==
    ASSUME NEW S, NEW s \in Seq(S), s # <<>>, NEW e \in S
    PROVE  LET r == <<e>> \o Tail(s) IN
           /\ r \in Seq(S) /\ Len(r) = Len(s) /\ Len(s) \in Nat \ {0} /\ r # <<>>
           /\ r[1] = e
           /\ \A i \in 2..Len(s) : r[i] = s[i]
<1>1. /\ Tail(s) \in Seq(S) /\ Len(Tail(s)) = Len(s) - 1 /\ Len(s) \in Nat \ {0}
      /\ \A i \in 1..Len(Tail(s)) : Tail(s)[i] = s[i + 1]
  BY HeadTailProperties, EmptySeq
<1>2. <<e>> \in Seq(S) /\ Len(<<e>>) = 1 /\ <<e>>[1] = e
  OBVIOUS
<1> DEFINE r == <<e>> \o Tail(s)
<1>3. /\ r \in Seq(S) /\ Len(r) = 1 + Len(Tail(s))
      /\ \A i \in 1..(1 + Len(Tail(s))) : r[i] = IF i <= 1 THEN <<e>>[i] ELSE Tail(s)[i - 1]
  BY <1>1, <1>2, ConcatProperties
<1>4. \A i \in 2..Len(s) : r[i] = s[i]
  <2> TAKE i \in 2..Len(s)
  <2>1. r[i] = Tail(s)[i - 1] /\ i - 1 \in 1..Len(Tail(s)) /\ (i - 1) + 1 = i
    BY <1>1, <1>3
  <2> QED BY <1>1, <2>1
<1>5. r[1] = e /\ Len(r) = Len(s)
  BY <1>1, <1>2, <1>3
<1> QED BY <1>1, <1>3, <1>4, <1>5, EmptySeq

LEMMA Pushed ==
    ASSUME NEW S, NEW s \in Seq(S), NEW e \in S
    PROVE  LET r == <<e>> \o s IN
           /\ r \in Seq(S) /\ Len(r) = Len(s) + 1 /\ Len(s) \in Nat
           /\ r[1] = e
           /\ \A i \in 1..Len(s) : r[i + 1] = s[i]
<1>1. <<e>> \in Seq(S) /\ Len(<<e>>) = 1 /\ <<e>>[1] = e /\ Len(s) \in Nat
  OBVIOUS
<1> DEFINE r == <<e>> \o s
<1>3. /\ r \in Seq(S) /\ Len(r) = 1 + Len(s)
      /\ \A i \in 1..(1 + Len(s)) : r[i] = IF i <= 1 THEN <<e>>[i] ELSE s[i - 1]
  BY <1>1, ConcatProperties
<1>4. \A i \in 1..Len(s) : r[i + 1] = s[i]
  <2> TAKE i \in 1..Len(s)
  <2>1. i + 1 \in 1..(1 + Len(s)) /\ ~ (i + 1 <= 1) /\ (i + 1) - 1 = i
    BY <1>1
  <2> QED BY <1>3, <2>1
<1>5. r[1] = e /\ Len(r) = Len(s) + 1
  BY <1>1, <1>3
<1> QED BY <1>1, <1>3, <1>4, <1>5

LEMMA InitInv == Init => LinkInv
<1> SUFFICES ASSUME Init PROVE LinkInv
  OBVIOUS
<1>1. stack \in Seq(Frame) /\ Len(stack) = 0
  BY EmptySeq DEF Init
<1>2. TypeOK
  <2>1. value \in [Address -> Int]
    BY DEF Init
  <2>2. parent \in [Address -> Pointer] /\ left \in [Address -> Pointer]
        /\ right \in [Address -> Pointer]
    BY DEF Init, Pointer
  <2>3. stack \in Seq([node : Address, at : {"right", "left", "free"}])
    BY <1>1 DEF Frame
  <2>4. call = NoCall /\ answer = NoAnswer /\ crashed \in BOOLEAN
        /\ allocated \subseteq Address /\ roots \subseteq Address
    BY DEF Init
  <2> QED BY <2>1, <2>2, <2>3, <2>4 DEF TypeOK
<1> QED
  BY <1>1, <1>2 DEF Init, LinkInv, BlankBlocks, Linked, RootsInv, CallInv, StackInv

-----------------------------------------------------------------------------
(* A new node has no children yet and nobody's parent.                     *)
LEMMA NewTreeStep ==
    ASSUME LinkInv, NEW v \in Value, NewTree(v)
    PROVE  LinkInv'
<1>1. Idle /\ TypeOK /\ stack = <<>> /\ call = NoCall
  BY DEF NewTree, Idle, LinkInv
<1>2. CASE MallocFails
  BY <1>2 DEF MallocFails, LinkInv, TypeOK, BlankBlocks, Linked, RootsInv, CallInv, StackInv,
              Ready, Calls, Child, nodeVars
<1>3. ASSUME NEW node \in Address, createTree(node, v), roots' = roots \cup {node},
             UNCHANGED <<parent, left, right, call, stack, answer, crashed>>
      PROVE  LinkInv'
  <2>1. node \notin allocated /\ allocated' = allocated \cup {node}
        /\ value' = [value EXCEPT ![node] = v]
    BY <1>3 DEF createTree
  <2>2. TypeOK'
    BY <1>1, <1>3, <2>1 DEF TypeOK
  <2>3. left[node] = NULL /\ right[node] = NULL /\ parent[node] = NULL
    BY <2>1 DEF LinkInv, BlankBlocks
  <2>4. BlankBlocks' /\ RootsInv' /\ CallInv'
    BY <1>3, <2>1, <2>3 DEF LinkInv, BlankBlocks, RootsInv, CallInv
  <2>5. Linked'
    BY <1>3, <2>1, <2>3 DEF LinkInv, Linked
  <2>6. StackInv'
    BY <1>1, <1>3, EmptySeq DEF StackInv
  <2> QED BY <2>2, <2>4, <2>5, <2>6 DEF LinkInv
<1> QED BY <1>2, <1>3 DEF NewTree

(* A node is linked below n, on the side that was free.                    *)
LEMMA LinkStep ==
    ASSUME LinkInv, call # NoCall, NEW node \in Address, NEW v \in Value, createTree(node, v),
           \/ left[call.node] = NULL /\ left' = [left EXCEPT ![call.node] = node] /\ right' = right
           \/ right[call.node] = NULL /\ right' = [right EXCEPT ![call.node] = node] /\ left' = left,
           parent' = [parent EXCEPT ![node] = call.node],
           Returns, UNCHANGED answer
    PROVE  LinkInv'
<1> DEFINE n == call.node
<1>1. /\ TypeOK /\ n \in allocated /\ n \in Address /\ stack = <<>>
  BY DEF LinkInv, CallInv, StackInv, TypeOK
<1>2. /\ node \notin allocated /\ allocated' = allocated \cup {node}
      /\ value' = [value EXCEPT ![node] = v]
      /\ call' = NoCall /\ UNCHANGED <<roots, stack, crashed>>
  BY DEF createTree, Returns
<1>3. left[node] = NULL /\ right[node] = NULL /\ parent[node] = NULL
  BY <1>2 DEF LinkInv, BlankBlocks
<1>4. TypeOK'
  <2>1. value' \in [Address -> Int]
    BY <1>1, <1>2 DEF TypeOK
  <2>2. parent' \in [Address -> Pointer]
    BY <1>1 DEF TypeOK, Pointer
  <2>3. left' \in [Address -> Pointer] /\ right' \in [Address -> Pointer]
    BY <1>1 DEF TypeOK, Pointer
  <2> QED BY <1>1, <1>2, <2>1, <2>2, <2>3 DEF TypeOK
<1>5. \A a \in Address : a # node => parent'[a] = parent[a]
  BY <1>1 DEF TypeOK
<1>6. parent'[node] = n
  BY <1>1 DEF TypeOK
<1>7. \A a \in Address : a # n => left'[a] = left[a] /\ right'[a] = right[a]
  BY <1>1 DEF TypeOK
<1>8. \/ left'[n] = node /\ right'[n] = right[n]
      \/ right'[n] = node /\ left'[n] = left[n]
  BY <1>1 DEF TypeOK
<1>9. BlankBlocks'
  BY <1>1, <1>2, <1>5, <1>7 DEF LinkInv, BlankBlocks
<1>10. Linked'
  <2>1. Linked
    BY DEF LinkInv
  <2>2. ASSUME NEW a \in allocated', a # n, a # node
        PROVE  /\ left'[a] # NULL => left'[a] \in allocated' /\ parent'[left'[a]] = a
               /\ right'[a] # NULL => right'[a] \in allocated' /\ parent'[right'[a]] = a
               /\ left'[a] # NULL => left'[a] # right'[a]
    BY <1>1, <1>2, <1>5, <1>7, <2>1, <2>2 DEF Linked, TypeOK
  <2>3. left'[node] = NULL /\ right'[node] = NULL
    BY <1>1, <1>2, <1>3, <1>7
  <2>4. /\ left'[n] # NULL => left'[n] \in allocated' /\ parent'[left'[n]] = n
        /\ right'[n] # NULL => right'[n] \in allocated' /\ parent'[right'[n]] = n
        /\ left'[n] # NULL => left'[n] # right'[n]
    BY <1>1, <1>2, <1>5, <1>6, <1>8, <2>1 DEF Linked, TypeOK
  <2> QED BY <2>2, <2>3, <2>4 DEF Linked
<1>11. RootsInv'
  BY <1>1, <1>2, <1>5 DEF LinkInv, RootsInv, TypeOK
<1>12. CallInv' /\ StackInv'
  BY <1>1, <1>2, EmptySeq DEF CallInv, StackInv
<1> QED BY <1>4, <1>9, <1>10, <1>11, <1>12 DEF LinkInv

(* A call that ends or goes on in a child.                                 *)
LEMMA CallStep ==
    ASSUME LinkInv, UNCHANGED <<nodeVars, allocated, roots, stack, crashed>>,
           call' = NoCall \/ (call' # NoCall /\ call'.node \in allocated /\ stack = <<>>),
           TypeOK'
    PROVE  LinkInv'
<1>1. BlankBlocks' /\ Linked' /\ RootsInv' /\ CallInv'
  BY DEF LinkInv, BlankBlocks, Linked, RootsInv, CallInv, nodeVars
<1>2. StackInv'
  BY DEF LinkInv, StackInv, Ready, Calls, Child, nodeVars
<1> QED BY <1>1, <1>2 DEF LinkInv

LEMMA DescendStep ==
    ASSUME LinkInv, call # NoCall, NEW child \in {left[call.node], right[call.node]},
           child # NULL, Descend(child)
    PROVE  LinkInv'
<1>1. TypeOK /\ call.node \in allocated /\ stack = <<>>
  BY DEF LinkInv, CallInv, StackInv
<1>2. child \in allocated /\ child \in Address
  BY <1>1 DEF LinkInv, Linked, TypeOK
<1>3. /\ call' = [call EXCEPT !.node = child]
      /\ UNCHANGED <<nodeVars, allocated, roots, stack, answer, crashed>>
  BY DEF Descend
<1>4. call \in [op : {"insert", "search"}, tree : Address, node : Address, value : Value]
  BY <1>1 DEF TypeOK
<1>5. /\ call' \in [op : {"insert", "search"}, tree : Address, node : Address, value : Value]
      /\ call'.node = child /\ call'.op # "none"
  BY <1>2, <1>3, <1>4
<1>6. call' # NoCall
  BY <1>5 DEF NoCall
<1>7. TypeOK'
  BY <1>1, <1>3, <1>5 DEF TypeOK, nodeVars
<1> QED BY <1>1, <1>2, <1>3, <1>5, <1>6, <1>7, CallStep

LEMMA InsertStep == LinkInv /\ insert => LinkInv'
<1> SUFFICES ASSUME LinkInv, insert PROVE LinkInv'
  OBVIOUS
<1>1. call.op = "insert" /\ call # NoCall /\ TypeOK
  BY DEF insert, NoCall, LinkInv
<1>2. call.value \in Value
  BY <1>1 DEF TypeOK
<1>3. CASE MallocFails
  BY <1>3 DEF MallocFails, LinkInv, TypeOK, BlankBlocks, Linked, RootsInv, CallInv, StackInv,
              Ready, Calls, Child, nodeVars
<1>4. CASE Returns /\ UNCHANGED <<nodeVars, allocated, answer>>
  <2>1. TypeOK'
    BY <1>1, <1>4 DEF Returns, TypeOK, nodeVars
  <2> QED BY <1>4, <2>1, CallStep DEF Returns
<1> DEFINE n == call.node
<1>5. CASE \/ left[n] # NULL /\ Descend(left[n])
           \/ right[n] # NULL /\ Descend(right[n])
  BY <1>1, <1>5, DescendStep
<1>6. CASE left[n] = NULL /\ \E node \in Address :
               /\ createTree(node, call.value)
               /\ left' = [left EXCEPT ![n] = node]
               /\ parent' = [parent EXCEPT ![node] = n]
               /\ Returns /\ UNCHANGED <<right, answer>>
  BY <1>1, <1>2, <1>6, LinkStep
<1>7. CASE right[n] = NULL /\ \E node \in Address :
               /\ createTree(node, call.value)
               /\ right' = [right EXCEPT ![n] = node]
               /\ parent' = [parent EXCEPT ![node] = n]
               /\ Returns /\ UNCHANGED <<left, answer>>
  BY <1>1, <1>2, <1>7, LinkStep
<1>8. value[n] \in Int /\ call.value \in Int
  BY <1>1, <1>2 DEF TypeOK, LinkInv, CallInv
<1>9. value[n] < call.value \/ value[n] > call.value \/ value[n] = call.value
  BY <1>8
<1> QED BY <1>3, <1>4, <1>5, <1>6, <1>7, <1>9 DEF insert

LEMMA SearchStep == LinkInv /\ binarySearch => LinkInv'
<1> SUFFICES ASSUME LinkInv, binarySearch PROVE LinkInv'
  OBVIOUS
<1>1. call.op = "search" /\ call # NoCall /\ TypeOK
  BY DEF binarySearch, NoCall, LinkInv
<1>2. ASSUME NEW found \in BOOLEAN, Answers(found) PROVE LinkInv'
  <2>1. call.tree \in Address /\ call.value \in Value
    BY <1>1 DEF TypeOK
  <2>2. TypeOK'
    BY <1>1, <1>2, <2>1 DEF Answers, Returns, TypeOK, nodeVars
  <2> QED BY <1>2, <2>2, CallStep DEF Answers, Returns
<1> QED BY <1>1, <1>2, DescendStep DEF binarySearch

-----------------------------------------------------------------------------
(* Freeing trees                                                           *)

LEMMA CleanUpStep ==
    ASSUME LinkInv, NEW tree \in roots, CleanUp(tree)
    PROVE  LinkInv'
<1>1. /\ TypeOK /\ tree \in allocated /\ parent[tree] = NULL /\ call = NoCall
      /\ tree \in Address
  BY DEF LinkInv, RootsInv, CleanUp, Idle, TypeOK
<1>2. /\ stack' = <<[node |-> tree, at |-> "right"]>> /\ roots' = roots \ {tree}
      /\ UNCHANGED <<nodeVars, allocated, call, answer, crashed>>
  BY DEF CleanUp
<1>3. [node |-> tree, at |-> "right"] \in Frame
  BY <1>1 DEF Frame
<1>4. stack' \in Seq(Frame) /\ Len(stack') = 1 /\ stack'[1] = [node |-> tree, at |-> "right"]
  BY <1>2, <1>3
<1>5. TypeOK'
  <2>1. stack' \in Seq([node : Address, at : {"right", "left", "free"}])
    BY <1>4 DEF Frame
  <2> QED BY <1>1, <1>2, <2>1 DEF TypeOK, nodeVars
<1>6. BlankBlocks' /\ Linked' /\ RootsInv' /\ CallInv'
  BY <1>2 DEF LinkInv, BlankBlocks, Linked, RootsInv, CallInv, nodeVars
<1>7. StackInv'
  <2>1. \A i \in 1..Len(stack') : i = 1
    BY <1>4
  <2>2. \A i \in 2..Len(stack') : FALSE
    BY <1>4
  <2>3. Ready(stack'[1]) /\ \A f : Ready(f)' <=> Ready(f)
    BY <1>1, <1>2, <1>4 DEF Ready, nodeVars
  <2>4. parent'[stack'[Len(stack')].node] = NULL /\ stack'[Len(stack')].node \notin roots'
    BY <1>1, <1>2, <1>4 DEF nodeVars
  <2> QED BY <1>1, <1>2, <2>1, <2>2, <2>3, <2>4 DEF StackInv
<1> QED BY <1>5, <1>6, <1>7 DEF LinkInv

LEMMA BranchStep == LinkInv /\ cleanUpTree_Branch => LinkInv'
<1> SUFFICES ASSUME LinkInv, cleanUpTree_Branch PROVE LinkInv'
  OBVIOUS
<1>1. /\ stack # <<>> /\ Top.at \in {"right", "left"}
      /\ UNCHANGED <<nodeVars, allocated, roots, call, answer, crashed>>
  BY DEF cleanUpTree_Branch
<1>2. TypeOK /\ stack \in Seq(Frame) /\ Linked /\ StackInv
  BY DEF LinkInv, TypeOK, Frame
<1>3. /\ Top \in Frame /\ Top = stack[1] /\ Len(stack) \in Nat \ {0}
  BY <1>1, <1>2, HeadTailProperties, EmptySeq DEF Top
<1>4. Ready(Top)
  BY <1>2, <1>3 DEF StackInv
<1>5. \A f : (Ready(f)' <=> Ready(f)) /\ (Child(f)' = Child(f)) /\ \A g : Calls(f, g)' <=> Calls(f, g)
  BY <1>1 DEF Ready, Calls, Child, nodeVars
<1>6. ASSUME stack' \in Seq(Frame) PROVE TypeOK'
  <2>1. stack' \in Seq([node : Address, at : {"right", "left", "free"}])
    BY <1>6 DEF Frame
  <2> QED BY <1>1, <1>2, <2>1 DEF TypeOK, nodeVars
<1>7. BlankBlocks' /\ Linked' /\ RootsInv' /\ CallInv'
  BY <1>1 DEF LinkInv, BlankBlocks, Linked, RootsInv, CallInv, nodeVars
<1>8. CASE Child(Top) = NULL
  <2> DEFINE e == [Top EXCEPT !.at = After(@)]
  <2>1. e \in Frame /\ e.node = Top.node /\ e.at = After(Top.at)
    BY <1>1, <1>3 DEF Frame, After
  <2>2. Ready(e)
    BY <1>1, <1>4, <1>8, <2>1 DEF Ready, After, Child
  <2> HIDE DEF e
  <2>3. stack' = <<e>> \o Tail(stack)
    BY <1>8 DEF cleanUpTree_Branch, e
  <2>4. /\ stack' \in Seq(Frame) /\ Len(stack') = Len(stack)
        /\ stack'[1] = e /\ \A i \in 2..Len(stack) : stack'[i] = stack[i]
    BY <1>1, <1>2, <2>1, <2>3, Replaced
  <2>5. \A i \in 1..Len(stack) : stack'[i].node = stack[i].node
    BY <1>3, <2>1, <2>4
  <2>6. \A i \in 1..Len(stack') : Ready(stack'[i])
    BY <1>2, <1>3, <2>2, <2>4 DEF StackInv
  <2>7. ASSUME NEW i \in 2..Len(stack') PROVE Calls(stack'[i], stack'[i - 1])
    <3>1. stack'[i] = stack[i] /\ i - 1 \in 1..Len(stack) /\ stack'[i - 1].node = stack[i - 1].node
      BY <1>3, <2>4, <2>5
    <3>2. Calls(stack[i], stack[i - 1])
      BY <1>2, <2>4 DEF StackInv
    <3> QED BY <3>1, <3>2 DEF Calls
  <2>8. StackInv'
    <3>1. Len(stack) \in 1..Len(stack)
      BY <1>3
    <3> QED BY <1>1, <1>2, <1>5, <2>4, <2>5, <2>6, <2>7, <3>1 DEF StackInv, nodeVars
  <2> QED BY <1>6, <1>7, <2>4, <2>8 DEF LinkInv
<1>9. CASE Child(Top) # NULL
  <2> DEFINE e == [node |-> Child(Top), at |-> "right"]
  <2>1. Child(Top) \in allocated
    BY <1>1, <1>2, <1>4, <1>9 DEF Linked, Ready, Child
  <2>2. e \in Frame /\ Ready(e) /\ Calls(Top, e)
    BY <1>1, <1>2, <2>1 DEF Frame, TypeOK, Ready, Calls
  <2> HIDE DEF e
  <2>3. stack' = <<e>> \o stack
    BY <1>9 DEF cleanUpTree_Branch, e
  <2>4. /\ stack' \in Seq(Frame) /\ Len(stack') = Len(stack) + 1
        /\ stack'[1] = e /\ \A i \in 1..Len(stack) : stack'[i + 1] = stack[i]
    BY <1>2, <2>2, <2>3, Pushed
  <2>5. \A i \in 2..Len(stack') : i - 1 \in 1..Len(stack) /\ stack'[i] = stack[i - 1]
    <3> TAKE i \in 2..Len(stack')
    <3>1. i - 1 \in 1..Len(stack) /\ (i - 1) + 1 = i
      BY <1>3, <2>4
    <3> QED BY <2>4, <3>1
  <2>6. \A i \in 1..Len(stack') : Ready(stack'[i])
    <3> TAKE i \in 1..Len(stack')
    <3>1. i = 1 \/ i \in 2..Len(stack')
      BY <1>3, <2>4
    <3> QED BY <1>2, <2>2, <2>4, <2>5, <3>1 DEF StackInv
  <2>7. ASSUME NEW i \in 2..Len(stack') PROVE Calls(stack'[i], stack'[i - 1])
    <3>1. CASE i = 2
      BY <1>3, <2>2, <2>4, <2>5, <3>1
    <3>2. CASE i # 2
      <4>1. i - 1 \in 2..Len(stack') /\ i - 1 \in 2..Len(stack)
        BY <1>3, <2>4, <3>2
      <4>2. stack'[i] = stack[i - 1] /\ stack'[i - 1] = stack[(i - 1) - 1]
        BY <2>5, <4>1
      <4> QED BY <1>2, <4>1, <4>2 DEF StackInv
    <3> QED BY <3>1, <3>2
  <2>8. StackInv'
    <3>1. stack'[Len(stack')] = stack[Len(stack)]
      BY <1>3, <2>4
    <3> QED BY <1>1, <1>2, <1>5, <2>6, <2>7, <3>1 DEF StackInv, nodeVars
  <2> QED BY <1>6, <1>7, <2>4, <2>8 DEF LinkInv
<1> QED BY <1>8, <1>9

(* The innermost call frees a node without children.  Nothing else links   *)
(* to it than the branch of its caller, which is reset.                    *)
LEMMA FreeStep == LinkInv /\ cleanUpTree_Free => LinkInv'
<1> SUFFICES ASSUME LinkInv, cleanUpTree_Free PROVE LinkInv'
  OBVIOUS
<1> DEFINE callers == Tail(stack)
<1>1. /\ stack # <<>> /\ Top.at = "free" /\ Freed(Top.node)
      /\ UNCHANGED <<roots, call, answer, crashed>>
      /\ callers = <<>> => stack' = <<>> /\ UNCHANGED <<left, right>>
  BY DEF cleanUpTree_Free
<1>2. TypeOK /\ stack \in Seq(Frame) /\ BlankBlocks /\ Linked /\ RootsInv /\ StackInv
  BY DEF LinkInv, TypeOK, Frame
<1>3. /\ Top \in Frame /\ Top = stack[1] /\ Len(stack) \in Nat \ {0}
      /\ callers \in Seq(Frame) /\ Len(callers) = Len(stack) - 1
      /\ \A i \in 1..Len(callers) : callers[i] = stack[i + 1]
  BY <1>1, <1>2, HeadTailProperties, EmptySeq DEF Top
<1>4. PICK x \in Address : x = Top.node
  BY <1>3 DEF Frame
<1>5. /\ x \in allocated /\ left[x] = NULL /\ right[x] = NULL /\ call = NoCall
  BY <1>1, <1>2, <1>3, <1>4 DEF StackInv, Ready
<1>6. /\ allocated' = allocated \ {x}
      /\ value' = [value EXCEPT ![x] = 0]
      /\ parent' = [parent EXCEPT ![x] = NULL]
  BY <1>1, <1>4 DEF Freed
<1>7. parent'[x] = NULL /\ \A a \in Address : a # x => parent'[a] = parent[a]
  BY <1>2, <1>6 DEF TypeOK
<1>8. value' \in [Address -> Int] /\ parent' \in [Address -> Pointer] /\ allocated' \subseteq Address
  BY <1>2, <1>6 DEF TypeOK, Pointer
<1>9. CallInv'
  BY <1>1, <1>5 DEF CallInv
<1>10. x \notin roots /\ (parent[x] = NULL <=> callers = <<>>)
  <2>1. CASE callers = <<>>
    <3>1. Len(stack) = 1
      <4>1. Len(callers) = 0
        BY <2>1, EmptySeq
      <4> HIDE DEF callers
      <4> QED BY <1>3, <4>1
    <3> QED BY <1>1, <1>2, <1>3, <1>4, <2>1, <3>1 DEF StackInv
  <2>2. CASE callers # <<>>
    <3>1. 2 \in 2..Len(stack) /\ 2 \in 1..Len(stack) /\ 2 - 1 = 1
      BY <1>3, <2>2, EmptySeq
    <3>2. Calls(stack[2], stack[1]) /\ Ready(stack[2]) /\ stack[2] \in Frame
      BY <1>2, <3>1, ElementOfSeq DEF StackInv
    <3>3. stack[2].node \in allocated /\ stack[2].node \in Address /\ Child(stack[2]) = x
      BY <1>3, <1>4, <3>2 DEF Calls, Ready, Frame
    <3>4. parent[x] = stack[2].node
      BY <1>2, <3>2, <3>3 DEF Linked, Child
    <3> QED BY <1>2, <2>2, <3>3, <3>4 DEF RootsInv
  <2> QED BY <2>1, <2>2
<1>11. RootsInv'
  BY <1>1, <1>2, <1>6, <1>7, <1>10 DEF RootsInv, TypeOK
<1>12. CASE callers = <<>>
  <2>1. stack' = <<>> /\ UNCHANGED <<left, right>>
    BY <1>1, <1>12
  <2>2. stack' \in Seq([node : Address, at : {"right", "left", "free"}]) /\ Len(stack') = 0
    BY <2>1, EmptySeq
  <2>3. TypeOK'
    BY <1>1, <1>2, <1>8, <2>1, <2>2 DEF TypeOK
  <2>4. BlankBlocks'
    BY <1>2, <1>5, <1>6, <1>7, <2>1 DEF BlankBlocks
  <2>5. \A a \in allocated : left[a] # x /\ right[a] # x
    BY <1>2, <1>10, <1>12 DEF Linked, TypeOK
  <2>6. Linked'
    BY <1>2, <1>6, <1>7, <2>1, <2>5 DEF Linked, TypeOK
  <2>7. StackInv'
    BY <2>1, <2>2 DEF StackInv
  <2> QED BY <1>9, <1>11, <2>3, <2>4, <2>6, <2>7 DEF LinkInv
<1>13. CASE callers # <<>>
  <2> DEFINE f == Head(callers)
             e == [f EXCEPT !.at = After(@)]
  <2>1. /\ f \in Frame /\ f = callers[1] /\ Len(callers) \in Nat \ {0} /\ Len(stack) >= 2
    BY <1>3, <1>13, HeadTailProperties, EmptySeq
  <2>2. f = stack[2] /\ 2 \in 1..Len(stack) /\ 2 \in 2..Len(stack) /\ 2 - 1 = 1
    BY <1>3, <2>1
  <2>3. Ready(f) /\ Calls(f, stack[1])
    BY <1>2, <2>2 DEF StackInv
  <2>4. PICK p \in Address : p = f.node
    BY <2>1 DEF Frame
  <2>5. /\ f.at \in {"right", "left"} /\ Child(f) = x /\ p \in allocated
        /\ f.at = "left" => right[p] = NULL
    BY <1>3, <1>4, <2>1, <2>3, <2>4 DEF Frame, Ready, Calls
  <2>6. p # x /\ parent[x] = p
    BY <1>2, <1>5, <2>4, <2>5 DEF Linked, Child
  <2>7. e \in Frame /\ e.node = p /\ e.at = After(f.at)
    BY <2>1, <2>4, <2>5 DEF Frame, After
  <2>8. /\ stack' = <<e>> \o Tail(callers)
        /\ right' = IF f.at = "right" THEN [right EXCEPT ![p] = NULL] ELSE right
        /\ left' = IF f.at = "left" THEN [left EXCEPT ![p] = NULL] ELSE left
    BY <1>13, <2>4 DEF cleanUpTree_Free
  <2> HIDE DEF e, f
  <2>9. /\ stack' \in Seq(Frame) /\ Len(stack') = Len(callers)
        /\ stack'[1] = e /\ \A i \in 2..Len(callers) : stack'[i] = callers[i]
    BY <1>3, <1>13, <2>7, <2>8, Replaced
  <2>10. \A i \in 2..Len(stack') : stack'[i] = stack[i + 1] /\ i + 1 \in 3..Len(stack)
    <3> TAKE i \in 2..Len(stack')
    <3>1. i \in 2..Len(callers) /\ i \in 1..Len(callers) /\ i + 1 \in 3..Len(stack)
      BY <1>3, <2>9
    <3> QED BY <1>3, <2>9, <3>1
  <2>11. /\ \A a \in Address : a # p => left'[a] = left[a] /\ right'[a] = right[a]
         /\ f.at = "right" => right'[p] = NULL /\ left'[p] = left[p] /\ right[p] = x
         /\ f.at = "left" => left'[p] = NULL /\ right'[p] = right[p] /\ left[p] = x
    BY <1>2, <2>4, <2>5, <2>8 DEF TypeOK, Child
  <2>12. TypeOK'
    <3>1. left' \in [Address -> Pointer] /\ right' \in [Address -> Pointer]
      BY <1>2, <2>8 DEF TypeOK, Pointer
    <3>2. stack' \in Seq([node : Address, at : {"right", "left", "free"}])
      BY <2>9 DEF Frame
    <3> QED BY <1>1, <1>2, <1>8, <3>1, <3>2 DEF TypeOK
  <2>13. BlankBlocks'
    BY <1>2, <1>5, <1>6, <1>7, <2>5, <2>6, <2>11 DEF BlankBlocks
  <2>14. Linked'
    <3>1. ASSUME NEW a \in allocated, a # x, a # p
          PROVE  /\ left'[a] # NULL => left'[a] \in allocated' /\ parent'[left'[a]] = a
                 /\ right'[a] # NULL => right'[a] \in allocated' /\ parent'[right'[a]] = a
                 /\ left'[a] # NULL => left'[a] # right'[a]
      <4>1. a \in Address /\ left'[a] = left[a] /\ right'[a] = right[a]
        BY <1>2, <2>11, <3>1 DEF TypeOK
      <4>2. left[a] # x /\ right[a] # x
        BY <1>2, <2>6, <3>1 DEF Linked
      <4> QED BY <1>2, <1>6, <1>7, <3>1, <4>1, <4>2 DEF Linked, TypeOK
    <3>2. /\ left'[p] # NULL => left'[p] \in allocated' /\ parent'[left'[p]] = p
          /\ right'[p] # NULL => right'[p] \in allocated' /\ parent'[right'[p]] = p
          /\ left'[p] # NULL => left'[p] # right'[p]
      <4>1. CASE f.at = "right"
        BY <1>2, <1>6, <1>7, <2>5, <2>11, <4>1 DEF Linked, TypeOK
      <4>2. CASE f.at = "left"
        BY <1>2, <1>6, <1>7, <2>5, <2>11, <4>2 DEF Linked, TypeOK
      <4> QED BY <2>5, <4>1, <4>2
    <3> QED BY <1>6, <3>1, <3>2 DEF Linked
  <2>15. \A i \in 3..Len(stack) : stack[i].node \in allocated /\ stack[i].node # p /\ stack[i].node # x
    <3> SUFFICES ASSUME NEW i \in 3..Len(stack)
                 PROVE  stack[i].node \in allocated /\ stack[i].node # p /\ stack[i].node # x
      OBVIOUS
    <3> DEFINE g == stack[i]
    <3>1. /\ i \in 2..Len(stack) /\ i \in 1..Len(stack)
          /\ i - 1 \in 2..Len(stack) /\ i - 1 \in 1..Len(stack)
          /\ (i - 1) - 1 \in 1..Len(stack)
      BY <1>3
    <3>2. /\ Ready(g) /\ Calls(g, stack[i - 1]) /\ Ready(stack[i - 1])
          /\ Calls(stack[i - 1], stack[(i - 1) - 1]) /\ Ready(stack[(i - 1) - 1])
      BY <1>2, <3>1 DEF StackInv
    <3>3. g \in Frame /\ stack[i - 1] \in Frame
      BY <1>2, <3>1, ElementOfSeq
    <3>4. /\ g.node \in allocated /\ g.at \in {"right", "left"}
          /\ Child(g) = stack[i - 1].node /\ stack[i - 1].node \in allocated
          /\ g.at = "left" => right[g.node] = NULL
      BY <3>2, <3>3 DEF Ready, Calls, Frame
    <3>5. left[stack[i - 1].node] # NULL \/ right[stack[i - 1].node] # NULL
      BY <1>2, <3>2, <3>3 DEF Calls, Ready, Child, TypeOK
    <3>6. stack[i - 1].node # x
      BY <1>5, <3>5
    <3>7. g.node # x
      BY <1>2, <1>5, <3>4 DEF Child, TypeOK
    <3>8. g.node # p
      <4> SUFFICES ASSUME g.node = p PROVE FALSE
        OBVIOUS
      <4>1. Child(g) # NULL /\ Child(g) # x
        BY <1>2, <3>4, <3>6 DEF TypeOK
      <4>2. CASE f.at = "right" /\ g.at = "right"
        BY <2>11, <4>1, <4>2 DEF Child
      <4>3. CASE f.at = "left" /\ g.at = "left"
        BY <2>11, <4>1, <4>3 DEF Child
      <4>4. CASE f.at = "right" /\ g.at = "left"
        BY <2>11, <3>4, <4>4
      <4>5. CASE f.at = "left" /\ g.at = "right"
        BY <2>5, <4>1, <4>5 DEF Child
      <4> QED BY <2>5, <3>4, <4>2, <4>3, <4>4, <4>5
    <3> QED BY <3>4, <3>7, <3>8
  <2>16. \A h : h.node \in Address /\ h.node # p /\ h.node # x =>
            /\ Child(h)' = Child(h)
            /\ (Ready(h)' <=> Ready(h))
    BY <1>6, <2>11 DEF Child, Ready
  <2>17. (\A i \in 1..Len(stack) : Ready(stack[i]))'
    <3>1. ASSUME NEW h, h = stack'[1] PROVE Ready(h)'
      <4>1. h.node = p /\ h.at = After(f.at)
        BY <2>7, <2>9, <3>1
      <4>2. p \in allocated' /\ right'[p] = NULL /\ (f.at = "left" => left'[p] = NULL)
        BY <1>6, <2>5, <2>6, <2>11
      <4> QED BY <2>5, <4>1, <4>2 DEF Ready, After
    <3>2. ASSUME NEW i \in 2..Len(stack'), NEW h, h = stack'[i] PROVE Ready(h)'
      <4>1. /\ h = stack[i + 1] /\ i + 1 \in 3..Len(stack) /\ i + 1 \in 1..Len(stack)
        BY <2>10, <3>2
      <4>2. Ready(h) /\ h.node \in Address /\ h.node # p /\ h.node # x
        BY <1>2, <2>15, <4>1 DEF StackInv, TypeOK
      <4> QED BY <2>16, <4>2
    <3>3. \A i \in 1..Len(stack') : i = 1 \/ i \in 2..Len(stack')
      BY <2>1, <2>9
    <3>4. ASSUME NEW i \in 1..Len(stack'), NEW h, h = stack'[i] PROVE Ready(h)'
      BY <3>1, <3>2, <3>3, <3>4
    <3> QED BY <3>4 DEF Ready
  <2>18. (\A i \in 2..Len(stack) : Calls(stack[i], stack[i - 1]))'
    <3>1. ASSUME NEW i \in 2..Len(stack'), NEW h, h = stack'[i], NEW g, g = stack'[i - 1]
          PROVE  Calls(h, g)'
      <4>1. /\ h = stack[i + 1] /\ i + 1 \in 3..Len(stack) /\ i + 1 \in 2..Len(stack)
            /\ (i + 1) - 1 = i
        BY <2>10, <3>1
      <4>2. Calls(h, stack[i]) /\ h.node \in Address /\ h.node # p /\ h.node # x
        BY <1>2, <2>15, <4>1 DEF StackInv, TypeOK
      <4>3. g.node = stack[i].node
        <5>1. CASE i = 2
          BY <2>2, <2>4, <2>7, <2>9, <3>1, <5>1
        <5>2. CASE i # 2
          <6>1. i - 1 \in 2..Len(stack') /\ (i - 1) + 1 = i
            BY <5>2
          <6> QED BY <2>10, <3>1, <6>1
        <5> QED BY <5>1, <5>2
      <4> QED BY <2>16, <4>2, <4>3 DEF Calls
    <3> QED BY <3>1 DEF Calls, Child
  <2>19. stack'[Len(stack')].node = stack[Len(stack)].node
    <3>1. CASE Len(stack') = 1
      BY <1>3, <2>2, <2>4, <2>7, <2>9, <3>1
    <3>2. CASE Len(stack') # 1
      <4>1. Len(stack') \in 2..Len(stack') /\ Len(stack') + 1 = Len(stack)
        BY <1>3, <2>1, <2>9, <3>2
      <4> QED BY <2>10, <4>1
    <3> QED BY <3>1, <3>2
  <2>20. StackInv'
    <3>1. Len(stack) \in 1..Len(stack) /\ stack[Len(stack)] \in Frame
      BY <1>2, <1>3, ElementOfSeq
    <3>2. parent[stack[Len(stack)].node] = NULL /\ stack[Len(stack)].node \notin roots
      BY <1>1, <1>2 DEF StackInv
    <3>3. stack[Len(stack)].node # x
      BY <1>2, <2>4, <2>6, <3>2 DEF TypeOK
    <3>4. stack[Len(stack)].node \in Address
      BY <3>1 DEF Frame
    <3>5. parent'[stack[Len(stack)].node] = NULL
      BY <1>7, <3>2, <3>3, <3>4
    <3> QED BY <1>1, <1>5, <2>17, <2>18, <2>19, <3>2, <3>5 DEF StackInv
  <2> QED BY <1>9, <1>11, <2>12, <2>13, <2>14, <2>20 DEF LinkInv
<1> QED BY <1>12, <1>13

LEMMA NextInv == LinkInv /\ [Next]_vars => LinkInv'
<1> SUFFICES ASSUME LinkInv, [Next]_vars PROVE LinkInv'
  OBVIOUS
<1>1. CASE UNCHANGED vars
  BY <1>1 DEF vars, nodeVars, LinkInv, TypeOK, BlankBlocks, Linked, RootsInv, CallInv, StackInv,
              Ready, Calls, Child
<1>2. ASSUME NEW tree \in roots, NEW v \in Value, NEW op \in {"insert", "search"},
             Call(op, tree, v)
      PROVE  LinkInv'
  <2>1. /\ TypeOK /\ stack = <<>> /\ tree \in allocated /\ tree \in Address
        /\ call' = [op |-> op, tree |-> tree, node |-> tree, value |-> v]
        /\ UNCHANGED <<nodeVars, allocated, roots, stack, answer, crashed>>
    BY <1>2 DEF Call, Idle, LinkInv, RootsInv, TypeOK
  <2>2. call' \in [op : {"insert", "search"}, tree : Address, node : Address, value : Value]
    BY <2>1
  <2>3. call'.op # "none" /\ call'.node = tree
    BY <2>1
  <2>4. TypeOK'
    BY <2>1, <2>2 DEF TypeOK, nodeVars
  <2>5. call' # NoCall
    BY <2>3 DEF NoCall
  <2> QED BY <2>1, <2>3, <2>4, <2>5, CallStep
<1> QED
  BY <1>1, <1>2, NewTreeStep, InsertStep, SearchStep, CleanUpStep, BranchStep, FreeStep
     DEF Next, Running, Crashed

LEMMA Invariant == Spec => []LinkInv
<1> QED BY InitInv, NextInv, PTL DEF Spec

-----------------------------------------------------------------------------
(* Every variable has its type (tree.h:9-14).                              *)
THEOREM TypesKept == Spec => []TypeOK
<1>1. LinkInv => TypeOK
  BY DEF LinkInv
<1> QED BY <1>1, Invariant, PTL

(* The node a node names as its parent is the one that links to it, also   *)
(* when blocks of trees that were freed are used again (tree.c:8-35,       *)
(* 71-83).                                                                 *)
THEOREM ParentsAreRight == Spec => []ParentsMatch
<1>1. LinkInv => ParentsMatch
  BY DEF LinkInv, Linked, ParentsMatch
<1> QED BY <1>1, Invariant, PTL

(* No pointer in a tree dangles and no node is linked twice; no call works *)
(* on a block that is not allocated; what createTree leaves uninitialised  *)
(* is null (tree.c:8-19, 71-83).                                           *)
NothingDangles ==
    /\ \A n \in allocated : /\ left[n] \in allocated \cup {NULL}
                            /\ right[n] \in allocated \cup {NULL}
                            /\ left[n] = right[n] => left[n] = NULL
    /\ \A n \in Address \ allocated : left[n] = NULL /\ right[n] = NULL
    /\ roots \subseteq allocated
    /\ call # NoCall => call.node \in allocated
    /\ \A i \in 1..Len(stack) : stack[i].node \in allocated

THEOREM NoPointerDangles == Spec => []NothingDangles
<1>1. LinkInv => NothingDangles
  BY DEF LinkInv, Linked, BlankBlocks, RootsInv, CallInv, StackInv, Ready, TypeOK, Pointer,
         NothingDangles
<1> QED BY <1>1, Invariant, PTL

-----------------------------------------------------------------------------
(* The nodes of a tree                                                     *)

Links == TypeOK /\ Linked

(* Nodes(t) is the least set that has t and is closed.                     *)
LEMMA NodesLeast ==
    ASSUME NEW t, NEW S \in SUBSET Address, t \in S, Closed(S)
    PROVE  Nodes(t) \subseteq S
BY DEF Nodes

LEMMA NodesClosed ==
    ASSUME TypeOK, NEW t \in Address
    PROVE  Nodes(t) \in SUBSET Address /\ t \in Nodes(t) /\ Closed(Nodes(t))
<1>1. Nodes(t) \in SUBSET Address /\ t \in Nodes(t)
  BY DEF Nodes
<1>2. ASSUME NEW n \in Nodes(t)
      PROVE  left[n] \in Nodes(t) \cup {NULL} /\ right[n] \in Nodes(t) \cup {NULL}
  <2>1. \A S \in SUBSET Address : t \in S /\ Closed(S) =>
           left[n] \in S \cup {NULL} /\ right[n] \in S \cup {NULL}
    BY DEF Nodes, Closed
  <2>2. left[n] \in Address \cup {NULL} /\ right[n] \in Address \cup {NULL}
    BY <1>1 DEF TypeOK, Pointer
  <2> QED BY <2>1, <2>2 DEF Nodes
<1> QED BY <1>1, <1>2 DEF Closed

(* Every node of a tree but its root is linked to by another one.          *)
LEMMA NodesLinked ==
    ASSUME TypeOK, NEW t \in Address, NEW n \in Nodes(t), n # t
    PROVE  \E m \in Nodes(t) : left[m] = n \/ right[m] = n
<1> SUFFICES ASSUME \A m \in Nodes(t) : left[m] # n /\ right[m] # n PROVE FALSE
  OBVIOUS
<1>1. /\ Nodes(t) \ {n} \in SUBSET Address /\ t \in Nodes(t) \ {n}
      /\ Closed(Nodes(t) \ {n})
  BY NodesClosed DEF Closed
<1>2. Nodes(t) \subseteq Nodes(t) \ {n}
  BY <1>1, NodesLeast
<1> QED BY <1>2

(* Its parent, for a tree of allocated nodes.                              *)
LEMMA ParentInTree ==
    ASSUME Links, NEW t \in allocated, NEW n \in Nodes(t), n # t
    PROVE  /\ Nodes(t) \subseteq allocated
           /\ parent[n] \in Nodes(t)
           /\ left[parent[n]] = n \/ right[parent[n]] = n
<1>0. TypeOK /\ Linked /\ t \in Address /\ allocated \in SUBSET Address
  BY DEF Links, TypeOK
<1>1. Nodes(t) \subseteq allocated
  <2>1. Closed(allocated)
    BY <1>0 DEF Linked, Closed
  <2> QED BY <1>0, <2>1, NodesLeast
<1>2. PICK m \in Nodes(t) : left[m] = n \/ right[m] = n
  BY <1>0, NodesLinked
<1>3. n # NULL
  BY <1>0, NodesClosed
<1>4. parent[n] = m
  BY <1>0, <1>1, <1>2, <1>3 DEF Linked
<1> QED BY <1>1, <1>2, <1>4

LEMMA NodesAllocated ==
    ASSUME Links, NEW t \in allocated
    PROVE  Nodes(t) \subseteq allocated /\ t \in Nodes(t)
<1>0. TypeOK /\ Linked /\ t \in Address /\ allocated \in SUBSET Address
  BY DEF Links, TypeOK
<1>1. Closed(allocated)
  BY <1>0 DEF Linked, Closed
<1> QED BY <1>0, <1>1, NodesLeast, NodesClosed

(* A node without parent is the root of its tree.                          *)
LEMMA OrphanIsRoot ==
    ASSUME Links, NEW t \in allocated, NEW n \in Nodes(t), parent[n] = NULL
    PROVE  n = t
<1>1. \A m \in Nodes(t) : m # NULL
  BY NodesAllocated DEF Links, TypeOK
<1> QED BY <1>1, ParentInTree

(* Two trees share no node: a shared node would have its parent in both.   *)
LEMMA TreesDisjoint ==
    ASSUME Links, NEW s \in allocated, NEW t \in allocated, s # t,
           parent[s] = NULL, parent[t] = NULL
    PROVE  Nodes(s) \cap Nodes(t) = {}
<1> DEFINE D == Nodes(s) \ Nodes(t)
<1>0. /\ TypeOK /\ Linked /\ s \in Address /\ t \in Address
      /\ Nodes(s) \subseteq allocated /\ Nodes(t) \subseteq allocated
      /\ Nodes(s) \in SUBSET Address /\ Closed(Nodes(s))
  BY NodesClosed, NodesAllocated DEF Links, TypeOK
<1>1. s \in D
  BY <1>0, NodesClosed, OrphanIsRoot
<1>2. ASSUME NEW n \in D, NEW c \in {left[n], right[n]}, c # NULL PROVE c \in D
  <2>1. c \in Nodes(s) /\ parent[c] = n /\ n # NULL
    BY <1>0, <1>2 DEF Closed, Linked, TypeOK
  <2>2. ASSUME c \in Nodes(t) PROVE FALSE
    <3>1. c # t
      BY <2>1
    <3>2. n \in Nodes(t)
      BY <2>1, <2>2, <3>1, ParentInTree
    <3> QED BY <1>2, <3>2
  <2> QED BY <2>1, <2>2
<1>3. Closed(D)
  BY <1>2 DEF Closed
<1>4. Nodes(s) \subseteq D
  BY <1>0, <1>1, <1>3, NodesLeast
<1> QED BY <1>4

-----------------------------------------------------------------------------
(* Every allocated node is in a tree                                       *)

(* The roots, and the tree cleanUpTree is freeing.                         *)
Held == roots \cup IF stack = <<>> THEN {} ELSE {stack[Len(stack)].node}

(* Every closed set that has them has all allocated nodes.  NothingLeaks   *)
(* speaks of the moments between calls only and is not inductive.          *)
NoOrphans ==
    \A S \in SUBSET Address : Held \subseteq S /\ Closed(S) => allocated \subseteq S

LEMMA OrphansInit == Init => NoOrphans
BY DEF Init, NoOrphans

LEMMA OrphansStep == LinkInv /\ LinkInv' /\ NoOrphans /\ [Next]_vars => NoOrphans'
<1> SUFFICES ASSUME LinkInv, LinkInv', NoOrphans, [Next]_vars,
                    NEW S \in SUBSET Address, Held' \subseteq S, Closed(S)'
             PROVE  allocated' \subseteq S
  BY DEF NoOrphans
<1>0. /\ TypeOK /\ Linked /\ BlankBlocks /\ CallInv /\ TypeOK'
      /\ stack \in Seq(Frame) /\ Len(stack) \in Nat
  BY DEF LinkInv, TypeOK, Frame
<1>1. ASSUME UNCHANGED <<left, right>>, allocated' \subseteq allocated, Held \subseteq S
      PROVE  allocated' \subseteq S
  BY <1>1 DEF NoOrphans, Closed
<1>2. ASSUME NEW v \in Value, NewTree(v) PROVE allocated' \subseteq S
  <2>1. CASE MallocFails
    BY <1>1, <2>1 DEF MallocFails, nodeVars, Held
  <2>2. CASE ~ MallocFails
    <3>1. PICK node \in Address :
             /\ createTree(node, v)
             /\ roots' = roots \cup {node}
             /\ UNCHANGED <<parent, left, right, call, stack, answer, crashed>>
      BY <1>2, <2>2 DEF NewTree
    <3>2. Held' = Held \cup {node} /\ Closed(S)
      BY <3>1 DEF Held, Closed
    <3> QED BY <3>1, <3>2 DEF createTree, NoOrphans
  <2> QED BY <2>1, <2>2
<1>3. CASE UNCHANGED <<left, right, allocated, roots, stack>>
  BY <1>1, <1>3 DEF Held
<1>4. CASE insert
  <2> DEFINE n == call.node
  <2>1. CASE UNCHANGED <<left, right, allocated, roots, stack>>
    BY <1>3, <2>1
  <2>2. CASE \E node \in Address :
               /\ createTree(node, call.value)
               /\ \/ left[n] = NULL /\ left' = [left EXCEPT ![n] = node] /\ right' = right
                  \/ right[n] = NULL /\ right' = [right EXCEPT ![n] = node] /\ left' = left
               /\ UNCHANGED <<roots, stack>>
    <3>1. PICK node \in Address :
               /\ createTree(node, call.value)
               /\ \/ left[n] = NULL /\ left' = [left EXCEPT ![n] = node] /\ right' = right
                  \/ right[n] = NULL /\ right' = [right EXCEPT ![n] = node] /\ left' = left
               /\ UNCHANGED <<roots, stack>>
      BY <2>2
    <3>2. call # NoCall /\ n \in allocated /\ n \in Address
      BY <1>0, <1>4 DEF insert, NoCall, CallInv, TypeOK
    <3>3. Closed(S)
      BY <1>0, <3>1, <3>2 DEF Closed, TypeOK
    <3>4. allocated \subseteq S
      BY <3>1, <3>3 DEF Held, NoOrphans
    <3>5. node \in S
      <4>1. n \in S
        BY <3>2, <3>4
      <4>2. left'[n] = node \/ right'[n] = node
        BY <1>0, <3>1, <3>2 DEF TypeOK
      <4>3. node # NULL
        OBVIOUS
      <4> QED BY <4>1, <4>2, <4>3 DEF Closed
    <3> QED BY <3>1, <3>4, <3>5 DEF createTree
  <2>3. value[n] \in Int /\ call.value \in Int
    <3>1. call # NoCall
      BY <1>4 DEF insert, NoCall
    <3> QED BY <1>0, <3>1 DEF TypeOK, CallInv
  <2>4. value[n] < call.value \/ value[n] > call.value \/ value[n] = call.value
    BY <2>3
  <2> QED BY <1>4, <2>1, <2>2, <2>4 DEF insert, Descend, MallocFails, Returns, nodeVars
<1>5. ASSUME NEW tree \in roots, CleanUp(tree) PROVE allocated' \subseteq S
  <2>1. /\ stack = <<>> /\ roots' = roots \ {tree} /\ UNCHANGED <<left, right, allocated>>
        /\ stack' = <<[node |-> tree, at |-> "right"]>>
    BY <1>5 DEF CleanUp, Idle, nodeVars
  <2>2. stack' # <<>> /\ stack'[Len(stack')].node = tree
    BY <2>1
  <2>3. Held' = Held
    BY <2>1, <2>2 DEF Held
  <2> QED BY <1>1, <2>1, <2>3
<1>6. CASE cleanUpTree_Branch
  <2>1. /\ stack # <<>> /\ UNCHANGED <<left, right, allocated, roots>>
        /\ Top = stack[1] /\ Top \in Frame /\ Len(stack) \in Nat \ {0}
    BY <1>0, <1>6, HeadTailProperties, EmptySeq DEF cleanUpTree_Branch, nodeVars, Top
  <2>2. CASE Child(Top) = NULL
    <3> DEFINE e == [Top EXCEPT !.at = After(@)]
    <3>1. e \in Frame /\ e.node = Top.node
      BY <1>6, <2>1 DEF cleanUpTree_Branch, Frame, After
    <3>2. stack' = <<e>> \o Tail(stack)
      BY <1>6, <2>2 DEF cleanUpTree_Branch
    <3> HIDE DEF e
    <3>3. /\ stack' # <<>> /\ Len(stack') = Len(stack)
          /\ stack'[1] = e /\ \A i \in 2..Len(stack) : stack'[i] = stack[i]
      BY <1>0, <2>1, <3>1, <3>2, Replaced
    <3>4. stack'[Len(stack')].node = stack[Len(stack)].node
      <4>1. CASE Len(stack) = 1
        BY <2>1, <3>1, <3>3, <4>1
      <4>2. CASE Len(stack) # 1
        BY <2>1, <3>3, <4>2
      <4> QED BY <4>1, <4>2
    <3> QED BY <1>1, <2>1, <3>3, <3>4 DEF Held
  <2>3. CASE Child(Top) # NULL
    <3> DEFINE e == [node |-> Child(Top), at |-> "right"]
    <3>1. Child(Top) \in Address
      BY <1>0, <2>1, <2>3 DEF Child, TypeOK, Pointer, Frame
    <3>2. e \in Frame /\ stack' = <<e>> \o stack
      BY <1>6, <2>3, <3>1 DEF cleanUpTree_Branch, Frame
    <3> HIDE DEF e
    <3>3. /\ Len(stack') = Len(stack) + 1
          /\ \A i \in 1..Len(stack) : stack'[i + 1] = stack[i]
      BY <1>0, <3>2, Pushed
    <3>4. stack' # <<>> /\ stack'[Len(stack')] = stack[Len(stack)]
      BY <1>0, <2>1, <3>3, EmptySeq
    <3> QED BY <1>1, <2>1, <3>4 DEF Held
  <2> QED BY <2>2, <2>3
<1>7. CASE cleanUpTree_Free
  <2> DEFINE callers == Tail(stack)
             x == Top.node
             f == Head(callers)
             e == [f EXCEPT !.at = After(@)]
  <2>1. /\ stack # <<>> /\ Top.at = "free" /\ allocated' = allocated \ {x} /\ roots' = roots
        /\ callers = <<>> => stack' = <<>> /\ UNCHANGED <<left, right>>
        /\ callers # <<>> =>
              /\ stack' = <<e>> \o Tail(callers)
              /\ right' = IF f.at = "right" THEN [right EXCEPT ![f.node] = NULL] ELSE right
              /\ left' = IF f.at = "left" THEN [left EXCEPT ![f.node] = NULL] ELSE left
    BY <1>7 DEF cleanUpTree_Free, Freed
  <2>2. /\ Top \in Frame /\ Top = stack[1] /\ Len(stack) \in Nat \ {0}
        /\ callers \in Seq(Frame) /\ Len(callers) = Len(stack) - 1
        /\ \A i \in 1..Len(callers) : callers[i] = stack[i + 1]
    BY <1>0, <2>1, HeadTailProperties, EmptySeq DEF Top
  <2>3. x \in Address /\ left[x] = NULL /\ right[x] = NULL
    BY <1>0, <2>1, <2>2 DEF LinkInv, StackInv, Ready, Frame
  <2>4. CASE callers = <<>>
    <3>1. Len(stack) = 1
      <4>1. Len(callers) = 0
        BY <2>4, EmptySeq
      <4> HIDE DEF callers
      <4> QED BY <2>2, <4>1
    <3>2. Closed(S \cup {x})
      BY <2>1, <2>3, <2>4 DEF Closed
    <3>3. Held \subseteq S \cup {x}
      BY <2>1, <2>2, <3>1 DEF Held
    <3>4. allocated \subseteq S \cup {x}
      BY <2>3, <3>2, <3>3 DEF NoOrphans
    <3> QED BY <2>1, <3>4
  <2>5. CASE callers # <<>>
    <3>1. /\ f \in Frame /\ f = callers[1] /\ Len(callers) \in Nat \ {0} /\ Len(stack) >= 2
      BY <2>2, <2>5, HeadTailProperties, EmptySeq
    <3>2. f = stack[2] /\ 2 \in 1..Len(stack) /\ 2 \in 2..Len(stack) /\ 2 - 1 = 1
      BY <2>2, <3>1
    <3>3. Calls(f, stack[1]) /\ Child(f) = x
      BY <1>0, <2>2, <3>2 DEF LinkInv, StackInv, Calls
    <3>4. e \in Frame /\ e.node = f.node
      BY <3>1, <3>3 DEF Frame, After, Calls
    <3>5. \A a \in Address : /\ left[a] = left'[a] \/ left[a] = x
                             /\ right[a] = right'[a] \/ right[a] = x
      <4>1. f.node \in Address
        BY <3>1 DEF Frame
      <4> HIDE DEF f
      <4> QED BY <1>0, <2>1, <2>5, <3>3, <4>1 DEF TypeOK, Child
    <3>6. Closed(S \cup {x})
      BY <2>3, <3>5 DEF Closed
    <3>7. stack' = <<e>> \o Tail(callers)
      BY <2>1, <2>5
    <3> HIDE DEF e, f
    <3>8. /\ stack' \in Seq(Frame) /\ Len(stack') = Len(callers)
          /\ stack'[1] = e /\ \A i \in 2..Len(callers) : stack'[i] = callers[i]
      BY <2>2, <2>5, <3>4, <3>7, Replaced
    <3>9. stack'[Len(stack')].node = stack[Len(stack)].node
      <4>1. CASE Len(stack') = 1
        BY <2>2, <3>1, <3>2, <3>4, <3>8, <4>1
      <4>2. CASE Len(stack') # 1
        <5>1. Len(stack') \in 2..Len(callers) /\ Len(stack') \in 1..Len(callers)
              /\ Len(stack') + 1 = Len(stack)
          BY <2>2, <3>1, <3>8, <4>2
        <5> QED BY <2>2, <3>8, <5>1
      <4> QED BY <4>1, <4>2
    <3>10. stack' # <<>>
      BY <3>1, <3>8, EmptySeq
    <3>11. Held \subseteq S \cup {x}
      BY <2>1, <3>9, <3>10 DEF Held
    <3>12. allocated \subseteq S \cup {x}
      BY <2>3, <3>6, <3>11 DEF NoOrphans
    <3> QED BY <2>1, <3>12
  <2> QED BY <2>4, <2>5
<1>8. CASE binarySearch
  BY <1>3, <1>8 DEF binarySearch, Descend, Answers, Returns, nodeVars
<1>9. CASE \E tree \in roots, v \in Value : Call("insert", tree, v) \/ Call("search", tree, v)
  BY <1>3, <1>9 DEF Call, nodeVars
<1>10. CASE Crashed \/ UNCHANGED vars
  BY <1>3, <1>10 DEF Crashed, vars, nodeVars
<1> QED
  BY <1>2, <1>4, <1>5, <1>6, <1>7, <1>8, <1>9, <1>10 DEF Next, Running

(* Between calls every block that is allocated belongs to exactly one      *)
(* tree: cleanUpTree frees each node once and no node of another tree      *)
(* (tree.c:71-83).                                                         *)
THEOREM NothingIsLeaked == Spec => []NothingLeaks
<1>1. LinkInv /\ NoOrphans => NothingLeaks
  <2> SUFFICES ASSUME LinkInv, NoOrphans, Idle PROVE NothingLeaks
    BY DEF NothingLeaks
  <2> DEFINE U == UNION {Nodes(t) : t \in roots}
  <2>1. /\ Links /\ TypeOK /\ roots \subseteq allocated /\ allocated \subseteq Address
        /\ \A t \in roots : parent[t] = NULL
    BY DEF LinkInv, Links, RootsInv, TypeOK
  <2>2. \A t \in roots : /\ Nodes(t) \in SUBSET Address /\ t \in Nodes(t)
                         /\ Closed(Nodes(t)) /\ Nodes(t) \subseteq allocated
    BY <2>1, NodesClosed, NodesAllocated
  <2>3. U \in SUBSET Address /\ roots \subseteq U /\ U \subseteq allocated
    BY <2>2
  <2>4. Closed(U)
    BY <2>2 DEF Closed
  <2>5. Held \subseteq U
    BY <2>3 DEF Held, Idle
  <2>6. allocated \subseteq U
    BY <2>3, <2>4, <2>5 DEF NoOrphans
  <2>7. \A s, t \in roots : s # t => Nodes(s) \cap Nodes(t) = {}
    BY <2>1, TreesDisjoint
  <2>8. allocated = U
    BY <2>3, <2>6
  <2> QED BY <2>7, <2>8 DEF NothingLeaks
<1>2. Init => LinkInv /\ NoOrphans
  BY InitInv, OrphansInit
<1>3. LinkInv /\ NoOrphans /\ [Next]_vars => (LinkInv /\ NoOrphans)'
  BY NextInv, OrphansStep
<1> QED BY <1>1, <1>2, <1>3, PTL DEF Spec

-----------------------------------------------------------------------------
(* What changes the nodes of a tree                                        *)

Below(c) == IF c = NULL THEN {} ELSE Nodes(c)

(* Nodes(t) and Closed(S) for any links, those after a step in particular. *)
LinkMap == [Address -> Pointer]
ClosedUnder(l, r, S) == \A n \in S : l[n] \in S \cup {NULL} /\ r[n] \in S \cup {NULL}
Reach(l, r, t) ==
    {n \in Address : \A S \in SUBSET Address : t \in S /\ ClosedUnder(l, r, S) => n \in S}

LEMMA ReachLeast ==
    ASSUME NEW l, NEW r, NEW t, NEW S \in SUBSET Address, t \in S, ClosedUnder(l, r, S)
    PROVE  Reach(l, r, t) \subseteq S
BY DEF Reach

LEMMA ReachClosed ==
    ASSUME NEW l \in LinkMap, NEW r \in LinkMap, NEW t \in Address
    PROVE  /\ Reach(l, r, t) \in SUBSET Address /\ t \in Reach(l, r, t)
           /\ ClosedUnder(l, r, Reach(l, r, t))
<1> DEFINE N == Reach(l, r, t)
<1>1. N \in SUBSET Address /\ t \in N
  BY DEF Reach
<1>2. ASSUME NEW n \in N
      PROVE  l[n] \in N \cup {NULL} /\ r[n] \in N \cup {NULL}
  <2>1. \A S \in SUBSET Address : t \in S /\ ClosedUnder(l, r, S) =>
           l[n] \in S \cup {NULL} /\ r[n] \in S \cup {NULL}
    BY DEF Reach, ClosedUnder
  <2>2. l[n] \in Address \cup {NULL} /\ r[n] \in Address \cup {NULL}
    BY <1>1 DEF LinkMap, Pointer
  <2> QED BY <2>1, <2>2 DEF Reach
<1> QED BY <1>1, <1>2 DEF ClosedUnder

LEMMA NodesReach ==
    \A t : Nodes(t) = Reach(left, right, t) /\ Nodes(t)' = Reach(left', right', t)
BY DEF Nodes, Reach, Closed, ClosedUnder

(* Links outside the tree do not matter.                                   *)
LEMMA ReachSame ==
    \A l, r, l2, r2 \in LinkMap, t \in Address :
        (\A n \in Reach(l, r, t) : l2[n] = l[n] /\ r2[n] = r[n])
            => Reach(l2, r2, t) = Reach(l, r, t)
<1> SUFFICES ASSUME NEW l \in LinkMap, NEW r \in LinkMap,
                    NEW l2 \in LinkMap, NEW r2 \in LinkMap,
                    NEW t \in Address,
                    \A n \in Reach(l, r, t) : l2[n] = l[n] /\ r2[n] = r[n]
             PROVE  Reach(l2, r2, t) = Reach(l, r, t)
  OBVIOUS
<1> DEFINE M == Reach(l, r, t)
           N == Reach(l2, r2, t)
<1>1. M \in SUBSET Address /\ t \in M /\ ClosedUnder(l, r, M)
  BY ReachClosed
<1>2. N \in SUBSET Address /\ t \in N /\ ClosedUnder(l2, r2, N)
  BY ReachClosed
<1> HIDE DEF M, N
<1>3. \A n \in M : l2[n] = l[n] /\ r2[n] = r[n]
  BY DEF M
<1>4. N \subseteq M
  <2>1. ClosedUnder(l2, r2, M)
    BY <1>1, <1>3 DEF ClosedUnder
  <2> QED BY <1>1, <2>1, ReachLeast DEF N
<1>5. M \subseteq N
  <2>1. ClosedUnder(l, r, N)
    BY <1>2, <1>3, <1>4 DEF ClosedUnder
  <2> QED BY <1>2, <2>1, ReachLeast DEF M
<1> QED BY <1>4, <1>5 DEF M, N

(* A node without children, linked below a node of the tree, joins it.     *)
LEMMA ReachLinked ==
    ASSUME NEW l \in LinkMap, NEW r \in LinkMap,
           NEW l2 \in LinkMap, NEW r2 \in LinkMap,
           NEW t \in Address, NEW n \in Reach(l, r, t), NEW node \in Address,
           \A a \in Address : a # n => l2[a] = l[a] /\ r2[a] = r[a],
           \/ l[n] = NULL /\ l2[n] = node /\ r2[n] = r[n]
           \/ r[n] = NULL /\ r2[n] = node /\ l2[n] = l[n],
           l2[node] = NULL, r2[node] = NULL
    PROVE  Reach(l2, r2, t) = Reach(l, r, t) \cup {node}
<1> DEFINE M == Reach(l, r, t)
           N == Reach(l2, r2, t)
<1>1. M \in SUBSET Address /\ t \in M /\ ClosedUnder(l, r, M) /\ n \in M
  BY ReachClosed
<1>2. N \in SUBSET Address /\ t \in N /\ ClosedUnder(l2, r2, N)
  BY ReachClosed
<1> HIDE DEF M, N
<1>3. N \subseteq M \cup {node}
  <2>1. ClosedUnder(l2, r2, M \cup {node})
    BY <1>1 DEF ClosedUnder
  <2> QED BY <1>1, <2>1, ReachLeast DEF N
<1>4. M \subseteq N
  <2>1. ClosedUnder(l, r, N)
    BY <1>2 DEF ClosedUnder
  <2> QED BY <1>2, <2>1, ReachLeast DEF M
<1>5. node \in N
  <2>1. n \in N /\ node # NULL
    BY <1>1, <1>4
  <2> QED BY <1>2, <2>1 DEF ClosedUnder
<1> QED BY <1>3, <1>4, <1>5 DEF M, N

LEMMA NodesSame ==
    ASSUME TypeOK, TypeOK', NEW t \in Address,
           \A n \in Nodes(t) : left'[n] = left[n] /\ right'[n] = right[n]
    PROVE  Nodes(t)' = Nodes(t)
<1>1. /\ left \in LinkMap /\ right \in LinkMap
      /\ left' \in LinkMap /\ right' \in LinkMap
  BY DEF TypeOK, LinkMap
<1>2. \A n \in Reach(left, right, t) : left'[n] = left[n] /\ right'[n] = right[n]
  BY NodesReach
<1>3. Reach(left', right', t) = Reach(left, right, t)
  BY <1>1, <1>2, ReachSame
<1> QED BY <1>3, NodesReach

LEMMA NodesUnchanged ==
    ASSUME UNCHANGED <<left, right>>
    PROVE  /\ \A t : Nodes(t)' = Nodes(t)
           /\ \A c : Below(c)' = Below(c)
<1>1. \A t : Nodes(t)' = Nodes(t)
  BY DEF Nodes, Closed
<1> QED BY <1>1 DEF Below

(* What is below a node of a tree is in that tree.                         *)
LEMMA NodesBelow ==
    ASSUME TypeOK, NEW t \in Address, NEW n \in Nodes(t)
    PROVE  /\ Nodes(n) \subseteq Nodes(t) /\ n \in Nodes(n) /\ n \in Address
           /\ Below(left[n]) \subseteq Nodes(t) /\ Below(right[n]) \subseteq Nodes(t)
           /\ Nodes(n) = {n} \cup Below(left[n]) \cup Below(right[n])
<1>1. Nodes(t) \in SUBSET Address /\ Closed(Nodes(t)) /\ n \in Address
  BY NodesClosed
<1>2. Nodes(n) \in SUBSET Address /\ n \in Nodes(n) /\ Closed(Nodes(n))
  BY <1>1, NodesClosed
<1>3. Nodes(n) \subseteq Nodes(t)
  BY <1>1, NodesLeast
<1>4. ASSUME NEW c \in {left[n], right[n]}
      PROVE  /\ Below(c) \subseteq Nodes(n) /\ Below(c) \in SUBSET Address
             /\ c # NULL => c \in Below(c) /\ Closed(Below(c))
  <2>1. CASE c = NULL
    BY <2>1 DEF Below
  <2>2. CASE c # NULL
    <3>1. c \in Nodes(n) /\ c \in Address
      BY <1>2, <2>2 DEF Closed
    <3>2. Nodes(c) \subseteq Nodes(n)
      BY <1>2, <3>1, NodesLeast
    <3>3. c \in Nodes(c) /\ Closed(Nodes(c))
      BY <3>1, NodesClosed
    <3> QED BY <1>2, <2>2, <3>2, <3>3 DEF Below
  <2> QED BY <2>1, <2>2
<1>5. /\ Below(left[n]) \subseteq Nodes(n) /\ Below(right[n]) \subseteq Nodes(n)
  BY <1>4
<1>6. Nodes(n) \subseteq {n} \cup Below(left[n]) \cup Below(right[n])
  <2> DEFINE S == {n} \cup Below(left[n]) \cup Below(right[n])
  <2>1. S \in SUBSET Address /\ n \in S
    BY <1>1, <1>4
  <2>2. ASSUME NEW m \in S PROVE left[m] \in S \cup {NULL} /\ right[m] \in S \cup {NULL}
    <3>1. CASE m = n
      BY <1>4, <3>1
    <3>2. ASSUME NEW c \in {left[n], right[n]}, m \in Below(c)
          PROVE  left[m] \in S \cup {NULL} /\ right[m] \in S \cup {NULL}
      <4>1. c # NULL
        BY <3>2 DEF Below
      <4>2. left[m] \in Below(c) \cup {NULL} /\ right[m] \in Below(c) \cup {NULL}
        BY <1>4, <3>2, <4>1 DEF Closed
      <4> QED BY <4>2
    <3> QED BY <3>1, <3>2
  <2>3. Closed(S)
    BY <2>2 DEF Closed
  <2> QED BY <2>1, <2>3, NodesLeast
<1> QED BY <1>1, <1>2, <1>3, <1>5, <1>6

LEMMA NodesJoined ==
    ASSUME TypeOK, TypeOK', NEW t \in Address, NEW n \in Nodes(t), NEW node \in Address,
           \A a \in Address : a # n => left'[a] = left[a] /\ right'[a] = right[a],
           \/ left[n] = NULL /\ left'[n] = node /\ right'[n] = right[n]
           \/ right[n] = NULL /\ right'[n] = node /\ left'[n] = left[n],
           left'[node] = NULL, right'[node] = NULL
    PROVE  Nodes(t)' = Nodes(t) \cup {node}
<1>1. left \in LinkMap /\ right \in LinkMap /\ left' \in LinkMap /\ right' \in LinkMap
  BY DEF TypeOK, LinkMap
<1>2. n \in Reach(left, right, t)
  BY NodesReach
<1>3. Reach(left', right', t) = Reach(left, right, t) \cup {node}
  BY <1>1, <1>2, ReachLinked
<1> QED BY <1>3, NodesReach

-----------------------------------------------------------------------------
(* The trees as sets                                                       *)

(* Larger values are on the left.                                          *)
Ordered ==
    \A t \in roots : \A n \in Nodes(t) :
        /\ \A m \in Below(left[n]) : value[m] > value[n]
        /\ \A m \in Below(right[n]) : value[m] < value[n]

(* A call has gone down to where its value is, if it is in the tree, and   *)
(* where it belongs, if it is not.                                         *)
PathInv ==
    call # NoCall =>
        /\ call.tree \in roots
        /\ call.node \in Nodes(call.tree)
        /\ \A m \in Nodes(call.tree) : value[m] = call.value => m \in Nodes(call.node)
        /\ \A a \in Nodes(call.tree) :
              /\ call.node \in Below(left[a]) => value[a] < call.value
              /\ call.node \in Below(right[a]) => value[a] > call.value

(* cleanUpTree works outside the trees the program holds.                  *)
Outside == \A t \in roots : \A i \in 1..Len(stack) : stack[i].node \notin Nodes(t)

OrderInv == Ordered /\ PathInv /\ Outside

PromiseStep == Promise!Next \/ UNCHANGED <<Content, answer>>

LEMMA TreeFacts ==
    ASSUME LinkInv, NEW t \in roots
    PROVE  /\ TypeOK /\ Links /\ t \in Address /\ t \in allocated /\ parent[t] = NULL
           /\ Nodes(t) \subseteq allocated /\ Nodes(t) \in SUBSET Address /\ t \in Nodes(t)
           /\ \A n \in Nodes(t) :
                 /\ n \in allocated /\ n \in Address /\ value[n] \in Int
                 /\ Nodes(n) \subseteq Nodes(t) /\ n \in Nodes(n)
                 /\ Below(left[n]) \subseteq Nodes(t) /\ Below(right[n]) \subseteq Nodes(t)
                 /\ Nodes(n) = {n} \cup Below(left[n]) \cup Below(right[n])
<1>1. TypeOK /\ Links /\ t \in Address /\ t \in allocated /\ parent[t] = NULL
  BY DEF LinkInv, Links, RootsInv, TypeOK
<1>2. Nodes(t) \subseteq allocated /\ Nodes(t) \in SUBSET Address /\ t \in Nodes(t)
  BY <1>1, NodesAllocated, NodesClosed
<1>3. ASSUME NEW n \in Nodes(t)
      PROVE  /\ n \in allocated /\ n \in Address /\ value[n] \in Int
             /\ Nodes(n) \subseteq Nodes(t) /\ n \in Nodes(n)
             /\ Below(left[n]) \subseteq Nodes(t) /\ Below(right[n]) \subseteq Nodes(t)
             /\ Nodes(n) = {n} \cup Below(left[n]) \cup Below(right[n])
  <2>1. n \in allocated /\ n \in Address /\ value[n] \in Int
    BY <1>1, <1>2 DEF TypeOK
  <2> QED BY <1>1, <2>1, NodesBelow
<1> QED BY <1>1, <1>2, <1>3

(* Steps that change neither links nor values.                             *)
LEMMA QuietStep ==
    ASSUME LinkInv, OrderInv, UNCHANGED <<value, left, right>>, roots' \subseteq roots
    PROVE  /\ Ordered' /\ \A t : Nodes(t)' = Nodes(t) /\ Contents(t)' = Contents(t)
           /\ \A c : Below(c)' = Below(c)
<1>1. /\ \A t : Nodes(t)' = Nodes(t)
      /\ \A c : Below(c)' = Below(c)
  BY NodesUnchanged
<1>2. \A t : Contents(t)' = Contents(t)
  BY <1>1 DEF Contents
<1>3. Ordered'
  BY <1>1 DEF OrderInv, Ordered
<1> QED BY <1>1, <1>2, <1>3

LEMMA StutterStep ==
    ASSUME LinkInv, OrderInv, UNCHANGED <<value, left, right, roots, answer>>
    PROVE  Ordered' /\ PromiseStep
<1>1. Ordered' /\ \A t : Contents(t)' = Contents(t)
  BY QuietStep
<1>2. Content' = Content
  BY <1>1 DEF Content
<1> QED BY <1>1, <1>2 DEF PromiseStep

LEMMA OrderNewTree ==
    ASSUME LinkInv, LinkInv', OrderInv, NEW v \in Value, NewTree(v)
    PROVE  OrderInv' /\ PromiseStep
<1>1. Idle /\ stack = <<>> /\ call = NoCall /\ TypeOK
  BY DEF NewTree, Idle, LinkInv
<1>2. CASE MallocFails
  <2>1. UNCHANGED <<value, left, right, roots, answer, call, stack>>
    BY <1>2 DEF MallocFails, nodeVars
  <2>2. Ordered' /\ PromiseStep
    BY <2>1, StutterStep
  <2> QED BY <1>1, <2>1, <2>2 DEF OrderInv, PathInv, Outside
<1>3. ASSUME NEW node \in Address, createTree(node, v), roots' = roots \cup {node},
             UNCHANGED <<parent, left, right, call, stack, answer, crashed>>
      PROVE  OrderInv' /\ PromiseStep
  <2>1. node \notin allocated /\ value' = [value EXCEPT ![node] = v]
    BY <1>3 DEF createTree
  <2>2. /\ \A t : Nodes(t)' = Nodes(t)
        /\ \A c : Below(c)' = Below(c)
    BY <1>3, NodesUnchanged
  <2>3. left[node] = NULL /\ right[node] = NULL
    BY <2>1 DEF LinkInv, BlankBlocks
  <2>4. Nodes(node) = {node} /\ Below(NULL) = {}
    <3>1. {node} \in SUBSET Address /\ Closed({node})
      BY <2>3 DEF Closed
    <3>2. Nodes(node) \subseteq {node}
      BY <3>1, NodesLeast
    <3> QED BY <1>1, <3>2, NodesClosed DEF Below
  <2>5. \A m \in allocated : value'[m] = value[m]
    BY <1>1, <2>1 DEF TypeOK
  <2>6. value'[node] = v
    BY <1>1, <2>1 DEF TypeOK
  <2>7. ASSUME NEW t \in roots, NEW n \in Nodes(t)
        PROVE  /\ \A m \in Below(left[n]) : value'[m] > value'[n]
               /\ \A m \in Below(right[n]) : value'[m] < value'[n]
    <3>1. /\ n \in allocated /\ Nodes(t) \subseteq allocated
          /\ Below(left[n]) \subseteq Nodes(t) /\ Below(right[n]) \subseteq Nodes(t)
      BY TreeFacts
    <3> QED BY <2>5, <3>1 DEF OrderInv, Ordered
  <2>8. Ordered'
    BY <1>3, <2>2, <2>3, <2>4, <2>7 DEF Ordered
  <2>9. OrderInv'
    BY <1>1, <1>3, <2>8 DEF OrderInv, PathInv, Outside
  <2>10. \A t \in roots : t # node /\ Contents(t)' = Contents(t)
    <3> SUFFICES ASSUME NEW t \in roots PROVE t # node /\ Contents(t)' = Contents(t)
      OBVIOUS
    <3>1. t \in allocated /\ Nodes(t) \subseteq allocated
      BY TreeFacts
    <3> QED BY <2>1, <2>2, <2>5, <3>1 DEF Contents
  <2>11. Contents(node)' = {v}
    BY <2>2, <2>4, <2>6 DEF Contents
  <2>12. DOMAIN Content = roots /\ node \notin roots /\ \A t \in roots : Content[t] = Contents(t)
    BY <2>10 DEF Content
  <2>13. Content' = [u \in DOMAIN Content \cup {node} |-> IF u = node THEN {v} ELSE Content[u]]
    BY <1>3, <2>10, <2>11, <2>12 DEF Content
  <2>14. Promise!Create(node, v)
    BY <1>3, <2>12, <2>13 DEF Promise!Create
  <2> QED BY <2>9, <2>14 DEF PromiseStep, Promise!Next
<1> QED BY <1>2, <1>3 DEF NewTree

LEMMA OrderCall ==
    ASSUME LinkInv, OrderInv, NEW tree \in roots, NEW v \in Value, NEW op \in {"insert", "search"},
           Call(op, tree, v)
    PROVE  OrderInv' /\ PromiseStep
<1>1. /\ call' = [op |-> op, tree |-> tree, node |-> tree, value |-> v]
      /\ UNCHANGED <<value, left, right, roots, answer, stack>> /\ stack = <<>>
  BY DEF Call, Idle, nodeVars
<1>2. Ordered' /\ PromiseStep
  BY <1>1, StutterStep
<1>3. \A t : Nodes(t)' = Nodes(t)
  BY <1>1, NodesUnchanged
<1>4. \A c : Below(c)' = Below(c)
  BY <1>1, NodesUnchanged
<1>5. call'.tree = tree /\ call'.node = tree /\ call'.value = v
  BY <1>1
<1>6. TypeOK /\ Links /\ tree \in allocated /\ parent[tree] = NULL /\ tree \in Nodes(tree)
      /\ Nodes(tree) \subseteq allocated
  BY TreeFacts
<1>7. ASSUME NEW a \in Nodes(tree), NEW c \in {left[a], right[a]} PROVE tree \notin Below(c)
  <2> SUFFICES ASSUME tree \in Below(c) PROVE FALSE
    OBVIOUS
  <2>1. c # NULL /\ c \in allocated /\ parent[c] = a /\ a \in Address /\ tree \in Nodes(c)
    BY <1>6, <1>7 DEF Below, Links, Linked, TypeOK
  <2>2. tree = c
    BY <1>6, <2>1, OrphanIsRoot
  <2> QED BY <1>6, <2>1, <2>2
<1>8. PathInv'
  BY <1>1, <1>3, <1>4, <1>5, <1>6, <1>7 DEF PathInv
<1>9. Outside'
  BY <1>1 DEF Outside
<1> QED BY <1>2, <1>8, <1>9 DEF OrderInv

LEMMA OrderDescend ==
    ASSUME LinkInv, OrderInv, call # NoCall, NEW c \in Address, Descend(c),
           \/ c = left[call.node] /\ value[call.node] < call.value
           \/ c = right[call.node] /\ value[call.node] > call.value
    PROVE  OrderInv' /\ PromiseStep
<1> DEFINE n == call.node
           t == call.tree
           v == call.value
<1>1. /\ call' = [call EXCEPT !.node = c]
      /\ UNCHANGED <<value, left, right, roots, answer, stack>>
  BY DEF Descend, nodeVars
<1>2. Ordered' /\ PromiseStep
  BY <1>1, StutterStep
<1>3. \A u : Nodes(u)' = Nodes(u)
  BY <1>1, NodesUnchanged
<1>4. \A u : Below(u)' = Below(u)
  BY <1>1, NodesUnchanged
<1>5. /\ t \in roots /\ n \in Nodes(t) /\ v \in Int
      /\ \A m \in Nodes(t) : value[m] = v => m \in Nodes(n)
      /\ \A a \in Nodes(t) : /\ n \in Below(left[a]) => value[a] < v
                             /\ n \in Below(right[a]) => value[a] > v
  BY DEF OrderInv, PathInv, LinkInv, TypeOK
<1>6. call'.tree = t /\ call'.node = c /\ call'.value = v
  <2>1. call \in [op : {"insert", "search"}, tree : Address, node : Address, value : Value]
    BY DEF LinkInv, TypeOK
  <2> QED BY <1>1, <2>1
<1> HIDE DEF n, t, v
<1>7. (c = left[n] /\ value[n] < v) \/ (c = right[n] /\ value[n] > v)
  BY DEF n, v
<1>8. /\ TypeOK /\ Links /\ t \in allocated /\ parent[t] = NULL
      /\ Nodes(t) \subseteq allocated /\ Nodes(t) \in SUBSET Address
      /\ \A a \in Nodes(t) :
            /\ a \in allocated /\ a \in Address /\ value[a] \in Int
            /\ Below(left[a]) \subseteq Nodes(t) /\ Below(right[a]) \subseteq Nodes(t)
            /\ Nodes(a) = {a} \cup Below(left[a]) \cup Below(right[a])
  BY <1>5, TreeFacts
<1>9. /\ c # NULL /\ parent[c] = n /\ c \in Nodes(c) /\ Below(c) = Nodes(c) /\ c \in Nodes(t)
      /\ left[n] # right[n]
  <2>1. n \in allocated /\ c # NULL
    BY <1>5, <1>8
  <2>2. parent[c] = n /\ left[n] # right[n]
    BY <1>7, <1>8, <2>1 DEF Links, Linked
  <2>3. c \in Nodes(c) /\ Below(c) = Nodes(c)
    BY <1>8, <2>1, NodesClosed DEF Below
  <2> QED BY <1>5, <1>7, <1>8, <2>1, <2>2, <2>3
<1>10. \A m \in Nodes(t) : value[m] = v => m \in Nodes(c)
  <2> SUFFICES ASSUME NEW m \in Nodes(t), value[m] = v PROVE m \in Nodes(c)
    OBVIOUS
  <2>1. m \in {n} \cup Below(left[n]) \cup Below(right[n]) /\ value[m] \in Int /\ value[n] \in Int
    BY <1>5, <1>8
  <2>2. /\ \A u \in Below(left[n]) : value[u] > value[n]
        /\ \A u \in Below(right[n]) : value[u] < value[n]
    BY <1>5 DEF OrderInv, Ordered
  <2>3. CASE c = left[n] /\ value[n] < v
    BY <1>5, <1>9, <2>1, <2>2, <2>3
  <2>4. CASE c = right[n] /\ value[n] > v
    BY <1>5, <1>9, <2>1, <2>2, <2>4
  <2> QED BY <1>7, <2>3, <2>4
<1>11. ASSUME NEW a \in Nodes(t), a # n, NEW d \in {left[a], right[a]}, c \in Below(d)
       PROVE  n \in Below(d)
  <2>1. d # NULL /\ d \in allocated /\ parent[d] = a /\ c \in Nodes(d) /\ Below(d) = Nodes(d)
    BY <1>8, <1>11 DEF Below, Links, Linked
  <2>2. c # d
    BY <1>9, <1>11, <2>1
  <2> QED BY <1>8, <1>9, <2>1, <2>2, ParentInTree
<1>12. n \notin Below(left[n]) /\ n \notin Below(right[n])
  <2>1. value[n] \in Int
    BY <1>5, <1>8
  <2> QED BY <1>5, <2>1 DEF OrderInv, Ordered
<1>13. ASSUME NEW d \in {left[n], right[n]}, c \in Below(d), d # c
       PROVE  FALSE
  <2>1. d # NULL /\ d \in allocated /\ c \in Nodes(d) /\ Below(d) = Nodes(d)
    BY <1>5, <1>8, <1>13 DEF Below, Links, Linked
  <2>2. n \in Nodes(d)
    BY <1>8, <1>9, <1>13, <2>1, ParentInTree
  <2> QED BY <1>12, <1>13, <2>1, <2>2
<1>14. ASSUME NEW a \in Nodes(t)
       PROVE  /\ c \in Below(left[a]) => value[a] < v
              /\ c \in Below(right[a]) => value[a] > v
  <2>1. CASE a # n
    <3>1. c \in Below(left[a]) => n \in Below(left[a])
      BY <1>11, <2>1
    <3>2. c \in Below(right[a]) => n \in Below(right[a])
      BY <1>11, <2>1
    <3>3. /\ n \in Below(left[a]) => value[a] < v
          /\ n \in Below(right[a]) => value[a] > v
      BY <1>5
    <3> QED BY <3>1, <3>2, <3>3
  <2>2. CASE a = n
    <3>1. CASE c = left[n] /\ value[n] < v
      <4>1. c \notin Below(right[n])
        BY <1>9, <1>13, <3>1
      <4> QED BY <2>2, <3>1, <4>1
    <3>2. CASE c = right[n] /\ value[n] > v
      <4>1. c \notin Below(left[n])
        BY <1>9, <1>13, <3>2
      <4> QED BY <2>2, <3>2, <4>1
    <3> QED BY <1>7, <3>1, <3>2
  <2> QED BY <2>1, <2>2
<1>15. PathInv'
  BY <1>1, <1>3, <1>4, <1>5, <1>6, <1>9, <1>10, <1>14 DEF PathInv
<1>16. Outside'
  BY <1>1, <1>3 DEF OrderInv, Outside
<1> QED BY <1>2, <1>15, <1>16 DEF OrderInv

LEMMA OrderSearch == LinkInv /\ OrderInv /\ binarySearch => OrderInv' /\ PromiseStep
<1> SUFFICES ASSUME LinkInv, OrderInv, binarySearch PROVE OrderInv' /\ PromiseStep
  OBVIOUS
<1> DEFINE n == call.node
           t == call.tree
           v == call.value
<1>1. call # NoCall /\ TypeOK
  BY DEF binarySearch, NoCall, LinkInv
<1>2. call \in [op : {"insert", "search"}, tree : Address, node : Address, value : Value]
  BY <1>1 DEF TypeOK
<1>3. /\ t \in roots /\ n \in Nodes(t) /\ v \in Int /\ v \in Value
      /\ \A m \in Nodes(t) : value[m] = v => m \in Nodes(n)
  BY <1>1, <1>2 DEF OrderInv, PathInv
<1>4. /\ n \in Address /\ value[n] \in Int /\ left[n] \in Pointer /\ right[n] \in Pointer
      /\ Nodes(n) \subseteq Nodes(t) /\ n \in Nodes(n)
      /\ Nodes(n) = {n} \cup Below(left[n]) \cup Below(right[n])
      /\ \A m \in Nodes(t) : value[m] \in Int
  BY <1>1, <1>3, TreeFacts DEF TypeOK
<1>5. CASE \/ value[n] < v /\ left[n] # NULL /\ Descend(left[n])
           \/ value[n] > v /\ right[n] # NULL /\ Descend(right[n])
  <2>1. left[n] # NULL => left[n] \in Address
    BY <1>4 DEF Pointer
  <2>2. right[n] # NULL => right[n] \in Address
    BY <1>4 DEF Pointer
  <2> QED BY <1>1, <1>5, <2>1, <2>2, OrderDescend
<1>6. ASSUME NEW found \in BOOLEAN, Answers(found), found <=> v \in Contents(t)
      PROVE  OrderInv' /\ PromiseStep
  <2>1. /\ answer' = [tree |-> t, value |-> v, found |-> found]
        /\ call' = NoCall /\ UNCHANGED <<value, left, right, roots, stack>>
    BY <1>6 DEF Answers, Returns, nodeVars
  <2>2. Ordered' /\ \A u : Nodes(u)' = Nodes(u) /\ Contents(u)' = Contents(u)
    BY <2>1, QuietStep
  <2>3. OrderInv'
    BY <2>1, <2>2 DEF OrderInv, PathInv, Outside
  <2>4. Content' = Content /\ DOMAIN Content = roots /\ Content[t] = Contents(t)
    BY <1>3, <2>1, <2>2 DEF Content
  <2>5. Promise!Search(t, v)
    <3>1. found = (v \in Contents(t))
      BY <1>6
    <3> QED BY <2>1, <2>4, <3>1 DEF Promise!Search
  <2> QED BY <1>3, <2>3, <2>4, <2>5 DEF PromiseStep, Promise!Next
<1>7. CASE value[n] = v /\ Answers(TRUE)
  <2>1. v \in Contents(t)
    BY <1>3, <1>7 DEF Contents
  <2> QED BY <1>6, <1>7, <2>1
<1>8. CASE /\ value[n] # v /\ Answers(FALSE)
           /\ ~ (value[n] < v /\ left[n] # NULL)
           /\ ~ (value[n] > v /\ right[n] # NULL)
  <2>1. ASSUME NEW m \in Nodes(t), value[m] = v PROVE FALSE
    <3>1. m # n /\ m \in Below(left[n]) \cup Below(right[n])
      BY <1>3, <1>4, <1>8, <2>1
    <3>2. /\ \A u \in Below(left[n]) : value[u] > value[n]
          /\ \A u \in Below(right[n]) : value[u] < value[n]
      BY <1>3 DEF OrderInv, Ordered
    <3>3. Below(NULL) = {}
      BY DEF Below
    <3>4. CASE m \in Below(left[n])
      BY <1>3, <1>4, <1>8, <2>1, <3>2, <3>3, <3>4
    <3>5. CASE m \in Below(right[n])
      BY <1>3, <1>4, <1>8, <2>1, <3>2, <3>3, <3>5
    <3> QED BY <3>1, <3>4, <3>5
  <2>2. v \notin Contents(t)
    BY <2>1 DEF Contents
  <2> QED BY <1>6, <1>8, <2>2
<1>9. CASE value[n] = v
  <2>1. ~ (value[n] < v) /\ ~ (value[n] > v)
    BY <1>3, <1>4, <1>9
  <2>2. Answers(TRUE)
    BY <1>9, <2>1 DEF binarySearch
  <2> QED BY <1>7, <1>9, <2>2
<1>10. CASE value[n] < v /\ left[n] # NULL
  <2>1. value[n] # v /\ ~ (value[n] > v)
    BY <1>3, <1>4, <1>10
  <2>2. Descend(left[n])
    BY <1>10, <2>1 DEF binarySearch
  <2> QED BY <1>5, <1>10, <2>2
<1>11. CASE value[n] > v /\ right[n] # NULL
  <2>1. value[n] # v /\ ~ (value[n] < v)
    BY <1>3, <1>4, <1>11
  <2>2. Descend(right[n])
    BY <1>11, <2>1 DEF binarySearch
  <2> QED BY <1>5, <1>11, <2>2
<1>12. CASE value[n] # v /\ ~ (value[n] < v /\ left[n] # NULL) /\ ~ (value[n] > v /\ right[n] # NULL)
  <2>1. Answers(FALSE)
    BY <1>12 DEF binarySearch
  <2> QED BY <1>8, <1>12, <2>1
<1> QED BY <1>9, <1>10, <1>11, <1>12

(* Ordered after a step.                                                   *)
BelowNext(c) == IF c = NULL THEN {} ELSE Reach(left', right', c)

LEMMA OrderedNext ==
    ASSUME \A t \in roots' : \A n \in Nodes(t)' :
               /\ \A m \in BelowNext(left'[n]) : value'[m] > value'[n]
               /\ \A m \in BelowNext(right'[n]) : value'[m] < value'[n]
    PROVE  Ordered'
BY DEF Ordered, Below, BelowNext, Nodes, Reach, Closed, ClosedUnder

(* A value smaller or larger than all on its way down joins its tree, and  *)
(* no other.                                                               *)
LEMMA OrderJoin ==
    ASSUME LinkInv, LinkInv', OrderInv, call # NoCall,
           NEW node \in Address, createTree(node, call.value),
           \/ /\ left[call.node] = NULL /\ left' = [left EXCEPT ![call.node] = node]
              /\ right' = right /\ value[call.node] < call.value
           \/ /\ right[call.node] = NULL /\ right' = [right EXCEPT ![call.node] = node]
              /\ left' = left /\ value[call.node] > call.value,
           Returns, UNCHANGED answer
    PROVE  OrderInv' /\ PromiseStep
<1> DEFINE n == call.node
           t == call.tree
           v == call.value
<1>1. /\ call' = NoCall /\ UNCHANGED <<roots, stack, answer>> /\ stack = <<>>
      /\ node \notin allocated /\ value' = [value EXCEPT ![node] = v]
  BY DEF Returns, createTree, LinkInv, StackInv
<1>2. /\ t \in roots /\ n \in Nodes(t) /\ v \in Int /\ v \in Value
      /\ \A a \in Nodes(t) : n \in Below(left[a]) => value[a] < v
      /\ \A a \in Nodes(t) : n \in Below(right[a]) => value[a] > v
  BY DEF OrderInv, PathInv, LinkInv, TypeOK
<1>3. /\ \/ /\ left[n] = NULL /\ left' = [left EXCEPT ![n] = node]
            /\ right' = right /\ value[n] < v
         \/ /\ right[n] = NULL /\ right' = [right EXCEPT ![n] = node]
            /\ left' = left /\ value[n] > v
  OBVIOUS
<1> HIDE DEF n, t, v
<1>4. TypeOK /\ TypeOK' /\ Links /\ allocated \subseteq Address
  BY DEF LinkInv, Links, TypeOK
<1>5. n \in Address /\ n \in allocated /\ n # node /\ value[n] \in Int
  BY <1>1, <1>2, TreeFacts
<1>6. /\ \A a \in Address : a # n => left'[a] = left[a] /\ right'[a] = right[a]
      /\ \/ left[n] = NULL /\ left'[n] = node /\ right'[n] = right[n] /\ value[n] < v
         \/ right[n] = NULL /\ right'[n] = node /\ left'[n] = left[n] /\ value[n] > v
  BY <1>3, <1>4, <1>5 DEF TypeOK
<1>7. left'[node] = NULL /\ right'[node] = NULL
  <2>1. left[node] = NULL /\ right[node] = NULL
    BY <1>1 DEF LinkInv, BlankBlocks
  <2> QED BY <1>5, <1>6, <2>1
<1>8. /\ value'[node] = v
      /\ \A m \in allocated : value'[m] = value[m]
  BY <1>1, <1>4 DEF TypeOK
<1>9. ASSUME NEW u \in Address
      PROVE  Nodes(u)' = IF n \in Nodes(u) THEN Nodes(u) \cup {node} ELSE Nodes(u)
  <2>1. CASE n \in Nodes(u)
    BY <1>4, <1>6, <1>7, <2>1, NodesJoined
  <2>2. CASE n \notin Nodes(u)
    <3>1. \A m \in Nodes(u) : left'[m] = left[m] /\ right'[m] = right[m]
      BY <1>4, <1>6, <2>2, NodesClosed
    <3> QED BY <1>4, <2>2, <3>1, NodesSame
  <2> QED BY <2>1, <2>2
<1>10. ASSUME NEW c \in Pointer
       PROVE  BelowNext(c) = IF n \in Below(c) THEN Below(c) \cup {node} ELSE Below(c)
  BY <1>9, NodesReach DEF Below, BelowNext, Pointer
<1>11. ASSUME NEW u \in roots
       PROVE  Nodes(u)' = IF u = t THEN Nodes(u) \cup {node} ELSE Nodes(u)
  <2>1. u \in Address /\ u \in allocated /\ parent[u] = NULL
    BY TreeFacts
  <2>2. t \in allocated /\ parent[t] = NULL
    BY <1>2, TreeFacts
  <2>3. n \in Nodes(u) <=> u = t
    BY <1>2, <1>4, <2>1, <2>2, TreesDisjoint
  <2> QED BY <1>9, <2>1, <2>3
<1>12. ASSUME NEW u \in roots, NEW a \in Nodes(u)
       PROVE  /\ \A m \in BelowNext(left'[a]) : value'[m] > value'[a]
              /\ \A m \in BelowNext(right'[a]) : value'[m] < value'[a]
  <2>1. /\ a \in allocated /\ a \in Address /\ Nodes(u) \subseteq allocated
        /\ Below(left[a]) \subseteq Nodes(u) /\ Below(right[a]) \subseteq Nodes(u)
        /\ value[a] \in Int /\ left[a] \in Pointer /\ right[a] \in Pointer
    BY <1>4, TreeFacts DEF TypeOK
  <2>2. /\ \A m \in Below(left[a]) : value'[m] > value'[a]
        /\ \A m \in Below(right[a]) : value'[m] < value'[a]
    BY <1>8, <2>1 DEF OrderInv, Ordered
  <2>3. value'[a] = value[a]
    BY <1>8, <2>1
  <2>4. u \in Address /\ u \in allocated /\ parent[u] = NULL /\ t \in allocated /\ parent[t] = NULL
    BY <1>2, TreeFacts
  <2>5. CASE a # n
    <3>1. left'[a] = left[a] /\ right'[a] = right[a]
      BY <1>6, <2>1, <2>5
    <3>2. n \in Nodes(u) => u = t
      BY <1>2, <1>4, <2>4, TreesDisjoint
    <3>3. /\ n \in Below(left[a]) => v > value[a]
          /\ n \in Below(right[a]) => v < value[a]
      BY <1>2, <2>1, <3>2
    <3>4. /\ \A m \in BelowNext(left'[a]) :
                m \in Below(left[a]) \/ (m = node /\ n \in Below(left[a]))
          /\ \A m \in BelowNext(right'[a]) :
                m \in Below(right[a]) \/ (m = node /\ n \in Below(right[a]))
      BY <1>10, <2>1, <3>1
    <3> QED BY <1>8, <2>2, <2>3, <3>1, <3>3, <3>4
  <2>6. CASE a = n
    <3>1. n \notin Below(left[n]) /\ n \notin Below(right[n])
      BY <1>5, <2>6 DEF OrderInv, Ordered
    <3>2. n \notin Nodes(node)
      <4>1. {node} \in SUBSET Address /\ Closed({node})
        <5>1. left[node] = NULL /\ right[node] = NULL
          BY <1>5, <1>6, <1>7
        <5> QED BY <5>1 DEF Closed
      <4> QED BY <1>5, <4>1, NodesLeast
    <3>3. BelowNext(node) = {node}
      <4>1. BelowNext(node) = Nodes(node)
        BY <1>9, <3>2, NodesReach DEF BelowNext
      <4>2. {node} \in SUBSET Address /\ Closed({node})
        <5>1. left[node] = NULL /\ right[node] = NULL
          BY <1>5, <1>6, <1>7
        <5> QED BY <5>1 DEF Closed
      <4>3. Nodes(node) \subseteq {node}
        BY <4>2, NodesLeast
      <4>4. node \in Nodes(node)
        BY <1>4, NodesClosed
      <4> QED BY <4>1, <4>3, <4>4
    <3>4. CASE left'[n] = node /\ right'[n] = right[n] /\ value[n] < v
      <4>1. BelowNext(right'[n]) = Below(right[n])
        BY <1>10, <2>1, <2>6, <3>1, <3>4
      <4> QED BY <1>8, <2>2, <2>3, <2>6, <3>3, <3>4, <4>1
    <3>5. CASE right'[n] = node /\ left'[n] = left[n] /\ value[n] > v
      <4>1. BelowNext(left'[n]) = Below(left[n])
        BY <1>10, <2>1, <2>6, <3>1, <3>5
      <4> QED BY <1>8, <2>2, <2>3, <2>6, <3>3, <3>5, <4>1
    <3> QED BY <1>6, <3>4, <3>5
  <2> QED BY <2>5, <2>6
<1>13. BelowNext(left'[node]) = {} /\ BelowNext(right'[node]) = {}
  BY <1>7 DEF BelowNext
<1>14. Ordered'
  <2>1. ASSUME NEW u \in roots', NEW a \in Nodes(u)'
        PROVE  /\ \A m \in BelowNext(left'[a]) : value'[m] > value'[a]
               /\ \A m \in BelowNext(right'[a]) : value'[m] < value'[a]
    <3>1. u \in roots /\ (a \in Nodes(u) \/ a = node)
      BY <1>1, <1>11, <2>1
    <3> QED BY <1>12, <1>13, <3>1
  <2> QED BY <2>1, OrderedNext
<1>15. OrderInv'
  BY <1>1, <1>14 DEF OrderInv, PathInv, Outside
<1>16. ASSUME NEW u \in roots
       PROVE  Contents(u)' = IF u = t THEN Contents(u) \cup {v} ELSE Contents(u)
  <2>1. \A m \in Nodes(u) : value'[m] = value[m]
    BY <1>8, TreeFacts
  <2> QED BY <1>8, <1>11, <2>1 DEF Contents
<1>17. Content' = [Content EXCEPT ![t] = @ \cup {v}]
  <2>1. DOMAIN Content = roots /\ \A u \in roots : Content[u] = Contents(u)
    BY DEF Content
  <2> QED BY <1>1, <1>2, <1>16, <2>1 DEF Content
<1>18. Promise!Insert(t, v) /\ t \in DOMAIN Content
  BY <1>1, <1>2, <1>17 DEF Promise!Insert, Content
<1> QED BY <1>2, <1>15, <1>18 DEF PromiseStep, Promise!Next

LEMMA OrderInsert == LinkInv /\ LinkInv' /\ OrderInv /\ insert => OrderInv' /\ PromiseStep
<1> SUFFICES ASSUME LinkInv, LinkInv', OrderInv, insert PROVE OrderInv' /\ PromiseStep
  OBVIOUS
<1> DEFINE n == call.node
           v == call.value
<1>1. call # NoCall /\ TypeOK
  BY DEF insert, NoCall, LinkInv
<1>2. call \in [op : {"insert", "search"}, tree : Address, node : Address, value : Value]
  BY <1>1 DEF TypeOK
<1>3. n \in Address /\ v \in Int /\ value[n] \in Int /\ left[n] \in Pointer /\ right[n] \in Pointer
  BY <1>1, <1>2 DEF TypeOK
<1>4. ASSUME UNCHANGED <<value, left, right, roots, answer, stack>>, call' = NoCall \/ call' = call
      PROVE  OrderInv' /\ PromiseStep
  <2>1. Ordered' /\ PromiseStep
    BY <1>4, StutterStep
  <2>2. (\A u : Nodes(u)' = Nodes(u)) /\ \A c : Below(c)' = Below(c)
    BY <1>4, NodesUnchanged
  <2> QED BY <1>4, <2>1, <2>2 DEF OrderInv, PathInv, Outside
<1>5. CASE value[n] = v
  <2>1. ~ (value[n] < v) /\ ~ (value[n] > v)
    BY <1>3, <1>5
  <2>2. Returns /\ UNCHANGED <<nodeVars, allocated, answer>>
    BY <1>5, <2>1 DEF insert
  <2> QED BY <1>4, <2>2 DEF Returns, nodeVars
<1>6. CASE value[n] < v
  <2>1. value[n] # v /\ ~ (value[n] > v)
    BY <1>3, <1>6
  <2>2. CASE left[n] # NULL
    <3>1. Descend(left[n])
      BY <1>6, <2>1, <2>2 DEF insert
    <3>2. left[n] \in Address
      BY <1>3, <2>2 DEF Pointer
    <3> QED BY <1>1, <1>6, <3>1, <3>2, OrderDescend
  <2>3. CASE left[n] = NULL
    <3>1. \/ MallocFails
          \/ \E node \in Address :
                /\ createTree(node, v)
                /\ left' = [left EXCEPT ![n] = node]
                /\ Returns /\ UNCHANGED <<right, answer>>
      BY <1>6, <2>1, <2>3 DEF insert
    <3>2. CASE MallocFails
      BY <1>4, <3>2 DEF MallocFails, nodeVars
    <3> QED BY <1>1, <1>6, <2>3, <3>1, <3>2, OrderJoin
  <2> QED BY <2>2, <2>3
<1>7. CASE value[n] > v
  <2>1. value[n] # v /\ ~ (value[n] < v)
    BY <1>3, <1>7
  <2>2. CASE right[n] # NULL
    <3>1. Descend(right[n])
      BY <1>7, <2>1, <2>2 DEF insert
    <3>2. right[n] \in Address
      BY <1>3, <2>2 DEF Pointer
    <3> QED BY <1>1, <1>7, <3>1, <3>2, OrderDescend
  <2>3. CASE right[n] = NULL
    <3>1. \/ MallocFails
          \/ \E node \in Address :
                /\ createTree(node, v)
                /\ right' = [right EXCEPT ![n] = node]
                /\ Returns /\ UNCHANGED <<left, answer>>
      BY <1>7, <2>1, <2>3 DEF insert
    <3>2. CASE MallocFails
      BY <1>4, <3>2 DEF MallocFails, nodeVars
    <3> QED BY <1>1, <1>7, <2>3, <3>1, <3>2, OrderJoin
  <2> QED BY <2>2, <2>3
<1>8. value[n] < v \/ value[n] > v \/ value[n] = v
  BY <1>3
<1> QED BY <1>5, <1>6, <1>7, <1>8

LEMMA OrderCleanUp ==
    ASSUME LinkInv, OrderInv, NEW tree \in roots, CleanUp(tree)
    PROVE  OrderInv' /\ PromiseStep
<1>1. /\ call = NoCall /\ call' = NoCall /\ roots' = roots \ {tree} /\ tree \in Address
      /\ stack' = <<[node |-> tree, at |-> "right"]>>
      /\ UNCHANGED <<value, left, right, answer>>
  BY DEF CleanUp, Idle, nodeVars, LinkInv, TypeOK
<1>2. Ordered' /\ \A t : Nodes(t)' = Nodes(t) /\ Contents(t)' = Contents(t)
  BY <1>1, QuietStep
<1>3. \A t \in roots : t # tree => tree \notin Nodes(t)
  BY TreeFacts, OrphanIsRoot
<1>4. \A i \in 1..Len(stack') : stack'[i].node = tree
  <2>1. [node |-> tree, at |-> "right"] \in Frame
    BY <1>1 DEF Frame
  <2>2. Len(stack') = 1 /\ stack'[1] = [node |-> tree, at |-> "right"]
    BY <1>1, <2>1
  <2> QED BY <2>2
<1>5. OrderInv'
  BY <1>1, <1>2, <1>3, <1>4 DEF OrderInv, PathInv, Outside
<1>6. DOMAIN Content = roots /\ \A t \in roots : Content[t] = Contents(t)
  BY DEF Content
<1>7. Content' = [u \in DOMAIN Content \ {tree} |-> Content[u]]
  BY <1>1, <1>2, <1>6 DEF Content
<1>8. Promise!CleanUp(tree) /\ tree \in DOMAIN Content
  BY <1>1, <1>6, <1>7 DEF Promise!CleanUp
<1> QED BY <1>5, <1>8 DEF PromiseStep, Promise!Next

(* A node that is linked to is outside the trees like the one that links.  *)
LEMMA OutsideChild ==
    ASSUME LinkInv, NEW a \in allocated, NEW c \in {left[a], right[a]}, c # NULL,
           NEW t \in roots, a \notin Nodes(t)
    PROVE  c \notin Nodes(t)
<1>1. parent[c] = a /\ a # NULL
  BY DEF LinkInv, Linked, TypeOK
<1>2. /\ Links /\ t \in allocated /\ parent[t] = NULL
  BY TreeFacts
<1>3. c # t
  BY <1>1, <1>2
<1> QED BY <1>1, <1>2, <1>3, ParentInTree

LEMMA OrderBranch == LinkInv /\ OrderInv /\ cleanUpTree_Branch => OrderInv' /\ PromiseStep
<1> SUFFICES ASSUME LinkInv, OrderInv, cleanUpTree_Branch PROVE OrderInv' /\ PromiseStep
  OBVIOUS
<1>1. /\ stack # <<>> /\ UNCHANGED <<value, left, right, roots, answer, call>>
      /\ TypeOK /\ stack \in Seq(Frame) /\ Top.at \in {"right", "left"}
  BY DEF cleanUpTree_Branch, nodeVars, LinkInv, TypeOK, Frame
<1>2. Top = stack[1] /\ Top \in Frame /\ Len(stack) \in Nat \ {0}
  BY <1>1, HeadTailProperties, EmptySeq DEF Top
<1>3. Ordered' /\ PromiseStep
  BY <1>1, StutterStep
<1>4. (\A t : Nodes(t)' = Nodes(t)) /\ \A c : Below(c)' = Below(c)
  BY <1>1, NodesUnchanged
<1>5. PathInv'
  BY <1>1, <1>4 DEF OrderInv, PathInv
<1>6. \A t \in roots : \A i \in 1..Len(stack) : stack[i].node \notin Nodes(t)
  BY DEF OrderInv, Outside
<1>7. ASSUME NEW t \in roots, NEW i \in 1..Len(stack') PROVE stack'[i].node \notin Nodes(t)
  <2>1. CASE Child(Top) = NULL
    <3> DEFINE e == [Top EXCEPT !.at = After(@)]
    <3>1. e \in Frame /\ e.node = Top.node
      BY <1>1, <1>2 DEF Frame, After
    <3>2. stack' = <<e>> \o Tail(stack)
      BY <2>1 DEF cleanUpTree_Branch
    <3> HIDE DEF e
    <3>3. /\ Len(stack') = Len(stack)
          /\ stack'[1] = e /\ \A k \in 2..Len(stack) : stack'[k] = stack[k]
      BY <1>1, <3>1, <3>2, Replaced
    <3>4. stack'[i].node = stack[i].node
      BY <1>2, <3>1, <3>3
    <3> QED BY <1>6, <3>3, <3>4
  <2>2. CASE Child(Top) # NULL
    <3> DEFINE e == [node |-> Child(Top), at |-> "right"]
    <3>1. Child(Top) \in Address /\ Top.node \in allocated
      BY <1>1, <1>2, <2>2 DEF Child, LinkInv, StackInv, Ready, TypeOK, Pointer, Frame
    <3>2. e \in Frame /\ stack' = <<e>> \o stack /\ e.node = Child(Top)
      BY <2>2, <3>1 DEF cleanUpTree_Branch, Frame
    <3> HIDE DEF e
    <3>3. /\ Len(stack') = Len(stack) + 1 /\ stack'[1] = e
          /\ \A k \in 1..Len(stack) : stack'[k + 1] = stack[k]
      BY <1>1, <3>2, Pushed
    <3>4. CASE i = 1
      <4>1. Top.node \notin Nodes(t)
        BY <1>2, <1>6
      <4>2. Child(Top) \in {left[Top.node], right[Top.node]}
        BY DEF Child
      <4>3. Child(Top) \notin Nodes(t)
        BY <2>2, <3>1, <4>1, <4>2, OutsideChild
      <4> QED BY <3>2, <3>3, <3>4, <4>3
    <3>5. CASE i # 1
      <4>1. i - 1 \in 1..Len(stack) /\ (i - 1) + 1 = i
        BY <1>2, <3>3, <3>5
      <4> QED BY <1>6, <3>3, <4>1
    <3> QED BY <3>4, <3>5
  <2> QED BY <2>1, <2>2
<1>8. Outside'
  BY <1>1, <1>4, <1>7 DEF Outside
<1> QED BY <1>3, <1>5, <1>8 DEF OrderInv

LEMMA OrderFree == LinkInv /\ LinkInv' /\ OrderInv /\ cleanUpTree_Free => OrderInv' /\ PromiseStep
<1> SUFFICES ASSUME LinkInv, LinkInv', OrderInv, cleanUpTree_Free PROVE OrderInv' /\ PromiseStep
  OBVIOUS
<1> DEFINE callers == Tail(stack)
           x == Top.node
           f == Head(callers)
           e == [f EXCEPT !.at = After(@)]
<1>1. /\ stack # <<>> /\ UNCHANGED <<roots, call, answer>>
      /\ value' = [value EXCEPT ![x] = 0]
      /\ callers = <<>> => stack' = <<>> /\ UNCHANGED <<left, right>>
      /\ callers # <<>> =>
            /\ stack' = <<e>> \o Tail(callers)
            /\ right' = IF f.at = "right" THEN [right EXCEPT ![f.node] = NULL] ELSE right
            /\ left' = IF f.at = "left" THEN [left EXCEPT ![f.node] = NULL] ELSE left
  BY DEF cleanUpTree_Free, Freed
<1>2. /\ TypeOK /\ TypeOK' /\ stack \in Seq(Frame) /\ call = NoCall
  BY <1>1 DEF LinkInv, StackInv, TypeOK, Frame
<1>3. /\ Top \in Frame /\ Top = stack[1] /\ Len(stack) \in Nat \ {0}
      /\ callers \in Seq(Frame) /\ Len(callers) = Len(stack) - 1
      /\ \A i \in 1..Len(callers) : callers[i] = stack[i + 1]
  BY <1>1, <1>2, HeadTailProperties, EmptySeq DEF Top
<1>4. \A t \in roots : \A i \in 1..Len(stack) : stack[i].node \notin Nodes(t)
  BY DEF OrderInv, Outside
<1>5. \A t \in roots : x \notin Nodes(t)
  BY <1>3, <1>4
<1>6. /\ \A t \in roots : \A n \in Nodes(t) : left'[n] = left[n] /\ right'[n] = right[n]
      /\ \A t \in roots : \A i \in 1..Len(stack') : stack'[i].node \notin Nodes(t)
  <2>1. CASE callers = <<>>
    BY <1>1, <2>1, EmptySeq
  <2>2. CASE callers # <<>>
    <3>1. /\ f \in Frame /\ f = callers[1] /\ Len(callers) \in Nat \ {0}
      BY <1>3, <2>2, HeadTailProperties, EmptySeq
    <3>2. f = stack[2] /\ 2 \in 1..Len(stack) /\ 2 \in 2..Len(stack) /\ 2 - 1 = 1
      BY <1>3, <3>1
    <3>3. f.at # "free" /\ f.node \in Address /\ \A t \in roots : f.node \notin Nodes(t)
      BY <1>4, <3>1, <3>2 DEF LinkInv, StackInv, Calls, Frame
    <3>4. e \in Frame /\ e.node = f.node
      BY <3>1, <3>3 DEF Frame, After
    <3>5. stack' = <<e>> \o Tail(callers)
      BY <1>1, <2>2
    <3>6. \A a \in Address : a # f.node => left'[a] = left[a] /\ right'[a] = right[a]
      <4> HIDE DEF f
      <4> QED BY <1>1, <1>2, <2>2, <3>3 DEF TypeOK
    <3> HIDE DEF e, f
    <3>7. /\ Len(stack') = Len(callers)
          /\ stack'[1] = e /\ \A i \in 2..Len(callers) : stack'[i] = callers[i]
      BY <1>3, <2>2, <3>4, <3>5, Replaced
    <3>8. ASSUME NEW i \in 1..Len(stack') PROVE i + 1 \in 1..Len(stack) /\ stack'[i].node = stack[i + 1].node
      BY <1>3, <3>1, <3>2, <3>4, <3>7
    <3>9. \A t \in roots : Nodes(t) \subseteq Address
      BY TreeFacts
    <3> QED BY <1>4, <3>3, <3>6, <3>8, <3>9
  <2> QED BY <2>1, <2>2
<1>7. \A t \in roots : Nodes(t)' = Nodes(t)
  BY <1>2, <1>6, TreeFacts, NodesSame
<1>8. \A t \in roots : \A n \in Nodes(t) : value'[n] = value[n]
  <2> SUFFICES ASSUME NEW t \in roots, NEW n \in Nodes(t) PROVE value'[n] = value[n]
    OBVIOUS
  <2>1. n \in Address /\ n # x
    BY <1>5, TreeFacts
  <2> QED BY <1>1, <1>2, <2>1 DEF TypeOK
<1>9. ASSUME NEW t \in roots, NEW n \in Nodes(t), NEW c \in {left[n], right[n]}
      PROVE  BelowNext(c) = Below(c) /\ Below(c) \subseteq Nodes(t)
  <2>1. CASE c = NULL
    BY <2>1 DEF Below, BelowNext
  <2>2. CASE c # NULL
    <3>1. c \in Address /\ Below(c) \subseteq Nodes(t) /\ Below(c) = Nodes(c)
      <4>1. left[n] \in Pointer /\ right[n] \in Pointer /\ Below(c) \subseteq Nodes(t)
        BY <1>2, <1>9, TreeFacts DEF TypeOK
      <4> QED BY <1>9, <2>2, <4>1 DEF Below, Pointer
    <3>2. \A m \in Nodes(c) : left'[m] = left[m] /\ right'[m] = right[m]
      BY <1>6, <3>1
    <3>3. Nodes(c)' = Nodes(c)
      BY <1>2, <3>1, <3>2, NodesSame
    <3> QED BY <2>2, <3>1, <3>3, NodesReach DEF BelowNext
  <2> QED BY <2>1, <2>2
<1>10. ASSUME NEW t \in roots', NEW n \in Nodes(t)'
       PROVE  /\ \A m \in BelowNext(left'[n]) : value'[m] > value'[n]
              /\ \A m \in BelowNext(right'[n]) : value'[m] < value'[n]
  <2>1. t \in roots /\ n \in Nodes(t)
    BY <1>1, <1>7
  <2>2. left'[n] = left[n] /\ right'[n] = right[n] /\ value'[n] = value[n]
    BY <1>6, <1>8, <2>1
  <2>3. /\ BelowNext(left[n]) = Below(left[n]) /\ Below(left[n]) \subseteq Nodes(t)
        /\ BelowNext(right[n]) = Below(right[n]) /\ Below(right[n]) \subseteq Nodes(t)
    BY <1>9, <2>1
  <2> QED BY <1>8, <2>1, <2>2, <2>3 DEF OrderInv, Ordered
<1>11. Ordered'
  BY <1>10, OrderedNext
<1>12. OrderInv'
  BY <1>1, <1>2, <1>6, <1>7, <1>11 DEF OrderInv, PathInv, Outside
<1>13. \A t \in roots : Contents(t)' = Contents(t)
  BY <1>7, <1>8 DEF Contents
<1>14. Content' = Content
  BY <1>1, <1>13 DEF Content
<1> QED BY <1>1, <1>12, <1>14 DEF PromiseStep

LEMMA OrderInit == Init => OrderInv /\ Promise!Init
<1> SUFFICES ASSUME Init PROVE OrderInv /\ Promise!Init
  OBVIOUS
<1>1. OrderInv
  BY DEF Init, OrderInv, Ordered, PathInv, Outside
<1>2. Promise!Init
  BY DEF Init, Promise!Init, Content, NoAnswer
<1> QED BY <1>1, <1>2

LEMMA OrderNext == LinkInv /\ LinkInv' /\ OrderInv /\ [Next]_vars => OrderInv' /\ PromiseStep
<1> SUFFICES ASSUME LinkInv, LinkInv', OrderInv, [Next]_vars PROVE OrderInv' /\ PromiseStep
  OBVIOUS
<1>1. CASE UNCHANGED vars
  <2>1. UNCHANGED <<value, left, right, roots, answer, call, stack>>
    BY <1>1 DEF vars, nodeVars
  <2>2. Ordered' /\ PromiseStep
    BY <2>1, StutterStep
  <2>3. (\A u : Nodes(u)' = Nodes(u)) /\ \A c : Below(c)' = Below(c)
    BY <2>1, NodesUnchanged
  <2> QED BY <2>1, <2>2, <2>3 DEF OrderInv, PathInv, Outside
<1> QED
  BY <1>1, OrderNewTree, OrderCall, OrderInsert, OrderSearch, OrderCleanUp, OrderBranch, OrderFree
     DEF Next, Running, Crashed

(* The trees are the sets tree.h promises: a search finds exactly what was *)
(* inserted into its tree since it was created, and a call on one tree     *)
(* changes no other (tree.h:9-19, tree.c:8-83).                            *)
THEOREM PromiseIsKept == Spec => KeepsPromise
<1>1. Init => LinkInv /\ OrderInv /\ Promise!Init
  BY InitInv, OrderInit
<1>2. LinkInv /\ OrderInv /\ [Next]_vars =>
         (LinkInv /\ OrderInv)' /\ [Promise!Next]_<<Content, answer>>
  BY NextInv, OrderNext DEF PromiseStep
<1> QED BY <1>1, <1>2, PTL DEF Spec, KeepsPromise, Promise!Spec
=============================================================================
