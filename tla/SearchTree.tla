----------------------------- MODULE SearchTree ------------------------------
(***************************************************************************)
(* tree.c of "Blatt 1 - Speicherverwaltung/Tree": search trees without     *)
(* double entries.  createTree sets the value of a node and nothing else:  *)
(* `left' and `right' are what malloc returns.  What it returns is kept    *)
(* here: a block that has been freed comes back with its old children,     *)
(* since the allocator writes only over the words of `value' and `parent'. *)
(* The program is any sequence of calls on any number of trees; one action *)
(* is one call of a recursive function.                                    *)
(***************************************************************************)
EXTENDS Integers, Sequences

CONSTANTS
    Address,        \* blocks of the heap
    NULL,
    Value           \* values the program uses

ASSUME TreeAssumption == NULL \notin Address /\ Value \subseteq Int

VARIABLES
    value, parent, left, right,   \* the node in each block
    allocated,                    \* blocks malloc has given out
    roots,                        \* the trees the program holds
    call,                         \* the call of insert or binarySearch that runs
    stack,                        \* the calls of cleanUpTree, the innermost first
    answer,                       \* the last search and what it returned
    crashed                       \* malloc returned NULL, createTree wrote to it

nodeVars == <<value, parent, left, right>>
vars == <<nodeVars, allocated, roots, call, stack, answer, crashed>>

Pointer == Address \cup {NULL}
NoCall == [op |-> "none", tree |-> NULL, node |-> NULL, value |-> 0]
NoAnswer == [tree |-> NULL, value |-> 0, found |-> FALSE]

TypeOK ==
    /\ value \in [Address -> Int]
    /\ parent \in [Address -> Pointer] /\ left \in [Address -> Pointer]
    /\ right \in [Address -> Pointer]
    /\ allocated \subseteq Address
    /\ roots \subseteq Address
    /\ \/ call = NoCall
       \/ call \in [op : {"insert", "search"}, tree : Address, node : Address, value : Value]
    /\ stack \in Seq([node : Address, at : {"right", "left", "free"}])
    /\ \/ answer = NoAnswer
       \/ answer \in [tree : Address, value : Value, found : BOOLEAN]
    /\ crashed \in BOOLEAN

(* The heap starts with zeroed pages.                                      *)
Init ==
    /\ value = [a \in Address |-> 0]
    /\ parent = [a \in Address |-> NULL]
    /\ left = [a \in Address |-> NULL]
    /\ right = [a \in Address |-> NULL]
    /\ allocated = {}
    /\ roots = {}
    /\ call = NoCall
    /\ stack = <<>>
    /\ answer = NoAnswer
    /\ crashed = FALSE

-----------------------------------------------------------------------------
Idle == call = NoCall /\ stack = <<>> /\ ~ crashed

(* malloc returned node; createTree sets its value.                        *)
createTree(node, v) ==
    /\ node \in Address \ allocated
    /\ allocated' = allocated \cup {node}
    /\ value' = [value EXCEPT ![node] = v]

(* malloc may fail; createTree writes through the null pointer.            *)
MallocFails == crashed' = TRUE /\ UNCHANGED <<nodeVars, allocated, roots, call, stack, answer>>

NewTree(v) ==
    /\ Idle
    /\ \/ MallocFails
       \/ \E node \in Address :
             /\ createTree(node, v)
             /\ roots' = roots \cup {node}
             /\ UNCHANGED <<parent, left, right, call, stack, answer, crashed>>

Call(op, tree, v) ==
    /\ Idle
    /\ tree \in roots
    /\ call' = [op |-> op, tree |-> tree, node |-> tree, value |-> v]
    /\ UNCHANGED <<nodeVars, allocated, roots, stack, answer, crashed>>

Descend(child) ==
    /\ call' = [call EXCEPT !.node = child]
    /\ UNCHANGED <<nodeVars, allocated, roots, stack, answer, crashed>>

Returns ==
    /\ call' = NoCall
    /\ UNCHANGED <<roots, stack, crashed>>

(* Larger values are on the left.                                          *)
insert ==
    LET n == call.node IN
    /\ call.op = "insert" /\ ~ crashed
    /\ CASE value[n] < call.value /\ left[n] # NULL -> Descend(left[n])
         [] value[n] > call.value /\ right[n] # NULL -> Descend(right[n])
         [] value[n] < call.value /\ left[n] = NULL ->
               \/ MallocFails
               \/ \E node \in Address :
                     /\ createTree(node, call.value)
                     /\ left' = [left EXCEPT ![n] = node]
                     /\ parent' = [parent EXCEPT ![node] = n]
                     /\ Returns /\ UNCHANGED <<right, answer>>
         [] value[n] > call.value /\ right[n] = NULL ->
               \/ MallocFails
               \/ \E node \in Address :
                     /\ createTree(node, call.value)
                     /\ right' = [right EXCEPT ![n] = node]
                     /\ parent' = [parent EXCEPT ![node] = n]
                     /\ Returns /\ UNCHANGED <<left, answer>>
         [] value[n] = call.value -> Returns /\ UNCHANGED <<nodeVars, allocated, answer>>

Answers(found) ==
    /\ answer' = [tree |-> call.tree, value |-> call.value, found |-> found]
    /\ Returns
    /\ UNCHANGED <<nodeVars, allocated>>

binarySearch_Mirrored ==         \* mutant: larger values looked for on the right
    LET n == call.node IN
    /\ call.op = "search"
    /\ CASE value[n] = call.value -> Answers(TRUE)
         [] value[n] > call.value /\ left[n] # NULL -> Descend(left[n])
         [] value[n] < call.value /\ right[n] # NULL -> Descend(right[n])
         [] OTHER -> Answers(FALSE)

binarySearch_Same ==             \* mutant: the inner call gets the same node
    LET n == call.node IN
    /\ call.op = "search"
    /\ CASE value[n] = call.value -> Answers(TRUE)
         [] value[n] < call.value /\ left[n] # NULL -> Descend(n)
         [] value[n] > call.value /\ right[n] # NULL -> Descend(right[n])
         [] OTHER -> Answers(FALSE)

(* What the inner call returns is returned: the tests that follow it fail. *)
binarySearch ==
    LET n == call.node IN
    /\ call.op = "search"
    /\ CASE value[n] = call.value -> Answers(TRUE)
         [] value[n] < call.value /\ left[n] # NULL -> Descend(left[n])
         [] value[n] > call.value /\ right[n] # NULL -> Descend(right[n])
         [] OTHER -> Answers(FALSE)

-----------------------------------------------------------------------------
(* cleanUpTree; the program forgets the tree.                              *)
CleanUp(tree) ==
    /\ Idle
    /\ tree \in roots
    /\ roots' = roots \ {tree}
    /\ stack' = <<[node |-> tree, at |-> "right"]>>
    /\ UNCHANGED <<nodeVars, allocated, call, answer, crashed>>

Top == Head(stack)
Child(frame) == IF frame.at = "right" THEN right[frame.node] ELSE left[frame.node]
After(place) == IF place = "right" THEN "left" ELSE "free"

cleanUpTree_Branch ==
    /\ stack # <<>> /\ Top.at \in {"right", "left"}
    /\ stack' = IF Child(Top) = NULL
                THEN <<[Top EXCEPT !.at = After(@)]>> \o Tail(stack)
                ELSE <<[node |-> Child(Top), at |-> "right"]>> \o stack
    /\ UNCHANGED <<nodeVars, allocated, roots, call, answer, crashed>>

(* free, which leaves the children in the block.                           *)
Freed(node) ==
    /\ allocated' = allocated \ {node}
    /\ value' = [value EXCEPT ![node] = 0]
    /\ parent' = [parent EXCEPT ![node] = NULL]

cleanUpTree_Free_Keeps ==        \* mutant: the branches are not reset
    LET callers == Tail(stack) IN
    /\ stack # <<>> /\ Top.at = "free"
    /\ Freed(Top.node)
    /\ stack' = IF callers = <<>> THEN <<>>
                ELSE <<[Head(callers) EXCEPT !.at = After(@)]>> \o Tail(callers)
    /\ UNCHANGED <<left, right, roots, call, answer, crashed>>

cleanUpTree_Free_Root ==         \* mutant: only the inner calls free their node
    LET callers == Tail(stack)
        p == Head(callers).node
    IN  /\ stack # <<>> /\ Top.at = "free"
        /\ IF callers = <<>> THEN stack' = <<>> /\ UNCHANGED <<nodeVars, allocated>>
           ELSE /\ Freed(Top.node)
                /\ stack' = <<[Head(callers) EXCEPT !.at = After(@)]>> \o Tail(callers)
                /\ right' = IF Head(callers).at = "right" THEN [right EXCEPT ![p] = NULL] ELSE right
                /\ left' = IF Head(callers).at = "left" THEN [left EXCEPT ![p] = NULL] ELSE left
        /\ UNCHANGED <<roots, call, answer, crashed>>

(* The node is freed; the caller resets the branch it came from.           *)
cleanUpTree_Free ==
    LET callers == Tail(stack)
        p == Head(callers).node
    IN  /\ stack # <<>> /\ Top.at = "free"
        /\ Freed(Top.node)
        /\ IF callers = <<>> THEN stack' = <<>> /\ UNCHANGED <<left, right>>
           ELSE /\ stack' = <<[Head(callers) EXCEPT !.at = After(@)]>> \o Tail(callers)
                /\ right' = IF Head(callers).at = "right" THEN [right EXCEPT ![p] = NULL] ELSE right
                /\ left' = IF Head(callers).at = "left" THEN [left EXCEPT ![p] = NULL] ELSE left
        /\ UNCHANGED <<roots, call, answer, crashed>>

Running == insert \/ binarySearch \/ cleanUpTree_Branch \/ cleanUpTree_Free

Crashed == crashed /\ UNCHANGED vars

Next ==
    \/ \E v \in Value : NewTree(v)
    \/ \E tree \in roots, v \in Value : Call("insert", tree, v) \/ Call("search", tree, v)
    \/ \E tree \in roots : CleanUp(tree)
    \/ Running
    \/ Crashed

(* A call that has begun runs on; the program need not call again.         *)
Spec == Init /\ [][Next]_vars /\ WF_vars(Running)

-----------------------------------------------------------------------------
(* The nodes of the tree with root t: the least set that has t and the     *)
(* children of its members.                                                *)
Closed(S) == \A n \in S : left[n] \in S \cup {NULL} /\ right[n] \in S \cup {NULL}
Nodes(t) == {n \in Address : \A S \in SUBSET Address : t \in S /\ Closed(S) => n \in S}

Contents(t) == {value[n] : n \in Nodes(t)}
Content == [t \in roots |-> Contents(t)]

(* The trees are sets of values (TreePromise): a search finds exactly what *)
(* has been inserted into that tree since it was created, and no call on   *)
(* one tree changes another (tree.h:9-19).                                 *)
Promise == INSTANCE TreePromise
    WITH Tree <- Address, NoTree <- NULL, content <- Content
KeepsPromise == Promise!Spec

(* Between calls every block that is allocated belongs to exactly one      *)
(* tree: cleanUpTree frees each node once and no node of another tree      *)
(* (tree.c:71-83).                                                         *)
NothingLeaks ==
    Idle => /\ allocated = UNION {Nodes(t) : t \in roots}
            /\ \A s, t \in roots : s # t => Nodes(s) \cap Nodes(t) = {}

(* The node a node names as its parent is the one that links to it         *)
(* (tree.c:25, 32).                                                        *)
ParentsMatch ==
    \A n \in allocated :
        /\ left[n] # NULL => parent[left[n]] = n
        /\ right[n] # NULL => parent[right[n]] = n

(* Every call returns: no path in a tree is endless (tree.c:21-83).        *)
CallsReturn == ~ Idle ~> Idle \/ crashed
=============================================================================
