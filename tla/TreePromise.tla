----------------------------- MODULE TreePromise -----------------------------
(***************************************************************************)
(* What tree.h promises: each tree is a set of integers.                   *)
(***************************************************************************)
EXTENDS Integers

CONSTANTS Tree,    \* names of trees
          NoTree,
          Value

VARIABLES content, \* the set in each tree there is
          answer   \* the last search and its result

Init ==
    /\ content = [t \in {} |-> {}]
    /\ answer = [tree |-> NoTree, value |-> 0, found |-> FALSE]

Create(t, v) ==
    /\ t \in Tree \ DOMAIN content
    /\ content' = [u \in DOMAIN content \cup {t} |-> IF u = t THEN {v} ELSE content[u]]
    /\ UNCHANGED answer

Insert(t, v) ==
    /\ content' = [content EXCEPT ![t] = @ \cup {v}]
    /\ UNCHANGED answer

Search(t, v) ==
    /\ answer' = [tree |-> t, value |-> v, found |-> v \in content[t]]
    /\ UNCHANGED content

CleanUp(t) ==
    /\ content' = [u \in DOMAIN content \ {t} |-> content[u]]
    /\ UNCHANGED answer

Next ==
    \/ \E t \in Tree, v \in Value : Create(t, v)
    \/ \E t \in DOMAIN content, v \in Value : Insert(t, v) \/ Search(t, v)
    \/ \E t \in DOMAIN content : CleanUp(t)

Spec == Init /\ [][Next]_<<content, answer>>
=============================================================================
