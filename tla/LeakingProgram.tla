--------------------------- MODULE LeakingProgram ----------------------------
(***************************************************************************)
(* Programs that use the allocation monitor: that of main.c and            *)
(* leaking_program.c, or any that frees no null pointer.  leaking_function *)
(* takes each char of a block for a size, a negative one for a size near   *)
(* the end of size_t; foo and answer are never written before it reads     *)
(* them.                                                                   *)
(***************************************************************************)
EXTENDS MonitoringAlloc, Sequences

CONSTANTS Length,      \* sizes of the blocks foo, bar and answer
          Chars        \* what an uninitialised char may hold

Crashed == 0
Any == -1        \* not main runs, but any other program

Pointers == {"foo", "bar", "answer", "allocated"}

BarChars == [i \in 1..Length["bar"] |-> i * 4]

ASSUME ProgramAssumption ==
    /\ Length \in [Pointers \ {"allocated"} -> Size]
    /\ Chars \subseteq Int
    /\ \A c \in Chars : c % SizeMod \in Size
    /\ \A i \in DOMAIN BarChars : BarChars[i] % SizeMod \in Size

VARIABLES
    at,          \* statement of main that is next, Crashed or Any
    pointer,     \* the variables of main
    content,     \* chars of the block a variable was last given
    rest         \* chars leaking_function has still to look at

programVars == <<at, pointer, content, rest>>
allVars == <<vars, programVars>>

Statement ==
    <<<<"malloc", "foo">>, <<"malloc", "bar">>, <<"fill", "bar">>,
      <<"leak", "foo">>, <<"free", "allocated">>,
      <<"leak", "bar">>, <<"free", "allocated">>, <<"free", "bar">>,
      <<"leak", "foo">>, <<"free", "allocated">>,
      <<"malloc", "answer">>, <<"leak", "answer">>, <<"free", "allocated">>,
      <<"free", "answer">>, <<"shutdown", "error">>>>

ProgramInit ==
    /\ Init
    /\ at \in {Any, 1}
    /\ pointer = [v \in Pointers |-> NULL]
    /\ content = [v \in Pointers |-> <<>>]
    /\ rest = <<>>

-----------------------------------------------------------------------------
Does(op, v) == at \in DOMAIN Statement /\ Statement[at] = <<op, v>>

(* The pointer monitoring_alloc_malloc returns in this step.               *)
Returned == IF heap' = heap THEN NULL
            ELSE CHOOSE a \in DOMAIN heap' : a \notin DOMAIN heap

Malloc(v) ==
    /\ Does("malloc", v)
    /\ monitoring_alloc_malloc(Length[v])
    /\ pointer' = [pointer EXCEPT ![v] = Returned]
    /\ \E c \in [1..Length[v] -> Chars] : content' = [content EXCEPT ![v] = c]
    /\ at' = at + 1
    /\ UNCHANGED rest

(* bar[0] = 11 and so on: the program ends here if bar is NULL.            *)
FillBar ==
    /\ Does("fill", "bar")
    /\ content' = [content EXCEPT !["bar"] = BarChars]
    /\ at' = IF pointer["bar"] = NULL THEN Crashed ELSE at + 1
    /\ UNCHANGED <<vars, pointer, rest>>

(* A call of leaking_function begins; `allocated' is its result so far.    *)
CallLeaking(v) ==
    /\ Does("leak", v) /\ rest = <<>>
    /\ pointer' = [pointer EXCEPT !["allocated"] = NULL]
    /\ rest' = IF pointer[v] = NULL THEN <<>> ELSE content[v]
    /\ at' = IF rest' = <<>> THEN at + 1 ELSE at
    /\ UNCHANGED <<vars, content>>

leaking_function ==
    /\ rest # <<>>
    /\ IF Head(rest) = 0 THEN UNCHANGED <<vars, pointer>>
       ELSE /\ monitoring_alloc_malloc(Head(rest) % SizeMod)
            /\ pointer' = [pointer EXCEPT !["allocated"] = Returned]
    /\ rest' = Tail(rest)
    /\ at' = IF Tail(rest) = <<>> THEN at + 1 ELSE at
    /\ UNCHANGED content

Free_Unguarded(v) ==             \* mutant: `if (allocated)' forgotten
    /\ Does("free", v)
    /\ monitoring_alloc_free(pointer[v])
    /\ pointer' = [pointer EXCEPT ![v] = NULL]
    /\ at' = at + 1
    /\ UNCHANGED <<content, rest>>

Free_KeepsPointer(v) ==          \* mutant: the pointer is not set to NULL
    /\ Does("free", v)
    /\ IF pointer[v] = NULL THEN UNCHANGED vars ELSE monitoring_alloc_free(pointer[v])
    /\ at' = at + 1
    /\ UNCHANGED <<pointer, content, rest>>

Free(v) ==
    /\ Does("free", v)
    /\ IF pointer[v] = NULL THEN UNCHANGED vars ELSE monitoring_alloc_free(pointer[v])
    /\ pointer' = [pointer EXCEPT ![v] = NULL]
    /\ at' = at + 1
    /\ UNCHANGED <<content, rest>>

Shutdown ==
    /\ Does("shutdown", "error")
    /\ shutdown_monitoring_alloc
    /\ at' = at + 1
    /\ UNCHANGED <<pointer, content, rest>>

main ==
    \/ \E v \in Pointers \ {"allocated"} : Malloc(v) \/ CallLeaking(v)
    \/ FillBar \/ leaking_function \/ Shutdown
    \/ \E v \in Pointers : Free(v)

AnyProgram ==
    /\ at = Any
    /\ \/ \E size \in Size : monitoring_alloc_malloc(size)
       \/ \E ptr \in Address : monitoring_alloc_free(ptr)
       \/ shutdown_monitoring_alloc
    /\ UNCHANGED programVars

Over == (at \in {Crashed, Len(Statement) + 1} \/ leakingBytes # -1) /\ UNCHANGED allVars

ProgramNext == main \/ AnyProgram \/ Over

ProgramSpec == ProgramInit /\ [][ProgramNext]_allVars

-----------------------------------------------------------------------------
(* The pointers main holds are to blocks that are allocated, no two to one *)
(* block: it frees nothing twice and nothing that has been handed out      *)
(* again, whatever leaking_function returns (main.c:40-80).                *)
PointersAreValid ==
    /\ \A v \in Pointers : pointer[v] # NULL => pointer[v] \in DOMAIN heap
    /\ \A v, w \in Pointers : v # w /\ pointer[v] # NULL => pointer[v] # pointer[w]
=============================================================================
