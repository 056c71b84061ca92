---------------------------- MODULE DemoPrograms ----------------------------
(***************************************************************************)
(* The programs of processes.c, which both versions of MiniBS run: init    *)
(* starts proc1 to proc3, which meet through four signal variables, and    *)
(* then bw_proc1 to bw_proc3, which meet by polling ints.  A program is a  *)
(* sequence of instructions <<name, operand>>; an operand is an index of   *)
(* bed, a function, or the position in child of a pid.  println stands     *)
(* where the program prints.                                               *)
(***************************************************************************)
EXTENDS Sequences, Integers

VARIABLES
    function,    \* process_t.function
    line,        \* next instruction of a process
    child,       \* pids its create_process calls have returned, in order
    bed          \* the static array bed

programVars == <<function, line, child, bed>>

Say == <<"println", 0>>

New == <<<<"new", 0>>, <<"new", 1>>, <<"new", 2>>, <<"new", 3>>, Say>>
Children(i, j) == <<<<"create", i>>, Say, <<"create", j>>, Say>>
Join == <<Say, <<"waitpid", 2>>, <<"waitpid", 1>>>>

(* mutants: proc1 waits for the same child twice; bw_proc1 does not wait   *)
(* for B1 and B2                                                           *)
proc1_SameChild ==
    New \o Children("proc2", "proc3") \o <<<<"swait", 0>>, Say, <<"swait", 1>>, Say,
        <<"signal", 2>>, Say, <<"signal", 3>>, Say, <<"waitpid", 1>>, <<"waitpid", 1>>>>

bw_proc1_NoSpin ==
    <<<<"clear", 0>>, Say>> \o Children("bw_proc2", "bw_proc3") \o
        <<Say, <<"set", 2>>, Say, <<"set", 3>>>> \o Join

proc1 ==
    New \o Children("proc2", "proc3") \o <<<<"swait", 0>>, Say, <<"swait", 1>>, Say,
        <<"signal", 2>>, Say, <<"signal", 3>>>> \o Join

bw_proc1 ==
    <<<<"clear", 0>>, Say>> \o Children("bw_proc2", "bw_proc3") \o
        <<<<"spin", 0>>, Say, <<"spin", 1>>, Say, <<"set", 2>>, Say, <<"set", 3>>>> \o Join

Text == [
    init     |-> <<Say, <<"create", "proc1">>, <<"waitpid", 1>>, Say,
                   <<"create", "bw_proc1">>, <<"waitpid", 2>>, Say>>,
    proc1    |-> proc1,
    proc2    |-> <<Say, <<"signal", 0>>, Say, <<"swait", 3>>, Say>>,
    proc3    |-> <<Say, <<"signal", 1>>, Say, <<"swait", 2>>, Say>>,
    bw_proc1 |-> bw_proc1,
    bw_proc2 |-> <<Say, <<"set", 0>>, Say, <<"spin", 3>>, Say>>,
    bw_proc3 |-> <<Say, <<"set", 1>>, Say, <<"spin", 2>>, Say>>]

ProgramInit(procs) ==
    /\ function = [p \in procs |-> "init"]
    /\ line = [p \in procs |-> 1]
    /\ child = [p \in procs |-> <<>>]
    /\ bed = [i \in 0..3 |-> 0]

AtEnd(p) == line[p] > Len(Text[function[p]])
Instruction(p) == Text[function[p]][line[p]]

(* Process p executes an instruction op whose operand is x.                *)
Executes(p, op, x) ==
    /\ ~ AtEnd(p)
    /\ Instruction(p) = <<op, x>>
    /\ line' = [line EXCEPT ![p] = @ + 1]

(* It has created process c with main function f.                          *)
Created(p, c, f) ==
    /\ function' = [function EXCEPT ![c] = f]
    /\ child' = [child EXCEPT ![p] = Append(@, c)]
    /\ UNCHANGED bed

(* Plain assignments to bed, and the end of a polling loop on it.          *)
Assigns(p, i) ==
    /\ \/ Executes(p, "set", i) /\ bed' = [bed EXCEPT ![i] = 1]
       \/ Executes(p, "clear", i) /\ bed' = [j \in 0..3 |-> 0]
       \/ Executes(p, "spin", i) /\ bed[i] # 0 /\ UNCHANGED bed
    /\ UNCHANGED <<function, child>>

(* while (!bed[i]) ;                                                       *)
Spins(p) == ~ AtEnd(p) /\ \E i \in 0..3 : Instruction(p) = <<"spin", i>> /\ bed[i] = 0

(* Process p, which runs function f, is past its instruction <<op, x>>.    *)
Past(p, f, op, x) == function[p] = f /\ \E k \in 1..(line[p] - 1) : Text[f][k] = <<op, x>>
=============================================================================
