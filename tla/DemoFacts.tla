------------------------------ MODULE DemoFacts ------------------------------
(***************************************************************************)
(* The text of the demo programs as tables, for the proofs about them:     *)
(* which function each process executes, which instructions stand where,   *)
(* and which of them belong together.                                      *)
(***************************************************************************)
EXTENDS DemoPrograms

(* Process p executes Main(p), which has Length(p) instructions.           *)
Main(p) == <<"init", "proc1", "proc2", "proc3", "bw_proc1", "bw_proc2", "bw_proc3">>[p + 1]
Length(p) == <<7, 19, 5, 5, 16, 5, 5>>[p + 1]

(* Instruction l of process p is <<"create", f>>, <<"new", i>> and so on.  *)
Creates(p, l, f) == <<p, l, f>> \in {<<0, 2, "proc1">>, <<0, 5, "bw_proc1">>, <<1, 6, "proc2">>,
                                     <<1, 8, "proc3">>, <<4, 3, "bw_proc2">>, <<4, 5, "bw_proc3">>}
Allots(p, l, i)  == <<p, l, i>> \in {<<1, 1, 0>>, <<1, 2, 1>>, <<1, 3, 2>>, <<1, 4, 3>>}
Swaits(p, l, i) == <<p, l, i>> \in {<<1, 10, 0>>, <<1, 12, 1>>, <<3, 4, 2>>, <<2, 4, 3>>}
Raises(p, l, i) == <<p, l, i>> \in {<<2, 2, 0>>, <<3, 2, 1>>, <<1, 14, 2>>, <<1, 16, 3>>}
Awaits(p, l, k) == <<p, l, k>> \in {<<0, 3, 1>>, <<0, 6, 2>>, <<1, 18, 2>>, <<1, 19, 1>>,
                                    <<4, 15, 2>>, <<4, 16, 1>>}
Clears(p, l)     == <<p, l>> = <<4, 1>>
Polls(p, l, i)   == <<p, l, i>> \in {<<4, 7, 0>>, <<4, 9, 1>>, <<5, 4, 3>>, <<6, 4, 2>>}
Sets(p, l, i)    == <<p, l, i>> \in {<<5, 2, 0>>, <<6, 2, 1>>, <<4, 11, 2>>, <<4, 13, 3>>}

(* Instruction l of process p waits for process c.                         *)
Joins(p, l, c) ==
    <<p, l, c>> \in {<<0, 3, 1>>, <<0, 6, 4>>, <<1, 18, 3>>, <<1, 19, 2>>, <<4, 15, 6>>, <<4, 16, 5>>}

(* Instruction l of process p waits for variable i, which instruction k of *)
(* process g signals.                                                      *)
Meets(p, l, i, g, k) ==
    <<p, l, i, g, k>> \in {<<1, 10, 0, 2, 2>>, <<1, 12, 1, 3, 2>>, <<3, 4, 2, 1, 14>>, <<2, 4, 3, 1, 16>>}

(* The pids create_process has returned to process p before instruction l. *)
Offspring(p, l) ==
    CASE p = 0 -> IF l > 5 THEN <<1, 4>> ELSE IF l > 2 THEN <<1>> ELSE <<>>
      [] p = 1 -> IF l > 8 THEN <<2, 3>> ELSE IF l > 6 THEN <<2>> ELSE <<>>
      [] p = 4 -> IF l > 5 THEN <<5, 6>> ELSE IF l > 3 THEN <<5>> ELSE <<>>
      [] OTHER -> <<>>

(* A process exists from the instruction on that creates it.               *)
CreatedInOrder(n) ==
    /\ n <= 7
    /\ n >= 2 <=> line[0] > 2
    /\ n >= 3 <=> line[1] > 6
    /\ n >= 4 <=> line[1] > 8
    /\ n >= 5 <=> line[0] > 5
    /\ n >= 6 <=> line[4] > 3
    /\ n >= 7 <=> line[4] > 5

(* The processes below n exist and execute the functions of processes.c.   *)
ProgramsRun(procs, n) ==
    /\ line \in [procs -> Nat \ {0}]
    /\ function \in [procs -> DOMAIN Text]
    /\ child \in [procs -> Seq(procs)]
    /\ bed \in [0..3 -> Int]
    /\ \A p \in procs :
           /\ child[p] = Offspring(p, line[p])
           /\ p < n => p \in 0..6 /\ function[p] = Main(p) /\ line[p] <= Length(p) + 1
           /\ p >= n => function[p] = "init" /\ line[p] = 1
    /\ CreatedInOrder(n)
=============================================================================
