---------------------------- MODULE KernelPromise ----------------------------
(***************************************************************************)
(* What the MiniBS kernel promises programs that keep their obligations    *)
(* (comments of syscalls.h and syscalls.c), without queues, states, stored *)
(* contexts or waiter pointers: a process that is inside a blocking call   *)
(* is ready exactly when the condition it waits for holds, and whenever    *)
(* the running process cannot go on, the ready process with the smallest   *)
(* pid continues.                                                          *)
(***************************************************************************)
EXTENDS Integers

CONSTANTS Proc,   \* the pids
          Sid,    \* the signal variables
          None    \* no process, no call

VARIABLES
    created,      \* processes created so far
    call,         \* [Proc -> the blocking call a process is in, or None]
    ended,        \* processes whose main function has returned
    reaped,       \* ended processes that have been waited for
    used, set,    \* signal variables in use; signal variables that are set
    running       \* the process that has the processor, None at both ends of the run

vars == <<created, call, ended, reaped, used, set, running>>

Calls == [op : {"waitpid"}, on : Proc] \cup [op : {"swait"}, on : Sid]

Init ==
    /\ created = {} /\ ended = {} /\ reaped = {} /\ used = {} /\ set = {}
    /\ call = [p \in Proc |-> None]
    /\ running = None

(* What the process waits for has happened.                                *)
Holds(c) == c # None =>
    IF c.op = "waitpid" THEN c.on \in ended' ELSE c.on \in set'

Ready == {p \in created' \ ended' : Holds(call'[p])}

(* The processor goes to the ready process with the smallest pid.          *)
Dispatch == running' =
    IF Ready = {} THEN None ELSE CHOOSE p \in Ready : \A x \in Ready : p <= x

Start(p) ==
    /\ created = {}
    /\ created' = {p}
    /\ Dispatch
    /\ UNCHANGED <<call, ended, reaped, used, set>>

InUserCode(p) == p # None /\ p = running /\ call[p] = None

Create(c) ==
    /\ InUserCode(running)
    /\ c \in Proc \ created
    /\ created' = created \cup {c}
    /\ UNCHANGED <<call, ended, reaped, used, set, running>>

(* A blocking call whose condition does not hold yet.                      *)
Block(c) ==
    /\ InUserCode(running)
    /\ call' = [call EXCEPT ![running] = c]
    /\ Dispatch
    /\ UNCHANGED <<created, ended, reaped, used, set>>

(* A call that returns, at once or after its process slept in it.          *)
Completes(c) ==
    /\ running # None
    /\ call[running] \in {None, c}
    /\ call' = [call EXCEPT ![running] = None]
    /\ UNCHANGED <<created, ended, used, running>>

waitpid(q) ==
    \/ q \notin ended /\ Block([op |-> "waitpid", on |-> q])
    \/ /\ q \in ended \ reaped
       /\ Completes([op |-> "waitpid", on |-> q])
       /\ reaped' = reaped \cup {q}
       /\ UNCHANGED set

(* Only one process may wait for a variable.                               *)
mbs_swait(s) ==
    /\ s \in used
    /\ \A p \in Proc \ {running} : call[p] # [op |-> "swait", on |-> s]
    /\ \/ /\ s \notin set
          /\ Block([op |-> "swait", on |-> s])
       \/ /\ s \in set
          /\ Completes([op |-> "swait", on |-> s])
          /\ set' = set \ {s}
          /\ UNCHANGED reaped

mbs_signal_new(s) ==
    /\ InUserCode(running)
    /\ s \notin used
    /\ used' = used \cup {s}
    /\ set' = set \ {s}
    /\ UNCHANGED <<created, call, ended, reaped, running>>

mbs_signal_free(s) ==
    /\ InUserCode(running)
    /\ s \in used
    /\ used' = used \ {s}
    /\ UNCHANGED <<created, call, ended, reaped, set, running>>

mbs_signal(s) ==
    /\ InUserCode(running)
    /\ s \in used
    /\ set' = set \cup {s}
    /\ UNCHANGED <<created, call, ended, reaped, used, running>>

End ==
    /\ InUserCode(running)
    /\ ended' = ended \cup {running}
    /\ Dispatch
    /\ UNCHANGED <<created, call, reaped, used, set>>

Next ==
    \/ \E p \in Proc : Start(p) \/ Create(p) \/ waitpid(p)
    \/ \E s \in Sid : mbs_swait(s) \/ mbs_signal(s) \/ mbs_signal_new(s) \/ mbs_signal_free(s)
    \/ End

Spec == Init /\ [][Next]_vars
=============================================================================
