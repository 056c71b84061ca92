# Formal models of the OS_WS16 programs

The repository holds the exercise programs of an operating systems course: two
versions of a small process kernel ("MiniBS"), a time service over TCP, an
allocation monitor, a binary search tree, a file copier and a few one-page
programs. This directory holds TLA+ models of them, the TLC runs that check the
models on small instances, and proofs that TLAPS checks for all instances.

## Inventory

### MiniBS, cooperative: `Blatt 6 - MiniBS Dynamisch`

*State.* `process_t` structures (`pid`, `state`, `waiting_for`, one `next`
pointer, a saved context); three queues `run_queue`, `wait_queue`,
`zombie_queue`, each a `first`/`last` pair linked through that one `next`
field; `active_process`; the table `signals[NUM_SIGNALS]` of `used`, `value`,
`waiting`; `next_pid`.

*Operations.* `create_process`, `waitpid`, `mbs_signal_new`, `mbs_signal_free`,
`mbs_swait`, `mbs_signal`, the end of a main function (`process_wrapper`);
inside them `schedule`, `select_next_process` and the queue functions.

*Interaction.* A system call runs on the stack of the calling process. It
changes queues and states directly and calls `schedule()`, which files the
active process in the queue of its state, picks the runnable process with the
smallest pid and switches to it. The call continues after `schedule()` when its
process is picked again. There is no preemption: a process keeps the processor
until it blocks or ends.

*Hard parts.* One `next` field shared by three lists; what is checked before
`schedule()` and used after it; wake-ups from two sources (`mbs_signal`, the end
of a process) that identify the sleeper by different fields; everyone waiting
on everyone; the kernel trusts its processes (a second `mbs_signal`, a `free`
while someone sleeps, two waiters for one pid).

*What makes it correct.* The lists are proper lists and a process is in the
queue its state says and in no other; a process inside a blocking call is ready
exactly when what it waits for has happened; the kernel exits only when nothing
is runnable; an ended process never runs.

### MiniBS, preemptive: `Blatt 5 - Mini-BS/Aufgabe 8 - MiniBS`

The same kernel, older, with `SIGPROF` every 500 ms: the signal handler calls
`schedule()` on the stack of the running process. `enterKernel`/`exitKernel`
block and unblock the signal but do not nest, so a queue function that leaves
the kernel opens the section of the call around it. Here the hazards are those
of interleaving: a wake-up between `state = STATE_BLOCKED` and
`waiting_for = pid` is lost, a handler inside `schedule()` appends the active
process a second time. It picks the head of `run_queue` (round robin).

### Time service: `Blatt 3 - Prozessinteraktion mit Sockets`

*State.* The server: its place in the two nested loops of `main`, the connection
it serves, the byte `timeRequest` on its stack, which nothing ever clears, and
the queue behind `listen(soc, 1)`. A client: its place in `main`, its socket and
`timeRespond`, which nothing clears either. Between them TCP.

*Operations.* Server: `createListenSocket`, `acceptConnection`,
`receiveTimeRequest`, `sendTimeRespond`, `closeConnection`, `shutdownTimeServer`
(SIGINT). Client: `connectToTimeServer`, two requests, each with its answer, the
goodbye (the byte 127), `close`.

*Hard parts.* A client that goes away without saying goodbye: `recv` returns 0
and the server takes the old request for a new one. Short reads of an answer of
fixed size, an unchecked `connect`, SIGPIPE and resets on both sides, hours
computed with `%` from a negative sum.

*What makes it correct.* Answers are never mixed up between clients; every
connected client is served; a dead client does not keep the server; the server
fails only after a fault, and only one of the client it serves.

### Allocation monitor: `Blatt 1 - Speicherverwaltung/Speicherverwaltung`

`monitoring_alloc_malloc`/`monitoring_alloc_free` over a table of 32 blocks and a
limit of 1024 bytes, and `main.c`/`leaking_program.c` that use them.
`leaking_function` takes the chars of an uninitialised block for sizes. Hazards:
limits at their boundary, `free(NULL)`, stale entries of the table, a counter
that drifts from the table, sizes that wrap, `shutdown` that frees nothing, a
pointer freed twice or after its block has been given out again. Correct: table,
counter and total describe the heap exactly.

### Search tree: `Blatt 1 - Speicherverwaltung/Tree`

`createTree`, `insert`, `binarySearch`, `cleanUpTree`, all recursive. Hazards:
`createTree` leaves the children as `malloc` delivers them, so a reused block
must have been left without children by `cleanUpTree`; insertion and search must
agree on the side; a null pointer from `malloc`. Correct: each tree is a set, no
call on one tree changes another, every node is freed once, every call returns.

### File copier: `Blatt 8 - Dateien und Speicherzugriffe/A13 mycp`

`openSource`, `createTarget`, `setTargetSize`, `mapFileToMemory`,
`copyFilesInMemory`. Hazards: the target appears between `access` and `open`
(no `O_EXCL`); a step fails after the target has been created; an empty source;
a source that is itself an unfinished copy. Correct: no file that existed is
changed, a finished copy is exact, `memcpy` stays inside the mapped files.

### Programs of one page

`nikolaus.c` (opens a file every second and closes none), `zeitmessung.c`
(access times with and without page faults), `adressraueme.c` (prints the
address of a variable and of a heap block, and writes to an address given on
the command line), `hello_world.c`. The text answers, archives and binaries of
the other directories hold no program.

## Modules

| module | what it models |
|---|---|
| `PQueue` | the queue functions of `process_manager.c` on the memory they work on (`next`, `first`, `last`), for lists of any shape |
| `FifoQueues` | what the header promises of a queue: a sequence |
| `PQueueFifo` | all queue calls in any order; implements `FifoQueues` |
| `MiniBS` | the cooperative kernel under arbitrary programs |
| `KernelPromise` | what the kernel promises: no queues, states or contexts, only calls and the conditions they wait for |
| `MiniBSPromise` | `MiniBS` implements `KernelPromise` (refinement mapping) |
| `MCMiniBS` | instances of the kernel for TLC |
| `DemoPrograms` | the programs of `processes.c`, the same in both versions, as instruction lists |
| `MiniBSDemo`, `MCMiniBSDemo` | these programs on the cooperative kernel |
| `MiniBSPreempt` | the preemptive kernel under arbitrary programs and an arbitrary timer |
| `MCMiniBSPreempt` | its instances: at which points the signal arrives |
| `PreemptDemo`, `MCPreemptDemo` | the demo programs on the preemptive kernel |
| `MonitoringAlloc` | the allocation monitor, one action per function |
| `LeakingProgram`, `MCLeakingProgram` | its users: `main.c` with `leaking_program.c`, or any program that frees no null pointer |
| `TimeService`, `MCTimeService` | server, clients and the TCP connections between them |
| `SearchTree` | the search tree on a heap whose freed blocks are handed out again |
| `TreePromise` | what `tree.h` promises: each tree is a set of integers |
| `FileCopier` | copies that run at once on the same files |
| `DemoFacts` | the text of the demo programs as tables, for the proofs about them |
| `PQueueProofs`, `PQueueFifoProofs`, `MiniBSProofs`, `MiniBSPreemptProofs`, `MonitoringAllocProofs`, `TimeServiceProofs`, `SearchTreeProofs`, `FileCopierProofs` | theorems |

### Queues

The operators of `PQueue` take a memory and return one. `Visited(m, q, T)` is
the set of processes the loop `for (proc = queue->first; ...)` has seen when it
stops at one of `T`; it is defined as a least closed set, so it has a meaning
on a cyclic list too, and the proofs need no induction over the list. `Found`
is where it stops, `Endless` says that a loop without a target never stops.
`FifoQueues` takes out of a sequence the first process that matches; `taken` is
what a call has returned, in both modules, so the refinement also fixes which
process a search finds.

### Cooperative kernel

Since nothing preempts, everything a call does up to its `schedule()` is one
step that includes what `schedule()` does, and everything from there to its
return is another (`waitpid_Resume`, `mbs_swait_Resume`). `at[p]` is the place
at which the saved context of `p` continues, `arg[p]` the argument of the call
it is in. `host` is the Unix process: `schedule()` exits it when nothing is
runnable, and hangs it when `run_queue` is a cycle (`hung`).

The programs are arbitrary: in user code the active process may make any call.
`Discipline` says which obligations they keep:

| obligation | a program does not |
|---|---|
| `signal` | signal a variable again before the process it woke has run |
| `free` | free a variable while a process is inside `mbs_swait` on it |
| `waitpid` | wait for itself, for no process, or for one already waited for |
| `alone` | wait for a process another one is waiting for |
| `exit` | end while its pid is the left-over `waiting_for` of a process asleep in `mbs_swait` |

The code enforces none of them. The runs show which guarantee needs which.

A new process has whatever `malloc` returns in `waiting_for`: a fresh page has
0, which is the pid of init (`Garbage`).

The promise (`KernelPromise`) knows neither queues nor states: a process runs,
or is inside a call, and may continue when what it waits for has happened. Its
`Dispatch` gives the processor to the ready process with the smallest pid.
`MiniBSPromise` maps the kernel to it.

### Preemptive kernel

One action of `MiniBSPreempt` is the code from one point at which `SIGPROF` may
arrive to the next. The points are found by following the signal mask through
the code: `queue_append` ends with the signal unblocked, `queue_get_process`,
`queue_get_process_waiting_for` and `queue_dequeue` end with it blocked if they
find something and unblocked if not, whatever the section of their caller. So
`waitpid` can be interrupted before `state = STATE_BLOCKED` (`w_block`), before
`waiting_for = pid` (`w_for`), before `schedule()` (`w_sched`) and before it
searches again (`w_again`); `mbs_swait` between its two assignments;
`mbs_signal` before `queue_append` if the process was not in `wait_queue`;
`process_wrapper` before and after it wakes the waiter; `schedule()` after
`queue_append`. Between two points the signal is blocked, or only registers and
the process's own stack change. The return of `mbs_swait`, `mbs_signal_new` and
`CHECK_SID` with the signal still blocked is modelled as well.

`handleSigprof` files the active process and pushes one `schedule()` on its
stack (`depth`); `schedule_Switch` is the rest of the innermost one. The context
a process is switched to carries its own signal mask: one that was switched out
continues inside `schedule()`, which unblocks the signal, a new one starts with
it blocked.

Null pointers end the Unix process (`crashed`), a search in a cyclic list keeps
it busy for ever (`hung`), `schedule()` returning into an ended process ends it
with an error (`failed`).

### Demo programs

A program is a sequence of instructions; a local variable `pid1` is a position
in the list of pids its `create_process` calls have returned. `println` is an
instruction since in the preemptive kernel it changes the signal mask. A polling
loop reads memory every time round: the Makefiles compile without optimisation.

### Allocation monitor and leaking program

The heap is external: `malloc` returns any free address or `NULL`, and always
`NULL` for a size beyond half of `size_t`. `allocatedSize + size` is computed in
`size_t` and wraps; what is stored in the `int` is reduced again. The entry
found by `monitoring_alloc_free` is the last match, the entry filled by
`monitoring_alloc_malloc` the first empty one, as in the loops.

`LeakingProgram` runs on it. `Statement` lists the calls of `main`; one round of
the loop in `leaking_function` is one step. The chars of `foo` and `answer` are
chosen when their blocks are handed out, since nothing writes them; a negative
char becomes a size near the end of `size_t`. With `at = Any` no `main` runs but
any other program.

### Time service

One action is one system call with the code up to the next one. A connection is
`open`, `client_closed`, `server_closed` or `reset`; `invalid` stands for a
socket that `socket()` refused, `refused` for one that `connect` left
unconnected. What was sent before a close stays readable; what is sent to a
closed end, or left unread by one, resets the connection; `recv` then fails,
`send` fails or kills the process with SIGPIPE. An answer is a sequence of
`Pieces`, each with the hour it was made of, and `recv` may return after any of
them: the rest stays in the stream and is read as part of the next answer. Of
the text of an answer only the hour is kept. Its remainder is that of C, so it
may be negative, and so it is sent and printed: at hour 0 "Current time in New
York" shows the hour -5, where `timeServer.c:111` and `client.c:82` mean an hour
of the day. `AnswersAreOwn` says that answers match questions, not that the hour
is right; `TypeOK` only bounds it by -23..23.

Faults: any client may be killed at any point, SIGINT may stop the server, one
call may fail for want of resources (`exhausted`).

### Search tree

One action is one call of a recursive function: `call` is the invocation of
`insert` or `binarySearch` that runs (the recursion is a tail call but for a
test that fails), `stack` the invocations of `cleanUpTree`. A freed block loses
`value` and `parent`, which the allocator overwrites with its own links, and
keeps `left` and `right`; `malloc` returns any free block with what is in it.
`Nodes` is the least set closed under children, so the model needs no recursion.

### File copier

One action is one system call, or one block of `memcpy`. Block `i` of file `f` is
told apart from all others, so a copied block shows where it came from. `access`
and `open` are two actions; `ZeroAt` is the `write` after the `lseek`. `error`
lets any step fail and stands for a copy that is killed as well. Closing and
unmapping at the end change nothing that others see and are one action.

## What the runs check

| run | instance | what it shows |
|---|---|---|
| `queues_fifo` | 4 processes, every call in any order | each queue is a sequence, a search takes out the first match (refinement) |
| `kernel_contract` | 4 processes, 2 variables, all obligations | no list damaged, no process lost, no wake-up missed or invented; implements `KernelPromise` |
| `kernel_any_program` | 3 processes, 2 variables, no obligation | types; the registered waiter is inside `mbs_swait`; an ended process never runs |
| `demo_programs` | the shipped programs | they keep the obligations; the signal part meets in order and ends, an early exit counted against it; the polling part starves |
| `preempt_safe_points` | 3 processes, 2 variables, nesting 2, signal everywhere but in four windows | the same guarantees as in the cooperative kernel |
| `preempt_any_program` | 2 processes, 1 variable, nesting 3, signal everywhere, no obligation | types; the registered waiter is inside `mbs_swait` |
| `preempt_demo` | the shipped programs, nesting 2, signal everywhere but in the four windows | polled variables passed in order; every process in `run_queue` gets its turn and everything ends |
| `tick_before_sleep` | signal in user code and in `w_block`, `w_for` | a process sleeps in `waitpid` for one that has ended |
| `alloc_monitor` | 3 entries, 4 addresses, limit 10, sizes at 0, at the limit and at the end of `size_t`; `main.c` with any chars, or any program | table, counter and total agree with the heap; `main` frees nothing twice |
| `time_service` | 2 clients, one waiting connection, 2 hours, answers in up to 2 pieces | answers match questions, the server fails only on the connection of a client that was killed or got a cut answer, every connected client is served, a dead one is released |
| `search_tree` | 3 blocks, 3 values, any calls | each tree is a set (refinement), parents match, nothing leaks, every call returns |
| `file_copier` | 2 copies, 3 names, files of up to 2 blocks, any of them absent | finished copies are exact, existing files kept, `memcpy` inside its files, no foreign blocks |

*Four windows.* `SafePoints` leaves out `w_block` and `w_for` (a process is
filed as blocked before its waker can find it), `x_search` (a process is filed
as ended before it has woken its waiter) and `schedule` (the active process is
filed twice). One run shows the first; with `TickAt` set to `{"user",
"x_search"}` TLC finds the same property violated, with `{"user", "schedule"}`
that the kernel exits although a process is runnable.

*Obligations.* `signal` is the one that protects the queues; `free`, `waitpid`,
`alone` and `exit` only protect wake-ups. What they are for shows when TLC runs
`kernel_contract` with one of them dropped: without `signal` the kernel exits
with a runnable process, without `exit` `mbs_swait` returns unsignalled, without
`alone` the second of two waiters for one pid sleeps for ever. The comments do
not promise otherwise, so these are no findings.

*Bounds.* Four processes are init, a process that waits, the one it waits for
and a third to interfere; two variables let one be freed and reused while the
other is in use. The counterexamples need at most three processes and one
variable. Nesting 2 is a handler inside a handler's `schedule()`. The demo runs
need no bound but the nesting. In the allocation monitor three entries give a
first, a last and a middle one; the sizes include the smallest that reach the
limit alone and together, and two that wrap. In the time service two clients are
one that is served and one that waits; hours 0 and 23 reach both ends of the day
with both zones, two pieces cut an answer once; the uninitialised request is a
time zone or the goodbye. Three blocks make every shape of tree of depth three,
two trees at once, and the reuse of a freed block in another tree. Two copies
race for one target or copy in a chain through three names; files of two blocks
have a first and a last one.

*Fairness.* The cooperative demo assumes that the Unix process gets processor
time: steps are taken for ever unless it is at rest for ever, that is polls, has
exited or hangs. A kernel that exits early is therefore among the behaviours
checked, and `SignalPartEnds` fails for it. The preemptive one also assumes that the interval timer goes on, and that
the active process executes a statement between two signals (500 ms of
processor time); nothing is assumed about the order of processes. Polling with
the signal blocked would not be interrupted; `DemoEndsUnlessHarmed` depends on
the `println` before each loop. It also depends on two things it states: that the
signal spares the four windows (`TickAt \cap Harmful = {}`), in which the same
programs may hang, and that `select_next_process` serves `run_queue` in turn
(`ServedInTurn`); with the smallest pid of its comment `bw_proc1` would starve the
processes it polls for. In the time service `WF_vars(Server)` and
`WF_vars(ClientStep(c))`: Unix processes that are not blocked in a call go on; no
kill, no SIGINT, no failing call and no particular cut of an answer is forced.
The order of `accept` is that of the queue, so no fairness is needed for it. In
the search tree `WF_vars(Running)`: a call that has begun runs on, the program
need not call again. The file copier assumes nothing.

*Other observations.* With the smallest pid first, even a yielding kernel
would not let the polling part of the demo end: `bw_proc1` has the smallest
ready pid. In the preemptive kernel `select_next_process` takes the head of
`run_queue`, whatever its comment says; that is what lets the part end. `waitpid`
frees nothing (`syscalls.h:9-10`), nor does `shutdown_monitoring_alloc`
(`monitoring_alloc.h:43`). A program that frees `NULL` has the last empty entry
released: the counter drops although no block is freed, and the stale size of
that entry is subtracted from the total, after which more than the limit is
granted. A client of the time service that dies early makes the server take the
last request it received for a new one: after a goodbye it closes the connection
and goes on, after a time zone it answers, is reset and ends. So one client that
is killed ends the service for all, although `timeServer.c:165` says that the loop
can only be left through the signal handler. The model has this; what holds, and
is checked, is that only the client that is served can do it
(`ServerFailsOnlyOnServed`), while `DeadClientReleased` counts the end of the
server as a release. In the first hours of the day the server sends a negative
hour to New York (`timeServer.c:112`). With a second `mbs_signal` before the woken
process has run, the preemptive kernel resumes a process that has ended. Two copies that
race for one target leave it longer than either source, and both report success.
If `malloc` leaves a 3 in `waiting_for` of proc2, the preemptive demo damages its
own queues: the end of proc3 takes proc2 out of `mbs_swait`, and the signal proc1
then sends appends a process that is in `run_queue`. TLC finds it with
`Garbage = {3}`; with 0, 2, 4, 5 or -1 it does not happen. MiniBS frees nothing,
so a structure is new memory, which holds 0. In the cooperative kernel no
value does harm, because proc2 ends before proc3 does.

## What is proved

TLAPS checks these for every number of processes, variables, clients, copies,
blocks and entries and every size; the assumptions are the named `ASSUME`s of
the modules.

- `PQueueProofs`: on proper lists `queue_append` and `queue_dequeue` keep all
  three lists proper and add or remove exactly one process. A list is described
  without recursion: `Visited` is the least set closed under `next`, so the
  lemmas go by "the set without p is closed too" instead of induction. `Chain`
  says that a sequence is the list of a queue, with an end (`HasEnd`) or with a
  last process that is its own successor, and the lemmas on it what `queue_append`
  and `queue_dequeue` make of that sequence.
- `PQueueFifoProofs!QueuesAreSequences`: the lists implement `FifoQueues`. That
  the three queues share one `next` field per process is harmless because they
  stay separate (`AreLists`). `ListOfIs` shows that the sequence of the refinement
  is the one `Chain` speaks of, `SearchFindsFirst` that the least closed set at
  which a search stops is a prefix of it.
- `MiniBSProofs!TypeCorrect`, `WaitersStayInSwait`: for all programs, damaged
  queues included. `WaitersStayInSwait` rests on `WaiterInv`: the pointer is set
  in the step that enters `mbs_swait` and reset in the step that leaves it, and
  what `schedule()` does to `run_queue` cannot move a process out of its call.
- `QueuesStayProper`, `ProcessesAreKept`, `ExitIsLast`: for programs that keep
  the obligation `signal`. The inductive invariant `KernelInv` is the types,
  proper lists and `NoProcessLost`, with what ties the queues to the control
  state: processes not yet created have state `NONE`, nothing is active before
  the boot and after the exit, `run_queue` is empty at the exit, no search
  hangs. Proper lists alone are not inductive: that `queue_append` gets a process
  which is in no list follows from its state and `NoProcessLost`, and for
  `mbs_signal` from the obligation. `schedule()` is treated once
  (`ScheduleKeeps`), the wake-ups once (`WakeMoves`).
- `MiniBSProofs!NoZombieResumes`: for all programs. A second `mbs_signal` before
  the woken process has run appends a process to `run_queue` that is in it. That
  cuts the list or makes its end a cycle, so `KernelInv` does not hold; but
  `run_queue` remains a list of processes that are in no other queue, and the
  other two keep their ends (`AreQueues`). So `ApartInv` can say that processes
  that have ended are in `zombie_queue` only; on the cycle `schedule()` hangs
  rather than return.
- `MiniBSProofs`, wake-ups: `NoSignalIsMissed` needs the obligations `signal`
  and `free`, `NoEndIsMissed` all but `free`. On top
  of `KernelInv`, `PlaceInv` ties the state of a process to the place of its
  context; `SwaitInv` says that a process stays registered from the step that
  enters `mbs_swait` to the one that leaves it, also while it is runnable again;
  `WaitpidInv` that a process inside `waitpid` is the only one waiting for its
  pid and will find the zombie when it looks again. The properties speak of
  sleepers only; what they need to be inductive is about processes that were
  woken and have not run yet.
- `MiniBSProofs!KernelImplementsPromise`: under all five obligations the
  kernel implements `KernelPromise`. `ReadyInv` adds the converse of the wake-up
  guarantees: a runnable process inside a call has got what it waits for. With it
  the ready processes of the promise are the runnable ones of the kernel
  (`ReadyIsRunnable`), and `schedule()` is `Dispatch` (`Dispatches`). Then one
  lemma per system call: it is a step of the promise or, for a call that is
  refused, none.
- `MiniBSPreemptProofs!TypeCorrect`, `WaitersStayInSwait`: for all programs and
  wherever the signal arrives, in queues of any shape. `TypeOK` is not
  inductive: a pointer of the right type may lead to a structure that is not
  allocated, which has no state to file it by. `TypeInv` says that every pointer
  of the kernel, of the queues and of their `next` fields is `NULL` or leads to
  a process that has been created (`Live`, `PointsInto`); three lemmas say that
  traversals, `queue_append` and `queue_dequeue` leave it so, whatever the shape
  of the lists.
- `MiniBSPreemptProofs!ProcessesAreKept`, `NoZombieResumes`, `NoSignalIsMissed`,
  `NoEndIsMissed`: what `preempt_safe_points` checks, for every number of
  processes and variables and every nesting. They assume `Careful` and that
  `TickAt` has none of the four points of `Harmful`; nothing else is assumed of
  the signal, so they hold for every set of other points, the one of that run
  included. `KernelInv` adds to the queues (`Placed`) where a process can be
  (`PlaceOf`): by its state, and that one which does not run is inside
  `schedule()` or has not started, and at none of the harmful points. That is
  what the four windows break. `SwaitInv` and `WaitpidInv` are about processes
  inside a call, also after they have been woken. In `waitpid` the argument is
  that the waiter, between its search in vain and the moment it is filed, keeps
  the processor (`w_block` and `w_for` are not interrupted), so that the process
  it waits for cannot pass the point at which it wakes; that this wakes the
  waiter and not a process in `mbs_swait` with the same left-over `waiting_for`
  is the obligation `MayExit`, which the process keeps until it has done so.
- `MiniBSPreemptProofs!KernelNeverBreaks`: under the same assumptions the queues
  stay lists, so that no search follows a null pointer or never stops.
  `SwaitWaitsForSignal`, an action property: a process goes on after `mbs_swait`
  only when its variable is set. `ReadyInv` says it of the whole time between the
  wake-up and that step; it needs `WaitpidInv`, since what wakes a process in
  `mbs_swait` is told from the end of another one only by the obligations.
- `MiniBSProofs`, the shipped programs on the cooperative kernel:
  `ProgramsKeepObligations`, `ProgramsMeet` and `PollersStarve` are what
  `demo_programs` checks, for every `Discipline`, every left-over `waiting_for`
  and any number of processes and variables from 7 and 4 on (`DemoSize`: the
  programs create seven processes and use four variables; `NUM_SIGNALS` is 128).
  The proofs about the kernel are therefore about steps that keep a set of
  obligations (`KeptNext(D)`), whatever `Discipline` is: `DisciplineIsKept` gives
  the theorems above, `DemoIsKept` the ones here. So `ShippedSystemIsSafe` and
  `ShippedSystemKeepsPromise` assume nothing of the programs: with them the kernel
  keeps its queues, misses no wake-up and implements `KernelPromise`.
  `DemoInv` has, besides the invariants of the kernel: which process executes
  what and from when on it exists (`ProgramInv`); that the place of a process by
  the kernel is its place in its program (`PlacesInv`); that a child has left
  `zombie_queue` exactly when the `waitpid` for it is past (`JoinInv`); which
  variables are in use and that `bed` names them (`TableInv`); that a variable is
  set from its signal to the end of the one wait for it (`MeetInv`, which makes a
  second signal impossible); that `bw_proc1` never leaves its first loop
  (`StarveInv`). `DemoFacts` lists the instructions of the programs by kind;
  `Script` shows that the lists agree with the text.
- `MiniBSPreemptProofs`, the shipped programs on the preemptive kernel, for any
  nesting and any set of points for the signal that has none of the four:
  `ProgramsAreCareful` (each step is one of `KeptNext`), hence
  `ShippedProgramsAreSafe` with nothing assumed of the programs, and
  `PollersTakeTurns`, what `preempt_demo` checks. Now every order of the
  processes has to be considered: the end of one comes in several steps, with
  the signal between them, so `JoinInv` speaks of `Reaped`, and
  `PollInv` says that nobody is past a loop before its int is set.
  `StaleInv` is `waiting_for[2] # 3`; it needs the assumption `3 \notin Garbage`,
  without which the theorems are false (see *Other observations*). The lemmas on
  the text appear in both modules, since their kernels have variables of the
  same names and cannot be extended together.
- `MonitoringAllocProofs!TableIsExact`: for all programs, null pointers
  included, the table names exactly the allocated blocks. `CounterIsExact`: if no
  null pointer is freed the counter is exact. The invariant bounds how far the
  counter lags behind the table by the number of null pointers freed.
- `MonitoringAllocProofs!TotalIsExact`, `LimitIsKept`, `PointersStayValid`: for
  `main.c` with any chars and for any program that frees no null pointer. The
  total and the limit depend on each other (`SizeInv`): the total is exact only
  if the `int` holds it, which the limit ensures, and the limit holds only if
  what is compared with it is exact. `WidthAssumption` says that an `int` holds
  the limit and that `size_t` is at least as wide as an `int`; a request for
  which the sum wraps is then one `malloc` refuses. The library's sum over a set
  takes the elements in an order nothing is known of. That it does not depend
  on it (`SumAdd`, `SumRemove`) is proved with a smallest set for which it would
  (`SmallestSubset`), which takes the place of an induction. `ProgramInv` adds
  what `main` holds; `ProgramAssumption` says that `Size` has every size the
  program can ask for.
- `TimeServiceProofs!TypesKept`, `AnswersStayOwn`, `FailureHasACause`: for any
  number of clients, connections and pieces. `ServiceInv` has a connection at the
  server or once in the queue (`QueueInv`) and, for each client, a list of the
  states a conversation can be in (`Phase`): what is under way in each direction,
  what the server is about to answer, what was shown. That an answer is the
  client's own depends on the stack variable of the server holding its request
  at that moment, which only the phase says. `OwnInv` is about what no phase
  excuses: also after a cut or the end of the server, what a client's stream,
  buffer and output hold is made of its own questions so far. `FailureHasACause`
  is an action property: in the step in which the server fails either a call is
  short of resources or the phase of the client it serves is one of those that
  were killed or cut.
- `SearchTreeProofs!TypesKept`, `ParentsAreRight`, `NoPointerDangles`: `LinkInv`
  says that free blocks have no children (so `createTree` may leave them
  unset), links and parents agree, roots have no parent, and the invocations of
  `cleanUpTree` on the stack form a path whose finished branches are reset.
- `SearchTreeProofs!NothingIsLeaked`: `NothingLeaks` speaks of the moments
  between calls. `NoOrphans` says at every moment that a set closed under
  children which has the roots and the node `cleanUpTree` is at has all
  allocated nodes; again the least closed set stands for the recursion.
- `SearchTreeProofs!PromiseIsKept`: the tree implements `TreePromise`, for any
  heap, values and number of trees. `OrderInv` has the order of values in every
  tree, and of the call that runs that it has gone down to the one place where
  its value is or belongs (`PathInv`); `cleanUpTree` works on a tree the program
  no longer holds. One lemma per action shows it a step of the promise or none.
- `FileCopierProofs!ExistingFilesAreKept`, `MemcpyStaysInside`,
  `CopiesAreExact`, `OnlySourcesAreCopied`: for any number of copies, names and
  lengths. `FilesInv` says what a copy knows of the lengths of its files at each
  point and that they only grow; `Exact` what holds while nobody else touches
  them; `BlocksInv` where the blocks of a new file come from.

Only model-checked: every liveness property, that the demo programs come to
their ends (`DemoEndsUnlessHarmed`, `SignalPartEnds`) among them. Liveness, `ENABLED` and operators
declared `RECURSIVE` are outside of what the prover can do. Its induction
theorems cannot be used either; where data needed one, the proofs use least sets
and least counterexamples.

## Not modelled

- `zeitmessung.c` measures and prints; its state is the clock.
- `nikolaus.c` opens a text file, prints it line by line and sleeps, for ever;
  it never closes a file, so that `fopen` fails once the descriptors are used up,
  which one look at `loadTree` shows as well as a model would.
- `adressraueme.c` prints addresses and writes to one of them.
- `hello_world.c` prints one line; no Makefile links it, and its function is not
  the `init` the kernel boots.
- Stacks and register contexts of MiniBS (`ucontext`): a context is the place
  it continues at. How many signal handlers fit on a stack, and that `waitpid`
  never frees a process structure, are visible in the code only.
- Texts, archives and binaries hold no program.
