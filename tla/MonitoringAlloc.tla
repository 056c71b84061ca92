--------------------------- MODULE MonitoringAlloc ---------------------------
(***************************************************************************)
(* monitoring_alloc.c of "Blatt 1 - Speicherverwaltung": a table of the    *)
(* blocks a program has allocated, a counter of the entries in use and the *)
(* total size, both kept beside the table.  The program is any sequence of *)
(* calls.  size_t is unsigned and wider than the int that holds the total. *)
(***************************************************************************)
EXTENDS Integers, FiniteSets, FiniteSetsExt

CONSTANTS
    NULL,
    Address,                      \* addresses of the heap
    MAX_ALLOCATIONS,
    MAX_TOTAL_ALLOCATION_SIZE,
    SizeMod, IntMod,              \* 2^64 and 2^32
    Size,                         \* sizes programs ask for
    MaxDrift                      \* bound: monitoring_alloc_free(NULL) is called while
                                  \* the counter lags by less; 0: programs never do

ASSUME AllocAssumption ==
    /\ NULL \notin Address
    /\ MAX_ALLOCATIONS \in Nat \ {0} /\ MAX_TOTAL_ALLOCATION_SIZE \in Nat \ {0}
    /\ SizeMod \in Nat \ {0} /\ IntMod \in Nat \ {0}
    /\ Size \subseteq 0..(SizeMod - 1)
    /\ MaxDrift \in Nat

(* The limit is an int, and size_t is at least as wide as an int.          *)
ASSUME WidthAssumption ==
    /\ MAX_TOTAL_ALLOCATION_SIZE <= IntMod \div 2
    /\ IntMod <= SizeMod

VARIABLES
    allocated_blocks,             \* [Index -> [frame, size]]; ordinal is never read
    allocatedBlocksCounter,
    allocatedSize,
    heap,                         \* blocks malloc has given out, with their sizes
    leakingBytes                  \* what shutdown_monitoring_alloc returned (-1: not called)

vars == <<allocated_blocks, allocatedBlocksCounter, allocatedSize, heap, leakingBytes>>

Index == 0..(MAX_ALLOCATIONS - 1)
Frame == Address \cup {NULL}

TypeOK ==
    /\ allocated_blocks \in [Index -> [frame : Frame, size : 0..(SizeMod - 1)]]
    /\ allocatedBlocksCounter \in (- MaxDrift)..MAX_ALLOCATIONS
    /\ allocatedSize \in Int
    /\ \E A \in SUBSET Address : heap \in [A -> Size]
    /\ leakingBytes \in Int

(* init_monitoring_alloc                                                   *)
Init ==
    /\ allocated_blocks = [i \in Index |-> [frame |-> NULL, size |-> 0]]
    /\ allocatedBlocksCounter = 0
    /\ allocatedSize = 0
    /\ heap = [a \in {} |-> 0]
    /\ leakingBytes = -1

-----------------------------------------------------------------------------
ToInt(n) ==
    LET r == n % IntMod IN IF r < IntMod \div 2 THEN r ELSE r - IntMod

Used == {i \in Index : allocated_blocks[i].frame # NULL}

(* The table entry the loop of getEmptyAMBIndex stops at.                  *)
IsFirstEmpty(i) == i \in Index \ Used /\ \A j \in Index \ Used : i <= j

(* The C library: malloc may always fail, and does so for a size beyond    *)
(* half of the address space.                                              *)
Obtains(size, frame) ==
    /\ frame \notin DOMAIN heap
    /\ frame # NULL => size < SizeMod \div 2

Without(f, a) == [b \in DOMAIN f \ {a} |-> f[b]]

WithinLimits_Reached(size) ==    \* mutant: the total may reach the limit
    /\ allocatedBlocksCounter < MAX_ALLOCATIONS
    /\ (allocatedSize + size) % SizeMod <= MAX_TOTAL_ALLOCATION_SIZE

(* The total is converted to size_t for the sum, which wraps.              *)
WithinLimits(size) ==
    /\ allocatedBlocksCounter < MAX_ALLOCATIONS
    /\ (allocatedSize + size) % SizeMod < MAX_TOTAL_ALLOCATION_SIZE

Obtained_Always(i, size, frame) ==   \* mutant: a failed malloc is counted
    /\ allocated_blocks' = [allocated_blocks EXCEPT ![i] = [frame |-> frame, size |-> size]]
    /\ allocatedBlocksCounter' = allocatedBlocksCounter + 1
    /\ allocatedSize' = ToInt(allocatedSize + size)
    /\ heap' = IF frame = NULL THEN heap
               ELSE [a \in DOMAIN heap \cup {frame} |-> IF a = frame THEN size ELSE heap[a]]

(* malloc has been called for entry i: its size is stored in any case.     *)
Obtained(i, size, frame) ==
    /\ allocated_blocks' = [allocated_blocks EXCEPT ![i] = [frame |-> frame, size |-> size]]
    /\ IF frame = NULL THEN UNCHANGED <<allocatedBlocksCounter, allocatedSize, heap>>
       ELSE /\ allocatedBlocksCounter' = allocatedBlocksCounter + 1
            /\ allocatedSize' = ToInt(allocatedSize + size)
            /\ heap' = [a \in DOMAIN heap \cup {frame} |-> IF a = frame THEN size ELSE heap[a]]

monitoring_alloc_malloc(size) ==
    /\ leakingBytes = -1
    /\ IF WithinLimits(size) /\ Used # Index
       THEN \E i \in Index, frame \in Frame :
                IsFirstEmpty(i) /\ Obtains(size, frame) /\ Obtained(i, size, frame)
       ELSE UNCHANGED <<allocated_blocks, allocatedBlocksCounter, allocatedSize, heap>>
    /\ UNCHANGED leakingBytes

(* The table entry the loop of monitoring_alloc_free ends with.            *)
IsLastWith(i, ptr) ==
    /\ i \in Index /\ allocated_blocks[i].frame = ptr
    /\ \A j \in Index : allocated_blocks[j].frame = ptr => j <= i

Released_First(i) ==      \* mutant: the size is read after the entry has been cleared
    /\ allocatedSize' = allocatedSize
    /\ allocatedBlocksCounter' = allocatedBlocksCounter - 1
    /\ heap' = Without(heap, allocated_blocks[i].frame)
    /\ allocated_blocks' = [allocated_blocks EXCEPT ![i] = [frame |-> NULL, size |-> 0]]

Released_KeepsFrame(i) == \* mutant: the frame is not reset
    /\ allocatedSize' = ToInt(allocatedSize - allocated_blocks[i].size)
    /\ allocatedBlocksCounter' = allocatedBlocksCounter - 1
    /\ heap' = Without(heap, allocated_blocks[i].frame)
    /\ UNCHANGED allocated_blocks

Released(i) ==
    /\ allocatedSize' = ToInt(allocatedSize - allocated_blocks[i].size)
    /\ allocatedBlocksCounter' = allocatedBlocksCounter - 1
    /\ heap' = Without(heap, allocated_blocks[i].frame)
    /\ allocated_blocks' = [allocated_blocks EXCEPT ![i].frame = NULL]

(* A null pointer is found in every empty entry.                           *)
monitoring_alloc_free(ptr) ==
    /\ leakingBytes = -1
    /\ ptr = NULL => Cardinality(Used) - allocatedBlocksCounter < MaxDrift
    /\ IF \E i \in Index : allocated_blocks[i].frame = ptr
       THEN \E i \in Index : IsLastWith(i, ptr) /\ Released(i)
       ELSE UNCHANGED <<allocated_blocks, allocatedBlocksCounter, allocatedSize, heap>>
    /\ UNCHANGED leakingBytes

(* It clears and frees nothing.                                            *)
shutdown_monitoring_alloc ==
    /\ leakingBytes = -1
    /\ leakingBytes' = MapThenSumSet(LAMBDA i : allocated_blocks[i].size, Used)
    /\ UNCHANGED <<allocated_blocks, allocatedBlocksCounter, allocatedSize, heap>>

Ended == leakingBytes # -1 /\ UNCHANGED vars

Next ==
    \/ \E size \in Size : monitoring_alloc_malloc(size)
    \/ \E ptr \in Frame : monitoring_alloc_free(ptr)
    \/ shutdown_monitoring_alloc
    \/ Ended

Spec == Init /\ [][Next]_vars

-----------------------------------------------------------------------------
(* The table names exactly the blocks that are allocated, each once and    *)
(* with its size: no block is lost and no freed one remembered             *)
(* (monitoring_alloc.h:18-26).                                             *)
TableMatchesHeap ==
    /\ \A i, j \in Used : allocated_blocks[i].frame = allocated_blocks[j].frame => i = j
    /\ {allocated_blocks[i].frame : i \in Used} = DOMAIN heap
    /\ \A i \in Used : allocated_blocks[i].size = heap[allocated_blocks[i].frame]

(* The counter agrees with the table, so below its limit there is an empty *)
(* entry (monitoring_alloc.c:79, 84).                                      *)
CounterMatchesTable == allocatedBlocksCounter = Cardinality(Used)

TotalSize == MapThenSumSet(LAMBDA a : heap[a], DOMAIN heap)

(* The total agrees with the blocks that are allocated, and so does what   *)
(* the program is told of them at the end                                  *)
(* (monitoring_alloc.c:90, 124, monitoring_alloc.h:44).                    *)
SizeMatchesHeap ==
    /\ allocatedSize = TotalSize
    /\ leakingBytes # -1 => leakingBytes = TotalSize

(* All blocks together stay below the limit, also when a request is so     *)
(* large that the sum wraps (monitoring_alloc.c:15, 80).                   *)
LimitHolds == TotalSize < MAX_TOTAL_ALLOCATION_SIZE

=============================================================================
