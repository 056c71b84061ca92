----------------------------- MODULE FileCopier ------------------------------
(***************************************************************************)
(* mycp.c of "Blatt 8 - Dateien und Speicherzugriffe/A13 mycp": copies a   *)
(* file through two memory mappings.  Several copies run at once; one      *)
(* action is one system call, or the memcpy of one block.  Files are       *)
(* sequences of blocks; nothing but the copies changes them.               *)
(***************************************************************************)
EXTENDS Integers, Sequences

CONSTANTS
    Copy,          \* runs of the program
    Path,          \* names of files
    Absent,        \* no file has the name
    Zero,          \* a block of zero bytes
    MaxSize        \* bound: length of the files there are at the start

(* Block i of the file that has name f at the start is told apart from all *)
(* others.                                                                 *)
Block == (Path \X (1..MaxSize)) \cup {Zero}
Contents(f) == {[i \in 1..n |-> <<f, i>>] : n \in 0..MaxSize}

ASSUME CopierAssumption ==
    /\ MaxSize \in Nat
    /\ Zero \notin Path \X (1..MaxSize)
    /\ Absent \notin Seq(Block)

VARIABLES
    sourcePath, targetPath,
    file,          \* the file of each name
    at,            \* where a copy is
    size,          \* sourceInfo.st_size
    offset,        \* file offset of targetFD
    copied,        \* blocks memcpy has copied
    opened,        \* copies that have opened their target
    original       \* what was in the files at the start

pathVars == <<sourcePath, targetPath, original>>
vars == <<pathVars, file, at, size, offset, copied, opened>>

Files(disk) ==
    /\ disk = [f \in Path |-> disk[f]]
    /\ \A f \in Path : disk[f] = Absent \/ disk[f] \in Seq(Block)

TypeOK ==
    /\ sourcePath \in [Copy -> Path] /\ targetPath \in [Copy -> Path]
    /\ Files(file) /\ Files(original)
    /\ at \in [Copy -> {"source", "access", "create", "length", "seek", "write", "map",
                        "copy", "unmap", "done", "failed"}]
    /\ size \in [Copy -> Nat] /\ offset \in [Copy -> Nat] /\ copied \in [Copy -> Nat]
    /\ opened \subseteq Copy

Init ==
    /\ sourcePath \in [Copy -> Path] /\ targetPath \in [Copy -> Path]
    /\ file \in [Path -> UNION {Contents(f) : f \in Path} \cup {Absent}]
    /\ \A f \in Path : file[f] \in Contents(f) \cup {Absent}
    /\ original = file
    /\ at = [c \in Copy |-> "source"]
    /\ size = [c \in Copy |-> 0]
    /\ offset = [c \in Copy |-> 0]
    /\ copied = [c \in Copy |-> 0]
    /\ opened = {}

-----------------------------------------------------------------------------
Source(c) == file[sourcePath[c]]
Target(c) == file[targetPath[c]]

Goto(c, place) == at' = [at EXCEPT ![c] = place]

openSource(c) ==
    /\ at[c] = "source"
    /\ Goto(c, IF Source(c) = Absent THEN "failed" ELSE "access")
    /\ UNCHANGED <<pathVars, file, size, offset, copied, opened>>

createTarget_NoAccess(c) ==      \* mutant: access is not called
    /\ at[c] = "access"
    /\ Goto(c, "create")
    /\ UNCHANGED <<pathVars, file, size, offset, copied, opened>>

(* access in createTarget                                                  *)
createTarget_Access(c) ==
    /\ at[c] = "access"
    /\ Goto(c, IF Target(c) = Absent THEN "create" ELSE "failed")
    /\ UNCHANGED <<pathVars, file, size, offset, copied, opened>>

(* open without O_EXCL: the file may be there by now.                      *)
createTarget_Open(c) ==
    /\ at[c] = "create"
    /\ file' = [file EXCEPT ![targetPath[c]] = IF @ = Absent THEN <<>> ELSE @]
    /\ opened' = opened \cup {c}
    /\ Goto(c, "length")
    /\ UNCHANGED <<pathVars, size, offset, copied>>

getSourceLength(c) ==
    /\ at[c] = "length"
    /\ size' = [size EXCEPT ![c] = Len(Source(c))]
    /\ Goto(c, "seek")
    /\ UNCHANGED <<pathVars, file, offset, copied, opened>>

setTargetSize_SeekShort(c) ==    \* mutant: one less
    LET new == Len(Target(c)) + size[c] - 2 IN
    /\ at[c] = "seek"
    /\ offset' = [offset EXCEPT ![c] = IF new < 0 THEN @ ELSE new]
    /\ Goto(c, IF new < 0 THEN "failed" ELSE "write")
    /\ UNCHANGED <<pathVars, file, size, copied, opened>>

(* lseek(targetFD, size - 1, SEEK_END): fails for an offset below 0.       *)
setTargetSize_Seek(c) ==
    LET new == Len(Target(c)) + size[c] - 1 IN
    /\ at[c] = "seek"
    /\ offset' = [offset EXCEPT ![c] = IF new < 0 THEN @ ELSE new]
    /\ Goto(c, IF new < 0 THEN "failed" ELSE "write")
    /\ UNCHANGED <<pathVars, file, size, copied, opened>>

(* f after a write of zero at offset n; what it skips reads as zero.       *)
ZeroAt(f, n) ==
    [i \in 1..(IF n < Len(f) THEN Len(f) ELSE n + 1) |->
        IF i <= Len(f) /\ i # n + 1 THEN f[i] ELSE Zero]

setTargetSize_Write(c) ==
    /\ at[c] = "write"
    /\ file' = [file EXCEPT ![targetPath[c]] = ZeroAt(@, offset[c])]
    /\ Goto(c, "map")
    /\ UNCHANGED <<pathVars, size, offset, copied, opened>>

(* mapFileToMemory for source and target: mmap refuses length 0.           *)
mapFileToMemory(c) ==
    /\ at[c] = "map"
    /\ Goto(c, IF size[c] = 0 THEN "failed" ELSE "copy")
    /\ UNCHANGED <<pathVars, file, size, offset, copied, opened>>

copyFilesInMemory_Short(c) ==    \* mutant: one block less
    /\ at[c] = "copy"
    /\ LET i == copied[c] + 1 IN
       /\ file' = [file EXCEPT ![targetPath[c]][i] = Source(c)[i]]
       /\ copied' = [copied EXCEPT ![c] = i]
       /\ Goto(c, IF i + 1 >= size[c] THEN "unmap" ELSE "copy")
    /\ UNCHANGED <<pathVars, size, offset, opened>>

copyFilesInMemory_Down(c) ==     \* mutant: the source is read from its end
    /\ at[c] = "copy"
    /\ LET i == copied[c] + 1 IN
       /\ file' = [file EXCEPT ![targetPath[c]][i] = Source(c)[size[c] - copied[c]]]
       /\ copied' = [copied EXCEPT ![c] = i]
       /\ Goto(c, IF i = size[c] THEN "unmap" ELSE "copy")
    /\ UNCHANGED <<pathVars, size, offset, opened>>

(* The next block of memcpy.  The mappings show the files as they are now. *)
copyFilesInMemory(c) ==
    /\ at[c] = "copy"
    /\ LET i == copied[c] + 1 IN
       /\ file' = [file EXCEPT ![targetPath[c]][i] = Source(c)[i]]
       /\ copied' = [copied EXCEPT ![c] = i]
       /\ Goto(c, IF i = size[c] THEN "unmap" ELSE "copy")
    /\ UNCHANGED <<pathVars, size, offset, opened>>

(* munmap and close, twice each                                            *)
Finish(c) ==
    /\ at[c] = "unmap"
    /\ Goto(c, "done")
    /\ UNCHANGED <<pathVars, file, size, offset, copied, opened>>

Ended(c) == at[c] \in {"done", "failed"}

(* A call fails for a reason of its own and error() exits, or the copy is  *)
(* killed.  What it has done to the target stays.                          *)
error(c) ==
    /\ ~ Ended(c)
    /\ Goto(c, "failed")
    /\ UNCHANGED <<pathVars, file, size, offset, copied, opened>>

main(c) ==
    \/ openSource(c) \/ createTarget_Access(c) \/ createTarget_Open(c)
    \/ getSourceLength(c) \/ setTargetSize_Seek(c) \/ setTargetSize_Write(c)
    \/ mapFileToMemory(c) \/ copyFilesInMemory(c) \/ Finish(c)

AllEnded == (\A c \in Copy : Ended(c)) /\ UNCHANGED vars

Next == (\E c \in Copy : main(c) \/ error(c)) \/ AllEnded

Spec == Init /\ [][Next]_vars

-----------------------------------------------------------------------------
(* No other copy has opened a file this copy reads or writes.              *)
Alone(c) ==
    \A d \in opened \ {c} : targetPath[d] \notin {sourcePath[c], targetPath[c]}

(* A copy that ends well has made an exact copy, unless another one opened *)
(* its source or, between access and open, its target (mycp.c:30-42).      *)
CopyIsExact == \A c \in Copy : at[c] = "done" /\ Alone(c) => Target(c) = Source(c)

(* No copy writes into a file that was there before: not into its own      *)
(* source, nor into the target of a call that is refused (mycp.c:79-80).   *)
ExistingFilesKept == \A f \in Path : original[f] # Absent => file[f] = original[f]

(* memcpy stays inside both files, also when copies share a target, and    *)
(* when a source is itself still being written: no block it touches is     *)
(* missing (mycp.c:107-133).                                               *)
MappingsBacked ==
    \A c \in Copy : at[c] = "copy" =>
        /\ Len(Source(c)) >= size[c] /\ Len(Target(c)) >= size[c]
        /\ copied[c] < size[c]

(* What a race for one target, or a copy of an unfinished copy, leaves is  *)
(* made of the sources alone: every block is a source's block at the same  *)
(* place, or zero (mycp.c:77-133).                                         *)
NoForeignBlocks ==
    \A c \in opened : \A i \in DOMAIN Target(c) :
        \/ Target(c)[i] = Zero
        \/ \E d \in opened : Target(c)[i] = <<sourcePath[d], i>>

=============================================================================
