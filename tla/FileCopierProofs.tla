-------------------------- MODULE FileCopierProofs ---------------------------
(***************************************************************************)
(* What the copies leave in the files, for every number of copies, names   *)
(* and lengths.                                                            *)
(***************************************************************************)
EXTENDS FileCopier, SequenceTheorems, TLAPS

USE CopierAssumption

Opening == {"length", "seek", "write", "map", "copy", "unmap", "done"}
Sized   == {"seek", "write", "map", "copy", "unmap", "done"}
Grown   == {"map", "copy", "unmap", "done"}

(* A copy that has called open has found its target absent, so the file    *)
(* was not there at the start and is not its source.                       *)
TargetIsNew(c) ==
    /\ at[c] = "create" \/ at[c] \in Opening \/ c \in opened => original[targetPath[c]] = Absent
    /\ at[c] = "create" \/ at[c] \in Opening => sourcePath[c] # targetPath[c]
    /\ at[c] \in Opening => c \in opened
    /\ c \in opened => Target(c) # Absent

(* What getSourceLength and setTargetSize have established.                *)
LongEnough(c) ==
    /\ at[c] \notin {"source", "failed"} => Source(c) # Absent
    /\ at[c] \in Sized => Len(Source(c)) >= size[c]
    /\ at[c] = "write" => offset[c] + 1 >= size[c]
    /\ at[c] \in Grown => Len(Target(c)) >= size[c]
    /\ at[c] \in {"source", "access", "create", "length", "seek", "write", "map"} => copied[c] = 0
    /\ at[c] = "copy" => copied[c] < size[c]

FilesInv ==
    /\ TypeOK
    /\ ExistingFilesKept
    /\ \A c \in Copy : TargetIsNew(c) /\ LongEnough(c)

(* The work of a copy nobody interferes with.                              *)
Exact(c) ==
    /\ at[c] = "create" => Target(c) = Absent
    /\ at[c] \in {"length", "seek", "write"} => Target(c) = <<>>
    /\ at[c] \in Sized => Len(Source(c)) = size[c]
    /\ at[c] = "write" => offset[c] + 1 = size[c]
    /\ at[c] \in {"map", "copy"} => /\ Len(Target(c)) = size[c]
                                    /\ \A i \in 1..copied[c] : Target(c)[i] = Source(c)[i]
    /\ at[c] \in {"unmap", "done"} => Target(c) = Source(c)

CopierInv == FilesInv /\ \A c \in Copy : Alone(c) => Exact(c)

-----------------------------------------------------------------------------
LEMMA ZeroBlock == Zero \in Block
BY DEF Block

(* A write of one byte makes a file at least as long as it was, and long   *)
(* enough for the byte; nothing but blocks is in it.                       *)
LEMMA ZeroAtType ==
    ASSUME NEW f \in Seq(Block), NEW n \in Nat
    PROVE  /\ ZeroAt(f, n) \in Seq(Block)
           /\ Len(ZeroAt(f, n)) >= Len(f)
           /\ Len(ZeroAt(f, n)) >= n + 1
           /\ f = <<>> => Len(ZeroAt(f, n)) = n + 1
           /\ \A i \in 1..Len(ZeroAt(f, n)) :
                 ZeroAt(f, n)[i] = Zero \/ (i \in 1..Len(f) /\ ZeroAt(f, n)[i] = f[i])
<1> DEFINE m == IF n < Len(f) THEN Len(f) ELSE n + 1
           z == [i \in 1..m |-> IF i <= Len(f) /\ i # n + 1 THEN f[i] ELSE Zero]
<1>1. m \in Nat /\ Len(f) \in Nat /\ m >= Len(f) /\ m >= n + 1
  BY LenProperties
<1>2. \A i \in 1..m : z[i] \in Block
  BY <1>1, ZeroBlock, ElementOfSeq
<1>3. z \in [1..m -> Block]
  BY <1>2
<1>4. z \in Seq(Block) /\ Len(z) = m
  BY <1>1, <1>3, LenProperties
<1>5. ZeroAt(f, n) = z
  BY DEF ZeroAt
<1>6. f = <<>> => m = n + 1
  BY EmptySeq
<1>7. \A i \in 1..m : z[i] = Zero \/ (i \in 1..Len(f) /\ z[i] = f[i])
  BY <1>1
<1> HIDE DEF m, z
<1> QED BY <1>1, <1>4, <1>5, <1>6, <1>7

-----------------------------------------------------------------------------
(* What one step of c may do to the files: nothing but its target changes, *)
(* and only once c has opened it; no file vanishes or gets shorter.        *)
Touches(c) ==
    /\ \A f \in Path : f # targetPath[c] => file'[f] = file[f]
    /\ file'[targetPath[c]] # file[targetPath[c]] =>
           c \in opened' /\ original[targetPath[c]] = Absent
    /\ \A f \in Path : file[f] # Absent => file'[f] # Absent /\ Len(file'[f]) >= Len(file[f])
    /\ opened \subseteq opened'

(* The state of the other copies.                                          *)
Others(c) ==
    \A d \in Copy : d # c =>
        /\ at'[d] = at[d] /\ size'[d] = size[d]
        /\ offset'[d] = offset[d] /\ copied'[d] = copied[d]
        /\ d \in opened' <=> d \in opened

LEMMA InitInv == Init => CopierInv
<1> SUFFICES ASSUME Init PROVE CopierInv
  OBVIOUS
<1>1. \A f \in Path : file[f] = Absent \/ file[f] \in Seq(Block)
  <2> TAKE f \in Path
  <2>1. CASE file[f] \in Contents(f)
    <3>1. PICK n \in 0..MaxSize : file[f] = [i \in 1..n |-> <<f, i>>]
      BY <2>1 DEF Contents
    <3>2. file[f] \in [1..n -> Block]
      BY <3>1 DEF Block
    <3>3. n \in Nat
      OBVIOUS
    <3> QED BY <3>2, <3>3, SeqDef
  <2> QED BY <2>1 DEF Init
<1>2. file = [f \in Path |-> file[f]]
  BY DEF Init
<1>3. TypeOK
  BY <1>1, <1>2 DEF Init, TypeOK, Files
<1>4. ExistingFilesKept
  BY DEF Init, ExistingFilesKept
<1>5. \A c \in Copy : TargetIsNew(c) /\ LongEnough(c) /\ Exact(c)
  BY DEF Init, TargetIsNew, LongEnough, Exact, Opening, Sized, Grown
<1> QED BY <1>3, <1>4, <1>5 DEF CopierInv, FilesInv

(* The steps that leave the files alone.                                   *)
LEMMA QuietStep ==
    ASSUME FilesInv, NEW c \in Copy, UNCHANGED <<pathVars, file, opened>>
    PROVE  Touches(c) /\ Files(file)' /\ Files(original)'
<1>1. \A f \in Path : file[f] # Absent => Len(file[f]) \in Nat
  BY LenProperties DEF FilesInv, TypeOK, Files
<1> QED BY <1>1 DEF Touches, pathVars, FilesInv, TypeOK, Files

LEMMA OpenStep ==
    ASSUME FilesInv, NEW c \in Copy, createTarget_Open(c)
    PROVE  Touches(c) /\ Files(file)' /\ Files(original)'
<1> DEFINE t == targetPath[c]
<1>1. t \in Path /\ Files(file) /\ Files(original) /\ UNCHANGED pathVars
  BY DEF FilesInv, TypeOK, createTarget_Open
<1>2. file' = [file EXCEPT ![t] = IF @ = Absent THEN <<>> ELSE @] /\ opened' = opened \cup {c}
  BY DEF createTarget_Open
<1>3. /\ \A f \in Path : f # t => file'[f] = file[f]
      /\ file'[t] = IF file[t] = Absent THEN <<>> ELSE file[t]
      /\ file' = [f \in Path |-> file'[f]]
  BY <1>1, <1>2 DEF Files
<1>4. original[t] = Absent
  BY DEF FilesInv, TargetIsNew, createTarget_Open
<1>5. \A f \in Path : file[f] # Absent => Len(file[f]) \in Nat
  BY <1>1, LenProperties DEF Files
<1>6. Touches(c)
  BY <1>1, <1>2, <1>3, <1>4, <1>5 DEF Touches
<1>7. Files(file)'
  BY <1>1, <1>3, EmptySeq DEF Files
<1> QED BY <1>1, <1>6, <1>7 DEF Files, pathVars

LEMMA WriteStep ==
    ASSUME FilesInv, NEW c \in Copy, setTargetSize_Write(c)
    PROVE  /\ Touches(c) /\ Files(file)' /\ Files(original)'
           /\ Len(Target(c)') >= offset[c] + 1
           /\ Target(c) = <<>> => Len(Target(c)') = offset[c] + 1
           /\ Target(c)' \in Seq(Block)
           /\ \A i \in 1..Len(Target(c)') :
                 \/ Target(c)'[i] = Zero
                 \/ i \in 1..Len(Target(c)) /\ Target(c)'[i] = Target(c)[i]
<1> DEFINE t == targetPath[c]
<1>1. t \in Path /\ Files(file) /\ Files(original) /\ UNCHANGED <<pathVars, opened>>
  BY DEF FilesInv, TypeOK, setTargetSize_Write
<1>2. file[t] \in Seq(Block) /\ offset[c] \in Nat /\ original[t] = Absent /\ c \in opened
  BY <1>1 DEF FilesInv, TypeOK, TargetIsNew, Opening, setTargetSize_Write, Files, Target
<1>3. file' = [file EXCEPT ![t] = ZeroAt(@, offset[c])]
  BY DEF setTargetSize_Write
<1>4. /\ \A f \in Path : f # t => file'[f] = file[f]
      /\ file'[t] = ZeroAt(file[t], offset[c])
      /\ file' = [f \in Path |-> file'[f]]
  BY <1>1, <1>3 DEF Files
<1>5. \A f \in Path : file[f] # Absent => Len(file[f]) \in Nat
  BY <1>1, LenProperties DEF Files
<1>6. /\ file'[t] \in Seq(Block)
      /\ Len(file'[t]) >= Len(file[t])
      /\ Len(file'[t]) >= offset[c] + 1
      /\ file[t] = <<>> => Len(file'[t]) = offset[c] + 1
      /\ \A i \in 1..Len(file'[t]) :
            file'[t][i] = Zero \/ (i \in 1..Len(file[t]) /\ file'[t][i] = file[t][i])
  BY <1>2, <1>4, ZeroAtType
<1>7. Touches(c)
  BY <1>1, <1>2, <1>4, <1>5, <1>6 DEF Touches
<1>8. Files(file)' /\ Files(original)'
  BY <1>1, <1>4, <1>6 DEF Files, pathVars
<1>9. Target(c)' = file'[t] /\ Target(c) = file[t]
  BY <1>1 DEF Target, pathVars
<1> QED BY <1>6, <1>7, <1>8, <1>9

LEMMA CopyStep ==
    ASSUME FilesInv, NEW c \in Copy, copyFilesInMemory(c)
    PROVE  /\ Touches(c) /\ Files(file)' /\ Files(original)'
           /\ Len(Target(c)') = Len(Target(c))
           /\ \A j \in 1..Len(Target(c)) :
                 Target(c)'[j] = IF j = copied[c] + 1 THEN Source(c)[j] ELSE Target(c)[j]
           /\ Source(c)' = Source(c)
<1> DEFINE t == targetPath[c]
           s == sourcePath[c]
           i == copied[c] + 1
<1>1. /\ t \in Path /\ s \in Path /\ Files(file) /\ Files(original)
      /\ UNCHANGED <<pathVars, opened>>
  BY DEF FilesInv, TypeOK, copyFilesInMemory
<1>2. /\ file[t] # Absent /\ file[s] # Absent /\ original[t] = Absent /\ c \in opened /\ s # t
      /\ size[c] \in Nat /\ copied[c] \in Nat /\ copied[c] < size[c]
      /\ Len(file[s]) >= size[c] /\ Len(file[t]) >= size[c]
  BY DEF FilesInv, TypeOK, TargetIsNew, LongEnough, Opening, Sized, Grown, copyFilesInMemory, Target, Source
<1>3. file[t] \in Seq(Block) /\ file[s] \in Seq(Block)
  BY <1>1, <1>2 DEF Files
<1>4. \A f \in Path : file[f] # Absent => Len(file[f]) \in Nat
  BY <1>1, LenProperties DEF Files
<1>5. i \in 1..Len(file[t]) /\ i \in 1..Len(file[s])
  BY <1>1, <1>2, <1>4
<1>6. file[s][i] \in Block
  BY <1>3, <1>5, ElementOfSeq
<1> DEFINE new == [file[t] EXCEPT ![i] = file[s][i]]
<1>7. /\ new \in Seq(Block)
      /\ Len(new) = Len(file[t])
      /\ \A j \in 1..Len(file[t]) : new[j] = IF j = i THEN file[s][i] ELSE file[t][j]
  <2> HIDE DEF i
  <2> QED BY <1>3, <1>5, <1>6, ExceptSeq
<1>8. file' = [file EXCEPT ![t] = new]
  BY DEF copyFilesInMemory, Source
<1>9. /\ \A f \in Path : f # t => file'[f] = file[f]
      /\ file'[t] = new
      /\ file' = [f \in Path |-> file'[f]]
  <2> HIDE DEF new
  <2> QED BY <1>1, <1>8 DEF Files
<1> HIDE DEF new
<1>10. Touches(c)
  BY <1>1, <1>2, <1>4, <1>7, <1>9 DEF Touches
<1>11. Files(file)' /\ Files(original)'
  BY <1>1, <1>7, <1>9 DEF Files, pathVars
<1>12. /\ Target(c)' = new /\ Target(c) = file[t]
       /\ Source(c)' = file[s] /\ Source(c) = file[s]
  BY <1>1, <1>2, <1>9 DEF Target, Source, pathVars
<1> QED BY <1>7, <1>10, <1>11, <1>12

(* One step of a copy: types, what it may touch, its own part of the       *)
(* invariant.                                                              *)
Own(c) ==
    /\ TypeOK' /\ UNCHANGED pathVars
    /\ Touches(c) /\ Others(c)
    /\ TargetIsNew(c)' /\ LongEnough(c)'
    /\ Exact(c) => Exact(c)'

LEMMA OwnStep ==
    ASSUME FilesInv, NEW c \in Copy, main(c) \/ error(c)
    PROVE  Own(c)
<1> DEFINE t == targetPath[c]
           s == sourcePath[c]
<1> USE DEF Opening, Sized, Grown
<1>0. /\ t \in Path /\ s \in Path /\ TypeOK /\ Files(file) /\ Files(original)
      /\ TargetIsNew(c) /\ LongEnough(c)
  BY DEF FilesInv, TypeOK
<1>1. /\ Source(c) # Absent => Source(c) \in Seq(Block) /\ Len(Source(c)) \in Nat
      /\ Target(c) # Absent => Target(c) \in Seq(Block) /\ Len(Target(c)) \in Nat
  BY <1>0, LenProperties DEF Files, Source, Target
<1>2. /\ size[c] \in Nat /\ offset[c] \in Nat /\ copied[c] \in Nat
      /\ Len(<<>>) = 0
  BY <1>0, EmptySeq DEF TypeOK
<1>3. CASE openSource(c)
  <2>1. UNCHANGED <<pathVars, file, opened>> /\ Touches(c) /\ Files(file)' /\ Files(original)'
    BY <1>3, QuietStep DEF openSource
  <2>2. Source(c)' = Source(c) /\ Target(c)' = Target(c)
    BY <2>1 DEF Source, Target, pathVars
  <2> QED
    BY <1>0, <1>3, <2>1, <2>2
    DEF Own, openSource, Goto, TypeOK, Others, TargetIsNew, LongEnough, Exact, pathVars
<1>4. CASE createTarget_Access(c)
  <2>1. UNCHANGED <<pathVars, file, opened>> /\ Touches(c) /\ Files(file)' /\ Files(original)'
    BY <1>4, QuietStep DEF createTarget_Access
  <2>2. Source(c)' = Source(c) /\ Target(c)' = Target(c)
    BY <2>1 DEF Source, Target, pathVars
  <2>3. Target(c) = Absent => original[t] = Absent /\ s # t
    BY <1>0, <1>4 DEF FilesInv, ExistingFilesKept, LongEnough, Source, Target, createTarget_Access
  <2> QED
    BY <1>0, <1>4, <2>1, <2>2, <2>3
    DEF Own, createTarget_Access, Goto, TypeOK, Others, TargetIsNew, LongEnough, Exact, pathVars
<1>5. CASE createTarget_Open(c)
  <2>1. Touches(c) /\ Files(file)' /\ Files(original)'
    BY <1>5, OpenStep
  <2>2. /\ Source(c)' = Source(c)
        /\ Target(c)' = IF Target(c) = Absent THEN <<>> ELSE Target(c)
    BY <1>0, <1>5, <2>1 DEF Source, Target, pathVars, Touches, TargetIsNew, createTarget_Open, Files
  <2>3. Target(c)' # Absent
    BY <2>2, EmptySeq
  <2> QED
    BY <1>0, <1>5, <2>1, <2>2, <2>3
    DEF Own, createTarget_Open, Goto, TypeOK, Others, TargetIsNew, LongEnough, Exact, pathVars
<1>6. CASE getSourceLength(c)
  <2>1. UNCHANGED <<pathVars, file, opened>> /\ Touches(c) /\ Files(file)' /\ Files(original)'
    BY <1>6, QuietStep DEF getSourceLength
  <2>2. Source(c)' = Source(c) /\ Target(c)' = Target(c)
    BY <2>1 DEF Source, Target, pathVars
  <2>3. size'[c] = Len(Source(c)) /\ Len(Source(c)) \in Nat
    BY <1>0, <1>1, <1>6 DEF getSourceLength, LongEnough, TypeOK
  <2> QED
    BY <1>0, <1>6, <2>1, <2>2, <2>3
    DEF Own, getSourceLength, Goto, TypeOK, Others, TargetIsNew, LongEnough, Exact, pathVars
<1>7. CASE setTargetSize_Seek(c)
  <2>1. UNCHANGED <<pathVars, file, opened>> /\ Touches(c) /\ Files(file)' /\ Files(original)'
    BY <1>7, QuietStep DEF setTargetSize_Seek
  <2>2. Source(c)' = Source(c) /\ Target(c)' = Target(c)
    BY <2>1 DEF Source, Target, pathVars
  <2> DEFINE new == Len(Target(c)) + size[c] - 1
  <2>3. new \in Int /\ Target(c) # Absent /\ (Target(c) = <<>> => new = size[c] - 1) /\ new + 1 >= size[c]
    BY <1>0, <1>1, <1>2, <1>7 DEF setTargetSize_Seek, TargetIsNew
  <2>4. /\ at'[c] \in {"failed", "write"} /\ offset'[c] \in Nat
        /\ at'[c] = "write" => offset'[c] = new
    BY <1>0, <1>2, <1>7, <2>3 DEF setTargetSize_Seek, Goto, TypeOK
  <2> HIDE DEF new
  <2>5. /\ at' = [at EXCEPT ![c] = at'[c]] /\ offset' = [offset EXCEPT ![c] = offset'[c]]
        /\ size' = size /\ copied' = copied /\ at[c] = "seek"
    BY <1>0, <1>7 DEF setTargetSize_Seek, Goto, TypeOK
  <2>6. TypeOK' /\ Others(c)
    BY <1>0, <2>1, <2>4, <2>5 DEF TypeOK, Others, pathVars
  <2>7. at'[c] \in {"failed", "write"} /\ size'[c] = size[c] /\ copied'[c] = copied[c]
    BY <1>0, <2>4, <2>5 DEF TypeOK
  <2>8. TargetIsNew(c)' /\ LongEnough(c)'
    BY <1>0, <2>1, <2>2, <2>3, <2>4, <2>5, <2>7 DEF TargetIsNew, LongEnough, pathVars
  <2>9. Exact(c) => Exact(c)'
    BY <1>2, <2>2, <2>3, <2>4, <2>5, <2>7 DEF Exact
  <2> QED BY <2>1, <2>6, <2>8, <2>9 DEF Own
<1>8. CASE setTargetSize_Write(c)
  <2>1. /\ Touches(c) /\ Files(file)' /\ Files(original)'
        /\ Len(Target(c)') >= offset[c] + 1
        /\ Target(c) = <<>> => Len(Target(c)') = offset[c] + 1
    BY <1>8, WriteStep
  <2>2. Source(c)' = Source(c) /\ Target(c)' # Absent /\ s # t
    BY <1>0, <1>8, <2>1 DEF Source, Target, pathVars, Touches, TargetIsNew, setTargetSize_Write, Files
  <2>3. Target(c)' \in Seq(Block) /\ Len(Target(c)') \in Nat
    BY <1>0, <1>8, <2>1, <2>2, LenProperties DEF Files, Target, pathVars, setTargetSize_Write
  <2> QED
    BY <1>0, <1>2, <1>8, <2>1, <2>2, <2>3
    DEF Own, setTargetSize_Write, Goto, TypeOK, Others, TargetIsNew, LongEnough, Exact, pathVars
<1>9. CASE mapFileToMemory(c)
  <2>1. UNCHANGED <<pathVars, file, opened>> /\ Touches(c) /\ Files(file)' /\ Files(original)'
    BY <1>9, QuietStep DEF mapFileToMemory
  <2>2. Source(c)' = Source(c) /\ Target(c)' = Target(c)
    BY <2>1 DEF Source, Target, pathVars
  <2> QED
    BY <1>0, <1>2, <1>9, <2>1, <2>2
    DEF Own, mapFileToMemory, Goto, TypeOK, Others, TargetIsNew, LongEnough, Exact, pathVars
<1>10. CASE copyFilesInMemory(c)
  <2>1. /\ Touches(c) /\ Files(file)' /\ Files(original)'
        /\ Len(Target(c)') = Len(Target(c))
        /\ \A j \in 1..Len(Target(c)) :
              Target(c)'[j] = IF j = copied[c] + 1 THEN Source(c)[j] ELSE Target(c)[j]
        /\ Source(c)' = Source(c)
    BY <1>10, CopyStep
  <2>2. /\ at[c] = "copy" /\ Target(c) # Absent /\ Source(c) # Absent
        /\ UNCHANGED <<pathVars, size, offset, opened>>
        /\ copied' = [copied EXCEPT ![c] = copied[c] + 1]
        /\ at' = [at EXCEPT ![c] = IF copied[c] + 1 = size[c] THEN "unmap" ELSE "copy"]
    BY <1>0, <1>10 DEF copyFilesInMemory, Goto, LongEnough, TargetIsNew
  <2>3. Target(c)' # Absent
    BY <1>0, <2>1, <2>2 DEF Touches, Target, pathVars
  <2>4. TypeOK' /\ Others(c)
    BY <1>0, <1>2, <2>1, <2>2 DEF TypeOK, Others, pathVars
  <2>5. TargetIsNew(c)'
    BY <1>0, <2>2, <2>3 DEF TargetIsNew, pathVars, TypeOK
  <2>6. LongEnough(c)'
    BY <1>0, <1>1, <1>2, <2>1, <2>2 DEF LongEnough, pathVars, TypeOK
  <2>7. ASSUME Exact(c) PROVE Exact(c)'
    <3>1. /\ Len(Target(c)) = size[c] /\ Len(Source(c)) = size[c]
          /\ \A j \in 1..copied[c] : Target(c)[j] = Source(c)[j]
          /\ copied[c] < size[c]
      BY <1>0, <2>2, <2>7 DEF Exact, LongEnough
    <3>2. \A j \in 1..(copied[c] + 1) : Target(c)'[j] = Source(c)[j]
      BY <1>2, <2>1, <3>1
    <3>3. Target(c)' \in Seq(Block) /\ Source(c) \in Seq(Block)
      BY <1>0, <1>1, <2>1, <2>2, <2>3 DEF Files, Target, pathVars
    <3>4. copied[c] + 1 = size[c] => Target(c)' = Source(c)
      BY <2>1, <3>1, <3>2, <3>3, SeqEqual
    <3> QED BY <1>0, <1>2, <2>1, <2>2, <3>1, <3>2, <3>4 DEF Exact, TypeOK
  <2> QED BY <2>1, <2>2, <2>4, <2>5, <2>6, <2>7 DEF Own
<1>11. CASE Finish(c)
  <2>1. UNCHANGED <<pathVars, file, opened>> /\ Touches(c) /\ Files(file)' /\ Files(original)'
    BY <1>11, QuietStep DEF Finish
  <2>2. Source(c)' = Source(c) /\ Target(c)' = Target(c)
    BY <2>1 DEF Source, Target, pathVars
  <2> QED
    BY <1>0, <1>11, <2>1, <2>2
    DEF Own, Finish, Goto, TypeOK, Others, TargetIsNew, LongEnough, Exact, pathVars
<1>12. CASE error(c)
  <2>1. UNCHANGED <<pathVars, file, opened>> /\ Touches(c) /\ Files(file)' /\ Files(original)'
    BY <1>12, QuietStep DEF error
  <2>2. Source(c)' = Source(c) /\ Target(c)' = Target(c)
    BY <2>1 DEF Source, Target, pathVars
  <2> QED
    BY <1>0, <1>12, <2>1, <2>2
    DEF Own, error, Goto, TypeOK, Others, TargetIsNew, LongEnough, Exact, pathVars
<1> QED
  BY <1>3, <1>4, <1>5, <1>6, <1>7, <1>8, <1>9, <1>10, <1>11, <1>12 DEF main

-----------------------------------------------------------------------------
(* A step of c keeps what FilesInv says of another copy d, and what d has  *)
(* done is still exact if nobody has opened the files of d.                *)
LEMMA OtherStep ==
    ASSUME FilesInv, NEW c \in Copy, NEW d \in Copy, c # d, Own(c)
    PROVE  /\ TargetIsNew(d)' /\ LongEnough(d)'
           /\ Alone(d)' => Alone(d) /\ (Exact(d) => Exact(d)')
<1> DEFINE t == targetPath[d]
           s == sourcePath[d]
<1> USE DEF Opening, Sized, Grown
<1>1. /\ t \in Path /\ s \in Path /\ targetPath[c] \in Path
      /\ TargetIsNew(d) /\ LongEnough(d) /\ UNCHANGED pathVars
      /\ Touches(c) /\ Others(c) /\ TypeOK
  BY DEF FilesInv, TypeOK, Own
<1>2. /\ at'[d] = at[d] /\ size'[d] = size[d] /\ offset'[d] = offset[d] /\ copied'[d] = copied[d]
      /\ d \in opened' <=> d \in opened
  BY <1>1 DEF Others
<1>3. /\ Source(d)' = file'[s] /\ Source(d) = file[s]
      /\ Target(d)' = file'[t] /\ Target(d) = file[t]
      /\ original' = original /\ targetPath' = targetPath /\ sourcePath' = sourcePath
  BY <1>1 DEF Source, Target, pathVars
<1>4. /\ file[s] # Absent => file'[s] # Absent /\ Len(file'[s]) >= Len(file[s])
      /\ file[t] # Absent => file'[t] # Absent /\ Len(file'[t]) >= Len(file[t])
  BY <1>1 DEF Touches
<1>5. TargetIsNew(d)'
  BY <1>1, <1>2, <1>3, <1>4 DEF TargetIsNew
<1>6. /\ file[s] # Absent => Len(file[s]) \in Nat /\ Len(file'[s]) \in Nat
      /\ file[t] # Absent => Len(file[t]) \in Nat /\ Len(file'[t]) \in Nat
      /\ size[d] \in Nat
  <2>1. Files(file) /\ Files(file)'
    BY <1>1 DEF TypeOK, Own
  <2> QED BY <1>1, <1>4, <2>1, LenProperties DEF Files, TypeOK
<1>7. LongEnough(d)'
  BY <1>1, <1>2, <1>3, <1>4, <1>6 DEF LongEnough, TargetIsNew
<1>8. ASSUME Alone(d)' PROVE Alone(d) /\ (Exact(d) => Exact(d)')
  <2>1. Alone(d)
    BY <1>1, <1>3, <1>8 DEF Alone, Touches
  <2>2. c \in opened' => targetPath[c] # s /\ targetPath[c] # t
    BY <1>3, <1>8 DEF Alone
  <2>3. file'[s] = file[s] /\ file'[t] = file[t]
    BY <1>1, <2>2 DEF Touches
  <2> QED BY <1>2, <1>3, <2>1, <2>3 DEF Exact
<1> QED BY <1>5, <1>7, <1>8

LEMMA NextInv == CopierInv /\ [Next]_vars => CopierInv'
<1> SUFFICES ASSUME CopierInv, [Next]_vars PROVE CopierInv'
  OBVIOUS
<1>0. FilesInv
  BY DEF CopierInv
<1>1. CASE \E c \in Copy : main(c) \/ error(c)
  <2>1. PICK c \in Copy : main(c) \/ error(c)
    BY <1>1
  <2>2. Own(c)
    BY <1>0, <2>1, OwnStep
  <2>3. ExistingFilesKept'
    BY <1>0, <2>2 DEF Own, Touches, ExistingFilesKept, FilesInv, pathVars
  <2>4. \A d \in Copy : d # c => /\ TargetIsNew(d)' /\ LongEnough(d)'
                                 /\ Alone(d)' => Alone(d) /\ (Exact(d) => Exact(d)')
    BY <1>0, <2>2, OtherStep
  <2>5. Alone(c)' => Alone(c)
    BY <2>2 DEF Own, Touches, Alone, pathVars
  <2>6. \A d \in Copy : TargetIsNew(d)' /\ LongEnough(d)'
    BY <2>2, <2>4 DEF Own
  <2>7. \A d \in Copy : Alone(d)' => Exact(d)'
    BY <2>2, <2>4, <2>5 DEF Own, CopierInv
  <2> QED BY <2>2, <2>3, <2>6, <2>7 DEF CopierInv, FilesInv, Own
<1>2. CASE UNCHANGED vars
  <2>1. TypeOK' /\ ExistingFilesKept'
    BY <1>2, <1>0 DEF FilesInv, TypeOK, Files, ExistingFilesKept, vars, pathVars
  <2>2. \A c \in Copy : TargetIsNew(c)' /\ LongEnough(c)'
    BY <1>2, <1>0 DEF FilesInv, TargetIsNew, LongEnough, Source, Target, vars, pathVars
  <2>3. \A c \in Copy : Alone(c)' => Exact(c)'
    BY <1>2 DEF CopierInv, Exact, Alone, Source, Target, vars, pathVars
  <2> QED BY <2>1, <2>2, <2>3 DEF CopierInv, FilesInv
<1> QED BY <1>1, <1>2 DEF Next, AllEnded

LEMMA CopierInvAlways == Spec => []CopierInv
BY InitInv, NextInv, PTL DEF Spec

-----------------------------------------------------------------------------
(* The blocks of a file that was not there at the start.                   *)
Sourced(b, i, S) == b = Zero \/ \E d \in S : b = <<sourcePath[d], i>>

BlocksInv ==
    \A f \in Path :
        /\ original[f] # Absent => original[f] \in Contents(f)
        /\ original[f] = Absent /\ file[f] # Absent =>
               \A i \in 1..Len(file[f]) : Sourced(file[f][i], i, opened)

(* Block i of a file that is copied comes from a source that is copied.    *)
LEMMA SourceBlocks ==
    ASSUME FilesInv, BlocksInv, NEW c \in Copy, copyFilesInMemory(c),
           NEW i \in 1..Len(Source(c))
    PROVE  Sourced(Source(c)[i], i, opened)
<1> DEFINE s == sourcePath[c]
<1>1. /\ s \in Path /\ Source(c) # Absent /\ c \in opened /\ at[c] = "copy"
      /\ Source(c) = file[s]
  BY DEF FilesInv, TypeOK, LongEnough, TargetIsNew, Opening, copyFilesInMemory, Source
<1>2. CASE original[s] = Absent
  BY <1>1, <1>2 DEF BlocksInv
<1>3. CASE original[s] # Absent
  <2>1. file[s] = original[s] /\ original[s] \in Contents(s)
    BY <1>1, <1>3 DEF FilesInv, ExistingFilesKept, BlocksInv
  <2>2. PICK n \in 0..MaxSize : file[s] = [j \in 1..n |-> <<s, j>>]
    BY <2>1 DEF Contents
  <2>3. n \in Nat /\ file[s] \in Seq(Block)
    BY <1>1, <2>2 DEF FilesInv, TypeOK, Files
  <2>4. Len(file[s]) = n
    BY <2>2, <2>3, LenProperties
  <2>5. file[s][i] = <<s, i>>
    BY <1>1, <2>2, <2>4
  <2> QED BY <1>1, <2>5 DEF Sourced
<1> QED BY <1>2, <1>3

LEMMA NextKeepsPaths ==
    ASSUME FilesInv, [Next]_vars
    PROVE  UNCHANGED pathVars
BY OwnStep DEF Next, AllEnded, Own, vars

LEMMA BlocksStep ==
    ASSUME FilesInv, BlocksInv, [Next]_vars
    PROVE  BlocksInv'
<1> SUFFICES ASSUME NEW f \in Path
             PROVE  /\ original'[f] # Absent => original'[f] \in Contents(f)
                    /\ original'[f] = Absent /\ file'[f] # Absent =>
                          \A i \in 1..Len(file'[f]) : Sourced(file'[f][i], i, opened')
  <2> HIDE DEF Next
  <2>1. UNCHANGED sourcePath
    BY NextKeepsPaths DEF pathVars
  <2> QED BY <2>1 DEF BlocksInv, Sourced
<1>1. CASE UNCHANGED vars
  BY <1>1 DEF BlocksInv, Sourced, vars, pathVars
<1>2. CASE \E c \in Copy : main(c) \/ error(c)
  <2>1. PICK c \in Copy : main(c) \/ error(c)
    BY <1>2
  <2>2. Own(c)
    BY <2>1, OwnStep
  <2>3. /\ UNCHANGED pathVars /\ opened \subseteq opened'
        /\ f # targetPath[c] => file'[f] = file[f]
    BY <2>2 DEF Own, Touches
  <2>4. \A b, j : Sourced(b, j, opened) => Sourced(b, j, opened')
    BY <2>3 DEF Sourced, pathVars
  <2>5. original'[f] # Absent => original'[f] \in Contents(f)
    BY <2>3 DEF BlocksInv, pathVars
  <2> SUFFICES ASSUME original[f] = Absent, file'[f] # Absent, NEW i \in 1..Len(file'[f])
               PROVE  Sourced(file'[f][i], i, opened')
    BY <2>3, <2>5 DEF pathVars
  <2>6. CASE file'[f] = file[f]
    BY <2>4, <2>6 DEF BlocksInv
  <2>7. CASE file'[f] # file[f]
    <3>1. /\ f = targetPath[c] /\ Target(c) = file[f] /\ Target(c)' = file'[f]
          /\ c \in opened'
      BY <2>2, <2>3, <2>7 DEF Own, Touches, Target, pathVars
    <3>2. CASE createTarget_Open(c)
      <4>1. file'[f] = <<>>
        BY <2>7, <3>1, <3>2 DEF createTarget_Open, FilesInv, TypeOK, Files
      <4> QED BY <4>1, EmptySeq
    <3>3. CASE setTargetSize_Write(c)
      <4>1. file'[f][i] = Zero \/ (i \in 1..Len(file[f]) /\ file'[f][i] = file[f][i])
        BY <3>1, <3>3, WriteStep
      <4>2. file[f] # Absent
        BY <3>1, <3>3 DEF setTargetSize_Write, FilesInv, TargetIsNew, Opening
      <4>3. CASE file'[f][i] = Zero
        BY <4>3 DEF Sourced
      <4>4. CASE i \in 1..Len(file[f]) /\ file'[f][i] = file[f][i]
        BY <2>4, <4>2, <4>4 DEF BlocksInv
      <4> QED BY <4>1, <4>3, <4>4
    <3>4. CASE copyFilesInMemory(c)
      <4>1. /\ Len(file'[f]) = Len(file[f])
            /\ \A j \in 1..Len(file[f]) :
                  file'[f][j] = IF j = copied[c] + 1 THEN Source(c)[j] ELSE file[f][j]
        BY <3>1, <3>4, CopyStep
      <4>2. file[f] # Absent
        BY <3>1, <3>4 DEF copyFilesInMemory, FilesInv, TargetIsNew, Opening
      <4>3. CASE i # copied[c] + 1
        BY <2>4, <4>1, <4>2, <4>3 DEF BlocksInv
      <4>4. CASE i = copied[c] + 1
        <5>1. /\ copied[c] \in Nat /\ size[c] \in Nat /\ copied[c] < size[c]
              /\ Len(Source(c)) >= size[c] /\ Source(c) # Absent
          BY <3>4 DEF copyFilesInMemory, FilesInv, TypeOK, LongEnough, Sized
        <5>2. Source(c) \in Seq(Block)
          BY <5>1 DEF FilesInv, TypeOK, Files, Source
        <5>3. i \in 1..Len(Source(c))
          BY <4>4, <5>1, <5>2, LenProperties
        <5>4. Sourced(Source(c)[i], i, opened)
          BY <3>4, <5>3, SourceBlocks
        <5> QED BY <2>4, <4>1, <4>4, <5>4
      <4> QED BY <4>3, <4>4
    <3> QED
      BY <2>1, <2>7, <3>2, <3>3, <3>4
      DEF main, error, openSource, createTarget_Access, getSourceLength, setTargetSize_Seek,
          mapFileToMemory, Finish
  <2> QED BY <2>6, <2>7
<1> QED BY <1>1, <1>2 DEF Next, AllEnded

LEMMA BlocksInvAlways == Spec => []BlocksInv
<1>1. Init => BlocksInv
  BY DEF Init, BlocksInv
<1>2. CopierInv => FilesInv
  BY DEF CopierInv
<1>3. FilesInv /\ BlocksInv /\ [Next]_vars => BlocksInv'
  BY BlocksStep
<1> QED BY <1>1, <1>2, <1>3, CopierInvAlways, PTL DEF Spec

-----------------------------------------------------------------------------
(* No file that was there at the start is changed, by any number of copies *)
(* with any sources and targets, interleaved and stopped anywhere          *)
(* (mycp.c:79-80).                                                         *)
THEOREM ExistingFilesAreKept == Spec => []ExistingFilesKept
<1>1. CopierInv => ExistingFilesKept
  BY DEF CopierInv, FilesInv
<1> QED BY <1>1, CopierInvAlways, PTL

(* memcpy never leaves the files it has mapped, whoever else writes to     *)
(* them (mycp.c:107-133).                                                  *)
THEOREM MemcpyStaysInside == Spec => []MappingsBacked
<1>1. CopierInv => MappingsBacked
  BY DEF CopierInv, FilesInv, LongEnough, MappingsBacked, Sized, Grown
<1> QED BY <1>1, CopierInvAlways, PTL

(* A copy that nobody interferes with is exact, whatever the lengths of    *)
(* the files and whatever other copies do elsewhere (mycp.c:28-64).        *)
THEOREM CopiesAreExact == Spec => []CopyIsExact
<1>1. CopierInv => CopyIsExact
  BY DEF CopierInv, Exact, CopyIsExact
<1> QED BY <1>1, CopierInvAlways, PTL

(* Whatever races there are, the files that are new are made of blocks of  *)
(* the sources, each at its place, and zeros (mycp.c:77-133).              *)
THEOREM OnlySourcesAreCopied == Spec => []NoForeignBlocks
<1>1. CopierInv /\ BlocksInv => NoForeignBlocks
  <2> SUFFICES ASSUME FilesInv, BlocksInv, NEW c \in opened, NEW i \in DOMAIN Target(c)
               PROVE  Sourced(Target(c)[i], i, opened)
    BY DEF NoForeignBlocks, Sourced, CopierInv
  <2>1. c \in Copy /\ targetPath[c] \in Path /\ original[targetPath[c]] = Absent
    BY DEF FilesInv, TypeOK, TargetIsNew
  <2>2. Target(c) # Absent
    BY <2>1 DEF FilesInv, TargetIsNew
  <2>3. Target(c) \in Seq(Block)
    BY <2>1, <2>2 DEF FilesInv, TypeOK, Files, Target
  <2>4. i \in 1..Len(Target(c))
    BY <2>3, LenProperties
  <2> QED BY <2>1, <2>2, <2>4 DEF BlocksInv, Target
<1> QED BY <1>1, CopierInvAlways, BlocksInvAlways, PTL
=============================================================================
