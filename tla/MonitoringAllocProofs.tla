------------------------ MODULE MonitoringAllocProofs ------------------------
(***************************************************************************)
(* Theorems about the allocation monitor, for all limits, request sizes    *)
(* and programs.                                                           *)
(***************************************************************************)
EXTENDS LeakingProgram, FiniteSetTheorems, TLAPS

Entry == [frame : Frame, size : 0..(SizeMod - 1)]

(* What every step keeps: the variables have their types, the table is     *)
(* exact, and the counter lags behind it by at most MaxDrift.              *)
Types ==
    /\ allocated_blocks \in [Index -> Entry]
    /\ allocatedBlocksCounter \in Int
    /\ allocatedSize \in Int
    /\ heap = [a \in DOMAIN heap |-> heap[a]]
    /\ DOMAIN heap \subseteq Address
    /\ \A a \in DOMAIN heap : heap[a] \in Size

Lag == Cardinality(Used) - allocatedBlocksCounter

AllocInv == Types /\ TableMatchesHeap /\ Lag \in 0..MaxDrift

-----------------------------------------------------------------------------
(* Sums over finite sets                                                   *)

(* The library's sum over a finite set is a recursive function on its      *)
(* subsets, which takes the elements in the order CHOOSE gives them.       *)
Chosen(s) == CHOOSE x \in s : TRUE
SumStep(h, g, s) == IF s = {} THEN 0 ELSE h[Chosen(s)] + g[s \ {Chosen(s)}]
IsSum(h, S, g) == g = [s \in SUBSET S |-> SumStep(h, g, s)]
Sum(h, S) == (CHOOSE g : IsSum(h, S, g))[S]

(* In a non-empty family of subsets of a finite set there is a set that is *)
(* no longer in it when any element is taken out: induction over finite    *)
(* sets in the form of the least counterexample.                           *)
LEMMA SmallestSubset ==
    ASSUME NEW S, IsFiniteSet(S), NEW T, T \subseteq SUBSET S, T # {}
    PROVE  \E s \in T : /\ s \subseteq S /\ IsFiniteSet(s)
                        /\ \A x \in s : s \ {x} \notin T
<1>1. T \subseteq FiniteSubsetsOf(S)
  BY FS_Subset DEF FiniteSubsetsOf
<1>2. PICK s \in T : \A t \in T : <<t, s>> \notin StrictSubsetOrdering(S)
  BY <1>1, FS_StrictSubsetOrderingWellFounded, WFMin
<1>3. ASSUME NEW x \in s, s \ {x} \in T PROVE FALSE
  <2>1. <<s \ {x}, s>> \in StrictSubsetOrdering(S)
    BY DEF StrictSubsetOrdering
  <2> QED
    BY <1>2, <1>3, <2>1
<1>4. IsFiniteSet(s)
  BY <1>1 DEF FiniteSubsetsOf
<1> QED
  BY <1>3, <1>4

LEMMA SumUnique ==
    ASSUME NEW h, NEW U, NEW V, NEW g, NEW k, IsSum(h, U, g), IsSum(h, V, k),
           NEW S, S \subseteq U, S \subseteq V, IsFiniteSet(S)
    PROVE  g[S] = k[S]
<1> DEFINE T == {s \in SUBSET S : g[s] # k[s]}
<1> SUFFICES ASSUME g[S] # k[S] PROVE FALSE
  OBVIOUS
<1>1. S \in T
  OBVIOUS
<1>2. PICK s \in T : \A x \in s : s \ {x} \notin T
  <2> HIDE DEF T
  <2>1. T \subseteq SUBSET S
    BY DEF T
  <2> QED
    BY <1>1, <2>1, SmallestSubset
<1>3. g[s] = SumStep(h, g, s) /\ k[s] = SumStep(h, k, s)
  BY DEF IsSum
<1>4. s # {} => Chosen(s) \in s
  BY DEF Chosen
<1>5. s # {} => g[s \ {Chosen(s)}] = k[s \ {Chosen(s)}]
  BY <1>2, <1>4
<1> QED
  BY <1>3, <1>5 DEF SumStep

LEMMA SumExists ==
    ASSUME NEW h, NEW S, IsFiniteSet(S)
    PROVE  IsSum(h, S, CHOOSE g : IsSum(h, S, g))
<1> DEFINE T == {s \in SUBSET S : ~ \E g : IsSum(h, s, g)}
<1> SUFFICES ASSUME S \in T PROVE FALSE
  OBVIOUS
<1>2. PICK u \in T : u \subseteq S /\ IsFiniteSet(u) /\ \A x \in u : u \ {x} \notin T
  <2> HIDE DEF T
  <2>1. T \subseteq SUBSET S
    BY DEF T
  <2> QED
    BY <2>1, SmallestSubset
<1> DEFINE total == [s \in SUBSET u |-> IF s = u THEN SumStep(h, [t \in SUBSET u |-> Sum(h, t)], s) ELSE Sum(h, s)]
<1>3. \A s \in SUBSET u : s # u => IsSum(h, s, CHOOSE g : IsSum(h, s, g))
  <2> SUFFICES ASSUME NEW s \in SUBSET u, s # u PROVE \E g : IsSum(h, s, g)
    OBVIOUS
  <2>1. PICK x \in u : x \notin s
    OBVIOUS
  <2>2. PICK g : IsSum(h, u \ {x}, g)
    BY <1>2
  <2> DEFINE k == [t \in SUBSET s |-> g[t]]
  <2>3. ASSUME NEW t \in SUBSET s PROVE k[t] = SumStep(h, k, t)
    <3>1. t \in SUBSET (u \ {x}) /\ (t \ {Chosen(t)}) \in SUBSET s
      BY <2>1
    <3>2. k[t] = SumStep(h, g, t)
      BY <2>2, <3>1 DEF IsSum
    <3> QED
      BY <3>1, <3>2 DEF SumStep
  <2>4. IsSum(h, s, k)
    BY <2>3 DEF IsSum
  <2> QED
    BY <2>4
<1>4. ASSUME NEW s \in SUBSET u PROVE total[s] = SumStep(h, total, s)
  <2>1. s # {} => Chosen(s) \in s
    BY DEF Chosen
  <2>2. CASE s = {}
    <3>1. total[s] = 0
      <4>1. CASE s = u
        BY <2>2, <4>1 DEF SumStep
      <4>2. CASE s # u
        <5>1. IsSum(h, s, CHOOSE g : IsSum(h, s, g))
          BY <1>3, <4>2
        <5>2. (CHOOSE g : IsSum(h, s, g))[s] = SumStep(h, CHOOSE g : IsSum(h, s, g), s)
          BY <5>1 DEF IsSum
        <5> QED
          BY <4>2, <5>2, <2>2 DEF SumStep, Sum
      <4> QED
        BY <4>1, <4>2
    <3> QED
      BY <2>2, <3>1 DEF SumStep
  <2>3. CASE s # {}
    <3> DEFINE c == Chosen(s)  r == s \ {c}
    <3>1. r \in SUBSET u /\ r # u /\ r # s /\ r \subseteq s /\ IsFiniteSet(r)
      BY <1>2, <2>1, <2>3, FS_Subset
    <3>2. total[r] = Sum(h, r)
      BY <3>1
    <3>3. CASE s = u
      BY <2>3, <3>1, <3>2, <3>3 DEF SumStep
    <3>4. CASE s # u
      <4> DEFINE g == CHOOSE g : IsSum(h, s, g)
                 k == CHOOSE k : IsSum(h, r, k)
      <4>1. IsSum(h, s, g) /\ IsSum(h, r, k)
        BY <1>3, <3>1, <3>4
      <4>2. total[s] = g[s] /\ total[r] = k[r]
        BY <3>2, <3>4 DEF Sum
      <4> HIDE DEF g, k, total
      <4>3. g[r] = k[r]
        BY <4>1, <3>1, SumUnique
      <4>4. g[s] = h[c] + g[r]
        BY <4>1, <2>3 DEF IsSum, SumStep
      <4> QED
        BY <4>2, <4>3, <4>4, <2>3 DEF SumStep
    <3> QED
      BY <3>3, <3>4
  <2> QED
    BY <2>2, <2>3
<1>5. IsSum(h, u, total)
  BY <1>4 DEF IsSum
<1> QED
  BY <1>2, <1>5

LEMMA SumRecursion ==
    ASSUME NEW h, NEW S, IsFiniteSet(S)
    PROVE  Sum(h, S) = IF S = {} THEN 0 ELSE h[Chosen(S)] + Sum(h, S \ {Chosen(S)})
<1> DEFINE c == Chosen(S)  r == S \ {c}
           g == CHOOSE g : IsSum(h, S, g)
           k == CHOOSE k : IsSum(h, r, k)
<1>1. IsFiniteSet(r)
  BY FS_Subset
<1>2. IsSum(h, S, g) /\ IsSum(h, r, k)
  BY <1>1, SumExists
<1>3. Sum(h, S) = g[S] /\ Sum(h, r) = k[r]
  BY DEF Sum
<1> HIDE DEF g, k
<1>4. g[r] = k[r]
  BY <1>1, <1>2, SumUnique
<1>5. g[S] = SumStep(h, g, S)
  BY <1>2 DEF IsSum
<1> QED
  BY <1>3, <1>4, <1>5 DEF SumStep

LEMMA SumType ==
    ASSUME NEW h, NEW S, IsFiniteSet(S), \A x \in S : h[x] \in Nat
    PROVE  Sum(h, S) \in Nat
<1> DEFINE T == {s \in SUBSET S : Sum(h, s) \notin Nat}
<1> SUFFICES ASSUME S \in T PROVE FALSE
  OBVIOUS
<1>1. PICK s \in T : s \subseteq S /\ IsFiniteSet(s) /\ \A x \in s : s \ {x} \notin T
  <2> HIDE DEF T
  <2>1. T \subseteq SUBSET S
    BY DEF T
  <2> QED
    BY <2>1, SmallestSubset
<1>2. s # {} => Chosen(s) \in s
  BY DEF Chosen
<1>3. s # {} => Sum(h, s \ {Chosen(s)}) \in Nat /\ h[Chosen(s)] \in Nat
  BY <1>1, <1>2
<1>4. Sum(h, s) = IF s = {} THEN 0 ELSE h[Chosen(s)] + Sum(h, s \ {Chosen(s)})
  BY <1>1, SumRecursion
<1>5. Sum(h, s) \in Nat
  BY <1>3, <1>4
<1> QED
  BY <1>5

(* The order does not matter: any element may be taken out first.          *)
LEMMA SumRemove ==
    ASSUME NEW h, NEW S, IsFiniteSet(S), \A x \in S : h[x] \in Nat, NEW e \in S
    PROVE  Sum(h, S) = h[e] + Sum(h, S \ {e})
<1> DEFINE T == {s \in SUBSET S : \E x \in s : Sum(h, s) # h[x] + Sum(h, s \ {x})}
<1> SUFFICES ASSUME S \in T PROVE FALSE
  OBVIOUS
<1>1. PICK s \in T : s \subseteq S /\ IsFiniteSet(s) /\ \A x \in s : s \ {x} \notin T
  <2> HIDE DEF T
  <2>1. T \subseteq SUBSET S
    BY DEF T
  <2> QED
    BY <2>1, SmallestSubset
<1>2. PICK x \in s : Sum(h, s) # h[x] + Sum(h, s \ {x})
  OBVIOUS
<1> DEFINE c == Chosen(s)  others == s \ {c, x}
<1>3. c \in s
  BY DEF Chosen
<1>4. Sum(h, s) = h[c] + Sum(h, s \ {c})
  BY <1>1, SumRecursion
<1>5. c # x
  BY <1>2, <1>4
<1>6. Sum(h, s \ {c}) = h[x] + Sum(h, others)
  <2>1. s \ {c} \in SUBSET S /\ s \ {c} \notin T /\ x \in s \ {c}
    BY <1>1, <1>3, <1>5
  <2>2. (s \ {c}) \ {x} = others
    OBVIOUS
  <2> QED
    BY <2>1, <2>2
<1>7. Sum(h, s \ {x}) = h[c] + Sum(h, others)
  <2>1. s \ {x} \in SUBSET S /\ s \ {x} \notin T /\ c \in s \ {x}
    BY <1>1, <1>3, <1>5
  <2>2. (s \ {x}) \ {c} = others
    OBVIOUS
  <2> QED
    BY <2>1, <2>2
<1>8. Sum(h, others) \in Nat /\ h[x] \in Nat /\ h[c] \in Nat
  <2>1. IsFiniteSet(others) /\ others \subseteq S
    BY <1>1, FS_Subset
  <2> HIDE DEF others, c, T
  <2>2. Sum(h, others) \in Nat
    BY <2>1, SumType
  <2> QED
    BY <2>2, <1>1, <1>3
<1> HIDE DEF others, c, T
<1> QED
  BY <1>2, <1>4, <1>6, <1>7, <1>8

(* Only the values on the set count.                                       *)
LEMMA SumSame ==
    ASSUME NEW h, NEW k, NEW S, IsFiniteSet(S), \A x \in S : h[x] = k[x]
    PROVE  Sum(h, S) = Sum(k, S)
<1> DEFINE T == {s \in SUBSET S : Sum(h, s) # Sum(k, s)}
<1> SUFFICES ASSUME S \in T PROVE FALSE
  OBVIOUS
<1>1. PICK s \in T : s \subseteq S /\ IsFiniteSet(s) /\ \A x \in s : s \ {x} \notin T
  <2> HIDE DEF T
  <2>1. T \subseteq SUBSET S
    BY DEF T
  <2> QED
    BY <2>1, SmallestSubset
<1>2. s # {} => Chosen(s) \in s
  BY DEF Chosen
<1>3. s # {} => Sum(h, s \ {Chosen(s)}) = Sum(k, s \ {Chosen(s)})
  BY <1>1, <1>2
<1> QED
  BY <1>1, <1>2, <1>3, SumRecursion

(* Adding an element with its value.                                       *)
LEMMA SumAdd ==
    ASSUME NEW h, NEW k, NEW S, IsFiniteSet(S), NEW e, e \notin S,
           \A x \in S : k[x] = h[x] /\ h[x] \in Nat, k[e] \in Nat
    PROVE  Sum(k, S \cup {e}) = Sum(h, S) + k[e]
<1>1. IsFiniteSet(S \cup {e})
  BY FS_AddElement
<1>2. \A x \in S \cup {e} : k[x] \in Nat
  OBVIOUS
<1>3. (S \cup {e}) \ {e} = S
  OBVIOUS
<1>4. Sum(k, S \cup {e}) = k[e] + Sum(k, S)
  BY <1>1, <1>2, <1>3, SumRemove
<1>5. Sum(k, S) = Sum(h, S) /\ Sum(h, S) \in Nat
  BY SumSame, SumType
<1> QED
  BY <1>3, <1>4, <1>5

-----------------------------------------------------------------------------
(* The table and the heap                                                  *)

LEMMA IntOfSize ==
    ASSUME NEW n \in Int PROVE ToInt(n) \in Int
<1>1. n % IntMod \in Int
  BY AllocAssumption
<1> QED
  BY <1>1, AllocAssumption DEF ToInt

(* The entries in use are finitely many.                                   *)
LEMMA UsedFinite ==
    /\ IsFiniteSet(Used) /\ IsFiniteSet(Used')
    /\ Cardinality(Used) \in 0..MAX_ALLOCATIONS
    /\ Cardinality(Used') \in 0..MAX_ALLOCATIONS
<1>1. IsFiniteSet(Index) /\ Cardinality(Index) = MAX_ALLOCATIONS
  BY AllocAssumption, FS_Interval DEF Index
<1>2. Used \subseteq Index /\ Used' \subseteq Index
  BY DEF Used
<1>3. /\ IsFiniteSet(Used) /\ Cardinality(Used) <= MAX_ALLOCATIONS
      /\ IsFiniteSet(Used') /\ Cardinality(Used') <= MAX_ALLOCATIONS
  BY <1>1, <1>2, FS_Subset
<1> QED
  BY <1>3, FS_CardinalityType, AllocAssumption

(* malloc has failed: the size of an empty entry is all that changes.      *)
LEMMA NothingObtained ==
    ASSUME AllocInv, NEW i \in Index \ Used, NEW size \in Size, Obtained(i, size, NULL)
    PROVE  /\ Used' = Used
           /\ \A j \in Used : allocated_blocks'[j] = allocated_blocks[j]
           /\ UNCHANGED <<allocatedBlocksCounter, allocatedSize, heap>>
BY AllocAssumption DEF Used, Obtained, AllocInv, Types, Entry

(* A block has been obtained for the empty entry i.                        *)
LEMMA BlockObtained ==
    ASSUME AllocInv, NEW i \in Index \ Used, NEW size \in Size, NEW frame \in Address,
           Obtains(size, frame), Obtained(i, size, frame)
    PROVE  /\ Used' = Used \cup {i}
           /\ \A j \in Used : allocated_blocks'[j] = allocated_blocks[j]
           /\ allocated_blocks'[i] = [frame |-> frame, size |-> size]
           /\ frame \notin DOMAIN heap
           /\ DOMAIN heap' = DOMAIN heap \cup {frame}
           /\ heap'[frame] = size
           /\ \A a \in DOMAIN heap : heap'[a] = heap[a]
           /\ heap' = [a \in DOMAIN heap' |-> heap'[a]]
<1>1. frame # NULL
  BY AllocAssumption
<1>2. /\ \A j \in Index \ {i} : allocated_blocks'[j] = allocated_blocks[j]
      /\ allocated_blocks'[i] = [frame |-> frame, size |-> size]
  BY DEF Obtained, AllocInv, Types
<1>3. Used' = Used \cup {i}
  BY <1>1, <1>2 DEF Used
<1> QED
  BY <1>1, <1>2, <1>3 DEF Used, Obtained, Obtains

(* Entry i has been released: its block is gone and the others stay.       *)
LEMMA EntryReleased ==
    ASSUME AllocInv, NEW i \in Index, Released(i)
    PROVE  /\ allocated_blocks' \in [Index -> Entry]
           /\ \A j \in Index \ {i} : allocated_blocks'[j] = allocated_blocks[j]
           /\ Used' = Used \ {i}
           /\ DOMAIN heap' = DOMAIN heap \ {allocated_blocks[i].frame}
           /\ \A a \in DOMAIN heap' : heap'[a] = heap[a]
           /\ heap' = [a \in DOMAIN heap' |-> heap'[a]]
<1>1. /\ allocated_blocks' \in [Index -> Entry]
      /\ allocated_blocks'[i].frame = NULL
      /\ \A j \in Index \ {i} : allocated_blocks'[j] = allocated_blocks[j]
  BY DEF AllocInv, Types, Entry, Frame, Released
<1>2. Used' = Used \ {i}
  BY <1>1 DEF Used
<1> QED
  BY <1>1, <1>2 DEF Released, Without

(* Entry i, which is empty, has been given to a block obtained from malloc. *)
LEMMA ObtainedKeeps ==
    ASSUME AllocInv, NEW i \in Index \ Used, NEW size \in Size, NEW frame \in Frame,
           Obtains(size, frame), Obtained(i, size, frame), UNCHANGED leakingBytes
    PROVE  AllocInv'
<1>1. size \in 0..(SizeMod - 1) /\ size \in Int
  BY AllocAssumption
<1>2. allocated_blocks' \in [Index -> Entry]
  BY <1>1 DEF AllocInv, Types, Entry, Obtained
<1>3. CASE frame = NULL
  <2>1. Used' = Used
    BY <1>3, NothingObtained
  <2>2. \A j \in Used : allocated_blocks'[j] = allocated_blocks[j]
    BY <1>3, NothingObtained
  <2>3. UNCHANGED <<allocatedBlocksCounter, allocatedSize, heap>>
    BY <1>3, NothingObtained
  <2>4. Types' /\ Lag' = Lag
    BY <1>2, <2>1, <2>3 DEF AllocInv, Types, Lag
  <2>5. TableMatchesHeap'
    <3>1. {allocated_blocks'[j].frame : j \in Used} = {allocated_blocks[j].frame : j \in Used}
      BY <2>2
    <3>2. {allocated_blocks'[j].frame : j \in Used'} = DOMAIN heap'
      BY <2>1, <2>3, <3>1 DEF AllocInv, TableMatchesHeap
    <3>3. \A j, k \in Used' : allocated_blocks'[j].frame = allocated_blocks'[k].frame => j = k
      BY <2>1, <2>2 DEF AllocInv, TableMatchesHeap
    <3>4. \A j \in Used' : allocated_blocks'[j].size = heap'[allocated_blocks'[j].frame]
      BY <2>1, <2>2, <2>3 DEF AllocInv, TableMatchesHeap
    <3> QED
      BY <3>2, <3>3, <3>4 DEF TableMatchesHeap
  <2> QED
    BY <2>4, <2>5 DEF AllocInv
<1>4. CASE frame # NULL
  <2>0. frame \in Address
    BY <1>4 DEF Frame
  <2>1. /\ Used' = Used \cup {i}
        /\ \A j \in Used : allocated_blocks'[j] = allocated_blocks[j]
        /\ allocated_blocks'[i] = [frame |-> frame, size |-> size]
        /\ frame \notin DOMAIN heap
        /\ DOMAIN heap' = DOMAIN heap \cup {frame}
        /\ heap'[frame] = size
        /\ \A a \in DOMAIN heap : heap'[a] = heap[a]
        /\ heap' = [a \in DOMAIN heap' |-> heap'[a]]
    BY <2>0, BlockObtained
  <2>2. /\ Used' = Used \cup {i} /\ i \notin Used
        /\ \A j \in Used : allocated_blocks'[j] = allocated_blocks[j]
        /\ allocated_blocks'[i].frame = frame /\ allocated_blocks'[i].size = size
    BY <2>1
  <2>3. /\ DOMAIN heap' = DOMAIN heap \cup {frame}
        /\ heap'[frame] = size
        /\ \A a \in DOMAIN heap : heap'[a] = heap[a]
    BY <2>1
  <2>4. TableMatchesHeap'
    <3>1. \A j \in Used : allocated_blocks[j].frame \in DOMAIN heap
      BY DEF AllocInv, TableMatchesHeap
    <3>2. \A j \in Used' : /\ allocated_blocks'[j].frame \in DOMAIN heap'
                           /\ allocated_blocks'[j].size = heap'[allocated_blocks'[j].frame]
      BY <2>2, <2>3, <3>1 DEF AllocInv, TableMatchesHeap
    <3>3. \A a \in DOMAIN heap' : \E j \in Used' : allocated_blocks'[j].frame = a
      <4> SUFFICES ASSUME NEW a \in DOMAIN heap' PROVE \E j \in Used' : allocated_blocks'[j].frame = a
        OBVIOUS
      <4>1. CASE a = frame
        BY <2>2, <4>1
      <4>2. CASE a \in DOMAIN heap
        <5>1. PICK j \in Used : allocated_blocks[j].frame = a
          BY <4>2 DEF AllocInv, TableMatchesHeap
        <5> QED
          BY <2>2, <5>1
      <4> QED
        BY <2>3, <4>1, <4>2
    <3>4. \A j, k \in Used' : allocated_blocks'[j].frame = allocated_blocks'[k].frame => j = k
      BY <2>2, <3>1 DEF AllocInv, TableMatchesHeap, Obtains
    <3>5. {allocated_blocks'[j].frame : j \in Used'} = DOMAIN heap'
      BY <3>2, <3>3
    <3> QED
      BY <3>2, <3>4, <3>5 DEF TableMatchesHeap
  <2>5. Types'
    BY <1>1, <1>2, <1>4, <2>1, IntOfSize DEF AllocInv, Types, Obtained, Frame
  <2>6. Lag' = Lag
    <3>1. Cardinality(Used') = Cardinality(Used) + 1
      BY <2>2, UsedFinite, FS_AddElement
    <3>2. allocatedBlocksCounter' = allocatedBlocksCounter + 1
      BY <1>4 DEF Obtained
    <3> QED
      BY <3>1, <3>2, UsedFinite DEF Lag, AllocInv, Types
  <2> QED
    BY <2>4, <2>5, <2>6 DEF AllocInv
<1> QED
  BY <1>3, <1>4

(* Entry i has been released; it was in use, or empty and the counter lags *)
(* by less than it may.                                                    *)
LEMMA ReleasedKeeps ==
    ASSUME AllocInv, NEW i \in Index, i \in Used \/ Lag < MaxDrift,
           Released(i), UNCHANGED leakingBytes
    PROVE  AllocInv'
<1>1. /\ allocated_blocks' \in [Index -> Entry]
      /\ \A j \in Index \ {i} : allocated_blocks'[j] = allocated_blocks[j]
  BY EntryReleased
<1>2. Used' = Used \ {i}
  BY EntryReleased
<1>3. /\ DOMAIN heap' = DOMAIN heap \ {allocated_blocks[i].frame}
      /\ \A a \in DOMAIN heap' : heap'[a] = heap[a]
      /\ heap' = [a \in DOMAIN heap' |-> heap'[a]]
  BY EntryReleased
<1>4. allocated_blocks[i].size \in Int /\ allocatedSize \in Int
  BY AllocAssumption DEF AllocInv, Types, Entry
<1>5. Types'
  BY <1>1, <1>3, <1>4, IntOfSize DEF AllocInv, Types, Released
<1>6. TableMatchesHeap'
  <2>1. \A j \in Used' : /\ allocated_blocks'[j] = allocated_blocks[j]
                         /\ j \in Used
                         /\ allocated_blocks[j].frame # allocated_blocks[i].frame
    BY <1>1, <1>2 DEF AllocInv, TableMatchesHeap, Used
  <2>2. {allocated_blocks'[j].frame : j \in Used'} = DOMAIN heap'
    <3>1. \A j \in Used' : allocated_blocks'[j].frame \in DOMAIN heap'
      BY <1>3, <2>1 DEF AllocInv, TableMatchesHeap
    <3>2. \A a \in DOMAIN heap' : \E j \in Used' : allocated_blocks'[j].frame = a
      <4> SUFFICES ASSUME NEW a \in DOMAIN heap' PROVE \E j \in Used' : allocated_blocks'[j].frame = a
        OBVIOUS
      <4>1. PICK j \in Used : allocated_blocks[j].frame = a
        BY <1>3 DEF AllocInv, TableMatchesHeap
      <4>2. j # i
        BY <1>3, <4>1
      <4> QED
        BY <1>2, <2>1, <4>1, <4>2
    <3> QED
      BY <3>1, <3>2
  <2> QED
    BY <1>3, <2>1, <2>2 DEF AllocInv, TableMatchesHeap
<1>7. Lag' \in 0..MaxDrift
  <2>1. allocatedBlocksCounter' = allocatedBlocksCounter - 1
    BY DEF Released
  <2>2. CASE i \in Used
    <3>1. Cardinality(Used') = Cardinality(Used) - 1
      BY <1>2, <2>2, UsedFinite, FS_RemoveElement
    <3> QED
      BY <2>1, <3>1, UsedFinite DEF AllocInv, Types, Lag
  <2>3. CASE i \notin Used
    <3>1. Used' = Used
      BY <1>2, <2>3
    <3>2. Lag < MaxDrift
      BY <2>3
    <3> QED
      BY <2>1, <3>1, <3>2, UsedFinite, AllocAssumption DEF AllocInv, Types, Lag
  <2> QED
    BY <2>2, <2>3
<1> QED
  BY <1>5, <1>6, <1>7 DEF AllocInv

LEMMA AllocInit == Init => AllocInv
<1> SUFFICES ASSUME Init PROVE AllocInv
  OBVIOUS
<1>1. Used = {}
  BY DEF Init, Used
<1>2. Cardinality(Used) = 0
  BY <1>1, FS_EmptySet
<1>3. Types
  BY AllocAssumption DEF Init, Types, Entry, Frame
<1>4. TableMatchesHeap
  BY <1>1 DEF Init, TableMatchesHeap
<1> QED
  BY <1>2, <1>3, <1>4, AllocAssumption DEF AllocInv, Lag, Init

LEMMA AllocNext == AllocInv /\ [Next]_vars => AllocInv'
<1> SUFFICES ASSUME AllocInv, [Next]_vars PROVE AllocInv'
  OBVIOUS
<1>1. ASSUME UNCHANGED <<allocated_blocks, allocatedBlocksCounter, allocatedSize, heap>>
      PROVE  AllocInv'
  BY <1>1 DEF AllocInv, Types, TableMatchesHeap, Lag, Used
<1>2. ASSUME NEW size \in Size, monitoring_alloc_malloc(size) PROVE AllocInv'
  <2>1. CASE WithinLimits(size) /\ Used # Index
    <3>1. PICK i \in Index, frame \in Frame :
             IsFirstEmpty(i) /\ Obtains(size, frame) /\ Obtained(i, size, frame)
      BY <1>2, <2>1 DEF monitoring_alloc_malloc
    <3>2. i \in Index \ Used
      BY <3>1 DEF IsFirstEmpty
    <3> QED
      BY <1>2, <3>1, <3>2, ObtainedKeeps DEF monitoring_alloc_malloc
  <2>2. CASE ~ (WithinLimits(size) /\ Used # Index)
    BY <1>1, <1>2, <2>2 DEF monitoring_alloc_malloc
  <2> QED
    BY <2>1, <2>2
<1>3. ASSUME NEW ptr \in Frame, monitoring_alloc_free(ptr) PROVE AllocInv'
  <2>1. CASE \E i \in Index : allocated_blocks[i].frame = ptr
    <3>1. PICK i \in Index : IsLastWith(i, ptr) /\ Released(i)
      BY <1>3, <2>1 DEF monitoring_alloc_free
    <3>2. i \in Used \/ Lag < MaxDrift
      BY <1>3, <3>1 DEF IsLastWith, Used, monitoring_alloc_free, Lag
    <3> QED
      BY <1>3, <3>1, <3>2, ReleasedKeeps DEF monitoring_alloc_free
  <2>2. CASE ~ \E i \in Index : allocated_blocks[i].frame = ptr
    BY <1>1, <1>3, <2>2 DEF monitoring_alloc_free
  <2> QED
    BY <2>1, <2>2
<1>4. CASE shutdown_monitoring_alloc
  BY <1>1, <1>4 DEF shutdown_monitoring_alloc
<1>5. CASE Ended \/ UNCHANGED vars
  BY <1>1, <1>5 DEF Ended, vars
<1> QED
  BY <1>2, <1>3, <1>4, <1>5 DEF Next

-----------------------------------------------------------------------------
(* The table names exactly the allocated blocks, whatever the program      *)
(* frees (monitoring_alloc.c:75-132).                                      *)
THEOREM TableIsExact == Spec => []TableMatchesHeap
<1>1. AllocInv => TableMatchesHeap
  BY DEF AllocInv
<1> QED
  BY <1>1, AllocInit, AllocNext, PTL DEF Spec

(* The counter is the number of entries in use as long as no null pointer  *)
(* is freed (monitoring_alloc.c:84, 89, 125).                              *)
THEOREM CounterIsExact ==
    ASSUME MaxDrift = 0
    PROVE  Spec => []CounterMatchesTable
<1>1. AllocInv => CounterMatchesTable
  BY UsedFinite DEF AllocInv, Types, Lag, CounterMatchesTable
<1> QED
  BY <1>1, AllocInit, AllocNext, PTL DEF Spec

-----------------------------------------------------------------------------
(* The total, for programs that free no null pointer                       *)

sizes == [i \in Index |-> allocated_blocks[i].size]

(* What such programs do to the monitor in one step.                       *)
FreesNothingNull ==
    \/ \E size \in Size : monitoring_alloc_malloc(size)
    \/ \E ptr \in Address : monitoring_alloc_free(ptr)
    \/ shutdown_monitoring_alloc
    \/ UNCHANGED vars

(* The inductive invariant.  SizeMatchesHeap needs the limit, for the int  *)
(* must be able to hold the total, and the limit needs SizeMatchesHeap,    *)
(* for it is the kept total that is compared; both need the sizes in the   *)
(* table to add up to the same, which shutdown_monitoring_alloc returns.   *)
SizeInv ==
    /\ AllocInv
    /\ CounterMatchesTable
    /\ SizeMatchesHeap
    /\ Sum(sizes, Used) = TotalSize
    /\ LimitHolds

(* The sums of the model are those the lemmas are about.                   *)
LEMMA TotalIsSum ==
    /\ TotalSize = Sum(heap, DOMAIN heap)
    /\ TotalSize' = Sum(heap', DOMAIN heap')
<1>1. TotalSize = Sum(heap, DOMAIN heap)
  BY DEF TotalSize, MapThenSumSet, MapThenFoldSet, Sum, IsSum, SumStep, Chosen
<1>2. TotalSize' = Sum(heap', DOMAIN heap')
  BY DEF TotalSize, MapThenSumSet, MapThenFoldSet, Sum, IsSum, SumStep, Chosen
<1> QED
  BY <1>1, <1>2

LEMMA TableSum == MapThenSumSet(LAMBDA i : allocated_blocks[i].size, Used) = Sum(sizes, Used)
<1> DEFINE P(g) == g = [s \in SUBSET Used |->
                          IF s = {} THEN 0
                          ELSE allocated_blocks[Chosen(s)].size + g[s \ {Chosen(s)}]]
           t == CHOOSE g : P(g)
           k == CHOOSE k : IsSum(sizes, Used, k)
<1>1. IsSum(sizes, Used, k)
  BY UsedFinite, SumExists
<1>2. \A s \in SUBSET Used : s # {} =>
         Chosen(s) \in Index /\ sizes[Chosen(s)] = allocated_blocks[Chosen(s)].size
  BY DEF Chosen, Used, sizes
<1>3. \A g : P(g) <=> IsSum(sizes, Used, g)
  BY <1>2 DEF IsSum, SumStep
<1>4. P(t)
  <2>1. P(k)
    BY <1>1, <1>3
  <2> HIDE DEF P, k
  <2> QED
    BY <2>1
<1>5. t[Used] = k[Used]
  <2> HIDE DEF P, t, k
  <2> QED
    BY <1>1, <1>3, <1>4, UsedFinite, SumUnique
<1>6. MapThenSumSet(LAMBDA i : allocated_blocks[i].size, Used) = t[Used]
  BY DEF MapThenSumSet, MapThenFoldSet, Chosen
<1> QED
  BY <1>5, <1>6 DEF Sum

LEMMA HeapFinite == AllocInv => IsFiniteSet(DOMAIN heap)
<1> SUFFICES ASSUME AllocInv PROVE IsFiniteSet(DOMAIN heap)
  OBVIOUS
<1>1. DOMAIN heap = {allocated_blocks[i].frame : i \in Used}
  BY DEF AllocInv, TableMatchesHeap
<1> DEFINE f == [i \in Used |-> allocated_blocks[i].frame]
<1>2. f \in Surjection(Used, DOMAIN heap)
  BY <1>1 DEF Surjection
<1>3. IsFiniteSet(Used)
  BY UsedFinite
<1> QED
  BY <1>2, <1>3, FS_Surjection

LEMMA SizeIsNat == \A size \in Size : size \in Nat
BY AllocAssumption

LEMMA SizesAreNat ==
    ASSUME AllocInv
    PROVE  /\ \A a \in DOMAIN heap : heap[a] \in Nat
           /\ \A i \in Index : sizes[i] = allocated_blocks[i].size /\ sizes[i] \in Nat
BY AllocAssumption DEF AllocInv, Types, Entry, sizes

(* A request below the limit, and within the address space, does not wrap. *)
LEMMA NoWrap ==
    ASSUME NEW t \in Nat, t < MAX_TOTAL_ALLOCATION_SIZE,
           NEW size \in Nat, size < SizeMod \div 2,
           (t + size) % SizeMod < MAX_TOTAL_ALLOCATION_SIZE
    PROVE  t + size < MAX_TOTAL_ALLOCATION_SIZE
<1>1. IntMod \div 2 <= SizeMod \div 2 /\ (SizeMod \div 2) + (SizeMod \div 2) <= SizeMod
  BY AllocAssumption, WidthAssumption
<1>2. t + size \in 0..(SizeMod - 1)
  BY <1>1, AllocAssumption, WidthAssumption
<1>3. (t + size) % SizeMod = t + size
  BY <1>2, AllocAssumption
<1> QED
  BY <1>3

LEMMA IntOfSmall ==
    ASSUME NEW t \in Nat, t < MAX_TOTAL_ALLOCATION_SIZE
    PROVE  ToInt(t) = t
<1>1. t \in 0..(IntMod - 1) /\ t < IntMod \div 2
  BY AllocAssumption, WidthAssumption
<1>2. t % IntMod = t
  BY <1>1, AllocAssumption
<1> QED
  BY <1>1, <1>2 DEF ToInt

(* The block of an entry in use has the size the entry says.               *)
LEMMA EntryInHeap ==
    ASSUME AllocInv, NEW i \in Used
    PROVE  /\ i \in Index
           /\ allocated_blocks[i].frame \in DOMAIN heap
           /\ heap[allocated_blocks[i].frame] = sizes[i]
<1>1. i \in Index
  BY DEF Used
<1> QED
  BY <1>1, SizesAreNat DEF AllocInv, TableMatchesHeap

(* Both sums grow by the size of a block that is obtained ...              *)
LEMMA ObtainedAdds ==
    ASSUME AllocInv, NEW i \in Index \ Used, NEW size \in Size, NEW frame \in Address,
           Obtains(size, frame), Obtained(i, size, frame), AllocInv'
    PROVE  TotalSize' = TotalSize + size /\ Sum(sizes', Used') = Sum(sizes, Used) + size
<1>0. size \in Nat
  BY AllocAssumption
<1>1. /\ Used' = Used \cup {i}
      /\ \A j \in Used : allocated_blocks'[j] = allocated_blocks[j]
      /\ allocated_blocks'[i] = [frame |-> frame, size |-> size]
      /\ frame \notin DOMAIN heap
      /\ DOMAIN heap' = DOMAIN heap \cup {frame}
      /\ heap'[frame] = size
      /\ \A a \in DOMAIN heap : heap'[a] = heap[a]
      /\ heap' = [a \in DOMAIN heap' |-> heap'[a]]
  BY BlockObtained
<1>2. TotalSize' = TotalSize + size
  <2>1. Sum(heap', DOMAIN heap \cup {frame}) = Sum(heap, DOMAIN heap) + heap'[frame]
    BY <1>0, <1>1, HeapFinite, SizesAreNat, SumAdd
  <2> QED
    BY <1>1, <2>1, TotalIsSum
<1>3. Sum(sizes', Used') = Sum(sizes, Used) + size
  <2>1. sizes'[i] = size /\ \A j \in Used : sizes'[j] = sizes[j] /\ sizes[j] \in Nat
    BY <1>1, SizesAreNat DEF sizes, Used
  <2>2. Sum(sizes', Used \cup {i}) = Sum(sizes, Used) + sizes'[i]
    BY <1>0, <2>1, UsedFinite, SumAdd
  <2> QED
    BY <1>1, <2>1, <2>2
<1> QED
  BY <1>2, <1>3

(* ... and shrink by that of one that is released.                         *)
LEMMA ReleasedSubtracts ==
    ASSUME AllocInv, NEW i \in Used, Released(i), AllocInv'
    PROVE  /\ TotalSize = sizes[i] + TotalSize'
           /\ Sum(sizes, Used) = sizes[i] + Sum(sizes', Used')
<1> DEFINE frame == allocated_blocks[i].frame
<1>1. i \in Index /\ frame \in DOMAIN heap /\ heap[frame] = sizes[i]
  BY EntryInHeap
<1>2. /\ \A j \in Index \ {i} : allocated_blocks'[j] = allocated_blocks[j]
      /\ Used' = Used \ {i}
      /\ DOMAIN heap' = DOMAIN heap \ {frame}
      /\ \A a \in DOMAIN heap' : heap'[a] = heap[a]
  BY <1>1, EntryReleased
<1> HIDE DEF frame
<1>3. TotalSize = sizes[i] + TotalSize'
  <2>1. Sum(heap, DOMAIN heap) = heap[frame] + Sum(heap, DOMAIN heap \ {frame})
    BY <1>1, HeapFinite, SizesAreNat, SumRemove
  <2>2. IsFiniteSet(DOMAIN heap')
    BY <1>2, HeapFinite, FS_Subset
  <2>3. Sum(heap, DOMAIN heap') = Sum(heap', DOMAIN heap')
    BY <1>2, <2>2, SumSame
  <2> QED
    BY <1>1, <1>2, <2>1, <2>3, TotalIsSum
<1>4. Sum(sizes, Used) = sizes[i] + Sum(sizes', Used')
  <2>0. Used \subseteq Index
    BY DEF Used
  <2>1. Sum(sizes, Used) = sizes[i] + Sum(sizes, Used \ {i})
    BY <2>0, UsedFinite, SizesAreNat, SumRemove
  <2>2. \A j \in Used' : sizes[j] = sizes'[j]
    BY <1>2, <2>0 DEF sizes
  <2>3. Sum(sizes, Used') = Sum(sizes', Used')
    BY <2>2, UsedFinite, SumSame
  <2> QED
    BY <1>2, <2>1, <2>3
<1> QED
  BY <1>3, <1>4

LEMMA SizeInit == Init => SizeInv
<1> SUFFICES ASSUME Init PROVE SizeInv
  OBVIOUS
<1>1. AllocInv
  BY AllocInit
<1>2. Used = {} /\ DOMAIN heap = {}
  BY DEF Init, Used
<1>3. Cardinality(Used) = 0
  BY <1>2, FS_EmptySet
<1>4. Sum(heap, {}) = 0 /\ Sum(sizes, {}) = 0
  BY FS_EmptySet, SumRecursion
<1>5. TotalSize = 0 /\ Sum(sizes, Used) = 0
  BY <1>2, <1>4, TotalIsSum
<1> QED
  BY <1>1, <1>3, <1>5, AllocAssumption
     DEF Init, SizeInv, CounterMatchesTable, SizeMatchesHeap, LimitHolds

LEMMA SizeNext == SizeInv /\ FreesNothingNull => SizeInv'
<1> SUFFICES ASSUME SizeInv, FreesNothingNull PROVE SizeInv'
  OBVIOUS
<1>0. /\ AllocInv /\ TotalSize \in Nat /\ allocatedSize = TotalSize
      /\ Sum(sizes, Used) = TotalSize /\ TotalSize < MAX_TOTAL_ALLOCATION_SIZE
      /\ allocatedBlocksCounter = Cardinality(Used) /\ allocatedBlocksCounter \in Int
  BY HeapFinite, SizesAreNat, SumType, TotalIsSum
     DEF SizeInv, SizeMatchesHeap, LimitHolds, CounterMatchesTable, AllocInv, Types
<1>1. ASSUME UNCHANGED <<allocated_blocks, allocatedBlocksCounter, allocatedSize, heap>>,
             leakingBytes' \in {-1, leakingBytes, TotalSize}
      PROVE  SizeInv'
  <2>1. AllocInv'
    BY <1>0, <1>1 DEF AllocInv, Types, TableMatchesHeap, Lag, Used
  <2>2. TotalSize' = TotalSize /\ Used' = Used /\ sizes' = sizes
    BY <1>1, TotalIsSum DEF Used, sizes
  <2> QED
    BY <1>0, <1>1, <2>1, <2>2 DEF SizeInv, SizeMatchesHeap, LimitHolds, CounterMatchesTable
<1>2. ASSUME NEW size \in Size, monitoring_alloc_malloc(size) PROVE SizeInv'
  <2>1. CASE WithinLimits(size) /\ Used # Index
    <3>1. PICK i \in Index, frame \in Frame :
             IsFirstEmpty(i) /\ Obtains(size, frame) /\ Obtained(i, size, frame)
      BY <1>2, <2>1 DEF monitoring_alloc_malloc
    <3>2. i \in Index \ Used
      BY <3>1 DEF IsFirstEmpty
    <3>3. leakingBytes = -1 /\ leakingBytes' = -1
      BY <1>2 DEF monitoring_alloc_malloc
    <3>4. AllocInv'
      BY <1>0, <3>1, <3>2, <3>3, ObtainedKeeps
    <3>5. CASE frame = NULL
      <4>1. /\ Used' = Used
            /\ \A j \in Used : allocated_blocks'[j] = allocated_blocks[j]
            /\ UNCHANGED <<allocatedBlocksCounter, allocatedSize, heap>>
        BY <1>0, <3>1, <3>2, <3>5, NothingObtained
      <4>2. TotalSize' = TotalSize
        BY <4>1, TotalIsSum
      <4>3. Sum(sizes', Used) = Sum(sizes, Used)
        <5>1. \A j \in Used : sizes'[j] = sizes[j]
          BY <4>1 DEF sizes, Used
        <5> QED
          BY <5>1, UsedFinite, SumSame
      <4> QED
        BY <1>0, <3>3, <3>4, <4>1, <4>2, <4>3
           DEF SizeInv, SizeMatchesHeap, LimitHolds, CounterMatchesTable
    <3>6. CASE frame # NULL
      <4>1. frame \in Address /\ size \in Nat /\ size < SizeMod \div 2
        BY <3>1, <3>6, AllocAssumption DEF Frame, Obtains
      <4>2. TotalSize' = TotalSize + size /\ Sum(sizes', Used') = Sum(sizes, Used) + size
        BY <1>0, <3>1, <3>2, <3>4, <4>1, ObtainedAdds
      <4>3. TotalSize + size < MAX_TOTAL_ALLOCATION_SIZE
        BY <1>0, <2>1, <4>1, NoWrap DEF WithinLimits
      <4>4. allocatedSize' = TotalSize + size
        <5>1. TotalSize + size \in Nat
          BY <1>0, <4>1
        <5>2. ToInt(TotalSize + size) = TotalSize + size
          BY <4>3, <5>1, IntOfSmall
        <5> QED
          BY <1>0, <3>1, <3>6, <5>2 DEF Obtained
      <4>5. allocatedBlocksCounter' = Cardinality(Used')
        <5>1. Used' = Used \cup {i} /\ i \notin Used
          BY <1>0, <3>1, <3>2, <4>1, BlockObtained
        <5>2. Cardinality(Used') = Cardinality(Used) + 1
          BY <5>1, UsedFinite, FS_AddElement
        <5> QED
          BY <1>0, <3>1, <3>6, <5>2 DEF Obtained
      <4> QED
        BY <1>0, <3>3, <3>4, <4>2, <4>3, <4>4, <4>5
           DEF SizeInv, SizeMatchesHeap, LimitHolds, CounterMatchesTable
    <3> QED
      BY <3>5, <3>6
  <2>2. CASE ~ (WithinLimits(size) /\ Used # Index)
    BY <1>1, <1>2, <2>2 DEF monitoring_alloc_malloc
  <2> QED
    BY <2>1, <2>2
<1>3. ASSUME NEW ptr \in Address, monitoring_alloc_free(ptr) PROVE SizeInv'
  <2>1. CASE \E i \in Index : allocated_blocks[i].frame = ptr
    <3>1. PICK i \in Index : IsLastWith(i, ptr) /\ Released(i)
      BY <1>3, <2>1 DEF monitoring_alloc_free
    <3>2. i \in Used
      BY <3>1, AllocAssumption DEF IsLastWith, Used
    <3>3. leakingBytes = -1 /\ leakingBytes' = -1
      BY <1>3 DEF monitoring_alloc_free
    <3>4. AllocInv'
      BY <1>0, <3>1, <3>2, <3>3, ReleasedKeeps
    <3>5. /\ TotalSize = sizes[i] + TotalSize'
          /\ Sum(sizes, Used) = sizes[i] + Sum(sizes', Used')
      BY <1>0, <3>1, <3>2, <3>4, ReleasedSubtracts
    <3>6. /\ sizes[i] = allocated_blocks[i].size /\ sizes[i] \in Nat
          /\ TotalSize' \in Nat /\ Sum(sizes', Used') \in Nat
      <4>1. sizes[i] = allocated_blocks[i].size /\ sizes[i] \in Nat
        BY <1>0, SizesAreNat
      <4>2. /\ IsFiniteSet(DOMAIN heap') /\ \A a \in DOMAIN heap' : heap'[a] \in Nat
            /\ IsFiniteSet(Used') /\ \A j \in Used' : sizes'[j] \in Nat
        <5>1. /\ IsFiniteSet(Used')
              /\ DOMAIN heap' \subseteq DOMAIN heap
          BY <1>0, <3>1, UsedFinite, EntryReleased
        <5>2. IsFiniteSet(DOMAIN heap')
          BY <1>0, <5>1, HeapFinite, FS_Subset
        <5>3. /\ \A a \in DOMAIN heap' : heap'[a] \in Size
              /\ allocated_blocks' \in [Index -> Entry]
          BY <3>4 DEF AllocInv, Types
        <5>4. \A a \in DOMAIN heap' : heap'[a] \in Nat
          BY <5>3, SizeIsNat
        <5>5. \A j \in Used' : sizes'[j] \in Nat
          <6>1. \A j \in Used' : j \in Index
            BY DEF Used
          <6>2. \A j \in Index : allocated_blocks'[j].size \in Nat
            BY <5>3, AllocAssumption DEF Entry
          <6> QED
            BY <6>1, <6>2 DEF sizes
        <5> QED
          BY <5>1, <5>2, <5>4, <5>5
      <4> QED
        BY <4>1, <4>2, SumType, TotalIsSum
    <3>7. TotalSize' < MAX_TOTAL_ALLOCATION_SIZE /\ TotalSize - sizes[i] = TotalSize'
      BY <1>0, <3>5, <3>6, AllocAssumption
    <3>8. allocatedSize' = TotalSize'
      BY <1>0, <3>1, <3>6, <3>7, IntOfSmall DEF Released
    <3>9. allocatedBlocksCounter' = Cardinality(Used')
      <4>1. Used' = Used \ {i}
        BY <1>0, <3>1, EntryReleased
      <4>2. Cardinality(Used') = Cardinality(Used) - 1
        BY <3>2, <4>1, UsedFinite, FS_RemoveElement
      <4> QED
        BY <1>0, <3>1, <4>2 DEF Released
    <3> QED
      BY <1>0, <3>3, <3>4, <3>5, <3>6, <3>7, <3>8, <3>9
         DEF SizeInv, SizeMatchesHeap, LimitHolds, CounterMatchesTable
  <2>2. CASE ~ \E i \in Index : allocated_blocks[i].frame = ptr
    BY <1>1, <1>3, <2>2 DEF monitoring_alloc_free
  <2> QED
    BY <2>1, <2>2
<1>4. CASE shutdown_monitoring_alloc
  <2>1. MapThenSumSet(LAMBDA i : allocated_blocks[i].size, Used) = Sum(sizes, Used)
    BY TableSum
  <2> QED
    BY <1>0, <1>1, <1>4, <2>1 DEF shutdown_monitoring_alloc
<1>5. CASE UNCHANGED vars
  BY <1>1, <1>5 DEF vars
<1> QED
  BY <1>2, <1>3, <1>4, <1>5 DEF FreesNothingNull

-----------------------------------------------------------------------------
(* Programs                                                                *)

(* The chars a block may hold when leaking_function reads it.              *)
Content == Chars \cup {BarChars[i] : i \in DOMAIN BarChars}

(* The inductive invariant of the program: the monitor's, PointersAreValid *)
(* with the types of its variables, and that the other programs leave      *)
(* these variables alone.                                                  *)
ProgramInv ==
    /\ SizeInv
    /\ at \in Nat \cup {Any}
    /\ pointer \in [Pointers -> Frame]
    /\ content \in [Pointers -> Seq(Content)]
    /\ rest \in Seq(Content)
    /\ at = Any => rest = <<>> /\ pointer = [v \in Pointers |-> NULL]
    /\ PointersAreValid

LEMMA ContentSizes == \A c \in Content : c % SizeMod \in Size
BY ProgramAssumption DEF Content

(* What monitoring_alloc_malloc returns is NULL or a block that was not    *)
(* allocated before; no other block comes or goes.                         *)
LEMMA MallocReturns ==
    ASSUME AllocInv, NEW size \in Size, monitoring_alloc_malloc(size)
    PROVE  /\ DOMAIN heap \subseteq DOMAIN heap'
           /\ Returned \in Frame
           /\ Returned # NULL => Returned \in DOMAIN heap' \ DOMAIN heap
<1>1. CASE heap' = heap
  BY <1>1 DEF Returned, Frame
<1>2. CASE heap' # heap
  <2>1. PICK i \in Index, frame \in Frame :
           IsFirstEmpty(i) /\ Obtains(size, frame) /\ Obtained(i, size, frame)
    BY <1>2 DEF monitoring_alloc_malloc
  <2>2. frame \in Address /\ i \in Index \ Used
    BY <1>2, <2>1 DEF Obtained, Frame, IsFirstEmpty
  <2>3. frame \notin DOMAIN heap /\ DOMAIN heap' = DOMAIN heap \cup {frame}
    BY <2>1, <2>2, BlockObtained
  <2>4. Returned = frame
    BY <1>2, <2>3 DEF Returned
  <2> QED
    BY <2>1, <2>3, <2>4
<1> QED
  BY <1>1, <1>2

(* Freeing a block that is allocated takes it out of the heap and nothing  *)
(* else.                                                                   *)
LEMMA FreeTakes ==
    ASSUME AllocInv, NEW ptr \in DOMAIN heap, monitoring_alloc_free(ptr)
    PROVE  DOMAIN heap' = DOMAIN heap \ {ptr}
<1>1. PICK j \in Used : allocated_blocks[j].frame = ptr
  BY DEF AllocInv, TableMatchesHeap
<1>2. PICK i \in Index : IsLastWith(i, ptr) /\ Released(i)
  BY <1>1 DEF monitoring_alloc_free, Used
<1>3. allocated_blocks[i].frame = ptr
  BY <1>2 DEF IsLastWith
<1> QED
  BY <1>2, <1>3, EntryReleased

LEMMA ProgramInitial == ProgramInit => ProgramInv
<1> SUFFICES ASSUME ProgramInit PROVE ProgramInv
  OBVIOUS
<1>1. SizeInv
  BY SizeInit DEF ProgramInit
<1>2. /\ at \in Nat \cup {Any} /\ rest = <<>>
      /\ pointer = [v \in Pointers |-> NULL]
      /\ content = [v \in Pointers |-> <<>>]
  BY DEF ProgramInit, Any
<1>3. <<>> \in Seq(Content)
  OBVIOUS
<1> QED
  BY <1>1, <1>2, <1>3 DEF ProgramInv, PointersAreValid, Frame

LEMMA ProgramStep == ProgramInv /\ [ProgramNext]_allVars => ProgramInv'
<1> SUFFICES ASSUME ProgramInv, [ProgramNext]_allVars PROVE ProgramInv'
  OBVIOUS
<1>0. /\ SizeInv /\ AllocInv /\ at \in Nat \cup {Any}
      /\ pointer \in [Pointers -> Frame]
      /\ content \in [Pointers -> Seq(Content)]
      /\ rest \in Seq(Content)
      /\ at = Any => rest = <<>> /\ pointer = [v \in Pointers |-> NULL]
      /\ \A v \in Pointers : pointer[v] # NULL => pointer[v] \in DOMAIN heap
      /\ \A v, w \in Pointers : v # w /\ pointer[v] # NULL => pointer[v] # pointer[w]
  BY DEF ProgramInv, SizeInv, PointersAreValid
<1>1. \A op, v : Does(op, v) => at \in 1..15
  BY DEF Does, Statement
<1>2. ASSUME NEW size \in Size, monitoring_alloc_malloc(size), NEW v \in Pointers,
             pointer' = [pointer EXCEPT ![v] = Returned]
      PROVE  SizeInv' /\ pointer' \in [Pointers -> Frame] /\ PointersAreValid'
  <2>1. SizeInv'
    BY <1>0, <1>2, SizeNext DEF FreesNothingNull
  <2>2. /\ DOMAIN heap \subseteq DOMAIN heap'
        /\ Returned \in Frame
        /\ Returned # NULL => Returned \in DOMAIN heap' \ DOMAIN heap
    BY <1>0, <1>2, MallocReturns
  <2> QED
    BY <1>0, <1>2, <2>1, <2>2 DEF PointersAreValid
<1>3. ASSUME NEW v \in Pointers, Malloc(v), v # "allocated" PROVE ProgramInv'
  <2>1. Length[v] \in Size
    BY <1>3, ProgramAssumption
  <2>2. /\ at \in 1..15 /\ at' = at + 1 /\ rest' = rest
        /\ SizeInv' /\ pointer' \in [Pointers -> Frame] /\ PointersAreValid'
    BY <1>1, <1>2, <1>3, <2>1 DEF Malloc
  <2>3. content' \in [Pointers -> Seq(Content)]
    <3>1. PICK c \in [1..Length[v] -> Chars] : content' = [content EXCEPT ![v] = c]
      BY <1>3 DEF Malloc
    <3>2. Length[v] \in Nat
      BY <2>1, SizeIsNat
    <3>3. c \in Seq(Content)
      BY <3>2 DEF Content
    <3> QED
      BY <1>0, <3>1, <3>3
  <2> QED
    BY <1>0, <2>2, <2>3 DEF ProgramInv, Any
<1>4. CASE FillBar
  <2>1. BarChars \in Seq(Content)
    <3>1. Length["bar"] \in Size
      BY ProgramAssumption DEF Pointers
    <3>2. Length["bar"] \in Nat
      BY <3>1, SizeIsNat
    <3>3. BarChars \in [1..Length["bar"] -> Content]
      BY DEF BarChars, Content
    <3> QED
      BY <3>2, <3>3
  <2>2. at \in 1..15 /\ at' \in {0, at + 1}
    BY <1>1, <1>4 DEF FillBar, Crashed
  <2>3. SizeInv'
    BY <1>0, <1>4, SizeNext DEF FillBar, FreesNothingNull
  <2>4. heap' = heap /\ pointer' = pointer /\ rest' = rest
    BY <1>4 DEF FillBar, vars
  <2>5. content' \in [Pointers -> Seq(Content)]
    BY <1>0, <1>4, <2>1 DEF FillBar
  <2> QED
    BY <1>0, <2>2, <2>3, <2>4, <2>5 DEF ProgramInv, PointersAreValid, Any
<1>5. ASSUME NEW v \in Pointers, CallLeaking(v) PROVE ProgramInv'
  <2>1. at' \in Nat /\ at' # Any
    BY <1>1, <1>5 DEF CallLeaking, Any
  <2>2. SizeInv'
    BY <1>0, <1>5, SizeNext DEF CallLeaking, FreesNothingNull
  <2>3. /\ heap' = heap /\ content' = content
        /\ pointer' = [pointer EXCEPT !["allocated"] = NULL]
        /\ rest' \in Seq(Content)
    BY <1>0, <1>5 DEF CallLeaking, vars
  <2>4. pointer' \in [Pointers -> Frame] /\ PointersAreValid'
    BY <1>0, <2>3 DEF PointersAreValid, Frame
  <2> QED
    BY <1>0, <2>1, <2>2, <2>3, <2>4 DEF ProgramInv
<1>6. CASE leaking_function
  <2>1. rest # <<>> /\ Head(rest) \in Content /\ Tail(rest) \in Seq(Content)
    BY <1>0, <1>6 DEF leaking_function
  <2>2. at # Any /\ at' \in {at, at + 1} /\ rest' = Tail(rest) /\ content' = content
    BY <1>0, <1>6, <2>1 DEF leaking_function
  <2>3. SizeInv' /\ pointer' \in [Pointers -> Frame] /\ PointersAreValid'
    <3>1. CASE Head(rest) = 0
      <4>1. UNCHANGED <<vars, pointer>>
        BY <1>6, <3>1 DEF leaking_function
      <4>2. SizeInv'
        BY <1>0, <4>1, SizeNext DEF FreesNothingNull
      <4> QED
        BY <1>0, <4>1, <4>2 DEF vars, PointersAreValid
    <3>2. CASE Head(rest) # 0
      <4>1. Head(rest) % SizeMod \in Size
        BY <2>1, ContentSizes
      <4> QED
        BY <1>2, <1>6, <3>2, <4>1 DEF leaking_function, Pointers
    <3> QED
      BY <3>1, <3>2
  <2>4. at' \in Nat /\ at' # Any
    BY <1>0, <2>2 DEF Any
  <2> QED
    BY <1>0, <2>1, <2>2, <2>3, <2>4 DEF ProgramInv
<1>7. ASSUME NEW v \in Pointers, Free(v) PROVE ProgramInv'
  <2>1. /\ at \in 1..15 /\ at' = at + 1 /\ rest' = rest /\ content' = content
        /\ pointer' = [pointer EXCEPT ![v] = NULL]
    BY <1>1, <1>7 DEF Free
  <2>2. CASE pointer[v] = NULL
    <3>1. UNCHANGED vars
      BY <1>7, <2>2 DEF Free
    <3>2. SizeInv'
      BY <1>0, <3>1, SizeNext DEF FreesNothingNull
    <3> QED
      BY <1>0, <2>1, <3>1, <3>2 DEF vars, ProgramInv, PointersAreValid, Any, Frame
  <2>3. CASE pointer[v] # NULL
    <3>1. monitoring_alloc_free(pointer[v]) /\ pointer[v] \in DOMAIN heap
      BY <1>0, <1>7, <2>3 DEF Free
    <3>2. pointer[v] \in Address
      BY <1>0, <2>3 DEF Frame
    <3>3. SizeInv'
      BY <1>0, <3>1, <3>2, SizeNext DEF FreesNothingNull
    <3>4. DOMAIN heap' = DOMAIN heap \ {pointer[v]}
      BY <1>0, <3>1, FreeTakes
    <3> QED
      BY <1>0, <2>1, <3>3, <3>4 DEF ProgramInv, PointersAreValid, Any, Frame
  <2> QED
    BY <2>2, <2>3
<1>8. CASE Shutdown
  <2>1. /\ at \in 1..15 /\ at' = at + 1
        /\ UNCHANGED <<pointer, content, rest>> /\ heap' = heap
    BY <1>1, <1>8 DEF Shutdown, shutdown_monitoring_alloc
  <2>2. SizeInv'
    BY <1>0, <1>8, SizeNext DEF Shutdown, FreesNothingNull
  <2> QED
    BY <1>0, <2>1, <2>2 DEF ProgramInv, PointersAreValid, Any
<1>9. CASE AnyProgram
  <2>1. at = Any /\ UNCHANGED programVars
    BY <1>9 DEF AnyProgram
  <2>2. SizeInv'
    BY <1>0, <1>9, SizeNext DEF AnyProgram, FreesNothingNull
  <2> QED
    BY <1>0, <2>1, <2>2 DEF ProgramInv, PointersAreValid, programVars
<1>10. CASE Over \/ UNCHANGED allVars
  <2>1. UNCHANGED <<vars, programVars>>
    BY <1>10 DEF Over, allVars
  <2>2. SizeInv'
    BY <1>0, <2>1, SizeNext DEF FreesNothingNull
  <2> QED
    BY <1>0, <2>1, <2>2 DEF ProgramInv, PointersAreValid, programVars, vars
<1> QED
  BY <1>3, <1>4, <1>5, <1>6, <1>7, <1>8, <1>9, <1>10 DEF ProgramNext, main

(* The kept total and the result of shutdown_monitoring_alloc agree with   *)
(* the blocks that are allocated, for every limit and for every program    *)
(* that frees no null pointer (monitoring_alloc.c:90, 124, 138-147).       *)
THEOREM TotalIsExact == ProgramSpec => []SizeMatchesHeap
<1>1. ProgramInv => SizeMatchesHeap
  BY DEF ProgramInv, SizeInv
<1> QED
  BY <1>1, ProgramInitial, ProgramStep, PTL DEF ProgramSpec

(* All blocks together stay below the limit, although the sum that is      *)
(* compared with it may wrap: a size for which it does is one malloc       *)
(* refuses (monitoring_alloc.c:79-80).                                     *)
THEOREM LimitIsKept == ProgramSpec => []LimitHolds
<1>1. ProgramInv => LimitHolds
  BY DEF ProgramInv, SizeInv
<1> QED
  BY <1>1, ProgramInitial, ProgramStep, PTL DEF ProgramSpec

(* The program of main.c holds no pointer to a block that has been freed   *)
(* and no two to one block, whatever chars leaking_function reads and      *)
(* whichever calls of malloc fail (main.c:40-80).                          *)
THEOREM PointersStayValid == ProgramSpec => []PointersAreValid
<1>1. ProgramInv => PointersAreValid
  BY DEF ProgramInv
<1> QED
  BY <1>1, ProgramInitial, ProgramStep, PTL DEF ProgramSpec
=============================================================================
