------------------------------ MODULE GameProofs ------------------------------
(***************************************************************************)
(* Theorems about the parts that MCGame checks one at a time.              *)
(***************************************************************************)
EXTENDS MCGame, TLAPS, FiniteSetTheorems, WellFoundedInduction

-----------------------------------------------------------------------------
(* TomodachiHeap: for any addresses and any length of the table.           *)

(* An entry that is not a hole says the heap of its pointer, also when     *)
(* realloc or free has left it behind.                                     *)
EntriesRight ==
  \A i \in DOMAIN table :
    table[i].ptr # Hole => table[i].heap = HeapOf(table[i].ptr)
InTable(a) == \E i \in DOMAIN table : table[i].ptr = a
MineHaveEntries == \A a \in mine \ (untracked \cup moved) : InTable(a)
FreedRight == freedBy.ptr # Hole => freedBy.heap = HeapOf(freedBy.ptr)
HeapInv ==
  /\ table \in Seq(HeapData) /\ mine \subseteq TAddr
  /\ EntriesRight /\ MineHaveEntries /\ FreedRight

LEMMA LeastIndex ==
  ASSUME NEW S, S \subseteq Nat, S # {}
  PROVE  \E i \in S : \A j \in S : i <= j
<1>1. PICK i \in S : \A j \in S : ~(<<j, i>> \in OpToRel(<, Nat))
  BY NatLessThanWellFounded, WFMin
<1>2. \A j \in S : ~(j < i)
  BY <1>1 DEF OpToRel
<1> QED BY <1>2

(* The first entry with a pointer is one of those with it.                 *)
LEMMA FirstIsEntry ==
  ASSUME table \in Seq(HeapData), NEW p, EntriesOf(p) # {}
  PROVE  FirstEntry(p) \in EntriesOf(p)
<1>1. EntriesOf(p) \subseteq Nat
  BY DEF EntriesOf
<1>2. \E i \in EntriesOf(p) : \A j \in EntriesOf(p) : i <= j
  BY <1>1, LeastIndex
<1> QED BY <1>2 DEF FirstEntry

(* What is cleared leaves every other entry where it is.                   *)
LEMMA ClearedEntries ==
  ASSUME table \in Seq(HeapData), NEW i \in DOMAIN table
  PROVE  /\ Cleared(i) \in Seq(HeapData)
         /\ DOMAIN Cleared(i) \subseteq DOMAIN table
         /\ \A j \in DOMAIN Cleared(i) :
              Cleared(i)[j] = table[j] \/ Cleared(i)[j].ptr = Hole
         /\ \A j \in DOMAIN table \ {i} :
              j \in DOMAIN Cleared(i) /\ Cleared(i)[j] = table[j]
<1>1. i \in 1 .. Len(table) /\ Len(table) \in Nat
  OBVIOUS
<1>2. CASE i = Len(table)
  <2>1. Cleared(i) = SubSeq(table, 1, i - 1)
    BY <1>2 DEF Cleared
  <2>2. /\ Cleared(i) \in Seq(HeapData) /\ Len(Cleared(i)) = i - 1
        /\ \A j \in 1 .. i - 1 : Cleared(i)[j] = table[j]
    BY <1>1, <2>1
  <2> QED BY <1>1, <1>2, <2>2
<1>3. CASE i # Len(table)
  <2>1. Cleared(i) = [table EXCEPT ![i].ptr = Hole]
    BY <1>3 DEF Cleared
  <2>2. [table[i] EXCEPT !.ptr = Hole] \in HeapData
    <3>1. table[i] \in HeapData OBVIOUS
    <3> QED BY <3>1 DEF HeapData
  <2>3. Cleared(i) = [table EXCEPT ![i] = [table[i] EXCEPT !.ptr = Hole]]
    BY <2>1
  <2>4. [table[i] EXCEPT !.ptr = Hole].ptr = Hole
    <3>1. table[i] \in HeapData OBVIOUS
    <3> QED BY <3>1 DEF HeapData
  <2> HIDE DEF Cleared
  <2>5. /\ Cleared(i) \in Seq(HeapData) /\ DOMAIN Cleared(i) = DOMAIN table
    BY <2>2, <2>3
  <2>6. Cleared(i)[i].ptr = Hole
    BY <2>3, <2>4
  <2>7. \A j \in DOMAIN table \ {i} : Cleared(i)[j] = table[j]
    BY <2>3
  <2> QED BY <2>5, <2>6, <2>7
<1> QED BY <1>2, <1>3

LEMMA HeapInvInit == TomoInit => HeapInv
BY DEF TomoInit, HeapInv, EntriesRight, MineHaveEntries, FreedRight, Nobody

(* Any step that adds right entries or clears one, and asks for an entry   *)
(* of no other block than those that have one.                             *)
LEMMA AllocStep ==
  ASSUME HeapInv, NEW a \in TAddr, TomoAlloc(a)
  PROVE  HeapInv'
<1>1. /\ mine' = mine \cup {a} /\ moved' = moved /\ freedBy' = freedBy
      /\ Chosen = HeapOf(a) /\ Chosen \in {"bss", "game"}
  BY DEF TomoAlloc, Chosen
<1>2. CASE Len(table) < MAX_HEAP_TRACKED
  <2> DEFINE e == [ptr |-> a, heap |-> Chosen]
  <2>1. table' = Append(table, e) /\ untracked' = untracked
    BY <1>2 DEF TomoAlloc
  <2>2. e \in HeapData /\ e.ptr = a /\ e.heap = HeapOf(a)
    BY <1>1 DEF HeapData
  <2> HIDE DEF e
  <2>3. /\ table' \in Seq(HeapData) /\ Len(table') = Len(table) + 1
        /\ \A i \in 1 .. Len(table) : table'[i] = table[i]
        /\ table'[Len(table) + 1] = e /\ Len(table) \in Nat
    BY <2>1, <2>2 DEF HeapInv
  <2>4. EntriesRight'
    BY <2>2, <2>3 DEF HeapInv, EntriesRight, HeapOf
  <2>5. \A x : InTable(x) => InTable(x)'
    BY <2>3 DEF InTable, HeapInv
  <2>6. InTable(a)'
    BY <2>2, <2>3 DEF InTable
  <2>7. MineHaveEntries'
    BY <1>1, <2>1, <2>5, <2>6 DEF HeapInv, MineHaveEntries
  <2> QED BY <1>1, <2>3, <2>4, <2>7 DEF HeapInv, FreedRight, HeapOf
<1>3. CASE ~(Len(table) < MAX_HEAP_TRACKED)
  <2>1. table' = table /\ untracked' = untracked \cup {a}
    BY <1>3 DEF TomoAlloc
  <2> QED
    BY <1>1, <2>1 DEF HeapInv, EntriesRight, MineHaveEntries, InTable,
                      FreedRight, HeapOf
<1> QED BY <1>2, <1>3

LEMMA FreeStep ==
  ASSUME HeapInv, NEW a \in TAddr, TomoFree(a)
  PROVE  HeapInv'
<1>1. /\ mine' = mine \ {a} /\ untracked' = untracked \ {a}
      /\ moved' = moved \ {a}
  BY DEF TomoFree
<1>2. CASE EntriesOf(a) = {}
  <2>1. table' = table /\ freedBy' = freedBy
    BY <1>2 DEF TomoFree
  <2> QED
    BY <1>1, <2>1 DEF HeapInv, EntriesRight, MineHaveEntries, InTable,
                      FreedRight, HeapOf
<1>3. CASE EntriesOf(a) # {}
  <2> DEFINE i == FirstEntry(a)
  <2>1. table' = Cleared(i) /\ freedBy' = table[i]
    BY <1>3 DEF TomoFree
  <2>2. i \in DOMAIN table /\ table[i].ptr = a
    BY <1>3, FirstIsEntry DEF EntriesOf, HeapInv
  <2> HIDE DEF i
  <2>3. /\ table' \in Seq(HeapData) /\ DOMAIN table' \subseteq DOMAIN table
        /\ \A j \in DOMAIN table' : table'[j] = table[j] \/ table'[j].ptr = Hole
        /\ \A j \in DOMAIN table \ {i} : j \in DOMAIN table' /\ table'[j] = table[j]
    BY <2>1, <2>2, ClearedEntries DEF HeapInv
  <2>4. EntriesRight'
    BY <2>3 DEF HeapInv, EntriesRight, HeapOf
  <2>5. \A x : x # a /\ InTable(x) => InTable(x)'
    BY <2>2, <2>3 DEF InTable
  <2>6. MineHaveEntries'
    BY <1>1, <2>5 DEF HeapInv, MineHaveEntries
  <2>7. FreedRight'
    BY <2>1, <2>2 DEF HeapInv, EntriesRight, FreedRight, HeapOf
  <2> QED BY <1>1, <2>3, <2>4, <2>6, <2>7 DEF HeapInv
<1> QED BY <1>2, <1>3

LEMMA FreeNullStep ==
  ASSUME HeapInv, FreeNull
  PROVE  HeapInv'
<1> DEFINE i == FirstEntry(Hole)
<1>1. /\ table' = Cleared(i)
      /\ UNCHANGED <<mine, untracked, moved, freedBy>>
  BY DEF FreeNull
<1>2. i \in DOMAIN table /\ table[i].ptr = Hole
  BY FirstIsEntry DEF EntriesOf, HeapInv, FreeNull
<1> HIDE DEF i
<1>3. /\ table' \in Seq(HeapData) /\ DOMAIN table' \subseteq DOMAIN table
      /\ \A j \in DOMAIN table' : table'[j] = table[j] \/ table'[j].ptr = Hole
      /\ \A j \in DOMAIN table \ {i} : j \in DOMAIN table' /\ table'[j] = table[j]
  BY <1>1, <1>2, ClearedEntries DEF HeapInv
<1>4. EntriesRight'
  BY <1>3 DEF HeapInv, EntriesRight, HeapOf
<1>5. \A x : x # Hole /\ InTable(x) => InTable(x)'
  BY <1>2, <1>3 DEF InTable
<1>6. MineHaveEntries'
  BY <1>1, <1>5, TomodachiAssumption DEF HeapInv, MineHaveEntries
<1> QED BY <1>1, <1>3, <1>4, <1>6 DEF HeapInv, FreedRight, HeapOf

LEMMA ReallocStep ==
  ASSUME HeapInv, NEW a \in TAddr, NEW b \in TAddr, TomoRealloc(a, b)
  PROVE  HeapInv'
<1>1. /\ mine' = (mine \ {a}) \cup {b} /\ untracked' = untracked \ {a}
      /\ moved' = (moved \ {a}) \cup {b}
      /\ table' = table /\ freedBy' = freedBy
  BY DEF TomoRealloc
<1> QED
  BY <1>1 DEF HeapInv, EntriesRight, MineHaveEntries, InTable, FreedRight,
              HeapOf

LEMMA HeapInvStep == ASSUME HeapInv, [TomoNext]_tomoVars PROVE HeapInv'
<1>1. CASE HeapAppears \/ OnExceptionHandler \/ UNCHANGED tomoVars
  <2>1. UNCHANGED <<table, mine, untracked, moved, freedBy>>
    BY <1>1 DEF HeapAppears, OnExceptionHandler, tomoVars
  <2> QED
    BY <2>1 DEF HeapInv, EntriesRight, MineHaveEntries, InTable, FreedRight,
                HeapOf
<1> QED
  BY <1>1, FreeNullStep, AllocStep, FreeStep, ReallocStep DEF TomoNext

(* Every block that the table had room for and that realloc did not move   *)
(* is freed to the heap it came from.                                      *)
THEOREM BlocksAreFound == TomoSpec => []FoundWhenFreed
<1>1. ASSUME HeapInv PROVE FoundWhenFreed
  <2>1. ASSUME NEW a \in mine \ (untracked \cup moved)
        PROVE  EntriesOf(a) # {} /\ table[FirstEntry(a)].heap = HeapOf(a)
    <3>1. EntriesOf(a) # {}
      BY <1>1 DEF HeapInv, MineHaveEntries, InTable, EntriesOf
    <3>2. FirstEntry(a) \in DOMAIN table /\ table[FirstEntry(a)].ptr = a
      BY <1>1, <3>1, FirstIsEntry DEF EntriesOf, HeapInv
    <3>3. a # Hole
      BY <1>1, TomodachiAssumption DEF HeapInv
    <3> QED BY <1>1, <3>1, <3>2, <3>3 DEF HeapInv, EntriesRight
  <2> QED BY <1>1, <2>1 DEF HeapInv, FreedRight, FoundWhenFreed
<1> QED BY <1>1, HeapInvInit, HeapInvStep, PTL DEF TomoSpec

-----------------------------------------------------------------------------
(* MemoryObject: for any finite number of threads.                         *)

(* The references that are counted: those that a thread holds, and the one *)
(* that it is about to give up.                                            *)
IsCounted(r) ==
  IF r[2] = 0 THEN refPc[r[1]] = "dec" ELSE r[2] <= refs[r[1]]
CountedRefs == {r \in RefUser \X (0 .. MaxRefs) : IsCounted(r)}
NobodyAt(place) == \A t \in RefUser : refPc[t] # place
OneAt(place) ==
  \E t \in RefUser : \A u \in RefUser : refPc[u] = place <=> u = t

(* The object in use, after its last reference, and after the store of     *)
(* m_invalid: as long as no reference was taken from a count of zero.      *)
InUse ==
  /\ ~m_invalid /\ zeroed = 0 /\ NobodyAt("invalidate") /\ NobodyAt("zero")
  /\ m_refcount = Cardinality(CountedRefs)
Unused ==
  /\ ~m_invalid /\ zeroed = 0 /\ OneAt("invalidate") /\ NobodyAt("zero")
  /\ m_refcount = 0 /\ NobodyAt("dec") /\ \A t \in RefUser : refs[t] = 0
Released ==
  /\ m_invalid /\ NobodyAt("invalidate") /\ NobodyAt("dec")
  /\ m_refcount = 0
  /\ \/ zeroed = 0 /\ OneAt("zero")
     \/ zeroed = 1 /\ NobodyAt("zero")
RefTyped ==
  /\ refPc \in [RefUser -> {"out", "inc", "dec", "invalidate", "zero"}]
  /\ refs \in [RefUser -> 0 .. MaxRefs]
  /\ m_refcount \in Int /\ zeroed \in Nat
  /\ m_invalid \in BOOLEAN /\ revived \in BOOLEAN
  /\ \A t \in RefUser : refPc[t] = "inc" => refs[t] < MaxRefs
RefInv == RefTyped /\ (~revived => InUse \/ Unused \/ Released)

LEMMA CountedFinite ==
  /\ IsFiniteSet(CountedRefs) /\ Cardinality(CountedRefs) \in Nat
  /\ Cardinality(CountedRefs) = 0 <=> CountedRefs = {}
<1>1. IsFiniteSet(0 .. MaxRefs)
  <2>1. 0 \in Int /\ MaxRefs \in Int
    BY DEF MaxRefs
  <2> QED BY <2>1, FS_Interval
<1>2. IsFiniteSet(RefUser \X (0 .. MaxRefs))
  BY <1>1, FS_Product, RefAssumption
<1>3. IsFiniteSet(CountedRefs)
  BY <1>2, FS_Subset DEF CountedRefs
<1> QED BY <1>3, FS_CardinalityType, FS_EmptySet

LEMMA RefInvInit == RefInit => RefInv
<1> SUFFICES ASSUME RefInit PROVE RefInv
  OBVIOUS
<1>1. RefTyped
  <2>1. m_invalid \in BOOLEAN /\ revived \in BOOLEAN
    BY DEF RefInit
  <2> QED BY <2>1 DEF RefInit, RefTyped, MaxRefs
<1>2. CountedRefs = {}
  BY DEF RefInit, CountedRefs, IsCounted, MaxRefs
<1>3. InUse
  BY <1>2, FS_EmptySet DEF RefInit, InUse, NobodyAt
<1> QED BY <1>1, <1>3 DEF RefInv

(* What each step does to the references that are counted.                 *)
LEMMA AddStep ==
  ASSUME RefInv, NEW t \in RefUser, FetchAdd(t)
  PROVE  RefInv'
<1>1. /\ refPc[t] = "inc" /\ refPc' = [refPc EXCEPT ![t] = "out"]
      /\ refs' = [refs EXCEPT ![t] = @ + 1]
      /\ m_refcount' = m_refcount + 1
      /\ m_invalid' = m_invalid /\ zeroed' = zeroed
      /\ revived' = (revived \/ m_invalid
                     \/ \E u \in RefUser : refPc[u] = "invalidate")
  BY DEF FetchAdd, RefGoto
<1>2. RefTyped /\ refs[t] \in 0 .. MaxRefs /\ refs[t] < MaxRefs
  BY <1>1 DEF RefInv, RefTyped
<1>3. RefTyped'
  <2>1. refs' \in [RefUser -> 0 .. MaxRefs]
    BY <1>1, <1>2 DEF RefTyped, MaxRefs
  <2>2. revived' \in BOOLEAN
    BY <1>1
  <2>3. \A u \in RefUser : refPc'[u] = "inc" => refs'[u] < MaxRefs
    BY <1>1, <1>2 DEF RefTyped
  <2> QED BY <1>1, <1>2, <2>1, <2>2, <2>3 DEF RefTyped
<1>4. ASSUME ~revived' PROVE InUse'
  <2>1. ~revived /\ ~m_invalid /\ NobodyAt("invalidate")
    BY <1>1, <1>4 DEF NobodyAt
  <2>2. InUse
    BY <2>1 DEF RefInv, Unused, Released, OneAt, NobodyAt
  <2> DEFINE r == <<t, refs[t] + 1>>
  <2>3. r \in RefUser \X (0 .. MaxRefs) /\ r \notin CountedRefs
    BY <1>2 DEF CountedRefs, IsCounted, MaxRefs
  <2>4. \A x \in RefUser \X (0 .. MaxRefs) :
          IsCounted(x)' <=> IsCounted(x) \/ x = r
    <3> SUFFICES ASSUME NEW u \in RefUser, NEW k \in 0 .. MaxRefs
                 PROVE  IsCounted(<<u, k>>)' <=> IsCounted(<<u, k>>) \/ <<u, k>> = r
      OBVIOUS
    <3>1. CASE u # t
      BY <1>1, <1>2, <3>1 DEF IsCounted, RefTyped
    <3>2. CASE u = t
      BY <1>1, <1>2, <3>2 DEF IsCounted, RefTyped, MaxRefs
    <3> QED BY <3>1, <3>2
  <2>5. CountedRefs' = CountedRefs \cup {r}
    BY <2>3, <2>4 DEF CountedRefs
  <2>6. Cardinality(CountedRefs') = Cardinality(CountedRefs) + 1
    BY <2>3, <2>5, CountedFinite, FS_AddElement
  <2> QED BY <1>1, <1>2, <2>2, <2>6 DEF InUse, NobodyAt, RefTyped
<1> QED BY <1>3, <1>4 DEF RefInv

LEMMA IncrementStep ==
  ASSUME RefInv, NEW t \in RefUser, IncrementReference(t)
  PROVE  RefInv'
<1>1. /\ refPc[t] = "out" /\ refs[t] < MaxRefs
      /\ UNCHANGED <<m_refcount, m_invalid, zeroed, revived>>
  BY DEF IncrementReference
<1>2. RefTyped /\ refs[t] \in 0 .. MaxRefs
  BY DEF RefInv, RefTyped
<1>3. CASE m_invalid
  <2>1. refs' = [refs EXCEPT ![t] = @ + 1] /\ refPc' = refPc
    BY <1>3 DEF IncrementReference
  <2>2. RefTyped'
    BY <1>1, <1>2, <2>1 DEF RefTyped, MaxRefs
  <2> QED
    BY <1>1, <1>3, <2>1, <2>2 DEF RefInv, InUse, Unused, Released, NobodyAt, OneAt
<1>4. CASE ~m_invalid
  <2>1. refPc' = [refPc EXCEPT ![t] = "inc"] /\ refs' = refs
    BY <1>4 DEF IncrementReference, RefGoto
  <2>2. RefTyped'
    BY <1>1, <1>2, <2>1 DEF RefTyped
  <2>3. \A place \in {"dec", "invalidate", "zero"}, u \in RefUser :
          refPc'[u] = place <=> refPc[u] = place
    BY <1>1, <1>2, <2>1 DEF RefTyped
  <2>4. CountedRefs' = CountedRefs
    BY <2>1, <2>3 DEF CountedRefs, IsCounted
  <2> QED
    BY <1>1, <2>1, <2>2, <2>3, <2>4
       DEF RefInv, InUse, Unused, Released, NobodyAt, OneAt
<1> QED BY <1>3, <1>4

LEMMA DecrementStep ==
  ASSUME RefInv, NEW t \in RefUser, DecrementReference(t)
  PROVE  RefInv'
<1>1. /\ refPc[t] = "out" /\ refs[t] > 0
      /\ refs' = [refs EXCEPT ![t] = @ - 1]
      /\ UNCHANGED <<m_refcount, m_invalid, zeroed, revived>>
  BY DEF DecrementReference
<1>2. RefTyped /\ refs[t] \in 0 .. MaxRefs
  BY DEF RefInv, RefTyped
<1>3. refs' \in [RefUser -> 0 .. MaxRefs] /\ refs'[t] = refs[t] - 1
  BY <1>1, <1>2 DEF RefTyped, MaxRefs
<1>4. CASE m_invalid
  <2>1. refPc' = refPc
    BY <1>4 DEF DecrementReference
  <2>2. RefTyped'
    BY <1>1, <1>2, <1>3, <2>1 DEF RefTyped
  <2> QED
    BY <1>1, <1>4, <2>1, <2>2 DEF RefInv, InUse, Unused, Released, NobodyAt, OneAt
<1>5. CASE ~m_invalid
  <2>1. refPc' = [refPc EXCEPT ![t] = "dec"]
    BY <1>5 DEF DecrementReference, RefGoto
  <2>2. RefTyped'
    BY <1>1, <1>2, <1>3, <2>1 DEF RefTyped
  <2>3. ASSUME ~revived PROVE InUse
    BY <1>1, <1>5, <2>3 DEF RefInv, Unused, Released
  <2>4. NobodyAt("invalidate") /\ NobodyAt("zero")
        => NobodyAt("invalidate")' /\ NobodyAt("zero")'
    BY <1>1, <1>2, <2>1 DEF RefTyped, NobodyAt
  <2> DEFINE r == <<t, refs[t]>>  q == <<t, 0>>
  <2>5. r \in CountedRefs /\ q \notin CountedRefs /\ q \in RefUser \X (0 .. MaxRefs)
    BY <1>1, <1>2 DEF CountedRefs, IsCounted, MaxRefs
  <2>6. \A x \in RefUser \X (0 .. MaxRefs) :
          IsCounted(x)' <=> (IsCounted(x) /\ x # r) \/ x = q
    <3> SUFFICES ASSUME NEW u \in RefUser, NEW k \in 0 .. MaxRefs
                 PROVE  IsCounted(<<u, k>>)'
                        <=> (IsCounted(<<u, k>>) /\ <<u, k>> # r) \/ <<u, k>> = q
      OBVIOUS
    <3>1. CASE u # t
      BY <1>1, <1>2, <2>1, <3>1 DEF IsCounted, RefTyped
    <3>2. CASE u = t
      BY <1>1, <1>2, <1>3, <2>1, <3>2 DEF IsCounted, RefTyped, MaxRefs
    <3> QED BY <3>1, <3>2
  <2>7. CountedRefs' = (CountedRefs \ {r}) \cup {q}
    BY <2>5, <2>6 DEF CountedRefs
  <2>8. /\ IsFiniteSet(CountedRefs \ {r}) /\ q \notin CountedRefs \ {r}
        /\ Cardinality(CountedRefs \ {r}) = Cardinality(CountedRefs) - 1
    BY <2>5, CountedFinite, FS_RemoveElement
  <2>9. Cardinality(CountedRefs') = Cardinality(CountedRefs)
    <3>1. Cardinality(CountedRefs') = Cardinality(CountedRefs \ {r}) + 1
      BY <2>7, <2>8, FS_AddElement
    <3> QED BY <2>8, <3>1, CountedFinite
  <2> QED BY <1>1, <2>2, <2>3, <2>4, <2>9 DEF RefInv, InUse
<1> QED BY <1>4, <1>5

LEMMA SubStep ==
  ASSUME RefInv, NEW t \in RefUser, FetchSub(t)
  PROVE  RefInv'
<1> DEFINE place == IF WasLast THEN "invalidate" ELSE "out"
<1>1. /\ refPc[t] = "dec" /\ refPc' = [refPc EXCEPT ![t] = place]
      /\ m_refcount' = m_refcount - 1
      /\ UNCHANGED <<m_invalid, refs, zeroed, revived>>
  BY DEF FetchSub, RefGoto
<1>2. RefTyped
  BY DEF RefInv
<1>3. place \in {"invalidate", "out"}
  OBVIOUS
<1>4. WasLast <=> m_refcount' = 0
  BY <1>1, <1>2 DEF WasLast, RefTyped
<1>5. RefTyped'
  <2> HIDE DEF place
  <2> QED BY <1>1, <1>2, <1>3 DEF RefTyped
<1>6. ASSUME ~revived PROVE InUse' \/ Unused'
  <2>1. InUse
    BY <1>1, <1>6 DEF RefInv, Unused, Released, NobodyAt
  <2> DEFINE q == <<t, 0>>
  <2>2. q \in CountedRefs
    BY <1>1 DEF CountedRefs, IsCounted, MaxRefs
  <2>3. \A x \in RefUser \X (0 .. MaxRefs) :
          IsCounted(x)' <=> IsCounted(x) /\ x # q
    <3> SUFFICES ASSUME NEW u \in RefUser, NEW k \in 0 .. MaxRefs
                 PROVE  IsCounted(<<u, k>>)' <=> IsCounted(<<u, k>>) /\ <<u, k>> # q
      OBVIOUS
    <3> HIDE DEF place
    <3> QED BY <1>1, <1>2, <1>3 DEF IsCounted, RefTyped
  <2>4. CountedRefs' = CountedRefs \ {q}
    BY <2>2, <2>3 DEF CountedRefs
  <2>5. m_refcount' = Cardinality(CountedRefs')
    BY <1>1, <2>1, <2>2, <2>4, CountedFinite, FS_RemoveElement DEF InUse
  <2>6. NobodyAt("zero")'
    <3> HIDE DEF place
    <3> QED BY <1>1, <1>2, <1>3, <2>1 DEF InUse, NobodyAt, RefTyped
  <2>7. CASE WasLast
    <3>1. m_refcount' = 0 /\ place = "invalidate"
      BY <1>4, <2>7
    <3>2. IsFiniteSet(CountedRefs')
      BY <2>4, CountedFinite, FS_RemoveElement, <2>2
    <3>3. CountedRefs' = {}
      BY <2>5, <3>1, <3>2, FS_EmptySet
    <3>4. \A u \in RefUser : refPc'[u] # "dec" /\ refs'[u] = 0
      <4>1. SUFFICES ASSUME NEW u \in RefUser, refPc'[u] = "dec" \/ refs'[u] # 0
                     PROVE  FALSE
        BY <1>5 DEF RefTyped
      <4>2. CASE refPc'[u] = "dec"
        <5>1. <<u, 0>> \in CountedRefs'
          BY <4>2 DEF CountedRefs, IsCounted, MaxRefs
        <5> QED BY <3>3, <5>1
      <4>3. CASE refs'[u] # 0
        <5>1. refs'[u] \in 0 .. MaxRefs
          BY <1>5 DEF RefTyped
        <5>2. <<u, refs'[u]>> \in CountedRefs'
          BY <4>3, <5>1 DEF CountedRefs, IsCounted
        <5> QED BY <3>3, <5>2
      <4> QED BY <4>1, <4>2, <4>3
    <3>5. OneAt("invalidate")'
      <4>1. \A u \in RefUser : refPc'[u] = "invalidate" <=> u = t
        BY <1>1, <1>2, <2>1, <3>1 DEF InUse, NobodyAt, RefTyped
      <4> QED BY <4>1 DEF OneAt
    <3> QED
      BY <1>1, <2>1, <2>6, <3>1, <3>4, <3>5 DEF InUse, Unused, NobodyAt
  <2>8. CASE ~WasLast
    <3>1. NobodyAt("invalidate")'
      BY <1>1, <1>2, <2>1, <2>8 DEF InUse, NobodyAt, RefTyped
    <3> QED BY <1>1, <2>1, <2>5, <2>6, <3>1 DEF InUse
  <2> QED BY <2>7, <2>8
<1> QED BY <1>1, <1>5, <1>6 DEF RefInv

LEMMA InvalidateStep ==
  ASSUME RefInv, NEW t \in RefUser, Invalidate(t)
  PROVE  RefInv'
<1>1. /\ refPc[t] = "invalidate" /\ refPc' = [refPc EXCEPT ![t] = "zero"]
      /\ m_invalid' = TRUE
      /\ UNCHANGED <<m_refcount, refs, zeroed, revived>>
  BY DEF Invalidate, RefGoto
<1>2. RefTyped /\ RefTyped'
  BY <1>1 DEF RefInv, RefTyped
<1>3. ASSUME ~revived PROVE Released'
  <2>1. Unused
    BY <1>1, <1>3 DEF RefInv, InUse, Released, NobodyAt
  <2>2. \A u \in RefUser : refPc[u] = "invalidate" <=> u = t
    BY <1>1, <2>1 DEF Unused, OneAt
  <2>3. \A u \in RefUser : refPc'[u] = "zero" <=> u = t
    BY <1>1, <1>2, <2>1 DEF Unused, NobodyAt, RefTyped
  <2>4. OneAt("zero")'
    BY <2>3 DEF OneAt
  <2>5. NobodyAt("invalidate")' /\ NobodyAt("dec")'
    BY <1>1, <1>2, <2>1, <2>2 DEF Unused, NobodyAt, RefTyped
  <2> QED BY <1>1, <2>1, <2>4, <2>5 DEF Unused, Released
<1> QED BY <1>1, <1>2, <1>3 DEF RefInv

LEMMA ZeroStep ==
  ASSUME RefInv, NEW t \in RefUser, OnZeroReference(t)
  PROVE  RefInv'
<1>1. /\ refPc[t] = "zero" /\ refPc' = [refPc EXCEPT ![t] = "out"]
      /\ zeroed' = zeroed + 1
      /\ UNCHANGED <<m_refcount, m_invalid, refs, revived>>
  BY DEF OnZeroReference, RefGoto
<1>2. RefTyped /\ RefTyped'
  BY <1>1 DEF RefInv, RefTyped
<1>3. ASSUME ~revived PROVE Released'
  <2>1. Released /\ zeroed = 0 /\ OneAt("zero")
    BY <1>1, <1>3 DEF RefInv, InUse, Unused, Released, NobodyAt
  <2>2. \A u \in RefUser : refPc[u] = "zero" <=> u = t
    BY <1>1, <2>1 DEF OneAt
  <2>3. NobodyAt("zero")' /\ NobodyAt("invalidate")' /\ NobodyAt("dec")'
    BY <1>1, <1>2, <2>1, <2>2 DEF Released, NobodyAt, RefTyped
  <2> QED BY <1>1, <2>1, <2>3 DEF Released
<1> QED BY <1>1, <1>2, <1>3 DEF RefInv

LEMMA RefInvStep == ASSUME RefInv, [RefNext]_refVars PROVE RefInv'
<1>1. CASE UNCHANGED refVars
  <2>1. CountedRefs' = CountedRefs
    BY <1>1 DEF refVars, CountedRefs, IsCounted
  <2> QED
    BY <1>1, <2>1 DEF refVars, RefInv, RefTyped, InUse, Unused, Released,
                      NobodyAt, OneAt
<1> QED
  BY <1>1, IncrementStep, AddStep, DecrementStep, SubStep, InvalidateStep,
     ZeroStep DEF RefNext

(* An object is released once and with no reference counted, unless one    *)
(* was taken after the last decrement.                                     *)
THEOREM ReleasedOnce == RefSpec => []ReleasedUnused
<1>1. ASSUME RefInv PROVE ReleasedUnused
  <2> SUFFICES ASSUME ~revived,
                      zeroed > 0 \/ \E t \in RefUser : refPc[t] = "zero"
               PROVE  zeroed <= 1 /\ m_refcount = 0
    BY DEF ReleasedUnused
  <2>1. Released
    BY <1>1 DEF RefInv, InUse, Unused, NobodyAt
  <2> QED BY <2>1 DEF Released
<1> QED BY <1>1, RefInvInit, RefInvStep, PTL DEF RefSpec

-----------------------------------------------------------------------------
(* QuestInspector: for any quests.                                         *)

(* What the pointer points to is in the list of the type that is chosen.   *)
QuestInv ==
  /\ quest = NoQuest \/ quest \in items[questType]
  /\ work \in [Quest -> Part \cup {Done}] /\ flags \in [Quest -> BOOLEAN]

(* The buttons write to no quest but the chosen one, and the game only     *)
(* gets on.                                                                *)
WritesChosen ==
  \A q \in Quest :
    (work'[q] < work[q] \/ flags'[q] # flags[q] \/ q \in completed' \ completed)
      => q = quest /\ quest # NoQuest

LEMMA QuestInvInit == QuestInit => QuestInv
BY DEF QuestInit, QuestInv, Part

LEMMA QuestPressed ==
  ASSUME QuestInv, quest # NoQuest, UNCHANGED <<questType, quest, items>>,
         NEW value \in Part \cup {Done}, work' = [work EXCEPT ![quest] = value],
         flags' = flags, completed' \subseteq completed \cup {quest}
  PROVE  QuestInv' /\ WritesChosen
<1> DEFINE Value == Part \cup {Done}
<1>1. work \in [Quest -> Value] /\ flags \in [Quest -> BOOLEAN]
  BY DEF QuestInv
<1>2. value \in Value /\ Value \subseteq Nat
  BY DEF Part, Done
<1> HIDE DEF Value
<1>3. /\ work' \in [Quest -> Value]
      /\ \A q \in Quest : q # quest => work'[q] = work[q]
  BY <1>1, <1>2
<1>4. QuestInv'
  BY <1>1, <1>3 DEF QuestInv, Value
<1>5. ASSUME NEW q \in Quest, q # quest
      PROVE  ~(work'[q] < work[q] \/ flags'[q] # flags[q] \/ q \in completed' \ completed)
  <2>1. work[q] \in Nat /\ work'[q] = work[q]
    BY <1>1, <1>2, <1>3, <1>5
  <2>2. ~(work'[q] < work[q])
    BY <2>1
  <2>3. q \notin completed' \ completed
    BY <1>5
  <2> QED BY <2>2, <2>3
<1> QED BY <1>4, <1>5 DEF WritesChosen

LEMMA QuestStep ==
  ASSUME QuestInv, [QuestNext]_questVars
  PROVE  QuestInv' /\ WritesChosen
<1>1. ASSUME UNCHANGED <<items, GameSide>>,
             quest' = NoQuest \/ quest' \in items[questType']
      PROVE  QuestInv' /\ WritesChosen
  BY <1>1 DEF GameSide, QuestInv, WritesChosen, Part, Done
<1>2. CASE UNCHANGED questVars
  BY <1>1, <1>2 DEF questVars, GameSide, QuestInv
<1>3. ASSUME NEW k \in QUEST_TYPES, ChooseType(k) PROVE QuestInv' /\ WritesChosen
  BY <1>1, <1>3 DEF ChooseType, OnTypeChange, QuestInv
<1>4. ASSUME NEW q \in Quest, SelectQuest(q) PROVE QuestInv' /\ WritesChosen
  BY <1>1, <1>4 DEF SelectQuest
<1>5. CASE PressWithoutQuest
  BY <1>1, <1>5 DEF PressWithoutQuest, QuestInv
<1>6. CASE ResetProgress
  BY <1>6, QuestPressed DEF ResetProgress, SetWork, Part
<1>7. CASE Complete
  BY <1>7, QuestPressed DEF Complete
<1>8. ASSUME NEW p \in Part \ {0}, SetActive(p) PROVE QuestInv' /\ WritesChosen
  BY <1>8, QuestPressed DEF SetActive, SetWork
<1>9. ASSUME NEW p \in Part \ {0}, NEW q \in Quest, GameAdvances(q, p)
      PROVE  QuestInv' /\ WritesChosen
  BY <1>9 DEF GameAdvances, QuestInv, WritesChosen, Part, Done
<1>10. ASSUME NEW value \in BOOLEAN, QuestCondition(value)
       PROVE  QuestInv' /\ WritesChosen
  <2>1. /\ quest # NoQuest /\ flags' = [flags EXCEPT ![quest] = value]
        /\ UNCHANGED <<questType, quest, items, work, completed>>
    BY <1>10 DEF QuestCondition
  <2>2. work \in [Quest -> Part \cup {Done}] /\ flags \in [Quest -> BOOLEAN]
    BY DEF QuestInv
  <2>3. /\ flags' \in [Quest -> BOOLEAN]
        /\ \A q \in Quest : q # quest => flags'[q] = flags[q]
    BY <2>1, <2>2
  <2>4. QuestInv'
    BY <2>1, <2>3 DEF QuestInv
  <2>5. ASSUME NEW q \in Quest PROVE ~(work'[q] < work[q])
    BY <2>1, <2>2 DEF Part, Done
  <2> QED BY <2>1, <2>3, <2>4, <2>5 DEF WritesChosen
<1> QED
  BY <1>2, <1>3, <1>4, <1>5, <1>6, <1>7, <1>8, <1>9, <1>10 DEF QuestNext

(* The inspector sets back, completes and writes flags of no quest but one *)
(* of the list that it shows, whatever lists were shown before.            *)
THEOREM WritesOnlyShown == QuestSpec => OnlyShownWritten
<1>1. QuestInv /\ [QuestNext]_questVars => QuestInv'
  BY QuestStep
<1>2. QuestInv /\ [QuestNext]_questVars =>
        [\A q \in Quest :
           (work'[q] < work[q] \/ flags'[q] # flags[q] \/ q \in completed' \ completed)
             => q \in items[questType]]_questVars
  BY QuestStep DEF QuestInv, WritesChosen
<1> QED BY <1>1, <1>2, QuestInvInit, PTL DEF QuestSpec, OnlyShownWritten

-----------------------------------------------------------------------------
(* RomfsRedirect: for files of any size.                                   *)

(* The loader is where the buffer ends, and the buffer is of the file that *)
(* the size is of, as long as every file could be opened.                  *)
BufferIs(file) ==
  buffer = [file |-> file, first |-> buffer.first, last |-> loader.position]
NotRead == buffer = Nothing /\ loader.position = 0
RomfsTyped ==
  /\ replaced \in BOOLEAN /\ refused \in BOOLEAN /\ ownAt \in Nat
  /\ loader \in [mode : {0, 2, 3}, size : Nat, position : Nat]
RomfsInv ==
  /\ RomfsTyped
  /\ loader = Closed => buffer = Nothing /\ ~refused
  /\ loader # Closed => loader.size = SizeTold
  /\ loader # Closed /\ Redirects /\ ~refused => NotRead \/ BufferIs("mod")
  /\ loader # Closed /\ ~replaced =>
       ownAt = loader.position /\ (NotRead \/ BufferIs("own"))

LEMMA RomfsInvInit == RomfsInit => RomfsInv
<1> SUFFICES ASSUME RomfsInit PROVE RomfsInv
  OBVIOUS
<1>1. refused \in BOOLEAN BY DEF RomfsInit
<1> QED BY <1>1 DEF RomfsInit, RomfsInv, RomfsTyped, Closed

LEMMA OpenStep == ASSUME RomfsInv, FlatBufferOpenHook PROVE RomfsInv'
<1>1. PICK mode \in {2, 3} :
        loader' = [mode |-> mode, size |-> SizeTold, position |-> 0]
  BY DEF FlatBufferOpenHook
<1>2. /\ ownAt' = 0 /\ replaced' = replaced /\ readModes' = readModes
      /\ buffer' = buffer /\ refused' = refused
      /\ buffer = Nothing /\ ~refused
  BY DEF FlatBufferOpenHook, RomfsInv
<1>3. SizeTold \in Nat /\ SizeTold' = SizeTold
  BY <1>2, RomfsAssumption DEF SizeTold, RomfsInv, RomfsTyped
<1>4. RomfsTyped'
  BY <1>1, <1>2, <1>3 DEF RomfsInv, RomfsTyped
<1>5. loader' # Closed /\ loader'.size = SizeTold' /\ loader'.position = 0
  BY <1>1, <1>3 DEF Closed
<1>6. NotRead' /\ ownAt' = loader'.position
  BY <1>2, <1>5 DEF NotRead
<1> QED BY <1>4, <1>5, <1>6 DEF RomfsInv

LEMMA ReadStep ==
  ASSUME RomfsInv, NEW n \in 1 .. loader.size, FlatBufferReadHook(n)
  PROVE  RomfsInv'
<1>1. /\ loader # Closed /\ replaced' = replaced /\ readModes' = readModes
      /\ SizeTold' = SizeTold /\ loader.size = SizeTold
  BY DEF FlatBufferReadHook, SizeTold, RomfsInv
<1>2. RomfsTyped /\ n \in Nat
  BY DEF RomfsInv, RomfsTyped
<1>3. CASE Redirects /\ ReadMod(n)
  <2> DEFINE to == Smaller(n, ModSize)
  <2>1. /\ buffer' = [file |-> "mod", first |-> 0, last |-> to]
        /\ loader' = [loader EXCEPT !.position = to]
        /\ ownAt' = ownAt /\ refused' = refused
    BY <1>3 DEF ReadMod
  <2>2. to \in Nat
    BY <1>2, RomfsAssumption DEF Smaller
  <2> HIDE DEF to
  <2>3. RomfsTyped'
    BY <1>1, <1>2, <2>1, <2>2 DEF RomfsTyped
  <2>4. /\ loader'.position = to /\ loader'.mode = loader.mode
        /\ loader'.size = loader.size
    BY <1>2, <2>1 DEF RomfsTyped
  <2>5. BufferIs("mod")'
    BY <2>1, <2>4 DEF BufferIs
  <2>6. replaced' /\ loader' # Closed
    <3>1. loader.mode # 0 \/ loader.size # 0
      BY <1>1, RomfsAssumption DEF SizeTold
    <3> QED BY <1>1, <1>3, <2>4, <3>1 DEF Redirects, Closed
  <2> QED BY <1>1, <2>3, <2>4, <2>5, <2>6 DEF RomfsInv
<1>4. CASE /\ ReadOwn(n)
           /\ (Redirects /\ refused' = TRUE) \/ (~Redirects /\ UNCHANGED refused)
  <2> DEFINE to == Smaller(ownAt + n, OwnSize)
  <2>1. /\ buffer' = [file |-> "own", first |-> ownAt, last |-> to]
        /\ loader' = [loader EXCEPT !.position = to]
        /\ ownAt' = to
    BY <1>4 DEF ReadOwn
  <2>2. to \in Nat
    BY <1>2, RomfsAssumption DEF Smaller, RomfsTyped
  <2> HIDE DEF to
  <2>3. refused' \in BOOLEAN
    BY <1>2, <1>4 DEF RomfsTyped
  <2>4. RomfsTyped'
    BY <1>1, <1>2, <2>1, <2>2, <2>3 DEF RomfsTyped
  <2>5. /\ loader'.position = to /\ loader'.mode = loader.mode
        /\ loader'.size = loader.size
    BY <1>2, <2>1 DEF RomfsTyped
  <2>6. BufferIs("own")' /\ ownAt' = loader'.position
    BY <2>1, <2>5 DEF BufferIs
  <2>7. loader' # Closed
    <3>1. loader.size # 0
      BY <1>1, RomfsAssumption DEF SizeTold
    <3> QED BY <2>5, <3>1 DEF Closed
  <2>8. Redirects' <=> Redirects
    BY <1>1, <2>5 DEF Redirects
  <2>9. ~(Redirects' /\ ~refused')
    BY <1>4, <2>8
  <2> QED BY <1>1, <2>4, <2>5, <2>6, <2>7, <2>9 DEF RomfsInv
<1> QED BY <1>3, <1>4 DEF FlatBufferReadHook

LEMMA RomfsInvStep == ASSUME RomfsInv, [RomfsNext]_romfsVars PROVE RomfsInv'
<1>1. CASE UNCHANGED romfsVars
  BY <1>1 DEF romfsVars, RomfsInv, RomfsTyped, SizeTold, Redirects, NotRead,
              BufferIs
<1>2. CASE CloseLoader
  <2>1. /\ loader' = Closed /\ buffer' = Nothing /\ ~refused'
        /\ refused' \in BOOLEAN
        /\ replaced' = replaced /\ ownAt' = ownAt
    BY <1>2 DEF CloseLoader
  <2> QED BY <2>1 DEF RomfsInv, RomfsTyped, Closed
<1> QED BY <1>1, <1>2, OpenStep, ReadStep DEF RomfsNext

(* A loader that reads in one piece what it was told has the whole of the  *)
(* file that it was told the size of, if no open of that file was refused  *)
(* and the loader's mode is one that Read replaces; Z-A's other mode is    *)
(* told the size of the mod's file and reads the game's.                   *)
THEOREM WholeFileIsRead == RomfsSpec => []ToldSizeIsRead
<1>1. ASSUME RomfsInv PROVE ToldSizeIsRead
  <2> SUFFICES ASSUME loader # Closed, InOnePiece, ~refused,
                      loader.mode \in readModes
               PROVE  buffer = [file  |-> IF replaced THEN "mod" ELSE "own",
                                first |-> 0,
                                last  |-> IF replaced THEN ModSize ELSE OwnSize]
    BY DEF ToldSizeIsRead
  <2>1. loader.position = SizeTold /\ buffer.first = 0
    BY <1>1 DEF InOnePiece, RomfsInv
  <2>2. ~NotRead
    BY <2>1, RomfsAssumption DEF NotRead, SizeTold
  <2>3. CASE replaced
    <3>1. BufferIs("mod")
      BY <1>1, <2>2, <2>3 DEF RomfsInv, Redirects
    <3> QED BY <2>1, <2>3, <3>1 DEF BufferIs, SizeTold
  <2>4. CASE ~replaced
    <3>1. BufferIs("own")
      BY <1>1, <2>2, <2>4 DEF RomfsInv
    <3> QED BY <2>1, <2>4, <3>1 DEF BufferIs, SizeTold
  <2> QED BY <2>3, <2>4
<1> QED BY <1>1, RomfsInvInit, RomfsInvStep, PTL DEF RomfsSpec

-----------------------------------------------------------------------------
(* EncounterEditor: the boxes and the data behind them are written         *)
(* together, and the data names a Pokemon that exists unless that was      *)
(* waived.                                                                 *)
ExistsOrWaived(d) == d.allowInvalidForms \/ CheckPokeExist(d.species, d.form)
BoxRecord == [forceShiny : BOOLEAN, forceAlpha : BOOLEAN, forceModify : BOOLEAN]
EncounterInv ==
  /\ s_dataForEncounter \in PokemonData /\ boxes \in BoxRecord
  /\ \A name \in {"forceShiny", "forceAlpha", "forceModify"} :
       s_dataForEncounter[name] = boxes[name]
  /\ ExistsOrWaived(s_dataForEncounter)

(* What an input makes of the data of the encounter editor.                *)
LEMMA EditsData ==
  ASSUME NEW d \in PokemonData, NEW extra \in BOOLEAN, NEW e \in Edits(d, extra)
  PROVE  /\ Existing(e) \in PokemonData /\ ExistsOrWaived(Existing(e))
         /\ Existing(e).forceModify = d.forceModify
         /\ ~extra => /\ Existing(e).forceShiny = d.forceShiny
                      /\ Existing(e).forceAlpha = d.forceAlpha
<1>1. /\ e \in PokemonData /\ e.forceModify = d.forceModify
      /\ ~extra => e.forceShiny = d.forceShiny /\ e.forceAlpha = d.forceAlpha
  <2>1. CASE e = [d EXCEPT !.allowInvalidForms = ~@]
    BY <2>1 DEF PokemonData
  <2>2. CASE \E s \in Species : e = [d EXCEPT !.species = s]
    BY <2>2 DEF PokemonData
  <2>3. CASE \E f \in Form : e = [d EXCEPT !.form = f]
    BY <2>3 DEF PokemonData
  <2>4. CASE \E l \in Level : e = [d EXCEPT !.level = l]
    BY <2>4 DEF PokemonData
  <2>5. CASE \E t \in Traits : e = [d EXCEPT !.traits = t]
    BY <2>5 DEF PokemonData
  <2>6. CASE extra /\ e = [d EXCEPT !.forceShiny = ~@]
    BY <2>6 DEF PokemonData
  <2>7. CASE extra /\ e = [d EXCEPT !.forceAlpha = ~@]
    BY <2>7 DEF PokemonData
  <2> QED BY <2>1, <2>2, <2>3, <2>4, <2>5, <2>6, <2>7 DEF Edits
<1>2. CASE ~e.allowInvalidForms /\ ~CheckPokeExist(e.species, e.form)
  <2>1. Existing(e) = [e EXCEPT !.form = 0]
    BY <1>2 DEF Existing
  <2> QED BY <1>1, <2>1 DEF PokemonData, Form, ExistsOrWaived, CheckPokeExist
<1>3. CASE e.allowInvalidForms \/ CheckPokeExist(e.species, e.form)
  <2>1. Existing(e) = e
    BY <1>3 DEF Existing
  <2> QED BY <1>1, <1>3, <2>1 DEF ExistsOrWaived
<1> QED BY <1>2, <1>3

LEMMA EncounterInvInit == EncounterInit => EncounterInv
BY DEF EncounterInit, EncounterInv, NewPokemonData, PokemonData, BoxRecord,
       ExistsOrWaived, CheckPokeExist, Species, Form, Level, Traits

LEMMA EncounterInvStep ==
  ASSUME EncounterInv, [EncounterNext]_encounterVars
  PROVE  EncounterInv'
<1>1. CASE UNCHANGED <<s_dataForEncounter, boxes>>
  BY <1>1 DEF EncounterInv, ExistsOrWaived
<1>2. ASSUME NEW name \in DOMAIN boxes, UseBox(name) PROVE EncounterInv'
  <2> DEFINE d == s_dataForEncounter
  <2>1. name \in {"forceShiny", "forceAlpha", "forceModify"}
    BY <1>2 DEF EncounterInv, BoxRecord
  <2>2. /\ boxes' = [boxes EXCEPT ![name] = ~@]
        /\ d' = [d EXCEPT ![name] = boxes'[name]]
    BY <1>2 DEF UseBox
  <2>3. boxes' \in BoxRecord /\ boxes'[name] \in BOOLEAN
    BY <2>1, <2>2 DEF EncounterInv, BoxRecord
  <2>4. d' \in PokemonData
    BY <2>1, <2>2, <2>3 DEF EncounterInv, PokemonData
  <2>5. /\ d'.allowInvalidForms = d.allowInvalidForms
        /\ d'.species = d.species /\ d'.form = d.form
    BY <2>1, <2>2 DEF EncounterInv, PokemonData
  <2>6. ASSUME NEW n \in {"forceShiny", "forceAlpha", "forceModify"}
        PROVE  d'[n] = boxes'[n]
    BY <2>1, <2>2, <2>6 DEF EncounterInv, PokemonData, BoxRecord
  <2> QED BY <2>3, <2>4, <2>5, <2>6 DEF EncounterInv, ExistsOrWaived
<1>3. CASE EditEncounter
  <2>1. PICK e \in Edits(s_dataForEncounter, FALSE) :
          s_dataForEncounter' = Existing(e)
    BY <1>3 DEF EditEncounter
  <2>2. boxes' = boxes
    BY <1>3 DEF EditEncounter
  <2>3. /\ Existing(e) \in PokemonData /\ ExistsOrWaived(Existing(e))
        /\ Existing(e).forceModify = s_dataForEncounter.forceModify
        /\ Existing(e).forceShiny = s_dataForEncounter.forceShiny
        /\ Existing(e).forceAlpha = s_dataForEncounter.forceAlpha
    BY EditsData DEF EncounterInv
  <2> QED BY <2>1, <2>2, <2>3 DEF EncounterInv
<1> QED
  BY <1>1, <1>2, <1>3 DEF EncounterNext, ChangeEncounterHook, encounterVars

(* A Pokemon that is made while "Force modify encounter" is on has what    *)
(* was edited; each is shiny when that was asked for, and one of which     *)
(* nothing else was asked is otherwise the game's.                         *)
THEOREM MadeAsEdited == EncounterSpec => ModifiedAsEdited
<1>1. ASSUME EncounterInv, [EncounterNext]_encounterVars
      PROVE  [encounter' # encounter =>
                /\ boxes.forceModify => IsAsEdited(encounter', s_dataForEncounter)
                /\ boxes.forceShiny => encounter'.rare
                /\ ~boxes.forceModify /\ ~boxes.forceAlpha => LeftAlone(encounter')
             ]_encounterVars
  <2> SUFFICES ASSUME encounter' # encounter
               PROVE  /\ boxes.forceModify => IsAsEdited(encounter', s_dataForEncounter)
                      /\ boxes.forceShiny => encounter'.rare
                      /\ ~boxes.forceModify /\ ~boxes.forceAlpha
                           => LeftAlone(encounter')
    OBVIOUS
  <2> DEFINE d == s_dataForEncounter
  <2>1. PICK species \in Species, rare \in BOOLEAN :
          encounter' = Changed(Wild(species, rare), d)
    BY <1>1 DEF EncounterNext, ChangeEncounterHook, UseBox, EditEncounter,
                encounterVars
  <2>2. /\ d \in PokemonData /\ d.forceModify = boxes.forceModify
        /\ d.forceAlpha = boxes.forceAlpha /\ d.forceShiny = boxes.forceShiny
        /\ ExistsOrWaived(d) /\ d.forceAlpha \in BOOLEAN
    BY <1>1 DEF EncounterInv, PokemonData
  <2> DEFINE s == ForcedAlpha(ForcedShiny(Wild(species, rare), d), d)
  <2>3. /\ s.oybn = d.forceAlpha /\ s = [s EXCEPT !.form = s.form]
        /\ {"species", "form", "level", "traits", "oybn", "rare"} \subseteq DOMAIN s
        /\ d.forceShiny => s.rare
        /\ ~d.forceAlpha => s = Wild(species, s.rare)
    BY <2>2 DEF ForcedAlpha, ForcedShiny, Wild
  <2> HIDE DEF s
  <2>4. CASE ~d.forceModify
    <3>1. encounter' = s
      BY <2>1, <2>4 DEF Changed, Modified, s
    <3> QED BY <2>2, <2>3, <2>4, <3>1 DEF LeftAlone
  <2>5. CASE d.forceModify
    <3>1. encounter' = [s EXCEPT !.species = d.species, !.form = d.form,
                                 !.level = d.level, !.traits = d.traits]
      BY <2>1, <2>5 DEF Changed, Modified, s
    <3>2. /\ encounter'.species = d.species /\ encounter'.form = d.form
          /\ encounter'.level = d.level /\ encounter'.traits = d.traits
          /\ encounter'.oybn = s.oybn /\ encounter'.rare = s.rare
      BY <2>3, <3>1
    <3> QED BY <2>2, <2>3, <2>5, <3>2 DEF IsAsEdited, ExistsOrWaived
  <2> QED BY <2>4, <2>5
<1> QED
  BY <1>1, EncounterInvInit, EncounterInvStep, PTL DEF EncounterSpec,
     ModifiedAsEdited

-----------------------------------------------------------------------------
(* BattleSettings: what the elements show is what the hooks read.          *)
Settings ==
  [isMustCapture : BOOLEAN, isExpShareOn : BOOLEAN, expMultiplier : Typed,
   expMultiplierInvert : BOOLEAN, alwaysMaxEnergy : BOOLEAN]
BattleInv ==
  /\ menu = settings /\ settings \in Settings
  /\ DOMAIN battle = {"captured", "exp", "fought", "energy"}

LEMMA BattleInvInit == BattleInit => BattleInv
BY DEF BattleInit, BattleInv, Settings, MenuDefaults, Defaults, Typed

LEMMA BattleInvStep ==
  ASSUME BattleInv, [BattleNext]_battleVars
  PROVE  BattleInv'
<1>1. ASSUME NEW name \in DOMAIN Defaults \ {"expMultiplier"}, NEW value \in BOOLEAN,
             UseElement(name, value)
      PROVE  BattleInv'
  <2>1. name \in {"isMustCapture", "isExpShareOn", "expMultiplierInvert",
                  "alwaysMaxEnergy"}
    BY DEF Defaults
  <2>2. [settings EXCEPT ![name] = value] \in Settings
    BY <2>1 DEF BattleInv, Settings
  <2> QED BY <1>1, <2>2 DEF BattleInv, UseElement
<1>2. ASSUME NEW value \in Typed, UseElement("expMultiplier", value)
      PROVE  BattleInv'
  <2>1. [settings EXCEPT !["expMultiplier"] = value] \in Settings
    BY DEF BattleInv, Settings
  <2> QED BY <1>2, <2>1 DEF BattleInv, UseElement
<1>3. ASSUME UNCHANGED <<menu, settings>>, DOMAIN battle' = DOMAIN battle
      PROVE  BattleInv'
  BY <1>3 DEF BattleInv
<1>4. ASSUME NEW steps \in {1, 4, -1, -4}, MedalButton(steps) PROVE BattleInv'
  BY <1>3, <1>4 DEF MedalButton
<1>5. ASSUME NEW yes \in BOOLEAN, CaptureHook(yes) \/ ExpCalcHook(yes)
      PROVE  BattleInv'
  BY <1>3, <1>5 DEF CaptureHook, ExpCalcHook
<1>6. CASE MegaEnergySetHook
  BY <1>3, <1>6 DEF MegaEnergySetHook
<1>7. CASE UNCHANGED battleVars
  BY <1>3, <1>7 DEF battleVars
<1> QED
  BY <1>1, <1>2, <1>4, <1>5, <1>6, <1>7 DEF BattleNext

(* A battle goes as the menu shows it at that time.                        *)
THEOREM BattlesGoAsShown == BattleSpec => PlayedAsShown
<1>1. ASSUME BattleInv, [BattleNext]_battleVars
      PROVE  [battle' # battle => GoesAsShown]_battleVars
  <2> SUFFICES ASSUME battle' # battle PROVE GoesAsShown
    OBVIOUS
  <2>1. ASSUME NEW judged \in BOOLEAN, CaptureHook(judged) PROVE GoesAsShown
    <3>1. /\ battle' = [battle EXCEPT !.captured = judged \/ settings.isMustCapture]
          /\ menu = settings /\ DOMAIN battle = {"captured", "exp", "fought", "energy"}
      BY <1>1, <2>1 DEF CaptureHook, BattleInv
    <3>2. /\ battle'.captured = (judged \/ menu.isMustCapture)
          /\ battle'.exp = battle.exp /\ battle'.fought = battle.fought
          /\ battle'.energy = battle.energy
      BY <3>1
    <3> QED BY <3>2 DEF GoesAsShown
  <2>2. ASSUME NEW didFight \in BOOLEAN, ExpCalcHook(didFight) PROVE GoesAsShown
    <3> DEFINE given == ExpGiven(BaseExp, didFight)
    <3>1. /\ battle' = [battle EXCEPT !.exp = given, !.fought = didFight]
          /\ menu = settings /\ DOMAIN battle = {"captured", "exp", "fought", "energy"}
      BY <1>1, <2>2 DEF ExpCalcHook, BattleInv
    <3>2. /\ battle'.captured = battle.captured /\ battle'.energy = battle.energy
          /\ battle'.exp = given /\ battle'.fought = didFight
      <4> HIDE DEF given
      <4> QED BY <3>1
    <3>3. menu.isExpShareOn /\ menu.expMultiplier = 1 => given = BaseExp
      BY <3>1 DEF ExpGiven, Multiplied, Quotient, BaseExp
    <3>4. ~menu.isExpShareOn /\ ~didFight => given = 0
      BY <3>1 DEF ExpGiven
    <3> HIDE DEF given
    <3> QED BY <3>2, <3>3, <3>4 DEF GoesAsShown
  <2>3. CASE MegaEnergySetHook
    <3> DEFINE given == IF settings.alwaysMaxEnergy THEN MaxEnergy ELSE BaseEnergy
    <3>1. /\ battle' = [battle EXCEPT !.energy = given]
          /\ menu = settings /\ DOMAIN battle = {"captured", "exp", "fought", "energy"}
      BY <1>1, <2>3 DEF MegaEnergySetHook, BattleInv
    <3>2. /\ battle'.captured = battle.captured /\ battle'.exp = battle.exp
          /\ battle'.fought = battle.fought /\ battle'.energy = given
      <4> HIDE DEF given
      <4> QED BY <3>1
    <3>3. menu.alwaysMaxEnergy => given = MaxEnergy
      BY <3>1
    <3> HIDE DEF given
    <3> QED BY <3>2, <3>3 DEF GoesAsShown
  <2> QED
    BY <1>1, <2>1, <2>2, <2>3 DEF BattleNext, UseElement, MedalButton, battleVars
<1> QED
  BY <1>1, BattleInvInit, BattleInvStep, PTL DEF BattleSpec, PlayedAsShown

-----------------------------------------------------------------------------
(* HeapPanel: an entry of the table holds what was shown at its place.     *)
PanelInv ==
  /\ heaps \in Seq(Size \cup {NoHeap})
  /\ DOMAIN heapInfo = 0 .. HEAPMETA_MAX - 1
  /\ \A j \in DOMAIN heapInfo :
       HasEntry(j) /\ j + 1 \in DOMAIN lastHeaps /\ lastHeaps[j + 1] # NoHeap
       => heapInfo[j] = lastHeaps[j + 1]

LEMMA PanelInvInit == PanelInit => PanelInv
BY DEF PanelInit, PanelInv

LEMMA DrawStep ==
  ASSUME PanelInv, DrawHeaps
  PROVE  /\ \A j \in DOMAIN heapInfo' :
              /\ HasEntry(j) /\ j + 1 \in DOMAIN lastHeaps' /\ lastHeaps'[j + 1] # NoHeap
              => heapInfo'[j] = lastHeaps'[j + 1]
         /\ \A c \in changes' : ShowsChange(c)
<1>1. /\ lastHeaps' = <<globalHeap>> \o heaps
      /\ DOMAIN heapInfo' = DOMAIN heapInfo
      /\ \A j \in DOMAIN heapInfo :
           j \in Drawn => heapInfo'[j] = (<<globalHeap>> \o heaps)[j + 1]
  BY DEF DrawHeaps, Counted, Remembered
<1>2. Len(heaps) \in Nat /\ Len(<<globalHeap>> \o heaps) = Len(heaps) + 1
  BY DEF PanelInv
<1>3. ASSUME NEW j \in DOMAIN heapInfo', HasEntry(j), j + 1 \in DOMAIN lastHeaps',
             lastHeaps'[j + 1] # NoHeap
      PROVE  heapInfo'[j] = lastHeaps'[j + 1]
  <2>1. j + 1 \in 1 .. Len(heaps) + 1
    BY <1>1, <1>2, <1>3
  <2>2. j \in Int
    BY <1>1, <1>3 DEF PanelInv
  <2>3. j \in 0 .. Len(heaps)
    BY <1>2, <2>1, <2>2
  <2> QED BY <1>1, <1>3, <2>3 DEF Drawn, Counted
<1>4. ASSUME NEW c \in changes' PROVE ShowsChange(c)
  <2>1. PICK j \in Drawn :
          c = [at |-> j, size |-> Counted[j + 1],
               change |-> Counted[j + 1] - (IF Entry(j) THEN heapInfo[j] ELSE 0)]
    BY <1>4 DEF DrawHeaps
  <2>2. HasEntry(j)
    BY DEF Drawn
  <2> SUFFICES ASSUME j \in DOMAIN heapInfo, j + 1 \in DOMAIN lastHeaps,
                      lastHeaps[j + 1] # NoHeap
               PROVE  c.change = c.size - lastHeaps[j + 1]
    BY <2>1 DEF ShowsChange
  <2>3. heapInfo[j] = lastHeaps[j + 1]
    BY <2>2 DEF PanelInv
  <2> QED BY <2>1, <2>3 DEF Entry
<1> QED BY <1>3, <1>4

LEMMA PanelInvStep ==
  ASSUME PanelInv, [PanelNext]_panelVars
  PROVE  PanelInv'
<1>1. ASSUME UNCHANGED <<heapInfo, lastHeaps>>, heaps' \in Seq(Size \cup {NoHeap})
      PROVE  PanelInv'
  BY <1>1 DEF PanelInv
<1>2. heaps \in Seq(Size \cup {NoHeap})
  BY DEF PanelInv
<1>3. ASSUME NEW size \in Size \cup {NoHeap}, CreateHeap(size) PROVE PanelInv'
  BY <1>1, <1>2, <1>3 DEF CreateHeap
<1>4. ASSUME NEW size \in Size, UseGlobalHeap(size) PROVE PanelInv'
  BY <1>1, <1>2, <1>4 DEF UseGlobalHeap
<1>5. ASSUME NEW i \in 1 .. MaxHeaps, DestroyHeap(i) PROVE PanelInv'
  <2>1. heaps' = SubSeq(heaps, 1, i - 1) \o SubSeq(heaps, i + 1, Len(heaps))
    BY <1>5 DEF DestroyHeap, RemoveAt
  <2>2. i \in 1 .. Len(heaps)
    BY <1>5 DEF DestroyHeap
  <2>3. /\ SubSeq(heaps, 1, i - 1) \in Seq(Size \cup {NoHeap})
        /\ SubSeq(heaps, i + 1, Len(heaps)) \in Seq(Size \cup {NoHeap})
    BY <1>2, <2>2
  <2>4. heaps' \in Seq(Size \cup {NoHeap})
    BY <2>1, <2>3
  <2> QED BY <1>1, <1>5, <2>4 DEF DestroyHeap
<1>6. ASSUME NEW i \in 1 .. MaxHeaps, NEW size \in Size, UseHeap(i, size)
      PROVE  PanelInv'
  BY <1>1, <1>2, <1>6 DEF UseHeap
<1>7. ASSUME NEW t \in FrameTime, DrawPerformance(t) PROVE PanelInv'
  <2>1. DrawHeaps /\ heaps' = heaps
    BY <1>7 DEF DrawPerformance
  <2>2. DOMAIN heapInfo' = 0 .. HEAPMETA_MAX - 1
    BY <2>1 DEF DrawHeaps, PanelInv
  <2>3. \A j \in DOMAIN heapInfo' :
          /\ HasEntry(j) /\ j + 1 \in DOMAIN lastHeaps' /\ lastHeaps'[j + 1] # NoHeap
          => heapInfo'[j] = lastHeaps'[j + 1]
    BY <2>1, DrawStep
  <2> QED BY <1>2, <2>1, <2>2, <2>3 DEF PanelInv
<1>8. CASE UNCHANGED panelVars
  BY <1>1, <1>2, <1>8 DEF panelVars
<1> QED
  BY <1>3, <1>4, <1>5, <1>6, <1>7, <1>8 DEF PanelNext

(* The change shown at a place of the list is that since what was shown    *)
(* last at that place: that of the same heap as long as none came or went  *)
(* before it.                                                              *)
THEOREM ChangesAreShown == PanelSpec => ChangeSinceLastFrame
<1>1. ASSUME PanelInv, [PanelNext]_panelVars
      PROVE  [lastHeaps' # lastHeaps \/ changes' # changes =>
                \A c \in changes' : ShowsChange(c)]_panelVars
  <2>1. CASE UNCHANGED <<lastHeaps, changes>>
    BY <2>1
  <2>2. CASE DrawHeaps
    BY <1>1, <2>2, DrawStep
  <2> QED
    BY <1>1, <2>1, <2>2 DEF PanelNext, CreateHeap, UseGlobalHeap, DestroyHeap,
       UseHeap, DrawPerformance, panelVars
<1> QED
  BY <1>1, PanelInvInit, PanelInvStep, PTL DEF PanelSpec, ChangeSinceLastFrame

-----------------------------------------------------------------------------
(* PartyEditor: what the frame has done so far.                            *)
Member == Pokemon \cup {Empty}
InFrame == partyPc \in {"loaded", "editing"}
Decoded(p) == [p EXCEPT !.fast = TRUE]

(* Outside of an inspection only the Pokemon of the frame is decoded; it   *)
(* is the one from before unless the game or a fix changed it; and the     *)
(* copy is of it until an input is used.                                   *)
CopyIs(d, p) ==
  /\ d.species = p.species /\ d.form = p.form /\ d.level = p.level
  /\ d.traits = p.traits /\ d.forceShiny = p.rare /\ d.forceAlpha = p.isOybn
PartyTyped ==
  /\ party \in [Slot -> Member] /\ partyIdx \in Slot
  /\ before \in Member /\ s_partyData \in PokemonData
  /\ raced \in BOOLEAN /\ isFixPressed \in BOOLEAN /\ edited \in BOOLEAN
OthersEncoded ==
  partyPc # "inspecting" =>
    \A i \in Slot : party[i].fast => InFrame /\ i = partyIdx
IsAsBefore ==
  InFrame => /\ before \in Pokemon /\ ~before.fast /\ party[partyIdx] \in Pokemon
             /\ ~raced /\ ~isFixPressed => party[partyIdx] = Decoded(before)
CopyIsOfBefore ==
  (\/ partyPc = "loaded"
   \/ /\ partyPc = "editing" /\ ~edited
      /\ CheckPokeExist(before.species, before.form))
  => CopyIs(s_partyData, before) /\ oldLevel = before.level
PartyInv == PartyTyped /\ OthersEncoded /\ IsAsBefore /\ CopyIsOfBefore

LEMMA MembersTyped ==
  /\ Empty \notin Pokemon /\ ~Empty.fast /\ Empty = [Empty EXCEPT !.fast = FALSE]
  /\ \A p \in Pokemon, b \in BOOLEAN : [p EXCEPT !.fast = b] \in Pokemon
  /\ \A p \in Pokemon, b \in BOOLEAN : [p EXCEPT !.fast = b].fast = b
<1>1. Empty \notin Pokemon
  <2>1. Empty.species = 0
    BY DEF Empty, OwnPokemon
  <2> QED BY <2>1 DEF Pokemon, Species
<1>2. ~Empty.fast
  BY DEF Empty, OwnPokemon
<1>3. Empty = [Empty EXCEPT !.fast = FALSE]
  <2>1. /\ Empty \in [species : {0}, form : {0}, level : {1}, exp : {0},
                     traits : Traits, rare : BOOLEAN, isOybn : BOOLEAN,
                     badEgg : BOOLEAN, fast : BOOLEAN]
        /\ Empty.fast = FALSE
    BY DEF Empty, OwnPokemon, Traits
  <2> QED BY <2>1
<1>4. ASSUME NEW p \in Pokemon, NEW b \in BOOLEAN
      PROVE  [p EXCEPT !.fast = b] \in Pokemon /\ [p EXCEPT !.fast = b].fast = b
  BY DEF Pokemon
<1> QED BY <1>1, <1>2, <1>3, <1>4

LEMMA PartyInvInit == PartyInit => PartyInv
<1> SUFFICES ASSUME PartyInit PROVE PartyInv
  OBVIOUS
<1>1. Empty \in Member /\ ~Empty.fast
  BY MembersTyped DEF Member
<1>2. \A s \in Species, e \in BOOLEAN :
        OwnPokemon(s, e) \in Member /\ ~OwnPokemon(s, e).fast
  BY DEF OwnPokemon, Member, Pokemon, Form, Level, Exp, Traits
<1>3. party \in [Slot -> Member] /\ \A i \in Slot : ~party[i].fast
  BY <1>1, <1>2 DEF PartyInit
<1>4. s_partyData \in PokemonData
  BY DEF PartyInit, NewPokemonData, PokemonData, Species, Form, Level, Traits
<1>5. raced \in BOOLEAN /\ isFixPressed \in BOOLEAN /\ edited \in BOOLEAN
  BY DEF PartyInit
<1>6. PartyTyped
  BY <1>1, <1>3, <1>4, <1>5 DEF PartyTyped, PartyInit, Slot
<1>7. ~InFrame
  BY DEF InFrame, PartyInit
<1> QED
  BY <1>3, <1>6, <1>7 DEF PartyInv, OthersEncoded, IsAsBefore, CopyIsOfBefore,
                          InFrame

(* Between frames only what is decoded matters.                            *)
LEMMA OutOfFrame ==
  ASSUME PartyTyped', ~InFrame',
         partyPc' # "inspecting" => \A i \in Slot : ~party'[i].fast
  PROVE  PartyInv'
BY DEF PartyInv, OthersEncoded, IsAsBefore, CopyIsOfBefore, InFrame

LEMMA InspectStep ==
  ASSUME PartyInv, NEW i \in Slot, Inspect(i)
  PROVE  PartyInv'
<1>1. party'  \in [Slot -> Member]
  <2>1. party \in [Slot -> Member] BY DEF PartyInv, PartyTyped
  <2>2. CASE party[i] = Empty
    BY <2>1, <2>2 DEF Inspect
  <2>3. CASE party[i] # Empty
    <3>1. party' = [party EXCEPT ![i] = [party[i] EXCEPT !.fast = TRUE]]
      BY <2>3 DEF Inspect
    <3>2. [party[i] EXCEPT !.fast = TRUE] \in Member
      BY <2>1, <2>3, MembersTyped DEF Member
    <3> QED BY <2>1, <3>1, <3>2
  <2> QED BY <2>2, <2>3
<1>2. PartyTyped'
  BY <1>1 DEF Inspect, Inputs, Frame, PartyInv, PartyTyped
<1> QED BY <1>2, OutOfFrame DEF Inspect, InFrame

LEMMA EndInspectStep ==
  ASSUME PartyInv, EndInspect
  PROVE  PartyInv'
<1>1. \A i \in Slot : party[i] \in Member
  BY DEF PartyInv, PartyTyped
<1>2. party' = [i \in Slot |-> [party[i] EXCEPT !.fast = FALSE]]
  BY DEF EndInspect
<1>3. \A i \in Slot :
        /\ [party[i] EXCEPT !.fast = FALSE] \in Member
        /\ ~[party[i] EXCEPT !.fast = FALSE].fast
  BY <1>1, MembersTyped DEF Member
<1>4. PartyTyped'
  BY <1>2, <1>3 DEF EndInspect, Inputs, Frame, PartyInv, PartyTyped
<1> QED BY <1>2, <1>3, <1>4, OutOfFrame DEF EndInspect, InFrame

LEMMA LoadStep ==
  ASSUME PartyInv, NEW fix \in BOOLEAN, Load(fix)
  PROVE  PartyInv'
<1> DEFINE p == party[partyIdx]
           d == s_partyData
           q == [p EXCEPT !.fast = TRUE, !.badEgg = @ /\ ~fix]
<1>1. /\ partyPc = "ready" /\ p # Empty /\ before' = p /\ isFixPressed' = fix
      /\ party' = [party EXCEPT ![partyIdx] = q]
      /\ d' = [d EXCEPT !.species = p.species, !.form = p.form,
                        !.level = p.level, !.traits = p.traits,
                        !.forceShiny = p.rare, !.forceAlpha = p.isOybn]
      /\ oldLevel' = p.level /\ partyPc' = "loaded"
      /\ edited' = FALSE /\ raced' = FALSE /\ partyIdx' = partyIdx
  BY DEF Load, Inputs
<1>2. p \in Pokemon /\ ~p.fast /\ partyIdx \in Slot
  BY <1>1 DEF PartyInv, PartyTyped, Member, OthersEncoded, InFrame
<1>3. q \in Pokemon
  BY <1>2 DEF Pokemon
<1>4. ~fix => q = Decoded(p)
  BY <1>2 DEF Pokemon, Decoded
<1>5. d' \in PokemonData /\ CopyIs(d', p)
  <2>1. d \in PokemonData
    BY DEF PartyInv, PartyTyped
  <2> QED BY <1>1, <1>2, <2>1 DEF PokemonData, Pokemon, CopyIs
<1> HIDE DEF p, d, q
<1>6. /\ party' \in [Slot -> Member] /\ party'[partyIdx] = q
      /\ \A i \in Slot \ {partyIdx} : party'[i] = party[i]
  BY <1>1, <1>2, <1>3 DEF PartyInv, PartyTyped, Member
<1>7. PartyTyped'
  <2>1. edited' \in BOOLEAN /\ raced' \in BOOLEAN
    BY <1>1
  <2> QED BY <1>1, <1>2, <1>5, <1>6, <2>1 DEF PartyTyped, Member, d
<1>8. OthersEncoded'
  BY <1>1, <1>6 DEF OthersEncoded, PartyInv, InFrame
<1>9. IsAsBefore'
  BY <1>1, <1>2, <1>3, <1>4, <1>6 DEF IsAsBefore, Decoded
<1>10. CopyIsOfBefore'
  BY <1>1, <1>5 DEF CopyIsOfBefore, d
<1> QED BY <1>7, <1>8, <1>9, <1>10 DEF PartyInv

LEMMA EditStep ==
  ASSUME PartyInv, NEW used \in BOOLEAN, Edit(used)
  PROVE  PartyInv'
<1> DEFINE d == s_partyData
<1>1. /\ partyPc = "loaded" /\ partyPc' = "editing" /\ edited' = used
      /\ UNCHANGED <<party, partyIdx, oldLevel, isFixPressed, before, raced>>
  BY DEF Edit, Inputs
<1>2. d \in PokemonData
  BY DEF PartyInv, PartyTyped
<1>3. d' \in PokemonData
  <2>1. CASE used
    <3>1. PICK e \in Edits(d, TRUE) : d' = Existing(e)
      BY <2>1 DEF Edit
    <3> QED BY <1>2, <3>1, EditsData
  <2>2. CASE ~used
    <3>1. d' = Existing(d)
      BY <2>2 DEF Edit
    <3>2. [d EXCEPT !.form = 0] \in PokemonData
      BY <1>2 DEF PokemonData, Form
    <3> QED BY <1>2, <3>1, <3>2 DEF Existing
  <2> QED BY <2>1, <2>2
<1>4. ASSUME ~used, CheckPokeExist(before.species, before.form)
      PROVE  CopyIs(d', before) /\ oldLevel = before.level
  <2>1. CopyIs(d, before) /\ oldLevel = before.level
    BY <1>1, <1>4 DEF PartyInv, CopyIsOfBefore, InFrame
  <2>2. d' = Existing(d)
    BY <1>4 DEF Edit
  <2>3. Existing(d) = d
    BY <1>4, <2>1 DEF Existing, CopyIs
  <2> QED BY <2>1, <2>2, <2>3
<1>5. PartyTyped'
  BY <1>1, <1>3 DEF PartyInv, PartyTyped
<1>6. OthersEncoded' /\ IsAsBefore'
  BY <1>1 DEF PartyInv, OthersEncoded, IsAsBefore, InFrame
<1>7. CopyIsOfBefore'
  BY <1>1, <1>4 DEF CopyIsOfBefore
<1> QED BY <1>5, <1>6, <1>7 DEF PartyInv

(* What is written back is a Pokemon, and the same one when the copy is.   *)
LEMMA WrittenTyped ==
  ASSUME NEW p \in Pokemon, NEW d \in PokemonData
  PROVE  /\ Reencoded(Written(p, d)) \in Pokemon
         /\ ~Reencoded(Written(p, d)).fast
<1>1. p.exp \in Exp /\ d.species \in {1, 2} /\ d.level \in {1, 2}
  BY DEF Pokemon, PokemonData, Species, Level
<1>2. ExpFor(p, d) \in Exp
  <2>1. GetMinExp(d.species, d.level) \in Exp
    <3>1. CASE d.level = 1
      BY <1>1, <3>1 DEF GetMinExp, Exp
    <3>2. CASE d.level = 2
      BY <1>1, <3>2 DEF GetMinExp, Exp
    <3> QED BY <1>1, <3>1, <3>2
  <2> QED BY <1>1, <2>1 DEF ExpFor
<1>3. Written(p, d) \in Pokemon
  BY <1>2 DEF Written, Pokemon, PokemonData
<1> QED BY <1>3, MembersTyped DEF Reencoded

LEMMA WrittenSame ==
  ASSUME NEW p \in Pokemon, NEW d \in PokemonData, ~p.fast,
         CopyIs(d, p), oldLevel = p.level
  PROVE  Reencoded(Written(Decoded(p), d)) = p
<1> DEFINE q == Decoded(p)
<1>1. /\ q \in Pokemon /\ q.exp = p.exp /\ q.badEgg = p.badEgg /\ q.fast = TRUE
  BY DEF Decoded, Pokemon
<1>2. ExpFor(q, d) = p.exp
  BY <1>1 DEF ExpFor, CopyIs
<1> HIDE DEF q
<1>3. Written(q, d) =
        [species |-> p.species, form |-> p.form, level |-> p.level,
         exp |-> p.exp, traits |-> p.traits, rare |-> p.rare,
         isOybn |-> p.isOybn, badEgg |-> p.badEgg, fast |-> TRUE]
  BY <1>1, <1>2 DEF Written, CopyIs
<1>4. Written(q, d) = q
  <2>1. q \in Pokemon /\ Written(q, d) \in Pokemon
    BY <1>1, <1>2, <1>3 DEF Pokemon
  <2>2. /\ q.species = p.species /\ q.form = p.form /\ q.level = p.level
        /\ q.traits = p.traits /\ q.rare = p.rare /\ q.isOybn = p.isOybn
    BY DEF q, Decoded, Pokemon
  <2> QED BY <1>1, <1>3, <2>1, <2>2 DEF Pokemon
<1>5. Reencoded(Decoded(p)) = p
  BY DEF Reencoded, Decoded, Pokemon
<1> QED BY <1>4, <1>5 DEF q

LEMMA EndFrameStep ==
  ASSUME PartyInv, Discard \/ WriteBack
  PROVE  /\ PartyInv'
         /\ OnlyLooked => party'[partyIdx] = before
<1> DEFINE p == party[partyIdx]
           q == IF enabled \/ isFixPressed
                  THEN Reencoded(Written(p, s_partyData)) ELSE Reencoded(p)
<1>1. /\ partyPc = "editing" /\ FrameDone
      /\ party' = [party EXCEPT ![partyIdx] = q]
  BY DEF Discard, WriteBack
<1>2. /\ p \in Pokemon /\ before \in Pokemon /\ ~before.fast
      /\ s_partyData \in PokemonData /\ partyIdx \in Slot
      /\ party \in [Slot -> Member]
      /\ ~raced /\ ~isFixPressed => p = Decoded(before)
  BY <1>1 DEF PartyInv, PartyTyped, IsAsBefore, InFrame
<1>3. q \in Pokemon /\ ~q.fast
  BY <1>2, WrittenTyped, MembersTyped DEF Reencoded
<1>4. ASSUME OnlyLooked PROVE q = before
  <2>1. p = Decoded(before) /\ ~isFixPressed
    BY <1>2, <1>4 DEF OnlyLooked
  <2>2. CASE enabled
    <3>1. CopyIs(s_partyData, before) /\ oldLevel = before.level
      BY <1>1, <1>4, <2>2 DEF OnlyLooked, PartyInv, CopyIsOfBefore
    <3> QED BY <1>2, <2>1, <2>2, <3>1, WrittenSame
  <2>3. CASE ~enabled
    <3>1. q = Reencoded(p)
      BY <2>1, <2>3
    <3>2. Reencoded(Decoded(before)) = before
      BY <1>2 DEF Reencoded, Decoded, Pokemon
    <3> QED BY <2>1, <3>1, <3>2
  <2> QED BY <2>2, <2>3
<1> HIDE DEF p, q
<1>5. /\ party' \in [Slot -> Member] /\ party'[partyIdx] = q
      /\ \A i \in Slot \ {partyIdx} : party'[i] = party[i]
  BY <1>1, <1>2, <1>3 DEF Member
<1>6. PartyTyped' /\ ~InFrame' /\ partyPc' = "idle"
  <2>1. isFixPressed' \in BOOLEAN /\ edited' \in BOOLEAN /\ raced' \in BOOLEAN
    BY <1>1 DEF FrameDone
  <2> QED
    BY <1>1, <1>2, <1>5, <2>1 DEF FrameDone, Inputs, PartyTyped, InFrame, Member
<1>7. \A i \in Slot : ~party'[i].fast
  BY <1>1, <1>2, <1>3, <1>5 DEF PartyInv, OthersEncoded
<1> QED BY <1>4, <1>5, <1>6, <1>7, OutOfFrame

LEMMA GrowStep ==
  ASSUME PartyInv, NEW i \in Slot, GrowUp(i)
  PROVE  PartyInv'
<1> DEFINE p == party[i]
           q == [p EXCEPT !.exp = @ + 1, !.level = LevelOf(p.species, p.exp + 1)]
<1>1. /\ p # Empty /\ p.exp < 2
      /\ raced' = (raced \/ (i = partyIdx /\ partyPc \in {"loaded", "editing"}))
      /\ UNCHANGED <<partyIdx, s_partyData, oldLevel, isFixPressed, partyPc,
                     edited, before>>
  BY DEF GrowUp, Inputs
<1>2. p \in Pokemon /\ party \in [Slot -> Member]
  BY <1>1 DEF PartyInv, PartyTyped, Member
<1>3. party' = [party EXCEPT ![i] = q]
  BY <1>2 DEF GrowUp
<1>4. q \in Pokemon /\ q.fast = p.fast
  <2>1. p.exp + 1 \in Exp /\ LevelOf(p.species, p.exp + 1) \in Level
    BY <1>1, <1>2 DEF Pokemon, Exp, Level, LevelOf
  <2> QED BY <1>2, <2>1 DEF Pokemon
<1> HIDE DEF p, q
<1>5. /\ party' \in [Slot -> Member] /\ party'[i] = q
      /\ \A j \in Slot \ {i} : party'[j] = party[j]
      /\ \A j \in Slot : party'[j].fast = party[j].fast
  BY <1>2, <1>3, <1>4 DEF Member, p
<1>6. PartyTyped'
  <2>1. raced' \in BOOLEAN
    BY <1>1
  <2> QED BY <1>1, <1>5, <2>1 DEF PartyInv, PartyTyped
<1>7. OthersEncoded'
  BY <1>1, <1>5 DEF PartyInv, OthersEncoded, InFrame
<1>8. IsAsBefore'
  BY <1>1, <1>4, <1>5 DEF PartyInv, PartyTyped, IsAsBefore, InFrame
<1>9. CopyIsOfBefore'
  BY <1>1 DEF PartyInv, CopyIsOfBefore
<1> QED BY <1>6, <1>7, <1>8, <1>9 DEF PartyInv

LEMMA PartyInvStep ==
  ASSUME PartyInv, [PartyNext]_partyVars
  PROVE  PartyInv'
<1>1. CASE ChooseSlot \/ ToggleEnabled \/ LoadNothing
  <2>1. PartyTyped'
    BY <1>1 DEF ChooseSlot, ToggleEnabled, LoadNothing, Inputs, Frame, PartyInv,
                PartyTyped
  <2>2. /\ ~InFrame' /\ partyPc' = "idle" /\ party' = party
        /\ partyPc \in {"idle", "ready"}
    BY <1>1 DEF ChooseSlot, ToggleEnabled, LoadNothing, InFrame
  <2> QED
    BY <2>1, <2>2, OutOfFrame DEF PartyInv, OthersEncoded, InFrame
<1>2. CASE UNCHANGED partyVars
  BY <1>2 DEF partyVars, PartyInv, PartyTyped, OthersEncoded, IsAsBefore,
              CopyIsOfBefore, InFrame
<1> QED
  BY <1>1, <1>2, InspectStep, EndInspectStep, LoadStep, EditStep, EndFrameStep,
     GrowStep DEF PartyNext

(* A frame in which the editor is only looked at leaves the Pokemon as it  *)
(* was, if the game did not write to it during the frame and, while        *)
(* editing is enabled, its form is one that exists.                        *)
THEOREM LookingIsHarmless == PartySpec => LookingChangesNothing
<1>1. ASSUME PartyInv
      PROVE  [(Discard \/ WriteBack) /\ OnlyLooked
                => party'[partyIdx] = before]_partyVars
  BY <1>1, EndFrameStep
<1> QED
  BY <1>1, PartyInvInit, PartyInvStep, PTL DEF PartySpec, LookingChangesNothing

-----------------------------------------------------------------------------
(* PollTally: the loop is right for any number of choices and votes.       *)

LEMMA InitLoop == TallyInit => LoopInv
  BY TallyAssumption DEF TallyInit, LoopInv, TallyTypeOK, PollChoices

LEMMA CountLoop == LoopInv /\ Count => LoopInv'
<1> SUFFICES ASSUME LoopInv, Count PROVE LoopInv'
  OBVIOUS
<1>1. item \in PollChoices /\ item' = item + 1 /\ votes' = votes /\ chosen' = chosen
  BY TallyAssumption DEF LoopInv, TallyTypeOK, PollChoices, Count
<1>2. votes[item] \in 0 .. MaxVotes
  BY <1>1 DEF LoopInv, TallyTypeOK
<1>3. chosen' = 0
  BY <1>1, TallyAssumption DEF LoopInv, TallyTypeOK, PollChoices
<1>4. 1 .. item' - 1 = (1 .. item - 1) \cup {item}
  BY <1>1 DEF PollChoices
<1>5. \A n \in 1 .. item - 1 : n \in PollChoices /\ votes[n] \in Int
                               /\ votes[n] <= maxValue
  BY <1>1, TallyAssumption DEF LoopInv, TallyTypeOK, PollChoices
<1>6. max = {n \in 1 .. item - 1 : votes[n] = maxValue} /\ maxValue \in Int
  BY TallyAssumption DEF LoopInv, TallyTypeOK
<1>7. CASE votes[item] > maxValue
  <2>1. max' = {item} /\ maxValue' = votes[item]
    BY <1>1, <1>2, <1>6, <1>7 DEF Count, Leads, Leaders
  <2>2. \A n \in 1 .. item' - 1 : votes'[n] <= maxValue'
    BY <1>1, <1>2, <1>4, <1>5, <1>6, <1>7, <2>1
  <2>3. max' = {n \in 1 .. item' - 1 : votes'[n] = maxValue'}
    BY <1>1, <1>2, <1>4, <1>5, <1>6, <1>7, <2>1
  <2> QED
    BY <1>1, <1>2, <1>3, <2>1, <2>2, <2>3, TallyAssumption
       DEF LoopInv, TallyTypeOK, PollChoices
<1>8. CASE votes[item] = maxValue
  <2>1. max' = max \cup {item} /\ maxValue' = maxValue
    BY <1>1, <1>2, <1>6, <1>8 DEF Count, Leads, Leaders
  <2>2. \A n \in 1 .. item' - 1 : votes'[n] <= maxValue'
    BY <1>1, <1>2, <1>4, <1>5, <1>6, <1>8, <2>1
  <2>3. max' = {n \in 1 .. item' - 1 : votes'[n] = maxValue'}
    BY <1>1, <1>2, <1>4, <1>5, <1>6, <1>8, <2>1
  <2> QED
    BY <1>1, <1>2, <1>3, <2>1, <2>2, <2>3, TallyAssumption
       DEF LoopInv, TallyTypeOK, PollChoices
<1>9. CASE votes[item] < maxValue
  <2>1. max' = max /\ maxValue' = maxValue
    BY <1>1, <1>2, <1>6, <1>9 DEF Count, Leads
  <2>2. \A n \in 1 .. item' - 1 : votes'[n] <= maxValue'
    BY <1>1, <1>2, <1>4, <1>5, <1>6, <1>9, <2>1
  <2>3. max' = {n \in 1 .. item' - 1 : votes'[n] = maxValue'}
    BY <1>1, <1>2, <1>4, <1>5, <1>6, <1>9, <2>1
  <2>4. item > 1
    BY <1>1, <1>2, <1>9, TallyAssumption DEF LoopInv, TallyTypeOK, PollChoices
  <2> QED
    BY <1>1, <1>2, <1>3, <2>1, <2>2, <2>3, <2>4, TallyAssumption
       DEF LoopInv, TallyTypeOK, PollChoices
<1> QED
  BY <1>2, <1>6, <1>7, <1>8, <1>9

LEMMA DrawLoop == LoopInv /\ Draw => LoopInv'
  BY TallyAssumption DEF LoopInv, TallyTypeOK, PollChoices, Draw

LEMMA LoopInvariant == TallySpec => []LoopInv
<1>1. LoopInv /\ [TallyNext]_tallyVars => LoopInv'
  <2>1. LoopInv /\ UNCHANGED tallyVars => LoopInv'
    BY DEF LoopInv, TallyTypeOK, tallyVars
  <2> QED
    BY <2>1, CountLoop, DrawLoop DEF TallyNext
<1> QED
  BY <1>1, InitLoop, PTL DEF TallySpec

(* When the loop ends max holds exactly the choices with the most votes.   *)
LEMMA AfterLoop ==
  ASSUME LoopInv, item = Options + 1
  PROVE  /\ max = {n \in PollChoices : \A m \in PollChoices : votes[m] <= votes[n]}
         /\ max # {}
<1>1. item - 1 = Options /\ item > 1 /\ maxValue \in Int
  BY TallyAssumption DEF LoopInv, TallyTypeOK
<1>2. /\ \A n \in PollChoices : votes[n] \in Int /\ votes[n] <= maxValue
      /\ max = {n \in PollChoices : votes[n] = maxValue}
      /\ max # {}
  BY <1>1, TallyAssumption DEF LoopInv, TallyTypeOK, PollChoices
<1>3. PICK k \in PollChoices : votes[k] = maxValue
  BY <1>2
<1> QED
  BY <1>1, <1>2, <1>3

(* Whichever way a tie is drawn, the effect that is launched has the most  *)
(* votes of the poll.                                                      *)
THEOREM MostVotesWin == TallySpec => []WinnerHasMost
<1>1. LoopInv => WinnerHasMost
  BY AfterLoop DEF WinnerHasMost, LoopInv
<1> QED
  BY <1>1, LoopInvariant, PTL

(* And every choice with the most votes may be it.                         *)
THEOREM TiesAreDrawn == TallySpec => []EveryLeaderCanWin
<1>1. LoopInv => EveryLeaderCanWin
  BY AfterLoop DEF EveryLeaderCanWin
<1> QED
  BY <1>1, LoopInvariant, PTL

-----------------------------------------------------------------------------
(* LuaEffects: how long the effects of the Lua scripts last, for any set   *)
(* of effects and any bound of the clock.                                  *)

(* A deadline is that of the last launch, or the effect is off; and then   *)
(* its last launch is over, for the listener looks at the clock before it  *)
(* ends the effect.                                                        *)
TimersTyped ==
  /\ tick \in Nat \ {0}
  /\ deadline \in [LuaEffect -> Nat]
  /\ listeners \in [LuaEffect -> Nat]
  /\ lasts \in [LuaEffect -> Nat]
TimerInv(e) ==
  /\ deadline[e] = 0 \/ deadline[e] = lasts[e]
  /\ deadline[e] = 0 => lasts[e] <= tick
  /\ listeners[e] = IF deadline[e] = 0 THEN 0 ELSE 1
LastInv == TimersTyped /\ \A e \in LuaEffect : TimerInv(e)

LEMMA LastInvInit == LuaInit => LastInv
BY DEF LuaInit, LastInv, TimersTyped, TimerInv

(* A launch registers a listener only where none is.                       *)
LEMMA LaunchStep ==
  ASSUME LastInv, NEW e \in LuaEffect, NEW time \in 1 .. MaxTick,
         LaunchEffect(e, time)
  PROVE  LastInv'
<1> USE LuaAssumption
<1>1. TimersTyped /\ \A x \in LuaEffect : TimerInv(x) BY DEF LastInv
<1>2. tick' = tick /\ tick + time \in Nat \ {0} /\ time \in Nat
  BY <1>1 DEF LaunchEffect, TimersTyped
<1>3. /\ deadline' = [deadline EXCEPT ![e] = tick + time]
      /\ lasts' = [lasts EXCEPT ![e] = tick + time]
      /\ listeners' = [listeners EXCEPT
                         ![e] = IF deadline[e] = 0 THEN @ + 1 ELSE @]
  BY DEF LaunchEffect, NewDeadline, ShouldEnable
<1>4. TimersTyped'
  BY <1>1, <1>2, <1>3 DEF TimersTyped
<1>5. TimerInv(e)'
  BY <1>1, <1>2, <1>3 DEF TimersTyped, TimerInv
<1>6. ASSUME NEW x \in LuaEffect, x # e PROVE TimerInv(x)'
  BY <1>1, <1>2, <1>3, <1>6 DEF TimersTyped, TimerInv
<1> QED BY <1>4, <1>5, <1>6 DEF LastInv

(* A listener that ends the effect found the last launch over.             *)
LEMMA ResumeStep ==
  ASSUME LastInv, NEW e \in LuaEffect, ResumeListener(e)
  PROVE  LastInv'
<1>1. TimersTyped /\ \A x \in LuaEffect : TimerInv(x) BY DEF LastInv
<1>2. deadline[e] # 0 /\ listeners[e] = 1 /\ tick >= lasts[e]
  BY <1>1 DEF ResumeListener, Elapsed, TimersTyped, TimerInv
<1>3. /\ tick' = tick /\ lasts' = lasts
      /\ deadline' = [deadline EXCEPT ![e] = 0]
      /\ listeners' = [listeners EXCEPT ![e] = @ - 1]
  BY DEF ResumeListener
<1>4. TimersTyped' BY <1>1, <1>2, <1>3 DEF TimersTyped
<1>5. TimerInv(e)' BY <1>1, <1>2, <1>3 DEF TimersTyped, TimerInv
<1>6. ASSUME NEW x \in LuaEffect, x # e PROVE TimerInv(x)'
  BY <1>1, <1>3, <1>6 DEF TimersTyped, TimerInv
<1> QED BY <1>4, <1>5, <1>6 DEF LastInv

LEMMA ClockStep == ASSUME LastInv, LuaClock PROVE LastInv'
<1>1. TimersTyped /\ \A x \in LuaEffect : TimerInv(x) BY DEF LastInv
<1>2. tick' = tick + 1 /\ UNCHANGED timerVars BY DEF LuaClock
<1>3. TimersTyped' BY <1>1, <1>2 DEF TimersTyped, timerVars
<1>4. ASSUME NEW x \in LuaEffect PROVE TimerInv(x)'
  BY <1>1, <1>2 DEF TimersTyped, TimerInv, timerVars
<1> QED BY <1>3, <1>4 DEF LastInv

(* The start of the mod and its messages leave the timers alone.           *)
LEMMA OtherSteps ==
  ASSUME LuaStart \/ LuaNotices \/ UNCHANGED luaVars
  PROVE  UNCHANGED <<tick, timerVars>>
<1>1. CASE LuaStart
  BY <1>1 DEF LuaStart, TitleSetup, GetStarter, LoadSave, PostUpdate
<1>2. CASE LuaNotices
  BY <1>2 DEF LuaNotices, ThreadNotice, PushAnnounce, SetUpNotice,
              SetUpAnnounce
<1>3. CASE UNCHANGED luaVars BY <1>3 DEF luaVars
<1> QED BY <1>1, <1>2, <1>3

LEMMA LastInvStep == ASSUME LastInv, [LuaNext]_luaVars PROVE LastInv'
<1>1. CASE LuaStart \/ LuaNotices \/ UNCHANGED luaVars
  <2>1. UNCHANGED <<tick, timerVars>> BY <1>1, OtherSteps
  <2> QED BY <2>1 DEF LastInv, TimersTyped, TimerInv, timerVars
<1>2. CASE LuaClock BY <1>2, ClockStep
<1>3. ASSUME NEW e \in LuaEffect, ResumeListener(e) PROVE LastInv'
  BY <1>3, ResumeStep
<1>4. ASSUME NEW e \in LuaEffect, NEW time \in 1 .. MaxTick,
             LaunchEffect(e, time)
      PROVE  LastInv'
  BY <1>4, LaunchStep
<1> QED BY <1>1, <1>2, <1>3, <1>4 DEF LuaNext

(* An effect is on until its last launch is over and has one listener for  *)
(* as long, whichever effects are launched and however often.              *)
THEOREM EffectsLast == LuaSpec => []EffectLasts
<1>1. ASSUME LastInv PROVE EffectLasts
  <2>1. ASSUME NEW e \in LuaEffect
        PROVE  /\ lasts[e] > tick => deadline[e] = lasts[e]
               /\ listeners[e] = IF deadline[e] = 0 THEN 0 ELSE 1
    <3>1. TimerInv(e) /\ lasts[e] \in Nat /\ tick \in Nat
      BY <1>1 DEF LastInv, TimersTyped
    <3> QED BY <3>1 DEF TimerInv
  <2> QED BY <2>1 DEF EffectLasts
<1> QED BY <1>1, LastInvInit, LastInvStep, PTL DEF LuaSpec

-----------------------------------------------------------------------------
(* BootScripts: for any count of loads after which the scripts run.        *)

Base == RegisterLuaUtils \cup LuaModCode

LEMMA OrderOfNames ==
  /\ Len(NameOrder) = 6 /\ NameOrder \in [1 .. 6 -> Scripts]
  /\ \A i, j \in 1 .. 6 : NameOrder[i] = NameOrder[j] => i = j
  /\ \A s \in Scripts : \E i \in 1 .. 6 : NameOrder[i] = s
BY DEF NameOrder, Scripts

(* What a script uses is there from the start or is brought by one whose   *)
(* name comes before its own.                                              *)
LEMMA NeedsEarlier ==
  ASSUME NEW n \in 1 .. 6, NEW x \in Needs[NameOrder[n]], x \notin Base
  PROVE  \E j \in 1 .. n - 1 : x \in Brings[NameOrder[j]]
<1>1. CASE n \in {1, 2}
  BY <1>1 DEF NameOrder, Needs, Scripts, Base, RegisterLuaUtils
<1>2. CASE n \in {3, 4, 5, 6}
  <2>1. /\ NameOrder[1] = "00_debug" /\ NameOrder[2] = "01_trampolines"
        /\ NameOrder[4] = "02_tick" /\ NameOrder[5] = "50_api"
    BY DEF NameOrder
  <2>2. /\ Brings["00_debug"] = {"API"} /\ Brings["01_trampolines"] = {"_trampoline"}
        /\ Brings["02_tick"] = {"addTickListener"} /\ Brings["50_api"] = {"CC_"}
    BY DEF Brings, Scripts
  <2>3. CASE n = 3
    <3>1. x \in {"API", "_trampoline"}
      BY <2>3 DEF NameOrder, Needs, Scripts
    <3> QED BY <2>1, <2>2, <2>3, <3>1
  <2>4. CASE n = 4
    <3>1. x \in {"API"}
      BY <2>4 DEF NameOrder, Needs, Scripts
    <3> QED BY <2>1, <2>2, <2>4, <3>1
  <2>5. CASE n = 5
    <3>1. x \in {"API", "addTickListener"}
      BY <2>5 DEF NameOrder, Needs, Scripts, Base, LuaModCode
    <3> QED BY <2>1, <2>2, <2>5, <3>1
  <2>6. CASE n = 6
    <3>1. x \in {"API", "_trampoline", "CC_"}
      BY <2>6 DEF NameOrder, Needs, Scripts, Base, LuaModCode
    <3> QED BY <2>1, <2>2, <2>6, <3>1
  <2> QED BY <1>2, <2>3, <2>4, <2>5, <2>6
<1> QED BY <1>1, <1>2

(* Whatever the order in which the directory lists the scripts, they are   *)
(* run in the order of their names.                                        *)
LEMMA SortedByName ==
  ASSUME NEW listing \in Listings
  PROVE  ByName(listing) = NameOrder
<1>1. DOMAIN listing = 1 .. 6 /\ ToSet(listing) = Scripts
  BY DEF Listings, NameOrder, Reverse, ToSet, Scripts
<1> DEFINE InNameOrder(s) ==
      \A i, j \in 1 .. 6 : i < j => Before(s[i], s[j])
<1>2. NameOrder \in [1 .. 6 -> Scripts] /\ InNameOrder(NameOrder)
  BY OrderOfNames DEF Before
<1>3. ByName(listing) = CHOOSE s \in [1 .. 6 -> Scripts] : InNameOrder(s)
  BY <1>1 DEF ByName
<1>4. ASSUME NEW s \in [1 .. 6 -> Scripts], InNameOrder(s) PROVE s = NameOrder
  <2>1. PICK r \in [1 .. 6 -> 1 .. 6] : \A i \in 1 .. 6 : NameOrder[r[i]] = s[i]
    <3> DEFINE q == [i \in 1 .. 6 |-> CHOOSE k \in 1 .. 6 : NameOrder[k] = s[i]]
    <3>1. \A i \in 1 .. 6 : q[i] \in 1 .. 6 /\ NameOrder[q[i]] = s[i]
      BY OrderOfNames
    <3>2. q \in [1 .. 6 -> 1 .. 6]
      BY <3>1
    <3> HIDE DEF q
    <3> QED BY <3>1, <3>2
  <2>2. ASSUME NEW i \in 1 .. 6, NEW j \in 1 .. 6, i < j PROVE r[i] < r[j]
    <3>1. Before(s[i], s[j])
      BY <1>4, <2>2
    <3>2. PICK a \in 1 .. 6, b \in 1 .. 6 :
            NameOrder[a] = s[i] /\ NameOrder[b] = s[j] /\ a < b
      BY <3>1, OrderOfNames DEF Before
    <3> QED BY <2>1, <3>2, OrderOfNames
  <2>3. \A i \in 1 .. 6 : r[i] = i
    <3>1. r[1] < r[2] /\ r[2] < r[3] /\ r[3] < r[4] /\ r[4] < r[5] /\ r[5] < r[6]
      BY <2>2
    <3> QED BY <2>1, <3>1
  <2> QED BY <1>2, <2>1, <2>3
<1> HIDE DEF InNameOrder
<1> QED BY <1>2, <1>3, <1>4

(* Of the scripts that had their turn, each failed or has brought what it  *)
(* brings.  Before they are read nothing has failed.                       *)
Turned(n) ==
  \A i \in 1 .. n : NameOrder[i] \in failed \/ Brings[NameOrder[i]] \subseteq globals
BootInv ==
  /\ loads \in Nat /\ FailsForAReason
  /\ (loads < LastLoad => todo = <<>> /\ failed = {})
  /\ (loads >= LastLoad =>
        /\ Base \subseteq globals
        /\ \E n \in 0 .. 6 : todo = SubSeq(NameOrder, n + 1, 6) /\ Turned(n))

LEMMA AfterStep == ASSUME BootInv, AfterMainHook PROVE BootInv'
<1>1. /\ todo = <<>> /\ loads' = loads + 1 /\ failed' = failed /\ loads \in Nat
  BY DEF AfterMainHook, BootInv
<1>2. LastLoad \in Nat
  BY BootAssumption
<1>3. CASE loads' = LastLoad
  <2>1. failed = {}
    BY <1>1, <1>2, <1>3 DEF BootInv
  <2>2. globals' = globals \cup Base /\ todo' = NameOrder
    BY <1>3, SortedByName DEF AfterMainHook, Base
  <2>3. todo' = SubSeq(NameOrder, 0 + 1, 6)
    BY <2>2, OrderOfNames
  <2>4. FailsForAReason' /\ Turned(0)'
    BY <1>1, <2>1 DEF FailsForAReason, Turned
  <2> QED BY <1>1, <1>2, <1>3, <2>1, <2>2, <2>3, <2>4 DEF BootInv
<1>4. CASE loads' # LastLoad
  <2>1. UNCHANGED <<globals, todo, broken>>
    BY <1>4 DEF AfterMainHook
  <2>2. FailsForAReason'
    BY <1>1, <2>1 DEF BootInv, FailsForAReason
  <2>3. loads' < LastLoad => loads < LastLoad
    BY <1>1, <1>2
  <2>4. loads' >= LastLoad => loads >= LastLoad
    BY <1>1, <1>2, <1>4
  <2> QED BY <1>1, <2>1, <2>2, <2>3, <2>4 DEF BootInv, Turned
<1> QED BY <1>3, <1>4

LEMMA RunStep == ASSUME BootInv, RunScript PROVE BootInv'
<1> DEFINE s == Head(todo)
           ok == s \notin broken /\ Needs[s] \subseteq globals
<1>1. /\ todo # <<>> /\ todo' = Tail(todo)
      /\ (ok => globals' = globals \cup Brings[s] /\ failed' = failed)
      /\ (~ok => failed' = failed \cup {s} /\ globals' = globals)
      /\ loads' = loads /\ broken' = broken
  BY DEF RunScript, Rest
<1>2. loads \in Nat /\ LastLoad \in Nat /\ loads >= LastLoad /\ FailsForAReason
  BY <1>1, BootAssumption DEF BootInv
<1>3. PICK n \in 0 .. 6 : todo = SubSeq(NameOrder, n + 1, 6) /\ Turned(n)
  BY <1>2 DEF BootInv
<1>4. /\ n \in 0 .. 5 /\ s = NameOrder[n + 1]
      /\ todo' = SubSeq(NameOrder, n + 2, 6)
  <2>1. NameOrder \in Seq(Scripts)
    BY DEF NameOrder, Scripts
  <2>2. n # 6
    BY <1>1, <1>3, <2>1, OrderOfNames
  <2>3. n \in 0 .. 5
    BY <2>2
  <2>4. /\ Len(todo) = 6 - n
        /\ \A i \in 1 .. 6 - n : todo[i] = NameOrder[n + i]
    BY <1>3, <2>1, <2>3, OrderOfNames
  <2>5. s = NameOrder[n + 1]
    BY <1>1, <2>3, <2>4
  <2>6. todo' = SubSeq(NameOrder, n + 2, 6)
    BY <1>1, <1>3, <2>1, <2>3, OrderOfNames
  <2> QED BY <2>3, <2>5, <2>6
<1>5. globals \subseteq globals' /\ failed \subseteq failed'
  BY <1>1
<1>6. s \in failed' \/ Brings[s] \subseteq globals'
  BY <1>1
<1>7. Turned(n + 1)'
  <2> SUFFICES ASSUME NEW i \in 1 .. n + 1
               PROVE  NameOrder[i] \in failed' \/ Brings[NameOrder[i]] \subseteq globals'
    BY DEF Turned
  <2> HIDE DEF s
  <2>1. CASE i = n + 1
    BY <1>4, <1>6, <2>1
  <2>2. CASE i # n + 1
    BY <1>3, <1>5, <2>2 DEF Turned
  <2> QED BY <2>1, <2>2
<1>8. ~ok => s \in broken \/ \E t \in failed : Brings[t] \cap Needs[s] # {}
  <2> SUFFICES ASSUME NEW x \in Needs[s], x \notin globals
               PROVE  \E t \in failed : Brings[t] \cap Needs[s] # {}
    OBVIOUS
  <2> HIDE DEF s
  <2>1. x \notin Base
    BY <1>2 DEF BootInv
  <2>2. n + 1 \in 1 .. 6 /\ (n + 1) - 1 = n
    BY <1>4
  <2>3. PICK j \in 1 .. n : x \in Brings[NameOrder[j]]
    BY <1>4, <2>1, <2>2, NeedsEarlier
  <2>4. NameOrder[j] \in failed
    BY <1>3, <2>3 DEF Turned
  <2> QED BY <2>3, <2>4
<1>9. FailsForAReason'
  <2> SUFFICES ASSUME NEW f \in failed'
               PROVE  f \in broken' \/ \E t \in failed' : Brings[t] \cap Needs[f] # {}
    BY DEF FailsForAReason
  <2>1. CASE f \in failed
    BY <1>1, <1>2, <1>5, <2>1 DEF FailsForAReason
  <2>2. CASE f \notin failed
    <3>1. f = s /\ ~ok
      BY <1>1, <2>2
    <3> QED BY <1>1, <1>5, <1>8, <3>1
  <2> QED BY <2>1, <2>2
<1>10. \E m \in 0 .. 6 : todo' = SubSeq(NameOrder, m + 1, 6) /\ Turned(m)'
  <2>1. n + 1 \in 0 .. 6 /\ (n + 1) + 1 = n + 2
    BY <1>4
  <2> QED BY <1>4, <1>7, <2>1
<1>11. Base \subseteq globals'
  BY <1>2, <1>5 DEF BootInv
<1> QED BY <1>1, <1>2, <1>9, <1>10, <1>11 DEF BootInv

LEMMA BootInvStep == ASSUME BootInv, [BootNext]_bootVars PROVE BootInv'
<1>1. CASE UNCHANGED bootVars
  BY <1>1 DEF bootVars, BootInv, FailsForAReason, Turned
<1> QED BY <1>1, AfterStep, RunStep DEF BootNext

(* A script fails only because it is wrong itself or uses something of one *)
(* that failed, whatever the order in which the directory lists them.      *)
THEOREM FailuresHaveReasons == BootSpec => []FailsForAReason
<1>1. BootInit => BootInv
  BY BootAssumption DEF BootInit, BootInv, FailsForAReason
<1>2. BootInv => FailsForAReason
  BY DEF BootInv
<1> QED BY <1>1, <1>2, BootInvStep, PTL DEF BootSpec
=============================================================================
