-------------------------- MODULE GlobalHeapProofs --------------------------
(***************************************************************************)
(* The invariants of GlobalHeap, for every set of addresses, every table   *)
(* size and every size of request.                                         *)
(***************************************************************************)
EXTENDS GlobalHeap, TLAPS

(* The linear search of free and realloc finds an entry of the pointer.    *)
LEMMA FirstIndexFound ==
  ASSUME TypeOK, TableSound, NEW p \in Tracked
  PROVE  /\ FirstIndexOf(p) \in Used
         /\ data[FirstIndexOf(p)].ptr = p
<1>1. PICK i \in Used : data[i].ptr = p
  BY DEF Tracked
<1>2. IndicesOf(p) = {i}
  BY <1>1 DEF IndicesOf, TableSound, EntriesDistinct
<1>3. i <= i
  BY <1>1 DEF Used, TypeOK
<1>4. FirstIndexOf(p) \in IndicesOf(p)
  BY <1>2, <1>3 DEF FirstIndexOf
<1> QED
  BY <1>1, <1>2, <1>4

(* In a sound table the entry found is the one the heap needs.             *)
LEMMA FoundIsReturnable ==
  ASSUME TypeOK, TableSound, NEW p \in Tracked
  PROVE  DeallocateFault(p, data[FirstIndexOf(p)]) = {}
BY FirstIndexFound
   DEF TableSound, EntriesExact, DeallocateFault, Returnable

LEMMA InitInv == Init => IInv
<1> SUFFICES ASSUME Init PROVE IInv
  OBVIOUS
<1>1. TypeOK
  <2>1. data \in [0 .. MAX_HEAP_TRACKED - 1 -> Entry]
    BY DEF Init, Entry, MkEntry
  <2>2. block \in [HeapPtr -> Block]
    BY DEF Init, Block
  <2>3. heapUp \in BOOLEAN /\ overflow \in BOOLEAN
    BY Zenon DEF Init
  <2>4. count \in 0 .. MAX_HEAP_TRACKED
    BY SizeAssumption DEF Init
  <2> QED
    BY <2>1, <2>2, <2>3, <2>4 DEF Init, TypeOK
<1>2. Used = {}
  BY DEF Init, Used
<1>3. TableSound
  BY <1>2 DEF TableSound, EntriesExact, EntriesDistinct
<1>4. DeallocateExact /\ RightAllocator /\ HeapBlockToSystem
  BY DEF Init, DeallocateExact, RightAllocator, HeapBlockToSystem
<1>5. Bookkeeping
  BY DEF Init, Bookkeeping
<1> QED
  BY <1>1, <1>3, <1>4, <1>5 DEF IInv

LEMMA HeapCreatedInv == IInv /\ HeapCreated => IInv'
BY DEF IInv, HeapCreated, heapVars, tableVars, TypeOK, TableSound,
       EntriesExact, EntriesDistinct, DeallocateExact, RightAllocator,
       HeapBlockToSystem, Bookkeeping, Undisturbed, Used, Tracked

LEMMA SysAllocInv == IInv /\ SysAlloc => IInv'
<1> SUFFICES ASSUME IInv, NEW p \in SysPtr \ sys,
                    ~heapUp,
                    sys' = sys \cup {p},
                    owned' = owned \cup {p},
                    UNCHANGED <<heapUp, live, block, faults, tableVars, dropped>>
             PROVE  IInv'
  BY DEF SysAlloc
<1> USE DEF tableVars
<1>1. TypeOK'
  BY DEF IInv, TypeOK
<1>2. TableSound'
  BY DEF IInv, TableSound, EntriesExact, EntriesDistinct, Used
<1>3. DeallocateExact' /\ RightAllocator' /\ HeapBlockToSystem'
  BY DEF IInv, DeallocateExact, RightAllocator, HeapBlockToSystem, Undisturbed
<1>4. Bookkeeping'
  BY PtrAssumption DEF IInv, Bookkeeping, Tracked, Used
<1> QED
  BY <1>1, <1>2, <1>3, <1>4 DEF IInv

(* A new block, of a size and alignment that are naturals: its entry is    *)
(* the only one for it, because the address was free.                      *)
LEMMA HeapAllocInv ==
  ASSUME IInv, NEW s \in Nat, NEW a \in Nat, HeapAlloc(s, a)
  PROVE  IInv'
<1> PICK p \in HeapPtr \ live :
      /\ heapUp
      /\ live' = live \cup {p}
      /\ block' = [block EXCEPT ![p] = [size |-> s, alignment |-> a]]
      /\ owned' = owned \cup {p}
      /\ IF Room
           THEN /\ data' = [data EXCEPT ![count] = MkEntry(p, s, a)]
                /\ count' = count + 1
                /\ UNCHANGED overflow
           ELSE /\ overflow' = TRUE
                /\ UNCHANGED <<data, count>>
      /\ UNCHANGED <<heapUp, sys, faults, dropped>>
  BY DEF HeapAlloc
<1>1. TypeOK'
  <2>1. block' \in [HeapPtr -> Block]
    BY DEF IInv, TypeOK, Block
  <2>2. data' \in [0 .. MAX_HEAP_TRACKED - 1 -> Entry]
    <3>1. MkEntry(p, s, a) \in Entry
      BY DEF MkEntry, Entry
    <3> QED
      BY <3>1, SizeAssumption DEF IInv, TypeOK, Room
  <2>3. count' \in 0 .. MAX_HEAP_TRACKED
    BY SizeAssumption DEF IInv, TypeOK, Room
  <2>4. overflow' \in BOOLEAN /\ heapUp' \in BOOLEAN
    BY Zenon DEF IInv, TypeOK
  <2> QED
    BY <2>1, <2>2, <2>3, <2>4 DEF IInv, TypeOK
<1>2. EntriesExact'
  <2>1. CASE Room
    <3> SUFFICES ASSUME NEW i \in Used'
                 PROVE  /\ data'[i].ptr \in live'
                        /\ block'[data'[i].ptr] =
                             [size |-> data'[i].size,
                              alignment |-> data'[i].alignment]
      BY DEF EntriesExact
    <3>1. CASE i = count
      BY <2>1, <3>1, SizeAssumption DEF IInv, TypeOK, Room, MkEntry
    <3>2. CASE i # count
      <4>1. i \in Used /\ data'[i] = data[i]
        BY <2>1, <3>2, SizeAssumption DEF IInv, TypeOK, Room, Used
      <4>2. data[i].ptr \in live /\ data[i].ptr # p
        BY <4>1 DEF IInv, TableSound, EntriesExact
      <4> QED
        BY <4>1, <4>2 DEF IInv, TypeOK, TableSound, EntriesExact
    <3> QED
      BY <3>1, <3>2
  <2>2. CASE ~Room
    BY <2>2 DEF IInv, TypeOK, TableSound, EntriesExact, Used
  <2> QED
    BY <2>1, <2>2
<1>3. EntriesDistinct'
  <2>1. CASE Room
    <3>1. \A i \in Used : data[i].ptr # p
      BY DEF IInv, TableSound, EntriesExact
    <3>2. /\ Used' = Used \cup {count}
          /\ \A i \in Used : data'[i] = data[i] /\ i # count
          /\ data'[count].ptr = p
      BY <2>1, SizeAssumption DEF IInv, TypeOK, Room, Used, MkEntry
    <3> QED
      BY <3>1, <3>2 DEF IInv, TableSound, EntriesDistinct
  <2>2. CASE ~Room
    BY <2>2 DEF IInv, TableSound, EntriesDistinct, Used
  <2> QED
    BY <2>1, <2>2
<1>4. DeallocateExact' /\ RightAllocator' /\ HeapBlockToSystem'
  BY DEF IInv, TypeOK, DeallocateExact, RightAllocator, HeapBlockToSystem,
         Undisturbed, Room
<1>5. Bookkeeping'
  <2>1. ~overflow' => live' \subseteq owned' \cap Tracked'
    <3> SUFFICES ASSUME ~overflow' PROVE live' \subseteq owned' \cap Tracked'
      OBVIOUS
    <3>1. Room /\ ~overflow
      BY DEF IInv, TypeOK
    <3>2. Tracked' = Tracked \cup {p}
      <4>1. /\ Used' = Used \cup {count}
            /\ \A i \in Used : data'[i] = data[i]
            /\ data'[count].ptr = p
        BY <3>1, SizeAssumption DEF IInv, TypeOK, Room, Used, MkEntry
      <4> QED
        BY <4>1 DEF Tracked
    <3> QED
      BY <3>1, <3>2 DEF IInv, Bookkeeping
  <2> QED
    BY <2>1, PtrAssumption DEF IInv, Bookkeeping
<1> QED
  BY <1>1, <1>2, <1>3, <1>4, <1>5 DEF IInv, TableSound

(* What a call to the system's free leaves of the invariant.  It may be    *)
(* given a block of the game heap only when that block is not tracked, and *)
(* then the table has overflowed.                                          *)
LEMMA SysFreeFaults ==
  ASSUME IInv, NEW p \in owned, p \notin Tracked \/ ~heapUp, SysFree(p),
         UNCHANGED overflow, dropped \subseteq dropped'
  PROVE  DeallocateExact' /\ RightAllocator' /\ HeapBlockToSystem'
<1>1. \A f \in faults' \ faults : f = [call |-> "sysFree", ptr |-> p] /\ p \notin sys
  BY DEF SysFree
<1>2. p \in HeapPtr => overflow
  BY DEF IInv, Bookkeeping
<1>3. p \notin HeapPtr /\ p \notin sys => dropped # {}
  BY DEF IInv, TypeOK, Bookkeeping
<1>4. DeallocateExact' /\ HeapBlockToSystem'
  BY <1>1, <1>2 DEF IInv, DeallocateExact, HeapBlockToSystem
<1>5. RightAllocator'
  BY <1>1, <1>2, <1>3 DEF IInv, RightAllocator, Undisturbed
<1> QED
  BY <1>4, <1>5

(* free of a tracked block: the last entry takes its place.                *)
LEMMA FreeTrackedInv ==
  ASSUME IInv, NEW p \in owned, Free(p), heapUp, p \in Tracked
  PROVE  IInv'
<1> DEFINE i == FirstIndexOf(p)
<1>1. /\ i \in Used
      /\ data[i].ptr = p
      /\ p \in live
  BY FirstIndexFound DEF IInv, TableSound, EntriesExact
<1>2. faults' = faults
  BY FoundIsReturnable DEF IInv, Free
<1>3. /\ owned' = owned \ {p}
      /\ live' = live \ {p}
      /\ data' = SwapRemoved(i)
      /\ count' = count - 1
      /\ UNCHANGED <<sys, heapUp, block, overflow, dropped>>
  BY DEF Free
<1> HIDE DEF i
<1>4. /\ count \in 1 .. MAX_HEAP_TRACKED
      /\ count - 1 \in Used
      /\ Used' = Used \ {count - 1}
  BY <1>1, <1>3, SizeAssumption DEF IInv, TypeOK, Used
<1>5. Used \subseteq 0 .. MAX_HEAP_TRACKED - 1
  BY SizeAssumption DEF IInv, TypeOK, Used
<1>6. \A j \in Used' : data'[j] = IF j = i THEN data[count - 1] ELSE data[j]
  BY <1>3, <1>4, <1>5 DEF IInv, TypeOK, SwapRemoved
<1>7. TypeOK'
  <2>1. data' \in [0 .. MAX_HEAP_TRACKED - 1 -> Entry]
    BY <1>3, <1>4, <1>5 DEF IInv, TypeOK, SwapRemoved
  <2>2. count' \in 0 .. MAX_HEAP_TRACKED
    BY <1>3, <1>4, SizeAssumption
  <2>3. overflow' \in BOOLEAN /\ heapUp' \in BOOLEAN
    BY <1>3, Zenon DEF IInv, TypeOK
  <2> QED
    BY <1>2, <1>3, <2>1, <2>2, <2>3 DEF IInv, TypeOK
<1>8. EntriesExact'
  <2> SUFFICES ASSUME NEW j \in Used'
               PROVE  /\ data'[j].ptr \in live'
                      /\ block'[data'[j].ptr] =
                           [size |-> data'[j].size,
                            alignment |-> data'[j].alignment]
    BY DEF EntriesExact
  <2>1. PICK k \in Used : data'[j] = data[k] /\ k # i
    BY <1>1, <1>4, <1>6
  <2>2. data[k].ptr # p
    BY <1>1, <2>1 DEF IInv, TableSound, EntriesDistinct
  <2> QED
    BY <1>3, <2>1, <2>2 DEF IInv, TableSound, EntriesExact
<1>9. EntriesDistinct'
  BY <1>4, <1>6 DEF IInv, TableSound, EntriesDistinct
<1>10. Bookkeeping'
  <2>1. ~overflow => live' \subseteq Tracked'
    <3> SUFFICES ASSUME ~overflow, NEW q \in live' PROVE q \in Tracked'
      OBVIOUS
    <3>1. PICK k \in Used : data[k].ptr = q
      BY <1>3 DEF IInv, Bookkeeping, Tracked
    <3>2. k # i
      BY <1>1, <1>3, <3>1
    <3>3. CASE k = count - 1
      BY <1>1, <1>4, <1>6, <3>1, <3>2, <3>3 DEF Tracked
    <3>4. CASE k # count - 1
      BY <1>4, <1>6, <3>1, <3>2, <3>4 DEF Tracked
    <3> QED
      BY <3>3, <3>4
  <2>2. p \notin sys
    BY <1>1, PtrAssumption DEF IInv, TypeOK
  <2> QED
    BY <1>1, <1>3, <2>1, <2>2 DEF IInv, Bookkeeping
<1>11. DeallocateExact' /\ RightAllocator' /\ HeapBlockToSystem'
  BY <1>2, <1>3 DEF IInv, DeallocateExact, RightAllocator, HeapBlockToSystem,
                    Undisturbed
<1> QED
  BY <1>7, <1>8, <1>9, <1>10, <1>11 DEF IInv, TableSound

(* free of any other pointer: the system's free.                           *)
LEMMA FreeOtherInv ==
  ASSUME IInv, NEW p \in owned, Free(p), ~(heapUp /\ p \in Tracked)
  PROVE  IInv'
<1>1. /\ SysFree(p)
      /\ owned' = owned \ {p}
      /\ UNCHANGED <<live, data, count, heapUp, block, overflow, dropped>>
  BY DEF Free
<1>2. DeallocateExact' /\ RightAllocator' /\ HeapBlockToSystem'
  BY <1>1, SysFreeFaults
<1>3. TypeOK'
  BY <1>1 DEF IInv, TypeOK, SysFree, Fault
<1>4. TableSound'
  BY <1>1 DEF IInv, TableSound, EntriesExact, EntriesDistinct, Used
<1>5. Bookkeeping'
  <2>1. Tracked' = Tracked
    BY <1>1 DEF Tracked, Used
  <2>2. ~overflow => p \notin live
    BY DEF IInv, Bookkeeping
  <2> QED
    BY <1>1, <2>1, <2>2 DEF IInv, Bookkeeping, SysFree
<1> QED
  BY <1>2, <1>3, <1>4, <1>5 DEF IInv

(* realloc of a tracked block: its entry now stands for the new block.     *)
LEMMA ReallocTrackedInv ==
  ASSUME IInv, NEW p \in owned, NEW s \in Nat, ReallocTracked(p, s)
  PROVE  IInv'
<1> DEFINE i == FirstIndexOf(p)
<1>1. p \in Tracked /\ heapUp
  BY DEF ReallocTracked
<1>2. /\ i \in Used
      /\ data[i].ptr = p
      /\ p \in live
  BY <1>1, FirstIndexFound DEF IInv, TableSound, EntriesExact
<1>3. DeallocateFault(p, data[i]) = {}
  BY <1>1, FoundIsReturnable DEF IInv
<1> PICK q \in HeapPtr \ live :
      /\ live' = (live \cup {q}) \ {p}
      /\ block' = [block EXCEPT ![q] =
                     [size |-> s, alignment |-> data[i].alignment]]
      /\ faults' = faults
      /\ data' = Moved(i, q, s)
      /\ owned' = (owned \ {p}) \cup {q}
      /\ UNCHANGED <<heapUp, sys, count, overflow, dropped>>
  BY <1>3 DEF ReallocTracked
<1> HIDE DEF i
<1>4. i \in 0 .. MAX_HEAP_TRACKED - 1 /\ Used \subseteq 0 .. MAX_HEAP_TRACKED - 1
  BY <1>2, SizeAssumption DEF IInv, TypeOK, Used
<1>5. Used' = Used
  BY DEF Used
<1>6. data[i] \in Entry
  BY <1>4 DEF IInv, TypeOK
<1>7. \A j \in 0 .. MAX_HEAP_TRACKED - 1 :
        data'[j] = IF j = i THEN [ptr |-> q, size |-> s,
                                  alignment |-> data[i].alignment]
                            ELSE data[j]
  <2> SUFFICES ASSUME NEW j \in 0 .. MAX_HEAP_TRACKED - 1
               PROVE  data'[j] = IF j = i THEN [ptr |-> q, size |-> s,
                                                alignment |-> data[i].alignment]
                                          ELSE data[j]
    OBVIOUS
  <2>1. data' = [data EXCEPT ![i] = [@ EXCEPT !.ptr = q, !.size = s]]
    BY DEF Moved
  <2>2. CASE j = i
    <3>1. data'[i] = [data[i] EXCEPT !.ptr = q, !.size = s]
      BY <1>4, <2>1 DEF IInv, TypeOK
    <3> QED
      BY <1>6, <2>2, <3>1 DEF Entry
  <2>3. CASE j # i
    BY <1>4, <2>3 DEF IInv, TypeOK, Moved
  <2> QED
    BY <2>2, <2>3
<1>8. TypeOK'
  <2>1. data' \in [0 .. MAX_HEAP_TRACKED - 1 -> Entry]
    BY <1>4, <1>6 DEF IInv, TypeOK, Moved, Entry
  <2>2. block' \in [HeapPtr -> Block]
    BY <1>6 DEF IInv, TypeOK, Block, Entry
  <2>3. overflow' \in BOOLEAN /\ heapUp' \in BOOLEAN
    BY Zenon DEF IInv, TypeOK
  <2> QED
    BY <2>1, <2>2, <2>3 DEF IInv, TypeOK
<1>9. q # p
  BY <1>2
<1>10. EntriesExact'
  <2> SUFFICES ASSUME NEW j \in Used
               PROVE  /\ data'[j].ptr \in live'
                      /\ block'[data'[j].ptr] =
                           [size |-> data'[j].size,
                            alignment |-> data'[j].alignment]
    BY <1>5 DEF EntriesExact
  <2>1. CASE j = i
    BY <1>4, <1>7, <1>9, <2>1 DEF IInv, TypeOK
  <2>2. CASE j # i
    <3>1. data[j].ptr # p /\ data[j].ptr \in live /\ data'[j] = data[j]
      BY <1>2, <1>4, <1>7, <2>2 DEF IInv, TableSound, EntriesExact, EntriesDistinct
    <3> QED
      BY <3>1 DEF IInv, TypeOK, TableSound, EntriesExact
  <2> QED
    BY <2>1, <2>2
<1>11. EntriesDistinct'
  <2>1. \A j \in Used : data[j].ptr # q
    BY DEF IInv, TableSound, EntriesExact
  <2> QED
    BY <1>2, <1>4, <1>5, <1>7, <2>1 DEF IInv, TableSound, EntriesDistinct
<1>12. DeallocateExact' /\ RightAllocator' /\ HeapBlockToSystem'
  BY DEF IInv, DeallocateExact, RightAllocator, HeapBlockToSystem, Undisturbed
<1>13. Bookkeeping'
  <2>1. Tracked' = (Tracked \ {p}) \cup {q}
    <3>1. \A j \in Used : j # i => data[j].ptr # p
      BY <1>2 DEF IInv, TableSound, EntriesDistinct
    <3> QED
      BY <1>2, <1>4, <1>5, <1>7, <3>1, <1>9 DEF Tracked
  <2>2. p \notin sys /\ q \notin SysPtr
    BY <1>2, PtrAssumption DEF IInv, TypeOK
  <2> QED
    BY <1>1, <1>9, <2>1, <2>2 DEF IInv, Bookkeeping
<1> QED
  BY <1>8, <1>10, <1>11, <1>12, <1>13 DEF IInv, TableSound

(* realloc of an untracked pointer: the caller keeps a pointer to a block  *)
(* that is gone, which is what "dropped" records.                          *)
LEMMA ReallocUntrackedInv ==
  ASSUME IInv, NEW p \in owned, NEW s \in Nat, ReallocUntracked(p, s)
  PROVE  IInv'
<1>1. /\ SysFree(p)
      /\ p \notin Tracked
      /\ dropped' = dropped \cup {p}
      /\ UNCHANGED <<heapUp, live, block, data, count, overflow, owned>>
  BY DEF ReallocUntracked, tableVars
<1>2. DeallocateExact' /\ RightAllocator' /\ HeapBlockToSystem'
  BY <1>1, SysFreeFaults
<1>3. TypeOK'
  BY <1>1 DEF IInv, TypeOK, SysFree, Fault
<1>4. TableSound'
  BY <1>1 DEF IInv, TableSound, EntriesExact, EntriesDistinct, Used
<1>5. Bookkeeping'
  BY <1>1 DEF IInv, Bookkeeping, SysFree, Tracked, Used
<1> QED
  BY <1>2, <1>3, <1>4, <1>5 DEF IInv

(* The system's realloc, before the game heap exists.                      *)
LEMMA SysReallocInv ==
  ASSUME IInv, NEW p \in owned, SysRealloc(p)
  PROVE  IInv'
<1> PICK q \in (SysPtr \ sys) \cup {p} :
      /\ ~heapUp
      /\ sys' = (sys \ {p}) \cup {q}
      /\ owned' = (owned \ {p}) \cup {q}
      /\ UNCHANGED <<heapUp, live, block, faults, tableVars, dropped>>
  BY DEF SysRealloc
<1> USE DEF tableVars
<1>1. p \in SysPtr /\ q \in SysPtr
  BY DEF IInv, TypeOK, Bookkeeping
<1>2. TypeOK'
  BY <1>1 DEF IInv, TypeOK
<1>3. TableSound'
  BY DEF IInv, TableSound, EntriesExact, EntriesDistinct, Used
<1>4. DeallocateExact' /\ RightAllocator' /\ HeapBlockToSystem'
  BY DEF IInv, DeallocateExact, RightAllocator, HeapBlockToSystem, Undisturbed
<1>5. Bookkeeping'
  BY <1>1, PtrAssumption DEF IInv, Bookkeeping, Tracked, Used
<1> QED
  BY <1>2, <1>3, <1>4, <1>5 DEF IInv

LEMMA FreeInv ==
  ASSUME IInv, NEW p \in owned, Free(p)
  PROVE  IInv'
BY FreeTrackedInv, FreeOtherInv

LEMMA MallocInv ==
  ASSUME IInv, NEW s \in Nat, Malloc(s)
  PROVE  IInv'
BY SysAllocInv, HeapAllocInv, SizeAssumption DEF Malloc

LEMMA StepInv == IInv /\ [Next]_vars => IInv'
<1> SUFFICES ASSUME IInv, [Next]_vars PROVE IInv'
  OBVIOUS
<1>0. Sizes \subseteq Nat /\ Alignments \subseteq Nat
  BY SizeAssumption
<1>1. CASE HeapCreated
  BY <1>1, HeapCreatedInv
<1>2. ASSUME NEW s \in Sizes, Malloc(s) PROVE IInv'
  BY <1>0, <1>2, MallocInv
<1>3. ASSUME NEW s \in Sizes, NEW a \in Alignments, AlignedAlloc(a, s)
      PROVE  IInv'
  BY <1>0, <1>3, SysAllocInv, HeapAllocInv DEF AlignedAlloc
<1>4. ASSUME NEW n \in Sizes, NEW s \in Sizes, Calloc(n, s) PROVE IInv'
  <2>1. (n * s) % WordSize \in Nat
    BY <1>0, SizeAssumption
  <2> QED
    BY <1>4, <2>1, MallocInv DEF Calloc
<1>5. ASSUME NEW p \in owned, Free(p) PROVE IInv'
  BY <1>5, FreeInv
<1>6. ASSUME NEW p \in owned \cup {NullPtr}, NEW s \in Sizes, Realloc(p, s)
      PROVE  IInv'
  <2>1. CASE p = NullPtr /\ Malloc(s)
    BY <1>0, <2>1, MallocInv
  <2>2. CASE Free(p)
    BY <2>2, FreeInv DEF Free
  <2>3. CASE SysRealloc(p)
    BY <2>3, SysReallocInv DEF SysRealloc
  <2>4. CASE ReallocTracked(p, s)
    BY <1>0, <2>4, ReallocTrackedInv DEF ReallocTracked
  <2>5. CASE ReallocUntracked(p, s)
    BY <1>0, <2>5, ReallocUntrackedInv DEF ReallocUntracked
  <2> QED
    BY <1>6, <2>1, <2>2, <2>3, <2>4, <2>5 DEF Realloc
<1>7. CASE UNCHANGED vars
  BY <1>7 DEF vars, heapVars, tableVars, IInv, TypeOK, TableSound,
       EntriesExact, EntriesDistinct, DeallocateExact, RightAllocator,
       HeapBlockToSystem, Bookkeeping, Undisturbed, Used, Tracked
<1> QED
  BY <1>1, <1>2, <1>3, <1>4, <1>5, <1>6, <1>7 DEF Next

LEMMA Invariance == Spec => []IInv
BY InitInv, StepInv, PTL DEF Spec

(* Whatever sequence of calls the mods make, and however large the table,  *)
(* the state keeps its type.                                               *)
THEOREM TypeCorrect == Spec => []TypeOK
<1>1. IInv => TypeOK
  BY DEF IInv
<1> QED
  BY <1>1, Invariance, PTL

(* Every entry of the table in use is for an allocated block, has the size *)
(* and alignment of that block, and is the only one for it.                *)
THEOREM TableIsSound == Spec => []TableSound
<1>1. IInv => TableSound
  BY DEF IInv
<1> QED
  BY <1>1, Invariance, PTL

(* The game heap is given back only allocated blocks, with the size and    *)
(* alignment they were allocated with.                                     *)
THEOREM DeallocatesExactly == Spec => []DeallocateExact
<1>1. IInv => DeallocateExact
  BY DEF IInv
<1> QED
  BY <1>1, Invariance, PTL

(* A block of the game heap reaches the system's free only once the table  *)
(* has overflowed.                                                         *)
THEOREM SystemFreeNeedsOverflow == Spec => []HeapBlockToSystem
<1>1. IInv => HeapBlockToSystem
  BY DEF IInv
<1> QED
  BY <1>1, Invariance, PTL

(* Until the table overflows or realloc meets a pointer from before the    *)
(* heap, callers hold exactly the allocated blocks.                        *)
THEOREM CallersHoldTheBlocks == Spec => []OwnedIsAllocated
<1>1. IInv => OwnedIsAllocated
  BY DEF IInv, TypeOK, OwnedIsAllocated, Undisturbed, Bookkeeping
<1> QED
  BY <1>1, Invariance, PTL
=============================================================================
