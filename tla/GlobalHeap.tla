----------------------------- MODULE GlobalHeap -----------------------------
(***************************************************************************)
(* The replacement of malloc, aligned_alloc, free, calloc and realloc that *)
(* every mod links in (pokemon_sv/common/src/GlobalHeap_Utils.cpp; the ZA  *)
(* and Sword/Shield mods carry the same code with another table size).     *)
(*                                                                         *)
(* Once the game has created its gfl::SizedHeap the calls are served from  *)
(* it.  That heap must be told the size and the alignment of a block to    *)
(* take it back, so the mod keeps a table of (pointer, size, alignment);   *)
(* before the heap exists, and for a pointer that is not in the table, the *)
(* calls go to the system allocator.                                       *)
(*                                                                         *)
(* Here one call is one step: what the code does when calls do not         *)
(* overlap.  GlobalHeapThreads takes the calls apart.                      *)
(***************************************************************************)
EXTENDS Integers

CONSTANTS
  HeapPtr,            \* addresses the game heap hands out
  SysPtr,             \* addresses the system allocator hands out
  NullPtr,            \* nullptr
  Sizes,              \* the sizes callers ask for
  Alignments,         \* the alignments callers ask for
  DefaultAlignment,   \* alignof(std::max_align_t)
  WordSize,           \* size_t is an integer modulo WordSize
  MAX_HEAP_TRACKED    \* entries in the table

ASSUME PtrAssumption ==
  /\ HeapPtr \cap SysPtr = {}
  /\ NullPtr \notin HeapPtr \cup SysPtr

ASSUME SizeAssumption ==
  /\ WordSize \in Nat \ {0}
  /\ Sizes \subseteq 0 .. WordSize - 1
  /\ Alignments \subseteq Nat
  /\ DefaultAlignment \in Nat
  /\ MAX_HEAP_TRACKED \in Nat \ {0}

VARIABLES
  heapUp,     \* gfl::SizedHeap::s_globalHeap is not null
  live,       \* blocks of the game heap that are allocated
  block,      \* the size and alignment each was allocated with
  sys,        \* blocks of the system allocator that are allocated
  data,       \* m_heapAllocData
  count,      \* m_heapAllocCount
  owned,      \* pointers the callers hold: returned to them, not given back
  overflow,   \* history: some allocation found the table full
  dropped,    \* history: pointers freed by the last branch of realloc
  faults      \* history: wrong calls to either allocator

heapVars == <<live, block, sys, faults>>
tableVars == <<data, count, overflow>>
vars == <<heapUp, heapVars, tableVars, owned, dropped>>

Block == [size : Nat, alignment : Nat]
Entry == [ptr : HeapPtr \cup {NullPtr}, size : Nat, alignment : Nat]

(* One wrong call: a block given to the wrong allocator, or given back to  *)
(* the game heap with a size or alignment it does not have.                *)
Fault == [call : {"sysFree", "Deallocate"}, ptr : HeapPtr \cup SysPtr]

TypeOK ==
  /\ heapUp \in BOOLEAN
  /\ live \subseteq HeapPtr
  /\ block \in [HeapPtr -> Block]
  /\ sys \subseteq SysPtr
  /\ data \in [0 .. MAX_HEAP_TRACKED - 1 -> Entry]
  /\ count \in 0 .. MAX_HEAP_TRACKED
  /\ owned \subseteq HeapPtr \cup SysPtr
  /\ overflow \in BOOLEAN
  /\ dropped \subseteq HeapPtr \cup SysPtr
  /\ faults \subseteq Fault

-----------------------------------------------------------------------------
(* The indices in use, and those whose entry is for pointer p.             *)
Used == 0 .. count - 1
IndicesOf(p) == {i \in Used : data[i].ptr = p}
Tracked == {data[i].ptr : i \in Used}

(* The loop of free and of realloc stops at the first match.               *)
FirstIndexOf(p) ==
  CHOOSE i \in IndicesOf(p) : \A j \in IndicesOf(p) : i <= j

MkEntry(p, s, a) == [ptr |-> p, size |-> s, alignment |-> a]

(* Room for one more entry.                                                *)
Room == count < MAX_HEAP_TRACKED

(* The table as free leaves it: the last entry moved to the freed one.     *)
(* Mutant: the last entry is dropped instead.                              *)
SwapRemovedNoMove(i) == data
SwapRemoved(i) == [data EXCEPT ![i] = data[count - 1]]

(* The table as realloc leaves it.  Mutant: the new size is not recorded.  *)
MovedOldSize(i, q, s) == [data EXCEPT ![i].ptr = q]
Moved(i, q, s) == [data EXCEPT ![i].ptr = q, ![i].size = s]

(* heap->Deallocate: right only for an allocated block and its own size    *)
(* and alignment.                                                          *)
Returnable(p, e) ==
  /\ p \in live
  /\ block[p] = [size |-> e.size, alignment |-> e.alignment]
DeallocateFault(p, e) ==
  IF Returnable(p, e) THEN {} ELSE {[call |-> "Deallocate", ptr |-> p]}

(* s_sysFree: right only for a block of the system allocator.              *)
SysFree(p) ==
  /\ sys' = sys \ {p}
  /\ faults' = faults \cup
       (IF p \in sys THEN {} ELSE {[call |-> "sysFree", ptr |-> p]})

-----------------------------------------------------------------------------
Init ==
  /\ heapUp \in BOOLEAN
  /\ live = {}
  /\ block = [p \in HeapPtr |-> [size |-> 0, alignment |-> 0]]
  /\ sys = {}
  /\ data = [i \in 0 .. MAX_HEAP_TRACKED - 1 |-> MkEntry(NullPtr, 0, 0)]
  /\ count = 0
  /\ owned = {}
  /\ overflow = FALSE
  /\ dropped = {}
  /\ faults = {}

(* The game creates its heap.                                              *)
HeapCreated ==
  /\ ~heapUp
  /\ heapUp' = TRUE
  /\ UNCHANGED <<heapVars, tableVars, owned, dropped>>

(* aligned_alloc before the heap exists.                                   *)
SysAlloc ==
  \E p \in SysPtr \ sys :
    /\ ~heapUp
    /\ sys' = sys \cup {p}
    /\ owned' = owned \cup {p}
    /\ UNCHANGED <<heapUp, live, block, faults, tableVars, dropped>>

(* aligned_alloc once it exists: a block of the game heap, tracked when    *)
(* there is room.  An allocation the heap refuses changes nothing.         *)
HeapAlloc(s, a) ==
  \E p \in HeapPtr \ live :
    /\ heapUp
    /\ live' = live \cup {p}
    /\ block' = [block EXCEPT ![p] = [size |-> s, alignment |-> a]]
    /\ owned' = owned \cup {p}
    /\ IF Room
         THEN /\ data' = [data EXCEPT ![count] = MkEntry(p, s, a)]
              /\ count' = count + 1
              /\ UNCHANGED overflow
         ELSE /\ overflow' = TRUE
              /\ UNCHANGED <<data, count>>
    /\ UNCHANGED <<heapUp, sys, faults, dropped>>

AlignedAlloc(a, s) == SysAlloc \/ HeapAlloc(s, a)
Malloc(s) == SysAlloc \/ HeapAlloc(s, DefaultAlignment)
Calloc(num, s) == Malloc((num * s) % WordSize)

(* free(p).  free(nullptr) changes nothing.                                *)
Free(p) ==
  /\ p \in owned
  /\ owned' = owned \ {p}
  /\ IF heapUp /\ p \in Tracked
       THEN LET i == FirstIndexOf(p) IN
            /\ live' = live \ {p}
            /\ faults' = faults \cup DeallocateFault(p, data[i])
            /\ data' = SwapRemoved(i)
            /\ count' = count - 1
            /\ UNCHANGED sys
       ELSE /\ SysFree(p)
            /\ UNCHANGED <<live, data, count>>
  /\ UNCHANGED <<heapUp, block, overflow, dropped>>

(* realloc of a tracked block: a new block with the recorded alignment,    *)
(* the old one given back, the entry rewritten in place.  The new block is *)
(* allocated first, so it is another one; when the heap refuses, nothing   *)
(* changes.                                                                *)
ReallocTracked(p, s) ==
  \E q \in HeapPtr \ live :
    /\ heapUp
    /\ p \in owned \cap Tracked
    /\ s # 0
    /\ LET i == FirstIndexOf(p) IN
       /\ live' = (live \cup {q}) \ {p}
       /\ block' = [block EXCEPT ![q] =
                      [size |-> s, alignment |-> data[i].alignment]]
       /\ faults' = faults \cup DeallocateFault(p, data[i])
       /\ data' = Moved(i, q, s)
    /\ owned' = (owned \ {p}) \cup {q}
    /\ UNCHANGED <<heapUp, sys, count, overflow, dropped>>

(* realloc of a pointer that is not in the table: freed by the system      *)
(* allocator, and nullptr returned.  nullptr tells the caller that its     *)
(* block is untouched, so the caller still holds it.                       *)
ReallocUntracked(p, s) ==
  /\ heapUp
  /\ p \in owned \ Tracked
  /\ s # 0
  /\ SysFree(p)
  /\ dropped' = dropped \cup {p}
  /\ UNCHANGED <<heapUp, live, block, tableVars, owned>>

(* realloc before the heap exists: the system's, which may move the block. *)
SysRealloc(p) ==
  \E q \in (SysPtr \ sys) \cup {p} :
    /\ ~heapUp
    /\ p \in owned
    /\ sys' = (sys \ {p}) \cup {q}
    /\ owned' = (owned \ {p}) \cup {q}
    /\ UNCHANGED <<heapUp, live, block, faults, tableVars, dropped>>

(* realloc(p, s); realloc(nullptr, s) is malloc(s), realloc(p, 0) free(p). *)
Realloc(p, s) ==
  \/ p = NullPtr /\ Malloc(s)
  \/ s = 0 /\ heapUp /\ Free(p)
  \/ SysRealloc(p)
  \/ ReallocTracked(p, s)
  \/ ReallocUntracked(p, s)

Next ==
  \/ HeapCreated
  \/ \E s \in Sizes : Malloc(s)
  \/ \E s \in Sizes, a \in Alignments : AlignedAlloc(a, s)
  \/ \E n, s \in Sizes : Calloc(n, s)
  \/ \E p \in owned : Free(p)
  \/ \E p \in owned \cup {NullPtr}, s \in Sizes : Realloc(p, s)

Spec == Init /\ [][Next]_vars

-----------------------------------------------------------------------------
(* Every entry in use is for an allocated block and has the size and the   *)
(* alignment it was allocated with, whatever mix of calls came before.     *)
EntriesExact ==
  \A i \in Used :
    /\ data[i].ptr \in live
    /\ block[data[i].ptr] =
         [size |-> data[i].size, alignment |-> data[i].alignment]

(* No block has two entries: the second would outlive the block.           *)
EntriesDistinct ==
  \A i, j \in Used : data[i].ptr = data[j].ptr => i = j

TableSound == EntriesExact /\ EntriesDistinct

(* The game heap is never told a wrong size, alignment or pointer when it  *)
(* takes a block back: what it relies on the table for.                    *)
DeallocateExact == \A f \in faults : f.call # "Deallocate"

(* Until the table overflows, or realloc meets a pointer from before the   *)
(* heap, the two fallbacks to the system allocator have not gone wrong.    *)
Undisturbed == ~overflow /\ dropped = {}

(* So far as nothing of that kind happened, callers hold exactly the       *)
(* allocated blocks (none freed under them, none leaked) and no block went *)
(* to the wrong allocator.                                                 *)
OwnedIsAllocated == Undisturbed => owned = live \cup sys
RightAllocator == Undisturbed => faults = {}

(* A block of the game heap goes to the system's free only after the table *)
(* overflowed.                                                             *)
HeapBlockToSystem ==
  (\E f \in faults : f.call = "sysFree" /\ f.ptr \in HeapPtr) => overflow

(* The inductive invariant behind these: what is true of the two           *)
(* allocators, the table and the callers' pointers together.               *)
Bookkeeping ==
  /\ ~heapUp => live = {}
  /\ owned \cap HeapPtr \subseteq live
  /\ sys \subseteq owned
  /\ dropped = {} => owned \cap SysPtr \subseteq sys
  /\ ~overflow => live \subseteq owned \cap Tracked

IInv ==
  /\ TypeOK
  /\ TableSound
  /\ DeallocateExact
  /\ RightAllocator
  /\ HeapBlockToSystem
  /\ Bookkeeping
=============================================================================
