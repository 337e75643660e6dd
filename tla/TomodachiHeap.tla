----------------------------- MODULE TomodachiHeap -----------------------------
(***************************************************************************)
(* The allocator of the Tomodachi Life mods (tomodachi_life_ltd/common/    *)
(* src/allocator.cpp): blocks of a static heap until the game's own heap   *)
(* is there, and again after an exception; a table tells free whose a      *)
(* block is.  free leaves a hole, which is only taken back at the end of   *)
(* the table; realloc leaves the table as it is.                           *)
(***************************************************************************)
EXTENDS Integers, Sequences

CONSTANTS
  BssAddr,       \* addresses of the static heap
  GameAddr,      \* addresses of the game's ForResourceL heap
  MAX_HEAP_TRACKED

Hole == "hole"         \* the null pointer of a freed entry
TAddr == BssAddr \cup GameAddr

ASSUME TomodachiAssumption ==
  /\ BssAddr \cap GameAddr = {} /\ Hole \notin TAddr
  /\ MAX_HEAP_TRACKED \in Nat \ {0}

VARIABLES
  heapReady,          \* the game's heap has been made
  gSetForceBssHeap,
  table,              \* m_heapAllocData up to m_heapAllocCount
  taken,              \* addresses that are allocated
  mine,               \* those that the program uses
  untracked,          \* history: blocks that came when the table was full
  moved,              \* history: blocks that realloc moved
  freedBy             \* history: last block freed and the heap it was given to

tomoVars == <<heapReady, gSetForceBssHeap, table, taken, mine, untracked,
              moved, freedBy>>

HeapOf(a) == IF a \in BssAddr THEN "bss" ELSE "game"
HeapData == [ptr : TAddr \cup {Hole}, heap : {"bss", "game"}]
Nobody == [ptr |-> Hole, heap |-> "bss"]

TomoTypeOK ==
  /\ heapReady \in BOOLEAN /\ gSetForceBssHeap \in BOOLEAN
  /\ table \in Seq(HeapData) /\ Len(table) <= MAX_HEAP_TRACKED
  /\ mine \subseteq taken /\ taken \subseteq TAddr
  /\ untracked \subseteq mine /\ moved \subseteq mine
  /\ freedBy \in HeapData

TomoInit ==
  /\ heapReady = FALSE /\ gSetForceBssHeap = FALSE
  /\ table = <<>> /\ taken = {} /\ mine = {}
  /\ untracked = {} /\ moved = {} /\ freedBy = Nobody

-----------------------------------------------------------------------------
HeapAppears ==
  /\ ~heapReady
  /\ heapReady' = TRUE
  /\ UNCHANGED <<gSetForceBssHeap, table, taken, mine, untracked, moved, freedBy>>
OnExceptionHandler ==
  /\ gSetForceBssHeap' = TRUE
  /\ UNCHANGED <<heapReady, table, taken, mine, untracked, moved, freedBy>>

(* aligned_alloc, malloc: which heap, and an entry while there is room.    *)
Chosen == IF heapReady /\ ~gSetForceBssHeap THEN "game" ELSE "bss"
TomoAlloc(a) ==
  /\ a \notin taken /\ HeapOf(a) = Chosen
  /\ taken' = taken \cup {a} /\ mine' = mine \cup {a}
  /\ IF Len(table) < MAX_HEAP_TRACKED
       THEN /\ table' = Append(table, [ptr |-> a, heap |-> Chosen])
            /\ UNCHANGED untracked
       ELSE untracked' = untracked \cup {a} /\ UNCHANGED table
  /\ UNCHANGED <<heapReady, gSetForceBssHeap, moved, freedBy>>

(* The first entry with the pointer; a hole matches the null pointer.      *)
EntriesOf(p) == {i \in DOMAIN table : table[i].ptr = p}
FirstEntry(p) == CHOOSE i \in EntriesOf(p) : \A j \in EntriesOf(p) : i <= j

(* The hole, and the count one less when it is the last.  Mutant: the      *)
(* count goes down to the hole, wherever it is.                            *)
ClearedAbove(i) == SubSeq(table, 1, i - 1)
Cleared(i) ==
  IF i = Len(table) THEN SubSeq(table, 1, i - 1)
  ELSE [table EXCEPT ![i].ptr = Hole]
TomoFree(a) ==
  /\ a \in mine
  /\ mine' = mine \ {a}
  /\ untracked' = untracked \ {a} /\ moved' = moved \ {a}
  /\ IF EntriesOf(a) = {}
       THEN UNCHANGED <<table, taken, freedBy>>
       ELSE LET i == FirstEntry(a) IN
            /\ taken' = taken \ {a}
            /\ freedBy' = table[i]
            /\ table' = Cleared(i)
  /\ UNCHANGED <<heapReady, gSetForceBssHeap>>
FreeNull ==
  /\ EntriesOf(Hole) # {}
  /\ table' = Cleared(FirstEntry(Hole))
  /\ UNCHANGED <<heapReady, gSetForceBssHeap, taken, mine, untracked, moved, freedBy>>

(* realloc: the heap moves the block when it must.  A block that is not in *)
(* the table is refused.                                                   *)
TomoRealloc(a, b) ==
  /\ a \in mine /\ EntriesOf(a) # {}
  /\ b \notin taken
  /\ HeapOf(b) = table[FirstEntry(a)].heap
  /\ taken' = (taken \ {a}) \cup {b}
  /\ mine' = (mine \ {a}) \cup {b}
  /\ untracked' = untracked \ {a}
  /\ moved' = (moved \ {a}) \cup {b}
  /\ UNCHANGED <<heapReady, gSetForceBssHeap, table, freedBy>>

TomoNext ==
  \/ HeapAppears \/ OnExceptionHandler \/ FreeNull
  \/ \E a \in TAddr :
       TomoAlloc(a) \/ TomoFree(a) \/ \E b \in TAddr : TomoRealloc(a, b)

TomoSpec == TomoInit /\ [][TomoNext]_tomoVars

-----------------------------------------------------------------------------
(* Whatever entries realloc and free have left behind, every block is      *)
(* found in the table, for the heap it came from, until it is freed; only  *)
(* one that realloc moved, or that came while the table was full (of       *)
(* holes, perhaps), is not, and is then never given back.                  *)
FoundWhenFreed ==
  /\ \A a \in mine \ (untracked \cup moved) :
       EntriesOf(a) # {} /\ table[FirstEntry(a)].heap = HeapOf(a)
  /\ freedBy.ptr # Hole => freedBy.heap = HeapOf(freedBy.ptr)
=============================================================================
