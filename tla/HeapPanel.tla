------------------------------- MODULE HeapPanel -------------------------------
(***************************************************************************)
(* The Performance window of the debug menus (pokemon_sv and pokemon_za,   *)
(* mod_debug_tools/src/ui.cpp): the times of the last frames, and for each *)
(* heap of the game what it holds and by how much that changed.  What was  *)
(* held in the frame before is kept by position, in a table of fixed size. *)
(***************************************************************************)
EXTENDS Integers, Sequences, SequencesExt

VARIABLES
  heaps,         \* size of each heap of the managers, in their order
  globalHeap,    \* size of s_globalHeap; NoHeap before it is made
  heapInfo,      \* lastAllocSize of each entry of the table
  changes,       \* for each heap drawn in the last frame: its position,
                 \* the change shown, and its size
  lastHeaps,     \* history: the heaps of the last frame
  counts         \* the times of the last frames

panelVars == <<heaps, globalHeap, heapInfo, changes, lastHeaps, counts>>

HEAPMETA_MAX == 3        \* 550
NoHeap == 9
Size == 0..1             \* bound: bytes in use
MaxHeaps == 3            \* bound: heaps of all managers
Times == 2               \* 120 times are kept
FrameTime == 0..1

PanelTypeOK ==
  /\ heaps \in BoundedSeq(Size \cup {NoHeap}, MaxHeaps)
  /\ globalHeap \in Size \cup {NoHeap}
  /\ heapInfo \in [0..HEAPMETA_MAX - 1 -> Size]
  /\ counts \in [1..Times -> FrameTime]

PanelInit ==
  /\ heaps = <<>> /\ globalHeap = NoHeap
  /\ heapInfo = [j \in 0..HEAPMETA_MAX - 1 |-> 0]
  /\ changes = {} /\ lastHeaps = <<>> /\ counts = [i \in 1..Times |-> 0]

(* The heaps as they are counted, the global one first.                    *)
Counted == <<globalHeap>> \o heaps

-----------------------------------------------------------------------------
(* The game: heaps come and go, at any place of a manager, and change.     *)
CreateHeap(size) ==
  /\ Len(heaps) < MaxHeaps
  /\ heaps' = Append(heaps, size)
  /\ UNCHANGED <<globalHeap, heapInfo, changes, lastHeaps, counts>>
DestroyHeap(i) ==
  /\ i \in 1..Len(heaps)
  /\ heaps' = RemoveAt(heaps, i)
  /\ UNCHANGED <<globalHeap, heapInfo, changes, lastHeaps, counts>>
UseHeap(i, size) ==
  /\ i \in 1..Len(heaps) /\ heaps[i] # NoHeap
  /\ heaps' = [heaps EXCEPT ![i] = size]
  /\ UNCHANGED <<globalHeap, heapInfo, changes, lastHeaps, counts>>
UseGlobalHeap(size) ==
  /\ globalHeap' = size
  /\ UNCHANGED <<heaps, heapInfo, changes, lastHeaps, counts>>

(* The table is used up to one entry short of its end; the heaps beyond    *)
(* are counted but not shown.                                              *)
HasEntry(j) == j = 0 \/ j + 1 < HEAPMETA_MAX
Entry(j) == j \in DOMAIN heapInfo

(* ImguiHeapData.  Mutant: the size is not remembered.                     *)
RememberedNever(size, old) == old
Remembered(size, old) == size
Drawn == {j \in 0..Len(heaps) : HasEntry(j) /\ Counted[j + 1] # NoHeap}
DrawHeaps ==
  /\ changes' = {[at |-> j, size |-> Counted[j + 1],
                  change |-> Counted[j + 1] - (IF Entry(j) THEN heapInfo[j] ELSE 0)]
                   : j \in Drawn}
  /\ heapInfo' = [j \in DOMAIN heapInfo |->
                    IF j \in Drawn THEN Remembered(Counted[j + 1], heapInfo[j])
                    ELSE heapInfo[j]]
  /\ lastHeaps' = Counted

(* The times move up by one.  The percentiles are read off the sorted      *)
(* times, between two neighbours; in hundredths.                           *)
PushTime(t) == counts' = Append(Tail(counts), t)
Percentile(sorted, p) ==
  LET idx == p * (Times - 1)
      i0 == idx \div 100
      i1 == IF i0 + 1 < Times - 1 THEN i0 + 1 ELSE Times - 1
  IN sorted[i0 + 1] * (100 - (idx % 100)) + sorted[i1 + 1] * (idx % 100)
Sorted(times) == SortSeq(times, LAMBDA a, b : a < b)
Shown == [p \in {50, 90, 99} |-> Percentile(Sorted(counts), p)]

DrawPerformance(t) ==
  /\ DrawHeaps /\ PushTime(t)
  /\ UNCHANGED <<heaps, globalHeap>>

PanelNext ==
  \/ \E size \in Size : CreateHeap(size) \/ UseGlobalHeap(size)
  \/ CreateHeap(NoHeap)
  \/ \E i \in 1..MaxHeaps : DestroyHeap(i) \/ \E size \in Size : UseHeap(i, size)
  \/ \E t \in FrameTime : DrawPerformance(t)

PanelSpec == PanelInit /\ [][PanelNext]_panelVars

-----------------------------------------------------------------------------
(* The change shown for a heap is that since the frame before, if the heap *)
(* was at the same position then and was drawn: what came or went before   *)
(* it in the list shifts the others, and is not noticed.                   *)
ShowsChange(c) ==
  /\ c.at \in DOMAIN heapInfo /\ c.at + 1 \in DOMAIN lastHeaps
  /\ lastHeaps[c.at + 1] # NoHeap
  => c.change = c.size - lastHeaps[c.at + 1]
ChangeSinceLastFrame ==
  [][lastHeaps' # lastHeaps \/ changes' # changes =>
       \A c \in changes' : ShowsChange(c)]_panelVars
=============================================================================
