------------------------------ MODULE NvnBackend ------------------------------
(***************************************************************************)
(* ImGui's backend (common/src/imgui_backend/imgui_impl_nvn.cpp,           *)
(* MemoryBuffer.cpp): its start, step by step, and a frame, which copies   *)
(* the vertices and indices of all lists to two buffers and submits draws  *)
(* that the GPU runs later.  Nothing waits for the GPU.  Sizes count       *)
(* vertices, a page holds Page of them; a list has as many indices.        *)
(***************************************************************************)
EXTENDS Naturals, Sequences

CONSTANTS
  Page,         \* what sizes are rounded up to, for 0x1000
  MaxFrame      \* bound: frames drawn

ASSUME BackendAssumption == Page \in Nat \ {0} /\ MaxFrame \in Nat

VARIABLES
  setup,          \* steps of InitBackend that succeeded
  isInitialized,
  vtxBuffer, idxBuffer,   \* the two MemoryBuffers
  frame,          \* frames begun
  submitted,      \* draws that the GPU has not run yet
  foreign,        \* history: a draw read what was not its own list
  late            \* history: a frame began before the GPU had run the last

backVars == <<setup, isInitialized, vtxBuffer, idxBuffer, frame, submitted,
              foreign, late>>

Steps == <<"commandPool", "shaderFile", "program", "shaderMemory", "setShaders",
           "uniformMemory", "sampTexPool", "samplerPool", "texPool",
           "fontPool", "fontTexture", "fontSampler">>

(* A list of a frame is the number of its vertices.  What is in a buffer   *)
(* at an offset is the frame and list it was copied from.                  *)
Lists == {<<a>> : a \in 1..3} \cup {<<a, b>> : a, b \in 1..2}
Nothing == <<0, 0>>
NoBuffer == [size |-> 0, ready |-> FALSE, data |-> <<>>, made |-> 0]
AlignUp(n) == ((n + Page - 1) \div Page) * Page
Total(lists) == IF Len(lists) = 1 THEN lists[1] ELSE lists[1] + lists[2]

BackTypeOK ==
  /\ setup \in 0..Len(Steps) /\ frame \in 0..MaxFrame
  /\ \A b \in {vtxBuffer, idxBuffer} :
       /\ b.size \in Nat /\ b.ready \in BOOLEAN
       /\ b.data \in Seq((0..MaxFrame) \X (0..2)) /\ Len(b.data) = b.size
  /\ {isInitialized, foreign, late} \subseteq BOOLEAN

BackInit ==
  /\ setup = 0 /\ isInitialized = FALSE
  /\ vtxBuffer = NoBuffer /\ idxBuffer = NoBuffer
  /\ frame = 0 /\ submitted = <<>>
  /\ foreign = FALSE /\ late = FALSE

-----------------------------------------------------------------------------
(* InitBackend, createShaders, setupShaders, setupFont: any step may fail, *)
(* and then the others are left out.  Mutant: the last is not asked for.   *)
AllButLast(n) == n >= Len(Steps) - 1
AllDone(n) == n = Len(Steps)
InitBackend(n) ==
  /\ frame = 0 /\ setup = 0 /\ ~isInitialized
  /\ setup' = n
  /\ isInitialized' = AllDone(n)
  /\ UNCHANGED <<vtxBuffer, idxBuffer, frame, submitted, foreign, late>>

(* new MemoryBuffer: it is ready when its pool and its buffer could be     *)
(* made; a pool that could not has any size.                               *)
MadeBuffer(n) ==
  {[size |-> AlignUp(n), ready |-> r, made |-> frame + 1,
    data |-> [i \in 1..AlignUp(n) |-> Nothing]] : r \in BOOLEAN}
  \cup {[NoBuffer EXCEPT !.made = frame + 1]}

(* It is made anew when the frame does not fit.  Mutant: the last page is  *)
(* taken for larger than it is.                                            *)
TooSmallByPage(b, n) == b.size + Page <= n
TooSmall(b, n) == b.size < n
Fitted(b, n) == IF b.made = 0 \/ TooSmall(b, n) THEN MadeBuffer(n) ELSE {b}

(* memcpy of every list, one after the other.  Mutant: the offset of the   *)
(* second is not moved on.                                                 *)
OffsetKept(lists, k) == 0
Offset(lists, k) == IF k = 1 THEN 0 ELSE lists[1]
Copied(b, lists) ==
  [b EXCEPT !.data = [i \in DOMAIN b.data |->
     LET in == {k \in DOMAIN lists : i > Offset(lists, k)
                                      /\ i <= Offset(lists, k) + lists[k]}
     IN IF in = {} THEN b.data[i]
        ELSE <<frame + 1, CHOOSE k \in in : \A j \in in : j <= k>>]]
Draws(lists, vtx, idx) ==
  [k \in DOMAIN lists |->
     [list |-> <<frame + 1, k>>, from |-> Offset(lists, k), count |-> lists[k],
      vtx |-> vtx.made, idx |-> idx.made]]

(* renderDrawData: nothing is drawn when there is no list, the backend did *)
(* not start or a buffer is not ready.  The old draws are in the queue.    *)
RenderNothing ==
  /\ frame < MaxFrame
  /\ frame' = frame + 1
  /\ late' = (late \/ submitted # <<>>)
  /\ UNCHANGED <<setup, isInitialized, vtxBuffer, idxBuffer, submitted, foreign>>
RenderDrawData(lists, vtx, idx) ==
  /\ frame < MaxFrame
  /\ isInitialized
  /\ frame' = frame + 1
  /\ late' = (late \/ submitted # <<>>)
  /\ IF vtx.ready /\ idx.ready
       THEN /\ vtxBuffer' = Copied(vtx, lists)
            /\ idxBuffer' = Copied(idx, lists)
            /\ submitted' = submitted \o Draws(lists, vtx, idx)
       ELSE /\ vtxBuffer' = vtx /\ idxBuffer' = idx
            /\ UNCHANGED submitted
  /\ UNCHANGED <<setup, isInitialized, foreign>>

(* The GPU runs a draw: it reads the buffers as they are now, or memory    *)
(* that was freed when they have been made anew.                           *)
Own(b, made, d) ==
  /\ b.made = made
  /\ \A i \in d.from + 1..d.from + d.count :
       i \in DOMAIN b.data /\ b.data[i] = d.list
GpuDraws ==
  /\ submitted # <<>>
  /\ submitted' = Tail(submitted)
  /\ LET d == Head(submitted)
     IN foreign' = (foreign \/ setup < Len(Steps)
                     \/ ~Own(vtxBuffer, d.vtx, d) \/ ~Own(idxBuffer, d.idx, d))
  /\ UNCHANGED <<setup, isInitialized, vtxBuffer, idxBuffer, frame, late>>

BackNext ==
  \/ \E n \in 1..Len(Steps) : InitBackend(n)
  \/ RenderNothing
  \/ \E lists \in Lists :
       \E vtx \in Fitted(vtxBuffer, Total(lists)), idx \in Fitted(idxBuffer, Total(lists)) :
         RenderDrawData(lists, vtx, idx)
  \/ GpuDraws

BackSpec == BackInit /\ [][BackNext]_backVars

-----------------------------------------------------------------------------
(* Every draw reads the vertices and indices of its own list and frame, in *)
(* memory that is still there, with everything it binds set up, however    *)
(* the frames grow and the buffers are made anew, unless the next frame    *)
(* began before the GPU had run the last: nothing here waits for it.       *)
DrawsOwnLists == foreign => late
=============================================================================
