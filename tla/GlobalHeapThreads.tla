-------------------------- MODULE GlobalHeapThreads --------------------------
(***************************************************************************)
(* The calls of GlobalHeap taken apart into the memory accesses they make, *)
(* for threads that may overlap: the game thread, the threads of           *)
(* ThreadUtil, the websocket thread.  The line that would take m_heapMutex *)
(* (GlobalHeap_Utils.cpp:67 for Scarlet/Violet, :66 in the copy for        *)
(* Legends Z-A) is commented out, so nothing orders them.                  *)
(*                                                                         *)
(* The game heap itself exists from the start and each call to it is one   *)
(* step: it is the game's, and has its own lock.                           *)
(***************************************************************************)
EXTENDS Integers

CONSTANTS Threads, HeapPtr, NullPtr, Sizes, Alignments, WordSize,
          MAX_HEAP_TRACKED

ASSUME ThreadAssumption ==
  /\ NullPtr \notin HeapPtr
  /\ WordSize \in Nat
  /\ MAX_HEAP_TRACKED \in 1 .. WordSize - 1
  /\ Sizes \subseteq 1 .. WordSize - 1
  /\ Alignments \subseteq Nat

VARIABLES
  live, block, data, count, owned, overflow, dropped, faults, \* as GlobalHeap
  pc,         \* where each thread is
  arg,        \* its arguments and local variables
  before      \* history: the shared state when a call last began alone

shared == <<live, block, data, count, owned, overflow, dropped, faults>>
vars == <<shared, pc, arg, before>>

Index == 0 .. MAX_HEAP_TRACKED - 1
Steps == {"idle", "room", "store", "scan", "give", "decrement", "decremented",
          "copy", "move", "return", "repoint", "resize"}
NoArg == [call |-> "none", ptr |-> NullPtr, new |-> NullPtr, size |-> 0,
          alignment |-> 0, i |-> 0, n |-> 0, todo |-> {}]

Entry(p, s, a) == [ptr |-> p, size |-> s, alignment |-> a]
Snapshot == [live |-> live, block |-> block, data |-> data, count |-> count,
             owned |-> owned, overflow |-> overflow, dropped |-> dropped,
             faults |-> faults]

AllIdle == \A t \in Threads : pc[t] = "idle"

TypeOK ==
  /\ live \subseteq HeapPtr
  /\ count \in 0 .. WordSize - 1
  /\ owned \subseteq HeapPtr
  /\ pc \in [Threads -> Steps]
  /\ \A i \in Index : data[i].ptr \in HeapPtr \cup {NullPtr}

-----------------------------------------------------------------------------
Goto(t, step) == pc' = [pc EXCEPT ![t] = step]
Begin(t, call, p, s, a) ==
  /\ pc[t] = "idle"
  /\ arg' = [arg EXCEPT ![t] =
       [NoArg EXCEPT !.call = call, !.ptr = p, !.size = s, !.alignment = a]]
  /\ before' = IF AllIdle THEN Snapshot ELSE before

(* An access past the end of the table reads or writes other memory; here  *)
(* it is only recorded.                                                    *)
At(i) == IF i \in Index THEN data[i] ELSE Entry(NullPtr, 0, 0)
OutOfTable(i) ==
  IF i \in Index THEN {} ELSE {[call |-> "outOfTable", ptr |-> NullPtr]}
Fault(call, p) == [call |-> call, ptr |-> p]
DeallocateFault(p, e) ==
  IF p \in live /\ block[p] = [size |-> e.size, alignment |-> e.alignment]
    THEN {} ELSE {Fault("Deallocate", p)}

-----------------------------------------------------------------------------
(* aligned_alloc: the block, then the entry.                               *)
AllocBegin(t, s, a) ==
  \E p \in HeapPtr \ live :
    /\ Begin(t, "alloc", p, s, a)
    /\ live' = live \cup {p}
    /\ block' = [block EXCEPT ![p] = [size |-> s, alignment |-> a]]
    /\ Goto(t, "room")
    /\ UNCHANGED <<data, count, owned, overflow, dropped, faults>>

(* m_heapAllocCount is read once for the bound and for the index.          *)
AllocRoom(t) ==
  /\ pc[t] = "room"
  /\ IF count < MAX_HEAP_TRACKED
       THEN /\ arg' = [arg EXCEPT ![t].n = count,
                                  ![t].todo = {"count", "entry"}]
            /\ Goto(t, "store")
            /\ UNCHANGED <<owned, overflow>>
       ELSE /\ owned' = owned \cup {arg[t].ptr}
            /\ overflow' = TRUE
            /\ Goto(t, "idle")
            /\ UNCHANGED arg
  /\ UNCHANGED <<live, block, data, count, dropped, faults, before>>

(* The two stores of data[count++] = {...}, in the order the build chose.  *)
AllocStore(t, w) ==
  /\ pc[t] = "store"
  /\ w \in arg[t].todo
  /\ arg' = [arg EXCEPT ![t].todo = @ \ {w}]
  /\ count' = IF w = "count" THEN arg[t].n + 1 ELSE count
  /\ data' = IF w = "entry"
       THEN [data EXCEPT ![arg[t].n] =
               Entry(arg[t].ptr, arg[t].size, arg[t].alignment)]
       ELSE data
  /\ IF arg[t].todo = {w}
       THEN owned' = owned \cup {arg[t].ptr} /\ Goto(t, "idle")
       ELSE UNCHANGED <<owned, pc>>
  /\ UNCHANGED <<live, block, overflow, dropped, faults, before>>

-----------------------------------------------------------------------------
FreeBegin(t, p) ==
  /\ p \in owned
  /\ Begin(t, "free", p, 0, 0)
  /\ owned' = owned \ {p}
  /\ Goto(t, "scan")
  /\ UNCHANGED <<live, block, data, count, overflow, dropped, faults>>

ReallocBegin(t, p, s) ==
  /\ p \in owned
  /\ Begin(t, "realloc", p, s, 0)
  /\ Goto(t, "scan")
  /\ UNCHANGED shared

(* One turn of the search loop, which re-reads the count.                  *)
ScanNext(t) ==
  /\ pc[t] = "scan"
  /\ arg[t].i < count
  /\ faults' = faults \cup OutOfTable(arg[t].i)
  /\ IF At(arg[t].i).ptr = arg[t].ptr
       THEN /\ Goto(t, IF arg[t].call = "free" THEN "give" ELSE "move")
            /\ UNCHANGED arg
       ELSE arg' = [arg EXCEPT ![t].i = @ + 1] /\ UNCHANGED pc
  /\ UNCHANGED <<live, block, data, count, owned, overflow, dropped, before>>

(* No entry: the system's free.  A caller of realloc is told nullptr and   *)
(* keeps its pointer.                                                      *)
ScanEnd(t) ==
  /\ pc[t] = "scan"
  /\ arg[t].i >= count
  /\ faults' = faults \cup {Fault("sysFree", arg[t].ptr)}
  /\ dropped' = IF arg[t].call = "free" THEN dropped
                                        ELSE dropped \cup {arg[t].ptr}
  /\ Goto(t, "idle")
  /\ UNCHANGED <<live, block, data, count, owned, overflow, arg, before>>

-----------------------------------------------------------------------------
(* free: give the block back with what entry i says now, ...               *)
FreeGive(t) ==
  /\ pc[t] = "give"
  /\ faults' = faults \cup DeallocateFault(arg[t].ptr, At(arg[t].i))
  /\ live' = live \ {arg[t].ptr}
  /\ Goto(t, "decrement")
  /\ UNCHANGED <<block, data, count, owned, overflow, dropped, arg, before>>

(* ... read the count, store it less one, copy the last entry.             *)
FreeReadCount(t) ==
  /\ pc[t] = "decrement"
  /\ arg' = [arg EXCEPT ![t].n = (count + WordSize - 1) % WordSize]
  /\ Goto(t, "decremented")
  /\ UNCHANGED <<shared, before>>

FreeStoreCount(t) ==
  /\ pc[t] = "decremented"
  /\ count' = arg[t].n
  /\ Goto(t, "copy")
  /\ UNCHANGED <<live, block, data, owned, overflow, dropped, faults, arg,
                 before>>

(* Mutant: the entry after the last one is copied.                         *)
LastIndexOffByOne(t) == (arg[t].n + 1) % MAX_HEAP_TRACKED
LastIndex(t) == arg[t].n
FreeCopyLast(t) ==
  /\ pc[t] = "copy"
  /\ faults' = faults \cup OutOfTable(LastIndex(t)) \cup OutOfTable(arg[t].i)
  /\ data' = IF arg[t].i \in Index
               THEN [data EXCEPT ![arg[t].i] = At(LastIndex(t))] ELSE data
  /\ Goto(t, "idle")
  /\ UNCHANGED <<live, block, count, owned, overflow, dropped, arg, before>>

-----------------------------------------------------------------------------
(* realloc: a new block with the entry's alignment, ...                    *)
MoveAlloc(t) ==
  \E q \in HeapPtr \ live :
    /\ pc[t] = "move"
    /\ live' = live \cup {q}
    /\ block' = [block EXCEPT ![q] =
         [size |-> arg[t].size, alignment |-> At(arg[t].i).alignment]]
    /\ arg' = [arg EXCEPT ![t].new = q]
    /\ Goto(t, "return")
    /\ UNCHANGED <<data, count, owned, overflow, dropped, faults, before>>

(* (or none: realloc returns nullptr and changes nothing.)                 *)
MoveRefused(t) ==
  /\ pc[t] = "move"
  /\ Goto(t, "idle")
  /\ UNCHANGED <<shared, arg, before>>

(* ... the old one given back, the entry's pointer and then its size.      *)
MoveGive(t) ==
  /\ pc[t] = "return"
  /\ faults' = faults \cup DeallocateFault(arg[t].ptr, At(arg[t].i))
  /\ live' = live \ {arg[t].ptr}
  /\ Goto(t, "repoint")
  /\ UNCHANGED <<block, data, count, owned, overflow, dropped, arg, before>>

MovePointer(t) ==
  /\ pc[t] = "repoint"
  /\ data' = IF arg[t].i \in Index
               THEN [data EXCEPT ![arg[t].i].ptr = arg[t].new] ELSE data
  /\ Goto(t, "resize")
  /\ UNCHANGED <<live, block, count, owned, overflow, dropped, faults, arg,
                 before>>

MoveSize(t) ==
  /\ pc[t] = "resize"
  /\ data' = IF arg[t].i \in Index
               THEN [data EXCEPT ![arg[t].i].size = arg[t].size] ELSE data
  /\ owned' = (owned \ {arg[t].ptr}) \cup {arg[t].new}
  /\ Goto(t, "idle")
  /\ UNCHANGED <<live, block, count, overflow, dropped, faults, arg, before>>

-----------------------------------------------------------------------------
Init ==
  /\ live = {}
  /\ block = [p \in HeapPtr |-> [size |-> 0, alignment |-> 0]]
  /\ data = [i \in Index |-> Entry(NullPtr, 0, 0)]
  /\ count = 0
  /\ owned = {}
  /\ overflow = FALSE
  /\ dropped = {}
  /\ faults = {}
  /\ pc = [t \in Threads |-> "idle"]
  /\ arg = [t \in Threads |-> NoArg]
  /\ before = Snapshot

Alloc(t) ==
  \/ \E s \in Sizes, a \in Alignments : AllocBegin(t, s, a)
  \/ AllocRoom(t)
  \/ \E w \in {"count", "entry"} : AllocStore(t, w)
Scan(t) == ScanNext(t) \/ ScanEnd(t)
Free(t) ==
  \/ \E p \in owned : FreeBegin(t, p)
  \/ FreeGive(t) \/ FreeReadCount(t) \/ FreeStoreCount(t) \/ FreeCopyLast(t)
Realloc(t) ==
  \/ \E p \in owned, s \in Sizes : ReallocBegin(t, p, s)
  \/ MoveAlloc(t) \/ MoveRefused(t) \/ MoveGive(t)
  \/ MovePointer(t) \/ MoveSize(t)

Next == \E t \in Threads : Alloc(t) \/ Scan(t) \/ Free(t) \/ Realloc(t)
Spec == Init /\ [][Next]_vars

-----------------------------------------------------------------------------
(* A call that began alone and has not returned has had no effect yet:     *)
(* the state of the atomic specification is the one it began in.           *)
Seen == IF AllIdle THEN Snapshot ELSE before
Atomic == INSTANCE GlobalHeap WITH
  SysPtr <- {}, DefaultAlignment <- 0, heapUp <- TRUE, sys <- {},
  live <- Seen.live, block <- Seen.block, data <- Seen.data,
  count <- Seen.count, owned <- Seen.owned, overflow <- Seen.overflow,
  dropped <- Seen.dropped, faults <- Seen.faults

(* Calls that do not overlap are the atomic calls of GlobalHeap: the loop, *)
(* the stores and their order add nothing to what a caller can see.        *)
SerialCallsAreAtomic == Atomic!Spec

(* When no call is in progress, every block callers hold has one entry     *)
(* with its size and alignment, unless the table was full: what a lock     *)
(* over the table ("std::lock_guard lock(m_heapMutex)") is there for.      *)
TableSoundWhenIdle ==
  AllIdle /\ ~overflow /\ dropped = {} =>
    \A p \in owned : \E i \in Index :
      /\ i < count
      /\ data[i] = Entry(p, block[p].size, block[p].alignment)
=============================================================================
