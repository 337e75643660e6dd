---------------------------- MODULE SerialProofs ----------------------------
(***************************************************************************)
(* Theorems about the modules that take calls apart into single accesses:  *)
(* while calls do not overlap they are those of the modules in which a     *)
(* call is one step, for any number of threads that make them.             *)
(***************************************************************************)
EXTENDS MCSerial, TLAPS

-----------------------------------------------------------------------------
(* GlobalHeapThreads: no two threads are in a call, what a lock is for.    *)
Alone == \A t, u \in Threads : pc[t] # "idle" /\ pc[u] # "idle" => t = u

(* What is true of the heap and its table between two calls.               *)
EntrySet == [ptr : HeapPtr \cup {NullPtr}, size : Nat, alignment : Nat]
BetweenCalls(l, b, d, c, o) ==
  /\ l \subseteq HeapPtr /\ o \subseteq l
  /\ b \in [HeapPtr -> [size : Nat, alignment : Nat]]
  /\ d \in [Index -> EntrySet]
  /\ c \in 0 .. MAX_HEAP_TRACKED

ArgSet ==
  [call : {"none", "alloc", "free", "realloc"}, ptr : HeapPtr \cup {NullPtr},
   new : HeapPtr \cup {NullPtr}, size : Nat, alignment : Nat, i : Nat, n : Nat,
   todo : SUBSET {"count", "entry"}]

(* What a call has done so far to the state in which it began.             *)
AllocSoFar(t) ==
  LET a == arg[t] IN
  /\ a.ptr \in HeapPtr \ before.live
  /\ a.size \in Sizes /\ a.alignment \in Alignments
  /\ live = before.live \cup {a.ptr}
  /\ block = [before.block EXCEPT
                ![a.ptr] = [size |-> a.size, alignment |-> a.alignment]]
  /\ owned = before.owned /\ faults = before.faults
RoomSoFar(t) == AllocSoFar(t) /\ data = before.data /\ count = before.count
StoreSoFar(t) ==
  LET a == arg[t] IN
  /\ AllocSoFar(t)
  /\ before.count < MAX_HEAP_TRACKED /\ a.n = before.count /\ a.todo # {}
  /\ count = IF "count" \in a.todo THEN before.count ELSE before.count + 1
  /\ data = IF "entry" \in a.todo THEN before.data
            ELSE [before.data EXCEPT ![before.count] =
                    Entry(a.ptr, a.size, a.alignment)]

OwnedSoFar(t) ==
  LET a == arg[t] IN
  /\ a.ptr \in before.owned
  /\ \/ a.call = "free" /\ owned = before.owned \ {a.ptr}
     \/ a.call = "realloc" /\ owned = before.owned /\ a.size \in Sizes
(* The search has passed only entries of other blocks.                     *)
Passed(t) ==
  \A j \in 0 .. arg[t].i - 1 : before.data[j].ptr # arg[t].ptr
Found(t) ==
  /\ OwnedSoFar(t) /\ Passed(t)
  /\ arg[t].i < before.count /\ before.data[arg[t].i].ptr = arg[t].ptr
ScanSoFar(t) ==
  /\ OwnedSoFar(t) /\ Passed(t) /\ arg[t].i <= before.count
  /\ live = before.live /\ block = before.block /\ data = before.data
  /\ count = before.count /\ faults = before.faults
HitSoFar(t) == ScanSoFar(t) /\ Found(t)

GiveFault(p, e) ==
  IF p \in before.live /\ before.block[p] = [size |-> e.size, alignment |-> e.alignment]
    THEN {} ELSE {Fault("Deallocate", p)}
Given(t) ==
  faults = before.faults \cup GiveFault(arg[t].ptr, before.data[arg[t].i])
FreeSoFar(t) ==
  /\ Found(t) /\ Given(t) /\ arg[t].call = "free"
  /\ live = before.live \ {arg[t].ptr} /\ block = before.block /\ data = before.data
CountSoFar(t) ==
  FreeSoFar(t) /\ count = before.count
LessSoFar(t) ==
  FreeSoFar(t) /\ count = before.count /\ arg[t].n = before.count - 1
CopySoFar(t) ==
  FreeSoFar(t) /\ arg[t].n = before.count - 1 /\ count = before.count - 1

MoveSoFar(t) ==
  LET a == arg[t] IN
  /\ Found(t) /\ a.call = "realloc" /\ count = before.count
  /\ a.new \in HeapPtr \ before.live
  /\ block = [before.block EXCEPT
       ![a.new] = [size |-> a.size, alignment |-> before.data[a.i].alignment]]
NewSoFar(t) ==
  /\ MoveSoFar(t) /\ live = before.live \cup {arg[t].new}
  /\ data = before.data /\ faults = before.faults
BackSoFar(t) ==
  /\ MoveSoFar(t) /\ live = (before.live \cup {arg[t].new}) \ {arg[t].ptr}
  /\ Given(t)
RepointSoFar(t) == BackSoFar(t) /\ data = before.data
ResizeSoFar(t) ==
  BackSoFar(t) /\ data = [before.data EXCEPT ![arg[t].i].ptr = arg[t].new]

SoFar(t) ==
  /\ overflow = before.overflow /\ dropped = before.dropped
  /\ BetweenCalls(before.live, before.block, before.data, before.count, before.owned)
  /\ (pc[t] = "room" => RoomSoFar(t))
  /\ (pc[t] = "store" => StoreSoFar(t))
  /\ (pc[t] = "scan" => ScanSoFar(t))
  /\ (pc[t] = "give" => HitSoFar(t) /\ arg[t].call = "free")
  /\ (pc[t] = "decrement" => CountSoFar(t))
  /\ (pc[t] = "decremented" => LessSoFar(t))
  /\ (pc[t] = "copy" => CopySoFar(t))
  /\ (pc[t] = "move" => HitSoFar(t) /\ arg[t].call = "realloc")
  /\ (pc[t] = "return" => NewSoFar(t))
  /\ (pc[t] = "repoint" => RepointSoFar(t))
  /\ (pc[t] = "resize" => ResizeSoFar(t))

CallsInv ==
  /\ pc \in [Threads -> Steps] /\ arg \in [Threads -> ArgSet]
  /\ (AllIdle => BetweenCalls(live, block, data, count, owned))
  /\ \A t \in Threads : pc[t] # "idle" => SoFar(t)

(* Steps of the one thread that is in a call.                              *)
LEMMA InCall ==
  ASSUME CallsInv, Alone, NEW t \in Threads, pc[t] # "idle"
  PROVE  /\ \A u \in Threads : u # t => pc[u] = "idle"
         /\ ~AllIdle /\ Seen = before /\ SoFar(t)
         /\ arg[t] \in ArgSet
BY DEF CallsInv, Alone, AllIdle, Seen

LEMMA GoesOn ==
  ASSUME CallsInv, Alone, NEW t \in Threads, pc[t] # "idle",
         NEW s \in Steps \ {"idle"}, pc' = [pc EXCEPT ![t] = s],
         arg' \in [Threads -> ArgSet], before' = before, SoFar(t)'
  PROVE  CallsInv' /\ Seen' = Seen
<1>1. pc'[t] = s /\ pc' \in [Threads -> Steps]
      /\ \A u \in Threads : u # t => pc'[u] = "idle"
  BY InCall DEF CallsInv
<1>2. ~AllIdle' /\ ~AllIdle
  BY <1>1 DEF AllIdle
<1>3. ASSUME NEW u \in Threads, pc'[u] # "idle" PROVE SoFar(u)'
  BY <1>1, <1>3
<1> QED BY <1>1, <1>2, <1>3 DEF CallsInv, Seen

LEMMA Ends ==
  ASSUME CallsInv, Alone, NEW t \in Threads, pc[t] # "idle",
         pc' = [pc EXCEPT ![t] = "idle"], arg' \in [Threads -> ArgSet],
         BetweenCalls(live, block, data, count, owned)'
  PROVE  CallsInv' /\ Seen = before /\ Seen' = Snapshot'
<1>1. \A u \in Threads : pc'[u] = "idle"
  BY InCall DEF CallsInv
<1>2. AllIdle' /\ pc' \in [Threads -> Steps]
  BY <1>1 DEF AllIdle, CallsInv, Steps
<1>3. Seen = before
  BY InCall
<1> QED BY <1>1, <1>2, <1>3 DEF CallsInv, Seen

LEMMA Begins ==
  ASSUME CallsInv, Alone', NEW t \in Threads, pc[t] = "idle",
         NEW s \in Steps \ {"idle"}, pc' = [pc EXCEPT ![t] = s],
         arg' \in [Threads -> ArgSet],
         before' = IF AllIdle THEN Snapshot ELSE before,
         AllIdle /\ before' = Snapshot
           /\ BetweenCalls(live, block, data, count, owned) => SoFar(t)'
  PROVE  CallsInv' /\ Seen' = Seen
<1>1. pc'[t] = s /\ pc' \in [Threads -> Steps]
      /\ \A u \in Threads : u # t => pc'[u] = pc[u]
  BY DEF CallsInv
<1>2. \A u \in Threads : u # t => pc'[u] = "idle"
  BY <1>1 DEF Alone
<1>3. AllIdle /\ ~AllIdle'
  BY <1>1, <1>2 DEF AllIdle
<1>4. before' = Snapshot /\ SoFar(t)'
  BY <1>3 DEF CallsInv
<1> QED BY <1>1, <1>2, <1>3, <1>4 DEF CallsInv, Seen

-----------------------------------------------------------------------------
(* The steps of a call but its last.                                       *)
LEMMA Numbers ==
  /\ WordSize \in Nat /\ MAX_HEAP_TRACKED \in Nat /\ MAX_HEAP_TRACKED < WordSize
  /\ MAX_HEAP_TRACKED > 0 /\ Index = 0 .. MAX_HEAP_TRACKED - 1
  /\ Sizes \subseteq Nat \ {0} /\ Alignments \subseteq Nat
BY ThreadAssumption DEF Index

(* The arguments of a call that begins.                                    *)
NewArg(c, p, s, a) ==
  [NoArg EXCEPT !.call = c, !.ptr = p, !.size = s, !.alignment = a]
LEMMA NewArgs ==
  ASSUME NEW c \in {"alloc", "free", "realloc"}, NEW p \in HeapPtr, NEW s \in Nat,
         NEW a \in Nat
  PROVE  LET new == NewArg(c, p, s, a)
         IN /\ new \in ArgSet /\ new.ptr = p /\ new.size = s /\ new.alignment = a
            /\ new.call = c /\ new.i = 0
BY DEF NewArg, NoArg, ArgSet

LEMMA AllocBegins ==
  ASSUME CallsInv, Alone', NEW t \in Threads, NEW s \in Sizes, NEW a \in Alignments,
         AllocBegin(t, s, a)
  PROVE  CallsInv' /\ Seen' = Seen
<1>1. PICK p \in HeapPtr \ live :
        /\ pc[t] = "idle" /\ pc' = [pc EXCEPT ![t] = "room"]
        /\ arg' = [arg EXCEPT ![t] = NewArg("alloc", p, s, a)]
        /\ before' = (IF AllIdle THEN Snapshot ELSE before)
        /\ live' = live \cup {p}
        /\ block' = [block EXCEPT ![p] = [size |-> s, alignment |-> a]]
        /\ UNCHANGED <<data, count, owned, overflow, dropped, faults>>
  BY DEF AllocBegin, Begin, Goto, NewArg
<1> DEFINE new == NewArg("alloc", p, s, a)
<1>2. /\ new \in ArgSet /\ new.ptr = p /\ new.size = s /\ new.alignment = a
  BY Numbers, NewArgs
<1> HIDE DEF new
<1>3. arg' \in [Threads -> ArgSet] /\ arg'[t] = new /\ pc'[t] = "room"
  BY <1>1, <1>2 DEF CallsInv, new
<1>4. ASSUME AllIdle, before' = Snapshot,
             BetweenCalls(live, block, data, count, owned)
      PROVE  SoFar(t)'
  <2>0. /\ before'.live = live /\ before'.block = block /\ before'.data = data
        /\ before'.count = count /\ before'.owned = owned /\ before'.faults = faults
    BY <1>4 DEF Snapshot
  <2>1. RoomSoFar(t)'
    BY <1>1, <1>2, <1>3, <2>0 DEF RoomSoFar, AllocSoFar
  <2>2. /\ overflow' = before'.overflow /\ dropped' = before'.dropped
        /\ BetweenCalls(before'.live, before'.block, before'.data, before'.count,
                        before'.owned)
    BY <1>1, <1>4 DEF Snapshot
  <2> QED BY <1>3, <2>1, <2>2 DEF SoFar, BetweenCalls
<1>5. "room" \in Steps \ {"idle"}
  BY DEF Steps
<1> QED BY <1>1, <1>3, <1>4, <1>5, Begins

LEMMA SearchBegins ==
  ASSUME CallsInv, Alone', NEW t \in Threads, NEW p \in owned,
         NEW what \in {"free", "realloc"}, NEW s \in Sizes \cup {0},
         what = "realloc" => s \in Sizes,
         Begin(t, what, p, s, 0), Goto(t, "scan"),
         owned' = (IF what = "free" THEN owned \ {p} ELSE owned),
         UNCHANGED <<live, block, data, count, overflow, dropped, faults>>
  PROVE  CallsInv' /\ Seen' = Seen
<1>1. /\ pc[t] = "idle" /\ pc' = [pc EXCEPT ![t] = "scan"]
      /\ arg' = [arg EXCEPT ![t] = NewArg(what, p, s, 0)]
      /\ before' = (IF AllIdle THEN Snapshot ELSE before)
  BY DEF Begin, Goto, NewArg
<1> DEFINE new == NewArg(what, p, s, 0)
<1>2. ASSUME p \in HeapPtr
      PROVE  /\ new \in ArgSet /\ new.ptr = p /\ new.size = s /\ new.call = what
             /\ new.i = 0
  <2>1. s \in Nat
    BY Numbers
  <2> QED BY <1>2, <2>1, NewArgs
<1> HIDE DEF new
<1>3. AllIdle
  <2>1. ASSUME NEW u \in Threads, u # t PROVE pc[u] = "idle"
    BY <1>1, <2>1 DEF CallsInv, Alone, Steps
  <2> QED BY <1>1, <2>1 DEF AllIdle
<1>4. p \in HeapPtr
  BY <1>3 DEF CallsInv, BetweenCalls
<1>5. arg' \in [Threads -> ArgSet] /\ arg'[t] = new /\ pc'[t] = "scan"
  BY <1>1, <1>2, <1>4 DEF CallsInv, new
<1>6. ASSUME before' = Snapshot, BetweenCalls(live, block, data, count, owned)
      PROVE  SoFar(t)'
  <2>1. OwnedSoFar(t)' /\ Passed(t)'
    BY <1>2, <1>4, <1>5, <1>6 DEF OwnedSoFar, Passed, Snapshot
  <2>2. ScanSoFar(t)'
    BY <1>2, <1>4, <1>5, <1>6, <2>1 DEF ScanSoFar, Snapshot, BetweenCalls
  <2>3. /\ overflow' = before'.overflow /\ dropped' = before'.dropped
        /\ BetweenCalls(before'.live, before'.block, before'.data, before'.count,
                        before'.owned)
    BY <1>6 DEF Snapshot
  <2> QED BY <1>5, <2>2, <2>3 DEF SoFar, BetweenCalls
<1>7. "scan" \in Steps \ {"idle"}
  BY DEF Steps
<1> QED BY <1>1, <1>5, <1>6, <1>7, Begins

LEMMA RoomFound ==
  ASSUME CallsInv, Alone, NEW t \in Threads, AllocRoom(t), count < MAX_HEAP_TRACKED
  PROVE  CallsInv' /\ Seen' = Seen
<1>1. /\ pc[t] = "room" /\ pc' = [pc EXCEPT ![t] = "store"]
      /\ arg' = [arg EXCEPT ![t].n = count, ![t].todo = {"count", "entry"}]
      /\ UNCHANGED <<shared, before>>
  BY DEF AllocRoom, Goto, shared
<1>2. SoFar(t) /\ arg[t] \in ArgSet /\ RoomSoFar(t)
  BY <1>1, InCall DEF SoFar
<1>3. count \in Nat /\ count = before.count
  BY <1>2, Numbers DEF SoFar, RoomSoFar, BetweenCalls
<1>4. /\ arg' \in [Threads -> ArgSet] /\ pc'[t] = "store"
      /\ arg'[t].ptr = arg[t].ptr /\ arg'[t].size = arg[t].size
      /\ arg'[t].alignment = arg[t].alignment /\ arg'[t].n = count
      /\ arg'[t].todo = {"count", "entry"}
  BY <1>1, <1>2, <1>3 DEF CallsInv, ArgSet
<1>5. StoreSoFar(t)'
  BY <1>1, <1>2, <1>3, <1>4 DEF StoreSoFar, RoomSoFar, AllocSoFar, shared
<1>6. SoFar(t)'
  BY <1>1, <1>2, <1>4, <1>5 DEF SoFar, shared
<1>7. "store" \in Steps \ {"idle"} /\ pc[t] # "idle"
  BY <1>1 DEF Steps
<1> QED BY <1>1, <1>4, <1>6, <1>7, GoesOn

LEMMA FirstStored ==
  ASSUME CallsInv, Alone, NEW t \in Threads, NEW w \in {"count", "entry"},
         AllocStore(t, w), arg[t].todo # {w}
  PROVE  CallsInv' /\ Seen' = Seen
<1>1. /\ pc[t] = "store" /\ w \in arg[t].todo /\ pc' = pc
      /\ arg' = [arg EXCEPT ![t].todo = @ \ {w}]
      /\ count' = (IF w = "count" THEN arg[t].n + 1 ELSE count)
      /\ data' = (IF w = "entry"
                  THEN [data EXCEPT ![arg[t].n] =
                          Entry(arg[t].ptr, arg[t].size, arg[t].alignment)]
                  ELSE data)
      /\ UNCHANGED <<live, block, owned, overflow, dropped, faults, before>>
  BY DEF AllocStore
<1>2. SoFar(t) /\ arg[t] \in ArgSet /\ StoreSoFar(t)
  BY <1>1, InCall DEF SoFar
<1>3. /\ arg' \in [Threads -> ArgSet] /\ pc' = [pc EXCEPT ![t] = "store"]
      /\ arg'[t].ptr = arg[t].ptr /\ arg'[t].size = arg[t].size
      /\ arg'[t].alignment = arg[t].alignment /\ arg'[t].n = arg[t].n
      /\ arg'[t].todo = arg[t].todo \ {w}
  BY <1>1, <1>2 DEF CallsInv, ArgSet
<1>4. arg[t].todo = {"count", "entry"}
  BY <1>1, <1>2 DEF ArgSet
<1>5. /\ count = before.count /\ data = before.data /\ arg[t].n = before.count
  BY <1>2, <1>4 DEF StoreSoFar
<1>6. StoreSoFar(t)'
  <2>1. AllocSoFar(t)'
    BY <1>1, <1>2, <1>3 DEF StoreSoFar, AllocSoFar
  <2>2. before'.count < MAX_HEAP_TRACKED /\ arg'[t].n = before'.count
    BY <1>1, <1>2, <1>3, <1>5 DEF StoreSoFar
  <2>3. CASE w = "count"
    <3>1. arg'[t].todo = {"entry"}
      BY <1>3, <1>4, <2>3
    <3> QED BY <1>1, <1>5, <2>1, <2>2, <2>3, <3>1 DEF StoreSoFar
  <2>4. CASE w = "entry"
    <3>1. arg'[t].todo = {"count"}
      BY <1>3, <1>4, <2>4
    <3> QED BY <1>1, <1>3, <1>5, <2>1, <2>2, <2>4, <3>1 DEF StoreSoFar
  <2> QED BY <2>3, <2>4
<1>7. SoFar(t)'
  BY <1>1, <1>2, <1>6 DEF SoFar
<1>8. "store" \in Steps \ {"idle"} /\ pc[t] # "idle"
  BY <1>1 DEF Steps
<1> QED BY <1>1, <1>3, <1>7, <1>8, GoesOn

LEMMA ScanGoes ==
  ASSUME CallsInv, Alone, NEW t \in Threads, ScanNext(t)
  PROVE  CallsInv' /\ Seen' = Seen
<1> DEFINE i == arg[t].i
<1>1. /\ pc[t] = "scan" /\ i < count
      /\ faults' = faults \cup OutOfTable(i)
      /\ UNCHANGED <<live, block, data, count, owned, overflow, dropped, before>>
  BY DEF ScanNext
<1>2. SoFar(t) /\ arg[t] \in ArgSet /\ ScanSoFar(t) /\ pc[t] # "idle"
  BY <1>1, InCall DEF SoFar
<1>3. /\ i \in Nat /\ before.count \in 0 .. MAX_HEAP_TRACKED /\ count = before.count
      /\ data = before.data
  BY <1>2 DEF SoFar, ScanSoFar, BetweenCalls, ArgSet
<1>4. i \in Index
  BY <1>1, <1>3, Numbers
<1>5. At(i) = before.data[i] /\ faults' = faults
  BY <1>1, <1>3, <1>4 DEF At, OutOfTable
<1>6. CASE At(i).ptr = arg[t].ptr
  <2>1. arg' = arg /\ pc' = [pc EXCEPT ![t] = IF arg[t].call = "free" THEN "give"
                                              ELSE "move"]
    BY <1>6 DEF ScanNext, Goto
  <2>2. Found(t)
    BY <1>1, <1>2, <1>3, <1>5, <1>6 DEF Found, ScanSoFar
  <2>3. HitSoFar(t)' /\ pc'[t] # "scan" /\ pc'[t] \in {"give", "move"}
        /\ (pc'[t] = "give" <=> arg[t].call = "free")
    BY <1>1, <1>2, <1>5, <2>1, <2>2
       DEF HitSoFar, ScanSoFar, Found, Passed, OwnedSoFar, CallsInv
  <2>4. arg[t].call = "free" \/ arg[t].call = "realloc"
    BY <1>2 DEF ScanSoFar, OwnedSoFar
  <2>5. SoFar(t)'
    BY <1>1, <1>2, <2>1, <2>3, <2>4 DEF SoFar
  <2>6. {"give", "move"} \subseteq Steps \ {"idle"}
    BY DEF Steps
  <2>7. arg' \in [Threads -> ArgSet]
    BY <2>1 DEF CallsInv
  <2> QED BY <1>1, <1>2, <2>1, <2>5, <2>6, <2>7, GoesOn
<1>7. CASE At(i).ptr # arg[t].ptr
  <2>1. arg' = [arg EXCEPT ![t].i = @ + 1] /\ pc' = pc
    BY <1>7 DEF ScanNext
  <2>2. /\ arg' \in [Threads -> ArgSet] /\ pc' = [pc EXCEPT ![t] = "scan"]
        /\ arg'[t].ptr = arg[t].ptr /\ arg'[t].size = arg[t].size
        /\ arg'[t].call = arg[t].call /\ arg'[t].i = i + 1
    BY <1>1, <1>2, <2>1 DEF CallsInv, ArgSet
  <2>3. Passed(t)'
    <3> SUFFICES ASSUME NEW j \in 0 .. i PROVE before.data[j].ptr # arg[t].ptr
      BY <1>1, <1>3, <2>2 DEF Passed
    <3>1. CASE j = i
      BY <1>5, <1>7, <3>1
    <3>2. CASE j # i
      <4>1. j \in 0 .. arg[t].i - 1
        BY <1>3, <3>2
      <4> QED BY <1>2, <4>1 DEF ScanSoFar, Passed
    <3> QED BY <3>1, <3>2
  <2>4. OwnedSoFar(t)'
    BY <1>1, <1>2, <2>2 DEF ScanSoFar, OwnedSoFar
  <2>5. arg'[t].i <= before'.count
    BY <1>1, <1>3, <2>2
  <2>6. ScanSoFar(t)'
    BY <1>1, <1>2, <1>5, <2>3, <2>4, <2>5 DEF ScanSoFar
  <2>7. SoFar(t)' /\ "scan" \in Steps \ {"idle"}
    BY <1>1, <1>2, <2>1, <2>6 DEF SoFar, Steps
  <2> QED BY <1>1, <1>2, <2>2, <2>7, GoesOn
<1> QED BY <1>6, <1>7

(* What the entry of a found block tells of its place.                     *)
LEMMA FoundAt ==
  ASSUME NEW t \in Threads, arg[t] \in ArgSet, Found(t),
         BetweenCalls(before.live, before.block, before.data, before.count, before.owned)
  PROVE  /\ arg[t].i \in Nat /\ arg[t].i < before.count /\ arg[t].i \in Index
         /\ arg[t].ptr \in before.live /\ arg[t].ptr \in HeapPtr
         /\ before.count \in 1 .. MAX_HEAP_TRACKED
BY Numbers DEF ArgSet, Found, OwnedSoFar, BetweenCalls

LEMMA GiveGoes ==
  ASSUME CallsInv, Alone, NEW t \in Threads, FreeGive(t)
  PROVE  CallsInv' /\ Seen' = Seen
<1>1. /\ pc[t] = "give" /\ pc' = [pc EXCEPT ![t] = "decrement"]
      /\ faults' = faults \cup DeallocateFault(arg[t].ptr, At(arg[t].i))
      /\ live' = live \ {arg[t].ptr}
      /\ UNCHANGED <<block, data, count, owned, overflow, dropped, arg, before>>
  BY DEF FreeGive, Goto
<1>2. /\ SoFar(t) /\ arg[t] \in ArgSet /\ ScanSoFar(t) /\ Found(t) /\ pc[t] # "idle"
      /\ arg[t].call = "free"
  BY <1>1, InCall DEF SoFar, HitSoFar
<1>3. DeallocateFault(arg[t].ptr, At(arg[t].i))
        = GiveFault(arg[t].ptr, before.data[arg[t].i])
  BY <1>2, FoundAt DEF SoFar, ScanSoFar, DeallocateFault, GiveFault, At
<1>4. pc'[t] = "decrement" /\ arg' \in [Threads -> ArgSet]
  BY <1>1 DEF CallsInv
<1>5. Found(t)' /\ Given(t)'
  BY <1>1, <1>2, <1>3 DEF ScanSoFar, Found, Passed, OwnedSoFar, Given, GiveFault
<1>6. CountSoFar(t)'
  BY <1>1, <1>2, <1>5 DEF CountSoFar, FreeSoFar, ScanSoFar
<1>7. SoFar(t)' /\ "decrement" \in Steps \ {"idle"}
  BY <1>1, <1>2, <1>4, <1>6 DEF SoFar, Steps
<1> QED BY <1>1, <1>2, <1>4, <1>7, GoesOn

LEMMA FreeUnchanged ==
  ASSUME NEW t \in Threads, FreeSoFar(t), OwnedSoFar(t)',
         arg'[t].ptr = arg[t].ptr, arg'[t].i = arg[t].i, arg'[t].call = arg[t].call,
         UNCHANGED <<live, block, data, owned, faults, before>>
  PROVE  FreeSoFar(t)'
<1>1. Found(t)' /\ Given(t)'
  BY DEF FreeSoFar, Found, Passed, Given, GiveFault
<1> QED BY <1>1 DEF FreeSoFar

LEMMA OnceAround ==
  ASSUME NEW W \in Nat \ {0}, NEW x \in 0 .. W - 1
  PROVE  (x + W) % W = x
BY SMTT(30)

LEMMA ReadCountGoes ==
  ASSUME CallsInv, Alone, NEW t \in Threads, FreeReadCount(t)
  PROVE  CallsInv' /\ Seen' = Seen
<1>1. /\ pc[t] = "decrement" /\ pc' = [pc EXCEPT ![t] = "decremented"]
      /\ arg' = [arg EXCEPT ![t].n = (count + WordSize - 1) % WordSize]
      /\ UNCHANGED <<live, block, data, count, owned, overflow, dropped, faults, before>>
  BY DEF FreeReadCount, Goto, shared
<1>2. SoFar(t) /\ arg[t] \in ArgSet /\ CountSoFar(t) /\ Found(t) /\ pc[t] # "idle"
  BY <1>1, InCall DEF SoFar, CountSoFar, FreeSoFar
<1>3. before.count \in 1 .. MAX_HEAP_TRACKED /\ count = before.count
  BY <1>2, FoundAt DEF SoFar, CountSoFar
<1>4. (count + WordSize - 1) % WordSize = before.count - 1
  <2>1. before.count - 1 \in 0 .. WordSize - 1
    BY <1>3, Numbers
  <2>2. count + WordSize - 1 = (before.count - 1) + WordSize
    BY <1>3, Numbers
  <2>3. ((before.count - 1) + WordSize) % WordSize = before.count - 1
    BY <2>1, Numbers, OnceAround
  <2> QED BY <2>2, <2>3
<1>5. /\ arg' \in [Threads -> ArgSet] /\ pc'[t] = "decremented"
      /\ arg'[t].ptr = arg[t].ptr /\ arg'[t].i = arg[t].i
      /\ arg'[t].call = arg[t].call /\ arg'[t].size = arg[t].size
      /\ arg'[t].n = before.count - 1
  <2>1. before.count - 1 \in Nat
    BY <1>3
  <2> QED BY <1>1, <1>2, <1>4, <2>1 DEF CallsInv, ArgSet
<1>6. OwnedSoFar(t)'
  BY <1>1, <1>2, <1>5 DEF Found, OwnedSoFar
<1>7. FreeSoFar(t)'
  BY <1>1, <1>2, <1>5, <1>6, FreeUnchanged DEF CountSoFar
<1>8. SoFar(t)' /\ "decremented" \in Steps \ {"idle"}
  BY <1>1, <1>2, <1>3, <1>5, <1>7 DEF SoFar, LessSoFar, Steps
<1> QED BY <1>1, <1>2, <1>5, <1>8, GoesOn

LEMMA StoreCountGoes ==
  ASSUME CallsInv, Alone, NEW t \in Threads, FreeStoreCount(t)
  PROVE  CallsInv' /\ Seen' = Seen
<1>1. /\ pc[t] = "decremented" /\ pc' = [pc EXCEPT ![t] = "copy"]
      /\ count' = arg[t].n
      /\ UNCHANGED <<live, block, data, owned, overflow, dropped, faults, arg, before>>
  BY DEF FreeStoreCount, Goto
<1>2. SoFar(t) /\ LessSoFar(t) /\ Found(t) /\ pc[t] # "idle"
  BY <1>1, InCall DEF SoFar, LessSoFar, FreeSoFar
<1>3. pc'[t] = "copy" /\ arg' \in [Threads -> ArgSet] /\ OwnedSoFar(t)'
  BY <1>1, <1>2 DEF CallsInv, Found, OwnedSoFar
<1>4. FreeSoFar(t)'
  BY <1>1, <1>2, <1>3, FreeUnchanged DEF LessSoFar
<1>5. SoFar(t)' /\ "copy" \in Steps \ {"idle"}
  BY <1>1, <1>2, <1>3, <1>4 DEF SoFar, LessSoFar, CopySoFar, Steps
<1> QED BY <1>1, <1>2, <1>3, <1>5, GoesOn

LEMMA MoveAllocGoes ==
  ASSUME CallsInv, Alone, NEW t \in Threads, MoveAlloc(t)
  PROVE  CallsInv' /\ Seen' = Seen
<1>1. PICK q \in HeapPtr \ live :
        /\ pc[t] = "move" /\ pc' = [pc EXCEPT ![t] = "return"]
        /\ live' = live \cup {q}
        /\ block' = [block EXCEPT ![q] =
             [size |-> arg[t].size, alignment |-> At(arg[t].i).alignment]]
        /\ arg' = [arg EXCEPT ![t].new = q]
        /\ UNCHANGED <<data, count, owned, overflow, dropped, faults, before>>
  BY DEF MoveAlloc, Goto
<1>2. /\ SoFar(t) /\ arg[t] \in ArgSet /\ ScanSoFar(t) /\ Found(t) /\ pc[t] # "idle"
      /\ arg[t].call = "realloc"
  BY <1>1, InCall DEF SoFar, HitSoFar
<1>3. At(arg[t].i) = before.data[arg[t].i]
  BY <1>2, FoundAt DEF SoFar, ScanSoFar, At
<1>4. /\ arg' \in [Threads -> ArgSet] /\ pc'[t] = "return"
      /\ arg'[t].ptr = arg[t].ptr /\ arg'[t].i = arg[t].i
      /\ arg'[t].call = arg[t].call /\ arg'[t].size = arg[t].size
      /\ arg'[t].new = q
  BY <1>1, <1>2 DEF CallsInv, ArgSet
<1>5. Found(t)'
  BY <1>1, <1>2, <1>4 DEF Found, OwnedSoFar, Passed
<1>6. NewSoFar(t)'
  BY <1>1, <1>2, <1>3, <1>4, <1>5 DEF NewSoFar, MoveSoFar, ScanSoFar
<1>7. SoFar(t)' /\ "return" \in Steps \ {"idle"}
  BY <1>1, <1>2, <1>4, <1>6 DEF SoFar, Steps
<1> QED BY <1>1, <1>2, <1>4, <1>7, GoesOn

LEMMA MoveGiveGoes ==
  ASSUME CallsInv, Alone, NEW t \in Threads, MoveGive(t)
  PROVE  CallsInv' /\ Seen' = Seen
<1>1. /\ pc[t] = "return" /\ pc' = [pc EXCEPT ![t] = "repoint"]
      /\ faults' = faults \cup DeallocateFault(arg[t].ptr, At(arg[t].i))
      /\ live' = live \ {arg[t].ptr}
      /\ UNCHANGED <<block, data, count, owned, overflow, dropped, arg, before>>
  BY DEF MoveGive, Goto
<1>2. SoFar(t) /\ arg[t] \in ArgSet /\ NewSoFar(t) /\ Found(t) /\ pc[t] # "idle"
  BY <1>1, InCall DEF SoFar, NewSoFar, MoveSoFar
<1> DEFINE p == arg[t].ptr
           q == arg[t].new
<1>3. /\ p \in before.live /\ p \in HeapPtr /\ arg[t].i \in Index /\ p # q
      /\ q \in HeapPtr /\ live = before.live \cup {q} /\ data = before.data
      /\ before.block \in [HeapPtr -> [size : Nat, alignment : Nat]]
  BY <1>2, FoundAt DEF SoFar, NewSoFar, MoveSoFar, BetweenCalls
<1>4. block[p] = before.block[p] /\ (p \in live <=> p \in before.live)
  BY <1>2, <1>3 DEF NewSoFar, MoveSoFar
<1>5. DeallocateFault(p, At(arg[t].i)) = GiveFault(p, before.data[arg[t].i])
  BY <1>3, <1>4 DEF DeallocateFault, GiveFault, At
<1>6. pc'[t] = "repoint" /\ arg' \in [Threads -> ArgSet]
  BY <1>1 DEF CallsInv
<1>7. MoveSoFar(t)'
  BY <1>1, <1>2 DEF NewSoFar, MoveSoFar, Found, OwnedSoFar, Passed
<1>8. Given(t)'
  BY <1>1, <1>2, <1>5 DEF NewSoFar, Given, GiveFault
<1>9. RepointSoFar(t)'
  BY <1>1, <1>3, <1>7, <1>8 DEF RepointSoFar, BackSoFar
<1>10. SoFar(t)' /\ "repoint" \in Steps \ {"idle"}
  BY <1>1, <1>2, <1>6, <1>9 DEF SoFar, Steps
<1> QED BY <1>1, <1>2, <1>6, <1>10, GoesOn

LEMMA PointerGoes ==
  ASSUME CallsInv, Alone, NEW t \in Threads, MovePointer(t)
  PROVE  CallsInv' /\ Seen' = Seen
<1>1. /\ pc[t] = "repoint" /\ pc' = [pc EXCEPT ![t] = "resize"]
      /\ data' = (IF arg[t].i \in Index
                    THEN [data EXCEPT ![arg[t].i].ptr = arg[t].new] ELSE data)
      /\ UNCHANGED <<live, block, count, owned, overflow, dropped, faults, arg, before>>
  BY DEF MovePointer, Goto
<1>2. SoFar(t) /\ arg[t] \in ArgSet /\ RepointSoFar(t) /\ Found(t) /\ pc[t] # "idle"
  BY <1>1, InCall DEF SoFar, RepointSoFar, BackSoFar, MoveSoFar
<1>3. arg[t].i \in Index
  BY <1>2, FoundAt DEF SoFar
<1>4. pc'[t] = "resize" /\ arg' \in [Threads -> ArgSet]
  BY <1>1 DEF CallsInv
<1>5. BackSoFar(t)'
  BY <1>1, <1>2 DEF RepointSoFar, BackSoFar, MoveSoFar, Found, OwnedSoFar, Passed,
                    Given, GiveFault
<1>6. ResizeSoFar(t)'
  BY <1>1, <1>2, <1>3, <1>5 DEF RepointSoFar, ResizeSoFar
<1>7. SoFar(t)' /\ "resize" \in Steps \ {"idle"}
  BY <1>1, <1>2, <1>4, <1>6 DEF SoFar, Steps
<1> QED BY <1>1, <1>2, <1>4, <1>7, GoesOn

-----------------------------------------------------------------------------
(* The last step of a call, which is the step of GlobalHeap.               *)
LEMMA SeenAtEnd ==
  ASSUME Seen = before, Seen' = Snapshot'
  PROVE  /\ Seen.live = before.live /\ Seen.block = before.block
         /\ Seen.data = before.data /\ Seen.count = before.count
         /\ Seen.owned = before.owned /\ Seen.overflow = before.overflow
         /\ Seen.dropped = before.dropped /\ Seen.faults = before.faults
         /\ Seen'.live = live' /\ Seen'.block = block' /\ Seen'.data = data'
         /\ Seen'.count = count' /\ Seen'.owned = owned'
         /\ Seen'.overflow = overflow' /\ Seen'.dropped = dropped'
         /\ Seen'.faults = faults'
BY DEF Snapshot

LEMMA FullTableEnds ==
  ASSUME CallsInv, Alone, NEW t \in Threads, AllocRoom(t),
         ~(count < MAX_HEAP_TRACKED)
  PROVE  CallsInv' /\ Atomic!Next
<1>1. /\ pc[t] = "room" /\ pc' = [pc EXCEPT ![t] = "idle"]
      /\ owned' = owned \cup {arg[t].ptr} /\ overflow' = TRUE
      /\ UNCHANGED <<live, block, data, count, dropped, faults, arg, before>>
  BY DEF AllocRoom, Goto
<1>2. SoFar(t) /\ arg[t] \in ArgSet /\ RoomSoFar(t) /\ pc[t] # "idle"
  BY <1>1, InCall DEF SoFar
<1> DEFINE p == arg[t].ptr
           s == arg[t].size
           a == arg[t].alignment
<1>3. /\ p \in HeapPtr \ before.live /\ s \in Sizes /\ a \in Alignments
      /\ live = before.live \cup {p} /\ owned = before.owned /\ faults = before.faults
      /\ block = [before.block EXCEPT ![p] = [size |-> s, alignment |-> a]]
      /\ data = before.data /\ count = before.count /\ dropped = before.dropped
  BY <1>2 DEF RoomSoFar, AllocSoFar, SoFar
<1>4. BetweenCalls(before.live, before.block, before.data, before.count, before.owned)
  BY <1>2 DEF SoFar
<1>5. BetweenCalls(live, block, data, count, owned)' /\ arg' \in [Threads -> ArgSet]
  <2>1. s \in Nat /\ a \in Nat
    BY <1>3, Numbers
  <2> HIDE DEF p, s, a
  <2>2. [size |-> s, alignment |-> a] \in [size : Nat, alignment : Nat]
    BY <2>1
  <2>3. block \in [HeapPtr -> [size : Nat, alignment : Nat]]
    BY <1>3, <1>4, <2>2 DEF BetweenCalls
  <2> QED BY <1>1, <1>3, <1>4, <2>3 DEF BetweenCalls, CallsInv, p
<1>6. CallsInv' /\ Seen = before /\ Seen' = Snapshot'
  BY <1>1, <1>2, <1>5, Ends
<1>7. Atomic!HeapAlloc(s, a)
  <2> HIDE DEF p, s, a
  <2>1. owned' = before.owned \cup {p}
    BY <1>1, <1>3 DEF p
  <2>2. ~(before.count < MAX_HEAP_TRACKED)
    BY <1>3
  <2> QED BY <1>1, <1>3, <1>6, <2>1, <2>2, SeenAtEnd DEF Atomic!HeapAlloc, Atomic!Room
<1> QED BY <1>3, <1>6, <1>7 DEF Atomic!Next, Atomic!AlignedAlloc

LEMMA LastStoreEnds ==
  ASSUME CallsInv, Alone, NEW t \in Threads, NEW w \in {"count", "entry"},
         AllocStore(t, w), arg[t].todo = {w}
  PROVE  CallsInv' /\ Atomic!Next
<1>1. /\ pc[t] = "store" /\ pc' = [pc EXCEPT ![t] = "idle"]
      /\ arg' = [arg EXCEPT ![t].todo = @ \ {w}]
      /\ count' = (IF w = "count" THEN arg[t].n + 1 ELSE count)
      /\ data' = (IF w = "entry"
                  THEN [data EXCEPT ![arg[t].n] =
                          Entry(arg[t].ptr, arg[t].size, arg[t].alignment)]
                  ELSE data)
      /\ owned' = owned \cup {arg[t].ptr}
      /\ UNCHANGED <<live, block, overflow, dropped, faults, before>>
  BY DEF AllocStore, Goto
<1>2. SoFar(t) /\ arg[t] \in ArgSet /\ StoreSoFar(t) /\ pc[t] # "idle"
  BY <1>1, InCall DEF SoFar
<1> DEFINE p == arg[t].ptr
           s == arg[t].size
           a == arg[t].alignment
<1>3. /\ p \in HeapPtr \ before.live /\ s \in Sizes /\ a \in Alignments
      /\ live = before.live \cup {p} /\ owned = before.owned /\ faults = before.faults
      /\ block = [before.block EXCEPT ![p] = [size |-> s, alignment |-> a]]
      /\ overflow = before.overflow /\ dropped = before.dropped
      /\ before.count < MAX_HEAP_TRACKED /\ arg[t].n = before.count
  BY <1>2 DEF StoreSoFar, AllocSoFar, SoFar
<1>4. /\ count' = before.count + 1
      /\ data' = [before.data EXCEPT ![before.count] = Entry(p, s, a)]
  <2>1. CASE w = "count"
    <3>1. /\ data = [before.data EXCEPT ![before.count] = Entry(p, s, a)]
          /\ data' = data
      BY <1>1, <1>2, <2>1 DEF StoreSoFar
    <3> QED BY <1>1, <1>3, <2>1, <3>1
  <2>2. CASE w = "entry"
    <3>1. data = before.data /\ count = before.count + 1 /\ count' = count
      BY <1>1, <1>2, <2>2 DEF StoreSoFar
    <3> QED BY <1>1, <1>3, <2>2, <3>1
  <2> QED BY <2>1, <2>2
<1>5. BetweenCalls(before.live, before.block, before.data, before.count, before.owned)
  BY <1>2 DEF SoFar
<1>6. BetweenCalls(live, block, data, count, owned)' /\ arg' \in [Threads -> ArgSet]
  <2>1. s \in Nat /\ a \in Nat
    BY <1>3, Numbers
  <2>2. arg' \in [Threads -> ArgSet]
    BY <1>1, <1>2 DEF CallsInv, ArgSet
  <2>3. owned' = before.owned \cup {p}
    BY <1>1, <1>3
  <2> HIDE DEF p, s, a
  <2>4. Entry(p, s, a) \in EntrySet
    BY <1>3, <2>1 DEF Entry, EntrySet
  <2>5. data' \in [Index -> EntrySet]
    BY <1>4, <1>5, <2>4 DEF BetweenCalls
  <2>6. [size |-> s, alignment |-> a] \in [size : Nat, alignment : Nat]
    BY <2>1
  <2>7. block \in [HeapPtr -> [size : Nat, alignment : Nat]]
    BY <1>3, <1>5, <2>6 DEF BetweenCalls
  <2>8. count' \in 0 .. MAX_HEAP_TRACKED
    BY <1>3, <1>4, <1>5, Numbers DEF BetweenCalls
  <2> QED BY <1>1, <1>3, <1>5, <2>2, <2>3, <2>5, <2>7, <2>8 DEF BetweenCalls
<1>7. CallsInv' /\ Seen = before /\ Seen' = Snapshot'
  BY <1>1, <1>2, <1>6, Ends
<1>8. Atomic!HeapAlloc(s, a)
  <2>1. owned' = before.owned \cup {p}
    BY <1>1, <1>3
  <2> HIDE DEF p, s, a
  <2>2. Entry(p, s, a) = Atomic!MkEntry(p, s, a)
    BY DEF Entry, Atomic!MkEntry
  <2> QED BY <1>1, <1>3, <1>4, <1>7, <2>1, <2>2, SeenAtEnd
          DEF Atomic!HeapAlloc, Atomic!Room
<1> QED BY <1>3, <1>7, <1>8 DEF Atomic!Next, Atomic!AlignedAlloc

(* A search that passed every entry has looked for an untracked pointer.   *)
LEMMA SearchEnds ==
  ASSUME CallsInv, Alone, NEW t \in Threads, ScanEnd(t)
  PROVE  CallsInv' /\ Atomic!Next
<1> DEFINE p == arg[t].ptr
<1>1. /\ pc[t] = "scan" /\ pc' = [pc EXCEPT ![t] = "idle"] /\ arg[t].i >= count
      /\ faults' = faults \cup {Fault("sysFree", p)}
      /\ dropped' = (IF arg[t].call = "free" THEN dropped ELSE dropped \cup {p})
      /\ UNCHANGED <<live, block, data, count, owned, overflow, arg, before>>
  BY DEF ScanEnd, Goto
<1>2. SoFar(t) /\ arg[t] \in ArgSet /\ ScanSoFar(t) /\ pc[t] # "idle"
  BY <1>1, InCall DEF SoFar
<1>3. /\ live = before.live /\ block = before.block /\ data = before.data
      /\ count = before.count /\ faults = before.faults
      /\ overflow = before.overflow /\ dropped = before.dropped
      /\ OwnedSoFar(t) /\ Passed(t) /\ arg[t].i <= before.count /\ arg[t].i \in Nat
      /\ BetweenCalls(before.live, before.block, before.data, before.count,
                      before.owned)
  BY <1>2 DEF SoFar, ScanSoFar, ArgSet
<1>4. BetweenCalls(live, block, data, count, owned)' /\ arg' \in [Threads -> ArgSet]
  BY <1>1, <1>3 DEF BetweenCalls, CallsInv, OwnedSoFar
<1>5. CallsInv' /\ Seen = before /\ Seen' = Snapshot'
  BY <1>1, <1>2, <1>4, Ends
<1>6. p \notin Atomic!Tracked
  <2>1. arg[t].i = before.count
    BY <1>1, <1>3 DEF BetweenCalls
  <2>2. \A j \in 0 .. before.count - 1 : before.data[j].ptr # p
    BY <1>3, <2>1 DEF Passed
  <2> QED BY <1>5, <2>2, SeenAtEnd DEF Atomic!Tracked, Atomic!Used
<1>7. p \in before.owned
  BY <1>3 DEF OwnedSoFar
<1>8. Atomic!SysFree(p)
  BY <1>1, <1>3, <1>5, SeenAtEnd DEF Atomic!SysFree, Fault
<1>9. CASE arg[t].call = "free"
  <2>1. owned = before.owned \ {p}
    BY <1>3, <1>9 DEF OwnedSoFar
  <2>2. Atomic!Free(p)
    <3> HIDE DEF p
    <3> QED BY <1>1, <1>3, <1>5, <1>6, <1>7, <1>8, <1>9, <2>1, SeenAtEnd
            DEF Atomic!Free
  <2> QED BY <1>5, <1>7, <2>2, SeenAtEnd DEF Atomic!Next
<1>10. CASE arg[t].call # "free"
  <2>1. owned = before.owned /\ arg[t].size \in Sizes
    BY <1>3, <1>10 DEF OwnedSoFar
  <2>2. arg[t].size # 0
    BY <2>1, Numbers
  <2> DEFINE s == arg[t].size
  <2>3. Atomic!ReallocUntracked(p, s)
    <3> HIDE DEF p, s
    <3> QED BY <1>1, <1>3, <1>5, <1>6, <1>7, <1>8, <1>10, <2>1, <2>2, SeenAtEnd
            DEF Atomic!ReallocUntracked, Atomic!tableVars, s
  <2> QED BY <1>5, <1>7, <2>1, <2>3, SeenAtEnd DEF Atomic!Next, Atomic!Realloc
<1> QED BY <1>5, <1>9, <1>10

(* A search that stopped, stopped where the loop of GlobalHeap does.       *)
LEMMA FoundFirst ==
  ASSUME NEW t \in Threads, arg[t] \in ArgSet, Found(t), Seen = before,
         BetweenCalls(before.live, before.block, before.data, before.count, before.owned)
  PROVE  arg[t].ptr \in Atomic!Tracked
         /\ Atomic!FirstIndexOf(arg[t].ptr) = arg[t].i
<1> DEFINE p == arg[t].ptr
           n == arg[t].i
<1>1. /\ n \in 0 .. before.count - 1 /\ before.data[n].ptr = p
      /\ before.count \in Nat
      /\ \A j \in 0 .. n - 1 : before.data[j].ptr # p
  BY FoundAt DEF Found, Passed, BetweenCalls
<1>2. Atomic!IndicesOf(p) = {j \in 0 .. before.count - 1 : before.data[j].ptr = p}
  BY DEF Atomic!IndicesOf, Atomic!Used
<1>3. n \in Atomic!IndicesOf(p) /\ \A j \in Atomic!IndicesOf(p) : n <= j
  BY <1>1, <1>2
<1>4. \A k \in Atomic!IndicesOf(p) :
        (\A j \in Atomic!IndicesOf(p) : k <= j) => k = n
  BY <1>1, <1>2, <1>3
<1>5. Atomic!FirstIndexOf(p) = n
  BY <1>3, <1>4 DEF Atomic!FirstIndexOf
<1>6. p \in Atomic!Tracked
  BY <1>1 DEF Atomic!Tracked, Atomic!Used
<1> QED BY <1>5, <1>6

LEMMA FaultOfGiving ==
  ASSUME NEW t \in Threads, Seen = before
  PROVE  Atomic!DeallocateFault(arg[t].ptr, before.data[arg[t].i])
           = GiveFault(arg[t].ptr, before.data[arg[t].i])
BY DEF Atomic!DeallocateFault, Atomic!Returnable, GiveFault, Fault

LEMMA CopyEnds ==
  ASSUME CallsInv, Alone, NEW t \in Threads, FreeCopyLast(t)
  PROVE  CallsInv' /\ Atomic!Next
<1> DEFINE p == arg[t].ptr
           i == arg[t].i
<1>1. /\ pc[t] = "copy" /\ pc' = [pc EXCEPT ![t] = "idle"]
      /\ faults' = faults \cup OutOfTable(arg[t].n) \cup OutOfTable(i)
      /\ data' = (IF i \in Index THEN [data EXCEPT ![i] = At(arg[t].n)] ELSE data)
      /\ UNCHANGED <<live, block, count, owned, overflow, dropped, arg, before>>
  BY DEF FreeCopyLast, LastIndex, Goto
<1>2. SoFar(t) /\ arg[t] \in ArgSet /\ CopySoFar(t) /\ pc[t] # "idle"
  BY <1>1, InCall DEF SoFar
<1>3. /\ live = before.live \ {p} /\ block = before.block /\ data = before.data
      /\ count = before.count - 1 /\ arg[t].n = before.count - 1
      /\ faults = before.faults \cup GiveFault(p, before.data[i])
      /\ overflow = before.overflow /\ dropped = before.dropped
      /\ owned = before.owned \ {p} /\ p \in before.owned /\ Found(t)
      /\ BetweenCalls(before.live, before.block, before.data, before.count,
                      before.owned)
  BY <1>2 DEF SoFar, CopySoFar, FreeSoFar, Given, Found, OwnedSoFar
<1>4. i \in Index /\ arg[t].n \in Index /\ before.count \in 1 .. MAX_HEAP_TRACKED
  BY <1>2, <1>3, FoundAt, Numbers
<1>5. /\ faults' = faults
      /\ data' = [before.data EXCEPT ![i] = before.data[before.count - 1]]
  BY <1>1, <1>3, <1>4 DEF OutOfTable, At
<1>6. BetweenCalls(live, block, data, count, owned)' /\ arg' \in [Threads -> ArgSet]
  <2>1. data' \in [Index -> EntrySet]
    BY <1>3, <1>4, <1>5 DEF BetweenCalls
  <2>2. count' \in 0 .. MAX_HEAP_TRACKED
    BY <1>1, <1>3, <1>4, Numbers
  <2>3. arg' \in [Threads -> ArgSet]
    BY <1>1 DEF CallsInv
  <2> HIDE DEF p, i
  <2> QED BY <1>1, <1>3, <2>1, <2>2, <2>3 DEF BetweenCalls
<1>7. CallsInv' /\ Seen = before /\ Seen' = Snapshot'
  BY <1>1, <1>2, <1>6, Ends
<1>8. p \in Atomic!Tracked /\ Atomic!FirstIndexOf(p) = i
  BY <1>2, <1>3, <1>7, FoundFirst
<1>9. Atomic!DeallocateFault(p, before.data[i]) = GiveFault(p, before.data[i])
  BY <1>7, FaultOfGiving
<1>10. Atomic!SwapRemoved(i) = [before.data EXCEPT ![i] = before.data[before.count - 1]]
  BY <1>7, SeenAtEnd DEF Atomic!SwapRemoved
<1>11. Atomic!Free(p)
  <2> HIDE DEF p, i
  <2>1. /\ Seen'.live = Seen.live \ {p} /\ Seen'.data = Atomic!SwapRemoved(i)
        /\ Seen'.count = Seen.count - 1 /\ Seen'.owned = Seen.owned \ {p}
        /\ Seen'.faults = Seen.faults \cup Atomic!DeallocateFault(p, Seen.data[i])
        /\ Seen'.block = Seen.block /\ Seen'.overflow = Seen.overflow
        /\ Seen'.dropped = Seen.dropped /\ p \in Seen.owned
    BY <1>1, <1>3, <1>5, <1>7, <1>9, <1>10, SeenAtEnd
  <2> QED BY <1>8, <2>1 DEF Atomic!Free
<1>12. p \in Seen.owned
  BY <1>3, <1>7, SeenAtEnd
<1> QED BY <1>7, <1>11, <1>12 DEF Atomic!Next

LEMMA RefusedEnds ==
  ASSUME CallsInv, Alone, NEW t \in Threads, MoveRefused(t)
  PROVE  CallsInv' /\ UNCHANGED Atomic!vars
<1>1. /\ pc[t] = "move" /\ pc' = [pc EXCEPT ![t] = "idle"]
      /\ UNCHANGED <<live, block, data, count, owned, overflow, dropped, faults,
                     arg, before>>
  BY DEF MoveRefused, Goto, shared
<1>2. SoFar(t) /\ arg[t] \in ArgSet /\ HitSoFar(t) /\ arg[t].call = "realloc"
      /\ pc[t] # "idle"
  BY <1>1, InCall DEF SoFar
<1>3. /\ live = before.live /\ block = before.block /\ data = before.data
      /\ count = before.count /\ faults = before.faults /\ owned = before.owned
      /\ overflow = before.overflow /\ dropped = before.dropped
      /\ BetweenCalls(before.live, before.block, before.data, before.count,
                      before.owned)
  BY <1>2 DEF SoFar, HitSoFar, ScanSoFar, OwnedSoFar
<1>4. BetweenCalls(live, block, data, count, owned)' /\ arg' \in [Threads -> ArgSet]
  BY <1>1, <1>3 DEF BetweenCalls, CallsInv
<1>5. CallsInv' /\ Seen = before /\ Seen' = Snapshot'
  BY <1>1, <1>2, <1>4, Ends
<1> QED BY <1>1, <1>3, <1>5, SeenAtEnd
        DEF Atomic!vars, Atomic!heapVars, Atomic!tableVars

LEMMA SizeEnds ==
  ASSUME CallsInv, Alone, NEW t \in Threads, MoveSize(t)
  PROVE  CallsInv' /\ Atomic!Next
<1> DEFINE p == arg[t].ptr
           q == arg[t].new
           i == arg[t].i
           s == arg[t].size
<1>1. /\ pc[t] = "resize" /\ pc' = [pc EXCEPT ![t] = "idle"]
      /\ data' = (IF i \in Index THEN [data EXCEPT ![i].size = s] ELSE data)
      /\ owned' = (owned \ {p}) \cup {q}
      /\ UNCHANGED <<live, block, count, overflow, dropped, faults, arg, before>>
  BY DEF MoveSize, Goto
<1>2. SoFar(t) /\ arg[t] \in ArgSet /\ ResizeSoFar(t) /\ pc[t] # "idle"
  BY <1>1, InCall DEF SoFar
<1>3. /\ Found(t) /\ arg[t].call = "realloc" /\ q \in HeapPtr \ before.live
      /\ count = before.count
      /\ block = [before.block EXCEPT
                    ![q] = [size |-> s, alignment |-> before.data[i].alignment]]
      /\ live = (before.live \cup {q}) \ {p}
      /\ faults = before.faults \cup GiveFault(p, before.data[i])
      /\ data = [before.data EXCEPT ![i].ptr = q]
      /\ overflow = before.overflow /\ dropped = before.dropped
      /\ owned = before.owned /\ p \in before.owned /\ s \in Sizes
      /\ BetweenCalls(before.live, before.block, before.data, before.count,
                      before.owned)
  BY <1>2 DEF SoFar, ResizeSoFar, BackSoFar, MoveSoFar, Given, Found, OwnedSoFar
<1>4. /\ i \in Index /\ before.count \in 1 .. MAX_HEAP_TRACKED /\ p \in before.live
      /\ s \in Nat /\ s # 0
  BY <1>2, <1>3, FoundAt, Numbers
<1>5. data' = [before.data EXCEPT ![i].ptr = q, ![i].size = s]
  <2> HIDE DEF q, i, s
  <2>1. data' = [data EXCEPT ![i].size = s]
    BY <1>1, <1>4
  <2> QED BY <1>3, <1>4, <2>1 DEF BetweenCalls
<1>6. BetweenCalls(live, block, data, count, owned)' /\ arg' \in [Threads -> ArgSet]
  <2>0. arg' \in [Threads -> ArgSet]
    BY <1>1 DEF CallsInv
  <2> HIDE DEF p, q, i, s
  <2>1. before.data[i] \in EntrySet /\ before.data \in [Index -> EntrySet]
    BY <1>3, <1>4 DEF BetweenCalls
  <2>2. data' \in [Index -> EntrySet]
    BY <1>3, <1>4, <1>5, <2>1 DEF EntrySet
  <2>3. [size |-> s, alignment |-> before.data[i].alignment]
          \in [size : Nat, alignment : Nat]
    BY <1>4, <2>1 DEF EntrySet
  <2>4. block \in [HeapPtr -> [size : Nat, alignment : Nat]]
    BY <1>3, <2>3 DEF BetweenCalls
  <2>5. owned' \subseteq live' /\ live' \subseteq HeapPtr
    BY <1>1, <1>3 DEF BetweenCalls
  <2> QED BY <1>1, <1>3, <2>0, <2>2, <2>4, <2>5 DEF BetweenCalls
<1>7. CallsInv' /\ Seen = before /\ Seen' = Snapshot'
  BY <1>1, <1>2, <1>6, Ends
<1>8. p \in Atomic!Tracked /\ Atomic!FirstIndexOf(p) = i
  BY <1>2, <1>3, <1>7, FoundFirst
<1>9. Atomic!DeallocateFault(p, before.data[i]) = GiveFault(p, before.data[i])
  BY <1>7, FaultOfGiving
<1>10. Atomic!Moved(i, q, s) = [before.data EXCEPT ![i].ptr = q, ![i].size = s]
  BY <1>7, SeenAtEnd DEF Atomic!Moved
<1>11. Atomic!ReallocTracked(p, s)
  <2> HIDE DEF p, q, i, s
  <2>1. /\ Seen'.live = (Seen.live \cup {q}) \ {p}
        /\ Seen'.data = Atomic!Moved(i, q, s)
        /\ Seen'.count = Seen.count /\ Seen'.owned = (Seen.owned \ {p}) \cup {q}
        /\ Seen'.faults = Seen.faults \cup Atomic!DeallocateFault(p, Seen.data[i])
        /\ Seen'.block = [Seen.block EXCEPT
             ![q] = [size |-> s, alignment |-> Seen.data[i].alignment]]
        /\ Seen'.overflow = Seen.overflow
        /\ Seen'.dropped = Seen.dropped /\ p \in Seen.owned /\ q \in HeapPtr \ Seen.live
    BY <1>1, <1>3, <1>5, <1>7, <1>9, <1>10, SeenAtEnd
  <2> QED BY <1>4, <1>8, <2>1 DEF Atomic!ReallocTracked
<1>12. p \in Seen.owned /\ s \in Sizes
  BY <1>3, <1>7, SeenAtEnd
<1> HIDE DEF p, q, i, s
<1> QED BY <1>7, <1>11, <1>12 DEF Atomic!Next, Atomic!Realloc

-----------------------------------------------------------------------------
LEMMA CallsBegin == Init => CallsInv /\ Atomic!Init
<1> SUFFICES ASSUME Init PROVE CallsInv /\ Atomic!Init
  OBVIOUS
<1>1. /\ live = {} /\ owned = {} /\ count = 0 /\ overflow = FALSE
      /\ dropped = {} /\ faults = {}
      /\ block = [p \in HeapPtr |-> [size |-> 0, alignment |-> 0]]
      /\ data = [i \in Index |-> Entry(NullPtr, 0, 0)]
      /\ pc = [t \in Threads |-> "idle"] /\ arg = [t \in Threads |-> NoArg]
  BY DEF Init
<1>2. AllIdle /\ pc \in [Threads -> Steps]
  BY <1>1 DEF AllIdle, Steps
<1>3. BetweenCalls(live, block, data, count, owned)
  BY <1>1, Numbers DEF BetweenCalls, EntrySet, Entry
<1>4. arg \in [Threads -> ArgSet]
  BY <1>1 DEF NoArg, ArgSet
<1>5. CallsInv
  BY <1>1, <1>2, <1>3, <1>4 DEF CallsInv
<1>6. /\ Seen.live = {} /\ Seen.owned = {} /\ Seen.count = 0
      /\ Seen.overflow = FALSE /\ Seen.dropped = {} /\ Seen.faults = {}
      /\ Seen.block = [p \in HeapPtr |-> [size |-> 0, alignment |-> 0]]
      /\ Seen.data = [i \in Index |-> Entry(NullPtr, 0, 0)]
  BY <1>1, <1>2 DEF Seen, Snapshot
<1>7. Atomic!Init
  BY <1>6 DEF Atomic!Init, Atomic!MkEntry, Entry, Index
<1> QED BY <1>5, <1>7

(* A step of a thread is a step of its call's last kind, or none.          *)
LEMMA SeenIsAtomic == Seen' = Seen => UNCHANGED Atomic!vars
BY DEF Atomic!vars, Atomic!heapVars, Atomic!tableVars

LEMMA StillSoFar ==
  ASSUME UNCHANGED vars, NEW t \in Threads, SoFar(t)
  PROVE  SoFar(t)'
<1>1. UNCHANGED <<live, block, data, count, owned, overflow, dropped, faults, pc,
                  arg, before>>
  BY DEF vars, shared
<1>2. RoomSoFar(t) <=> RoomSoFar(t)'
  BY <1>1 DEF RoomSoFar, AllocSoFar
<1>3. StoreSoFar(t) <=> StoreSoFar(t)'
  BY <1>1 DEF StoreSoFar, AllocSoFar
<1>4. (OwnedSoFar(t) <=> OwnedSoFar(t)') /\ (Passed(t) <=> Passed(t)')
  BY <1>1 DEF OwnedSoFar, Passed
<1>5. (Found(t) <=> Found(t)') /\ (Given(t) <=> Given(t)')
  BY <1>1, <1>4 DEF Found, Given, GiveFault
<1>6. (ScanSoFar(t) <=> ScanSoFar(t)') /\ (HitSoFar(t) <=> HitSoFar(t)')
  BY <1>1, <1>4, <1>5 DEF ScanSoFar, HitSoFar
<1>7. FreeSoFar(t) <=> FreeSoFar(t)'
  BY <1>1, <1>5 DEF FreeSoFar
<1>8. MoveSoFar(t) <=> MoveSoFar(t)'
  BY <1>1, <1>5 DEF MoveSoFar
<1>9. BackSoFar(t) <=> BackSoFar(t)'
  BY <1>1, <1>5, <1>8 DEF BackSoFar
<1>10. /\ (CountSoFar(t) <=> CountSoFar(t)') /\ (LessSoFar(t) <=> LessSoFar(t)')
       /\ (CopySoFar(t) <=> CopySoFar(t)')
  BY <1>1, <1>7 DEF CountSoFar, LessSoFar, CopySoFar
<1>11. /\ (NewSoFar(t) <=> NewSoFar(t)') /\ (RepointSoFar(t) <=> RepointSoFar(t)')
       /\ (ResizeSoFar(t) <=> ResizeSoFar(t)')
  BY <1>1, <1>8, <1>9 DEF NewSoFar, RepointSoFar, ResizeSoFar
<1> QED BY <1>1, <1>2, <1>3, <1>6, <1>10, <1>11 DEF SoFar, BetweenCalls

LEMMA CallsGoOn ==
  ASSUME CallsInv, Alone, Alone', [Next]_vars
  PROVE  CallsInv' /\ [Atomic!Next]_Atomic!vars
<1>1. CASE UNCHANGED vars
  <2>1. Seen' = Seen
    BY <1>1 DEF vars, shared, Seen, Snapshot, AllIdle
  <2>2. CallsInv'
    BY <1>1, StillSoFar DEF vars, shared, CallsInv, AllIdle, BetweenCalls
  <2> QED BY <2>1, <2>2, SeenIsAtomic
<1>2. CASE Next
  <2>1. PICK t \in Threads : Alloc(t) \/ Scan(t) \/ Free(t) \/ Realloc(t)
    BY <1>2 DEF Next
  <2>2. ASSUME CallsInv' /\ Seen' = Seen PROVE CallsInv' /\ [Atomic!Next]_Atomic!vars
    BY <2>2, SeenIsAtomic
  <2>3. CASE Alloc(t)
    <3>1. ASSUME NEW s \in Sizes, NEW a \in Alignments, AllocBegin(t, s, a)
          PROVE  CallsInv' /\ Seen' = Seen
      BY <3>1, AllocBegins
    <3>2. CASE AllocRoom(t)
      BY <2>2, <3>2, RoomFound, FullTableEnds
    <3>3. ASSUME NEW w \in {"count", "entry"}, AllocStore(t, w)
          PROVE  CallsInv' /\ [Atomic!Next]_Atomic!vars
      BY <2>2, <3>3, FirstStored, LastStoreEnds
    <3> QED BY <2>2, <2>3, <3>1, <3>2, <3>3 DEF Alloc
  <2>4. CASE Scan(t)
    BY <2>2, <2>4, ScanGoes, SearchEnds DEF Scan
  <2>5. CASE Free(t)
    <3>1. ASSUME NEW p \in owned, FreeBegin(t, p)
          PROVE  CallsInv' /\ Seen' = Seen
      BY <3>1, SearchBegins DEF FreeBegin
    <3>2. ASSUME FreeGive(t) \/ FreeReadCount(t) \/ FreeStoreCount(t)
          PROVE  CallsInv' /\ Seen' = Seen
      BY <3>2, GiveGoes, ReadCountGoes, StoreCountGoes
    <3> QED BY <2>2, <2>5, <3>1, <3>2, CopyEnds DEF Free
  <2>6. CASE Realloc(t)
    <3>1. ASSUME NEW p \in owned, NEW s \in Sizes, ReallocBegin(t, p, s)
          PROVE  CallsInv' /\ Seen' = Seen
      BY <3>1, SearchBegins DEF ReallocBegin, shared
    <3>2. ASSUME MoveAlloc(t) \/ MoveGive(t) \/ MovePointer(t)
          PROVE  CallsInv' /\ Seen' = Seen
      BY <3>2, MoveAllocGoes, MoveGiveGoes, PointerGoes
    <3> QED BY <2>2, <2>6, <3>1, <3>2, RefusedEnds, SizeEnds DEF Realloc
  <2> QED BY <2>1, <2>3, <2>4, <2>5, <2>6
<1> QED BY <1>1, <1>2

(* Calls of aligned_alloc, free and realloc that do not overlap are the    *)
(* calls of GlobalHeap, whatever the number of threads that make them, the *)
(* order of the two stores of data[count++], and how far a search goes:    *)
(* what a lock over the table is to bring about.                           *)
THEOREM SerialCalls == Spec /\ []Alone => SerialCallsAreAtomic
<1>1. Init => CallsInv /\ Atomic!Init
  BY CallsBegin
<1>2. CallsInv /\ Alone /\ Alone' /\ [Next]_vars
        => CallsInv' /\ [Atomic!Next]_Atomic!vars
  BY CallsGoOn
<1> QED BY <1>1, <1>2, PTL DEF Spec, SerialCallsAreAtomic, Atomic!Spec

(* One thread needs no lock.                                               *)
COROLLARY OneThread ==
  ASSUME NEW t, Threads = {t}
  PROVE  Spec => SerialCallsAreAtomic
<1>1. Alone
  BY DEF Alone
<1> QED BY <1>1, SerialCalls, PTL

-----------------------------------------------------------------------------
(* CrowdControlThreads: the values of a byte of the table, and a table of  *)
(* one piece.                                                              *)
Value == TypeEffects \cup {"vanilla"}
Whole(c) == \A n \in 1 .. Cells : c[n] = c[1]

EffectsTyped ==
  /\ clock \in 0 .. MaxTime
  /\ active \in [TypeEffects -> BOOLEAN]
  /\ timer \in [TypeEffects -> Nat]
  /\ until \in [TypeEffects -> Nat \cup {-1}]
  /\ cell \in [1 .. Cells -> Value]
  /\ eventPc \in [Triggers -> {"idle", "timer", "write"}]
  /\ eventArg \in [Triggers -> [effect : TypeEffects, was : BOOLEAN, n : 1 .. Cells]]
  /\ hookPc \in [step : {"idle", "check", "disable", "others", "reset", "return"},
                 k : 1 .. 3, n : 1 .. Cells]
  /\ seen \in [clock : Nat, active : [TypeEffects -> BOOLEAN],
               cell : [1 .. Cells -> Value]]

OneAtWork ==
  /\ InHook => \A t \in Triggers : eventPc[t] = "idle"
  /\ \A t, u \in Triggers : eventPc[t] # "idle" /\ eventPc[u] # "idle" => t = u

(* An event that has set its flag, and one that has written some bytes.    *)
EventSoFar(t) ==
  /\ eventPc[t] = "timer" =>
       Whole(cell) /\ eventArg[t].n = 1 /\ active[eventArg[t].effect]
       /\ (hookPc.step = "idle")
  /\ eventPc[t] = "write" =>
       \A m \in 1 .. eventArg[t].n - 1 : cell[m] = eventArg[t].effect

(* The state of flags and table that the hook's checks before the kth can  *)
(* have led to at time t, from what it began with.                         *)
Passes(s, k, t) ==
  LET e == Check[k] IN
  IF s.active[e] /\ timer[e] < t
    THEN [active |-> [s.active EXCEPT ![e] = FALSE],
          table |-> IF \E f \in TypeEffects \ {e} : s.active[f]
                      THEN s.table ELSE "vanilla"]
    ELSE s
Begun == [active |-> seen.active, table |-> seen.cell[1]]
Reached(k, s, t) ==
  \E t1, t2, t3 \in Nat :
    /\ seen.clock <= t1 /\ t1 <= t2 /\ t2 <= t3 /\ t3 <= t
    /\ s = CASE k = 1 -> Begun
            [] k = 2 -> Passes(Begun, 1, t1)
            [] k = 3 -> Passes(Passes(Begun, 1, t1), 2, t2)
            [] OTHER -> Passes(Passes(Passes(Begun, 1, t1), 2, t2), 3, t3)

Now(tab) == [active |-> active, table |-> tab]
Ran(k, tab) == [active |-> [active EXCEPT ![Check[k]] = TRUE], table |-> tab]
IsPast(k) == timer[Check[k]] < clock
HookSoFar ==
  LET k == hookPc.k IN
  /\ Whole(seen.cell) /\ seen.clock <= clock
  /\ hookPc.step # "reset" => Whole(cell)
  /\ hookPc.step = "check" => Reached(k, Now(cell[1]), clock)
  /\ hookPc.step = "disable" =>
       Reached(k, Now(cell[1]), clock) /\ active[Check[k]] /\ IsPast(k)
  /\ hookPc.step = "others" =>
       Reached(k, Ran(k, cell[1]), clock) /\ ~active[Check[k]] /\ IsPast(k)
  /\ hookPc.step = "reset" =>
       /\ \E tab \in Value : Reached(k, Ran(k, tab), clock)
       /\ ~active[Check[k]] /\ IsPast(k) /\ ~OtherRuns(k)
       /\ \A m \in 1 .. hookPc.n - 1 : cell[m] = "vanilla"
  /\ hookPc.step = "return" => Reached(4, Now(cell[1]), clock)

EffectsInv ==
  /\ EffectsTyped /\ OneAtWork
  /\ (EffectsIdle => Whole(cell))
  /\ (\A t \in Triggers : EventSoFar(t))
  /\ (InHook => HookSoFar)

-----------------------------------------------------------------------------
LEMMA Checks ==
  /\ Check[1] = "invertTypeEffects" /\ Check[2] = "disableTypeEffects"
  /\ Check[3] = "randomTypeEffects"
  /\ TypeEffects = {"invertTypeEffects", "disableTypeEffects", "randomTypeEffects"}
  /\ TypeEffects = AtomicEffects!TypeEffects
  /\ TypeEffects \subseteq All /\ All = AtomicEffects!Effects
  /\ "vanilla" \notin TypeEffects
  /\ \A k \in 1 .. 3 : Check[k] \in TypeEffects
<1>1. /\ Check[1] = "invertTypeEffects" /\ Check[2] = "disableTypeEffects"
      /\ Check[3] = "randomTypeEffects"
  BY DEF Check
<1>2. TypeEffects = {Check[1], Check[2], Check[3]}
  BY DEF TypeEffects
<1>3. TypeEffects = {"invertTypeEffects", "disableTypeEffects", "randomTypeEffects"}
  BY <1>1, <1>2
<1>4. \A k \in 1 .. 3 : Check[k] \in TypeEffects
  BY DEF TypeEffects
<1>5. TypeEffects = AtomicEffects!TypeEffects
  BY <1>3 DEF AtomicEffects!TypeEffects
<1>6. TypeEffects \subseteq All
  BY DEF All
<1>7. All = AtomicEffects!Effects
  BY <1>5 DEF All, AtomicEffects!Effects, AtomicEffects!BattleEffects,
     AtomicEffects!LuaEffects
<1>8. "vanilla" \notin TypeEffects
  BY <1>3
<1> QED BY <1>1, <1>3, <1>4, <1>5, <1>6, <1>7, <1>8

LEMMA Cells1 == Cells \in Nat /\ Cells >= 1 /\ MaxTime \in Nat /\ EffectDuration \in Nat
BY EffectThreadAssumption

(* Time may pass between two checks.                                       *)
LEMMA ReachedLater ==
  ASSUME NEW k \in 1 .. 4, NEW s, NEW t \in Nat, NEW u \in Nat,
         seen.clock \in Nat, t <= u, Reached(k, s, t)
  PROVE  Reached(k, s, u)
<1>1. \A n \in Nat : n <= t => n <= u
  OBVIOUS
<1> QED BY <1>1 DEF Reached

LEMMA ReachedNext ==
  ASSUME NEW k \in 1 .. 3, NEW s, NEW t \in Nat, seen.clock \in Nat,
         Reached(k, s, t)
  PROVE  Reached(k + 1, Passes(s, k, t), t)
<1>1. PICK t1 \in Nat, t2 \in Nat, t3 \in Nat :
    /\ seen.clock <= t1 /\ t1 <= t2 /\ t2 <= t3 /\ t3 <= t
    /\ s = CASE k = 1 -> Begun
            [] k = 2 -> Passes(Begun, 1, t1)
            [] k = 3 -> Passes(Passes(Begun, 1, t1), 2, t2)
            [] OTHER -> Passes(Passes(Passes(Begun, 1, t1), 2, t2), 3, t3)
  BY DEF Reached
<1>2. seen.clock <= t /\ t1 <= t /\ t2 <= t
  BY <1>1
<1>3. CASE k = 1
  <2>1. s = Begun /\ k + 1 = 2 /\ k + 1 # 1
    BY <1>1, <1>3
  <2> QED BY <1>2, <1>3, <2>1 DEF Reached
<1>4. CASE k = 2
  <2>1. s = Passes(Begun, 1, t1) /\ k + 1 = 3
    BY <1>1, <1>4
  <2> QED BY <1>1, <1>2, <1>4, <2>1 DEF Reached
<1>5. CASE k = 3
  <2>1. s = Passes(Passes(Begun, 1, t1), 2, t2) /\ k + 1 = 4
    BY <1>1, <1>5
  <2> QED BY <1>1, <1>2, <1>5, <2>1 DEF Reached
<1> QED BY <1>3, <1>4, <1>5

LEMMA PassesOver ==
  ASSUME NEW k, NEW t, NEW b, NEW tab, b[Check[k]], timer[Check[k]] < t
  PROVE  Passes([active |-> b, table |-> tab], k, t)
           = [active |-> [b EXCEPT ![Check[k]] = FALSE],
              table |-> IF \E f \in TypeEffects \ {Check[k]} : b[f]
                          THEN tab ELSE "vanilla"]
BY DEF Passes

LEMMA ReachedSame ==
  ASSUME UNCHANGED <<timer, seen>>, NEW k, NEW s, NEW t, Reached(k, s, t)
  PROVE  Reached(k, s, t)'
<1>1. seen.clock' = seen.clock /\ Begun' = Begun
  BY DEF Begun
<1>2. ASSUME NEW x, NEW j, NEW n PROVE Passes(x, j, n)' = Passes(x, j, n)
  BY DEF Passes
<1>3. ASSUME NEW n PROVE Passes(Begun, 1, n)' = Passes(Begun, 1, n)
  BY DEF Begun, Passes
<1>4. ASSUME NEW n, NEW m
      PROVE  Passes(Passes(Begun, 1, n), 2, m)' = Passes(Passes(Begun, 1, n), 2, m)
  BY <1>1, <1>2, <1>3
<1>5. ASSUME NEW n, NEW m, NEW l
      PROVE  Passes(Passes(Passes(Begun, 1, n), 2, m), 3, l)'
               = Passes(Passes(Passes(Begun, 1, n), 2, m), 3, l)
  BY <1>1, <1>2, <1>3, <1>4
<1> QED BY <1>1, <1>3, <1>4, <1>5 DEF Reached

-----------------------------------------------------------------------------
(* What CrowdControlEffects sees at each place of a call.                  *)
LEMMA SeenIdle ==
  EffectsTyped /\ EffectsIdle =>
    ~InHook /\ SeenActive = active /\ SeenTable = Piece(cell)
<1> SUFFICES ASSUME EffectsTyped, EffectsIdle
             PROVE  ~InHook /\ SeenActive = active /\ SeenTable = Piece(cell)
  OBVIOUS
<1>1. ~InHook /\ \A t \in Triggers : eventPc[t] = "idle"
  BY DEF EffectsIdle, InHook
<1>2. Writing = {} /\ \A e \in TypeEffects : Setting(e) = {}
  BY <1>1 DEF Writing, Setting
<1>3. SeenActive = active
  BY <1>1, <1>2 DEF SeenActive, EffectsTyped
<1> QED BY <1>1, <1>2, <1>3 DEF SeenTable

LEMMA SeenSetting ==
  \A t \in Triggers : EffectsTyped /\ OneAtWork /\ eventPc[t] = "timer" =>
    LET e == eventArg[t].effect
    IN /\ ~InHook /\ SeenTable = Piece(cell)
       /\ SeenActive = [active EXCEPT ![e] = eventArg[t].was]
<1> SUFFICES ASSUME NEW t \in Triggers, EffectsTyped, OneAtWork, eventPc[t] = "timer"
             PROVE  /\ ~InHook /\ SeenTable = Piece(cell)
                    /\ SeenActive = [active EXCEPT
                         ![eventArg[t].effect] = eventArg[t].was]
  OBVIOUS
<1>1. ~InHook /\ \A u \in Triggers : eventPc[u] # "idle" => u = t
  BY DEF OneAtWork
<1>2. Writing = {} /\ Setting(eventArg[t].effect) = {t}
      /\ \A e \in TypeEffects : e # eventArg[t].effect => Setting(e) = {}
  BY <1>1 DEF Writing, Setting
<1>3. /\ eventArg[t].effect \in TypeEffects /\ eventArg[t].was \in BOOLEAN
      /\ active \in [TypeEffects -> BOOLEAN]
  BY DEF EffectsTyped
<1>4. \A e \in TypeEffects :
        (IF Setting(e) = {} THEN active[e] ELSE \E u \in Setting(e) : eventArg[u].was)
          = [active EXCEPT ![eventArg[t].effect] = eventArg[t].was][e]
  BY <1>2, <1>3
<1>5. SeenActive = [active EXCEPT ![eventArg[t].effect] = eventArg[t].was]
  BY <1>1, <1>3, <1>4 DEF SeenActive
<1> QED BY <1>1, <1>2, <1>5 DEF SeenTable

LEMMA SeenWriting ==
  \A t \in Triggers : EffectsTyped /\ OneAtWork /\ eventPc[t] = "write" =>
    ~InHook /\ SeenActive = active /\ SeenTable = eventArg[t].effect
<1> SUFFICES ASSUME NEW t \in Triggers, EffectsTyped, OneAtWork, eventPc[t] = "write"
             PROVE  /\ ~InHook /\ SeenActive = active
                    /\ SeenTable = eventArg[t].effect
  OBVIOUS
<1>1. ~InHook /\ \A u \in Triggers : eventPc[u] # "idle" => u = t
  BY DEF OneAtWork
<1>2. Writing = {t} /\ \A e \in TypeEffects : Setting(e) = {}
  BY <1>1 DEF Writing, Setting
<1>3. SeenActive = active
  BY <1>1, <1>2 DEF SeenActive, EffectsTyped
<1>4. (CHOOSE u \in Writing : TRUE) = t
  BY <1>2
<1>5. Writing # {}
  BY <1>2
<1> QED BY <1>1, <1>3, <1>4, <1>5 DEF SeenTable

LEMMA SeenHook ==
  InHook => SeenActive = seen.active /\ SeenTable = Piece(seen.cell)
BY DEF SeenActive, SeenTable

LEMMA OfOnePiece ==
  /\ Whole(cell) => Piece(cell) = cell[1]
  /\ Whole(seen.cell) => Piece(seen.cell) = seen.cell[1]
BY DEF Whole, Piece

LEMMA AfterStep ==
  /\ (EffectsTyped /\ EffectsIdle =>
        ~InHook /\ SeenActive = active /\ SeenTable = Piece(cell))'
  /\ (InHook => SeenActive = seen.active /\ SeenTable = Piece(seen.cell))'
  /\ ((Whole(cell) => Piece(cell) = cell[1])
      /\ (Whole(seen.cell) => Piece(seen.cell) = seen.cell[1]))'
  /\ (\A t \in Triggers : EffectsTyped /\ OneAtWork /\ eventPc[t] = "timer" =>
       LET e == eventArg[t].effect
       IN /\ ~InHook /\ SeenTable = Piece(cell)
          /\ SeenActive = [active EXCEPT ![e] = eventArg[t].was])'
  /\ (\A t \in Triggers : EffectsTyped /\ OneAtWork /\ eventPc[t] = "write" =>
       ~InHook /\ SeenActive = active /\ SeenTable = eventArg[t].effect)'
BY SeenIdle, SeenSetting, SeenWriting, SeenHook, OfOnePiece, PTL

(* A step that changes nothing of what is seen.                            *)
LEMMA SeenTheSame ==
  ASSUME (IF InHook THEN seen.clock ELSE clock)'
           = (IF InHook THEN seen.clock ELSE clock),
         SeenActive' = SeenActive, SeenTable' = SeenTable,
         UNCHANGED <<timer, until, latest, outcome>>
  PROVE  UNCHANGED AtomicEffects!vars
<1>1. \A f, r : OnAll(f, r) = [e \in All |-> IF e \in TypeEffects THEN f[e] ELSE r]
  BY DEF OnAll
<1> QED BY <1>1 DEF AtomicEffects!vars, OnAll

-----------------------------------------------------------------------------
(* Events.                                                                 *)
LEMMA BeginKeeps ==
  ASSUME ~MayOverlap, EffectsInv, NEW t \in Triggers, NEW e \in TypeEffects,
         TriggerBegin(t, e)
  PROVE  EffectsInv' /\ UNCHANGED AtomicEffects!vars
<1>1. /\ EffectsIdle /\ eventPc' = [eventPc EXCEPT ![t] = "timer"]
      /\ active' = [active EXCEPT ![e] = TRUE]
      /\ eventArg' = [eventArg EXCEPT ![t] = [effect |-> e, was |-> active[e], n |-> 1]]
      /\ UNCHANGED <<clock, timer, until, latest, cell, outcome, hookPc, seen>>
  BY DEF TriggerBegin, MayBegin
<1>2. /\ EffectsTyped /\ Whole(cell) /\ hookPc.step = "idle"
      /\ \A u \in Triggers : eventPc[u] = "idle"
  BY <1>1 DEF EffectsInv, EffectsIdle
<1>3. /\ eventPc'[t] = "timer" /\ eventArg'[t].effect = e /\ eventArg'[t].n = 1
      /\ eventArg'[t].was = active[e] /\ active'[e]
      /\ \A u \in Triggers : u # t => eventPc'[u] = "idle"
  BY <1>1, <1>2 DEF EffectsTyped
<1>4. EffectsTyped'
  <2>1. [effect |-> e, was |-> active[e], n |-> 1]
          \in [effect : TypeEffects, was : BOOLEAN, n : 1 .. Cells]
    BY <1>2, Cells1 DEF EffectsTyped
  <2> QED BY <1>1, <1>2, <2>1 DEF EffectsTyped
<1>5. OneAtWork' /\ ~EffectsIdle' /\ ~InHook' /\ ~InHook
  BY <1>1, <1>2, <1>3 DEF OneAtWork, EffectsIdle, InHook
<1>6. \A u \in Triggers : EventSoFar(u)'
  BY <1>1, <1>2, <1>3 DEF EventSoFar, Whole
<1>7. EffectsInv'
  BY <1>4, <1>5, <1>6 DEF EffectsInv
<1>8. SeenActive' = SeenActive
  <2>1. SeenActive = active
    BY <1>1, <1>2, SeenIdle
  <2>2. SeenActive' = [active' EXCEPT ![eventArg'[t].effect] = eventArg'[t].was]
    BY <1>3, <1>4, <1>5, AfterStep
  <2>3. [active' EXCEPT ![e] = active[e]] = active
    BY <1>1, <1>2 DEF EffectsTyped
  <2> QED BY <1>3, <2>1, <2>2, <2>3
<1>9. SeenTable' = SeenTable
  <2>1. SeenTable = Piece(cell)
    BY <1>1, <1>2, SeenIdle
  <2>2. SeenTable' = Piece(cell)'
    BY <1>3, <1>4, <1>5, AfterStep
  <2>3. Piece(cell)' = Piece(cell)
    BY <1>1 DEF Piece
  <2> QED BY <2>1, <2>2, <2>3
<1> QED BY <1>1, <1>5, <1>7, <1>8, <1>9, SeenTheSame

(* The step of an event.                                                   *)
LEMMA TimerIsEvent ==
  ASSUME EffectsInv, NEW t \in Triggers, TriggerTimer(t)
  PROVE  EffectsInv' /\ AtomicEffects!Next
<1> DEFINE e == eventArg[t].effect
<1>1. /\ eventPc[t] = "timer" /\ eventPc' = [eventPc EXCEPT ![t] = "write"]
      /\ timer' = [timer EXCEPT ![e] = clock + EffectDuration]
      /\ until' = [until EXCEPT ![e] = clock + EffectDuration] /\ latest' = e
      /\ UNCHANGED <<clock, active, cell, outcome, eventArg, hookPc, seen>>
  BY DEF TriggerTimer
<1>2. /\ EffectsTyped /\ OneAtWork /\ Whole(cell) /\ hookPc.step = "idle"
      /\ eventArg[t].n = 1 /\ active[e] /\ e \in TypeEffects
      /\ \A u \in Triggers : u # t => eventPc[u] = "idle"
  BY <1>1 DEF EffectsInv, EventSoFar, OneAtWork, EffectsTyped
<1>3. /\ eventPc'[t] = "write" /\ eventArg'[t].effect = e /\ eventArg'[t].n = 1
      /\ \A u \in Triggers : u # t => eventPc'[u] = "idle"
  BY <1>1, <1>2 DEF EffectsTyped
<1>4. EffectsTyped'
  <2>1. clock + EffectDuration \in Nat
    BY <1>2, Cells1 DEF EffectsTyped
  <2> HIDE DEF e
  <2>2. timer' \in [TypeEffects -> Nat] /\ until' \in [TypeEffects -> Nat \cup {-1}]
    BY <1>1, <1>2, <2>1 DEF EffectsTyped
  <2>3. eventPc' \in [Triggers -> {"idle", "timer", "write"}]
    BY <1>1, <1>2 DEF EffectsTyped
  <2> QED BY <1>1, <1>2, <2>2, <2>3 DEF EffectsTyped
<1>5. OneAtWork' /\ ~EffectsIdle' /\ ~InHook' /\ ~InHook
  BY <1>1, <1>2, <1>3 DEF OneAtWork, EffectsIdle, InHook
<1>6. \A u \in Triggers : EventSoFar(u)'
  BY <1>1, <1>2, <1>3 DEF EventSoFar, Whole
<1>7. EffectsInv'
  BY <1>4, <1>5, <1>6 DEF EffectsInv
<1>8. SeenActive' = [SeenActive EXCEPT ![e] = TRUE]
  <2>1. SeenActive = [active EXCEPT ![e] = eventArg[t].was]
    BY <1>1, <1>2, SeenSetting
  <2>2. SeenActive' = active'
    BY <1>3, <1>4, <1>5, AfterStep
  <2> HIDE DEF e
  <2>3. [[active EXCEPT ![e] = eventArg[t].was] EXCEPT ![e] = TRUE] = active
    BY <1>2 DEF EffectsTyped
  <2> QED BY <1>1, <2>1, <2>2, <2>3
<1>9. SeenTable' = e
  BY <1>3, <1>4, <1>5, AfterStep
<1> HIDE DEF e
<1>10. SeenActive \in [TypeEffects -> BOOLEAN]
  <2>1. SeenActive = [active EXCEPT ![e] = eventArg[t].was]
    BY <1>1, <1>2, SeenSetting DEF e
  <2>2. eventArg[t].was \in BOOLEAN
    BY <1>2 DEF EffectsTyped
  <2> QED BY <1>2, <2>1, <2>2 DEF EffectsTyped
<1>11. /\ OnAll(SeenActive, FALSE)' = [OnAll(SeenActive, FALSE) EXCEPT ![e] = TRUE]
       /\ OnAll(timer, 0)' = [OnAll(timer, 0) EXCEPT ![e] = clock + EffectDuration]
       /\ OnAll(until, -1)' = [OnAll(until, -1) EXCEPT ![e] = clock + EffectDuration]
  <2>1. e \in TypeEffects
    BY <1>2
  <2>2. timer \in [TypeEffects -> Nat] /\ until \in [TypeEffects -> Nat \cup {-1}]
    BY <1>2 DEF EffectsTyped
  <2>3. /\ OnAll(SeenActive, FALSE)' = OnAll(SeenActive', FALSE)
        /\ OnAll(timer, 0)' = OnAll(timer', 0)
        /\ OnAll(until, -1)' = OnAll(until', -1)
    BY DEF OnAll
  <2>4. /\ OnAll(SeenActive', FALSE) = [OnAll(SeenActive, FALSE) EXCEPT ![e] = TRUE]
        /\ OnAll(timer', 0) = [OnAll(timer, 0) EXCEPT ![e] = clock + EffectDuration]
        /\ OnAll(until', -1) = [OnAll(until, -1) EXCEPT ![e] = clock + EffectDuration]
    <3>1. OnAll([SeenActive EXCEPT ![e] = TRUE], FALSE)
            = [OnAll(SeenActive, FALSE) EXCEPT ![e] = TRUE]
      BY <1>10, <2>1, Checks DEF OnAll
    <3>2. OnAll([timer EXCEPT ![e] = clock + EffectDuration], 0)
            = [OnAll(timer, 0) EXCEPT ![e] = clock + EffectDuration]
      BY <2>1, <2>2, Checks DEF OnAll
    <3>3. OnAll([until EXCEPT ![e] = clock + EffectDuration], -1)
            = [OnAll(until, -1) EXCEPT ![e] = clock + EffectDuration]
      BY <2>1, <2>2, Checks DEF OnAll
    <3> QED BY <1>1, <1>8, <3>1, <3>2, <3>3
  <2> QED BY <2>3, <2>4
<1>12. AtomicEffects!TriggerEvent(e)
  <2>1. e \in AtomicEffects!TypeEffects
    BY <1>2, Checks
  <2> QED
    BY <1>1, <1>5, <1>9, <1>11, <2>1
    DEF AtomicEffects!TriggerEvent, AtomicEffects!Enable, AtomicEffects!Written
<1>13. e \in AtomicEffects!MayLaunch
  <2>1. \A f \in All : f \notin TypeEffects => OnAll(until, -1)[f] = -1
    BY DEF OnAll
  <2> QED BY <1>2, <2>1, Checks DEF AtomicEffects!MayLaunch
<1> QED BY <1>7, <1>12, <1>13 DEF AtomicEffects!Next

LEMMA WriteKeeps ==
  ASSUME EffectsInv, NEW t \in Triggers, TriggerWrite(t)
  PROVE  EffectsInv' /\ UNCHANGED AtomicEffects!vars
<1> DEFINE e == eventArg[t].effect
           n == eventArg[t].n
<1>1. /\ eventPc[t] = "write" /\ cell' = [cell EXCEPT ![n] = e]
      /\ UNCHANGED <<clock, active, timer, until, latest, outcome, hookPc, seen>>
  BY DEF TriggerWrite
<1>2. /\ EffectsTyped /\ OneAtWork /\ e \in TypeEffects /\ n \in 1 .. Cells
      /\ \A m \in 1 .. n - 1 : cell[m] = e
      /\ \A u \in Triggers : u # t => eventPc[u] = "idle"
      /\ hookPc.step = "idle" /\ cell \in [1 .. Cells -> Value]
  BY <1>1 DEF EffectsInv, EventSoFar, OneAtWork, EffectsTyped, InHook
<1>3. /\ cell' \in [1 .. Cells -> Value] /\ \A m \in 1 .. n : cell'[m] = e
  BY <1>1, <1>2 DEF Value
<1>4. SeenActive = active /\ SeenTable = e /\ ~InHook
  BY <1>1, <1>2, SeenWriting
<1>5. CASE n = Cells
  <2>1. eventPc' = [eventPc EXCEPT ![t] = "idle"]
        /\ eventArg' = [eventArg EXCEPT ![t] = NoEvent]
    BY <1>5 DEF TriggerWrite, LastCell
  <2>2. \A u \in Triggers : eventPc'[u] = "idle"
    BY <1>2, <2>1 DEF EffectsTyped
  <2>3. NoEvent \in [effect : TypeEffects, was : BOOLEAN, n : 1 .. Cells]
    BY Checks, Cells1 DEF NoEvent
  <2>4. EffectsTyped'
    BY <1>1, <1>2, <1>3, <2>1, <2>3 DEF EffectsTyped
  <2>5. OneAtWork' /\ EffectsIdle' /\ ~InHook'
    BY <1>1, <1>2, <2>2 DEF OneAtWork, EffectsIdle, InHook
  <2>6. Whole(cell)' /\ cell'[1] = e
    BY <1>2, <1>3, <1>5, Cells1 DEF Whole
  <2>7. EffectsInv'
    BY <2>2, <2>4, <2>5, <2>6 DEF EffectsInv, EventSoFar
  <2>8. SeenActive' = active' /\ SeenTable' = e
    BY <2>4, <2>5, <2>6, AfterStep
  <2> QED BY <1>1, <1>4, <2>5, <2>7, <2>8, SeenTheSame
<1>6. CASE n # Cells
  <2>1. eventPc' = eventPc /\ eventArg' = [eventArg EXCEPT ![t].n = n + 1]
    BY <1>6 DEF TriggerWrite, LastCell
  <2>2. /\ eventArg'[t].effect = e /\ eventArg'[t].n = n + 1 /\ eventPc'[t] = "write"
    BY <1>1, <1>2, <2>1 DEF EffectsTyped
  <2>3. n + 1 \in 1 .. Cells
    BY <1>2, <1>6, Cells1
  <2>4. eventArg' \in [Triggers -> [effect : TypeEffects, was : BOOLEAN, n : 1 .. Cells]]
    <3>1. eventArg[t] \in [effect : TypeEffects, was : BOOLEAN, n : 1 .. Cells]
      BY <1>2 DEF EffectsTyped
    <3>2. [eventArg[t] EXCEPT !.n = n + 1]
            \in [effect : TypeEffects, was : BOOLEAN, n : 1 .. Cells]
      BY <2>3, <3>1
    <3>3. eventArg \in [Triggers -> [effect : TypeEffects, was : BOOLEAN, n : 1 .. Cells]]
      BY <1>2 DEF EffectsTyped
    <3> HIDE DEF n
    <3> QED BY <2>1, <3>2, <3>3
  <2>5. EffectsTyped'
    BY <1>1, <1>2, <1>3, <2>1, <2>4 DEF EffectsTyped
  <2>6. OneAtWork' /\ ~EffectsIdle' /\ ~InHook'
    BY <1>1, <1>2, <2>1, <2>2 DEF OneAtWork, EffectsIdle, InHook
  <2>7. \A u \in Triggers : EventSoFar(u)'
    <3>1. ASSUME NEW u \in Triggers, u # t PROVE EventSoFar(u)'
      BY <1>2, <2>1, <3>1 DEF EventSoFar
    <3>2. \A m \in 1 .. eventArg'[t].n - 1 : cell'[m] = e
      BY <1>2, <1>3, <2>2
    <3>3. EventSoFar(t)'
      BY <2>2, <3>2 DEF EventSoFar
    <3> QED BY <3>1, <3>3
  <2>8. EffectsInv'
    BY <2>5, <2>6, <2>7 DEF EffectsInv
  <2>9. SeenActive' = active' /\ SeenTable' = e
    BY <2>2, <2>5, <2>6, AfterStep
  <2> QED BY <1>1, <1>4, <2>6, <2>8, <2>9, SeenTheSame
<1> QED BY <1>5, <1>6

-----------------------------------------------------------------------------
(* The hook but its last step: nothing is seen of it.                      *)
LEMMA HookUnseen ==
  ASSUME InHook, InHook', UNCHANGED <<timer, until, latest, outcome, seen>>
  PROVE  UNCHANGED AtomicEffects!vars
<1>1. /\ SeenActive = seen.active /\ SeenTable = Piece(seen.cell)
      /\ SeenActive' = seen'.active /\ SeenTable' = Piece(seen.cell)'
  BY SeenHook, AfterStep
<1>2. Piece(seen.cell)' = Piece(seen.cell)
  BY DEF Piece
<1> QED BY <1>1, <1>2, SeenTheSame

(* What a step of the hook must show to keep the invariant.                *)
LEMMA HookGoes ==
  ASSUME EffectsInv, InHook, InHook',
         UNCHANGED <<clock, timer, until, latest, outcome, eventPc, eventArg, seen>>,
         active' \in [TypeEffects -> BOOLEAN], cell' \in [1 .. Cells -> Value],
         hookPc' \in [step : {"idle", "check", "disable", "others", "reset", "return"},
                      k : 1 .. 3, n : 1 .. Cells],
         HookSoFar'
  PROVE  EffectsInv' /\ UNCHANGED AtomicEffects!vars
<1>1. EffectsTyped'
  BY DEF EffectsInv, EffectsTyped
<1>2. \A t \in Triggers : eventPc'[t] = "idle"
  BY DEF EffectsInv, OneAtWork
<1>3. OneAtWork' /\ ~EffectsIdle' /\ \A t \in Triggers : EventSoFar(t)'
  BY <1>2 DEF OneAtWork, EffectsIdle, InHook, EventSoFar
<1> QED BY <1>1, <1>3, HookUnseen DEF EffectsInv

LEMMA HookFacts ==
  ASSUME EffectsInv, InHook
  PROVE  /\ hookPc.k \in 1 .. 3 /\ Check[hookPc.k] \in TypeEffects
         /\ clock \in Nat /\ seen.clock \in Nat /\ HookSoFar
         /\ active \in [TypeEffects -> BOOLEAN] /\ cell \in [1 .. Cells -> Value]
         /\ hookPc.n \in 1 .. Cells /\ 1 \in 1 .. Cells /\ timer \in [TypeEffects -> Nat]
BY Checks, Cells1 DEF EffectsInv, EffectsTyped

LEMMA HookAdvances ==
  ASSUME EffectsInv, InHook, NextCheck(hookPc.k),
         UNCHANGED <<clock, timer, until, latest, outcome, eventPc, eventArg, seen,
                     active>>,
         NEW v, cell' \in [1 .. Cells -> Value], \A n \in 1 .. Cells : cell'[n] = v,
         Reached(hookPc.k + 1, Now(v), clock)
  PROVE  EffectsInv' /\ UNCHANGED AtomicEffects!vars
<1>1. hookPc.k \in 1 .. 3 /\ 1 \in 1 .. Cells /\ HookSoFar
  BY HookFacts
<1>2. PICK k \in 1 .. 3, a \in {active}, c \in {clock} : k = hookPc.k
  BY <1>1
<1>3. Reached(k + 1, [active |-> a, table |-> v], c)'
  BY <1>2, ReachedSame DEF Now
<1>4. Now(cell[1])' = [active |-> a, table |-> v] /\ Whole(cell)' /\ clock' = c
  BY <1>1, <1>2 DEF Now, Whole
<1>5. Whole(seen.cell)' /\ seen'.clock <= clock'
  BY <1>1 DEF HookSoFar, Whole
<1>6. CASE k = 3
  <2>1. hookPc' = [step |-> "return", k |-> 3, n |-> 1]
    BY <1>2, <1>6 DEF NextCheck, HookAt
  <2>2. Reached(4, Now(cell[1]), clock)'
    BY <1>3, <1>4, <1>6
  <2>3. HookSoFar' /\ InHook'
    BY <1>4, <1>5, <2>1, <2>2 DEF HookSoFar, InHook
  <2> QED BY <1>1, <2>1, <2>3, HookGoes, HookFacts
<1>7. CASE k # 3
  <2>1. hookPc' = [step |-> "check", k |-> k + 1, n |-> 1] /\ k + 1 \in 1 .. 3
    BY <1>2, <1>7 DEF NextCheck, HookAt
  <2>2. Reached(hookPc.k, Now(cell[1]), clock)'
    BY <1>3, <1>4, <2>1
  <2>3. HookSoFar' /\ InHook'
    BY <1>4, <1>5, <2>1, <2>2 DEF HookSoFar, InHook
  <2> QED BY <1>1, <2>1, <2>3, HookGoes, HookFacts
<1> QED BY <1>6, <1>7

LEMMA HookBeginKeeps ==
  ASSUME ~MayOverlap, EffectsInv, HookBegin
  PROVE  EffectsInv' /\ UNCHANGED AtomicEffects!vars
<1>1. /\ EffectsIdle /\ hookPc' = [step |-> "check", k |-> 1, n |-> 1]
      /\ seen' = [clock |-> clock, active |-> active, cell |-> cell]
      /\ UNCHANGED <<clock, active, timer, until, latest, cell, outcome, eventPc,
                     eventArg>>
  BY DEF HookBegin, MayBegin, HookAt, effectShared
<1>2. EffectsTyped /\ Whole(cell) /\ ~InHook /\ \A t \in Triggers : eventPc[t] = "idle"
  BY <1>1 DEF EffectsInv, EffectsIdle, InHook
<1>3. /\ seen'.clock = clock /\ seen'.active = active /\ seen'.cell = cell /\ clock \in Nat
  BY <1>1, <1>2, Cells1 DEF EffectsTyped
<1>4. EffectsTyped'
  BY <1>1, <1>2, <1>3, Cells1 DEF EffectsTyped
<1>5. OneAtWork' /\ InHook' /\ ~EffectsIdle' /\ \A t \in Triggers : EventSoFar(t)'
  BY <1>1, <1>2 DEF OneAtWork, InHook, EffectsIdle, EventSoFar
<1>6. Reached(1, Now(cell[1]), clock)'
  BY <1>1, <1>3 DEF Reached, Begun, Now
<1>7. HookSoFar'
  BY <1>1, <1>2, <1>3, <1>6 DEF HookSoFar, Whole
<1>8. EffectsInv'
  BY <1>4, <1>5, <1>7 DEF EffectsInv
<1>9. SeenActive' = SeenActive /\ SeenTable' = SeenTable
  <2>1. SeenActive = active /\ SeenTable = Piece(cell)
    BY <1>1, <1>2, SeenIdle
  <2>2. SeenActive' = seen'.active /\ SeenTable' = Piece(seen.cell)'
    BY <1>5, AfterStep
  <2>3. Piece(seen.cell)' = Piece(cell)
    BY <1>3 DEF Piece
  <2> QED BY <1>3, <2>1, <2>2, <2>3
<1> QED BY <1>1, <1>2, <1>3, <1>5, <1>8, <1>9, SeenTheSame

(* A flag that is set and past its time, put back, is the flag the check   *)
(* saw.                                                                    *)
LEMMA PutBack ==
  ASSUME NEW a \in [TypeEffects -> BOOLEAN], NEW e \in TypeEffects
  PROVE  /\ a[e] => [[a EXCEPT ![e] = FALSE] EXCEPT ![e] = TRUE] = a
         /\ ~a[e] => [[a EXCEPT ![e] = TRUE] EXCEPT ![e] = FALSE] = a
OBVIOUS

LEMMA HookCheckKeeps ==
  ASSUME EffectsInv, HookCheck
  PROVE  EffectsInv' /\ UNCHANGED AtomicEffects!vars
<1>1. /\ hookPc.step = "check" /\ InHook
      /\ UNCHANGED <<clock, active, timer, until, latest, cell, outcome, eventPc,
                     eventArg, seen>>
  BY DEF HookCheck, effectShared, InHook
<1>2. PICK k \in 1 .. 3, a \in {active}, c \in {clock}, v \in {cell[1]} : k = hookPc.k
  BY <1>1, HookFacts
<1>3. /\ k = hookPc.k /\ a = active /\ c = clock /\ v = cell[1]
      /\ Check[k] \in TypeEffects /\ c \in Nat /\ seen.clock \in Nat
      /\ a \in [TypeEffects -> BOOLEAN] /\ cell \in [1 .. Cells -> Value]
      /\ hookPc.n \in 1 .. Cells /\ 1 \in 1 .. Cells
      /\ Whole(seen.cell) /\ seen.clock <= clock /\ Whole(cell)
      /\ Reached(k, Now(v), c)
  BY <1>1, <1>2, HookFacts DEF HookSoFar
<1>4. CASE active[Check[k]] /\ timer[Check[k]] < clock
  <2>1. hookPc' = [step |-> "disable", k |-> k, n |-> 1]
    BY <1>3, <1>4 DEF HookCheck, HookAt
  <2>2. Reached(k, [active |-> a, table |-> v], c)'
    BY <1>1, <1>3, ReachedSame DEF Now
  <2>3. Now(cell[1])' = [active |-> a, table |-> v]
    BY <1>1, <1>3 DEF Now
  <2>4. Reached(hookPc.k, Now(cell[1]), clock)'
    BY <1>1, <1>3, <2>1, <2>2, <2>3
  <2>5. InHook' /\ HookSoFar'
    BY <1>1, <1>3, <1>4, <2>1, <2>4 DEF HookSoFar, InHook, Whole, IsPast
  <2> QED BY <1>1, <1>3, <2>1, <2>5, HookGoes
<1>5. CASE ~(active[Check[k]] /\ timer[Check[k]] < clock)
  <2>1. NextCheck(hookPc.k)
    BY <1>3, <1>5 DEF HookCheck
  <2>2. Passes(Now(v), k, c) = Now(v)
    BY <1>3, <1>5 DEF Passes, Now
  <2>3. Reached(k + 1, Now(v), c)
    BY <1>3, <2>2, ReachedNext
  <2> QED BY <1>1, <1>3, <2>1, <2>3, HookAdvances DEF Whole
<1> QED BY <1>4, <1>5

LEMMA HookDisableKeeps ==
  ASSUME EffectsInv, HookDisable
  PROVE  EffectsInv' /\ UNCHANGED AtomicEffects!vars
<1>1. /\ hookPc.step = "disable" /\ InHook
      /\ active' = [active EXCEPT ![Check[hookPc.k]] = FALSE]
      /\ hookPc' = [step |-> "others", k |-> hookPc.k, n |-> 1]
      /\ UNCHANGED <<clock, timer, until, latest, cell, outcome, eventPc, eventArg,
                     seen>>
  BY DEF HookDisable, HookAt, InHook
<1>2. PICK k \in 1 .. 3, a \in {active}, c \in {clock}, v \in {cell[1]} : k = hookPc.k
  BY <1>1, HookFacts
<1>3. /\ k = hookPc.k /\ a = active /\ c = clock /\ v = cell[1]
      /\ Check[k] \in TypeEffects
      /\ a \in [TypeEffects -> BOOLEAN] /\ cell \in [1 .. Cells -> Value]
      /\ 1 \in 1 .. Cells
      /\ Whole(seen.cell) /\ seen.clock <= clock /\ Whole(cell)
      /\ Reached(k, Now(v), c) /\ active[Check[k]] /\ IsPast(k)
  BY <1>1, <1>2, HookFacts DEF HookSoFar
<1>4. /\ active' \in [TypeEffects -> BOOLEAN] /\ ~active'[Check[k]]
      /\ [active' EXCEPT ![Check[k]] = TRUE] = a
  BY <1>1, <1>3, PutBack
<1>5. Reached(k, [active |-> a, table |-> v], c)'
  BY <1>1, <1>3, ReachedSame DEF Now
<1>6. Ran(hookPc.k, cell[1])' = [active |-> a, table |-> v]
  BY <1>1, <1>3, <1>4 DEF Ran
<1>7. Reached(hookPc.k, Ran(hookPc.k, cell[1]), clock)'
  BY <1>1, <1>3, <1>5, <1>6
<1>8. InHook' /\ HookSoFar'
  BY <1>1, <1>3, <1>4, <1>7 DEF HookSoFar, InHook, Whole, IsPast
<1> QED BY <1>1, <1>3, <1>4, <1>8, HookGoes

LEMMA HookOthersKeeps ==
  ASSUME EffectsInv, HookOthers
  PROVE  EffectsInv' /\ UNCHANGED AtomicEffects!vars
<1>1. /\ hookPc.step = "others" /\ InHook
      /\ UNCHANGED <<clock, active, timer, until, latest, cell, outcome, eventPc,
                     eventArg, seen>>
  BY DEF HookOthers, effectShared, InHook
<1>2. PICK k \in 1 .. 3, a \in {active}, c \in {clock}, v \in {cell[1]} : k = hookPc.k
  BY <1>1, HookFacts
<1>3. /\ k = hookPc.k /\ a = active /\ c = clock /\ v = cell[1]
      /\ Check[k] \in TypeEffects /\ c \in Nat /\ seen.clock \in Nat
      /\ a \in [TypeEffects -> BOOLEAN] /\ cell \in [1 .. Cells -> Value]
      /\ 1 \in 1 .. Cells
      /\ Whole(seen.cell) /\ seen.clock <= clock /\ Whole(cell)
      /\ Reached(k, Ran(k, v), c) /\ ~a[Check[k]] /\ IsPast(k) /\ v \in Value
  BY <1>1, <1>2, HookFacts DEF HookSoFar
<1> DEFINE b == [a EXCEPT ![Check[k]] = TRUE]
<1>4. Ran(k, v) = [active |-> b, table |-> v]
  BY <1>3 DEF Ran
<1>5. CASE OtherRuns(k)
  <2>1. NextCheck(hookPc.k)
    BY <1>1, <1>3, <1>5 DEF HookOthers
  <2>2. /\ b[Check[k]] /\ [b EXCEPT ![Check[k]] = FALSE] = a
        /\ \E f \in TypeEffects \ {Check[k]} : b[f]
    BY <1>3, <1>5, PutBack DEF OtherRuns
  <2>3. timer[Check[k]] < c
    BY <1>3 DEF IsPast
  <2> HIDE DEF b
  <2>4. Passes(Ran(k, v), k, c) = Now(v)
    <3>1. Passes([active |-> b, table |-> v], k, c)
            = [active |-> [b EXCEPT ![Check[k]] = FALSE],
               table |-> IF \E f \in TypeEffects \ {Check[k]} : b[f]
                           THEN v ELSE "vanilla"]
      BY <2>2, <2>3, PassesOver
    <3>2. Passes([active |-> b, table |-> v], k, c) = [active |-> a, table |-> v]
      BY <2>2, <3>1
    <3> QED BY <1>3, <1>4, <3>2 DEF Now
  <2>5. Reached(k + 1, Now(v), c)
    BY <1>3, <2>4, ReachedNext
  <2> QED BY <1>1, <1>3, <2>1, <2>5, HookAdvances DEF Whole
<1>6. CASE ~OtherRuns(k)
  <2>1. hookPc' = [step |-> "reset", k |-> k, n |-> 1]
    BY <1>1, <1>3, <1>6 DEF HookOthers, HookAt
  <2>2. Reached(k, [active |-> b, table |-> v], c)'
    <3> HIDE DEF b
    <3> QED BY <1>1, <1>3, <1>4, ReachedSame
  <2>3. Ran(hookPc.k, v)' = [active |-> b, table |-> v]
    BY <1>1, <1>3, <2>1 DEF Ran
  <2>4. Reached(hookPc.k, Ran(hookPc.k, v), clock)'
    BY <1>1, <1>3, <2>1, <2>2, <2>3
  <2>5. ~OtherRuns(hookPc.k)'
    BY <1>1, <1>3, <1>6, <2>1 DEF OtherRuns
  <2>6. InHook' /\ HookSoFar'
    BY <1>1, <1>3, <2>1, <2>4, <2>5 DEF HookSoFar, InHook, Whole, IsPast
  <2> QED BY <1>1, <1>3, <2>1, <2>6, HookGoes
<1> QED BY <1>5, <1>6

LEMMA HookResetKeeps ==
  ASSUME EffectsInv, HookReset
  PROVE  EffectsInv' /\ UNCHANGED AtomicEffects!vars
<1>1. /\ hookPc.step = "reset" /\ InHook /\ cell' = [cell EXCEPT ![hookPc.n] = "vanilla"]
      /\ UNCHANGED <<clock, active, timer, until, latest, outcome, eventPc, eventArg,
                     seen>>
  BY DEF HookReset, InHook
<1>2. PICK k \in 1 .. 3, a \in {active}, c \in {clock}, n \in 1 .. Cells, v \in Value :
        k = hookPc.k /\ n = hookPc.n /\ Reached(k, Ran(k, v), c)
  BY <1>1, HookFacts DEF HookSoFar
<1>3. /\ k = hookPc.k /\ a = active /\ c = clock /\ n = hookPc.n
      /\ Check[k] \in TypeEffects /\ c \in Nat /\ seen.clock \in Nat
      /\ a \in [TypeEffects -> BOOLEAN] /\ cell \in [1 .. Cells -> Value]
      /\ 1 \in 1 .. Cells /\ Cells \in Nat
      /\ Whole(seen.cell) /\ seen.clock <= clock
      /\ ~a[Check[k]] /\ IsPast(k) /\ ~OtherRuns(k)
      /\ \A m \in 1 .. n - 1 : cell[m] = "vanilla"
  BY <1>1, <1>2, HookFacts, Cells1 DEF HookSoFar
<1>4. /\ cell' \in [1 .. Cells -> Value] /\ \A m \in 1 .. n : cell'[m] = "vanilla"
  BY <1>1, <1>3 DEF Value
<1> DEFINE b == [a EXCEPT ![Check[k]] = TRUE]
<1>5. Ran(k, v) = [active |-> b, table |-> v]
  BY <1>2, <1>3 DEF Ran
<1>6. CASE n = Cells
  <2>1. NextCheck(hookPc.k)
    BY <1>3, <1>6 DEF HookReset
  <2>2. /\ b[Check[k]] /\ [b EXCEPT ![Check[k]] = FALSE] = a
        /\ ~\E f \in TypeEffects \ {Check[k]} : b[f]
    BY <1>3, PutBack DEF OtherRuns
  <2>3. timer[Check[k]] < c
    BY <1>3 DEF IsPast
  <2> HIDE DEF b
  <2>4. Passes(Ran(k, v), k, c) = Now("vanilla")
    <3>1. Passes([active |-> b, table |-> v], k, c)
            = [active |-> [b EXCEPT ![Check[k]] = FALSE],
               table |-> IF \E f \in TypeEffects \ {Check[k]} : b[f]
                           THEN v ELSE "vanilla"]
      BY <2>2, <2>3, PassesOver
    <3>2. Passes([active |-> b, table |-> v], k, c)
            = [active |-> a, table |-> "vanilla"]
      BY <2>2, <3>1
    <3> QED BY <1>3, <1>5, <3>2 DEF Now
  <2>5. Reached(k + 1, Now("vanilla"), c)
    BY <1>2, <1>3, <2>4, ReachedNext
  <2>6. \A m \in 1 .. Cells : cell'[m] = "vanilla"
    BY <1>4, <1>6
  <2> QED BY <1>1, <1>3, <1>4, <2>1, <2>5, <2>6, HookAdvances
<1>7. CASE n # Cells
  <2>1. hookPc' = [step |-> "reset", k |-> k, n |-> n + 1] /\ n + 1 \in 1 .. Cells
    BY <1>3, <1>7 DEF HookReset, HookAt
  <2>2. Reached(k, [active |-> b, table |-> v], c)'
    <3> HIDE DEF b
    <3> QED BY <1>1, <1>2, <1>3, <1>5, ReachedSame
  <2>3. Ran(hookPc.k, v)' = [active |-> b, table |-> v]
    BY <1>1, <1>3, <2>1 DEF Ran
  <2>4. Reached(hookPc.k, Ran(hookPc.k, v), clock)'
    BY <1>1, <1>3, <2>1, <2>2, <2>3
  <2>5. ~OtherRuns(hookPc.k)'
    BY <1>1, <1>3, <2>1 DEF OtherRuns
  <2>6. \A m \in 1 .. hookPc'.n - 1 : cell'[m] = "vanilla"
    BY <1>4, <2>1
  <2>7. InHook' /\ HookSoFar'
    BY <1>1, <1>3, <2>1, <2>4, <2>5, <2>6 DEF HookSoFar, InHook, Whole, IsPast
  <2> QED BY <1>1, <1>3, <1>4, <2>1, <2>7, HookGoes
<1> QED BY <1>6, <1>7

(* The hook's step: its checks are those of CrowdControlEffects.           *)
HookState == [active : [TypeEffects -> BOOLEAN], table : Value]
SameState(r, s) == s = [active |-> OnAll(r.active, FALSE), table |-> r.table]

LEMMA ChecksAgree ==
  ASSUME EffectsTyped, NEW k \in 1 .. 3, NEW t \in Nat,
         NEW r \in HookState, NEW s, SameState(r, s)
  PROVE  /\ Passes(r, k, t) \in HookState
         /\ SameState(Passes(r, k, t), AtomicEffects!TypeCheck(s, Check[k], t))
<1>1. PICK e \in TypeEffects, a \in [TypeEffects -> BOOLEAN], tab \in Value :
        e = Check[k] /\ r = [active |-> a, table |-> tab]
  BY Checks DEF HookState
<1>2. s = [active |-> OnAll(a, FALSE), table |-> tab]
  BY <1>1 DEF SameState
<1>3. /\ e \in All /\ OnAll(a, FALSE)[e] = a[e]
      /\ OnAll(timer, 0)[e] = timer[e]
      /\ \A f \in TypeEffects : OnAll(a, FALSE)[f] = a[f]
  BY Checks DEF OnAll
<1>4. CASE a[e] /\ timer[e] < t
  <2>1. PICK b \in [TypeEffects -> BOOLEAN] : b = [a EXCEPT ![e] = FALSE]
    OBVIOUS
  <2>2. PICK u \in Value :
          u = IF \E f \in TypeEffects \ {e} : a[f] THEN tab ELSE "vanilla"
    BY DEF Value
  <2>3. Passes(r, k, t) = [active |-> b, table |-> u]
    BY <1>1, <1>4, <2>1, <2>2 DEF Passes
  <2>4. OnAll(b, FALSE) = [OnAll(a, FALSE) EXCEPT ![e] = FALSE]
    BY <2>1, Checks DEF OnAll
  <2>5. s.active[e] /\ OnAll(timer, 0)[e] < t
    BY <1>2, <1>3, <1>4
  <2>6. (\E f \in AtomicEffects!TypeEffects \ {e} : s.active[f])
          <=> (\E f \in TypeEffects \ {e} : a[f])
    BY <1>2, <1>3, Checks
  <2>7. AtomicEffects!TypeCheck(s, e, t) = [active |-> OnAll(b, FALSE), table |-> u]
    <3>1. AtomicEffects!TypeCheck(s, e, t)
            = [active |-> [s.active EXCEPT ![e] = FALSE],
               table |-> IF \E f \in AtomicEffects!TypeEffects \ {e} : s.active[f]
                           THEN s.table ELSE "vanilla"]
      BY <2>5 DEF AtomicEffects!TypeCheck, AtomicEffects!IsOver
    <3>2. s.active = OnAll(a, FALSE) /\ s.table = tab
      BY <1>2
    <3> QED BY <2>2, <2>4, <2>6, <3>1, <3>2
  <2>8. SameState([active |-> b, table |-> u], [active |-> OnAll(b, FALSE), table |-> u])
    BY DEF SameState
  <2> QED BY <1>1, <2>3, <2>7, <2>8 DEF HookState
<1>5. CASE ~(a[e] /\ timer[e] < t)
  <2>1. Passes(r, k, t) = r
    BY <1>1, <1>5 DEF Passes
  <2>2. ~(s.active[e] /\ OnAll(timer, 0)[e] < t)
    BY <1>2, <1>3, <1>5
  <2>3. AtomicEffects!TypeCheck(s, e, t) = s
    BY <2>2 DEF AtomicEffects!TypeCheck, AtomicEffects!IsOver
  <2> QED BY <1>1, <2>1, <2>3
<1> QED BY <1>4, <1>5

LEMMA ReturnIsHook ==
  ASSUME EffectsInv, HookReturn
  PROVE  EffectsInv' /\ AtomicEffects!Next
<1>1. /\ hookPc.step = "return" /\ InHook
      /\ outcome' = [hook |-> "type", result |-> cell[1],
                     begun |-> InForce(seen.clock), ended |-> InForce(clock),
                     latest |-> latest]
      /\ hookPc' = [step |-> "idle", k |-> 1, n |-> 1] /\ seen' = NotSeen
      /\ UNCHANGED <<clock, active, timer, until, latest, cell, eventPc, eventArg>>
  BY DEF HookReturn, HookAt, effectShared, InHook
<1>2. /\ EffectsTyped /\ Whole(seen.cell) /\ seen.clock <= clock /\ Whole(cell)
      /\ Reached(4, Now(cell[1]), clock) /\ \A t \in Triggers : eventPc[t] = "idle"
      /\ clock \in 0 .. MaxTime /\ seen.clock \in Nat
      /\ seen.active \in [TypeEffects -> BOOLEAN]
  BY <1>1 DEF EffectsInv, EffectsTyped, HookSoFar, OneAtWork
<1>3. EffectsInv' /\ ~InHook' /\ EffectsIdle' /\ EffectsTyped'
  <2>1. NotSeen \in [clock : Nat, active : [TypeEffects -> BOOLEAN],
                     cell : [1 .. Cells -> Value]]
    BY DEF NotSeen, Value
  <2>2. EffectsTyped'
    BY <1>1, <1>2, <2>1, Cells1 DEF EffectsTyped
  <2> QED BY <1>1, <1>2, <2>2
          DEF EffectsInv, OneAtWork, EffectsIdle, InHook, EventSoFar, Whole
<1>4. PICK t1 \in Nat, t2 \in Nat, t3 \in Nat :
        /\ seen.clock <= t1 /\ t1 <= t2 /\ t2 <= t3 /\ t3 <= clock
        /\ Now(cell[1]) = Passes(Passes(Passes(Begun, 1, t1), 2, t2), 3, t3)
  BY <1>2 DEF Reached
<1>5. PICK s0 : s0 = [active |-> OnAll(seen.active, FALSE), table |-> seen.cell[1]]
  OBVIOUS
<1>6. PICK s1 : s1 = AtomicEffects!TypeCheck(s0, "invertTypeEffects", t1)
  OBVIOUS
<1>7. PICK s2 : s2 = AtomicEffects!TypeCheck(s1, "disableTypeEffects", t2)
  OBVIOUS
<1>8. PICK s3 : s3 = AtomicEffects!TypeCheck(s2, "randomTypeEffects", t3)
  OBVIOUS
<1>9. s3 = [active |-> OnAll(active, FALSE), table |-> cell[1]]
  <2>1. Begun \in HookState /\ SameState(Begun, s0)
    <3>1. PICK a \in [TypeEffects -> BOOLEAN], v \in Value :
            a = seen.active /\ v = seen.cell[1]
      BY <1>2, Cells1 DEF EffectsTyped
    <3>2. Begun = [active |-> a, table |-> v]
          /\ s0 = [active |-> OnAll(a, FALSE), table |-> v]
      BY <1>5, <3>1 DEF Begun
    <3> QED BY <3>2 DEF HookState, SameState
  <2>2. /\ Passes(Begun, 1, t1) \in HookState
        /\ SameState(Passes(Begun, 1, t1), s1)
    BY <1>2, <1>6, <2>1, Checks, ChecksAgree
  <2>3. /\ Passes(Passes(Begun, 1, t1), 2, t2) \in HookState
        /\ SameState(Passes(Passes(Begun, 1, t1), 2, t2), s2)
    BY <1>2, <1>7, <2>2, Checks, ChecksAgree
  <2>4. SameState(Now(cell[1]), s3)
    BY <1>2, <1>4, <1>8, <2>3, Checks, ChecksAgree
  <2> QED BY <2>4 DEF SameState, Now
<1>10. /\ SeenActive = seen.active /\ SeenTable = seen.cell[1]
       /\ SeenActive' = active /\ SeenTable' = cell[1]
  <2>1. SeenActive = seen.active /\ SeenTable = seen.cell[1]
    BY <1>1, <1>2, SeenHook, OfOnePiece
  <2>2. SeenActive' = active' /\ SeenTable' = Piece(cell)'
    BY <1>3, AfterStep
  <2>3. Piece(cell)' = cell[1]
    BY <1>1, <1>2 DEF Piece, Whole
  <2> QED BY <1>1, <2>1, <2>2, <2>3
<1>11. \A t \in Nat : AtomicEffects!InForce(t) = InForce(t)
  <2>1. \A e \in All : OnAll(until, -1)[e] = IF e \in TypeEffects THEN until[e] ELSE -1
    BY DEF OnAll
  <2>2. ASSUME NEW t \in Nat, NEW e
        PROVE  e \in AtomicEffects!InForce(t) <=> e \in InForce(t)
    <3>1. ~(t <= -1)
      OBVIOUS
    <3>2. e \in AtomicEffects!InForce(t) <=> e \in All /\ t <= OnAll(until, -1)[e]
      BY Checks DEF AtomicEffects!InForce
    <3>3. e \in InForce(t) <=> e \in TypeEffects /\ t <= until[e]
      BY DEF InForce
    <3> QED BY <2>1, <3>1, <3>2, <3>3, Checks
  <2> QED BY <2>2 DEF InForce
<1>12. clock \in Nat /\ AtomicEffects!InForce(clock) = InForce(clock)
       /\ AtomicEffects!InForce(seen.clock) = InForce(seen.clock)
  BY <1>2, <1>11, Cells1
<1>13. /\ OnAll(SeenActive, FALSE)' = OnAll(active, FALSE)
       /\ OnAll(SeenActive, FALSE) = OnAll(seen.active, FALSE)
       /\ OnAll(timer, 0)' = OnAll(timer, 0) /\ OnAll(until, -1)' = OnAll(until, -1)
  BY <1>1, <1>10 DEF OnAll
<1>14. /\ (IF InHook THEN seen.clock ELSE clock)' = clock
       /\ (IF InHook THEN seen.clock ELSE clock) = seen.clock
  BY <1>1, <1>3
<1>15. PICK r \in {cell[1]} : r = s3.table
  BY <1>9
<1>16. AtomicEffects!Ends("type", clock, r)
  BY <1>1, <1>12, <1>13, <1>14, <1>15 DEF AtomicEffects!Ends
<1>17. AtomicEffects!TypeMatch(t1, t2, t3, clock)
  <2>1. s0 = [active |-> OnAll(SeenActive, FALSE), table |-> SeenTable]
    BY <1>5, <1>10, <1>13
  <2>2. OnAll(SeenActive, FALSE)' = s3.active /\ SeenTable' = s3.table
    BY <1>9, <1>10, <1>13
  <2> QED BY <1>6, <1>7, <1>8, <1>15, <1>16, <2>1, <2>2 DEF AtomicEffects!TypeMatch
<1>18. AtomicEffects!BattleHook
  <2>1. /\ clock \in seen.clock .. MaxTime /\ t1 \in seen.clock .. clock
        /\ t2 \in t1 .. clock /\ t3 \in t2 .. clock
    BY <1>2, <1>4, Cells1
  <2> QED BY <1>14, <1>17, <2>1 DEF AtomicEffects!BattleHook
<1> QED BY <1>3, <1>18 DEF AtomicEffects!Next

-----------------------------------------------------------------------------
(* What is seen stays while the places of the calls and the bytes stay.    *)
LEMMA SeenKept ==
  ASSUME UNCHANGED <<active, cell, eventPc, eventArg, hookPc, seen>>
  PROVE  SeenActive' = SeenActive /\ SeenTable' = SeenTable
<1>1. Writing' = Writing /\ InHook' = InHook
  BY DEF Writing, InHook
<1>2. Piece(cell)' = Piece(cell) /\ Piece(seen.cell)' = Piece(seen.cell)
  BY DEF Piece
<1>3. \A e \in TypeEffects : Setting(e)' = Setting(e)
  BY DEF Setting
<1>4. PICK W : W = Writing
  OBVIOUS
<1>5. (CHOOSE t \in Writing : TRUE)' = (CHOOSE t \in Writing : TRUE)
  BY <1>1, <1>4
<1>6. SeenTable' = SeenTable
  BY <1>1, <1>2, <1>5 DEF SeenTable
<1>7. SeenActive' = SeenActive
  BY <1>1, <1>3 DEF SeenActive
<1> QED BY <1>6, <1>7

LEMMA TickPasses ==
  ASSUME EffectsInv, Tick
  PROVE  EffectsInv' /\ [AtomicEffects!Next]_(AtomicEffects!vars)
<1>1. /\ clock < MaxTime /\ clock' = clock + 1
      /\ UNCHANGED <<active, timer, until, latest, cell, outcome, eventPc, eventArg,
                     hookPc, seen>>
  BY DEF Tick, effectShared
<1>2. EffectsTyped /\ clock \in Nat /\ clock' \in 0 .. MaxTime
  BY <1>1, Cells1 DEF EffectsInv, EffectsTyped
<1>3. EffectsTyped' /\ OneAtWork' /\ (EffectsIdle' => Whole(cell)')
      /\ \A t \in Triggers : EventSoFar(t)'
  BY <1>1, <1>2 DEF EffectsInv, EffectsTyped, OneAtWork, InHook, EffectsIdle, Whole,
     EventSoFar
<1>4. CASE InHook
  <2>1. PICK k \in 1 .. 3, a \in {active}, c \in {clock}, d \in {clock + 1},
             n \in {cell[1]} : k = hookPc.k
    BY <1>4, HookFacts
  <2>2. HookSoFar /\ seen.clock \in Nat /\ InHook' /\ c \in Nat /\ d \in Nat /\ c <= d
        /\ Check[k] \in TypeEffects /\ timer \in [TypeEffects -> Nat]
        /\ clock' = d /\ clock = c /\ active = a /\ cell[1] = n
    BY <1>1, <1>2, <1>4, <2>1, HookFacts DEF InHook
  <2>3. \A s : \A j \in 1 .. 4 : Reached(j, s, c) => Reached(j, s, d)
    BY <2>2, ReachedLater
  <2>4. \A s : \A j \in 1 .. 4 : Reached(j, s, d) => Reached(j, s, d)'
    BY <1>1, ReachedSame
  <2>5. \A s : \A j \in 1 .. 4 : Reached(j, s, c) => Reached(j, s, d)'
    BY <2>3, <2>4
  <2>6. IsPast(k) => IsPast(k)'
    BY <1>1, <2>2 DEF IsPast
  <2>7. HookSoFar'
    BY <1>1, <2>1, <2>2, <2>5, <2>6 DEF HookSoFar, Whole, Now, Ran, OtherRuns
  <2> QED BY <1>1, <1>3, <1>4, <2>2, <2>7, HookUnseen DEF EffectsInv
<1>5. CASE ~InHook
  <2>1. EffectsInv' /\ ~InHook'
    BY <1>1, <1>3, <1>5 DEF EffectsInv, InHook
  <2>2. SeenActive' = SeenActive /\ SeenTable' = SeenTable
    BY <1>1, <1>5, <2>1, SeenKept
  <2>3. /\ OnAll(SeenActive, FALSE)' = OnAll(SeenActive, FALSE)
        /\ OnAll(timer, 0)' = OnAll(timer, 0) /\ OnAll(until, -1)' = OnAll(until, -1)
    BY <1>1, <2>2 DEF OnAll
  <2>4. AtomicEffects!Tick
    BY <1>1, <1>5, <2>1, <2>2, <2>3 DEF AtomicEffects!Tick
  <2> QED BY <2>1, <2>4 DEF AtomicEffects!Next
<1> QED BY <1>4, <1>5

-----------------------------------------------------------------------------
LEMMA EffectsBegin ==
  ASSUME EffectsInit
  PROVE  EffectsInv /\ AtomicEffects!Init
<1>1. EffectsIdle /\ Whole(cell) /\ Piece(cell) = "vanilla" /\ ~InHook
  BY Cells1 DEF EffectsInit, EffectsIdle, Whole, Piece, InHook
<1>2. EffectsTyped
  <2>1. NotSeen \in [clock : Nat, active : [TypeEffects -> BOOLEAN],
                     cell : [1 .. Cells -> Value]]
    BY DEF NotSeen, Value
  <2>2. NoEvent \in [effect : TypeEffects, was : BOOLEAN, n : 1 .. Cells]
    BY Checks, Cells1 DEF NoEvent
  <2> QED BY <2>1, <2>2, Cells1 DEF EffectsInit, EffectsTyped, Value
<1>3. EffectsInv
  BY <1>1, <1>2 DEF EffectsInv, EffectsInit, OneAtWork, EventSoFar
<1>4. SeenActive = active /\ SeenTable = "vanilla"
  BY <1>1, <1>2, SeenIdle
<1>5. OnAll(SeenActive, FALSE) = [e \in All |-> FALSE]
      /\ OnAll(timer, 0) = [e \in All |-> 0] /\ OnAll(until, -1) = [e \in All |-> -1]
  BY <1>4 DEF EffectsInit, OnAll
<1> QED BY <1>1, <1>3, <1>4, <1>5, Checks DEF EffectsInit, AtomicEffects!Init

(* Stuttering.                                                             *)
LEMMA NothingSeen ==
  ASSUME EffectsInv, UNCHANGED effectVars
  PROVE  EffectsInv' /\ UNCHANGED AtomicEffects!vars
<1>1. UNCHANGED <<clock, active, timer, until, latest, cell, outcome, eventPc, eventArg,
                  hookPc, seen>>
  BY DEF effectVars, effectShared
<1>2. EffectsTyped' /\ OneAtWork' /\ (EffectsIdle' => Whole(cell)')
      /\ \A t \in Triggers : EventSoFar(t)'
  BY <1>1 DEF EffectsInv, EffectsTyped, OneAtWork, InHook, EffectsIdle, Whole,
     EventSoFar
<1>3. InHook' = InHook
  BY <1>1 DEF InHook
<1>4. InHook => HookSoFar'
  <2> SUFFICES ASSUME InHook PROVE HookSoFar'
    OBVIOUS
  <2>1. PICK k \in 1 .. 3, a \in {active}, c \in {clock}, n \in {cell[1]} :
          k = hookPc.k
    BY HookFacts
  <2>2. HookSoFar /\ clock' = c /\ clock = c /\ active = a /\ cell[1] = n
    BY <1>1, <2>1, HookFacts
  <2>3. \A s : \A j \in 1 .. 4 : Reached(j, s, c) => Reached(j, s, c)'
    BY <1>1, ReachedSame
  <2>4. IsPast(k) => IsPast(k)'
    BY <1>1 DEF IsPast
  <2>5. Whole(seen.cell)' /\ (seen.clock <= clock)' /\ (Whole(cell) => Whole(cell)')
        /\ (OtherRuns(k)' => OtherRuns(k)) /\ hookPc' = hookPc /\ hookPc.k = k
    BY <1>1, <2>1, <2>2 DEF HookSoFar, Whole, OtherRuns
  <2>6. /\ Reached(k, Now(n), c) => Reached(k, Now(cell[1]), clock)'
        /\ Reached(4, Now(n), c) => Reached(4, Now(cell[1]), clock)'
    BY <1>1, <2>2, <2>3 DEF Now
  <2>7. \A tab : Reached(k, Ran(k, tab), c) => Reached(k, Ran(k, tab), clock)'
    BY <1>1, <2>2, <2>3 DEF Ran
  <2>8. Reached(k, Ran(k, n), c) => Reached(k, Ran(k, cell[1]), clock)'
    BY <1>1, <2>2, <2>3 DEF Ran
  <2> QED BY <1>1, <2>2, <2>4, <2>5, <2>6, <2>7, <2>8 DEF HookSoFar
<1>5. EffectsInv'
  BY <1>2, <1>3, <1>4 DEF EffectsInv
<1> QED BY <1>1, <1>3, <1>5, SeenKept, SeenTheSame

LEMMA EffectsGoOn ==
  ASSUME ~MayOverlap, EffectsInv, [EffectsNext]_effectVars
  PROVE  EffectsInv' /\ [AtomicEffects!Next]_(AtomicEffects!vars)
<1>1. ASSUME NEW t \in Triggers, Trigger(t)
      PROVE  EffectsInv' /\ [AtomicEffects!Next]_(AtomicEffects!vars)
  BY <1>1, BeginKeeps, TimerIsEvent, WriteKeeps DEF Trigger
<1>2. ASSUME Hook PROVE EffectsInv' /\ [AtomicEffects!Next]_(AtomicEffects!vars)
  BY <1>2, HookBeginKeeps, HookCheckKeeps, HookDisableKeeps, HookOthersKeeps,
     HookResetKeeps, ReturnIsHook DEF Hook
<1>3. CASE UNCHANGED effectVars
  BY <1>3, NothingSeen
<1> QED BY <1>1, <1>2, <1>3, TickPasses DEF EffectsNext

(* Where calls do not overlap, CrowdControlThreads implements              *)
(* CrowdControlEffects, for any number of threads, any size of the table,  *)
(* any duration and any bound of the clock: an event happens when its      *)
(* timer is set and the hook when it returns, though the clock goes on     *)
(* within both.                                                            *)
THEOREM SerialEffects ==
  ASSUME ~MayOverlap
  PROVE  EffectsSpec => SerialEffectsAreAtomic
<1>1. EffectsInit => EffectsInv /\ AtomicEffects!Init
  BY EffectsBegin
<1>2. EffectsInv /\ [EffectsNext]_effectVars
        => EffectsInv' /\ [AtomicEffects!Next]_(AtomicEffects!vars)
  BY EffectsGoOn
<1> QED BY <1>1, <1>2, PTL DEF EffectsSpec, SerialEffectsAreAtomic, AtomicEffects!Spec
=============================================================================
