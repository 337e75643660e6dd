----------------------------- MODULE MemoryObject -----------------------------
(***************************************************************************)
(* mem::MemoryObject (common/src/memory): an object with a count of its    *)
(* references, taken and dropped on any thread.  The test of m_invalid,    *)
(* the atomic count and the store of m_invalid are three steps.            *)
(***************************************************************************)
EXTENDS Integers, FiniteSets

CONSTANT RefUser      \* threads that use references to the object

ASSUME RefAssumption == IsFiniteSet(RefUser)

VARIABLES
  m_refcount, m_invalid,
  refPc,         \* place of each thread in the two functions
  refs,          \* references each thread holds
  zeroed,        \* times that onZeroReference ran
  revived        \* history: a reference was taken from a count of zero

refVars == <<m_refcount, m_invalid, refPc, refs, zeroed, revived>>
MaxRefs == 2     \* bound: references of one thread

RefTypeOK ==
  /\ m_refcount \in Int /\ m_invalid \in BOOLEAN /\ revived \in BOOLEAN
  /\ refPc \in [RefUser -> {"out", "inc", "dec", "invalidate", "zero"}]
  /\ refs \in [RefUser -> 0..MaxRefs]
  /\ zeroed \in Nat

(* The object is new: the count is zero and nobody has a reference.        *)
RefInit ==
  /\ m_refcount = 0 /\ m_invalid = FALSE
  /\ refPc = [t \in RefUser |-> "out"]
  /\ refs = [t \in RefUser |-> 0]
  /\ zeroed = 0 /\ revived = FALSE

RefGoto(t, place) == refPc' = [refPc EXCEPT ![t] = place]

(* incrementReference: a reference is had even when nothing was counted.   *)
IncrementReference(t) ==
  /\ refPc[t] = "out" /\ refs[t] < MaxRefs
  /\ IF m_invalid
       THEN refs' = [refs EXCEPT ![t] = @ + 1] /\ UNCHANGED refPc
       ELSE RefGoto(t, "inc") /\ UNCHANGED refs
  /\ UNCHANGED <<m_refcount, m_invalid, zeroed, revived>>
FetchAdd(t) ==
  /\ refPc[t] = "inc"
  /\ m_refcount' = m_refcount + 1
  /\ refs' = [refs EXCEPT ![t] = @ + 1]
  /\ revived' = (revived \/ m_invalid \/ \E u \in RefUser : refPc[u] = "invalidate")
  /\ RefGoto(t, "out")
  /\ UNCHANGED <<m_invalid, zeroed>>

DecrementReference(t) ==
  /\ refPc[t] = "out" /\ refs[t] > 0
  /\ refs' = [refs EXCEPT ![t] = @ - 1]
  /\ IF m_invalid THEN UNCHANGED refPc ELSE RefGoto(t, "dec")
  /\ UNCHANGED <<m_refcount, m_invalid, zeroed, revived>>
(* Mutant: the object goes when one reference is left.                     *)
WasLastBefore == m_refcount = 2
WasLast == m_refcount - 1 = 0
FetchSub(t) ==
  /\ refPc[t] = "dec"
  /\ m_refcount' = m_refcount - 1
  /\ RefGoto(t, IF WasLast THEN "invalidate" ELSE "out")
  /\ UNCHANGED <<m_invalid, refs, zeroed, revived>>
Invalidate(t) ==
  /\ refPc[t] = "invalidate"
  /\ m_invalid' = TRUE
  /\ RefGoto(t, "zero")
  /\ UNCHANGED <<m_refcount, refs, zeroed, revived>>
OnZeroReference(t) ==
  /\ refPc[t] = "zero"
  /\ zeroed' = zeroed + 1
  /\ RefGoto(t, "out")
  /\ UNCHANGED <<m_refcount, m_invalid, refs, revived>>

RefNext ==
  \E t \in RefUser :
    \/ IncrementReference(t) \/ FetchAdd(t)
    \/ DecrementReference(t) \/ FetchSub(t) \/ Invalidate(t)
    \/ OnZeroReference(t)

RefSpec == RefInit /\ [][RefNext]_refVars

-----------------------------------------------------------------------------
(* An object is released once, and never while a reference to it is held   *)
(* that was counted, unless one was taken between the last decrement and   *)
(* the store of m_invalid.                                                 *)
ReleasedUnused ==
  (~revived /\ (zeroed > 0 \/ \E t \in RefUser : refPc[t] = "zero")) =>
    zeroed <= 1 /\ m_refcount = 0
=============================================================================
