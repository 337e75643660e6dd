---------------------- MODULE CrowdControlEffectsProofs ----------------------
(***************************************************************************)
(* What CrowdControlEffects promises, for every duration, every clock and  *)
(* every set of effects that are offered.                                  *)
(***************************************************************************)
EXTENDS CrowdControlEffects, TLAPS

(* An effect whose flag is set has its timer at the end of its time; one   *)
(* whose flag is not set is over: what a check of a flag relies on.        *)
FlagsAt(a, t) ==
  \A e \in Effects :
    /\ a[e] => timer[e] = until[e]
    /\ ~a[e] => until[e] < t

(* A check of one flag keeps the flags right at the time it reads.         *)
LEMMA CheckedFlags ==
  ASSUME NEW a \in [Effects -> BOOLEAN], NEW d \in Effects,
         NEW t0 \in Nat, NEW t \in Nat, t0 <= t, FlagsAt(a, t0),
         timer \in [Effects -> Nat], until \in [Effects -> Nat \cup {-1}]
  PROVE  /\ Checked(a, d, t) \in [Effects -> BOOLEAN]
         /\ FlagsAt(Checked(a, d, t), t)
         /\ Checked(a, d, t)[d] => t <= until[d]
         /\ ~Checked(a, d, t)[d] => until[d] < t
         /\ \A e \in Effects \ {d} : Checked(a, d, t)[e] = a[e]
<1>1. CASE IsOver(a, d, t)
  <2>1. Checked(a, d, t) = [a EXCEPT ![d] = FALSE]
    BY <1>1 DEF Checked
  <2>2. a[d] /\ timer[d] = until[d] /\ timer[d] < t
    BY <1>1 DEF IsOver, FlagsAt
  <2>3. \A e \in Effects : ~a[e] => until[e] < t
    BY DEF FlagsAt
  <2> QED
    BY <2>1, <2>2, <2>3 DEF FlagsAt
<1>2. CASE ~IsOver(a, d, t)
  <2>1. Checked(a, d, t) = a
    BY <1>2 DEF Checked
  <2>2. a[d] => timer[d] = until[d] /\ t <= timer[d]
    BY <1>2 DEF IsOver, FlagsAt
  <2>3. \A e \in Effects : ~a[e] => until[e] < t
    BY DEF FlagsAt
  <2> QED
    BY <2>1, <2>2, <2>3 DEF FlagsAt
<1> QED
  BY <1>1, <1>2

(* The three type effects' part of the invariant, for the hook's state s.  *)
OwnedAt(s) ==
  /\ s.table = "vanilla" <=> \A e \in TypeEffects : ~s.active[e]
  /\ s.table \in {"vanilla", latest}

(* One check of the type hook keeps the flags right and the table owned.   *)
LEMMA TypeChecked ==
  ASSUME NEW a \in [Effects -> BOOLEAN], NEW b \in Table,
         NEW d \in TypeEffects, NEW t0 \in Nat, NEW t \in Nat, t0 <= t,
         FlagsAt(a, t0), OwnedAt([active |-> a, table |-> b]),
         timer \in [Effects -> Nat], until \in [Effects -> Nat \cup {-1}],
         NEW s, s = TypeCheck([active |-> a, table |-> b], d, t)
  PROVE  /\ s = [active |-> s.active, table |-> s.table]
         /\ s.active \in [Effects -> BOOLEAN]
         /\ s.table \in Table
         /\ FlagsAt(s.active, t)
         /\ OwnedAt(s)
         /\ \A e \in Effects : s.active[e] => a[e]
         /\ s.active[d] => t <= until[d]
<1>0. d \in Effects
  BY DEF Effects
<1>1. CASE IsOver(a, d, t)
  <2> DEFINE a1 == [a EXCEPT ![d] = FALSE]
             b1 == IF \E f \in TypeEffects \ {d} : a[f]
                     THEN b ELSE "vanilla"
  <2>1. s = [active |-> a1, table |-> b1]
    BY <1>1 DEF TypeCheck
  <2>2. FlagsAt(s.active, t)
    BY <1>0, <1>1, <2>1 DEF FlagsAt, IsOver
  <2>3. OwnedAt(s)
    BY <1>0, <1>1, <2>1 DEF OwnedAt, IsOver, Table, Effects, TypeEffects
  <2>4. /\ s.active \in [Effects -> BOOLEAN]
        /\ s.table \in Table
        /\ s.active[d] = FALSE
        /\ \A e \in Effects : s.active[e] => a[e]
    <3>1. s.active = a1 /\ s.table = b1
      <4> HIDE DEF a1, b1
      <4> QED
        BY <2>1
    <3>2. b1 \in Table
      BY DEF Table
    <3>3. a1 \in [Effects -> BOOLEAN] /\ a1[d] = FALSE
      BY <1>0
    <3>4. \A e \in Effects : a1[e] => a[e]
      BY <1>0
    <3> QED
      BY <3>1, <3>2, <3>3, <3>4
  <2>5. s = [active |-> s.active, table |-> s.table]
    <3> HIDE DEF a1, b1
    <3> QED
      BY <2>1
  <2> QED
    BY <2>2, <2>3, <2>4, <2>5
<1>2. CASE ~IsOver(a, d, t)
  <2>1. s = [active |-> a, table |-> b]
    BY <1>2 DEF TypeCheck
  <2>2. FlagsAt(a, t)
    BY DEF FlagsAt
  <2>3. a[d] => t <= until[d]
    BY <1>0, <1>2 DEF IsOver, FlagsAt
  <2>4. s.active = a /\ s.table = b
    BY <2>1
  <2>5. OwnedAt(s)
    BY <2>1
  <2>6. s = [active |-> s.active, table |-> s.table]
    BY <2>1, <2>4
  <2>7. FlagsAt(s.active, t) /\ (s.active[d] => t <= until[d])
    BY <2>2, <2>3, <2>4
  <2>8. \A e \in Effects : s.active[e] => a[e]
    BY <2>4
  <2>9. s.active \in [Effects -> BOOLEAN] /\ s.table \in Table
    BY <2>4
  <2> QED
    BY <2>5, <2>6, <2>7, <2>8, <2>9
<1> QED
  BY <1>1, <1>2

-----------------------------------------------------------------------------
(* An effect that is over stays so as the clock goes on.                   *)
LEMMA FlagsLater ==
  ASSUME NEW a \in [Effects -> BOOLEAN], NEW t0 \in Nat, NEW t \in Nat,
         t0 <= t, FlagsAt(a, t0), until \in [Effects -> Nat \cup {-1}]
  PROVE  FlagsAt(a, t)
  BY DEF FlagsAt

LEMMA InitInv == Init => IInv
<1> SUFFICES ASSUME Init PROVE IInv
  OBVIOUS
<1>1. TypeOK
  BY EffectAssumption DEF Init, TypeOK, Time, Table, Hooks
<1>2. TableHasOwner /\ FlagsMatchHistory
  BY DEF Init, TableHasOwner, FlagsMatchHistory, Effects
<1>3. TypeMatchesHistory /\ BattleMatchesHistory
  BY DEF Init, TypeMatchesHistory, BattleMatchesHistory, Follows
<1> QED
  BY <1>1, <1>2, <1>3 DEF IInv

LEMMA TickInv == IInv /\ Tick => IInv'
<1> SUFFICES ASSUME IInv, Tick PROVE IInv'
  OBVIOUS
<1>1. clock \in Nat /\ clock' \in Time /\ clock <= clock'
  BY EffectAssumption DEF IInv, TypeOK, Time, Tick
<1>2. TypeOK'
  BY <1>1 DEF IInv, TypeOK, Tick
<1>3. TableHasOwner'
  BY DEF IInv, TableHasOwner, Tick
<1>4. FlagsMatchHistory'
  BY <1>1 DEF IInv, TypeOK, FlagsMatchHistory, Tick, Time
<1>5. TypeMatchesHistory' /\ BattleMatchesHistory'
  BY DEF IInv, TypeMatchesHistory, BattleMatchesHistory, Follows, Tick
<1> QED
  BY <1>2, <1>3, <1>4, <1>5 DEF IInv

LEMMA TriggerInv ==
  ASSUME IInv, NEW e \in Effects, TriggerEvent(e)
  PROVE  IInv'
<1>1. clock + EffectDuration \in Nat /\ clock < clock + EffectDuration + 1
  BY EffectAssumption DEF IInv, TypeOK, Time
<1>2. TypeOK'
  <2>1. table' \in Table /\ latest' \in Table
    BY DEF IInv, TypeOK, Table, TriggerEvent, Written
  <2>2. /\ active' \in [Effects -> BOOLEAN]
        /\ timer' \in [Effects -> Nat]
        /\ until' \in [Effects -> Nat \cup {-1}]
    BY <1>1 DEF IInv, TypeOK, TriggerEvent, Enable
  <2>3. clock' = clock /\ outcome' = outcome
    BY DEF TriggerEvent
  <2> QED
    BY <2>1, <2>2, <2>3 DEF IInv, TypeOK
<1>3. TableHasOwner'
  <2>1. CASE e \in TypeEffects
    <3>1. table' = e /\ latest' = e /\ e # "vanilla"
      BY <2>1 DEF TriggerEvent, Written, TypeEffects
    <3>2. active'[e]
      BY DEF TriggerEvent, Enable, IInv, TypeOK
    <3> QED
      BY <2>1, <3>1, <3>2 DEF TableHasOwner
  <2>2. CASE e \notin TypeEffects
    <3>1. table' = table /\ latest' = latest
      BY <2>2 DEF TriggerEvent, Written
    <3>2. \A f \in TypeEffects : active'[f] = active[f]
      BY <2>2 DEF TriggerEvent, Enable, IInv, TypeOK, Effects
    <3> QED
      BY <3>1, <3>2 DEF IInv, TableHasOwner
  <2> QED
    BY <2>1, <2>2
<1>4. FlagsMatchHistory'
  <2> SUFFICES ASSUME NEW f \in Effects
               PROVE  /\ active'[f] => timer'[f] = until'[f]
                      /\ ~active'[f] => until'[f] < clock'
    BY DEF FlagsMatchHistory
  <2>1. CASE f = e
    BY <2>1, <1>1 DEF TriggerEvent, Enable, IInv, TypeOK
  <2>2. CASE f # e
    <3>1. active'[f] = active[f] /\ timer'[f] = timer[f]
          /\ until'[f] = until[f] /\ clock' = clock
      BY <2>2 DEF TriggerEvent, Enable, IInv, TypeOK
    <3> QED
      BY <3>1 DEF IInv, FlagsMatchHistory
  <2> QED
    BY <2>1, <2>2
<1>5. TypeMatchesHistory' /\ BattleMatchesHistory'
  BY DEF IInv, TypeMatchesHistory, BattleMatchesHistory, Follows, TriggerEvent
<1> QED
  BY <1>2, <1>3, <1>4, <1>5 DEF IInv

-----------------------------------------------------------------------------
Results == Table \cup {"x1000", "zero", "never", "always", "inverted"}

(* A hook keeps the invariant when it leaves the flags right and the table *)
(* owned, and its answer follows from the effects in force.                *)
LEMMA HookInv ==
  ASSUME IInv, NEW hook \in Hooks, NEW result \in Results,
         NEW t \in clock .. MaxTime, Ends(hook, t, result),
         active' \in [Effects -> BOOLEAN], table' \in Table,
         FlagsAt(active', t), OwnedAt([active |-> active', table |-> table'])
  PROVE  TypeOK' /\ TableHasOwner' /\ FlagsMatchHistory'
<1>1. t \in Time /\ clock' = t
  BY EffectAssumption DEF IInv, TypeOK, Time, Ends
<1>2. outcome' \in [hook : Hooks, result : Results,
                     begun : SUBSET Effects, ended : SUBSET Effects,
                     latest : Table]
  BY DEF Ends, InForce, IInv, TypeOK
<1>3. TypeOK'
  BY <1>1, <1>2 DEF IInv, TypeOK, Ends, Results
<1>4. TableHasOwner'
  BY DEF OwnedAt, TableHasOwner, Ends
<1>5. FlagsMatchHistory'
  BY <1>1 DEF FlagsAt, FlagsMatchHistory, Ends
<1> QED
  BY <1>3, <1>4, <1>5

(* A check at t1 of a flag, in a hook from clock to t, finds it set for    *)
(* every effect in force at t and only for effects in force at clock.      *)
LEMMA CheckTells ==
  ASSUME IInv, NEW a \in [Effects -> BOOLEAN], NEW d \in Effects,
         NEW t0 \in Nat, NEW t1 \in Nat, NEW t \in Nat,
         clock <= t0, t0 <= t1, t1 <= t, FlagsAt(a, t0)
  PROVE  /\ Checked(a, d, t1) \in [Effects -> BOOLEAN]
         /\ FlagsAt(Checked(a, d, t1), t1)
         /\ Checked(a, d, t1)[d] => d \in InForce(clock)
         /\ d \in InForce(t) => Checked(a, d, t1)[d]
         /\ \A e \in Effects \ {d} : Checked(a, d, t1)[e] = a[e]
<1>1. timer \in [Effects -> Nat] /\ until \in [Effects -> Nat \cup {-1}]
      /\ clock \in Nat
  BY DEF IInv, TypeOK, Time
<1>2. /\ Checked(a, d, t1) \in [Effects -> BOOLEAN]
      /\ FlagsAt(Checked(a, d, t1), t1)
      /\ Checked(a, d, t1)[d] => t1 <= until[d]
      /\ ~Checked(a, d, t1)[d] => until[d] < t1
      /\ \A e \in Effects \ {d} : Checked(a, d, t1)[e] = a[e]
  BY <1>1, CheckedFlags
<1>3. until[d] \in Int
  BY <1>1
<1>4. t1 <= until[d] => d \in InForce(clock)
  BY <1>1, <1>3 DEF InForce
<1>5. until[d] < t1 => d \notin InForce(t)
  BY <1>1, <1>3 DEF InForce
<1> QED
  BY <1>2, <1>4, <1>5

LEMMA Owned ==
  ASSUME IInv, NEW a \in [Effects -> BOOLEAN],
         \A e \in TypeEffects : a[e] = active[e]
  PROVE  OwnedAt([active |-> a, table |-> table])
  BY DEF IInv, TableHasOwner, OwnedAt

LEMMA STABInv ==
  ASSUME IInv, NEW t \in clock .. MaxTime, NEW t1 \in clock .. t, STAB(t1, t)
  PROVE  IInv'
<1> DEFINE a1 == Checked(active, "invertSTAB", t1)
           result == IF a1["invertSTAB"] THEN "inverted" ELSE "vanilla"
<1>1. clock \in Nat /\ t1 \in Nat /\ t \in Nat /\ clock <= t1 /\ t1 <= t
      /\ active \in [Effects -> BOOLEAN] /\ FlagsAt(active, clock)
      /\ "invertSTAB" \in Effects
  BY EffectAssumption
     DEF IInv, TypeOK, Time, FlagsMatchHistory, FlagsAt, Effects, BattleEffects
<1>2. /\ a1 \in [Effects -> BOOLEAN]
      /\ FlagsAt(a1, t1)
      /\ a1["invertSTAB"] => "invertSTAB" \in InForce(clock)
      /\ "invertSTAB" \in InForce(t) => a1["invertSTAB"]
      /\ \A e \in Effects \ {"invertSTAB"} : a1[e] = active[e]
  BY <1>1, CheckTells
<1>3. active' = a1 /\ table' = table /\ Ends("STAB", t, result)
  BY DEF STAB
<1> HIDE DEF a1
<1>4. FlagsAt(a1, t)
  BY <1>1, <1>2, FlagsLater DEF IInv, TypeOK
<1>5. OwnedAt([active |-> a1, table |-> table])
  BY <1>2, Owned DEF TypeEffects, Effects
<1>6. TypeOK' /\ TableHasOwner' /\ FlagsMatchHistory'
  <2>1. result \in Results /\ "STAB" \in Hooks
    BY DEF Results, Table, Hooks
  <2>2. table \in Table
    BY DEF IInv, TypeOK
  <2> HIDE DEF result
  <2> QED
    BY <1>2, <1>3, <1>4, <1>5, <2>1, <2>2, HookInv
<1>7. outcome' = [hook |-> "STAB", result |-> result,
                  begun |-> InForce(clock), ended |-> InForce(t),
                  latest |-> latest]
  BY <1>3 DEF Ends
<1>8. TypeMatchesHistory'
  BY <1>7 DEF TypeMatchesHistory
<1>9. BattleMatchesHistory'
  BY <1>2, <1>7 DEF BattleMatchesHistory, Follows
<1> QED
  BY <1>6, <1>8, <1>9 DEF IInv

LEMMA ExpInv ==
  ASSUME IInv, NEW t \in clock .. MaxTime, NEW t1 \in clock .. t,
         NEW t2 \in t1 .. t, ExpMultiplier(t1, t2, t)
  PROVE  IInv'
<1> DEFINE a1 == Checked(active, "expGain1k", t1)
           a2 == Checked(a1, "expGainZero", t2)
<1>1. clock \in Nat /\ t1 \in Nat /\ t2 \in Nat /\ t \in Nat
      /\ clock <= t1 /\ t1 <= t2 /\ t2 <= t /\ t1 <= t
      /\ active \in [Effects -> BOOLEAN] /\ FlagsAt(active, clock)
      /\ "expGain1k" \in Effects /\ "expGainZero" \in Effects
  BY EffectAssumption
     DEF IInv, TypeOK, Time, FlagsMatchHistory, FlagsAt, Effects, BattleEffects
<1>2. /\ a1 \in [Effects -> BOOLEAN]
      /\ FlagsAt(a1, t1)
      /\ a1["expGain1k"] => "expGain1k" \in InForce(clock)
      /\ "expGain1k" \in InForce(t) => a1["expGain1k"]
      /\ \A e \in Effects \ {"expGain1k"} : a1[e] = active[e]
  BY <1>1, CheckTells
<1> HIDE DEF a1
<1>3. /\ a2 \in [Effects -> BOOLEAN]
      /\ FlagsAt(a2, t2)
      /\ a2["expGainZero"] => "expGainZero" \in InForce(clock)
      /\ "expGainZero" \in InForce(t) => a2["expGainZero"]
      /\ \A e \in Effects \ {"expGainZero"} : a2[e] = a1[e]
  BY <1>1, <1>2, CheckTells
<1> HIDE DEF a2
<1>4. FlagsAt(a1, t) /\ FlagsAt(a2, t)
  BY <1>1, <1>2, <1>3, FlagsLater DEF IInv, TypeOK
<1>5. /\ OwnedAt([active |-> a1, table |-> table])
      /\ OwnedAt([active |-> a2, table |-> table])
  <2>1. \A e \in TypeEffects : a1[e] = active[e] /\ a2[e] = active[e]
    BY <1>2, <1>3 DEF TypeEffects, Effects
  <2> QED
    BY <1>2, <1>3, <2>1, Owned
<1>6. table \in Table /\ "exp" \in Hooks
  BY DEF IInv, TypeOK, Hooks
<1> DEFINE result == IF a2["expGainZero"] THEN "zero"
                      ELSE IF a1["expGain1k"] THEN "x1000" ELSE "vanilla"
<1>7. active' = a2 /\ table' = table /\ Ends("exp", t, result)
  BY DEF ExpMultiplier, a1, a2
<1>8. TypeOK' /\ TableHasOwner' /\ FlagsMatchHistory'
  <2>1. result \in Results
    BY DEF Results, Table
  <2> HIDE DEF result
  <2> QED
    BY <1>3, <1>4, <1>5, <1>6, <1>7, <2>1, HookInv
<1>9. outcome' = [hook |-> "exp", result |-> result,
                  begun |-> InForce(clock), ended |-> InForce(t),
                  latest |-> latest]
  BY <1>7 DEF Ends
<1>10. TypeMatchesHistory'
  BY <1>9 DEF TypeMatchesHistory
<1>11. BattleMatchesHistory'
  BY <1>2, <1>3, <1>9 DEF BattleMatchesHistory, Follows
<1> QED
  BY <1>8, <1>10, <1>11 DEF IInv

LEMMA CaptureInv ==
  ASSUME IInv, NEW t \in clock .. MaxTime, NEW t1 \in clock .. t,
         NEW t2 \in t1 .. t, Capture(t1, t2, t)
  PROVE  IInv'
<1> DEFINE a1 == Checked(active, "neverCapture", t1)
           a2 == Checked(a1, "alwaysCapture", t2)
<1>1. clock \in Nat /\ t1 \in Nat /\ t2 \in Nat /\ t \in Nat
      /\ clock <= t1 /\ t1 <= t2 /\ t2 <= t /\ t1 <= t
      /\ active \in [Effects -> BOOLEAN] /\ FlagsAt(active, clock)
      /\ "neverCapture" \in Effects /\ "alwaysCapture" \in Effects
  BY EffectAssumption
     DEF IInv, TypeOK, Time, FlagsMatchHistory, FlagsAt, Effects, BattleEffects
<1>2. /\ a1 \in [Effects -> BOOLEAN]
      /\ FlagsAt(a1, t1)
      /\ a1["neverCapture"] => "neverCapture" \in InForce(clock)
      /\ "neverCapture" \in InForce(t) => a1["neverCapture"]
      /\ \A e \in Effects \ {"neverCapture"} : a1[e] = active[e]
  BY <1>1, CheckTells
<1> HIDE DEF a1
<1>3. /\ a2 \in [Effects -> BOOLEAN]
      /\ FlagsAt(a2, t2)
      /\ a2["alwaysCapture"] => "alwaysCapture" \in InForce(clock)
      /\ "alwaysCapture" \in InForce(t) => a2["alwaysCapture"]
      /\ \A e \in Effects \ {"alwaysCapture"} : a2[e] = a1[e]
  BY <1>1, <1>2, CheckTells
<1> HIDE DEF a2
<1>4. FlagsAt(a1, t) /\ FlagsAt(a2, t)
  BY <1>1, <1>2, <1>3, FlagsLater DEF IInv, TypeOK
<1>5. /\ OwnedAt([active |-> a1, table |-> table])
      /\ OwnedAt([active |-> a2, table |-> table])
  <2>1. \A e \in TypeEffects : a1[e] = active[e] /\ a2[e] = active[e]
    BY <1>2, <1>3 DEF TypeEffects, Effects
  <2> QED
    BY <1>2, <1>3, <2>1, Owned
<1>6. table \in Table /\ "capture" \in Hooks
  BY DEF IInv, TypeOK, Hooks
<1> DEFINE result == IF a1["neverCapture"] THEN "never"
                     ELSE IF a2["alwaysCapture"] THEN "always" ELSE "vanilla"
           after == IF a1["neverCapture"] THEN a1 ELSE a2
<1>7. active' = after /\ table' = table /\ Ends("capture", t, result)
  BY DEF Capture, a1, a2
<1>8. TypeOK' /\ TableHasOwner' /\ FlagsMatchHistory'
  <2>1. result \in Results
    BY DEF Results, Table
  <2>2. CASE a1["neverCapture"]
    <3>1. active' = a1
      BY <1>7, <2>2
    <3> HIDE DEF result
    <3> QED
      BY <1>2, <1>4, <1>5, <1>6, <1>7, <2>1, <3>1, HookInv
  <2>3. CASE ~a1["neverCapture"]
    <3>1. active' = a2
      BY <1>7, <2>3
    <3> HIDE DEF result
    <3> QED
      BY <1>3, <1>4, <1>5, <1>6, <1>7, <2>1, <3>1, HookInv
  <2> QED
    BY <2>2, <2>3
<1>9. outcome' = [hook |-> "capture", result |-> result,
                  begun |-> InForce(clock), ended |-> InForce(t),
                  latest |-> latest]
  BY <1>7 DEF Ends
<1>10. TypeMatchesHistory'
  BY <1>9 DEF TypeMatchesHistory
<1>11. BattleMatchesHistory'
  BY <1>2, <1>3, <1>9 DEF BattleMatchesHistory, Follows
<1> QED
  BY <1>8, <1>10, <1>11 DEF IInv

LEMMA TypeMatchInv ==
  ASSUME IInv, NEW t \in clock .. MaxTime, NEW t1 \in clock .. t,
         NEW t2 \in t1 .. t, NEW t3 \in t2 .. t, TypeMatch(t1, t2, t3, t)
  PROVE  IInv'
<1> DEFINE s0 == [active |-> active, table |-> table]
           s1 == TypeCheck(s0, "invertTypeEffects", t1)
           s2 == TypeCheck(s1, "disableTypeEffects", t2)
           s3 == TypeCheck(s2, "randomTypeEffects", t3)
<1>1. clock \in Nat /\ t1 \in Nat /\ t2 \in Nat /\ t3 \in Nat /\ t \in Nat
      /\ clock <= t1 /\ t1 <= t2 /\ t2 <= t3 /\ t3 <= t
  BY EffectAssumption DEF IInv, TypeOK, Time
<1>2. /\ timer \in [Effects -> Nat]
      /\ until \in [Effects -> Nat \cup {-1}]
      /\ "invertTypeEffects" \in TypeEffects
      /\ "disableTypeEffects" \in TypeEffects
      /\ "randomTypeEffects" \in TypeEffects
  BY DEF IInv, TypeOK, TypeEffects
<1>3. /\ active \in [Effects -> BOOLEAN] /\ table \in Table
      /\ FlagsAt(active, clock) /\ OwnedAt(s0)
  BY DEF IInv, TypeOK, FlagsMatchHistory, FlagsAt, TableHasOwner, OwnedAt
<1>4. /\ s1 = [active |-> s1.active, table |-> s1.table]
      /\ s1.active \in [Effects -> BOOLEAN] /\ s1.table \in Table
      /\ FlagsAt(s1.active, t1) /\ OwnedAt(s1)
      /\ \A e \in Effects : s1.active[e] => active[e]
      /\ s1.active["invertTypeEffects"] => t1 <= until["invertTypeEffects"]
  BY <1>1, <1>2, <1>3, TypeChecked
<1> HIDE DEF s1
<1>5. /\ s2 = [active |-> s2.active, table |-> s2.table]
      /\ s2.active \in [Effects -> BOOLEAN] /\ s2.table \in Table
      /\ FlagsAt(s2.active, t2) /\ OwnedAt(s2)
      /\ \A e \in Effects : s2.active[e] => s1.active[e]
      /\ s2.active["disableTypeEffects"] => t2 <= until["disableTypeEffects"]
  BY <1>1, <1>2, <1>4, TypeChecked
<1> HIDE DEF s2
<1>6. /\ s3 = [active |-> s3.active, table |-> s3.table]
      /\ s3.active \in [Effects -> BOOLEAN] /\ s3.table \in Table
      /\ FlagsAt(s3.active, t3) /\ OwnedAt(s3)
      /\ \A e \in Effects : s3.active[e] => s2.active[e]
      /\ s3.active["randomTypeEffects"] => t3 <= until["randomTypeEffects"]
  BY <1>1, <1>2, <1>5, TypeChecked
<1> HIDE DEF s3
<1>7. active' = s3.active /\ table' = s3.table /\ Ends("type", t, s3.table)
  BY DEF TypeMatch, s1, s2, s3
<1>8. TypeOK' /\ TableHasOwner' /\ FlagsMatchHistory'
  <2>1. s3.table \in Results /\ "type" \in Hooks
    BY <1>6 DEF Results, Hooks
  <2>2. FlagsAt(s3.active, t)
    BY <1>1, <1>2, <1>6, FlagsLater
  <2> QED
    BY <1>6, <1>7, <2>1, <2>2, HookInv
<1>9. outcome' = [hook |-> "type", result |-> s3.table,
                  begun |-> InForce(clock), ended |-> InForce(t),
                  latest |-> latest]
  BY <1>7 DEF Ends
<1>10. ASSUME NEW e \in TypeEffects, s3.active[e]
       PROVE  e \in InForce(clock)
  <2>1. e \in Effects
    BY DEF Effects
  <2>2. s1.active[e] /\ s2.active[e]
    BY <1>5, <1>6, <1>10, <2>1
  <2>3. clock <= until[e]
    BY <1>1, <1>2, <1>4, <1>5, <1>6, <1>10, <2>1, <2>2 DEF TypeEffects
  <2> QED
    BY <2>1, <2>3 DEF InForce
<1>11. ASSUME NEW e \in TypeEffects, e \in InForce(t)
       PROVE  s3.active[e]
  <2>1. e \in Effects /\ t <= until[e]
    BY <1>11 DEF InForce
  <2> QED
    BY <1>1, <1>2, <1>6, <2>1 DEF FlagsAt
<1>12. TypeMatchesHistory'
  <2>1. /\ s3.table = "vanilla" <=> \A e \in TypeEffects : ~s3.active[e]
        /\ s3.table \in {"vanilla", latest}
    BY <1>6 DEF OwnedAt
  <2> QED
    BY <1>9, <1>10, <1>11, <2>1 DEF TypeMatchesHistory
<1>13. BattleMatchesHistory'
  BY <1>9 DEF BattleMatchesHistory, Follows
<1> QED
  BY <1>8, <1>12, <1>13 DEF IInv

-----------------------------------------------------------------------------
LEMMA StepInv == IInv /\ [Next]_vars => IInv'
<1> SUFFICES ASSUME IInv, [Next]_vars PROVE IInv'
  OBVIOUS
<1>1. CASE Tick
  BY <1>1, TickInv
<1>2. CASE BattleHook
  BY <1>2, ExpInv, CaptureInv, STABInv, TypeMatchInv DEF BattleHook
<1>3. ASSUME NEW e \in MayLaunch, TriggerEvent(e) PROVE IInv'
  BY <1>3, TriggerInv DEF MayLaunch
<1>4. CASE UNCHANGED vars
  BY <1>4 DEF vars, IInv, TypeOK, TableHasOwner, FlagsMatchHistory,
              TypeMatchesHistory, BattleMatchesHistory, Follows
<1> QED
  BY <1>1, <1>2, <1>3, <1>4 DEF Next

LEMMA Invariance == Spec => []IInv
  BY InitInv, StepInv, PTL DEF Spec

(* The variables of the effects stay in their types.                       *)
THEOREM TypeCorrect == Spec => []TypeOK
<1>1. IInv => TypeOK
  BY DEF IInv
<1> QED
  BY <1>1, Invariance, PTL

(* The game's table of matchups is rewritten exactly while the flag of     *)
(* some type effect is set, as the latest of them wrote it: however they   *)
(* overlap, the last one to end gives the game its table back.             *)
THEOREM TableIsOwned == Spec => []TableHasOwner
<1>1. IInv => TableHasOwner
  BY DEF IInv
<1> QED
  BY <1>1, Invariance, PTL

(* Type calculations use the table of the type effect launched last while  *)
(* one is in force, the game's own when all were over before, and no other *)
(* table ever.                                                             *)
THEOREM TypeEffectsLast == Spec => []TypeMatchesHistory
<1>1. IInv => TypeMatchesHistory
  BY DEF IInv
<1> QED
  BY <1>1, Invariance, PTL

(* Experience, captures and STAB are changed while their effect is in      *)
(* force and only then, and the stronger of two contradictory ones wins.   *)
THEOREM BattleEffectsLast == Spec => []BattleMatchesHistory
<1>1. IInv => BattleMatchesHistory
  BY DEF IInv
<1> QED
  BY <1>1, Invariance, PTL

(* Of the effects that a hook applies, the menu says "on" exactly for      *)
(* those in force, the one line that looks at another effect's flag apart. *)
THEOREM PanelIsRight == Spec => []PanelAgrees
<1>1. IInv => PanelAgrees
  <2> SUFFICES ASSUME IInv, NEW e \in Effects, e # "disableTypeEffects"
               PROVE  PanelSays(e) = "on" <=> e \in InForce(clock)
    BY DEF PanelAgrees, Effects
  <2>1. PanelKey(e) = e
    BY DEF PanelKey
  <2>2. /\ active[e] => timer[e] = until[e]
        /\ ~active[e] => until[e] < clock
        /\ until[e] \in Int /\ timer[e] \in Int /\ clock \in Int
    BY DEF IInv, FlagsMatchHistory, TypeOK, Time
  <2>3. e \in InForce(clock) <=> clock <= until[e]
    BY DEF InForce
  <2>4. CASE active[e]
    BY <2>1, <2>2, <2>3, <2>4 DEF PanelSays
  <2>5. CASE ~active[e]
    BY <2>1, <2>2, <2>3, <2>5 DEF PanelSays
  <2> QED
    BY <2>4, <2>5
<1> QED
  BY <1>1, Invariance, PTL
=============================================================================
