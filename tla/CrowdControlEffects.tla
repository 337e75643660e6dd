------------------------- MODULE CrowdControlEffects -------------------------
(***************************************************************************)
(* The effects of the Scarlet/Violet crowd control mod                     *)
(* (pokemon_sv/mod_crowd_control/src: cc_hooks.h, crowd_control.cpp,       *)
(* ui.cpp).  An event sets a flag and a timer; the hooks of the game's     *)
(* battle code look at them when the game happens to call them, and it is  *)
(* only then that an effect whose time is over is taken away.  The three   *)
(* effects on type matchups also rewrite the game's table of matchups.     *)
(*                                                                         *)
(* Here an event and a hook are one step each.  CrowdControlThreads takes  *)
(* them apart.                                                             *)
(***************************************************************************)
EXTENDS Integers

CONSTANTS
  EffectDuration,   \* getConfig().effectDuration, in seconds
  MaxTime,          \* bound of the clock
  Menus             \* bound: the sets of effects launched in one behaviour

(* CC_flags, in the order of the table's checks for the first three.       *)
TypeEffects == {"invertTypeEffects", "disableTypeEffects", "randomTypeEffects"}
BattleEffects == {"expGain1k", "expGainZero", "neverCapture", "alwaysCapture",
                  "invertSTAB"}
LuaEffects == {"randomFilter", "disableRideAbilities", "randomWildSpawns",
               "increasedShinyOdds", "wildSpawnBoost"}
Effects == TypeEffects \cup BattleEffects \cup LuaEffects

ASSUME EffectAssumption ==
  /\ EffectDuration \in Nat
  /\ MaxTime \in Nat
  /\ \A menu \in Menus : menu \subseteq Effects

VARIABLES
  clock,      \* the system tick, in seconds
  active,     \* the Active flags
  timer,      \* the Timers
  table,      \* btl::TYPE_EFFECT_TBL: the game's own, or whose effect wrote it
  until,      \* history: the last second of each effect as last triggered, or -1
  latest,     \* history: the type effect triggered last, or "vanilla"
  outcome     \* history: what the last hook made of the game's answer

vars == <<clock, active, timer, table, until, latest, outcome>>

Time == 0 .. MaxTime
Table == TypeEffects \cup {"vanilla"}
Hooks == {"none", "exp", "capture", "type", "STAB"}

(* An effect that was triggered is in force for its duration.              *)
InForce(t) == {e \in Effects : t <= until[e]}

TypeOK ==
  /\ clock \in Time
  /\ active \in [Effects -> BOOLEAN]
  /\ timer \in [Effects -> Nat]
  /\ table \in Table
  /\ until \in [Effects -> Nat \cup {-1}]
  /\ latest \in Table
  /\ outcome \in [hook : Hooks,
                  result : Table \cup {"x1000", "zero", "never", "always",
                                       "inverted"},
                  begun : SUBSET Effects, ended : SUBSET Effects,
                  latest : Table]

-----------------------------------------------------------------------------
(* CC_CHECK and CC_CHECK_NOT: whether flag e is set and its time over at   *)
(* time t, and whether it is set after the check.  Mutant: one second      *)
(* early.                                                                  *)
IsOverEarly(a, e, t) == a[e] /\ timer[e] <= t
IsOver(a, e, t) == a[e] /\ timer[e] < t
Checked(a, e, t) == [a EXCEPT ![e] = a[e] /\ ~IsOver(a, e, t)]

(* CC_ENABLE.                                                              *)
Enable(e) ==
  /\ active' = [active EXCEPT ![e] = TRUE]
  /\ timer' = [timer EXCEPT ![e] = clock + EffectDuration]
  /\ until' = [until EXCEPT ![e] = clock + EffectDuration]

(* triggerEvent, from a notification or from the button of the menu.       *)
Written(e) == IF e \in TypeEffects THEN e ELSE table
TriggerEvent(e) ==
  /\ Enable(e)
  /\ table' = Written(e)
  /\ latest' = IF e \in TypeEffects THEN e ELSE latest
  /\ UNCHANGED <<clock, outcome>>

-----------------------------------------------------------------------------
(* A hook that began at clock ends at t, with this result.  It reads the   *)
(* clock in between, at t1, t2 and t3.                                     *)
Ends(hook, t, result) ==
  /\ clock' = t
  /\ outcome' = [hook |-> hook, result |-> result,
                 begun |-> InForce(clock), ended |-> InForce(t),
                 latest |-> latest]
  /\ UNCHANGED <<timer, until, latest>>

(* ExpMultiplierHook.                                                      *)
ExpMultiplier(t1, t2, t) ==
  LET a1 == Checked(active, "expGain1k", t1)
      a2 == Checked(a1, "expGainZero", t2) IN
  /\ active' = a2
  /\ Ends("exp", t, IF a2["expGainZero"] THEN "zero"
                    ELSE IF a1["expGain1k"] THEN "x1000" ELSE "vanilla")
  /\ UNCHANGED table

(* CaptureHook.  neverCapture returns before alwaysCapture is looked at.   *)
(* Mutant: the two are looked at in the other order.                       *)
CaptureSwapped(t1, t2, t) ==
  LET a1 == Checked(active, "alwaysCapture", t1)
      a2 == Checked(a1, "neverCapture", t2) IN
  /\ IF a1["alwaysCapture"]
       THEN active' = a1 /\ Ends("capture", t, "always")
       ELSE active' = a2 /\ Ends("capture", t,
              IF a2["neverCapture"] THEN "never" ELSE "vanilla")
  /\ UNCHANGED table
Capture(t1, t2, t) ==
  LET a1 == Checked(active, "neverCapture", t1)
      a2 == Checked(a1, "alwaysCapture", t2) IN
  /\ IF a1["neverCapture"]
       THEN active' = a1 /\ Ends("capture", t, "never")
       ELSE active' = a2 /\ Ends("capture", t,
              IF a2["alwaysCapture"] THEN "always" ELSE "vanilla")
  /\ UNCHANGED table

(* STABHook.                                                               *)
STAB(t1, t) ==
  /\ active' = Checked(active, "invertSTAB", t1)
  /\ Ends("STAB", t, IF active'["invertSTAB"] THEN "inverted" ELSE "vanilla")
  /\ UNCHANGED table

(* TypeEffectHook: one check per type effect; an effect that is over takes *)
(* the table back unless the flag of another one is set.  Mutant: it takes *)
(* it back in any case.                                                    *)
TypeCheckAlwaysResets(s, e, t) ==
  IF IsOver(s.active, e, t)
    THEN [active |-> [s.active EXCEPT ![e] = FALSE], table |-> "vanilla"]
    ELSE s
TypeCheck(s, e, t) ==
  IF IsOver(s.active, e, t)
    THEN [active |-> [s.active EXCEPT ![e] = FALSE],
          table |-> IF \E f \in TypeEffects \ {e} : s.active[f]
                      THEN s.table ELSE "vanilla"]
    ELSE s
TypeMatch(t1, t2, t3, t) ==
  LET s0 == [active |-> active, table |-> table]
      s1 == TypeCheck(s0, "invertTypeEffects", t1)
      s2 == TypeCheck(s1, "disableTypeEffects", t2)
      s3 == TypeCheck(s2, "randomTypeEffects", t3) IN
  /\ active' = s3.active
  /\ table' = s3.table
  /\ Ends("type", t, s3.table)

-----------------------------------------------------------------------------
Init ==
  /\ clock = 0
  /\ active = [e \in Effects |-> FALSE]
  /\ timer = [e \in Effects |-> 0]
  /\ table = "vanilla"
  /\ until = [e \in Effects |-> -1]
  /\ latest = "vanilla"
  /\ outcome = [hook |-> "none", result |-> "vanilla",
                begun |-> {}, ended |-> {}, latest |-> "vanilla"]

Tick ==
  /\ clock < MaxTime
  /\ clock' = clock + 1
  /\ UNCHANGED <<active, timer, table, until, latest, outcome>>

(* The clock goes on while a hook runs.                                    *)
BattleHook ==
  \E t \in clock .. MaxTime : \E t1 \in clock .. t : \E t2 \in t1 .. t :
    \/ ExpMultiplier(t1, t2, t)
    \/ Capture(t1, t2, t)
    \/ STAB(t1, t)
    \/ \E t3 \in t2 .. t : TypeMatch(t1, t2, t3, t)

(* Viewers and the player can pick any effect of a menu.                   *)
MayLaunch ==
  {e \in Effects : \E menu \in Menus :
                     {e} \cup {f \in Effects : until[f] # -1} \subseteq menu}

Next == Tick \/ BattleHook \/ \E e \in MayLaunch : TriggerEvent(e)
Spec == Init /\ [][Next]_vars

-----------------------------------------------------------------------------
(* The menu's line for an effect (CC_INFO): the flag it looks at, and what *)
(* it then says.                                                           *)
PanelKey(e) == IF e = "disableTypeEffects" THEN "invertTypeEffects" ELSE e
PanelSays(e) ==
  IF ~active[PanelKey(e)] THEN "off"
  ELSE IF timer[PanelKey(e)] < clock THEN "off*" ELSE "on"

-----------------------------------------------------------------------------
(* The game's table is rewritten exactly while some type effect has its    *)
(* flag set, so that a later call of the hook will take it back; and it is *)
(* then as the type effect triggered last wrote it.                        *)
TableHasOwner ==
  /\ table = "vanilla" <=> \A e \in TypeEffects : ~active[e]
  /\ table \in {"vanilla", latest}

(* A type calculation uses the table of the type effect launched last as   *)
(* long as any type effect is in force, and the game's own when all were   *)
(* over before it began; never that of an effect launched before, however  *)
(* the three overlapped.                                                   *)
TypeMatchesHistory ==
  outcome.hook = "type" =>
    /\ outcome.result \in {"vanilla", outcome.latest}
    /\ TypeEffects \cap outcome.ended # {} => outcome.result # "vanilla"
    /\ TypeEffects \cap outcome.begun = {} => outcome.result = "vanilla"

(* The answers of the other hooks follow from which effects were triggered *)
(* less than their duration ago: of two that contradict each other, no     *)
(* experience wins over a thousandfold and no capture over every capture.  *)
Follows(hook, e, result) ==
  outcome.hook = hook =>
    /\ e \in outcome.ended => outcome.result = result
    /\ outcome.result = result => e \in outcome.begun
BattleMatchesHistory ==
  /\ Follows("exp", "expGainZero", "zero")
  /\ Follows("capture", "neverCapture", "never")
  /\ Follows("STAB", "invertSTAB", "inverted")
  /\ outcome.hook = "exp" =>
       /\ outcome.begun \cap {"expGain1k", "expGainZero"} = {"expGain1k"}
          /\ "expGain1k" \in outcome.ended => outcome.result = "x1000"
       /\ outcome.result = "x1000" => "expGain1k" \in outcome.begun
  /\ outcome.hook = "capture" =>
       /\ outcome.begun \cap {"alwaysCapture", "neverCapture"}
            = {"alwaysCapture"}
          /\ "alwaysCapture" \in outcome.ended => outcome.result = "always"
       /\ outcome.result = "always" => "alwaysCapture" \in outcome.begun

(* The menu says "on" for an effect that is applied by a hook exactly      *)
(* while it is in force.  The line of disableTypeEffects, "No more type    *)
(* matchups", looks at the flag of invertTypeEffects; the effects applied  *)
(* in Lua end by a clock of their own, and their lines tell how long their *)
(* flag stands.                                                            *)
PanelAgrees ==
  \A e \in (TypeEffects \cup BattleEffects) \ {"disableTypeEffects"} :
    PanelSays(e) = "on" <=> e \in InForce(clock)

(* The inductive invariant: what the flags and the timers say of the       *)
(* history.                                                                *)
FlagsMatchHistory ==
  \A e \in Effects :
    /\ active[e] => timer[e] = until[e]
    /\ ~active[e] => until[e] < clock

IInv ==
  /\ TypeOK
  /\ TableHasOwner
  /\ FlagsMatchHistory
  /\ TypeMatchesHistory
  /\ BattleMatchesHistory
=============================================================================
