------------------------- MODULE CrowdControlThreads -------------------------
(***************************************************************************)
(* CrowdControlEffects taken apart, for the three effects on type          *)
(* matchups: an event runs on the websocket thread or, from the menu, on   *)
(* the thread that draws it, and TypeEffectHook on the game's.  They share *)
(* the flags, the timers and the bytes of the table, and take no lock.     *)
(***************************************************************************)
EXTENDS Integers

CONSTANTS
  Triggers,         \* the threads that run triggerEvent
  MayOverlap,       \* whether a call may begin while another runs
  Cells,            \* the number of bytes of the table
  EffectDuration, MaxTime

ASSUME EffectThreadAssumption ==
  /\ MayOverlap \in BOOLEAN
  /\ Cells \in Nat \ {0}
  /\ EffectDuration \in Nat
  /\ MaxTime \in Nat

VARIABLES
  clock, active, timer, until, latest, outcome,   \* as CrowdControlEffects
  cell,       \* the bytes of the table: the game's own, or who wrote them
  eventPc, eventArg,    \* where each triggering thread is, and its effect
  hookPc,     \* where the hook is: its step, the check and the byte it is at
  seen        \* history: the state in which the hook began

effectShared == <<active, timer, until, latest, cell>>
effectVars == <<clock, effectShared, outcome, eventPc, eventArg, hookPc, seen>>

(* The order of the hook's checks.                                         *)
Check == <<"invertTypeEffects", "disableTypeEffects", "randomTypeEffects">>
TypeEffects == {Check[k] : k \in 1 .. 3}

NoEvent == [effect |-> Check[1], was |-> FALSE, n |-> 1]
NotSeen == [clock |-> 0, active |-> [e \in TypeEffects |-> FALSE],
            cell |-> [n \in 1 .. Cells |-> "vanilla"]]

EffectsIdle == hookPc.step = "idle" /\ \A t \in Triggers : eventPc[t] = "idle"
MayBegin == MayOverlap \/ EffectsIdle

-----------------------------------------------------------------------------
(* CC_ENABLE sets the flag first, ...                                      *)
TriggerBegin(t, e) ==
  /\ eventPc[t] = "idle"
  /\ MayBegin
  /\ active' = [active EXCEPT ![e] = TRUE]
  /\ eventArg' = [eventArg EXCEPT
       ![t] = [effect |-> e, was |-> active[e], n |-> 1]]
  /\ eventPc' = [eventPc EXCEPT ![t] = "timer"]
  /\ UNCHANGED <<clock, timer, until, latest, cell, outcome, hookPc, seen>>

(* ... then the timer; ...                                                 *)
TriggerTimer(t) ==
  LET e == eventArg[t].effect IN
  /\ eventPc[t] = "timer"
  /\ timer' = [timer EXCEPT ![e] = clock + EffectDuration]
  /\ until' = [until EXCEPT ![e] = clock + EffectDuration]
  /\ latest' = e
  /\ eventPc' = [eventPc EXCEPT ![t] = "write"]
  /\ UNCHANGED <<clock, active, cell, outcome, eventArg, hookPc, seen>>

(* ... the event then writes the table, byte after byte.  Mutant: it stops *)
(* one byte early.                                                         *)
LastCellOffByOne == IF Cells > 1 THEN Cells - 1 ELSE Cells
LastCell == Cells
TriggerWrite(t) ==
  LET n == eventArg[t].n IN
  /\ eventPc[t] = "write"
  /\ cell' = [cell EXCEPT ![n] = eventArg[t].effect]
  /\ IF n = LastCell
       THEN /\ eventArg' = [eventArg EXCEPT ![t] = NoEvent]
            /\ eventPc' = [eventPc EXCEPT ![t] = "idle"]
       ELSE /\ eventArg' = [eventArg EXCEPT ![t].n = n + 1]
            /\ UNCHANGED eventPc
  /\ UNCHANGED <<clock, active, timer, until, latest, outcome, hookPc, seen>>

-----------------------------------------------------------------------------
HookAt(step, k, n) == hookPc' = [step |-> step, k |-> k, n |-> n]
NextCheck(k) ==
  IF k = 3 THEN HookAt("return", 3, 1) ELSE HookAt("check", k + 1, 1)

HookBegin ==
  /\ hookPc.step = "idle"
  /\ MayBegin
  /\ seen' = [clock |-> clock, active |-> active, cell |-> cell]
  /\ HookAt("check", 1, 1)
  /\ UNCHANGED <<clock, effectShared, outcome, eventPc, eventArg>>

(* CC_CHECK_NOT reads the flag, the timer and the clock.                   *)
HookCheck ==
  LET e == Check[hookPc.k] IN
  /\ hookPc.step = "check"
  /\ IF active[e] /\ timer[e] < clock THEN HookAt("disable", hookPc.k, 1)
                                      ELSE NextCheck(hookPc.k)
  /\ UNCHANGED <<clock, effectShared, outcome, eventPc, eventArg, seen>>

HookDisable ==
  /\ hookPc.step = "disable"
  /\ active' = [active EXCEPT ![Check[hookPc.k]] = FALSE]
  /\ HookAt("others", hookPc.k, 1)
  /\ UNCHANGED <<clock, timer, until, latest, cell, outcome, eventPc,
                 eventArg, seen>>

(* The table stays while another flag is set.  Mutant: nobody looks.       *)
NoneRuns(k) == FALSE
OtherRuns(k) == \E f \in TypeEffects \ {Check[k]} : active[f]
HookOthers ==
  /\ hookPc.step = "others"
  /\ IF OtherRuns(hookPc.k)
       THEN NextCheck(hookPc.k) ELSE HookAt("reset", hookPc.k, 1)
  /\ UNCHANGED <<clock, effectShared, outcome, eventPc, eventArg, seen>>

(* reset(), byte after byte.                                               *)
HookReset ==
  /\ hookPc.step = "reset"
  /\ cell' = [cell EXCEPT ![hookPc.n] = "vanilla"]
  /\ IF hookPc.n = Cells THEN NextCheck(hookPc.k)
                         ELSE HookAt("reset", hookPc.k, hookPc.n + 1)
  /\ UNCHANGED <<clock, active, timer, until, latest, outcome, eventPc,
                 eventArg, seen>>

InForce(t) == {e \in TypeEffects : t <= until[e]}
HookReturn ==
  /\ hookPc.step = "return"
  /\ outcome' = [hook |-> "type", result |-> cell[1],
                 begun |-> InForce(seen.clock), ended |-> InForce(clock),
                 latest |-> latest]
  /\ HookAt("idle", 1, 1)
  /\ seen' = NotSeen
  /\ UNCHANGED <<clock, effectShared, eventPc, eventArg>>

-----------------------------------------------------------------------------
EffectsInit ==
  /\ clock = 0
  /\ active = [e \in TypeEffects |-> FALSE]
  /\ timer = [e \in TypeEffects |-> 0]
  /\ until = [e \in TypeEffects |-> -1]
  /\ latest = "vanilla"
  /\ outcome = [hook |-> "none", result |-> "vanilla",
                begun |-> {}, ended |-> {}, latest |-> "vanilla"]
  /\ cell = [n \in 1 .. Cells |-> "vanilla"]
  /\ eventPc = [t \in Triggers |-> "idle"]
  /\ eventArg = [t \in Triggers |-> NoEvent]
  /\ hookPc = [step |-> "idle", k |-> 1, n |-> 1]
  /\ seen = NotSeen

Tick ==
  /\ clock < MaxTime
  /\ clock' = clock + 1
  /\ UNCHANGED <<effectShared, outcome, eventPc, eventArg, hookPc, seen>>

Trigger(t) ==
  \/ \E e \in TypeEffects : TriggerBegin(t, e)
  \/ TriggerTimer(t)
  \/ TriggerWrite(t)
Hook == \/ HookBegin \/ HookCheck \/ HookDisable
        \/ HookOthers \/ HookReset \/ HookReturn

EffectsNext == Tick \/ Hook \/ \E t \in Triggers : Trigger(t)
EffectsSpec == EffectsInit /\ [][EffectsNext]_effectVars

-----------------------------------------------------------------------------
(* What CrowdControlEffects would see.  An event takes effect when its     *)
(* timer is set: until then its flag is not there, and from then on the    *)
(* table is as it writes it.  The hook takes effect when it returns.  When *)
(* no call is in progress the table must be of one piece.                  *)
InHook == hookPc.step # "idle"
Setting(e) == {t \in Triggers : eventPc[t] = "timer" /\ eventArg[t].effect = e}
Writing == {t \in Triggers : eventPc[t] = "write"}
All == TypeEffects \cup {"expGain1k", "expGainZero", "neverCapture",
  "alwaysCapture", "invertSTAB", "randomFilter", "disableRideAbilities",
  "randomWildSpawns", "increasedShinyOdds", "wildSpawnBoost"}
OnAll(f, rest) == [e \in All |-> IF e \in TypeEffects THEN f[e] ELSE rest]
SeenActive ==
  IF InHook THEN seen.active
  ELSE [e \in TypeEffects |-> IF Setting(e) = {} THEN active[e]
          ELSE \E t \in Setting(e) : eventArg[t].was]
Piece(c) ==
  IF \A n \in 1 .. Cells : c[n] = c[1] THEN c[1] ELSE "of several pieces"
SeenTable ==
  IF InHook THEN Piece(seen.cell)
  ELSE IF Writing = {} THEN Piece(cell)
  ELSE LET t == CHOOSE t \in Writing : TRUE IN eventArg[t].effect

AtomicEffects == INSTANCE CrowdControlEffects WITH
  Menus <- {TypeEffects},
  clock <- IF InHook THEN seen.clock ELSE clock,
  active <- OnAll(SeenActive, FALSE),
  timer <- OnAll(timer, 0),
  until <- OnAll(until, -1),
  table <- SeenTable

(* When events and hooks do not overlap they are the steps of              *)
(* CrowdControlEffects, though the flag, the timer, each byte of the table *)
(* and each check are an access of their own and the clock goes on between *)
(* them.                                                                   *)
SerialEffectsAreAtomic == AtomicEffects!Spec

(* The events on type matchups are "Effects with duration": when no call   *)
(* is in progress, a byte that is not the game's own has an effect whose   *)
(* flag is set, so the hook will take it back in time.                     *)
RewrittenOnlyForADuration ==
  EffectsIdle => \/ \E e \in TypeEffects : active[e]
          \/ \A n \in 1 .. Cells : cell[n] = "vanilla"
=============================================================================
