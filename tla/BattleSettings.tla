---------------------------- MODULE BattleSettings ----------------------------
(***************************************************************************)
(* The sections Battle and Money of the debug menus, and the hooks on the  *)
(* thread of the game that go by the settings: battle_hooks.cpp of Legends *)
(* Z-A and of Scarlet/Violet.  An element of the menu and the variable     *)
(* behind it each have a starting value of their own.                      *)
(***************************************************************************)
EXTENDS Integers

VARIABLES
  menu,          \* what the elements show
  settings,      \* the static variables of battle_hooks.cpp
  battle,        \* what the hooks made of the last calculation of the game
  medals

battleVars == <<menu, settings, battle, medals>>

Typed == -1..2           \* bound: a slider takes what is typed into it; its
                         \* own ends are 0 and 30
MaxMedals == 9           \* 9999
Wrap == 16               \* 2^32
BaseExp == 2
BaseEnergy == 1
MaxEnergy == 2           \* m_megaEnergyMax

(* The static variables, and the elements as the menu makes them.          *)
(* Mutant: the experience is not shared until the box is used.             *)
DefaultsNotShared ==
  [isMustCapture |-> FALSE, isExpShareOn |-> FALSE, expMultiplier |-> 1,
   expMultiplierInvert |-> FALSE, alwaysMaxEnergy |-> FALSE]
Defaults ==
  [isMustCapture |-> FALSE, isExpShareOn |-> TRUE, expMultiplier |-> 1,
   expMultiplierInvert |-> FALSE, alwaysMaxEnergy |-> FALSE]
MenuDefaults ==
  [isMustCapture |-> FALSE, isExpShareOn |-> TRUE, expMultiplier |-> 1,
   expMultiplierInvert |-> FALSE, alwaysMaxEnergy |-> FALSE]

BattleInit ==
  /\ menu = MenuDefaults /\ settings = Defaults
  /\ battle = [captured |-> FALSE, exp |-> 0, fought |-> TRUE, energy |-> 0]
  /\ medals = 0

-----------------------------------------------------------------------------
(* A checkbox or the slider, and the setter that it calls.                 *)
UseElement(name, value) ==
  /\ menu' = [menu EXCEPT ![name] = value]
  /\ settings' = [settings EXCEPT ![name] = value]
  /\ UNCHANGED <<battle, medals>>

(* The buttons of the medals: unsigned arithmetic, and only then a clamp,  *)
(* so that taking away more than there are gives the most there can be.    *)
Clamp(n) == IF n > MaxMedals THEN MaxMedals ELSE n
MedalButton(step) ==
  /\ medals' = Clamp((medals + step) % Wrap)
  /\ UNCHANGED <<menu, settings, battle>>

CaptureHook(judged) ==
  /\ battle' = [battle EXCEPT !.captured = judged \/ settings.isMustCapture]
  /\ UNCHANGED <<menu, settings, medals>>

(* ExpCalcHook.  The quotient goes towards zero.                           *)
Quotient(a, b) == IF b < 0 THEN -(a \div (-b)) ELSE a \div b
Multiplied(base) ==
  IF settings.expMultiplier = 0 THEN 0
  ELSE IF settings.expMultiplierInvert THEN Quotient(base, settings.expMultiplier)
  ELSE base * settings.expMultiplier
ExpGiven(base, didFight) ==
  IF ~didFight /\ ~settings.isExpShareOn THEN 0 ELSE Multiplied(base)
ExpCalcHook(didFight) ==
  /\ battle' = [battle EXCEPT !.exp = ExpGiven(BaseExp, didFight), !.fought = didFight]
  /\ UNCHANGED <<menu, settings, medals>>

MegaEnergySetHook ==
  /\ battle' = [battle EXCEPT
                  !.energy = IF settings.alwaysMaxEnergy THEN MaxEnergy ELSE BaseEnergy]
  /\ UNCHANGED <<menu, settings, medals>>

BattleNext ==
  \/ \E name \in DOMAIN Defaults \ {"expMultiplier"}, value \in BOOLEAN :
       UseElement(name, value)
  \/ \E value \in Typed : UseElement("expMultiplier", value)
  \/ \E step \in {1, 4, -1, -4} : MedalButton(step)
  \/ \E yes \in BOOLEAN : CaptureHook(yes) \/ ExpCalcHook(yes)
  \/ MegaEnergySetHook

BattleSpec == BattleInit /\ [][BattleNext]_battleVars

-----------------------------------------------------------------------------
(* A battle goes as the menu shows it at that time, from before the first  *)
(* use of an element on, though the elements and what the hooks read start *)
(* with values of their own: a capture shown as certain succeeds, with the *)
(* experience shown as shared and once the usual all get what the game     *)
(* gives, who did not fight gets none when the sharing is shown as off,    *)
(* and energy shown as always full is.                                     *)
GoesAsShown ==
  /\ battle'.captured # battle.captured /\ menu.isMustCapture
     => battle'.captured
  /\ <<battle'.exp, battle'.fought>> # <<battle.exp, battle.fought>> =>
       /\ menu.isExpShareOn /\ menu.expMultiplier = 1
          => battle'.exp = BaseExp
       /\ ~menu.isExpShareOn /\ ~battle'.fought => battle'.exp = 0
  /\ battle'.energy # battle.energy /\ menu.alwaysMaxEnergy
     => battle'.energy = MaxEnergy
PlayedAsShown == [][battle' # battle => GoesAsShown]_battleVars
=============================================================================
