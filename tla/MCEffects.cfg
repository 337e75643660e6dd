CONSTANTS
  EffectDuration = 2
  MaxTime = 4
  Menus <- OneHook
SPECIFICATION Spec
INVARIANTS
  TypeMatchesHistory
  BattleMatchesHistory
  PanelAgrees
\* The clock ends at MaxTime.
CHECK_DEADLOCK FALSE
