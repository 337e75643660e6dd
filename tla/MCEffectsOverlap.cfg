CONSTANTS
  Triggers = {"ws"}
  MayOverlap = TRUE
  Cells = 2
  EffectDuration = 1
  MaxTime = 4
SPECIFICATION EffectsSpec
INVARIANT RewrittenOnlyForADuration
\* The clock ends at MaxTime.
CHECK_DEADLOCK FALSE
