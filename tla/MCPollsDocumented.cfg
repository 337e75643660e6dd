\* An effect as long as the comment of config.cpp says is still safe.
CONSTANTS
  PollInterval = 3
  PollDuration = 2
  EffectDuration = 5
  Slack = 1
  EndDelay = 0
  NotifyDelay = 0
  MayTerminate = FALSE
SPECIFICATION Spec
INVARIANT EffectsOverlapOnlyIfLonger
