\* The longest poll, and the longest effect that stays apart from the next
\* when the streamer ends that poll at once.
CONSTANTS
  PollInterval = 3
  PollDuration = 2
  EffectDuration = 1
  Slack = 2
  EndDelay = 1
  NotifyDelay = 1
  MayTerminate = TRUE
SPECIFICATION Spec
INVARIANTS
  NoPollCollision
PROPERTIES
  EachPollOneEffect
  StopTogetherAndTell
