\* Two addresses of each heap, two threads with references, two quests, files
\* of two sizes, the Z-A count of loads, two effects, four choices in a poll.
CONSTANTS
  BssAddr = {b1, b2}
  GameAddr = {g1, g2}
  MAX_HEAP_TRACKED = 3
  RefUser = {u1, u2}
  Quest = {q1, q2}
  NoQuest = NoQuest
  OwnSize = 2
  ModSize = 3
  LastLoad = 2
  LuaEffect = {"filter", "disable"}
  MaxTick = 4
  Options = 4
  MaxVotes = 3
SPECIFICATION Spec
INVARIANTS
  FoundWhenFreed
  ReleasedUnused
  ToldSizeIsRead
  FailsForAReason
  EffectLasts
  WinnerHasMost
PROPERTIES
  LookingChangesNothing
  OnlyShownWritten
  
  PlayedAsShown
  ChangeSinceLastFrame
  EffectEnds
\* A script that ran, a poll that is counted and a full heap end a run.
CHECK_DEADLOCK FALSE
