\* One thread that allocates, over three addresses and a table of two entries;
\* two threads that launch effects, one after the other.
CONSTANTS
  Threads = {t1}
  HeapPtr = {h1, h2, h3}
  NullPtr = NullPtr
  Sizes = {1, 2}
  Alignments = {1}
  WordSize = 8
  MAX_HEAP_TRACKED = 2
  Triggers = {"ws", "ui"}
  MayOverlap = FALSE
  Cells = 2
  EffectDuration = 1
  MaxTime = 3
SPECIFICATION SerialSpec
PROPERTIES
  SerialCallsAreAtomic
  SerialEffectsAreAtomic
\* The addresses may run out, and the clock ends at MaxTime.
CHECK_DEADLOCK FALSE
