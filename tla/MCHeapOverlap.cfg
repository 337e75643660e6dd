CONSTANTS
  Threads = {t1, t2}
  HeapPtr = {h1, h2}
  NullPtr = NullPtr
  Sizes = {1}
  Alignments = {1}
  WordSize = 8
  MAX_HEAP_TRACKED = 2
SPECIFICATION Spec
INVARIANT TableSoundWhenIdle
\* The addresses may run out, and the caller then stops.
CHECK_DEADLOCK FALSE
