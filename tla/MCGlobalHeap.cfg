CONSTANTS
  HeapPtr = {h1, h2, h3}
  SysPtr = {s1}
  NullPtr = NullPtr
  Sizes = {0, 1, 2}
  Alignments = {1}
  DefaultAlignment = 2
  WordSize = 4
  MAX_HEAP_TRACKED = 2
SPECIFICATION Spec
SYMMETRY Symmetry
INVARIANTS
  TableSound
  HeapBlockToSystem
\* The addresses may run out, and the caller then stops.
CHECK_DEADLOCK FALSE
