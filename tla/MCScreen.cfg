\* Two threads that render, three frames, the chord and one more button.
CONSTANTS
  Renderer = {r1, r2}
  Page = 2
  MaxFrame = 3
  Key = {}
SPECIFICATION Spec
INVARIANTS
  StartsWhole
  DrawsOwnLists
  NoKeyStuck
  ScopesBalanced

  
\* A hook that called through null, and the last frame, end a run.
CHECK_DEADLOCK FALSE
