\* One of nine machines runs; its instance is in the module.
SPECIFICATION Spec
CONSTANT None = None
INVARIANTS
  
  
  TriggersAreSound
  PublicationsAreSound
\* Moves, calls and requests are bounded: a behaviour may use them all up.
CHECK_DEADLOCK FALSE
