\* One conversation, one question and its cancellation, two object instances.
SPECIFICATION Spec
CONSTANTS
  Conversations = {c1}
  Objects = {o1, o2}
  Questions = {q1}
  Cancels = {k1}
  QuestionLimit = 2
  RoundLimit = 1
  MaxStarts = 4
  MaxExpired = 1
  None = None
SYMMETRY InterchangeableObjects
CONSTRAINT FewAccidents
INVARIANTS
  SubmittedOnce
  
\* Questions and starts are bounded: a behaviour may use them all up.
CHECK_DEADLOCK FALSE
