\* Three threads that share one session, one principal.
\* Sessions are never used twice and validation can die, so a server without
\* sessions left may have nothing to do.
CHECK_DEADLOCK FALSE
CONSTANTS
  q1 = q1  q2 = q2  q3 = q3
  Thread <- ThreeThreads
  Validator = validation
  Sid = {s1}
  User = {u1}
  Null = Null
SPECIFICATION Spec
SYMMETRY Symmetry
INVARIANTS
  TypeOK
  OnlyFailuresLast
PROPERTIES
  EndedStaysEnded
