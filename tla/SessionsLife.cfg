\* One thread, two sessions: one life of the server. Who is logged in changes
\* nothing for the end of a session, so there are no principals.
\* Sessions are never used twice and validation can die, so a server without
\* sessions left may have nothing to do.
CHECK_DEADLOCK FALSE
CONSTANTS
  q1 = q1  q2 = q2  q3 = q3
  Thread = {q1}
  Validator = validation
  Sid = {s1, s2}
  User = {}
  Null = Null
SPECIFICATION LifeSpec
PROPERTIES
  AbandonedSessionEnds
