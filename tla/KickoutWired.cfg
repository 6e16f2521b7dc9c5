\* The principal as ShiroDbRealm makes it.
\* Sessions are never used twice: when all have ended nothing can happen.
CHECK_DEADLOCK FALSE
CONSTANTS
  q1 = q1  q2 = q2
  s1 = s1  s2 = s2  s3 = s3
  u1 = u1  u2 = u2
  Thread <- TwoThreads
  Sid <- ThreeSids
  User = {u1, u2}
  Null = Null
  Limits = {1, 2}
SPECIFICATION RealmSpec
INVARIANTS PrincipalIsTheEntity
