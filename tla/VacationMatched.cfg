\* Two threads, one application, every task at the endpoint made for it.
\* An idle server with the bounded supply of rows, tasks and deployments used
\* up has nothing left to do, so a state without successor is no error.
CHECK_DEADLOCK FALSE
CONSTANTS
  q1 = q1  q2 = q2  u1 = u1  u2 = u2
  day1 = day1  day2 = day2  type1 = type1  type2 = type2
  reason1 = reason1  noon = noon  Null = Null
  Thread <- MCThread
  User = {u1}
  Value <- MCValue
  Form <- MCForm
  Time <- MCTime
  Misrouted = FALSE
  MaxRow = 1
  MaxTask = 7
  MaxDeploy = 2
SPECIFICATION Spec
SYMMETRY ThreadSymmetry
INVARIANTS
  ApprovalsStand
  ReportedWasApproved
PROPERTIES
  FormFrozenDuringAudit
  ReportedTimesKept
