-------------------------- MODULE MCVacationService --------------------------
(***************************************************************************)
(* VacationService for TLC: two threads, one or two applicants, and two    *)
(* forms, one of which leaves the reason empty.                            *)
(***************************************************************************)
EXTENDS VacationProperties, TLC

CONSTANTS q1, q2, u1, u2, day1, day2, type1, type2, reason1, noon

MCThread == {q1, q2}
MCTime == {noon}
MCValue == {day1, day2, type1, type2, reason1}

WithReason == [dates |-> day1, leaveType |-> type1, reason |-> reason1]
WithoutReason == [dates |-> day2, leaveType |-> type2, reason |-> Null]
MCForm == {WithReason, WithoutReason}
MCOneForm == {WithReason}

\* Threads are interchangeable, and so are applicants.
ThreadSymmetry == Permutations(MCThread)
ThreadAndUserSymmetry == Permutations(MCThread) \cup Permutations({u1, u2})
=============================================================================
