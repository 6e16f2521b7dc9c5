------------------------------ MODULE LeaveFlow ------------------------------
(***************************************************************************)
(* What the leave system promises for each application, without threads,   *)
(* tables or engine: it is submitted, a process is started for it at most  *)
(* once, the process walks the flows of leave.bpmn one task at a time, and *)
(* nothing moves again after its end or after its deployment was deleted.  *)
(***************************************************************************)
EXTENDS LeaveProcess

CONSTANT Application

VARIABLE stage

\* The sequence flows, each with the gateway it leaves contracted away.
Flows == {<<"deptleaderaudit", "hraudit">>, <<"deptleaderaudit", "modifyapply">>,
          <<"hraudit", "reportback">>, <<"hraudit", "modifyapply">>,
          <<"modifyapply", "deptleaderaudit">>, <<"modifyapply", "end">>,
          <<"reportback", "end">>}

Stage == Node \cup {"none", "submitted"}

FlowTypeOK == stage \in [Application -> Stage]

Init == stage = [a \in Application |-> "none"]

Submit(a) ==
  /\ stage[a] = "none"
  /\ stage' = [stage EXCEPT ![a] = "submitted"]

Start(a) ==
  /\ stage[a] = "submitted"
  /\ stage' = [stage EXCEPT ![a] = "deptleaderaudit"]

\* One user task is completed and its gateway picks one flow.
Walk(a, to) ==
  /\ <<stage[a], to>> \in Flows
  /\ stage' = [stage EXCEPT ![a] = to]

\* A deployment is deleted with all the instances started from it.
Delete(gone) ==
  /\ \A a \in gone : stage[a] \in UserTask \cup {"end"}
  /\ stage' = [a \in Application |-> IF a \in gone THEN "deleted" ELSE stage[a]]

Next ==
  \/ \E a \in Application : Submit(a) \/ Start(a)
  \/ \E a \in Application, to \in Node : Walk(a, to)
  \/ \E gone \in SUBSET Application : Delete(gone)

Spec == Init /\ [][Next]_stage
=============================================================================
