---------------------------- MODULE LeaveProcess ----------------------------
(***************************************************************************)
(* The BPMN process "leave" (deployments/leave.bpmn) as data: its user     *)
(* tasks, the process variables its gateways test, and the sequence flows. *)
(* None of the gateways has a default flow, so a task whose answer fits no *)
(* condition cannot be left: the engine throws and rolls back.             *)
(***************************************************************************)

\* The user tasks an application waits at.
UserTask == {"deptleaderaudit", "hraudit", "modifyapply", "reportback"}

\* Where an instance is: at a task, ended by endevent1, or deleted together
\* with its deployment.
Node == UserTask \cup {"end", "deleted"}

\* The variables the three exclusive gateways test.
Variable == {"deptleaderapprove", "hrapprove", "reapply"}

\* What a variable holds. "neither" is everything that is not one of the two
\* strings the conditions compare with: unset, null, or any other text.
Answer == {"true", "false", "neither"}

\* An exclusive gateway that compares variable v with 'true' and with 'false'.
Gateway(vars, v, yes, no, to) ==
  \/ vars[v] = "true" /\ to = yes
  \/ vars[v] = "false" /\ to = no

\* Seeded fault: the first gateway has a default flow to personnel.
Gateway1Defaulted(vars, to) ==
  IF vars["deptleaderapprove"] = "false" THEN to = "modifyapply" ELSE to = "hraudit"

Gateway1(vars, to) == Gateway(vars, "deptleaderapprove", "hraudit", "modifyapply", to)

\* Seeded fault: an application that is made again goes straight to personnel.
Gateway2Shortcut(vars, to) == Gateway(vars, "reapply", "hraudit", "end", to)

Gateway2(vars, to) == Gateway(vars, "reapply", "deptleaderaudit", "end", to)

\* Seeded fault: the first gateway's condition copied to the third.
Gateway3Copied(vars, to) ==
  Gateway(vars, "deptleaderapprove", "reportback", "modifyapply", to)

Gateway3(vars, to) == Gateway(vars, "hrapprove", "reportback", "modifyapply", to)

\* An instance that leaves `node` with the variables `vars` arrives at `to`:
\* the user task, the gateway behind it and the flow whose condition holds.
Takes(node, vars, to) ==
  \/ node = "deptleaderaudit" /\ Gateway1(vars, to)
  \/ node = "modifyapply" /\ Gateway2(vars, to)
  \/ node = "hraudit" /\ Gateway3(vars, to)
  \/ node = "reportback" /\ to = "end"

\* The applicant's tasks carry activiti:assignee="${applyuserid}"; the audits
\* have a candidate group and no assignee.
ApplicantTask == {"modifyapply", "reportback"}
=============================================================================
