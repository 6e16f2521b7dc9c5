-------------------------- MODULE VacationProperties --------------------------
(***************************************************************************)
(* What is claimed of the leave requests: see VacationService for the      *)
(* model and LeaveFlow for the promise it implements.                      *)
(***************************************************************************)
EXTENDS VacationService

(***************************************************************************)
(* Properties that hold whichever endpoint a task is sent to.              *)
(***************************************************************************)

\* Every instance belongs to a row that exists, submitted by the same user:
\* whoever reads a task reaches the application it is about (businessKey).
InstanceHasRow ==
  \A p \in DOMAIN ins : /\ ins[p].key \in DOMAIN vac
                        /\ ins[p].user = vac[ins[p].key].user

\* No application is walked twice: two instances never share a business key,
\* however many threads start processes and however often they fail.
OneInstancePerRow ==
  \A p1, p2 \in DOMAIN ins : ins[p1].key = ins[p2].key => p1 = p2

\* A row that names an instance names its own, although the whole row is
\* written back from objects that other threads read earlier.
PidIsOwn ==
  \A r \in DOMAIN vac : vac[r].pid # Null =>
    /\ vac[r].pid \in DOMAIN ins
    /\ ins[vac[r].pid].key = r

\* Dates, type and reason of a row come from one form. The result map makes
\* completeReportBack store that form's reason as its type; no interleaving
\* of the writers mixes two forms.
RowFromOneForm ==
  \A r \in DOMAIN vac : \E f \in Form :
    /\ vac[r].dates = f.dates
    /\ \/ vac[r].leaveType = f.leaveType /\ vac[r].reason = f.reason
       \/ vac[r].leaveType = f.reason /\ vac[r].reason = Null

Held(p) == ins[p].assignee = ins[p].user

\* An audit endpoint has claimed the open task of instance p.
Claimed(p) ==
  \E q \in Thread : request[q].pc \in AuditEndpoint /\ request[q].task = OpenTask(p)

\* The applicant finds the own tasks by their assignee. Wherever tasks are sent,
\* the applicant's tasks come assigned to the applicant in every round, and one
\* is lost only to an audit endpoint that claims this very task: the failure of
\* its completion, or another thread's, takes no later task away.
HeldUntilClaimed ==
  [][\A p \in DOMAIN ins :
       ins'[p].node \in ApplicantTask =>
         \/ Held(p)'
         \/ OpenTask(p)' = OpenTask(p) /\ (~Held(p) \/ Claimed(p)')]_vars

(***************************************************************************)
(* The inductive invariant of the ownership: what the locals of a          *)
(* thread know about the table and the engine while others change both.    *)
(***************************************************************************)

\* The endpoints that look the task up and then handle its row.
RowHandling == {"getRow", "updateReality", "completeReportBack", "updateComplete"}

\* The locals x of a thread: the ids it works on exist, where its next
\* statement needs a row, a task or an object it has one, and the object names
\* the instance of its own row or none.
Grounded(x) ==
  /\ x.row # Null => x.row \in DOMAIN vac
  /\ x.task # Null => x.task.pid \in DOMAIN ins
  /\ x.pc \in RowHandling \cup {"startProcess", "saveInstanceId"} => x.row # Null
  /\ x.pc \in RowHandling \cup AuditEndpoint => x.task # Null
  /\ x.pc \in (RowHandling \ {"getRow"}) \cup {"startProcess", "saveInstanceId"} =>
       x.apply # Null
  /\ x.pc = "saveInstanceId" => x.apply.pid # Null
  /\ (x.apply # Null /\ x.apply.pid # Null) =>
       /\ x.apply.pid \in DOMAIN ins
       /\ ins[x.apply.pid].key = x.row

\* The row whose process a thread is about to start is that thread's alone
\* and has no instance yet.
StartsFirst ==
  \A q \in Thread : request[q].pc = "startProcess" =>
    /\ request[q].apply.user = vac[request[q].row].user
    /\ \A p \in DOMAIN ins : ins[p].key # request[q].row
    /\ \A o \in Thread :
         request[o].pc = "startProcess" /\ request[o].row = request[q].row => o = q

OwnershipInv ==
  /\ TypeOK
  /\ \A q \in Thread : Grounded(request[q])
  /\ StartsFirst
  /\ InstanceHasRow
  /\ OneInstancePerRow
  /\ PidIsOwn

(***************************************************************************)
(* The service implements LeaveFlow: the stage of an application is the    *)
(* node of the one instance with its id as business key.                   *)
(***************************************************************************)

StageOf(r) ==
  IF \E p \in DOMAIN ins : ins[p].key = r
    THEN ins[CHOOSE p \in DOMAIN ins : ins[p].key = r].node
    ELSE IF r \in DOMAIN vac THEN "submitted" ELSE "none"

Flow == INSTANCE LeaveFlow WITH
  Application <- 1 .. MaxRow,
  stage <- [r \in 1 .. MaxRow |-> StageOf(r)]

\* Whatever the threads, failures and deletions do, each application is
\* submitted, started once, moved along the flows of leave.bpmn one completed
\* task at a time, and left alone after its end.
ImplementsLeaveFlow == Flow!Spec

(***************************************************************************)
(* Properties that need the clients to send each kind of task to the       *)
(* endpoint made for it (Misrouted = FALSE): the server does not check it. *)
(***************************************************************************)

\* Process variables survive from one round to the next; all the same an
\* application that waits for the personnel department was approved by the
\* department, one that waits for the report was approved by both, and one
\* that is to be modified was turned down by one of them.
ApprovalsStand ==
  \A p \in DOMAIN ins :
    LET dept == ins[p].answers["deptleaderapprove"]
        hr == ins[p].answers["hrapprove"]
    IN /\ ins[p].node = "hraudit" => dept = "true"
       /\ ins[p].node = "reportback" => dept = "true" /\ hr = "true"
       /\ ins[p].node = "modifyapply" => dept = "false" \/ hr = "false"

\* A row with reported leave times is the row of an application that both
\* departments approved and that cannot be modified any more.
ReportedWasApproved ==
  \A r \in DOMAIN vac : vac[r].reality # Null =>
    \E p \in DOMAIN ins :
      /\ ins[p].key = r
      /\ ins[p].node \in {"reportback", "end", "deleted"}
      /\ ins[p].answers["deptleaderapprove"] = "true"
      /\ ins[p].answers["hrapprove"] = "true"

\* What the department approved is what personnel sees and what is reported
\* on: from the first approval to the end the dates of the row do not change,
\* unless startWorkflow's last write came after the first approval.
FormFrozenDuringAudit ==
  [][\A p \in DOMAIN ins :
       LET r == ins[p].key
       IN ins[p].node \in {"hraudit", "reportback"} /\ r \notin late'
            => vac'[r].dates = vac[r].dates]_vars

\* Only a report changes the reported times: no object that was read before the
\* report, by a modification or by an earlier report, blanks them or brings
\* others back, unless startWorkflow's last write came late and erased them.
\* (The report itself may blank them: the endpoint takes missing times.)
ReportedTimesKept ==
  [][\A r \in DOMAIN vac :
       vac'[r].reality # vac[r].reality =>
         \/ \E q \in Thread : At(q, "updateReality") /\ At(q, "completeReportBack")'
                              /\ request[q].row = r
         \/ r \in late']_vars

(***************************************************************************)
(* Where nothing fails and no deployment is deleted (CalmSpec).            *)
(***************************************************************************)

\* The row of every instance names it once its startWorkflow has returned,
\* although two more handlers write the column from objects read before.
InstanceIdRecorded ==
  \A p \in DOMAIN ins :
    \/ vac[ins[p].key].pid = p
    \/ ins[p].key \in late
    \/ \E q \in Thread : At(q, "saveInstanceId") /\ request[q].row = ins[p].key

\* A saved application gets its process instance: an orphan row is always the
\* trace of a failure.
SavedIsStarted ==
  \A r \in 1 .. MaxRow :
    (r \in DOMAIN vac) ~> (\E p \in DOMAIN ins : ins[p].key = r)
=============================================================================
