--------------------------- MODULE VacationService ---------------------------
(***************************************************************************)
(* Leave requests: VacationServiceImpl and the handlers of                 *)
(* ActivitiController that call it or the engine, run by concurrent server *)
(* threads over the table t_vacation (MySQL) and the Activiti engine.      *)
(*                                                                         *)
(* Each action is what runs between two points where another thread can    *)
(* see or change shared data. The transaction advice of spring-mybatis.xml *)
(* gives a transaction to the service methods named add*, save*, update*,  *)
(* delete*, ...: updateComplete is atomic, while every statement and every *)
(* engine call of startWorkflow, completeReportBack, deptcomplete and      *)
(* hrcomplete commits on its own. A thread may stop at any of these points *)
(* (an exception, a crash): what is committed stays.                       *)
(***************************************************************************)
EXTENDS LeaveProcess, Naturals, Sequences

CONSTANTS
  Thread,      \* the threads that serve requests
  User,        \* the applicants
  Value,       \* what a form field may hold
  Form,        \* the contents a leave form is submitted with
  Time,        \* the reported leave times (both columns as one value)
  Null,        \* SQL NULL and Java null
  Misrouted,   \* may a task be sent to the endpoint of another kind of task?
  MaxRow,      \* bound: rows inserted
  MaxTask,     \* bound: tasks issued by one instance
  MaxDeploy    \* bound: deployments made

ASSUME FormAssumption ==
  Form \subseteq [dates : Value, leaveType : Value, reason : Value \cup {Null}]

ASSUME MisroutedAssumption == Misrouted \in BOOLEAN

ASSUME BoundsAssumption == {MaxRow, MaxTask, MaxDeploy} \subseteq Nat

VARIABLES
  vac,         \* table t_vacation: the row with id i is vac[i]
  ins,         \* the engine's instances, by id, ended and deleted ones too
  deployed,    \* deployments by version: is it still there?
  request,     \* what each thread is doing
  late         \* history, read by no action: the rows whose startWorkflow made
               \* its last write when the first task was no longer open

vars == <<vac, ins, deployed, request, late>>

(***************************************************************************)
(* Types.                                                                  *)
(***************************************************************************)

Row == [user : User, pid : Nat \cup {Null}, dates : Value, leaveType : Value,
        reason : Value \cup {Null}, reality : Time \cup {Null}]

\* `task` counts the tasks issued: the open task is the last one.
Instance == [key : Nat, user : User, node : Node, task : Nat,
             answers : [Variable -> Answer], assignee : User \cup {Null},
             deployment : Nat]

TaskId == [pid : Nat, n : Nat]

\* null is no value of any column, no id and no object.
ASSUME NullAssumption ==
  Null \notin User \cup Time \cup Value \cup Nat \cup Row \cup TaskId

\* The endpoints that complete a task, and the kind of task each is made for.
MadeFor == [deptcomplete |-> "deptleaderaudit", hrcomplete |-> "hraudit",
            reportcomplete |-> "reportback", updatecomplete |-> "modifyapply"]

AuditEndpoint == {"deptcomplete", "hrcomplete"}

\* The variable an audit endpoint sets.
Answers == [deptcomplete |-> "deptleaderapprove", hrcomplete |-> "hrapprove"]

PC == {"idle", "startProcess", "saveInstanceId", "getRow", "updateReality",
       "completeReportBack", "updateComplete"} \cup AuditEndpoint

\* A thread's locals: the task id, the row id and the VacationRequest object.
Request == [pc : PC, task : TaskId \cup {Null}, row : Nat \cup {Null},
            apply : Row \cup {Null}]

Idle == [pc |-> "idle", task |-> Null, row |-> Null, apply |-> Null]

TypeOK ==
  /\ vac \in Seq(Row)
  /\ ins \in Seq(Instance)
  /\ deployed \in Seq(BOOLEAN)
  /\ request \in [Thread -> Request]
  /\ late \subseteq Nat

(***************************************************************************)
(* VacationMapper.                                                         *)
(***************************************************************************)

\* A row as `get` returns it: the result map puts the column reason into the
\* property leaveType as well, after leave_type, and into no other.
Get(r) ==
  [vac[r] EXCEPT !.leaveType = IF vac[r].reason = Null THEN @ ELSE vac[r].reason,
                 !.reason = Null]

\* Seeded fault: the update statement leaves the column reason out.
UpdateWithoutReason(r, a) ==
  [vac EXCEPT ![r] = [a EXCEPT !.user = vac[r].user, !.reason = vac[r].reason]]

\* `update` writes every column but id, user_id and apply_time.
Update(r, a) == [vac EXCEPT ![r] = [a EXCEPT !.user = vac[r].user]]

\* Seeded fault: the user is taken from the session attribute nobody sets.
SubmittedAnonymously(u, f) ==
  [user |-> Null, pid |-> Null, dates |-> f.dates, leaveType |-> f.leaveType,
   reason |-> f.reason, reality |-> Null]

\* The object a submitted form is bound to, completed by startWorkflow.
Submitted(u, f) ==
  [user |-> u, pid |-> Null, dates |-> f.dates, leaveType |-> f.leaveType,
   reason |-> f.reason, reality |-> Null]

(***************************************************************************)
(* The engine.                                                             *)
(***************************************************************************)

Live(t) ==
  /\ t.pid \in DOMAIN ins
  /\ ins[t.pid].node \in UserTask
  /\ ins[t.pid].task = t.n

NewInstance(r, u, d) ==
  [key |-> r, user |-> u, node |-> "deptleaderaudit", task |-> 1,
   answers |-> [v \in Variable |-> "neither"], assignee |-> Null, deployment |-> d]

\* startProcessInstanceByKey takes the latest version that is still there.
Latest(d) ==
  /\ d \in DOMAIN deployed
  /\ deployed[d]
  /\ \A e \in DOMAIN deployed : deployed[e] => e <= d

StartProcessByKey(r, u) ==
  \E d \in DOMAIN deployed : Latest(d) /\ ins' = Append(ins, NewInstance(r, u, d))

Completes(t, answers, to) ==
  /\ Live(t)
  /\ Takes(ins[t.pid].node, answers, to)

\* Seeded fault: the applicant's tasks come without activiti:assignee.
ArriveUnassigned(i, answers, to) ==
  [i EXCEPT !.node = to, !.answers = answers,
            !.task = IF to \in UserTask THEN @ + 1 ELSE @]

\* Instance i moves to node `to`; arriving at a user task issues a new task.
Arrive(i, answers, to) ==
  [i EXCEPT !.node = to, !.answers = answers,
            !.task = IF to \in UserTask THEN @ + 1 ELSE @,
            !.assignee = IF to \in ApplicantTask THEN i.user ELSE Null]

\* taskService.complete that succeeds.
Complete(t, answers, to) ==
  /\ Completes(t, answers, to)
  /\ to \in UserTask => t.n < MaxTask
  /\ ins' = [ins EXCEPT ![t.pid] = Arrive(@, answers, to)]

\* taskService.complete that throws: the task is gone, or no flow fits. It
\* rolls back, the variables it put included.
Refused(t, answers) == \A to \in Node : ~Completes(t, answers, to)

Attempt(t, answers) ==
  \/ \E to \in Node : Complete(t, answers, to)
  \/ Refused(t, answers) /\ UNCHANGED ins

(***************************************************************************)
(* Threads.                                                                *)
(***************************************************************************)

At(q, pc) == request[q].pc = pc

GoOn(q, pc, a) == request' = [request EXCEPT ![q].pc = pc, ![q].apply = a]

Return(q) == request' = [request EXCEPT ![q] = Idle]

\* Thread q takes a request for the open task of instance p at an endpoint.
\* (For a task that is gone, every endpoint throws before it changes anything.)
Accepts(q, p, endpoint) ==
  /\ request[q] = Idle
  /\ ins[p].node \in UserTask
  /\ Misrouted \/ ins[p].node = MadeFor[endpoint]

OpenTask(p) == [pid |-> p, n |-> ins[p].task]

(***************************************************************************)
(* startWorkflow: insert the row, start the process, write the row again   *)
(* with the instance's id. Three commits.                                  *)
(***************************************************************************)

Init ==
  /\ vac = <<>>
  /\ ins = <<>>
  /\ deployed = <<TRUE>>
  /\ request = [q \in Thread |-> Idle]
  /\ late = {}

\* Seeded fault: the row is saved and no process is started.
SaveApplyOnly(q, u, f) ==
  /\ request[q] = Idle
  /\ Len(vac) < MaxRow
  /\ vac' = Append(vac, Submitted(u, f))
  /\ UNCHANGED <<ins, deployed, request, late>>

SaveApply(q, u, f) ==
  /\ request[q] = Idle
  /\ Len(vac) < MaxRow
  /\ vac' = Append(vac, Submitted(u, f))
  /\ request' = [request EXCEPT ![q] =
       [pc |-> "startProcess", task |-> Null, row |-> Len(vac) + 1,
        apply |-> Submitted(u, f)]]
  /\ UNCHANGED <<ins, deployed, late>>

\* Seeded faults: the business key is the last id of the table; a start that
\* is slow to answer is sent again; the instance's id is not written back.
StartProcessForLastRow(q) ==
  /\ At(q, "startProcess")
  /\ StartProcessByKey(Len(vac), request[q].apply.user)
  /\ GoOn(q, "saveInstanceId", [request[q].apply EXCEPT !.pid = Len(ins) + 1])
  /\ UNCHANGED <<vac, deployed, late>>

StartProcessTwice(q) ==
  /\ At(q, "startProcess")
  /\ StartProcessByKey(request[q].row, request[q].apply.user)
  /\ \E pc \in {"startProcess", "saveInstanceId"} :
       GoOn(q, pc, [request[q].apply EXCEPT !.pid = Len(ins) + 1])
  /\ UNCHANGED <<vac, deployed, late>>

StartProcessOnly(q) ==
  /\ At(q, "startProcess")
  /\ StartProcessByKey(request[q].row, request[q].apply.user)
  /\ Return(q)
  /\ UNCHANGED <<vac, deployed, late>>

StartProcess(q) ==
  /\ At(q, "startProcess")
  /\ StartProcessByKey(request[q].row, request[q].apply.user)
  /\ GoOn(q, "saveInstanceId", [request[q].apply EXCEPT !.pid = Len(ins) + 1])
  /\ UNCHANGED <<vac, deployed, late>>

\* No deployment is left: startProcessInstanceByKey throws, the row stays.
StartRefused(q) ==
  /\ At(q, "startProcess")
  /\ \A d \in DOMAIN deployed : ~deployed[d]
  /\ Return(q)
  /\ UNCHANGED <<vac, ins, deployed, late>>

\* Instance p still waits for its first audit.
Untouched(p) == ins[p].node = "deptleaderaudit" /\ ins[p].task = 1

\* The row is written, and `late` keeps the history.
WriteStarted(q, a) ==
  /\ vac' = Update(request[q].row, a)
  /\ late' = IF Untouched(request[q].apply.pid) THEN late ELSE late \cup {request[q].row}

\* Seeded fault: the id written is that of the newest instance.
SaveNewestId(q) ==
  /\ At(q, "saveInstanceId")
  /\ WriteStarted(q, [request[q].apply EXCEPT !.pid = Len(ins)])
  /\ Return(q)
  /\ UNCHANGED <<ins, deployed>>

SaveInstanceId(q) ==
  /\ At(q, "saveInstanceId")
  /\ WriteStarted(q, request[q].apply)
  /\ Return(q)
  /\ UNCHANGED <<ins, deployed>>

(***************************************************************************)
(* deptcomplete and hrcomplete: claim, then complete. Two commits. The     *)
(* session attribute "username" is never set, so the claim is              *)
(* claim(taskid, null): it takes the task's assignee away.                 *)
(***************************************************************************)

Claim(q, p, endpoint) ==
  /\ Accepts(q, p, endpoint)
  /\ ins' = [ins EXCEPT ![p].assignee = Null]
  /\ request' = [request EXCEPT ![q] =
       [pc |-> endpoint, task |-> OpenTask(p), row |-> Null, apply |-> Null]]
  /\ UNCHANGED <<vac, deployed, late>>

AuditAnswers(q, answer) ==
  [ins[request[q].task.pid].answers EXCEPT ![Answers[request[q].pc]] = answer]

CompleteAudit(q, answer) ==
  /\ request[q].pc \in AuditEndpoint
  /\ Attempt(request[q].task, AuditAnswers(q, answer))
  /\ Return(q)
  /\ UNCHANGED <<vac, deployed, late>>

(***************************************************************************)
(* completeReportBack: find the task's instance, read its row, write the   *)
(* row with the reported times, complete the task. Two commits.            *)
(***************************************************************************)

FindTask(q, p) ==
  /\ Accepts(q, p, "reportcomplete")
  /\ request' = [request EXCEPT ![q] =
       [pc |-> "getRow", task |-> OpenTask(p), row |-> ins[p].key, apply |-> Null]]
  /\ UNCHANGED <<vac, ins, deployed, late>>

GetRow(q) ==
  /\ At(q, "getRow")
  /\ GoOn(q, "updateReality", Get(request[q].row))
  /\ UNCHANGED <<vac, ins, deployed, late>>

\* The times are the request's parameters, unchecked: null where they are missing.
UpdateReality(q, time) ==
  /\ At(q, "updateReality")
  /\ vac' = Update(request[q].row, [request[q].apply EXCEPT !.reality = time])
  /\ GoOn(q, "completeReportBack", request[q].apply)
  /\ UNCHANGED <<ins, deployed, late>>

CompleteReportBack(q) ==
  /\ At(q, "completeReportBack")
  /\ Attempt(request[q].task, ins[request[q].task.pid].answers)
  /\ Return(q)
  /\ UNCHANGED <<vac, deployed, late>>

(***************************************************************************)
(* updateComplete: one transaction. Its reads see the snapshot taken at    *)
(* its first query (REPEATABLE READ); its writes reach the other threads   *)
(* at the commit, and the update of the row overwrites what was committed  *)
(* to it meanwhile.                                                        *)
(***************************************************************************)

ReadSnapshot(q, p) ==
  /\ Accepts(q, p, "updatecomplete")
  /\ request' = [request EXCEPT ![q] =
       [pc |-> "updateComplete", task |-> OpenTask(p), row |-> ins[p].key,
        apply |-> Get(ins[p].key)]]
  /\ UNCHANGED <<vac, ins, deployed, late>>

Modified(a, f) == [a EXCEPT !.leaveType = f.leaveType, !.dates = f.dates,
                            !.reason = f.reason]

\* Seeded fault: without its transaction, the row keeps what was written
\* although the completion is refused.
UpdateWithoutTransaction(q, f, answer) ==
  /\ At(q, "updateComplete")
  /\ LET t == request[q].task
         answers == [ins[t.pid].answers EXCEPT !["reapply"] = answer]
     IN /\ Attempt(t, answers)
        /\ vac' = IF answer = "true"
                    THEN Update(request[q].row, Modified(request[q].apply, f))
                    ELSE vac
  /\ Return(q)
  /\ UNCHANGED <<deployed, late>>

UpdateComplete(q, f, answer) ==
  /\ At(q, "updateComplete")
  /\ LET t == request[q].task
         answers == [ins[t.pid].answers EXCEPT !["reapply"] = answer]
     IN \/ /\ \E to \in Node : Complete(t, answers, to)
           /\ vac' = IF answer = "true"
                       THEN Update(request[q].row, Modified(request[q].apply, f))
                       ELSE vac
        \/ Refused(t, answers) /\ UNCHANGED <<vac, ins>>
  /\ Return(q)
  /\ UNCHANGED <<deployed, late>>

(***************************************************************************)
(* A thread stops: an exception of the database or the engine, or a crash. *)
(* What it has not committed is rolled back, the rest stays.               *)
(***************************************************************************)

Fail(q) ==
  /\ request[q] # Idle
  /\ Return(q)
  /\ UNCHANGED <<vac, ins, deployed, late>>

(***************************************************************************)
(* Deployments of leave.bpmn: at start-up or by upload, and deleteDeploy,  *)
(* which cascades to the instances and their history but not to t_vacation.*)
(***************************************************************************)

Deploy ==
  /\ Len(deployed) < MaxDeploy
  /\ deployed' = Append(deployed, TRUE)
  /\ UNCHANGED <<vac, ins, request, late>>

Deleted(i) == [i EXCEPT !.node = "deleted", !.assignee = Null]

DeleteDeploy(d) ==
  /\ d \in DOMAIN deployed
  /\ deployed[d]
  /\ deployed' = [deployed EXCEPT ![d] = FALSE]
  /\ ins' = [p \in DOMAIN ins |->
               IF ins[p].deployment = d THEN Deleted(ins[p]) ELSE ins[p]]
  /\ UNCHANGED <<vac, request, late>>

(***************************************************************************)
(* The specification.                                                      *)
(***************************************************************************)

\* A request arrives at an idle thread.
Arrival(q) ==
  \/ \E u \in User, f \in Form : SaveApply(q, u, f)
  \/ \E p \in DOMAIN ins :
       \/ \E endpoint \in AuditEndpoint : Claim(q, p, endpoint)
       \/ FindTask(q, p)
       \/ ReadSnapshot(q, p)

\* The thread goes on with the request it has taken.
Step(q) ==
  \/ StartProcess(q)
  \/ StartRefused(q)
  \/ SaveInstanceId(q)
  \/ \E answer \in Answer : CompleteAudit(q, answer)
  \/ GetRow(q)
  \/ \E time \in Time \cup {Null} : UpdateReality(q, time)
  \/ CompleteReportBack(q)
  \/ \E f \in Form, answer \in Answer : UpdateComplete(q, f, answer)

Admin == Deploy \/ \E d \in DOMAIN deployed : DeleteDeploy(d)

Next ==
  \/ \E q \in Thread : Arrival(q) \/ Step(q) \/ Fail(q)
  \/ Admin

Spec == Init /\ [][Next]_vars

(***************************************************************************)
(* A server that neither fails nor deletes deployments, and keeps running  *)
(* every thread that has taken a request. Clients owe nothing.             *)
(***************************************************************************)

CalmNext == \E q \in Thread : Arrival(q) \/ Step(q)

CalmSpec ==
  /\ Init
  /\ [][CalmNext]_vars
  /\ \A q \in Thread : WF_vars(Step(q))
=============================================================================
