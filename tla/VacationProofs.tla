---------------------------- MODULE VacationProofs ----------------------------
(***************************************************************************)
(* Proofs about VacationService, for every value of its constants: type    *)
(* correctness, that rows and process instances belong to each other, that *)
(* the service implements LeaveFlow, and what becomes of approvals, times, *)
(* assignees and forms.                                                    *)
(***************************************************************************)
EXTENDS VacationProperties, SequenceTheorems, TLAPS

(***************************************************************************)
(* Sequences as tables.                                                    *)
(***************************************************************************)

\* A record added to a table gets the next id and leaves the others alone.
LEMMA Appended ==
  ASSUME NEW S, NEW s \in Seq(S), NEW e \in S
  PROVE  /\ Append(s, e) \in Seq(S)
         /\ DOMAIN Append(s, e) = DOMAIN s \cup {Len(s) + 1}
         /\ Len(s) + 1 \notin DOMAIN s
         /\ Append(s, e)[Len(s) + 1] = e
         /\ \A i \in DOMAIN s : Append(s, e)[i] = s[i]
  OBVIOUS

\* A record of a table is replaced in place.
LEMMA Replaced ==
  ASSUME NEW S, NEW s \in Seq(S), NEW i \in DOMAIN s, NEW e \in S
  PROVE  /\ [s EXCEPT ![i] = e] \in Seq(S)
         /\ DOMAIN [s EXCEPT ![i] = e] = DOMAIN s
  BY ExceptSeq, LenProperties

\* A table whose records are all replaced is a table with the same ids.
LEMMA Mapped ==
  ASSUME NEW S, NEW s \in Seq(S), NEW t, t \in [DOMAIN s -> S]
  PROVE  t \in Seq(S) /\ DOMAIN t = DOMAIN s
  OBVIOUS

(***************************************************************************)
(* VacationMapper.                                                         *)
(***************************************************************************)

\* get returns an object with the user and the instance id of its row.
LEMMA GetType ==
  ASSUME TypeOK, NEW r \in DOMAIN vac
  PROVE  /\ Get(r) \in Row
         /\ Get(r).pid = vac[r].pid
  <1>1. vac[r] \in Row
    BY DEF TypeOK
  <1> QED  BY <1>1 DEF Get, Row

\* The table has the same ids and the same users as before.
SameOwners ==
  /\ vac' \in Seq(Row)
  /\ DOMAIN vac' = DOMAIN vac
  /\ \A r \in DOMAIN vac : vac'[r].user = vac[r].user

\* update keeps users and ids, and changes the instance id of one row.
LEMMA UpdateKeepsOwners ==
  ASSUME TypeOK, NEW r \in DOMAIN vac, NEW a \in Row, vac' = Update(r, a)
  PROVE  /\ SameOwners
         /\ vac'[r].pid = a.pid
         /\ \A i \in DOMAIN vac : i # r => vac'[i] = vac[i]
  <1> DEFINE b == [a EXCEPT !.user = vac[r].user]
  <1>1. vac \in Seq(Row) /\ vac[r] \in Row
    BY DEF TypeOK
  <1>2. b \in Row /\ b.user = vac[r].user /\ b.pid = a.pid
    BY <1>1 DEF Row
  <1>3. vac' = [vac EXCEPT ![r] = b]
    BY DEF Update
  <1>4. vac' \in Seq(Row) /\ DOMAIN vac' = DOMAIN vac
    BY <1>1, <1>2, <1>3, Replaced
  <1>5. \A i \in DOMAIN vac : vac'[i] = IF i = r THEN b ELSE vac[i]
    BY <1>1, <1>3
  <1> QED  BY <1>2, <1>4, <1>5 DEF SameOwners

(***************************************************************************)
(* The engine.                                                             *)
(***************************************************************************)

\* The engine has the same instances, each with the same business key.
SameInstances ==
  /\ ins' \in Seq(Instance)
  /\ DOMAIN ins' = DOMAIN ins
  /\ \A p \in DOMAIN ins : ins'[p].key = ins[p].key /\ ins'[p].user = ins[p].user

LEMMA InstanceType ==
  ASSUME TypeOK, NEW p \in DOMAIN ins
  PROVE  p \in Nat /\ ins[p] \in Instance
  BY DEF TypeOK

\* Replacing one instance by one with its key and user is such a change.
LEMMA OneInstanceChanges ==
  ASSUME TypeOK, NEW p \in DOMAIN ins, NEW i \in Instance,
         ins' = [ins EXCEPT ![p] = i], i.key = ins[p].key, i.user = ins[p].user
  PROVE  SameInstances
  <1>1. ins \in Seq(Instance)
    BY DEF TypeOK
  <1>2. ins' \in Seq(Instance) /\ DOMAIN ins' = DOMAIN ins
    BY <1>1, Replaced
  <1> QED  BY <1>1, <1>2 DEF SameInstances

\* An instance that moves on keeps its key and its user.
LEMMA ArriveType ==
  ASSUME NEW i \in Instance, NEW answers \in [Variable -> Answer], NEW to \in Node
  PROVE  /\ Arrive(i, answers, to) \in Instance
         /\ Arrive(i, answers, to).key = i.key
         /\ Arrive(i, answers, to).user = i.user
  <1>1. (IF to \in UserTask THEN i.task + 1 ELSE i.task) \in Nat
    BY DEF Instance
  <1>2. (IF to \in ApplicantTask THEN i.user ELSE Null) \in User \cup {Null}
    BY DEF Instance
  <1> QED  BY <1>1, <1>2 DEF Arrive, Instance

\* taskService.complete, whether it succeeds or throws.
LEMMA AttemptKeepsInstances ==
  ASSUME TypeOK, NEW t \in TaskId, NEW answers \in [Variable -> Answer],
         Attempt(t, answers)
  PROVE  SameInstances
  <1>1. CASE UNCHANGED ins
    BY <1>1 DEF SameInstances, TypeOK
  <1>2. ASSUME NEW to \in Node, Complete(t, answers, to)
        PROVE  SameInstances
    <2>1. t.pid \in DOMAIN ins /\ ins[t.pid] \in Instance
      BY <1>2 DEF Complete, Completes, Live, TypeOK
    <2>2. /\ Arrive(ins[t.pid], answers, to) \in Instance
          /\ Arrive(ins[t.pid], answers, to).key = ins[t.pid].key
          /\ Arrive(ins[t.pid], answers, to).user = ins[t.pid].user
      BY <2>1, ArriveType
    <2>3. ins' = [ins EXCEPT ![t.pid] = Arrive(ins[t.pid], answers, to)]
      BY <1>2 DEF Complete
    <2> QED  BY <2>1, <2>2, <2>3, OneInstanceChanges
  <1> QED  BY <1>1, <1>2 DEF Attempt

(***************************************************************************)
(* Rows, instances and threads belong together.                            *)
(***************************************************************************)

\* Thread q's locals become x.
Becomes(q, x) == request' = [request EXCEPT ![q] = x]

\* A row's instance id stays, goes, or becomes that of an instance of the row.
PidsStayOwn ==
  \A r \in DOMAIN vac :
    \/ vac'[r].pid \in {vac[r].pid, Null}
    \/ vac'[r].pid \in DOMAIN ins /\ ins[vac'[r].pid].key = r

\* Every action but the two that add a row or an instance is of this form.
LEMMA Frame ==
  ASSUME OwnershipInv, SameInstances, SameOwners, PidsStayOwn,
         deployed' \in Seq(BOOLEAN), late' \subseteq Nat,
         NEW q \in Thread, NEW x \in Request, Becomes(q, x),
         Grounded(x), x.pc # "startProcess"
  PROVE  OwnershipInv'
  <1>1. /\ TypeOK
        /\ \A o \in Thread : request'[o] = IF o = q THEN x ELSE request[o]
        /\ request' \in [Thread -> Request]
    BY DEF OwnershipInv, TypeOK, Becomes
  <1>2. TypeOK'
    BY <1>1 DEF TypeOK, SameInstances, SameOwners
  <1>3. \A o \in Thread : Grounded(request[o])'
    <2>1. TAKE o \in Thread
    <2>2. Grounded(request'[o])
      BY <1>1 DEF OwnershipInv
    <2>3. /\ DOMAIN vac' = DOMAIN vac
          /\ DOMAIN ins' = DOMAIN ins
          /\ \A p \in DOMAIN ins : ins'[p].key = ins[p].key
      BY DEF SameInstances, SameOwners
    <2> QED  BY <2>2, <2>3 DEF Grounded
  <1>4. StartsFirst'
    <2>1. SUFFICES ASSUME NEW o \in Thread, request'[o].pc = "startProcess"
                   PROVE  /\ request'[o].apply.user = vac'[request'[o].row].user
                          /\ \A p \in DOMAIN ins' : ins'[p].key # request'[o].row
                          /\ \A k \in Thread : /\ request'[k].pc = "startProcess"
                                               /\ request'[k].row = request'[o].row
                                               => k = o
      BY DEF StartsFirst
    <2>2. o # q /\ request'[o] = request[o]
      BY <1>1, <2>1
    <2>3. request[o].row \in DOMAIN vac
      BY <2>1, <2>2 DEF OwnershipInv, Grounded
    <2>4. /\ request[o].apply.user = vac[request[o].row].user
          /\ \A p \in DOMAIN ins : ins[p].key # request[o].row
          /\ \A k \in Thread : /\ request[k].pc = "startProcess"
                               /\ request[k].row = request[o].row
                               => k = o
      BY <2>1, <2>2 DEF OwnershipInv, StartsFirst
    <2>5. request'[o].apply.user = vac'[request'[o].row].user
      BY <2>2, <2>3, <2>4 DEF SameOwners
    <2>6. \A p \in DOMAIN ins' : ins'[p].key # request'[o].row
      BY <2>2, <2>4 DEF SameInstances
    <2>7. ASSUME NEW k \in Thread, request'[k].pc = "startProcess",
                 request'[k].row = request'[o].row
          PROVE  k = o
      <3>1. k # q /\ request'[k] = request[k]
        BY <1>1, <2>7
      <3> QED  BY <2>2, <2>4, <2>7, <3>1
    <2> QED  BY <2>5, <2>6, <2>7
  <1>5. InstanceHasRow'
    BY DEF OwnershipInv, InstanceHasRow, SameInstances, SameOwners
  <1>6. OneInstancePerRow'
    BY DEF OwnershipInv, OneInstancePerRow, SameInstances
  <1>7. PidIsOwn'
    <2>1. SUFFICES ASSUME NEW r \in DOMAIN vac, vac'[r].pid # Null
                   PROVE  vac'[r].pid \in DOMAIN ins /\ ins[vac'[r].pid].key = r
      BY DEF PidIsOwn, SameInstances, SameOwners
    <2> QED  BY <2>1 DEF OwnershipInv, PidIsOwn, PidsStayOwn
  <1> QED  BY <1>2, <1>3, <1>4, <1>5, <1>6, <1>7 DEF OwnershipInv

\* A thread that returns leaves nothing to check about its locals.
LEMMA ReturnGrounded == Idle \in Request /\ Grounded(Idle) /\ Idle.pc # "startProcess"
  BY NullAssumption DEF Idle, Request, PC, Grounded, RowHandling, AuditEndpoint

\* Return, where the rows and the instances change as Frame allows.
LEMMA Returning ==
  ASSUME OwnershipInv, SameInstances, SameOwners, PidsStayOwn,
         deployed' \in Seq(BOOLEAN), late' \subseteq Nat,
         NEW q \in Thread, Return(q)
  PROVE  OwnershipInv'
  BY Frame, ReturnGrounded DEF Return, Becomes

\* What does not change satisfies the conditions of Frame.
LEMMA RowsUnchanged ==
  ASSUME TypeOK, UNCHANGED vac
  PROVE  SameOwners /\ PidsStayOwn
  BY DEF TypeOK, SameOwners, PidsStayOwn

LEMMA InstancesUnchanged ==
  ASSUME TypeOK, UNCHANGED ins
  PROVE  SameInstances
  BY DEF TypeOK, SameInstances

LEMMA AdminUnchanged ==
  ASSUME TypeOK, UNCHANGED <<deployed, late>>
  PROVE  deployed' \in Seq(BOOLEAN) /\ late' \subseteq Nat
  BY DEF TypeOK

\* A thread writes a whole row from its object.
LEMMA RowWritten ==
  ASSUME OwnershipInv, NEW q \in Thread, request[q].row # Null, request[q].apply # Null,
         NEW a \in Row, a.pid = request[q].apply.pid, vac' = Update(request[q].row, a)
  PROVE  SameOwners /\ PidsStayOwn
  <1>1. TypeOK /\ Grounded(request[q]) /\ request[q].row \in DOMAIN vac
    BY DEF OwnershipInv, Grounded
  <1>2. /\ SameOwners
        /\ vac'[request[q].row].pid = a.pid
        /\ \A i \in DOMAIN vac : i # request[q].row => vac'[i] = vac[i]
    BY <1>1, UpdateKeepsOwners
  <1>3. a.pid = Null \/ (a.pid \in DOMAIN ins /\ ins[a.pid].key = request[q].row)
    BY <1>1 DEF Grounded
  <1> QED  BY <1>2, <1>3 DEF PidsStayOwn

(***************************************************************************)
(* The actions, one lemma each.                                            *)
(***************************************************************************)

LEMMA InitOwnership == Init => OwnershipInv
  <1> SUFFICES ASSUME Init PROVE OwnershipInv
    OBVIOUS
  <1>1. TypeOK
    BY ReturnGrounded DEF Init, TypeOK
  <1>2. vac = <<>> /\ ins = <<>> /\ DOMAIN vac = {} /\ DOMAIN ins = {}
    BY DEF Init
  <1>3. \A q \in Thread : Grounded(request[q]) /\ request[q].pc = "idle"
    BY ReturnGrounded DEF Init, Idle
  <1> QED
    BY <1>1, <1>2, <1>3
    DEF OwnershipInv, StartsFirst, InstanceHasRow, OneInstancePerRow, PidIsOwn

\* The new row has no instance, and no other thread knows its id.
LEMMA SaveApplyOwnership ==
  ASSUME OwnershipInv, NEW q \in Thread, NEW u \in User, NEW f \in Form,
         SaveApply(q, u, f)
  PROVE  OwnershipInv'
  <1> DEFINE n == Len(vac) + 1
             a == Submitted(u, f)
             x == [pc |-> "startProcess", task |-> Null, row |-> n, apply |-> a]
  <1>1. /\ TypeOK
        /\ vac \in Seq(Row)
        /\ UNCHANGED <<ins, deployed, late>>
        /\ vac' = Append(vac, a)
        /\ \A o \in Thread : request'[o] = IF o = q THEN x ELSE request[o]
        /\ request' = [request EXCEPT ![q] = x]
    BY DEF SaveApply, OwnershipInv, TypeOK
  <1>2. a \in Row /\ a # Null /\ a.user = u /\ a.pid = Null
    <2>1. a \in Row
      BY FormAssumption DEF Submitted, Row
    <2> QED  BY <2>1, NullAssumption DEF Submitted
  <1>3. /\ vac' \in Seq(Row)
        /\ DOMAIN vac' = DOMAIN vac \cup {n}
        /\ n \notin DOMAIN vac
        /\ vac'[n] = a
        /\ \A i \in DOMAIN vac : vac'[i] = vac[i]
    BY <1>1, <1>2, Appended
  <1>4. n \in Nat /\ n # Null
    BY <1>1, NullAssumption
  <1>5. x \in Request
    BY <1>2, <1>4 DEF Request, PC
  <1>6. TypeOK'
    BY <1>1, <1>3, <1>5 DEF TypeOK
  <1>7. \A o \in Thread : Grounded(request[o])'
    <2>1. ASSUME NEW o \in Thread, o # q  PROVE Grounded(request[o])'
      BY <1>1, <1>3, <2>1 DEF OwnershipInv, Grounded
    <2>2. /\ request'[q].pc = "startProcess" /\ request'[q].task = Null
          /\ request'[q].row = n /\ request'[q].apply = a
      BY <1>1
    <2>3. Grounded(request[q])'
      BY <1>2, <1>3, <1>4, <2>2 DEF Grounded, RowHandling, AuditEndpoint
    <2> QED  BY <2>1, <2>3
  <1>8. \A p \in DOMAIN ins : ins[p].key # n
    BY <1>3 DEF OwnershipInv, InstanceHasRow
  <1>9. \A o \in Thread : request[o].row # n
    BY <1>3, <1>4 DEF OwnershipInv, Grounded
  <1>10. StartsFirst'
    <2>1. ASSUME NEW o \in Thread, request'[o].pc = "startProcess"
          PROVE  request'[o].apply.user = vac'[request'[o].row].user
      <3>1. CASE o = q
        BY <1>1, <1>3, <3>1
      <3>2. CASE o # q
        <4>1. request'[o] = request[o] /\ request[o].row \in DOMAIN vac
          BY <1>1, <2>1, <3>2 DEF OwnershipInv, Grounded
        <4> QED  BY <1>3, <2>1, <4>1 DEF OwnershipInv, StartsFirst
      <3> QED  BY <3>1, <3>2
    <2>2. ASSUME NEW o \in Thread, request'[o].pc = "startProcess"
          PROVE  \A p \in DOMAIN ins : ins[p].key # request'[o].row
      BY <1>1, <1>8, <2>2 DEF OwnershipInv, StartsFirst
    <2>3. ASSUME NEW o \in Thread, request'[o].pc = "startProcess",
                 NEW k \in Thread, request'[k].pc = "startProcess",
                 request'[k].row = request'[o].row
          PROVE  k = o
      <3>1. CASE o # q /\ k # q
        BY <1>1, <2>3, <3>1 DEF OwnershipInv, StartsFirst
      <3>2. CASE o = q \/ k = q
        BY <1>1, <1>9, <2>3, <3>2
      <3> QED  BY <3>1, <3>2
    <2> QED  BY <1>1, <2>1, <2>2, <2>3 DEF StartsFirst
  <1>11. InstanceHasRow' /\ OneInstancePerRow'
    BY <1>1, <1>3 DEF OwnershipInv, InstanceHasRow, OneInstancePerRow
  <1>12. PidIsOwn'
    BY <1>1, <1>2, <1>3 DEF OwnershipInv, PidIsOwn
  <1> QED  BY <1>6, <1>7, <1>10, <1>11, <1>12 DEF OwnershipInv

\* The new instance is the only one of its row.
LEMMA StartProcessOwnership ==
  ASSUME OwnershipInv, NEW q \in Thread, StartProcess(q)
  PROVE  OwnershipInv'
  <1> DEFINE n == Len(ins) + 1
             r == request[q].row
             a == [request[q].apply EXCEPT !.pid = n]
             x == [request[q] EXCEPT !.pc = "saveInstanceId", !.apply = a]
  <1>1. /\ TypeOK
        /\ ins \in Seq(Instance)
        /\ request[q] \in Request
        /\ request[q].pc = "startProcess"
        /\ UNCHANGED <<vac, deployed, late>>
        /\ request' = [request EXCEPT ![q] = x]
        /\ \A o \in Thread : request'[o] = IF o = q THEN x ELSE request[o]
    BY DEF StartProcess, GoOn, At, OwnershipInv, TypeOK
  <1>2. /\ r \in DOMAIN vac
        /\ r \in Nat
        /\ request[q].apply \in Row
        /\ request[q].apply.user = vac[r].user
        /\ vac[r].user \in User
    <2>1. r # Null /\ request[q].apply # Null /\ r \in DOMAIN vac
      BY <1>1 DEF OwnershipInv, Grounded
    <2>2. vac[r] \in Row
      BY <2>1 DEF OwnershipInv, TypeOK
    <2> QED  BY <1>1, <2>1, <2>2 DEF OwnershipInv, StartsFirst, Request, Row
  <1>3. PICK d \in DOMAIN deployed : ins' = Append(ins, NewInstance(r, vac[r].user, d))
    BY <1>2 DEF StartProcess, StartProcessByKey
  <1> DEFINE i == NewInstance(r, vac[r].user, d)
  <1>4. i \in Instance /\ i.key = r /\ i.user = vac[r].user
    <2>1. d \in Nat
      BY DEF OwnershipInv, TypeOK
    <2>2. [v \in Variable |-> "neither"] \in [Variable -> Answer]
      BY DEF Answer
    <2> QED  BY <1>2, <2>1, <2>2 DEF NewInstance, Instance, Node, UserTask
  <1>5. /\ ins' \in Seq(Instance)
        /\ DOMAIN ins' = DOMAIN ins \cup {n}
        /\ n \notin DOMAIN ins
        /\ ins'[n] = i
        /\ \A p \in DOMAIN ins : ins'[p] = ins[p]
    BY <1>1, <1>3, <1>4, Appended
  <1>6. n \in Nat /\ n # Null
    BY <1>1, NullAssumption
  <1>7. /\ a \in Row /\ a # Null /\ a.pid = n
        /\ x \in Request /\ x.pc = "saveInstanceId" /\ x.row = r /\ x.apply = a
        /\ x.task = request[q].task
    <2>1. a \in Row /\ a.pid = n
      BY <1>2, <1>6 DEF Row
    <2>2. a # Null
      BY <2>1, NullAssumption
    <2> QED  BY <1>1, <2>1, <2>2 DEF Request, PC
  <1>8. TypeOK'
    BY <1>1, <1>5, <1>7 DEF TypeOK
  <1>9. \A o \in Thread : Grounded(request[o])'
    <2>1. ASSUME NEW o \in Thread, o # q  PROVE Grounded(request[o])'
      BY <1>1, <1>5, <2>1 DEF OwnershipInv, Grounded
    <2>2. Grounded(request[q])
      BY DEF OwnershipInv
    <2>3. /\ request'[q].pc = "saveInstanceId" /\ request'[q].task = request[q].task
          /\ request'[q].row = r /\ request'[q].apply = a
      BY <1>1, <1>7
    <2>4. Grounded(request[q])'
      BY <1>1, <1>2, <1>4, <1>5, <1>6, <1>7, <2>2, <2>3
      DEF Grounded, RowHandling, AuditEndpoint
    <2> QED  BY <2>1, <2>4
  <1>10. StartsFirst'
    <2>1. SUFFICES ASSUME NEW o \in Thread, request'[o].pc = "startProcess"
                   PROVE  /\ request'[o].apply.user = vac'[request'[o].row].user
                          /\ \A p \in DOMAIN ins' : ins'[p].key # request'[o].row
                          /\ \A k \in Thread : /\ request'[k].pc = "startProcess"
                                               /\ request'[k].row = request'[o].row
                                               => k = o
      BY DEF StartsFirst
    <2>2. o # q /\ request'[o] = request[o]
      BY <1>1, <1>7, <2>1
    <2>3. /\ request[o].apply.user = vac[request[o].row].user
          /\ \A p \in DOMAIN ins : ins[p].key # request[o].row
          /\ \A k \in Thread : /\ request[k].pc = "startProcess"
                               /\ request[k].row = request[o].row
                               => k = o
      BY <2>1, <2>2 DEF OwnershipInv, StartsFirst
    <2>4. request[o].row # r
      BY <1>1, <2>2, <2>3
    <2>5. \A p \in DOMAIN ins' : ins'[p].key # request'[o].row
      BY <1>4, <1>5, <2>2, <2>3, <2>4
    <2>6. ASSUME NEW k \in Thread, request'[k].pc = "startProcess",
                 request'[k].row = request'[o].row
          PROVE  k = o
      BY <1>1, <1>7, <2>2, <2>3, <2>6
    <2> QED  BY <1>1, <2>2, <2>3, <2>5, <2>6
  <1>11. InstanceHasRow'
    BY <1>1, <1>2, <1>4, <1>5 DEF OwnershipInv, InstanceHasRow
  <1>12. OneInstancePerRow'
    <2>1. \A p \in DOMAIN ins : ins[p].key # r
      BY <1>1 DEF OwnershipInv, StartsFirst
    <2> QED  BY <1>4, <1>5, <2>1 DEF OwnershipInv, OneInstancePerRow
  <1>13. PidIsOwn'
    BY <1>1, <1>5 DEF OwnershipInv, PidIsOwn
  <1> QED  BY <1>8, <1>9, <1>10, <1>11, <1>12, <1>13 DEF OwnershipInv

\* startWorkflow's last write, from an object that names its own instance.
LEMMA SaveInstanceIdOwnership ==
  ASSUME OwnershipInv, NEW q \in Thread, SaveInstanceId(q)
  PROVE  OwnershipInv'
  <1>1. /\ TypeOK
        /\ UNCHANGED <<ins, deployed>>
        /\ vac' = Update(request[q].row, request[q].apply)
        /\ late' \in {late, late \cup {request[q].row}}
        /\ Return(q)
    BY DEF SaveInstanceId, WriteStarted, OwnershipInv
  <1>2. request[q].row # Null /\ request[q].apply # Null
    BY DEF SaveInstanceId, At, OwnershipInv, Grounded
  <1>3. request[q].row \in Nat /\ request[q].apply \in Row
    BY <1>1, <1>2 DEF TypeOK, Request
  <1>4. SameOwners /\ PidsStayOwn
    BY <1>1, <1>2, <1>3, RowWritten
  <1>5. SameInstances
    BY <1>1, InstancesUnchanged
  <1>6. deployed' \in Seq(BOOLEAN) /\ late' \subseteq Nat
    BY <1>1, <1>3 DEF TypeOK
  <1> QED  BY <1>1, <1>4, <1>5, <1>6, Returning

\* The task of an instance, as a thread holds it.
LEMMA OpenTaskType ==
  ASSUME TypeOK, NEW p \in DOMAIN ins
  PROVE  /\ OpenTask(p) \in TaskId
         /\ OpenTask(p) # Null
         /\ OpenTask(p).pid = p
  <1>1. p \in Nat /\ ins[p].task \in Nat
    BY InstanceType DEF Instance
  <1>2. OpenTask(p) \in TaskId /\ OpenTask(p).pid = p
    BY <1>1 DEF OpenTask, TaskId
  <1> QED  BY <1>2, NullAssumption

LEMMA ClaimOwnership ==
  ASSUME OwnershipInv, NEW q \in Thread, NEW p \in DOMAIN ins,
         NEW endpoint \in AuditEndpoint, Claim(q, p, endpoint)
  PROVE  OwnershipInv'
  <1> DEFINE x == [pc |-> endpoint, task |-> OpenTask(p), row |-> Null, apply |-> Null]
             i == [ins[p] EXCEPT !.assignee = Null]
  <1>1. /\ TypeOK
        /\ UNCHANGED <<vac, deployed, late>>
        /\ ins' = [ins EXCEPT ![p] = i]
        /\ Becomes(q, x)
    BY DEF Claim, Becomes, OwnershipInv
  <1>2. i \in Instance /\ i.key = ins[p].key /\ i.user = ins[p].user
    <2>1. \A j \in Instance : /\ [j EXCEPT !.assignee = Null] \in Instance
                              /\ [j EXCEPT !.assignee = Null].key = j.key
                              /\ [j EXCEPT !.assignee = Null].user = j.user
      BY DEF Instance
    <2> QED  BY <1>1, <2>1, InstanceType
  <1>3. SameInstances
    BY <1>1, <1>2, OneInstanceChanges
  <1>4. x \in Request
    BY <1>1, OpenTaskType DEF Request, PC
  <1>5. Grounded(x) /\ x.pc # "startProcess"
    BY <1>1, OpenTaskType DEF Grounded, RowHandling, AuditEndpoint
  <1> HIDE DEF x
  <1> QED  BY <1>1, <1>3, <1>4, <1>5, Frame, RowsUnchanged, AdminUnchanged

\* A thread that has a task, and completes it.
LEMMA CompleteOwnership ==
  ASSUME OwnershipInv, NEW q \in Thread, request[q].task # Null,
         NEW answers \in [Variable -> Answer], Attempt(request[q].task, answers)
  PROVE  SameInstances
  <1>1. TypeOK /\ request[q].task \in TaskId
    BY DEF OwnershipInv, TypeOK, Request
  <1> QED  BY <1>1, AttemptKeepsInstances

\* The variables an instance has are variables.
LEMMA AnswersType ==
  ASSUME OwnershipInv, NEW q \in Thread, request[q].task # Null
  PROVE  ins[request[q].task.pid].answers \in [Variable -> Answer]
  <1>1. TypeOK /\ request[q].task.pid \in DOMAIN ins
    BY DEF OwnershipInv, Grounded
  <1> QED  BY <1>1, InstanceType DEF Instance

LEMMA CompleteAuditOwnership ==
  ASSUME OwnershipInv, NEW q \in Thread, NEW answer \in Answer,
         CompleteAudit(q, answer)
  PROVE  OwnershipInv'
  <1>1. /\ TypeOK
        /\ UNCHANGED <<vac, deployed, late>>
        /\ Attempt(request[q].task, AuditAnswers(q, answer))
        /\ Return(q)
    BY DEF CompleteAudit, OwnershipInv
  <1>2. request[q].task # Null
    BY DEF CompleteAudit, OwnershipInv, Grounded
  <1>3. AuditAnswers(q, answer) \in [Variable -> Answer]
    BY <1>2, AnswersType DEF AuditAnswers
  <1>4. SameInstances
    BY <1>1, <1>2, <1>3, CompleteOwnership
  <1> QED  BY <1>1, <1>4, Returning, RowsUnchanged, AdminUnchanged

LEMMA FindTaskOwnership ==
  ASSUME OwnershipInv, NEW q \in Thread, NEW p \in DOMAIN ins, FindTask(q, p)
  PROVE  OwnershipInv'
  <1> DEFINE x == [pc |-> "getRow", task |-> OpenTask(p), row |-> ins[p].key, apply |-> Null]
  <1>1. /\ TypeOK
        /\ UNCHANGED <<vac, ins, deployed, late>>
        /\ Becomes(q, x)
    BY DEF FindTask, Becomes, OwnershipInv
  <1>2. ins[p].key \in DOMAIN vac /\ ins[p].key \in Nat
    BY <1>1 DEF OwnershipInv, InstanceHasRow, TypeOK, Instance
  <1>3. x \in Request
    BY <1>1, <1>2, OpenTaskType DEF Request, PC
  <1>4. Grounded(x) /\ x.pc # "startProcess"
    BY <1>1, <1>2, OpenTaskType, NullAssumption DEF Grounded, RowHandling, AuditEndpoint
  <1> HIDE DEF x
  <1> QED
    BY <1>1, <1>3, <1>4, Frame, RowsUnchanged, InstancesUnchanged, AdminUnchanged

\* What get returns names the instance of its row or none.
LEMMA CopyIsOwn ==
  ASSUME OwnershipInv, NEW r \in DOMAIN vac
  PROVE  /\ Get(r) \in Row
         /\ Get(r) # Null
         /\ Get(r).pid # Null => /\ Get(r).pid \in DOMAIN ins
                                 /\ ins[Get(r).pid].key = r
  <1>1. Get(r) \in Row /\ Get(r).pid = vac[r].pid
    BY GetType DEF OwnershipInv
  <1> QED  BY <1>1, NullAssumption DEF OwnershipInv, PidIsOwn

LEMMA GetRowOwnership ==
  ASSUME OwnershipInv, NEW q \in Thread, GetRow(q)
  PROVE  OwnershipInv'
  <1> DEFINE r == request[q].row
             x == [request[q] EXCEPT !.pc = "updateReality", !.apply = Get(r)]
  <1>1. /\ TypeOK
        /\ UNCHANGED <<vac, ins, deployed, late>>
        /\ Becomes(q, x)
        /\ request[q].pc = "getRow"
        /\ request[q] \in Request
        /\ Grounded(request[q])
    BY DEF GetRow, GoOn, Becomes, At, OwnershipInv, TypeOK
  <1>2. r # Null /\ r \in DOMAIN vac /\ request[q].task # Null
    BY <1>1 DEF Grounded, RowHandling
  <1>3. Get(r) \in Row /\ Get(r) # Null
    BY <1>2, CopyIsOwn
  <1>4. /\ x.pc = "updateReality" /\ x.task = request[q].task
        /\ x.row = r /\ x.apply = Get(r)
    BY <1>1 DEF Request
  <1>5. x \in Request
    BY <1>1, <1>3 DEF Request, PC
  <1> HIDE DEF x
  <1>6. Grounded(x) /\ x.pc # "startProcess"
    BY <1>1, <1>2, <1>3, <1>4, CopyIsOwn DEF Grounded, RowHandling, AuditEndpoint
  <1> QED
    BY <1>1, <1>5, <1>6, Frame, RowsUnchanged, InstancesUnchanged, AdminUnchanged

LEMMA UpdateRealityOwnership ==
  ASSUME OwnershipInv, NEW q \in Thread, NEW time \in Time \cup {Null}, UpdateReality(q, time)
  PROVE  OwnershipInv'
  <1> DEFINE a == [request[q].apply EXCEPT !.reality = time]
             x == [request[q] EXCEPT !.pc = "completeReportBack",
                                     !.apply = request[q].apply]
  <1>1. /\ TypeOK
        /\ UNCHANGED <<ins, deployed, late>>
        /\ vac' = Update(request[q].row, a)
        /\ Becomes(q, x)
        /\ request[q].pc = "updateReality"
        /\ request[q] \in Request
        /\ Grounded(request[q])
    BY DEF UpdateReality, GoOn, Becomes, At, OwnershipInv, TypeOK
  <1>2. request[q].row # Null /\ request[q].apply # Null /\ request[q].task # Null
    BY <1>1 DEF Grounded, RowHandling
  <1>3. a \in Row /\ a.pid = request[q].apply.pid
    BY <1>1, <1>2 DEF Request, Row
  <1>4. SameOwners /\ PidsStayOwn
    BY <1>1, <1>2, <1>3, RowWritten
  <1>5. /\ x.pc = "completeReportBack" /\ x.task = request[q].task
        /\ x.row = request[q].row /\ x.apply = request[q].apply
        /\ x \in Request
    BY <1>1 DEF Request, PC
  <1> HIDE DEF x
  <1>6. Grounded(x) /\ x.pc # "startProcess"
    BY <1>1, <1>2, <1>5 DEF Grounded, RowHandling, AuditEndpoint
  <1> QED  BY <1>1, <1>4, <1>5, <1>6, Frame, InstancesUnchanged, AdminUnchanged

LEMMA CompleteReportBackOwnership ==
  ASSUME OwnershipInv, NEW q \in Thread, CompleteReportBack(q)
  PROVE  OwnershipInv'
  <1>1. /\ TypeOK
        /\ UNCHANGED <<vac, deployed, late>>
        /\ Attempt(request[q].task, ins[request[q].task.pid].answers)
        /\ Return(q)
    BY DEF CompleteReportBack, OwnershipInv
  <1>2. request[q].task # Null
    BY DEF CompleteReportBack, At, OwnershipInv, Grounded, RowHandling
  <1>3. SameInstances
    BY <1>1, <1>2, AnswersType, CompleteOwnership
  <1> QED  BY <1>1, <1>3, Returning, RowsUnchanged, AdminUnchanged

LEMMA ReadSnapshotOwnership ==
  ASSUME OwnershipInv, NEW q \in Thread, NEW p \in DOMAIN ins, ReadSnapshot(q, p)
  PROVE  OwnershipInv'
  <1> DEFINE r == ins[p].key
             x == [pc |-> "updateComplete", task |-> OpenTask(p), row |-> r,
                   apply |-> Get(r)]
  <1>1. /\ TypeOK
        /\ UNCHANGED <<vac, ins, deployed, late>>
        /\ Becomes(q, x)
    BY DEF ReadSnapshot, Becomes, OwnershipInv
  <1>2. r \in DOMAIN vac /\ r \in Nat /\ r # Null
    BY <1>1, NullAssumption DEF OwnershipInv, InstanceHasRow, TypeOK, Instance
  <1>3. Get(r) \in Row /\ Get(r) # Null
    BY <1>2, CopyIsOwn
  <1>4. x \in Request
    BY <1>1, <1>2, <1>3, OpenTaskType DEF Request, PC
  <1>5. /\ x.pc = "updateComplete" /\ x.task = OpenTask(p)
        /\ x.row = r /\ x.apply = Get(r)
    OBVIOUS
  <1> HIDE DEF x, r
  <1>6. Grounded(x) /\ x.pc # "startProcess"
    BY <1>1, <1>2, <1>3, <1>5, OpenTaskType, CopyIsOwn
    DEF Grounded, RowHandling, AuditEndpoint
  <1> QED
    BY <1>1, <1>4, <1>6, Frame, RowsUnchanged, InstancesUnchanged, AdminUnchanged

LEMMA UpdateCompleteOwnership ==
  ASSUME OwnershipInv, NEW q \in Thread, NEW f \in Form, NEW answer \in Answer,
         UpdateComplete(q, f, answer)
  PROVE  OwnershipInv'
  <1> DEFINE t == request[q].task
             a == Modified(request[q].apply, f)
             answers == [ins[t.pid].answers EXCEPT !["reapply"] = answer]
  <1>1. /\ TypeOK
        /\ UNCHANGED <<deployed, late>>
        /\ Attempt(t, answers)
        /\ vac' = vac \/ vac' = Update(request[q].row, a)
        /\ Return(q)
    BY DEF UpdateComplete, Attempt, OwnershipInv
  <1>2. /\ t # Null /\ request[q].row # Null /\ request[q].apply # Null
        /\ request[q] \in Request
    BY DEF UpdateComplete, At, OwnershipInv, Grounded, RowHandling, TypeOK
  <1>3. answers \in [Variable -> Answer]
    BY <1>2, AnswersType
  <1>4. SameInstances
    BY <1>1, <1>2, <1>3, CompleteOwnership
  <1>5. a \in Row /\ a.pid = request[q].apply.pid
    BY <1>2, FormAssumption DEF Modified, Request, Row
  <1>6. SameOwners /\ PidsStayOwn
    BY <1>1, <1>2, <1>5, RowWritten, RowsUnchanged
  <1> QED  BY <1>1, <1>4, <1>6, Returning, AdminUnchanged

LEMMA FailOwnership ==
  ASSUME OwnershipInv, NEW q \in Thread, Fail(q) \/ StartRefused(q)
  PROVE  OwnershipInv'
  <1>1. TypeOK /\ UNCHANGED <<vac, ins, deployed, late>> /\ Return(q)
    BY DEF Fail, StartRefused, OwnershipInv
  <1> QED  BY <1>1, Returning, RowsUnchanged, InstancesUnchanged, AdminUnchanged

LEMMA DeployOwnership ==
  ASSUME OwnershipInv, Deploy
  PROVE  OwnershipInv'
  <1>1. /\ TypeOK
        /\ UNCHANGED <<vac, ins, request, late>>
        /\ deployed' \in Seq(BOOLEAN)
    BY Appended DEF Deploy, OwnershipInv, TypeOK
  <1>2. TypeOK'
    BY <1>1 DEF TypeOK
  <1> QED
    BY <1>1, <1>2
    DEF OwnershipInv, Grounded, StartsFirst, InstanceHasRow, OneInstancePerRow, PidIsOwn

\* deleteDeploy changes many instances and no key; the rows stay.
LEMMA DeleteDeployOwnership ==
  ASSUME OwnershipInv, NEW d \in DOMAIN deployed, DeleteDeploy(d)
  PROVE  OwnershipInv'
  <1>1. /\ TypeOK
        /\ UNCHANGED <<vac, request, late>>
        /\ deployed' = [deployed EXCEPT ![d] = FALSE]
        /\ ins' = [p \in DOMAIN ins |->
                     IF ins[p].deployment = d THEN Deleted(ins[p]) ELSE ins[p]]
    BY DEF DeleteDeploy, OwnershipInv
  <1>2. \A i \in Instance : /\ Deleted(i) \in Instance
                            /\ Deleted(i).key = i.key
                            /\ Deleted(i).user = i.user
    BY DEF Deleted, Instance, Node
  <1>3. \A p \in DOMAIN ins : /\ ins'[p] \in Instance
                              /\ ins'[p].key = ins[p].key
                              /\ ins'[p].user = ins[p].user
    BY <1>1, <1>2, InstanceType
  <1>4. ins' \in Seq(Instance) /\ DOMAIN ins' = DOMAIN ins
    <2>1. ins' \in [DOMAIN ins -> Instance] /\ ins \in Seq(Instance)
      BY <1>1, <1>3 DEF TypeOK
    <2> QED  BY <2>1, Mapped
  <1>5. deployed' \in Seq(BOOLEAN)
    BY <1>1, Replaced DEF TypeOK
  <1>6. TypeOK'
    BY <1>1, <1>4, <1>5 DEF TypeOK
  <1>7. \A q \in Thread : Grounded(request[q])'
    <2>1. TAKE q \in Thread
    <2>2. Grounded(request[q])
      BY DEF OwnershipInv
    <2> QED  BY <1>1, <1>3, <1>4, <2>2 DEF Grounded
  <1>8. StartsFirst'
    BY <1>1, <1>3, <1>4 DEF OwnershipInv, StartsFirst
  <1>9. InstanceHasRow' /\ OneInstancePerRow' /\ PidIsOwn'
    BY <1>1, <1>3, <1>4 DEF OwnershipInv, InstanceHasRow, OneInstancePerRow, PidIsOwn
  <1> QED  BY <1>6, <1>7, <1>8, <1>9 DEF OwnershipInv

(***************************************************************************)
(* The theorems.                                                           *)
(***************************************************************************)

LEMMA NextOwnership == OwnershipInv /\ [Next]_vars => OwnershipInv'
  <1> SUFFICES ASSUME OwnershipInv, [Next]_vars PROVE OwnershipInv'
    OBVIOUS
  <1>1. ASSUME NEW q \in Thread, Arrival(q)  PROVE OwnershipInv'
    BY <1>1, SaveApplyOwnership, ClaimOwnership, FindTaskOwnership, ReadSnapshotOwnership
    DEF Arrival
  <1>2. ASSUME NEW q \in Thread, Step(q)  PROVE OwnershipInv'
    BY <1>2, StartProcessOwnership, FailOwnership, SaveInstanceIdOwnership,
       CompleteAuditOwnership, GetRowOwnership, UpdateRealityOwnership,
       CompleteReportBackOwnership, UpdateCompleteOwnership
    DEF Step
  <1>3. ASSUME NEW q \in Thread, Fail(q)  PROVE OwnershipInv'
    BY <1>3, FailOwnership
  <1>4. CASE Admin
    BY <1>4, DeployOwnership, DeleteDeployOwnership DEF Admin
  <1>5. CASE UNCHANGED vars
    BY <1>5
    DEF vars, OwnershipInv, TypeOK, Grounded, StartsFirst, InstanceHasRow,
        OneInstancePerRow, PidIsOwn
  <1> QED  BY <1>1, <1>2, <1>3, <1>4, <1>5 DEF Next

\* The inductive invariant holds in every reachable state: whatever a thread
\* remembers of a row, a task or an instance agrees with the table and the
\* engine, however the statements of the handlers interleave or fail.
THEOREM Ownership == Spec => []OwnershipInv
  <1>1. Init => OwnershipInv
    BY InitOwnership
  <1>2. OwnershipInv /\ [Next]_vars => OwnershipInv'
    BY NextOwnership
  <1> QED  BY <1>1, <1>2, PTL DEF Spec

\* Table, engine and locals keep their types.
THEOREM TypeCorrect == Spec => []TypeOK
  <1>1. OwnershipInv => TypeOK
    BY DEF OwnershipInv
  <1> QED  BY <1>1, Ownership, PTL

\* The process instance of every task belongs to an existing row of the same
\* applicant (startWorkflow saves before it starts).
THEOREM InstancesHaveRows == Spec => []InstanceHasRow
  <1>1. OwnershipInv => InstanceHasRow
    BY DEF OwnershipInv
  <1> QED  BY <1>1, Ownership, PTL

\* At most one process is started for an application.
THEOREM RowsHaveOneInstance == Spec => []OneInstancePerRow
  <1>1. OwnershipInv => OneInstancePerRow
    BY DEF OwnershipInv
  <1> QED  BY <1>1, Ownership, PTL

\* No stale object ever links a row to another application's instance.
THEOREM PidsAreOwn == Spec => []PidIsOwn
  <1>1. OwnershipInv => PidIsOwn
    BY DEF OwnershipInv
  <1> QED  BY <1>1, Ownership, PTL

\* What a step does with the task of instance p: it leaves it alone, takes the
\* instance elsewhere, assigns it to the applicant, or claims it.
Keeps(p) ==
  ins'[p].node \in ApplicantTask =>
    \/ Held(p)'
    \/ OpenTask(p)' = OpenTask(p) /\ (~Held(p) \/ Claimed(p)')

KeepsAll == \A p \in DOMAIN ins : Keeps(p)

LEMMA SameTaskKeeps ==
  ASSUME NEW p \in DOMAIN ins, ins'[p] = ins[p]
  PROVE  Keeps(p)
  BY DEF Keeps, Held, OpenTask

\* A completion assigns the tasks of the applicant to the applicant.
LEMMA AttemptKeeps ==
  ASSUME TypeOK, NEW t, NEW answers, Attempt(t, answers)
  PROVE  KeepsAll
  <1> SUFFICES ASSUME NEW p \in DOMAIN ins PROVE Keeps(p)
    BY DEF KeepsAll
  <1>1. CASE UNCHANGED ins
    BY <1>1, SameTaskKeeps
  <1>2. ASSUME NEW to, ins' = [ins EXCEPT ![t.pid] = Arrive(ins[t.pid], answers, to)]
        PROVE  Keeps(p)
    <2>1. CASE p # t.pid
      BY <1>2, <2>1, SameTaskKeeps DEF TypeOK
    <2>2. CASE p = t.pid
      <3>1. ins[p] \in Instance /\ ins'[p] = Arrive(ins[p], answers, to)
        BY <1>2, <2>2 DEF TypeOK
      <3>2. /\ ins'[p].node = to /\ ins'[p].user = ins[p].user
            /\ to \in ApplicantTask => ins'[p].assignee = ins[p].user
        BY <3>1 DEF Arrive, Instance
      <3> QED  BY <3>2 DEF Keeps, Held
    <2> QED  BY <2>1, <2>2
  <1> QED  BY <1>1, <1>2 DEF Attempt, Complete

\* A claim is the claim of the open task.
LEMMA ClaimKeeps ==
  ASSUME TypeOK, NEW q \in Thread, NEW p \in DOMAIN ins, NEW endpoint \in AuditEndpoint,
         Claim(q, p, endpoint)
  PROVE  KeepsAll
  <1>1. /\ ins' = [ins EXCEPT ![p].assignee = Null] /\ ins[p] \in Instance
        /\ request'[q].pc = endpoint /\ request'[q].task = OpenTask(p)
    BY DEF Claim, TypeOK
  <1>2. \A o \in DOMAIN ins : o # p => ins'[o] = ins[o]
    BY <1>1 DEF TypeOK
  <1>3. OpenTask(p)' = OpenTask(p)
    BY <1>1 DEF OpenTask, TypeOK, Instance
  <1>4. Keeps(p)
    BY <1>1, <1>3 DEF Keeps, Claimed
  <1> QED  BY <1>2, <1>4, SameTaskKeeps DEF KeepsAll

LEMMA StepKeeps ==
  ASSUME TypeOK, Next
  PROVE  KeepsAll
  <1>1. ASSUME NEW q \in Thread, Arrival(q)  PROVE KeepsAll
    <2>1. CASE UNCHANGED ins
      BY <2>1, SameTaskKeeps DEF KeepsAll
    <2> QED
      BY <1>1, <2>1, ClaimKeeps DEF Arrival, SaveApply, FindTask, ReadSnapshot
  <1>2. ASSUME NEW q \in Thread, Step(q)  PROVE KeepsAll
    <2>1. CASE StartProcess(q)
      <3>1. PICK i : ins' = Append(ins, i)
        BY <2>1 DEF StartProcess, StartProcessByKey
      <3>2. \A p \in DOMAIN ins : ins'[p] = ins[p]
        BY <3>1 DEF TypeOK
      <3> QED  BY <3>2, SameTaskKeeps DEF KeepsAll
    <2>2. ASSUME NEW answer \in Answer, CompleteAudit(q, answer)  PROVE KeepsAll
      BY <2>2, AttemptKeeps DEF CompleteAudit
    <2>3. CASE CompleteReportBack(q)
      BY <2>3, AttemptKeeps DEF CompleteReportBack
    <2>4. ASSUME NEW f \in Form, NEW answer \in Answer, UpdateComplete(q, f, answer)
          PROVE  KeepsAll
      <3> DEFINE answers == [ins[request[q].task.pid].answers EXCEPT !["reapply"] = answer]
      <3>1. Attempt(request[q].task, answers)
        BY <2>4 DEF UpdateComplete, Attempt
      <3> QED  BY <3>1, AttemptKeeps
    <2>5. CASE UNCHANGED ins
      BY <2>5, SameTaskKeeps DEF KeepsAll
    <2> QED
      BY <1>2, <2>1, <2>2, <2>3, <2>4, <2>5
      DEF Step, StartRefused, SaveInstanceId, GetRow, UpdateReality
  <1>3. ASSUME NEW q \in Thread, Fail(q)  PROVE KeepsAll
    BY <1>3, SameTaskKeeps DEF Fail, KeepsAll
  <1>4. ASSUME NEW d \in DOMAIN deployed, DeleteDeploy(d)  PROVE KeepsAll
    <2> SUFFICES ASSUME NEW p \in DOMAIN ins PROVE Keeps(p)
      BY DEF KeepsAll
    <2>1. CASE ins[p].deployment = d
      <3>1. ins'[p] = Deleted(ins[p]) /\ ins[p] \in Instance
        BY <1>4, <2>1 DEF DeleteDeploy, TypeOK
      <3>2. ins'[p].node = "deleted"
        BY <3>1 DEF Deleted, Instance
      <3> QED  BY <3>2 DEF Keeps, ApplicantTask
    <2>2. CASE ins[p].deployment # d
      BY <1>4, <2>2, SameTaskKeeps DEF DeleteDeploy
    <2> QED  BY <2>1, <2>2
  <1>5. CASE Deploy
    BY <1>5, SameTaskKeeps DEF Deploy, KeepsAll
  <1> QED  BY <1>1, <1>2, <1>3, <1>4, <1>5 DEF Next, Admin

\* Wherever requests are sent, the applicant's tasks come assigned to the
\* applicant in every round, and only a claim of this very task loses one.
THEOREM TasksHeldUntilClaimed == Spec => HeldUntilClaimed
  <1>1. TypeOK /\ [Next]_vars => [KeepsAll]_vars
    BY StepKeeps
  <1>2. [KeepsAll]_vars =>
          [\A p \in DOMAIN ins :
             ins'[p].node \in ApplicantTask =>
               \/ Held(p)'
               \/ OpenTask(p)' = OpenTask(p) /\ (~Held(p) \/ Claimed(p)')]_vars
    BY DEF KeepsAll, Keeps
  <1> QED  BY <1>1, <1>2, TypeCorrect, PTL DEF Spec, HeldUntilClaimed

(***************************************************************************)
(* The leave service implements LeaveFlow: threads, failures, deletions of *)
(* deployments and misrouted tasks included.                               *)
(***************************************************************************)

Stages == [r \in 1 .. MaxRow |-> StageOf(r)]

(***************************************************************************)
(* The stage of an application.                                            *)
(***************************************************************************)

\* An application with an instance is where the instance is.
StagesAreNodes == \A p \in DOMAIN ins : StageOf(ins[p].key) = ins[p].node

LEMMA StageOfInstance == OneInstancePerRow => StagesAreNodes
<1> SUFFICES ASSUME OneInstancePerRow, NEW p \in DOMAIN ins
             PROVE  StageOf(ins[p].key) = ins[p].node
  BY DEF StagesAreNodes
<1> DEFINE r == ins[p].key
           c == CHOOSE o \in DOMAIN ins : ins[o].key = r
<1>1. c \in DOMAIN ins /\ ins[c].key = r
  OBVIOUS
<1>2. c = p
  BY <1>1 DEF OneInstancePerRow
<1> QED  BY <1>2 DEF StageOf

\* One without an instance is where its row is.
LEMMA StageOfRow ==
  ASSUME NEW r, \A p \in DOMAIN ins : ins[p].key # r
  PROVE  StageOf(r) = IF r \in DOMAIN vac THEN "submitted" ELSE "none"
BY DEF StageOf

\* Where neither the row nor the instance of an application changes, its stage
\* does not.
LEMMA StageKept ==
  ASSUME OneInstancePerRow, OneInstancePerRow', NEW r,
         r \in DOMAIN vac <=> r \in DOMAIN vac',
         DOMAIN ins' = DOMAIN ins,
         \A p \in DOMAIN ins : ins'[p].key = ins[p].key,
         \A p \in DOMAIN ins : ins[p].key = r => ins'[p].node = ins[p].node
  PROVE  StageOf(r)' = StageOf(r)
<1>1. CASE \E p \in DOMAIN ins : ins[p].key = r
  <2>1. PICK p \in DOMAIN ins : ins[p].key = r
    BY <1>1
  <2>2. StageOf(r) = ins[p].node
    BY <2>1, StageOfInstance DEF StagesAreNodes
  <2>3. StagesAreNodes'
    BY StageOfInstance, PTL
  <2>4. StageOf(r)' = ins'[p].node
    BY <2>1, <2>3 DEF StagesAreNodes
  <2> QED  BY <2>1, <2>2, <2>4
<1>2. CASE \A p \in DOMAIN ins : ins[p].key # r
  <2>1. StageOf(r) = IF r \in DOMAIN vac THEN "submitted" ELSE "none"
    BY <1>2, StageOfRow
  <2>2. StageOf(r)' = IF r \in DOMAIN vac' THEN "submitted" ELSE "none"
    BY <1>2 DEF StageOf
  <2> QED  BY <2>1, <2>2
<1> QED  BY <1>1, <1>2

\* The completion of a task takes one of the flows.
LEMMA TakesFlow ==
  ASSUME NEW node, NEW answers, NEW to, Takes(node, answers, to)
  PROVE  <<node, to>> \in Flow!Flows
BY DEF Takes, Gateway1, Gateway2, Gateway3, Gateway, Flow!Flows

(***************************************************************************)
(* The steps.                                                              *)
(***************************************************************************)

FlowStep == [Flow!Next]_Stages

\* Both states are ones in which rows and instances belong together.
Owned == OwnershipInv /\ OwnershipInv'

LEMMA OwnedFacts ==
  ASSUME Owned
  PROVE  /\ TypeOK /\ OneInstancePerRow /\ OneInstancePerRow'
         /\ StagesAreNodes /\ StagesAreNodes'
         /\ \A p \in DOMAIN ins : ins[p] \in Instance /\ ins[p].key \in DOMAIN vac
         /\ \A q \in Thread : request[q] \in Request /\ Grounded(request[q])
<1>1. StagesAreNodes'
  BY StageOfInstance, PTL DEF Owned, OwnershipInv
<1> QED  BY <1>1, StageOfInstance, InstanceType
         DEF Owned, OwnershipInv, InstanceHasRow, TypeOK

\* What moves no row and no instance is a stutter.
LEMMA Stutter ==
  ASSUME Owned, DOMAIN vac' = DOMAIN vac, DOMAIN ins' = DOMAIN ins,
         \A p \in DOMAIN ins : ins'[p].key = ins[p].key /\ ins'[p].node = ins[p].node
  PROVE  FlowStep
<1>1. \A r \in 1 .. MaxRow : StageOf(r)' = StageOf(r)
  BY OwnedFacts, StageKept
<1>2. Stages' = Stages
  BY <1>1 DEF Stages
<1> QED  BY <1>2 DEF FlowStep

\* One application moves.
LEMMA OneMoves ==
  ASSUME NEW r \in 1 .. MaxRow, NEW to,
         StageOf(r)' = to,
         \A a \in 1 .. MaxRow : a # r => StageOf(a)' = StageOf(a)
  PROVE  Stages' = [Stages EXCEPT ![r] = to]
BY DEF Stages

\* startWorkflow's first write submits an application...
LEMMA SaveApplyFlow ==
  ASSUME Owned, NEW q \in Thread, NEW u \in User, NEW f \in Form, SaveApply(q, u, f)
  PROVE  FlowStep
<1> DEFINE r == Len(vac) + 1
<1>1. TypeOK /\ vac' = Append(vac, Submitted(u, f)) /\ UNCHANGED ins /\ Len(vac) < MaxRow
  BY OwnedFacts DEF SaveApply
<1>2. r \in 1 .. MaxRow
  BY <1>1, BoundsAssumption DEF TypeOK
<1>3. DOMAIN vac' = DOMAIN vac \cup {r} /\ r \notin DOMAIN vac
  BY <1>1 DEF TypeOK
<1>4. \A p \in DOMAIN ins : ins[p].key # r
  BY <1>3, OwnedFacts
<1>5. StageOf(r) = "none"
  BY <1>3, <1>4, StageOfRow
<1> HIDE DEF r
<1>6. \A a \in 1 .. MaxRow : StageOf(a)' = IF a = r THEN "submitted" ELSE StageOf(a)
  BY <1>1, <1>3, <1>4 DEF StageOf
<1>7. Stages' = [Stages EXCEPT ![r] = "submitted"] /\ Stages[r] = "none"
  BY <1>2, <1>5, <1>6 DEF Stages
<1>8. Flow!Submit(r)
  BY <1>7 DEF Flow!Submit, Stages
<1> QED  BY <1>2, <1>8 DEF FlowStep, Flow!Next

\* ... and the start of its process starts it.
LEMMA StartProcessFlow ==
  ASSUME Owned, NEW q \in Thread, StartProcess(q)
  PROVE  FlowStep
<1> DEFINE r == request[q].row
           n == Len(ins) + 1
<1>1. TypeOK /\ UNCHANGED vac /\ request[q].pc = "startProcess" /\ r \in DOMAIN vac
  BY OwnedFacts DEF StartProcess, At, Grounded
<1>2. PICK i : ins' = Append(ins, i) /\ i.key = r /\ i.node = "deptleaderaudit"
  BY DEF StartProcess, StartProcessByKey, NewInstance
<1>3. /\ DOMAIN ins' = DOMAIN ins \cup {n} /\ n \notin DOMAIN ins
      /\ ins'[n] = i /\ \A p \in DOMAIN ins : ins'[p] = ins[p]
  BY <1>1, <1>2 DEF TypeOK
<1>4. \A p \in DOMAIN ins : ins[p].key # r
  BY <1>1 DEF Owned, OwnershipInv, StartsFirst
<1>5. StageOf(r) = "submitted"
  BY <1>1, <1>4, StageOfRow
<1>6. ins'[n].key = r /\ ins'[n].node = "deptleaderaudit" /\ n \in DOMAIN ins'
  BY <1>2, <1>3
<1> HIDE DEF n
<1>7. \E o \in DOMAIN ins' : /\ ins'[o].key = r
                             /\ (StageOf(ins[o].key))' = "deptleaderaudit"
  BY <1>6, OwnedFacts DEF StagesAreNodes
<1>8. ASSUME NEW a \in 1 .. MaxRow, a # r  PROVE StageOf(a)' = StageOf(a)
  <2>1. CASE \E p \in DOMAIN ins : ins[p].key = a
    <3>1. PICK p \in DOMAIN ins : ins[p].key = a
      BY <2>1
    <3>2. ins'[p] = ins[p] /\ p \in DOMAIN ins'
      BY <1>3
    <3>3. StageOf(a) = ins[p].node
      BY <3>1, OwnedFacts DEF StagesAreNodes
    <3>4. StageOf(a)' = ins'[p].node
      BY <3>1, <3>2, OwnedFacts DEF StagesAreNodes
    <3> QED  BY <3>2, <3>3, <3>4
  <2>2. CASE \A p \in DOMAIN ins : ins[p].key # a
    <3>1. \A p \in DOMAIN ins' : ins'[p].key # a
      BY <1>3, <1>6, <1>8, <2>2
    <3> QED  BY <1>1, <2>2, <3>1 DEF StageOf
  <2> QED  BY <2>1, <2>2
<1>9. CASE r \in 1 .. MaxRow
  <2>1. \A a \in 1 .. MaxRow : StageOf(a)' = IF a = r THEN "deptleaderaudit" ELSE StageOf(a)
    BY <1>7, <1>8
  <2>2. Stages' = [Stages EXCEPT ![r] = "deptleaderaudit"] /\ Stages[r] = "submitted"
    BY <1>5, <1>9, <2>1 DEF Stages
  <2>3. Flow!Start(r)
    BY <2>2 DEF Flow!Start, Stages
  <2> QED  BY <1>9, <2>3 DEF FlowStep, Flow!Next
<1>10. CASE r \notin 1 .. MaxRow
  <2>1. Stages' = Stages
    BY <1>8, <1>10 DEF Stages
  <2> QED  BY <2>1 DEF FlowStep
<1> QED  BY <1>9, <1>10

\* The completion of a task walks a flow; a refused one is a stutter.
LEMMA AttemptFlow ==
  ASSUME Owned, NEW t \in TaskId, NEW answers \in [Variable -> Answer], Attempt(t, answers),
         DOMAIN vac' = DOMAIN vac
  PROVE  FlowStep
<1>1. CASE UNCHANGED ins
  BY <1>1, Stutter
<1>2. ASSUME NEW to \in Node, Complete(t, answers, to)  PROVE FlowStep
  <2> DEFINE p == t.pid
             r == ins[p].key
  <2>1. /\ TypeOK /\ p \in DOMAIN ins /\ Takes(ins[p].node, answers, to)
        /\ ins' = [ins EXCEPT ![p] = Arrive(ins[p], answers, to)]
        /\ ins[p] \in Instance
    BY <1>2, OwnedFacts DEF Complete, Completes, Live
  <2>2. /\ DOMAIN ins' = DOMAIN ins
        /\ ins'[p].key = r /\ ins'[p].node = to
        /\ \A o \in DOMAIN ins : o # p => ins'[o] = ins[o]
    BY <2>1 DEF Arrive, Instance
  <2>3. StageOf(r) = ins[p].node /\ StageOf(ins[p].key)' = to
    BY <2>1, <2>2, OwnedFacts DEF StagesAreNodes
  <2>4. \A o \in DOMAIN ins : ins[o].key = r => o = p
    BY <2>1, OwnedFacts DEF OneInstancePerRow
  <2>5. ASSUME NEW a \in 1 .. MaxRow, a # r  PROVE StageOf(a)' = StageOf(a)
    BY <2>2, <2>5, OwnedFacts, StageKept
  <2>6. CASE r \in 1 .. MaxRow
    <3>1. \A a \in 1 .. MaxRow : StageOf(a)' = IF a = r THEN to ELSE StageOf(a)
      BY <2>2, <2>3, <2>5
    <3>2. Stages' = [Stages EXCEPT ![r] = to] /\ Stages[r] = ins[p].node
      BY <2>3, <2>6, <3>1 DEF Stages
    <3>3. Flow!Walk(r, to) /\ to \in Flow!Node
      BY <2>1, <3>2, TakesFlow DEF Flow!Walk, Stages, Flow!Node, Node, Flow!UserTask, UserTask
    <3> QED  BY <2>6, <3>3 DEF FlowStep, Flow!Next
  <2>7. CASE r \notin 1 .. MaxRow
    <3>1. Stages' = Stages
      BY <2>5, <2>7 DEF Stages
    <3> QED  BY <3>1 DEF FlowStep
  <2> QED  BY <2>6, <2>7
<1> QED  BY <1>1, <1>2 DEF Attempt

\* deleteDeploy deletes the applications whose instances go with it.
LEMMA DeleteDeployFlow ==
  ASSUME Owned, NEW d \in DOMAIN deployed, DeleteDeploy(d)
  PROVE  FlowStep
<1> DEFINE gone == {a \in 1 .. MaxRow : StageOf(a)' # StageOf(a)}
<1>1. /\ TypeOK /\ UNCHANGED vac /\ DOMAIN ins' = DOMAIN ins
      /\ \A p \in DOMAIN ins :
           ins'[p] = IF ins[p].deployment = d THEN Deleted(ins[p]) ELSE ins[p]
  BY OwnedFacts DEF DeleteDeploy
<1>2. ASSUME NEW p \in DOMAIN ins
      PROVE  /\ ins'[p].key = ins[p].key
             /\ \/ ins'[p].node = ins[p].node
                \/ ins'[p].node = "deleted" /\ ins[p].node \in UserTask \cup {"end"}
  <2>1. ins[p] \in Instance
    BY OwnedFacts
  <2> QED  BY <1>1, <2>1 DEF Deleted, Instance, Node
<1>3. ASSUME NEW a \in gone
      PROVE  StageOf(a) \in UserTask \cup {"end"} /\ StageOf(a)' = "deleted"
  <2>1. PICK p \in DOMAIN ins : ins[p].key = a /\ ins'[p].node # ins[p].node
    <3>1. SUFFICES ASSUME \A p \in DOMAIN ins : ins[p].key = a => ins'[p].node = ins[p].node
                   PROVE  StageOf(a)' = StageOf(a)
      OBVIOUS
    <3>2. \A p \in DOMAIN ins : ins'[p].key = ins[p].key
      BY <1>2
    <3> QED  BY <1>1, <3>1, <3>2, OwnedFacts, StageKept
  <2>2. StageOf(a) = ins[p].node
    BY <2>1, OwnedFacts DEF StagesAreNodes
  <2>3. StageOf(a)' = ins'[p].node
    BY <1>1, <1>2, <2>1, OwnedFacts DEF StagesAreNodes
  <2> QED  BY <1>2, <2>1, <2>2, <2>3
<1>4. \A a \in 1 .. MaxRow : StageOf(a)' = IF a \in gone THEN "deleted" ELSE StageOf(a)
  BY <1>3
<1> HIDE DEF gone
<1>5. gone \in SUBSET (1 .. MaxRow)
  BY DEF gone
<1>6. Stages' = [a \in 1 .. MaxRow |-> IF a \in gone THEN "deleted" ELSE Stages[a]]
  BY <1>4 DEF Stages
<1>7. \A a \in gone : Stages[a] \in Flow!UserTask \cup {"end"}
  BY <1>3, <1>5 DEF Stages, Flow!UserTask, UserTask
<1>8. Flow!Delete(gone)
  BY <1>6, <1>7 DEF Flow!Delete, Stages
<1> QED  BY <1>5, <1>8 DEF FlowStep, Flow!Next

LEMMA ThreadFlow ==
  ASSUME Owned, NEW q \in Thread, Arrival(q) \/ Step(q) \/ Fail(q)
  PROVE  FlowStep
<1> DEFINE y == request[q]
<1>1. TypeOK /\ y \in Request /\ Grounded(y) /\ OwnershipInv
  BY OwnedFacts DEF Owned
<1>2. CASE UNCHANGED <<vac, ins>>
  BY <1>2, Stutter
<1>3. ASSUME NEW p \in DOMAIN ins, NEW endpoint \in AuditEndpoint, Claim(q, p, endpoint)
      PROVE  FlowStep
  <2>1. UNCHANGED vac /\ ins' = [ins EXCEPT ![p].assignee = Null] /\ ins[p] \in Instance
    BY <1>3, OwnedFacts DEF Claim
  <2>2. DOMAIN ins' = DOMAIN ins
        /\ \A o \in DOMAIN ins : ins'[o].key = ins[o].key /\ ins'[o].node = ins[o].node
    BY <2>1, OwnedFacts DEF Instance
  <2> QED  BY <2>1, <2>2, Stutter
<1>4. CASE SaveInstanceId(q)
  <2>1. UNCHANGED ins /\ DOMAIN vac' = DOMAIN vac
    BY <1>1, <1>4 DEF SaveInstanceId, WriteStarted, Update, TypeOK
  <2> QED  BY <2>1, Stutter
<1>5. ASSUME NEW answer \in Answer, CompleteAudit(q, answer)  PROVE FlowStep
  <2>1. /\ UNCHANGED vac /\ Attempt(y.task, AuditAnswers(q, answer))
        /\ y.task # Null /\ y.task \in TaskId
    BY <1>1, <1>5 DEF CompleteAudit, Grounded, Request
  <2>2. AuditAnswers(q, answer) \in [Variable -> Answer]
    BY <1>1, <2>1, AnswersType DEF AuditAnswers
  <2> QED  BY <2>1, <2>2, AttemptFlow
<1>6. ASSUME NEW time \in Time \cup {Null}, UpdateReality(q, time)  PROVE FlowStep
  <2>1. UNCHANGED ins /\ DOMAIN vac' = DOMAIN vac
    BY <1>1, <1>6 DEF UpdateReality, Update, TypeOK
  <2> QED  BY <2>1, Stutter
<1>7. CASE CompleteReportBack(q)
  <2>1. /\ UNCHANGED vac /\ Attempt(y.task, ins[y.task.pid].answers)
        /\ y.task # Null /\ y.task \in TaskId
    BY <1>1, <1>7 DEF CompleteReportBack, At, Grounded, RowHandling, Request
  <2> QED  BY <1>1, <2>1, AnswersType, AttemptFlow
<1>8. ASSUME NEW f \in Form, NEW answer \in Answer, UpdateComplete(q, f, answer)
      PROVE  FlowStep
  <2> DEFINE answers == [ins[y.task.pid].answers EXCEPT !["reapply"] = answer]
  <2>1. /\ Attempt(y.task, answers) /\ y.task # Null /\ y.task \in TaskId
        /\ vac' = vac \/ vac' = Update(y.row, Modified(y.apply, f))
    BY <1>1, <1>8 DEF UpdateComplete, Attempt, At, Grounded, RowHandling, Request
  <2>2. answers \in [Variable -> Answer]
    BY <1>1, <2>1, AnswersType
  <2>3. DOMAIN vac' = DOMAIN vac
    BY <1>1, <2>1 DEF Update, TypeOK
  <2> QED  BY <2>1, <2>2, <2>3, AttemptFlow
<1>9. CASE GetRow(q) \/ StartRefused(q) \/ Fail(q) \/ \E p \in DOMAIN ins : FindTask(q, p) \/ ReadSnapshot(q, p)
  BY <1>2, <1>9 DEF GetRow, StartRefused, Fail, FindTask, ReadSnapshot
<1> QED
  BY <1>3, <1>4, <1>5, <1>6, <1>7, <1>8, <1>9, SaveApplyFlow, StartProcessFlow
  DEF Arrival, Step

(***************************************************************************)
(* The theorem.                                                            *)
(***************************************************************************)

\* However the threads interleave and wherever they fail, every application is
\* submitted, started at most once, and moved along the flows of leave.bpmn.
THEOREM ServiceImplementsFlow == Spec => ImplementsLeaveFlow
<1>1. Init => Flow!Init
  <2> SUFFICES ASSUME Init PROVE Flow!Init
    OBVIOUS
  <2>1. DOMAIN vac = {} /\ DOMAIN ins = {}
    BY DEF Init
  <2> QED  BY <2>1, StageOfRow DEF Flow!Init
<1>2. OwnershipInv /\ OwnershipInv' /\ [Next]_vars => FlowStep
  <2> SUFFICES ASSUME Owned, [Next]_vars PROVE FlowStep
    BY DEF Owned
  <2>1. CASE Deploy \/ UNCHANGED vars
    BY <2>1, Stutter DEF Deploy, vars
  <2> QED  BY <2>1, ThreadFlow, DeleteDeployFlow DEF Next, Admin
<1>3. OwnershipInv /\ OwnershipInv' /\ [Next]_vars
        => [Flow!Next]_[r \in 1 .. MaxRow |-> StageOf(r)]
  BY <1>2 DEF FlowStep, Stages
<1> QED  BY <1>1, <1>3, Ownership, PTL DEF Spec, ImplementsLeaveFlow, Flow!Spec

(***************************************************************************)
(* The contents of leave requests: that approvals stand, reported times    *)
(* are those of approved applications and changed by reports only, what was*)
(* approved does not change, the row names its instance (all of these where*)
(* every task is sent to the endpoint made for it), and no row mixes two   *)
(* forms.                                                                  *)
(***************************************************************************)

(***************************************************************************)
(* The inductive invariant.                                                *)
(***************************************************************************)

\* The task a thread holds: no later one, and if it is still open it is of the
\* kind the thread's endpoint is made for.
Awaited(pc) == CASE pc \in AuditEndpoint -> MadeFor[pc]
                 [] pc = "updateComplete" -> "modifyapply"
                 [] OTHER -> "reportback"

Routed(x) ==
  x.task # Null => /\ x.task.n <= ins[x.task.pid].task
                   /\ Live(x.task) => ins[x.task.pid].node = Awaited(x.pc)

\* An instance both departments approved, which waits for the report or is over.
Approved(p) ==
  /\ ins[p].node \in {"reportback", "end", "deleted"}
  /\ ins[p].answers["deptleaderapprove"] = "true"
  /\ ins[p].answers["hrapprove"] = "true"

\* A thread in completeReportBack is about an approved application; until it
\* writes, the object it read has the dates of the row, unless startWorkflow's
\* last write came late.
Reports(x) ==
  x.pc \in {"getRow", "updateReality", "completeReportBack"} =>
    /\ ins[x.task.pid].key = x.row
    /\ Approved(x.task.pid)
    /\ x.pc = "updateReality" /\ x.row \notin late => x.apply.dates = vac[x.row].dates

\* Whoever starts or modifies an application holds an object without times, and
\* who starts one holds no task.
Writes(x) ==
  /\ x.pc = "updateComplete" => ins[x.task.pid].key = x.row
  /\ x.pc \in {"startProcess", "saveInstanceId", "updateComplete"} => x.apply.reality = Null
  /\ x.pc \in {"startProcess", "saveInstanceId"} => x.task = Null

Fine(x) == Routed(x) /\ Reports(x) /\ Writes(x)

ApprovalInv ==
  /\ OwnershipInv
  /\ ApprovalsStand
  /\ ReportedWasApproved
  /\ \A q \in Thread : Fine(request[q])

(***************************************************************************)
(* What a step may do to an instance and to a row.                         *)
(***************************************************************************)

\* The variable that completing a task sets, and none for the report.
SetAt == [deptleaderaudit |-> "deptleaderapprove", hraudit |-> "hrapprove",
          modifyapply |-> "reapply", reportback |-> "none"]

\* Completed at its task, with the variable of that task.
Moves(p, answers, to) ==
  /\ Takes(ins[p].node, answers, to)
  /\ \A v \in Variable : v # SetAt[ins[p].node] => answers[v] = ins[p].answers[v]
  /\ ins'[p] = Arrive(ins[p], answers, to)

InstanceStep(p) ==
  \/ ins'[p] = ins[p]
  \/ ins'[p] = [ins[p] EXCEPT !.assignee = Null]
  \/ \E answers \in [Variable -> Answer], to \in Node : Moves(p, answers, to)
  \/ ins'[p] = Deleted(ins[p])

EngineStep ==
  /\ DOMAIN ins \subseteq DOMAIN ins'
  /\ \A p \in DOMAIN ins : InstanceStep(p)
  /\ \A p \in DOMAIN ins' \ DOMAIN ins : ins'[p].node = "deptleaderaudit"

\* Written by startWorkflow, by completeReportBack or by updateComplete.
Started(r) ==
  /\ vac'[r].reality = Null
  /\ r \in late' \/ \E p \in DOMAIN ins : /\ ins[p].key = r
                                          /\ ins[p].node = "deptleaderaudit"
                                          /\ ins'[p] = ins[p]
Reported(r) ==
  /\ \E q \in Thread : At(q, "updateReality") /\ At(q, "completeReportBack")'
                      /\ request[q].row = r
  /\ r \notin late => vac'[r].dates = vac[r].dates
  /\ \E p \in DOMAIN ins : ins[p].key = r /\ Approved(p) /\ ins'[p] = ins[p]
Reopened(r) ==
  /\ vac'[r].reality = Null
  /\ \E p \in DOMAIN ins : ins[p].key = r /\ ins[p].node = "modifyapply"
RowStep(r) == vac'[r] = vac[r] \/ Started(r) \/ Reported(r) \/ Reopened(r)

TableStep ==
  /\ late \subseteq late'
  /\ DOMAIN vac \subseteq DOMAIN vac'
  /\ \A r \in DOMAIN vac : RowStep(r)
  /\ \A r \in DOMAIN vac' \ DOMAIN vac : vac'[r].reality = Null

(***************************************************************************)
(* What such a step keeps.                                                 *)
(***************************************************************************)

LEMMA ApprovalFacts ==
  ASSUME ApprovalInv
  PROVE  /\ TypeOK
         /\ InstanceHasRow
         /\ OneInstancePerRow
         /\ \A p \in DOMAIN ins : ins[p] \in Instance /\ ins[p].key \in DOMAIN vac
         /\ \A q \in Thread : /\ request[q] \in Request
                              /\ Grounded(request[q])
                              /\ Fine(request[q])
BY InstanceType DEF ApprovalInv, OwnershipInv, InstanceHasRow, TypeOK

\* An instance keeps its key; its tasks are counted upwards, and one that is
\* still open is still the same.
Ages(p) ==
  /\ ins'[p].key = ins[p].key /\ ins'[p].user = ins[p].user
  /\ ins[p].task <= ins'[p].task
  /\ ins'[p].task = ins[p].task /\ ins'[p].node \in UserTask => ins'[p].node = ins[p].node

LEMMA Aging ==
  ASSUME ApprovalInv, NEW p \in DOMAIN ins, InstanceStep(p)
  PROVE  Ages(p)
<1>1. ins[p] \in Instance /\ ins[p].task \in Nat
  BY ApprovalFacts DEF Instance
<1>2. CASE ins'[p] = ins[p]
  BY <1>1, <1>2 DEF Ages
<1>3. CASE ins'[p] = [ins[p] EXCEPT !.assignee = Null]
  BY <1>1, <1>3 DEF Ages, Instance
<1>4. ASSUME NEW answers \in [Variable -> Answer], NEW to \in Node, Moves(p, answers, to)
      PROVE  Ages(p)
  <2>1. /\ ins'[p].key = ins[p].key /\ ins'[p].user = ins[p].user /\ ins'[p].node = to
        /\ ins'[p].task = IF to \in UserTask THEN ins[p].task + 1 ELSE ins[p].task
    BY <1>1, <1>4 DEF Moves, Arrive, Instance
  <2> QED  BY <1>1, <2>1 DEF Ages
<1>5. CASE ins'[p] = Deleted(ins[p])
  BY <1>1, <1>5 DEF Ages, Deleted, Instance, UserTask
<1> QED  BY <1>2, <1>3, <1>4, <1>5 DEF InstanceStep

\* The count stays a count.
LEMMA AgingType ==
  ASSUME ApprovalInv, NEW p \in DOMAIN ins, InstanceStep(p)
  PROVE  ins[p].task \in Nat /\ ins'[p].task \in Nat
<1>1. ins[p] \in Instance /\ ins[p].task \in Nat
  BY ApprovalFacts DEF Instance
<1>2. CASE ins'[p] = ins[p] \/ ins'[p] = [ins[p] EXCEPT !.assignee = Null]
           \/ ins'[p] = Deleted(ins[p])
  BY <1>1, <1>2 DEF Deleted, Instance
<1>3. ASSUME NEW answers \in [Variable -> Answer], NEW to \in Node, Moves(p, answers, to)
      PROVE  ins'[p].task \in Nat
  <2>1. ins'[p].task = IF to \in UserTask THEN ins[p].task + 1 ELSE ins[p].task
    BY <1>1, <1>3 DEF Moves, Arrive, Instance
  <2> QED  BY <1>1, <2>1
<1> QED  BY <1>1, <1>2, <1>3 DEF InstanceStep

\* Once both departments have approved, nothing takes it back.
LEMMA ApprovedStays ==
  ASSUME ApprovalInv, NEW p \in DOMAIN ins, InstanceStep(p), Approved(p)
  PROVE  Approved(p)'
<1>1. ins[p] \in Instance
  BY ApprovalFacts
<1>2. CASE ins'[p] = ins[p] \/ ins'[p] = [ins[p] EXCEPT !.assignee = Null]
           \/ ins'[p] = Deleted(ins[p])
  BY <1>1, <1>2 DEF Approved, Deleted, Instance
<1>3. ASSUME NEW answers \in [Variable -> Answer], NEW to \in Node, Moves(p, answers, to)
      PROVE  Approved(p)'
  <2>1. ins[p].node = "reportback" /\ to = "end"
    BY <1>3 DEF Approved, Moves, Takes
  <2>2. SetAt[ins[p].node] = "none"
    BY <2>1 DEF SetAt
  <2>3. \A v \in Variable : answers[v] = ins[p].answers[v]
    BY <1>3, <2>2 DEF Moves, Variable
  <2>4. ins'[p].node = "end" /\ ins'[p].answers = answers
    BY <1>1, <1>3, <2>1 DEF Moves, Arrive, Instance
  <2> QED  BY <2>3, <2>4 DEF Approved, Variable
<1> QED  BY <1>2, <1>3 DEF InstanceStep

\* A thread whose locals stay is still right about them.
LEMMA FineStays ==
  ASSUME ApprovalInv, EngineStep, TableStep, NEW q \in Thread, request'[q] = request[q]
  PROVE  Fine(request[q])'
<1> DEFINE x == request[q]
           t == request[q].task
           r == request[q].row
<1>1. Grounded(x) /\ Fine(x) /\ x \in Request /\ TypeOK
  BY ApprovalFacts
<1>2. t # Null => t.pid \in DOMAIN ins /\ Ages(t.pid) /\ InstanceStep(t.pid) /\ t.n \in Nat
  BY <1>1, Aging DEF Grounded, EngineStep, Request, TaskId
<1>3. Routed(request[q])'
  <2>1. SUFFICES ASSUME t # Null
                 PROVE  /\ t.n <= ins'[t.pid].task
                        /\ ins'[t.pid].node \in UserTask /\ ins'[t.pid].task = t.n
                             => ins'[t.pid].node = Awaited(x.pc)
    BY DEF Routed, Live, Awaited
  <2>2. /\ t.n <= ins[t.pid].task
        /\ ins[t.pid].node \in UserTask /\ ins[t.pid].task = t.n
             => ins[t.pid].node = Awaited(x.pc)
    BY <1>1, <1>2, <2>1 DEF Fine, Routed, Live
  <2>3. /\ ins[t.pid].task <= ins'[t.pid].task
        /\ ins'[t.pid].task = ins[t.pid].task /\ ins'[t.pid].node \in UserTask
             => ins'[t.pid].node = ins[t.pid].node
    BY <1>2, <2>1 DEF Ages
  <2>4. ins[t.pid].task \in Nat /\ ins'[t.pid].task \in Nat /\ t.n \in Nat
    BY <1>1, <1>2, <2>1, AgingType
  <2>5. t.n <= ins'[t.pid].task
    BY <2>2, <2>3, <2>4
  <2>6. ASSUME ins'[t.pid].node \in UserTask, ins'[t.pid].task = t.n
        PROVE  ins'[t.pid].node = Awaited(x.pc)
    <3>1. ins'[t.pid].task = ins[t.pid].task
      BY <2>2, <2>3, <2>4, <2>6
    <3> QED  BY <2>2, <2>3, <2>6, <3>1
  <2> QED  BY <2>5, <2>6
<1>4. Writes(request[q])'
  <2>1. x.pc = "updateComplete" => t # Null
    BY <1>1 DEF Grounded, RowHandling
  <2> QED  BY <1>1, <1>2, <2>1 DEF Fine, Writes, Ages
<1>5. Reports(request[q])'
  <2>1. SUFFICES ASSUME x.pc \in {"getRow", "updateReality", "completeReportBack"}
                 PROVE  Reports(request[q])'
    BY DEF Reports
  <2>2. t # Null /\ r \in DOMAIN vac
    BY <1>1, <2>1 DEF Grounded, RowHandling
  <2>3. ins[t.pid].key = r /\ Approved(t.pid) /\ Approved(t.pid)' /\ ins'[t.pid].key = r
    BY <1>1, <1>2, <2>1, <2>2, ApprovedStays DEF Fine, Reports, Ages
  <2>4. \A p \in DOMAIN ins : ins[p].key = r => ins[p].node \notin {"deptleaderaudit", "modifyapply"}
    BY <1>2, <2>2, <2>3, ApprovalFacts DEF OneInstancePerRow, Approved
  <2>5. r \notin late' => vac'[r] = vac[r] \/ Reported(r)
    BY <2>2, <2>4 DEF TableStep, RowStep, Started, Reopened
  <2>6. r \notin late' => r \notin late
    BY DEF TableStep
  <2>7. x.pc = "updateReality" /\ r \notin late' => x.apply.dates = vac'[r].dates
    BY <1>1, <2>5, <2>6 DEF Reported, Fine, Reports
  <2> QED  BY <2>3, <2>7 DEF Reports, Approved
<1> QED  BY <1>3, <1>4, <1>5 DEF Fine

(***************************************************************************)
(* The invariant survives every such step.                                 *)
(***************************************************************************)

LEMMA ApprovalsStay ==
  ASSUME ApprovalInv, EngineStep
  PROVE  ApprovalsStand'
<1>1. ASSUME NEW p \in DOMAIN ins'
      PROVE  /\ ins'[p].node = "hraudit" => ins'[p].answers["deptleaderapprove"] = "true"
             /\ ins'[p].node = "reportback" => /\ ins'[p].answers["deptleaderapprove"] = "true"
                                               /\ ins'[p].answers["hrapprove"] = "true"
             /\ ins'[p].node = "modifyapply" => \/ ins'[p].answers["deptleaderapprove"] = "false"
                                                \/ ins'[p].answers["hrapprove"] = "false"
  <2>1. CASE p \notin DOMAIN ins
    BY <1>1, <2>1 DEF EngineStep
  <2>2. CASE p \in DOMAIN ins
    <3>1. ins[p] \in Instance /\ InstanceStep(p) /\ ApprovalsStand
      BY <2>2, ApprovalFacts DEF EngineStep, ApprovalInv
    <3>2. CASE ins'[p] = ins[p]
      BY <2>2, <3>1, <3>2 DEF ApprovalsStand
    <3>3. CASE ins'[p] = [ins[p] EXCEPT !.assignee = Null]
      BY <2>2, <3>1, <3>3 DEF ApprovalsStand, Instance
    <3>4. ASSUME NEW answers \in [Variable -> Answer], NEW to \in Node, Moves(p, answers, to)
          PROVE  <1>1!2
      <4>1. ins'[p].node = to /\ ins'[p].answers = answers
        BY <3>1, <3>4 DEF Moves, Arrive, Instance
      <4>2. ins[p].node = "hraudit" =>
              answers["deptleaderapprove"] = ins[p].answers["deptleaderapprove"]
        BY <3>4 DEF Moves, SetAt, Variable
      <4>3. /\ to = "hraudit" => answers["deptleaderapprove"] = "true"
            /\ to = "reportback" => ins[p].node = "hraudit" /\ answers["hrapprove"] = "true"
            /\ to = "modifyapply" => \/ answers["deptleaderapprove"] = "false"
                                     \/ answers["hrapprove"] = "false"
        BY <3>4 DEF Moves, Takes, Gateway1, Gateway2, Gateway3, Gateway
      <4>4. to = "reportback" => answers["deptleaderapprove"] = "true"
        BY <2>2, <3>1, <4>2, <4>3 DEF ApprovalsStand
      <4> QED  BY <4>1, <4>3, <4>4
    <3>5. CASE ins'[p] = Deleted(ins[p])
      BY <3>1, <3>5 DEF Deleted, Instance
    <3> QED  BY <3>1, <3>2, <3>3, <3>4, <3>5 DEF InstanceStep
  <2> QED  BY <2>1, <2>2
<1> QED  BY <1>1 DEF ApprovalsStand

LEMMA ReportsStay ==
  ASSUME ApprovalInv, EngineStep, TableStep
  PROVE  ReportedWasApproved'
<1> SUFFICES ASSUME NEW r \in DOMAIN vac', vac'[r].reality # Null
             PROVE  \E p \in DOMAIN ins' : ins'[p].key = r /\ Approved(p)'
  BY DEF ReportedWasApproved, Approved
<1>1. r \in DOMAIN vac /\ (vac'[r] = vac[r] \/ Reported(r))
  BY DEF TableStep, RowStep, Started, Reopened
<1>2. \E p \in DOMAIN ins : ins[p].key = r /\ Approved(p)
  BY <1>1 DEF Reported, ApprovalInv, ReportedWasApproved, Approved
<1>3. PICK p \in DOMAIN ins : ins[p].key = r /\ Approved(p)
  BY <1>2
<1>4. InstanceStep(p) /\ p \in DOMAIN ins'
  BY DEF EngineStep
<1>5. Approved(p)' /\ ins'[p].key = r
  BY <1>3, <1>4, ApprovedStays, Aging DEF Ages
<1> QED  BY <1>4, <1>5

\* One thread moves, or none.
LEMMA ApprovalFrame ==
  ASSUME ApprovalInv, EngineStep, TableStep, OwnershipInv',
         \A q \in Thread : request'[q] = request[q] \/ Fine(request[q])'
  PROVE  TableStep /\ ApprovalInv'
<1>1. \A q \in Thread : Fine(request[q])'
  BY FineStays
<1> QED  BY <1>1, ApprovalsStay, ReportsStay DEF ApprovalInv

(***************************************************************************)
(* The steps of the service are such steps, if no task is misrouted.       *)
(***************************************************************************)

LEMMA ReturnFine ==
  ASSUME NEW q \in Thread, request'[q] = Idle
  PROVE  Fine(request[q])'
BY DEF Fine, Routed, Reports, Writes, Idle

\* A thread's locals are those of the table of threads.
LEMMA OneThread ==
  ASSUME TypeOK, NEW q \in Thread, NEW x, Becomes(q, x)
  PROVE  request'[q] = x /\ \A o \in Thread : o # q => request'[o] = request[o]
BY DEF TypeOK, Becomes

LEMMA SameTable == UNCHANGED <<vac, late>> => TableStep
BY DEF TableStep, RowStep

LEMMA SameEngine == UNCHANGED ins => EngineStep
BY DEF EngineStep, InstanceStep

\* One instance takes a step.
LEMMA OneInstanceSteps ==
  ASSUME TypeOK, NEW p \in DOMAIN ins, NEW i, ins' = [ins EXCEPT ![p] = i], InstanceStep(p)
  PROVE  EngineStep
BY DEF EngineStep, InstanceStep, TypeOK

\* taskService.complete with the variable of the task's kind.
LEMMA AttemptStep ==
  ASSUME TypeOK, NEW t \in TaskId, NEW answers \in [Variable -> Answer],
         Attempt(t, answers),
         Live(t) => \A v \in Variable :
                      v # SetAt[ins[t.pid].node] => answers[v] = ins[t.pid].answers[v]
  PROVE  EngineStep
<1>1. CASE UNCHANGED ins
  BY <1>1, SameEngine
<1>2. ASSUME NEW to \in Node, Complete(t, answers, to)  PROVE EngineStep
  <2>1. /\ t.pid \in DOMAIN ins /\ Live(t) /\ Takes(ins[t.pid].node, answers, to)
        /\ ins' = [ins EXCEPT ![t.pid] = Arrive(ins[t.pid], answers, to)]
    BY <1>2 DEF Complete, Completes, Live
  <2>2. ins'[t.pid] = Arrive(ins[t.pid], answers, to)
    BY <2>1 DEF TypeOK
  <2>3. Moves(t.pid, answers, to)
    BY <2>1, <2>2 DEF Moves
  <2> QED  BY <2>1, <2>3, OneInstanceSteps DEF InstanceStep
<1> QED  BY <1>1, <1>2 DEF Attempt

\* One row is written.
LEMMA OneRowStep ==
  ASSUME TypeOK, NEW r \in DOMAIN vac, NEW a, vac' = Update(r, a), late \subseteq late',
         RowStep(r)
  PROVE  TableStep
BY DEF TableStep, RowStep, Update, TypeOK

\* What update writes, but for the user.
LEMMA Written ==
  ASSUME TypeOK, NEW r \in DOMAIN vac, NEW a \in Row, vac' = Update(r, a)
  PROVE  vac'[r].reality = a.reality /\ vac'[r].dates = a.dates
<1>1. vac'[r] = [a EXCEPT !.user = vac[r].user]
  BY DEF Update, TypeOK
<1> QED  BY <1>1 DEF Row

LEMMA SaveApplyApproval ==
  ASSUME ApprovalInv, OwnershipInv', NEW q \in Thread, NEW u \in User, NEW f \in Form,
         SaveApply(q, u, f)
  PROVE  TableStep /\ ApprovalInv'
<1> DEFINE a == Submitted(u, f)
           x == [pc |-> "startProcess", task |-> Null, row |-> Len(vac) + 1, apply |-> a]
<1>1. /\ TypeOK /\ UNCHANGED <<ins, deployed, late>> /\ vac' = Append(vac, a)
      /\ Becomes(q, x)
  BY ApprovalFacts DEF SaveApply, Becomes
<1>2. a \in Row /\ a.reality = Null
  BY FormAssumption DEF Submitted, Row
<1>3. TableStep
  <2>1. /\ DOMAIN vac' = DOMAIN vac \cup {Len(vac) + 1}
        /\ vac'[Len(vac) + 1] = a
        /\ \A r \in DOMAIN vac : vac'[r] = vac[r]
    BY <1>1, <1>2, Appended DEF TypeOK
  <2> QED  BY <1>1, <1>2, <2>1 DEF TableStep, RowStep
<1>4. request'[q] = x /\ \A o \in Thread : o # q => request'[o] = request[o]
  BY <1>1, OneThread
<1>5. Fine(request[q])'
  BY <1>2, <1>4 DEF Fine, Routed, Reports, Writes
<1> QED  BY <1>1, <1>3, <1>4, <1>5, SameEngine, ApprovalFrame

LEMMA StartProcessApproval ==
  ASSUME ApprovalInv, OwnershipInv', NEW q \in Thread, StartProcess(q)
  PROVE  TableStep /\ ApprovalInv'
<1> DEFINE a == [request[q].apply EXCEPT !.pid = Len(ins) + 1]
           x == [request[q] EXCEPT !.pc = "saveInstanceId", !.apply = a]
<1>1. /\ TypeOK /\ UNCHANGED <<vac, deployed, late>> /\ Becomes(q, x)
      /\ request[q].pc = "startProcess" /\ request[q] \in Request
      /\ Grounded(request[q]) /\ Writes(request[q])
  BY ApprovalFacts DEF StartProcess, GoOn, Becomes, At, Fine
<1>2. PICK i : ins' = Append(ins, i) /\ i.node = "deptleaderaudit"
  BY DEF StartProcess, StartProcessByKey, NewInstance
<1>3. EngineStep
  <2>1. /\ DOMAIN ins' = DOMAIN ins \cup {Len(ins) + 1}
        /\ ins'[Len(ins) + 1] = i
        /\ \A p \in DOMAIN ins : ins'[p] = ins[p]
    BY <1>1, <1>2 DEF TypeOK
  <2> QED  BY <1>2, <2>1 DEF EngineStep, InstanceStep
<1>4. request'[q] = x /\ \A o \in Thread : o # q => request'[o] = request[o]
  BY <1>1, OneThread
<1>5. request[q].apply \in Row /\ request[q].apply.reality = Null /\ request[q].task = Null
  BY <1>1 DEF Grounded, Writes, Request
<1>6. a.reality = Null
  BY <1>5 DEF Row
<1>7. /\ request'[q].pc = "saveInstanceId" /\ request'[q].task = Null
      /\ request'[q].apply = a
  BY <1>1, <1>4, <1>5 DEF Request
<1>8. Fine(request[q])'
  BY <1>6, <1>7 DEF Fine, Routed, Reports, Writes
<1> QED  BY <1>1, <1>3, <1>4, <1>8, SameTable, ApprovalFrame

LEMMA SaveInstanceIdApproval ==
  ASSUME ApprovalInv, OwnershipInv', NEW q \in Thread, SaveInstanceId(q)
  PROVE  TableStep /\ ApprovalInv'
<1> DEFINE r == request[q].row
           a == request[q].apply
<1>1. /\ TypeOK /\ UNCHANGED <<ins, deployed>> /\ vac' = Update(r, a)
      /\ late' = IF Untouched(a.pid) THEN late ELSE late \cup {r}
      /\ Becomes(q, Idle)
      /\ request[q].pc = "saveInstanceId" /\ request[q] \in Request
      /\ Grounded(request[q]) /\ Writes(request[q])
  BY ApprovalFacts DEF SaveInstanceId, WriteStarted, Return, Becomes, At, Fine
<1>2. /\ r \in DOMAIN vac /\ a \in Row /\ a.reality = Null
      /\ a.pid \in DOMAIN ins /\ ins[a.pid].key = r
  BY <1>1 DEF Grounded, Writes, Request
<1>3. Started(r)
  <2>1. vac'[r].reality = Null
    BY <1>1, <1>2, Written
  <2>2. r \in late' \/ ins[a.pid].node = "deptleaderaudit"
    BY <1>1 DEF Untouched
  <2> QED  BY <1>1, <1>2, <2>1, <2>2 DEF Started
<1>4. TableStep
  BY <1>1, <1>2, <1>3, OneRowStep DEF RowStep
<1>5. request'[q] = Idle /\ \A o \in Thread : o # q => request'[o] = request[o]
  BY <1>1, OneThread
<1> QED  BY <1>1, <1>4, <1>5, SameEngine, ReturnFine, ApprovalFrame

\* The task a thread takes is the open one.
LEMMA OpenTaskFields ==
  ASSUME ApprovalInv, NEW p \in DOMAIN ins
  PROVE  ins[p].task \in Nat /\ OpenTask(p).pid = p /\ OpenTask(p).n = ins[p].task
<1>1. ins[p] \in Instance
  BY ApprovalFacts
<1> QED  BY <1>1 DEF OpenTask, Instance

LEMMA ClaimApproval ==
  ASSUME Misrouted = FALSE, ApprovalInv, OwnershipInv', NEW q \in Thread,
         NEW p \in DOMAIN ins, NEW endpoint \in AuditEndpoint, Claim(q, p, endpoint)
  PROVE  TableStep /\ ApprovalInv'
<1> DEFINE x == [pc |-> endpoint, task |-> OpenTask(p), row |-> Null, apply |-> Null]
           i == [ins[p] EXCEPT !.assignee = Null]
<1>1. /\ TypeOK /\ UNCHANGED <<vac, deployed, late>> /\ ins' = [ins EXCEPT ![p] = i]
      /\ Becomes(q, x) /\ ins[p] \in Instance
  BY ApprovalFacts DEF Claim, Becomes
<1>2. /\ ins[p].node = MadeFor[endpoint] /\ ins[p].task \in Nat
      /\ OpenTask(p).pid = p /\ OpenTask(p).n = ins[p].task
  BY OpenTaskFields DEF Claim, Accepts
<1>3. ins'[p] = i /\ i.node = ins[p].node /\ i.task = ins[p].task
  BY <1>1 DEF TypeOK, Instance
<1>4. EngineStep
  BY <1>1, <1>3, OneInstanceSteps DEF InstanceStep
<1>5. request'[q] = x /\ \A o \in Thread : o # q => request'[o] = request[o]
  BY <1>1, OneThread
<1>6. request'[q].pc = endpoint /\ request'[q].task = OpenTask(p)
  BY <1>5
<1>7. Fine(request[q])'
  <2>1. endpoint \in {"deptcomplete", "hrcomplete"}
    BY DEF AuditEndpoint
  <2>2. Awaited(endpoint) = MadeFor[endpoint]
    BY <2>1 DEF Awaited, AuditEndpoint
  <2>3. ins'[p].task = ins[p].task /\ ins'[p].node = ins[p].node
    BY <1>3
  <2>4. Routed(request[q])'
    BY <1>2, <1>6, <2>2, <2>3 DEF Routed
  <2> QED  BY <1>6, <2>1, <2>4 DEF Fine, Reports, Writes
<1> QED  BY <1>1, <1>4, <1>5, <1>7, SameTable, ApprovalFrame

LEMMA CompleteAuditApproval ==
  ASSUME ApprovalInv, OwnershipInv', NEW q \in Thread, NEW answer \in Answer,
         CompleteAudit(q, answer)
  PROVE  TableStep /\ ApprovalInv'
<1> DEFINE t == request[q].task
           pc == request[q].pc
           answers == AuditAnswers(q, answer)
<1>1. /\ TypeOK /\ UNCHANGED <<vac, deployed, late>> /\ Attempt(t, answers)
      /\ Becomes(q, Idle) /\ pc \in AuditEndpoint /\ request[q] \in Request
      /\ Grounded(request[q]) /\ Routed(request[q])
  BY ApprovalFacts DEF CompleteAudit, Return, Becomes, Fine
<1>2. t # Null /\ t \in TaskId /\ pc \in {"deptcomplete", "hrcomplete"}
  BY <1>1 DEF Grounded, Request, AuditEndpoint
<1>3. answers \in [Variable -> Answer]
  BY <1>2, AnswersType DEF AuditAnswers, ApprovalInv
<1>4. Live(t) => ins[t.pid].node = MadeFor[pc]
  BY <1>1, <1>2 DEF Routed, Awaited
<1>5. SetAt[MadeFor[pc]] = Answers[pc]
  BY <1>2 DEF SetAt, MadeFor, Answers
<1>6. \A v \in Variable : v # Answers[pc] => answers[v] = ins[t.pid].answers[v]
  <2>1. ins[t.pid].answers \in [Variable -> Answer]
    BY <1>2, AnswersType DEF ApprovalInv
  <2> QED  BY <2>1 DEF AuditAnswers
<1> HIDE DEF answers
<1>7. EngineStep
  BY <1>1, <1>2, <1>3, <1>4, <1>5, <1>6, AttemptStep
<1>8. request'[q] = Idle /\ \A o \in Thread : o # q => request'[o] = request[o]
  BY <1>1, OneThread
<1> QED  BY <1>1, <1>7, <1>8, SameTable, ReturnFine, ApprovalFrame

LEMMA FindTaskApproval ==
  ASSUME Misrouted = FALSE, ApprovalInv, OwnershipInv', NEW q \in Thread,
         NEW p \in DOMAIN ins, FindTask(q, p)
  PROVE  TableStep /\ ApprovalInv'
<1> DEFINE x == [pc |-> "getRow", task |-> OpenTask(p), row |-> ins[p].key, apply |-> Null]
<1>1. TypeOK /\ UNCHANGED <<vac, ins, deployed, late>> /\ Becomes(q, x)
  BY ApprovalFacts DEF FindTask, Becomes
<1>2. /\ ins[p].node = "reportback" /\ ins[p].task \in Nat
      /\ OpenTask(p).pid = p /\ OpenTask(p).n = ins[p].task
  <2>1. ins[p].node = "reportback"
    BY DEF FindTask, Accepts, MadeFor
  <2> QED  BY <2>1, OpenTaskFields
<1>3. Approved(p)
  BY <1>2 DEF Approved, ApprovalInv, ApprovalsStand
<1>4. request'[q] = x /\ \A o \in Thread : o # q => request'[o] = request[o]
  BY <1>1, OneThread
<1>5. /\ request'[q].pc = "getRow" /\ request'[q].task = OpenTask(p)
      /\ request'[q].row = ins[p].key
  BY <1>4
<1>6. Fine(request[q])'
  <2>1. Routed(request[q])'
    BY <1>1, <1>2, <1>5 DEF Routed, Awaited, AuditEndpoint
  <2>2. Reports(request[q])'
    BY <1>1, <1>2, <1>3, <1>5 DEF Reports, Approved
  <2> QED  BY <1>5, <2>1, <2>2 DEF Fine, Writes
<1> QED  BY <1>1, <1>4, <1>6, SameTable, SameEngine, ApprovalFrame

LEMMA GetRowApproval ==
  ASSUME ApprovalInv, OwnershipInv', NEW q \in Thread, GetRow(q)
  PROVE  TableStep /\ ApprovalInv'
<1> DEFINE r == request[q].row
           x == [request[q] EXCEPT !.pc = "updateReality", !.apply = Get(r)]
<1>1. /\ TypeOK /\ UNCHANGED <<vac, ins, deployed, late>> /\ Becomes(q, x)
      /\ request[q].pc = "getRow" /\ request[q] \in Request
      /\ Grounded(request[q]) /\ Routed(request[q]) /\ Reports(request[q])
  BY ApprovalFacts DEF GetRow, GoOn, Becomes, At, Fine
<1>2. r \in DOMAIN vac
  BY <1>1 DEF Grounded, RowHandling
<1>3. Get(r).dates = vac[r].dates
  BY <1>1, <1>2 DEF Get, TypeOK, Row
<1>4. request'[q] = x /\ \A o \in Thread : o # q => request'[o] = request[o]
  BY <1>1, OneThread
<1>5. /\ request'[q].pc = "updateReality" /\ request'[q].task = request[q].task
      /\ request'[q].row = r /\ request'[q].apply = Get(r)
  BY <1>1, <1>4 DEF Request
<1>6. Fine(request[q])'
  <2>1. Routed(request[q])'
    BY <1>1, <1>5 DEF Routed, Awaited, AuditEndpoint, Live
  <2>2. Reports(request[q])'
    BY <1>1, <1>3, <1>5 DEF Reports, Approved
  <2> QED  BY <1>5, <2>1, <2>2 DEF Fine, Writes
<1> QED  BY <1>1, <1>4, <1>6, SameTable, SameEngine, ApprovalFrame

LEMMA UpdateRealityApproval ==
  ASSUME ApprovalInv, OwnershipInv', NEW q \in Thread, NEW time \in Time \cup {Null},
         UpdateReality(q, time)
  PROVE  TableStep /\ ApprovalInv'
<1> DEFINE r == request[q].row
           t == request[q].task
           a == [request[q].apply EXCEPT !.reality = time]
           x == [request[q] EXCEPT !.pc = "completeReportBack", !.apply = request[q].apply]
<1>1. /\ TypeOK /\ UNCHANGED <<ins, deployed, late>> /\ vac' = Update(r, a)
      /\ Becomes(q, x)
      /\ request[q].pc = "updateReality" /\ request[q] \in Request
      /\ Grounded(request[q]) /\ Routed(request[q]) /\ Reports(request[q])
  BY ApprovalFacts DEF UpdateReality, GoOn, Becomes, At, Fine
<1>2. r \in DOMAIN vac /\ request[q].apply \in Row /\ t.pid \in DOMAIN ins
  BY <1>1 DEF Grounded, RowHandling, Request
<1>3. /\ ins[t.pid].key = r /\ Approved(t.pid)
      /\ r \notin late => request[q].apply.dates = vac[r].dates
  BY <1>1 DEF Reports
<1>4. a \in Row /\ a.reality = time /\ a.dates = request[q].apply.dates
  BY <1>2 DEF Row
<1> HIDE DEF a
<1>5. vac'[r].dates = a.dates
  BY <1>1, <1>2, <1>4, Written
<1>8. request'[q] = x /\ \A o \in Thread : o # q => request'[o] = request[o]
  BY <1>1, OneThread
<1>6. Reported(r)
  <2>1. At(q, "updateReality") /\ At(q, "completeReportBack")'
    BY <1>1, <1>8 DEF At, Request
  <2> QED  BY <1>1, <1>2, <1>3, <1>4, <1>5, <2>1 DEF Reported
<1>7. TableStep
  BY <1>1, <1>2, <1>6, OneRowStep DEF RowStep
<1>9. /\ request'[q].pc = "completeReportBack" /\ request'[q].task = t
      /\ request'[q].row = r
  BY <1>1, <1>8 DEF Request
<1>10. Fine(request[q])'
  <2>1. Routed(request[q])'
    BY <1>1, <1>9 DEF Routed, Awaited, AuditEndpoint, Live
  <2>2. Reports(request[q])'
    BY <1>1, <1>3, <1>5, <1>9 DEF Reports, Approved
  <2> QED  BY <1>9, <2>1, <2>2 DEF Fine, Writes
<1> QED  BY <1>1, <1>7, <1>8, <1>10, SameEngine, ApprovalFrame

LEMMA CompleteReportBackApproval ==
  ASSUME ApprovalInv, OwnershipInv', NEW q \in Thread, CompleteReportBack(q)
  PROVE  TableStep /\ ApprovalInv'
<1> DEFINE t == request[q].task
           answers == ins[t.pid].answers
<1>1. /\ TypeOK /\ UNCHANGED <<vac, deployed, late>> /\ Attempt(t, answers)
      /\ Becomes(q, Idle) /\ request[q].pc = "completeReportBack" /\ request[q] \in Request
      /\ Grounded(request[q]) /\ Routed(request[q])
  BY ApprovalFacts DEF CompleteReportBack, Return, Becomes, At, Fine
<1>2. t # Null /\ t \in TaskId
  BY <1>1 DEF Grounded, Request, RowHandling
<1>3. answers \in [Variable -> Answer]
  BY <1>2, AnswersType DEF ApprovalInv
<1>4. EngineStep
  BY <1>1, <1>2, <1>3, AttemptStep
<1>5. request'[q] = Idle /\ \A o \in Thread : o # q => request'[o] = request[o]
  BY <1>1, OneThread
<1> QED  BY <1>1, <1>4, <1>5, SameTable, ReturnFine, ApprovalFrame

LEMMA ReadSnapshotApproval ==
  ASSUME Misrouted = FALSE, ApprovalInv, OwnershipInv', NEW q \in Thread,
         NEW p \in DOMAIN ins, ReadSnapshot(q, p)
  PROVE  TableStep /\ ApprovalInv'
<1> DEFINE r == ins[p].key
           x == [pc |-> "updateComplete", task |-> OpenTask(p), row |-> r, apply |-> Get(r)]
<1>1. TypeOK /\ UNCHANGED <<vac, ins, deployed, late>> /\ Becomes(q, x)
  BY ApprovalFacts DEF ReadSnapshot, Becomes
<1>2. /\ ins[p].node = "modifyapply" /\ ins[p].task \in Nat
      /\ OpenTask(p).pid = p /\ OpenTask(p).n = ins[p].task
  <2>1. ins[p].node = "modifyapply"
    BY DEF ReadSnapshot, Accepts, MadeFor
  <2> QED  BY <2>1, OpenTaskFields
<1>3. r \in DOMAIN vac
  BY ApprovalFacts
<1>4. Get(r).reality = Null
  <2>1. vac[r].reality = Null
    BY <1>2, <1>3, ApprovalFacts DEF ApprovalInv, ReportedWasApproved, OneInstancePerRow
  <2> QED  BY <1>1, <1>3, <2>1 DEF Get, TypeOK, Row
<1>5. request'[q] = x /\ \A o \in Thread : o # q => request'[o] = request[o]
  BY <1>1, OneThread
<1>6. /\ request'[q].pc = "updateComplete" /\ request'[q].task = OpenTask(p)
      /\ request'[q].row = r /\ request'[q].apply = Get(r)
  BY <1>5
<1>7. Fine(request[q])'
  <2>1. Routed(request[q])'
    BY <1>1, <1>2, <1>6 DEF Routed, Awaited, AuditEndpoint
  <2>2. Writes(request[q])'
    BY <1>1, <1>2, <1>4, <1>6 DEF Writes
  <2> QED  BY <1>6, <2>1, <2>2 DEF Fine, Reports
<1> QED  BY <1>1, <1>5, <1>7, SameTable, SameEngine, ApprovalFrame

LEMMA UpdateCompleteApproval ==
  ASSUME ApprovalInv, OwnershipInv', NEW q \in Thread, NEW f \in Form,
         NEW answer \in Answer, UpdateComplete(q, f, answer)
  PROVE  TableStep /\ ApprovalInv'
<1> DEFINE t == request[q].task
           r == request[q].row
           a == Modified(request[q].apply, f)
           answers == [ins[t.pid].answers EXCEPT !["reapply"] = answer]
<1>1. /\ TypeOK /\ UNCHANGED <<deployed, late>>
      /\ Becomes(q, Idle) /\ request[q].pc = "updateComplete" /\ request[q] \in Request
      /\ Grounded(request[q]) /\ Routed(request[q]) /\ Writes(request[q])
  BY ApprovalFacts DEF UpdateComplete, Return, Becomes, At, Fine
<1>2. /\ t # Null /\ t \in TaskId /\ r \in DOMAIN vac /\ request[q].apply \in Row
      /\ t.pid \in DOMAIN ins /\ ins[t.pid].key = r /\ request[q].apply.reality = Null
  BY <1>1 DEF Grounded, Request, RowHandling, Writes
<1>3. ins[t.pid].answers \in [Variable -> Answer]
  BY <1>2, AnswersType DEF ApprovalInv
<1>4. answers \in [Variable -> Answer]
  BY <1>3
<1>5. Live(t) => ins[t.pid].node = "modifyapply"
  BY <1>1, <1>2 DEF Routed, Awaited, AuditEndpoint
<1>6. Attempt(t, answers)
  BY DEF UpdateComplete, Attempt
<1>7. \A v \in Variable : v # "reapply" => answers[v] = ins[t.pid].answers[v]
  BY <1>3
<1>8. /\ vac' = vac \/ vac' = Update(r, a)
      /\ vac' # vac => Live(t)
  BY DEF UpdateComplete, Complete, Completes
<1> HIDE DEF answers
<1>9. EngineStep
  BY <1>1, <1>2, <1>4, <1>5, <1>6, <1>7, AttemptStep DEF SetAt
<1>10. TableStep
  <2>1. CASE vac' = vac
    BY <1>1, <2>1, SameTable
  <2>2. CASE vac' # vac
    <3>1. a \in Row /\ a.reality = Null
      BY <1>2, FormAssumption DEF Modified, Row
    <3>2. vac'[r].reality = Null
      BY <1>1, <1>2, <1>8, <2>2, <3>1, Written
    <3>3. Reopened(r)
      BY <1>2, <1>5, <1>8, <2>2, <3>2 DEF Reopened
    <3> QED  BY <1>1, <1>2, <1>8, <2>2, <3>3, OneRowStep DEF RowStep
  <2> QED  BY <2>1, <2>2
<1>11. request'[q] = Idle /\ \A o \in Thread : o # q => request'[o] = request[o]
  BY <1>1, OneThread
<1> QED  BY <1>9, <1>10, <1>11, ReturnFine, ApprovalFrame

LEMMA FailApproval ==
  ASSUME ApprovalInv, OwnershipInv', NEW q \in Thread, Fail(q) \/ StartRefused(q)
  PROVE  TableStep /\ ApprovalInv'
<1>1. TypeOK /\ UNCHANGED <<vac, ins, deployed, late>> /\ Becomes(q, Idle)
  BY ApprovalFacts DEF Fail, StartRefused, Return, Becomes
<1>2. request'[q] = Idle /\ \A o \in Thread : o # q => request'[o] = request[o]
  BY <1>1, OneThread
<1> QED  BY <1>1, <1>2, SameTable, SameEngine, ReturnFine, ApprovalFrame

LEMMA AdminApproval ==
  ASSUME ApprovalInv, OwnershipInv', Admin
  PROVE  TableStep /\ ApprovalInv'
<1>1. UNCHANGED <<vac, request, late>>
  BY DEF Admin, Deploy, DeleteDeploy
<1>2. CASE Deploy
  BY <1>1, <1>2, SameTable, SameEngine, ApprovalFrame DEF Deploy
<1>3. ASSUME NEW d \in DOMAIN deployed, DeleteDeploy(d)  PROVE EngineStep
  BY <1>3 DEF DeleteDeploy, EngineStep, InstanceStep
<1> QED  BY <1>1, <1>2, <1>3, SameTable, ApprovalFrame DEF Admin

(***************************************************************************)
(* The theorems.                                                           *)
(***************************************************************************)

LEMMA InitApproval == Init => ApprovalInv
<1> SUFFICES ASSUME Init PROVE ApprovalInv
  OBVIOUS
<1>1. OwnershipInv
  BY InitOwnership
<1>2. DOMAIN vac = {} /\ DOMAIN ins = {} /\ \A q \in Thread : request[q] = Idle
  BY DEF Init
<1>3. Fine(Idle)
  BY DEF Fine, Routed, Reports, Writes, Idle
<1> QED
  BY <1>1, <1>2, <1>3
  DEF ApprovalInv, ApprovalsStand, ReportedWasApproved

LEMMA NextApproval ==
  ASSUME Misrouted = FALSE
  PROVE  ApprovalInv /\ [Next]_vars => TableStep /\ ApprovalInv'
<1> SUFFICES ASSUME ApprovalInv, [Next]_vars PROVE TableStep /\ ApprovalInv'
  OBVIOUS
<1>1. OwnershipInv'
  BY NextOwnership DEF ApprovalInv
<1>2. ASSUME NEW q \in Thread, Arrival(q)  PROVE TableStep /\ ApprovalInv'
  BY <1>1, <1>2, SaveApplyApproval, ClaimApproval, FindTaskApproval, ReadSnapshotApproval
  DEF Arrival
<1>3. ASSUME NEW q \in Thread, Step(q)  PROVE TableStep /\ ApprovalInv'
  BY <1>1, <1>3, StartProcessApproval, FailApproval, SaveInstanceIdApproval,
     CompleteAuditApproval, GetRowApproval, UpdateRealityApproval,
     CompleteReportBackApproval, UpdateCompleteApproval
  DEF Step
<1>4. ASSUME NEW q \in Thread, Fail(q)  PROVE TableStep /\ ApprovalInv'
  BY <1>1, <1>4, FailApproval
<1>5. CASE Admin
  BY <1>1, <1>5, AdminApproval
<1>6. CASE UNCHANGED vars
  BY <1>1, <1>6, SameTable, SameEngine, ApprovalFrame DEF vars
<1> QED  BY <1>2, <1>3, <1>4, <1>5, <1>6 DEF Next

\* Where every task is sent to the endpoint made for it, the inductive invariant
\* holds in every reachable state.
THEOREM Approval ==
  ASSUME Misrouted = FALSE
  PROVE  Spec => []ApprovalInv
<1>1. Init => ApprovalInv
  BY InitApproval
<1>2. ApprovalInv /\ [Next]_vars => ApprovalInv'
  BY NextApproval
<1> QED  BY <1>1, <1>2, PTL DEF Spec

\* An application waits for personnel, for the report or for its modification
\* only with the approvals that lead there, although the variables of earlier
\* rounds are still set and any number of requests race for a task.
THEOREM ApprovalsDoStand ==
  ASSUME Misrouted = FALSE
  PROVE  Spec => []ApprovalsStand
<1>1. ApprovalInv => ApprovalsStand
  BY DEF ApprovalInv
<1> QED  BY <1>1, Approval, PTL

\* Times are reported (updateReality) for approved applications only.
THEOREM ReportsAreApproved ==
  ASSUME Misrouted = FALSE
  PROVE  Spec => []ReportedWasApproved
<1>1. ApprovalInv => ReportedWasApproved
  BY DEF ApprovalInv
<1> QED  BY <1>1, Approval, PTL

\* updateComplete, startWorkflow and every other writer of the row leave the
\* reported times to completeReportBack, with the exception of a late write.
THEOREM ReportedTimesStay ==
  ASSUME Misrouted = FALSE
  PROVE  Spec => ReportedTimesKept
<1> DEFINE Kept == \A r \in DOMAIN vac :
             vac'[r].reality # vac[r].reality =>
               \/ \E q \in Thread : At(q, "updateReality") /\ At(q, "completeReportBack")'
                                    /\ request[q].row = r
               \/ r \in late'
<1>1. ApprovalInv /\ [Next]_vars => [Kept]_vars
  <2> SUFFICES ASSUME ApprovalInv, [Next]_vars, NEW r \in DOMAIN vac,
                      vac'[r].reality # vac[r].reality, ~Reported(r)
               PROVE  r \in late'
    BY DEF Reported
  <2>1. TableStep
    BY NextApproval
  <2>2. Started(r) \/ Reopened(r)
    BY <2>1 DEF TableStep, RowStep
  <2>3. ASSUME NEW p \in DOMAIN ins, ins[p].key = r,
               ins[p].node \in {"deptleaderaudit", "modifyapply"}
        PROVE  FALSE
    <3>1. vac'[r].reality = Null /\ vac[r].reality # Null
      BY <2>2 DEF Started, Reopened
    <3>2. \E o \in DOMAIN ins : ins[o].key = r /\ Approved(o)
      BY <3>1 DEF ApprovalInv, ReportedWasApproved, Approved
    <3> QED  BY <2>3, <3>2, ApprovalFacts DEF OneInstancePerRow, Approved
  <2> QED  BY <2>2, <2>3 DEF Started, Reopened
<1> QED  BY <1>1, Approval, PTL DEF Spec, ReportedTimesKept

\* No write, from however old an object, changes the dates of an application
\* between its first approval and its end, with the same exception.
THEOREM FormStaysFrozen ==
  ASSUME Misrouted = FALSE
  PROVE  Spec => FormFrozenDuringAudit
<1> DEFINE Frozen == \A p \in DOMAIN ins :
             LET r == ins[p].key
             IN ins[p].node \in {"hraudit", "reportback"} /\ r \notin late'
                  => vac'[r].dates = vac[r].dates
<1>1. ApprovalInv /\ [Next]_vars => [Frozen]_vars
  <2> SUFFICES ASSUME ApprovalInv, [Next]_vars,
                      NEW p \in DOMAIN ins, ins[p].node \in {"hraudit", "reportback"},
                      ins[p].key \notin late'
               PROVE  vac'[ins[p].key].dates = vac[ins[p].key].dates
    OBVIOUS
  <2>1. TableStep
    BY NextApproval
  <2>2. RowStep(ins[p].key) /\ ins[p].key \notin late
    BY <2>1, ApprovalFacts DEF TableStep
  <2>3. \A o \in DOMAIN ins : ins[o].key = ins[p].key =>
          ins[o].node \notin {"deptleaderaudit", "modifyapply"}
    BY ApprovalFacts DEF OneInstancePerRow
  <2> QED  BY <2>2, <2>3 DEF RowStep, Started, Reported, Reopened
<1> QED  BY <1>1, Approval, PTL DEF Spec, FormFrozenDuringAudit

(***************************************************************************)
(* No row mixes two forms, wherever the tasks are sent.                    *)
(***************************************************************************)

\* The form whose dates, type and reason a row or an object carries; reading
\* it has moved the reason into the type.
OneForm(a) ==
  \E f \in Form :
    /\ a.dates = f.dates
    /\ \/ a.leaveType = f.leaveType /\ a.reason = f.reason
       \/ a.leaveType = f.reason /\ a.reason = Null

Whole(x) == x.apply = Null \/ OneForm(x.apply)

FormInv ==
  /\ OwnershipInv
  /\ RowFromOneForm
  /\ \A q \in Thread : Whole(request[q])

\* Every row and every object stays, or is from one form.
LEMMA FormFrame ==
  ASSUME FormInv, OwnershipInv',
         \A r \in DOMAIN vac' : (r \in DOMAIN vac /\ vac'[r] = vac[r]) \/ OneForm(vac'[r]),
         \A q \in Thread : request'[q] = request[q] \/ Whole(request'[q])
  PROVE  FormInv'
<1>1. RowFromOneForm'
  BY DEF FormInv, RowFromOneForm, OneForm
<1>2. \A q \in Thread : Whole(request[q])'
  BY DEF FormInv, Whole, OneForm
<1> QED  BY <1>1, <1>2 DEF FormInv

\* A row that is read.
LEMMA GetOneForm ==
  ASSUME FormInv, NEW r \in DOMAIN vac
  PROVE  OneForm(Get(r))
<1>1. vac[r] \in Row
  BY DEF FormInv, OwnershipInv, TypeOK
<1>2. PICK f \in Form :
        /\ vac[r].dates = f.dates
        /\ \/ vac[r].leaveType = f.leaveType /\ vac[r].reason = f.reason
           \/ vac[r].leaveType = f.reason /\ vac[r].reason = Null
  BY DEF FormInv, RowFromOneForm
<1>3. /\ Get(r).dates = vac[r].dates /\ Get(r).reason = Null
      /\ Get(r).leaveType = IF vac[r].reason = Null THEN vac[r].leaveType
                                                     ELSE vac[r].reason
  BY <1>1 DEF Get, Row
<1> QED  BY <1>2, <1>3 DEF OneForm

\* A row that is written.
LEMMA UpdateOneForm ==
  ASSUME FormInv, NEW r \in DOMAIN vac, NEW a \in Row, OneForm(a), vac' = Update(r, a)
  PROVE  \A i \in DOMAIN vac' : (i \in DOMAIN vac /\ vac'[i] = vac[i]) \/ OneForm(vac'[i])
<1> DEFINE b == [a EXCEPT !.user = vac[r].user]
<1>1. vac' = [vac EXCEPT ![r] = b] /\ vac \in Seq(Row)
  BY DEF Update, FormInv, OwnershipInv, TypeOK
<1>2. OneForm(b)
  BY DEF OneForm, Row
<1> HIDE DEF b
<1> QED  BY <1>1, <1>2

LEMMA ArrivalForm ==
  ASSUME FormInv, OwnershipInv', NEW q \in Thread, Arrival(q)
  PROVE  FormInv'
<1>1. TypeOK
  BY DEF FormInv, OwnershipInv
<1>2. ASSUME NEW u \in User, NEW f \in Form, SaveApply(q, u, f)  PROVE FormInv'
  <2> DEFINE a == Submitted(u, f)
             x == [pc |-> "startProcess", task |-> Null, row |-> Len(vac) + 1, apply |-> a]
  <2>1. vac' = Append(vac, a) /\ Becomes(q, x)
    BY <1>2 DEF SaveApply, Becomes
  <2>2. a \in Row /\ OneForm(a)
    BY FormAssumption DEF Submitted, Row, OneForm
  <2>3. Whole(x)
    BY <2>2 DEF Whole
  <2> HIDE DEF a, x
  <2>4. \A r \in DOMAIN vac' : (r \in DOMAIN vac /\ vac'[r] = vac[r]) \/ OneForm(vac'[r])
    BY <1>1, <2>1, <2>2, Appended DEF TypeOK
  <2> QED  BY <1>1, <2>1, <2>3, <2>4, OneThread, FormFrame
<1>3. ASSUME NEW p \in DOMAIN ins, NEW endpoint \in AuditEndpoint, Claim(q, p, endpoint)
      PROVE  FormInv'
  <2> DEFINE x == [pc |-> endpoint, task |-> OpenTask(p), row |-> Null, apply |-> Null]
  <2>1. UNCHANGED vac /\ Becomes(q, x) /\ Whole(x)
    BY <1>3 DEF Claim, Becomes, Whole
  <2> HIDE DEF x
  <2> QED  BY <1>1, <2>1, OneThread, FormFrame
<1>4. ASSUME NEW p \in DOMAIN ins, FindTask(q, p)  PROVE FormInv'
  <2> DEFINE x == [pc |-> "getRow", task |-> OpenTask(p), row |-> ins[p].key, apply |-> Null]
  <2>1. UNCHANGED vac /\ Becomes(q, x) /\ Whole(x)
    BY <1>4 DEF FindTask, Becomes, Whole
  <2> HIDE DEF x
  <2> QED  BY <1>1, <2>1, OneThread, FormFrame
<1>5. ASSUME NEW p \in DOMAIN ins, ReadSnapshot(q, p)  PROVE FormInv'
  <2> DEFINE x == [pc |-> "updateComplete", task |-> OpenTask(p), row |-> ins[p].key,
                   apply |-> Get(ins[p].key)]
  <2>1. UNCHANGED vac /\ Becomes(q, x) /\ ins[p].key \in DOMAIN vac
    BY <1>5 DEF ReadSnapshot, Becomes, FormInv, OwnershipInv, InstanceHasRow
  <2>2. Whole(x)
    BY <2>1, GetOneForm DEF Whole
  <2> HIDE DEF x
  <2> QED  BY <1>1, <2>1, <2>2, OneThread, FormFrame
<1> QED  BY <1>2, <1>3, <1>4, <1>5 DEF Arrival

\* A thread that returns without writing a row.
LEMMA ReturnForm ==
  ASSUME FormInv, OwnershipInv', NEW q \in Thread, Return(q), UNCHANGED vac
  PROVE  FormInv'
<1>1. TypeOK /\ Becomes(q, Idle) /\ Whole(Idle)
  BY DEF FormInv, OwnershipInv, Return, Becomes, Whole, Idle
<1> QED  BY <1>1, OneThread, FormFrame

LEMMA StepForm ==
  ASSUME FormInv, OwnershipInv', NEW q \in Thread, Step(q)
  PROVE  FormInv'
<1> DEFINE y == request[q]
<1>1. TypeOK /\ y \in Request /\ Grounded(y) /\ Whole(y)
  BY DEF FormInv, OwnershipInv, TypeOK
<1>2. y.apply # Null => y.apply \in Row /\ OneForm(y.apply)
  BY <1>1 DEF Request, Whole
<1>3. CASE StartProcess(q)
  <2> DEFINE a == [y.apply EXCEPT !.pid = Len(ins) + 1]
             x == [y EXCEPT !.pc = "saveInstanceId", !.apply = a]
  <2>1. UNCHANGED vac /\ Becomes(q, x) /\ y.apply # Null
    BY <1>1, <1>3 DEF StartProcess, GoOn, Becomes, At, Grounded
  <2>2. OneForm(a)
    BY <1>2, <2>1 DEF OneForm, Row
  <2>3. x.apply = a
    BY <1>1 DEF Request
  <2>4. Whole(x)
    BY <2>2, <2>3 DEF Whole
  <2> HIDE DEF x
  <2> QED  BY <1>1, <2>1, <2>4, OneThread, FormFrame
<1>4. CASE SaveInstanceId(q)
  <2>1. /\ vac' = Update(y.row, y.apply) /\ Becomes(q, Idle) /\ Whole(Idle)
        /\ y.row \in DOMAIN vac /\ y.apply # Null
    BY <1>1, <1>4 DEF SaveInstanceId, WriteStarted, Return, Becomes, At, Grounded, Whole, Idle
  <2> QED  BY <1>1, <1>2, <2>1, UpdateOneForm, OneThread, FormFrame
<1>5. CASE GetRow(q)
  <2> DEFINE x == [y EXCEPT !.pc = "updateReality", !.apply = Get(y.row)]
  <2>1. UNCHANGED vac /\ Becomes(q, x) /\ y.row \in DOMAIN vac
    BY <1>1, <1>5 DEF GetRow, GoOn, Becomes, At, Grounded, RowHandling
  <2>2. x.apply = Get(y.row)
    BY <1>1 DEF Request
  <2>3. Whole(x)
    BY <2>1, <2>2, GetOneForm DEF Whole
  <2> HIDE DEF x
  <2> QED  BY <1>1, <2>1, <2>3, OneThread, FormFrame
<1>6. ASSUME NEW time \in Time \cup {Null}, UpdateReality(q, time)  PROVE FormInv'
  <2> DEFINE a == [y.apply EXCEPT !.reality = time]
             x == [y EXCEPT !.pc = "completeReportBack", !.apply = y.apply]
  <2>1. /\ vac' = Update(y.row, a) /\ Becomes(q, x)
        /\ y.row \in DOMAIN vac /\ y.apply # Null
    BY <1>1, <1>6 DEF UpdateReality, GoOn, Becomes, At, Grounded, RowHandling
  <2>2. a \in Row /\ OneForm(a)
    BY <1>2, <2>1 DEF OneForm, Row
  <2>3. x.apply = y.apply
    BY <1>1 DEF Request
  <2>4. Whole(x)
    BY <1>1, <2>3 DEF Whole
  <2> HIDE DEF a, x
  <2> QED  BY <1>1, <2>1, <2>2, <2>4, UpdateOneForm, OneThread, FormFrame
<1>7. ASSUME NEW f \in Form, NEW answer \in Answer, UpdateComplete(q, f, answer)
      PROVE  FormInv'
  <2> DEFINE a == Modified(y.apply, f)
  <2>1. /\ vac' = vac \/ vac' = Update(y.row, a)
        /\ Return(q)
        /\ Becomes(q, Idle) /\ Whole(Idle)
        /\ y.row \in DOMAIN vac /\ y.apply # Null
    BY <1>1, <1>7 DEF UpdateComplete, Return, Becomes, At, Grounded, RowHandling, Whole, Idle
  <2>2. a \in Row /\ OneForm(a)
    BY <1>2, <2>1, FormAssumption DEF Modified, OneForm, Row
  <2> HIDE DEF a
  <2>3. CASE vac' = vac
    BY <1>1, <2>1, <2>3, OneThread, FormFrame
  <2>4. CASE vac' = Update(y.row, a)
    BY <1>1, <2>1, <2>2, <2>4, UpdateOneForm, OneThread, FormFrame
  <2> QED  BY <2>1, <2>3, <2>4
<1>8. CASE StartRefused(q) \/ CompleteReportBack(q) \/ \E answer \in Answer : CompleteAudit(q, answer)
  BY <1>8, ReturnForm DEF StartRefused, CompleteReportBack, CompleteAudit
<1> QED  BY <1>3, <1>4, <1>5, <1>6, <1>7, <1>8 DEF Step

\* Dates, type and reason of a row are from one form in every reachable state.
THEOREM RowsAreFromOneForm == Spec => []RowFromOneForm
<1>1. Init => FormInv
  <2> SUFFICES ASSUME Init PROVE FormInv
    OBVIOUS
  <2>1. DOMAIN vac = {} /\ \A q \in Thread : request[q].apply = Null
    BY DEF Init, Idle
  <2> QED  BY <2>1, InitOwnership DEF FormInv, RowFromOneForm, Whole
<1>2. FormInv /\ [Next]_vars => FormInv'
  <2> SUFFICES ASSUME FormInv, [Next]_vars PROVE FormInv'
    OBVIOUS
  <2>1. OwnershipInv'
    BY NextOwnership DEF FormInv
  <2>2. ASSUME NEW q \in Thread, Fail(q)  PROVE FormInv'
    BY <2>1, <2>2, ReturnForm DEF Fail
  <2>3. CASE Admin \/ UNCHANGED vars
    <3>1. UNCHANGED <<vac, request>>
      BY <2>3 DEF Admin, Deploy, DeleteDeploy, vars
    <3> QED  BY <2>1, <3>1, FormFrame
  <2> QED  BY <2>1, <2>2, <2>3, ArrivalForm, StepForm DEF Next
<1>3. FormInv => RowFromOneForm
  BY DEF FormInv
<1> QED  BY <1>1, <1>2, <1>3, PTL DEF Spec

(***************************************************************************)
(* The instance's id in the row, where nothing fails or is deleted.        *)
(***************************************************************************)

Saving(r) == \E q \in Thread : At(q, "saveInstanceId") /\ request[q].row = r

\* The id p is in a row or an object for row r, or will come with the last write
\* of startWorkflow, or that write came late.
Recorded(pid, p, r) == pid = p \/ r \in late \/ Saving(r)

\* Handlers that read a row before they write it have taken a later task than
\* the first; what they read is recorded in the same sense.
Touched(x) == x.pc \in RowHandling => ~Untouched(x.task.pid)
Copied(x) == x.pc \in {"updateReality", "updateComplete"} =>
               Recorded(x.apply.pid, x.task.pid, x.row)

RecordInv ==
  /\ \A p \in DOMAIN ins : ins[p].task # 0
  /\ \A p \in DOMAIN ins : Recorded(vac[ins[p].key].pid, p, ins[p].key)
  /\ \A q \in Thread : Touched(request[q]) /\ Copied(request[q])

\* Both invariants of the step before, as one assumption.
CalmInv == ApprovalInv /\ RecordInv

LEMMA CalmFacts ==
  ASSUME CalmInv, NEW q \in Thread
  PROVE  /\ TypeOK /\ request[q] \in Request /\ Grounded(request[q])
         /\ Touched(request[q]) /\ Copied(request[q])
         /\ request[q].pc \in RowHandling =>
              /\ request[q].row \in DOMAIN vac /\ request[q].task # Null
              /\ request[q].task.pid \in DOMAIN ins
              /\ ins[request[q].task.pid].key = request[q].row
<1>1. /\ TypeOK /\ request[q] \in Request /\ Grounded(request[q]) /\ Fine(request[q])
      /\ Touched(request[q]) /\ Copied(request[q])
  BY ApprovalFacts DEF CalmInv, RecordInv
<1> QED  BY <1>1 DEF Grounded, Fine, Reports, Writes, RowHandling

\* The threads that save an id keep doing it, but for the one that moves.
LEMMA SavingStays ==
  ASSUME NEW q \in Thread, \A o \in Thread : o # q => request'[o] = request[o],
         request[q].pc # "saveInstanceId", NEW r, Saving(r)
  PROVE  Saving(r)'
BY DEF Saving, At

\* The instances stay or move on.
Older ==
  /\ DOMAIN ins \subseteq DOMAIN ins'
  /\ \A p \in DOMAIN ins : /\ ins'[p].key = ins[p].key /\ ins'[p].task # 0
                           /\ Untouched(p)' => Untouched(p)

\* What a step may do to the instances, the rows and the threads.
LEMMA RecordFrame ==
  ASSUME CalmInv, NEW q \in Thread, request[q].pc # "saveInstanceId",
         \A o \in Thread : o # q => request'[o] = request[o],
         late' = late, Older,
         \A p \in DOMAIN ins : \/ vac'[ins[p].key].pid = vac[ins[p].key].pid
                               \/ Recorded(vac'[ins[p].key].pid, p, ins[p].key),
         \A p \in DOMAIN ins' \ DOMAIN ins :
           ins'[p].task # 0 /\ (Recorded(vac[ins[p].key].pid, p, ins[p].key))',
         Touched(request[q])', Copied(request[q])'
  PROVE  RecordInv'
<1>1. \A pid, p, r : Recorded(pid, p, r) => (pid = p \/ r \in late' \/ Saving(r)')
  BY SavingStays DEF Recorded
<1>2. \A p \in DOMAIN ins' : ins'[p].task # 0
  BY DEF Older
<1>3. ASSUME NEW p \in DOMAIN ins'
      PROVE  Recorded(vac[ins[p].key].pid, p, ins[p].key)'
  <2>1. CASE p \in DOMAIN ins
    <3>1. Recorded(vac'[ins[p].key].pid, p, ins[p].key)
      BY <2>1 DEF CalmInv, RecordInv
    <3>2. ins'[p].key = ins[p].key
      BY <2>1 DEF Older
    <3> QED  BY <1>1, <3>1, <3>2 DEF Recorded
  <2> QED  BY <2>1
<1>4. ASSUME NEW o \in Thread  PROVE Touched(request[o])' /\ Copied(request[o])'
  <2>1. CASE o # q
    <3>1. /\ request'[o] = request[o] /\ Touched(request[o]) /\ Copied(request[o])
          /\ request[o].pc \in RowHandling => request[o].task.pid \in DOMAIN ins
      BY <2>1, CalmFacts
    <3>2. Touched(request[o])'
      BY <3>1 DEF Touched, Older
    <3>3. Copied(request[o])'
      BY <1>1, <3>1 DEF Copied, Recorded
    <3> QED  BY <3>2, <3>3
  <2> QED  BY <2>1
<1> QED  BY <1>2, <1>3, <1>4 DEF RecordInv

LEMMA SameOlder == CalmInv /\ UNCHANGED ins => Older
BY DEF CalmInv, RecordInv, Older, Untouched

LEMMA AttemptOlder ==
  ASSUME CalmInv, NEW t \in TaskId, NEW answers \in [Variable -> Answer], Attempt(t, answers)
  PROVE  Older /\ DOMAIN ins' = DOMAIN ins
<1>1. CASE UNCHANGED ins
  BY <1>1, SameOlder
<1>2. ASSUME NEW to \in Node, Complete(t, answers, to)
      PROVE  Older /\ DOMAIN ins' = DOMAIN ins
  <2>1. /\ t.pid \in DOMAIN ins
        /\ ins' = [ins EXCEPT ![t.pid] = Arrive(ins[t.pid], answers, to)]
        /\ \A p \in DOMAIN ins : ins[p] \in Instance /\ ins[p].task # 0
    BY <1>2, ApprovalFacts DEF Complete, Completes, Live, CalmInv, RecordInv
  <2>2. /\ ins'[t.pid].key = ins[t.pid].key /\ ins'[t.pid].node = to
        /\ ins'[t.pid].task = IF to \in UserTask THEN ins[t.pid].task + 1 ELSE ins[t.pid].task
    BY <2>1 DEF Arrive, Instance
  <2>3. ins[t.pid].task \in Nat /\ ins[t.pid].task # 0
    BY <2>1 DEF Instance
  <2>4. ins'[t.pid].task # 0 /\ ~Untouched(t.pid)'
    BY <2>2, <2>3 DEF Untouched, UserTask
  <2>5. \A p \in DOMAIN ins : p # t.pid => ins'[p] = ins[p]
    BY <2>1
  <2> QED  BY <2>1, <2>2, <2>4, <2>5 DEF Older, Untouched
<1> QED  BY <1>1, <1>2 DEF Attempt

\* A thread that returns without writing a row.
LEMMA ReturnRecord ==
  ASSUME CalmInv, NEW q \in Thread, request[q].pc # "saveInstanceId", Return(q),
         UNCHANGED <<vac, late>>, Older, DOMAIN ins' = DOMAIN ins
  PROVE  RecordInv'
<1>1. request'[q] = Idle /\ \A o \in Thread : o # q => request'[o] = request[o]
  BY CalmFacts, OneThread DEF Return, Becomes
<1>2. Touched(request[q])' /\ Copied(request[q])'
  BY <1>1 DEF Touched, Copied, Idle, RowHandling
<1> QED  BY <1>1, <1>2, RecordFrame

\* A thread that takes a step without writing a row or touching an instance.
LEMMA QuietRecord ==
  ASSUME CalmInv, NEW q \in Thread, request[q].pc # "saveInstanceId",
         \A o \in Thread : o # q => request'[o] = request[o],
         UNCHANGED <<vac, ins, late>>, Touched(request[q])', Copied(request[q])'
  PROVE  RecordInv'
BY SameOlder, RecordFrame

LEMMA ArrivalRecord ==
  ASSUME Misrouted = FALSE, CalmInv, NEW q \in Thread, Arrival(q)
  PROVE  RecordInv'
<1>1. /\ TypeOK
      /\ \A p \in DOMAIN ins : ins[p].key \in DOMAIN vac
      /\ \A p \in DOMAIN ins : Recorded(vac[ins[p].key].pid, p, ins[p].key)
  BY ApprovalFacts DEF CalmInv, RecordInv
<1>2. request[q].pc # "saveInstanceId"
  BY DEF Arrival, SaveApply, Claim, FindTask, ReadSnapshot, Accepts, Idle
<1>3. ASSUME NEW u \in User, NEW f \in Form, SaveApply(q, u, f)  PROVE RecordInv'
  <2> DEFINE a == Submitted(u, f)
             x == [pc |-> "startProcess", task |-> Null, row |-> Len(vac) + 1, apply |-> a]
  <2>1. /\ vac' = Append(vac, a) /\ Becomes(q, x) /\ UNCHANGED <<ins, late>>
        /\ x.pc = "startProcess"
    BY <1>3 DEF SaveApply, Becomes
  <2>2. a \in Row
    BY FormAssumption DEF Submitted, Row
  <2> HIDE DEF a, x
  <2>3. \A r \in DOMAIN vac : vac'[r] = vac[r]
    BY <1>1, <2>1, <2>2, Appended DEF TypeOK
  <2>4. request'[q] = x /\ \A o \in Thread : o # q => request'[o] = request[o]
    BY <1>1, <2>1, OneThread
  <2>5. Touched(request[q])' /\ Copied(request[q])'
    BY <2>1, <2>4 DEF Touched, Copied, RowHandling
  <2> QED  BY <1>1, <1>2, <2>1, <2>3, <2>4, <2>5, SameOlder, RecordFrame
<1>4. ASSUME NEW p \in DOMAIN ins, NEW endpoint \in AuditEndpoint, Claim(q, p, endpoint)
      PROVE  RecordInv'
  <2> DEFINE x == [pc |-> endpoint, task |-> OpenTask(p), row |-> Null, apply |-> Null]
             i == [ins[p] EXCEPT !.assignee = Null]
  <2>1. /\ UNCHANGED <<vac, late>> /\ Becomes(q, x) /\ ins' = [ins EXCEPT ![p] = i]
        /\ x.pc \in AuditEndpoint
    BY <1>4 DEF Claim, Becomes
  <2>2. i.key = ins[p].key /\ i.node = ins[p].node /\ i.task = ins[p].task
    BY <1>1, InstanceType DEF Instance
  <2> HIDE DEF i, x
  <2>3. Older /\ DOMAIN ins' = DOMAIN ins
    BY <2>1, <2>2 DEF Older, Untouched, CalmInv, RecordInv
  <2>4. request'[q] = x /\ \A o \in Thread : o # q => request'[o] = request[o]
    BY <1>1, <2>1, OneThread
  <2>5. Touched(request[q])' /\ Copied(request[q])'
    BY <2>1, <2>4 DEF Touched, Copied, RowHandling, AuditEndpoint
  <2> QED  BY <1>2, <2>1, <2>3, <2>4, <2>5, RecordFrame
<1>5. ASSUME NEW p \in DOMAIN ins, FindTask(q, p)  PROVE RecordInv'
  <2> DEFINE x == [pc |-> "getRow", task |-> OpenTask(p), row |-> ins[p].key, apply |-> Null]
  <2>1. /\ UNCHANGED <<vac, ins, late>> /\ Becomes(q, x)
        /\ x.pc = "getRow" /\ x.task = OpenTask(p)
    BY <1>5 DEF FindTask, Becomes
  <2>2. ins[p].node = "reportback"
    BY <1>5 DEF FindTask, Accepts, MadeFor
  <2> HIDE DEF x
  <2>3. request'[q] = x /\ \A o \in Thread : o # q => request'[o] = request[o]
    BY <1>1, <2>1, OneThread
  <2>4. Touched(request[q])' /\ Copied(request[q])'
    BY <2>1, <2>2, <2>3, OpenTaskFields DEF Touched, Untouched, Copied, CalmInv
  <2> QED  BY <1>2, <2>1, <2>3, <2>4, QuietRecord
<1>6. ASSUME NEW p \in DOMAIN ins, ReadSnapshot(q, p)  PROVE RecordInv'
  <2> DEFINE r == ins[p].key
             x == [pc |-> "updateComplete", task |-> OpenTask(p), row |-> r, apply |-> Get(r)]
  <2>1. /\ UNCHANGED <<vac, ins, late>> /\ Becomes(q, x)
        /\ x.pc = "updateComplete" /\ x.task = OpenTask(p) /\ x.row = r /\ x.apply = Get(r)
    BY <1>6 DEF ReadSnapshot, Becomes
  <2>2. ins[p].node = "modifyapply"
    BY <1>6 DEF ReadSnapshot, Accepts, MadeFor
  <2>3. Recorded(Get(r).pid, p, r)
    BY <1>1, GetType
  <2> HIDE DEF x
  <2>4. request'[q] = x /\ \A o \in Thread : o # q => request'[o] = request[o]
    BY <1>1, <2>1, OneThread
  <2>5. OpenTask(p).pid = p
    BY OpenTaskFields DEF CalmInv
  <2>6. Touched(request[q])'
    BY <2>1, <2>2, <2>4, <2>5 DEF Touched, Untouched
  <2>7. Copied(request[q])'
    BY <1>2, <2>1, <2>3, <2>4, <2>5, SavingStays DEF Copied, Recorded
  <2> QED  BY <1>2, <2>1, <2>4, <2>6, <2>7, QuietRecord
<1> QED  BY <1>3, <1>4, <1>5, <1>6 DEF Arrival

\* The instance of a row is the one a thread that handles the row works on.
LEMMA TheInstance ==
  ASSUME CalmInv, NEW p1 \in DOMAIN ins, NEW p2 \in DOMAIN ins, ins[p1].key = ins[p2].key
  PROVE  p1 = p2
BY ApprovalFacts DEF CalmInv, OneInstancePerRow

\* The new instance is the row's, and its id is still to be saved.
LEMMA StartProcessRecord ==
  ASSUME CalmInv, NEW q \in Thread, StartProcess(q)
  PROVE  RecordInv'
<1> DEFINE n == Len(ins) + 1
           r == request[q].row
           a == [request[q].apply EXCEPT !.pid = n]
           x == [request[q] EXCEPT !.pc = "saveInstanceId", !.apply = a]
<1>1. /\ TypeOK /\ UNCHANGED <<vac, late>> /\ Becomes(q, x)
      /\ request[q].pc = "startProcess" /\ request[q] \in Request
  BY CalmFacts DEF StartProcess, GoOn, Becomes, At
<1>2. PICK i : ins' = Append(ins, i) /\ i.key = r /\ i.task = 1
  BY DEF StartProcess, StartProcessByKey, NewInstance
<1>3. /\ DOMAIN ins' = DOMAIN ins \cup {n}
      /\ ins'[n] = i
      /\ \A p \in DOMAIN ins : ins'[p] = ins[p]
  BY <1>1, <1>2 DEF TypeOK
<1>4. request'[q] = x /\ \A o \in Thread : o # q => request'[o] = request[o]
  BY <1>1, OneThread
<1>5. request'[q].pc = "saveInstanceId" /\ request'[q].row = r
  BY <1>1, <1>4 DEF Request
<1>6. \E o \in Thread : At(o, "saveInstanceId")' /\ request'[o].row = r
  BY <1>5 DEF At
<1>7. Older
  BY <1>3 DEF Older, Untouched, CalmInv, RecordInv
<1>8. Touched(request[q])' /\ Copied(request[q])'
  BY <1>5 DEF Touched, Copied, RowHandling
<1>9. ASSUME NEW p \in DOMAIN ins' \ DOMAIN ins
      PROVE  ins'[p].task # 0 /\ (Recorded(vac[ins[p].key].pid, p, ins[p].key))'
  <2>1. ins'[p].task = 1 /\ ins'[p].key = r
    BY <1>2, <1>3
  <2>2. (Recorded(vac[ins[p].key].pid, p, ins[p].key))'
    BY <1>6, <2>1 DEF Recorded, Saving
  <2> QED  BY <2>1, <2>2
<1> QED  BY <1>1, <1>4, <1>7, <1>8, <1>9, RecordFrame

\* The id is saved; every object that lacks it makes the write a late one.
LEMMA SaveInstanceIdRecord ==
  ASSUME CalmInv, NEW q \in Thread, SaveInstanceId(q)
  PROVE  RecordInv'
<1> DEFINE r == request[q].row
           a == request[q].apply
<1>1. /\ TypeOK /\ UNCHANGED ins /\ vac' = Update(r, a)
      /\ late' = IF Untouched(a.pid) THEN late ELSE late \cup {r}
      /\ Becomes(q, Idle)
      /\ request[q].pc = "saveInstanceId" /\ request[q] \in Request
      /\ Grounded(request[q])
  BY CalmFacts DEF SaveInstanceId, WriteStarted, Return, Becomes, At
<1>2. /\ r \in DOMAIN vac /\ a \in Row
      /\ a.pid \in DOMAIN ins /\ ins[a.pid].key = r
  BY <1>1 DEF Grounded, Request
<1>3. vac'[r].pid = a.pid /\ \A i \in DOMAIN vac : i # r => vac'[i] = vac[i]
  BY <1>1, <1>2, UpdateKeepsOwners
<1>4. request'[q] = Idle /\ \A o \in Thread : o # q => request'[o] = request[o]
  BY <1>1, OneThread
<1>5. \A i : i # r /\ Saving(i) => Saving(i)'
  BY <1>1, <1>4 DEF Saving, At
<1>6. \A pid, p, i : i # r /\ Recorded(pid, p, i) => (Recorded(pid, p, i))'
  BY <1>1, <1>5 DEF Recorded
<1>7. ASSUME NEW p \in DOMAIN ins'
      PROVE  (Recorded(vac[ins[p].key].pid, p, ins[p].key))'
  <2>1. p \in DOMAIN ins /\ ins'[p] = ins[p] /\ ins[p].key \in DOMAIN vac
    BY <1>1, ApprovalFacts DEF CalmInv
  <2>2. CASE ins[p].key = r
    <3>1. p = a.pid
      BY <1>2, <2>1, <2>2, TheInstance
    <3> QED  BY <1>3, <2>1, <2>2, <3>1 DEF Recorded
  <2>3. CASE ins[p].key # r
    <3>1. Recorded(vac[ins[p].key].pid, p, ins[p].key)
      BY <2>1 DEF CalmInv, RecordInv
    <3>2. vac'[ins'[p].key] = vac[ins[p].key]
      BY <1>3, <2>1, <2>3
    <3> QED  BY <1>6, <2>1, <2>3, <3>1, <3>2 DEF Recorded
  <2> QED  BY <2>2, <2>3
<1>8. ASSUME NEW o \in Thread  PROVE Touched(request[o])' /\ Copied(request[o])'
  <2>1. CASE o = q
    BY <1>4, <2>1 DEF Touched, Copied, Idle, RowHandling
  <2>2. CASE o # q
    <3>1. request'[o] = request[o] /\ Touched(request[o]) /\ Copied(request[o])
      BY <1>4, <2>2, CalmFacts
    <3>2. Touched(request[o])'
      BY <1>1, <3>1 DEF Touched, Untouched
    <3>3. CASE request[o].row = r /\ request[o].pc \in RowHandling
      <4>1. request[o].task.pid = a.pid
        BY <1>2, <3>3, CalmFacts, TheInstance
      <4>2. r \in late'
        BY <1>1, <3>1, <3>3, <4>1 DEF Touched
      <4> QED  BY <3>1, <3>2, <3>3, <4>2 DEF Copied, Recorded
    <3>4. CASE request[o].row # r \/ request[o].pc \notin RowHandling
      <4>1. Copied(request[o])'
        BY <1>6, <3>1, <3>4 DEF Copied, Recorded, RowHandling
      <4> QED  BY <3>2, <4>1
    <3> QED  BY <3>3, <3>4
  <2> QED  BY <2>1, <2>2
<1>9. \A p \in DOMAIN ins' : ins'[p].task # 0
  BY <1>1 DEF CalmInv, RecordInv
<1> QED  BY <1>7, <1>8, <1>9 DEF RecordInv

\* A row is written from an object, which has the id if the row had it.
LEMMA WriteRecorded ==
  ASSUME CalmInv, NEW q \in Thread, request[q].pc \in {"updateReality", "updateComplete"},
         NEW a \in Row, a.pid = request[q].apply.pid, vac' = Update(request[q].row, a)
  PROVE  \A p \in DOMAIN ins : \/ vac'[ins[p].key].pid = vac[ins[p].key].pid
                               \/ Recorded(vac'[ins[p].key].pid, p, ins[p].key)
<1> DEFINE r == request[q].row
<1>1. /\ TypeOK /\ r \in DOMAIN vac /\ request[q].task.pid \in DOMAIN ins
      /\ ins[request[q].task.pid].key = r /\ Copied(request[q])
  BY CalmFacts DEF RowHandling
<1>2. vac'[r].pid = a.pid /\ \A i \in DOMAIN vac : i # r => vac'[i] = vac[i]
  BY <1>1, UpdateKeepsOwners
<1>3. \A p \in DOMAIN ins : ins[p].key \in DOMAIN vac
  BY ApprovalFacts DEF CalmInv
<1>4. \A p \in DOMAIN ins : ins[p].key = r => p = request[q].task.pid
  BY <1>1, TheInstance
<1>5. Recorded(a.pid, request[q].task.pid, r)
  BY <1>1 DEF Copied
<1> QED  BY <1>2, <1>3, <1>4, <1>5

LEMMA StepRecord ==
  ASSUME CalmInv, NEW q \in Thread, Step(q)
  PROVE  RecordInv'
<1> DEFINE y == request[q]
<1>1. /\ TypeOK /\ y \in Request /\ Grounded(y) /\ Touched(y) /\ Copied(y)
      /\ y.pc \in RowHandling => /\ y.row \in DOMAIN vac /\ y.task # Null
                                 /\ y.task.pid \in DOMAIN ins
                                 /\ ins[y.task.pid].key = y.row
  BY CalmFacts
<1>2. y.task # Null => y.task \in TaskId
  BY <1>1 DEF Request
<1>3. CASE StartRefused(q)
  BY <1>3, ReturnRecord, SameOlder DEF StartRefused, At
<1>4. ASSUME NEW answer \in Answer, CompleteAudit(q, answer)  PROVE RecordInv'
  <2>1. /\ UNCHANGED <<vac, late>> /\ Attempt(y.task, AuditAnswers(q, answer)) /\ Return(q)
        /\ y.pc \in AuditEndpoint /\ y.task # Null
    BY <1>1, <1>4 DEF CompleteAudit, Grounded
  <2>2. AuditAnswers(q, answer) \in [Variable -> Answer]
    BY <2>1, AnswersType DEF AuditAnswers, CalmInv, ApprovalInv
  <2>3. Older /\ DOMAIN ins' = DOMAIN ins
    BY <1>2, <2>1, <2>2, AttemptOlder
  <2> QED  BY <2>1, <2>3, ReturnRecord DEF AuditEndpoint
<1>5. CASE GetRow(q)
  <2> DEFINE x == [y EXCEPT !.pc = "updateReality", !.apply = Get(y.row)]
  <2>1. UNCHANGED <<vac, ins, late>> /\ Becomes(q, x) /\ y.pc = "getRow"
    BY <1>5 DEF GetRow, GoOn, Becomes, At
  <2>2. /\ x.pc = "updateReality" /\ x.task = y.task
        /\ x.row = y.row /\ x.apply = Get(y.row)
    BY <1>1 DEF Request
  <2> HIDE DEF x
  <2>3. request'[q] = x /\ \A o \in Thread : o # q => request'[o] = request[o]
    BY <1>1, <2>1, OneThread
  <2>4. Touched(request[q])'
    BY <1>1, <2>1, <2>2, <2>3 DEF Touched, Untouched, RowHandling
  <2>5. Recorded(Get(y.row).pid, y.task.pid, y.row)
    BY <1>1, <2>1, GetType DEF CalmInv, RecordInv, RowHandling
  <2>6. Copied(request[q])'
    BY <2>1, <2>2, <2>3, <2>5, SavingStays DEF Copied, Recorded
  <2> QED  BY <2>1, <2>3, <2>4, <2>6, QuietRecord
<1>6. ASSUME NEW time \in Time \cup {Null}, UpdateReality(q, time)  PROVE RecordInv'
  <2> DEFINE a == [y.apply EXCEPT !.reality = time]
             x == [y EXCEPT !.pc = "completeReportBack", !.apply = y.apply]
  <2>1. /\ UNCHANGED <<ins, late>> /\ vac' = Update(y.row, a) /\ Becomes(q, x)
        /\ y.pc = "updateReality"
    BY <1>6 DEF UpdateReality, GoOn, Becomes, At
  <2>2. a \in Row /\ a.pid = y.apply.pid
    BY <1>1, <2>1 DEF Grounded, RowHandling, Request, Row
  <2>3. x.pc = "completeReportBack" /\ x.task = y.task
    BY <1>1 DEF Request
  <2> HIDE DEF a, x
  <2>4. request'[q] = x /\ \A o \in Thread : o # q => request'[o] = request[o]
    BY <1>1, <2>1, OneThread
  <2>5. Touched(request[q])' /\ Copied(request[q])'
    BY <1>1, <2>1, <2>3, <2>4 DEF Touched, Untouched, Copied, RowHandling
  <2>6. \A p \in DOMAIN ins : \/ vac'[ins[p].key].pid = vac[ins[p].key].pid
                              \/ Recorded(vac'[ins[p].key].pid, p, ins[p].key)
    BY <2>1, <2>2, WriteRecorded
  <2> QED  BY <2>1, <2>4, <2>5, <2>6, SameOlder, RecordFrame
<1>7. CASE CompleteReportBack(q)
  <2>1. /\ UNCHANGED <<vac, late>> /\ Attempt(y.task, ins[y.task.pid].answers) /\ Return(q)
        /\ y.pc = "completeReportBack" /\ y.task # Null
    BY <1>1, <1>7 DEF CompleteReportBack, At, RowHandling
  <2>2. ins[y.task.pid].answers \in [Variable -> Answer]
    BY <2>1, AnswersType DEF CalmInv, ApprovalInv
  <2>3. Older /\ DOMAIN ins' = DOMAIN ins
    BY <1>2, <2>1, <2>2, AttemptOlder
  <2> QED  BY <2>1, <2>3, ReturnRecord
<1>8. ASSUME NEW f \in Form, NEW answer \in Answer, UpdateComplete(q, f, answer)
      PROVE  RecordInv'
  <2> DEFINE a == Modified(y.apply, f)
             answers == [ins[y.task.pid].answers EXCEPT !["reapply"] = answer]
  <2>1. /\ UNCHANGED late /\ Attempt(y.task, answers) /\ Return(q)
        /\ vac' = vac \/ vac' = Update(y.row, a)
        /\ y.pc = "updateComplete" /\ y.task # Null
    BY <1>1, <1>8 DEF UpdateComplete, Attempt, At, RowHandling
  <2>2. answers \in [Variable -> Answer]
    BY <2>1, AnswersType DEF CalmInv, ApprovalInv
  <2>3. Older /\ DOMAIN ins' = DOMAIN ins
    BY <1>2, <2>1, <2>2, AttemptOlder
  <2>4. a \in Row /\ a.pid = y.apply.pid
    BY <1>1, <2>1, FormAssumption DEF Modified, Grounded, RowHandling, Request, Row
  <2> HIDE DEF a
  <2>5. request'[q] = Idle /\ \A o \in Thread : o # q => request'[o] = request[o]
    BY <1>1, <2>1, OneThread DEF Return, Becomes
  <2>6. Touched(request[q])' /\ Copied(request[q])'
    BY <2>5 DEF Touched, Copied, Idle, RowHandling
  <2>7. \A p \in DOMAIN ins : \/ vac'[ins[p].key].pid = vac[ins[p].key].pid
                              \/ Recorded(vac'[ins[p].key].pid, p, ins[p].key)
    BY <2>1, <2>4, WriteRecorded
  <2> QED  BY <2>1, <2>3, <2>5, <2>6, <2>7, RecordFrame
<1> QED
  BY <1>3, <1>4, <1>5, <1>6, <1>7, <1>8, StartProcessRecord, SaveInstanceIdRecord DEF Step

\* In a server that neither fails nor deletes deployments, the row of every
\* instance names it from startWorkflow's last write on, unless that came late.
THEOREM IdsAreRecorded ==
  ASSUME Misrouted = FALSE
  PROVE  CalmSpec => []InstanceIdRecorded
<1>1. Init => CalmInv
  <2> SUFFICES ASSUME Init PROVE RecordInv
    BY InitApproval DEF CalmInv
  <2>1. DOMAIN ins = {} /\ \A q \in Thread : request[q].pc = "idle"
    BY DEF Init, Idle
  <2> QED  BY <2>1 DEF RecordInv, Touched, Copied, RowHandling
<1>2. CalmInv /\ [CalmNext]_vars => CalmInv'
  <2> SUFFICES ASSUME CalmInv, [CalmNext]_vars PROVE CalmInv'
    OBVIOUS
  <2>1. [Next]_vars
    BY DEF CalmNext, Next
  <2>2. ApprovalInv'
    BY <2>1, NextApproval DEF CalmInv
  <2>3. RecordInv'
    <3>1. CASE CalmNext
      BY <3>1, ArrivalRecord, StepRecord DEF CalmNext
    <3>2. CASE UNCHANGED vars
      BY <3>2
      DEF vars, CalmInv, RecordInv, Recorded, Saving, At, Touched, Untouched, Copied
    <3> QED  BY <3>1, <3>2
  <2> QED  BY <2>2, <2>3 DEF CalmInv
<1>3. CalmInv => InstanceIdRecorded
  BY DEF CalmInv, RecordInv, Recorded, Saving, InstanceIdRecorded
<1> QED  BY <1>1, <1>2, <1>3, PTL DEF CalmSpec
=============================================================================
