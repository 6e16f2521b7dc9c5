# TLA+ models of the leave demo

The program is a small office system: employees submit leave requests, which an
Activiti process carries through two audits, a possible revision and a report
back. Around it are login with one session per user (Shiro over Redis), a cache
of permissions, the administration of users, roles and permissions, and a page
of employees (MyBatis over MySQL). The pages are built on a DataTables table and
a Parsley form, both kept in the repository.

## 1. Inventory

| Component | State | Operations | Talks to |
|---|---|---|---|
| Leave process (`deployments/leave.bpmn`) | none: the definition of tasks, gateways, flows | - | the engine |
| Leave service (`VacationServiceImpl`, `VacationMapper.xml`) | table `T_VACATION` | `startWorkflow`, `completeReportBack`, `updateComplete`; lists | engine, MySQL |
| Leave controller (`ActivitiController`) | none of its own | submit, claim and complete the two audits, report back, modify, upload and delete deployments; lists, history, diagrams | leave service, engine |
| Activiti engine (library) | deployments, process instances, tasks, variables | start, claim, complete, delete | MySQL |
| Session control (`KickoutSessionControlFilter`) | a queue of session ids per user, in Redis | run before every request | session store |
| Session store (`RedisSessionDAO`, `WorkAloneRedisManager`) | sessions in Redis, a copy per thread for a second | create, read, update, delete, list | Redis |
| Authorization (`ShiroDbRealm`, `RedisCache`) | permissions per user, cached in Redis for 30 minutes | authenticate, authorize, clear | user service, Redis |
| Users, roles, permissions (`UserServiceImpl`, `RoleServiceImpl`, `SystemController`) | `T_USER`, `T_ROLE`, `T_PERMISSION` and two link tables | add, update, delete | MySQL |
| Employees (`EmpServiceImpl`, `BaseServiceImpl`, `EmpApiController`) | table `T_EMP` | save, delete, batch insert, list a page and count | MySQL |
| Login (`LoginController`) | the session's principal | login, logout | realm, session store |
| Employees page (`js/default.js`) | the table shown, dialogs, form, saved state | page, delete, add, edit, reload | employees, table, form |
| Table widget (`datatables.net`, `datatables.net-bs`) | rows and indexes, order, columns, options, registry, saved state | the API, clicks, callbacks | server, `localStorage` |
| Form validation (`parsley.js`, its language files) | values, errors, checks, pending answers, messages | typing, submitting, checks added and bound, files loaded | server |
| Login page, value objects, utilities | one request; none | - | - |

What is hard, by component:

* **Leave.** Every service method runs on a pool of server threads. The
  transaction advice of `spring-mybatis.xml` matches method names: only
  `updateComplete` (`update*`) is one transaction; each statement and engine
  call of `startWorkflow`, `completeReportBack`, `deptcomplete` and `hrcomplete`
  commits on its own. Rows are read into an object, changed there and written
  back whole, so objects are stale. Failures between commits leave half of an
  operation. Tasks are sent to whichever endpoint the client names. Process
  variables survive from one round to the next.
* **Sessions.** The session queue is read, changed and written without a lock; a
  session has a copy per thread that another thread's change does not reach;
  `SET` and `EXPIRE` are two commands.
* **Administration.** Roles are looked up by name and linked afterwards; what is
  cached outlives what the administrator changed; the mappers name columns the
  tables do not have.
* **Employees.** Batches call `commit()` inside a transaction they do not own;
  the page and its count are two reads; the page's requests overlap, are
  answered in any order or not at all.
* **Table widget.** Several representations of the same rows (objects, two
  index arrays, nodes, cached texts and keys, saved state) that different calls
  bring up to date at different times; page arithmetic at its limits.
* **Form validation.** Remote checks answer late; checks are bound again and
  again from attributes that change; language files come in any order.

The `hazards` of `PROJECT.json` list these one by one, at the line where they
bite, with the properties that would catch them.

## 2. Modules

| Module | Models | Uses |
|---|---|---|
| `LeaveProcess` | the BPMN definition as data | |
| `LeaveFlow` | what is promised for each application | `LeaveProcess` |
| `VacationService` | leave service and controller over table and engine | `LeaveProcess` |
| `VacationProperties`, `MCVacationService` | its properties (with the refinement of `LeaveFlow`), its instances | `VacationService` |
| `RedisSessions`, `MCRedisSessions` | sessions in Redis command by command | |
| `KickoutControl`, `MCKickoutControl` | the limit on a user's sessions | |
| `UserAdmin` | administration of users, roles and permissions | |
| `AuthorizationCache`, `MCAdministration` | permission checks and their cache, over the same tables | `UserAdmin` |
| `EmpRoster` | employees on the server | `PagingOps` |
| `EmpPage`, `MCEmpPage` | the employees page over it | `EmpRoster` |
| `PagingOps` | page arithmetic of the table | |
| `TablePaging` | pager, page length, removal of rows | `PagingOps` |
| `TableRows` | rows, search, sort, draw | `PagingOps` |
| `TableColumns` | headings with spans, visibility, child rows | `PagingOps` |
| `TableSetup` | construction, language, saved state, destruction | `PagingOps` |
| `TableOptions` | option names of two generations, column definitions | |
| `TableOrder` | clicks, fixed order, labels | `PagingOps` |
| `TableCells` | cells, types, sort keys, selectors | |
| `ParsleyForm` | validation and submission | |
| `ParsleyConstraints` | the checks of a field and their registry | |
| `ParsleyMessages` | the catalog of messages, language file by language file | |
| `PageWidgets` | one widget per behaviour | `TablePaging` and instances of the others |
| `MCPageWidgets` | its instances for TLC | `PageWidgets` |
| `VacationProofs`, `SessionsProofs`, `KickoutProofs`, `AdministrationProofs`, `EmpPageProofs` | theorems | the module each is about |
| `TableProofs` | theorems on the widgets: pager, columns and child rows, construction, options and order | `PageWidgets` |
| `PageProofs` | theorems on the widgets: rows and cells, form, checks of a field, messages; and those about all of them | `TableProofs` |
| `ModelLemmas` | lemmas for the last three: induction, functions defined by recursion, sequences, numbers in order, page arithmetic | `PagingOps` |

`EmpPage` composes page and server: the page's requests are answered by the
actions of `EmpRoster`, while other administrators and a batch change the table.
`AuthorizationCache` composes the cache with the requests of `UserAdmin`.

## 3. The leave system

### State and actions

| Model | Code |
|---|---|
| `vac[i]` | the row of `T_VACATION` with id `i`; start and end date are one field, so are the two reported times; `apply_time` is never read and left out |
| `ins[p]` | the engine's process instance `p`: business key, applicant, node, number of tasks issued, variables, assignee of the open task, deployment |
| `deployed[d]` | whether version `d` of the process is still deployed |
| `request[q]` | the request thread `q` is serving: where it is, the task id, the row id and the `VacationRequest` object it holds |
| `late` | history: rows whose `startWorkflow` made its last write after the first task was completed. No action reads it |

| Action | Code |
|---|---|
| `SaveApply`, `StartProcess` / `StartRefused`, `SaveInstanceId` | the three commits of `startWorkflow` |
| `Claim`, `CompleteAudit` | the two engine calls of `deptcomplete` and `hrcomplete` |
| `FindTask`, `GetRow`, `UpdateReality`, `CompleteReportBack` | the steps of `completeReportBack` |
| `ReadSnapshot`, `UpdateComplete` | the transaction `updateComplete`: what it reads is its snapshot, what it writes appears at its commit |
| `Deploy`, `DeleteDeploy` | `uploadWorkflow` (and the deployment at start-up), `deleteDeploy` |
| `Fail` | an exception of database or engine, or a crash: the thread stops, what it committed stays |

Two points where the code differs from what one expects, and the model follows
the code: the result map of `VacationMapper.xml` (line 12) puts the column
`reason` into `leaveType`, so `Get` does too; and the session attribute
`username` that the audits claim with is never set, so `Claim` takes the
assignee away instead of setting it.

`reportbackcomplete` passes the request's parameters on unchecked, so the times
that `UpdateReality` stores may be null; such a report closes an application
without times, and nothing is claimed of what a report says.

An answer is `"true"`, `"false"` or `"neither"`: everything else a client may
send makes the gateway throw, and the engine rolls back.

### Properties

| Property | Claim |
|---|---|
| `InstanceHasRow`, `OneInstancePerRow`, `PidIsOwn` | rows and process instances are paired one to one, whatever threads do and wherever they fail |
| `RowFromOneForm` | no interleaving of writers mixes two forms in a row |
| `ImplementsLeaveFlow` | each application is submitted, started at most once, moved along the flows one task at a time, left alone after its end |
| `ApprovalsStand` | who waits for personnel was approved by the department, who waits for the report was approved by both, although variables survive rounds |
| `ReportedWasApproved` | reported times are there only where both departments approved and nothing can be modified any more |
| `ReportedTimesKept` | only a report changes the reported times: no object read before it, by a modification or another report, blanks them or brings others back |
| `HeldUntilClaimed` | wherever tasks are sent, the applicant's tasks come assigned to the applicant, and one is lost only to an audit endpoint that claims this very task |
| `FormFrozenDuringAudit` | from the first approval to the end the dates do not change |
| `InstanceIdRecorded`, `SavedIsStarted` | without failures, every row gets its instance and names it |

`FormFrozenDuringAudit`, `ReportedTimesKept` and `InstanceIdRecorded` except the
rows in `late`. That exception is the weak spot of the code: the last write of
`startWorkflow` stores the whole object the form was bound to. If the first
task is completed before that write, the write undoes what the later handlers
stored: the modified form, the reported times. All the violations TLC found
without the exception begin with that write.

### Runs

| Run | Instance | Bounds and why they suffice |
|---|---|---|
| `vacation_matched` | 2 threads, 1 applicant, 2 forms, every task at its endpoint | `MaxRow` 1, `MaxTask` 7: two refused rounds and an accepted one, so that variables of an earlier round are still set; `MaxDeploy` 2: a deletion and a redeployment |
| `vacation_misrouted` | the same with any task at any endpoint: an audit endpoint may take an applicant's task away and fail to complete it | `MaxTask` 4, since tasks may skip rounds |
| `vacation_two` | 2 threads, 2 applicants, 1 form | `MaxRow` 2: two rows racing for their instance ids; `MaxTask` 3 |
| `vacation_calm` | 2 threads, 2 rows, no failures, no deletion | `MaxTask` 4; fair threads |

Two threads suffice to have one handler's stale object meet another handler's
write; each handler touches one row and one instance. `CHECK_DEADLOCK` is off
because an idle server whose bounded supply of rows, tasks and deployments is
used up has nothing left to do. Threads, and applicants where there are two,
are interchangeable, so the safety runs use symmetry; the liveness run does not.

**Fairness** (`CalmSpec`): weak fairness of every thread's `Step`. A servlet
thread that has taken a request runs on until it returns; nothing makes a
client send a request, so `Arrival` has no fairness.

## 4. Sessions

### The session store (`RedisSessions`)

| Model | Code |
|---|---|
| `redis[s]`, `ttl` | the value of the key of session `s`; the keys that have a time to live |
| `copies[q][s]` | `sessionsInThread`: the object thread `q` keeps for up to a second |
| `request[a]` | the write an actor is in the middle of: SET, then EXPIRE, then DEL if the session ends, or the next part of a logout |
| `validator` | the run of the validation scheduler: keys to read, invalid sessions found |
| `gone`, `missed`, `left`, `broken` | history: ended sessions; sessions of which another thread went on with an older open object; sessions whose principal a logout has taken away; sessions left between SET and EXPIRE |

`DoCreate`, `ReadSession`, `Touch`, `Login`, `Logout`, `Stop`, `Invalidate` are
what Shiro's session manager does with the DAO. A logout is three writes of one
session, each with its own lookup, SET and EXPIRE: the mark of authentication
goes (`Logout`), then the principal (`RemovePrincipals`, or `NothingToRemove`
where another thread was faster), while the session is still open; then it is
stopped and deleted (`Stop`). What throws on the way is logged and the logout
goes on (`AfterThrow`, `LogoutEnds`). `Set`, `Expire`, `Del` are the
commands of `WorkAloneRedisManager`; `Scan`, `Fetch`, `Validate`, `EndRun`,
`NullSession` are `getActiveSessions` and the scheduler. Any command may throw
(`Throws`, `RunThrows`) and the server may be restarted (`Restart`). SCAN is one
step: a key that comes or goes during it is as if it came or went before or
after.

* `EndedStaysEnded`: a session that ended does not come back, and an open one that
  was logged in does not lose its principal before a logout takes it away
  (`left`), except where a thread went on with an
  older open object (`missed`). Without the exception TLC shows a logged-out
  session that comes back with the touch of a slower request.
* `OnlyFailuresLast`: a key without a time to live is between SET and EXPIRE or
  was left there by a failure.
* `AbandonedSessionEnds`: what nobody uses disappears, also a key without a time
  to live, since the scheduler finds its session timed out; unless the scheduler
  died. It dies of the first exception: `scheduleAtFixedRate` runs no more, and
  a key that expires between SCAN and GET is enough for one.

| Run | Instance | Why it suffices |
|---|---|---|
| `sessions_shared` | 3 threads, 1 session, 1 principal | a writer, a thread with an older object and a third that reads either; sessions share nothing but the threads |
| `sessions_life` | 1 thread, 2 sessions | one session's missing key ends the run that would have deleted the other |

**Fairness** (`LifeSpec`): weak fairness of commands and of the parts of a
logout (a thread that has begun goes on), of the two timeouts, and of the
scheduler. Nothing makes a client send a request or a copy expire early.

### The session limit (`KickoutControl`)

Here an object is written, or a key deleted, in one step, and sessions do not
time out. A request goes through `Arrive` (Shiro finds the session), `Touch`,
and the steps of `onAccessDenied`: `ReadQueue`, `Push`, `Kick` and `StopVictim`
for each session too many, `WriteQueue`, and `LetThrough`, `Redirect` or
`CheckThrows`; then `Handle` or `Logout`. Logging in does not pass the filter:
`Login` makes a session, `Relogin` gives the browser's session to another user.
`Fail` is an exception of Redis: logged at the touch, ignored while a session is
stopped, the end of the request elsewhere.

`maxSession` and `kickoutAfter` are variables that `Init` chooses and no step
changes. `MCKickoutControl` restricts the specification to four settings: as wired
(2 threads, 2 sessions, 1 user, limit 1: two racing requests and the objects
each thread keeps of the other's session); the same with `kickoutAfter`; two
sessions allowed (1 thread, 3 sessions: one more than allowed, with logged-out
ids in the queue); two users (1 thread, 2 sessions that change hands in any
order). Run `kickout` checks in them

* `LimitHolds`: between requests, at most `maxSession` of a user's sessions that
  were let through are open. The count (`admitted`) starts again when two
  requests overlap or one fails, because then the limit may be broken: two
  requests that read the same queue leave two open sessions. The property says
  that the next request of each session repairs it.
* `LetThroughStays`: who was let through, alone, is open and in the queue.
* `NoNeedlessKick`: with one session allowed, a session is stopped only for another
  open one of its own user. It excepts sessions that changed their user: their
  ids stay in the queue of the first. With two sessions allowed it does not
  hold: the ids of logged-out sessions stay in the queue and push out open ones.
  With `kickoutAfter` it does not either: a session that is gone keeps its
  place, and a newcomer is stopped for it. It is not claimed there.

As the repository is wired none of this is reached. `ShiroDbRealm` makes the
user name the principal, the filter casts it to `User`, and the comment above
the cast says the realm passes the entity. `RealmSpec` models the realm as it
is; run `kickout_wired` shows the first request of a logged-in user end with the
exception (`PrincipalIsTheEntity` violated). `SettingsSpec` models the filter
with the realm its comment describes, and so says what the filter does once
either side is corrected.

## 5. Administration and permissions

In `UserAdmin` a request about a user begins its transaction (`AddUser`,
`UpdateUser`, `DeleteUser`), looks up its roles (`FindRoles`) and commits
(`CommitUser`) or fails; one about the permissions of a role (`UpdateRole`,
`FindRole`, `CommitRole`) likewise; the others are one step. Selects read a
snapshot, writes appear at the commit, and an `UPDATE` or `DELETE` of a user
locks its row. `AuthorizationCache` adds
`hasPermission`: answered from Redis, or loaded by one statement for the user and
one per role (`ReadUser`, `ReadRole`), then put by `SET` and `EXPIRE` (`Put`,
whose `EXPIRE` may fail). `Tick` is the clock.

The mappers do not fit the tables of `activiti.sql`: `T_USER.uid` is not
generated, `T_ROLE.role_desc` may not be null but `addRole` sends none, no table
has the column `roleid` that `RoleMapper.xml` (176-188) deletes by, and
`PermissionMapper.xml` (36-41) deletes from `T_PERMISSION` by a column of another
table. The variable `schema` says which tables the statements meet; on
`activiti.sql` these requests always fail and are rolled back, and a request
that is rolled back has no action.

* `RolesAsGiven`: however two requests about the same users interleave, a user's
  roles are those of one request, the last to commit.
* `GrantsExpire`: what was taken away from a user is granted for no longer than
  an entry lives and a load lasts, and nothing is granted that the user never
  had, although a load reads in several statements. An entry whose `EXPIRE`
  failed stays until the logout and is excepted. It is claimed on the tables of
  `activiti.sql`; where roles and their permissions can be changed, a load may
  join a role the user lost to a permission the role got later.

Run `administration`: two racing requests, two loads, two users, roles and
permissions, `Expire` 2 ticks and a load of at most one (an entry can expire
before, while and after another load runs). The cache runs on the tables of
`activiti.sql` only, where its property is claimed. Each request touches one
user or role, so two of them meet in every way. Deadlock is not checked: keys
are not given out twice, so the administrators run out of them.

## 6. Employees and their page

`EmpRoster` is `T_EMP`: `Insert` and `Delete` commit at once (`save` and
`deleteById` are inherited from `BaseServiceImpl`, outside the pointcut), the
batch of `saveBatch` is one transaction of Spring. That its own `commit()` every
500 rows ends nothing is an assumption: `SpringManagedTransaction.commit` does
nothing while a transaction of Spring is open; the repository does not show it,
and nothing is claimed of it. `EmpPage` is `initEmp`:

| Model | Code |
|---|---|
| `iDraw`, `iDisplayStart`, `iDisplayLength`, `records` | the fields of the DataTable's settings |
| `flight` | list requests under way; the server reads the page (`ListEmp`), then counts (`CountEmp`) |
| `shown` | the rows on the page and the draw they came from; history: the employees there were when the rows were read |
| `overlay`, `lost` | the spinner; history: the newest request that failed |
| `dialog`, `form`, `modal`, `calls` | the question before a deletion, the form and its window, saves and deletions under way |
| `saved`, `visit` | the state in `localStorage`; reloads |
| `gone` | history: the ids whose deletion was answered |

`Deliver` is the answer's timer: overlay off, draw, save, or nothing if a newer
request was sent. `Lose` is the error callback. `Turn` and `ChangeLength` are
the pager and the select, `AskDelete`, `Answer`, `OpenAdd`, `OpenEdit`,
`SubmitEmp` the handlers, `Succeed` and `Refuse` the callbacks of a call,
`Reload` a visit with the saved state.

* `ShowsCurrentPage`: once the newest request was answered, the saved state is the
  page the pager is on, and the rows shown are that page of the table as it was
  when they were read. A page that had vanished by then is excepted: PageHelper,
  told to be reasonable, answers with the rows of the last page, and the pager
  goes on to name the vanished one.
* `DeletedAreGone`: once the newest request was answered, no row is shown whose
  deletion was answered before, after a reload neither. It is why every answer to
  a deletion draws the table again, also while a list is under way: that list may
  have been read before the deletion.
* `AskedIsPage`: the server divides the start by the length; that is the page
  asked for, also after a restored state and a changed length.
* `DeletesAsked`: no row is deleted but those the question was about.
* `OverlayGoes` (liveness): the overlay never stays.
* `EditAddsNobody` is violated (run `employees_edit`): the hidden id of the form
  is not filled, since `loadJson` looks for a field named like the key, so the
  button labelled "修改" adds an employee.

Bounds: 3 employees, lengths 1 and 2, 3 draws per visit, one call under way, 2
visits, 2 events besides fetching (a change by someone else, a dialog, a form, a
reload, a batch). Three draws let an answer be overtaken twice; three employees
on pages of two let a page appear, shrink and vanish; two events put any one of
them before or after another. A batch is saved while the page rests. Deadlock is
not checked: a bounded supply of draws and events is used up.

**Fairness**: weak fairness of `Fetching`: the server goes on with a request it
has taken, and the browser runs the callback of an answer that has come. Nothing
makes the user do anything.

Left as they are, without a property: after a failed page request the pager
names one page and the rows are of another; a double click on the save button
adds two employees; a late answer to a save empties and closes a form opened for
another row meanwhile; after a batch deletion that fails halfway the table is
not drawn again; the overlay goes with the first of two answers; ordering by the
fourth column sends the column `id` (476); `updateByPrimaryKey`,
`importEmp` and `exportEmp` are called but not there.

## 7. The widgets of the pages

The two libraries are part of the repository and the pages' behaviour is
theirs, so they are modelled from their source. `PageWidgets` runs one widget
per behaviour: they share no state. What one run of TLC can then say in one
property it says for the widgets that have it.

| Property | Widget | Claim |
|---|---|---|
| `PagerAgrees`, `PlaceKept` | `TablePaging` | `page.info()` and the pager name one page and clicks reach every page; a change of length keeps the start record on the page, removals do not leave the page past the end |
| `RowsAgree` | `TableRows`, `TableCells`, `TableColumns` | indexes, nodes, caches, ids and selectors agree with the data, row by row and cell by cell; every node has the cells of the visible columns, every child row shown is behind its row |
| `RowsKept` | `TableRows`, `TableCells`, `TableOrder`, `ParsleyConstraints` | sorting is stable, removal takes the rows selected, a written cell reads back alone, a shift-click keeps the other columns' order, binding keeps the checks the page added |
| `HeadingsAgree` | `TableColumns` | laid out again, the heading has every visible column under its own cells |
| `SetupOnce`, `SavedStateKept` | `TableSetup` | a table is built once; the saved page survives restoring and destruction |
| `OptionsAndOrder` | `TableOptions`, `TableOrder` | which definition counts; what a label says a click will do |
| `FormChecked` | `ParsleyForm`, `ParsleyConstraints`, `ParsleyMessages` | a submission is let through only if the values it was made with were accepted, errors follow the typing, list and map of checks agree, every failed check has its message in the language asked for last |
| `TypesOK` | all | types; a field is marked as an error exactly when its last result was one, and lists errors of that result only |

The form keeps two results per field, the field's `validationResult` (`result`)
and the one its errors were last drawn for (`lastResult`). `_reflowUI` stores the
array itself in the second (910), so a failed remote check that is pushed to the
first (1651) is in both if they are the same array (`aliased`), and the next
comparison finds nothing new: the field with the remote check may be marked as
an error and list none. `TypesOK` excepts it from listing them all.

Bounds (run `page_widgets`): the pager with up to 9 records, pages of 1, 2, 5
and all, 7 numbers (so that the ellipsis is on either side or both); 3 rows with
3 ids and 2 values, searches that extend each other, where a table that defers
its nodes is searched with two rows and one that does not is sorted with three
(`RowsApart`: either is enough for what it does); 3 columns under two headings
with spans; 2 tables with 2 instances (the first made is `t1`: `FirstTable`, the
tables differ in name only); 2 options, definitions and columns; 3 columns to
order by; 2 cells below one object; a form of two fields with two submissions,
two remote requests and three waiting validations, an e-mail that two remote
answers are about and one that its own check rejects (`MistypedEarly`: typed
before the first submission, which is where it can meet an answer that is on its
way; `PasswordUnheard`: leaving a field nobody listens to changes nothing); 3
names of checks under 2 versions; all 68 language files, two of them at a time,
of one language besides English and Chinese. Faults of this code involve two
rows, two calls or two answers; the third row is the one that must not change.
Objects and ids of rows are interchangeable (symmetry). Deadlock is not checked:
instances, writes, requests and files are used up.

What the modelling showed and the properties leave out, since nothing in the
repository promises otherwise: `page()` does not reset the paging of the
selector as its comment says; a row that is given another id keeps its entry under
the old one, and a regular expression that extends another searches among its results
(`NewIds` is FALSE, searches are plain texts); the column-visibility handler does
not fit child rows if it is not attached; making another table while an
asynchronous state is loading throws (912), and so does destroying one that was
not built (9267); a draw before the state arrives uses up the restored start; an
options object used again keeps old values under names that are not brought
over; clicks change the caller's `order` array; with a fixed order or another
column's sort data the label may announce the wrong direction (6029-6157);
sort keys survive a change of type (6263). In Parsley, an older remote answer
shows its error under a newer value (`ErrorsFollowTyping` excepts the field with
the remote check); a submit that waits sends what the fields hold when the answer
comes, values typed meanwhile and never checked included (1227-1251:
`SentWasChecked` speaks of the values it was submitted with); a late failure may
mark a field without listing the error (see above); an attribute replaces
a check the page added, which is gone when the attribute goes (`AddedStays`
excepts it); a check added keeps its copy of a validator that was updated since;
`addCatalog` drops the messages of an extra file.

## 8. Proofs

For every value of the constants, TLAPS proves:

| Theorem | Says |
|---|---|
| `VacationProofs`: `TypeCorrect`, `InstancesHaveRows`, `RowsHaveOneInstance`, `PidsAreOwn` | types; rows and process instances are paired one to one, for any number of threads, applicants, forms, rows, deployments, misrouted or not |
| `VacationProofs`: `ApprovalsDoStand`, `ReportsAreApproved`, `ReportedTimesStay`, `FormStaysFrozen`, `IdsAreRecorded` | approvals, reported times, dates and ids of `VacationProperties`, where every task is sent to the endpoint made for it (`Misrouted = FALSE`; `IdsAreRecorded` also without failures and deletions, `CalmSpec`) |
| `VacationProofs`: `RowsAreFromOneForm`, `TasksHeldUntilClaimed`, `ServiceImplementsFlow` | `RowFromOneForm`; `HeldUntilClaimed`; the service implements `LeaveFlow`; all for any routing |
| `SessionsProofs`: `TypeCorrect`, `FailuresLast`, `EndedDoStay` | types; only a failure leaves a session without a time to live; `EndedStaysEnded` |
| `KickoutProofs`: `TypeCorrect`, `LimitDoesHold`, `LetThroughDoesStay`, `NoneNeedlessly` | types and the length of the queues; `LimitHolds`; `LetThroughStays`, for any number of threads, sessions, users and any setting; `NoNeedlessKick`, for finitely many sessions |
| `AdministrationProofs`: `TypeCorrect`, `NoMixture`, `GrantsDoExpire` | types; `RolesAsGiven`; `GrantsExpire` |
| `EmpPageProofs`: `PageTypeCorrect`, `CurrentPageShown`, `AskedPageTaken`, `OnlyAskedDeleted`, `DeletedDoGo` | types; `ShowsCurrentPage`, `AskedIsPage`, `DeletesAsked`, `DeletedAreGone` |
| `TableProofs`: `TypeCorrect`, `PageNumbersAgree`, `PlaceIsKept`, `PagersAgree` | types; `page.info()` and the pager agree; `PlaceKept`; `PagerAgrees`, if the pager has at least seven numbers |
| `TableProofs`: `SetupIsOnce`, `SavedStateIsKept` | `SetupOnce`, `SavedStateKept`, for any tables, options and starts |
| `TableProofs`: `HeadingsDoAgree` | `HeadingsAgree`, for any headings without holes whose cells are rectangles and whose rows have a cell of their own each |
| `TableProofs`: `OptionsAndOrderHold` | `OptionsAndOrder`, for any names, definitions, headings, orders and clicks |
| `PageProofs`: `RowsDoAgree` | `RowsAgree`, for any rows, values, searches, page length, columns and cells, where rows keep their ids (`~RowsNewIds`) |
| `PageProofs`: `RowsAreKept` | `RowsKept`, with ids that may change too |
| `PageProofs`: `FormIsChecked`, `PageTypeCorrect` | `FormChecked` (of the values a form was submitted with), for any fields, values, checks, attributes and language files; `TypesOK`, the types of all widgets |

The arguments:

* **Leave.** From `Ownership`: `Spec => []OwnershipInv`. The properties are not
  inductive alone, because rows and instances are written from what threads
  keep in their locals. `OwnershipInv` adds `Grounded` (the ids a thread works
  on exist, and the object it holds names its own row's instance or none) and
  `StartsFirst` (the row whose process a thread is about to start is that
  thread's alone and has no instance). One lemma per action.
* **Approvals.** `VacationMisrouted` shows that the properties fail when a task
  is sent to another endpoint, hence the assumption. `ApprovalInv` adds to the
  properties what each thread's locals say of the engine: a task it holds is of
  the kind its endpoint is made for or no longer open (`Routed`), whoever is in
  `completeReportBack` is about an approved application (`Reports`), whoever
  starts or modifies one holds an object without times (`Writes`). Every action
  is shown to be an `EngineStep` and a `TableStep`: what a step may do to one
  instance and to one row; that these two keep each part is then shown once, and
  not once per action. `FormFrozenDuringAudit` and `ReportedTimesKept` follow
  from the same two steps. `HeldUntilClaimed` needs no more than the types: a
  completion that is refused leaves the instance as it was, one that succeeds
  goes on to another task, which arrives assigned. `RowFromOneForm` has its own
  invariant `FormInv` (the objects held in locals come from one form as well),
  and `InstanceIdRecorded` has `RecordInv`: the id is in the row, or comes with
  `startWorkflow`'s last write, or that write came late; and so for every object
  that was read from the row.
* **Refinement.** `StageOf` gives an application the stage its instance is in, or
  the one it has without. At most one instance per row (`Ownership`) makes a
  step change one stage at a time; one lemma per action shows the step of
  `LeaveFlow` it is, or that it leaves all stages alone.
* **Sessions.** `Inv` adds `Writing`: a write in progress names a session id and
  carries a session. A key loses its time to live only by SET, whose actor then
  has EXPIRE before it, and leaves that place only by EXPIRE or by a failure
  that is recorded. `EndedStaysEnded` needs `KeptInv`: of a session that no
  write passed by, every kept object and every write in progress `Fits` what
  Redis has (it is not open where the session ended, and has a principal where
  the open session has one, unless a logout has taken it away), a write that
  deletes carries no open session, and an id that was not generated is nowhere.
  A SET keeps this because an open object that differs from the written one
  makes the session a missed one.
* **The session limit.** `LimitHolds` follows from `InQueue`: between a user's
  requests every admitted session that is open is in the queue, and a queue has
  at most `maxSession` ids. While a request is under way the session is where
  `Placed` says: in the queue, in the request's deque, or about to be put
  there. To see that a session which leaves the deque is not open any more,
  `KickInv` adds what a request that is `Alone` knows: after its touch its
  object is what Redis has (`Seeing`), and an open session is in the deque, later
  in the queue (`Staging`), the source of `LetThroughStays`. Both rest on
  `Owned`: a session that did not change its user is one user's in Redis, in
  every thread's object, request and queue, so that nobody else's request
  stops it. `NoNeedlessKick` uses `Owned` and the shape of a deque that is too
  long (`Fitted`: the own session first, another one last). A step of a
  request changes one session's object and one user's queue; what it has to
  respect is shown once (`OwnStepKept`), then each action.
* **Administration.** `RolesAsGiven` needs `Unique` (a user is in one
  transaction at a time, by the row lock), `Owned` (what that transaction
  deletes is all the user's links, and the roles it found existed) and `Rows`
  (no link names what was never there). `GrantsExpire` needs that every load and
  every entry is `Fresh`: each permission in it was the user's at most as many
  ticks ago as the load has run, or the entry has lived and a load lasts; and
  that roles and their permissions are fixed on those tables (`RolesFixed`).
* **Employees page.** `ShowsCurrentPage` needs `Numbered`: requests have
  different numbers, none above `iDraw`, and the newest one carries the start
  and length the pager names; and `Answered`: what a request read is the page it
  asks for of the table it remembers, and what was drawn last is what the newest
  request read, once it is neither under way nor lost. `DeletedAreGone` needs
  `Told`: what a call no longer has to delete is not in the table, and an id
  whose deletion was answered is in no table again (ids are not given out twice)
  and in no list of the newest request. `Ids` (the ids of a batch are new)
  serves it and `AskedIsPage`. `DeletesAsked` needs the shape of calls
  (`Calls`). `AskedIsPage` needs every start that is kept or sent to be a
  multiple of the length it goes with (`PageInvariant`, with the lemmas of
  `ModelLemmas`), and that the rows in the order of their ids are one for each
  place (`InOrderSorts`).
* **Pager.** `Inv` adds that the start is a multiple of the length; the lemmas
  before it are about `\div` and the functions of `PagingOps`. `PlaceKept`
  follows from what a removal does to such a start. Which pages the numbers
  reach is shown of the entries of each of the four shapes the row of numbers
  has. It needs `NumbersLength >= 7`: 7 is `numbers_length` as the library
  comes and as the pages leave it (with 6 the numbers shown on the fourth page
  would end there).
* **Construction.** `SetupInv` says of every settings object (`Object`) what it
  still waits for and what that makes of it: with a language, it waits for the
  file or for the timer until it is built, and for neither afterwards; it is
  initialised when the state is there; and as long as nothing was drawn early,
  the start that was loaded is where the next draw, the request or the answer
  begins. The last part is what `SavedStateKept` needs, the first what makes a
  second build impossible. The registry has different ids, all of tables that
  are not being destroyed (`Distinct`).
* **Options.** Laying a definition over the columns either adds columns or leaves
  their number, and then its targets are the same columns as before; so of the
  definitions laid one after the other, the last that has an option for a column
  gives it (`LaidAll`, by induction on the number laid, with `Loop` and `Counted`
  of `ModelLemmas`), and read backwards it is the first (`LaidBackwards`).
  `LastWordCounts` needs `WrittenStands`: what was written stands under the new
  name until the next write, and under the old one once the table was made.
* **Order.** The labels are `_fnSortAria`'s own work, made from the flat list;
  that the list of a plain order begins with the first entry (`FlattenBegins`),
  and that an entry has its index after a draw (`EntriesIndexed`), makes the
  label the direction `_fnSortListener` would turn that entry to. For the label
  the invariant is the property with the types: between draws nothing is
  claimed. That a click turns the order over needs `IndexesTold` besides: an
  entry's index is where its direction stands among those of its column, or of
  the column whose data it sorts by, or it has none yet. That a shift-click
  keeps the others is shown of the pairs of column and direction that are not
  the clicked column's (`OfOthers`), which none of the four cases of the click
  changes.
* **Rows.** `RowsInv` is about one list: `aoData` repeats no object, and the
  object in place `i` says so, as does its node, and caches the value it has or
  nothing (`RowsPlaced`); the master array is a permutation of the places, and
  what is displayed are some of them in its order (`IndexesOf`). These three are
  what each turn of the loop of `rows().remove()` keeps, with the selection
  shifted and not yet renumbered objects between the turns. That rows whose text
  is cached are displayed exactly when both searches find them (`SearchStands`)
  is what lets `_fnFilter` search what is displayed only; it is why the filter
  must notice the rows that dropped their text. What the last search, sort and
  draw left is remembered by their kind (`last`). A sort orders by value and
  then by place, so it is stable whatever order it met. `IdSelectsRow` is the
  one part that needs rows to keep their ids: `row().data()` with another id
  leaves `aIds` behind (section 7).
* **Cells.** `RowShows`: a node shows in each column what the item has there,
  and a sort key is made of that or is dropped. What is written through one
  column's path is read through no other's, since none of them leads to another
  (`CellsAssumption`). `TypeSuits`: a type found accepts every cell.
* **Columns and child rows.** `HeadingInv`: every node has the cells of the
  visible columns in their order, and `tbody` is the page drawn last with the
  child row of each row that shows one put behind it (`Behind`). A cell is
  inserted before the next visible column's, which is its place in that order
  (`ThoseMore`). Hiding or removing one child row and putting one behind its row
  only change which rows show one (`BehindWithout`, `BehindMore`, by induction
  on the page), and before the first was shown, which attaches the events that a
  draw needs, there are none.
* **Heading.** `LayoutInv`: the layout is that of a heading of the page, which
  has no holes and whose cells are rectangles (`HeadingWhole`; every row has a
  cell of its own, otherwise `_fnDetectHeader` gives it the `nTr` of a row above
  and `_fnDrawHead` empties that row again), and the heading is drawn for the
  columns shown now. Without the hidden columns the cells are still rectangles
  (`LocalRectangles`): each starts above and left of wherever it is, and the
  spans it is drawn with cover it and nothing else (`ThSpans`). Read in again,
  cell after cell, the grid has those that start before the next one and is free
  elsewhere (`FilledUpTo`); so the first free column is where the next one
  starts (`FilledNext`, then by induction on cells and rows).
* **Form.** `SentInv` ties the three things an answer meets: the cache has for a
  value only a request for that value (`CacheRight`), a waiting validation waits
  for an open request for the value its form was submitted with (`RunRight`),
  and a form that waits failed no check but the remote one (`FormRight`); so the
  answer that sends it accepted its value. What the
  fields hold when the answer comes is in none of this. `ErrorsInv` adds to
  `ErrorsFollowTyping` that the errors listed are of the last result, all of them
  where there is no remote check, that the class is the last result's, and that
  an aliased last result is the field's result.
* **Checks of a field.** `Agree`: the list has one check of a name, and the map
  has under each name the check listed, and no other. Adding and removing keep
  it. Binding is two recursive functions, over the list for the checks to keep
  and over the declared names for those to add; what they compute is shown by
  induction on the number of elements done (`UserConstraints`, `BoundNames`,
  from `Recursion` and `Induct` of `ModelLemmas`). The order in which a field's
  options are found is left open: any sequence of them gives the same map.
* **Messages.** `MessagesInv`: every table of the catalog is of its language, the
  language in effect has a table, and that of a file that was loaded has the
  file's messages.

The assumptions are those of the modules' `ASSUME`s: on forms, tables, lengths,
the checks and fills of the form, the attributes of a field, the options of a
table, the names of its columns' options (no name is another option's), the
directions and columns a heading sorts by (there are some), the rows (values are
numbers, the empty search finds all of them, and what a longer text finds its
beginning finds too, as plain texts do), the columns (numbered from the left),
their heading (no holes, cells that are rectangles and do not go below the last
row, one of its own for each column and for each row) and their cells (no
column's path leads to another's, what is below no object is undefined), what
every language file has (its messages are those the library knows, it sets no
language but its own, and with it a default message), and that `Null` and `Nil`
are none of the values; TLC evaluates them in the runs.

Only model-checked: every liveness property (`SavedIsStarted` among them),
because the prover does not handle `ENABLED`. `RowsDoAgree` and `PagersAgree`
have the hypotheses named above; the runs' constants meet them.

## 9. Not modelled

* Remembered users (a rememberMe cookie without a session), the CSRF token and
  the check of the password. Serialization of sessions. The size of the Redis
  database (`dbSize`), which only reads. `RedisManager`'s own pool is not used:
  the wiring injects one.
* Handlers that only read (task lists, history, diagrams, resources), the list
  of users and roles. A task that goes while `getTaskListByPage` runs makes the
  list fail; nothing in the repository says what it should show.
* Of the pages: `login.js`, the sidebar, the sign-out dialog, the upload dialog
  (its endpoints do not exist). Of the table: widths, scrolling and the parts of
  the API that only read; paths with array or function notation. Of Parsley: the
  tests of the single validators, radio groups, fields added to a form later,
  the debounce of typing, focus and the looks of errors.
* Value objects, conversions, hashing, logging: no state.
* The engine, MySQL, Redis and the browser are modelled as far as the code uses
  them: an engine call is atomic; a statement outside a transaction is atomic; a
  transaction reads one snapshot (REPEATABLE READ); a callback runs to its end.
