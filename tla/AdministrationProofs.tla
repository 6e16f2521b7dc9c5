------------------------- MODULE AdministrationProofs -------------------------
(***************************************************************************)
(* Theorems about UserAdmin and AuthorizationCache, for any tables, any    *)
(* number of administrators and of requests that check permissions: types, *)
(* that concurrent administrators leave no mixture of roles, and that a    *)
(* permission that was taken away is not granted for ever.                 *)
(***************************************************************************)
EXTENDS AuthorizationCache, TLAPS

(***************************************************************************)
(* Types.                                                                  *)
(***************************************************************************)

LEMMA NilFacts ==
  /\ Nil \notin UserJob /\ Nil \notin RoleJob /\ Nil \notin Entry /\ Nil \notin Load
  /\ \A rids \in SUBSET Rids : rids # Nil
BY NilAssumption, NilIsNoEntry

\* A job about a user can be told from one about a role by what it does.
LEMMA JobKinds ==
  ASSUME TypeOK, NEW t \in Threads, job[t] # Nil
  PROVE  /\ job[t].op # "permit" => job[t] \in UserJob
         /\ job[t].op = "permit" => job[t] \in RoleJob
<1>1. job[t] \in UserJob \cup RoleJob
  BY DEF TypeOK
<1>2. job[t] \in UserJob => job[t].op # "permit"
  BY DEF UserJob
<1>3. job[t] \in RoleJob => job[t].op = "permit"
  BY DEF RoleJob
<1> QED
  BY <1>1, <1>2, <1>3

Times == 0 .. Never

LEMMA TimesFacts == Expire \in Nat /\ Expire > 0 /\ LoadTicks = 1 /\ Never \in Nat /\ 0 \in Times
                    /\ Never \in Times /\ Never = Expire + 2
BY ExpireAssumption DEF Times, Never, LoadTicks

LEMMA NoteType ==
  ASSUME TypeOK, NEW ticks \in {0, 1}, Note(ticks)
  PROVE  since' \in [Uids \X Perms -> 0 .. Never]
<1>1. CASE schema = "mapped"
  BY <1>1 DEF Note, TypeOK
<1>2. CASE schema # "mapped"
  <2>1. \A k \in Uids \X Perms : since[k] \in 0 .. Never
    BY DEF TypeOK
  <2>2. \A k \in Uids \X Perms :
          (IF Has(k[1], k[2])' THEN 0
           ELSE IF since[k] + ticks > Never THEN Never ELSE since[k] + ticks) \in 0 .. Never
    BY <2>1, TimesFacts DEF Times
  <2> QED
    BY <1>2, <2>2 DEF Note
<1> QED
  BY <1>1, <1>2

LEMMA InitType == Init => TypeOK
<1> SUFFICES ASSUME Init PROVE TypeOK
  OBVIOUS
<1>1. schema \in Schemas /\ FirstRoles[schema] \subseteq Rids
      /\ FirstLinks \subseteq FirstUsers \X FirstRoles[schema]
  BY TablesAssumption DEF Init, InitAdmin
<1>2. links \subseteq Uids \X Rids
  BY <1>1, TablesAssumption DEF Init, InitAdmin
<1>3. grants \subseteq Rids \X Perms /\ perms \subseteq Perms
  BY TablesAssumption DEF Init, InitAdmin
<1>4. since \in [Uids \X Perms -> 0 .. Never]
  BY TimesFacts DEF Init, Times
<1> QED
  BY <1>1, <1>2, <1>3, <1>4 DEF Init, InitAdmin, TypeOK

\* The parts of TypeOK that the administration changes, and the others.
AdminType ==
  /\ schema \in Schemas
  /\ users \in [Uids -> {"free", "there", "gone"}]
  /\ roles \in [Rids -> {"free", "there", "gone"}]
  /\ perms \subseteq Perms
  /\ links \subseteq Uids \X Rids /\ grants \subseteq Rids \X Perms
  /\ given \in [Uids -> SUBSET Rids]
  /\ job \in [Threads -> {Nil} \cup UserJob \cup RoleJob]

LEMMA AdminStepType ==
  ASSUME TypeOK, NextAdmin
  PROVE  AdminType'
<1> USE DEF AdminType, TypeOK, tables
<1>1. ASSUME NEW t \in Threads, NEW names \in NameSets, AddUser(t, names) PROVE AdminType'
  <2>1. PICK u \in Uids : Begin(t, [op |-> "add", uid |-> u, names |-> names, old |-> {}, found |-> Nil])
    BY <1>1 DEF AddUser
  <2>2. [op |-> "add", uid |-> u, names |-> names, old |-> {}, found |-> Nil] \in UserJob
    BY DEF UserJob
  <2> QED
    BY <1>1, <2>1, <2>2 DEF AddUser, Begin
<1>2. ASSUME NEW t \in Threads, NEW u \in Uids, NEW names \in NameSets, UpdateUser(t, u, names)
      PROVE  AdminType'
  <2>1. [op |-> "update", uid |-> u, names |-> names, old |-> LinksOf(u), found |-> Nil] \in UserJob
    BY DEF UserJob, LinksOf
  <2> QED
    BY <1>2, <2>1 DEF UpdateUser, Begin
<1>3. ASSUME NEW t \in Threads, NEW u \in Uids, DeleteUser(t, u) PROVE AdminType'
  <2>1. [op |-> "delete", uid |-> u, names |-> {}, old |-> LinksOf(u), found |-> Nil] \in UserJob
    BY DEF UserJob, LinksOf
  <2> QED
    BY <1>3, <2>1 DEF DeleteUser, Begin
<1>4. ASSUME NEW t \in Threads, FindRoles(t) PROVE AdminType'
  <2>1. job[t] \in UserJob
    BY <1>4, JobKinds DEF FindRoles
  <2> DEFINE found == { r \in There(roles) : NameOf[r] \in job[t].names }
  <2>2. found \subseteq Rids
    BY DEF There
  <2>3. [job[t] EXCEPT !.found = found] \in UserJob
    BY <2>1, <2>2 DEF UserJob
  <2> HIDE DEF found
  <2>4. job' \in [Threads -> {Nil} \cup UserJob \cup RoleJob]
    BY <1>4, <2>3 DEF FindRoles, found
  <2> QED
    BY <1>4, <2>4 DEF FindRoles
<1>5. ASSUME NEW t \in Threads, CommitUser(t) PROVE AdminType'
  <2>1. job[t] \in UserJob
    BY <1>5, JobKinds DEF CommitUser
  <2>2. job[t].uid \in Uids /\ job[t].found \in SUBSET Rids
        /\ job[t].op \in {"add", "update", "delete"}
    BY <1>5, <2>1 DEF UserJob, CommitUser
  <2>3. users' \in [Uids -> {"free", "there", "gone"}]
    <3>1. CASE job[t].op = "add"
      BY <1>5, <2>2, <3>1 DEF CommitUser
    <3>2. CASE job[t].op = "update"
      BY <1>5, <2>2, <3>2 DEF CommitUser
    <3>3. CASE job[t].op = "delete"
      BY <1>5, <2>2, <3>3 DEF CommitUser
    <3> QED
      BY <2>2, <3>1, <3>2, <3>3
  <2>4. links' \subseteq Uids \X Rids
    BY <1>5, <2>2 DEF CommitUser
  <2>5. given' \in [Uids -> SUBSET Rids]
    BY <1>5, <2>2 DEF CommitUser
  <2> QED
    BY <1>5, <2>3, <2>4, <2>5 DEF CommitUser
<1>6. ASSUME NEW t \in Threads, Fail(t) PROVE AdminType'
  BY <1>6 DEF Fail
<1>7. ASSUME NEW t \in Threads, NEW r \in Rids, NEW ps \in PermSets, UpdateRole(t, r, ps)
      PROVE  AdminType'
  <2>1. [op |-> "permit", rid |-> r, names |-> ps, found |-> Nil] \in RoleJob
    BY DEF RoleJob
  <2> QED
    BY <1>7, <2>1 DEF UpdateRole, Begin
<1>8. ASSUME NEW t \in Threads, FindRole(t) PROVE AdminType'
  <2>1. job[t] \in RoleJob
    BY <1>8, JobKinds DEF FindRole
  <2>2. [job[t] EXCEPT !.found = {job[t].rid}] \in RoleJob
    BY <2>1 DEF RoleJob
  <2> QED
    BY <1>8, <2>2 DEF FindRole
<1>9. ASSUME NEW t \in Threads, CommitRole(t) PROVE AdminType'
  <2>1. job[t] \in RoleJob
    BY <1>9, JobKinds DEF CommitRole
  <2>2. job[t].found \in SUBSET Rids /\ job[t].names \in SUBSET Perms
    BY <1>9, <2>1, PermSetsAssumption DEF RoleJob, CommitRole
  <2>3. grants' \subseteq Rids \X Perms
    BY <1>9, <2>2 DEF CommitRole
  <2> QED
    BY <1>9, <2>3 DEF CommitRole
<1>10. ASSUME NEW p \in Perms, AddPermission(p) PROVE AdminType'
  BY <1>10 DEF AddPermission
<1>11. ASSUME NEW r \in Rids, DeleteRole(r) PROVE AdminType'
  BY <1>11 DEF DeleteRole
<1>12. ASSUME NEW r \in Rids, NEW ps \in PermSets, AddRole(r, ps) PROVE AdminType'
  BY <1>12 DEF AddRole
<1> QED
  BY <1>1, <1>2, <1>3, <1>4, <1>5, <1>6, <1>7, <1>8, <1>9, <1>10, <1>11, <1>12 DEF NextAdmin

LEMMA CheckType ==
  ASSUME TypeOK, NEW c \in Readers, NEW u \in Uids, Check(c, u)
  PROVE  cache' \in [Uids -> {Nil} \cup Entry] /\ load' \in [Readers -> {Nil} \cup Load]
<1>1. CASE cache[u] # Nil /\ cache' = [cache EXCEPT ![u] = Found(@)] /\ UNCHANGED load
  BY <1>1 DEF TypeOK, Found
<1>2. CASE load' = [load EXCEPT ![c] = [uid |-> u, todo |-> Nil, perms |-> {}, ticks |-> 0]]
           /\ UNCHANGED cache
  <2>1. [uid |-> u, todo |-> Nil, perms |-> {}, ticks |-> 0] \in Load
    BY TimesFacts DEF Load
  <2> QED
    BY <1>2, <2>1 DEF TypeOK
<1> QED
  BY <1>1, <1>2 DEF Check

LEMMA ReadType ==
  ASSUME TypeOK, NEW c \in Readers, ReadUser(c) \/ \E r \in Rids : ReadRole(c, r)
  PROVE  load' \in [Readers -> {Nil} \cup Load]
<1>1. CASE ReadUser(c)
  <2>1. load[c] \in Load
    BY <1>1 DEF ReadUser, TypeOK
  <2> DEFINE found == { r \in There(roles) : <<load[c].uid, r>> \in links }
  <2>2. [load[c] EXCEPT !.todo = found] \in Load
    BY <2>1 DEF Load, There, TypeOK
  <2> HIDE DEF found
  <2> QED
    BY <1>1, <2>2 DEF ReadUser, TypeOK, found
<1>2. ASSUME NEW r \in Rids, ReadRole(c, r) PROVE load' \in [Readers -> {Nil} \cup Load]
  <2>1. load[c] \in Load /\ load[c].todo \in SUBSET Rids
    BY <1>2 DEF ReadRole, TypeOK, Load
  <2> DEFINE rest == load[c].todo \ {r}
             more == load[c].perms \cup { p \in perms : <<r, p>> \in grants }
  <2>2. rest \in SUBSET Rids /\ more \in SUBSET Perms
    BY <2>1 DEF Load, TypeOK
  <2> HIDE DEF rest, more
  <2>3. [load[c] EXCEPT !.todo = rest, !.perms = more] \in Load
    BY <2>1, <2>2 DEF Load
  <2> QED
    BY <1>2, <2>3 DEF ReadRole, TypeOK, rest, more
<1> QED
  BY <1>1, <1>2

LEMMA PutType ==
  ASSUME TypeOK, NEW c \in Readers, NEW expires \in BOOLEAN, Put(c, expires)
  PROVE  cache' \in [Uids -> {Nil} \cup Entry]
<1>1. load[c] \in Load
  BY DEF Put, TypeOK
<1>2. 0 \in 0 .. Expire - 1
  BY TimesFacts
<1>3. [perms |-> load[c].perms, age |-> 0, expires |-> expires] \in Entry
  BY <1>1, <1>2 DEF Entry, Load
<1> QED
  BY <1>3 DEF Put, TypeOK

\* An entry that Redis does not drop is a tick older, or never dropped.
LEMMA AgedFacts ==
  ASSUME NEW entry \in Entry
  PROVE  Aged(entry) # Nil => /\ Aged(entry) \in Entry
                              /\ Aged(entry).perms = entry.perms
                              /\ Aged(entry).expires = entry.expires
                              /\ entry.expires => Aged(entry).age = entry.age + 1
<1>1. CASE ~entry.expires
  BY <1>1 DEF Aged
<1>2. CASE entry.expires /\ entry.age + 1 # Expire
  <2>1. Aged(entry) = [entry EXCEPT !.age = entry.age + 1]
    BY <1>2 DEF Aged
  <2>2. entry.age + 1 \in 0 .. Expire - 1
    BY <1>2, TimesFacts DEF Entry
  <2> QED
    BY <1>2, <2>1, <2>2 DEF Entry
<1>3. CASE entry.expires /\ entry.age + 1 = Expire
  BY <1>3 DEF Aged
<1> QED
  BY <1>1, <1>2, <1>3

LEMMA TickType ==
  ASSUME TypeOK, Tick
  PROVE  cache' \in [Uids -> {Nil} \cup Entry] /\ load' \in [Readers -> {Nil} \cup Load]
<1>1. ASSUME NEW u \in Uids, cache[u] # Nil PROVE Aged(cache[u]) \in {Nil} \cup Entry
  <2>1. cache[u] \in Entry
    BY <1>1 DEF TypeOK
  <2> QED
    BY <2>1, AgedFacts
<1>2. ASSUME NEW c \in Readers, load[c] # Nil
      PROVE  [load[c] EXCEPT !.ticks = @ + 1] \in Load
  <2>1. load[c] \in Load /\ load[c].ticks < LoadTicks
    BY <1>2 DEF TypeOK, Tick
  <2>2. load[c].ticks + 1 \in 0 .. LoadTicks
    BY <2>1, TimesFacts DEF Load
  <2> QED
    BY <2>1, <2>2 DEF Load
<1> QED
  BY <1>1, <1>2 DEF Tick

LEMMA NextType == TypeOK /\ [Next]_vars => TypeOK'
<1> SUFFICES ASSUME TypeOK, [Next]_vars PROVE TypeOK'
  OBVIOUS
<1>1. ASSUME NextAdmin, UNCHANGED <<cache, load>>, Note(0) PROVE TypeOK'
  <2>1. AdminType' /\ since' \in [Uids \X Perms -> 0 .. Never]
    BY <1>1, AdminStepType, NoteType
  <2> QED
    BY <1>1, <2>1 DEF TypeOK, AdminType
<1>2. ASSUME NEW c \in Readers, NEW u \in Uids, Check(c, u) PROVE TypeOK'
  <2>1. cache' \in [Uids -> {Nil} \cup Entry] /\ load' \in [Readers -> {Nil} \cup Load]
    BY <1>2, CheckType
  <2> QED
    BY <1>2, <2>1 DEF Check, TypeOK, adminVars, tables
<1>3. ASSUME NEW c \in Readers, ReadUser(c) \/ \E r \in Rids : ReadRole(c, r) PROVE TypeOK'
  <2>1. load' \in [Readers -> {Nil} \cup Load]
    BY <1>3, ReadType
  <2> QED
    BY <1>3, <2>1 DEF ReadUser, ReadRole, TypeOK, adminVars, tables
<1>4. ASSUME NEW c \in Readers, NEW expires \in BOOLEAN, Put(c, expires) PROVE TypeOK'
  <2>1. cache' \in [Uids -> {Nil} \cup Entry]
    BY <1>4, PutType
  <2> QED
    BY <1>4, <2>1 DEF Put, TypeOK, adminVars, tables
<1>5. ASSUME NEW c \in Readers, FailLoad(c) PROVE TypeOK'
  BY <1>5 DEF FailLoad, TypeOK, adminVars, tables
<1>6. ASSUME NEW u \in Uids, Logout(u) PROVE TypeOK'
  BY <1>6 DEF Logout, TypeOK, adminVars, tables
<1>7. ASSUME Tick PROVE TypeOK'
  <2>1. cache' \in [Uids -> {Nil} \cup Entry] /\ load' \in [Readers -> {Nil} \cup Load]
    BY <1>7, TickType
  <2>2. since' \in [Uids \X Perms -> 0 .. Never]
    BY <1>7, NoteType DEF Tick
  <2> QED
    BY <1>7, <2>1, <2>2 DEF Tick, TypeOK, adminVars, tables
<1>8. ASSUME UNCHANGED vars PROVE TypeOK'
  BY <1>8 DEF vars, cacheVars, TypeOK, adminVars, tables
<1> QED
  BY <1>1, <1>2, <1>3, <1>4, <1>5, <1>6, <1>7, <1>8 DEF Next

\* Every reachable state of the tables, the transactions under way and the
\* cache is well typed.
THEOREM TypeCorrect == Spec => []TypeOK
BY InitType, NextType, PTL DEF Spec

(***************************************************************************)
(* A user belongs to one transaction at a time.                            *)
(***************************************************************************)

\* Thread t is in a transaction about a user.
AboutUser(t) == job[t] # Nil /\ job[t].op # "permit"

Unique ==
  \A s, t \in Threads :
    AboutUser(s) /\ AboutUser(t) /\ job[s].uid = job[t].uid => s = t

\* Such a transaction adds a user who is free, or has one who is not; the links
\* it deletes are that user's, and no link of that user has come since; and the
\* roles it found were there.
Owns(t) ==
  /\ job[t].op = "add" <=> users[job[t].uid] = "free"
  /\ \A u \in Uids, r \in Rids : <<u, r>> \in job[t].old => u = job[t].uid
  /\ \A r \in Rids : <<job[t].uid, r>> \in links => <<job[t].uid, r>> \in job[t].old
  /\ job[t].found # Nil => \A r \in job[t].found : roles[r] # "free"

Owned == \A t \in Threads : AboutUser(t) => Owns(t)

\* Nobody links a user or a role that was never there.
Rows ==
  \A u \in Uids, r \in Rids : <<u, r>> \in links => users[u] # "free" /\ roles[r] # "free"

\* RolesAsGiven, link by link.
AsGiven ==
  \A u \in Uids : users[u] = "there" =>
    /\ \A r \in Rids : roles[r] = "there" /\ <<u, r>> \in links => r \in given[u]
    /\ \A r \in given[u] : roles[r] = "there" /\ <<u, r>> \in links

Good == Unique /\ Owned /\ Rows /\ AsGiven

LEMMA GivenRoles == ASSUME TypeOK, AsGiven PROVE RolesAsGiven
<1> SUFFICES ASSUME NEW u \in There(users)
             PROVE  { r \in There(roles) : <<u, r>> \in links } = given[u]
  BY DEF RolesAsGiven
<1>1. u \in Uids /\ users[u] = "there" /\ given[u] \subseteq Rids
  BY DEF There, TypeOK
<1>2. \A r : r \in There(roles) <=> r \in Rids /\ roles[r] = "there"
  BY DEF There, TypeOK
<1> QED
  BY <1>1, <1>2 DEF AsGiven

LEMMA InitGood == ASSUME Init, TypeOK PROVE Good
<1>1. schema \in Schemas /\ links = FirstLinks
  BY DEF Init, InitAdmin
<1>2. \A u \in Uids, r \in Rids :
        <<u, r>> \in links => u \in FirstUsers /\ r \in FirstRoles[schema]
  BY <1>1, TablesAssumption
<1>3. \A t \in Threads : ~AboutUser(t)
  BY DEF Init, InitAdmin, AboutUser
<1>4. Rows
  BY <1>2 DEF Rows, Init, InitAdmin
<1>5. AsGiven
  BY <1>2, TablesAssumption DEF AsGiven, Init, InitAdmin
<1> QED
  BY <1>3, <1>4, <1>5 DEF Good, Unique, Owned

\* A thread begins a transaction about a user nobody else has.
LEMMA BeginStep ==
  ASSUME TypeOK, Good, NEW t \in Threads, NEW j \in UserJob, Begin(t, j),
         UNCHANGED <<schema, tables, given>>,
         \A s \in Threads : AboutUser(s) => job[s].uid # j.uid,
         j.op = "add" <=> users[j.uid] = "free",
         \A u \in Uids, r \in Rids : <<u, r>> \in j.old => u = j.uid,
         \A r \in Rids : <<j.uid, r>> \in links => <<j.uid, r>> \in j.old,
         j.found = Nil
  PROVE  Good'
<1>1. \A s \in Threads : job'[s] = IF s = t THEN j ELSE job[s]
  BY DEF Begin, TypeOK
<1>2. Owned'
  BY <1>1 DEF Good, Owned, Owns, AboutUser, tables
<1>3. Unique'
  BY <1>1 DEF Good, Unique, AboutUser
<1>4. Rows' /\ AsGiven'
  BY DEF Good, Rows, AsGiven, tables
<1> QED
  BY <1>2, <1>3, <1>4 DEF Good

\* A thread's transaction ends without a write to users or links, or is about
\* a role.
LEMMA EndStep ==
  ASSUME TypeOK, Good, NEW t \in Threads, NEW j, j = Nil \/ j \in RoleJob,
         job' = [job EXCEPT ![t] = j], UNCHANGED <<users, roles, links, given>>
  PROVE  Good'
<1>1. \A s \in Threads : job'[s] = IF s = t THEN j ELSE job[s]
  BY DEF TypeOK
<1>2. j # Nil => j.op = "permit"
  BY DEF RoleJob
<1>3. Owned'
  BY <1>1, <1>2 DEF Good, Owned, Owns, AboutUser
<1>4. Unique'
  BY <1>1, <1>2 DEF Good, Unique, AboutUser
<1>5. Rows' /\ AsGiven'
  BY DEF Good, Rows, AsGiven
<1> QED
  BY <1>3, <1>4, <1>5 DEF Good

LEMMA AddUserStep ==
  ASSUME TypeOK, Good, NEW t \in Threads, NEW names \in NameSets, AddUser(t, names)
  PROVE  Good'
<1>1. PICK u \in Uids :
        /\ users[u] = "free"
        /\ \A s \in Threads : ~(job[s] # Nil /\ job[s].op = "add" /\ job[s].uid = u)
        /\ Begin(t, [op |-> "add", uid |-> u, names |-> names, old |-> {}, found |-> Nil])
  BY DEF AddUser
<1> DEFINE j == [op |-> "add", uid |-> u, names |-> names, old |-> {}, found |-> Nil]
<1>2. j \in UserJob
  BY DEF UserJob
<1>3. \A s \in Threads : AboutUser(s) => job[s].uid # u
  BY <1>1 DEF Good, Owned, Owns, AboutUser
<1>4. \A r \in Rids : <<u, r>> \notin links
  BY <1>1 DEF Good, Rows
<1> QED
  BY <1>1, <1>2, <1>3, <1>4, BeginStep DEF AddUser

\* updateUser and deleteUser.
LEMMA LockUserStep ==
  ASSUME TypeOK, Good, NEW t \in Threads, NEW u \in Uids, users[u] # "free", RowFree(t, u),
         NEW op \in {"update", "delete"}, NEW names \in NameSets \cup {{}},
         Begin(t, [op |-> op, uid |-> u, names |-> names, old |-> LinksOf(u), found |-> Nil]),
         UNCHANGED <<schema, tables, given>>
  PROVE  Good'
<1> DEFINE j == [op |-> op, uid |-> u, names |-> names, old |-> LinksOf(u), found |-> Nil]
<1>1. j \in UserJob
  BY DEF UserJob, LinksOf, TypeOK
<1>2. \A s \in Threads : AboutUser(s) => job[s].uid # u
  <2> SUFFICES ASSUME NEW s \in Threads, AboutUser(s), job[s].uid = u PROVE FALSE
    OBVIOUS
  <2>1. job[s].op \in {"update", "delete"}
    <3>1. job[s] \in UserJob
      BY JobKinds DEF AboutUser
    <3>2. job[s].op # "add"
      BY DEF Good, Owned, Owns
    <3> QED
      BY <3>1, <3>2 DEF UserJob
  <2>2. s # t
    BY DEF Begin, AboutUser
  <2> QED
    BY <2>1, <2>2 DEF RowFree, AboutUser
<1>3. /\ \A w \in Uids, r \in Rids : <<w, r>> \in LinksOf(u) => w = u
      /\ \A r \in Rids : <<u, r>> \in links => <<u, r>> \in LinksOf(u)
  BY DEF LinksOf
<1> QED
  BY <1>1, <1>2, <1>3, BeginStep

LEMMA FindRolesStep ==
  ASSUME TypeOK, Good, NEW t \in Threads, FindRoles(t)
  PROVE  Good'
<1> DEFINE found == { r \in There(roles) : NameOf[r] \in job[t].names }
<1>1. job[t] \in UserJob
  BY JobKinds DEF FindRoles
<1>2. CASE job' = [job EXCEPT ![t] = Nil]
  BY <1>2, EndStep DEF FindRoles, tables
<1>3. CASE job' = [job EXCEPT ![t] = [job[t] EXCEPT !.found = found]]
  <2>1. \A r \in found : roles[r] # "free"
    BY DEF There
  <2> HIDE DEF found
  <2>2. /\ \A s \in Threads : s # t => job'[s] = job[s]
        /\ job'[t] = [job[t] EXCEPT !.found = found]
    BY <1>3 DEF TypeOK
  <2>3. /\ job'[t].op = job[t].op /\ job'[t].uid = job[t].uid /\ job'[t].old = job[t].old
        /\ job'[t].found = found
    BY <1>1, <2>2 DEF UserJob
  <2>4. AboutUser(t) /\ \A s \in Threads : AboutUser(s)' => AboutUser(s)
    BY <2>2, <2>3 DEF AboutUser, FindRoles
  <2>5. Owned'
    <3>1. UNCHANGED <<users, links, roles>>
      BY DEF FindRoles, tables
    <3>2. Owns(t) /\ \A s \in Threads : AboutUser(s) => Owns(s)
      BY <2>4 DEF Good, Owned
    <3>3. Owns(t)'
      BY <2>1, <2>3, <3>1, <3>2 DEF Owns
    <3>4. \A s \in Threads : s # t /\ Owns(s) => Owns(s)'
      BY <2>2, <3>1 DEF Owns
    <3> QED
      BY <2>4, <3>2, <3>3, <3>4 DEF Owned
  <2>6. Unique'
    BY <2>2, <2>3, <2>4 DEF Good, Unique
  <2>7. Rows' /\ AsGiven'
    BY DEF Good, Rows, AsGiven, FindRoles, tables
  <2> QED
    BY <2>5, <2>6, <2>7 DEF Good
<1> DEFINE all == \A n \in job[t].names : \E r \in found : NameOf[r] = n
<1>4. job' = [job EXCEPT ![t] = IF all THEN [job[t] EXCEPT !.found = found] ELSE Nil]
  BY DEF FindRoles
<1> HIDE DEF all, found
<1> QED
  BY <1>2, <1>3, <1>4

LEMMA CommitUserStep ==
  ASSUME TypeOK, Good, NEW t \in Threads, CommitUser(t)
  PROVE  Good'
<1> DEFINE u == job[t].uid
           found == job[t].found
<1>1. job[t] \in UserJob /\ AboutUser(t) /\ Owns(t)
  BY JobKinds DEF CommitUser, AboutUser, Good, Owned
<1>2. u \in Uids /\ found \in SUBSET Rids /\ job[t].op \in {"add", "update", "delete"}
  BY <1>1 DEF UserJob, CommitUser
<1>3. \A s \in Threads : s # t /\ AboutUser(s) => job[s].uid # u
  BY <1>1 DEF Good, Unique
<1>4. users' = [users EXCEPT ![u] = CASE job[t].op = "add" -> "there"
                                     [] job[t].op = "update" -> users[u]
                                     [] job[t].op = "delete" -> "gone"]
      /\ links' = (links \ job[t].old) \cup ({u} \X found)
      /\ given' = [given EXCEPT ![u] = found \cap There(roles)]
      /\ job' = [job EXCEPT ![t] = Nil] /\ UNCHANGED roles
  BY DEF CommitUser
<1> HIDE DEF u, found
<1>5. (\A w \in Uids : w # u => users'[w] = users[w]) /\ users'[u] # "free"
  <2>1. u \in DOMAIN users
    BY <1>2 DEF TypeOK
  <2>2. CASE job[t].op = "add"
    BY <1>4, <2>1, <2>2
  <2>3. CASE job[t].op = "update"
    <3>1. users[u] # "free"
      BY <1>1, <2>3 DEF Owns, u
    <3>2. users'[u] = users[u]
      BY <1>4, <2>1, <2>3
    <3>3. \A w \in Uids : w # u => users'[w] = users[w]
      BY <1>4, <2>1, <2>3
    <3> QED
      BY <3>1, <3>2, <3>3
  <2>4. CASE job[t].op = "delete"
    BY <1>4, <2>1, <2>4
  <2> QED
    BY <1>2, <2>2, <2>3, <2>4
<1>6. \A w \in Uids, r \in Rids : w # u => (<<w, r>> \in links' <=> <<w, r>> \in links)
  BY <1>1, <1>4 DEF Owns, u
<1>7. \A r \in Rids : <<u, r>> \in links' <=> r \in found
  BY <1>1, <1>4 DEF Owns, u
<1>8. given'[u] = found \cap There(roles) /\ \A w \in Uids : w # u => given'[w] = given[w]
  BY <1>2, <1>4 DEF TypeOK
<1>9. \A s \in Threads : job'[s] = IF s = t THEN Nil ELSE job[s]
  BY <1>4 DEF TypeOK
<1>10. Unique'
  BY <1>9 DEF Good, Unique, AboutUser
<1>11. Owned'
  <2> SUFFICES ASSUME NEW s \in Threads, AboutUser(s)' PROVE Owns(s)'
    BY DEF Owned
  <2>1. s # t /\ job'[s] = job[s] /\ AboutUser(s)
    BY <1>9 DEF AboutUser
  <2>2. Owns(s) /\ job[s].uid # u /\ job[s] \in UserJob
    BY <1>3, <2>1, JobKinds DEF Good, Owned, AboutUser
  <2>3. job[s].uid \in Uids
    BY <2>2 DEF UserJob
  <2> QED
    BY <1>4, <1>5, <1>6, <2>1, <2>2, <2>3 DEF Owns
<1>12. Rows'
  <2>1. \A r \in found : roles[r] # "free"
    BY <1>1 DEF Owns, CommitUser, found
  <2>2. ASSUME NEW w \in Uids, NEW r \in Rids, <<w, r>> \in links'
        PROVE  users'[w] # "free" /\ roles'[r] # "free"
    BY <1>4, <1>5, <1>6, <1>7, <2>1, <2>2 DEF Good, Rows
  <2> QED
    BY <2>2 DEF Rows
<1>13. AsGiven'
  <2> SUFFICES ASSUME NEW w \in Uids, users'[w] = "there"
               PROVE  /\ \A r \in Rids : roles[r] = "there" /\ <<w, r>> \in links' => r \in given'[w]
                      /\ \A r \in given'[w] : roles[r] = "there" /\ <<w, r>> \in links'
    BY <1>4 DEF AsGiven
  <2>1. CASE w = u
    BY <1>2, <1>7, <1>8, <2>1 DEF There, TypeOK
  <2>2. CASE w # u
    <3>1. given[w] \subseteq Rids
      BY DEF TypeOK
    <3> QED
      BY <1>5, <1>6, <1>8, <2>2, <3>1 DEF Good, AsGiven
  <2> QED
    BY <2>1, <2>2
<1> QED
  BY <1>10, <1>11, <1>12, <1>13 DEF Good

\* A role comes or goes while transactions are under way.
LEMMA RoleStep ==
  ASSUME TypeOK, Good, NEW r \in Rids, DeleteRole(r) \/ \E ps \in PermSets : AddRole(r, ps)
  PROVE  Good'
<1>1. /\ UNCHANGED <<users, job>>
      /\ \A s \in Rids : roles[s] # "free" => roles'[s] # "free"
      /\ links' \subseteq links
  BY DEF DeleteRole, AddRole, TypeOK
<1>2. Unique'
  BY <1>1 DEF Good, Unique, AboutUser
<1>3. Owned'
  <2> SUFFICES ASSUME NEW t \in Threads, AboutUser(t) PROVE Owns(t)'
    BY <1>1 DEF Owned, AboutUser
  <2>1. Owns(t) /\ job[t] \in UserJob
    BY JobKinds DEF Good, Owned, AboutUser
  <2>2. job[t].found # Nil => \A s \in job[t].found : s \in Rids
    BY <2>1 DEF UserJob
  <2> QED
    BY <1>1, <2>1, <2>2 DEF Owns
<1>4. Rows'
  BY <1>1 DEF Good, Rows
<1>5. AsGiven'
  <2>1. CASE DeleteRole(r)
    BY <2>1 DEF DeleteRole, Good, AsGiven, TypeOK
  <2>2. ASSUME NEW ps \in PermSets, AddRole(r, ps) PROVE AsGiven'
    <3>1. \A u \in Uids : <<u, r>> \notin links
      BY <2>2 DEF AddRole, Good, Rows
    <3> QED
      BY <2>2, <3>1 DEF AddRole, Good, AsGiven, TypeOK
  <2> QED
    BY <2>1, <2>2
<1> QED
  BY <1>2, <1>3, <1>4, <1>5 DEF Good

LEMMA AdminStepGood == ASSUME TypeOK, Good, NextAdmin PROVE Good'
<1>1. ASSUME NEW t \in Threads, NEW names \in NameSets, AddUser(t, names) PROVE Good'
  BY <1>1, AddUserStep
<1>2. ASSUME NEW t \in Threads, NEW u \in Uids, NEW names \in NameSets, UpdateUser(t, u, names)
      PROVE  Good'
  BY <1>2, LockUserStep DEF UpdateUser
<1>3. ASSUME NEW t \in Threads, NEW u \in Uids, DeleteUser(t, u) PROVE Good'
  BY <1>3, LockUserStep DEF DeleteUser
<1>4. ASSUME NEW t \in Threads, FindRoles(t) \/ CommitUser(t) PROVE Good'
  BY <1>4, FindRolesStep, CommitUserStep
<1>5. ASSUME NEW t \in Threads, Fail(t) PROVE Good'
  BY <1>5, EndStep DEF Fail, tables
<1>6. ASSUME NEW t \in Threads, NEW r \in Rids, NEW ps \in PermSets, UpdateRole(t, r, ps)
      PROVE  Good'
  <2>1. [op |-> "permit", rid |-> r, names |-> ps, found |-> Nil] \in RoleJob
    BY DEF RoleJob
  <2> QED
    BY <1>6, <2>1, EndStep DEF UpdateRole, Begin
<1>7. ASSUME NEW t \in Threads, FindRole(t) PROVE Good'
  <2>1. job[t] \in RoleJob
    BY <1>7, JobKinds DEF FindRole
  <2>2. [job[t] EXCEPT !.found = {job[t].rid}] \in RoleJob
    BY <2>1 DEF RoleJob
  <2>3. PICK j : (j = Nil \/ j \in RoleJob) /\ job' = [job EXCEPT ![t] = j]
    BY <1>7, <2>2 DEF FindRole
  <2> QED
    BY <1>7, <2>3, EndStep DEF FindRole, tables
<1>8. ASSUME NEW t \in Threads, CommitRole(t) PROVE Good'
  BY <1>8, EndStep DEF CommitRole
<1>9. ASSUME NEW p \in Perms, AddPermission(p) PROVE Good'
  BY <1>9 DEF AddPermission, Good, Unique, Owned, Owns, AboutUser, Rows, AsGiven
<1>10. ASSUME NEW r \in Rids, DeleteRole(r) \/ \E ps \in PermSets : AddRole(r, ps) PROVE Good'
  BY <1>10, RoleStep
<1> QED
  BY <1>1, <1>2, <1>3, <1>4, <1>5, <1>6, <1>7, <1>8, <1>9, <1>10 DEF NextAdmin

\* Whatever administrators do at the same time to one user, and whichever of them
\* fails, the user ends up with the roles one request gave, less those deleted.
THEOREM NoMixture == Spec => []RolesAsGiven
<1>1. Init => TypeOK /\ Good
  BY InitType, InitGood
<1>2. TypeOK /\ Good /\ [Next]_vars => (TypeOK /\ Good)'
  <2> SUFFICES ASSUME TypeOK, Good, [Next]_vars PROVE Good'
    BY NextType
  <2>1. CASE NextAdmin
    BY <2>1, AdminStepGood
  <2>2. CASE UNCHANGED adminVars
    BY <2>2 DEF adminVars, tables, Good, Unique, Owned, Owns, AboutUser, Rows, AsGiven
  <2> QED
    BY <2>1, <2>2 DEF Next, vars, Check, ReadUser, ReadRole, Put, FailLoad, Logout, Tick
<1>3. TypeOK /\ Good => RolesAsGiven
  BY GivenRoles DEF Good
<1> QED
  BY <1>1, <1>2, <1>3, PTL DEF Spec

(***************************************************************************)
(* Grants expire, on the tables of activiti.sql.                           *)
(***************************************************************************)

\* There no request changes what a role may do, and what a role may do exists.
RolesFixed ==
  /\ \A t \in Threads : job[t] # Nil => job[t].op # "permit"
  /\ \A r \in Rids, p \in Perms : <<r, p>> \in grants => p \in perms

\* The clock stands at 0 while a user has a permission.
ClockRight == \A u \in Uids, p \in Perms : Has(u, p) => since[<<u, p>>] = 0

\* A load has read, and will read, only what the user had since the load began.
LoadFresh(c) ==
  /\ \A p \in load[c].perms : since[<<load[c].uid, p>>] <= load[c].ticks
  /\ load[c].todo # Nil =>
       \A r \in load[c].todo, p \in Perms :
         <<r, p>> \in grants => since[<<load[c].uid, p>>] <= load[c].ticks

LoadsFresh == \A c \in Readers : load[c] # Nil => LoadFresh(c)

CacheFresh ==
  \A u \in Uids : cache[u] # Nil /\ cache[u].expires =>
    \A p \in cache[u].perms : since[<<u, p>>] <= cache[u].age + LoadTicks

Fresh ==
  schema = "activiti.sql" => RolesFixed /\ ClockRight /\ LoadsFresh /\ CacheFresh

LEMMA NoteAt ==
  ASSUME TypeOK, schema = "activiti.sql", NEW ticks \in {0, 1}, Note(ticks),
         NEW u \in Uids, NEW p \in Perms
  PROVE  /\ since'[<<u, p>>] = IF Has(u, p)' THEN 0
                               ELSE IF since[<<u, p>>] + ticks > Never THEN Never
                               ELSE since[<<u, p>>] + ticks
         /\ since'[<<u, p>>] <= since[<<u, p>>] + ticks
<1>1. since' = [k \in Uids \X Perms |->
                  IF Has(k[1], k[2])' THEN 0
                  ELSE IF since[k] + ticks > Never THEN Never ELSE since[k] + ticks]
  BY DEF Note
<1>2. since'[<<u, p>>] = IF Has(u, p)' THEN 0
                         ELSE IF since[<<u, p>>] + ticks > Never THEN Never
                         ELSE since[<<u, p>>] + ticks
  BY <1>1
<1>3. since[<<u, p>>] \in 0 .. Never
  BY DEF TypeOK
<1> QED
  BY <1>2, <1>3, TimesFacts DEF Times

LEMMA InitFresh == ASSUME Init, TypeOK PROVE Fresh
<1>1. RolesFixed
  <2>1. perms = { g[2] : g \in grants } /\ \A t \in Threads : job[t] = Nil
    BY DEF Init, InitAdmin
  <2>2. ASSUME NEW r \in Rids, NEW p \in Perms, <<r, p>> \in grants PROVE p \in perms
    <3>1. <<r, p>>[2] = p
      OBVIOUS
    <3> QED
      BY <2>1, <2>2, <3>1
  <2> QED
    BY <2>1, <2>2 DEF RolesFixed
<1>2. \A u \in Uids, p \in Perms : since[<<u, p>>] = IF Has(u, p) THEN 0 ELSE Never
  BY DEF Init
<1> QED
  BY <1>1, <1>2 DEF Fresh, ClockRight, LoadsFresh, CacheFresh, Init

\* On these tables the administration leaves grants and jobs about roles alone.
LEMMA AdminFixed ==
  ASSUME TypeOK, RolesFixed, schema = "activiti.sql", NextAdmin
  PROVE  RolesFixed' /\ UNCHANGED <<schema, grants>>
<1> USE DEF RolesFixed, TypeOK, tables
<1>1. ASSUME NEW t \in Threads, NEW u \in Uids, NEW names \in NameSets, UpdateUser(t, u, names)
      PROVE  RolesFixed' /\ UNCHANGED <<schema, grants>>
  BY <1>1 DEF UpdateUser, Begin
<1>2. ASSUME NEW t \in Threads, NEW u \in Uids, DeleteUser(t, u)
      PROVE  RolesFixed' /\ UNCHANGED <<schema, grants>>
  BY <1>2 DEF DeleteUser, Begin
<1>3. ASSUME NEW t \in Threads, FindRoles(t)
      PROVE  RolesFixed' /\ UNCHANGED <<schema, grants>>
  <2> DEFINE found == { r \in There(roles) : NameOf[r] \in job[t].names }
  <2>1. job[t] \in UserJob
    BY <1>3, JobKinds DEF FindRoles
  <2>2. [job[t] EXCEPT !.found = found].op = job[t].op
    BY <2>1 DEF UserJob
  <2>3. PICK j : /\ j = Nil \/ j = [job[t] EXCEPT !.found = found]
                 /\ job' = [job EXCEPT ![t] = j]
    BY <1>3 DEF FindRoles
  <2> HIDE DEF found
  <2>4. j # Nil => j.op # "permit"
    BY <1>3, <2>2, <2>3 DEF FindRoles
  <2>5. \A s \in Threads : job'[s] = IF s = t THEN j ELSE job[s]
    BY <2>3
  <2> QED
    BY <1>3, <2>4, <2>5 DEF FindRoles
<1>4. ASSUME NEW t \in Threads, CommitUser(t)
      PROVE  RolesFixed' /\ UNCHANGED <<schema, grants>>
  BY <1>4 DEF CommitUser
<1>5. ASSUME NEW t \in Threads, Fail(t)
      PROVE  RolesFixed' /\ UNCHANGED <<schema, grants>>
  BY <1>5 DEF Fail
<1>6. ASSUME NEW p \in Perms, AddPermission(p)
      PROVE  RolesFixed' /\ UNCHANGED <<schema, grants>>
  BY <1>6 DEF AddPermission
<1> QED
  BY <1>1, <1>2, <1>3, <1>4, <1>5, <1>6
     DEF NextAdmin, AddUser, UpdateRole, FindRole, CommitRole, DeleteRole, AddRole

LEMMA AdminStepFresh ==
  ASSUME TypeOK, Fresh, NextAdmin, UNCHANGED <<cache, load>>, Note(0),
         schema = "activiti.sql"
  PROVE  Fresh'
<1>1. RolesFixed' /\ UNCHANGED <<schema, grants>>
  BY AdminFixed DEF Fresh
<1>2. \A u \in Uids, p \in Perms : since'[<<u, p>>] <= since[<<u, p>>] /\ since'[<<u, p>>] \in Nat
                                   /\ since[<<u, p>>] \in Nat
  <2> SUFFICES ASSUME NEW u \in Uids, NEW p \in Perms
               PROVE  /\ since'[<<u, p>>] <= since[<<u, p>>] /\ since'[<<u, p>>] \in Nat
                      /\ since[<<u, p>>] \in Nat
    OBVIOUS
  <2>1. since'[<<u, p>>] <= since[<<u, p>>] + 0
    BY NoteAt
  <2>2. since[<<u, p>>] \in 0 .. Never /\ since'[<<u, p>>] \in 0 .. Never
    BY NoteType DEF TypeOK
  <2> QED
    BY <2>1, <2>2, TimesFacts
<1>3. ClockRight'
  <2>1. ASSUME NEW u \in Uids, NEW p \in Perms, Has(u, p)' PROVE since'[<<u, p>>] = 0
    BY <2>1, NoteAt
  <2> QED
    BY <2>1 DEF ClockRight
<1>4. LoadsFresh'
  <2> SUFFICES ASSUME NEW c \in Readers, load[c] # Nil PROVE LoadFresh(c)'
    BY DEF LoadsFresh
  <2>1. load[c] \in Load /\ load[c].uid \in Uids /\ load[c].ticks \in Nat
        /\ load[c].perms \subseteq Perms
    BY TimesFacts DEF TypeOK, Load
  <2>2. LoadFresh(c)
    BY DEF Fresh, LoadsFresh
  <2> QED
    BY <1>1, <1>2, <2>1, <2>2 DEF LoadFresh
<1>5. CacheFresh'
  <2> SUFFICES ASSUME NEW u \in Uids, cache[u] # Nil, cache[u].expires, NEW p \in cache[u].perms
               PROVE  since'[<<u, p>>] <= cache[u].age + LoadTicks
    BY DEF CacheFresh
  <2>1. cache[u] \in Entry /\ p \in Perms /\ cache[u].age \in Nat
    BY TimesFacts DEF TypeOK, Entry
  <2>2. since[<<u, p>>] <= cache[u].age + LoadTicks
    BY DEF Fresh, CacheFresh
  <2> QED
    BY <1>2, <2>1, <2>2, TimesFacts
<1> QED
  BY <1>1, <1>3, <1>4, <1>5 DEF Fresh

\* Loads and the cache, while no time passes and no table changes.
LEMMA LoadStepFresh ==
  ASSUME TypeOK, Fresh, UNCHANGED <<adminVars, since>>, schema = "activiti.sql",
         LoadsFresh', CacheFresh'
  PROVE  Fresh'
BY DEF adminVars, tables, Fresh, RolesFixed, ClockRight, Has, There

LEMMA ReadUserFresh ==
  ASSUME TypeOK, Fresh, NEW c \in Readers, ReadUser(c), schema = "activiti.sql"
  PROVE  Fresh'
<1> DEFINE u == load[c].uid
           found == { r \in There(roles) : <<u, r>> \in links }
<1>1. load[c] \in Load /\ LoadFresh(c)
  BY DEF ReadUser, TypeOK, Fresh, LoadsFresh
<1>2. u \in Uids /\ load[c].ticks \in Nat
  BY <1>1, TimesFacts DEF Load
<1>3. users[u] = "there" => \A r \in found, p \in Perms : <<r, p>> \in grants => Has(u, p)
  BY <1>2 DEF Has, Fresh, RolesFixed, There, TypeOK
<1>4. users[u] = "there" =>
        \A r \in found, p \in Perms : <<r, p>> \in grants => since[<<u, p>>] <= load[c].ticks
  BY <1>2, <1>3 DEF Fresh, ClockRight
<1> HIDE DEF found
<1>5. UNCHANGED <<adminVars, since, cache>>
  BY DEF ReadUser
<1>6. PICK j : /\ j = Nil \/ (users[u] = "there" /\ j = [load[c] EXCEPT !.todo = found])
               /\ load' = [load EXCEPT ![c] = j]
  BY DEF ReadUser, found
<1>7. \A d \in Readers : load'[d] = IF d = c THEN j ELSE load[d]
  BY <1>6 DEF TypeOK
<1>8. j # Nil => /\ j.uid = u /\ j.ticks = load[c].ticks /\ j.perms = load[c].perms
                 /\ j.todo = found /\ users[u] = "there"
  BY <1>1, <1>6 DEF Load
<1>9. UNCHANGED <<grants, since, cache>>
  BY <1>5 DEF adminVars, tables
<1>10. ASSUME NEW d \in Readers, load'[d] # Nil PROVE LoadFresh(d)'
  <2>1. CASE d = c
    BY <1>1, <1>4, <1>7, <1>8, <1>9, <1>10, <2>1 DEF LoadFresh
  <2>2. CASE d # c
    BY <1>7, <1>9, <1>10, <2>2 DEF LoadFresh, Fresh, LoadsFresh
  <2> QED
    BY <2>1, <2>2
<1>11. LoadsFresh' /\ CacheFresh'
  BY <1>9, <1>10 DEF LoadsFresh, CacheFresh, Fresh
<1> QED
  BY <1>5, <1>11, LoadStepFresh

LEMMA ReadRoleFresh ==
  ASSUME TypeOK, Fresh, NEW c \in Readers, NEW r \in Rids, ReadRole(c, r),
         schema = "activiti.sql"
  PROVE  Fresh'
<1> DEFINE rest == load[c].todo \ {r}
           more == load[c].perms \cup { p \in perms : <<r, p>> \in grants }
<1>1. load[c] \in Load /\ LoadFresh(c) /\ load[c].todo # Nil /\ r \in load[c].todo
  BY DEF ReadRole, TypeOK, Fresh, LoadsFresh
<1>2. /\ \A p \in more : since[<<load[c].uid, p>>] <= load[c].ticks
      /\ \A s \in rest, p \in Perms : <<s, p>> \in grants =>
            since[<<load[c].uid, p>>] <= load[c].ticks
  BY <1>1 DEF LoadFresh, TypeOK
<1>3. UNCHANGED <<adminVars, since, cache>>
  BY DEF ReadRole
<1>4. PICK j : /\ j = Nil \/ j = [load[c] EXCEPT !.todo = rest, !.perms = more]
               /\ load' = [load EXCEPT ![c] = j]
  BY DEF ReadRole
<1> HIDE DEF rest, more
<1>5. \A d \in Readers : load'[d] = IF d = c THEN j ELSE load[d]
  BY <1>4 DEF TypeOK
<1>6. j # Nil => /\ j.uid = load[c].uid /\ j.ticks = load[c].ticks /\ j.perms = more
                 /\ j.todo = rest
  BY <1>1, <1>4 DEF Load
<1>7. UNCHANGED <<grants, since, cache>>
  BY <1>3 DEF adminVars, tables
<1>8. ASSUME NEW d \in Readers, load'[d] # Nil PROVE LoadFresh(d)'
  <2>1. CASE d = c
    BY <1>2, <1>5, <1>6, <1>7, <1>8, <2>1 DEF LoadFresh
  <2>2. CASE d # c
    BY <1>5, <1>7, <1>8, <2>2 DEF LoadFresh, Fresh, LoadsFresh
  <2> QED
    BY <2>1, <2>2
<1>9. LoadsFresh' /\ CacheFresh'
  BY <1>7, <1>8 DEF LoadsFresh, CacheFresh, Fresh
<1> QED
  BY <1>3, <1>9, LoadStepFresh

LEMMA CheckFresh ==
  ASSUME TypeOK, Fresh, NEW c \in Readers, NEW u \in Uids, Check(c, u),
         schema = "activiti.sql"
  PROVE  Fresh'
<1>1. UNCHANGED <<adminVars, since>> /\ UNCHANGED <<grants, since>>
  BY DEF Check, adminVars, tables
<1>2. UNCHANGED cache
  BY DEF Check, Found, TypeOK
<1>3. ASSUME NEW d \in Readers, load'[d] # Nil PROVE LoadFresh(d)'
  <2>1. CASE load'[d] = load[d]
    BY <1>1, <1>3, <2>1 DEF LoadFresh, Fresh, LoadsFresh
  <2>2. CASE load'[d] # load[d]
    <3>1. load' = [load EXCEPT ![c] = [uid |-> u, todo |-> Nil, perms |-> {}, ticks |-> 0]]
      BY <2>2 DEF Check
    <3>2. load'[d] = [uid |-> u, todo |-> Nil, perms |-> {}, ticks |-> 0]
      BY <2>2, <3>1 DEF TypeOK
    <3> QED
      BY <3>2 DEF LoadFresh
  <2> QED
    BY <2>1, <2>2
<1>4. LoadsFresh' /\ CacheFresh'
  BY <1>1, <1>2, <1>3 DEF LoadsFresh, CacheFresh, Fresh
<1> QED
  BY <1>1, <1>4, LoadStepFresh

\* What is put was read within the ticks a load may last.
LEMMA PutFresh ==
  ASSUME TypeOK, Fresh, NEW c \in Readers, NEW expires \in BOOLEAN, Put(c, expires),
         schema = "activiti.sql"
  PROVE  Fresh'
<1> DEFINE u == load[c].uid
<1>1. UNCHANGED <<adminVars, since>> /\ UNCHANGED <<grants, since>>
  BY DEF Put, adminVars, tables
<1>2. load[c] \in Load /\ LoadFresh(c)
  BY DEF Put, TypeOK, Fresh, LoadsFresh
<1>3. u \in Uids /\ load[c].perms \subseteq Perms /\ load[c].ticks \in 0 .. LoadTicks
  BY <1>2 DEF Load
<1>4. \A d \in Readers : load'[d] # Nil => load'[d] = load[d]
  BY DEF Put, TypeOK
<1>5. LoadsFresh'
  BY <1>1, <1>4 DEF LoadsFresh, LoadFresh, Fresh
<1>6. CacheFresh'
  <2> SUFFICES ASSUME NEW v \in Uids, cache'[v] # Nil, cache'[v].expires, NEW p \in cache'[v].perms
               PROVE  since'[<<v, p>>] <= cache'[v].age + LoadTicks
    BY DEF CacheFresh
  <2>1. CASE v # u
    <3>1. cache'[v] = cache[v]
      BY <2>1 DEF Put, TypeOK
    <3> QED
      BY <1>1, <3>1 DEF Fresh, CacheFresh
  <2>2. CASE v = u
    <3>1. cache'[v] = [perms |-> load[c].perms, age |-> 0, expires |-> expires]
      BY <1>3, <2>2 DEF Put, TypeOK
    <3>2. p \in load[c].perms
      BY <3>1
    <3>3. since[<<u, p>>] <= load[c].ticks
      BY <1>2, <3>2 DEF LoadFresh
    <3>4. since[<<u, p>>] \in 0 .. Never
      BY <1>3, <3>2 DEF TypeOK
    <3> QED
      BY <1>1, <1>3, <2>2, <3>1, <3>3, <3>4, TimesFacts
  <2> QED
    BY <2>1, <2>2
<1> QED
  BY <1>1, <1>5, <1>6, LoadStepFresh

LEMMA DropFresh ==
  ASSUME TypeOK, Fresh, schema = "activiti.sql",
         (\E c \in Readers : FailLoad(c)) \/ \E u \in Uids : Logout(u)
  PROVE  Fresh'
<1>1. UNCHANGED <<adminVars, since>> /\ UNCHANGED <<grants, since>>
  BY DEF FailLoad, Logout, adminVars, tables
<1>2. /\ \A d \in Readers : load'[d] # Nil => load'[d] = load[d]
      /\ \A v \in Uids : cache'[v] # Nil => cache'[v] = cache[v]
  BY DEF FailLoad, Logout, TypeOK
<1>3. LoadsFresh'
  BY <1>1, <1>2 DEF LoadsFresh, LoadFresh, Fresh
<1>4. CacheFresh'
  BY <1>1, <1>2 DEF CacheFresh, Fresh
<1> QED
  BY <1>1, <1>3, <1>4, LoadStepFresh

\* A tick makes the clocks, the loads and the entries a tick older together.
LEMMA TickFresh ==
  ASSUME TypeOK, Fresh, Tick, schema = "activiti.sql"
  PROVE  Fresh'
<1>1. UNCHANGED <<schema, users, roles, perms, links, grants, job>> /\ Note(1)
  BY DEF Tick, adminVars, tables
<1>2. ASSUME NEW u \in Uids, NEW p \in Perms
      PROVE  since'[<<u, p>>] <= since[<<u, p>>] + 1 /\ since[<<u, p>>] \in Nat
             /\ since'[<<u, p>>] \in Nat
  <2>1. since[<<u, p>>] \in 0 .. Never /\ since'[<<u, p>>] \in 0 .. Never
    BY <1>1, NoteType DEF TypeOK
  <2> QED
    BY <1>1, <2>1, NoteAt, TimesFacts
<1>3. RolesFixed'
  BY <1>1 DEF Fresh, RolesFixed
<1>4. ClockRight'
  <2>1. ASSUME NEW u \in Uids, NEW p \in Perms, Has(u, p)' PROVE since'[<<u, p>>] = 0
    BY <1>1, <2>1, NoteAt
  <2> QED
    BY <2>1 DEF ClockRight
<1>5. LoadsFresh'
  <2> SUFFICES ASSUME NEW c \in Readers, load'[c] # Nil PROVE LoadFresh(c)'
    BY DEF LoadsFresh
  <2>1. load[c] # Nil /\ load'[c] = [load[c] EXCEPT !.ticks = @ + 1]
    BY DEF Tick
  <2>2. load[c] \in Load /\ LoadFresh(c)
    BY <2>1 DEF TypeOK, Fresh, LoadsFresh
  <2>3. load[c].uid \in Uids /\ load[c].perms \subseteq Perms /\ load[c].ticks \in Nat
    BY <2>2, TimesFacts DEF Load
  <2>4. load'[c].uid = load[c].uid /\ load'[c].perms = load[c].perms
        /\ load'[c].todo = load[c].todo /\ load'[c].ticks = load[c].ticks + 1
    BY <2>1, <2>2 DEF Load
  <2>5. \A p \in load[c].perms : since'[<<load[c].uid, p>>] <= load[c].ticks + 1
    BY <1>2, <2>2, <2>3 DEF LoadFresh
  <2>6. load[c].todo # Nil =>
          \A r \in load[c].todo, p \in Perms :
            <<r, p>> \in grants => since'[<<load[c].uid, p>>] <= load[c].ticks + 1
    BY <1>2, <2>2, <2>3 DEF LoadFresh
  <2> QED
    BY <1>1, <2>4, <2>5, <2>6 DEF LoadFresh
<1>6. CacheFresh'
  <2> SUFFICES ASSUME NEW u \in Uids, cache'[u] # Nil, cache'[u].expires, NEW p \in cache'[u].perms
               PROVE  since'[<<u, p>>] <= cache'[u].age + LoadTicks
    BY DEF CacheFresh
  <2>1. cache[u] # Nil /\ cache'[u] = Aged(cache[u])
    BY DEF Tick
  <2>2. cache[u] \in Entry
    BY <2>1 DEF TypeOK
  <2>3. cache'[u].perms = cache[u].perms /\ cache[u].expires /\ cache'[u].age = cache[u].age + 1
    BY <2>1, <2>2, AgedFacts
  <2>4. p \in Perms /\ cache[u].age \in Nat
    BY <2>2, <2>3, TimesFacts DEF Entry
  <2>5. since[<<u, p>>] <= cache[u].age + LoadTicks
    BY <2>1, <2>3 DEF Fresh, CacheFresh
  <2> QED
    BY <1>2, <2>3, <2>4, <2>5, TimesFacts
<1> QED
  BY <1>1, <1>3, <1>4, <1>5, <1>6 DEF Fresh

LEMMA NextFresh == TypeOK /\ Fresh /\ [Next]_vars => Fresh'
<1> SUFFICES ASSUME TypeOK, Fresh, [Next]_vars PROVE Fresh'
  OBVIOUS
<1>1. UNCHANGED schema
  BY DEF Next, NextAdmin, AddUser, UpdateUser, DeleteUser, FindRoles, CommitUser, Fail,
         UpdateRole, FindRole, CommitRole, AddPermission, AddRole, DeleteRole, vars, adminVars,
         Check, ReadUser, ReadRole, Put, FailLoad, Logout, Tick
<1>2. CASE schema # "activiti.sql"
  BY <1>1, <1>2 DEF Fresh
<1>3. CASE schema = "activiti.sql"
  <2>1. CASE UNCHANGED vars
    BY <2>1 DEF vars, adminVars, tables, cacheVars, Fresh, RolesFixed, ClockRight, Has, There,
                LoadsFresh, LoadFresh, CacheFresh
  <2> QED
    BY <1>3, <2>1, AdminStepFresh, CheckFresh, ReadUserFresh, ReadRoleFresh, PutFresh, DropFresh,
       TickFresh DEF Next
<1> QED
  BY <1>2, <1>3

\* However long an entry may live and however the statements of a load are
\* interleaved with the administration: what was taken from a user is granted
\* no longer than an entry lives and a load lasts.
THEOREM GrantsDoExpire == Spec => []GrantsExpire
<1>1. Init => TypeOK /\ Fresh
  BY InitType, InitFresh
<1>2. TypeOK /\ Fresh /\ [Next]_vars => (TypeOK /\ Fresh)'
  BY NextType, NextFresh
<1>3. Fresh => GrantsExpire
  BY DEF Fresh, CacheFresh, GrantsExpire
<1> QED
  BY <1>1, <1>2, <1>3, PTL DEF Spec
===============================================================================
