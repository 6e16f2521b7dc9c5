----------------------------- MODULE UserAdmin -----------------------------
(***************************************************************************)
(* The administration of users, roles and permissions (SystemController,   *)
(* UserServiceImpl, RoleServiceImpl and their mappers).  Every service     *)
(* method is one transaction; its writes are seen when it commits, its     *)
(* plain selects read a snapshot taken at the first of them, and an UPDATE *)
(* or DELETE of a user locks that row.  The further locks of the database  *)
(* only take interleavings away.                                           *)
(*                                                                         *)
(* The mappers do not fit the tables of activiti.sql: T_USER.uid is not    *)
(* generated, T_ROLE.role_desc may not be null and no table has a column   *)
(* roleid, so there addUser, addRole, deleteRole and updateRole fail at    *)
(* such a statement and are rolled back.  deletePermission fails on any    *)
(* schema (its second statement deletes from T_PERMISSION by a column that *)
(* table lacks).  `schema` says which tables the statements meet; a        *)
(* request that is rolled back changes nothing and has no action.          *)
(***************************************************************************)
EXTENDS Naturals, FiniteSets

CONSTANTS Uids, Rids,   \* keys of T_USER and T_ROLE, never given out twice
          NameOf,       \* [Rids -> role_name]
          Perms,        \* permission names
          Threads,      \* requests of administrators
          FirstUsers, FirstLinks, FirstGrants, \* the tables at first,
          FirstRoles,   \* T_ROLE on either schema
          NameSets,     \* role names a form may send, {} for none
          PermSets,     \* permission names a form may send
          Nil

Schemas == {"activiti.sql", "mapped"}

\* At first a user has roles that are there, on either schema.
ASSUME TablesAssumption ==
    /\ FirstUsers \subseteq Uids /\ FirstGrants \subseteq Rids \X Perms
    /\ \A s \in Schemas : /\ FirstRoles[s] \subseteq Rids
                          /\ FirstLinks \subseteq FirstUsers \X FirstRoles[s]

\* A transaction about a user: the links it deletes, the roles it found; and one
\* about the permissions of a role.
UserJob == [op : {"add", "update", "delete"}, uid : Uids, names : NameSets \cup {{}},
            old : SUBSET (Uids \X Rids), found : {Nil} \cup SUBSET Rids]
RoleJob == [op : {"permit"}, rid : Rids, names : PermSets, found : {Nil} \cup SUBSET Rids]

ASSUME NilAssumption == /\ Nil \notin UserJob \cup RoleJob
                        /\ \A rids \in SUBSET Rids : rids # Nil

ASSUME PermSetsAssumption == PermSets \subseteq SUBSET Perms

VARIABLES schema, \* "activiti.sql", or "mapped" where the columns are as the mappers suppose
          users,  \* T_USER: [Uids -> "free", "there" or "gone"]
          roles,  \* T_ROLE: [Rids -> "free", "there" or "gone"]
          perms,  \* T_PERMISSION
          links,  \* T_USER_ROLE: pairs of uid and rid
          grants, \* T_ROLE_PERMISSION: pairs of rid and permission
          job,    \* [Threads -> the transaction a request is in, or Nil]
          given   \* [Uids -> the roles the last request gave], for the properties

tables == <<users, roles, perms, links, grants>>
adminVars == <<schema, tables, job, given>>

There(table) == { k \in DOMAIN table : table[k] = "there" }

InitAdmin ==
    /\ schema \in Schemas
    /\ users = [u \in Uids |-> IF u \in FirstUsers THEN "there" ELSE "free"]
    /\ roles = [r \in Rids |-> IF r \in FirstRoles[schema] THEN "there" ELSE "free"]
    /\ links = FirstLinks
    /\ grants = { g \in FirstGrants : roles[g[1]] = "there" }
    /\ perms = { g[2] : g \in grants }
    /\ job = [t \in Threads |-> Nil]
    /\ given = [u \in Uids |-> { r \in Rids : <<u, r>> \in FirstLinks }]

\* The row of a user is locked by the transaction that updated or deleted it.
RowFreeAlways(t, u) == TRUE
RowFree(t, u) ==
    \A s \in Threads \ {t} :
        ~(job[s] # Nil /\ job[s].op \in {"update", "delete"} /\ job[s].uid = u)

LinksOf(u) == { l \in links : l[1] = u }

Begin(t, j) == job[t] = Nil /\ job' = [job EXCEPT ![t] = j]

\* addUser with role names: the user is inserted.
AddUser(t, names) ==
    /\ schema = "mapped"
    /\ \E u \in Uids :
         /\ users[u] = "free"
         /\ \A s \in Threads : ~(job[s] # Nil /\ job[s].op = "add" /\ job[s].uid = u)
         /\ Begin(t, [op |-> "add", uid |-> u, names |-> names, old |-> {}, found |-> Nil])
    /\ UNCHANGED <<schema, tables, given>>

\* updateUser, with role names or (names = {}) without, for a user the page has
\* listed: the row is updated and the links it has now are deleted.
UpdateUser(t, u, names) ==
    /\ users[u] # "free" /\ RowFree(t, u)
    /\ Begin(t, [op |-> "update", uid |-> u, names |-> names, old |-> LinksOf(u), found |-> Nil])
    /\ UNCHANGED <<schema, tables, given>>

\* deleteUser: the row, then its links.
DeleteUser(t, u) ==
    /\ users[u] # "free" /\ RowFree(t, u)
    /\ Begin(t, [op |-> "delete", uid |-> u, names |-> {}, old |-> LinksOf(u), found |-> Nil])
    /\ UNCHANGED <<schema, tables, given>>

\* The roles of the names: a name without a role ends the transaction, since
\* its link would hold a null.
FindRoles(t) ==
    /\ job[t] # Nil /\ job[t].op # "permit" /\ job[t].found = Nil
    /\ LET found == { r \in There(roles) : NameOf[r] \in job[t].names }
       IN  job' = [job EXCEPT ![t] =
                     IF \A n \in job[t].names : \E r \in found : NameOf[r] = n
                     THEN [@ EXCEPT !.found = found] ELSE Nil]
    /\ UNCHANGED <<schema, tables, given>>

\* The new links are inserted and the transaction commits.
CommitUser(t) ==
    /\ job[t] # Nil /\ job[t].op # "permit" /\ job[t].found # Nil
    /\ LET u == job[t].uid
       IN  /\ users' = [users EXCEPT ![u] = CASE job[t].op = "add" -> "there"
                                              [] job[t].op = "update" -> @
                                              [] job[t].op = "delete" -> "gone"]
           /\ links' = (links \ job[t].old) \cup ({u} \X job[t].found)
           /\ given' = [given EXCEPT ![u] = job[t].found \cap There(roles)]
    /\ job' = [job EXCEPT ![t] = Nil]
    /\ UNCHANGED <<schema, roles, perms, grants>>

\* Any transaction may fail and is rolled back.
Fail(t) ==
    /\ job[t] # Nil
    /\ job' = [job EXCEPT ![t] = Nil]
    /\ UNCHANGED <<schema, tables, given>>

\* addPermission; the name is unique.
AddPermission(p) ==
    /\ p \notin perms
    /\ perms' = perms \cup {p}
    /\ UNCHANGED <<schema, users, roles, links, grants, job, given>>

\* addRole: the name is unique, a permission that does not exist is a null.
AddRole(r, ps) ==
    /\ schema = "mapped"
    /\ roles[r] = "free" /\ \A q \in There(roles) : NameOf[q] # NameOf[r]
    /\ ps \subseteq perms
    /\ roles' = [roles EXCEPT ![r] = "there"]
    /\ grants' = grants \cup ({r} \X ps)
    /\ UNCHANGED <<schema, users, perms, links, job, given>>

\* deleteRole: the row, its permissions, its users.
DeleteRole(r) ==
    /\ schema = "mapped" /\ roles[r] = "there"
    /\ roles' = [roles EXCEPT ![r] = "gone"]
    /\ grants' = { g \in grants : g[1] # r }
    /\ links' = { l \in links : l[2] # r }
    /\ given' = [u \in Uids |-> given[u] \ {r}]
    /\ UNCHANGED <<schema, users, perms, job>>

\* The controller's updaterole: one transaction deletes the permissions of the
\* role, the next one looks up the role and adds the new ones.
UpdateRole(t, r, ps) ==
    /\ schema = "mapped" /\ ps \subseteq perms
    /\ grants' = { g \in grants : g[1] # r }
    /\ Begin(t, [op |-> "permit", rid |-> r, names |-> ps, found |-> Nil])
    /\ UNCHANGED <<schema, users, roles, perms, links, given>>
FindRole(t) ==
    /\ job[t] # Nil /\ job[t].op = "permit" /\ job[t].found = Nil
    /\ job' = [job EXCEPT ![t] = IF roles[job[t].rid] = "there"
                                 THEN [@ EXCEPT !.found = {job[t].rid}] ELSE Nil]
    /\ UNCHANGED <<schema, tables, given>>
CommitRole(t) ==
    /\ job[t] # Nil /\ job[t].op = "permit" /\ job[t].found # Nil
    /\ grants' = grants \cup (job[t].found \X job[t].names)
    /\ job' = [job EXCEPT ![t] = Nil]
    /\ UNCHANGED <<schema, users, roles, perms, links, given>>

NextAdmin ==
    \/ \E t \in Threads :
         \/ \E names \in NameSets :
              AddUser(t, names) \/ \E u \in Uids : UpdateUser(t, u, names)
         \/ \E u \in Uids : DeleteUser(t, u)
         \/ FindRoles(t) \/ CommitUser(t) \/ Fail(t)
         \/ \E r \in Rids, ps \in PermSets : UpdateRole(t, r, ps)
         \/ FindRole(t) \/ CommitRole(t)
    \/ \E p \in Perms : AddPermission(p)
    \/ \E r \in Rids : DeleteRole(r) \/ \E ps \in PermSets : AddRole(r, ps)

-----------------------------------------------------------------------------
\* Two requests for one user never leave a mixture: the roles of a user are
\* those of the last request that committed, less the roles deleted since.
RolesAsGiven ==
    \A u \in There(users) :
        { r \in There(roles) : <<u, r>> \in links } = given[u]
=============================================================================
