------------------------- MODULE AuthorizationCache -------------------------
(***************************************************************************)
(* What a permission check is answered from: ShiroDbRealm reads the roles  *)
(* and permissions of a user in several statements, outside a transaction, *)
(* and Shiro keeps the answer in Redis (RedisCache) until it expires or    *)
(* the user logs out.  The administration does not touch the cache.        *)
(***************************************************************************)
EXTENDS UserAdmin

CONSTANTS Readers, \* requests that check a permission
          Expire   \* life of an entry, in ticks (30 minutes as configured)

ASSUME ExpireAssumption == Expire \in Nat \ {0}

VARIABLES cache, \* Redis: [Uids -> [perms, age, expires] or Nil]
          load,  \* [Readers -> an unfinished doGetAuthorizationInfo, or Nil]
          since  \* [Uids \X Perms -> ticks since the user had the permission]

cacheVars == <<cache, load, since>>
vars == <<adminVars, cacheVars>>

\* A load is assumed to end within LoadTicks ticks.
LoadTicks == 1
Never == Expire + LoadTicks + 1

Entry == [perms : SUBSET Perms, age : 0 .. Expire - 1, expires : BOOLEAN]
Load == [uid : Uids, todo : {Nil} \cup SUBSET Rids, perms : SUBSET Perms, ticks : 0 .. LoadTicks]

ASSUME NilIsNoEntry == Nil \notin Entry \cup Load

Has(u, p) == /\ users[u] = "there"
             /\ \E r \in There(roles) : <<u, r>> \in links /\ <<r, p>> \in grants /\ p \in perms

Init == /\ InitAdmin
        /\ cache = [u \in Uids |-> Nil]
        /\ load = [c \in Readers |-> Nil]
        /\ since = [k \in Uids \X Perms |-> IF Has(k[1], k[2]) THEN 0 ELSE Never]

\* The clock of GrantsExpire, on the tables it speaks of: 0 while the user has
\* the permission.
Note(ticks) ==
    since' = IF schema = "mapped" THEN since ELSE
             [k \in Uids \X Perms |->
                IF Has(k[1], k[2])' THEN 0
                ELSE IF since[k] + ticks > Never THEN Never ELSE since[k] + ticks]

\* RedisCache.get does not touch the expiry of what it finds.
Refreshed(entry) == [entry EXCEPT !.age = 0]
Found(entry) == entry

\* hasPermission: answered from the cache, or the load begins with the roles;
\* a user who is no longer there is a NullPointerException.
Check(c, u) ==
    /\ load[c] = Nil
    /\ \/ /\ cache[u] # Nil
          /\ cache' = [cache EXCEPT ![u] = Found(@)]
          /\ UNCHANGED load
       \/ /\ cache[u] = Nil /\ users[u] = "there"
          /\ load' = [load EXCEPT ![c] = [uid |-> u, todo |-> Nil, perms |-> {}, ticks |-> 0]]
          /\ UNCHANGED cache
    /\ UNCHANGED <<adminVars, since>>

\* getPermissionsByUserName reads the user again, then one role after another.
ReadUser(c) ==
    /\ load[c] # Nil /\ load[c].todo = Nil
    /\ LET u == load[c].uid
       IN  load' = [load EXCEPT ![c] =
                      IF users[u] = "there"
                      THEN [@ EXCEPT !.todo = { r \in There(roles) : <<u, r>> \in links }]
                      ELSE Nil]
    /\ UNCHANGED <<adminVars, cache, since>>
ReadRole(c, r) ==
    /\ load[c] # Nil /\ load[c].todo # Nil /\ r \in load[c].todo
    /\ load' = [load EXCEPT ![c] =
                  IF roles[r] = "there"
                  THEN [load[c] EXCEPT !.todo = @ \ {r},
                                       !.perms = @ \cup { p \in perms : <<r, p>> \in grants }]
                  ELSE Nil]
    /\ UNCHANGED <<adminVars, cache, since>>

\* RedisCache.put: SET and then EXPIRE, which may fail after the SET.
Put(c, expires) ==
    /\ load[c] # Nil /\ load[c].todo = {}
    /\ cache' = [cache EXCEPT ![load[c].uid] =
                    [perms |-> load[c].perms, age |-> 0, expires |-> expires]]
    /\ load' = [load EXCEPT ![c] = Nil]
    /\ UNCHANGED <<adminVars, since>>

\* A statement or a Redis command fails.
FailLoad(c) ==
    /\ load[c] # Nil
    /\ load' = [load EXCEPT ![c] = Nil]
    /\ UNCHANGED <<adminVars, cache, since>>

\* Logout drops the user's entry.
Logout(u) ==
    /\ cache[u] # Nil
    /\ cache' = [cache EXCEPT ![u] = Nil]
    /\ UNCHANGED <<adminVars, load, since>>

\* An entry one tick older; Redis drops it when it has lived Expire ticks, if it
\* was told to.
AgedOneMore(entry) ==
    IF ~entry.expires THEN entry
    ELSE IF entry.age = Expire THEN Nil ELSE [entry EXCEPT !.age = @ + 1]
Aged(entry) ==
    IF ~entry.expires THEN entry
    ELSE IF entry.age + 1 = Expire THEN Nil ELSE [entry EXCEPT !.age = @ + 1]

\* Time passes.
Tick ==
    /\ \A c \in Readers : load[c] # Nil => load[c].ticks < LoadTicks
    /\ load' = [c \in Readers |-> IF load[c] = Nil THEN Nil ELSE [load[c] EXCEPT !.ticks = @ + 1]]
    /\ cache' = [u \in Uids |-> IF cache[u] = Nil THEN Nil ELSE Aged(cache[u])]
    /\ UNCHANGED adminVars
    /\ Note(1)

Next == \/ NextAdmin /\ UNCHANGED <<cache, load>> /\ Note(0)
        \/ \E c \in Readers : \/ \E u \in Uids : Check(c, u)
                              \/ ReadUser(c) \/ \E r \in Rids : ReadRole(c, r)
                              \/ \E expires \in BOOLEAN : Put(c, expires)
                              \/ FailLoad(c)
        \/ \E u \in Uids : Logout(u)
        \/ Tick

Spec == Init /\ [][Next]_vars
-----------------------------------------------------------------------------
TypeOK ==
    /\ schema \in Schemas
    /\ users \in [Uids -> {"free", "there", "gone"}]
    /\ roles \in [Rids -> {"free", "there", "gone"}]
    /\ perms \subseteq Perms
    /\ links \subseteq Uids \X Rids /\ grants \subseteq Rids \X Perms
    /\ given \in [Uids -> SUBSET Rids]
    /\ job \in [Threads -> {Nil} \cup UserJob \cup RoleJob]
    /\ cache \in [Uids -> {Nil} \cup Entry]
    /\ load \in [Readers -> {Nil} \cup Load]
    /\ since \in [Uids \X Perms -> 0 .. Never]

\* A permission that was taken from a user is granted for no longer than an
\* entry lives and a load lasts, and none is granted that the user never had,
\* although the load reads in several statements; only an entry whose EXPIRE
\* failed stays until the logout.  On the tables of
\* activiti.sql, where no request can change what a role may do; where one
\* can, a load may join a role the user lost to a permission it got later.
GrantsExpire ==
    schema = "activiti.sql" =>
        \A u \in Uids : (cache[u] # Nil /\ cache[u].expires) =>
            \A p \in cache[u].perms : since[<<u, p>>] <= cache[u].age + LoadTicks
=============================================================================
