-------------------------- MODULE MCAdministration --------------------------
EXTENDS AuthorizationCache, TLC

CONSTANTS u1, u2, r1, r2, p1, p2, t1, t2, c1, c2

NamesValue == (r1 :> "manager") @@ (r2 :> "leader")
LinksValue == {<<u1, r1>>}
GrantsValue == {<<r1, p1>>, <<r2, p2>>}
RolesValue == ("mapped" :> {r1}) @@ ("activiti.sql" :> {r1, r2})
NameSetsValue == {{}, {"manager"}, {"leader"}}
PermSetsValue == {{p2}}

\* The cache is watched on the tables of activiti.sql, where GrantsExpire is
\* claimed; on the others the administration runs alone.
MCNext == /\ Next
          /\ schema = "mapped" => (UNCHANGED <<cache, load>> /\ ~Tick)
MCSpec == Init /\ [][MCNext]_vars
Symmetry == Permutations(Threads) \cup Permutations(Readers)
=============================================================================
