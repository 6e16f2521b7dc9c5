SPECIFICATION MCSpec
CONSTANTS
    u1 = u1
    u2 = u2
    r1 = r1
    r2 = r2
    p1 = p1
    p2 = p2
    t1 = t1
    t2 = t2
    c1 = c1
    c2 = c2
    Nil = Nil
    Uids = {u1, u2}
    Rids = {r1, r2}
    NameOf <- NamesValue
    Perms = {p1, p2}
    Threads = {t1, t2}
    FirstUsers = {u1}
    FirstRoles <- RolesValue
    FirstLinks <- LinksValue
    FirstGrants <- GrantsValue
    NameSets <- NameSetsValue
    PermSets <- PermSetsValue
    Readers = {c1, c2}
    Expire = 2
SYMMETRY Symmetry
INVARIANTS TypeOK RolesAsGiven GrantsExpire
CHECK_DEADLOCK FALSE
