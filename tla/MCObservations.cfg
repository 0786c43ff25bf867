SPECIFICATION StoreSpec
CONSTANTS
    u1 = u1
    u2 = u2
    s1 = s1
    s2 = s2
    p1 = p1
    p2 = p2
    p3 = p3
    t1 = t1
    None = None
    Obs = {1, 2, 3}
    Team = {t1}
    Row <- MCRow
    Stores <- MCStores
    Request <- MCRequest
    Members <- MCMembers
    ChainOf <- MCChainOf
    PageLimit = 2
    ForgetLimit = 2
    MaxOps = 2
INVARIANTS ReadersSound ListedCanBeOpened NothingVanishes
