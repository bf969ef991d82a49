CONSTANTS
    NoRow = NoRow
    Root = company
    Bucket = pool
    o1 = o1
    o2 = o2
    p1 = p1
    p2 = p2
    Others = {o1, o2}
    Accounts = {p1, p2}
    Positions = {x1}
    Names = {n1, n2}
    MaxPeopleEdits = 2
    gas = gas
    other = other
    Gas = gas
    Groups = {g1, g2}
    Seeded = {g1}
    Entries = {i1, i2}
    Codes = {gas, other}
    Limits <- SmallLimits
    Fallback <- Built
    MaxTableEdits = 3
    f1 = f1
    f2 = f2
    d1 = d1
    d2 = d2
    i1 = i1
    i2 = i2
    Fences = {f1, f2}
    Kinds <- TwoKinds
    Devices = {d1, d2}
    Places = {1, 3}
    Images = {i1, i2}
    Files <- TwoFiles
    MaxMapEdits = 3
    FewMapEdits = 2
    Duration = 2
    Requests = {r1, r2}
    MaxDay = 1
SPECIFICATION MCSpec
CHECK_DEADLOCK FALSE
INVARIANT DirectoryHolds
 
 
INVARIANT TrainingHolds
