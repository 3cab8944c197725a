SPECIFICATION Spec
CONSTANTS
    a1 = a1
    a2 = a2
    s1 = s1
    s2 = s2
    c1 = c1
    c2 = c2
    h1 = h1
    h2 = h2
    q1 = q1
    r1 = r1
    r2 = r2
    Actors = {a1, a2}
    Owners = {a1}
    States = {s1}
    Callbacks = {c1, c2}
    Hooks = {h1}
    Requests = {q1}
    Repositories = {r1}
    MaxChanges = 3
    NoActor = NoActor
    NoState = NoState
    NoRepository = NoRepository
INVARIANT RevocationHolds
SYMMETRY Symmetry
CHECK_DEADLOCK FALSE
