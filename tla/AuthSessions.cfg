SPECIFICATION Spec
CONSTANTS
    r1 = r1
    r2 = r2
    r3 = r3
    p = p
    q = q
    s = s
    t = t
    NULL = NULL
    Requests = {r1, r2, r3}
    Passwords = {p, q}
    Tokens = {s, t}
    Limit = 2
    MaxVersion = 2
SYMMETRY Symmetric
INVARIANTS
    TypeOK
    FailuresBounded
PROPERTIES
    Implements
    AcceptedIsLive
