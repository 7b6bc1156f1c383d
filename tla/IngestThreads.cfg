SPECIFICATION TxnSpec
CONSTANTS
    a = a
    b = b
    late = late
    current = current
    None = None
    Macs = {a, b}
    Threads = {late, current}
    Confirmation = 1
    Instants = {1, 2, 3, 4, 5}
SYMMETRY Symmetric
INVARIANTS
    TypeOK
    OnlineHasSession
PROPERTIES
    Atomic
