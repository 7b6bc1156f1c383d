SPECIFICATION TxnSpec
CONSTANTS
    a = a
    b = b
    late = late
    current = current
    None = None
    Macs = {a}
    Threads = {late, current}
    Confirmation = 1
    Instants = {1, 2, 3, 4, 5}
INVARIANTS
    SingleSession
