SPECIFICATION FairSpec
CONSTANTS
    old = old
    new = new
    p1 = p1
    p2 = p2
    Targets = {old, new}
    Patches = {p1, p2}
    Startup = Startup
    Shutdown = Shutdown
    None = None
    FirstDelay = 3
    MaxDelay = 5
INVARIANTS
    TypeOK
    OneCollector
    ApiServesTarget
    ReadyIsCurrent
    LastConfigWins
    ThreadsAreAwaited
PROPERTIES
    CallsReturn
    Recovers
