SPECIFICATION Spec
CONSTANTS
    home = home
    away = away
    secret = secret
    dollar = dollar
    server = server
    k1 = k1
    Absent = Absent
    Garbage = Garbage
    Hosts = {home, away}
    Passwords = {secret, dollar}
    Expanded <- MCExpanded
    Servers = {server}
    Days = {0, 1, Garbage}
    MinDays = 1
    MaxDays = 3
    Environments <- NoEnvironment
    TokenIds = {k1}
INVARIANTS
    SavedRouterTested
