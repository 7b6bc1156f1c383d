SPECIFICATION Spec
CONSTANTS
    home = home
    away = away
    secret = secret
    dollar = dollar
    server = server
    k1 = k1
    Absent = Absent
    Garbage = Garbage
    Hosts = {home, away}
    Passwords = {secret, dollar}
    Expanded <- MCExpanded
    Servers = {}
    Days = {1, Garbage}
    MinDays = 1
    MaxDays = 1
    Environments <- MCEnvironments
    TokenIds = {k1}
SYMMETRY EitherHost
INVARIANTS
    TypeOK
    ReconfiguresToTested
    ConfigSurvives
