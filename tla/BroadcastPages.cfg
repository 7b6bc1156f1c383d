SPECIFICATION FairSpec
CONSTANTS
    p1 = p1
    p2 = p2
    s1 = s1
    s2 = s2
    s3 = s3
    None = None
    Pages = {p1, p2}
    Sockets = {s1, s2, s3}
    Capacity = 1
    MaxVersion = 2
    MaxAnswers = 1
INVARIANTS
    OpenStaysConnected
PROPERTIES
    PagesCatchUp
