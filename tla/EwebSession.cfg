SPECIFICATION Spec
CONSTANTS
    s1 = s1
    s2 = s2
    s3 = s3
    None = None
    Sids = {s1, s2, s3}
INVARIANTS
    PairOfOneSession
    OneExpiryIsSurvived
PROPERTIES
    FetchEnds
