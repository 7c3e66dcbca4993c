CONSTANTS
    a1 = a1  a2 = a2  b1 = b1  b2 = b2  n1 = n1  r1 = r1
    c1 = c1  c2 = c2  t1 = t1  t2 = t2  s1 = s1  s2 = s2
    Accounts = {a1, a2}
    Browsers = {b1, b2}
    Whose <- MCWhose
    Addresses = {n1}
    Replicas = {r1}
    Calls = {c1, c2}
    Tokens = {t1, t2}
    States = {s1, s2}
    MaxFailed = 3
    Limit = 2
    MaxLapses = 1
    NoToken = NoToken
    NoState = NoState
    NoFlow = NoFlow
    NoSession = NoSession
SPECIFICATION MCSpec
SYMMETRY MCSymmetry
INVARIANTS
    GuessesEndInALock
    EachBrowserHoldsItsOwnSession
CHECK_DEADLOCK FALSE
