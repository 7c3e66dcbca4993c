\* Two removals of an unlock method overlap.
SPECIFICATION Spec
CONSTANTS
    r1 = r1  r2 = r2  k1 = k1  k2 = k2  p1 = p1  p2 = p2
    c1 = c1  c2 = c2  s1 = s1  s2 = s2  i1 = i1
    Requests <- MCRequests2
    Keys = {k1, k2}
    Secrets = {p1, p2}
    Passkeys = {c1}
    Sessions = {s1, s2}
    Items = {i1}
    NoKey = NoKey  NoSecret = NoSecret  NoUser = NoUser  NoWrap = NoWrap
    NoSession = NoSession  NoItem = NoItem
    Offered <- RemoveOnly
    Overlap <- AnyOverlap
SYMMETRY MCSymmetry
INVARIANT
    TheVaultHasADoor
