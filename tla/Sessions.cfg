CONSTANTS
    u1 = u1  t1 = t1  t2 = t2  c1 = c1  i1 = i1  i2 = i2  r1 = r1  r2 = r2
    Users = {u1}
    Tokens = {t1, t2}
    Connects = {c1}
    Installations = {i1, i2}
    Requests = {r1, r2}
    MaxResets = 1
    NoRow = NoRow
    NoToken = NoToken
    NoConnect = NoConnect
    NoInstallation = NoInstallation
SPECIFICATION MCSpec
SYMMETRY MCSymmetry
INVARIANTS
    TypeOK
    RevocationIsFinal
    
    AConnectTokenIsExchangedOnce
