CONSTANTS
    u1 = u1  u2 = u2  x1 = x1  g1 = g1  i1 = i1  r1 = r1  r2 = r2
    ann = ann  bob = bob  e1 = e1  e2 = e2  e3 = e3
    Users = {u1, u2, x1}
    External = {x1}
    Groups = {g1}
    AdminGroups = {g1}
    Items = {i1}
    Names = {ann, bob}
    Emails = {e1, e2, e3}
    EmailOf <- MCEmailOf
    ByEmail = {}
    Requests = {r1, r2}
    NoAccount = NoAccount
    NoItem = NoItem
SPECIFICATION MCSpec
SYMMETRY MCSymmetry
INVARIANTS
    
    AnAdministratorIsLeft
CHECK_DEADLOCK FALSE
