\* One request after another by three people in both secret modes, and two at a time by
\* two of them about inline secrets typed without spaces.  A row that is personal and
\* archived, as an overlap can leave it, admits nothing more.
CONSTANTS
    u1 = u1  u2 = u2  u3 = u3  w1 = w1  w2 = w2  r1 = r1  r2 = r2
    Users = {u1, u2, u3}
    Admins = {u2}
    Editors = {u3}
    Texts = {w1, w2}
    Padding = {FALSE, TRUE}
    Requests = {r1, r2}
    UpgradeAlone = TRUE
    NoRow = NoRow
    NoUser = NoUser
    NoWord = NoWord
SPECIFICATION MCSpec
SYMMETRY MCSymmetry
INVARIANTS
    TypeOK
    EnvelopeFitsTheScope
    RecordIsUsable
PROPERTIES
    OnlyItsOwnerShares
    BlankKeepsTheSecret
CHECK_DEADLOCK FALSE
