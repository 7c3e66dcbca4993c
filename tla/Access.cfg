CONSTANTS
    u1 = u1  u2 = u2  e1 = e1  e2 = e2  g1 = g1  x1 = x1
    Users = {u1, u2}
    Emails = {e1, e2}
    Foreign = {u2}
    Groups = {g1}
    Externals = {x1, g1}
    EmailOf <- MCEmailOf
    Definitions <- MCDefinitions
    OwnRights <- MCOwnRights
    Granted <- MCGranted
    Inputs <- MCInputs
    NoGroup = NoGroup
    NoUser = NoUser
    NoObject = NoObject
SPECIFICATION Spec
INVARIANTS
    PersonalStaysPersonal
    DecisionsAgree
    EditorsLeaveTheTerms
PROPERTIES
    MoreRightsTakeNothing
