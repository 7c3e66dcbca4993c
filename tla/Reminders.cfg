CONSTANTS
    u1 = u1  u2 = u2  i1 = i1  i2 = i2  d1 = d1  d2 = d2
    r1 = r1  r2 = r2
    Users = {u1}
    Addressed = {u1}
    Items = {i1}
    Dates = {d1}
    DayOf <- MCDayOf
    LastDay = 1
    ReminderDays = {0, 1}
    Requests = {r1, r2}
    MaxFailures = 1
    NoDate = NoDate
    NoRow = NoRow
SPECIFICATION FairSpec
INVARIANTS
    TypeOK
    OnlyCurrentRemindersStand
    MailedOnce
PROPERTIES
    RemindersFollowTheRecord
    RemindersSettle
