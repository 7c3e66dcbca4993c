CONSTANTS
    f1 = f1  f2 = f2  v1 = v1  v2 = v2  n1 = n1
    id1 = id1  id2 = id2  id3 = id3  id4 = id4  id5 = id5
    p1 = p1  p2 = p2  r1 = r1  r2 = r2
    Refs = {f1}
    Versions = {v1, v2}
    Notes = {n1}
    Default = Default
    Ids = {id1, id2, id3, id4, id5}
    Replicas = {p1}
    Requests = {r1, r2}
    RunsOn <- MCRunsOn
    MaxEvents = 4
    Gone = Gone
    NoRecord = NoRecord
    Nobody = Nobody
SPECIFICATION FairSpec
INVARIANTS
    TypeOK
    OneLiveRecordPerSecret
PROPERTIES
    PeopleDecide
    RecordsConverge
