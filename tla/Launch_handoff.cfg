CONSTANTS
    Rdp = {c1}
    Ssh = {}
    Tickets = {t1}
    Launches = {l1}
    Ways = {"bridge"}
    MaxCerts = 1
SPECIFICATION FairSpec
PROPERTIES
    HandoffIsTemporary
