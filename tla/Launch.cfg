CONSTANTS
    c1 = c1  s1 = s1  t1 = t1  t2 = t2  t3 = t3  l1 = l1  l2 = l2
    Rdp = {c1}
    Ssh = {s1}
    Tickets = {t1, t2, t3}
    Launches = {l1, l2}
    Ways = {"bridge", "protocol"}
    MaxCerts = 2
SPECIFICATION MCSpec
SYMMETRY MCSymmetry
INVARIANTS
    EverySecretIsOwed
PROPERTIES
    OneLaunchAsShown
    OpensAsSent
