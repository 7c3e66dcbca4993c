CONSTANTS
    r1 = r1  r2 = r2  q1 = q1  d1 = d1  local = local  vault = vault
    Providers = {local, vault}
    Replicas = {r1, r2}
    Requests = {q1}
    Desks = {d1}
    Local = local
    MaxCerts = 2
    MaxSecrets = 2
    MaxCut = 1
    Apart = TRUE
SPECIFICATION MCSpec
SYMMETRY MCSymmetry
INVARIANTS
    SecretsReadBack
    TheCertificateIsWhole
    ListedMeansInstalled
