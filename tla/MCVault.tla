------------------------------ MODULE MCVault ------------------------------
(* Small instances of Vault for TLC. *)
EXTENDS Vault, TLC

CONSTANTS r1, r2, k1, k2, p1, p2, c1, c2, s1, s2, i1

MCRequests2 == {r1, r2}

\* Every pair may meet, as in the code.
AnyOverlap == Kinds \X Kinds

\* What two overlapping removals need.
RemoveOnly == {"sso", "setup", "add", "remove"}

MCSymmetry == Permutations(Requests) \cup Permutations(Keys)
              \cup Permutations(Secrets) \cup Permutations(Passkeys)
              \cup Permutations(Sessions)
============================================================================
