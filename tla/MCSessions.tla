---------------------------- MODULE MCSessions ----------------------------
(***************************************************************************)
(* A small instance of Sessions for TLC, in two halves: behaviours in      *)
(* which rows expire, and behaviours in which sessions are unlocked and    *)
(* vaults are reset.                                                       *)
(***************************************************************************)
EXTENDS Sessions, TLC

CONSTANTS u1, t1, t2, c1, i1, i2, r1, r2

VARIABLE expiring   \* which half, chosen at the start

Half ==
    IF expiring
      THEN /\ vault = [u \in Users |-> 1]
           /\ \A t \in Tokens : sess[t] # NoRow => sess[t].key = NoKey
      ELSE /\ \A t \in Tokens : sess[t] # NoRow => sess[t].age = "live"
           /\ \A c \in Connects : connect[c] # NoRow => connect[c].age = "live"

MCInit == Init /\ expiring \in BOOLEAN
MCNext == Next /\ UNCHANGED expiring /\ Half'
MCSpec == MCInit /\ [][MCNext]_<<vars, expiring>>

MCSymmetry == Permutations(Requests) \cup Permutations(Tokens)
                \cup Permutations(Connects) \cup Permutations(Installations)
=============================================================================
