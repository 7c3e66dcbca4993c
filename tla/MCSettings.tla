----------------------------- MODULE MCSettings -----------------------------
(***************************************************************************)
(* A small instance of Settings for TLC.  Behaviours come in two halves: a *)
(* rollout, in which replicas come up with one key provider or the other   *)
(* and open one or both; and the desktop, whose replicas all seal with the *)
(* local key.                                                              *)
(***************************************************************************)
EXTENDS Settings, TLC

CONSTANTS r1, r2, q1, d1, local, vault

VARIABLE rollout   \* which half, chosen at the start

\* An earlier version left the certificate or the secret, not both: their rows
\* are upgraded one by one.
Half ==
    IF rollout
    THEN desktop = <<[d \in Desks |-> Idle], FALSE, {}, [s \in {"listed", "leaf", "root"} |-> {}]>>
    ELSE \A r \in Replicas : replica[r] # Down => replica[r].opens = {Local}

MCInit ==
    /\ Init
    /\ rollout \in BOOLEAN
    /\ row["pfx"] = Empty \/ row["secret"] = Empty
    /\ ~rollout => \A k \in Sealed : row[k].form \in {"plain", Local}
    /\ rollout => made.foreign = {}

MCNext == Next /\ UNCHANGED rollout /\ Half'
MCSpec == MCInit /\ [][MCNext]_<<vars, rollout>>

MCSymmetry == Permutations(Replicas)
=============================================================================
