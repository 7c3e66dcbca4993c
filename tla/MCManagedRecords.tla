-------------------------- MODULE MCManagedRecords --------------------------
(* Small instances of ManagedRecords for TLC. *)
EXTENDS ManagedRecords, TLC

CONSTANTS f1, f2, v1, v2, n1, id1, id2, id3, id4, id5, p1, p2, r1, r2

\* The first slot runs on the first replica, the others on the last.
MCRunsOn == [r \in Requests |-> IF r = r1 \/ p2 \notin Replicas THEN p1 ELSE p2]

MCSymmetry == Permutations(Ids)
=============================================================================
