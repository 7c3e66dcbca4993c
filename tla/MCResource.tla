---------------------------- MODULE MCResource ----------------------------
(* Small instances of Resource for TLC. *)
EXTENDS Resource, TLC

CONSTANTS u1, u2, u3, w1, w2, r1, r2

MCSymmetry == Permutations(Requests) \cup Permutations(Texts)

(***************************************************************************)
(* Requests that come one after another are checked in full.  Overlapping  *)
(* ones are checked for u2 and u3, inline secrets and words without        *)
(* spaces.                                                                 *)
(***************************************************************************)
FewRow(x) ==
    x # NoRow => /\ x.owner # u1 /\ x.mode = "inline" /\ x.value.to # u1
                 /\ x.value.word # NoWord => ~x.value.word.padded
FewInput(x) ==
    /\ x.owner # u1 /\ x.mode = "inline"
    /\ x.secret # NoWord => ~x.secret.padded

Few(q) ==
    q # Idle => /\ q.by # u1
                /\ FewRow(q.seen)
                /\ q.pc = "update" => FewInput(q.input)

MCNext ==
    /\ Next
    /\ ~calm' => /\ FewRow(row')
                 /\ u1 \notin vaults'
                 /\ \A r \in Requests : Few(req'[r])

MCSpec == Init /\ [][MCNext]_vars
=============================================================================
