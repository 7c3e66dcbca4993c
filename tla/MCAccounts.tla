---------------------------- MODULE MCAccounts ----------------------------
(***************************************************************************)
(* A small instance of Accounts for TLC: two local accounts, one of the    *)
(* directory, one group that makes administrators.  Behaviours come in two *)
(* halves, about groups and about objects.  Nobody is blocked, only the    *)
(* directory renames, and a behaviour ends when it is raced.               *)
(***************************************************************************)
EXTENDS Accounts, TLC

CONSTANTS u1, u2, x1, g1, i1, r1, r2, ann, bob, e1, e2, e3

MCEmailOf == [u \in Users |-> CASE u = u1 -> e1 [] u = u2 -> e2 [] OTHER -> e3]

VARIABLE objects   \* which half, chosen at the start

NobodyIsBlocked ==
    /\ \A u \in Users : Exists(u) => ~account[u].blocked
    /\ \A r \in Requests : req[r].pc = "access" => ~req[r].blocked

Half ==
    /\ NobodyIsBlocked
    /\ \A u \in Users \ External : Exists(u) => account[u].name = ann
    /\ \A r \in Requests : req[r].pc = "create" => req[r].row.name = ann
    /\ IF objects
       THEN /\ members = [g \in Groups |-> {}]
            /\ \A r \in Requests : req[r].pc \notin {"access", "group"}
            /\ \A r \in Requests : req[r].pc = "create" => req[r].groups = {}
       ELSE /\ \A r \in Requests : req[r].pc # "store"
            /\ \A u \in External : Exists(u) => account[u].name = bob

MCInit == AccountsInit /\ objects \in BOOLEAN /\ Half
MCNext == ~raced /\ AccountsNext /\ UNCHANGED objects /\ Half'
MCSpec == MCInit /\ [][MCNext]_<<accountsVars, objects>>

MCSymmetry == Permutations(Requests)
=============================================================================
