------------------------------ MODULE MCAccess ------------------------------
(* Small instances of Access for TLC. *)
EXTENDS Access

CONSTANTS u1, u2, e1, e2, g1, x1

MCEmailOf == [u \in Users |-> IF u = u1 THEN e1 ELSE e2]

\* A group by membership of u2, by its address, by a mapped external group, or by
\* the external group of its name.
MCDefinitions ==
    {def \in [rights : {{"read"}, {"create"}, {"admin"}}, mapped : {{}, {x1}},
              assigned : {{}, {u2}, {e2}}] : def.mapped = {} \/ def.assigned = {}}

MCOwnRights == {{}, {"edit"}}

MCGranted == {[x \in Externals |-> {}], [x \in Externals |-> IF x = x1 THEN {"read"} ELSE {}]}

\* Everyone, one group, one user; and for everyone with nothing to use, or with
\* nothing stored.
MCSharings == {[groups |-> {}, users |-> {}], [groups |-> {g1}, users |-> {}],
               [groups |-> {}, users |-> {u2}]}

MCUses == {[usage |-> {"reveal"}, launch |-> TRUE, stored |-> TRUE],
           [usage |-> {}, launch |-> FALSE, stored |-> TRUE],
           [usage |-> {"reveal"}, launch |-> TRUE, stored |-> FALSE]}

MCInputs ==
    {input \in {[kind |-> kind, personal |-> personal, owner |-> owner, shared |-> shared,
                 usage |-> use.usage, launch |-> use.launch, stored |-> use.stored] :
                    kind \in Manual, personal \in BOOLEAN, owner \in {NoUser, u2},
                    shared \in MCSharings, use \in MCUses} :
        input.shared = Nobody \/ (input.launch /\ input.stored)}
=============================================================================
