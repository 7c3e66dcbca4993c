---------------------------- MODULE VaultPromise ----------------------------
(***************************************************************************)
(* What a personal vault promises, without requests, passwords or rows:    *)
(* one key at a time, handed out to doors, sessions and resources, and     *)
(* taken from all of them when the vault is destroyed.                     *)
(***************************************************************************)

CONSTANTS Keys, Doors, Sessions, Items, NoKey

VARIABLES
    key,      \* the vault's key, or NoKey
    opens,    \* what each door opens
    carried,  \* what each session carries
    sealed    \* what each resource is sealed to

vars == <<key, opens, carried, sealed>>

Init ==
    /\ key = NoKey
    /\ opens = [d \in Doors |-> NoKey]
    /\ carried = [s \in Sessions |-> NoKey]
    /\ sealed = [i \in Items |-> NoKey]

\* A vault is born with one door.
Create(d, k) ==
    /\ key = NoKey
    /\ key' = k
    /\ opens' = [opens EXCEPT ![d] = k]
    /\ UNCHANGED <<carried, sealed>>

AddDoor(d) ==
    /\ key # NoKey
    /\ opens' = [opens EXCEPT ![d] = key]
    /\ UNCHANGED <<key, carried, sealed>>

\* Never the last one.
RemoveDoor(d) ==
    /\ \E e \in Doors \ {d} : opens[e] # NoKey
    /\ opens' = [opens EXCEPT ![d] = NoKey]
    /\ UNCHANGED <<key, carried, sealed>>

Unlock(s) ==
    /\ key # NoKey
    /\ carried' = [carried EXCEPT ![s] = key]
    /\ UNCHANGED <<key, opens, sealed>>

Lock(S) ==
    /\ carried' = [s \in Sessions |-> IF s \in S THEN NoKey ELSE carried[s]]
    /\ UNCHANGED <<key, opens, sealed>>

Seal(i) ==
    /\ key # NoKey
    /\ sealed' = [sealed EXCEPT ![i] = key]
    /\ UNCHANGED <<key, opens, carried>>

Unseal(i) ==
    /\ sealed' = [sealed EXCEPT ![i] = NoKey]
    /\ UNCHANGED <<key, opens, carried>>

Destroy ==
    /\ key' = NoKey
    /\ opens' = [d \in Doors |-> NoKey]
    /\ carried' = [s \in Sessions |-> NoKey]
    /\ sealed' = [i \in Items |-> NoKey]

Next ==
    \/ \E d \in Doors : AddDoor(d) \/ RemoveDoor(d) \/ \E k \in Keys : Create(d, k)
    \/ \E s \in Sessions : Unlock(s)
    \/ \E S \in SUBSET Sessions : Lock(S)
    \/ \E i \in Items : Seal(i) \/ Unseal(i)
    \/ Destroy

Spec == Init /\ [][Next]_vars
=============================================================================
