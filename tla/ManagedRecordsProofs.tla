------------------------ MODULE ManagedRecordsProofs ------------------------
(***************************************************************************)
(* Theorems about ManagedRecords for any secrets, records, edits and       *)
(* requests: the types, that synchronisation takes nothing from the people *)
(* (however many replicas), and that one replica makes one live record of  *)
(* a secret.                                                               *)
(***************************************************************************)
EXTENDS ManagedRecords, TLAPS

(***************************************************************************)
(* Types                                                                   *)
(***************************************************************************)

\* What a program counter says of a request.
LEMMA RequestParts ==
    ASSUME TypeOK, NEW r \in Requests
    PROVE  /\ At(r, "list") => req[r].kind = "sync" \/ req[r].found \in [Refs -> Found]
           /\ At(r, "discover") => req[r] = [pc |-> "discover", items |-> req[r].items]
           /\ req[r].pc \in {"discover", "create", "look", "write"} => req[r].items \in Listing
           /\ At(r, "create") => /\ req[r].kind \in {"sync", "import"}
                                 /\ req[r].found \in [Refs -> Found]
                                 /\ req[r].left \subseteq Refs
           /\ At(r, "look") => req[r].left \subseteq Ids
           /\ At(r, "write") => /\ req[r].left \subseteq Ids
                                /\ req[r].id \in Ids
                                /\ req[r].found \in Found
           /\ At(r, "edit") => /\ req[r].id \in Ids
                               /\ req[r].seen \in Record
                               /\ req[r].note \in Notes
           /\ req[r].pc \in {"idle", "list", "discover", "create", "look", "write", "edit"}
  <1>1. req[r] \in Request
    BY DEF TypeOK
  <1> QED
    BY <1>1 DEF Request, Idle, At

\* One slot changes to a well-typed request, the others stay.
LEMMA GotoTypes ==
    ASSUME TypeOK, NEW r \in Requests, NEW q \in Request, Goto(r, q)
    PROVE  /\ req' \in [Requests -> Request]
           /\ req'[r] = q
           /\ \A o \in Requests \ {r} : req'[o] = req[o]
  BY DEF TypeOK, Goto

LEMMA IdleTypes == Idle \in Request
  BY DEF Request

LEMMA ListedTypes == TypeOK => Listed \in Listing
  BY DEF TypeOK, Listed, Listing, Live

LEMMA MutexTypes ==
    ASSUME TypeOK, NEW p \in Replicas, NEW o \in Requests \cup {Nobody}
    PROVE  [mutex EXCEPT ![p] = o] \in [Replicas -> Requests \cup {Nobody}]
  BY DEF TypeOK

LEMMA EventTypes == TypeOK /\ Event => events' \in 0 .. MaxEvents
  BY BoundAssumption DEF TypeOK, Event

\* The record that a synchronisation writes back.
LEMMA WrittenTypes ==
    ASSUME TypeOK, NEW r \in Requests, Write(r), req[r].items[req[r].id] # NoRecord,
           rec[req[r].id] # NoRecord
    PROVE  \E record \in Record :
             /\ record.archived = (req[r].found = Gone \/ rec[req[r].id].archived)
             /\ record.ref \in {rec[req[r].id].ref, req[r].items[req[r].id].ref}
             /\ record.note \in {rec[req[r].id].note, req[r].items[req[r].id].note}
             /\ rec' = [rec EXCEPT ![req[r].id] = record]
  <1> DEFINE id == req[r].id
             old == rec[id]
             item == req[r].items[id]
  <1>1. old \in Record /\ item \in Record /\ req[r].found \in Found
    BY RequestParts DEF Write, At, TypeOK, Listing
  <1>2. CASE req[r].found = Gone
    <2>1. rec' = [rec EXCEPT ![id] = [old EXCEPT !.archived = TRUE]]
      BY <1>2 DEF Write, Written
    <2> HIDE DEF id, old
    <2>2. [old EXCEPT !.archived = TRUE] \in Record
      BY <1>1 DEF Record
    <2> QED
      BY <1>1, <1>2, <2>1, <2>2 DEF Record, id, old
  <1>3. CASE req[r].found # Gone
    <2>1. rec' = [rec EXCEPT ![id] = [item EXCEPT !.version = req[r].found,
                                                  !.archived = old.archived]]
      BY <1>3 DEF Write, Written
    <2> HIDE DEF id, old, item
    <2>2. [item EXCEPT !.version = req[r].found, !.archived = old.archived] \in Record
      BY <1>1, <1>3 DEF Record, Found
    <2> QED
      BY <1>1, <1>3, <2>1, <2>2 DEF Record, id, old, item
  <1> QED
    BY <1>2, <1>3

(***************************************************************************)
(* What a request has read stays there, and types                          *)
(***************************************************************************)

HasItems(r) == req[r].pc \in {"discover", "create", "look", "write"}

\* What was listed or read for an edit still exists, with the secret it is of,
\* and what is to be created was found.
Anchored ==
    \A r \in Requests :
        /\ HasItems(r) => \A id \in Ids : req[r].items[id] # NoRecord =>
               rec[id] # NoRecord /\ rec[id].ref = req[r].items[id].ref
        /\ At(r, "create") => \A f \in req[r].left : req[r].found[f] # Gone
        /\ At(r, "look") => \A id \in req[r].left : req[r].items[id] # NoRecord
        /\ At(r, "write") => /\ req[r].items[req[r].id] # NoRecord
                             /\ \A id \in req[r].left : req[r].items[id] # NoRecord
        /\ At(r, "edit") => rec[req[r].id] # NoRecord

LEMMA TypeInit == Init => TypeOK /\ Anchored
  <1> SUFFICES ASSUME Init PROVE TypeOK /\ Anchored
    OBVIOUS
  <1>1. TypeOK
    <2>1. crossed \in BOOLEAN
      BY DEF Init
    <2>2. rec \in Listing /\ req \in [Requests -> Request] /\ events \in 0 .. MaxEvents
      BY BoundAssumption, IdleTypes DEF Init, Listing
    <2> QED
      BY <2>1, <2>2 DEF Init, TypeOK
  <1>2. \A r \in Requests : req[r].pc = "idle"
    BY DEF Init, Idle
  <1> QED
    BY <1>1, <1>2 DEF Anchored, HasItems, At

LEMMA TypeEnter ==
    ASSUME TypeOK, NEW r \in Requests, NEW q \in Request, Enter(r, q)
    PROVE  /\ req' \in [Requests -> Request]
           /\ mutex' \in [Replicas -> Requests \cup {Nobody}]
           /\ crossed' \in BOOLEAN
  BY GotoTypes, MutexTypes, SlotAssumption DEF Enter, TypeOK, Editing

LEMMA TypeLeave ==
    ASSUME TypeOK, NEW r \in Requests, Leave(r)
    PROVE  /\ req' \in [Requests -> Request]
           /\ mutex' \in [Replicas -> Requests \cup {Nobody}]
  BY GotoTypes, IdleTypes, MutexTypes, SlotAssumption DEF Leave

Skipped ==
    [pc : {"create"}, kind : {"sync", "import"}, items : Listing,
     found : [Refs -> Found], left : SUBSET Refs]
    \cup [pc : {"look"}, items : Listing, left : SUBSET Ids]

\* A request that skips something goes on at the same point with less left.
LEMMA SkippedTypes ==
    ASSUME TypeOK, NEW r \in Requests, Skip(r)
    PROVE  /\ req[r] \in Skipped
           /\ \E some : /\ Goto(r, [req[r] EXCEPT !.left = @ \ some])
                        /\ req'[r] = [req[r] EXCEPT !.left = @ \ some]
                        /\ req'[r].left = req[r].left \ some
           /\ req'[r].pc = req[r].pc
           /\ req'[r].items = req[r].items
           /\ At(r, "create") => req'[r].found = req[r].found
  <1>1. req[r] \in Skipped
    BY DEF Skip, At, TypeOK, Request, Idle, Skipped
  <1>2. PICK some : Goto(r, [req[r] EXCEPT !.left = @ \ some])
    BY DEF Skip
  <1>3. req'[r] = [req[r] EXCEPT !.left = @ \ some]
    BY <1>2 DEF Goto, TypeOK
  <1>4. CASE At(r, "create")
    <2>1. req[r] \in [pc : {"create"}, kind : {"sync", "import"}, items : Listing,
                      found : [Refs -> Found], left : SUBSET Refs]
      BY <1>1, <1>4 DEF Skipped, At
    <2> QED
      BY <1>1, <1>2, <1>3, <2>1
  <1>5. CASE At(r, "look")
    <2>1. req[r] \in [pc : {"look"}, items : Listing, left : SUBSET Ids]
      BY <1>1, <1>5 DEF Skipped, At
    <2> QED
      BY <1>1, <1>2, <1>3, <1>5, <2>1 DEF At
  <1> QED
    BY <1>4, <1>5 DEF Skip

LEMMA TypeSync ==
    ASSUME TypeOK, Anchored, NEW r \in Requests,
           \/ SyncKeyVault(r)
           \/ \E chosen \in SUBSET Refs : ImportKeyVaultSecrets(r, chosen)
           \/ List(r) \/ Discover(r) \/ Create(r) \/ EndCreate(r)
           \/ Look(r) \/ Skip(r) \/ EndSync(r) \/ Stop(r)
    PROVE  TypeOK'
  <1>1. CASE SyncKeyVault(r)
    <2>1. [pc |-> "list", kind |-> "sync"] \in Request
      BY DEF Request
    <2> QED
      BY <1>1, <2>1, TypeEnter DEF SyncKeyVault, TypeOK
  <1>2. ASSUME NEW chosen \in SUBSET Refs, ImportKeyVaultSecrets(r, chosen) PROVE TypeOK'
    <2> DEFINE found == [f \in Refs |-> IF f \in chosen THEN remote[f] ELSE Gone]
    <2>1. found \in [Refs -> Found]
      BY DEF TypeOK, Found
    <2>2. [pc |-> "list", kind |-> "import", found |-> found] \in Request
      BY <2>1 DEF Request
    <2>3. Enter(r, [pc |-> "list", kind |-> "import", found |-> found])
      BY <1>2 DEF ImportKeyVaultSecrets
    <2> QED
      BY <1>2, <2>2, <2>3, TypeEnter, EventTypes DEF ImportKeyVaultSecrets, TypeOK
  <1>3. CASE List(r)
    <2>1. [pc |-> "discover", items |-> Listed] \in Request
      BY ListedTypes DEF Request
    <2>2. req[r].kind # "sync" =>
            [pc |-> "create", kind |-> "import", items |-> Listed, found |-> req[r].found,
             left |-> Missing(Listed, req[r].found)] \in Request
      BY <1>3, RequestParts, ListedTypes DEF List, Missing, Request
    <2> QED
      BY <1>3, <2>1, <2>2, GotoTypes DEF List, TypeOK
  <1>4. CASE Discover(r)
    <2>1. req[r].items \in Listing
      BY <1>4, RequestParts DEF Discover, At
    <2>2. [pc |-> "create", kind |-> "sync", items |-> req[r].items, found |-> remote,
           left |-> Missing(req[r].items, remote)] \in Request
      BY <2>1 DEF TypeOK, Missing, Request
    <2> QED
      BY <1>4, <2>2, GotoTypes DEF Discover, TypeOK
  <1>5. CASE Create(r)
    <2>1. /\ req[r] \in [pc : {"create"}, kind : {"sync", "import"}, items : Listing,
                          found : [Refs -> Found], left : SUBSET Refs]
          /\ \A f \in req[r].left : f \in Refs /\ req[r].found[f] # Gone
      <3>1. req[r] \in Request /\ req[r].pc = "create"
        BY <1>5 DEF Create, At, TypeOK
      <3> QED
        BY <1>5, <3>1 DEF Create, Anchored, Request, Idle
    <2>2. ASSUME NEW f \in req[r].left, NEW id \in Ids,
                 rec' = [rec EXCEPT ![id] = [ref |-> f, version |-> req[r].found[f],
                                             note |-> Default, archived |-> FALSE]],
                 Goto(r, [req[r] EXCEPT !.left = @ \ {f}])
          PROVE  rec' \in Listing /\ req' \in [Requests -> Request]
      <3>1. [ref |-> f, version |-> req[r].found[f], note |-> Default, archived |-> FALSE]
              \in Record
        BY <2>1 DEF Record, Found
      <3>2. [req[r] EXCEPT !.left = @ \ {f}] \in Request
        BY <2>1 DEF Request
      <3> QED
        BY <2>2, <3>1, <3>2, GotoTypes DEF TypeOK, Listing
    <2> QED
      BY <1>5, <2>2 DEF Create, TypeOK
  <1>6. CASE EndCreate(r)
    <2>1. [pc |-> "look", items |-> req[r].items,
           left |-> {id \in Ids : req[r].items[id] # NoRecord}] \in Request
      BY <1>6, RequestParts DEF EndCreate, At, Request
    <2> QED
      BY <1>6, <2>1, GotoTypes, TypeLeave DEF EndCreate, TypeOK
  <1>7. CASE Look(r)
    <2>1. ASSUME NEW id \in req[r].left
          PROVE  [pc |-> "write", items |-> req[r].items, left |-> req[r].left \ {id},
                  id |-> id, found |-> remote[req[r].items[id].ref]] \in Request
      <3>1. /\ id \in Ids /\ req[r].items \in Listing /\ req[r].items[id] # NoRecord
            /\ req[r].left \in SUBSET Ids
        BY <1>7, RequestParts DEF Look, At, Anchored
      <3>2. remote[req[r].items[id].ref] \in Found
        BY <3>1 DEF Listing, Record, TypeOK
      <3> QED
        BY <3>1, <3>2 DEF Request
    <2> QED
      BY <1>7, <2>1, GotoTypes DEF Look, TypeOK
  <1>8. CASE Skip(r)
    <2>1. req[r] \in Skipped
      BY <1>8, SkippedTypes
    <2>2. \A some : [req[r] EXCEPT !.left = @ \ some] \in Request
      BY <2>1 DEF Skipped, Request
    <2> QED
      BY <1>8, <2>2, GotoTypes, EventTypes DEF Skip, TypeOK
  <1>9. CASE EndSync(r) \/ Stop(r)
    BY <1>9, TypeLeave, EventTypes DEF EndSync, Stop, TypeOK
  <1> QED
    BY <1>1, <1>2, <1>3, <1>4, <1>5, <1>6, <1>7, <1>8, <1>9

\* The record that an edit writes back.
LEMMA EditedTypes ==
    ASSUME TypeOK, Anchored, NEW r \in Requests, WriteEdit(r)
    PROVE  /\ req[r].id \in Ids /\ rec[req[r].id] \in Record
           /\ \E record \in Record :
                /\ record.ref = rec[req[r].id].ref
                /\ record.archived = rec[req[r].id].archived
                /\ rec' = [rec EXCEPT ![req[r].id] = record]
  <1> DEFINE id == req[r].id
             record == [rec[id] EXCEPT !.note = req[r].note, !.version = req[r].seen.version]
  <1>1. /\ id \in Ids /\ rec[id] \in Record
        /\ req[r].seen \in Record /\ req[r].note \in Notes
    BY RequestParts DEF WriteEdit, Anchored, TypeOK, Listing
  <1>2. /\ record \in Record
        /\ record.ref = rec[id].ref /\ record.archived = rec[id].archived
    BY <1>1 DEF Record
  <1>3. rec' = [rec EXCEPT ![id] = record]
    BY DEF WriteEdit
  <1> QED
    BY <1>1, <1>2, <1>3

LEMMA TypePeople ==
    ASSUME TypeOK, Anchored
    PROVE  /\ \A r \in Requests, id \in Ids, note \in Notes : BeginEdit(r, id, note) => TypeOK'
           /\ \A r \in Requests : WriteEdit(r) => TypeOK'
           /\ \A id \in Ids : Archive(id) \/ Restore(id) => TypeOK'
           /\ \A f \in Refs, version \in Found : Change(f, version) => TypeOK'
  <1>1. ASSUME NEW r \in Requests, NEW id \in Ids, NEW note \in Notes, BeginEdit(r, id, note)
        PROVE  TypeOK'
    <2>1. [pc |-> "edit", id |-> id, seen |-> rec[id], note |-> note] \in Request
      BY <1>1 DEF BeginEdit, Live, TypeOK, Listing, Request
    <2>2. crossed' \in BOOLEAN
      BY <1>1 DEF BeginEdit, TypeOK, Synchronising
    <2> QED
      BY <1>1, <2>1, <2>2, GotoTypes, EventTypes DEF BeginEdit, TypeOK
  <1>2. ASSUME NEW r \in Requests, WriteEdit(r) PROVE TypeOK'
    <2>1. rec' \in Listing
      BY <1>2, EditedTypes DEF TypeOK, Listing
    <2> QED
      BY <1>2, <2>1, GotoTypes, IdleTypes DEF WriteEdit, TypeOK
  <1>3. ASSUME NEW id \in Ids, Archive(id) \/ Restore(id) PROVE TypeOK'
    <2>1. rec[id] \in Record
      BY <1>3 DEF Archive, Restore, Live, TypeOK, Listing
    <2>2. rec' \in Listing
      <3>1. /\ [rec[id] EXCEPT !.archived = TRUE] \in Record
            /\ [rec[id] EXCEPT !.archived = FALSE] \in Record
        BY <2>1 DEF Record
      <3>2. \/ rec' = [rec EXCEPT ![id] = [rec[id] EXCEPT !.archived = TRUE]]
            \/ rec' = [rec EXCEPT ![id] = [rec[id] EXCEPT !.archived = FALSE]]
        BY <1>3 DEF Archive, Restore
      <3> QED
        BY <3>1, <3>2 DEF TypeOK, Listing
    <2> QED
      BY <1>3, <2>2, EventTypes DEF Archive, Restore, TypeOK
  <1>4. ASSUME NEW f \in Refs, NEW version \in Found, Change(f, version) PROVE TypeOK'
    BY <1>4, EventTypes DEF Change, TypeOK
  <1> QED
    BY <1>1, <1>2, <1>3, <1>4

LEMMA TypeWrite ==
    ASSUME TypeOK, Anchored, NEW r \in Requests, Write(r)
    PROVE  TypeOK'
  <1>1. /\ req[r].id \in Ids /\ rec[req[r].id] # NoRecord /\ req[r].items \in Listing
        /\ req[r].items[req[r].id] # NoRecord /\ req[r].left \in SUBSET Ids
    BY RequestParts DEF Write, Anchored, HasItems, At
  <1>2. rec' \in Listing
    BY <1>1, WrittenTypes DEF TypeOK, Listing
  <1>3. [pc |-> "look", items |-> req[r].items, left |-> req[r].left] \in Request
    BY <1>1 DEF Request
  <1> QED
    BY <1>2, <1>3, GotoTypes DEF Write, Written, TypeOK

LEMMA TypeStep == TypeOK /\ Anchored /\ [Next]_vars => TypeOK'
  <1>1. TypeOK /\ UNCHANGED vars => TypeOK'
    BY DEF vars, TypeOK
  <1> QED
    BY <1>1, TypeSync, TypePeople, TypeWrite DEF Next, Step

(***************************************************************************)
(* Requests and records, step by step                                      *)
(***************************************************************************)

\* No record goes, and none changes its secret.
Stay == \A id \in Ids : rec[id] # NoRecord => rec'[id] # NoRecord /\ rec'[id].ref = rec[id].ref

LEMMA StayWrite ==
    ASSUME TypeOK, Anchored, NEW r \in Requests, Write(r)
    PROVE  Stay
  <1>1. /\ req[r].id \in Ids /\ rec[req[r].id] # NoRecord
        /\ req[r].items[req[r].id] # NoRecord
        /\ rec[req[r].id].ref = req[r].items[req[r].id].ref
    BY RequestParts DEF Write, Anchored, HasItems, At
  <1>2. PICK record \in Record : /\ record.ref = rec[req[r].id].ref
                                 /\ rec' = [rec EXCEPT ![req[r].id] = record]
    BY <1>1, WrittenTypes
  <1> QED
    BY <1>1, <1>2, NonesAssumption DEF Stay, TypeOK, Listing

LEMMA StayStep ==
    ASSUME TypeOK, Anchored, [Next]_vars
    PROVE  Stay
  <1>1. ASSUME NEW r \in Requests, Create(r) PROVE Stay
    BY <1>1 DEF Create, Stay, TypeOK, Listing
  <1>2. ASSUME NEW r \in Requests, WriteEdit(r) PROVE Stay
    BY <1>2, EditedTypes, NonesAssumption DEF Stay, TypeOK, Listing
  <1>3. ASSUME NEW id \in Ids, Archive(id) \/ Restore(id) PROVE Stay
    <2>1. rec[id] \in Record
      BY <1>3 DEF Archive, Restore, Live, TypeOK, Listing
    <2>2. PICK flag \in BOOLEAN : rec' = [rec EXCEPT ![id] = [rec[id] EXCEPT !.archived = flag]]
      BY <1>3 DEF Archive, Restore
    <2>3. /\ [rec[id] EXCEPT !.archived = flag] \in Record
          /\ [rec[id] EXCEPT !.archived = flag].ref = rec[id].ref
      BY <2>1 DEF Record
    <2> QED
      BY <2>2, <2>3, NonesAssumption DEF Stay, TypeOK, Listing
  <1>4. CASE UNCHANGED rec
    BY <1>4 DEF Stay
  <1> QED
    BY <1>1, <1>2, <1>3, <1>4, StayWrite
    DEF Next, Step, SyncKeyVault, ImportKeyVaultSecrets, List, Discover, EndCreate, Look,
        EndSync, Skip, Stop, BeginEdit, Change, vars

\* What Anchored says of one request.
AnchoredAt(r) ==
    /\ HasItems(r) => \A id \in Ids : req[r].items[id] # NoRecord =>
           rec[id] # NoRecord /\ rec[id].ref = req[r].items[id].ref
    /\ At(r, "create") => \A f \in req[r].left : req[r].found[f] # Gone
    /\ At(r, "look") => \A id \in req[r].left : req[r].items[id] # NoRecord
    /\ At(r, "write") => /\ req[r].items[req[r].id] # NoRecord
                         /\ \A id \in req[r].left : req[r].items[id] # NoRecord
    /\ At(r, "edit") => rec[req[r].id] # NoRecord

LEMMA AnchoredSame ==
    ASSUME TypeOK, Anchored, Stay, NEW r \in Requests, req'[r] = req[r]
    PROVE  AnchoredAt(r)'
  <1>1. At(r, "edit") => req[r].id \in Ids
    BY RequestParts
  <1> QED
    BY <1>1 DEF Anchored, AnchoredAt, Stay, HasItems, At

LEMMA EntersAList ==
    ASSUME NEW r,
           SyncKeyVault(r) \/ \E chosen \in SUBSET Refs : ImportKeyVaultSecrets(r, chosen)
    PROVE  \E q : Enter(r, q) /\ q.pc = "list"
  <1>1. CASE SyncKeyVault(r)
    BY <1>1 DEF SyncKeyVault
  <1>2. ASSUME NEW chosen \in SUBSET Refs, ImportKeyVaultSecrets(r, chosen)
        PROVE  \E q : Enter(r, q) /\ q.pc = "list"
    <2> DEFINE q == [pc |-> "list", kind |-> "import",
                     found |-> [f \in Refs |-> IF f \in chosen THEN remote[f] ELSE Gone]]
    <2>1. q.pc = "list" /\ Enter(r, q)
      BY <1>2 DEF ImportKeyVaultSecrets
    <2> QED
      BY <2>1
  <1> QED
    BY <1>1, <1>2

LEMMA AnchoredSync ==
    ASSUME TypeOK, Anchored, Stay, NEW r \in Requests,
           \/ SyncKeyVault(r)
           \/ \E chosen \in SUBSET Refs : ImportKeyVaultSecrets(r, chosen)
           \/ Step(r) \/ Skip(r) \/ Stop(r)
           \/ \E id \in Ids, note \in Notes : BeginEdit(r, id, note)
    PROVE  AnchoredAt(r)' /\ \A o \in Requests \ {r} : req'[o] = req[o]
  <1> DEFINE Goal == AnchoredAt(r)' /\ \A o \in Requests \ {r} : req'[o] = req[o]
  <1>a. \A q : Goto(r, q) => req'[r] = q /\ \A o \in Requests \ {r} : req'[o] = req[o]
    BY DEF Goto, TypeOK
  <1>b. Leave(r) => Goal
    BY <1>a DEF Leave, Idle, AnchoredAt, HasItems, At
  <1>1. CASE SyncKeyVault(r) \/ \E chosen \in SUBSET Refs : ImportKeyVaultSecrets(r, chosen)
    <2>1. \E q : q.pc = "list" /\ Goto(r, q)
      BY <1>1, EntersAList DEF Enter
    <2>2. req'[r].pc = "list"
      BY <2>1, <1>a
    <2> QED
      BY <2>1, <2>2, <1>a DEF AnchoredAt, HasItems, At
  <1>2. CASE List(r)
    <2>1. \A id \in Ids : Listed[id] # NoRecord => Listed[id] = rec[id] /\ rec[id] # NoRecord
      BY DEF Listed, Live
    <2>2. \A f \in Missing(Listed, req[r].found) : req[r].found[f] # Gone
      BY DEF Missing
    <2>3. UNCHANGED rec
      BY <1>2 DEF List
    <2>4. CASE req[r].kind = "sync"
      BY <1>2, <1>a, <2>1, <2>3, <2>4 DEF List, AnchoredAt, HasItems, At
    <2>5. CASE req[r].kind # "sync"
      BY <1>2, <1>a, <2>1, <2>2, <2>3, <2>5 DEF List, AnchoredAt, HasItems, At
    <2> QED
      BY <2>4, <2>5
  <1>3. CASE Discover(r)
    <2>1. \A f \in Missing(req[r].items, remote) : remote[f] # Gone
      BY DEF Missing
    <2> QED
      BY <1>3, <1>a, <2>1 DEF Discover, Anchored, AnchoredAt, HasItems, At
  <1>4. CASE Create(r)
    <2>1. req[r] \in [pc : {"create"}, kind : {"sync", "import"}, items : Listing,
                      found : [Refs -> Found], left : SUBSET Refs]
      BY <1>4 DEF Create, At, TypeOK, Request, Idle
    <2>2. PICK f : Goto(r, [req[r] EXCEPT !.left = @ \ {f}])
      BY <1>4 DEF Create
    <2>3. /\ req'[r].pc = "create" /\ req'[r].items = req[r].items
          /\ req'[r].found = req[r].found /\ req'[r].left = req[r].left \ {f}
      BY <1>a, <2>1, <2>2
    <2> QED
      BY <1>4, <1>a, <2>2, <2>3 DEF Create, Anchored, AnchoredAt, Stay, HasItems, At
  <1>5. CASE EndCreate(r)
    BY <1>5, <1>a, <1>b DEF EndCreate, Anchored, AnchoredAt, HasItems, At
  <1>6. CASE Look(r)
    <2>1. req[r].left \subseteq Ids
      BY <1>6, RequestParts DEF Look
    <2> QED
      BY <1>6, <1>a, <2>1 DEF Look, Anchored, AnchoredAt, HasItems, At
  <1>7. CASE Skip(r)
    <2>1. PICK some : /\ Goto(r, [req[r] EXCEPT !.left = @ \ some])
                      /\ req'[r].left = req[r].left \ some
      BY <1>7, SkippedTypes
    <2>2. req'[r].pc = req[r].pc /\ req'[r].items = req[r].items /\ UNCHANGED rec
      BY <1>7, SkippedTypes DEF Skip
    <2>3. req[r].pc = "look" \/ (req[r].pc = "create" /\ req'[r].found = req[r].found)
      BY <1>7, SkippedTypes DEF Skip, At
    <2> QED
      BY <1>7, <1>a, <2>1, <2>2, <2>3 DEF Anchored, AnchoredAt, HasItems, At
  <1>8. CASE Write(r)
    BY <1>8, <1>a DEF Write, Written, Anchored, AnchoredAt, Stay, HasItems, At
  <1>9. CASE WriteEdit(r)
    BY <1>9, <1>a DEF WriteEdit, Idle, AnchoredAt, HasItems, At
  <1>10. CASE EndSync(r) \/ Stop(r)
    BY <1>10, <1>b DEF EndSync, Stop
  <1>11. ASSUME NEW id \in Ids, NEW note \in Notes, BeginEdit(r, id, note) PROVE Goal
    BY <1>11, <1>a DEF BeginEdit, Live, AnchoredAt, HasItems, At
  <1> QED
    BY <1>1, <1>2, <1>3, <1>4, <1>5, <1>6, <1>7, <1>8, <1>9, <1>10, <1>11 DEF Step

LEMMA AnchoredStep == TypeOK /\ Anchored /\ [Next]_vars => Anchored'
  <1> SUFFICES ASSUME TypeOK, Anchored, [Next]_vars, NEW r \in Requests PROVE AnchoredAt(r)'
    BY DEF Anchored, AnchoredAt
  <1>1. Stay
    BY StayStep
  <1>2. CASE req'[r] = req[r]
    BY <1>1, <1>2, AnchoredSame
  <1>3. CASE req'[r] # req[r]
    <2>1. PICK o \in Requests :
            \/ SyncKeyVault(o)
            \/ \E chosen \in SUBSET Refs : ImportKeyVaultSecrets(o, chosen)
            \/ Step(o) \/ Skip(o) \/ Stop(o)
            \/ \E id \in Ids, note \in Notes : BeginEdit(o, id, note)
      BY <1>3 DEF Next, Archive, Restore, Change, vars
    <2> QED
      BY <1>1, <1>3, <2>1, AnchoredSync
  <1> QED
    BY <1>2, <1>3

(***************************************************************************)
(* Every variable keeps its type, for any secrets, records and replicas:   *)
(* what a request writes back it has read.                                 *)
(***************************************************************************)
THEOREM ManagedRecordTypes == Spec => []TypeOK
  <1>1. TypeOK /\ Anchored /\ [Next]_vars => (TypeOK /\ Anchored)'
    BY TypeStep, AnchoredStep
  <1> QED
    BY <1>1, TypeInit, PTL DEF Spec

(***************************************************************************)
(* Synchronisation takes nothing from the people                           *)
(***************************************************************************)

\* An archiving or a restoring changes nothing else of the record.
LEMMA FlagStep ==
    ASSUME TypeOK, NEW id \in Ids, Archive(id) \/ Restore(id)
    PROVE  /\ rec[id] \in Record
           /\ \E record \in Record :
                /\ record.ref = rec[id].ref /\ record.note = rec[id].note
                /\ rec' = [rec EXCEPT ![id] = record]
  <1>1. rec[id] \in Record
    BY DEF Archive, Restore, Live, TypeOK, Listing
  <1>2. PICK flag \in BOOLEAN : rec' = [rec EXCEPT ![id] = [rec[id] EXCEPT !.archived = flag]]
    BY DEF Archive, Restore
  <1>3. /\ [rec[id] EXCEPT !.archived = flag] \in Record
        /\ [rec[id] EXCEPT !.archived = flag].ref = rec[id].ref
        /\ [rec[id] EXCEPT !.archived = flag].note = rec[id].note
    BY <1>1 DEF Record
  <1> QED
    BY <1>1, <1>2, <1>3

\* The record that a synchronisation is about to write exists, as it was listed.
LEMMA WriteFinds ==
    ASSUME TypeOK, Anchored, NEW r \in Requests, At(r, "write")
    PROVE  /\ req[r].id \in Ids /\ rec[req[r].id] # NoRecord
           /\ req[r].items[req[r].id] # NoRecord
           /\ rec[req[r].id].ref = req[r].items[req[r].id].ref
  BY RequestParts DEF Anchored, HasItems, At

\* The steps that leave the records alone.
LEMMA QuietRecords ==
    ASSUME [Next]_vars
    PROVE  \/ UNCHANGED rec
           \/ \E r \in Requests : Create(r) \/ Write(r) \/ WriteEdit(r)
           \/ \E id \in Ids : Archive(id) \/ Restore(id)
  BY DEF Next, Step, SyncKeyVault, ImportKeyVaultSecrets, List, Discover, EndCreate, Look,
         EndSync, Skip, Stop, BeginEdit, Change, vars

LEMMA RestoreStep ==
    ASSUME TypeOK, Anchored, [Next]_vars,
           NEW id \in Ids, rec[id] # NoRecord, rec[id].archived, ~rec'[id].archived
    PROVE  Restore(id)
  <1>1. ~UNCHANGED rec
    OBVIOUS
  <1>2. ASSUME NEW r \in Requests, Create(r) PROVE FALSE
    BY <1>2 DEF Create, TypeOK, Listing
  <1>3. ASSUME NEW r \in Requests, Write(r) PROVE FALSE
    <2>1. At(r, "write")
      BY <1>3 DEF Write
    <2>2. PICK record \in Record :
            /\ record.archived = (req[r].found = Gone \/ rec[req[r].id].archived)
            /\ rec' = [rec EXCEPT ![req[r].id] = record]
      BY <1>3, <2>1, WriteFinds, WrittenTypes
    <2>3. CASE id = req[r].id
      BY <2>2, <2>3 DEF TypeOK, Listing
    <2>4. CASE id # req[r].id
      BY <2>2, <2>4 DEF TypeOK, Listing
    <2> QED
      BY <2>3, <2>4
  <1>4. ASSUME NEW r \in Requests, WriteEdit(r) PROVE FALSE
    BY <1>4, EditedTypes DEF TypeOK, Listing
  <1>5. ASSUME NEW i \in Ids, Archive(i) PROVE FALSE
    <2>1. i # id
      BY <1>5 DEF Archive, Live
    <2> QED
      BY <1>5, <2>1 DEF Archive, TypeOK, Listing
  <1>6. ASSUME NEW i \in Ids, Restore(i) PROVE i = id
    BY <1>6 DEF Restore, TypeOK, Listing
  <1> QED
    BY <1>1, <1>2, <1>3, <1>4, <1>5, <1>6, QuietRecords

\* As long as no edit falls into a synchronisation, what one has listed carries
\* the notes that the records have.
NotesAgree ==
    ~crossed =>
        /\ ~(Editing /\ Synchronising)
        /\ \A r \in Requests : HasItems(r) =>
             \A id \in Ids : req[r].items[id] # NoRecord =>
                 req[r].items[id].note = rec[id].note

LEMMA NotesStay ==
    ASSUME TypeOK, Anchored, NotesAgree, ~crossed, [Next]_vars,
           \A r \in Requests : ~WriteEdit(r),
           NEW id \in Ids, rec[id] # NoRecord
    PROVE  rec'[id].note = rec[id].note
  <1>1. ASSUME NEW r \in Requests, Create(r) PROVE rec'[id].note = rec[id].note
    BY <1>1 DEF Create, TypeOK, Listing
  <1>2. ASSUME NEW r \in Requests, Write(r) PROVE rec'[id].note = rec[id].note
    <2>1. At(r, "write")
      BY <1>2 DEF Write
    <2>2. req[r].items[req[r].id].note = rec[req[r].id].note
      BY <2>1, WriteFinds DEF NotesAgree, HasItems, At
    <2>3. PICK record \in Record :
            /\ record.note \in {rec[req[r].id].note, req[r].items[req[r].id].note}
            /\ rec' = [rec EXCEPT ![req[r].id] = record]
      BY <1>2, <2>1, WriteFinds, WrittenTypes
    <2> QED
      BY <2>2, <2>3 DEF TypeOK, Listing
  <1>3. ASSUME NEW i \in Ids, Archive(i) \/ Restore(i) PROVE rec'[id].note = rec[id].note
    BY <1>3, FlagStep DEF TypeOK, Listing
  <1> QED
    BY <1>1, <1>2, <1>3, QuietRecords

\* A request that goes on with what it does, or ends.
LEMMA Continues ==
    ASSUME TypeOK, NEW r \in Requests, Step(r) \/ Skip(r) \/ Stop(r)
    PROVE  /\ \A o \in Requests \ {r} : req'[o] = req[o]
           /\ req'[r].pc # "edit"
           /\ req'[r].pc = "idle" \/ req[r].pc \notin {"idle", "edit"}
  <1>a. \A q : Goto(r, q) => req'[r] = q /\ \A o \in Requests \ {r} : req'[o] = req[o]
    BY DEF Goto, TypeOK
  <1>b. Leave(r) => req'[r].pc = "idle" /\ \A o \in Requests \ {r} : req'[o] = req[o]
    BY <1>a DEF Leave, Idle
  <1>1. CASE Create(r) \/ Skip(r)
    <2>1. PICK x : Goto(r, [req[r] EXCEPT !.left = @ \ x])
      <3>1. Create(r) => \E x : Goto(r, [req[r] EXCEPT !.left = @ \ x])
        BY DEF Create
      <3>2. Skip(r) => \E x : Goto(r, [req[r] EXCEPT !.left = @ \ x])
        BY DEF Skip
      <3> QED
        BY <1>1, <3>1, <3>2
    <2>2. req[r] \in Request /\ req[r].pc \in {"create", "look"}
      BY <1>1 DEF Create, Skip, At, TypeOK
    <2>3. [req[r] EXCEPT !.left = @ \ x].pc = req[r].pc
      BY <2>2 DEF Request, Idle
    <2> QED
      BY <1>a, <2>1, <2>2, <2>3
  <1>2. CASE List(r) \/ Discover(r) \/ Look(r)
    <2>1. \E q : Goto(r, q) /\ q.pc \in {"discover", "create", "write"}
      <3>1. CASE List(r)
        BY <3>1 DEF List
      <3>2. CASE Discover(r)
        BY <3>2 DEF Discover
      <3>3. CASE Look(r)
        BY <3>3 DEF Look
      <3> QED
        BY <1>2, <3>1, <3>2, <3>3
    <2> QED
      BY <1>2, <1>a, <2>1 DEF List, Discover, Look, At
  <1>3. CASE EndCreate(r) \/ EndSync(r) \/ Stop(r)
    BY <1>3, <1>a, <1>b DEF EndCreate, EndSync, Stop, At
  <1>4. CASE Write(r) \/ WriteEdit(r)
    BY <1>4, <1>a DEF Write, Written, WriteEdit, At, Idle
  <1> QED
    BY <1>1, <1>2, <1>3, <1>4 DEF Step

\* Who edits and who synchronises, after a step.
LEMMA WhoIsBusy ==
    ASSUME TypeOK, [Next]_vars, ~crossed'
    PROVE  /\ ~crossed
           /\ Editing' => Editing \/ ~Synchronising'
           /\ Synchronising' => Synchronising \/ ~Editing'
  <1>a. \A r \in Requests : \A q : Goto(r, q) =>
          req'[r] = q /\ \A o \in Requests \ {r} : req'[o] = req[o]
    BY DEF Goto, TypeOK
  <1>1. ASSUME NEW r \in Requests,
               SyncKeyVault(r) \/ \E chosen \in SUBSET Refs : ImportKeyVaultSecrets(r, chosen)
        PROVE  ~crossed /\ ~Editing'
    <2>1. PICK q : Enter(r, q) /\ q.pc = "list"
      BY <1>1, EntersAList
    <2>2. ~crossed /\ ~Editing
      BY <2>1 DEF Enter
    <2>3. req'[r].pc = "list" /\ \A o \in Requests \ {r} : req'[o] = req[o]
      BY <2>1, <1>a DEF Enter
    <2> QED
      BY <2>2, <2>3 DEF Editing, At
  <1>2. ASSUME NEW r \in Requests, NEW id \in Ids, NEW note \in Notes, BeginEdit(r, id, note)
        PROVE  ~crossed /\ ~Synchronising'
    <2>1. ~crossed /\ ~Synchronising
      BY <1>2 DEF BeginEdit
    <2>2. req'[r].pc = "edit" /\ \A o \in Requests \ {r} : req'[o] = req[o]
      BY <1>2, <1>a DEF BeginEdit
    <2> QED
      BY <2>1, <2>2 DEF Synchronising
  <1>3. ASSUME NEW r \in Requests, Step(r) \/ Skip(r) \/ Stop(r)
        PROVE  /\ ~crossed
               /\ Editing' => Editing
               /\ Synchronising' => Synchronising
    <2>1. UNCHANGED crossed
      BY <1>3 DEF Step, List, Discover, Create, EndCreate, Look, Write, Written, EndSync,
                  WriteEdit, Skip, Stop
    <2>2. /\ \A o \in Requests \ {r} : req'[o] = req[o]
          /\ req'[r].pc # "edit"
          /\ req'[r].pc = "idle" \/ req[r].pc \notin {"idle", "edit"}
      BY <1>3, <1>a, Continues
    <2> QED
      BY <2>1, <2>2 DEF Editing, Synchronising, At
  <1>4. CASE UNCHANGED <<req, crossed>>
    BY <1>4 DEF Editing, Synchronising, At
  <1> QED
    BY <1>1, <1>2, <1>3, <1>4 DEF Next, Archive, Restore, Change, vars

\* What a request has listed it listed in this step, or had already.
LEMMA ItemsStay ==
    ASSUME TypeOK, [Next]_vars, NEW r \in Requests, HasItems(r)'
    PROVE  \/ HasItems(r) /\ req'[r].items = req[r].items
           \/ UNCHANGED rec /\ req'[r].items = Listed
  <1>a. \A o \in Requests : \A q : Goto(o, q) =>
          req'[o] = q /\ \A i \in Requests \ {o} : req'[i] = req[i]
    BY DEF Goto, TypeOK
  <1>1. CASE req'[r] = req[r]
    BY <1>1 DEF HasItems
  <1>2. CASE req'[r] # req[r]
    <2>1. ASSUME NEW o \in Requests,
                 \/ SyncKeyVault(o)
                 \/ \E chosen \in SUBSET Refs : ImportKeyVaultSecrets(o, chosen)
          PROVE  FALSE
      <3>1. PICK q : Goto(o, q) /\ q.pc = "list"
        BY <2>1, EntersAList DEF Enter
      <3> QED
        BY <1>2, <1>a, <3>1 DEF HasItems
    <2>2. ASSUME NEW o \in Requests, List(o)
          PROVE  UNCHANGED rec /\ (o = r => req'[r].items = Listed)
      BY <2>2, <1>a DEF List
    <2>3. ASSUME NEW o \in Requests, Discover(o) \/ EndCreate(o) \/ Look(o) \/ Write(o)
          PROVE  o = r => HasItems(r) /\ req'[r].items = req[r].items
      <3> SUFFICES ASSUME o = r PROVE HasItems(r) /\ req'[r].items = req[r].items
        OBVIOUS
      <3>1. HasItems(r)
        BY <2>3 DEF Discover, EndCreate, Look, Write, HasItems, At
      <3>2. Leave(r) => req'[r].pc = "idle"
        BY <1>a DEF Leave, Idle
      <3>3. CASE Discover(r)
        BY <3>1, <3>3, <1>a DEF Discover
      <3>4. CASE EndCreate(r)
        BY <3>1, <3>2, <3>4, <1>a DEF EndCreate, HasItems
      <3>5. CASE Look(r)
        BY <3>1, <3>5, <1>a DEF Look
      <3>6. CASE Write(r)
        BY <3>1, <3>6, <1>a DEF Write, Written
      <3> QED
        BY <2>3, <3>3, <3>4, <3>5, <3>6
    <2>4. ASSUME NEW o \in Requests, Create(o) \/ Skip(o)
          PROVE  o = r => HasItems(r) /\ req'[r].items = req[r].items
      <3>1. PICK x : Goto(o, [req[o] EXCEPT !.left = @ \ x])
        <4>1. Create(o) => \E x : Goto(o, [req[o] EXCEPT !.left = @ \ x])
          BY DEF Create
        <4>2. Skip(o) => \E x : Goto(o, [req[o] EXCEPT !.left = @ \ x])
          BY DEF Skip
        <4> QED
          BY <2>4, <4>1, <4>2
      <3>2. req[o] \in Request /\ req[o].pc \in {"create", "look"}
        BY <2>4 DEF Create, Skip, At, TypeOK
      <3>3. [req[o] EXCEPT !.left = @ \ x].items = req[o].items
        BY <3>2 DEF Request, Idle
      <3> QED
        BY <1>a, <3>1, <3>2, <3>3 DEF HasItems
    <2>5. ASSUME NEW o \in Requests, EndSync(o) \/ Stop(o) \/ WriteEdit(o) PROVE FALSE
      BY <1>2, <1>a, <2>5 DEF EndSync, Stop, Leave, WriteEdit, Idle, HasItems
    <2>6. ASSUME NEW o \in Requests, NEW id \in Ids, NEW note \in Notes, BeginEdit(o, id, note)
          PROVE  FALSE
      BY <1>2, <1>a, <2>6 DEF BeginEdit, HasItems
    <2>7. ASSUME NEW o \in Requests, Step(o) \/ Skip(o) PROVE o = r
      BY <1>2, <2>7, Continues
    <2> QED
      BY <1>2, <2>1, <2>2, <2>3, <2>4, <2>5, <2>6, <2>7
      DEF Next, Step, Archive, Restore, Change, vars
  <1> QED
    BY <1>1, <1>2

LEMMA NotesStep == TypeOK /\ Anchored /\ NotesAgree /\ [Next]_vars => NotesAgree'
  <1> SUFFICES ASSUME TypeOK, Anchored, NotesAgree, [Next]_vars, ~crossed' PROVE
                  /\ ~(Editing /\ Synchronising)'
                  /\ \A r \in Requests : HasItems(r)' =>
                       \A id \in Ids : req'[r].items[id] # NoRecord =>
                           req'[r].items[id].note = rec'[id].note
    BY DEF NotesAgree
  <1>1. ~crossed /\ ~(Editing /\ Synchronising) /\ ~(Editing /\ Synchronising)'
    BY WhoIsBusy DEF NotesAgree
  <1>2. ASSUME NEW r \in Requests, HasItems(r)', NEW id \in Ids, req'[r].items[id] # NoRecord
        PROVE  req'[r].items[id].note = rec'[id].note
    <2>1. CASE UNCHANGED rec /\ req'[r].items = Listed
      BY <1>2, <2>1 DEF Listed
    <2>2. CASE HasItems(r) /\ req'[r].items = req[r].items
      <3>1. Synchronising
        BY <2>2 DEF HasItems, Synchronising
      <3>2. \A o \in Requests : ~WriteEdit(o)
        BY <1>1, <3>1 DEF WriteEdit, Editing
      <3>3. rec[id] # NoRecord /\ req[r].items[id].note = rec[id].note
        BY <1>1, <1>2, <2>2 DEF Anchored, NotesAgree
      <3> QED
        BY <1>1, <2>2, <3>2, <3>3, NotesStay
    <2> QED
      BY <1>2, <2>1, <2>2, ItemsStay
  <1> QED
    BY <1>1, <1>2

(***************************************************************************)
(* Synchronisation takes nothing from the people (keyvault_sync.go): it    *)
(* brings back no record that somebody archived while it had it listed,    *)
(* and, unless an edit falls into it, changes no note.  This holds for any *)
(* number of replicas.                                                     *)
(***************************************************************************)
THEOREM SynchronisationLeavesThePeoplesFields == Spec => PeopleDecide
  <1>1. Init => TypeOK /\ Anchored /\ NotesAgree
    <2>1. Init => NotesAgree
      BY DEF Init, NotesAgree, Editing, HasItems, At, Idle
    <2> QED
      BY <2>1, TypeInit
  <1>2. TypeOK /\ Anchored /\ NotesAgree /\ [Next]_vars => (TypeOK /\ Anchored /\ NotesAgree)'
    BY TypeStep, AnchoredStep, NotesStep
  <1>3. TypeOK /\ Anchored /\ NotesAgree /\ [Next]_vars =>
          [\A id \in Ids : rec[id] # NoRecord /\ rec[id].archived /\ ~rec'[id].archived
              => Restore(id)]_vars
    BY RestoreStep
  <1>4. TypeOK /\ Anchored /\ NotesAgree /\ [Next]_vars =>
          [~crossed => \A id \in Ids : rec[id] # NoRecord /\ rec'[id].note # rec[id].note
              => \E r \in Requests : WriteEdit(r)]_vars
    BY NotesStay
  <1> QED
    BY <1>1, <1>2, <1>3, <1>4, PTL DEF Spec, PeopleDecide, NotesAreThePeoples, OnlyPeopleRestore

(***************************************************************************)
(* One live record of a secret                                             *)
(***************************************************************************)

\* Whoever synchronises holds the mutex of its replica.
Mutual == \A r \in Requests : req[r].pc \notin {"idle", "edit"} => mutex[RunsOn[r]] = r

\* A live record that no person brought back.
Imported(id) == Live(id) /\ id \notin restored

\* What has been listed are all the records there are, and what is to be created
\* has none.
StillMissing ==
    \A r \in Requests, id \in Ids : Imported(id) =>
        /\ At(r, "discover") => req[r].items[id] # NoRecord
        /\ At(r, "create") => rec[id].ref \notin req[r].left

\* One imported record of a secret.
Unique == \A a, b \in Ids : a # b /\ Imported(a) /\ Imported(b) => rec[a].ref # rec[b].ref

LEMMA MutualStep == TypeOK /\ Mutual /\ [Next]_vars => Mutual'
  <1> SUFFICES ASSUME TypeOK, Mutual, [Next]_vars PROVE Mutual'
    OBVIOUS
  <1>a. \A r \in Requests : \A q : Goto(r, q) =>
          req'[r] = q /\ \A o \in Requests \ {r} : req'[o] = req[o]
    BY DEF Goto, TypeOK
  <1>b. \A r \in Requests : RunsOn[r] \in Replicas
    BY SlotAssumption
  <1>1. ASSUME NEW r \in Requests, NEW q, Enter(r, q) PROVE Mutual'
    <2>1. \A o \in Requests \ {r} : req[o].pc \notin {"idle", "edit"} =>
            RunsOn[o] # RunsOn[r]
      BY <1>1, NonesAssumption DEF Enter, Mutual
    <2> QED
      BY <1>1, <1>a, <1>b, <2>1 DEF Enter, Mutual, TypeOK
  <1>2. ASSUME NEW r \in Requests, Leave(r), req[r].pc \notin {"idle", "edit"} PROVE Mutual'
    <2>1. \A o \in Requests \ {r} : req[o].pc \notin {"idle", "edit"} =>
            RunsOn[o] # RunsOn[r]
      BY <1>2 DEF Mutual
    <2> QED
      BY <1>2, <1>a, <1>b, <2>1 DEF Leave, Idle, Mutual, TypeOK
  <1>3. ASSUME NEW r \in Requests, Step(r) \/ Skip(r) \/ Stop(r), UNCHANGED mutex
        PROVE  Mutual'
    BY <1>3, Continues DEF Mutual
  <1>4. ASSUME NEW r \in Requests, NEW id \in Ids, NEW note \in Notes, BeginEdit(r, id, note)
        PROVE  Mutual'
    BY <1>4, <1>a DEF BeginEdit, Mutual
  <1>5. CASE UNCHANGED <<mutex, req>>
    BY <1>5 DEF Mutual
  <1>6. ASSUME NEW r \in Requests, EndCreate(r) \/ EndSync(r) \/ Stop(r)
        PROVE  (Leave(r) /\ req[r].pc \notin {"idle", "edit"}) \/ UNCHANGED mutex
    BY <1>6 DEF EndCreate, EndSync, Stop, At
  <1>7. ASSUME NEW r \in Requests,
               List(r) \/ Discover(r) \/ Create(r) \/ Look(r) \/ Write(r) \/ WriteEdit(r)
                 \/ Skip(r)
        PROVE  UNCHANGED mutex
    BY <1>7 DEF List, Discover, Create, Look, Write, Written, WriteEdit, Skip
  <1> QED
    BY <1>1, <1>2, <1>3, <1>4, <1>5, <1>6, <1>7, EntersAList
    DEF Next, Step, Archive, Restore, Change, vars

\* The only records that a step adds are those it creates.
LEMMA ImportedStep ==
    ASSUME TypeOK, Anchored, [Next]_vars, NEW id \in Ids, Imported(id)'
    PROVE  \/ Imported(id) /\ rec'[id].ref = rec[id].ref
           \/ \E r \in Requests : /\ Create(r)
                                  /\ rec'[id].ref \in req[r].left \ req'[r].left
                                  /\ \A i \in Ids \ {id} : rec'[i] = rec[i]
  <1> DEFINE Before == Imported(id) /\ rec'[id].ref = rec[id].ref
             Created == \E r \in Requests :
                           /\ Create(r)
                           /\ rec'[id].ref \in req[r].left \ req'[r].left
                           /\ \A i \in Ids \ {id} : rec'[i] = rec[i]
  <1>1. CASE UNCHANGED <<rec, restored>>
    BY <1>1 DEF Imported, Live
  <1>2. ASSUME NEW r \in Requests, Create(r) PROVE Before \/ Created
    <2>1. PICK f \in req[r].left, i \in Ids :
            /\ rec' = [rec EXCEPT ![i] = [ref |-> f, version |-> req[r].found[f],
                                          note |-> Default, archived |-> FALSE]]
            /\ Goto(r, [req[r] EXCEPT !.left = @ \ {f}])
      BY <1>2 DEF Create
    <2>2. CASE i # id
      <3>1. rec'[id] = rec[id] /\ UNCHANGED restored
        BY <1>2, <2>1, <2>2 DEF Create, TypeOK, Listing
      <3> QED
        BY <3>1 DEF Imported, Live
    <2>3. CASE i = id
      <3>1. rec'[id].ref = f /\ \A j \in Ids \ {id} : rec'[j] = rec[j]
        BY <2>1, <2>3 DEF TypeOK, Listing
      <3>2. req[r] \in [pc : {"create"}, kind : {"sync", "import"}, items : Listing,
                        found : [Refs -> Found], left : SUBSET Refs]
        BY <1>2 DEF Create, At, TypeOK, Request, Idle
      <3>3. req'[r].left = req[r].left \ {f}
        BY <2>1, <3>2 DEF Goto, TypeOK
      <3> QED
        BY <1>2, <3>1, <3>3
    <2> QED
      BY <2>2, <2>3
  <1>3. ASSUME NEW r \in Requests, Write(r) PROVE Before
    <2>1. PICK record \in Record :
            /\ record.archived = (req[r].found = Gone \/ rec[req[r].id].archived)
            /\ record.ref = rec[req[r].id].ref
            /\ rec' = [rec EXCEPT ![req[r].id] = record]
      <3>1. At(r, "write")
        BY <1>3 DEF Write
      <3> QED
        BY <1>3, <3>1, WriteFinds, WrittenTypes
    <2>2. rec[req[r].id] # NoRecord /\ UNCHANGED restored
      BY <1>3, WriteFinds DEF Write, Written
    <2> QED
      BY <2>1, <2>2 DEF Imported, Live, TypeOK, Listing
  <1>4. ASSUME NEW r \in Requests, WriteEdit(r) PROVE Before
    <2>1. rec[req[r].id] # NoRecord /\ UNCHANGED restored
      BY <1>4, EditedTypes, NonesAssumption DEF WriteEdit
    <2> QED
      BY <1>4, <2>1, EditedTypes DEF Imported, Live, TypeOK, Listing
  <1>5. ASSUME NEW i \in Ids, Archive(i) \/ Restore(i) PROVE Before
    <2>1. rec'[id].ref = rec[id].ref
      BY <1>5, FlagStep DEF TypeOK, Listing
    <2>2. id # i
      <3>1. rec[i] \in Record
        BY <1>5, FlagStep
      <3>2. Archive(i) => rec'[i].archived
        BY <3>1 DEF Archive, TypeOK, Listing, Record
      <3>3. Restore(i) => i \in restored'
        BY DEF Restore
      <3> QED
        BY <1>5, <3>2, <3>3 DEF Imported, Live
    <2>3. rec'[id] = rec[id] /\ (id \in restored => id \in restored')
      BY <1>5, <2>2 DEF Archive, Restore, TypeOK, Listing
    <2> QED
      BY <2>1, <2>3 DEF Imported, Live
  <1>6. \/ UNCHANGED <<rec, restored>>
        \/ \E r \in Requests : Create(r) \/ Write(r) \/ WriteEdit(r)
        \/ \E i \in Ids : Archive(i) \/ Restore(i)
    BY DEF Next, Step, SyncKeyVault, ImportKeyVaultSecrets, List, Discover, EndCreate, Look,
           EndSync, Skip, Stop, BeginEdit, Change, vars
  <1> QED
    BY <1>1, <1>2, <1>3, <1>4, <1>5, <1>6

\* How a request comes to discover, or to create.
LEMMA ListsAndLeft ==
    ASSUME TypeOK, [Next]_vars, NEW r \in Requests
    PROVE  /\ At(r, "discover")' =>
                \/ At(r, "discover") /\ req'[r].items = req[r].items
                \/ UNCHANGED <<rec, restored>> /\ req'[r].items = Listed
           /\ At(r, "create")' =>
                \/ At(r, "create") /\ req'[r].left \subseteq req[r].left
                \/ UNCHANGED <<rec, restored>> /\ req'[r].left \cap Known(Listed) = {}
                \/ /\ At(r, "discover") /\ UNCHANGED <<rec, restored>>
                   /\ req'[r].left \cap Known(req[r].items) = {}
  <1> DEFINE Discovers == At(r, "discover")' =>
                 \/ At(r, "discover") /\ req'[r].items = req[r].items
                 \/ UNCHANGED <<rec, restored>> /\ req'[r].items = Listed
             Creates == At(r, "create")' =>
                 \/ At(r, "create") /\ req'[r].left \subseteq req[r].left
                 \/ UNCHANGED <<rec, restored>> /\ req'[r].left \cap Known(Listed) = {}
                 \/ /\ At(r, "discover") /\ UNCHANGED <<rec, restored>>
                    /\ req'[r].left \cap Known(req[r].items) = {}
  <1>a. \A o \in Requests : \A q : Goto(o, q) =>
          req'[o] = q /\ \A i \in Requests \ {o} : req'[i] = req[i]
    BY DEF Goto, TypeOK
  <1>1. CASE req'[r] = req[r]
    BY <1>1 DEF At
  <1>2. CASE req'[r].pc \notin {"discover", "create"}
    BY <1>2 DEF At
  <1>3. CASE List(r)
    <2>1. UNCHANGED <<rec, restored>>
      BY <1>3 DEF List
    <2>2. CASE req[r].kind = "sync"
      BY <1>3, <1>a, <2>1, <2>2 DEF List, At
    <2>3. CASE req[r].kind # "sync"
      <3>1. req'[r].pc = "create" /\ req'[r].left = Missing(Listed, req[r].found)
        BY <1>3, <1>a, <2>3 DEF List
      <3> QED
        BY <2>1, <3>1 DEF Missing, At
    <2> QED
      BY <2>2, <2>3
  <1>4. CASE Discover(r)
    <2>1. req'[r].pc = "create" /\ req'[r].left = Missing(req[r].items, remote)
      BY <1>4, <1>a DEF Discover
    <2>2. At(r, "discover") /\ UNCHANGED <<rec, restored>>
      BY <1>4 DEF Discover
    <2> QED
      BY <2>1, <2>2 DEF Missing, At
  <1>5. CASE Create(r)
    <2>1. PICK f : Goto(r, [req[r] EXCEPT !.left = @ \ {f}])
      BY <1>5 DEF Create
    <2>2. req[r] \in [pc : {"create"}, kind : {"sync", "import"}, items : Listing,
                      found : [Refs -> Found], left : SUBSET Refs]
      BY <1>5 DEF Create, At, TypeOK, Request, Idle
    <2>3. req'[r].left = req[r].left \ {f} /\ req'[r].pc = "create" /\ At(r, "create")
      BY <1>a, <2>1, <2>2 DEF At
    <2> QED
      BY <2>3 DEF At
  <1>6. CASE Skip(r)
    BY <1>6, SkippedTypes DEF Skip, At
  <1>7. CASE EndCreate(r) \/ EndSync(r) \/ Stop(r)
    <2>1. \E q : Goto(r, q) /\ q.pc \in {"idle", "look"}
      <3>1. Leave(r) => \E q : Goto(r, q) /\ q.pc \in {"idle", "look"}
        BY DEF Leave, Idle
      <3>2. EndCreate(r) => Leave(r) \/ \E q : Goto(r, q) /\ q.pc \in {"idle", "look"}
        BY DEF EndCreate
      <3> QED
        BY <1>7, <3>1, <3>2 DEF EndSync, Stop
    <2> QED
      BY <1>2, <1>a, <2>1
  <1>8. CASE Look(r) \/ Write(r) \/ WriteEdit(r)
    <2>1. \E q : Goto(r, q) /\ q.pc \in {"idle", "look", "write"}
      <3>1. CASE Look(r)
        BY <3>1 DEF Look
      <3>2. CASE Write(r)
        BY <3>2 DEF Write, Written
      <3>3. CASE WriteEdit(r)
        BY <3>3 DEF WriteEdit, Idle
      <3> QED
        BY <1>8, <3>1, <3>2, <3>3
    <2> QED
      BY <1>2, <1>a, <2>1
  <1>9. CASE SyncKeyVault(r) \/ \E chosen \in SUBSET Refs : ImportKeyVaultSecrets(r, chosen)
    BY <1>2, <1>9, <1>a, EntersAList DEF Enter
  <1>10. CASE \E id \in Ids, note \in Notes : BeginEdit(r, id, note)
    BY <1>2, <1>10, <1>a DEF BeginEdit
  <1>11. ASSUME NEW o \in Requests \ {r},
                \/ SyncKeyVault(o)
                \/ \E chosen \in SUBSET Refs : ImportKeyVaultSecrets(o, chosen)
                \/ \E id \in Ids, note \in Notes : BeginEdit(o, id, note)
                \/ Step(o) \/ Skip(o) \/ Stop(o)
         PROVE  req'[r] = req[r]
    <2>1. CASE SyncKeyVault(o) \/ \E chosen \in SUBSET Refs : ImportKeyVaultSecrets(o, chosen)
      BY <2>1, <1>a, EntersAList DEF Enter
    <2>2. CASE \E id \in Ids, note \in Notes : BeginEdit(o, id, note)
      BY <2>2, <1>a DEF BeginEdit
    <2> QED
      BY <1>11, <2>1, <2>2, Continues
  <1>12. CASE UNCHANGED req
    BY <1>1, <1>12
  <1> QED
    BY <1>1, <1>3, <1>4, <1>5, <1>6, <1>7, <1>8, <1>9, <1>10, <1>11, <1>12
    DEF Next, Step, Archive, Restore, Change, vars

LEMMA UniqueStep ==
    ASSUME \A p, q \in Replicas : p = q,
           TypeOK, Anchored, Mutual, StillMissing, Unique, [Next]_vars
    PROVE  StillMissing' /\ Unique'
  <1>1. ASSUME NEW r \in Requests, NEW o \in Requests,
               req[r].pc \notin {"idle", "edit"}, req[o].pc \notin {"idle", "edit"}
        PROVE  r = o
    <2>1. RunsOn[r] = RunsOn[o]
      BY SlotAssumption
    <2> QED
      BY <1>1, <2>1 DEF Mutual
  <1>2. Unique'
    <2> SUFFICES ASSUME NEW a \in Ids, NEW b \in Ids, a # b, Imported(a)', Imported(b)'
                 PROVE  rec'[a].ref # rec'[b].ref
      BY DEF Unique
    <2>1. ASSUME NEW r \in Requests, Create(r), NEW i \in Ids, Imported(i),
                 NEW f \in req[r].left
          PROVE  rec[i].ref # f
      BY <2>1 DEF Create, StillMissing
    <2>2. \A r \in Requests : Create(r) => UNCHANGED restored
      BY DEF Create
    <2> QED
      BY <2>1, <2>2, ImportedStep DEF Unique, Imported, Live
  <1>3. ASSUME NEW r \in Requests, NEW id \in Ids, Imported(id)', At(r, "discover")'
        PROVE  req'[r].items[id] # NoRecord
    <2>1. CASE UNCHANGED <<rec, restored>> /\ req'[r].items = Listed
      BY <1>3, <2>1 DEF Imported, Live, Listed
    <2>2. CASE At(r, "discover") /\ req'[r].items = req[r].items
      <3>1. \A o \in Requests : ~Create(o)
        BY <1>1, <2>2 DEF Create, At
      <3> QED
        BY <1>3, <2>2, <3>1, ImportedStep DEF StillMissing
    <2> QED
      BY <1>3, <2>1, <2>2, ListsAndLeft
  <1>4. ASSUME NEW r \in Requests, NEW id \in Ids, Imported(id)', At(r, "create")'
        PROVE  rec'[id].ref \notin req'[r].left
    <2>1. CASE UNCHANGED <<rec, restored>> /\ req'[r].left \cap Known(Listed) = {}
      <3>1. Listed[id] = rec[id] /\ rec[id] # NoRecord /\ rec'[id] = rec[id]
        BY <1>4, <2>1 DEF Imported, Live, Listed
      <3> QED
        BY <2>1, <3>1 DEF Known
    <2>2. CASE /\ At(r, "discover") /\ UNCHANGED <<rec, restored>>
               /\ req'[r].left \cap Known(req[r].items) = {}
      <3>1. req[r].items[id] # NoRecord /\ rec'[id].ref = req[r].items[id].ref
        BY <1>4, <2>2 DEF Imported, Live, StillMissing, Anchored, HasItems, At
      <3> QED
        BY <2>2, <3>1 DEF Known
    <2>3. CASE At(r, "create") /\ req'[r].left \subseteq req[r].left
      <3>1. \A o \in Requests : Create(o) => o = r
        BY <1>1, <2>3 DEF Create, At
      <3> QED
        BY <1>4, <2>3, <3>1, ImportedStep DEF StillMissing
    <2> QED
      BY <1>4, <2>1, <2>2, <2>3, ListsAndLeft
  <1> QED
    BY <1>2, <1>3, <1>4 DEF StillMissing

(***************************************************************************)
(* On one replica a secret has two live records only where a person        *)
(* brought one of them back (ImportKeyVaultSecrets and SyncKeyVault share  *)
(* syncMu), for any secrets, imports, edits and archivings.                *)
(***************************************************************************)
THEOREM OneRecordPerSecret ==
    ASSUME \A p, q \in Replicas : p = q
    PROVE  Spec => []OneLiveRecordPerSecret
  <1> DEFINE Inv == TypeOK /\ Anchored /\ Mutual /\ StillMissing /\ Unique
  <1>1. Init => Inv
    <2>1. Init => Mutual /\ StillMissing /\ Unique
      BY DEF Init, Mutual, StillMissing, Unique, Imported, Live, Idle
    <2> QED
      BY <2>1, TypeInit
  <1>2. Inv /\ [Next]_vars => Inv'
    BY TypeStep, AnchoredStep, MutualStep, UniqueStep
  <1>3. Inv => OneLiveRecordPerSecret
    BY DEF Unique, Imported, OneLiveRecordPerSecret
  <1> QED
    BY <1>1, <1>2, <1>3, PTL DEF Spec
=============================================================================
