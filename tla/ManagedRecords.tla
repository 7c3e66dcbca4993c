---------------------------- MODULE ManagedRecords ----------------------------
(***************************************************************************)
(* Key Vault secrets as workspace records (backend/internal/resources:     *)
(* keyvault_sync.go, keyvault_import.go, and the edits of service.go).     *)
(*                                                                         *)
(* A synchronisation holds a mutex of its own process, lists the live      *)
(* records, discovers the vault, creates a record for each secret it has   *)
(* none of, and then looks every listed record up and writes it back whole *)
(* with the metadata it found, or archives it.  A manual import holds the  *)
(* same mutex.  Edits, archiving and restoring hold none.  The vault       *)
(* changes when it likes.                                                  *)
(***************************************************************************)
EXTENDS Naturals, FiniteSets

CONSTANTS
    Refs,        \* secrets of the vault, by their normalized reference
    Versions,    \* metadata that a secret can have
    Notes,       \* what an edit can write; Default is what an import writes
    Default,
    Ids,         \* ids of records
    Replicas,    \* processes of the server
    Requests,    \* request slots
    RunsOn,      \* the replica of each slot
    MaxEvents,   \* bound on changes of the vault, edits, archivings and failures
    Gone, NoRecord, Nobody

VARIABLES
    remote,  \* the vault: the metadata of each secret, or Gone
    rec,     \* managed records
    mutex,   \* syncMu of each replica
    req,     \* requests in flight
    restored, \* history: the records last brought back by a person
    crossed, \* history: an edit and a synchronisation have overlapped
    events   \* how many bounded events have happened

vars == <<remote, rec, mutex, req, restored, crossed, events>>

----------------------------------------------------------------------------
Found == Versions \cup {Gone}
Record == [ref : Refs, version : Versions, note : Notes \cup {Default},
           archived : BOOLEAN]
Listing == [Ids -> {NoRecord} \cup Record]

Idle == [pc |-> "idle"]
Request ==
    {Idle}
    \cup [pc : {"list"}, kind : {"sync"}]
    \cup [pc : {"list"}, kind : {"import"}, found : [Refs -> Found]]
    \cup [pc : {"discover"}, items : Listing]
    \cup [pc : {"create"}, kind : {"sync", "import"}, items : Listing,
          found : [Refs -> Found], left : SUBSET Refs]
    \cup [pc : {"look"}, items : Listing, left : SUBSET Ids]
    \cup [pc : {"write"}, items : Listing, left : SUBSET Ids, id : Ids, found : Found]
    \cup [pc : {"edit"}, id : Ids, seen : Record, note : Notes]

ASSUME SlotAssumption == RunsOn \in [Requests -> Replicas]
ASSUME BoundAssumption ==
    MaxEvents \in Nat
ASSUME NonesAssumption ==
    /\ Gone \notin Versions /\ NoRecord \notin Record
    /\ Nobody \notin Requests /\ Default \notin Notes

At(r, pc) == req[r].pc = pc
Goto(r, q) == req' = [req EXCEPT ![r] = q]

Live(id) == rec[id] # NoRecord /\ ~rec[id].archived

\* Something outside of the requests, of which there are only so many.
Event == events < MaxEvents /\ events' = events + 1

Editing == \E r \in Requests : At(r, "edit")
Synchronising == \E r \in Requests : req[r].pc \notin {"idle", "edit"}

Init ==
    /\ remote \in [Refs -> Found]
    /\ rec = [id \in Ids |-> NoRecord]
    /\ mutex = [p \in Replicas |-> Nobody]
    /\ req = [r \in Requests |-> Idle]
    /\ restored = {}
    /\ crossed = FALSE
    /\ events = 0

----------------------------------------------------------------------------
(* Synchronisation and import                                              *)

Enter(r, q) ==
    /\ At(r, "idle")
    /\ mutex[RunsOn[r]] = Nobody
    /\ crossed' = (crossed \/ Editing)
    /\ mutex' = [mutex EXCEPT ![RunsOn[r]] = r]
    /\ Goto(r, q)

Leave(r) ==
    /\ mutex' = [mutex EXCEPT ![RunsOn[r]] = Nobody]
    /\ Goto(r, Idle)

SyncKeyVault(r) ==
    /\ Enter(r, [pc |-> "list", kind |-> "sync"])
    /\ UNCHANGED <<remote, rec, restored, events>>

\* The secrets chosen in the import dialog, as it discovered them.
ImportKeyVaultSecrets(r, chosen) ==
    /\ Event
    /\ chosen # {}
    /\ Enter(r, [pc |-> "list", kind |-> "import",
                 found |-> [f \in Refs |-> IF f \in chosen THEN remote[f] ELSE Gone]])
    /\ UNCHANGED <<remote, rec, restored>>

\* managedKeyVaultReferences of what was listed
Known(items) == {items[id].ref : id \in {id \in Ids : items[id] # NoRecord}}

\* variant: secrets that are gone are discovered too
MissingOrGone(items, found) == Refs \ Known(items)

Missing(items, found) == {f \in Refs : found[f] # Gone} \ Known(items)

Listed == [id \in Ids |-> IF Live(id) THEN rec[id] ELSE NoRecord]

\* ListManagedKeyVault: records that are not archived.
List(r) ==
    /\ At(r, "list")
    /\ IF req[r].kind = "sync"
       THEN Goto(r, [pc |-> "discover", items |-> Listed])
       ELSE Goto(r, [pc |-> "create", kind |-> "import", items |-> Listed,
                     found |-> req[r].found,
                     left |-> Missing(Listed, req[r].found)])
    /\ UNCHANGED <<remote, rec, mutex, restored, crossed, events>>

DiscoverAll(r) == \* variant: what is listed already is created again
    /\ At(r, "discover")
    /\ Goto(r, [pc |-> "create", kind |-> "sync", items |-> req[r].items,
                found |-> remote, left |-> {f \in Refs : remote[f] # Gone}])
    /\ UNCHANGED <<remote, rec, mutex, restored, crossed, events>>

Discover(r) ==
    /\ At(r, "discover")
    /\ Goto(r, [pc |-> "create", kind |-> "sync", items |-> req[r].items,
                found |-> remote, left |-> Missing(req[r].items, remote)])
    /\ UNCHANGED <<remote, rec, mutex, restored, crossed, events>>

\* autoImportCreateInput, manualImportCreateInput
Create(r) ==
    /\ At(r, "create")
    /\ \E f \in req[r].left, id \in Ids :
          /\ rec[id] = NoRecord
          /\ rec' = [rec EXCEPT ![id] =
                 [ref |-> f, version |-> req[r].found[f], note |-> Default,
                  archived |-> FALSE]]
          /\ Goto(r, [req[r] EXCEPT !.left = @ \ {f}])
    /\ UNCHANGED <<remote, mutex, restored, crossed, events>>

\* The updates walk the records that were listed, not the ones just created.
EndCreate(r) ==
    /\ At(r, "create") /\ req[r].left = {}
    /\ IF req[r].kind = "import" THEN Leave(r)
       ELSE /\ Goto(r, [pc |-> "look", items |-> req[r].items,
                        left |-> {id \in Ids : req[r].items[id] # NoRecord}])
            /\ UNCHANGED mutex
    /\ UNCHANGED <<remote, rec, restored, crossed, events>>

\* CurrentSecretMetadata of one record.
Look(r) ==
    /\ At(r, "look")
    /\ \E id \in req[r].left :
          Goto(r, [pc |-> "write", items |-> req[r].items, left |-> req[r].left \ {id},
                   id |-> id, found |-> remote[req[r].items[id].ref]])
    /\ UNCHANGED <<remote, rec, mutex, restored, crossed, events>>

\* A creation, the discovery of a source, or a look-up fails otherwise than with
\* not found: what it was for is left for the next synchronisation.
Skip(r) ==
    /\ At(r, "look") \/ (At(r, "create") /\ req[r].kind = "sync")
    /\ Event
    /\ \E some \in SUBSET req[r].left :
          some # {} /\ Goto(r, [req[r] EXCEPT !.left = @ \ some])
    /\ UNCHANGED <<remote, rec, mutex, restored, crossed>>

Written(r, record) ==
    /\ rec' = [rec EXCEPT ![req[r].id] = record]
    /\ Goto(r, [pc |-> "look", items |-> req[r].items, left |-> req[r].left])
    /\ UNCHANGED <<remote, mutex, restored, crossed, events>>

WriteWhole(r) == \* variant: archived_at is written back with the rest
    /\ At(r, "write")
    /\ LET id == req[r].id IN
       Written(r, IF req[r].found = Gone THEN [rec[id] EXCEPT !.archived = TRUE]
                  ELSE [req[r].items[id] EXCEPT !.version = req[r].found])

WriteNothingGone(r) == \* variant: a secret that is gone keeps its record
    /\ At(r, "write")
    /\ LET id == req[r].id IN
       Written(r, IF req[r].found = Gone THEN rec[id]
                  ELSE [req[r].items[id] EXCEPT !.version = req[r].found,
                            !.archived = rec[id].archived])

\* repo.Archive, or repo.Update with everything as it was listed and the
\* metadata as it was found; neither looks at archived_at.
Write(r) ==
    /\ At(r, "write")
    /\ LET id == req[r].id IN
       Written(r, IF req[r].found = Gone THEN [rec[id] EXCEPT !.archived = TRUE]
                  ELSE [req[r].items[id] EXCEPT !.version = req[r].found,
                            !.archived = rec[id].archived])

EndSync(r) ==
    /\ At(r, "look") /\ req[r].left = {}
    /\ Leave(r)
    /\ UNCHANGED <<remote, rec, restored, crossed, events>>

\* The listing or the whole discovery fails, a creation of an import does, or
\* the process restarts.
Stop(r) ==
    /\ req[r].pc \notin {"idle", "edit"}
    /\ Event
    /\ Leave(r)
    /\ UNCHANGED <<remote, rec, restored, crossed>>

----------------------------------------------------------------------------
(* People                                                                  *)

BeginEdit(r, id, note) ==
    /\ At(r, "idle")
    /\ crossed' = (crossed \/ Synchronising)
    /\ Live(id)
    /\ Event
    /\ Goto(r, [pc |-> "edit", id |-> id, seen |-> rec[id], note |-> note])
    /\ UNCHANGED <<remote, rec, mutex, restored>>

\* Update: preserveManagedFields puts back the metadata that was read.
WriteEdit(r) ==
    /\ At(r, "edit")
    /\ rec' = [rec EXCEPT ![req[r].id] =
           [@ EXCEPT !.note = req[r].note, !.version = req[r].seen.version]]
    /\ Goto(r, Idle)
    /\ UNCHANGED <<remote, mutex, restored, crossed, events>>

Archive(id) ==
    /\ Live(id)
    /\ Event
    /\ rec' = [rec EXCEPT ![id].archived = TRUE]
    /\ restored' = restored \ {id}
    /\ UNCHANGED <<remote, mutex, req, crossed>>

Restore(id) ==
    /\ rec[id] # NoRecord /\ rec[id].archived
    /\ Event
    /\ rec' = [rec EXCEPT ![id].archived = FALSE]
    /\ restored' = restored \cup {id}
    /\ UNCHANGED <<remote, mutex, req, crossed>>

\* A secret is created, rotated, deleted or recovered in the vault.
Change(f, version) ==
    /\ remote[f] # version
    /\ Event
    /\ remote' = [remote EXCEPT ![f] = version]
    /\ UNCHANGED <<rec, mutex, req, restored, crossed>>

----------------------------------------------------------------------------
Step(r) ==
    \/ List(r) \/ Discover(r) \/ Create(r) \/ EndCreate(r)
    \/ Look(r) \/ Write(r) \/ EndSync(r) \/ WriteEdit(r)

Next ==
    \/ \E r \in Requests :
          \/ SyncKeyVault(r)
          \/ \E chosen \in SUBSET Refs : ImportKeyVaultSecrets(r, chosen)
          \/ Step(r)
          \/ Skip(r)
          \/ Stop(r)
          \/ \E id \in Ids, note \in Notes : BeginEdit(r, id, note)
    \/ \E id \in Ids : Archive(id) \/ Restore(id)
    \/ \E f \in Refs, version \in Found : Change(f, version)

Spec == Init /\ [][Next]_vars

\* Requests go on, and on every replica the ticker starts another run of a source
\* that has synchronisation and automatic import switched on.
FairSpec ==
    /\ Spec
    /\ \A r \in Requests : WF_vars(Step(r))
    /\ \A p \in Replicas : WF_vars(\E r \in Requests : RunsOn[r] = p /\ SyncKeyVault(r))

----------------------------------------------------------------------------
(* Properties                                                              *)

TypeOK ==
    /\ remote \in [Refs -> Found]
    /\ rec \in Listing
    /\ mutex \in [Replicas -> Requests \cup {Nobody}]
    /\ req \in [Requests -> Request]
    /\ restored \subseteq Ids
    /\ crossed \in BOOLEAN
    /\ events \in 0 .. MaxEvents

\* A secret has two live records only where a person brought one of them back,
\* whichever path imported it and whatever was archived meanwhile
\* (ImportKeyVaultSecrets, SyncKeyVault).
OneLiveRecordPerSecret ==
    \A a, b \in Ids :
        a # b /\ Live(a) /\ Live(b) /\ rec[a].ref = rec[b].ref
            => restored \cap {a, b} # {}

\* A synchronisation changes nothing that people write, as long as no edit falls
\* into one.
NotesAreThePeoples ==
    [][~crossed => \A id \in Ids :
          rec[id] # NoRecord /\ rec'[id].note # rec[id].note
              => \E r \in Requests : WriteEdit(r)]_vars

\* What somebody archived while a synchronisation had it listed stays archived.
OnlyPeopleRestore ==
    [][\A id \in Ids : rec[id] # NoRecord /\ rec[id].archived /\ ~rec'[id].archived
          => Restore(id)]_vars

\* Synchronisation takes nothing from the people.
PeopleDecide == NotesAreThePeoples /\ OnlyPeopleRestore

\* When the vault and the people come to rest, every live record has the
\* metadata of a secret that exists, and every secret has a live record.
RecordsConverge ==
    <>[](/\ \A id \in Ids : Live(id) => rec[id].version = remote[rec[id].ref]
         /\ \A f \in Refs : remote[f] # Gone =>
               \E id \in Ids : Live(id) /\ rec[id].ref = f)
=============================================================================
