------------------------------ MODULE Resource ------------------------------
(***************************************************************************)
(* One stored password and its secret (backend/internal/resources:         *)
(* service.go, reveal.go, validate.go, authz.go, repository.go).           *)
(*                                                                         *)
(* A request reads the row, decides by what it read, and later overwrites  *)
(* the row without looking again: nothing in the row is versioned.  A      *)
(* shared secret is sealed with the workspace's key, a personal one to the *)
(* vault of its owner, and a blank secret in an edit stands for the one    *)
(* the request read.  The start-up migration reseals rows of older         *)
(* formats.  Envelopes are equal when they hold the same word in the same  *)
(* way; a request never types the word it read, so a fresh seal differs    *)
(* from the one it replaces.  Rewrapping a key under another provider      *)
(* changes nothing that is modelled.                                       *)
(***************************************************************************)
EXTENDS Naturals

CONSTANTS
    Users,        \* active accounts that may create passwords
    Admins,       \* those of them that are administrators
    Editors,      \* those that hold the category's edit right
    Texts,        \* what can be typed as a password
    Padding,      \* whether a typed password may begin or end with a space
    Requests,     \* request slots
    UpgradeAlone, \* the migration runs while no request is in flight
    NoRow, NoUser, NoWord

VARIABLES
    row,      \* the rows of resources and resource_secrets
    vaults,   \* users that have a vault keypair
    req,      \* requests between their read and their write
    upgrade,  \* what the start-up migration has read of the row
    calm,     \* history: requests have come one after another so far
    strayed   \* history: a personal envelope in an external record was left to a new owner

vars == <<row, vaults, req, upgrade, calm, strayed>>

----------------------------------------------------------------------------
Words == [text : Texts, padded : BOOLEAN]
Typed == {w \in Words : w.padded \in Padding}
Blank == NoWord

NoValue == [class |-> "none", to |-> NoUser, word |-> NoWord]
Value == {NoValue}
            \cup [class : {"plain", "v1", "shared"}, to : {NoUser}, word : Words]
            \cup [class : {"personal"}, to : Users, word : Words]

Row == [owner : Users, personal : BOOLEAN, archived : BOOLEAN,
        mode : {"inline", "external"}, value : Value]
Input == [personal : BOOLEAN, owner : Users \cup {NoUser},
          mode : {"inline", "external"}, secret : Words \cup {Blank}]

Idle == [pc |-> "idle"]
Request ==
    {Idle}
    \cup [pc : {"update"}, by : Users, seen : Row, input : Input]
    \cup [pc : {"remove", "restore"}, by : Users, seen : Row]

ASSUME PeopleAssumption == Admins \subseteq Users /\ Editors \subseteq Users
ASSUME SetupAssumption ==
    /\ Padding \subseteq BOOLEAN
    /\ UpgradeAlone \in BOOLEAN
ASSUME NonesAssumption == NoRow \notin Row /\ NoUser \notin Users /\ NoWord \notin Words

NobodyIn(pcs) == \A r \in Requests : req[r].pc \notin pcs
Present == row # NoRow /\ ~row.archived

----------------------------------------------------------------------------
(* Sealing *)

\* strings.TrimSpace of what was typed
Trim(word) == [word EXCEPT !.padded = FALSE]

\* The envelopes that encryptForScope can return: none when a personal secret's
\* owner has no vault.
Seal(input, word) ==
    IF ~input.personal
    THEN {[class |-> "shared", to |-> NoUser, word |-> word]}
    ELSE {[class |-> "personal", to |-> u, word |-> word] :
              u \in vaults \cap {input.owner}}

\* Variant: the stored envelope is kept whatever its scope.
KeepAsItIs(u, value, input) ==
    IF value.class \in {"none", "plain"} THEN Seal(input, value.word) ELSE {value}

\* Variant: validateInput has no inline rule.
KeepNothing(u, value, input) ==
    CASE value.class = "personal" /\ ~input.personal /\ value.to # u -> {}
      [] value.class = "none" -> {value}
      [] OTHER -> Seal(input, value.word)

\* The stored secret, kept by an edit that leaves it blank: resealed when the
\* scope no longer fits its envelope, which takes the owner's key when the
\* envelope is personal.
Keep(u, value, input) ==
    CASE value.class = "none" -> {}
      [] value.class = "plain" -> Seal(input, value.word)
      [] value.class \in {"v1", "shared"} ->
            IF input.personal THEN Seal(input, value.word) ELSE {value}
      [] value.class = "personal" ->
            IF input.personal THEN {value}
            ELSE IF value.to = u THEN Seal(input, value.word) ELSE {}

\* normalizeInput, preserveExistingSecret, prepareSecretForStorage and the
\* inline rule of validateInput: the values a request may store.  NoValue leaves
\* the column as it is.
Prepared(u, value, input) ==
    CASE input.mode # "inline" -> {NoValue}
      [] input.mode = "inline" /\ input.secret = Blank -> Keep(u, value, input)
      [] OTHER -> Seal(input, Trim(input.secret))

----------------------------------------------------------------------------
(* Who may do what *)

\* Variant: administrators are not kept from personal resources.
CanUpdateAny(u, seen) == u \in Admins \/ seen.owner = u \/ u \in Editors

CanUpdate(u, seen) ==
    IF seen.personal THEN seen.owner = u
    ELSE u \in Admins \/ seen.owner = u \/ u \in Editors

CanArchive(u, seen) ==
    seen.owner = u \/ (~seen.personal /\ u \in Admins)

MayPersonalise(u, seen, input) ==
    input.personal /\ ~seen.personal => seen.owner = u

IsSharedMetadataEditor(u, seen) ==
    u \notin Admins /\ ~seen.personal /\ seen.owner # u

\* Variant: a blank owner is not replaced by the stored one.
OwnerAsAsked(u, seen, input) ==
    IF input.personal THEN u ELSE input.owner

\* The owner the row will have.
OwnerOf(u, seen, input) ==
    CASE seen.personal /\ input.personal -> seen.owner
      [] ~seen.personal /\ input.personal -> u
      [] OTHER -> IF u \in Admins /\ input.owner # NoUser
                  THEN input.owner ELSE seen.owner

\* restrictToSharedMetadata and the ownership rules applied to the request.
Effective(u, seen, input) ==
    IF IsSharedMetadataEditor(u, seen)
    THEN [personal |-> FALSE, owner |-> seen.owner,
          mode |-> seen.mode, secret |-> Blank]
    ELSE [input EXCEPT !.owner = OwnerOf(u, seen, input)]

----------------------------------------------------------------------------
(* Requests *)

Begin(r, request) ==
    /\ req[r] = Idle
    /\ req' = [req EXCEPT ![r] = request]
    /\ UNCHANGED <<row, vaults, upgrade>>

End(r) == req' = [req EXCEPT ![r] = Idle]

\* A request refused, failed or abandoned before it wrote.
Abort(r) ==
    /\ req[r] # Idle
    /\ End(r)
    /\ UNCHANGED <<row, vaults, upgrade>>

\* A new resource has an id that no request has read.
CreatedOwner(u, input) ==
    IF u \in Admins /\ input.owner # NoUser /\ ~input.personal
    THEN input.owner ELSE u

Create(u, input) ==
    LET owned == [input EXCEPT !.owner = CreatedOwner(u, input)]
    IN  /\ row = NoRow
        /\ NobodyIn({"update", "remove", "restore"})
        /\ upgrade = NoRow
        /\ \E value \in Prepared(u, NoValue, owned) :
              row' = [owner |-> owned.owner, personal |-> input.personal,
                      archived |-> FALSE, mode |-> input.mode, value |-> value]
        /\ UNCHANGED <<vaults, req, upgrade>>

BeginUpdate(r, u, input) ==
    /\ Present
    /\ CanUpdate(u, row)
    /\ MayPersonalise(u, row, input)
    /\ input.secret # row.value.word \/ input.secret = Blank
    /\ Begin(r, [pc |-> "update", by |-> u, seen |-> row, input |-> input])

\* Variant: a blank overwrites the secret column too.
OverwriteAll(input, value) ==
    IF row = NoRow THEN NoRow
    ELSE [row EXCEPT !.owner = input.owner, !.personal = input.personal,
                     !.mode = input.mode, !.value = value]

\* repo.Update: both tables by id, archived or not; no row, no effect.
Overwrite(input, value) ==
    IF row = NoRow THEN NoRow
    ELSE [row EXCEPT !.owner = input.owner, !.personal = input.personal,
                     !.mode = input.mode,
                     !.value = IF value = NoValue THEN @ ELSE value]

WriteUpdate(r) ==
    /\ req[r].pc = "update"
    /\ LET u == req[r].by
           input == Effective(u, req[r].seen, req[r].input)
       IN  \E value \in Prepared(u, req[r].seen.value, input) :
              row' = Overwrite(input, value)
    /\ End(r)
    /\ UNCHANGED <<vaults, upgrade>>

BeginRemove(r, u) ==
    /\ Present
    /\ CanArchive(u, row)
    /\ Begin(r, [pc |-> "remove", by |-> u, seen |-> row])

WriteRemove(r) ==
    /\ req[r].pc = "remove"
    /\ row' = IF row = NoRow \/ req[r].seen.personal THEN NoRow
              ELSE [row EXCEPT !.archived = TRUE]
    /\ End(r)
    /\ UNCHANGED <<vaults, upgrade>>

BeginRestore(r, u) ==
    /\ row # NoRow
    /\ u \in Admins
    /\ row.archived /\ ~row.personal
    /\ Begin(r, [pc |-> "restore", by |-> u, seen |-> row])

WriteRestore(r) ==
    /\ req[r].pc = "restore"
    /\ row' = IF row = NoRow THEN NoRow ELSE [row EXCEPT !.archived = FALSE]
    /\ End(r)
    /\ UNCHANGED <<vaults, upgrade>>

\* A user gets a vault; the vault module says how.
SetUpVault(u) ==
    /\ u \notin vaults
    /\ vaults' = vaults \cup {u}
    /\ UNCHANGED <<row, req, upgrade>>

----------------------------------------------------------------------------
(* UpgradeSecretEncryption, for this row *)

UpgradeRead ==
    /\ UpgradeAlone => NobodyIn({"update", "remove", "restore"})
    /\ upgrade = NoRow
    /\ row # NoRow
    /\ row.value.class \in {"plain", "v1", "shared"}
    /\ upgrade' = row
    /\ UNCHANGED <<row, vaults, req>>

\* A personal row goes to its owner's vault when there is one, any other row of
\* an older format to the workspace's key.  DecryptFully trims what it finds.
Upgraded(seen) ==
    LET word == Trim(seen.value.word)
        personal == seen.personal /\ seen.owner \in vaults
    IN  IF ~personal /\ seen.value.class = "shared" THEN seen.value
        ELSE IF personal
        THEN [class |-> "personal", to |-> seen.owner, word |-> word]
        ELSE [class |-> "shared", to |-> NoUser, word |-> word]

UpgradeWrite ==
    /\ upgrade # NoRow
    /\ row' = IF row # NoRow /\ row.value = upgrade.value
              THEN [row EXCEPT !.value = Upgraded(upgrade)] ELSE row
    /\ upgrade' = NoRow
    /\ UNCHANGED <<vaults, req>>

----------------------------------------------------------------------------
\* The rows of earlier versions: secrets in the clear, in the first format, or
\* personal ones still under the workspace's key.
LegacyRows ==
    {r \in Row : /\ ~r.archived /\ r.mode = "inline"
                 /\ r.value.class \in {"plain", "v1", "shared"}
                 /\ r.value.word \in Typed}

Init ==
    /\ row \in {NoRow} \cup LegacyRows
    /\ vaults \in SUBSET Users
    /\ req = [r \in Requests |-> Idle]
    /\ upgrade = NoRow
    /\ calm = TRUE
    /\ strayed = FALSE

Inputs == [personal : BOOLEAN, owner : Users \cup {NoUser},
           mode : {"inline", "external"}, secret : Typed \cup {Blank}]

MayStart(r) == req[r] = Idle /\ (UpgradeAlone => upgrade = NoRow)

Step ==
    \/ \E u \in Users : SetUpVault(u)
    \/ \E u \in Users, input \in Inputs : Create(u, input)
    \/ \E r \in Requests :
          \/ Abort(r)
          \/ WriteUpdate(r)
          \/ WriteRemove(r)
          \/ WriteRestore(r)
          \/ /\ MayStart(r)
             /\ \E u \in Users :
                   \/ \E input \in Inputs : BeginUpdate(r, u, input)
                   \/ BeginRemove(r, u)
                   \/ BeginRestore(r, u)
    \/ UpgradeRead
    \/ UpgradeWrite

OneAtATime == \A p, q \in Requests : req[p] # Idle /\ req[q] # Idle => p = q

\* An administrator reassigns a record in external mode (OwnerOf), which keeps the
\* envelope it had when it was inline, and in Keep a later edit to inline, with a
\* blank secret, hands it to the new owner, who cannot open it (reveal.go:115).
Stray ==
    /\ row # NoRow
    /\ row.mode = "external" /\ row.value.class = "personal"
    /\ row.value.to # row.owner

Next ==
    /\ Step
    /\ calm' = (calm /\ OneAtATime')
    /\ strayed' = (strayed \/ Stray')

Spec == Init /\ [][Next]_vars

----------------------------------------------------------------------------
TypeOK ==
    /\ row \in {NoRow} \cup Row
    /\ vaults \subseteq Users
    /\ req \in [Requests -> Request]
    /\ upgrade \in {NoRow} \cup Row
    /\ calm \in BOOLEAN
    /\ strayed \in BOOLEAN

\* A secret that is used and sealed to a vault is the secret of a personal resource
\* and that vault is its owner's, so whoever may reveal the resource can open it
\* (prepareSecretForStorage, encryptForScope), whatever requests overlap and
\* whichever modes the record goes through: each write replaces scope, owner and
\* envelope together.  The one way out is Stray: an external record that was given
\* to another owner with the envelope of the former one.
EnvelopeFitsTheScope ==
    ~strayed /\ row # NoRow /\ row.mode = "inline" /\ row.value.class = "personal" =>
        row.personal /\ row.value.to = row.owner /\ row.owner \in vaults

\* A password object in inline mode has a secret (validateInput), whatever modes
\* it went through.
InlineHasASecret ==
    row # NoRow /\ row.mode = "inline" => row.value # NoValue

\* A personal resource is never archived: the archive is an administrators'
\* view, and Restore refuses a personal row for good (service.go:275).
PersonalIsNeverArchived == row # NoRow /\ row.personal => ~row.archived

\* Whatever it was converted from, a record has a secret where its mode has one, and
\* is not where nobody may restore it.  (Who can open the secret is
\* EnvelopeFitsTheScope, with its exception.)  It holds while requests come one
\* after another: of overlapping ones, one that removes a resource it read as
\* shared archives it even when it has become personal meanwhile.
RecordIsUsable == calm => InlineHasASecret /\ PersonalIsNeverArchived

Writes(r) == WriteUpdate(r) \/ WriteRemove(r) \/ WriteRestore(r)

\* A personal resource becomes shared only by a request of its owner
\* (canUpdateResource), while requests come one after another: one that overlaps
\* another overwrites what has become personal after it read the row.
OnlyItsOwnerShares ==
    [][\A r \in Requests :
          calm /\ Writes(r) /\ row # NoRow /\ row' # NoRow /\ row.personal /\ ~row'.personal
              => req[r].by = row.owner]_vars

\* A request that leaves the secret blank leaves the stored password as it is, in
\* whichever envelope (preserveExistingSecret, reveal.go:99), while requests come
\* one after another: one that overlaps another restores what it read.
BlankKeepsTheSecret ==
    [][\A r \in Requests :
          calm /\ WriteUpdate(r) /\ row # NoRow
              /\ Effective(req[r].by, req[r].seen, req[r].input).secret = Blank
              => row'.value.word = row.value.word]_vars
=============================================================================
