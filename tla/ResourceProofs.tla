--------------------------- MODULE ResourceProofs ---------------------------
(***************************************************************************)
(* Theorems about Resource for any users, requests and passwords.          *)
(*                                                                         *)
(* The types hold of every behavior.  An envelope fits the owner and the   *)
(* scope of its row whatever requests overlap, because each write is a     *)
(* whole overwrite computed from one row that fitted: Scoped is kept of    *)
(* the row and of every row a request has read, until an external record   *)
(* leaves its envelope to a new owner (Stray).  It needs the migration not *)
(* to overlap with a request (Alone).                                      *)
(*                                                                         *)
(* What an overlap does break is proved while requests follow one another  *)
(* (calm), in both secret modes: Serial says that the row still has the    *)
(* owner and the scope a request was admitted for, and ReadsTheRow, once   *)
(* the migration runs by itself, that it is the row the request read.      *)
(***************************************************************************)
EXTENDS Resource, TLAPS

LEMMA ValueParts ==
    ASSUME NEW value \in Value
    PROVE  /\ value.class = "none" => value = NoValue
           /\ value.class # "none" => value.word \in Words
           /\ value.class \in {"none", "plain", "v1", "shared", "personal"}
  BY NonesAssumption, SMTT(30) DEF Value, NoValue, Words

LEMMA SealIn ==
    ASSUME NEW input \in Input, NEW word \in Words, NEW value \in Seal(input, word),
           vaults \subseteq Users
    PROVE  /\ value \in Value
           /\ value # NoValue
           /\ value.class = "personal" =>
                  input.personal /\ value.to = input.owner /\ value.to \in vaults
  BY DEF Seal, Value, NoValue, Input

LEMMA TrimIn ==
    ASSUME NEW word \in Words
    PROVE  Trim(word) \in Words
  BY DEF Trim, Words

LEMMA PreparedIn ==
    ASSUME NEW u \in Users, NEW old \in Value, NEW input \in Input,
           vaults \subseteq Users, NEW value \in Prepared(u, old, input)
    PROVE  /\ value \in Value
           /\ input.mode = "inline" => value # NoValue
           /\ value.class = "personal" =>
                  \/ input.personal /\ value.to = input.owner /\ value.to \in vaults
                  \/ input.personal /\ value = old
  <1>1. CASE input.mode # "inline"
    BY <1>1 DEF Prepared, Value, NoValue
  <1>2. CASE input.mode = "inline" /\ input.secret = Blank
    <2>1. value \in Keep(u, old, input)
      BY <1>2 DEF Prepared
    <2>2. value \in Seal(input, old.word) \/ (value = old /\ old.class # "none"
                 /\ (old.class = "personal" => input.personal))
      BY <2>1, ValueParts, Zenon DEF Keep
    <2>3. CASE value \in Seal(input, old.word)
      <3>1. old.class # "none"
        BY <2>1 DEF Keep
      <3> QED
        BY <2>3, <3>1, ValueParts, SealIn
    <2> QED
      BY <2>2, <2>3 DEF NoValue
  <1>3. CASE input.mode = "inline" /\ input.secret # Blank
    <2>1. value \in Seal(input, Trim(input.secret))
      BY <1>3 DEF Prepared
    <2>2. input.secret \in Words
      BY <1>3 DEF Input, Blank
    <2> QED
      BY <2>1, <2>2, TrimIn, SealIn
  <1> QED
    BY <1>1, <1>2, <1>3

LEMMA EffectiveIn ==
    ASSUME NEW u \in Users, NEW seen \in Row, NEW input \in Input
    PROVE  Effective(u, seen, input) \in [personal : BOOLEAN, owner : Users,
               mode : {"inline", "external"}, secret : Words \cup {Blank}]
  <1>1. OwnerOf(u, seen, input) \in Users
    BY Zenon DEF OwnerOf, Row, Input
  <1> QED
    BY <1>1, NonesAssumption DEF Effective, Row, Input, Blank

----------------------------------------------------------------------------
(* Types *)

LEMMA OverwriteIn ==
    ASSUME row \in {NoRow} \cup Row, NEW value \in Value,
           NEW input \in [personal : BOOLEAN, owner : Users,
                          mode : {"inline", "external"}, secret : Words \cup {Blank}]
    PROVE  Overwrite(input, value) \in {NoRow} \cup Row
  BY DEF Overwrite, Row

LEMMA TypeInit == Init => TypeOK
  <1> SUFFICES ASSUME Init PROVE TypeOK
    OBVIOUS
  <1> QED
    BY DEF Init, TypeOK, LegacyRows, Request, Idle

LEMMA InputsIn == Inputs \subseteq Input
  BY SetupAssumption DEF Inputs, Input, Typed

LEMMA CreatedIn ==
    ASSUME TypeOK, NEW u \in Users, NEW input \in Input, Create(u, input)
    PROVE  row' \in Row
  <1> DEFINE owned == [input EXCEPT !.owner = CreatedOwner(u, input)]
  <1>1. PICK value \in Prepared(u, NoValue, owned) :
            row' = [owner |-> owned.owner, personal |-> input.personal,
                    archived |-> FALSE, mode |-> input.mode, value |-> value]
    BY DEF Create
  <1>2. CreatedOwner(u, input) \in Users
    BY DEF CreatedOwner, Input
  <1>3. owned \in Input /\ owned.owner \in Users
    BY <1>2 DEF Input
  <1>4. value \in Value
    BY <1>1, <1>3, PreparedIn DEF TypeOK, Value
  <1> QED
    BY <1>1, <1>3, <1>4 DEF Row, Input

LEMMA WrittenIn ==
    ASSUME TypeOK, NEW r \in Requests, WriteUpdate(r)
    PROVE  row' \in {NoRow} \cup Row
  <1> DEFINE u == req[r].by
             seen == req[r].seen
             input == Effective(u, seen, req[r].input)
  <1>1. u \in Users /\ seen \in Row /\ req[r].input \in Input
    BY DEF TypeOK, WriteUpdate, Request, Idle
  <1>2. input \in [personal : BOOLEAN, owner : Users,
                   mode : {"inline", "external"}, secret : Words \cup {Blank}]
    BY <1>1, EffectiveIn
  <1>3. PICK value \in Prepared(u, seen.value, input) : row' = Overwrite(input, value)
    BY DEF WriteUpdate
  <1>4. value \in Value
    <2>1. input \in Input
      BY <1>2 DEF Input
    <2>2. seen.value \in Value
      BY <1>1 DEF Row
    <2> QED
      BY <1>1, <1>3, <2>1, <2>2, PreparedIn DEF TypeOK
  <1> QED
    BY <1>2, <1>3, <1>4, OverwriteIn DEF TypeOK

LEMMA UpgradedIn ==
    ASSUME vaults \subseteq Users, NEW seen \in Row, seen.value.class # "none"
    PROVE  Upgraded(seen) \in Value
  <1>1. seen.value.word \in Words
    BY ValueParts DEF Row
  <1>2. Trim(seen.value.word) \in Words
    BY <1>1, TrimIn
  <1> QED
    BY <1>2 DEF Upgraded, Value, Row

LEMMA EndIn ==
    ASSUME req \in [Requests -> Request], NEW r \in Requests, End(r)
    PROVE  req' \in [Requests -> Request]
  BY DEF End, Request

LEMMA BeginIn ==
    ASSUME req \in [Requests -> Request], NEW r \in Requests,
           NEW request \in Request, Begin(r, request)
    PROVE  /\ req' \in [Requests -> Request]
           /\ row' = row /\ vaults' = vaults /\ upgrade' = upgrade
           /\ req[r] = Idle /\ req' = [req EXCEPT ![r] = request]
  BY DEF Begin

UpgradeFits == upgrade # NoRow => upgrade.value.class \in {"plain", "v1", "shared"}

LEMMA HistoryStep ==
    ASSUME TypeOK, [Next]_vars
    PROVE  /\ calm' \in BOOLEAN /\ strayed' \in BOOLEAN
           /\ ~strayed' => ~strayed /\ (~Stray' \/ UNCHANGED vars)
           /\ calm' => calm /\ (OneAtATime' \/ UNCHANGED vars)
  <1>1. CASE Next
    <2>1. calm' = (calm /\ OneAtATime') /\ strayed' = (strayed \/ Stray')
      BY <1>1, Zenon DEF Next
    <2>2. (calm /\ OneAtATime') \in BOOLEAN
      BY Zenon DEF OneAtATime
    <2>3. (strayed \/ Stray') \in BOOLEAN
      BY Zenon DEF Stray
    <2> QED
      BY <2>1, <2>2, <2>3, Zenon
  <1>2. CASE UNCHANGED vars
    <2>1. calm' = calm /\ strayed' = strayed
      BY <1>2 DEF vars
    <2> QED
      BY <1>2, <2>1, Zenon DEF TypeOK
  <1> QED
    BY <1>1, <1>2

LEMMA TypeStep == TypeOK /\ UpgradeFits /\ [Next]_vars => TypeOK' /\ UpgradeFits'
  <1> SUFFICES ASSUME TypeOK, UpgradeFits, [Next]_vars PROVE TypeOK' /\ UpgradeFits'
    OBVIOUS
  <1>0. calm' \in BOOLEAN /\ strayed' \in BOOLEAN
    BY HistoryStep
  <1> USE <1>0 DEF UpgradeFits
  <1>1. ASSUME NEW u \in Users, SetUpVault(u) PROVE TypeOK' /\ UpgradeFits'
    BY <1>1 DEF TypeOK, SetUpVault
  <1>2. ASSUME NEW u \in Users, NEW input \in Inputs, Create(u, input)
        PROVE  TypeOK' /\ UpgradeFits'
    <2>1. row' \in Row
      BY <1>2, InputsIn, CreatedIn
    <2> QED
      BY <1>2, <2>1 DEF TypeOK, Create
  <1>3. ASSUME NEW r \in Requests, Abort(r) PROVE TypeOK' /\ UpgradeFits'
    BY <1>3, EndIn DEF TypeOK, Abort
  <1>4. ASSUME NEW r \in Requests, WriteUpdate(r) PROVE TypeOK' /\ UpgradeFits'
    <2>1. row' \in {NoRow} \cup Row
      BY <1>4, WrittenIn
    <2>2. req' \in [Requests -> Request]
      BY <1>4, EndIn DEF TypeOK, WriteUpdate
    <2> QED
      BY <1>4, <2>1, <2>2 DEF TypeOK, WriteUpdate
  <1>5. ASSUME NEW r \in Requests, WriteRemove(r) PROVE TypeOK' /\ UpgradeFits'
    <2>1. row' \in {NoRow} \cup Row
      BY <1>5 DEF TypeOK, WriteRemove, Row
    <2>2. req' \in [Requests -> Request]
      BY <1>5, EndIn DEF TypeOK, WriteRemove
    <2> QED
      BY <1>5, <2>1, <2>2 DEF TypeOK, WriteRemove
  <1>6. ASSUME NEW r \in Requests, WriteRestore(r) PROVE TypeOK' /\ UpgradeFits'
    <2>1. row' \in {NoRow} \cup Row
      BY <1>6 DEF TypeOK, WriteRestore, Row
    <2>2. req' \in [Requests -> Request]
      BY <1>6, EndIn DEF TypeOK, WriteRestore
    <2> QED
      BY <1>6, <2>1, <2>2 DEF TypeOK, WriteRestore
  <1>7. ASSUME NEW r \in Requests, NEW u \in Users, NEW input \in Inputs,
               BeginUpdate(r, u, input)
        PROVE  TypeOK' /\ UpgradeFits'
    <2>1. [pc |-> "update", by |-> u, seen |-> row, input |-> input] \in Request
      BY <1>7, InputsIn DEF TypeOK, Request, BeginUpdate, Present
    <2> QED
      BY <1>7, <2>1, BeginIn DEF TypeOK, BeginUpdate
  <1>8. ASSUME NEW r \in Requests, NEW u \in Users, BeginRemove(r, u)
        PROVE  TypeOK' /\ UpgradeFits'
    <2>1. [pc |-> "remove", by |-> u, seen |-> row] \in Request
      BY <1>8 DEF TypeOK, Request, BeginRemove, Present
    <2> QED
      BY <1>8, <2>1, BeginIn DEF TypeOK, BeginRemove
  <1>9. ASSUME NEW r \in Requests, NEW u \in Users, BeginRestore(r, u)
        PROVE  TypeOK' /\ UpgradeFits'
    <2>1. [pc |-> "restore", by |-> u, seen |-> row] \in Request
      BY <1>9 DEF TypeOK, Request, BeginRestore
    <2> QED
      BY <1>9, <2>1, BeginIn DEF TypeOK, BeginRestore
  <1>10. CASE UpgradeRead
    BY <1>10 DEF TypeOK, UpgradeRead
  <1>11. CASE UpgradeWrite
    <2>1. upgrade \in Row /\ upgrade.value.class # "none"
      BY <1>11 DEF TypeOK, UpgradeWrite
    <2>2. Upgraded(upgrade) \in Value
      BY <2>1, UpgradedIn DEF TypeOK
    <2>3. row' \in {NoRow} \cup Row
      BY <1>11, <2>2 DEF TypeOK, UpgradeWrite, Row
    <2> QED
      BY <1>11, <2>3 DEF TypeOK, UpgradeWrite
  <1>12. CASE UNCHANGED vars
    BY <1>12 DEF TypeOK, vars
  <1> QED
    BY <1>1, <1>2, <1>3, <1>4, <1>5, <1>6, <1>7, <1>8, <1>9, <1>10, <1>11, <1>12
       DEF Next, Step

\* Every row, request and migration step stays within its type.
THEOREM ResourceTypes == Spec => []TypeOK
  <1>1. Init => TypeOK /\ UpgradeFits
    BY TypeInit DEF Init, UpgradeFits
  <1> QED
    BY <1>1, TypeStep, PTL DEF Spec

----------------------------------------------------------------------------
(* Scope *)

Fits(r) ==
    r # NoRow /\ r.value.class = "personal" =>
        /\ r.value.to = r.owner /\ r.owner \in vaults
        /\ r.mode = "inline" => r.personal

\* What a request has read fitted when it read it, and still does; one that makes
\* a shared resource personal is its owner's.
SeenFits(request) ==
    request # Idle =>
        /\ Fits(request.seen)
        /\ request.pc = "update" => MayPersonalise(request.by, request.seen, request.input)

Scoped ==
    /\ Fits(row)
    /\ \A r \in Requests : SeenFits(req[r])

\* The migration by itself: what it has read is the row, and nobody else has.
Alone ==
    upgrade # NoRow =>
        /\ row = upgrade
        /\ \A r \in Requests : req[r] = Idle

ScopeInv ==
    /\ TypeOK /\ UpgradeFits /\ Alone
    /\ ~strayed => ~Stray /\ Scoped

LEMMA Known ==
    ASSUME TypeOK, NEW r \in Requests
    PROVE  /\ req[r] \in Request
           /\ req[r] = Idle <=> req[r].pc = "idle"
           /\ req[r] # Idle => req[r].by \in Users /\ req[r].seen \in Row
           /\ req[r].pc = "update" => req[r].input \in Input
           /\ NoRow \notin Row
  BY NonesAssumption DEF TypeOK, Request, Idle

LEMMA ScopeInit ==
    ASSUME Init
    PROVE  ScopeInv
  <1>1. TypeOK
    BY TypeInit
  <1> QED
    BY <1>1 DEF Init, ScopeInv, UpgradeFits, Alone, Scoped, SeenFits, Fits, Stray, LegacyRows, Idle

LEMMA AloneStep ==
    ASSUME TypeOK, Alone, [Next]_vars, UpgradeAlone = TRUE
    PROVE  Alone'
  <1>1. req \in [Requests -> Request]
    BY DEF TypeOK
  <1>2. ASSUME NobodyIn({"update", "remove", "restore"})
        PROVE  \A r \in Requests : req[r] = Idle
    BY <1>1, <1>2 DEF NobodyIn, Request, Idle
  <1>3. ASSUME upgrade = NoRow, upgrade' = upgrade PROVE Alone'
    BY <1>3 DEF Alone
  <1>4. ASSUME UNCHANGED <<row, req, upgrade>> PROVE Alone'
    BY <1>4 DEF Alone
  <1>5. ASSUME NEW u \in Users, SetUpVault(u) PROVE Alone'
    BY <1>4, <1>5 DEF SetUpVault
  <1>6. ASSUME NEW u \in Users, NEW input \in Inputs, Create(u, input) PROVE Alone'
    BY <1>3, <1>6 DEF Create
  <1>7. ASSUME NEW r \in Requests,
               Abort(r) \/ WriteUpdate(r) \/ WriteRemove(r) \/ WriteRestore(r)
        PROVE  Alone'
    <2>1. req[r] # Idle /\ upgrade' = upgrade
      BY <1>7 DEF Abort, WriteUpdate, WriteRemove, WriteRestore, Idle
    <2> QED
      BY <1>3, <2>1 DEF Alone
  <1>8. ASSUME NEW r \in Requests, NEW u \in Users, MayStart(r),
               \/ \E input \in Inputs : BeginUpdate(r, u, input)
               \/ BeginRemove(r, u)
               \/ BeginRestore(r, u)
        PROVE  Alone'
    BY <1>3, <1>8 DEF MayStart, BeginUpdate, BeginRemove, BeginRestore, Begin
  <1>9. CASE UpgradeRead
    BY <1>2, <1>9 DEF UpgradeRead, Alone
  <1>10. CASE UpgradeWrite
    BY <1>10 DEF UpgradeWrite, Alone
  <1>11. CASE UNCHANGED vars
    BY <1>4, <1>11 DEF vars
  <1> QED
    BY <1>5, <1>6, <1>7, <1>8, <1>9, <1>10, <1>11 DEF Next, Step

\* A value prepared from a row that fits, for the scope a request decides from
\* that row, fits the row it will make.
LEMMA WrittenFits ==
    ASSUME TypeOK, Scoped, NEW r \in Requests, WriteUpdate(r), ~Stray'
    PROVE  Fits(row)'
  <1> DEFINE u == req[r].by
             seen == req[r].seen
             input == Effective(u, seen, req[r].input)
  <1>1. u \in Users /\ seen \in Row /\ req[r].input \in Input
    BY Known DEF WriteUpdate, Idle
  <1>2. /\ Fits(seen) /\ Fits(row)
        /\ MayPersonalise(u, seen, req[r].input)
        /\ row # NoRow => row \in Row
        /\ NoRow \notin Row
    BY <1>1, Known DEF Scoped, SeenFits, WriteUpdate, Idle, TypeOK
  <1>3. input \in Input /\ input.owner \in Users
    BY <1>1, EffectiveIn DEF Input
  <1>4. PICK value \in Prepared(u, seen.value, input) : row' = Overwrite(input, value)
    BY DEF WriteUpdate
  <1>5. seen.value \in Value /\ vaults \subseteq Users
    BY <1>1 DEF Row, TypeOK
  <1>6. /\ value \in Value
        /\ input.mode = "inline" => value # NoValue
        /\ value.class = "personal" =>
              \/ input.personal /\ value.to = input.owner /\ value.to \in vaults
              \/ input.personal /\ value = seen.value
    BY <1>1, <1>3, <1>4, <1>5, PreparedIn
  <1>7. ASSUME value.class = "personal"
        PROVE  input.personal /\ value.to = input.owner /\ input.owner \in vaults
    <2>1. CASE value.to = input.owner /\ value.to \in vaults /\ input.personal
      BY <2>1
    <2>2. CASE input.personal /\ value = seen.value
      <3>1. seen.value.to = seen.owner /\ seen.owner \in vaults
        BY <1>1, <1>2, <1>7, <2>2 DEF Fits
      <3>2. ~IsSharedMetadataEditor(u, seen)
        BY <2>2 DEF Effective
      <3>3. input.owner = OwnerOf(u, seen, req[r].input)
            /\ req[r].input.personal = input.personal
        BY <1>1, <3>2 DEF Effective, Input
      <3>4. seen.personal \/ seen.owner = u
        BY <1>2, <2>2, <3>3 DEF MayPersonalise
      <3>5. seen.personal => input.owner = seen.owner
        BY <2>2, <3>3, Zenon DEF OwnerOf
      <3>6. CASE ~seen.personal /\ seen.owner = u
        <4>1. input.owner = u
          BY <2>2, <3>3, <3>6, Zenon DEF OwnerOf
        <4> QED
          BY <2>2, <3>1, <3>6, <4>1
      <3>7. CASE seen.personal /\ input.owner = seen.owner
        BY <2>2, <3>1, <3>7
      <3> QED
        BY <2>2, <3>1, <3>4, <3>5, <3>6, <3>7
    <2> QED
      BY <1>6, <1>7, <2>1, <2>2
  <1>8. vaults' = vaults
    BY DEF WriteUpdate
  <1>9. CASE row = NoRow
    BY <1>4, <1>9 DEF Overwrite, Fits
  <1>10. CASE row # NoRow
    <2>1. row' = [row EXCEPT !.owner = input.owner, !.personal = input.personal,
                             !.mode = input.mode,
                             !.value = IF value = NoValue THEN @ ELSE value]
      BY <1>4, <1>10 DEF Overwrite
    <2>2. /\ row'.owner = input.owner /\ row'.personal = input.personal
          /\ row'.mode = input.mode
          /\ row'.value = IF value = NoValue THEN row.value ELSE value
      BY <1>2, <1>3, <1>10, <2>1 DEF Row
    <2>3. row' # NoRow
      <3>1. row' \in Row
        BY <1>2, <1>3, <1>6, <1>10, <2>1 DEF Row, Input
      <3> QED
        BY <1>2, <3>1
    <2>4. CASE value # NoValue
      BY <1>7, <1>8, <2>2, <2>4 DEF Fits
    <2>5. CASE value = NoValue
      <3>1. input.mode = "external" /\ row'.value = row.value /\ row'.mode = "external"
        BY <1>3, <1>6, <2>2, <2>5 DEF Input
      <3>2. row'.value.class = "personal" =>
                row'.value.to = row'.owner /\ row'.value.to \in vaults
        BY <1>2, <1>10, <2>3, <3>1 DEF Fits, Stray
      <3> QED
        BY <1>8, <3>1, <3>2 DEF Fits
    <2> QED
      BY <2>4, <2>5
  <1> QED
    BY <1>9, <1>10

LEMMA CreatedFits ==
    ASSUME TypeOK, NEW u \in Users, NEW input \in Inputs, Create(u, input)
    PROVE  Fits(row)'
  <1> DEFINE owned == [input EXCEPT !.owner = CreatedOwner(u, input)]
  <1>1. input \in Input
    BY InputsIn
  <1>2. CreatedOwner(u, input) \in Users
    BY <1>1 DEF CreatedOwner, Input
  <1>3. owned \in Input /\ owned.personal = input.personal
    BY <1>1, <1>2 DEF Input
  <1>4. PICK value \in Prepared(u, NoValue, owned) :
            row' = [owner |-> owned.owner, personal |-> input.personal,
                    archived |-> FALSE, mode |-> input.mode, value |-> value]
    BY DEF Create
  <1>5. NoValue \in Value /\ vaults \subseteq Users /\ vaults' = vaults
    BY DEF Value, TypeOK, Create
  <1>6. value.class = "personal" =>
              \/ owned.personal /\ value.to = owned.owner /\ value.to \in vaults
              \/ owned.personal /\ value = NoValue
    BY <1>3, <1>4, <1>5, PreparedIn
  <1> QED
    BY <1>1, <1>3, <1>4, <1>5, <1>6 DEF Fits, NoValue

LEMMA ScopeStep ==
    ASSUME TypeOK, UpgradeFits, Alone, Scoped, [Next]_vars, ~Stray', UpgradeAlone = TRUE
    PROVE  Scoped'
  <1> DEFINE AllFit == \A r \in Requests : SeenFits(req[r])
  <1>2. /\ Fits(row) /\ AllFit /\ req \in [Requests -> Request]
        /\ row \in {NoRow} \cup Row
        /\ upgrade # NoRow => row = upgrade
    BY Zenon DEF Scoped, Alone, TypeOK
  <1>3. ASSUME NEW r \in Requests, End(r), UNCHANGED vaults
        PROVE  AllFit'
    BY <1>2, <1>3 DEF End, SeenFits, Fits, Idle
  <1>5. ASSUME NEW r \in Requests, NEW request \in Request, Begin(r, request), request.seen = row,
               request.pc = "update" => MayPersonalise(request.by, row, request.input)
        PROVE  Scoped'
    BY <1>2, <1>5 DEF Begin, Scoped, SeenFits, Fits
  <1>6. ASSUME NEW u \in Users, SetUpVault(u) PROVE Scoped'
    BY <1>2, <1>6 DEF SetUpVault, Scoped, SeenFits, Fits
  <1>7. ASSUME NEW u \in Users, NEW input \in Inputs, Create(u, input) PROVE Scoped'
    <2>1. Fits(row)'
      BY <1>7, CreatedFits
    <2>2. UNCHANGED <<vaults, req>>
      BY <1>7 DEF Create
    <2> QED
      BY <1>2, <2>1, <2>2 DEF Scoped, SeenFits, Fits
  <1>8. ASSUME NEW r \in Requests, Abort(r) PROVE Scoped'
    <2>1. AllFit'
      BY <1>3, <1>8 DEF Abort
    <2> QED
      BY <1>2, <1>8, <2>1 DEF Abort, Scoped, SeenFits, Fits
  <1>9. ASSUME NEW r \in Requests, WriteUpdate(r) PROVE Scoped'
    <2>1. Fits(row)'
      BY <1>9, WrittenFits
    <2>2. AllFit'
      BY <1>3, <1>9 DEF WriteUpdate
    <2> QED
      BY <2>1, <2>2 DEF Scoped
  <1>10. ASSUME NEW r \in Requests, WriteRemove(r) PROVE Scoped'
    <2>1. Fits(row)'
      BY <1>2, <1>10 DEF WriteRemove, Fits, TypeOK, Row
    <2>2. AllFit'
      BY <1>3, <1>10 DEF WriteRemove
    <2> QED
      BY <2>1, <2>2 DEF Scoped
  <1>11. ASSUME NEW r \in Requests, WriteRestore(r) PROVE Scoped'
    <2>1. Fits(row)'
      BY <1>2, <1>11 DEF WriteRestore, Fits, TypeOK, Row
    <2>2. AllFit'
      BY <1>3, <1>11 DEF WriteRestore
    <2> QED
      BY <2>1, <2>2 DEF Scoped
  <1>12. ASSUME NEW r \in Requests, NEW u \in Users, NEW input \in Inputs,
                BeginUpdate(r, u, input)
         PROVE  Scoped'
    <2> DEFINE request == [pc |-> "update", by |-> u, seen |-> row, input |-> input]
    <2>1. row \in Row /\ Begin(r, request)
      BY <1>2, <1>12 DEF TypeOK, BeginUpdate, Present
    <2>2. request \in Request /\ request.seen = row /\ request.by = u /\ request.input = input
          /\ MayPersonalise(u, row, input)
      BY <1>12, <2>1, InputsIn DEF Request, BeginUpdate
    <2> HIDE DEF request
    <2> QED
      BY <1>5, <1>12, <2>1, <2>2
  <1>13. ASSUME NEW r \in Requests, NEW u \in Users, BeginRemove(r, u)
         PROVE  Scoped'
    <2> DEFINE request == [pc |-> "remove", by |-> u, seen |-> row]
    <2>1. row \in Row /\ Begin(r, request)
      BY <1>2, <1>13 DEF TypeOK, BeginRemove, Present
    <2>2. request \in Request /\ request.seen = row /\ request.pc # "update"
      BY <2>1 DEF Request
    <2> HIDE DEF request
    <2> QED
      BY <1>5, <1>13, <2>1, <2>2
  <1>14. ASSUME NEW r \in Requests, NEW u \in Users, BeginRestore(r, u)
         PROVE  Scoped'
    <2> DEFINE request == [pc |-> "restore", by |-> u, seen |-> row]
    <2>1. row \in Row /\ Begin(r, request)
      BY <1>2, <1>14 DEF TypeOK, BeginRestore
    <2>2. request \in Request /\ request.seen = row /\ request.pc # "update"
      BY <2>1 DEF Request
    <2> HIDE DEF request
    <2> QED
      BY <1>5, <1>14, <2>1, <2>2
  <1>15. CASE UpgradeRead
    BY <1>2, <1>15 DEF UpgradeRead, Scoped, SeenFits, Fits
  <1>16. CASE UpgradeWrite
    <2>1. row = upgrade /\ row \in Row /\ row.value.class # "none"
      BY <1>2, <1>16, NonesAssumption DEF UpgradeWrite, UpgradeFits
    <2>2. row' = [row EXCEPT !.value = Upgraded(row)] /\ upgrade' = NoRow
          /\ UNCHANGED <<vaults, req>>
      BY <1>16, <2>1 DEF UpgradeWrite
    <2>3. Upgraded(row).class = "personal" =>
              row.personal /\ Upgraded(row).to = row.owner /\ row.owner \in vaults
      BY <2>1, <1>16 DEF Upgraded, UpgradeFits, UpgradeWrite
    <2>4. /\ row'.value = Upgraded(row) /\ row'.personal = row.personal
          /\ row'.owner = row.owner /\ row'.mode = row.mode
      BY <2>1, <2>2 DEF Row
    <2>5. Fits(row)'
      <3>1. vaults' = vaults
        BY <2>2
      <3> QED
        BY <2>1, <2>3, <2>4, <3>1, NonesAssumption DEF Fits
    <2>6. AllFit'
      BY <1>2, <2>2 DEF SeenFits, Fits
    <2> QED
      BY <2>5, <2>6 DEF Scoped
  <1>17. CASE UNCHANGED vars
    BY <1>2, <1>17 DEF vars, Scoped, SeenFits, Fits
  <1> QED
    BY <1>6, <1>7, <1>8, <1>9, <1>10, <1>11, <1>12, <1>13, <1>14, <1>15, <1>16, <1>17
       DEF Next, Step

\* While the migration runs by itself, a secret in use that is sealed to a vault is a
\* personal secret of that vault's owner, whatever requests overlap and whichever
\* modes it goes through, unless an external record was given to a new owner.
THEOREM ScopeSafe ==
    ASSUME UpgradeAlone = TRUE
    PROVE  Spec => []EnvelopeFitsTheScope
  <1>1. Init => ScopeInv
    BY ScopeInit
  <1>2. ScopeInv /\ [Next]_vars => ScopeInv'
    <2> SUFFICES ASSUME ScopeInv, [Next]_vars PROVE ScopeInv'
      OBVIOUS
    <2>1. TypeOK' /\ UpgradeFits' /\ Alone'
      BY TypeStep, AloneStep DEF ScopeInv
    <2>2. ASSUME ~strayed' PROVE ~Stray' /\ Scoped'
      <3>1. ~strayed /\ ~Stray /\ Scoped /\ ~Stray'
        <4>1. ~strayed /\ (~Stray' \/ UNCHANGED vars)
          BY <2>2, HistoryStep, Zenon DEF ScopeInv
        <4>2. ~Stray /\ Scoped
          BY <4>1, Zenon DEF ScopeInv
        <4>3. UNCHANGED vars => ~Stray'
          BY <4>2 DEF vars, Stray
        <4> QED
          BY <4>1, <4>2, <4>3
      <3> QED
        BY <3>1, ScopeStep, Zenon DEF ScopeInv
    <2> QED
      BY <2>1, <2>2, Zenon DEF ScopeInv
  <1>3. ScopeInv => EnvelopeFitsTheScope
    BY DEF ScopeInv, Scoped, Fits, EnvelopeFitsTheScope
  <1> QED
    BY <1>1, <1>2, <1>3, PTL DEF Spec

----------------------------------------------------------------------------
(* One request after another *)

\* The row still stands as the request read it, but for its secret, which the
\* migration may have resealed.
Stands(seen) ==
    /\ row # NoRow
    /\ row.owner = seen.owner
    /\ row.personal = seen.personal
    /\ row.archived = seen.archived

\* What a request was admitted for is true of the row it read.
Admitted(request) ==
    request.pc = "update" =>
        ~request.seen.archived /\ CanUpdate(request.by, request.seen)

Serial ==
    /\ InlineHasASecret
    /\ PersonalIsNeverArchived
    /\ \A r \in Requests :
          req[r] # Idle => Stands(req[r].seen) /\ Admitted(req[r])

SerialInv ==
    /\ TypeOK /\ UpgradeFits
    /\ calm => OneAtATime /\ Serial

\* What an update writes: its scope, its owner, its mode, and a secret whenever
\* that mode is the inline one.
LEMMA UpdateWrites ==
    ASSUME TypeOK, NEW r \in Requests, WriteUpdate(r), row # NoRow
    PROVE  LET input == Effective(req[r].by, req[r].seen, req[r].input)
           IN  /\ row' \in Row
               /\ row'.personal = input.personal
               /\ row'.archived = row.archived
               /\ row'.mode = input.mode
               /\ row'.mode = "inline" => row'.value # NoValue
               /\ \E value \in Prepared(req[r].by, req[r].seen.value, input) :
                     row'.value = IF value = NoValue THEN row.value ELSE value
  <1> DEFINE u == req[r].by
             seen == req[r].seen
             input == Effective(u, seen, req[r].input)
  <1>1. u \in Users /\ seen \in Row /\ req[r].input \in Input
    BY Known DEF WriteUpdate, Idle
  <1>2. input \in [personal : BOOLEAN, owner : Users,
                   mode : {"inline", "external"}, secret : Words \cup {Blank}]
    BY <1>1, EffectiveIn
  <1>3. input \in Input /\ seen.value \in Value /\ vaults \subseteq Users /\ row \in Row
    BY <1>1, <1>2 DEF Input, Row, TypeOK
  <1>4. PICK value \in Prepared(u, seen.value, input) : row' = Overwrite(input, value)
    BY DEF WriteUpdate
  <1>5. value \in Value /\ (input.mode = "inline" => value # NoValue)
    BY <1>1, <1>3, <1>4, PreparedIn
  <1> HIDE DEF input, seen, u
  <1>6. row' = [row EXCEPT !.owner = input.owner, !.personal = input.personal,
                           !.mode = input.mode,
                           !.value = IF value = NoValue THEN @ ELSE value]
    BY <1>4 DEF Overwrite
  <1>7. /\ row'.personal = input.personal /\ row'.archived = row.archived
        /\ row'.mode = input.mode
        /\ row'.value = IF value = NoValue THEN row.value ELSE value
    BY <1>3, <1>6 DEF Row
  <1>8. row' \in Row
    BY <1>2, <1>3, <1>5, <1>6 DEF Row
  <1>9. input.mode = "inline" => row'.value # NoValue
    BY <1>5, <1>7
  <1> QED
    BY <1>4, <1>7, <1>8, <1>9 DEF input, seen, u

LEMMA SerialInit ==
    ASSUME Init
    PROVE  SerialInv
  <1>1. TypeOK
    BY TypeInit
  <1> QED
    BY <1>1 DEF Init, SerialInv, Serial, OneAtATime, UpgradeFits, InlineHasASecret,
                PersonalIsNeverArchived, LegacyRows, NoValue, Idle

LEMMA SerialStep ==
    ASSUME TypeOK, UpgradeFits, Serial, OneAtATime, OneAtATime', [Next]_vars
    PROVE  Serial'
  <1> DEFINE Pending == \A r \in Requests :
                 req[r] # Idle => Stands(req[r].seen) /\ Admitted(req[r])
             Rest == InlineHasASecret /\ PersonalIsNeverArchived /\ Pending
  <1> SUFFICES Rest'
    BY Zenon DEF Serial
  <1>2. TypeOK /\ Rest /\ req \in [Requests -> Request] /\ NoRow \notin Row
    BY NonesAssumption, Zenon DEF Serial, TypeOK
  <1>3. ASSUME UNCHANGED <<row, req>> PROVE Rest'
    BY <1>2, <1>3 DEF InlineHasASecret, PersonalIsNeverArchived, Stands, Admitted, CanUpdate
  <1>4. ASSUME NEW r \in Requests, req[r] # Idle, End(r) PROVE Pending'
    BY <1>2, <1>4 DEF End, OneAtATime
  <1>5. ASSUME NEW r \in Requests, NEW request \in Request \ {Idle}, Begin(r, request),
               request.seen = row, row # NoRow, Admitted(request)
        PROVE  Rest'
    <2>1. row' = row /\ req' = [req EXCEPT ![r] = request]
      BY <1>5 DEF Begin
    <2>2. req'[r] = request
      BY <1>2, <2>1
    <2>3. Stands(request.seen)' /\ Admitted(request)
      BY <1>5, <2>1 DEF Stands
    <2>4. ASSUME NEW q \in Requests, req'[q] # Idle PROVE q = r
      BY <1>5, <2>2, <2>4 DEF OneAtATime
    <2>5. Pending'
      BY <2>2, <2>3, <2>4 DEF Admitted, Stands, CanUpdate
    <2> QED
      BY <1>2, <2>1, <2>5 DEF InlineHasASecret, PersonalIsNeverArchived
  <1>6. ASSUME NEW u \in Users, SetUpVault(u) PROVE Rest'
    BY <1>3, <1>6 DEF SetUpVault
  <1>7. ASSUME NEW u \in Users, NEW input \in Inputs, Create(u, input) PROVE Rest'
    <2> DEFINE owned == [input EXCEPT !.owner = CreatedOwner(u, input)]
    <2>1. input \in Input /\ CreatedOwner(u, input) \in Users
      BY InputsIn DEF CreatedOwner, Input
    <2>2. owned \in Input /\ owned.mode = input.mode
      BY <2>1 DEF Input
    <2>3. PICK value \in Prepared(u, NoValue, owned) :
              row' = [owner |-> owned.owner, personal |-> input.personal,
                      archived |-> FALSE, mode |-> input.mode, value |-> value]
      BY <1>7 DEF Create
    <2>4. input.mode = "inline" => value # NoValue
      <3>1. NoValue \in Value /\ vaults \subseteq Users
        BY <1>2 DEF Value, TypeOK
      <3> HIDE DEF owned
      <3> QED
        BY <2>2, <2>3, <3>1, PreparedIn
    <2>5. \A r \in Requests : req[r] = Idle
      BY <1>2, <1>7, Known DEF Create, NobodyIn, Request, Idle
    <2>6. req' = req
      BY <1>7 DEF Create
    <2>7. InlineHasASecret' /\ PersonalIsNeverArchived'
      BY <2>3, <2>4 DEF InlineHasASecret, PersonalIsNeverArchived
    <2> QED
      BY <2>5, <2>6, <2>7
  <1>8. ASSUME NEW r \in Requests, Abort(r) PROVE Rest'
    <2>1. Pending' /\ row' = row
      BY <1>4, <1>8 DEF Abort
    <2> QED
      BY <1>2, <2>1 DEF InlineHasASecret, PersonalIsNeverArchived
  <1>9. ASSUME NEW r \in Requests, WriteUpdate(r) PROVE Rest'
    <2>1. Pending'
      BY <1>4, <1>9 DEF WriteUpdate, Idle
    <2>2. row # NoRow /\ ~row.archived
      BY <1>2, <1>9 DEF WriteUpdate, Idle, Stands, Admitted
    <2>3. row'.archived = row.archived /\ (row'.mode = "inline" => row'.value # NoValue)
      BY <1>2, <1>9, <2>2, UpdateWrites
    <2> QED
      BY <2>1, <2>2, <2>3 DEF InlineHasASecret, PersonalIsNeverArchived
  <1>10. ASSUME NEW r \in Requests, WriteRemove(r) PROVE Rest'
    <2>1. Pending'
      BY <1>4, <1>10 DEF WriteRemove, Idle
    <2>2. Stands(req[r].seen)
      BY <1>2, <1>10 DEF WriteRemove, Idle
    <2>3. CASE row' = NoRow
      BY <2>1, <2>3 DEF InlineHasASecret, PersonalIsNeverArchived
    <2>4. CASE row' # NoRow
      <3>1. row' = [row EXCEPT !.archived = TRUE] /\ ~row.personal /\ row \in Row
        BY <1>2, <1>10, <2>2, <2>4 DEF WriteRemove, Stands, TypeOK
      <3>2. row'.personal = row.personal /\ row'.mode = row.mode /\ row'.value = row.value
        BY <3>1 DEF Row
      <3> QED
        BY <1>2, <2>1, <2>2, <3>1, <3>2
           DEF InlineHasASecret, PersonalIsNeverArchived, Stands
    <2> QED
      BY <2>3, <2>4
  <1>11. ASSUME NEW r \in Requests, WriteRestore(r) PROVE Rest'
    <2>1. Pending'
      BY <1>4, <1>11 DEF WriteRestore, Idle
    <2>2. row # NoRow /\ row \in Row /\ row' = [row EXCEPT !.archived = FALSE]
      BY <1>2, <1>11 DEF WriteRestore, Idle, Stands, TypeOK
    <2>3. ~row'.archived /\ row'.mode = row.mode /\ row'.value = row.value
      BY <2>2 DEF Row
    <2> QED
      BY <1>2, <2>1, <2>2, <2>3 DEF InlineHasASecret, PersonalIsNeverArchived
  <1>12. ASSUME NEW r \in Requests, NEW u \in Users, NEW input \in Inputs,
                BeginUpdate(r, u, input)
         PROVE  Rest'
    <2> DEFINE request == [pc |-> "update", by |-> u, seen |-> row, input |-> input]
    <2>1. row \in Row /\ row # NoRow /\ Begin(r, request)
      BY <1>2, <1>12 DEF TypeOK, BeginUpdate, Present
    <2>2. request \in Request \ {Idle} /\ request.seen = row
      BY <2>1, InputsIn DEF Request, Idle
    <2>3. Admitted(request)
      BY <1>12 DEF Admitted, BeginUpdate, Present
    <2> HIDE DEF request
    <2> QED
      BY <1>5, <2>1, <2>2, <2>3
  <1>13. ASSUME NEW r \in Requests, NEW u \in Users, BeginRemove(r, u) PROVE Rest'
    <2> DEFINE request == [pc |-> "remove", by |-> u, seen |-> row]
    <2>1. row \in Row /\ row # NoRow /\ Begin(r, request)
      BY <1>2, <1>13 DEF TypeOK, BeginRemove, Present
    <2>2. request \in Request \ {Idle} /\ request.seen = row /\ Admitted(request)
      BY <2>1 DEF Request, Admitted, Idle
    <2> HIDE DEF request
    <2> QED
      BY <1>5, <2>1, <2>2
  <1>14. ASSUME NEW r \in Requests, NEW u \in Users, BeginRestore(r, u) PROVE Rest'
    <2> DEFINE request == [pc |-> "restore", by |-> u, seen |-> row]
    <2>1. row \in Row /\ row # NoRow /\ Begin(r, request)
      BY <1>2, <1>14 DEF TypeOK, BeginRestore
    <2>2. request \in Request \ {Idle} /\ request.seen = row /\ Admitted(request)
      BY <2>1 DEF Request, Admitted, Idle
    <2> HIDE DEF request
    <2> QED
      BY <1>5, <2>1, <2>2
  <1>15. CASE UpgradeRead
    BY <1>3, <1>15 DEF UpgradeRead
  <1>16. CASE UpgradeWrite
    <2>1. CASE row' = row
      BY <1>3, <1>16, <2>1 DEF UpgradeWrite
    <2>2. CASE row' # row
      <3>1. row # NoRow /\ row \in Row /\ row' = [row EXCEPT !.value = Upgraded(upgrade)]
            /\ req' = req
        BY <1>2, <1>16, <2>2 DEF UpgradeWrite, TypeOK
      <3>2. /\ row'.owner = row.owner /\ row'.personal = row.personal
            /\ row'.archived = row.archived /\ row'.mode = row.mode
            /\ row'.value = Upgraded(upgrade)
        BY <3>1 DEF Row
      <3>3. Upgraded(upgrade) # NoValue
        BY <1>16 DEF Upgraded, NoValue, UpgradeWrite, UpgradeFits
      <3>4. row' # NoRow
        <4>1. upgrade \in Row /\ upgrade.value.class # "none" /\ vaults \subseteq Users
          BY <1>2, <1>16 DEF TypeOK, UpgradeWrite, UpgradeFits
        <4>2. Upgraded(upgrade) \in Value
          BY <4>1, UpgradedIn
        <4>3. row' \in Row
          BY <3>1, <4>2 DEF Row
        <4> QED
          BY <4>3, NonesAssumption
      <3>5. InlineHasASecret' /\ PersonalIsNeverArchived'
        BY <1>2, <3>1, <3>2, <3>3 DEF InlineHasASecret, PersonalIsNeverArchived
      <3>6. Pending'
        BY <1>2, <3>1, <3>2, <3>4 DEF Stands, Admitted, CanUpdate
      <3> QED
        BY <3>5, <3>6
    <2> QED
      BY <2>1, <2>2
  <1>17. CASE UNCHANGED vars
    BY <1>3, <1>17 DEF vars
  <1> QED
    BY <1>6, <1>7, <1>8, <1>9, <1>10, <1>11, <1>12, <1>13, <1>14, <1>15, <1>16, <1>17
       DEF Next, Step

LEMMA SerialInvStep ==
    ASSUME SerialInv, [Next]_vars
    PROVE  SerialInv'
  <1>1. TypeOK' /\ UpgradeFits'
    BY TypeStep DEF SerialInv
  <1>2. ASSUME calm' PROVE OneAtATime' /\ Serial'
    <2>1. calm /\ (OneAtATime' \/ UNCHANGED vars)
      BY <1>2, HistoryStep, Zenon DEF SerialInv
    <2>2. OneAtATime /\ Serial
      BY <2>1, Zenon DEF SerialInv
    <2>3. UNCHANGED vars => OneAtATime'
      BY <2>2 DEF vars, OneAtATime
    <2> QED
      BY <2>1, <2>2, <2>3, SerialStep, Zenon DEF SerialInv
  <1> QED
    BY <1>1, <1>2, Zenon DEF SerialInv

\* While requests follow one another, no chain of conversions between scopes and
\* secret modes ends in a record without its secret, or in one that nobody may
\* restore.
THEOREM RecordStaysUsable == Spec => []RecordIsUsable
  <1>1. Init => SerialInv
    BY SerialInit
  <1>2. SerialInv /\ [Next]_vars => SerialInv'
    BY SerialInvStep
  <1>3. SerialInv => RecordIsUsable
    BY Zenon DEF SerialInv, Serial, RecordIsUsable
  <1> QED
    BY <1>1, <1>2, <1>3, PTL DEF Spec

OwnerShares ==
    \A r \in Requests :
        calm /\ Writes(r) /\ row # NoRow /\ row' # NoRow /\ row.personal /\ ~row'.personal
            => req[r].by = row.owner

LEMMA OwnerSharesStep ==
    ASSUME SerialInv
    PROVE  OwnerShares
  <1> SUFFICES ASSUME NEW r \in Requests, calm, Writes(r), row # NoRow, row' # NoRow,
                      row.personal, ~row'.personal
               PROVE  req[r].by = row.owner
    BY DEF OwnerShares
  <1>1. TypeOK /\ row \in Row /\ Serial
    BY DEF SerialInv, TypeOK
  <1>2. CASE WriteUpdate(r)
    <2>1. Stands(req[r].seen) /\ Admitted(req[r])
      BY <1>1, <1>2 DEF WriteUpdate, Idle, Serial
    <2> QED
      BY <1>2, <2>1 DEF Stands, Admitted, CanUpdate, WriteUpdate
  <1>3. CASE WriteRemove(r)
    BY <1>1, <1>3 DEF WriteRemove, Row
  <1>4. CASE WriteRestore(r)
    BY <1>1, <1>4 DEF WriteRestore, Row
  <1> QED
    BY <1>2, <1>3, <1>4 DEF Writes

\* While requests follow one another, a personal password becomes shared only at
\* its owner's request, whoever holds the administrator's or the editor's right.
THEOREM OwnersShare == Spec => OnlyItsOwnerShares
  <1>1. Init => SerialInv
    BY SerialInit
  <1>2. SerialInv /\ [Next]_vars => SerialInv'
    BY SerialInvStep
  <1>3. SerialInv => OwnerShares
    BY OwnerSharesStep
  <1>4. Spec => [][OwnerShares]_vars
    BY <1>1, <1>2, <1>3, PTL DEF Spec
  <1> QED
    BY <1>4 DEF OwnerShares, OnlyItsOwnerShares

\* With the migration by itself, what a request read is the row, secret and all.
ReadsTheRow ==
    \A r \in Requests : req[r] # Idle => row # NoRow /\ req[r].seen = row

LEMMA ReadsTheRowStep ==
    ASSUME TypeOK, Alone, ReadsTheRow, OneAtATime, OneAtATime', [Next]_vars
    PROVE  ReadsTheRow'
  <1>1. req \in [Requests -> Request]
    BY DEF TypeOK
  <1>2. ASSUME NEW r \in Requests, req[r] # Idle, End(r) PROVE ReadsTheRow'
    BY <1>1, <1>2 DEF End, OneAtATime, ReadsTheRow
  <1>3. ASSUME NEW r \in Requests, NEW request, request # Idle, Begin(r, request),
               request.seen = row, row # NoRow
        PROVE  ReadsTheRow'
    <2>1. req'[r] = request /\ row' = row
      BY <1>1, <1>3 DEF Begin
    <2>2. ASSUME NEW q \in Requests, req'[q] # Idle PROVE q = r
      BY <1>3, <2>1, <2>2 DEF OneAtATime
    <2> QED
      BY <1>3, <2>1, <2>2 DEF ReadsTheRow
  <1>4. ASSUME \A r \in Requests : req[r] = Idle, req' = req PROVE ReadsTheRow'
    BY <1>4 DEF ReadsTheRow
  <1>5. ASSUME NobodyIn({"update", "remove", "restore"})
        PROVE  \A r \in Requests : req[r] = Idle
    BY <1>1, <1>5 DEF NobodyIn, Request, Idle
  <1>6. ASSUME UNCHANGED <<row, req>> PROVE ReadsTheRow'
    BY <1>6 DEF ReadsTheRow
  <1>7. ASSUME NEW u \in Users, SetUpVault(u) PROVE ReadsTheRow'
    BY <1>6, <1>7 DEF SetUpVault
  <1>8. ASSUME NEW u \in Users, NEW input \in Inputs, Create(u, input) PROVE ReadsTheRow'
    BY <1>4, <1>5, <1>8 DEF Create
  <1>9. ASSUME NEW r \in Requests,
               Abort(r) \/ WriteUpdate(r) \/ WriteRemove(r) \/ WriteRestore(r)
        PROVE  ReadsTheRow'
    BY <1>2, <1>9 DEF Abort, WriteUpdate, WriteRemove, WriteRestore, Idle
  <1>10. ASSUME NEW r \in Requests, NEW u \in Users, NEW input \in Inputs,
                BeginUpdate(r, u, input)
         PROVE  ReadsTheRow'
    <2> DEFINE request == [pc |-> "update", by |-> u, seen |-> row, input |-> input]
    <2>1. row # NoRow /\ Begin(r, request) /\ request.seen = row
          /\ request # Idle
      BY <1>10 DEF BeginUpdate, Present, Idle
    <2> HIDE DEF request
    <2> QED
      BY <1>3, <1>10, <2>1
  <1>11. ASSUME NEW r \in Requests, NEW u \in Users, BeginRemove(r, u)
         PROVE  ReadsTheRow'
    <2> DEFINE request == [pc |-> "remove", by |-> u, seen |-> row]
    <2>1. row # NoRow /\ Begin(r, request) /\ request.seen = row
          /\ request # Idle
      BY <1>11 DEF BeginRemove, Present, Idle
    <2> HIDE DEF request
    <2> QED
      BY <1>3, <1>11, <2>1
  <1>12. ASSUME NEW r \in Requests, NEW u \in Users, BeginRestore(r, u)
         PROVE  ReadsTheRow'
    <2> DEFINE request == [pc |-> "restore", by |-> u, seen |-> row]
    <2>1. row # NoRow /\ Begin(r, request) /\ request.seen = row
          /\ request # Idle
      BY <1>12 DEF BeginRestore, Idle
    <2> HIDE DEF request
    <2> QED
      BY <1>3, <1>12, <2>1
  <1>13. CASE UpgradeRead
    BY <1>6, <1>5, <1>13 DEF UpgradeRead, ReadsTheRow
  <1>14. CASE UpgradeWrite
    BY <1>4, <1>14 DEF UpgradeWrite, Alone
  <1>15. CASE UNCHANGED vars
    BY <1>6, <1>15 DEF vars
  <1> QED
    BY <1>7, <1>8, <1>9, <1>10, <1>11, <1>12, <1>13, <1>14, <1>15 DEF Next, Step

\* Resealed or not, a kept secret is the same password.
LEMMA KeepKeepsTheWord ==
    ASSUME NEW u, NEW old \in Value, NEW input, NEW value \in Keep(u, old, input)
    PROVE  value.word = old.word
  <1>1. value \in Seal(input, old.word) \/ value = old
    BY ValueParts, Zenon DEF Keep
  <1>2. ASSUME value \in Seal(input, old.word) PROVE value.word = old.word
    BY <1>2 DEF Seal
  <1> QED
    BY <1>1, <1>2

BlankKeeps ==
    \A r \in Requests :
        calm /\ WriteUpdate(r) /\ row # NoRow
            /\ Effective(req[r].by, req[r].seen, req[r].input).secret = Blank
            => row'.value.word = row.value.word

LEMMA BlankKeepsStep ==
    ASSUME TypeOK, calm => ReadsTheRow
    PROVE  BlankKeeps
  <1> SUFFICES ASSUME NEW r \in Requests, calm, WriteUpdate(r), row # NoRow,
                      Effective(req[r].by, req[r].seen, req[r].input).secret = Blank
               PROVE  row'.value.word = row.value.word
    BY DEF BlankKeeps
  <1> DEFINE input == Effective(req[r].by, req[r].seen, req[r].input)
  <1>1. req[r].seen = row
    BY DEF WriteUpdate, Idle, ReadsTheRow
  <1>2. PICK value \in Prepared(req[r].by, req[r].seen.value, input) :
            row'.value = IF value = NoValue THEN row.value ELSE value
    BY UpdateWrites
  <1>3. value = NoValue \/ value \in Keep(req[r].by, row.value, input)
    <2> HIDE DEF input
    <2>1. input.secret = Blank
      BY DEF input
    <2> QED
      BY <1>1, <1>2, <2>1, Zenon DEF Prepared
  <1>4. row.value \in Value
    BY DEF TypeOK, Row
  <1> QED
    BY <1>2, <1>3, <1>4, KeepKeepsTheWord

\* While requests follow one another and the migration runs by itself, an edit
\* that leaves the secret blank keeps the stored password, even where it reseals
\* it for another scope.
THEOREM BlankKeepsIt ==
    ASSUME UpgradeAlone = TRUE
    PROVE  Spec => BlankKeepsTheSecret
  <1> DEFINE Inv == SerialInv /\ Alone /\ (calm => ReadsTheRow)
  <1>1. Init => Inv
    BY SerialInit DEF Init, ReadsTheRow, Alone
  <1>2. Inv /\ [Next]_vars => Inv'
    <2> SUFFICES ASSUME Inv, [Next]_vars PROVE Inv'
      OBVIOUS
    <2>1. TypeOK /\ SerialInv' /\ Alone'
      BY SerialInvStep, AloneStep DEF SerialInv
    <2>2. ASSUME calm' PROVE ReadsTheRow'
      <3>1. calm /\ OneAtATime /\ ReadsTheRow
        BY <2>1, <2>2, HistoryStep, Zenon DEF SerialInv
      <3>2. OneAtATime'
        BY <2>1, <2>2, Zenon DEF SerialInv
      <3> QED
        BY <2>1, <3>1, <3>2, ReadsTheRowStep, Zenon
    <2> QED
      BY <2>1, <2>2, Zenon
  <1>3. Inv => BlankKeeps
    BY BlankKeepsStep DEF SerialInv
  <1>4. Spec => [][BlankKeeps]_vars
    BY <1>1, <1>2, <1>3, PTL DEF Spec
  <1> QED
    BY <1>4 DEF BlankKeeps, BlankKeepsTheSecret
=============================================================================
