--------------------------- MODULE SettingsProofs ---------------------------
(***************************************************************************)
(* Proofs about Settings, for any replicas, providers, requests, desktops  *)
(* and bounds.                                                             *)
(***************************************************************************)
EXTENDS Settings, TLAPS

USE DEF server, desktop

----------------------------------------------------------------------------
(* The operators *)

LEMMA SomeMap ==
    ASSUME NEW S, NEW T, NEW m \in Some(S, T)
    PROVE  /\ DOMAIN m \subseteq S /\ m \in [DOMAIN m -> T]
           /\ \A k \in DOMAIN m : m[k] \in T
  BY DEF Some

LEMMA AMap ==
    ASSUME NEW S, NEW T, NEW D \in SUBSET S, NEW m \in [D -> T]
    PROVE  m \in Some(S, T)
  BY DEF Some

\* What is left of such a map without one of its keys
LEMMA FewerKeys ==
    ASSUME NEW S, NEW T, NEW m \in Some(S, T), NEW k,
           NEW rest, rest = [s \in DOMAIN m \ {k} |-> m[s]]
    PROVE  /\ rest \in Some(S, T)
           /\ DOMAIN rest = DOMAIN m \ {k}
           /\ \A s \in DOMAIN rest : rest[s] = m[s]
  <1>1. rest \in [DOMAIN m \ {k} -> T]
    BY SomeMap
  <1> QED
    BY <1>1, SomeMap, AMap

LEMMA ValueFacts ==
    /\ None \in Values /\ 1 \in Values /\ 1 # None
    /\ \A c \in 0..MaxCerts : c \in Values
    /\ \A n \in 0..MaxSecrets : MaxCerts + n \in Values
    /\ Garbage \notin Values /\ Garbage # None
  BY BoundsAssumption DEF None, Values, Garbage

LEMMA StoredFacts ==
    ASSUME NEW v \in Values, NEW provider \in Providers, NEW k
    PROVE  /\ Plain(v) \in Stored /\ Seal(v, provider) \in Stored
           /\ Encrypted(k, v, provider) \in Stored
           /\ Encrypted(k, v, provider).value = v
           /\ Encrypted(k, v, provider).layers # 2
  BY DEF Plain, Seal, Encrypted, Stored, Form

LEMMA UpgradedFacts ==
    ASSUME NEW stored \in Stored, NEW provider \in Providers
    PROVE  /\ Upgraded(stored, provider) \in Stored
           /\ Upgraded(stored, provider).value = stored.value
           /\ Upgraded(stored, provider).layers = 1
  BY DEF Upgraded, DecryptFully, Seal, Stored, Form

LEMMA Readable ==
    ASSUME TypeOK, NEW k \in Keys
    PROVE  Read(k) \in Readings /\ row[k] \in Stored /\ row[k].value \in Values
  BY DEF TypeOK, Read, Readings, Stored

\* The states of a replica, a request and a desktop by their pc
LEMMA ReplicaShape ==
    ASSUME TypeOK, NEW r \in Replicas
    PROVE  /\ replica[r] \in Replica
           /\ replica[r].pc = "upgrading" =>
                /\ replica[r] \in [pc : {"upgrading"}, provider : Providers, opens : SUBSET Providers,
                                    pending : Some(Sealed, Stored)]
                /\ replica[r] # Down
           /\ replica[r].pc = "up" =>
                /\ replica[r] \in [pc : {"up"}, provider : Providers, opens : SUBSET Providers]
                /\ replica[r] # Down
           /\ replica[r].pc \notin {"upgrading", "up"} => replica[r] = Down
  BY DEF TypeOK, Replica, Down

LEMMA RequestShape ==
    ASSUME TypeOK, NEW q \in Requests, request[q] # Free
    PROVE  /\ request[q].pc \in {"generate", "update"}
           /\ request[q].pc = "generate" =>
                request[q] \in [pc : {"generate"}, replica : Replicas,
                                left : Some(Pieces \cup {"enabled"}, Values)]
           /\ request[q].pc = "update" =>
                request[q] \in [pc : {"update"}, replica : Replicas,
                                left : Some({"enabled", "secret"}, Values)]
           /\ request[q].replica \in Replicas
           /\ DOMAIN request[q].left \subseteq Keys
           /\ \A k \in DOMAIN request[q].left : request[q].left[k] \in Values
  <1>1. CASE request[q].pc = "generate"
    <2>1. request[q] \in [pc : {"generate"}, replica : Replicas,
                          left : Some(Pieces \cup {"enabled"}, Values)]
      BY <1>1 DEF TypeOK, Request, Free
    <2> QED
      BY <1>1, <2>1, SomeMap DEF Keys
  <1>2. CASE request[q].pc = "update"
    <2>1. request[q] \in [pc : {"update"}, replica : Replicas,
                          left : Some({"enabled", "secret"}, Values)]
      BY <1>2 DEF TypeOK, Request, Free
    <2> QED
      BY <1>2, <2>1, SomeMap DEF Keys
  <1>3. request[q].pc \in {"generate", "update"}
    BY DEF TypeOK, Request, Free
  <1> QED
    BY <1>1, <1>2, <1>3

LEMMA DeskShape ==
    ASSUME TypeOK, NEW d \in Desks, desk[d] # Idle
    PROVE  /\ desk[d].pc \in {"launch", "clean", "leaf", "root", "list"}
           /\ desk[d].pc = "launch" =>
                desk[d] \in [pc : {"launch"}, thumbprint : Readings, pfx : Readings]
           /\ desk[d].pc # "launch" =>
                desk[d] \in [pc : {"clean", "leaf", "root", "list"},
                             thumbprint : Readings, public : Readings]
  BY DEF TypeOK, Desk, Idle

----------------------------------------------------------------------------
(* The invariants *)

\* A request runs on a replica that is up: one that stops aborts its requests.
Served == \A q \in Requests : request[q] # Free => Up(request[q].replica)

\* What a row holds is what was last saved, in however many layers.
Held == \A k \in Sealed : row[k].value = saved[k]

\* A row in two layers is a sealed row that every replica has still before it.
Ahead(r, k) ==
    \/ replica[r] = Down
    \/ /\ replica[r].pc = "upgrading"
       /\ k \in DOMAIN replica[r].pending /\ replica[r].pending[k] = row[k]

Layered ==
    \A k \in Keys : row[k].layers = 2 =>
        /\ k \in Sealed /\ row[k].value # None
        /\ \A r \in Replicas : Ahead(r, k)

Generates(q) == request[q].pc = "generate"
Generating == \E q \in Requests : Generates(q)
OneGeneration == \A q, p \in Requests : Generates(q) /\ Generates(p) => q = p

Complete == \A p \in Pieces : row[p].value # None
Whole == \A p \in Pieces : row[p].value = row["thumbprint"].value

\* Where a generation stands: what it has written is its certificate's, and what
\* it has left is.
Progress ==
    \A q \in Requests : Generates(q) =>
        \E c \in Certs :
            \A p \in Pieces : IF p \in DOMAIN request[q].left THEN request[q].left[p] = c
                              ELSE row[p].value = c

\* Before the first cut a generation leaves its rows whole, and it finds them
\* empty unless it replaces a certificate of another subject; after one, rows are
\* mixed only while one of them is empty.
FirstCertificate ==
    cut = 0 =>
        /\ ~Generating => Whole
        /\ made.foreign = {} => \A q \in Requests : Generates(q) =>
              \A p \in Pieces \cap DOMAIN request[q].left : row[p].value = None

MixedIsIncomplete == cut <= Spare /\ ~Generating /\ Complete => Whole

\* What a desktop works with is the one certificate there is.
SeenByDesk(d) ==
    desk[d] = Idle \/
    LET c == row["thumbprint"].value
    IN  /\ Complete /\ Whole
        /\ desk[d].thumbprint = c
        /\ IF At(d, "launch") THEN desk[d].pfx = c ELSE desk[d].public = c

Stores == {"listed", "leaf", "root"}

\* What a desktop trusts is that certificate too, and in the order it is installed.
Installed ==
    /\ \A s \in Stores : trust[s] \subseteq {row["thumbprint"].value}
    /\ (\E s \in Stores : trust[s] # {}) => Complete /\ Whole
    /\ trust.listed \subseteq trust.leaf \cap trust.root
    /\ \A d \in Desks :
          /\ desk[d].pc \in {"root", "list"} => desk[d].public \in trust.leaf
          /\ At(d, "list") => desk[d].public \in trust.root

Certificate ==
    Apart => OneGeneration /\ Progress /\ FirstCertificate /\ MixedIsIncomplete

OneCertificate ==
    cut = 0 /\ made.foreign = {} /\ Apart => Installed /\ \A d \in Desks : SeenByDesk(d)

----------------------------------------------------------------------------
(* Types *)

LEMMA InitTypes == Init => TypeOK /\ Served /\ Held /\ Layered
  <1> SUFFICES ASSUME Init PROVE TypeOK /\ Served /\ Held /\ Layered
    OBVIOUS
  <1>1. PICK pfx \in Left(1), secret \in Left(MaxCerts + 1), own \in BOOLEAN :
          LET cert == pfx.value
          IN  /\ row = [k \in Keys |-> CASE k = "pfx" -> pfx
                                         [] k = "secret" -> secret
                                         [] k = "enabled" -> Plain(IF cert = None THEN 0 ELSE 1)
                                         [] OTHER -> Plain(cert)]
              /\ saved = [k \in Sealed |-> row[k].value]
              /\ made = [certs |-> cert, secrets |-> IF secret = Empty THEN 0 ELSE 1,
                         foreign |-> IF own THEN {} ELSE {cert} \ {None}]
    BY DEF Init
  <1>2. \A v \in Values \ {None} : \A x \in Left(v) :
           /\ x \in Stored /\ x.value \in {None, v}
           /\ x.layers = 2 => x.value # None
    <2> SUFFICES ASSUME NEW v \in Values \ {None}, NEW x \in Left(v)
                 PROVE  /\ x \in Stored /\ x.value \in {None, v}
                        /\ x.layers = 2 => x.value # None
      OBVIOUS
    <2>1. CASE x \in {Empty, Plain(v)}
      BY <2>1, ValueFacts DEF Empty, Plain, Stored, Form
    <2>2. CASE x = [value |-> v, form |-> "v1", layers |-> 1]
      BY <2>2 DEF Stored, Form
    <2>3. CASE x \in [value : {v}, form : Providers, layers : {1, 2}]
      BY <2>3 DEF Stored, Form
    <2> QED
      BY <2>1, <2>2, <2>3 DEF Left
  <1>3. /\ 1 \in Values \ {None} /\ MaxCerts + 1 \in Values \ {None}
        /\ 1 \in 0..MaxCerts /\ 1 \in 0..MaxSecrets /\ 0 \in 0..MaxCerts /\ 0 \in 0..MaxSecrets
    BY BoundsAssumption DEF None, Values
  <1>4. /\ pfx \in Stored /\ pfx.value \in {None, 1} /\ secret \in Stored
        /\ pfx.layers = 2 => pfx.value # None
        /\ secret.layers = 2 => secret.value # None
    BY <1>2, <1>3
  <1>5. \A v \in Values : Plain(v) \in Stored /\ Plain(v).layers # 2
    BY DEF Plain, Stored, Form
  <1>6. /\ row \in [Keys -> Stored]
        /\ row["pfx"] = pfx /\ row["secret"] = secret
        /\ \A k \in Keys \ {"pfx", "secret"} : row[k].layers # 2
    BY <1>1, <1>3, <1>4, <1>5, ValueFacts DEF Keys, Pieces
  <1>7. saved \in [Sealed -> Values] /\ \A k \in Sealed : saved[k] = row[k].value
    BY <1>1, <1>6 DEF Stored, Sealed, Keys, Pieces
  <1>8. made \in [certs : 0..MaxCerts, secrets : 0..MaxSecrets, foreign : SUBSET Certs]
    <2>1. \A v \in {None, 1} : {v} \ {None} \in SUBSET Certs
      BY BoundsAssumption DEF None, Certs
    <2>2. (IF own THEN {} ELSE {pfx.value} \ {None}) \in SUBSET Certs
      BY <1>4, <2>1
    <2> QED
      BY <1>1, <1>3, <1>4, <2>2 DEF None
  <1>9. /\ replica = [r \in Replicas |-> Down] /\ request = [q \in Requests |-> Free]
        /\ cut = 0 /\ sealers = {} /\ desk = [d \in Desks |-> Idle] /\ known = FALSE /\ keys = {}
        /\ trust = [s \in {"listed", "leaf", "root"} |-> {}]
    BY DEF Init
  <1>10. Layered
    BY <1>4, <1>6, <1>9 DEF Layered, Ahead, Sealed
  <1>11. Served /\ Held
    BY <1>7, <1>9 DEF Served, Held
  <1>12. TypeOK
    <2>1. cut \in 0..MaxCut /\ sealers \subseteq Providers
      BY <1>9, BoundsAssumption
    <2>4. known \in BOOLEAN /\ keys \subseteq Readings
      BY <1>9
    <2>2. /\ replica \in [Replicas -> Replica] /\ request \in [Requests -> Request]
          /\ desk \in [Desks -> Desk]
      BY <1>9 DEF Replica, Request, Desk
    <2>3. trust \in [{"listed", "leaf", "root"} -> SUBSET Readings]
      BY <1>9
    <2> QED
      BY <1>6, <1>7, <1>8, <2>1, <2>2, <2>3, <2>4 DEF TypeOK
  <1> QED
    BY <1>10, <1>11, <1>12

\* What UpgradeRow does to the row
LEMMA Upgrade ==
    ASSUME TypeOK, NEW r \in Replicas, replica[r].pc = "upgrading",
           NEW k \in DOMAIN replica[r].pending, UpgradeRow(r, k)
    PROVE  /\ k \in Sealed /\ replica[r].provider \in Providers
           /\ replica[r].pending[k] \in Stored
           /\ \/ row' = row /\ (row[k] = replica[r].pending[k] => row[k].layers = 1)
              \/ /\ row[k] = replica[r].pending[k]
                 /\ row' = [row EXCEPT ![k] = Upgraded(row[k], replica[r].provider)]
  <1>1. /\ k \in Sealed /\ replica[r].provider \in Providers
        /\ replica[r].pending[k] \in Stored
    BY ReplicaShape, SomeMap
  <1>2. CASE Current(replica[r].pending[k], replica[r].provider) \/ row[k] # replica[r].pending[k]
    <2>1. row' = row
      BY <1>2 DEF UpgradeRow
    <2>2. row[k] = replica[r].pending[k] => row[k].layers = 1
      BY <1>2 DEF Current
    <2> QED
      BY <1>1, <2>1, <2>2
  <1>3. CASE ~Current(replica[r].pending[k], replica[r].provider) /\ row[k] = replica[r].pending[k]
    BY <1>1, <1>3 DEF UpgradeRow
  <1> QED
    BY <1>2, <1>3

\* What it, or starting to listen, makes of the replica
LEMMA Listening ==
    ASSUME TypeOK, NEW r \in Replicas, replica[r].pc = "upgrading",
           NEW pending \in Some(Sealed, Stored)
    PROVE  /\ Listen(r, pending) \in Replica
           /\ DOMAIN pending # {} =>
                /\ Listen(r, pending).pc = "upgrading"
                /\ Listen(r, pending).pending = pending
           /\ DOMAIN pending = {} => Listen(r, pending).pc = "up"
  <1>1. replica[r] \in [pc : {"upgrading"}, provider : Providers, opens : SUBSET Providers,
                                    pending : Some(Sealed, Stored)]
    BY ReplicaShape
  <1> QED
    BY <1>1 DEF Listen, Replica

LEMMA StartingTypes ==
    ASSUME TypeOK, Starting
    PROVE  TypeOK'
  <1>1. ASSUME NEW r \in Replicas, NEW provider \in Providers, NEW opens \in Registered,
               Start(r, provider, opens)
        PROVE  replica' \in [Replicas -> Replica]
    <2> DEFINE pending == [k \in {s \in Sealed : row[s] # Empty} |-> row[k]]
    <2>1. pending \in [{s \in Sealed : row[s] # Empty} -> Stored]
      BY DEF TypeOK, Sealed, Keys, Pieces
    <2>2. pending \in Some(Sealed, Stored)
      BY <2>1, AMap
    <2> HIDE DEF pending
    <2>3. [pc |-> "upgrading", provider |-> provider, opens |-> opens, pending |-> pending]
            \in Replica
      BY <2>2 DEF Replica, Registered
    <2> QED
      BY <1>1, <2>3 DEF Start, TypeOK, pending
  <1>2. ASSUME NEW r \in Replicas, replica[r].pc = "upgrading",
               NEW k \in DOMAIN replica[r].pending, UpgradeRow(r, k)
        PROVE  replica' \in [Replicas -> Replica] /\ row' \in [Keys -> Stored]
    <2>1. Rest(r, k) \in Some(Sealed, Stored)
      BY <1>2, ReplicaShape, FewerKeys DEF Rest
    <2>2. Listen(r, Rest(r, k)) \in Replica
      BY <1>2, <2>1, Listening
    <2>3. row' \in [Keys -> Stored]
      BY <1>2, Upgrade, UpgradedFacts DEF TypeOK
    <2> QED
      BY <1>2, <2>2, <2>3 DEF UpgradeRow, TypeOK
  <1>3. ASSUME NEW r \in Replicas, ListenAtOnce(r)
        PROVE  replica' \in [Replicas -> Replica]
    <2>1. Listen(r, replica[r].pending) \in Replica
      BY <1>3, Listening, ReplicaShape DEF ListenAtOnce
    <2> QED
      BY <1>3, <2>1 DEF ListenAtOnce, TypeOK
  <1>4. ASSUME NEW r \in Replicas, Stop(r)
        PROVE  replica' \in [Replicas -> Replica]
    BY <1>4 DEF Stop, TypeOK, Replica
  <1>5. /\ UNCHANGED <<request, saved, made, cut>> /\ UNCHANGED desktop
        /\ sealers' \subseteq Providers
    BY DEF Starting, Start, UpgradeRow, ListenAtOnce, Stop, TypeOK
  <1>6. replica' \in [Replicas -> Replica]
    BY <1>1, <1>2, <1>3, <1>4 DEF Starting
  <1>7. row' \in [Keys -> Stored]
    <2>1. ASSUME \A r \in Replicas : replica[r].pc = "upgrading" =>
                     \A k \in DOMAIN replica[r].pending : ~UpgradeRow(r, k)
          PROVE  row' = row
      BY <2>1 DEF Starting, Start, ListenAtOnce, Stop
    <2> QED
      BY <1>2, <2>1 DEF TypeOK
  <1> QED
    BY <1>5, <1>6, <1>7 DEF TypeOK

\* What a request has left after writing a row
LEMMA OneRowLess ==
    ASSUME TypeOK, NEW q \in Requests, request[q] # Free, NEW k \in DOMAIN request[q].left
    PROVE  /\ Written(q, k) \in Request
           /\ Written(q, k) # Free =>
                /\ Written(q, k).pc = request[q].pc
                /\ Written(q, k).replica = request[q].replica
                /\ DOMAIN Written(q, k).left = DOMAIN request[q].left \ {k}
                /\ \A s \in DOMAIN Written(q, k).left :
                      Written(q, k).left[s] = request[q].left[s]
           /\ Written(q, k) = Free => DOMAIN request[q].left = {k}
  <1> DEFINE rest == [s \in DOMAIN request[q].left \ {k} |-> request[q].left[s]]
  <1>1. CASE DOMAIN request[q].left = {k}
    BY <1>1 DEF Written, Request
  <1>2. CASE DOMAIN request[q].left # {k} /\ request[q].pc = "generate"
    <2>1. request[q] \in [pc : {"generate"}, replica : Replicas,
                          left : Some(Pieces \cup {"enabled"}, Values)]
      BY <1>2, RequestShape
    <2>2. /\ rest \in Some(Pieces \cup {"enabled"}, Values)
          /\ DOMAIN rest = DOMAIN request[q].left \ {k}
          /\ \A s \in DOMAIN rest : rest[s] = request[q].left[s]
      BY <2>1, FewerKeys
    <2>3. Written(q, k) = [request[q] EXCEPT !.left = rest]
      BY <1>2, <2>1 DEF Written
    <2> HIDE DEF rest
    <2> QED
      BY <1>2, <2>1, <2>2, <2>3 DEF Request, Free
  <1>3. CASE DOMAIN request[q].left # {k} /\ request[q].pc = "update"
    <2>1. request[q] \in [pc : {"update"}, replica : Replicas,
                          left : Some({"enabled", "secret"}, Values)]
      BY <1>3, RequestShape
    <2>2. /\ rest \in Some({"enabled", "secret"}, Values)
          /\ DOMAIN rest = DOMAIN request[q].left \ {k}
          /\ \A s \in DOMAIN rest : rest[s] = request[q].left[s]
      BY <2>1, FewerKeys
    <2>3. Written(q, k) = [request[q] EXCEPT !.left = rest]
      BY <1>3, <2>1 DEF Written
    <2> HIDE DEF rest
    <2> QED
      BY <1>3, <2>1, <2>2, <2>3 DEF Request, Free
  <1> QED
    BY <1>1, <1>2, <1>3, RequestShape

\* What a row becomes
LEMMA OneRowWritten ==
    ASSUME TypeOK, Served, NEW q \in Requests, request[q] # Free,
           NEW k \in DOMAIN request[q].left, WriteRow(q, k)
    PROVE  /\ k \in Keys /\ row' \in [Keys -> Stored]
           /\ row'[k].value = request[q].left[k] /\ row'[k].layers # 2
           /\ \A s \in Keys \ {k} : row'[s] = row[s]
           /\ request' = [request EXCEPT ![q] = Written(q, k)]
           /\ saved' = IF k \in Sealed THEN [saved EXCEPT ![k] = request[q].left[k]] ELSE saved
           /\ UNCHANGED <<replica, made, cut, sealers>> /\ UNCHANGED desktop
  <1>1. k \in Keys /\ request[q].left[k] \in Values /\ request[q].replica \in Replicas
    BY RequestShape
  <1>2. replica[request[q].replica].provider \in Providers
    BY <1>1, ReplicaShape DEF Served, Up
  <1> QED
    BY <1>1, <1>2, StoredFacts DEF WriteRow, TypeOK

LEMMA ServeTypes ==
    ASSUME TypeOK, Served, Serve
    PROVE  TypeOK'
  <1>1. ASSUME NEW q \in Requests, NEW r \in Replicas, BeginGenerate(q, r)
        PROVE  TypeOK'
    <2> DEFINE left == [k \in Pieces \cup {"enabled"} |->
                           IF k = "enabled" THEN 1 ELSE made.certs + 1]
    <2>1. made.certs + 1 \in 0..MaxCerts
      BY <1>1, BoundsAssumption DEF BeginGenerate, TypeOK
    <2>2. left \in [Pieces \cup {"enabled"} -> Values]
      BY <2>1, ValueFacts
    <2>3. left \in Some(Pieces \cup {"enabled"}, Values)
      BY <2>2, AMap
    <2>4. request' = [request EXCEPT ![q] = [pc |-> "generate", replica |-> r, left |-> left]]
      BY <1>1 DEF BeginGenerate
    <2> HIDE DEF left
    <2>5. [pc |-> "generate", replica |-> r, left |-> left] \in Request
      BY <2>3 DEF Request
    <2>6. request' \in [Requests -> Request]
      BY <2>4, <2>5 DEF TypeOK
    <2>7. made' \in [certs : 0..MaxCerts, secrets : 0..MaxSecrets, foreign : SUBSET Certs]
      BY <1>1, <2>1 DEF BeginGenerate, TypeOK
    <2>8. UNCHANGED <<row, replica, saved, cut, sealers>> /\ UNCHANGED desktop
      BY <1>1 DEF BeginGenerate
    <2> QED
      BY <2>6, <2>7, <2>8 DEF TypeOK
  <1>2. ASSUME NEW q \in Requests, NEW r \in Replicas, BeginUpdate(q, r)
        PROVE  TypeOK'
    <2>1. PICK enabled \in {{}, {0}, {1}}, secret \in BOOLEAN :
          /\ secret => made.secrets < MaxSecrets
          /\ enabled # {} \/ secret
          /\ made' = [made EXCEPT !.secrets = IF secret THEN @ + 1 ELSE @]
          /\ request' = [request EXCEPT ![q] =
                [pc |-> "update", replica |-> r,
                 left |-> [k \in (IF enabled = {} THEN {} ELSE {"enabled"})
                                   \cup (IF secret THEN {"secret"} ELSE {}) |->
                              IF k = "enabled" THEN CHOOSE e \in enabled : TRUE
                              ELSE MaxCerts + made.secrets + 1]]]
      BY <1>2 DEF BeginUpdate
    <2> DEFINE D == (IF enabled = {} THEN {} ELSE {"enabled"})
                      \cup (IF secret THEN {"secret"} ELSE {})
               left == [k \in D |-> IF k = "enabled" THEN CHOOSE e \in enabled : TRUE
                                    ELSE MaxCerts + made.secrets + 1]
    <2>2. "enabled" \in D => (CHOOSE e \in enabled : TRUE) \in Values
      <3>1. enabled # {} => (CHOOSE e \in enabled : TRUE) \in enabled
        OBVIOUS
      <3>2. "enabled" \in D => enabled # {}
        OBVIOUS
      <3>3. \A e \in enabled : e \in Values
        <4>1. 0 \in Values /\ 1 \in Values
          BY ValueFacts DEF None
        <4>2. enabled = {} \/ enabled = {0} \/ enabled = {1}
          BY <2>1
        <4> QED
          BY <4>1, <4>2
      <3> QED
        BY <3>1, <3>2, <3>3
    <2>3. secret => made.secrets + 1 \in 0..MaxSecrets
      BY <2>1, BoundsAssumption DEF TypeOK
    <2>4. secret => MaxCerts + made.secrets + 1 \in Values
      BY <2>3, BoundsAssumption DEF TypeOK, Values
    <2>5. D \subseteq {"enabled", "secret"} /\ ("secret" \in D => secret)
      OBVIOUS
    <2>6. left \in [D -> Values]
      BY <2>2, <2>4, <2>5
    <2>7. left \in Some({"enabled", "secret"}, Values)
      BY <2>5, <2>6, AMap
    <2>8. request' = [request EXCEPT ![q] = [pc |-> "update", replica |-> r, left |-> left]]
      BY <2>1
    <2> HIDE DEF D, left
    <2>9. [pc |-> "update", replica |-> r, left |-> left] \in Request
      BY <2>7 DEF Request
    <2>10. request' \in [Requests -> Request]
      BY <2>8, <2>9 DEF TypeOK
    <2>11. made' \in [certs : 0..MaxCerts, secrets : 0..MaxSecrets, foreign : SUBSET Certs]
      <3>1. CASE secret
        BY <2>1, <2>3, <3>1 DEF TypeOK
      <3>2. CASE ~secret
        <4>1. made' = [made EXCEPT !.secrets = made.secrets]
          BY <2>1, <3>2
        <4> QED
          BY <4>1 DEF TypeOK
      <3> QED
        BY <3>1, <3>2
    <2>12. UNCHANGED <<row, replica, saved, cut, sealers>> /\ UNCHANGED desktop
      BY <1>2 DEF BeginUpdate
    <2> QED
      BY <2>10, <2>11, <2>12 DEF TypeOK
  <1>3. ASSUME NEW q \in Requests, request[q] # Free, NEW k \in DOMAIN request[q].left,
               WriteRow(q, k)
        PROVE  TypeOK'
    <2>1. Written(q, k) \in Request
      BY <1>3, OneRowLess
    <2>2. request[q].left[k] \in Values
      BY <1>3, RequestShape
    <2> QED
      BY <1>3, <2>1, <2>2, OneRowWritten DEF TypeOK
  <1>4. ASSUME NEW q \in Requests, Abort(q)
        PROVE  TypeOK'
    <2>1. cut' \in 0..MaxCut
      BY <1>4, BoundsAssumption DEF Abort, TypeOK
    <2>2. request' \in [Requests -> Request]
      BY <1>4 DEF Abort, TypeOK, Request
    <2>3. UNCHANGED <<row, replica, saved, made, sealers>> /\ UNCHANGED desktop
      BY <1>4 DEF Abort
    <2> QED
      BY <2>1, <2>2, <2>3 DEF TypeOK
  <1> QED
    BY <1>1, <1>2, <1>3, <1>4 DEF Serve

LEMMA DesktopTypes ==
    ASSUME TypeOK, Desktop
    PROVE  TypeOK'
  <1>0. \A k \in Keys : Read(k) \in Readings
    BY Readable
  <1>k. {"thumbprint", "pfx", "public"} \subseteq Keys
    BY DEF Keys, Pieces
  <1>a. \A d \in Desks, next \in Desk : Become(d, next) => desk' \in [Desks -> Desk]
    BY DEF Become, TypeOK
  <1>i. Idle \in Desk
    BY DEF Desk
  <1>1. ASSUME NEW d \in Desks, Launch(d)
        PROVE  TypeOK'
    <2>1. [pc |-> "launch", thumbprint |-> Read("thumbprint"), pfx |-> Read("pfx")] \in Desk
      BY <1>0, <1>k DEF Desk
    <2>2. desk' \in [Desks -> Desk]
      BY <1>1, <1>a, <2>1 DEF Launch
    <2>3. known' \in BOOLEAN
      BY <1>1 DEF Launch
    <2>4. UNCHANGED <<keys, trust>> /\ UNCHANGED server
      BY <1>1 DEF Launch
    <2> QED
      BY <2>2, <2>3, <2>4 DEF TypeOK
  <1>2. ASSUME NEW d \in Desks, Import(d)
        PROVE  TypeOK'
    <2>1. desk[d].pfx \in Readings
      BY <1>2, DeskShape DEF Import, At, Idle
    <2>2. desk' \in [Desks -> Desk]
      BY <1>2, <1>a, <1>i DEF Import
    <2>3. keys' \subseteq Readings
      BY <1>2, <2>1 DEF Import, TypeOK
    <2>4. UNCHANGED <<known, trust>> /\ UNCHANGED server
      BY <1>2 DEF Import
    <2> QED
      BY <2>2, <2>3, <2>4 DEF TypeOK
  <1>3. ASSUME NEW d \in Desks, Fetch(d)
        PROVE  TypeOK'
    <2>1. [pc |-> "clean", thumbprint |-> Read("thumbprint"), public |-> Read("public")] \in Desk
      BY <1>0, <1>k DEF Desk
    <2>2. desk' \in [Desks -> Desk]
      BY <1>3, <1>a, <2>1 DEF Fetch
    <2>3. UNCHANGED <<known, keys, trust>> /\ UNCHANGED server
      BY <1>3 DEF Fetch
    <2> QED
      BY <2>2, <2>3 DEF TypeOK
  <1>4. ASSUME NEW d \in Desks, Clean(d)
        PROVE  TypeOK'
    <2>1. desk[d] \in [pc : {"clean", "leaf", "root", "list"},
                       thumbprint : Readings, public : Readings]
      BY <1>4, DeskShape DEF Clean, At, Idle
    <2>2. [desk[d] EXCEPT !.pc = "leaf"] \in Desk
      BY <2>1 DEF Desk
    <2>3. desk' \in [Desks -> Desk]
      BY <1>4, <1>a, <1>i, <2>2 DEF Clean
    <2>4. trust' \in [{"listed", "leaf", "root"} -> SUBSET Readings]
      BY <1>4 DEF Clean, TypeOK
    <2>5. UNCHANGED <<known, keys>> /\ UNCHANGED server
      BY <1>4 DEF Clean
    <2> QED
      BY <2>3, <2>4, <2>5 DEF TypeOK
  <1>5. ASSUME NEW d \in Desks, Install(d)
        PROVE  TypeOK'
    <2>1. desk[d] \in [pc : {"clean", "leaf", "root", "list"},
                       thumbprint : Readings, public : Readings]
      BY <1>5, DeskShape DEF Install, Idle
    <2>2. After(d, desk[d].pc, InstallOrder) \in Desk
      BY <1>5, <2>1 DEF Install, After, InstallOrder, Desk
    <2>3. desk' \in [Desks -> Desk]
      BY <1>5, <1>a, <2>2 DEF Install
    <2>4. trust' \in [{"listed", "leaf", "root"} -> SUBSET Readings]
      BY <1>5, <2>1 DEF Install, At, TypeOK
    <2>5. UNCHANGED <<known, keys>> /\ UNCHANGED server
      BY <1>5 DEF Install
    <2> QED
      BY <2>3, <2>4, <2>5 DEF TypeOK
  <1>6. ASSUME NEW d \in Desks, GiveUp(d)
        PROVE  TypeOK'
    BY <1>6, <1>a, <1>i DEF GiveUp, TypeOK
  <1> QED
    BY <1>1, <1>2, <1>3, <1>4, <1>5, <1>6 DEF Desktop

\* Stopping is for replicas without requests, and only the upgrading become up.
LEMMA ServedStep ==
    ASSUME TypeOK, Served, [Next]_vars
    PROVE  Served'
  <1>1. CASE Starting
    <2>1. ASSUME NEW r \in Replicas, Up(r), ~Stop(r)
          PROVE  Up(r)'
      <3>1. \A o \in Replicas : replica[o].pc = "upgrading" => o # r
        BY <2>1 DEF Up
      <3>2. ASSUME NEW o \in Replicas, NEW provider \in Providers, NEW opens \in Registered,
                   Start(o, provider, opens)
            PROVE  replica'[r] = replica[r]
        BY <2>1, <3>2 DEF Start, Up, Down, TypeOK
      <3>3. ASSUME NEW o \in Replicas, replica[o].pc = "upgrading", NEW k,
                   UpgradeRow(o, k)
            PROVE  replica'[r] = replica[r]
        BY <3>1, <3>3 DEF UpgradeRow, TypeOK
      <3>4. ASSUME NEW o \in Replicas, ListenAtOnce(o)
            PROVE  replica'[r] = replica[r]
        BY <3>1, <3>4 DEF ListenAtOnce, TypeOK
      <3>5. ASSUME NEW o \in Replicas, Stop(o)
            PROVE  replica'[r] = replica[r]
        BY <2>1, <3>5 DEF Stop, TypeOK
      <3> QED
        BY <1>1, <2>1, <3>2, <3>3, <3>4, <3>5 DEF Starting, Up
    <2>2. request' = request
      BY <1>1 DEF Starting, Start, UpgradeRow, ListenAtOnce, Stop
    <2> QED
      BY <2>1, <2>2, RequestShape DEF Served, Stop
  <1>2. CASE Serve
    <2>1. ASSUME NEW q \in Requests, NEW r \in Replicas, BeginGenerate(q, r) \/ BeginUpdate(q, r)
          PROVE  Served'
      <3>1. replica' = replica /\ Up(r)
        BY <2>1 DEF BeginGenerate, BeginUpdate, Loads
      <3>2. \E next : next.replica = r /\ request' = [request EXCEPT ![q] = next]
        <4>1. CASE BeginGenerate(q, r)
          BY <4>1 DEF BeginGenerate
        <4>2. CASE BeginUpdate(q, r)
          BY <4>2 DEF BeginUpdate
        <4> QED
          BY <2>1, <4>1, <4>2
      <3> QED
        BY <3>1, <3>2 DEF Served, Up, TypeOK
    <2>2. ASSUME NEW q \in Requests, request[q] # Free, NEW k \in DOMAIN request[q].left,
                 WriteRow(q, k)
          PROVE  Served'
      <3>1. replica' = replica
        BY <2>2 DEF WriteRow
      <3>2. \A p \in Requests : request'[p] # Free =>
               request[p] # Free /\ request'[p].replica = request[p].replica
        BY <2>2, OneRowLess DEF WriteRow, TypeOK
      <3> QED
        BY <3>1, <3>2 DEF Served, Up
    <2>3. ASSUME NEW q \in Requests, Abort(q)
          PROVE  Served'
      BY <2>3 DEF Abort, Served, Up, TypeOK
    <2> QED
      BY <1>2, <2>1, <2>2, <2>3 DEF Serve
  <1>3. CASE UNCHANGED <<replica, request>>
    BY <1>3 DEF Served, Up
  <1> QED
    BY <1>1, <1>2, <1>3 DEF Next, vars, Desktop, Launch, Import, Fetch, Clean, Install, GiveUp

LEMMA TypeStep ==
    ASSUME TypeOK, Served, [Next]_vars
    PROVE  TypeOK'
  <1>1. CASE UNCHANGED vars
    BY <1>1 DEF TypeOK, vars
  <1> QED
    BY <1>1, StartingTypes, ServeTypes, DesktopTypes DEF Next

----------------------------------------------------------------------------
(* Secrets read back *)

\* An upgrade leaves every value what it was, and every row in the layers it had
\* or in one.
LEMMA UpgradeKeeps ==
    ASSUME TypeOK, NEW r \in Replicas, replica[r].pc = "upgrading",
           NEW k \in DOMAIN replica[r].pending, UpgradeRow(r, k)
    PROVE  /\ \A s \in Keys : row'[s].value = row[s].value
           /\ \A s \in Keys : row'[s] = row[s] \/ row'[s].layers = 1
  <1>1. CASE row' = row
    BY <1>1
  <1>2. CASE row' = [row EXCEPT ![k] = Upgraded(row[k], replica[r].provider)]
    BY <1>2, Upgrade, UpgradedFacts DEF TypeOK
  <1> QED
    BY <1>1, <1>2, Upgrade

\* Every other step of Starting leaves the rows alone.
LEMMA RowsWhileStarting ==
    ASSUME TypeOK, Starting
    PROVE  /\ \A s \in Keys : row'[s].value = row[s].value
           /\ \A s \in Keys : row'[s] = row[s] \/ row'[s].layers = 1
           /\ UNCHANGED <<request, saved, made, cut, desk, known, keys, trust>>
  <1>1. CASE row' = row
    BY <1>1 DEF Starting, Start, UpgradeRow, ListenAtOnce, Stop
  <1>2. CASE \E r \in Replicas : /\ replica[r].pc = "upgrading"
                                 /\ \E k \in DOMAIN replica[r].pending : UpgradeRow(r, k)
    BY <1>2, UpgradeKeeps DEF UpgradeRow
  <1> QED
    BY <1>1, <1>2 DEF Starting, Start, ListenAtOnce, Stop

LEMMA HeldStep ==
    ASSUME TypeOK, Served, Held, [Next]_vars
    PROVE  Held'
  <1>0. Sealed \subseteq Keys
    BY DEF Sealed, Keys, Pieces
  <1>1. CASE Starting
    BY <1>0, <1>1, RowsWhileStarting DEF Held
  <1>2. ASSUME NEW q \in Requests, request[q] # Free, NEW k \in DOMAIN request[q].left,
               WriteRow(q, k)
        PROVE  Held'
    BY <1>0, <1>2, OneRowWritten DEF Held, TypeOK
  <1>3. CASE UNCHANGED <<row, saved>>
    BY <1>3 DEF Held
  <1>4. \A q \in Requests, r \in Replicas :
           BeginGenerate(q, r) \/ BeginUpdate(q, r) => UNCHANGED <<row, saved>>
    BY DEF BeginGenerate, BeginUpdate
  <1>5. \A q \in Requests : Abort(q) => UNCHANGED <<row, saved>>
    BY DEF Abort
  <1>6. Desktop \/ UNCHANGED vars => UNCHANGED <<row, saved>>
    BY DEF Desktop, Launch, Import, Fetch, Clean, Install, GiveUp, vars
  <1> QED
    BY <1>1, <1>2, <1>3, <1>4, <1>5, <1>6 DEF Next, Serve

\* A replica stays before a row until it has upgraded it or stopped.
LEMMA LayeredWhileStarting ==
    ASSUME TypeOK, Layered, Starting
    PROVE  Layered'
  <1> SUFFICES ASSUME NEW k \in Keys, row'[k].layers = 2
               PROVE  /\ k \in Sealed /\ row'[k].value # None
                      /\ \A r \in Replicas : Ahead(r, k)'
    BY DEF Layered
  <1>1. row'[k] = row[k]
    BY RowsWhileStarting
  <1>2. k \in Sealed /\ row[k].value # None /\ \A r \in Replicas : Ahead(r, k)
    BY <1>1 DEF Layered
  <1>3. ASSUME NEW r \in Replicas, NEW provider \in Providers, NEW opens \in Registered,
               Start(r, provider, opens)
        PROVE  Ahead(r, k)'
    <2>1. row[k] # Empty
      BY <1>1, <1>2 DEF Empty, Plain
    <2>2. /\ replica'[r].pc = "upgrading"
          /\ replica'[r].pending = [s \in {s \in Sealed : row[s] # Empty} |-> row[s]]
      BY <1>3 DEF Start, TypeOK
    <2> QED
      BY <1>1, <1>2, <2>1, <2>2 DEF Ahead
  <1>4. ASSUME NEW r \in Replicas, replica[r].pc = "upgrading",
               NEW s \in DOMAIN replica[r].pending, UpgradeRow(r, s)
        PROVE  Ahead(r, k)'
    <2>0. replica[r] # Down /\ replica[r].pending \in Some(Sealed, Stored)
      BY <1>4, ReplicaShape
    <2>1. k \in DOMAIN replica[r].pending /\ replica[r].pending[k] = row[k]
      BY <1>2, <2>0 DEF Ahead
    <2>2. s # k
      <3>1. CASE row' = row /\ (row[s] = replica[r].pending[s] => row[s].layers = 1)
        BY <1>1, <2>1, <3>1
      <3>2. CASE row' = [row EXCEPT ![s] = Upgraded(row[s], replica[r].provider)]
        BY <1>1, <1>4, <3>2, Upgrade, UpgradedFacts DEF TypeOK
      <3> QED
        BY <1>4, <3>1, <3>2, Upgrade
    <2>3. /\ Rest(r, s) \in Some(Sealed, Stored)
          /\ k \in DOMAIN Rest(r, s) /\ Rest(r, s)[k] = row[k]
      BY <2>0, <2>1, <2>2, FewerKeys DEF Rest
    <2>4. /\ Listen(r, Rest(r, s)).pc = "upgrading"
          /\ Listen(r, Rest(r, s)).pending = Rest(r, s)
      BY <1>4, <2>3, Listening
    <2>5. replica'[r] = Listen(r, Rest(r, s))
      BY <1>4 DEF UpgradeRow, TypeOK
    <2> QED
      BY <1>1, <2>3, <2>4, <2>5 DEF Ahead
  <1>5. ASSUME NEW r \in Replicas, ListenAtOnce(r)
        PROVE  FALSE
    BY <1>2, <1>5, ReplicaShape DEF ListenAtOnce, Ahead
  <1>6. ASSUME NEW r \in Replicas, Stop(r)
        PROVE  Ahead(r, k)'
    BY <1>6 DEF Stop, Ahead, TypeOK
  <1>7. ASSUME NEW r \in Replicas, replica'[r] = replica[r]
        PROVE  Ahead(r, k)'
    BY <1>1, <1>2, <1>7 DEF Ahead
  <1>8. ASSUME NEW r \in Replicas, NEW o \in Replicas \ {r},
               \/ \E provider \in Providers, opens \in Registered : Start(o, provider, opens)
               \/ \E s \in DOMAIN replica[o].pending : UpgradeRow(o, s)
               \/ Stop(o)
        PROVE  replica'[r] = replica[r]
    BY <1>8 DEF Start, UpgradeRow, Stop, TypeOK
  <1>9. ASSUME NEW r \in Replicas
        PROVE  Ahead(r, k)'
    BY <1>3, <1>4, <1>5, <1>6, <1>7, <1>8 DEF Starting
  <1> QED
    BY <1>1, <1>2, <1>9

LEMMA LayeredStep ==
    ASSUME TypeOK, Served, Layered, [Next]_vars
    PROVE  Layered'
  <1>1. CASE UNCHANGED <<row, replica>>
    BY <1>1 DEF Layered, Ahead
  <1>2. ASSUME NEW q \in Requests, request[q] # Free, NEW k \in DOMAIN request[q].left,
               WriteRow(q, k)
        PROVE  Layered'
    <2>1. \A s \in Keys : row'[s].layers = 2 => row'[s] = row[s]
      BY <1>2, OneRowWritten
    <2>2. replica' = replica
      BY <1>2, OneRowWritten
    <2> QED
      BY <2>1, <2>2 DEF Layered, Ahead
  <1>3. \A q \in Requests, r \in Replicas :
           BeginGenerate(q, r) \/ BeginUpdate(q, r) => UNCHANGED <<row, replica>>
    BY DEF BeginGenerate, BeginUpdate
  <1>4. \A q \in Requests : Abort(q) => UNCHANGED <<row, replica>>
    BY DEF Abort
  <1>5. Desktop \/ UNCHANGED vars => UNCHANGED <<row, replica>>
    BY DEF Desktop, Launch, Import, Fetch, Clean, Install, GiveUp, vars
  <1> QED
    BY <1>1, <1>2, <1>3, <1>4, <1>5, LayeredWhileStarting DEF Next, Serve

\* While a replica serves, no row is in two layers: what is read is what is held.
LEMMA UpReads ==
    ASSUME TypeOK, Layered, NEW r \in Replicas, Up(r)
    PROVE  \A k \in Keys : Read(k) = row[k].value
  <1>1. \A k \in Keys : ~Ahead(r, k)
    BY DEF Ahead, Up, Down
  <1> QED
    BY <1>1 DEF Layered, Read

LEMMA ServingReads ==
    ASSUME TypeOK, Layered, Serving
    PROVE  \A k \in Keys : Read(k) = row[k].value
  BY UpReads DEF Serving, Loads

\* A replica that runs seals as one of the sealers, and a row is in the form of
\* one of them unless the replica has it still before it.
SealedByASealer(r, k) ==
    \/ row[k] = Empty
    \/ row[k].form \in sealers
    \/ /\ replica[r].pc = "upgrading"
       /\ k \in DOMAIN replica[r].pending /\ replica[r].pending[k] = row[k]

Opened ==
    \A r \in Replicas : replica[r] # Down =>
        /\ replica[r].provider \in sealers
        /\ \A k \in Sealed : SealedByASealer(r, k)

\* What an upgrade makes of the rows and of the replicas
LEMMA UpgradeSeals ==
    ASSUME TypeOK, Opened, NEW r \in Replicas, replica[r].pc = "upgrading",
           NEW k \in DOMAIN replica[r].pending, UpgradeRow(r, k)
    PROVE  Opened'
  <1>0. /\ replica[r] # Down /\ replica[r].provider \in sealers /\ sealers' = sealers
        /\ k \in Sealed /\ replica[r].pending \in Some(Sealed, Stored)
    BY ReplicaShape, Upgrade DEF Opened, UpgradeRow
  <1>1. /\ \A s \in Sealed \ {k} : row'[s] = row[s]
        /\ row'[k] = row[k] \/ row'[k].form \in sealers
    <2>1. Upgraded(row[k], replica[r].provider).form = replica[r].provider
      BY DEF Upgraded, Seal
    <2>2. row \in [Keys -> Stored] /\ Sealed \subseteq Keys
      BY DEF TypeOK, Sealed, Keys, Pieces
    <2> QED
      BY <1>0, <2>1, <2>2, Upgrade
  <1>2. row'[k] = Empty \/ row'[k].form \in sealers
    <2>1. CASE row'[k] = row[k] /\ row[k] = replica[r].pending[k]
      <3>1. Current(row[k], replica[r].provider) \/ row'[k].form \in sealers
        BY <1>0, <1>1, <2>1 DEF UpgradeRow, Upgraded, Seal, TypeOK, Sealed, Keys, Pieces
      <3> QED
        BY <1>0, <2>1, <3>1 DEF Current
    <2>2. CASE row'[k] = row[k] /\ row[k] # replica[r].pending[k]
      BY <1>0, <2>2 DEF Opened, SealedByASealer
    <2> QED
      BY <1>1, <2>1, <2>2
  <1>3. /\ replica'[r] = Listen(r, Rest(r, k))
        /\ \A o \in Replicas \ {r} : replica'[o] = replica[o]
    BY DEF UpgradeRow, TypeOK
  <1>4. ASSUME NEW o \in Replicas \ {r}, replica'[o] # Down
        PROVE  /\ replica'[o].provider \in sealers'
               /\ \A s \in Sealed : SealedByASealer(o, s)'
    BY <1>0, <1>1, <1>2, <1>3, <1>4 DEF Opened, SealedByASealer
  <1>5. replica'[r].provider \in sealers'
    BY <1>0, <1>3, ReplicaShape DEF Listen
  <1>6. ASSUME NEW s \in Sealed
        PROVE  SealedByASealer(r, s)'
    <2>1. CASE s = k
      BY <1>0, <1>2, <2>1 DEF SealedByASealer
    <2>2. CASE s # k
      <3>1. CASE row[s] = Empty \/ row[s].form \in sealers
        BY <1>0, <1>1, <2>2, <3>1 DEF SealedByASealer
      <3>2. CASE s \in DOMAIN replica[r].pending /\ replica[r].pending[s] = row[s]
        <4>1. /\ Rest(r, k) \in Some(Sealed, Stored)
              /\ s \in DOMAIN Rest(r, k) /\ Rest(r, k)[s] = row[s]
          BY <1>0, <2>2, <3>2, FewerKeys DEF Rest
        <4>2. Listen(r, Rest(r, k)).pc = "upgrading" /\ Listen(r, Rest(r, k)).pending = Rest(r, k)
          BY <4>1, Listening
        <4> QED
          BY <1>1, <1>3, <2>2, <4>1, <4>2 DEF SealedByASealer
      <3> QED
        BY <1>0, <3>1, <3>2 DEF Opened, SealedByASealer
    <2> QED
      BY <2>1, <2>2
  <1> QED
    BY <1>4, <1>5, <1>6 DEF Opened

LEMMA OpenedWhileStarting ==
    ASSUME TypeOK, Opened, Starting
    PROVE  Opened'
  <1>1. ASSUME NEW r \in Replicas, NEW provider \in Providers, NEW opens \in Registered,
               Start(r, provider, opens)
        PROVE  Opened'
    <2>1. row' = row /\ sealers' = sealers \cup {provider}
      BY <1>1 DEF Start
    <2>2. \A o \in Replicas \ {r} : replica'[o] = replica[o]
      BY <1>1 DEF Start, TypeOK
    <2>3. /\ replica'[r].pc = "upgrading" /\ replica'[r].provider = provider
          /\ replica'[r].pending = [s \in {s \in Sealed : row[s] # Empty} |-> row[s]]
      BY <1>1 DEF Start, TypeOK
    <2>4. \A k \in Sealed : SealedByASealer(r, k)'
      BY <2>1, <2>3 DEF SealedByASealer
    <2>5. \A o \in Replicas \ {r}, k \in Sealed : SealedByASealer(o, k) => SealedByASealer(o, k)'
      BY <2>1, <2>2 DEF SealedByASealer
    <2> QED
      BY <2>1, <2>2, <2>3, <2>4, <2>5 DEF Opened
  <1>2. ASSUME NEW r \in Replicas, ListenAtOnce(r)
        PROVE  Opened'
    <2>1. /\ replica[r].pc = "upgrading" /\ DOMAIN replica[r].pending = {}
          /\ UNCHANGED <<row, sealers>>
      BY <1>2 DEF ListenAtOnce
    <2>2. /\ \A o \in Replicas \ {r} : replica'[o] = replica[o]
          /\ replica'[r].provider = replica[r].provider
      BY <1>2, <2>1 DEF ListenAtOnce, Listen, TypeOK
    <2>3. replica[r] # Down
      BY <2>1 DEF Down
    <2>4. \A k \in Sealed : SealedByASealer(r, k)'
      BY <2>1, <2>3 DEF Opened, SealedByASealer
    <2>5. \A o \in Replicas \ {r}, k \in Sealed : SealedByASealer(o, k) => SealedByASealer(o, k)'
      BY <2>1, <2>2 DEF SealedByASealer
    <2> QED
      BY <2>1, <2>2, <2>3, <2>4, <2>5 DEF Opened
  <1>3. ASSUME NEW r \in Replicas, Stop(r)
        PROVE  Opened'
    BY <1>3 DEF Stop, Opened, SealedByASealer, TypeOK
  <1> QED
    BY <1>1, <1>2, <1>3, UpgradeSeals DEF Starting

LEMMA OpenedStep ==
    ASSUME TypeOK, Served, Opened, [Next]_vars
    PROVE  Opened'
  <1>1. CASE UNCHANGED <<row, replica, sealers>>
    BY <1>1 DEF Opened, SealedByASealer
  <1>2. ASSUME NEW q \in Requests, request[q] # Free, NEW k \in DOMAIN request[q].left,
               WriteRow(q, k)
        PROVE  Opened'
    <2>1. /\ \A s \in Keys \ {k} : row'[s] = row[s]
          /\ UNCHANGED <<replica, sealers>> /\ k \in Keys
      BY <1>2, OneRowWritten
    <2>2. request[q].replica \in Replicas /\ replica[request[q].replica] # Down
      BY <1>2, RequestShape DEF Served, Up, Down
    <2>3. k \in Sealed => row'[k].form \in sealers
      BY <1>2, <2>1, <2>2 DEF WriteRow, Encrypted, Seal, Opened, TypeOK
    <2>4. Sealed \subseteq Keys
      BY DEF Sealed, Keys, Pieces
    <2>5. \A r \in Replicas, s \in Sealed : SealedByASealer(r, s) => SealedByASealer(r, s)'
      BY <2>1, <2>3, <2>4 DEF SealedByASealer
    <2> QED
      BY <2>1, <2>5 DEF Opened
  <1>3. \A q \in Requests, r \in Replicas :
           BeginGenerate(q, r) \/ BeginUpdate(q, r) => UNCHANGED <<row, replica, sealers>>
    BY DEF BeginGenerate, BeginUpdate
  <1>4. \A q \in Requests : Abort(q) => UNCHANGED <<row, replica, sealers>>
    BY DEF Abort
  <1>5. Desktop \/ UNCHANGED vars => UNCHANGED <<row, replica, sealers>>
    BY DEF Desktop, Launch, Import, Fetch, Clean, Install, GiveUp, vars
  <1> QED
    BY <1>1, <1>2, <1>3, <1>4, <1>5, OpenedWhileStarting DEF Next, Serve

Sound == TypeOK /\ Served /\ Held /\ Layered /\ Opened

LEMMA SoundAlways == Spec => []Sound
  <1>1. Init => Sound
    BY InitTypes DEF Sound, Init, Opened
  <1>2. Sound /\ [Next]_vars => Sound'
    BY TypeStep, ServedStep, HeldStep, LayeredStep, OpenedStep DEF Sound
  <1> QED
    BY <1>1, <1>2, PTL DEF Spec

\* Every reachable state of the settings, of the replicas and of a desktop is well
\* typed (settings, admin.go; the launcher's stores, install_windows.go).
THEOREM SettingsTypes == Spec => []TypeOK
  <1>1. Sound => TypeOK
    BY DEF Sound
  <1> QED
    BY <1>1, SoundAlways, PTL

\* However many replicas start, with whichever key providers, while others serve
\* and administrators write: a replica that serves opens a secret setting as what
\* was last entered or generated for it, and only a provider it was not given keeps
\* it from that (UpgradeSecretSettings, admin.go:286; openEnvelope, cipher.go:376).
THEOREM SecretsAreNotLost == Spec => []SecretsReadBack
  <1>1. Sound => SecretsReadBack
    <2> SUFFICES ASSUME Sound, NEW r \in Replicas, Up(r), NEW k \in Sealed
                 PROVE  /\ Read(k) = saved[k]
                        /\ sealers \subseteq replica[r].opens => Opens(r, row[k])
      BY DEF SecretsReadBack
    <2>1. k \in Keys
      BY DEF Sealed, Keys, Pieces
    <2>2. Read(k) = saved[k]
      BY <2>1, UpReads DEF Sound, Held
    <2>3. row[k] = Empty \/ row[k].form \in sealers
      BY DEF Sound, Opened, SealedByASealer, Up, Down
    <2> QED
      BY <2>2, <2>3 DEF Opens, Empty, Plain
  <1> QED
    BY <1>1, SoundAlways, PTL

----------------------------------------------------------------------------
(* The certificate *)

\* What is configured, whichever way it is stored, is complete.
LEMMA ConfiguredIsComplete ==
    ASSUME TypeOK, Layered
    PROVE  Configured <=> Complete
  <1>1. \A p \in Pieces : Read(p) # None <=> row[p].value # None
    BY ValueFacts DEF Read, Layered, Keys
  <1> QED
    BY <1>1 DEF Configured, Complete

\* The steps that neither begin, write nor end a generation
Aside ==
    /\ \A p \in Pieces : row'[p].value = row[p].value
    /\ \A q \in Requests : Generates(q)' => Generates(q) /\ request'[q] = request[q]
    /\ \A q \in Requests : Generates(q) => Generates(q)'
    /\ cut' = cut /\ made'.foreign = made.foreign

LEMMA CertificateAside ==
    ASSUME Certificate, Aside
    PROVE  Certificate'
  <1>1. Progress => Progress'
    BY DEF Progress, Aside
  <1>2. FirstCertificate => FirstCertificate'
    BY DEF FirstCertificate, Aside, Generating, Whole, Pieces
  <1>3. MixedIsIncomplete => MixedIsIncomplete'
    BY DEF MixedIsIncomplete, Aside, Spare, Generating, Complete, Whole, Pieces
  <1>4. OneGeneration => OneGeneration'
    BY DEF OneGeneration, Aside
  <1> QED
    BY <1>1, <1>2, <1>3, <1>4 DEF Certificate

LEMMA BeginGeneration ==
    ASSUME Sound, Certificate, Apart, NEW q \in Requests, NEW r \in Replicas,
           BeginGenerate(q, r)
    PROVE  Certificate'
  <1>1. PICK c \in Certs : request' = [request EXCEPT ![q] =
            [pc |-> "generate", replica |-> r,
             left |-> [k \in Pieces \cup {"enabled"} |-> IF k = "enabled" THEN 1 ELSE c]]]
    <2>1. made.certs + 1 \in Certs
      BY BoundsAssumption DEF BeginGenerate, Certs, Sound, TypeOK
    <2> QED
      BY <2>1 DEF BeginGenerate
  <1>2. /\ request'[q].pc = "generate"
        /\ \A p \in Requests \ {q} : request'[p] = request[p]
        /\ DOMAIN request'[q].left = Pieces \cup {"enabled"}
        /\ \A p \in Pieces : request'[q].left[p] = c
    BY <1>1 DEF Sound, TypeOK, Pieces
  <1>3. ~Generating /\ UNCHANGED <<row, cut>>
    BY DEF BeginGenerate, Generating, Generates, Free
  <1>4. OneGeneration' /\ Generating'
    BY <1>2, <1>3 DEF OneGeneration, Generating, Generates
  <1>5. Progress'
    BY <1>2, <1>3 DEF Progress, Generating, Generates
  <1>6. FirstCertificate'
    <2>0. made'.foreign = made.foreign
      BY DEF BeginGenerate, Sound, TypeOK
    <2>1. made.foreign = {} => \E p \in Pieces : row[p].value = None
      BY ConfiguredIsComplete DEF BeginGenerate, Managed, Complete, Sound
    <2>2. cut = 0 /\ made.foreign = {} => \A p \in Pieces : row[p].value = None
      BY <1>3, <2>1 DEF Certificate, FirstCertificate, Whole
    <2> QED
      BY <1>2, <1>3, <1>4, <2>0, <2>2 DEF FirstCertificate
  <1> QED
    BY <1>4, <1>5, <1>6 DEF Certificate, MixedIsIncomplete

LEMMA GenerationWrites ==
    ASSUME Sound, Certificate, Apart,
           NEW q \in Requests, request[q].pc = "generate",
           NEW k \in DOMAIN request[q].left, WriteRow(q, k)
    PROVE  Certificate'
  <1>a. request[q] # Free
    BY DEF Free
  <1>1. /\ row'[k].value = request[q].left[k]
        /\ \A s \in Pieces \ {k} : row'[s] = row[s]
        /\ request'[q] = Written(q, k) /\ UNCHANGED <<cut, made>>
        /\ \A p \in Requests \ {q} : request'[p] = request[p]
    BY <1>a, OneRowWritten DEF Sound, TypeOK, Keys
  <1>2. PICK c \in Certs : \A p \in Pieces :
            IF p \in DOMAIN request[q].left THEN request[q].left[p] = c ELSE row[p].value = c
    BY DEF Certificate, Progress, Generates
  <1>3. \A p \in Requests \ {q} : ~Generates(p) /\ ~Generates(p)'
    BY <1>1 DEF Certificate, OneGeneration, Generates
  <1>4. OneGeneration'
    BY <1>3 DEF OneGeneration
  <1>5. CASE Written(q, k) = Free
    <2>1. DOMAIN request[q].left = {k}
      BY <1>a, <1>5, OneRowLess DEF Sound
    <2>2. \A p \in Pieces : row'[p].value = c
      BY <1>1, <1>2, <2>1
    <2>3. ~Generating'
      BY <1>1, <1>3, <1>5 DEF Generating, Generates, Free
    <2>4. Whole'
      BY <2>2 DEF Whole, Pieces
    <2> QED
      BY <1>4, <2>3, <2>4
      DEF Certificate, Progress, FirstCertificate, MixedIsIncomplete, Generating
  <1>6. CASE Written(q, k) # Free
    <2>1. /\ request'[q].pc = "generate"
          /\ DOMAIN request'[q].left = DOMAIN request[q].left \ {k}
          /\ \A s \in DOMAIN request'[q].left : request'[q].left[s] = request[q].left[s]
      BY <1>1, <1>6, <1>a, OneRowLess DEF Sound
    <2>2. \A p \in Pieces :
            IF p \in DOMAIN request'[q].left THEN request'[q].left[p] = c ELSE row'[p].value = c
      BY <1>1, <1>2, <2>1
    <2>3. Progress'
      BY <1>3, <2>2 DEF Progress
    <2>4. Generating'
      BY <2>1 DEF Generating, Generates
    <2>5. FirstCertificate'
      <3>1. cut = 0 /\ made.foreign = {} =>
              \A p \in Pieces \cap DOMAIN request[q].left : row[p].value = None
        BY DEF Certificate, FirstCertificate, Generates
      <3> QED
        BY <1>1, <1>3, <2>1, <2>4, <3>1 DEF FirstCertificate
    <2> QED
      BY <1>4, <2>3, <2>4, <2>5 DEF Certificate, MixedIsIncomplete
  <1> QED
    BY <1>5, <1>6

LEMMA GenerationIsCutOff ==
    ASSUME Sound, Certificate, Apart,
           NEW q \in Requests, request[q].pc = "generate", Abort(q)
    PROVE  Certificate'
  <1>1. /\ row' = row /\ cut' = cut + 1 /\ made' = made
        /\ request' = [request EXCEPT ![q] = Free]
    BY DEF Abort
  <1>2. \A p \in Requests : ~Generates(p)'
    BY <1>1 DEF Certificate, OneGeneration, Generates, Free, Sound, TypeOK
  <1>3. cut \in Nat
    BY BoundsAssumption DEF Sound, TypeOK
  <1>4. cut' # 0 /\ (cut' <= Spare' => cut = 0 /\ made.foreign = {})
    BY <1>1, <1>3 DEF Spare
  <1>5. PICK c \in Certs : \A p \in Pieces :
            IF p \in DOMAIN request[q].left THEN request[q].left[p] = c ELSE row[p].value = c
    BY DEF Certificate, Progress, Generates
  <1>6. cut = 0 /\ made.foreign = {} =>
          \A p \in Pieces \cap DOMAIN request[q].left : row[p].value = None
    BY DEF Certificate, FirstCertificate, Generates
  <1>7. cut = 0 /\ made.foreign = {} /\ Complete => Whole
    BY <1>5, <1>6 DEF Complete, Whole, Pieces
  <1>8. MixedIsIncomplete'
    BY <1>1, <1>4, <1>7 DEF MixedIsIncomplete, Complete, Whole
  <1> QED
    BY <1>2, <1>4, <1>8 DEF Certificate, OneGeneration, Progress, FirstCertificate

\* All that is not a step of a generation leaves the certificate's rows.
LEMMA OtherSteps ==
    ASSUME Sound, [Next]_vars
    PROVE  \/ Aside
           \/ \E q \in Requests : \E r \in Replicas : BeginGenerate(q, r)
           \/ \E q \in Requests :
                 /\ request[q].pc = "generate"
                 /\ \/ \E k \in DOMAIN request[q].left : WriteRow(q, k)
                    \/ Abort(q)
  <1>0. Pieces \subseteq Keys
    BY DEF Keys
  <1>1. CASE Starting
    BY <1>0, <1>1, RowsWhileStarting DEF Aside, Sound, Generates
  <1>2. ASSUME NEW q \in Requests, NEW r \in Replicas, BeginUpdate(q, r)
        PROVE  Aside
    <2>1. request[q] = Free /\ \E next : next.pc = "update" /\ request' = [request EXCEPT ![q] = next]
      BY <1>2 DEF BeginUpdate
    <2>2. UNCHANGED <<row, cut>> /\ made'.foreign = made.foreign
      BY <1>2 DEF BeginUpdate, Sound, TypeOK
    <2> QED
      BY <2>1, <2>2 DEF Aside, Sound, TypeOK, Generates, Free
  <1>3. ASSUME NEW q \in Requests, request[q] # Free, request[q].pc # "generate",
               NEW k \in DOMAIN request[q].left, WriteRow(q, k)
        PROVE  Aside
    <2>1. k \notin Pieces
      <3>1. request[q] \in [pc : {"update"}, replica : Replicas,
                            left : Some({"enabled", "secret"}, Values)]
        BY <1>3, RequestShape DEF Sound
      <3>2. k \in {"enabled", "secret"}
        BY <3>1, SomeMap
      <3> QED
        BY <3>2 DEF Pieces
    <2>2. /\ \A p \in Pieces : row'[p] = row[p]
          /\ UNCHANGED <<cut, made>> /\ request' = [request EXCEPT ![q] = Written(q, k)]
      BY <1>0, <1>3, <2>1, OneRowWritten DEF Sound
    <2>3. Written(q, k).pc # "generate"
      BY <1>3, OneRowLess DEF Free, Sound
    <2> QED
      BY <1>3, <2>2, <2>3 DEF Aside, Generates, Sound, TypeOK
  <1>4. ASSUME NEW q \in Requests, request[q].pc # "generate", Abort(q)
        PROVE  Aside
    BY <1>4 DEF Abort, Aside, Generates, Free, Sound, TypeOK
  <1>5. CASE UNCHANGED <<row, request, cut, made>>
    BY <1>5 DEF Aside, Generates
  <1> QED
    BY <1>1, <1>2, <1>3, <1>4, <1>5
    DEF Next, Serve, Desktop, Launch, Import, Fetch, Clean, Install, GiveUp, vars

LEMMA CertificateStep ==
    ASSUME Sound, Certificate, [Next]_vars
    PROVE  Certificate'
  <1>1. CASE ~Apart
    BY <1>1 DEF Certificate
  <1>2. CASE Apart
    BY <1>2, OtherSteps, CertificateAside, BeginGeneration, GenerationWrites, GenerationIsCutOff
  <1> QED
    BY <1>1, <1>2

LEMMA InitCertificate == Init => Certificate /\ OneCertificate
  <1> SUFFICES ASSUME Init PROVE Certificate /\ OneCertificate
    OBVIOUS
  <1>1. Whole
    <2>1. \E pfx \in Left(1) : \A p \in Pieces : row[p].value = pfx.value
      <3>1. PICK pfx \in Left(1) : \E secret \in Left(MaxCerts + 1) :
               row = [k \in Keys |-> CASE k = "pfx" -> pfx
                                       [] k = "secret" -> secret
                                       [] k = "enabled" -> Plain(IF pfx.value = None THEN 0 ELSE 1)
                                       [] OTHER -> Plain(pfx.value)]
        BY DEF Init
      <3>2. row["pfx"] = pfx /\ \A p \in {"thumbprint", "public"} : row[p] = Plain(pfx.value)
        BY <3>1 DEF Keys, Pieces
      <3> QED
        BY <3>2 DEF Pieces, Plain
    <2> QED
      BY <2>1 DEF Whole, Pieces
  <1>2. ~Generating /\ cut = 0
    BY DEF Init, Generating, Generates, Free
  <1>3. /\ \A d \in Desks : desk[d] = Idle
        /\ \A s \in Stores : trust[s] = {}
    BY DEF Init, Stores
  <1>4. Certificate
    BY <1>1, <1>2
    DEF Certificate, OneGeneration, Progress, FirstCertificate, MixedIsIncomplete, Generating
  <1>5. OneCertificate
    BY <1>3 DEF OneCertificate, Installed, SeenByDesk, Stores, At, Idle
  <1> QED
    BY <1>4, <1>5

\* While nothing was seen, or what was seen stays, the desktops need not care.
LEMMA NothingNewToSee ==
    ASSUME Installed, \A d \in Desks : SeenByDesk(d), TypeOK,
           UNCHANGED <<desk, trust>>,
           ~Complete \/ \A p \in Pieces : row'[p].value = row[p].value
    PROVE  Installed' /\ \A d \in Desks : SeenByDesk(d)'
  <1>0. "thumbprint" \in Pieces
    BY DEF Pieces
  <1>1. CASE ~Complete
    <2>1. \A d \in Desks : desk[d] = Idle
      BY <1>1 DEF SeenByDesk
    <2>2. \A s \in Stores : trust[s] = {}
      BY <1>1 DEF Installed
    <2> QED
      BY <2>1, <2>2 DEF Installed, SeenByDesk, Stores, At, Idle
  <1>2. CASE \A p \in Pieces : row'[p].value = row[p].value
    <2>1. (Complete <=> Complete') /\ (Whole <=> Whole')
      BY <1>0, <1>2 DEF Complete, Whole
    <2>2. row'["thumbprint"].value = row["thumbprint"].value
      BY <1>0, <1>2
    <2>3. ASSUME NEW d \in Desks PROVE SeenByDesk(d)'
      <3>1. CASE desk[d] = Idle
        BY <3>1 DEF SeenByDesk
      <3>2. CASE desk[d] # Idle
        BY <2>1, <2>2, <3>2 DEF SeenByDesk, At
      <3> QED
        BY <3>1, <3>2
    <2>4. Installed'
      BY <2>1, <2>2 DEF Installed, At
    <2> QED
      BY <2>3, <2>4
  <1> QED
    BY <1>1, <1>2

\* A launch or a synchronisation that reads the rows reads one certificate.
LEMMA SigningIsWhole ==
    ASSUME Sound, Certificate, Apart, cut = 0, made.foreign = {}, Serving, SigningOn
    PROVE  /\ Complete /\ Whole
           /\ \A p \in Pieces : Read(p) = row["thumbprint"].value
  <1>1. Complete
    BY ConfiguredIsComplete DEF SigningOn, Sound
  <1>2. Whole
    <2>1. CASE ~Generating
      BY <2>1 DEF Certificate, FirstCertificate
    <2>2. CASE Generating
      <3>1. PICK q \in Requests : Generates(q)
        BY <2>2 DEF Generating
      <3>2. Pieces \cap DOMAIN request[q].left = {}
        BY <1>1, <3>1 DEF Certificate, FirstCertificate, Complete
      <3> QED
        BY <3>1, <3>2 DEF Certificate, Progress, Whole, Pieces
    <2> QED
      BY <2>1, <2>2
  <1>3. \A p \in Pieces : Read(p) = row[p].value
    BY ServingReads DEF Sound, Keys
  <1> QED
    BY <1>1, <1>2, <1>3 DEF Whole

LEMMA DesktopInstalls ==
    ASSUME Sound, Certificate, Apart, cut = 0, made.foreign = {}, Installed, \A d \in Desks : SeenByDesk(d),
           NEW d \in Desks,
           Launch(d) \/ Import(d) \/ Fetch(d) \/ Clean(d) \/ Install(d) \/ GiveUp(d)
    PROVE  Installed' /\ \A e \in Desks : SeenByDesk(e)'
  <1> DEFINE c == row["thumbprint"].value
  <1>0. row' = row
    BY DEF Launch, Import, Fetch, Clean, Install, GiveUp
  <1>1. ASSUME NEW next, Become(d, next)
        PROVE  desk'[d] = next /\ \A e \in Desks \ {d} : desk'[e] = desk[e]
    BY <1>1 DEF Become, Sound, TypeOK
  <1>2. ASSUME NEW e \in Desks, desk'[e] = desk[e] \/ desk'[e] = Idle
        PROVE  SeenByDesk(e)'
    BY <1>0, <1>2 DEF SeenByDesk, At, Complete, Whole
  <1>3. ASSUME NEW next, Become(d, next), trust' = trust,
               next = Idle \/ next.pc \in {"launch", "clean"}
        PROVE  Installed'
    <2>1. \A e \in Desks : desk'[e] = desk[e] \/ desk'[e].pc \notin {"root", "list"}
      BY <1>1, <1>3 DEF Idle
    <2> QED
      BY <1>0, <1>3, <2>1 DEF Installed, Complete, Whole, At
  <1>4. CASE Launch(d)
    <2> DEFINE next == [pc |-> "launch", thumbprint |-> Read("thumbprint"), pfx |-> Read("pfx")]
    <2>1. Become(d, next) /\ trust' = trust
      BY <1>4 DEF Launch
    <2>2. SeenByDesk(d)'
      <3>1. Complete /\ Whole /\ Read("thumbprint") = c /\ Read("pfx") = c
        BY <1>4, SigningIsWhole DEF Launch, Pieces
      <3> QED
        BY <1>0, <1>1, <2>1, <3>1 DEF SeenByDesk, At, Complete, Whole
    <2> QED
      BY <1>1, <1>2, <1>3, <2>1, <2>2
  <1>5. CASE Fetch(d)
    <2> DEFINE next == [pc |-> "clean", thumbprint |-> Read("thumbprint"), public |-> Read("public")]
    <2>1. Become(d, next) /\ trust' = trust
      BY <1>5 DEF Fetch
    <2>2. SeenByDesk(d)'
      <3>1. Complete /\ Whole /\ Read("thumbprint") = c /\ Read("public") = c
        BY <1>5, SigningIsWhole DEF Fetch, Pieces
      <3> QED
        BY <1>0, <1>1, <2>1, <3>1 DEF SeenByDesk, At, Complete, Whole
    <2> QED
      BY <1>1, <1>2, <1>3, <2>1, <2>2
  <1>6. CASE Import(d) \/ GiveUp(d)
    <2>1. Become(d, Idle) /\ trust' = trust
      BY <1>6 DEF Import, GiveUp
    <2> QED
      BY <1>1, <1>2, <1>3, <2>1
  <1>7. CASE Clean(d)
    <2>1. desk[d].public = c /\ Complete /\ Whole
      BY <1>7 DEF SeenByDesk, Clean, At, Idle
    <2>2. \A s \in Stores : trust[s] \cap ({desk[d].public} \cup made.foreign) = trust[s]
      BY <2>1 DEF Installed
    <2>3. \A s \in Stores : trust'[s] = trust[s]
      BY <1>7, <2>2 DEF Clean, Stores
    <2>4. desk[d] \in [pc : {"clean", "leaf", "root", "list"},
                       thumbprint : Readings, public : Readings]
      BY <1>7, DeskShape DEF Clean, At, Idle, Sound
    <2>5. desk'[d] = [desk[d] EXCEPT !.pc = "leaf"] \/ desk'[d] = Idle
      BY <1>1, <1>7 DEF Clean
    <2>6. \A e \in Desks \ {d} : desk'[e] = desk[e]
      BY <1>1, <1>7 DEF Clean
    <2>7. SeenByDesk(d)'
      <3>1. CASE desk'[d] = [desk[d] EXCEPT !.pc = "leaf"]
        <4>1. /\ desk'[d].pc = "leaf" /\ desk'[d].public = desk[d].public
              /\ desk'[d].thumbprint = desk[d].thumbprint
          BY <2>4, <3>1
        <4>2. desk[d].thumbprint = c
          BY <1>7 DEF SeenByDesk, Clean, At, Idle
        <4> QED
          BY <1>0, <2>1, <4>1, <4>2 DEF SeenByDesk, At, Complete, Whole
      <3> QED
        BY <1>2, <2>5, <3>1
    <2>8. Installed'
      <3>1. desk'[d].pc \notin {"root", "list"}
        BY <2>4, <2>5 DEF Idle
      <3> QED
        BY <1>0, <2>1, <2>3, <2>6, <3>1 DEF Installed, Stores, Complete, Whole, At
    <2> QED
      BY <1>2, <2>6, <2>7, <2>8
  <1>8. CASE Install(d)
    <2>1. /\ desk[d].pc \in {"leaf", "root", "list"}
          /\ desk[d] \in [pc : {"clean", "leaf", "root", "list"},
                          thumbprint : Readings, public : Readings]
      BY <1>8, DeskShape DEF Install, Idle, Sound
    <2>2. desk[d].public = c /\ desk[d].thumbprint = c /\ Complete /\ Whole
      BY <2>1 DEF SeenByDesk, At, Idle
    <2>3. \A e \in Desks \ {d} : desk'[e] = desk[e]
      BY <1>1, <1>8 DEF Install
    <2>4. desk'[d] = After(d, desk[d].pc, InstallOrder)
      BY <1>1, <1>8 DEF Install
    <2>5. desk[d].pc \in {"root", "list"} => c \in trust.leaf
      BY <2>2 DEF Installed
    <2>6. desk[d].pc = "list" => c \in trust.root
      BY <2>2 DEF Installed, At
    <2>7. SeenByDesk(d)'
      <3>1. \/ desk'[d] = Idle
            \/ /\ desk'[d].pc \in {"root", "list"} /\ desk'[d] # Idle
               /\ desk'[d].public = c /\ desk'[d].thumbprint = c
        BY <2>1, <2>2, <2>4 DEF After, InstallOrder, Idle
      <3> QED
        BY <1>0, <1>2, <2>2, <3>1 DEF SeenByDesk, At, Complete, Whole
    <2>8. /\ \A s \in Stores : trust'[s] \subseteq {c}
          /\ \A s \in Stores : trust[s] \subseteq trust'[s]
          /\ trust'.listed \subseteq trust'.leaf \cap trust'.root
          /\ desk[d].pc = "leaf" => c \in trust'.leaf
          /\ desk[d].pc = "root" => c \in trust'.root
      <3>0. /\ trust \in [Stores -> SUBSET Readings]
            /\ \A s \in Stores : trust[s] \subseteq {c}
            /\ trust.listed \subseteq trust.leaf \cap trust.root
        BY DEF Installed, Stores, Sound, TypeOK
      <3>1. CASE desk[d].pc = "leaf"
        <4>1. trust' = [trust EXCEPT !.leaf = @ \cup {c}]
          BY <1>8, <2>2, <3>1 DEF Install, At
        <4> QED
          BY <3>0, <3>1, <4>1 DEF Stores
      <3>2. CASE desk[d].pc = "root"
        <4>1. trust' = [trust EXCEPT !.root = @ \cup {c}]
          BY <1>8, <2>2, <3>2 DEF Install, At
        <4> QED
          BY <3>0, <3>2, <4>1 DEF Stores
      <3>3. CASE desk[d].pc = "list"
        <4>1. trust' = [trust EXCEPT !.listed = @ \cup {c}]
          BY <1>8, <2>2, <3>3 DEF Install, At
        <4> QED
          BY <2>5, <2>6, <3>0, <3>3, <4>1 DEF Stores
      <3> QED
        BY <2>1, <3>1, <3>2, <3>3
    <2>9. \A e \in Desks :
            /\ desk'[e].pc \in {"root", "list"} => desk'[e].public \in trust'.leaf
            /\ desk'[e].pc = "list" => desk'[e].public \in trust'.root
      <3>1. ASSUME NEW e \in Desks \ {d}
            PROVE  /\ desk'[e].pc \in {"root", "list"} => desk'[e].public \in trust'.leaf
                   /\ desk'[e].pc = "list" => desk'[e].public \in trust'.root
        BY <2>3, <2>8 DEF Installed, Stores, At
      <3>2. desk[d].pc = "leaf" => desk'[d].pc = "root" /\ desk'[d].public = c
        BY <2>1, <2>2, <2>4 DEF After, InstallOrder
      <3>3. desk[d].pc = "root" => desk'[d].pc = "list" /\ desk'[d].public = c
        BY <2>1, <2>2, <2>4 DEF After, InstallOrder
      <3>4. desk[d].pc = "list" => desk'[d].pc = "idle"
        BY <2>1, <2>2, <2>4 DEF After, InstallOrder, Idle
      <3> QED
        BY <2>1, <2>5, <2>8, <3>1, <3>2, <3>3, <3>4 DEF Stores
    <2> QED
      BY <1>0, <1>2, <2>2, <2>3, <2>7, <2>8, <2>9 DEF Installed, Complete, Whole, At
  <1> QED
    BY <1>4, <1>5, <1>6, <1>7, <1>8

LEMMA OneCertificateStep ==
    ASSUME Sound, Certificate, OneCertificate, [Next]_vars
    PROVE  OneCertificate'
  <1> SUFFICES ASSUME cut' = 0, made'.foreign = {}, Apart
               PROVE  Installed' /\ \A d \in Desks : SeenByDesk(d)'
    BY DEF OneCertificate
  <1>1. cut \in Nat
    BY BoundsAssumption DEF Sound, TypeOK
  <1>2. cut = 0
    <2>1. \A q \in Requests : Abort(q) => cut' = cut \/ cut' = cut + 1
      BY DEF Abort
    <2>2. cut' = cut \/ cut' = cut + 1
      BY <2>1 DEF Next, Starting, Start, UpgradeRow, ListenAtOnce, Stop, Serve, BeginGenerate,
             BeginUpdate, WriteRow, Desktop, Launch, Import, Fetch, Clean, Install, GiveUp, vars
    <2> QED
      BY <1>1, <2>2
  <1>f. made.foreign = {}
    BY DEF Next, Starting, Start, UpgradeRow, ListenAtOnce, Stop, Serve, BeginGenerate,
           BeginUpdate, WriteRow, Abort, Desktop, Launch, Import, Fetch, Clean, Install, GiveUp,
           vars, Sound, TypeOK
  <1>3. Installed /\ \A d \in Desks : SeenByDesk(d)
    BY <1>2, <1>f DEF OneCertificate
  <1>4. CASE Desktop
    BY <1>2, <1>f, <1>3, <1>4, DesktopInstalls DEF Desktop
  <1>5. CASE ~Desktop
    <2>1. UNCHANGED <<desk, trust>>
      BY <1>5 DEF Next, Starting, Start, UpgradeRow, ListenAtOnce, Stop, Serve, BeginGenerate,
             BeginUpdate, WriteRow, Abort, vars
    <2>2. ~Complete \/ \A p \in Pieces : row'[p].value = row[p].value
      <3>1. CASE Aside
        BY <3>1 DEF Aside
      <3>2. ASSUME NEW q \in Requests, NEW r \in Replicas, BeginGenerate(q, r)
            PROVE  row' = row
        BY <3>2 DEF BeginGenerate
      <3>3. ASSUME NEW q \in Requests, request[q].pc = "generate",
                   NEW k \in DOMAIN request[q].left, WriteRow(q, k)
            PROVE  ~Complete \/ \A p \in Pieces : row'[p].value = row[p].value
        <4>1. \A s \in Pieces \ {k} : row'[s] = row[s]
          BY <3>3, OneRowWritten DEF Sound, Keys, Free
        <4>2. CASE k \in Pieces
          BY <1>2, <1>f, <3>3, <4>2 DEF Certificate, FirstCertificate, Generates, Complete
        <4> QED
          BY <4>1, <4>2
      <3>4. ASSUME NEW q \in Requests, request[q].pc = "generate", Abort(q)
            PROVE  FALSE
        BY <1>1, <3>4 DEF Abort
      <3> QED
        BY <3>1, <3>2, <3>3, <3>4, OtherSteps
    <2> QED
      BY <1>3, <2>1, <2>2, NothingNewToSee DEF Sound
  <1> QED
    BY <1>4, <1>5

SettingsInv == Sound /\ Certificate /\ OneCertificate

LEMMA SettingsAlways == Spec => []SettingsInv
  <1>1. Init => SettingsInv
    BY InitTypes, InitCertificate DEF SettingsInv, Sound, Init, Opened
  <1>2. SettingsInv /\ [Next]_vars => SettingsInv'
    <2>1. Sound /\ [Next]_vars => Sound'
      BY TypeStep, ServedStep, HeldStep, LayeredStep, OpenedStep DEF Sound
    <2> QED
      BY <2>1, CertificateStep, OneCertificateStep DEF SettingsInv
  <1> QED
    BY <1>1, <1>2, PTL DEF Spec

\* Rows of a certificate that are all there are of one certificate, as long as
\* generations do not overlap and one of them at most was cut off, or none where one
\* had a certificate of another subject to replace (rdp_signing.go:77): for any
\* number of replicas, requests and further settings written in between.
THEOREM CertificateStaysWhole == Spec => []TheCertificateIsWhole
  <1>1. SettingsInv => TheCertificateIsWhole
    <2>1. SettingsInv /\ Configured => Complete
      BY ConfiguredIsComplete DEF SettingsInv, Sound
    <2> QED
      BY <2>1 DEF SettingsInv, Certificate, MixedIsIncomplete, Generating, Generates, Whole,
                  TheCertificateIsWhole
  <1> QED
    BY <1>1, SettingsAlways, PTL

\* What a desktop lists it has in both stores, and a launch has the key it signs
\* with (setup.go:43, launcher.go:492): for any number of desktops, installations
\* interrupted anywhere and synchronisations among them.
THEOREM ListedIsInstalled == Spec => []ListedMeansInstalled
  <1>1. SettingsInv => ListedMeansInstalled
    BY DEF SettingsInv, OneCertificate, Installed, SeenByDesk, At, Idle, ListedMeansInstalled
  <1> QED
    BY <1>1, SettingsAlways, PTL
=============================================================================
