------------------------------ MODULE Settings ------------------------------
(***************************************************************************)
(* The administrator's settings (app/admin.go) and what hangs on them: the *)
(* RDP signing certificate (app/rdp_signing.go) and the trust a desktop    *)
(* puts in it (launcher/setup.go, install_windows.go).                     *)
(*                                                                         *)
(* A setting is a row of its own and rows are written one by one, outside  *)
(* any transaction; the secret ones are sealed.  A replica that starts     *)
(* brings the sealed rows into the current form while others serve         *)
(* requests.  The desktop installs the certificate in several commands,    *)
(* any of which can fail, from the configuration it fetched.               *)
(***************************************************************************)
EXTENDS Naturals

CONSTANTS
    Replicas,        \* backend processes
    Providers,       \* what wraps the key of an envelope: the local key, a Key Vault
    Local,           \* the local key, which every replica has
    Requests,        \* slots for administrators' requests
    Desks,           \* slots for what the launcher does on one desktop
    MaxCerts,        \* certificates ever made
    MaxSecrets,      \* values ever entered for the secret setting
    MaxCut,          \* generations that are cut off half-way
    Apart            \* generations do not overlap

VARIABLES
    row,       \* admin_settings
    replica,   \* what each replica is doing, the key provider it seals with, those it opens
    request,   \* requests in progress
    saved,     \* history: what was last entered or generated for each secret row
    made,      \* how many certificates and secrets there have been; certificates
               \* that were entered with a subject of their own
    cut,       \* history: generations that were cut off half-way
    sealers,   \* history: the providers replicas have sealed with
    desk,      \* launches and synchronisations of the desktop in progress
    known,     \* whether the launcher knows the workspace, from a launch
    keys,      \* certificates in the user's own store, with their keys
    trust      \* the machine's policy list and its publisher and root stores

server == <<row, replica, request, saved, made, cut, sealers>>
desktop == <<desk, known, keys, trust>>
vars == <<row, replica, request, saved, made, cut, sealers, desk, known, keys, trust>>

----------------------------------------------------------------------------
\* The certificate's rows: the PFX goes with its password, the leaf with the root
\* and the subject.
Pieces == {"thumbprint", "pfx", "public"}
Sealed == {"pfx", "secret"}
Keys == Pieces \cup {"enabled", "secret"}

None == 0
Certs == 1..MaxCerts
Values == 0..(MaxCerts + MaxSecrets)

\* How a value is stored: as entered, in the format before the envelopes, or in
\* an envelope whose key is wrapped by a provider; layers counts the
\* envelopes around it, two after an update that sealed what was sealed.
Form == {"plain", "v1"} \cup Providers
Stored == [value : Values, form : Form, layers : 0..2]

Plain(v) == [value |-> v, form |-> "plain", layers |-> 0]
Empty == Plain(None)

\* EncryptForStorage, for the rows encryptSetting seals
Seal(v, provider) == [value |-> v, form |-> provider, layers |-> 1]
Encrypted(k, v, provider) == IF k \in Sealed THEN Seal(v, provider) ELSE Plain(v)

\* openEnvelope: a replica has the key of the providers it registered at its start
\* (both layers of a value sealed twice are taken to be of one provider).
Opens(r, stored) == stored.form \in {"plain", "v1"} \cup replica[r].opens

\* DecryptFromStorage takes one layer off: what is left of two is not the value.
Garbage == MaxCerts + MaxSecrets + 1
Read(k) == IF row[k].layers = 2 THEN Garbage ELSE row[k].value

DecryptFully(stored) == stored.value

Down == [pc |-> "down"]
Up(r) == replica[r].pc = "up"

\* loadSettings fails as a whole when one of the sealed rows does not open.
Loads(r) == Up(r) /\ \A k \in Sealed : Opens(r, row[k])

Free == [pc |-> "free"]
Idle == [pc |-> "idle"]

ASSUME ProvidersAssumption == {"plain", "v1"} \cap Providers = {} /\ Local \in Providers
ASSUME BoundsAssumption ==
    /\ MaxCerts \in Nat \ {0} /\ MaxSecrets \in Nat \ {0} /\ MaxCut \in Nat
    /\ Apart \in BOOLEAN

----------------------------------------------------------------------------
(* A replica starts (UpgradeSecretSettings) *)

\* What a replica is configured to open: a Key Vault may be registered without
\* being the one it seals with, for the rows that are still wrapped by it.
Registered == {opens \in SUBSET Providers : Local \in opens}

Start(r, provider, opens) ==
    /\ replica[r] = Down
    /\ provider \in opens
    /\ replica' = [replica EXCEPT ![r] =
          [pc |-> "upgrading", provider |-> provider, opens |-> opens,
           pending |-> [k \in {s \in Sealed : row[s] # Empty} |-> row[k]]]]
    /\ sealers' = sealers \cup {provider}
    /\ UNCHANGED <<row, request, saved, made, cut>>
    /\ UNCHANGED desktop

Current(stored, provider) == stored.layers = 1 /\ stored.form = provider

\* Rewrapping and encrypting anew come to the same value in the same form.
Upgraded(stored, provider) == Seal(DecryptFully(stored), provider)

Listen(r, pending) ==
    IF DOMAIN pending = {}
    THEN [pc |-> "up", provider |-> replica[r].provider, opens |-> replica[r].opens]
    ELSE [replica[r] EXCEPT !.pending = pending]

Rest(r, k) == [s \in DOMAIN replica[r].pending \ {k} |-> replica[r].pending[s]]

\* Variant: the row is written whatever it holds by now.
UpgradeAnyRow(r, k) ==
    LET old == replica[r].pending[k]
    IN  /\ Opens(r, old)
        /\ row' = IF Current(old, replica[r].provider) THEN row
                  ELSE [row EXCEPT ![k] = Upgraded(old, replica[r].provider)]
        /\ replica' = [replica EXCEPT ![r] = Listen(r, Rest(r, k))]
        /\ UNCHANGED <<request, saved, made, cut, sealers>>
        /\ UNCHANGED desktop

\* A row is written only if it still holds what was read.  A replica that cannot
\* open one does not start: see Stop.
UpgradeRow(r, k) ==
    LET old == replica[r].pending[k]
    IN  /\ Opens(r, old)
        /\ row' = IF Current(old, replica[r].provider) \/ row[k] # old THEN row
                  ELSE [row EXCEPT ![k] = Upgraded(old, replica[r].provider)]
        /\ replica' = [replica EXCEPT ![r] = Listen(r, Rest(r, k))]
        /\ UNCHANGED <<request, saved, made, cut, sealers>>
        /\ UNCHANGED desktop

\* There was nothing to upgrade.
ListenAtOnce(r) ==
    /\ replica[r].pc = "upgrading"
    /\ DOMAIN replica[r].pending = {}
    /\ replica' = [replica EXCEPT ![r] = Listen(r, replica[r].pending)]
    /\ UNCHANGED <<row, request, saved, made, cut, sealers>>
    /\ UNCHANGED desktop

\* Whatever it was serving has ended with an error; see Abort.
Stop(r) ==
    /\ replica[r] # Down
    /\ \A q \in Requests : request[q] # Free => request[q].replica # r
    /\ replica' = [replica EXCEPT ![r] = Down]
    /\ UNCHANGED <<row, request, saved, made, cut, sealers>>
    /\ UNCHANGED desktop

----------------------------------------------------------------------------
(* Administrators' requests (Update, GenerateTestRDPSigningCertificate) *)

Configured == \A p \in Pieces : Read(p) # None

\* The subject goes with the leaf and the root.
Managed == Read("public") \notin made.foreign

\* A configured certificate of the workspace's own is kept.
BeginGenerate(q, r) ==
    /\ request[q] = Free /\ Loads(r)
    /\ ~(Configured /\ Managed) /\ made.certs < MaxCerts
    /\ Apart => \A other \in Requests : request[other].pc # "generate"
    /\ made' = [made EXCEPT !.certs = @ + 1]
    /\ request' = [request EXCEPT ![q] =
          [pc |-> "generate", replica |-> r,
           left |-> [k \in Pieces \cup {"enabled"} |->
                        IF k = "enabled" THEN 1 ELSE made.certs + 1]]]
    /\ UNCHANGED <<row, replica, saved, cut, sealers>>
    /\ UNCHANGED desktop

\* Whatever the form holds: signing on or off, a new secret or none; some of the
\* rows first, the secret last.
BeginUpdate(q, r) ==
    /\ request[q] = Free /\ Up(r)
    /\ \E enabled \in {{}, {0}, {1}}, secret \in BOOLEAN :
          /\ secret => made.secrets < MaxSecrets
          /\ enabled # {} \/ secret
          /\ made' = [made EXCEPT !.secrets = IF secret THEN @ + 1 ELSE @]
          /\ request' = [request EXCEPT ![q] =
                [pc |-> "update", replica |-> r,
                 left |-> [k \in (IF enabled = {} THEN {} ELSE {"enabled"})
                                   \cup (IF secret THEN {"secret"} ELSE {}) |->
                              IF k = "enabled" THEN CHOOSE e \in enabled : TRUE
                              ELSE MaxCerts + made.secrets + 1]]]
    /\ UNCHANGED <<row, replica, saved, cut, sealers>>
    /\ UNCHANGED desktop

Written(q, k) ==
    IF DOMAIN request[q].left = {k} THEN Free
    ELSE [request[q] EXCEPT !.left = [s \in DOMAIN @ \ {k} |-> @[s]]]

\* Variant: a row that has a value is left as it is.
WriteMissingRow(q, k) ==
    LET v == request[q].left[k]
        missing == request[q].pc = "generate" => Read(k) = None
    IN  /\ k = "secret" => "enabled" \notin DOMAIN request[q].left
        /\ row' = IF missing THEN [row EXCEPT ![k] =
                                      Encrypted(k, v, replica[request[q].replica].provider)]
                  ELSE row
        /\ saved' = IF missing /\ k \in Sealed THEN [saved EXCEPT ![k] = v] ELSE saved
        /\ request' = [request EXCEPT ![q] = Written(q, k)]
        /\ UNCHANGED <<replica, made, cut, sealers>>
        /\ UNCHANGED desktop

\* One row; a map's rows come in any order.
WriteRow(q, k) ==
    LET v == request[q].left[k]
    IN  /\ k = "secret" => "enabled" \notin DOMAIN request[q].left
        /\ row' = [row EXCEPT ![k] = Encrypted(k, v, replica[request[q].replica].provider)]
        /\ saved' = IF k \in Sealed THEN [saved EXCEPT ![k] = v] ELSE saved
        /\ request' = [request EXCEPT ![q] = Written(q, k)]
        /\ UNCHANGED <<replica, made, cut, sealers>>
        /\ UNCHANGED desktop

\* The statement fails, or the request's process ends.
Abort(q) ==
    /\ request[q] # Free
    /\ request[q].pc = "generate" => cut < MaxCut
    /\ cut' = IF request[q].pc = "generate" THEN cut + 1 ELSE cut
    /\ request' = [request EXCEPT ![q] = Free]
    /\ UNCHANGED <<row, replica, saved, made, sealers>>
    /\ UNCHANGED desktop

----------------------------------------------------------------------------
(* The desktop *)

Become(d, next) == desk' = [desk EXCEPT ![d] = next]
At(d, pc) == desk[d].pc = pc

\* buildLauncherPayload and GetRDPSigningPublic: one reading of all the rows
SigningOn == Read("enabled") = 1 /\ Configured
Serving == \E r \in Replicas : Loads(r)

\* A launch brings the thumbprint and the private package, and the workspace's
\* address (rememberWorkspaceBaseURL).
Launch(d) ==
    /\ desk[d] = Idle
    /\ Serving /\ SigningOn
    /\ known' = TRUE
    /\ Become(d, [pc |-> "launch", thumbprint |-> Read("thumbprint"), pfx |-> Read("pfx")])
    /\ UNCHANGED <<keys, trust>>
    /\ UNCHANGED server

\* ensureRDPSigningPrivateKeyImported: nothing is imported when there is a key
\* of that thumbprint.  A launch that signs goes on to SyncAgentPrerequisites.
Import(d) ==
    /\ At(d, "launch")
    /\ keys' = IF desk[d].thumbprint \in keys THEN keys ELSE keys \cup {desk[d].pfx}
    /\ Become(d, Idle)
    /\ UNCHANGED <<known, trust>>
    /\ UNCHANGED server

\* SyncAgentPrerequisites, on a timer and by launches: a thumbprint that is
\* listed is taken for installed.
Fetch(d) ==
    /\ desk[d] = Idle
    /\ known /\ Serving /\ SigningOn
    /\ Read("thumbprint") \notin trust.listed
    /\ Become(d, [pc |-> "clean", thumbprint |-> Read("thumbprint"), public |-> Read("public")])
    /\ UNCHANGED <<known, keys, trust>>
    /\ UNCHANGED server

\* cleanupMachineTestRDPSigningCertificates, one store and then the other: it
\* removes the workspace's own certificates, by their subject.
Clean(d) ==
    /\ At(d, "clean")
    /\ \E stores \in {{"leaf"}, {"leaf", "root"}} :
          /\ trust' = [s \in {"listed", "leaf", "root"} |->
                          IF s \in stores
                          THEN trust[s] \cap ({desk[d].public} \cup made.foreign)
                          ELSE trust[s]]
          /\ IF "root" \in stores THEN Become(d, [desk[d] EXCEPT !.pc = "leaf"])
             ELSE Become(d, Idle)
    /\ UNCHANGED <<known, keys>>
    /\ UNCHANGED server

After(d, pc, order) == IF order[pc] = "done" THEN Idle ELSE [desk[d] EXCEPT !.pc = order[pc]]

\* Variant: the thumbprint is listed before the root is there.
ListBeforeRoot == [leaf |-> "list", list |-> "root", root |-> "done"]

InstallOrder == [leaf |-> "root", root |-> "list", list |-> "done"]

\* addCertificateToMachineStore, twice, and addTrustedRDPPublisherThumbprintMachine
Install(d) ==
    /\ desk[d].pc \in {"leaf", "root", "list"}
    /\ trust' =
          CASE At(d, "leaf") -> [trust EXCEPT !.leaf = @ \cup {desk[d].public}]
            [] At(d, "root") -> [trust EXCEPT !.root = @ \cup {desk[d].public}]
            [] At(d, "list") -> [trust EXCEPT !.listed = @ \cup {desk[d].thumbprint}]
    /\ Become(d, After(d, desk[d].pc, InstallOrder))
    /\ UNCHANGED <<known, keys>>
    /\ UNCHANGED server

\* The approval is declined, a command fails, the launcher ends.
GiveUp(d) ==
    /\ desk[d] # Idle
    /\ Become(d, Idle)
    /\ UNCHANGED <<known, keys, trust>>
    /\ UNCHANGED server

----------------------------------------------------------------------------
\* The rows of an earlier version: nothing, or values in any form it left.
Left(v) ==
    {Empty, Plain(v), [value |-> v, form |-> "v1", layers |-> 1]}
        \cup [value : {v}, form : Providers, layers : {1, 2}]

Init ==
    /\ \E pfx \in Left(1), secret \in Left(MaxCerts + 1), own \in BOOLEAN :
          LET cert == pfx.value
          IN  /\ row = [k \in Keys |-> CASE k = "pfx" -> pfx
                                         [] k = "secret" -> secret
                                         [] k = "enabled" -> Plain(IF cert = None THEN 0 ELSE 1)
                                         [] OTHER -> Plain(cert)]
              /\ saved = [k \in Sealed |-> row[k].value]
              /\ made = [certs |-> cert, secrets |-> IF secret = Empty THEN 0 ELSE 1,
                         foreign |-> IF own THEN {} ELSE {cert} \ {None}]
    /\ replica = [r \in Replicas |-> Down]
    /\ request = [q \in Requests |-> Free]
    /\ cut = 0
    /\ sealers = {}
    /\ desk = [d \in Desks |-> Idle]
    /\ known = FALSE
    /\ keys = {}
    /\ trust = [s \in {"listed", "leaf", "root"} |-> {}]

Starting ==
    \E r \in Replicas :
        \/ \E provider \in Providers, opens \in Registered : Start(r, provider, opens)
        \/ /\ replica[r].pc = "upgrading"
           /\ \E k \in DOMAIN replica[r].pending : UpgradeRow(r, k)
        \/ ListenAtOnce(r)
        \/ Stop(r)

Serve ==
    \E q \in Requests :
        \/ \E r \in Replicas : BeginGenerate(q, r) \/ BeginUpdate(q, r)
        \/ /\ request[q] # Free
           /\ \E k \in DOMAIN request[q].left : WriteRow(q, k)
        \/ Abort(q)

Desktop ==
    \E d \in Desks : Launch(d) \/ Import(d) \/ Fetch(d) \/ Clean(d) \/ Install(d) \/ GiveUp(d)

Next == Starting \/ Serve \/ Desktop

Spec == Init /\ [][Next]_vars

----------------------------------------------------------------------------
\* Some of the keys, each with a value
Some(S, T) == UNION {[D -> T] : D \in SUBSET S}

Replica ==
    {Down} \cup [pc : {"upgrading"}, provider : Providers, opens : SUBSET Providers,
                 pending : Some(Sealed, Stored)]
           \cup [pc : {"up"}, provider : Providers, opens : SUBSET Providers]

Request ==
    {Free} \cup [pc : {"generate"}, replica : Replicas, left : Some(Pieces \cup {"enabled"}, Values)]
           \cup [pc : {"update"}, replica : Replicas, left : Some({"enabled", "secret"}, Values)]

Readings == Values \cup {Garbage}

Desk ==
    {Idle} \cup [pc : {"launch"}, thumbprint : Readings, pfx : Readings]
           \cup [pc : {"clean", "leaf", "root", "list"}, thumbprint : Readings, public : Readings]

TypeOK ==
    /\ row \in [Keys -> Stored]
    /\ saved \in [Sealed -> Values]
    /\ made \in [certs : 0..MaxCerts, secrets : 0..MaxSecrets, foreign : SUBSET Certs]
    /\ cut \in 0..MaxCut
    /\ sealers \subseteq Providers
    /\ known \in BOOLEAN
    /\ replica \in [Replicas -> Replica]
    /\ request \in [Requests -> Request]
    /\ desk \in [Desks -> Desk]
    /\ keys \subseteq Readings
    /\ trust \in [{"listed", "leaf", "root"} -> SUBSET Readings]

\* A replica that serves opens a sealed row as what was last entered or generated
\* for it, whatever form an earlier version left and however many replicas were
\* brought up in the meantime (UpgradeSecretSettings, admin.go:286), or not at all
\* (cipher.go:376): it opens every row unless another has sealed with a provider
\* that it was not given (app.go:117).
SecretsReadBack ==
    \A r \in Replicas : Up(r) =>
        \A k \in Sealed :
            /\ Opens(r, row[k]) => Read(k) = saved[k]
            /\ sealers \subseteq replica[r].opens => Opens(r, row[k])

\* With generations one after the other and one of them cut off at most - none
\* where there was a certificate of another subject to replace - a certificate that
\* is configured is one certificate, whole: nothing would ever replace a mixed one
\* (rdp_signing.go:77).
Spare == IF made.foreign = {} THEN 1 ELSE 0

TheCertificateIsWhole ==
    (Apart /\ cut <= Spare /\ Configured /\ \A q \in Requests : request[q].pc # "generate") =>
        \A p \in Pieces : row[p].value = row["thumbprint"].value

\* A certificate that a desktop lists is in both of its stores, so that a
\* synchronisation that stops there is right to (setup.go:43), and a launch that
\* has imported its package has the key it signs with (launcher.go:492) - unless
\* the rows of two certificates were mixed, by a generation cut off or by one that
\* replaced a certificate of another subject.
ListedMeansInstalled ==
    cut = 0 /\ made.foreign = {} /\ Apart =>
        /\ trust.listed \subseteq trust.leaf \cap trust.root
        /\ \A d \in Desks : At(d, "launch") => desk[d].pfx = desk[d].thumbprint
=============================================================================
