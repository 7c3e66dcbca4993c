------------------------------- MODULE Launch -------------------------------
(***************************************************************************)
(* One person's launches from one Windows desktop: the backend's ticket    *)
(* (resources/launch.go, launch_tickets.go) and the launcher that redeems  *)
(* it and hands the credential to the native client (launcher/).  How the  *)
(* signing certificate comes about is the subject of Settings.             *)
(*                                                                         *)
(* The ticket waits in the memory of the backend.  The launcher's bridge   *)
(* serves launches concurrently; each is a sequence of commands on the     *)
(* desktop's own stores - credentials, profile files - any of which can    *)
(* fail and none of which is undone.  A launch that the access-workspace:  *)
(* protocol starts runs in a process of its own, which ends when the       *)
(* client has started.  Every connection has a login, and all RDP          *)
(* connections are to one host.  A launch may carry no secret: the         *)
(* credential asks for it, or has none.                                    *)
(***************************************************************************)
EXTENDS Naturals

CONSTANTS
    Rdp, Ssh,         \* connections of the two kinds
    Tickets,          \* launch tickets; an id is a fresh UUID
    Launches,         \* launch slots of the desktop
    Ways,             \* how launches arrive, of {"bridge", "protocol"}
    MaxCerts          \* certificates that are ever configured

VARIABLES
    certificate, \* the signing certificate that is configured, the newest one
    override,    \* whether a personal password overrides a connection's own
    tickets,     \* the backend's ticket store
    served,      \* history: tickets whose payload was sent
    launch,      \* launches in progress
    stored,      \* whose login Credential Manager holds for the host
    files,       \* launches whose SSH session file is on disk
    profile,     \* the .rdp file of each connection
    marker,      \* the thumbprint noted beside each profile
    muddled,     \* history: connections whose profile was signed out of turn
    left         \* history: a secret was stored and nobody will remove it

backend == <<certificate, override, tickets, served>>
desktop == <<launch, stored, files, profile, marker, muddled, left>>
launchVars == <<certificate, override, tickets, served,
          launch, stored, files, profile, marker, muddled, left>>

----------------------------------------------------------------------------
Connections == Rdp \cup Ssh
Certs == 1..MaxCerts
None == 0                      \* no certificate
NoLogin == "nobody"
Logins == {"own", "override"}  \* the connection's credential or the override's

\* The state of a connection's override: unset, or of a password object that is
\* the person's own, shared with them, or no longer theirs to see.
Overrides == {"unset", "mine", "shared", "hidden"}

Payload == [connection : Connections, login : Logins, secret : BOOLEAN,
            thumbprint : Certs \cup {None}]

Unissued == [state |-> "unissued"]
Gone == [state |-> "gone"]
Late == [state |-> "late"]     \* its payload will not be sent
Ticket == {Unissued, Late, Gone} \cup [state : {"live"}, payload : Payload]

Idle == [pc |-> "idle"]
NoProfile == [login |-> NoLogin, signer |-> None]

\* Between the first command on the desktop's stores and the client.  `alone` is
\* history: no other launch has worked there or cleared up in the meantime.
Working == {"stored", "signing", "marking"}

Slot ==
    {Idle}
    \cup [pc : {"handed"}, way : Ways, ticket : Tickets]
    \cup [pc : {"resolved", "filed", "session"}, way : Ways, payload : Payload]
    \cup [pc : Working, way : Ways, payload : Payload, sign : BOOLEAN, alone : BOOLEAN]
    \cup [pc : {"open"}, way : Ways]

ASSUME ConnectionsAssumption == Rdp \cap Ssh = {}
ASSUME WaysAssumption == Ways \subseteq {"bridge", "protocol"}
ASSUME BoundsAssumption == MaxCerts \in Nat

----------------------------------------------------------------------------
(* Launching in the backend (resources/launch.go) *)

\* applyConnectionCredentialOverride: whatever is wrong with the override, the
\* launch falls back to the connection's own credential.
Applied(c) == IF override[c] \in {"mine", "shared"} THEN "override" ELSE "own"

\* GetConnectionCredentialOverride
Shown(c) ==
    CASE override[c] = "unset" -> "own"
      [] override[c] = "hidden" -> "own"
      [] OTHER -> "override"

\* SetConnectionCredentialOverride takes a personal password of the person's.
SetOverride(c) ==
    /\ override' = [override EXCEPT ![c] = "mine"]
    /\ UNCHANGED <<certificate, tickets, served>>
    /\ UNCHANGED desktop

\* It is cleared, or the password is deleted and the row with it.
ClearOverride(c) ==
    /\ override[c] # "unset"
    /\ override' = [override EXCEPT ![c] = "unset"]
    /\ UNCHANGED <<certificate, tickets, served>>
    /\ UNCHANGED desktop

\* Its owner shares the password or takes it back; somebody else makes it theirs.
ChangePassword(c) ==
    /\ \E to \in {"mine", "hidden"} :
          \/ override[c] = "mine" /\ override' = [override EXCEPT ![c] = "shared"]
          \/ override[c] = "shared" /\ override' = [override EXCEPT ![c] = to]
    /\ UNCHANGED <<certificate, tickets, served>>
    /\ UNCHANGED desktop

\* Another certificate is configured; see Settings.
NewCertificate ==
    /\ certificate < MaxCerts
    /\ certificate' = certificate + 1
    /\ UNCHANGED <<override, tickets, served>>
    /\ UNCHANGED desktop

\* An administrator may have switched signing off; resolveLaunchSecret may find
\* no secret to send.
PayloadsFor(c) ==
    [connection : {c}, login : {Applied(c)}, secret : BOOLEAN,
     thumbprint : IF c \in Rdp THEN {certificate, None} ELSE {None}]

\* Issue sweeps what is too old.
Swept == [t \in Tickets |-> IF tickets[t] = Late THEN Gone ELSE tickets[t]]

Issue(t, c) ==
    /\ tickets[t] = Unissued
    /\ \E payload \in PayloadsFor(c) :
          tickets' = [Swept EXCEPT ![t] = [state |-> "live", payload |-> payload]]
    /\ UNCHANGED <<certificate, override, served>>
    /\ UNCHANGED desktop

\* Two minutes have passed.
Lapse(t) ==
    /\ tickets[t].state = "live"
    /\ tickets' = [tickets EXCEPT ![t] = Late]
    /\ UNCHANGED <<certificate, override, served>>
    /\ UNCHANGED desktop

\* The replica stops, and its tickets go with it.
RestartBackend ==
    /\ tickets' = [t \in Tickets |->
                      IF tickets[t] = Unissued THEN Unissued ELSE Gone]
    /\ UNCHANGED <<certificate, override, served>>
    /\ UNCHANGED desktop

----------------------------------------------------------------------------
(* Redeeming (api/handlers_launcher.go, launcher.go) *)

At(l, pc) == launch[l].pc = pc
Become(l, next) == launch' = [launch EXCEPT ![l] = next]
Moved(l, pc) == Become(l, [launch[l] EXCEPT !.pc = pc])

\* The page hands the launcher a ticket; nothing keeps it from doing so twice.
Hand(l, t, way) ==
    /\ launch[l] = Idle
    /\ l \notin files
    /\ tickets[t] # Unissued
    /\ Become(l, [pc |-> "handed", way |-> way, ticket |-> t])
    /\ UNCHANGED backend
    /\ UNCHANGED <<stored, files, profile, marker, muddled, left>>

\* 412: the launcher is older than the newest one published, as far as the
\* backend knows.  The ticket waits for the upgrade.
RefuseOutdated(l) ==
    /\ At(l, "handed")
    /\ Become(l, Idle)
    /\ UNCHANGED backend
    /\ UNCHANGED <<stored, files, profile, marker, muddled, left>>

\* Variant: the record is looked at and stays where it is.
ResolveKeeping(l) ==
    LET t == launch[l].ticket
    IN  /\ At(l, "handed")
        /\ tickets[t].state = "live"
        /\ served' = served \cup {t}
        /\ Become(l, [pc |-> "resolved", way |-> launch[l].way,
                      payload |-> tickets[t].payload])
        /\ UNCHANGED <<certificate, override, tickets>>
        /\ UNCHANGED <<stored, files, profile, marker, muddled, left>>

\* Redeem takes the record out and then looks at its time.  The answer may be
\* lost on its way; the launcher does not ask again.
Resolve(l) ==
    LET t == launch[l].ticket
    IN  /\ At(l, "handed")
        /\ \/ /\ tickets[t].state = "live"
              /\ served' = served \cup {t}
              /\ \/ Become(l, [pc |-> "resolved", way |-> launch[l].way,
                               payload |-> tickets[t].payload])
                 \/ Become(l, Idle)
           \/ /\ tickets[t].state # "live"
              /\ Become(l, Idle)
              /\ UNCHANGED served
        /\ tickets' = [tickets EXCEPT ![t] = Gone]
        /\ UNCHANGED <<certificate, override>>
        /\ UNCHANGED <<stored, files, profile, marker, muddled, left>>

----------------------------------------------------------------------------
(* RDP on Windows (rdp_windows.go, launcher.go) *)

Works(l) == launch[l].pc \in Working
OthersWork(l) == \E m \in Launches \ {l} : Works(m)

\* Launch l, doing something to the stores, goes on as next; whoever else is at
\* work there is not alone any more.
Disturbing(l, next) ==
    launch' = [m \in Launches |->
                  IF m = l THEN next
                  ELSE IF Works(m) THEN [launch[m] EXCEPT !.alone = FALSE]
                  ELSE launch[m]]

\* cmdkey, for the host's targets and the gateway, if there is a secret
StoreCredential(l) ==
    LET payload == launch[l].payload
    IN  /\ At(l, "resolved")
        /\ payload.connection \in Rdp
        /\ stored' = IF payload.secret THEN payload.login ELSE stored
        /\ Disturbing(l, [pc |-> "stored", way |-> launch[l].way, payload |-> payload,
                          sign |-> FALSE, alone |-> ~OthersWork(l)])
        /\ UNCHANGED backend
        /\ UNCHANGED <<files, profile, marker, muddled, left>>

\* rdpProfileSignerChanged
SignerChanged(payload) ==
    payload.thumbprint # None /\ marker[payload.connection] # payload.thumbprint

\* Variant: a profile that matches is not signed again.
WriteProfileOnce(l) ==
    LET payload == launch[l].payload
        c == payload.connection
        matches == profile[c].login = payload.login
    IN  /\ At(l, "stored")
        /\ profile' = IF matches THEN profile
                      ELSE [profile EXCEPT ![c] = [login |-> payload.login, signer |-> None]]
        /\ muddled' = IF matches THEN muddled ELSE muddled \ {c}
        /\ Become(l, [launch[l] EXCEPT !.pc = "signing", !.sign = ~matches])
        /\ UNCHANGED backend
        /\ UNCHANGED <<stored, files, marker, left>>

\* writeRDPProfile: a profile that matches is kept, and signed again unless it
\* carries a signature and its marker names the signer.
WriteProfile(l) ==
    LET payload == launch[l].payload
        c == payload.connection
        matches == profile[c].login = payload.login
    IN  /\ At(l, "stored")
        /\ profile' = IF matches THEN profile
                      ELSE [profile EXCEPT ![c] = [login |-> payload.login, signer |-> None]]
        /\ muddled' = IF matches THEN muddled ELSE muddled \ {c}
        /\ Become(l, [launch[l] EXCEPT !.pc = "signing",
                          !.sign = ~matches \/ profile[c].signer = None
                                            \/ SignerChanged(payload)])
        /\ UNCHANGED backend
        /\ UNCHANGED <<stored, files, marker, left>>

NeedsSignature(l) == launch[l].sign /\ launch[l].payload.thumbprint # None

\* rdpsign.  Out of turn is what another launch may be at as well, and what is
\* older than the signature noted: cut off here, it leaves a note of a later one.
Sign(l) ==
    LET payload == launch[l].payload
        c == payload.connection
    IN  /\ At(l, "signing")
        /\ NeedsSignature(l)
        /\ profile' = [profile EXCEPT ![c].signer = payload.thumbprint]
        /\ muddled' = IF launch[l].alone /\ payload.thumbprint >= marker[c]
                      THEN muddled ELSE muddled \cup {c}
        /\ Moved(l, "marking")
        /\ UNCHANGED backend
        /\ UNCHANGED <<stored, files, marker, left>>

Mark(l) ==
    /\ At(l, "marking")
    /\ marker' = [marker EXCEPT ![launch[l].payload.connection] = launch[l].payload.thumbprint]
    /\ Become(l, [launch[l] EXCEPT !.pc = "signing", !.sign = FALSE])
    /\ UNCHANGED backend
    /\ UNCHANGED <<stored, files, profile, muddled, left>>

\* Whatever signing there was to do is done.
Opens(l) ==
    /\ At(l, "signing")
    /\ ~NeedsSignature(l)

\* Variant: no clean-up is scheduled.
OpenAndForget(l) ==
    /\ Opens(l)
    /\ Become(l, Idle)
    /\ UNCHANGED left
    /\ UNCHANGED backend
    /\ UNCHANGED <<stored, files, profile, marker, muddled>>

\* mstsc starts.  The clean-up is a timer of this process, which a launch by
\* protocol does not outlive; without a secret there is nothing to clean up.
OpenClient(l) ==
    LET secret == launch[l].payload.secret
    IN  /\ Opens(l)
        /\ \/ /\ launch[l].way = "bridge" /\ secret
              /\ Become(l, [pc |-> "open", way |-> "bridge"])
              /\ UNCHANGED left
           \/ /\ launch[l].way = "protocol" \/ ~secret
              /\ Become(l, Idle)
              /\ left' = (left \/ secret)
        /\ UNCHANGED backend
        /\ UNCHANGED <<stored, files, profile, marker, muddled>>

\* clearRDPCredentialsLater, ten minutes on: the targets go, whoever's they are.
ClearCredential(l) ==
    /\ At(l, "open")
    /\ stored' = NoLogin
    /\ Disturbing(l, Idle)
    /\ UNCHANGED backend
    /\ UNCHANGED <<files, profile, marker, muddled, left>>

----------------------------------------------------------------------------
(* SSH (ssh_windows.go, ssh_shared.go, main.go) *)

\* runSSHPlatform: without a secret the native client starts and asks.
WriteSession(l) ==
    /\ At(l, "resolved")
    /\ launch[l].payload.connection \in Ssh
    /\ \/ /\ launch[l].payload.secret
          /\ files' = files \cup {l}
          /\ Moved(l, "filed")
       \/ /\ ~launch[l].payload.secret
          /\ Become(l, Idle)
          /\ UNCHANGED files
    /\ UNCHANGED backend
    /\ UNCHANGED <<stored, profile, marker, muddled, left>>

\* The launcher once more, in a console of its own.
StartSession(l) ==
    /\ At(l, "filed")
    /\ \/ /\ Moved(l, "session")
          /\ UNCHANGED files
       \/ /\ Become(l, Idle)
          /\ files' = files \ {l}
    /\ UNCHANGED backend
    /\ UNCHANGED <<stored, profile, marker, muddled, left>>

\* It decodes the file and removes it before it connects.
ReadSession(l) ==
    /\ At(l, "session")
    /\ files' = files \ {l}
    /\ Become(l, Idle)
    /\ UNCHANGED backend
    /\ UNCHANGED <<stored, profile, marker, muddled, left>>

----------------------------------------------------------------------------
(* What goes wrong on the desktop *)

\* What is stored when a launch ends here stays: nothing is undone.
Abandons(l) ==
    \/ Works(l) /\ launch[l].payload.secret
    \/ At(l, "open")
    \/ l \in files

\* A command fails, the host cannot be reached, the bridge refuses the request.
Fail(l) ==
    /\ launch[l].pc \notin {"idle", "filed", "open"}
    /\ left' = (left \/ Abandons(l))
    /\ Become(l, Idle)
    /\ UNCHANGED backend
    /\ UNCHANGED <<stored, files, profile, marker, muddled>>

\* The bridge ends, by log-off or by the installer, with every launch it serves.
StopBridge ==
    /\ LET cut == {l \in Launches : launch[l].pc \notin {"idle", "session"}
                                         /\ launch[l].way = "bridge"}
       IN  /\ launch' = [l \in Launches |-> IF l \in cut THEN Idle ELSE launch[l]]
           /\ left' = (left \/ \E l \in cut : Abandons(l))
    /\ UNCHANGED backend
    /\ UNCHANGED <<stored, files, profile, marker, muddled>>

----------------------------------------------------------------------------
LaunchInit ==
    /\ certificate = None
    /\ override = [c \in Connections |-> "unset"]
    /\ tickets = [t \in Tickets |-> Unissued]
    /\ served = {}
    /\ launch = [l \in Launches |-> Idle]
    /\ stored = NoLogin
    /\ files = {}
    /\ profile = [c \in Rdp |-> NoProfile]
    /\ marker = [c \in Rdp |-> None]
    /\ muddled = {}
    /\ left = FALSE

Backend ==
    \/ \E c \in Connections : SetOverride(c) \/ ClearOverride(c) \/ ChangePassword(c)
    \/ \E t \in Tickets : Lapse(t) \/ \E c \in Connections : Issue(t, c)
    \/ RestartBackend
    \/ NewCertificate

\* The steps of a launch that is under way.
Step(l) ==
    \/ RefuseOutdated(l) \/ Resolve(l)
    \/ StoreCredential(l) \/ WriteProfile(l)
    \/ Sign(l) \/ Mark(l) \/ OpenClient(l)
    \/ WriteSession(l) \/ StartSession(l) \/ ReadSession(l)

Desktop ==
    \/ \E l \in Launches :
          \/ \E t \in Tickets, way \in Ways : Hand(l, t, way)
          \/ Step(l)
          \/ ClearCredential(l)
          \/ Fail(l)
    \/ StopBridge

LaunchNext == Backend \/ Desktop

LaunchSpec == LaunchInit /\ [][LaunchNext]_launchVars

\* A launch that is under way goes on or fails (every call it waits for has a
\* time limit, except the elevation prompt, which somebody answers); the timer of
\* a running bridge fires.
Fairness ==
    \A l \in Launches :
        /\ WF_launchVars(Step(l) \/ Fail(l))
        /\ SF_launchVars(ClearCredential(l))

FairSpec == LaunchSpec /\ Fairness

----------------------------------------------------------------------------
LaunchTypeOK ==
    /\ certificate \in Certs \cup {None}
    /\ override \in [Connections -> Overrides]
    /\ tickets \in [Tickets -> Ticket]
    /\ served \subseteq Tickets
    /\ launch \in [Launches -> Slot]
    /\ stored \in Logins \cup {NoLogin}
    /\ files \subseteq Launches
    /\ profile \in [Rdp -> [login : Logins \cup {NoLogin}, signer : Certs \cup {None}]]
    /\ marker \in [Rdp -> Certs \cup {None}]
    /\ muddled \subseteq Connections
    /\ left \in BOOLEAN

\* A ticket becomes one launch at most, within its time, however often it is
\* handed over, answered or lost (launch_tickets.go:46), and what it carries is
\* the credential that the connection's page shows, whatever became of the
\* override (GetConnectionCredentialOverride, applyConnectionCredentialOverride).
OneLaunchAsShown ==
    [][/\ \A l \in Launches :
             At(l, "handed") /\ launch'[l].pc = "resolved" =>
                 /\ launch[l].ticket \notin served
                 /\ tickets[launch[l].ticket].state = "live"
                 /\ launch'[l].payload = tickets[launch[l].ticket].payload
       /\ \A t \in Tickets, c \in Connections :
             Issue(t, c) => tickets'[t].payload.login = Shown(c)]_launchVars

\* A client finds the profile of its own launch, the credential if the launch
\* carries one and, where it was to be signed, a signature of that certificate or a
\* later one, whatever launches before it failed, overlapped or left behind - if
\* no other launch worked on the stores or cleared them in the meantime, and the
\* profile was not signed out of turn since it was written (writeRDPProfile,
\* signRDPProfile).
OpensAsSent ==
    [][\A l \in Launches :
          LET payload == launch[l].payload
              c == payload.connection
          IN  OpenClient(l) /\ launch[l].alone =>
                  /\ payload.secret => stored = payload.login
                  /\ profile[c].login = payload.login
                  /\ payload.thumbprint # None /\ c \notin muddled =>
                         profile[c].signer >= payload.thumbprint
      ]_launchVars

\* A secret that a launch has put on the desktop is one that a launch in progress
\* will remove, unless a launch was cut off after it had stored one
\* (clearRDPCredentialsLater, main.go:79).
EverySecretIsOwed ==
    \/ left
    \/ /\ stored # NoLogin =>
              \E l \in Launches : \/ Works(l) /\ launch[l].payload.secret
                                  \/ At(l, "open")
       /\ \A l \in files : launch[l].pc \in {"filed", "session"}

\* The hand-off of an RDP credential through Credential Manager is temporary
\* (rdp_windows.go:14, launcher/README.md:17).
HandoffIsTemporary == stored # NoLogin ~> stored = NoLogin
=============================================================================
