------------------------------ MODULE Sessions ------------------------------
(***************************************************************************)
(* Sign-in sessions (backend/internal/auth: service.go, sessions.go,       *)
(* repository.go, account.go): web sessions, browser-extension sessions,   *)
(* and the connect tokens that turn one into the other.                    *)
(*                                                                         *)
(* A request that issues something first reads whether its user is blocked *)
(* and writes its row later; an exchange takes the connect token in a      *)
(* transaction of its own before that; "sign out everywhere" finds the     *)
(* sessions in one statement and the connect tokens in a later one, and    *)
(* commits both.  Each statement is a step.  Time is the age of each row.  *)
(***************************************************************************)
EXTENDS Naturals

CONSTANTS
    Users,          \* accounts
    Tokens,         \* session tokens
    Connects,       \* extension connect tokens
    Installations,  \* browser-extension installations
    Requests,       \* request slots
    MaxResets,      \* bound on the resets of one account's vault
    NoRow, NoToken, NoConnect, NoInstallation

VARIABLES
    status,   \* app_users: absent, active or blocked
    vault,    \* which vault the account has, counted by its resets
    sess,     \* auth_sessions and browser_extension_sessions
    connect,  \* browser_extension_connect_tokens
    req,      \* the requests in flight
    revoked   \* history: connect tokens that a finished revocation was to end,
              \* and session tokens, if their rows are there all the same

tables == <<status, vault, sess, connect>>
vars == <<status, vault, sess, connect, req, revoked>>

----------------------------------------------------------------------------
Ages == {"live", "expired", "old"}   \* old: expired seven days ago
NoKey == 0
VaultKeys == 0 .. MaxResets + 1      \* 0: locked

\* What a row's request was overtaken by (history): a block after its check, or a
\* reset while it carried a key.
Crossings == SUBSET {"block", "reset"}

Session == [user : Users, inst : Installations \cup {NoInstallation},
            from : Connects \cup {NoConnect}, key : VaultKeys, age : Ages,
            crossed : Crossings]
Connect == [user : Users, key : VaultKeys, age : Ages, crossed : Crossings]

Idle == [pc |-> "idle"]
Issuing ==
    [pc : {"check", "session"}, kind : {"login"}, user : Users, crossed : Crossings]
    \cup [pc : {"check", "upsert", "session"}, kind : {"sso"}, user : Users,
          crossed : Crossings]
    \cup [pc : {"check", "token"}, kind : {"connect"}, user : Users, key : VaultKeys,
          crossed : Crossings]
    \cup [pc : {"check", "extension"}, kind : {"exchange"}, user : Users,
          key : VaultKeys, from : Connects, inst : Installations, crossed : Crossings]
Revoking ==
    [pc : {"sessions"}, kind : {"revoke"}, user : Users, keep : Tokens \cup {NoToken},
     found : SUBSET Tokens]   \* history: what there was when it began
    \cup [pc : {"tokens"}, kind : {"revoke"}, user : Users, doomed : SUBSET Tokens,
          found : SUBSET Tokens]
Request == {Idle} \cup Issuing \cup Revoking

ASSUME BoundAssumption == MaxResets \in Nat
ASSUME NonesAssumption ==
    /\ NoRow \notin Session \cup Connect
    /\ NoToken \notin Tokens /\ NoConnect \notin Tokens \cup Connects
    /\ Tokens \cap Connects = {}

At(r, pc) == req[r].pc = pc
Begin(r, q) == At(r, "idle") /\ req' = [req EXCEPT ![r] = q]
Goto(r, pc) == req' = [req EXCEPT ![r].pc = pc]
Finish(r) == req' = [req EXCEPT ![r] = Idle]

\* UserByToken: the row has not expired and its user is not blocked.
Resolves(t) ==
    sess[t] # NoRow /\ sess[t].age = "live" /\ status[sess[t].user] = "active"

\* Rows that a transaction in flight has deleted: others still read them, and
\* whoever wants to change them waits.
Locked(t) == \E r \in Requests : At(r, "tokens") /\ t \in req[r].doomed

Rows(u) == {t \in Tokens : sess[t] # NoRow /\ sess[t].user = u}
Pending(u) == {c \in Connects : connect[c] # NoRow /\ connect[c].user = u}

\* sess without the rows T, connect without the rows C.
DropSessions(T) == [t \in Tokens |-> IF t \in T THEN NoRow ELSE sess[t]]
DropConnects(C) == [c \in Connects |-> IF c \in C THEN NoRow ELSE connect[c]]

\* The revocation of the session tokens T and connect tokens C has ended.
Revoked(T, C) == revoked' = revoked \cup C \cup {t \in T : sess'[t] # NoRow}

\* Tokens are random uuids: never one that anything still refers to.
FreshToken(t) ==
    /\ sess[t] = NoRow
    /\ \A r \in Requests :
         /\ req[r].pc \in {"sessions", "tokens"} => t \notin req[r].found
         /\ At(r, "sessions") => req[r].keep # t
         /\ At(r, "tokens") => t \notin req[r].doomed
FreshConnect(c) ==
    /\ connect[c] = NoRow
    /\ \A t \in Tokens : sess[t] # NoRow => sess[t].from # c
    /\ \A r \in Requests :
         ~At(r, "idle") /\ req[r].kind = "exchange" => req[r].from # c

Init ==
    /\ status = [u \in Users |-> "active"]
    /\ vault = [u \in Users |-> 1]
    /\ sess = [t \in Tokens |-> NoRow]
    /\ connect = [c \in Connects |-> NoRow]
    /\ req = [r \in Requests |-> Idle]
    /\ revoked = {}

----------------------------------------------------------------------------
(* Login and single sign-on: issueSession                                  *)

\* Authenticate refuses an unknown or blocked account.
Login(r, u) ==
    /\ status[u] = "active"
    /\ Begin(r, [pc |-> "check", kind |-> "login", user |-> u, crossed |-> {}])
    /\ UNCHANGED <<tables, revoked>>

SsoSignIn(r, u) ==
    /\ Begin(r, [pc |-> "check", kind |-> "sso", user |-> u, crossed |-> {}])
    /\ UNCHANGED <<tables, revoked>>

\* Variant: a local sign-in writes the directory's account too.
AfterCheckUpserting(q) ==
    CASE q.kind \in {"login", "sso"} -> "upsert"
      [] q.kind = "connect"          -> "token"
      [] q.kind = "exchange"         -> "extension"

\* IsBlocked is false for an account that does not exist; an exchange has
\* looked its user up first.
AfterCheck(q) ==
    CASE q.kind = "login"    -> "session"
      [] q.kind = "sso"      -> "upsert"
      [] q.kind = "connect"  -> "token"
      [] q.kind = "exchange" -> "extension"

CheckBlocked(r) ==
    LET q == req[r] IN
    /\ At(r, "check")
    /\ IF \/ status[q.user] = "blocked"
          \/ q.kind = "exchange" /\ status[q.user] = "absent"
         THEN Finish(r)
         ELSE Goto(r, AfterCheck(q))
    /\ UNCHANGED <<tables, revoked>>

\* Creates the account on its first sign-in; never changes workspace_blocked.
UpsertExternalUser(r) ==
    LET u == req[r].user IN
    /\ At(r, "upsert")
    /\ status' = [status EXCEPT ![u] = IF @ = "absent" THEN "active" ELSE @]
    /\ Goto(r, "session")
    /\ UNCHANGED <<vault, sess, connect, revoked>>

\* The foreign key refuses a row for an account that is gone.
CreateSession(r) ==
    LET u == req[r].user IN
    /\ At(r, "session")
    /\ \/ status[u] = "absent" /\ UNCHANGED <<sess, revoked>>
       \/ /\ status[u] # "absent"
          /\ \E t \in Tokens :
               /\ FreshToken(t)
               /\ sess' = [sess EXCEPT ![t] =
                    [user |-> u, inst |-> NoInstallation, from |-> NoConnect,
                     key |-> NoKey, age |-> "live", crossed |-> req[r].crossed]]
               /\ revoked' = revoked \ {t}
    /\ Finish(r)
    /\ UNCHANGED <<status, vault, connect>>

----------------------------------------------------------------------------
(* Connecting a browser extension                                          *)

\* IssueBrowserExtensionConnectToken, by a signed-in user: the token takes the
\* vault key of the session along.
IssueConnectToken(r, t) ==
    /\ Resolves(t)
    /\ Begin(r, [pc |-> "check", kind |-> "connect", user |-> sess[t].user,
                 key |-> sess[t].key, crossed |-> sess[t].crossed \ {"block"}])
    /\ UNCHANGED <<tables, revoked>>

CreateConnectToken(r) ==
    LET q == req[r] IN
    /\ At(r, "token")
    /\ \/ status[q.user] = "absent" /\ UNCHANGED <<connect, revoked>>
       \/ /\ status[q.user] # "absent"
          /\ \E c \in Connects :
               /\ FreshConnect(c)
               /\ connect' = [connect EXCEPT ![c] =
                    [user |-> q.user, key |-> q.key, age |-> "live",
                     crossed |-> q.crossed]]
               /\ revoked' = revoked \ {c}
    /\ Finish(r)
    /\ UNCHANGED <<status, vault, sess>>

ReadConnectToken(r, c, i) == \* variant: the row stays until the session exists
    /\ connect[c] # NoRow /\ connect[c].age = "live"
    /\ Begin(r, [pc |-> "check", kind |-> "exchange", user |-> connect[c].user,
                 key |-> connect[c].key, from |-> c, inst |-> i,
                 crossed |-> connect[c].crossed \ {"block"}])
    /\ UNCHANGED <<tables, revoked>>

\* ExchangeBrowserExtensionConnectToken: delete ... returning, committed.
ExchangeConnectToken(r, c, i) ==
    /\ connect[c] # NoRow /\ connect[c].age = "live"
    /\ Begin(r, [pc |-> "check", kind |-> "exchange", user |-> connect[c].user,
                 key |-> connect[c].key, from |-> c, inst |-> i,
                 crossed |-> connect[c].crossed \ {"block"}])
    /\ connect' = DropConnects({c})
    /\ UNCHANGED <<status, vault, sess, revoked>>

\* UpsertBrowserExtensionSession: an installation has one session, whoever's
\* it was before.
UpsertExtensionSession(r) ==
    LET q == req[r]
        before == {t \in Tokens : sess[t] # NoRow /\ sess[t].inst = q.inst}
    IN
    /\ At(r, "extension")
    /\ \A t \in before : ~Locked(t)
    /\ \/ status[q.user] = "absent" /\ UNCHANGED <<sess, revoked>>
       \/ /\ status[q.user] # "absent"
          /\ \E t \in Tokens :
               /\ FreshToken(t)
               /\ sess' = [DropSessions(before) EXCEPT ![t] =
                    [user |-> q.user, inst |-> q.inst, from |-> q.from,
                     key |-> q.key, age |-> "live", crossed |-> q.crossed]]
               /\ revoked' = revoked \ {t}
    /\ Finish(r)
    /\ UNCHANGED <<status, vault, connect>>

----------------------------------------------------------------------------
(* What a session and its owner do                                         *)

\* Sign-in, setup or unlock attach the vault key (module Vault has the steps).
UnlockVault(t) ==
    /\ Resolves(t) /\ ~Locked(t)
    /\ sess' = [sess EXCEPT ![t].key = vault[sess[t].user]]
    /\ UNCHANGED <<status, vault, connect, req, revoked>>

LockVault(t) ==
    /\ Resolves(t) /\ ~Locked(t)
    /\ sess' = [sess EXCEPT ![t].key = NoKey]
    /\ UNCHANGED <<status, vault, connect, req, revoked>>

\* Logout, and DeleteSessionByID, which finds an expired row too.
EndSession(t) ==
    /\ sess[t] # NoRow /\ ~Locked(t)
    /\ sess' = DropSessions({t})
    /\ UNCHANGED <<status, vault, connect, req, revoked>>

\* DeleteOtherSessions by a signed-in user, DeleteAllSessions by an admin.
RevokeOtherSessions(r, t) ==
    /\ Resolves(t)
    /\ Begin(r, [pc |-> "sessions", kind |-> "revoke", user |-> sess[t].user,
                 keep |-> t, found |-> Rows(sess[t].user) \ {t}])
    /\ UNCHANGED <<tables, revoked>>

RevokeAllSessions(r, u) ==
    /\ status[u] # "absent"
    /\ Begin(r, [pc |-> "sessions", kind |-> "revoke", user |-> u,
                 keep |-> NoToken, found |-> Rows(u)])
    /\ UNCHANGED <<tables, revoked>>

\* where user_id = $1 and token <> $2 and expires_at > now()
DeleteSessions(r) ==
    LET q == req[r]
        doomed == {t \in Rows(q.user) \ {q.keep} : sess[t].age = "live"}
    IN
    /\ At(r, "sessions")
    /\ \A t \in doomed : ~Locked(t)
    /\ req' = [req EXCEPT ![r] =
           [pc |-> "tokens", kind |-> "revoke", user |-> q.user, doomed |-> doomed,
            found |-> q.found]]
    /\ UNCHANGED <<tables, revoked>>

\* The last statement of deleteSessions, and its commit.
DeleteConnectTokens(r) ==
    LET q == req[r] IN
    /\ At(r, "tokens")
    /\ sess' = DropSessions(q.doomed)
    /\ connect' = DropConnects(Pending(q.user))
    /\ Revoked(q.found, Pending(q.user))
    /\ Finish(r)
    /\ UNCHANGED <<status, vault>>

----------------------------------------------------------------------------
(* What administrators and the clock do                                    *)

\* Every row of the account's sessions and connect tokens.
SignOut(u) ==
    /\ \A t \in Rows(u) : ~Locked(t)
    /\ sess' = DropSessions(Rows(u))
    /\ connect' = DropConnects(Pending(u))
    /\ Revoked(Rows(u), Pending(u))

\* What is past its check has not seen the block.
PastItsCheck(r) == req[r].pc \in {"upsert", "session", "token", "extension"}

\* A connect token to be, or one that was taken, brings a vault key along.
Carries(r) == ~At(r, "idle") /\ req[r].kind \in {"connect", "exchange"}

\* The requests R of account u are overtaken by what.
Overtake(R, u, what) ==
    req' = [r \in Requests |->
               IF r \in R /\ req[r].user = u
                 THEN [req[r] EXCEPT !.crossed = @ \cup {what}]
                 ELSE req[r]]

BlockSessionsOnly(u) == \* variant: connect tokens are left
    /\ status[u] = "active"
    /\ status' = [status EXCEPT ![u] = "blocked"]
    /\ sess' = DropSessions(Rows(u))
    /\ Overtake({r \in Requests : PastItsCheck(r)}, u, "block")
    /\ UNCHANGED <<vault, connect, revoked>>

\* UpdateUserAccess with Blocked: one transaction.
Block(u) ==
    /\ status[u] = "active"
    /\ status' = [status EXCEPT ![u] = "blocked"]
    /\ SignOut(u)
    /\ Overtake({r \in Requests : PastItsCheck(r)}, u, "block")
    /\ UNCHANGED vault

Unblock(u) ==
    /\ status[u] = "blocked"
    /\ status' = [status EXCEPT ![u] = "active"]
    /\ UNCHANGED <<vault, sess, connect, req, revoked>>

ResetKeepsConnects(u) == \* variant: connect tokens survive a reset
    /\ status[u] # "absent"
    /\ vault[u] <= MaxResets
    /\ vault' = [vault EXCEPT ![u] = @ + 1]
    /\ sess' = DropSessions(Rows(u))
    /\ Overtake({r \in Requests : Carries(r)}, u, "reset")
    /\ UNCHANGED <<status, connect, revoked>>

\* destroyVaultForReset; the next vault has another key.
ResetPassword(u) ==
    /\ status[u] # "absent"
    /\ vault[u] <= MaxResets
    /\ vault' = [vault EXCEPT ![u] = @ + 1]
    /\ SignOut(u)
    /\ Overtake({r \in Requests : Carries(r)}, u, "reset")
    /\ UNCHANGED status

\* DeleteUser: the foreign keys cascade.
DeleteUser(u) ==
    /\ status[u] # "absent"
    /\ status' = [status EXCEPT ![u] = "absent"]
    /\ SignOut(u)
    /\ UNCHANGED <<vault, req>>

Older(age) == IF age = "live" THEN "expired" ELSE "old"

SessionAges(t) ==
    /\ sess[t] # NoRow /\ sess[t].age # "old"
    /\ sess' = [sess EXCEPT ![t].age = Older(@)]
    /\ UNCHANGED <<status, vault, connect, req, revoked>>

ConnectAges(c) ==
    /\ connect[c] # NoRow /\ connect[c].age # "old"
    /\ connect' = [connect EXCEPT ![c].age = Older(@)]
    /\ UNCHANGED <<status, vault, sess, req, revoked>>

OldSessions == {t \in Tokens : sess[t] # NoRow /\ sess[t].age = "old"}
OldConnects == {c \in Connects : connect[c] # NoRow /\ connect[c].age = "old"}

\* PurgeExpiredSessions, on every tick of the sync loop; a locked row that has
\* expired is as good as gone, so the wait for it is left out.
PurgeExpired ==
    /\ OldSessions # {} \/ OldConnects # {}
    /\ sess' = DropSessions(OldSessions)
    /\ connect' = DropConnects(OldConnects)
    /\ UNCHANGED <<status, vault, req, revoked>>

\* The client goes away, the process stops, or the statement fails.
Abort(r) ==
    /\ ~At(r, "idle")
    /\ Finish(r)
    /\ UNCHANGED <<tables, revoked>>

RequestStep(r) ==
    \/ \E u \in Users : Login(r, u) \/ SsoSignIn(r, u) \/ RevokeAllSessions(r, u)
    \/ \E t \in Tokens : IssueConnectToken(r, t) \/ RevokeOtherSessions(r, t)
    \/ \E c \in Connects, i \in Installations : ExchangeConnectToken(r, c, i)
    \/ CheckBlocked(r) \/ UpsertExternalUser(r) \/ CreateSession(r)
    \/ CreateConnectToken(r) \/ UpsertExtensionSession(r)
    \/ DeleteSessions(r) \/ DeleteConnectTokens(r) \/ Abort(r)

SessionStep(t) == UnlockVault(t) \/ LockVault(t) \/ EndSession(t) \/ SessionAges(t)

AdminStep(u) == Block(u) \/ Unblock(u) \/ ResetPassword(u) \/ DeleteUser(u)

Next ==
    \/ \E r \in Requests : RequestStep(r)
    \/ \E t \in Tokens : SessionStep(t)
    \/ \E u \in Users : AdminStep(u)
    \/ \E c \in Connects : ConnectAges(c)
    \/ PurgeExpired

Spec == Init /\ [][Next]_vars

----------------------------------------------------------------------------
(* Properties                                                              *)

TypeOK ==
    /\ status \in [Users -> {"absent", "active", "blocked"}]
    /\ vault \in [Users -> 1 .. MaxResets + 1]
    /\ sess \in [Tokens -> Session \cup {NoRow}]
    /\ connect \in [Connects -> Connect \cup {NoRow}]
    /\ req \in [Requests -> Request]
    /\ revoked \subseteq Tokens \cup Connects

\* A connect token makes at most one extension session, however many clients
\* present it at once, and none while it is still pending.
AConnectTokenIsExchangedOnce ==
    \A s \in Tokens : sess[s] # NoRow /\ sess[s].from # NoConnect =>
        /\ connect[sess[s].from] = NoRow
        /\ \A t \in Tokens \ {s} :
             sess[t] # NoRow => sess[t].from # sess[s].from

\* What an account has given up stays given up.  Once a sign-out everywhere, a
\* block, a reset or a deletion has ended, no session that there was when it began
\* can be used, and no connect token that was pending when it ended is there or
\* ever becomes a session.  An exchange that took its token before (service.go:178),
\* or a sign-in on its way, still makes one.
NothingRevokedIsUsed ==
    /\ \A t \in Tokens : sess[t] # NoRow /\ sess[t].age = "live" =>
         {t, sess[t].from} \cap revoked = {}
    /\ \A c \in revoked \cap Connects : connect[c] = NoRow

\* A blocked account holds nothing but what requests past their check at the block
\* (repository.go:270) wrote after it; nothing is issued on a later check.
ABlockedUserHoldsNothing ==
    \A u \in Users : status[u] = "blocked" =>
        /\ \A t \in Rows(u) : "block" \in sess[t].crossed
        /\ \A c \in Pending(u) : "block" \in connect[c].crossed

\* Sign-outs and blocks, against everything that is issued meanwhile.
RevocationIsFinal == NothingRevokedIsUsed /\ ABlockedUserHoldsNothing

\* The key that a session carries, or that a connect token hands over, is that of
\* the vault the account has; the key of a former vault goes no further than what
\* was issued from a connect token in the making, or being exchanged, at the reset.
KeysAreTheCurrentVaults ==
    /\ \A t \in Tokens : sess[t] # NoRow =>
         sess[t].key \in {NoKey, vault[sess[t].user]} \/ "reset" \in sess[t].crossed
    /\ \A c \in Connects : connect[c] # NoRow =>
         connect[c].key \in {NoKey, vault[connect[c].user]} \/ "reset" \in connect[c].crossed

=============================================================================
