------------------------------- MODULE Vault -------------------------------
(***************************************************************************)
(* The personal vault of one account (backend/internal/auth: vault.go,     *)
(* vault_passphrase.go, vault_passkey.go, vault_methods.go, account.go).   *)
(*                                                                         *)
(* A vault is a random keypair.  The public key is a row of user_vaults;   *)
(* each unlock method ("door") is a row of user_vault_unlocks that holds   *)
(* the private key wrapped under one secret; an unlocked session carries   *)
(* its own copy of the private key; personal items are sealed to the       *)
(* public key.  A key pair is one element of Keys: a wrap, a session or an *)
(* item "opens" with the vault when it holds the same element.             *)
(*                                                                         *)
(* Requests run concurrently.  Each is a sequence of database statements   *)
(* (a transaction that has no read before its writes is one step), and may *)
(* stop after any of them: the process dies, the client goes away, or the  *)
(* statement fails.  Every table here is keyed by user_id, so accounts are *)
(* independent and one is enough.                                          *)
(***************************************************************************)

CONSTANTS
    Requests,   \* request slots: how many requests can be in flight
    Keys,       \* vault keypairs
    Secrets,    \* login passwords and vault passphrases
    Passkeys,   \* WebAuthn credentials; each one stands for its own PRF secret
    Sessions,   \* session tokens, web and extension
    Items,      \* personal resources
    NoKey,      \* no vault, locked session, no item
    NoSecret,   \* no password that any input matches: "!invite-pending"
    NoUser,     \* the account does not exist yet
    NoWrap,     \* no row for this unlock method
    NoSession,  \* the request has no session
    NoItem,     \* the request stores no item
    Offered,    \* the kinds of request that are made
    Overlap     \* pairs of kinds that may be in flight together

VARIABLES
    hash,       \* app_users.password_hash, as the password it matches
    invite,     \* is there a live row in user_invites?
    vault,      \* user_vaults.public_key
    wraps,      \* user_vault_unlocks, by method and label
    live,       \* rows of auth_sessions and browser_extension_sessions
    skey,       \* their vault_private_key columns
    items,      \* the key each personal resource is sealed to
    req,        \* the requests in flight
    calm        \* history: no request has stopped half way, and one link at
                \* a time has been in use

db == <<hash, invite, vault, wraps, live, skey, items>>
vars == <<hash, invite, vault, wraps, live, skey, items, req, calm>>

----------------------------------------------------------------------------
(* Types *)

\* (method, label): 'password' and 'passphrase' have the empty label.
Doors == {"password", "passphrase"} \cup Passkeys

Kinds == {"create", "sso", "login", "setup", "unlock", "add", "remove",
          "change", "reset", "invite", "reinvite", "accept", "save"}

Wraps == [key : Keys, secret : Secrets \cup Passkeys]

Pcs == {"idle", "session", "ensure", "ensureOpen", "ensureInsert",
        "setup", "setupInsert", "open", "attach", "add", "count", "delete",
        "verify", "openCurrent", "setHash", "rewrap", "endOthers",
        "destroy", "link", "acceptHash", "seal", "store"}

Request == [kind : Kinds \cup {"none"}, pc : Pcs,
            sess : Sessions \cup {NoSession}, \* the token the request presents
            priv : Keys \cup {NoKey},         \* the vault key it holds in memory
            secret : Secrets \cup Passkeys \cup {NoSecret},
            new : Secrets \cup {NoSecret},    \* the new login password
            door : Doors, item : Items \cup {NoItem}]

Idle == [kind |-> "none", pc |-> "idle", sess |-> NoSession, priv |-> NoKey,
         secret |-> NoSecret, new |-> NoSecret, door |-> "password",
         item |-> NoItem]

NewRequest(kind, pc) == [Idle EXCEPT !.kind = kind, !.pc = pc]

ASSUME DistinctConstants ==
    /\ {"password", "passphrase"} \cap Passkeys = {}
    /\ Secrets \cap Passkeys = {}
    /\ NoKey \notin Keys
    /\ NoSecret \notin Secrets \cup Passkeys
    /\ NoUser \notin Secrets \cup {NoSecret}
    /\ NoWrap \notin Wraps
    /\ NoSession \notin Sessions
    /\ NoItem \notin Items

ASSUME OverlapType ==
    /\ Offered \subseteq Kinds
    /\ Overlap \subseteq Kinds \X Kinds

----------------------------------------------------------------------------
(* Helpers *)

Held == {d \in Doors : wraps[d] # NoWrap}

At(r, pc) == req[r].pc = pc
Goto(r, pc) == req' = [req EXCEPT ![r].pc = pc]
Finish(r) == req' = [req EXCEPT ![r] = Idle]

\* The secret that opens the door a request is about to write.
SecretFor(d, s) == IF d \in Passkeys THEN d ELSE s

Put(d, k, s) == [wraps EXCEPT ![d] = [key |-> k, secret |-> s]]

\* on conflict (user_id, method, label) do nothing
PutNew(d, k, s) == IF wraps[d] = NoWrap THEN Put(d, k, s) ELSE wraps

\* uuid tokens and random keys: never one that anything still refers to.
FreshSession(s) == s \notin live /\ \A q \in Requests : req[q].sess # s
FreshKey(k) ==
    /\ k # vault
    /\ \A d \in Held : wraps[d].key # k
    /\ \A s \in Sessions : skey[s] # k
    /\ \A i \in Items : items[i] # k
    /\ \A q \in Requests : req[q].priv # k

\* A request of kind k enters slot r.
MayBegin(r, k) ==
    /\ At(r, "idle")
    /\ k \in Offered
    /\ \A q \in Requests \ {r} :
         ~At(q, "idle") => <<k, req[q].kind>> \in Overlap

Begin(r, q) == MayBegin(r, q.kind) /\ req' = [req EXCEPT ![r] = q]

Init ==
    /\ hash = NoUser
    /\ invite = FALSE
    /\ vault = NoKey
    /\ wraps = [d \in Doors |-> NoWrap]
    /\ live = {}
    /\ skey = [s \in Sessions |-> NoKey]
    /\ items = [i \in Items |-> NoKey]
    /\ req = [r \in Requests |-> Idle]
    /\ calm = TRUE

----------------------------------------------------------------------------
(* Sign-in: Login, AcceptInvite, CreateUser, and sessions issued after a   *)
(* Microsoft sign-in, which carry no password.                             *)

\* CreateUser with a password: the account row, then EnsureLocalUserVault.
CreateUser(r) ==
    \E p \in Secrets :
        /\ hash = NoUser
        /\ Begin(r, [NewRequest("create", "ensure") EXCEPT !.secret = p])
        /\ hash' = p
        /\ UNCHANGED <<invite, vault, wraps, live, skey, items>>

\* CreateUser for an invited user: no usable password.
CreateUserWithoutPassword(r) ==
    /\ hash = NoUser
    /\ Begin(r, NewRequest("invite", "link"))
    /\ hash' = NoSecret
    /\ UNCHANGED <<invite, vault, wraps, live, skey, items>>

\* UpsertExternalUser.  An account that comes with it gets the hash of a fixed
\* text, which Authenticate and verifyPassword accept like any other: it is one
\* of the secrets, and chosen once in a behaviour.
SsoSignIn(r) ==
    /\ Begin(r, NewRequest("sso", "session"))
    /\ \/ /\ hash = NoUser
          /\ hash' \in Secrets
       \/ /\ hash # NoUser
          /\ UNCHANGED hash
    /\ UNCHANGED <<invite, vault, wraps, live, skey, items>>

\* Authenticate compares with the stored hash.
Authenticate(r) ==
    \E p \in Secrets :
        /\ hash = p
        /\ Begin(r, [NewRequest("login", "session") EXCEPT !.secret = p])
        /\ UNCHANGED db

\* consumeUserInvite: delete ... returning.
ConsumeInvite(r) ==
    \E p \in Secrets :
        /\ invite
        /\ Begin(r, [NewRequest("accept", "acceptHash") EXCEPT !.secret = p])
        /\ invite' = FALSE
        /\ UNCHANGED <<hash, vault, wraps, live, skey, items>>

AcceptPasswordHash(r) ==
    /\ At(r, "acceptHash")
    /\ hash' = req[r].secret
    /\ Goto(r, "session")
    /\ UNCHANGED <<invite, vault, wraps, live, skey, items>>

\* issueSession: an SSO session is complete here, the others go on to the vault.
CreateSession(r) ==
    \E s \in Sessions :
        /\ At(r, "session")
        /\ FreshSession(s)
        /\ live' = live \cup {s}
        /\ skey' = [skey EXCEPT ![s] = NoKey]
        /\ IF req[r].kind = "sso"
             THEN Finish(r)
             ELSE req' = [req EXCEPT ![r].pc = "ensure", ![r].sess = s]
        /\ UNCHANGED <<hash, invite, vault, wraps, items>>

----------------------------------------------------------------------------
(* EnsureLocalUserVault, for Login, AcceptInvite, CreateUser and            *)
(* ChangeOwnPassword.                                                       *)

\* What the caller does once it returns with key k (NoKey: nil).
AfterEnsure(r, k) ==
    \/ /\ req[r].kind = "change"
       /\ req' = [req EXCEPT ![r].pc = "endOthers", ![r].priv = NoKey]
    \/ /\ req[r].kind # "change" /\ k # NoKey /\ req[r].sess # NoSession
       /\ req' = [req EXCEPT ![r].pc = "attach", ![r].priv = k]
    \/ /\ req[r].kind # "change" /\ (k = NoKey \/ req[r].sess = NoSession)
       /\ Finish(r)

EnsureRead(r) ==
    /\ At(r, "ensure")
    /\ \/ vault # NoKey /\ Goto(r, "ensureOpen")
       \/ /\ vault = NoKey
          /\ \E k \in Keys :
               /\ FreshKey(k)
               /\ req' = [req EXCEPT ![r].pc = "ensureInsert", ![r].priv = k]
    /\ UNCHANGED db

\* unlockVaultWithPassword: nil when the row is missing or does not open.
OpenedByPassword(secret) ==
    IF wraps["password"] # NoWrap /\ wraps["password"].secret = secret
      THEN wraps["password"].key
      ELSE NoKey

EnsureOpen(r) ==
    /\ At(r, "ensureOpen")
    /\ AfterEnsure(r, OpenedByPassword(req[r].secret))
    /\ UNCHANGED db

\* One transaction, both rows "on conflict do nothing"; the caller keeps the
\* key it generated whether or not its rows went in.
EnsureInsert(r) ==
    LET q == req[r] IN
    /\ At(r, "ensureInsert")
    /\ vault' = IF vault = NoKey THEN q.priv ELSE vault
    /\ wraps' = PutNew("password", q.priv, q.secret)
    /\ AfterEnsure(r, q.priv)
    /\ UNCHANGED <<hash, invite, live, skey, items>>

----------------------------------------------------------------------------
(* Requests of a signed-in user.  UserByToken reads the session row, and    *)
(* with it the vault key the request works with until it ends.              *)

SignedIn(s, q) == [q EXCEPT !.sess = s, !.priv = skey[s]]

\* SetupVault and SetupVaultWithPasskey.
BeginSetup(r) ==
    \E s \in live, d \in Doors \ {"password"}, p \in Secrets :
        /\ Begin(r, [NewRequest("setup", "setup") EXCEPT !.sess = s,
                                 !.door = d, !.secret = SecretFor(d, p)])
        /\ UNCHANGED db

SetupUnchecked(r) == \* variant: without the exists check
    /\ At(r, "setup")
    /\ \E k \in Keys :
         /\ FreshKey(k)
         /\ req' = [req EXCEPT ![r].pc = "setupInsert", ![r].priv = k]
    /\ UNCHANGED db

SetupRead(r) ==
    /\ At(r, "setup")
    /\ \/ vault # NoKey /\ Finish(r)
       \/ /\ vault = NoKey
          /\ \E k \in Keys :
               /\ FreshKey(k)
               /\ req' = [req EXCEPT ![r].pc = "setupInsert", ![r].priv = k]
    /\ UNCHANGED db

\* The passphrase row does nothing on conflict, a passkey row is updated.
SetupInsert(r) ==
    LET q == req[r] IN
    /\ At(r, "setupInsert")
    /\ vault' = IF vault = NoKey THEN q.priv ELSE vault
    /\ wraps' = IF q.door \in Passkeys THEN Put(q.door, q.priv, q.secret)
                                       ELSE PutNew(q.door, q.priv, q.secret)
    /\ Goto(r, "attach")
    /\ UNCHANGED <<hash, invite, live, skey, items>>

\* UnlockVault tries a secret on the password and the passphrase row,
\* UnlockVaultWithPasskey a credential on its own row.
BeginUnlock(r) ==
    \E s \in live, p \in Secrets \cup Passkeys :
        /\ Begin(r, [NewRequest("unlock", "open") EXCEPT !.sess = s,
                                 !.secret = p])
        /\ UNCHANGED db

UnlockOpen(r) ==
    /\ At(r, "open")
    /\ \/ \E d \in Held :
            /\ wraps[d].secret = req[r].secret
            /\ req' = [req EXCEPT ![r].pc = "attach", ![r].priv = wraps[d].key]
       \/ /\ \A d \in Held : wraps[d].secret # req[r].secret
          /\ Finish(r)
    /\ UNCHANGED db

\* attachVaultKeyToCurrentSession: an update, without effect if the row is gone.
Attach(r) ==
    LET q == req[r] IN
    /\ At(r, "attach")
    /\ skey' = IF q.sess \in live THEN [skey EXCEPT ![q.sess] = q.priv] ELSE skey
    /\ Finish(r)
    /\ UNCHANGED <<hash, invite, vault, wraps, live, items>>

\* clearSessionVaultKey
LockVault(s) ==
    /\ s \in live
    /\ skey' = [skey EXCEPT ![s] = NoKey]
    /\ UNCHANGED <<hash, invite, vault, wraps, live, items, req>>

\* A session ends: Logout, revocation, expiry.
EndSession(s) ==
    /\ s \in live
    /\ live' = live \ {s}
    /\ skey' = [skey EXCEPT ![s] = NoKey]
    /\ UNCHANGED <<hash, invite, vault, wraps, items, req>>

BeginAddLocked(r) == \* variant: a locked session may add a method
    \E s \in live, d \in Doors \ {"password"}, p \in Secrets :
        /\ Begin(r, SignedIn(s, [NewRequest("add", "add") EXCEPT !.door = d, !.secret = SecretFor(d, p)]))
        /\ UNCHANGED db

\* AddVaultPassphrase, AddVaultPasskey: refused without the key.
BeginAdd(r) ==
    \E s \in live, d \in Doors \ {"password"}, p \in Secrets :
        /\ skey[s] # NoKey
        /\ Begin(r, SignedIn(s, [NewRequest("add", "add") EXCEPT !.door = d, !.secret = SecretFor(d, p)]))
        /\ UNCHANGED db

AddMethod(r) ==
    /\ At(r, "add")
    /\ wraps' = Put(req[r].door, req[r].priv, req[r].secret)
    /\ Finish(r)
    /\ UNCHANGED <<hash, invite, vault, live, skey, items>>

BeginRemoveAny(r) == \* variant: the login password may be removed too
    \E s \in live, d \in Doors :
        /\ skey[s] # NoKey
        /\ Begin(r, SignedIn(s, [NewRequest("remove", "count") EXCEPT !.door = d]))
        /\ UNCHANGED db

\* RemoveVaultMethod: refused without the key, and for the login password.
BeginRemove(r) ==
    \E s \in live, d \in Doors \ {"password"} :
        /\ skey[s] # NoKey
        /\ Begin(r, SignedIn(s, [NewRequest("remove", "count") EXCEPT !.door = d]))
        /\ UNCHANGED db

CountMethodsAny(r) == \* variant: total < 1 is refused
    /\ At(r, "count")
    /\ IF Held # {} THEN Goto(r, "delete") ELSE Finish(r)
    /\ UNCHANGED db

\* select count(*) ... ; total <= 1 is refused.  Read committed: the delete
\* below does not see whether the count still holds.
CountMethods(r) ==
    /\ At(r, "count")
    /\ IF \E d, e \in Held : d # e THEN Goto(r, "delete") ELSE Finish(r)
    /\ UNCHANGED db

DeleteMethod(r) ==
    /\ At(r, "delete")
    /\ wraps' = [wraps EXCEPT ![req[r].door] = NoWrap]
    /\ Finish(r)
    /\ UNCHANGED <<hash, invite, vault, live, skey, items>>

----------------------------------------------------------------------------
(* ChangeOwnPassword                                                        *)

BeginChange(r) ==
    \E s \in live, old, p \in Secrets :
        /\ Begin(r, SignedIn(s, [NewRequest("change", "verify") EXCEPT !.secret = old, !.new = p]))
        /\ UNCHANGED db

VerifyNothing(r) == \* variant: the current password is not compared
    /\ At(r, "verify")
    /\ Goto(r, IF req[r].priv = NoKey THEN "openCurrent" ELSE "setHash")
    /\ UNCHANGED db

VerifyPassword(r) ==
    /\ At(r, "verify")
    /\ CASE hash # req[r].secret -> Finish(r)
         [] hash = req[r].secret /\ req[r].priv = NoKey -> Goto(r, "openCurrent")
         [] OTHER -> Goto(r, "setHash")
    /\ UNCHANGED db

OpenCurrent(r) ==
    /\ At(r, "openCurrent")
    /\ req' = [req EXCEPT ![r].pc = "setHash",
                          ![r].priv = OpenedByPassword(req[r].secret)]
    /\ UNCHANGED db

SetPasswordHashOnly(r) == \* variant: the vault is never re-wrapped
    /\ At(r, "setHash")
    /\ hash' = req[r].new
    /\ req' = [req EXCEPT ![r].secret = req[r].new, ![r].pc = "ensure"]
    /\ UNCHANGED <<invite, vault, wraps, live, skey, items>>

\* setPasswordHash; without a key the vault part is EnsureLocalUserVault
\* under the new password.
SetPasswordHash(r) ==
    LET q == req[r] IN
    /\ At(r, "setHash")
    /\ hash' = q.new
    /\ req' = [req EXCEPT ![r].secret = q.new,
                          ![r].pc = IF q.priv # NoKey THEN "rewrap" ELSE "ensure"]
    /\ UNCHANGED <<invite, vault, wraps, live, skey, items>>

\* rewrapPasswordUnlock: an upsert.
Rewrap(r) ==
    /\ At(r, "rewrap")
    /\ wraps' = Put("password", req[r].priv, req[r].new)
    /\ req' = [req EXCEPT ![r].pc = "endOthers", ![r].priv = NoKey]
    /\ UNCHANGED <<hash, invite, vault, live, skey, items>>

\* DeleteOtherSessions
EndOtherSessions(r) ==
    /\ At(r, "endOthers")
    /\ live' = live \cap {req[r].sess}
    /\ skey' = [s \in Sessions |-> IF s = req[r].sess THEN skey[s] ELSE NoKey]
    /\ Finish(r)
    /\ UNCHANGED <<hash, invite, vault, wraps, items>>

----------------------------------------------------------------------------
(* ResetUserPassword and IssueUserInvite, by an administrator               *)

BeginReset(r) ==
    /\ hash # NoUser
    /\ Begin(r, NewRequest("reset", "destroy"))
    /\ UNCHANGED db

DestroyVaultRows(r) == \* variant: sessions and resources are left alone
    /\ At(r, "destroy")
    /\ vault' = NoKey
    /\ wraps' = [d \in Doors |-> NoWrap]
    /\ hash' = NoSecret
    /\ Goto(r, "link")
    /\ UNCHANGED <<invite, live, skey, items>>

\* destroyVaultForReset: one transaction of deletes.
DestroyVault(r) ==
    /\ At(r, "destroy")
    /\ vault' = NoKey
    /\ wraps' = [d \in Doors |-> NoWrap]
    /\ items' = [i \in Items |-> NoKey]
    /\ live' = {}
    /\ skey' = [s \in Sessions |-> NoKey]
    /\ hash' = NoSecret
    /\ Goto(r, "link")
    /\ UNCHANGED invite

\* A link may be issued for any account, one with a password included.
Reinvite(r) ==
    /\ hash # NoUser
    /\ Begin(r, NewRequest("reinvite", "link"))
    /\ UNCHANGED db

\* createUserInvite replaces any earlier link.
CreateInvite(r) ==
    /\ At(r, "link")
    /\ invite' = TRUE
    /\ Finish(r)
    /\ UNCHANGED <<hash, vault, wraps, live, skey, items>>

ExpireInvite ==
    /\ invite
    /\ invite' = FALSE
    /\ UNCHANGED <<hash, vault, wraps, live, skey, items, req>>

----------------------------------------------------------------------------
(* Personal resources: encryptForScope reads the public key, repo.Create or *)
(* repo.Update stores the sealed secret.                                    *)

BeginSave(r) ==
    \E s \in live, i \in Items :
        /\ \A q \in Requests : req[q].item # i
        /\ Begin(r, [NewRequest("save", "seal") EXCEPT !.sess = s,
                                 !.item = i])
        /\ UNCHANGED db

\* VaultPublicKey; none is ErrVaultLocked.
ReadPublicKey(r) ==
    /\ At(r, "seal")
    /\ IF vault = NoKey
         THEN Finish(r)
         ELSE req' = [req EXCEPT ![r].pc = "store", ![r].priv = vault]
    /\ UNCHANGED db

StoreItem(r) ==
    /\ At(r, "store")
    /\ items' = [items EXCEPT ![req[r].item] = req[r].priv]
    /\ Finish(r)
    /\ UNCHANGED <<hash, invite, vault, wraps, live, skey>>

\* A personal resource that is removed is deleted, never archived.
DeleteItem(i) ==
    /\ items[i] # NoKey
    /\ \A q \in Requests : req[q].item # i
    /\ items' = [items EXCEPT ![i] = NoKey]
    /\ UNCHANGED <<hash, invite, vault, wraps, live, skey, req>>

----------------------------------------------------------------------------

\* The process stops, the client disconnects or the next statement fails.
Abort(r) ==
    /\ ~At(r, "idle")
    /\ Finish(r)
    /\ UNCHANGED db

SignInStep(r) ==
    \/ CreateUser(r) \/ CreateUserWithoutPassword(r) \/ SsoSignIn(r)
    \/ Authenticate(r) \/ ConsumeInvite(r) \/ AcceptPasswordHash(r)
    \/ CreateSession(r) \/ EnsureRead(r) \/ EnsureOpen(r) \/ EnsureInsert(r)

MethodStep(r) ==
    \/ BeginSetup(r) \/ SetupRead(r) \/ SetupInsert(r)
    \/ BeginUnlock(r) \/ UnlockOpen(r) \/ Attach(r)
    \/ BeginAdd(r) \/ AddMethod(r)
    \/ BeginRemove(r) \/ CountMethods(r) \/ DeleteMethod(r)

AccountStep(r) ==
    \/ BeginChange(r) \/ VerifyPassword(r) \/ OpenCurrent(r)
    \/ SetPasswordHash(r) \/ Rewrap(r) \/ EndOtherSessions(r)
    \/ BeginReset(r) \/ DestroyVault(r) \/ Reinvite(r) \/ CreateInvite(r)

SaveStep(r) == BeginSave(r) \/ ReadPublicKey(r) \/ StoreItem(r)

Step ==
    \/ \E r \in Requests : SignInStep(r) \/ MethodStep(r) \/ AccountStep(r)
                            \/ SaveStep(r)
    \/ \E s \in Sessions : LockVault(s) \/ EndSession(s)
    \/ \E i \in Items : DeleteItem(i)
    \/ ExpireInvite

----------------------------------------------------------------------------
(* Which requests may overlap without harm.  Nothing in the code keeps the  *)
(* other pairs apart; the properties below say what is lost when they meet. *)

Creating   == {"create", "login", "accept", "setup", "change"}
Destroying == {"reset"}
Carrying   == {"add", "save", "remove"}

SafePair(j, k) ==
    /\ ~(j \in Creating /\ k \in Creating)
    /\ ~(j = "remove" /\ k = "remove")
    /\ ~(j \in Destroying /\ k \in Creating \cup Carrying)
    /\ ~(k \in Destroying /\ j \in Creating \cup Carrying)

SafeOverlap == {p \in Kinds \X Kinds : SafePair(p[1], p[2])}

\* None is being issued while another is accepted, and none for an account that
\* has a vault.
Linking == {"invite", "reset"}

CalmPair(j, k) ==
    /\ SafePair(j, k)
    /\ ~(j \in Linking /\ k = "accept")
    /\ ~(k \in Linking /\ j = "accept")

OneLinkAtATime ==
    \A r \in Requests :
        /\ req[r].kind # "reinvite"
        /\ \A o \in Requests \ {r} :
              req[r].kind # "none" /\ req[o].kind # "none"
                  => CalmPair(req[r].kind, req[o].kind)

----------------------------------------------------------------------------
Next ==
    \/ /\ Step
       /\ calm' = (calm /\ OneLinkAtATime')
    \/ /\ \E r \in Requests : Abort(r)
       /\ calm' = FALSE

Spec == Init /\ [][Next]_vars

----------------------------------------------------------------------------
(* Properties *)

TypeOK ==
    /\ hash \in Secrets \cup {NoSecret, NoUser}
    /\ invite \in BOOLEAN
    /\ vault \in Keys \cup {NoKey}
    /\ wraps \in [Doors -> Wraps \cup {NoWrap}]
    /\ live \subseteq Sessions
    /\ skey \in [Sessions -> Keys \cup {NoKey}]
    /\ items \in [Items -> Keys \cup {NoKey}]
    /\ calm \in BOOLEAN
    /\ req \in [Requests -> Request]

\* Any unlock method opens the vault: no wrap holds another key, and none
\* outlives the vault (the rows have no foreign key to user_vaults).
EveryDoorOpensTheVault == \A d \in Held : wraps[d].key = vault

\* The key a session carries, by sign-in, setup or unlock, is the vault's.
EverySessionKeyOpensTheVault == \A s \in Sessions : skey[s] \in {NoKey, vault}

\* What a personal resource is sealed to is the vault its owner has now.
EveryItemIsSealedToTheVault == \A i \in Items : items[i] \in {NoKey, vault}

\* Doors, sessions and resources are all of the one key the account has, in
\* whatever order requests created, opened, sealed and destroyed.
AllIsOfTheVault ==
    /\ EveryDoorOpensTheVault
    /\ EverySessionKeyOpensTheVault
    /\ EveryItemIsSealedToTheVault

\* A vault behind zero doors is lost, not locked: removing methods never
\* leaves a vault without one.
TheVaultHasADoor == vault # NoKey => Held # {}

\* The login password opens the vault's password door whenever no request is
\* half way through changing either.  A request that has stopped between its two
\* writes, or a second link accepted after the first, leaves the door on an
\* earlier password.
LoginPasswordOpensTheVault ==
    calm /\ (\A r \in Requests : At(r, "idle")) =>
        \/ wraps["password"] = NoWrap
        \/ wraps["password"].secret = hash

\* A change of password that has verified the current one.
PastItsCheck(r) == req[r].pc \in {"openCurrent", "setHash"}

\* A password that a reset has locked behind a link, or that was never set, is
\* set by its owner accepting the link, or by a change that had verified the
\* former password before the reset (account.go:111): while there is none, no
\* change comes past its check.
OnlyALinkSetsAFirstPassword ==
    [][hash = NoSecret =>
         /\ hash' # NoSecret =>
              \E r \in Requests : At(r, "acceptHash") \/ At(r, "setHash")
         /\ \A r \in Requests : PastItsCheck(r)' => PastItsCheck(r)]_vars

\* Under SafeOverlap the requests keep the promise VaultPromise states: what is
\* handed out is the vault's key and nothing else.
Promise == INSTANCE VaultPromise WITH
    key <- vault,
    opens <- [d \in Doors |-> IF wraps[d] = NoWrap THEN NoKey ELSE wraps[d].key],
    carried <- skey,
    sealed <- items

KeepsThePromise == Promise!Spec

\* However requests meet, a vault's keypair is never replaced: it goes only
\* with everything that was sealed to it, every door and every session.
OnlyResetEndsAVault ==
    [][vault # NoKey /\ vault' # vault =>
         /\ vault' = NoKey /\ live' = {}
         /\ \A d \in Doors : wraps'[d] = NoWrap
         /\ \A i \in Items : items'[i] = NoKey]_vars

\* However requests meet, the login-password door stays until a reset.
PasswordDoorStays ==
    [][wraps["password"] # NoWrap /\ wraps'["password"] = NoWrap =>
         vault' = NoKey]_vars

============================================================================
