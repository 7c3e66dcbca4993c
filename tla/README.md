# AccessWorkspace in TLA+

A verification project for AccessWorkspace, a self-hosted workspace of shared
and personal access resources (passwords, servers, app registrations, Key Vault
secrets). The backend is a Go server over PostgreSQL (`src/backend`); a web
front end, a desktop launcher and a browser extension are its clients. The
project models the backend's state: what the tables and the memory of a request
hold between two statements, and what requests, synchronisations, crashes and
replicas can do to it.

Every definition is translated from the source; `PROJECT.json` names the lines
each one stands for.

## 1. The system

### Components

| Component | State | Operations | Modules |
|---|---|---|---|
| Personal vaults and passwords (`auth/vault*.go`, `auth/account.go`) | `user_vaults`, `user_vault_unlocks`, the key columns of the session tables, `user_invites`, `password_hash` | create user, sign in, first setup, unlock, lock, add and remove an unlock method, change password, reset, invite, accept, save a personal secret | Vault, VaultPromise, VaultProofs, MCVault |
| Sessions (`auth/sessions.go`, `repository.go`, `service.go`) | `auth_sessions`, `browser_extension_sessions`, `browser_extension_connect_tokens` | sign in, connect token, exchange, sign out (one, others, all), block, reset, delete, expiry, purge | Sessions, SessionsProofs, MCSessions |
| Signing in: lockout, rate limit, cookies, Microsoft (`auth/repository.go`, `api/ratelimit.go`, `api/handlers_auth.go`, `api/microsoft_auth.go`) | `failed_login_attempts`, `locked_until`, windows in memory, cookies | password attempt, count, lock, start and callback of a Microsoft sign-in, exchange, logout | SignIn, SignInProofs, MCSignIn |
| Resources and stored secrets (`resources/service.go`, `reveal.go`, `validate.go`, `repository.go`) | `resources`, `resource_secrets` | create, update, convert between personal and shared, archive, delete, restore, start-up migration | Resource, ResourceProofs, MCResource |
| Visibility and capabilities, portal matching, mentions (`auth/authorization.go`, `auth/dev.go`, `resources/permissions.go`, `authz.go`, `portal.go`, `mentions.go`) | `local_groups`, `app_users`, one row of `resources` | resolve groups and rights, list, open, reveal, fill, launch, edit, mention, archive, restore, import | Access, AccessProofs, MCAccess |
| Accounts and groups (`auth/service.go`, `repository.go`) | `app_users`, `local_groups` | create, SSO sign-in, access, group edit, delete with transfer | Accounts, SignInProofs, MCAccounts |
| Expiry reminders (`notifications/service.go`) | `expiry_notifications` | evaluate, supersede, record, list, mail, mark | Reminders, RemindersProofs, MCReminders |
| Key Vault import and sync (`resources/keyvault_*.go`) | managed `resources`, `syncMu` | discover, import, refresh, archive | ManagedRecords, ManagedRecordsProofs, MCManagedRecords |
| Launch tickets and overrides (`resources/launch.go`, `launch_tickets.go`) | tickets in memory, override rows | override, issue, redeem, lapse, restart | Launch, AccessProofs, MCLaunch |
| Desktop launcher (`src/launcher`) | Credential Manager, profiles, signature markers, session files, certificate stores | resolve, store, write, sign, open, clear; import a key, build and replace the machine's trust | Launch, Settings, AccessProofs, SettingsProofs |
| Administrator settings, RDP signing, start-up (`app/admin.go`, `rdp_signing.go`, `app.go`) | `admin_settings` | update, generate a certificate, read, upgrade of sealed rows | Settings, SettingsProofs, MCSettings |
| Encryption at rest (`cipher.go`, `kek*.go`) | envelopes | seal, open, rewrap | classes and owners in Resource; formats, layers and key providers in Settings |
| Background loop (`app/sync_job.go`) | none | ticks: both synchronisations, reminders, purge | fairness of Reminders and ManagedRecords; the purge is an action of Sessions |
| App registrations (`resources/appregistration.go`) | managed `resources`, credentials | import, snapshot, evaluate | their evaluations in Reminders |

Listed in `PROJECT.json` and not modelled: the clients of Key Vault and Graph,
the audit log, generator tools and preferences, artifacts, the web front end, the
extension's own storage. They are pure I/O, read-only, or rows with no invariant
between them; the reason is with each component.

### How they interact

* A sign-in creates a session row; a local account's sign-in also creates its
  vault, or opens it with the login password and puts the key into the session.
* A save of a personal resource reads the owner's public key from the vault and
  stores an envelope only that key's owner can open.
* An administrator's reset destroys vault, unlock methods, personal resources
  and sessions of one account together.
* Deleting an account removes it from groups, transfers its shared resources
  and removes its personal ones.
* Updates of a record and synchronisations evaluate its reminders and then
  flush the pending mail.
* A launch becomes a ticket in the memory of one replica; the launcher redeems it
  and works on the stores of its own desktop, which every launch there shares.
* A launch carries the signing certificate that the settings hold; a desktop
  fetches its public part and installs the trust in it.
* All requests share one database under READ COMMITTED; processes share nothing
  else. A mutex (`syncMu`) orders synchronisations within one process only.

### What is hard

* Statements of several requests interleave, and most of the code reads in one
  statement, decides, and writes in a later one that does not look again.
* Requests stop half way: the process dies, the client leaves, a statement fails.
* A mail can be sent and its mark lost; a synchronisation can fail part-way.
* Several replicas run the same loops, and upgrade the same rows when they start.
* Answers reach a browser late, in another order, or not at all.
* What the launcher has done on a desktop is not undone when its next step fails.
* The rule of who may use an object is written down in several places.
* Long sequences of legal calls (convert, change owner, change mode, blank edit,
  restore) must not reach a row nobody can open.

The hazards in `PROJECT.json` list each place, with the properties that watch it.

## 2. The modules

Each module says in its header what a step is. The convention throughout: one
statement or one transaction whose reads cannot be overtaken is one step;
values a request carries from a read to a later write are fields of `req[r]`,
whose `pc` says which statement comes next. `Abort` (Vault, Sessions,
Resource, Accounts) and `Stop` (Reminders, ManagedRecords) end a request between
two statements. Definitions marked `variant` are deliberately wrong versions of a
step, used to show that a property notices; nothing else refers to them. An MC
module gives a module its small instance. Where everything together would be too many
states, the MC module chooses one of two halves at the start of a behaviour, in a
variable of its own:

| MC module | Variable | Halves |
|---|---|---|
| `MCSignIn` | `microsoft` | passwords; the provider and cookies |
| `MCSessions` | `expiring` | rows that expire; vault keys and resets |
| `MCAccounts` | `objects` | owned objects; groups. In both nobody is blocked, only the directory renames, and a behaviour ends when it is `raced` |
| `MCLaunch` | `desktopOnly` | the backend, with two of the tickets issued, no certificate, both kinds and ways; three RDP launches by the bridge on one desktop's stores, with tickets in time and two certificates |
| `MCSettings` | `rollout` | replicas with either provider, opening one or both, and no desktop; a desktop, with replicas that all use the local key. An earlier version left rows of the certificate or of the secret, not of both |

`MCResource` lets requests overlap on fewer people and inputs than those that come one
by one.

### Vault

One account. A keypair is an element of `Keys`; `wraps[d]` is the unlock row of
door `d` (login password, passphrase or a passkey) with the key it holds and
the secret it is wrapped under; `skey[s]` is the private key in session `s`;
`items[i]` the key resource `i` is sealed to. Every table involved is keyed by
`user_id`, so accounts do not interact and one is enough. `SsoSignIn` gives a new
external account the hash of a fixed text, as `UpsertExternalUser` does
(`repository.go:319`); such an account has no link and no local sign-in, but whoever
types that text passes the check of a password change.

The thirteen kinds of request are sequences of actions named after the code:
`EnsureRead`/`EnsureOpen`/`EnsureInsert` are `EnsureLocalUserVault`,
`SetupRead`/`SetupInsert` the first setup, `CountMethods`/`DeleteMethod` the
transaction of `RemoveUnlockMethod` (two steps, because under READ COMMITTED
its count is not protected from another removal), `VerifyPassword` to
`EndOtherSessions` the password change, `DestroyVault` the reset, and so on.

`VaultPromise` is the abstract specification: one key at a time, handed out to
doors, sessions and resources, and taken from all of them at once. Under
`SafeOverlap` Vault implements it (`KeepsThePromise`, by the refinement mapping
`key <- vault`, `opens <- keys of wraps`, `carried <- skey`, `sealed <- items`).

### Sessions

Tokens, connect tokens and what each request still has to do. The issuing paths
read whether the account is blocked and insert later; an exchange commits the
deletion of its connect token before it inserts the extension session;
`deleteSessions` finds the rows first, deletes the connect tokens in a later
statement, and commits both (the rows found stay locked meanwhile). A vault key
is the number of resets before it. Two histories follow what the code does not keep
apart: `crossed`, on a row and on the request that writes it, says that a block came
after the request's check, or a reset while it carried a key; `revoked` is what the
revocations that have ended were to end. Rows age `live`, `expired`, `old`, since the
purge removes only what expired seven days ago. The one-installation rule is
the unique index of `browser_extension_sessions`.

### Resource

One password row: owner, scope, archived, secret mode and envelope. An envelope
is its class (plain, old format, shared, personal), the user it is sealed to,
and the word in it. `BeginUpdate` authorises against the row it read;
`WriteUpdate` overwrites the row by what was read and typed (`Effective`,
`Prepared`, `Keep`, `Overwrite` follow `normalizeInput`, `validateInput`,
`prepareSecretForStorage` and the repository's update). `Archive` decides
between deleting and archiving by the row it read. The migration
(`UpgradeRead`/`UpgradeWrite`) compares the envelope, nothing else. `strayed` is
history: an external record was given to a new owner with the personal envelope of
the former one (`Stray`).

### Accounts

Accounts with their display names, the assignment lists of groups, and owned objects.
Creating and editing an account reads all groups and writes all groups back; a group
edit writes the list its page had loaded; a deletion reads the target's name and counts
administrators first, and then runs as one transaction that matches objects by the
owner's id or label (`AfterDelete`). Owner and label of an object are what its request
says: an administrator types both, and nothing checks that there is such an account
(`Creatable`, `Editable`); `BeginStore`/`CommitStore` create, `BeginEdit`/`CommitEdit`
edit. A sign-in of the directory's rewrites the display name. Uuids are never reused;
ids of `External` accounts belong to the directory and come back when the person signs
in again. `stray` and `raced` are histories: the ids that an administrator named without
there being an account, or whose deletion overlapped another request; and whether an
administrator was lost while a deletion was past its count, or the last one by a sign-in.

### Reminders

The credentials of one record, the days, and `expiry_notifications` by its
unique key (recipient, credential, date, day), which makes the check and the
insert of a reminder one step. A reminder is recorded with the status "off" where the
policy of the day has no e-mail among its channels, and then never listed. A failed
delivery is listed again for a day; the model lets it be listed or not from the next
day on. A delivery may fail with an error and yet have arrived (`SendUnnoticed`:
`smtp.SendMail` reports what came after the server took the message), and errors of
`markEmailStatus` are dropped by the code, so a mail may be sent and its row stay
untried. `mails` is history: how often a reminder was mailed, or that this is "unclear"
because one of these happened to it or two flushes had it listed at once.

### ManagedRecords

The vault (`remote`, external), the managed records, and requests with the
listing they took. A synchronisation creates records for secrets without one,
then looks each listed record up and writes it back whole, or archives it. The
look-up and the write-back are separate steps. A creation, a discovery or a look-up that
fails is recorded and skipped, and the run goes on (`Skip`). A manual import takes the mutex
of its process too; edits, archiving and restoring take none.

### SignIn

Requests to sign in, and the cookies of browsers. `Password` reads the account's
row after the limiter and refuses locked and blocked accounts; `Wrong` and
`Right` come after the long comparison and write what they compute from that
reading (`Authenticate`, `recordFailedLogin`) - or nothing, since `recordFailedLogin` and
the reset after a success drop the errors of their statements. A Microsoft sign-in leaves through
`MicrosoftStart`, whose state is kept in a cookie, and returns through
`MicrosoftCallback` in whichever browser its address is opened; `Exchange` takes
the provider's code, once. A reply is a request slot of its own until the browser
takes it (`TakeReply`) or it is lost, so that answers to two tabs pass one
another. `Whose[b]` is the account that the person at browser `b` can prove to be.
`guesses` counts the wrong passwords whose count was written since the last lock, or
since the count was last cleared.

### Access

Two accounts, groups, and one object. `Resolved` is `ResolveAuthorization`: groups
by membership, by address, by a mapped external group or one of the same name,
and the union of rights, or a table of its own for administrators. `Listed` goes
by the visibility scope of the lists, `Get`, `Reveal`, `Fill`, `Launch`, `EditOf`,
`RemovalOf`, `PortalMatches`, `Mention`, `MentionCandidate` by the rules their
handlers apply to the row, with the answer each gives. The actions store the
object the way the handlers do (`Normalize`, `Valid`, `Owned`, `Restricted`,
`Managed`), import it, convert, archive and restore it, and change groups, rights
and memberships. What a synchronisation imports is nobody's; a Key Vault secret that an
administrator imports is that administrator's.

### Launch

One person on one Windows desktop. `Issue` builds the payload and files it under a
ticket; `Resolve` takes it out and looks at its time. On the desktop a launch goes
through `StoreCredential`, `WriteProfile`, `Sign`, `Mark`, `OpenClient` and, ten
minutes later, `ClearCredential`, or through `WriteSession`, `StartSession`,
`ReadSession`; `Fail` can come at any of them and undoes nothing. A launch may carry no
secret (the credential asks for it, or has none): then `StoreCredential` stores
nothing and the client opens with what is there, and SSH goes straight to the native
client. Overrides are set for both kinds of connection. A launch by protocol runs in a
process that ends with its client's start; `StopBridge` ends the bridge with all it
serves. `left` records that a launch was cut off after it had stored a secret. Two
histories follow what launches do to one another: `alone`, on a launch, that no other one
has worked on the stores or cleared them since it began to; `muddled`, the connections
whose profile was signed out of turn since it was written. All RDP connections are to
one host, because targets in Credential Manager are named by the host. `Issue` reads
the override, its password, the signing configuration and the secret in one step: each
goes into the payload by itself, so a change between two reads is one before or after.

### Settings

`admin_settings` by its rows that depend on one another: the certificate's pieces
(PFX with its password, leaf with root, thumbprint), a secret setting, and the
switch of signing. A stored value has a form (plain, v1, an envelope of a key
provider) and a number of layers, because an earlier version sealed what was
sealed. `Start` and `UpgradeRow` bring up a replica (`UpgradeSecretSettings`) with the
provider it seals with and those it opens: the local key always, a Key Vault if the
replica was given its address (`Registered`). A row of a provider that was not given
does not open (`Opens`); a replica that meets one at its start does not start, and one
that serves fails to load the settings as a whole (`Loads`), so that it generates nothing
and launches nothing signed, while an update, which reads nothing first, still writes.
`WriteRow` writes one row of an update or of a generation, `Abort` leaves the rest unwritten; a generation begins when there is no certificate or
one of another subject (`made.foreign`, `Managed`). `sealers` is history: the
providers that replicas have sealed with. The desktop imports a launch's package
(`Import`) and synchronises its trust: `Fetch`, `Clean`, then leaf, root and the policy
list in `InstallOrder`; `GiveUp` stops after any of them.

## 3. The runs

| Run | Instance | Shows |
|---|---|---|
| `vault` | 2 requests, 2 keys, 2 secrets, 1 passkey, 2 sessions, 1 item; overlap within `SafeOverlap`; any request may stop half way | one key for every door, session and item; never a vault without a door; a password after a reset only by a link, or by a change that had been verified before; the keypair goes only with all its data; the password's method stays; refinement of VaultPromise; and while no request has stopped half way and links were used one at a time, the login password opens its method whenever nothing is in flight |
| `vault_two_removals` | `RemoveOnly` requests, any overlap | violation: both removals count two and the vault is left without a door |
| `sessions` | 1 user, 2 session tokens, 1 connect token, 2 installations, 2 requests, 1 reset; every overlap | what a finished revocation was to end is not used again; a blocked account holds only what was past its check at the block; a former vault's key goes no further than what was being connected at the reset; a connect token is exchanged once |
| `signin` | 2 accounts, 2 browsers, 2 requests, 2 tokens, 2 states; a lock at 3 wrong passwords, a limit of 2 in a window | however attempts overlap and whatever writes are lost, a bounded number of wrong passwords whose writes succeed sets the lock; a browser holds a session of its own person only |
| `resource` | 3 users (plain, editor, administrator), 2 texts with or without spaces, both secret modes, 2 requests; those that overlap by 2 users, inline and without spaces | a personal envelope in use is only in a personal row of the owner it is sealed to, whatever overlaps, until an external record is given to a new owner with the former one's envelope; one request after another, inline passwords keep a secret, personal rows are never archived, only the owner shares, a blank edit keeps the secret |
| `access` | 2 users, 1 group, 1 external group besides the group's own name, 3 sharings, all kinds of object | a personal object is its owner's alone and looks gone to others; the decisions agree; an editor leaves owner, sharing and use alone; a group that gains takes nothing |
| `accounts` | 3 accounts (1 external), 1 administrators' group, 1 object, 2 display names, 2 requests; every overlap | what names an account that is gone was named so by an administrator, or put there by a request that overlapped its deletion; the last administrator is lost only behind a deletion's count, or by the directory |
| `reminders` | 1 user, 1 credential, 1 date or none, 2 days, 2 overlapping evaluations, 1 stop or lost mark | undisturbed, only current reminders stand and digests name current dates; whatever overlaps, stops or fails, a reminder is mailed twice only in the unclear cases; every recorded reminder is tried and every stale one goes, in the end |
| `managed` | 1 secret, 2 versions, 5 ids, 1 replica, 2 slots, 4 events (changes of the vault, edits, archivings, failures) | one live record for a secret but where a person restored one; neither side overwrites the other's fields; the records reflect the vault in the end |
| `launch` | 1 RDP and 1 SSH connection, 3 tickets, 2 launches, 2 certificates, with and without a secret, in the two halves of `MCLaunch`; every overlap | a ticket makes one launch, with the credential its page shows; a client finds what its own launch prepared, if it was alone; every secret has somebody who will remove it, unless a launch was cut off |
| `launch_handoff` | 1 RDP connection, 1 launch by the bridge | violation: a launch that fails after `cmdkey` leaves the credential for good |
| `settings` | 2 replicas, 2 key providers, 1 administrator's request and 1 desktop's at a time, 2 certificates, 2 secrets, 1 generation cut off, in the two halves of `MCSettings` | a sealed setting reads back as what was saved, or fails on a replica that was not given its provider; a configured certificate is one certificate; a listed one is installed |

Every passing run has a mutant for each of its properties. The type invariants
of Access, Settings and SignIn are proved and therefore not among the runs'
properties, and so are those of Accounts and Launch.

Why the bounds are enough. Every interaction here is between one request's read
and another's write, so two requests in flight show it; two keys are what it
takes for one to be wrong, and two secrets for a password to be stale. Two users
(three where an administrator, an editor and somebody without rights differ)
give every answer the authorisation can give. In `access` every way of coming by
a group or a right is there alone and with one other; sharing with a group,
a user or everybody covers `CanAccess`. A date and its absence let a rotation
change something and return; with `Dates = {d1, d2}`, so that one date is rotated to
another, the three invariants and `RemindersFollowTheRecord` hold as well (8.3
million states), and only the liveness check becomes too long. Four events let a secret appear, change and vanish
while somebody edits. In `sessions` the second installation is what it takes for one
connect token to be exchanged into two rows, since a second session of one installation
replaces the first, and one account is enough because no statement relates the rows of
two. In `accounts` two administrators and somebody from the directory, whose id comes back,
and two names, which may be the same, are what a deletion and whatever overlaps it can
differ about. In `launch` a third launch can follow two that met on the desktop's stores,
and two certificates let a signature be of the older; no step of the backend looks at the
desktop's stores and none there at the ticket once it is redeemed, which is why
the two are looked at apart. In `settings` two replicas with two providers are what it takes to
overwrite one another's upgrade, and a second certificate what it takes to mix two.

`GuessesEndInALock` is stated for the constants: with `M = MaxFailed` and `k`
requests in flight fewer than `choose(M + k - 1, k)` wrong passwords pass without a
lock: `M` itself for `k = 1`, and 36 for the code's 8 with two attempts always
overlapping. The bound is tight for `M = 3` with one to three requests, and holds
for `M = 4` with two and three and `M = 5` with two.

`resource` turns the deadlock check off, because an archived personal row admits no
further request; `signin` does, because tokens and states are used up, and `accounts`,
because a behaviour ends there when it is raced.

### The switches, and what the code does beyond them

Some properties do not hold for every overlap the code allows. Each module then
has a constant that says what the environment keeps apart, or a history variable
that says whether it has been so until now (it is read by properties and by no
action); the code has no such guard. What happens without it is this:

* `Overlap` (Vault). `SafeOverlap` keeps two removals apart, two creations of
  the vault apart, and a reset apart from requests that create the vault or
  carry its key. Two overlapping removals: `vault_two_removals`. Two first
  setups: the loser's `user_vaults` row is dropped by `on conflict do nothing`
  while its unlock row stays, and wraps another key. A reset between a
  password change's verification and its update: the change gives the account a
  password again, which `OnlyALinkSetsAFirstPassword` names as its exception. With
  `Overlap <- AnyOverlap` in `Vault.cfg` TLC shows each of them; `OnlyResetEndsAVault`,
  `PasswordDoorStays` and `OnlyALinkSetsAFirstPassword` hold even then, which is proved.
* `calm` (Vault, history). A request that stops between its two writes, a second
  invite link for an account that has a vault, or a link that is accepted while
  another is issued (`OneLinkAtATime` excludes both), leaves the vault's password
  method under an earlier password.
* `crossed`, `revoked` (Sessions, history). The exchange of a connect token and a
  sign-in have a gap between their check and their insert; a sign-out everywhere, a
  block or a reset in the gap misses both rows. The properties hold under every
  overlap and say how far this goes.
* `calm` (Resource, history). With two requests an edit authorised on a shared row
  overwrites the owner's conversion to personal, a decided archiving archives a
  row that became personal, and a blank edit writes back the secret it read.
  These three properties are therefore claimed while requests come one after another.
* `strayed` (Resource, history). An edit to external mode keeps the stored envelope,
  and in that mode an administrator may name another owner; when the new owner makes the
  record inline with a blank secret, the former owner's envelope is kept, which nobody
  can open. `EnvelopeFitsTheScope` is claimed until an external record is given away so.
* `UpgradeAlone` (Resource). The migration runs before the server listens, but
  another replica may be serving; its update compares the envelope and not the
  scope. The upgrade of settings compares the whole row, and needs no such switch.
* `stray` (Accounts, history). An administrator may type an owner who does not exist, and
  a request that overlaps a deletion writes back what it read before: a group lists the
  deleted account again, an object stored meanwhile belongs to nobody. `NothingDangles`
  holds of every other id. Creations and access updates that overlap each other can lose
  one another's assignments, which no property here forbids.
* `raced` (Accounts, history). Two administrators who delete each other both count two,
  and the directory may take the right from the last one: `AnAdministratorIsLeft` names
  both and allows nothing else.
* Shared objects are matched by the owner's label as well as by id. Labels are typed,
  names are not unique and change at a sign-in, so a deletion takes along objects that are
  somebody else's; the model does so too, and no property speaks of whom it spares.
* E-mail entries of groups stay when the account goes, and assign the next
  account with the address. `GroupsListLiveAccounts` is about ids.
* `calm`, `failures` (Reminders, history). An evaluation that read the record before a
  rotation supersedes the reminder of the new date: `OnlyCurrentRemindersStand` and
  `RemindersFollowTheRecord` are claimed of undisturbed histories.
* `mails` (Reminders, history). Two flushes that list the same reminder mail it twice, and
  so does one after an error that was reported of a delivered digest, or after a lost mark.
  `MailedOnce` holds of all reminders to which none of the three happened.
* `restored`, `crossed` (ManagedRecords, history). A record that is restored after
  its secret was imported again is a second live record; an edit that overlaps a
  synchronisation puts the old metadata back until the next one.
* `Replicas` (ManagedRecords). The mutex is of one process; two replicas import
  a new secret twice.
* `alone`, `muddled` (Launch, history). Two launches to one host share its targets in
  Credential Manager and, for one connection, its profile: the second one's login
  replaces the first's before its client opens, and the first one's timer removes the
  second's. A launch with a certificate older than the one its profile carries signs with
  the older one. `OpensAsSent` holds of a launch that was alone, and of the signature
  unless the profile was signed out of turn.
* `secret` (Launch). A launch without a secret opens with whatever Credential Manager holds
  for the host; `OpensAsSent` claims the login only of a launch that carries one.
* `sealers` (Settings, history). A replica without the address of the Key Vault fails on
  every row that another has sealed with it: `SecretsReadBack` claims that rows
  open only where each of the providers was given.
* `Apart`, `cut` (Settings). Two generations at a time write the rows of two
  certificates in any order, and so do two that were cut off; what is mixed counts
  as configured and is never replaced. A desktop that saw the mixture lists a
  thumbprint it has no certificate for. Where a certificate of another subject was
  entered, one generation that is cut off does the same (`Spare`).

Two of these are reported as findings, with runs, because the repository states
the opposite in so many words next to the code: the two removals, and the
credential that stays behind in `launch_handoff`.

### Where code and comments differ otherwise

Met while modelling, and without a run:

* A typed secret loses its outer spaces in `normalizeInput` (`validate.go:43`) before
  `prepareSecretForStorage` stores it "exactly as entered" (`reveal.go:100`).
  Resource models the trimming (`Effective`).
* `server.go:609` says that requests with an Authorization header authenticate by
  it; `SessionTokenFromRequest` (`auth/service.go:47`) takes the cookie first.
* `docs/security.md:84` lists account lockout for the vault's unlock; only the rate limit
  applies to it.
* `accessDenied` (`authz.go:36`) makes another's personal object look gone, but `Reveal`
  answers that a portal without a password is invalid input, and `Fill` and
  `SetConnectionCredentialOverride` answer that it is forbidden. `PersonalLooksGone` claims
  the other four.
* `normalizeKeyVaultSources` turns a disabled source whose interval is not positive
  into an enabled one.
* `cleanupMachineTestRDPSigningCertificates` removes the certificates of another
  deployment of the same subject while its thumbprint stays listed.
* The answer to a logout that arrives after a later sign-in's clears the new cookie.

### Fairness

`Reminders.FairSpec`: every request in flight goes on (the Go scheduler and the
database answer), and a synchronisation evaluates the record again and again,
which the ticker of `sync_job.go` does as long as the process runs.
`MaxFailures` bounds the stops, so a crash loop is not claimed to make progress.
`ManagedRecords.FairSpec`: every request proceeds and each replica keeps
synchronising; `MaxEvents` bounds the changes of the vault, the edits and the
failures, so the claim is what happens once they end. Automatic import is taken
to be on. Both suppose that a tick returns: the remote calls in it have no
deadline of their own, and one that never answers stops the loop.
`Launch.FairSpec`: a launch goes on or fails, since every call it waits for has a
time limit, and the timer of a running bridge fires (strongly fair, because another
launch may be working whenever it is due). The counterexample of
`launch_handoff` needs no more than one launch that fails.

## 4. The proofs

Every safety property of the passing runs is a theorem for every value of the
constants, but for the general bound of `GuessesEndInALock`. Each argument has the same form:
the types first (`TypeOK` is inductive, sometimes with a fact on what each statement's
request carries), then an invariant that adds what requests in flight have read and still
mean to write, since the properties themselves speak only of what is stored.
Where a property needs a switch of section 3 that is a constant, the theorem assumes the
same of it, and nothing more; histories are in the properties themselves.

`VaultProofs` (any number of requests, keys, secrets, passkeys, sessions, items):

* `TypeCorrect`: `Spec => [](TypeOK /\ RequestsFit)`. `RequestsFit` says which
  kinds of request reach which statement and what they carry there; typing the
  steps needs it.
* `VaultSafe`: if `Overlap \subseteq SafeOverlap`, then every door, session key
  and item is of the vault, and a vault has a door. None of these is inductive:
  a step writes what a request read earlier. `IInv` adds `Exclusive` (the requests
  in flight are pairwise safe) and `AllInFlight` (what a request holds in memory
  still agrees with the tables: a created key while there is no vault, a carried
  key equal to the vault's, a counted door still not the last). There is a lemma
  for each action that writes a table; `QuietStep` and `QuietNext` cover the rest.
* `VaultKeepsThePromise`: under the same assumption Vault implements
  `VaultPromise`. Few steps write what the promise speaks of (`OnlyWritesWrite`);
  `WritesKeepThePromise` names the promised step for each of them, and uses `IInv`
  for its guard.
* `FirstPasswordByLink`: `OnlyALinkSetsAFirstPassword`, without any assumption on the
  overlap. `Given`: whoever is about to verify gave a password to compare, so that where
  there is none nobody comes past the check; `HowThePasswordChanges` and `HowAChangeGoesOn`
  list the steps that matter.
* `VaultEndsWithItsData` and `PasswordDoorSafe`: the two action properties,
  without any assumption on the overlap, by cases on the step.
* `LoginOpensTheVault`: under the same assumption as `VaultSafe`,
  `LoginPasswordOpensTheVault`, which speaks of `calm` histories. `CalmInv` says what a request about the password
  still takes for granted at each of its statements (`RequestsAgree`; `Verified`: whoever is
  past the check of a password change finds a password), that a link
  is open only for an account without a password, which has no door on one
  (`LinksAgree`), and that a door which is not on the password is about to be
  rewrapped (`DoorFollows`); `OneLinkAtATime` itself is part of the invariant.

`SessionsProofs` (any accounts, tokens, installations, requests, resets):

* `SessionTypes`, and `OneSessionPerConnectToken` without assumption: `OnePlace`
  says that a connect token is in its table, with the one request that took it, or
  in one session.
* `RevocationHolds`, without assumption. `RevokedStaysRevoked`: what a revocation has
  ended is not there and not on its way, and what it has found and not deleted has
  expired, from its first statement on. `BlockedIsOvertaken`: of a blocked account, a request
  past its check is one that the block overtook. Steps that only take rows away are
  one lemma (`Shrinks`).
* `KeysStayCurrent`, without assumption. `KeysAreOvertaken`: a request carries the key of
  the vault there is, or a reset has overtaken it.

`ResourceProofs` (any users, texts and requests):

* `ResourceTypes`: `Spec => []TypeOK`, in both secret modes.
* `ScopeSafe`: with `UpgradeAlone`, `EnvelopeFitsTheScope`. `ScopeInv`: the migration meets
  an unchanged row and no request (`Alone`), and until `strayed` a personal envelope is its
  owner's (`Fits`) both in the row and in what a request has read (`SeenFits`), since a blank
  edit writes it back.
* `RecordStaysUsable`, `OwnersShare`, and with `UpgradeAlone` `BlankKeepsIt`, in both
  secret modes; the properties speak of `calm` histories. `Serial`: the row stands as
  the request read it, and the request was admitted for it; `ReadsTheRow`: its secret
  stands too.

`AccessProofs` (any accounts, groups, rights, inputs), no assumption beside the
module's own:

* `AccessTypes`, `PersonalIsPrivate`, `OneRule`, `EditorsKeepTheTerms`,
  `GainingTakesNothing`. Lemmas state what each decision comes to (`ListedIsGet`,
  `SecretRules`, `MentionRules`, `PersonalRules`); the invariant is that whatever
  stored the row left it `Clean`: no sharing lists on a personal row, no launch of
  a saved one, no use of a portal without a password.

The same module extends Launch as well (any connections, tickets, launches, ways,
certificates). Access and Launch have no constant and no variable in common, and the
names that both would have are Launch's with a prefix, `LaunchSpec` for one:

* `LaunchTypes`: `LaunchSpec => []LaunchTypeOK`.
* `OneLaunchOfATicket`: `OneLaunchAsShown`, with every overlap. `Redeemed`: what was
  sent is gone from the store, and no sweep, lapse or restart brings it back;
  `OnlyByRedeeming`: no other step gives a launch its payload.
* `SecretsAreOwed`: `[]EverySecretIsOwed`, with every overlap. The property is
  inductive given the types; `OwedMove` is the step of one launch that takes along
  what it owes, and whoever drops it sets `left`.
* `ClientsOpenAsSent`: `OpensAsSent`, with every overlap. `Tidy`: a launch that is alone is
  the only one at work (`OneWorks`) and finds there what it wrote, at each of its
  statements (`InOrder`); unless a profile is `muddled`, the signature on disk is never
  older than the marker beside it (`SignedFirst`), whatever was cut off between the two, so
  that a marker which names a launch's certificate vouches for the signature.

`RemindersProofs` (any recipients, credentials, dates, days, requests, failures):

* `ReminderTypes`, `TheCentreIsCurrent`, `OneDigestPerReminder`,
  `RemindersSayWhatTheRecordSays`, from one invariant. `Reading` and `Standing` speak of
  undisturbed histories (`calm`, `failures = 0`) and follow the one request in flight: it
  read what the record says, past its superseding nothing stale stands, what it has
  left is current. `Mailing` holds in every overlap and failure: what is left was recorded,
  and each reminder is `Booked` - mailed once, it is marked sent or its digest is
  about to be, and what two flushes list is unclear.

`ManagedRecordsProofs` (any secrets, versions, ids, requests, events):

* `ManagedRecordTypes` and `SynchronisationLeavesThePeoplesFields`, for any number
  of replicas. `Anchored`: what was listed still exists and is of the same secret;
  `NotesAgree`: without a crossing edit a listing has the records' notes.
* `OneRecordPerSecret`, if there is one replica. `Mutual` (the mutex is held by
  whoever lists), `StillMissing` (what is about to be created has no live record
  that was not restored), `Unique`.

`SettingsProofs` (any replicas, providers, requests, desktops, bounds):

* `SettingsTypes` and `SecretsAreNotLost`, however upgrades and writes interleave:
  a row holds what was saved (`Held`), in two layers only while no replica
  serves or has upgraded it (`Layered`), and in the form of a provider that somebody has
  sealed with, unless every replica still has it before it (`Opened`).
* `CertificateStaysWhole` and `ListedIsInstalled`. `Progress` says where a
  generation stands, `FirstCertificate` and `MixedIsIncomplete` what a cut leaves,
  `Installed` and `SeenByDesk` that a desktop only ever saw the one certificate. The
  conditions (`Apart`, `cut`, no certificate of another subject) are in the properties.

`SignInProofs` (any accounts, browsers, requests, replicas, tokens, limits):

* `SignInTypes`: `Spec => []TypeOK`, one step for each action.
* `SessionsAreTheirOwn`: `Spec => []EachBrowserHoldsItsOwnSession`. The invariant `Own`
  follows an identity on its way: a state in a browser's cookie is of a sign-in that
  began there, a callback past `StateMatches` likewise, a request about to issue is
  of the account its browser's user proved, a reply carries a session of that
  account, and so does the cookie it becomes. `Kept` says what no step ever
  changes - a token's account, a state's browser, a request while it is the same
  request - and carries the facts about everything a step leaves alone, so that
  each action has to be looked at for the one request it moves.
* `AttemptsInTurnLock`: if there is one slot for requests, fewer than `MaxFailed`
  wrong passwords whose writes succeed ever pass without a lock. This is `GuessesEndInALock` for `k = 1`;
  `Counted` says that the count a request read is the one it writes over.
* `TwoAtATimeLock`: with two slots, fewer than `MaxFailed * (MaxFailed + 1) / 2`
  such ones pass, however the two overlap and whatever writes are lost; this is `k = 2`. `Cost` prices the two counts that the
  slots would write over (what a request has read, or what it would read now) by how
  far below the limit they are. `Affordable` says that the guesses made and that
  price stay within what two counts of zero cost. A wrong password that does not lock
  lowers the price by what it adds to the guesses (`CostOfAGuess`), and nothing raises
  it without setting the guesses to zero. The run has two slots.

The same module extends Accounts as well, in the same way (any people, groups,
objects, requests):

* `AccountTypes`: `AccountsSpec => []AccountsTypeOK`, with every overlap.
* `NothingIsLeftDangling`: `NothingDangles`, with every overlap. The property is not
  inductive: a commit writes what its request read earlier. `KnownInv` adds that every id
  a request will write (`Pending`: the lists it read or edited, its target, its owner) is
  `Known`, of an account or accounted for by `stray`; a deletion makes strays of the ids
  that others in flight may still write.
* `AnAdminIsLeft`: `AnAdministratorIsLeft`, with every overlap. `LeftInv`: until it is
  raced there is an administrator, and for every deletion past its count another one than
  its target (`Spared`); an id that is being given out is nobody's yet (`NewIds`), so
  that no creation takes a right away.

The only assumptions on constants are the named `ASSUME`s of the modules, which
TLC evaluates on every run, and those in the statements of the theorems. The
assumptions of the theorems are met by the instances of the runs, but for the single
slot of `AttemptsInTurnLock`.

Only model-checked among the safety properties: `GuessesEndInALock` as it is stated,
for any number of overlapping requests. Its bound is a binomial coefficient, and what
a recursive `factorial` computes needs induction over data; the cases of one and of
two requests are proved with the bound written out. Out of the prover's reach, and
left to TLC for good: liveness under fairness and `ENABLED` (`RemindersSettle`,
`RecordsConverge`, `HandoffIsTemporary`). What `vault_two_removals` and
`launch_handoff` show is a counterexample, and there is nothing to prove. No module
declares a `RECURSIVE` operator.

## 5. Not modelled

* Formats: JSON, envelope bytes, WebAuthn and OAuth messages. A wrap
  opens with its secret, an envelope with its key.
* Database errors other than as a stop, and deadlocks that PostgreSQL resolves
  by aborting one transaction (a deletion of an account against a group edit).
* Last-use times, client descriptions, audit entries, views, folders, text search.
* The origin check, the cookie upgrade and the extension's bearers beside cookies.
* Launch clients on macOS and Linux, the installer's copying of itself, windows and
  consoles.
* The settings' other fields: notification policies, sources, synchronisation
  states, which are single rows read and written whole.

## 6. Plan

Written in this order: Vault, its promise and proofs; Sessions; Resource and its
proofs; Accounts; Reminders; ManagedRecords; Access; Launch; Settings; SignIn and
its proofs; then the proofs of Sessions, ManagedRecords, Settings, Access and
Reminders, the rest of those of Vault and Resource, and those of Accounts and Launch.
Next:

1. App registrations: import without a mutex, snapshots in a second transaction,
   and their composition with Reminders.
2. The composition of Vault, Sessions and SignIn over one session table.
3. The extension's pending credential and installation id.

To prove: that `AllIsOfTheVault` needs only the pairs kept apart that section 3 names, by
what each of the others leaves behind.
