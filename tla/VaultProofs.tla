---------------------------- MODULE VaultProofs ----------------------------
(***************************************************************************)
(* Proofs about Vault, for any number of requests, keys, secrets,          *)
(* passkeys, sessions and items.                                           *)
(*                                                                         *)
(* TypeOK needs nothing.  The properties of the vault need the requests to *)
(* keep to SafeOverlap, and a strengthening: what a request that is half   *)
(* way through holds in memory still agrees with the tables.               *)
(* That the login password opens its door needs more: that links are used  *)
(* one at a time and that no request stops half way.  CalmInv is its       *)
(* strengthening.                                                          *)
(***************************************************************************)
EXTENDS Vault, TLAPS

\* Which kinds of request reach which statement, and the secret and the key
\* they have by then.
KindFits(q) ==
    /\ q.pc = "idle" <=> q.kind = "none"
    /\ q.kind = "create" => q.sess = NoSession
    /\ q.pc = "session" => q.kind \in {"sso", "login", "accept"}
    /\ q.pc = "session" /\ q.kind # "sso" => q.secret \in Secrets
    /\ q.pc \in {"ensure", "ensureOpen", "ensureInsert"} =>
         /\ q.kind \in {"create", "login", "accept", "change"}
         /\ q.secret \in Secrets
    /\ q.pc \in {"ensureInsert", "setupInsert", "attach", "add", "rewrap", "store"} =>
         q.priv \in Keys
    /\ q.pc \in {"setup", "setupInsert"} => q.kind = "setup"
    /\ q.pc \in {"setup", "setupInsert", "add"} =>
         q.secret \in Secrets \cup Passkeys /\ q.door # "password"
    /\ q.pc = "open" => q.kind = "unlock"
    /\ q.pc = "attach" => q.kind \in {"login", "accept", "setup", "unlock"}
    /\ q.pc = "add" => q.kind = "add"
    /\ q.pc \in {"count", "delete"} => q.kind = "remove" /\ q.door # "password"
    /\ q.pc \in {"verify", "openCurrent", "setHash", "rewrap", "endOthers"} => q.kind = "change"
    /\ q.pc \in {"verify", "openCurrent", "setHash", "rewrap"} => q.new \in Secrets
    /\ q.pc = "destroy" => q.kind = "reset"
    /\ q.pc = "link" => q.kind \in {"invite", "reinvite", "reset"}
    /\ q.pc = "acceptHash" => q.kind = "accept" /\ q.secret \in Secrets
    /\ q.pc \in {"seal", "store"} => q.kind = "save"

RequestsFit == \A r \in Requests : KindFits(req[r])

\* The requests in flight are pairwise safe.
Exclusive ==
    \A r, q \in Requests :
        r # q /\ ~At(r, "idle") /\ ~At(q, "idle") => SafePair(req[r].kind, req[q].kind)

\* What a request holds in memory agrees with the tables.
InFlight(q) ==
    /\ q.pc \in {"ensureInsert", "setupInsert"} => vault = NoKey /\ q.priv # NoKey
    /\ q.pc = "attach" => q.priv # NoKey /\ (q.sess \in live => q.priv = vault)
    /\ q.pc \in {"add", "store"} => vault # NoKey /\ q.priv = vault
    /\ q.pc \in {"verify", "openCurrent", "setHash", "rewrap"} => q.priv \in {NoKey, vault}
    /\ q.pc = "rewrap" => vault # NoKey /\ q.priv # NoKey
    /\ q.pc = "delete" => \E d, e \in Held : d # e

AllInFlight == \A r \in Requests : InFlight(req[r])

VaultOK ==
    /\ EveryDoorOpensTheVault
    /\ EverySessionKeyOpensTheVault
    /\ EveryItemIsSealedToTheVault
    /\ TheVaultHasADoor

IInv == TypeOK /\ RequestsFit /\ Exclusive /\ AllInFlight /\ VaultOK

-----------------------------------------------------------------------------
(* Types *)

TablesType ==
    /\ hash \in Secrets \cup {NoSecret, NoUser}
    /\ invite \in BOOLEAN
    /\ vault \in Keys \cup {NoKey}
    /\ wraps \in [Doors -> Wraps \cup {NoWrap}]
    /\ live \subseteq Sessions
    /\ skey \in [Sessions -> Keys \cup {NoKey}]
    /\ items \in [Items -> Keys \cup {NoKey}]

RequestsType == req \in [Requests -> Request] /\ RequestsFit

\* Idle is a request, and fits.
LEMMA IdleType ==
    /\ Idle \in Request
    /\ Idle.kind = "none" /\ Idle.pc = "idle" /\ KindFits(Idle)
  BY DEF Idle, Request, Kinds, Pcs, Doors, KindFits

\* The fields of a request that has just begun.
LEMMA NewRequestType ==
    ASSUME NEW kind \in Kinds, NEW pc \in Pcs
    PROVE  /\ NewRequest(kind, pc) \in Request
           /\ NewRequest(kind, pc).kind = kind
           /\ NewRequest(kind, pc).pc = pc
           /\ NewRequest(kind, pc).sess = NoSession
           /\ NewRequest(kind, pc).priv = NoKey
           /\ NewRequest(kind, pc).secret = NoSecret
  BY IdleType DEF NewRequest, Idle, Request

\* unlockVaultWithPassword returns a key or nil.
LEMMA OpenedType ==
    TypeOK => \A p : OpenedByPassword(p) \in Keys \cup {NoKey}
  BY DistinctConstants DEF TypeOK, OpenedByPassword, Doors, Wraps

\* A request whose EnsureLocalUserVault returns is still well-formed.
LEMMA AfterEnsureType ==
    ASSUME TypeOK, RequestsFit, NEW r \in Requests, NEW k \in Keys \cup {NoKey},
           At(r, "ensureOpen") \/ At(r, "ensureInsert"), AfterEnsure(r, k)
    PROVE  RequestsType'
<1> USE IdleType, DistinctConstants DEF RequestsType, RequestsFit
<1>1. /\ req \in [Requests -> Request]
      /\ req[r].kind \in {"create", "login", "accept", "change"}
  BY DEF TypeOK, At, KindFits
<1>2. CASE req[r].kind = "change"
  <2> DEFINE q == [req[r] EXCEPT !.pc = "endOthers", !.priv = NoKey]
  <2>1. q \in Request
    BY <1>1 DEF Request, Pcs
  <2>2. KindFits(q)
    BY <1>1, <1>2 DEF KindFits, Request
  <2>3. req' = [req EXCEPT ![r] = q]
    BY <1>1, <1>2 DEF AfterEnsure
  <2> QED  BY <1>1, <2>1, <2>2, <2>3
<1>3. CASE req[r].kind # "change" /\ k # NoKey /\ req[r].sess # NoSession
  <2> DEFINE q == [req[r] EXCEPT !.pc = "attach", !.priv = k]
  <2>1. q \in Request
    BY <1>1 DEF Request, Pcs
  <2>2. KindFits(q)
    BY <1>1, <1>3 DEF KindFits, Request
  <2>3. req' = [req EXCEPT ![r] = q]
    BY <1>1, <1>3 DEF AfterEnsure
  <2> QED  BY <1>1, <2>1, <2>2, <2>3
<1>4. CASE req[r].kind # "change" /\ ~(k # NoKey /\ req[r].sess # NoSession)
  BY <1>1, <1>4 DEF AfterEnsure, Finish
<1> QED  BY <1>2, <1>3, <1>4

\* Every step leaves well-formed requests.
LEMMA RequestsNext == TypeOK /\ RequestsFit /\ [Next]_vars => RequestsType'
<1> SUFFICES ASSUME TypeOK, RequestsFit, [Next]_vars PROVE RequestsType'
  OBVIOUS
<1> USE IdleType, DistinctConstants DEF TypeOK, RequestsType, RequestsFit, At, Goto, Finish,
     Held, Wraps
<1>1. ASSUME NEW r \in Requests, CreateUser(r) PROVE RequestsType'
  <2>1. PICK p \in Secrets : Begin(r, [NewRequest("create", "ensure") EXCEPT !.secret = p])
    BY <1>1 DEF CreateUser
  <2> DEFINE q == [NewRequest("create", "ensure") EXCEPT !.secret = p]
  <2>2. q \in Request
    BY DEF NewRequest, Idle, SignedIn, SecretFor, Kinds, Pcs, Doors, Request
  <2>3. KindFits(q)
    BY DEF NewRequest, Idle, SignedIn, SecretFor, KindFits
  <2>4. req' = [req EXCEPT ![r] = q]
    BY <2>1 DEF Begin
  <2> QED  BY <2>2, <2>3, <2>4
<1>2. ASSUME NEW r \in Requests, CreateUserWithoutPassword(r) PROVE RequestsType'
  <2> DEFINE q == NewRequest("invite", "link")
  <2>1. q \in Request
    BY DEF NewRequest, Idle, Kinds, Pcs, Doors, Request
  <2>2. KindFits(q)
    BY DEF NewRequest, Idle, KindFits
  <2>3. req' = [req EXCEPT ![r] = q]
    BY <1>2 DEF CreateUserWithoutPassword, Begin
  <2> QED  BY <2>1, <2>2, <2>3
<1>3. ASSUME NEW r \in Requests, SsoSignIn(r) PROVE RequestsType'
  <2> DEFINE q == NewRequest("sso", "session")
  <2>1. q \in Request
    BY DEF NewRequest, Idle, Kinds, Pcs, Doors, Request
  <2>2. KindFits(q)
    BY DEF NewRequest, Idle, KindFits
  <2>3. req' = [req EXCEPT ![r] = q]
    BY <1>3 DEF SsoSignIn, Begin
  <2> QED  BY <2>1, <2>2, <2>3
<1>4. ASSUME NEW r \in Requests, Authenticate(r) PROVE RequestsType'
  <2>1. PICK p \in Secrets : Begin(r, [NewRequest("login", "session") EXCEPT !.secret = p])
    BY <1>4 DEF Authenticate
  <2> DEFINE q == [NewRequest("login", "session") EXCEPT !.secret = p]
  <2>2. q \in Request
    BY DEF NewRequest, Idle, SignedIn, SecretFor, Kinds, Pcs, Doors, Request
  <2>3. KindFits(q)
    BY DEF NewRequest, Idle, SignedIn, SecretFor, KindFits
  <2>4. req' = [req EXCEPT ![r] = q]
    BY <2>1 DEF Begin
  <2> QED  BY <2>2, <2>3, <2>4
<1>5. ASSUME NEW r \in Requests, ConsumeInvite(r) PROVE RequestsType'
  <2>1. PICK p \in Secrets : Begin(r, [NewRequest("accept", "acceptHash") EXCEPT !.secret = p])
    BY <1>5 DEF ConsumeInvite
  <2> DEFINE q == [NewRequest("accept", "acceptHash") EXCEPT !.secret = p]
  <2>2. q \in Request
    BY DEF NewRequest, Idle, SignedIn, SecretFor, Kinds, Pcs, Doors, Request
  <2>3. KindFits(q)
    BY DEF NewRequest, Idle, SignedIn, SecretFor, KindFits
  <2>4. req' = [req EXCEPT ![r] = q]
    BY <2>1 DEF Begin
  <2> QED  BY <2>2, <2>3, <2>4
<1>6. ASSUME NEW r \in Requests, AcceptPasswordHash(r) PROVE RequestsType'
  <2> DEFINE q == [req[r] EXCEPT !.pc = "session"]
  <2>1. q \in Request
    BY OpenedType DEF Request, Pcs
  <2>2. KindFits(q)
    BY <1>6 DEF AcceptPasswordHash, KindFits
  <2>3. req' = [req EXCEPT ![r] = q]
    BY <1>6 DEF AcceptPasswordHash
  <2> QED  BY <2>1, <2>2, <2>3
<1>7. ASSUME NEW r \in Requests, CreateSession(r) PROVE RequestsType'
  BY <1>7 DEF CreateSession, KindFits, Request, Pcs
<1>8. ASSUME NEW r \in Requests, EnsureRead(r) PROVE RequestsType'
  BY <1>8 DEF EnsureRead, KindFits, Request, Pcs
<1>9. ASSUME NEW r \in Requests, EnsureOpen(r) PROVE RequestsType'
  BY <1>9, OpenedType, AfterEnsureType DEF EnsureOpen
<1>10. ASSUME NEW r \in Requests, EnsureInsert(r) PROVE RequestsType'
  <2>1. req[r].priv \in Keys
    BY <1>10 DEF EnsureInsert, KindFits
  <2> QED  BY <1>10, <2>1, AfterEnsureType DEF EnsureInsert
<1>11. ASSUME NEW r \in Requests, BeginSetup(r) PROVE RequestsType'
  <2>1. PICK s \in Sessions, d \in Doors \ {"password"}, p \in Secrets :
            Begin(r, [NewRequest("setup", "setup") EXCEPT !.sess = s, !.door = d,
            !.secret = SecretFor(d, p)])
    BY <1>11 DEF BeginSetup
  <2> DEFINE q == [NewRequest("setup", "setup") EXCEPT !.sess = s, !.door = d,
       !.secret = SecretFor(d, p)]
  <2>2. q \in Request
    BY DEF NewRequest, Idle, SignedIn, SecretFor, Kinds, Pcs, Doors, Request
  <2>3. KindFits(q)
    <3>1. SecretFor(d, p) \in Secrets \cup Passkeys
      BY DEF SecretFor
    <3>2. q.kind = "setup" /\ q.pc = "setup" /\ q.secret = SecretFor(d, p)
      BY DEF NewRequest, Idle
    <3> QED  BY <3>1, <3>2 DEF KindFits
  <2>4. req' = [req EXCEPT ![r] = q]
    BY <2>1 DEF Begin
  <2> QED  BY <2>2, <2>3, <2>4
<1>12. ASSUME NEW r \in Requests, SetupRead(r) PROVE RequestsType'
  <2>1. CASE Finish(r)
    BY <2>1 DEF Finish, Idle, KindFits, Request, Pcs, Kinds, Doors
  <2>2. ASSUME NEW k \in Keys,
               req' = [req EXCEPT ![r].pc = "setupInsert", ![r].priv = k]
        PROVE  RequestsType'
    <3> DEFINE q == [req[r] EXCEPT !.pc = "setupInsert", !.priv = k]
    <3>1. q \in Request
      BY DEF Request, Pcs
    <3>2. KindFits(q)
      BY <1>12 DEF SetupRead, KindFits
    <3>3. req' = [req EXCEPT ![r] = q]
      BY <2>2
    <3> QED  BY <3>1, <3>2, <3>3
  <2> QED  BY <1>12, <2>1, <2>2 DEF SetupRead
<1>13. ASSUME NEW r \in Requests, SetupInsert(r) PROVE RequestsType'
  <2> DEFINE q == [req[r] EXCEPT !.pc = "attach"]
  <2>1. q \in Request
    BY DEF Request, Pcs
  <2>2. KindFits(q)
    BY <1>13 DEF SetupInsert, KindFits
  <2>3. req' = [req EXCEPT ![r] = q]
    BY <1>13 DEF SetupInsert
  <2> QED  BY <2>1, <2>2, <2>3
<1>14. ASSUME NEW r \in Requests, BeginUnlock(r) PROVE RequestsType'
  <2>1. PICK s \in Sessions, p \in Secrets \cup Passkeys :
            Begin(r, [NewRequest("unlock", "open") EXCEPT !.sess = s, !.secret = p])
    BY <1>14 DEF BeginUnlock
  <2> DEFINE q == [NewRequest("unlock", "open") EXCEPT !.sess = s, !.secret = p]
  <2>2. q \in Request
    BY DEF NewRequest, Idle, SignedIn, SecretFor, Kinds, Pcs, Doors, Request
  <2>3. KindFits(q)
    BY DEF NewRequest, Idle, SignedIn, SecretFor, KindFits
  <2>4. req' = [req EXCEPT ![r] = q]
    BY <2>1 DEF Begin
  <2> QED  BY <2>2, <2>3, <2>4
<1>15. ASSUME NEW r \in Requests, UnlockOpen(r) PROVE RequestsType'
  BY <1>15 DEF UnlockOpen, KindFits, Request, Pcs
<1>16. ASSUME NEW r \in Requests, Attach(r) PROVE RequestsType'
  BY <1>16 DEF Attach, KindFits, Request, Pcs
<1>17. ASSUME NEW r \in Requests, BeginAdd(r) PROVE RequestsType'
  <2>1. PICK s \in Sessions, d \in Doors \ {"password"}, p \in Secrets :
          skey[s] # NoKey /\ Begin(r, SignedIn(s, [NewRequest("add", "add") EXCEPT !.door = d,
          !.secret = SecretFor(d, p)]))
    BY <1>17 DEF BeginAdd
  <2> DEFINE q == SignedIn(s, [NewRequest("add", "add") EXCEPT !.door = d,
       !.secret = SecretFor(d, p)])
  <2>2. q \in Request
    BY DEF NewRequest, Idle, SignedIn, SecretFor, Kinds, Pcs, Doors, Request
  <2>3. KindFits(q)
    <3>1. SecretFor(d, p) \in Secrets \cup Passkeys
      BY DEF SecretFor
    <3>2. /\ q.kind = "add" /\ q.pc = "add" /\ q.secret = SecretFor(d, p)
          /\ q.priv = skey[s] /\ q.door = d
      BY DEF NewRequest, Idle, SignedIn
    <3>3. skey[s] \in Keys
      BY <2>1
    <3> QED  BY <3>1, <3>2, <3>3 DEF KindFits
  <2>4. req' = [req EXCEPT ![r] = q]
    BY <2>1 DEF Begin
  <2> QED  BY <2>2, <2>3, <2>4
<1>18. ASSUME NEW r \in Requests, AddMethod(r) PROVE RequestsType'
  BY <1>18 DEF AddMethod, KindFits, Request, Pcs
<1>19. ASSUME NEW r \in Requests, BeginRemove(r) PROVE RequestsType'
  <2>1. PICK s \in Sessions, d \in Doors \ {"password"} :
            Begin(r, SignedIn(s, [NewRequest("remove", "count") EXCEPT !.door = d]))
    BY <1>19 DEF BeginRemove
  <2> DEFINE q == SignedIn(s, [NewRequest("remove", "count") EXCEPT !.door = d])
  <2>2. q \in Request
    BY DEF NewRequest, Idle, SignedIn, SecretFor, Kinds, Pcs, Doors, Request
  <2>3. KindFits(q)
    BY DEF NewRequest, Idle, SignedIn, SecretFor, KindFits
  <2>4. req' = [req EXCEPT ![r] = q]
    BY <2>1 DEF Begin
  <2> QED  BY <2>2, <2>3, <2>4
<1>20. ASSUME NEW r \in Requests, CountMethods(r) PROVE RequestsType'
  <2> DEFINE q == [req[r] EXCEPT !.pc = "delete"]
  <2>1. q \in Request /\ KindFits(q)
    BY <1>20 DEF CountMethods, KindFits, Request, Pcs
  <2>2. req' = [req EXCEPT ![r] = q] \/ req' = [req EXCEPT ![r] = Idle]
    BY <1>20 DEF CountMethods
  <2> QED  BY <2>1, <2>2
<1>21. ASSUME NEW r \in Requests, DeleteMethod(r) PROVE RequestsType'
  BY <1>21 DEF DeleteMethod, KindFits, Request, Pcs
<1>22. ASSUME NEW r \in Requests, BeginChange(r) PROVE RequestsType'
  <2>1. PICK s \in Sessions, old, p \in Secrets :
            Begin(r, SignedIn(s, [NewRequest("change", "verify") EXCEPT !.secret = old,
            !.new = p]))
    BY <1>22 DEF BeginChange
  <2> DEFINE q == SignedIn(s, [NewRequest("change", "verify") EXCEPT !.secret = old, !.new = p])
  <2>2. q \in Request
    BY DEF NewRequest, Idle, SignedIn, SecretFor, Kinds, Pcs, Doors, Request
  <2>3. KindFits(q)
    BY DEF NewRequest, Idle, SignedIn, SecretFor, KindFits
  <2>4. req' = [req EXCEPT ![r] = q]
    BY <2>1 DEF Begin
  <2> QED  BY <2>2, <2>3, <2>4
<1>23. ASSUME NEW r \in Requests, VerifyPassword(r) PROVE RequestsType'
  BY <1>23 DEF VerifyPassword, KindFits, Request, Pcs
<1>24. ASSUME NEW r \in Requests, OpenCurrent(r) PROVE RequestsType'
  <2> DEFINE q == [req[r] EXCEPT !.pc = "setHash", !.priv = OpenedByPassword(req[r].secret)]
  <2>1. q \in Request
    BY OpenedType DEF Request, Pcs
  <2>2. KindFits(q)
    BY <1>24 DEF OpenCurrent, KindFits
  <2>3. req' = [req EXCEPT ![r] = q]
    BY <1>24 DEF OpenCurrent
  <2> QED  BY <2>1, <2>2, <2>3
<1>25. ASSUME NEW r \in Requests, SetPasswordHash(r) PROVE RequestsType'
  BY <1>25 DEF SetPasswordHash, KindFits, Request, Pcs
<1>26. ASSUME NEW r \in Requests, Rewrap(r) PROVE RequestsType'
  BY <1>26 DEF Rewrap, KindFits, Request, Pcs
<1>27. ASSUME NEW r \in Requests, EndOtherSessions(r) PROVE RequestsType'
  BY <1>27 DEF EndOtherSessions, KindFits, Request, Pcs
<1>28. ASSUME NEW r \in Requests, BeginReset(r) PROVE RequestsType'
  <2> DEFINE q == NewRequest("reset", "destroy")
  <2>1. q \in Request
    BY DEF NewRequest, Idle, Kinds, Pcs, Doors, Request
  <2>2. KindFits(q)
    BY DEF NewRequest, Idle, KindFits
  <2>3. req' = [req EXCEPT ![r] = q]
    BY <1>28 DEF BeginReset, Begin
  <2> QED  BY <2>1, <2>2, <2>3
<1>29. ASSUME NEW r \in Requests, DestroyVault(r) PROVE RequestsType'
  <2>1. req[r].kind = "reset" /\ req' = [req EXCEPT ![r].pc = "link"]
    BY <1>29 DEF DestroyVault, KindFits
  <2>2. req'[r] \in Request /\ KindFits(req'[r])
    BY <2>1 DEF KindFits, Request, Pcs
  <2> QED  BY <2>1, <2>2
<1>30. ASSUME NEW r \in Requests, Reinvite(r) PROVE RequestsType'
  <2> DEFINE q == NewRequest("reinvite", "link")
  <2>1. q \in Request
    BY DEF NewRequest, Idle, Kinds, Pcs, Doors, Request
  <2>2. KindFits(q)
    BY DEF NewRequest, Idle, KindFits
  <2>3. req' = [req EXCEPT ![r] = q]
    BY <1>30 DEF Reinvite, Begin
  <2> QED  BY <2>1, <2>2, <2>3
<1>31. ASSUME NEW r \in Requests, CreateInvite(r) PROVE RequestsType'
  BY <1>31 DEF CreateInvite, KindFits, Request, Pcs
<1>32. ASSUME NEW r \in Requests, BeginSave(r) PROVE RequestsType'
  <2>1. PICK s \in Sessions, i \in Items :
            Begin(r, [NewRequest("save", "seal") EXCEPT !.sess = s, !.item = i])
    BY <1>32 DEF BeginSave
  <2> DEFINE q == [NewRequest("save", "seal") EXCEPT !.sess = s, !.item = i]
  <2>2. q \in Request
    BY DEF NewRequest, Idle, SignedIn, SecretFor, Kinds, Pcs, Doors, Request
  <2>3. KindFits(q)
    BY DEF NewRequest, Idle, SignedIn, SecretFor, KindFits
  <2>4. req' = [req EXCEPT ![r] = q]
    BY <2>1 DEF Begin
  <2> QED  BY <2>2, <2>3, <2>4
<1>33. ASSUME NEW r \in Requests, ReadPublicKey(r) PROVE RequestsType'
  BY <1>33 DEF ReadPublicKey, KindFits, Request, Pcs
<1>34. ASSUME NEW r \in Requests, StoreItem(r) PROVE RequestsType'
  BY <1>34 DEF StoreItem, KindFits, Request, Pcs
<1>35. ASSUME NEW r \in Requests, Abort(r) PROVE RequestsType'
  BY <1>35 DEF Abort, KindFits, Request, Pcs
<1>36. ASSUME NEW s \in Sessions, LockVault(s) \/ EndSession(s) PROVE RequestsType'
  BY <1>36 DEF LockVault, EndSession
<1>37. ASSUME NEW i \in Items, DeleteItem(i) PROVE RequestsType'
  BY <1>37 DEF DeleteItem
<1>38. ASSUME ExpireInvite PROVE RequestsType'
  BY <1>38 DEF ExpireInvite
<1>39. ASSUME UNCHANGED vars PROVE RequestsType'
  BY <1>39 DEF vars
<1> QED
  BY <1>1, <1>2, <1>3, <1>4, <1>5, <1>6, <1>7, <1>8, <1>9, <1>10, <1>11, <1>12, <1>13, <1>14,
     <1>15, <1>16, <1>17, <1>18, <1>19, <1>20, <1>21, <1>22, <1>23, <1>24, <1>25, <1>26, <1>27,
     <1>28, <1>29, <1>30, <1>31, <1>32, <1>33, <1>34, <1>35, <1>36, <1>37, <1>38, <1>39
     DEF Next, Step, SignInStep, MethodStep, AccountStep, SaveStep

\* Every step leaves well-formed tables.
LEMMA TablesNext == TypeOK /\ RequestsFit /\ [Next]_vars => TablesType'
<1> SUFFICES ASSUME TypeOK, RequestsFit, [Next]_vars PROVE TablesType'
  OBVIOUS
<1> USE DistinctConstants DEF TypeOK, TablesType, RequestsFit, KindFits, db, Begin, At, Put,
     PutNew, Held, Wraps, Request, Doors
<1>1. ASSUME NEW r \in Requests, CreateUser(r) PROVE TablesType'
  BY <1>1 DEF CreateUser
<1>2. ASSUME NEW r \in Requests, CreateUserWithoutPassword(r) PROVE TablesType'
  BY <1>2 DEF CreateUserWithoutPassword
<1>3. ASSUME NEW r \in Requests, SsoSignIn(r) PROVE TablesType'
  BY <1>3 DEF SsoSignIn
<1>4. ASSUME NEW r \in Requests, Authenticate(r) PROVE TablesType'
  BY <1>4 DEF Authenticate
<1>5. ASSUME NEW r \in Requests, ConsumeInvite(r) PROVE TablesType'
  BY <1>5 DEF ConsumeInvite
<1>6. ASSUME NEW r \in Requests, AcceptPasswordHash(r) PROVE TablesType'
  BY <1>6 DEF AcceptPasswordHash
<1>7. ASSUME NEW r \in Requests, CreateSession(r) PROVE TablesType'
  BY <1>7 DEF CreateSession
<1>8. ASSUME NEW r \in Requests, EnsureRead(r) PROVE TablesType'
  BY <1>8 DEF EnsureRead
<1>9. ASSUME NEW r \in Requests, EnsureOpen(r) PROVE TablesType'
  BY <1>9 DEF EnsureOpen, AfterEnsure, OpenedByPassword
<1>10. ASSUME NEW r \in Requests, EnsureInsert(r) PROVE TablesType'
  BY <1>10 DEF EnsureInsert, AfterEnsure
<1>11. ASSUME NEW r \in Requests, BeginSetup(r) PROVE TablesType'
  BY <1>11 DEF BeginSetup
<1>12. ASSUME NEW r \in Requests, SetupRead(r) PROVE TablesType'
  BY <1>12 DEF SetupRead
<1>13. ASSUME NEW r \in Requests, SetupInsert(r) PROVE TablesType'
  BY <1>13 DEF SetupInsert
<1>14. ASSUME NEW r \in Requests, BeginUnlock(r) PROVE TablesType'
  BY <1>14 DEF BeginUnlock
<1>15. ASSUME NEW r \in Requests, UnlockOpen(r) PROVE TablesType'
  BY <1>15 DEF UnlockOpen
<1>16. ASSUME NEW r \in Requests, Attach(r) PROVE TablesType'
  BY <1>16 DEF Attach
<1>17. ASSUME NEW r \in Requests, BeginAdd(r) PROVE TablesType'
  BY <1>17 DEF BeginAdd
<1>18. ASSUME NEW r \in Requests, AddMethod(r) PROVE TablesType'
  BY <1>18 DEF AddMethod
<1>19. ASSUME NEW r \in Requests, BeginRemove(r) PROVE TablesType'
  BY <1>19 DEF BeginRemove
<1>20. ASSUME NEW r \in Requests, CountMethods(r) PROVE TablesType'
  BY <1>20 DEF CountMethods
<1>21. ASSUME NEW r \in Requests, DeleteMethod(r) PROVE TablesType'
  BY <1>21 DEF DeleteMethod
<1>22. ASSUME NEW r \in Requests, BeginChange(r) PROVE TablesType'
  BY <1>22 DEF BeginChange
<1>23. ASSUME NEW r \in Requests, VerifyPassword(r) PROVE TablesType'
  BY <1>23 DEF VerifyPassword
<1>24. ASSUME NEW r \in Requests, OpenCurrent(r) PROVE TablesType'
  BY <1>24 DEF OpenCurrent, OpenedByPassword
<1>25. ASSUME NEW r \in Requests, SetPasswordHash(r) PROVE TablesType'
  BY <1>25 DEF SetPasswordHash
<1>26. ASSUME NEW r \in Requests, Rewrap(r) PROVE TablesType'
  BY <1>26 DEF Rewrap
<1>27. ASSUME NEW r \in Requests, EndOtherSessions(r) PROVE TablesType'
  BY <1>27 DEF EndOtherSessions
<1>28. ASSUME NEW r \in Requests, BeginReset(r) PROVE TablesType'
  BY <1>28 DEF BeginReset
<1>29. ASSUME NEW r \in Requests, DestroyVault(r) PROVE TablesType'
  BY <1>29 DEF DestroyVault
<1>30. ASSUME NEW r \in Requests, Reinvite(r) PROVE TablesType'
  BY <1>30 DEF Reinvite
<1>31. ASSUME NEW r \in Requests, CreateInvite(r) PROVE TablesType'
  BY <1>31 DEF CreateInvite
<1>32. ASSUME NEW r \in Requests, BeginSave(r) PROVE TablesType'
  BY <1>32 DEF BeginSave
<1>33. ASSUME NEW r \in Requests, ReadPublicKey(r) PROVE TablesType'
  BY <1>33 DEF ReadPublicKey
<1>34. ASSUME NEW r \in Requests, StoreItem(r) PROVE TablesType'
  BY <1>34 DEF StoreItem
<1>35. ASSUME NEW r \in Requests, Abort(r) PROVE TablesType'
  BY <1>35 DEF Abort
<1>36. ASSUME NEW s \in Sessions, LockVault(s) \/ EndSession(s) PROVE TablesType'
  BY <1>36 DEF LockVault, EndSession
<1>37. ASSUME NEW i \in Items, DeleteItem(i) PROVE TablesType'
  BY <1>37 DEF DeleteItem
<1>38. ASSUME ExpireInvite PROVE TablesType'
  BY <1>38 DEF ExpireInvite
<1>39. ASSUME UNCHANGED vars PROVE TablesType'
  BY <1>39 DEF vars
<1> QED
  BY <1>1, <1>2, <1>3, <1>4, <1>5, <1>6, <1>7, <1>8, <1>9, <1>10, <1>11, <1>12, <1>13, <1>14,
     <1>15, <1>16, <1>17, <1>18, <1>19, <1>20, <1>21, <1>22, <1>23, <1>24, <1>25, <1>26, <1>27,
     <1>28, <1>29, <1>30, <1>31, <1>32, <1>33, <1>34, <1>35, <1>36, <1>37, <1>38, <1>39
     DEF Next, Step, SignInStep, MethodStep, AccountStep, SaveStep

LEMMA CalmType == TypeOK /\ [Next]_vars => calm' \in BOOLEAN
<1> SUFFICES ASSUME TypeOK, [Next]_vars PROVE calm' \in BOOLEAN
  OBVIOUS
<1>1. ASSUME NEW b, calm' = (calm /\ b) PROVE calm' \in BOOLEAN
  BY <1>1
<1> QED  BY <1>1 DEF Next, vars, TypeOK

-----------------------------------------------------------------------------
(* Type correctness: the tables and the requests in flight are well-formed *)
(* in every reachable state, whatever overlaps.                            *)
THEOREM TypeCorrect == Spec => [](TypeOK /\ RequestsFit)
<1>1. Init => TypeOK /\ RequestsFit
  BY IdleType DEF Init, TypeOK, RequestsFit
<1>2. TypeOK /\ RequestsFit /\ [Next]_vars => (TypeOK /\ RequestsFit)'
  BY RequestsNext, TablesNext, CalmType DEF TypeOK, TablesType, RequestsType
<1> QED  BY <1>1, <1>2, PTL DEF Spec

-----------------------------------------------------------------------------
(* The vault, when requests overlap only in safe pairs *)

\* A request that goes on keeps its kind, so the requests stay pairwise safe.
LEMMA ExclusiveGoesOn ==
    ASSUME Exclusive, NEW r \in Requests,
           \A x \in Requests \ {r} : req'[x] = req[x],
           \/ req'[r].pc = "idle"
           \/ ~At(r, "idle") /\ req'[r].kind = req[r].kind
    PROVE  Exclusive'
  BY DEF Exclusive, At, SafePair

\* A request that begins is safe with all that are in flight.
LEMMA ExclusiveBegin ==
    ASSUME Overlap \subseteq SafeOverlap, req \in [Requests -> Request], Exclusive,
           NEW r \in Requests, NEW q \in Request, Begin(r, q)
    PROVE  Exclusive'
<1>1. \A x \in Requests \ {r} :
        ~At(x, "idle") => SafePair(q.kind, req[x].kind) /\ SafePair(req[x].kind, q.kind)
  BY DEF Begin, MayBegin, SafeOverlap, SafePair
<1>2. req'[r] = q /\ \A x \in Requests \ {r} : req'[x] = req[x]
  BY DEF Begin
<1> QED  BY <1>1, <1>2 DEF Exclusive, At

\* A step that writes no table of the vault.
LEMMA QuietStep ==
    ASSUME AllInFlight, VaultOK, UNCHANGED <<vault, wraps, live, skey, items>>,
           NEW r \in Requests, \A x \in Requests \ {r} : req'[x] = req[x],
           InFlight(req'[r])
    PROVE  AllInFlight' /\ VaultOK'
<1>1. \A x \in Requests : InFlight(req'[x])
  BY DEF AllInFlight
<1>2. Held' = Held
  BY DEF Held
<1>3. AllInFlight'
  BY <1>1, <1>2 DEF AllInFlight, InFlight
<1>4. VaultOK'
  BY <1>2 DEF VaultOK, EveryDoorOpensTheVault, EverySessionKeyOpensTheVault,
              EveryItemIsSealedToTheVault, TheVaultHasADoor
<1> QED  BY <1>3, <1>4

\* The steps that write no table of the vault keep the invariant.
LEMMA QuietNext ==
    ASSUME Overlap \subseteq SafeOverlap, IInv, NEW r \in Requests
    PROVE  (\/ CreateUser(r) \/ CreateUserWithoutPassword(r)
             \/ SsoSignIn(r) \/ Authenticate(r) \/ ConsumeInvite(r)
             \/ BeginSetup(r) \/ BeginUnlock(r) \/ BeginAdd(r)
             \/ BeginRemove(r) \/ BeginChange(r) \/ BeginReset(r)
             \/ Reinvite(r) \/ BeginSave(r) \/ AcceptPasswordHash(r)
             \/ EnsureRead(r) \/ EnsureOpen(r) \/ SetupRead(r)
             \/ UnlockOpen(r) \/ CountMethods(r) \/ VerifyPassword(r)
             \/ OpenCurrent(r) \/ SetPasswordHash(r) \/ CreateInvite(r)
             \/ ReadPublicKey(r) \/ Abort(r))
           => Exclusive' /\ AllInFlight' /\ VaultOK'
<1> USE DistinctConstants DEF IInv
<1>1. ASSUME CreateUser(r) PROVE Exclusive' /\ AllInFlight' /\ VaultOK'
  <2>1. PICK p \in Secrets :
          Begin(r, [NewRequest("create", "ensure") EXCEPT !.secret = p])
    BY <1>1 DEF CreateUser, TypeOK
  <2> DEFINE q == [NewRequest("create", "ensure") EXCEPT !.secret = p]
  <2>2. q \in Request /\ InFlight(q)
    BY DEF NewRequest, Idle, SignedIn, SecretFor, Kinds, Pcs, Doors, Request, InFlight, TypeOK
  <2>3. req'[r] = q /\ \A x \in Requests \ {r} : req'[x] = req[x]
    BY <2>1 DEF Begin, TypeOK
  <2>4. Exclusive'
    BY <2>1, <2>2, ExclusiveBegin DEF TypeOK
  <2> QED  BY <1>1, <2>2, <2>3, <2>4, QuietStep DEF CreateUser, db
<1>2. ASSUME CreateUserWithoutPassword(r) PROVE Exclusive' /\ AllInFlight' /\ VaultOK'
  <2> DEFINE q == NewRequest("invite", "link")
  <2>2. q \in Request /\ InFlight(q)
    BY DEF NewRequest, Idle, Kinds, Pcs, Doors, Request, InFlight
  <2>3. Begin(r, q) /\ req'[r] = q /\ \A x \in Requests \ {r} : req'[x] = req[x]
    BY <1>2 DEF CreateUserWithoutPassword, Begin, TypeOK
  <2>4. Exclusive'
    BY <2>2, <2>3, ExclusiveBegin DEF TypeOK
  <2> QED  BY <1>2, <2>2, <2>3, <2>4, QuietStep DEF CreateUserWithoutPassword, db
<1>3. ASSUME SsoSignIn(r) PROVE Exclusive' /\ AllInFlight' /\ VaultOK'
  <2> DEFINE q == NewRequest("sso", "session")
  <2>2. q \in Request /\ InFlight(q)
    BY DEF NewRequest, Idle, Kinds, Pcs, Doors, Request, InFlight
  <2>3. Begin(r, q) /\ req'[r] = q /\ \A x \in Requests \ {r} : req'[x] = req[x]
    BY <1>3 DEF SsoSignIn, Begin, TypeOK
  <2>4. Exclusive'
    BY <2>2, <2>3, ExclusiveBegin DEF TypeOK
  <2> QED  BY <1>3, <2>2, <2>3, <2>4, QuietStep DEF SsoSignIn, db
<1>4. ASSUME Authenticate(r) PROVE Exclusive' /\ AllInFlight' /\ VaultOK'
  <2>1. PICK p \in Secrets :
          Begin(r, [NewRequest("login", "session") EXCEPT !.secret = p])
    BY <1>4 DEF Authenticate, TypeOK
  <2> DEFINE q == [NewRequest("login", "session") EXCEPT !.secret = p]
  <2>2. q \in Request /\ InFlight(q)
    BY DEF NewRequest, Idle, SignedIn, SecretFor, Kinds, Pcs, Doors, Request, InFlight, TypeOK
  <2>3. req'[r] = q /\ \A x \in Requests \ {r} : req'[x] = req[x]
    BY <2>1 DEF Begin, TypeOK
  <2>4. Exclusive'
    BY <2>1, <2>2, ExclusiveBegin DEF TypeOK
  <2> QED  BY <1>4, <2>2, <2>3, <2>4, QuietStep DEF Authenticate, db
<1>5. ASSUME ConsumeInvite(r) PROVE Exclusive' /\ AllInFlight' /\ VaultOK'
  <2>1. PICK p \in Secrets :
          Begin(r, [NewRequest("accept", "acceptHash") EXCEPT !.secret = p])
    BY <1>5 DEF ConsumeInvite, TypeOK
  <2> DEFINE q == [NewRequest("accept", "acceptHash") EXCEPT !.secret = p]
  <2>2. q \in Request /\ InFlight(q)
    BY DEF NewRequest, Idle, SignedIn, SecretFor, Kinds, Pcs, Doors, Request, InFlight, TypeOK
  <2>3. req'[r] = q /\ \A x \in Requests \ {r} : req'[x] = req[x]
    BY <2>1 DEF Begin, TypeOK
  <2>4. Exclusive'
    BY <2>1, <2>2, ExclusiveBegin DEF TypeOK
  <2> QED  BY <1>5, <2>2, <2>3, <2>4, QuietStep DEF ConsumeInvite, db
<1>6. ASSUME BeginSetup(r) PROVE Exclusive' /\ AllInFlight' /\ VaultOK'
  <2>1. PICK s \in Sessions, d \in Doors \ {"password"}, p \in Secrets :
          Begin(r, [NewRequest("setup", "setup") EXCEPT !.sess = s, !.door = d,
          !.secret = SecretFor(d, p)])
    BY <1>6 DEF BeginSetup, TypeOK
  <2> DEFINE q == [NewRequest("setup", "setup") EXCEPT !.sess = s, !.door = d,
       !.secret = SecretFor(d, p)]
  <2>2. q \in Request /\ InFlight(q)
    BY DEF NewRequest, Idle, SignedIn, SecretFor, Kinds, Pcs, Doors, Request, InFlight, TypeOK
  <2>3. req'[r] = q /\ \A x \in Requests \ {r} : req'[x] = req[x]
    BY <2>1 DEF Begin, TypeOK
  <2>4. Exclusive'
    BY <2>1, <2>2, ExclusiveBegin DEF TypeOK
  <2> QED  BY <1>6, <2>2, <2>3, <2>4, QuietStep DEF BeginSetup, db
<1>7. ASSUME BeginUnlock(r) PROVE Exclusive' /\ AllInFlight' /\ VaultOK'
  <2>1. PICK s \in Sessions, p \in Secrets \cup Passkeys :
          Begin(r, [NewRequest("unlock", "open") EXCEPT !.sess = s, !.secret = p])
    BY <1>7 DEF BeginUnlock, TypeOK
  <2> DEFINE q == [NewRequest("unlock", "open") EXCEPT !.sess = s, !.secret = p]
  <2>2. q \in Request /\ InFlight(q)
    BY DEF NewRequest, Idle, SignedIn, SecretFor, Kinds, Pcs, Doors, Request, InFlight, TypeOK
  <2>3. req'[r] = q /\ \A x \in Requests \ {r} : req'[x] = req[x]
    BY <2>1 DEF Begin, TypeOK
  <2>4. Exclusive'
    BY <2>1, <2>2, ExclusiveBegin DEF TypeOK
  <2> QED  BY <1>7, <2>2, <2>3, <2>4, QuietStep DEF BeginUnlock, db
<1>8. ASSUME BeginAdd(r) PROVE Exclusive' /\ AllInFlight' /\ VaultOK'
  <2>1. PICK s \in Sessions, d \in Doors \ {"password"}, p \in Secrets :
          skey[s] # NoKey /\ Begin(r, SignedIn(s, [NewRequest("add", "add") EXCEPT !.door = d,
          !.secret = SecretFor(d, p)]))
    BY <1>8 DEF BeginAdd, TypeOK
  <2> DEFINE q == SignedIn(s, [NewRequest("add", "add") EXCEPT !.door = d,
       !.secret = SecretFor(d, p)])
  <2>2. q \in Request /\ InFlight(q)
    BY <2>1 DEF NewRequest, Idle, SignedIn, SecretFor, Kinds, Pcs, Doors, Request, InFlight,
         TypeOK,
           VaultOK, EverySessionKeyOpensTheVault
  <2>3. req'[r] = q /\ \A x \in Requests \ {r} : req'[x] = req[x]
    BY <2>1 DEF Begin, TypeOK
  <2>4. Exclusive'
    BY <2>1, <2>2, ExclusiveBegin DEF TypeOK
  <2> QED  BY <1>8, <2>2, <2>3, <2>4, QuietStep DEF BeginAdd, db
<1>9. ASSUME BeginRemove(r) PROVE Exclusive' /\ AllInFlight' /\ VaultOK'
  <2>1. PICK s \in Sessions, d \in Doors \ {"password"} :
          Begin(r, SignedIn(s, [NewRequest("remove", "count") EXCEPT !.door = d]))
    BY <1>9 DEF BeginRemove, TypeOK
  <2> DEFINE q == SignedIn(s, [NewRequest("remove", "count") EXCEPT !.door = d])
  <2>2. q \in Request /\ InFlight(q)
    BY DEF NewRequest, Idle, SignedIn, SecretFor, Kinds, Pcs, Doors, Request, InFlight, TypeOK
  <2>3. req'[r] = q /\ \A x \in Requests \ {r} : req'[x] = req[x]
    BY <2>1 DEF Begin, TypeOK
  <2>4. Exclusive'
    BY <2>1, <2>2, ExclusiveBegin DEF TypeOK
  <2> QED  BY <1>9, <2>2, <2>3, <2>4, QuietStep DEF BeginRemove, db
<1>10. ASSUME BeginChange(r) PROVE Exclusive' /\ AllInFlight' /\ VaultOK'
  <2>1. PICK s \in Sessions, old, p \in Secrets :
          Begin(r, SignedIn(s, [NewRequest("change", "verify") EXCEPT !.secret = old,
          !.new = p]))
    BY <1>10 DEF BeginChange, TypeOK
  <2> DEFINE q == SignedIn(s, [NewRequest("change", "verify") EXCEPT !.secret = old, !.new = p])
  <2>2. q \in Request /\ InFlight(q)
    BY DEF NewRequest, Idle, SignedIn, SecretFor, Kinds, Pcs, Doors, Request, InFlight, TypeOK,
           VaultOK, EverySessionKeyOpensTheVault
  <2>3. req'[r] = q /\ \A x \in Requests \ {r} : req'[x] = req[x]
    BY <2>1 DEF Begin, TypeOK
  <2>4. Exclusive'
    BY <2>1, <2>2, ExclusiveBegin DEF TypeOK
  <2> QED  BY <1>10, <2>2, <2>3, <2>4, QuietStep DEF BeginChange, db
<1>11. ASSUME BeginReset(r) PROVE Exclusive' /\ AllInFlight' /\ VaultOK'
  <2> DEFINE q == NewRequest("reset", "destroy")
  <2>2. q \in Request /\ InFlight(q)
    BY DEF NewRequest, Idle, Kinds, Pcs, Doors, Request, InFlight
  <2>3. Begin(r, q) /\ req'[r] = q /\ \A x \in Requests \ {r} : req'[x] = req[x]
    BY <1>11 DEF BeginReset, Begin, TypeOK
  <2>4. Exclusive'
    BY <2>2, <2>3, ExclusiveBegin DEF TypeOK
  <2> QED  BY <1>11, <2>2, <2>3, <2>4, QuietStep DEF BeginReset, db
<1>12. ASSUME Reinvite(r) PROVE Exclusive' /\ AllInFlight' /\ VaultOK'
  <2> DEFINE q == NewRequest("reinvite", "link")
  <2>2. q \in Request /\ InFlight(q)
    BY DEF NewRequest, Idle, Kinds, Pcs, Doors, Request, InFlight
  <2>3. Begin(r, q) /\ req'[r] = q /\ \A x \in Requests \ {r} : req'[x] = req[x]
    BY <1>12 DEF Reinvite, Begin, TypeOK
  <2>4. Exclusive'
    BY <2>2, <2>3, ExclusiveBegin DEF TypeOK
  <2> QED  BY <1>12, <2>2, <2>3, <2>4, QuietStep DEF Reinvite, db
<1>13. ASSUME BeginSave(r) PROVE Exclusive' /\ AllInFlight' /\ VaultOK'
  <2>1. PICK s \in Sessions, i \in Items :
          Begin(r, [NewRequest("save", "seal") EXCEPT !.sess = s, !.item = i])
    BY <1>13 DEF BeginSave, TypeOK
  <2> DEFINE q == [NewRequest("save", "seal") EXCEPT !.sess = s, !.item = i]
  <2>2. q \in Request /\ InFlight(q)
    BY DEF NewRequest, Idle, SignedIn, SecretFor, Kinds, Pcs, Doors, Request, InFlight, TypeOK
  <2>3. req'[r] = q /\ \A x \in Requests \ {r} : req'[x] = req[x]
    BY <2>1 DEF Begin, TypeOK
  <2>4. Exclusive'
    BY <2>1, <2>2, ExclusiveBegin DEF TypeOK
  <2> QED  BY <1>13, <2>2, <2>3, <2>4, QuietStep DEF BeginSave, db
<1>14. ASSUME AcceptPasswordHash(r) PROVE Exclusive' /\ AllInFlight' /\ VaultOK'
  <2>1. \A x \in Requests \ {r} : req'[x] = req[x]
    BY <1>14 DEF AcceptPasswordHash, Goto, Finish, TypeOK
  <2>2. \/ req'[r].pc = "idle"
        \/ ~At(r, "idle") /\ req'[r].kind = req[r].kind
    BY <1>14 DEF AcceptPasswordHash, Goto, Finish, TypeOK, At, Request, Idle
  <2>3. InFlight(req'[r])
    BY <1>14 DEF AcceptPasswordHash, Goto, Finish, TypeOK, At, Request, Idle, InFlight,
         AllInFlight, VaultOK,
       EveryDoorOpensTheVault, Held, Wraps, Doors
  <2> QED  BY <1>14, <2>1, <2>2, <2>3, ExclusiveGoesOn, QuietStep DEF AcceptPasswordHash, db
<1>15. ASSUME EnsureRead(r) PROVE Exclusive' /\ AllInFlight' /\ VaultOK'
  <2>1. \A x \in Requests \ {r} : req'[x] = req[x]
    BY <1>15 DEF EnsureRead, Goto, Finish, TypeOK
  <2>2. \/ req'[r].pc = "idle"
        \/ ~At(r, "idle") /\ req'[r].kind = req[r].kind
    BY <1>15 DEF EnsureRead, Goto, Finish, TypeOK, At, Request, Idle
  <2>3. InFlight(req'[r])
    BY <1>15 DEF EnsureRead, Goto, Finish, TypeOK, At, Request, Idle, InFlight, AllInFlight,
         VaultOK,
       EveryDoorOpensTheVault, Held, Wraps, Doors
  <2> QED  BY <1>15, <2>1, <2>2, <2>3, ExclusiveGoesOn, QuietStep DEF EnsureRead, db
<1>16. ASSUME EnsureOpen(r) PROVE Exclusive' /\ AllInFlight' /\ VaultOK'
  <2>1. \A x \in Requests \ {r} : req'[x] = req[x]
    BY <1>16 DEF EnsureOpen, AfterEnsure, OpenedByPassword, Goto, Finish, TypeOK
  <2>2. \/ req'[r].pc = "idle"
        \/ ~At(r, "idle") /\ req'[r].kind = req[r].kind
    BY <1>16 DEF EnsureOpen, AfterEnsure, OpenedByPassword, Goto, Finish, TypeOK, At, Request,
         Idle
  <2>3. InFlight(req'[r])
    BY <1>16 DEF EnsureOpen, AfterEnsure, OpenedByPassword, Goto, Finish, TypeOK, At, Request,
         Idle, InFlight, AllInFlight, VaultOK,
       EveryDoorOpensTheVault, Held, Wraps, Doors
  <2> QED  BY <1>16, <2>1, <2>2, <2>3, ExclusiveGoesOn, QuietStep DEF EnsureOpen, db
<1>17. ASSUME SetupRead(r) PROVE Exclusive' /\ AllInFlight' /\ VaultOK'
  <2>1. \A x \in Requests \ {r} : req'[x] = req[x]
    BY <1>17 DEF SetupRead, Goto, Finish, TypeOK
  <2>2. \/ req'[r].pc = "idle"
        \/ ~At(r, "idle") /\ req'[r].kind = req[r].kind
    BY <1>17 DEF SetupRead, Goto, Finish, TypeOK, At, Request, Idle
  <2>3. InFlight(req'[r])
    BY <1>17 DEF SetupRead, Goto, Finish, TypeOK, At, Request, Idle, InFlight, AllInFlight,
         VaultOK,
       EveryDoorOpensTheVault, Held, Wraps, Doors
  <2> QED  BY <1>17, <2>1, <2>2, <2>3, ExclusiveGoesOn, QuietStep DEF SetupRead, db
<1>18. ASSUME UnlockOpen(r) PROVE Exclusive' /\ AllInFlight' /\ VaultOK'
  <2>1. \A x \in Requests \ {r} : req'[x] = req[x]
    BY <1>18 DEF UnlockOpen, Goto, Finish, TypeOK
  <2>2. \/ req'[r].pc = "idle"
        \/ ~At(r, "idle") /\ req'[r].kind = req[r].kind
    BY <1>18 DEF UnlockOpen, Goto, Finish, TypeOK, At, Request, Idle
  <2>3. InFlight(req'[r])
    BY <1>18 DEF UnlockOpen, Goto, Finish, TypeOK, At, Request, Idle, InFlight, AllInFlight,
         VaultOK,
       EveryDoorOpensTheVault, Held, Wraps, Doors
  <2> QED  BY <1>18, <2>1, <2>2, <2>3, ExclusiveGoesOn, QuietStep DEF UnlockOpen, db
<1>19. ASSUME CountMethods(r) PROVE Exclusive' /\ AllInFlight' /\ VaultOK'
  <2>1. \A x \in Requests \ {r} : req'[x] = req[x]
    BY <1>19 DEF CountMethods, Goto, Finish, TypeOK
  <2>2. \/ req'[r].pc = "idle"
        \/ ~At(r, "idle") /\ req'[r].kind = req[r].kind
    BY <1>19 DEF CountMethods, Goto, Finish, TypeOK, At, Request, Idle
  <2>3. InFlight(req'[r])
    BY <1>19 DEF CountMethods, Goto, Finish, TypeOK, At, Request, Idle, InFlight, AllInFlight,
         VaultOK,
       EveryDoorOpensTheVault, Held, Wraps, Doors
  <2> QED  BY <1>19, <2>1, <2>2, <2>3, ExclusiveGoesOn, QuietStep DEF CountMethods, db
<1>20. ASSUME VerifyPassword(r) PROVE Exclusive' /\ AllInFlight' /\ VaultOK'
  <2>1. \A x \in Requests \ {r} : req'[x] = req[x]
    BY <1>20 DEF VerifyPassword, Goto, Finish, TypeOK
  <2>2. \/ req'[r].pc = "idle"
        \/ ~At(r, "idle") /\ req'[r].kind = req[r].kind
    BY <1>20 DEF VerifyPassword, Goto, Finish, TypeOK, At, Request, Idle
  <2>3. InFlight(req'[r])
    BY <1>20 DEF VerifyPassword, Goto, Finish, TypeOK, At, Request, Idle, InFlight,
         AllInFlight, VaultOK,
       EveryDoorOpensTheVault, Held, Wraps, Doors
  <2> QED  BY <1>20, <2>1, <2>2, <2>3, ExclusiveGoesOn, QuietStep DEF VerifyPassword, db
<1>21. ASSUME OpenCurrent(r) PROVE Exclusive' /\ AllInFlight' /\ VaultOK'
  <2>1. \A x \in Requests \ {r} : req'[x] = req[x]
    BY <1>21 DEF OpenCurrent, OpenedByPassword, Goto, Finish, TypeOK
  <2>2. \/ req'[r].pc = "idle"
        \/ ~At(r, "idle") /\ req'[r].kind = req[r].kind
    BY <1>21 DEF OpenCurrent, OpenedByPassword, Goto, Finish, TypeOK, At, Request, Idle
  <2>3. InFlight(req'[r])
    BY <1>21 DEF OpenCurrent, OpenedByPassword, Goto, Finish, TypeOK, At, Request, Idle,
         InFlight, AllInFlight, VaultOK,
       EveryDoorOpensTheVault, Held, Wraps, Doors
  <2> QED  BY <1>21, <2>1, <2>2, <2>3, ExclusiveGoesOn, QuietStep DEF OpenCurrent, db
<1>22. ASSUME SetPasswordHash(r) PROVE Exclusive' /\ AllInFlight' /\ VaultOK'
  <2>1. \A x \in Requests \ {r} : req'[x] = req[x]
    BY <1>22 DEF SetPasswordHash, Goto, Finish, TypeOK
  <2>2. \/ req'[r].pc = "idle"
        \/ ~At(r, "idle") /\ req'[r].kind = req[r].kind
    BY <1>22 DEF SetPasswordHash, Goto, Finish, TypeOK, At, Request, Idle
  <2>3. InFlight(req'[r])
    BY <1>22 DEF SetPasswordHash, Goto, Finish, TypeOK, At, Request, Idle, InFlight,
         AllInFlight, VaultOK,
       EveryDoorOpensTheVault, Held, Wraps, Doors
  <2> QED  BY <1>22, <2>1, <2>2, <2>3, ExclusiveGoesOn, QuietStep DEF SetPasswordHash, db
<1>23. ASSUME CreateInvite(r) PROVE Exclusive' /\ AllInFlight' /\ VaultOK'
  <2>1. \A x \in Requests \ {r} : req'[x] = req[x]
    BY <1>23 DEF CreateInvite, Goto, Finish, TypeOK
  <2>2. \/ req'[r].pc = "idle"
        \/ ~At(r, "idle") /\ req'[r].kind = req[r].kind
    BY <1>23 DEF CreateInvite, Goto, Finish, TypeOK, At, Request, Idle
  <2>3. InFlight(req'[r])
    BY <1>23 DEF CreateInvite, Goto, Finish, TypeOK, At, Request, Idle, InFlight, AllInFlight,
         VaultOK,
       EveryDoorOpensTheVault, Held, Wraps, Doors
  <2> QED  BY <1>23, <2>1, <2>2, <2>3, ExclusiveGoesOn, QuietStep DEF CreateInvite, db
<1>24. ASSUME ReadPublicKey(r) PROVE Exclusive' /\ AllInFlight' /\ VaultOK'
  <2>1. \A x \in Requests \ {r} : req'[x] = req[x]
    BY <1>24 DEF ReadPublicKey, Goto, Finish, TypeOK
  <2>2. \/ req'[r].pc = "idle"
        \/ ~At(r, "idle") /\ req'[r].kind = req[r].kind
    BY <1>24 DEF ReadPublicKey, Goto, Finish, TypeOK, At, Request, Idle
  <2>3. InFlight(req'[r])
    BY <1>24 DEF ReadPublicKey, Goto, Finish, TypeOK, At, Request, Idle, InFlight, AllInFlight,
         VaultOK,
       EveryDoorOpensTheVault, Held, Wraps, Doors
  <2> QED  BY <1>24, <2>1, <2>2, <2>3, ExclusiveGoesOn, QuietStep DEF ReadPublicKey, db
<1>25. ASSUME Abort(r) PROVE Exclusive' /\ AllInFlight' /\ VaultOK'
  <2>1. \A x \in Requests \ {r} : req'[x] = req[x]
    BY <1>25 DEF Abort, Goto, Finish, TypeOK
  <2>2. \/ req'[r].pc = "idle"
        \/ ~At(r, "idle") /\ req'[r].kind = req[r].kind
    BY <1>25 DEF Abort, Goto, Finish, TypeOK, At, Request, Idle
  <2>3. InFlight(req'[r])
    BY <1>25 DEF Abort, Goto, Finish, TypeOK, At, Request, Idle, InFlight, AllInFlight, VaultOK,
       EveryDoorOpensTheVault, Held, Wraps, Doors
  <2> QED  BY <1>25, <2>1, <2>2, <2>3, ExclusiveGoesOn, QuietStep DEF Abort, db
<1> QED  BY <1>1, <1>2, <1>3, <1>4, <1>5, <1>6, <1>7, <1>8, <1>9, <1>10, <1>11, <1>12, <1>13,
            <1>14, <1>15, <1>16, <1>17, <1>18, <1>19, <1>20, <1>21, <1>22, <1>23, <1>24, <1>25

\* A new session carries no key, and no attach can already be aimed at it.
LEMMA CreateSessionSafe ==
    ASSUME IInv, NEW r \in Requests, CreateSession(r)
    PROVE  Exclusive' /\ AllInFlight' /\ VaultOK'
<1> USE DistinctConstants DEF IInv
<1>1. \A x \in Requests \ {r} : req'[x] = req[x]
  BY DEF CreateSession, Goto, Finish, TypeOK
<1>2. Exclusive'
  <2>1. \/ req'[r].pc = "idle"
        \/ ~At(r, "idle") /\ req'[r].kind = req[r].kind
    BY DEF CreateSession, Goto, Finish, TypeOK, At, Request, Idle
  <2> QED  BY <1>1, <2>1, ExclusiveGoesOn
<1>3. ASSUME NEW x \in Requests \ {r} PROVE InFlight(req[x])'
  BY <1>1, <1>3 DEF CreateSession, AllInFlight, InFlight, VaultOK, EveryDoorOpensTheVault,
       EverySessionKeyOpensTheVault, EveryItemIsSealedToTheVault, TheVaultHasADoor,
     Exclusive, SafePair, Creating, Destroying, Carrying, RequestsFit, KindFits, At, Put,
     PutNew, Held, TypeOK, FreshSession
<1>4. InFlight(req[r])'
  BY DEF CreateSession, Goto, Finish, AllInFlight, InFlight, Idle, At, TypeOK, Request, Put,
       PutNew, Held
<1>5. VaultOK'
  BY DEF CreateSession, AllInFlight, InFlight, VaultOK, EveryDoorOpensTheVault,
       EverySessionKeyOpensTheVault, EveryItemIsSealedToTheVault, TheVaultHasADoor, At, TypeOK,
       Put, PutNew, Held, Wraps, Doors
<1> QED  BY <1>2, <1>3, <1>4, <1>5 DEF AllInFlight

\* No other request can have made a vault since this one found none, so its
\* own key goes in, behind the password door.
LEMMA EnsureInsertSafe ==
    ASSUME IInv, NEW r \in Requests, EnsureInsert(r)
    PROVE  Exclusive' /\ AllInFlight' /\ VaultOK'
<1> USE DistinctConstants DEF IInv
<1>1. \A x \in Requests \ {r} : req'[x] = req[x]
  BY DEF EnsureInsert, AfterEnsure, Goto, Finish, TypeOK
<1>2. Exclusive'
  <2>1. \/ req'[r].pc = "idle"
        \/ ~At(r, "idle") /\ req'[r].kind = req[r].kind
    BY DEF EnsureInsert, AfterEnsure, Goto, Finish, TypeOK, At, Request, Idle
  <2> QED  BY <1>1, <2>1, ExclusiveGoesOn
<1>3. ASSUME NEW x \in Requests \ {r} PROVE InFlight(req[x])'
  BY <1>1, <1>3 DEF EnsureInsert, AfterEnsure, AllInFlight, InFlight, VaultOK,
       EveryDoorOpensTheVault, EverySessionKeyOpensTheVault, EveryItemIsSealedToTheVault,
       TheVaultHasADoor,
     Exclusive, SafePair, Creating, Destroying, Carrying, RequestsFit, KindFits, At, Put,
     PutNew, Held, TypeOK, FreshSession
<1>4. InFlight(req[r])'
  BY DEF EnsureInsert, AfterEnsure, Goto, Finish, AllInFlight, InFlight, Idle, At, TypeOK,
       Request, Put, PutNew, Held
<1>5. VaultOK'
  <2>1. vault = NoKey /\ req[r].priv \in Keys
    BY DEF EnsureInsert, At, AllInFlight, InFlight, TypeOK, RequestsFit, KindFits
  <2>2. Held = {} /\ \A e \in Doors : wraps[e] = NoWrap
    BY <2>1 DEF VaultOK, EveryDoorOpensTheVault, TypeOK, Held, Wraps
  <2>3. vault' = req[r].priv /\ "password" \in Doors
        /\ wraps' = [wraps EXCEPT !["password"] = [key |-> req[r].priv,
        secret |-> req[r].secret]]
    BY <2>1, <2>2 DEF EnsureInsert, Put, PutNew, TypeOK, Request, Doors
  <2>4. Held' = {"password"} /\ wraps'["password"].key = vault'
    <3>1. [key |-> req[r].priv, secret |-> req[r].secret] \in Wraps
      BY <2>1 DEF EnsureInsert, At, RequestsFit, KindFits, Wraps
    <3> QED  BY <2>2, <2>3, <3>1 DEF TypeOK, Held
  <2>5. /\ \A s \in Sessions : skey'[s] = NoKey
        /\ \A i \in Items : items'[i] = NoKey
    BY <2>1 DEF EnsureInsert, VaultOK, EverySessionKeyOpensTheVault, EveryItemIsSealedToTheVault
  <2> QED  BY <2>4, <2>5 DEF VaultOK, EveryDoorOpensTheVault, EverySessionKeyOpensTheVault,
                            EveryItemIsSealedToTheVault, TheVaultHasADoor
<1> QED  BY <1>2, <1>3, <1>4, <1>5 DEF AllInFlight

\* As EnsureInsertSafe, behind the door the user set up.
LEMMA SetupInsertSafe ==
    ASSUME IInv, NEW r \in Requests, SetupInsert(r)
    PROVE  Exclusive' /\ AllInFlight' /\ VaultOK'
<1> USE DistinctConstants DEF IInv
<1>1. \A x \in Requests \ {r} : req'[x] = req[x]
  BY DEF SetupInsert, Goto, Finish, TypeOK
<1>2. Exclusive'
  <2>1. \/ req'[r].pc = "idle"
        \/ ~At(r, "idle") /\ req'[r].kind = req[r].kind
    BY DEF SetupInsert, Goto, Finish, TypeOK, At, Request, Idle
  <2> QED  BY <1>1, <2>1, ExclusiveGoesOn
<1>3. ASSUME NEW x \in Requests \ {r} PROVE InFlight(req[x])'
  <2>1. req'[x] = req[x] /\ InFlight(req[x])
    BY <1>1, <1>3 DEF AllInFlight
  <2>2. vault = NoKey /\ live' = live /\ req[r].kind = "setup" /\ ~At(r, "idle")
    BY DEF SetupInsert, At, AllInFlight, InFlight, RequestsFit, KindFits
  <2>3. req[x].pc \notin {"ensureInsert", "setupInsert"}
    BY <2>2, <1>3 DEF Exclusive, SafePair, Creating, RequestsFit, KindFits, At
  <2>4. req[x].pc # "attach" \/ req[x].sess \notin live
    BY <2>1, <2>2 DEF InFlight
  <2>5. req[x].pc \notin {"add", "store", "rewrap"}
        /\ (req[x].pc \in {"verify", "openCurrent", "setHash", "rewrap"} => req[x].priv = NoKey)
    BY <2>1, <2>2 DEF InFlight
  <2>6. req[x].pc # "delete"
    <3>1. Held = {}
      BY <2>2 DEF VaultOK, EveryDoorOpensTheVault, TypeOK, Held, Wraps
    <3> QED  BY <2>1, <3>1 DEF InFlight
  <2> QED  BY <2>1, <2>2, <2>3, <2>4, <2>5, <2>6 DEF InFlight
<1>4. InFlight(req[r])'
  BY DEF SetupInsert, Goto, Finish, AllInFlight, InFlight, Idle, At, TypeOK, Request, Put,
       PutNew, Held
<1>5. VaultOK'
  <2>1. vault = NoKey /\ req[r].priv \in Keys
    BY DEF SetupInsert, At, AllInFlight, InFlight, TypeOK, RequestsFit, KindFits
  <2>2. Held = {} /\ \A e \in Doors : wraps[e] = NoWrap
    BY <2>1 DEF VaultOK, EveryDoorOpensTheVault, TypeOK, Held, Wraps
  <2>3. vault' = req[r].priv /\ req[r].door \in Doors
        /\ wraps' = [wraps EXCEPT ![req[r].door] = [key |-> req[r].priv,
        secret |-> req[r].secret]]
    BY <2>1, <2>2 DEF SetupInsert, Put, PutNew, TypeOK, Request, Doors
  <2>4. Held' = {req[r].door} /\ wraps'[req[r].door].key = vault'
    <3>1. [key |-> req[r].priv, secret |-> req[r].secret] \in Wraps
      BY <2>1 DEF SetupInsert, At, RequestsFit, KindFits, Wraps
    <3> QED  BY <2>2, <2>3, <3>1 DEF TypeOK, Held
  <2>5. /\ \A s \in Sessions : skey'[s] = NoKey
        /\ \A i \in Items : items'[i] = NoKey
    BY <2>1 DEF SetupInsert, VaultOK, EverySessionKeyOpensTheVault, EveryItemIsSealedToTheVault
  <2> QED  BY <2>4, <2>5 DEF VaultOK, EveryDoorOpensTheVault, EverySessionKeyOpensTheVault,
                            EveryItemIsSealedToTheVault, TheVaultHasADoor
<1> QED  BY <1>2, <1>3, <1>4, <1>5 DEF AllInFlight

\* The key attached is the vault's, unless the session has ended meanwhile.
LEMMA AttachSafe ==
    ASSUME IInv, NEW r \in Requests, Attach(r)
    PROVE  Exclusive' /\ AllInFlight' /\ VaultOK'
<1> USE DistinctConstants DEF IInv
<1>1. \A x \in Requests \ {r} : req'[x] = req[x]
  BY DEF Attach, Goto, Finish, TypeOK
<1>2. Exclusive'
  <2>1. \/ req'[r].pc = "idle"
        \/ ~At(r, "idle") /\ req'[r].kind = req[r].kind
    BY DEF Attach, Goto, Finish, TypeOK, At, Request, Idle
  <2> QED  BY <1>1, <2>1, ExclusiveGoesOn
<1>3. ASSUME NEW x \in Requests \ {r} PROVE InFlight(req[x])'
  BY <1>1, <1>3 DEF Attach, AllInFlight, InFlight, VaultOK, EveryDoorOpensTheVault,
       EverySessionKeyOpensTheVault, EveryItemIsSealedToTheVault, TheVaultHasADoor,
     Exclusive, SafePair, Creating, Destroying, Carrying, RequestsFit, KindFits, At, Put,
     PutNew, Held, TypeOK, FreshSession
<1>4. InFlight(req[r])'
  BY DEF Attach, Goto, Finish, AllInFlight, InFlight, Idle, At, TypeOK, Request, Put, PutNew,
       Held
<1>5. VaultOK'
  BY DEF Attach, AllInFlight, InFlight, VaultOK, EveryDoorOpensTheVault,
       EverySessionKeyOpensTheVault, EveryItemIsSealedToTheVault, TheVaultHasADoor, At, TypeOK,
       Put, PutNew, Held, Wraps, Doors
<1> QED  BY <1>2, <1>3, <1>4, <1>5 DEF AllInFlight

\* A door is added with the vault's key.
LEMMA AddMethodSafe ==
    ASSUME IInv, NEW r \in Requests, AddMethod(r)
    PROVE  Exclusive' /\ AllInFlight' /\ VaultOK'
<1> USE DistinctConstants DEF IInv
<1>1. \A x \in Requests \ {r} : req'[x] = req[x]
  BY DEF AddMethod, Goto, Finish, TypeOK
<1>2. Exclusive'
  <2>1. \/ req'[r].pc = "idle"
        \/ ~At(r, "idle") /\ req'[r].kind = req[r].kind
    BY DEF AddMethod, Goto, Finish, TypeOK, At, Request, Idle
  <2> QED  BY <1>1, <2>1, ExclusiveGoesOn
<1>4. InFlight(req[r])'
  BY DEF AddMethod, Goto, Finish, AllInFlight, InFlight, Idle, At, TypeOK, Request, Put,
       PutNew, Held
<1>5. Held \subseteq Held' /\ VaultOK'
  <2>1. vault' = vault /\ req[r].priv = vault /\ vault \in Keys
    BY DEF AddMethod, At, AllInFlight, InFlight, TypeOK
  <2>2. req[r].door \in Doors
        /\ wraps' = [wraps EXCEPT ![req[r].door] = [key |-> vault, secret |-> req[r].secret]]
    BY <2>1 DEF AddMethod, Put, TypeOK, Request, Doors
  <2>3. [key |-> vault, secret |-> req[r].secret] \in Wraps
    BY <2>1 DEF AddMethod, At, RequestsFit, KindFits, Wraps
  <2>4. Held' = Held \cup {req[r].door} /\ \A d \in Held' : wraps'[d].key = vault
    BY <2>2, <2>3 DEF TypeOK, Held, VaultOK, EveryDoorOpensTheVault
  <2>5. UNCHANGED <<skey, items>>
    BY DEF AddMethod
  <2> QED  BY <2>1, <2>4, <2>5 DEF VaultOK, EveryDoorOpensTheVault,
       EverySessionKeyOpensTheVault,
                            EveryItemIsSealedToTheVault, TheVaultHasADoor
<1>6. ASSUME NEW x \in Requests \ {r} PROVE InFlight(req[x])'
  <2>1. req'[x] = req[x] /\ InFlight(req[x])
    BY <1>1, <1>6 DEF AllInFlight
  <2>3. vault' = vault /\ live' = live
    BY DEF AddMethod
  <2> QED  BY <1>5, <2>1, <2>3 DEF InFlight
<1> QED  BY <1>1, <1>2, <1>4, <1>5, <1>6 DEF AllInFlight

\* Another door is left: nothing removed it since the doors were counted.
LEMMA DeleteMethodSafe ==
    ASSUME IInv, NEW r \in Requests, DeleteMethod(r)
    PROVE  Exclusive' /\ AllInFlight' /\ VaultOK'
<1> USE DistinctConstants DEF IInv
<1>1. \A x \in Requests \ {r} : req'[x] = req[x]
  BY DEF DeleteMethod, Goto, Finish, TypeOK
<1>2. Exclusive'
  <2>1. \/ req'[r].pc = "idle"
        \/ ~At(r, "idle") /\ req'[r].kind = req[r].kind
    BY DEF DeleteMethod, Goto, Finish, TypeOK, At, Request, Idle
  <2> QED  BY <1>1, <2>1, ExclusiveGoesOn
<1>3. ASSUME NEW x \in Requests \ {r} PROVE InFlight(req[x])'
  BY <1>1, <1>3 DEF DeleteMethod, AllInFlight, InFlight, VaultOK, EveryDoorOpensTheVault,
       EverySessionKeyOpensTheVault, EveryItemIsSealedToTheVault, TheVaultHasADoor,
     Exclusive, SafePair, Creating, Destroying, Carrying, RequestsFit, KindFits, At, Put,
     PutNew, Held, TypeOK, FreshSession
<1>4. InFlight(req[r])'
  BY DEF DeleteMethod, Goto, Finish, AllInFlight, InFlight, Idle, At, TypeOK, Request, Put,
       PutNew, Held
<1>5. VaultOK'
  BY DEF DeleteMethod, AllInFlight, InFlight, VaultOK, EveryDoorOpensTheVault,
       EverySessionKeyOpensTheVault, EveryItemIsSealedToTheVault, TheVaultHasADoor, At, TypeOK,
       Put, PutNew, Held, Wraps, Doors
<1> QED  BY <1>2, <1>3, <1>4, <1>5 DEF AllInFlight

\* The password door is rewritten with the vault's key.
LEMMA RewrapSafe ==
    ASSUME IInv, NEW r \in Requests, Rewrap(r)
    PROVE  Exclusive' /\ AllInFlight' /\ VaultOK'
<1> USE DistinctConstants DEF IInv
<1>1. \A x \in Requests \ {r} : req'[x] = req[x]
  BY DEF Rewrap, Goto, Finish, TypeOK
<1>2. Exclusive'
  <2>1. \/ req'[r].pc = "idle"
        \/ ~At(r, "idle") /\ req'[r].kind = req[r].kind
    BY DEF Rewrap, Goto, Finish, TypeOK, At, Request, Idle
  <2> QED  BY <1>1, <2>1, ExclusiveGoesOn
<1>4. InFlight(req[r])'
  BY DEF Rewrap, Goto, Finish, AllInFlight, InFlight, Idle, At, TypeOK, Request, Put, PutNew,
       Held
<1>5. Held \subseteq Held' /\ VaultOK'
  <2>1. vault' = vault /\ req[r].priv = vault /\ vault \in Keys
    BY DEF Rewrap, At, AllInFlight, InFlight, TypeOK
  <2>2. "password" \in Doors
        /\ wraps' = [wraps EXCEPT !["password"] = [key |-> vault, secret |-> req[r].new]]
    BY <2>1 DEF Rewrap, Put, TypeOK, Request, Doors
  <2>3. [key |-> vault, secret |-> req[r].new] \in Wraps
    BY <2>1 DEF Rewrap, At, RequestsFit, KindFits, Wraps
  <2>4. Held' = Held \cup {"password"} /\ \A d \in Held' : wraps'[d].key = vault
    BY <2>2, <2>3 DEF TypeOK, Held, VaultOK, EveryDoorOpensTheVault
  <2>5. UNCHANGED <<skey, items>>
    BY DEF Rewrap
  <2> QED  BY <2>1, <2>4, <2>5 DEF VaultOK, EveryDoorOpensTheVault,
       EverySessionKeyOpensTheVault,
                            EveryItemIsSealedToTheVault, TheVaultHasADoor
<1>6. ASSUME NEW x \in Requests \ {r} PROVE InFlight(req[x])'
  <2>1. req'[x] = req[x] /\ InFlight(req[x])
    BY <1>1, <1>6 DEF AllInFlight
  <2>3. vault' = vault /\ live' = live
    BY DEF Rewrap
  <2> QED  BY <1>5, <2>1, <2>3 DEF InFlight
<1> QED  BY <1>1, <1>2, <1>4, <1>5, <1>6 DEF AllInFlight

\* Sessions that end take their keys with them.
LEMMA EndOtherSessionsSafe ==
    ASSUME IInv, NEW r \in Requests, EndOtherSessions(r)
    PROVE  Exclusive' /\ AllInFlight' /\ VaultOK'
<1> USE DistinctConstants DEF IInv
<1>1. \A x \in Requests \ {r} : req'[x] = req[x]
  BY DEF EndOtherSessions, Goto, Finish, TypeOK
<1>2. Exclusive'
  <2>1. \/ req'[r].pc = "idle"
        \/ ~At(r, "idle") /\ req'[r].kind = req[r].kind
    BY DEF EndOtherSessions, Goto, Finish, TypeOK, At, Request, Idle
  <2> QED  BY <1>1, <2>1, ExclusiveGoesOn
<1>3. ASSUME NEW x \in Requests \ {r} PROVE InFlight(req[x])'
  BY <1>1, <1>3 DEF EndOtherSessions, AllInFlight, InFlight, VaultOK, EveryDoorOpensTheVault,
       EverySessionKeyOpensTheVault, EveryItemIsSealedToTheVault, TheVaultHasADoor,
     Exclusive, SafePair, Creating, Destroying, Carrying, RequestsFit, KindFits, At, Put,
     PutNew, Held, TypeOK, FreshSession
<1>4. InFlight(req[r])'
  BY DEF EndOtherSessions, Goto, Finish, AllInFlight, InFlight, Idle, At, TypeOK, Request, Put,
       PutNew, Held
<1>5. VaultOK'
  BY DEF EndOtherSessions, AllInFlight, InFlight, VaultOK, EveryDoorOpensTheVault,
       EverySessionKeyOpensTheVault, EveryItemIsSealedToTheVault, TheVaultHasADoor, At, TypeOK,
       Put, PutNew, Held, Wraps, Doors
<1> QED  BY <1>2, <1>3, <1>4, <1>5 DEF AllInFlight

\* A reset empties the tables; no request in flight holds a key it could put
\* back.
LEMMA DestroyVaultSafe ==
    ASSUME IInv, NEW r \in Requests, DestroyVault(r)
    PROVE  Exclusive' /\ AllInFlight' /\ VaultOK'
<1> USE DistinctConstants DEF IInv
<1>1. \A x \in Requests \ {r} : req'[x] = req[x]
  BY DEF DestroyVault, Goto, Finish, TypeOK
<1>2. Exclusive'
  <2>1. \/ req'[r].pc = "idle"
        \/ ~At(r, "idle") /\ req'[r].kind = req[r].kind
    BY DEF DestroyVault, Goto, Finish, TypeOK, At, Request, Idle
  <2> QED  BY <1>1, <2>1, ExclusiveGoesOn
<1>3. ASSUME NEW x \in Requests \ {r} PROVE InFlight(req[x])'
  BY <1>1, <1>3 DEF DestroyVault, AllInFlight, InFlight, VaultOK, EveryDoorOpensTheVault,
       EverySessionKeyOpensTheVault, EveryItemIsSealedToTheVault, TheVaultHasADoor,
     Exclusive, SafePair, Creating, Destroying, Carrying, RequestsFit, KindFits, At, Put,
     PutNew, Held, TypeOK, FreshSession
<1>4. InFlight(req[r])'
  BY DEF DestroyVault, Goto, Finish, AllInFlight, InFlight, Idle, At, TypeOK, Request, Put,
       PutNew, Held
<1>5. VaultOK'
  BY DEF DestroyVault, AllInFlight, InFlight, VaultOK, EveryDoorOpensTheVault,
       EverySessionKeyOpensTheVault, EveryItemIsSealedToTheVault, TheVaultHasADoor, At, TypeOK,
       Put, PutNew, Held, Wraps, Doors
<1> QED  BY <1>2, <1>3, <1>4, <1>5 DEF AllInFlight

\* The item is sealed to the key that is still the vault's.
LEMMA StoreItemSafe ==
    ASSUME IInv, NEW r \in Requests, StoreItem(r)
    PROVE  Exclusive' /\ AllInFlight' /\ VaultOK'
<1> USE DistinctConstants DEF IInv
<1>1. \A x \in Requests \ {r} : req'[x] = req[x]
  BY DEF StoreItem, Goto, Finish, TypeOK
<1>2. Exclusive'
  <2>1. \/ req'[r].pc = "idle"
        \/ ~At(r, "idle") /\ req'[r].kind = req[r].kind
    BY DEF StoreItem, Goto, Finish, TypeOK, At, Request, Idle
  <2> QED  BY <1>1, <2>1, ExclusiveGoesOn
<1>3. ASSUME NEW x \in Requests \ {r} PROVE InFlight(req[x])'
  BY <1>1, <1>3 DEF StoreItem, AllInFlight, InFlight, VaultOK, EveryDoorOpensTheVault,
       EverySessionKeyOpensTheVault, EveryItemIsSealedToTheVault, TheVaultHasADoor,
     Exclusive, SafePair, Creating, Destroying, Carrying, RequestsFit, KindFits, At, Put,
     PutNew, Held, TypeOK, FreshSession
<1>4. InFlight(req[r])'
  BY DEF StoreItem, Goto, Finish, AllInFlight, InFlight, Idle, At, TypeOK, Request, Put,
       PutNew, Held
<1>5. VaultOK'
  BY DEF StoreItem, AllInFlight, InFlight, VaultOK, EveryDoorOpensTheVault,
       EverySessionKeyOpensTheVault, EveryItemIsSealedToTheVault, TheVaultHasADoor, At, TypeOK,
       Put, PutNew, Held, Wraps, Doors
<1> QED  BY <1>2, <1>3, <1>4, <1>5 DEF AllInFlight

\* A session is locked or ended, an item deleted, or nothing happens at all.
LEMMA OtherSafe ==
    ASSUME IInv,
           \/ \E s \in Sessions : LockVault(s) \/ EndSession(s)
           \/ \E i \in Items : DeleteItem(i)
           \/ ExpireInvite
           \/ UNCHANGED vars
    PROVE  Exclusive' /\ AllInFlight' /\ VaultOK'
<1> USE DistinctConstants DEF IInv
<1>1. /\ UNCHANGED <<vault, wraps, req>>
      /\ live' \subseteq live
      /\ \A s \in Sessions : skey'[s] \in {NoKey, skey[s]}
      /\ \A i \in Items : items'[i] \in {NoKey, items[i]}
  BY DEF LockVault, EndSession, DeleteItem, ExpireInvite, vars, TypeOK
<1>2. Exclusive'
  BY <1>1 DEF Exclusive, At, SafePair
<1>3. Held' = Held
  BY <1>1 DEF Held
<1>4. AllInFlight'
  BY <1>1, <1>3 DEF AllInFlight, InFlight
<1>5. VaultOK'
  BY <1>1, <1>3 DEF VaultOK, EveryDoorOpensTheVault, EverySessionKeyOpensTheVault,
                    EveryItemIsSealedToTheVault, TheVaultHasADoor
<1> QED  BY <1>2, <1>4, <1>5

\* IInv holds before any request is made.
LEMMA IInvInit == Init => IInv
<1> SUFFICES ASSUME Init PROVE IInv
  OBVIOUS
<1> USE IdleType, DistinctConstants DEF Init
<1>1. TypeOK /\ RequestsFit
  BY DEF TypeOK, RequestsFit
<1>2. Exclusive
  BY DEF Exclusive, At
<1>3. AllInFlight
  BY DEF AllInFlight, InFlight
<1>4. VaultOK
  BY DEF VaultOK, EveryDoorOpensTheVault, EverySessionKeyOpensTheVault,
         EveryItemIsSealedToTheVault, TheVaultHasADoor, Held
<1> QED  BY <1>1, <1>2, <1>3, <1>4 DEF IInv

\* IInv is inductive when requests overlap only in safe pairs.
LEMMA IInvNext ==
    ASSUME Overlap \subseteq SafeOverlap
    PROVE  IInv /\ [Next]_vars => IInv'
<1> SUFFICES ASSUME IInv, [Next]_vars PROVE IInv'
  OBVIOUS
<1>1. TypeOK' /\ RequestsFit'
  BY RequestsNext, TablesNext, CalmType DEF IInv, TypeOK, TablesType, RequestsType
<1>2. ASSUME NEW r \in Requests,
             SignInStep(r) \/ MethodStep(r) \/ AccountStep(r) \/ SaveStep(r) \/ Abort(r)
      PROVE  Exclusive' /\ AllInFlight' /\ VaultOK'
  BY <1>2, QuietNext, CreateSessionSafe, EnsureInsertSafe, SetupInsertSafe, AttachSafe,
     AddMethodSafe, DeleteMethodSafe, RewrapSafe, EndOtherSessionsSafe,
     DestroyVaultSafe, StoreItemSafe
     DEF SignInStep, MethodStep, AccountStep, SaveStep
<1>3. Exclusive' /\ AllInFlight' /\ VaultOK'
  BY <1>2, OtherSafe DEF Next, Step
<1> QED  BY <1>1, <1>3 DEF IInv

\* As long as requests overlap only in safe pairs: every unlock method opens
\* the vault, the key a session carries opens it, every personal item is sealed
\* to it, and a vault always has an unlock method.
THEOREM VaultSafe ==
    ASSUME Overlap \subseteq SafeOverlap
    PROVE  Spec => [](AllIsOfTheVault /\ TheVaultHasADoor)
<1>1. IInv => AllIsOfTheVault /\ TheVaultHasADoor
  BY DEF IInv, VaultOK, AllIsOfTheVault
<1> QED  BY <1>1, IInvInit, IInvNext, PTL DEF Spec

-----------------------------------------------------------------------------
(* What holds of every step, whatever overlaps *)

\* A vault that exists keeps its keypair in every step but a reset's.
LEMMA VaultStays ==
    ASSUME TypeOK, RequestsFit, [Next]_vars, vault # NoKey, vault' # vault
    PROVE  \E r \in Requests : DestroyVault(r)
<1>1. ASSUME NEW r \in Requests, SignInStep(r) PROVE UNCHANGED vault
  BY <1>1 DEF SignInStep, CreateUser, CreateUserWithoutPassword, SsoSignIn, Authenticate,
     ConsumeInvite, AcceptPasswordHash, CreateSession, EnsureRead, EnsureOpen, EnsureInsert, db
<1>2. ASSUME NEW r \in Requests, MethodStep(r) PROVE UNCHANGED vault
  BY <1>2 DEF MethodStep, BeginSetup, SetupRead, SetupInsert, BeginUnlock, UnlockOpen, Attach,
     BeginAdd, AddMethod, BeginRemove, CountMethods, DeleteMethod, db
<1>3. ASSUME NEW r \in Requests, AccountStep(r), ~DestroyVault(r) PROVE UNCHANGED vault
  BY <1>3 DEF AccountStep, BeginChange, VerifyPassword, OpenCurrent, SetPasswordHash, Rewrap,
     EndOtherSessions, BeginReset, Reinvite, CreateInvite, db
<1>4. ASSUME NEW r \in Requests, SaveStep(r) \/ Abort(r) PROVE UNCHANGED vault
  BY <1>4 DEF SaveStep, BeginSave, ReadPublicKey, StoreItem, Abort, db
<1>5. ASSUME \/ \E s \in Sessions : LockVault(s) \/ EndSession(s)
             \/ \E i \in Items : DeleteItem(i)
             \/ ExpireInvite
             \/ UNCHANGED vars
      PROVE  UNCHANGED vault
  BY <1>5 DEF LockVault, EndSession, DeleteItem, ExpireInvite, vars
<1> QED  BY <1>1, <1>2, <1>3, <1>4, <1>5 DEF Next, Step

\* However requests meet, a vault's keypair goes only with every door, every
\* session and everything that was sealed to it.
THEOREM VaultEndsWithItsData == Spec => OnlyResetEndsAVault
<1>1. TypeOK /\ RequestsFit /\ [Next]_vars =>
        [vault # NoKey /\ vault' # vault =>
           /\ vault' = NoKey /\ live' = {}
           /\ \A d \in Doors : wraps'[d] = NoWrap
           /\ \A i \in Items : items'[i] = NoKey]_vars
  BY VaultStays DEF DestroyVault
<1> QED  BY <1>1, TypeCorrect, PTL DEF Spec, OnlyResetEndsAVault

\* The row of the login password goes only with the vault.
LEMMA DoorStays ==
    ASSUME TypeOK, RequestsFit, [Next]_vars,
           wraps["password"] # NoWrap, wraps'["password"] = NoWrap
    PROVE  \E r \in Requests : DestroyVault(r)
<1>w. wraps \in [Doors -> Wraps \cup {NoWrap}] /\ "password" \in Doors
  BY DEF TypeOK, Doors
<1>r. \A r \in Requests : req[r] \in Request
  BY DEF TypeOK
<1>n. \A k \in Keys, s \in Secrets \cup Passkeys : [key |-> k, secret |-> s] # NoWrap
  BY DistinctConstants DEF Wraps
<1>1. ASSUME NEW r \in Requests, SignInStep(r) PROVE FALSE
  <2>1. CASE EnsureInsert(r)
    BY <1>w, <2>1 DEF EnsureInsert, PutNew, Put
  <2> QED  BY <1>1, <2>1 DEF SignInStep, CreateUser, CreateUserWithoutPassword, SsoSignIn,
       Authenticate, ConsumeInvite, AcceptPasswordHash, CreateSession, EnsureRead, EnsureOpen, db
<1>2. ASSUME NEW r \in Requests, MethodStep(r) PROVE FALSE
  <2>k. KindFits(req[r])
    BY DEF RequestsFit
  <2>1. CASE SetupInsert(r)
    <3>1. req[r].priv \in Keys /\ req[r].secret \in Secrets \cup Passkeys
      BY <2>1, <2>k DEF SetupInsert, KindFits, At
    <3> QED  BY <1>w, <1>n, <2>1, <3>1 DEF SetupInsert, PutNew, Put
  <2>2. CASE AddMethod(r)
    <3>1. req[r].priv \in Keys /\ req[r].secret \in Secrets \cup Passkeys
      BY <2>2, <2>k DEF AddMethod, KindFits, At
    <3> QED  BY <1>w, <1>n, <2>2, <3>1 DEF AddMethod, Put
  <2>3. CASE DeleteMethod(r)
    <3>1. req[r].door # "password"
      BY <2>3, <2>k DEF DeleteMethod, KindFits, At
    <3> QED  BY <1>w, <2>3, <3>1 DEF DeleteMethod
  <2> QED  BY <1>2, <2>1, <2>2, <2>3 DEF MethodStep, BeginSetup, SetupRead, BeginUnlock,
       UnlockOpen, Attach, BeginAdd, BeginRemove, CountMethods, db
<1>3. ASSUME NEW r \in Requests, AccountStep(r), ~DestroyVault(r) PROVE FALSE
  <2>1. CASE Rewrap(r)
    <3>1. req[r].priv \in Keys /\ req[r].new \in Secrets
      BY <2>1 DEF Rewrap, RequestsFit, KindFits, At
    <3> QED  BY <1>w, <1>n, <2>1, <3>1 DEF Rewrap, Put
  <2> QED  BY <1>3, <2>1 DEF AccountStep, BeginChange, VerifyPassword, OpenCurrent,
       SetPasswordHash, EndOtherSessions, BeginReset, Reinvite, CreateInvite, db
<1>4. ASSUME NEW r \in Requests, SaveStep(r) \/ Abort(r) PROVE FALSE
  BY <1>4 DEF SaveStep, BeginSave, ReadPublicKey, StoreItem, Abort, db
<1>5. ASSUME \/ \E s \in Sessions : LockVault(s) \/ EndSession(s)
             \/ \E i \in Items : DeleteItem(i)
             \/ ExpireInvite
             \/ UNCHANGED vars
      PROVE  FALSE
  BY <1>5 DEF LockVault, EndSession, DeleteItem, ExpireInvite, vars
<1> QED  BY <1>1, <1>2, <1>3, <1>4, <1>5 DEF Next, Step

\* However requests meet, the method of the login password stays until a reset
\* takes the whole vault.
THEOREM PasswordDoorSafe == Spec => PasswordDoorStays
<1>1. TypeOK /\ RequestsFit /\ [Next]_vars =>
        [wraps["password"] # NoWrap /\ wraps'["password"] = NoWrap => vault' = NoKey]_vars
  BY DoorStays DEF DestroyVault
<1> QED  BY <1>1, TypeCorrect, PTL DEF Spec, PasswordDoorStays

-----------------------------------------------------------------------------
(* Vault implements VaultPromise *)

\* What each method opens
Opens == [d \in Doors |-> IF wraps[d] = NoWrap THEN NoKey ELSE wraps[d].key]

\* The steps that write a key somewhere; all others are invisible to the promise.
Writes(r) ==
    \/ CreateSession(r) \/ EnsureInsert(r) \/ SetupInsert(r) \/ Attach(r)
    \/ AddMethod(r) \/ DeleteMethod(r) \/ Rewrap(r) \/ EndOtherSessions(r)
    \/ DestroyVault(r) \/ StoreItem(r)

LEMMA OnlyWritesWrite ==
    ASSUME [Next]_vars
    PROVE  \/ UNCHANGED <<vault, wraps, skey, items>>
           \/ \E r \in Requests : Writes(r)
           \/ \E s \in Sessions : skey' = [skey EXCEPT ![s] = NoKey]
                                  /\ UNCHANGED <<vault, wraps, items>>
           \/ \E i \in Items : items' = [items EXCEPT ![i] = NoKey]
                                  /\ UNCHANGED <<vault, wraps, skey>>
<1>1. ASSUME NEW r \in Requests, SignInStep(r)
      PROVE  UNCHANGED <<vault, wraps, skey, items>> \/ Writes(r)
  BY <1>1 DEF SignInStep, CreateUser, CreateUserWithoutPassword, SsoSignIn, Authenticate,
     ConsumeInvite, AcceptPasswordHash, EnsureRead, EnsureOpen, db, Writes
<1>2. ASSUME NEW r \in Requests, MethodStep(r)
      PROVE  UNCHANGED <<vault, wraps, skey, items>> \/ Writes(r)
  BY <1>2 DEF MethodStep, BeginSetup, SetupRead, BeginUnlock, UnlockOpen,
     BeginAdd, BeginRemove, CountMethods, db, Writes
<1>3. ASSUME NEW r \in Requests, AccountStep(r)
      PROVE  UNCHANGED <<vault, wraps, skey, items>> \/ Writes(r)
  BY <1>3 DEF AccountStep, BeginChange, VerifyPassword, OpenCurrent, SetPasswordHash,
     BeginReset, Reinvite, CreateInvite, db, Writes
<1>4. ASSUME NEW r \in Requests, SaveStep(r) \/ Abort(r)
      PROVE  UNCHANGED <<vault, wraps, skey, items>> \/ Writes(r)
  BY <1>4 DEF SaveStep, BeginSave, ReadPublicKey, Abort, db, Writes
<1>5. CASE ExpireInvite \/ UNCHANGED vars
  BY <1>5 DEF ExpireInvite, vars
<1>6. \A s \in Sessions : LockVault(s) \/ EndSession(s) =>
          skey' = [skey EXCEPT ![s] = NoKey] /\ UNCHANGED <<vault, wraps, items>>
  BY DEF LockVault, EndSession
<1>7. \A i \in Items : DeleteItem(i) =>
          items' = [items EXCEPT ![i] = NoKey] /\ UNCHANGED <<vault, wraps, skey>>
  BY DEF DeleteItem
<1> QED  BY <1>1, <1>2, <1>3, <1>4, <1>5, <1>6, <1>7 DEF Next, Step

\* A row written for a method makes that method open its key.
LEMMA OpensAfterPut ==
    ASSUME TypeOK, NEW d \in Doors, NEW k \in Keys, NEW s \in Secrets \cup Passkeys,
           wraps' = Put(d, k, s)
    PROVE  Opens' = [Opens EXCEPT ![d] = k]
<1>1. [key |-> k, secret |-> s] # NoWrap
  BY DistinctConstants DEF Wraps
<1>2. wraps'[d] = [key |-> k, secret |-> s] /\ \A e \in Doors \ {d} : wraps'[e] = wraps[e]
  BY DEF Put, TypeOK
<1>3. Opens'[d] = k /\ \A e \in Doors \ {d} : Opens'[e] = Opens[e]
  BY <1>1, <1>2 DEF Opens
<1>4. Opens \in [Doors -> {Opens[e] : e \in Doors}] /\ Opens' = [e \in Doors |-> Opens'[e]]
  BY DEF Opens
<1> QED  BY <1>3, <1>4

\* With no vault there are no methods, so the first row of any kind goes in.
LEMMA NoVaultNoDoors ==
    ASSUME IInv, vault = NoKey
    PROVE  Held = {}
  BY DistinctConstants DEF IInv, TypeOK, VaultOK, EveryDoorOpensTheVault, Held, Wraps

LEMMA WritesKeepThePromise ==
    ASSUME IInv, NEW r \in Requests, Writes(r)
    PROVE  Promise!Next \/ UNCHANGED <<vault, Opens, skey, items>>
<1> USE DistinctConstants
<1>t. /\ TypeOK /\ KindFits(req[r]) /\ InFlight(req[r])
      /\ req[r] \in Request
  BY DEF IInv, RequestsFit, AllInFlight, TypeOK
<1>o. UNCHANGED wraps => UNCHANGED Opens
  BY DEF Opens
<1>p. "password" \in Doors
  BY DEF Doors
<1>1. CASE EnsureInsert(r)
  <2>1. req[r].priv \in Keys /\ req[r].secret \in Secrets /\ vault = NoKey
    BY <1>1, <1>t DEF EnsureInsert, KindFits, InFlight, At
  <2>2. wraps["password"] = NoWrap
    BY <1>p, <2>1, NoVaultNoDoors DEF Held
  <2>3. vault' = req[r].priv /\ Opens' = [Opens EXCEPT !["password"] = req[r].priv]
    BY <1>1, <1>t, <1>p, <2>1, <2>2, OpensAfterPut DEF EnsureInsert, PutNew
  <2>4. PICK k \in Keys : k = req[r].priv
    BY <2>1
  <2>5. Promise!Create("password", k)
    BY <1>1, <2>1, <2>3, <2>4 DEF EnsureInsert, Promise!Create, Opens
  <2> QED  BY <1>p, <2>5 DEF Promise!Next
<1>2. CASE SetupInsert(r)
  <2>1. /\ req[r].priv \in Keys /\ req[r].secret \in Secrets \cup Passkeys /\ vault = NoKey
        /\ req[r].door \in Doors
    BY <1>2, <1>t DEF SetupInsert, KindFits, InFlight, At, Request
  <2>2. wraps[req[r].door] = NoWrap
    BY <2>1, NoVaultNoDoors DEF Held
  <2>3. vault' = req[r].priv /\ Opens' = [Opens EXCEPT ![req[r].door] = req[r].priv]
    BY <1>2, <1>t, <2>1, <2>2, OpensAfterPut DEF SetupInsert, PutNew
  <2>4. PICK d \in Doors, k \in Keys : d = req[r].door /\ k = req[r].priv
    BY <2>1
  <2>5. Promise!Create(d, k)
    BY <1>2, <2>1, <2>3, <2>4 DEF SetupInsert, Promise!Create, Opens
  <2> QED  BY <2>5 DEF Promise!Next
<1>3. CASE AddMethod(r)
  <2>1. /\ req[r].priv = vault /\ vault # NoKey /\ req[r].priv \in Keys
        /\ req[r].secret \in Secrets \cup Passkeys /\ req[r].door \in Doors
    BY <1>3, <1>t DEF AddMethod, KindFits, InFlight, At, Request
  <2>2. Opens' = [Opens EXCEPT ![req[r].door] = vault]
    BY <1>3, <1>t, <2>1, OpensAfterPut DEF AddMethod
  <2>3. PICK d \in Doors : d = req[r].door
    BY <2>1
  <2>4. Promise!AddDoor(d)
    BY <1>3, <2>1, <2>2, <2>3 DEF AddMethod, Promise!AddDoor, Opens
  <2> QED  BY <2>4 DEF Promise!Next
<1>4. CASE Rewrap(r)
  <2>1. req[r].priv = vault /\ vault # NoKey /\ req[r].priv \in Keys /\ req[r].new \in Secrets
    BY <1>4, <1>t DEF Rewrap, KindFits, InFlight, At
  <2>2. Opens' = [Opens EXCEPT !["password"] = vault]
    BY <1>4, <1>t, <1>p, <2>1, OpensAfterPut DEF Rewrap
  <2>3. Promise!AddDoor("password")
    BY <1>4, <2>1, <2>2 DEF Rewrap, Promise!AddDoor, Opens
  <2> QED  BY <1>p, <2>3 DEF Promise!Next
<1>5. CASE DeleteMethod(r)
  <2>1. PICK d \in Doors : d = req[r].door
    BY <1>t DEF Request
  <2>2. PICK e \in Held, f \in Held : e # f
    BY <1>5, <1>t DEF DeleteMethod, InFlight, At
  <2>3. \A x \in Held : Opens[x] # NoKey /\ x \in Doors
    BY <1>t DEF Held, Opens, TypeOK, Wraps
  <2>4. \E x \in Doors \ {d} : Opens[x] # NoKey
    BY <2>2, <2>3
  <2>5. Opens' = [Opens EXCEPT ![d] = NoKey]
    BY <1>5, <1>t, <2>1 DEF DeleteMethod, Opens, TypeOK
  <2>6. Promise!RemoveDoor(d)
    BY <1>5, <2>4, <2>5 DEF DeleteMethod, Promise!RemoveDoor, Opens
  <2> QED  BY <2>6 DEF Promise!Next
<1>6. CASE CreateSession(r)
  <2>1. PICK s \in Sessions : skey' = [skey EXCEPT ![s] = NoKey]
    BY <1>6 DEF CreateSession
  <2>2. skey' = [x \in Sessions |-> IF x \in {s} THEN NoKey ELSE skey[x]]
    BY <1>t, <2>1 DEF TypeOK
  <2>3. Promise!Lock({s})
    BY <1>6, <1>o, <2>2 DEF CreateSession, Promise!Lock, Opens
  <2> QED  BY <2>3 DEF Promise!Next
<1>7. CASE EndOtherSessions(r)
  <2>0. PICK S \in SUBSET Sessions : S = Sessions \ {req[r].sess}
    OBVIOUS
  <2>1. skey' = [x \in Sessions |-> IF x \in S THEN NoKey ELSE skey[x]]
    BY <1>7, <2>0 DEF EndOtherSessions
  <2>2. Promise!Lock(S)
    BY <1>7, <1>o, <2>1 DEF EndOtherSessions, Promise!Lock, Opens
  <2> QED  BY <2>2 DEF Promise!Next
<1>8. CASE Attach(r)
  <2>1. CASE req[r].sess \in live
    <3>1. req[r].priv = vault /\ vault # NoKey /\ req[r].sess \in Sessions
      BY <1>8, <1>t, <2>1 DEF Attach, InFlight, At, TypeOK
    <3>2. PICK s \in Sessions : s = req[r].sess
      BY <3>1
    <3>3. Promise!Unlock(s)
      BY <1>8, <1>o, <2>1, <3>1, <3>2 DEF Attach, Promise!Unlock, Opens
    <3> QED  BY <3>3 DEF Promise!Next
  <2>2. CASE req[r].sess \notin live
    BY <1>8, <1>o, <2>2 DEF Attach
  <2> QED  BY <2>1, <2>2
<1>9. CASE DestroyVault(r)
  <2>1. Opens' = [d \in Doors |-> NoKey]
    BY <1>9 DEF DestroyVault, Opens
  <2>2. Promise!Destroy
    BY <1>9, <2>1 DEF DestroyVault, Promise!Destroy, Opens
  <2> QED  BY <2>2 DEF Promise!Next
<1>10. CASE StoreItem(r)
  <2>1. req[r].priv = vault /\ vault # NoKey /\ req[r].item \in Items \cup {NoItem}
    BY <1>10, <1>t DEF StoreItem, InFlight, At, Request
  <2>2. CASE req[r].item \in Items
    <3>1. PICK i \in Items : i = req[r].item
      BY <2>2
    <3>2. Promise!Seal(i)
      BY <1>10, <1>o, <2>1, <3>1 DEF StoreItem, Promise!Seal, Opens
    <3> QED  BY <3>2 DEF Promise!Next
  <2>3. CASE req[r].item = NoItem
    <3>1. items' = items
      BY <1>10, <1>t, <2>3 DEF StoreItem, TypeOK
    <3> QED  BY <1>10, <1>o, <3>1 DEF StoreItem
  <2> QED  BY <2>1, <2>2, <2>3
<1> QED
  BY <1>1, <1>2, <1>3, <1>4, <1>5, <1>6, <1>7, <1>8, <1>9, <1>10 DEF Writes

\* As long as requests overlap only in safe pairs, the vault does nothing but what
\* VaultPromise says: one key at a time, handed out and taken back as a whole.
THEOREM VaultKeepsThePromise ==
    ASSUME Overlap \subseteq SafeOverlap
    PROVE  Spec => KeepsThePromise
<1>1. Init => Promise!Init
  BY DEF Init, Promise!Init
<1>2. IInv /\ [Next]_vars => [Promise!Next]_Promise!vars
  <2> SUFFICES ASSUME IInv, [Next]_vars
               PROVE  Promise!Next \/ UNCHANGED <<vault, Opens, skey, items>>
    BY DEF Promise!vars, Opens
  <2>o. UNCHANGED wraps => UNCHANGED Opens
    BY DEF Opens
  <2>1. ASSUME NEW s \in Sessions, skey' = [skey EXCEPT ![s] = NoKey],
               UNCHANGED <<vault, wraps, items>>
        PROVE  Promise!Next
    <3>1. skey' = [x \in Sessions |-> IF x \in {s} THEN NoKey ELSE skey[x]]
      BY <2>1 DEF IInv, TypeOK
    <3>2. Promise!Lock({s})
      BY <2>1, <2>o, <3>1 DEF Promise!Lock, Opens
    <3> QED  BY <3>2 DEF Promise!Next
  <2>2. ASSUME NEW i \in Items, items' = [items EXCEPT ![i] = NoKey],
               UNCHANGED <<vault, wraps, skey>>
        PROVE  Promise!Next
    <3>1. Promise!Unseal(i)
      BY <2>2, <2>o DEF Promise!Unseal, Opens
    <3> QED  BY <3>1 DEF Promise!Next
  <2> QED
    BY <2>o, <2>1, <2>2, OnlyWritesWrite, WritesKeepThePromise
<1> QED
  BY <1>1, <1>2, IInvInit, IInvNext, PTL DEF Spec, KeepsThePromise, Promise!Spec

-----------------------------------------------------------------------------
(* The first password *)

\* A change of password that is past its check found a password.
Changing == {"verify", "openCurrent", "setHash"}
Verified ==
    \A r \in Requests :
        /\ At(r, "verify") => req[r].secret \in Secrets
        /\ req[r].pc \in {"openCurrent", "setHash"} => hash \in Secrets

LEMMA HowAChangeGoesOn ==
    ASSUME TypeOK, RequestsFit, [Next]_vars, NEW x \in Requests,
           req'[x] # req[x], req'[x].pc \in Changing
    PROVE  BeginChange(x) \/ VerifyPassword(x) \/ OpenCurrent(x)
<1> USE DEF Changing
<1>t. req \in [Requests -> Request]
  BY DEF TypeOK
<1>h. ASSUME NEW r \in Requests, req'[r].pc \notin Changing,
             \A o \in Requests \ {r} : req'[o] = req[o]
      PROVE  FALSE
  BY <1>h
<1>b. ASSUME NEW r \in Requests, NEW q, Begin(r, q), q.pc \notin Changing
      PROVE  FALSE
  BY <1>b, <1>t DEF Begin
<1>f. ASSUME NEW r \in Requests, Finish(r)
      PROVE  FALSE
  BY <1>f, <1>t DEF Finish, Idle
<1>1. ASSUME NEW r \in Requests,
             \/ CreateUser(r) \/ CreateUserWithoutPassword(r) \/ SsoSignIn(r)
             \/ Authenticate(r) \/ ConsumeInvite(r) \/ BeginReset(r) \/ Reinvite(r)
      PROVE  FALSE
  <2>1. CASE CreateUser(r)
    <3>1. PICK p \in Secrets :
             Begin(r, [NewRequest("create", "ensure") EXCEPT !.secret = p])
      BY <2>1 DEF CreateUser
    <3> DEFINE q == [NewRequest("create", "ensure") EXCEPT !.secret = p]
    <3>2. Begin(r, q)
      BY <3>1
    <3>3. q.pc \notin Changing
      BY DEF NewRequest, Idle
    <3> HIDE DEF q
    <3> QED  BY <3>2, <3>3, <1>b
  <2>2. CASE CreateUserWithoutPassword(r)
    <3> DEFINE q == NewRequest("invite", "link")
    <3>2. Begin(r, q)
      BY <2>2 DEF CreateUserWithoutPassword
    <3>3. q.pc \notin Changing
      BY DEF NewRequest, Idle
    <3> HIDE DEF q
    <3> QED  BY <3>2, <3>3, <1>b
  <2>3. CASE SsoSignIn(r)
    <3> DEFINE q == NewRequest("sso", "session")
    <3>2. Begin(r, q)
      BY <2>3 DEF SsoSignIn
    <3>3. q.pc \notin Changing
      BY DEF NewRequest, Idle
    <3> HIDE DEF q
    <3> QED  BY <3>2, <3>3, <1>b
  <2>4. CASE Authenticate(r)
    <3>1. PICK p \in Secrets :
             Begin(r, [NewRequest("login", "session") EXCEPT !.secret = p])
      BY <2>4 DEF Authenticate
    <3> DEFINE q == [NewRequest("login", "session") EXCEPT !.secret = p]
    <3>2. Begin(r, q)
      BY <3>1
    <3>3. q.pc \notin Changing
      BY DEF NewRequest, Idle
    <3> HIDE DEF q
    <3> QED  BY <3>2, <3>3, <1>b
  <2>5. CASE ConsumeInvite(r)
    <3>1. PICK p \in Secrets :
             Begin(r, [NewRequest("accept", "acceptHash") EXCEPT !.secret = p])
      BY <2>5 DEF ConsumeInvite
    <3> DEFINE q == [NewRequest("accept", "acceptHash") EXCEPT !.secret = p]
    <3>2. Begin(r, q)
      BY <3>1
    <3>3. q.pc \notin Changing
      BY DEF NewRequest, Idle
    <3> HIDE DEF q
    <3> QED  BY <3>2, <3>3, <1>b
  <2>6. CASE BeginReset(r)
    <3> DEFINE q == NewRequest("reset", "destroy")
    <3>2. Begin(r, q)
      BY <2>6 DEF BeginReset
    <3>3. q.pc \notin Changing
      BY DEF NewRequest, Idle
    <3> HIDE DEF q
    <3> QED  BY <3>2, <3>3, <1>b
  <2>7. CASE Reinvite(r)
    <3> DEFINE q == NewRequest("reinvite", "link")
    <3>2. Begin(r, q)
      BY <2>7 DEF Reinvite
    <3>3. q.pc \notin Changing
      BY DEF NewRequest, Idle
    <3> HIDE DEF q
    <3> QED  BY <3>2, <3>3, <1>b
  <2> QED  BY <1>1, <2>1, <2>2, <2>3, <2>4, <2>5, <2>6, <2>7
<1>2. ASSUME NEW r \in Requests,
             BeginSetup(r) \/ BeginUnlock(r) \/ BeginSave(r) \/ BeginAdd(r) \/ BeginRemove(r)
      PROVE  FALSE
  <2>1. CASE BeginSetup(r)
    <3>1. PICK s \in live, d \in Doors \ {"password"}, p \in Secrets :
             Begin(r, [NewRequest("setup", "setup") EXCEPT !.sess = s, !.door = d, !.secret = SecretFor(d, p)])
      BY <2>1 DEF BeginSetup
    <3> DEFINE q == [NewRequest("setup", "setup") EXCEPT !.sess = s, !.door = d, !.secret = SecretFor(d, p)]
    <3>2. Begin(r, q)
      BY <3>1
    <3>3. q.pc \notin Changing
      BY DEF NewRequest, Idle
    <3> HIDE DEF q
    <3> QED  BY <3>2, <3>3, <1>b
  <2>2. CASE BeginUnlock(r)
    <3>1. PICK s \in live, p \in Secrets \cup Passkeys :
             Begin(r, [NewRequest("unlock", "open") EXCEPT !.sess = s, !.secret = p])
      BY <2>2 DEF BeginUnlock
    <3> DEFINE q == [NewRequest("unlock", "open") EXCEPT !.sess = s, !.secret = p]
    <3>2. Begin(r, q)
      BY <3>1
    <3>3. q.pc \notin Changing
      BY DEF NewRequest, Idle
    <3> HIDE DEF q
    <3> QED  BY <3>2, <3>3, <1>b
  <2>3. CASE BeginSave(r)
    <3>1. PICK s \in live, i \in Items :
             Begin(r, [NewRequest("save", "seal") EXCEPT !.sess = s, !.item = i])
      BY <2>3 DEF BeginSave
    <3> DEFINE q == [NewRequest("save", "seal") EXCEPT !.sess = s, !.item = i]
    <3>2. Begin(r, q)
      BY <3>1
    <3>3. q.pc \notin Changing
      BY DEF NewRequest, Idle
    <3> HIDE DEF q
    <3> QED  BY <3>2, <3>3, <1>b
  <2>4. CASE BeginAdd(r)
    <3>1. PICK s \in live, d \in Doors \ {"password"}, p \in Secrets :
             Begin(r, SignedIn(s, [NewRequest("add", "add") EXCEPT !.door = d, !.secret = SecretFor(d, p)]))
      BY <2>4 DEF BeginAdd
    <3> DEFINE q == SignedIn(s, [NewRequest("add", "add") EXCEPT !.door = d, !.secret = SecretFor(d, p)])
    <3>2. Begin(r, q)
      BY <3>1
    <3>3. q.pc \notin Changing
      BY DEF NewRequest, Idle, SignedIn
    <3> HIDE DEF q
    <3> QED  BY <3>2, <3>3, <1>b
  <2>5. CASE BeginRemove(r)
    <3>1. PICK s \in live, d \in Doors \ {"password"} :
             Begin(r, SignedIn(s, [NewRequest("remove", "count") EXCEPT !.door = d]))
      BY <2>5 DEF BeginRemove
    <3> DEFINE q == SignedIn(s, [NewRequest("remove", "count") EXCEPT !.door = d])
    <3>2. Begin(r, q)
      BY <3>1
    <3>3. q.pc \notin Changing
      BY DEF NewRequest, Idle, SignedIn
    <3> HIDE DEF q
    <3> QED  BY <3>2, <3>3, <1>b
  <2> QED  BY <1>2, <2>1, <2>2, <2>3, <2>4, <2>5
<1>3. ASSUME NEW r \in Requests,
             \/ AcceptPasswordHash(r) \/ CreateSession(r) \/ EnsureRead(r) \/ EnsureOpen(r)
             \/ EnsureInsert(r) \/ SetPasswordHash(r) \/ Rewrap(r) \/ EndOtherSessions(r)
             \/ DestroyVault(r) \/ CreateInvite(r)
      PROVE  FALSE
  <2>t. req[r] \in Request
    BY <1>t
  <2>1. CASE AcceptPasswordHash(r)
    BY <1>t, <1>h, <2>t, <2>1 DEF AcceptPasswordHash, Goto, Request
  <2>2. CASE CreateSession(r)
    <3>1. CASE req[r].kind = "sso"
      BY <1>f, <2>2, <3>1 DEF CreateSession
    <3>2. CASE req[r].kind # "sso"
      BY <1>t, <1>h, <2>t, <2>2, <3>2 DEF CreateSession, Request
    <3> QED  BY <3>1, <3>2
  <2>3. CASE EnsureRead(r)
    BY <1>t, <1>h, <2>t, <2>3 DEF EnsureRead, Goto, Request
  <2>4. CASE EnsureOpen(r) \/ EnsureInsert(r)
    <3>1. \E k : AfterEnsure(r, k)
      BY <2>4 DEF EnsureOpen, EnsureInsert
    <3> QED  BY <1>f, <1>h, <1>t, <2>t, <3>1 DEF AfterEnsure, Request
  <2>5. CASE SetPasswordHash(r)
    BY <1>t, <1>h, <2>t, <2>5 DEF SetPasswordHash, Request
  <2>6. CASE Rewrap(r)
    BY <1>t, <1>h, <2>t, <2>6 DEF Rewrap, Request
  <2>7. CASE EndOtherSessions(r) \/ CreateInvite(r)
    BY <1>f, <2>7 DEF EndOtherSessions, CreateInvite
  <2>8. CASE DestroyVault(r)
    BY <1>t, <1>h, <2>t, <2>8 DEF DestroyVault, Goto, Request
  <2> QED  BY <1>3, <2>1, <2>2, <2>3, <2>4, <2>5, <2>6, <2>7, <2>8
<1>4. ASSUME NEW r \in Requests,
             \/ SetupRead(r) \/ SetupInsert(r) \/ UnlockOpen(r) \/ Attach(r) \/ AddMethod(r)
             \/ CountMethods(r) \/ DeleteMethod(r) \/ ReadPublicKey(r) \/ StoreItem(r) \/ Abort(r)
      PROVE  FALSE
  <2>t. req[r] \in Request
    BY <1>t
  <2>1. CASE SetupRead(r)
    BY <1>f, <1>t, <1>h, <2>t, <2>1 DEF SetupRead, Request
  <2>2. CASE SetupInsert(r)
    BY <1>t, <1>h, <2>t, <2>2 DEF SetupInsert, Goto, Request
  <2>3. CASE UnlockOpen(r)
    BY <1>f, <1>t, <1>h, <2>t, <2>3 DEF UnlockOpen, Request
  <2>4. CASE CountMethods(r)
    BY <1>f, <1>t, <1>h, <2>t, <2>4 DEF CountMethods, Goto, Request
  <2>5. CASE ReadPublicKey(r)
    BY <1>f, <1>t, <1>h, <2>t, <2>5 DEF ReadPublicKey, Request
  <2>6. CASE Attach(r) \/ AddMethod(r) \/ DeleteMethod(r) \/ StoreItem(r) \/ Abort(r)
    BY <1>f, <2>6 DEF Attach, AddMethod, DeleteMethod, StoreItem, Abort
  <2> QED  BY <1>4, <2>1, <2>2, <2>3, <2>4, <2>5, <2>6
<1>5. ASSUME NEW r \in Requests, BeginChange(r) \/ VerifyPassword(r) \/ OpenCurrent(r)
      PROVE  r = x
  <2>1. \E q : req' = [req EXCEPT ![r] = q]
    BY <1>5 DEF BeginChange, VerifyPassword, OpenCurrent, Begin, Goto, Finish
  <2> QED  BY <1>t, <2>1
<1>6. req' # req
  OBVIOUS
<1> QED
  BY <1>1, <1>2, <1>3, <1>4, <1>5, <1>6 DEF Next, Step, SignInStep, MethodStep, AccountStep, SaveStep,
     LockVault, EndSession, DeleteItem, ExpireInvite, vars

\* What the steps make of the password
LEMMA HowThePasswordChanges ==
    ASSUME TypeOK, RequestsFit, [Next]_vars
    PROVE  \/ UNCHANGED hash
           \/ hash = NoUser
           \/ \E r \in Requests : /\ AcceptPasswordHash(r) \/ SetPasswordHash(r)
                                  /\ hash' \in Secrets
           \/ \E r \in Requests : DestroyVault(r)
<1>1. ASSUME NEW r \in Requests, SignInStep(r), hash # NoUser
      PROVE  UNCHANGED hash \/ (AcceptPasswordHash(r) /\ hash' \in Secrets)
  <2>1. AcceptPasswordHash(r) => hash' \in Secrets
    BY DEF AcceptPasswordHash, RequestsFit, KindFits, At
  <2> QED  BY <1>1, <2>1 DEF SignInStep, CreateUser, CreateUserWithoutPassword, SsoSignIn,
     Authenticate, ConsumeInvite, CreateSession, EnsureRead, EnsureOpen, EnsureInsert, db
<1>2. ASSUME NEW r \in Requests, MethodStep(r)
      PROVE  UNCHANGED hash
  BY <1>2 DEF MethodStep, BeginSetup, SetupRead, SetupInsert, BeginUnlock, UnlockOpen, Attach,
     BeginAdd, AddMethod, BeginRemove, CountMethods, DeleteMethod, db
<1>3. ASSUME NEW r \in Requests, AccountStep(r)
      PROVE  UNCHANGED hash \/ (SetPasswordHash(r) /\ hash' \in Secrets) \/ DestroyVault(r)
  <2>1. SetPasswordHash(r) => hash' \in Secrets
    BY DEF SetPasswordHash, RequestsFit, KindFits, At
  <2> QED  BY <1>3, <2>1 DEF AccountStep, BeginChange, VerifyPassword, OpenCurrent, Rewrap,
     EndOtherSessions, BeginReset, Reinvite, CreateInvite, db
<1>4. ASSUME NEW r \in Requests, SaveStep(r) \/ Abort(r)
      PROVE  UNCHANGED hash
  BY <1>4 DEF SaveStep, BeginSave, ReadPublicKey, StoreItem, Abort, db
<1>5. CASE \/ \E s \in Sessions : LockVault(s) \/ EndSession(s)
           \/ \E i \in Items : DeleteItem(i)
           \/ ExpireInvite
           \/ UNCHANGED vars
  BY <1>5 DEF LockVault, EndSession, DeleteItem, ExpireInvite, vars
<1> QED  BY <1>1, <1>2, <1>3, <1>4, <1>5 DEF Next, Step

LEMMA VerifiedNext ==
    ASSUME IInv, Verified, [Next]_vars
    PROVE  Verified'
<1> USE DistinctConstants
<1>t. TypeOK /\ RequestsFit
  BY DEF IInv
<1> SUFFICES ASSUME NEW x \in Requests
             PROVE  /\ At(x, "verify")' => req'[x].secret \in Secrets
                    /\ req'[x].pc \in {"openCurrent", "setHash"} => hash' \in Secrets
  BY DEF Verified
<1>1. CASE req'[x].pc \notin Changing
  BY <1>1 DEF Changing, At
<1>2. CASE req'[x] = req[x] /\ req[x].pc \in Changing
  <2>1. At(x, "verify")' => req'[x].secret \in Secrets
    BY <1>2 DEF Verified, At
  <2>2. ASSUME req[x].pc \in {"openCurrent", "setHash"}
        PROVE  hash' \in Secrets
    <3>1. hash \in Secrets /\ hash # NoUser
      BY <2>2 DEF Verified
    <3>2. ASSUME NEW r \in Requests, DestroyVault(r)
          PROVE  FALSE
      <4>1. r # x /\ req[r].kind = "reset" /\ req[x].kind = "change" /\ ~At(r, "idle") /\ ~At(x, "idle")
        BY <1>t, <2>2, <3>2 DEF DestroyVault, At, RequestsFit, KindFits
      <4> QED  BY <4>1 DEF IInv, Exclusive, SafePair, Destroying, Creating
    <3> QED  BY <1>t, <3>1, <3>2, HowThePasswordChanges
  <2> QED  BY <1>2, <2>1, <2>2
<1>3. CASE req'[x] # req[x] /\ req'[x].pc \in Changing
  <2>1. CASE BeginChange(x)
    <3>1. PICK s \in live, old \in Secrets, p \in Secrets :
             Begin(x, SignedIn(s, [NewRequest("change", "verify") EXCEPT !.secret = old, !.new = p]))
      BY <2>1 DEF BeginChange
    <3>2. req'[x] = SignedIn(s, [NewRequest("change", "verify") EXCEPT !.secret = old, !.new = p])
      BY <1>t, <3>1 DEF Begin, TypeOK
    <3>3. req'[x].pc = "verify" /\ req'[x].secret = old
      BY <3>2 DEF SignedIn, NewRequest, Idle
    <3> QED  BY <3>3 DEF At
  <2>2. CASE VerifyPassword(x)
    <3>1. req[x] \in Request /\ At(x, "verify") /\ req[x].secret \in Secrets
      BY <1>t, <2>2 DEF VerifyPassword, Verified, TypeOK
    <3>2. UNCHANGED hash
      BY <2>2 DEF VerifyPassword, db
    <3>3. CASE hash # req[x].secret
      BY <1>t, <1>3, <2>2, <3>3 DEF VerifyPassword, Finish, Idle, Changing, TypeOK
    <3>4. CASE hash = req[x].secret
      <4>1. Goto(x, "openCurrent") \/ Goto(x, "setHash")
        BY <2>2, <3>4 DEF VerifyPassword
      <4>2. req'[x].pc \in {"openCurrent", "setHash"}
        BY <1>t, <3>1, <4>1 DEF Goto, Request, TypeOK
      <4> QED  BY <3>1, <3>2, <3>4, <4>2 DEF At
    <3> QED  BY <3>3, <3>4
  <2>3. CASE OpenCurrent(x)
    <3>1. req[x] \in Request /\ hash \in Secrets /\ UNCHANGED hash
      BY <1>t, <2>3 DEF OpenCurrent, Verified, TypeOK, At, db
    <3>2. req'[x].pc = "setHash"
      BY <1>t, <2>3, <3>1 DEF OpenCurrent, Request, TypeOK
    <3> QED  BY <3>1, <3>2 DEF At
  <2> QED  BY <1>t, <1>3, <2>1, <2>2, <2>3, HowAChangeGoesOn
<1> QED  BY <1>1, <1>2, <1>3

\* Whoever is to change the password gave one to compare.
Given == \A r \in Requests : At(r, "verify") => req[r].secret \in Secrets

\* OnlyALinkSetsAFirstPassword, however requests overlap: a password that a reset
\* took is set again by accepting the link or by a change that had compared the
\* former one before the reset; a change that compares after it does not get on.
THEOREM FirstPasswordByLink == Spec => OnlyALinkSetsAFirstPassword
<1> USE DistinctConstants
<1>1. Init => Given
  BY IdleType DEF Init, Given, At
<1>2. TypeOK /\ RequestsFit /\ Given /\ [Next]_vars => Given'
  <2> SUFFICES ASSUME TypeOK, RequestsFit, Given, [Next]_vars,
                      NEW x \in Requests, At(x, "verify")'
               PROVE  req'[x].secret \in Secrets
    BY DEF Given
  <2>t. req \in [Requests -> Request]
    BY DEF TypeOK
  <2>1. CASE req'[x] = req[x]
    BY <2>1 DEF Given, At
  <2>2. CASE BeginChange(x)
    <3>1. PICK s \in live, old \in Secrets, p \in Secrets :
             Begin(x, SignedIn(s, [NewRequest("change", "verify") EXCEPT !.secret = old, !.new = p]))
      BY <2>2 DEF BeginChange
    <3>2. req'[x] = SignedIn(s, [NewRequest("change", "verify") EXCEPT !.secret = old, !.new = p])
      BY <2>t, <3>1 DEF Begin
    <3> QED  BY <3>2 DEF SignedIn, NewRequest, Idle
  <2>3. ASSUME VerifyPassword(x) \/ OpenCurrent(x)
        PROVE  req'[x].pc # "verify"
    BY <2>t, <2>3 DEF VerifyPassword, OpenCurrent, Goto, Finish, Idle, Request, At
  <2> QED  BY <2>1, <2>2, <2>3, HowAChangeGoesOn DEF Changing, At
<1>3. TypeOK /\ RequestsFit /\ Given /\ [Next]_vars =>
        [hash = NoSecret =>
           /\ hash' # NoSecret =>
                \E r \in Requests : At(r, "acceptHash") \/ At(r, "setHash")
           /\ \A r \in Requests : PastItsCheck(r)' => PastItsCheck(r)]_vars
  <2> SUFFICES ASSUME TypeOK, RequestsFit, Given, [Next]_vars, hash = NoSecret
               PROVE  /\ hash' # NoSecret =>
                           \E r \in Requests : At(r, "acceptHash") \/ At(r, "setHash")
                      /\ \A r \in Requests : PastItsCheck(r)' => PastItsCheck(r)
    OBVIOUS
  <2>t. req \in [Requests -> Request]
    BY DEF TypeOK
  <2>1. ASSUME hash' # NoSecret
        PROVE  \E r \in Requests : At(r, "acceptHash") \/ At(r, "setHash")
    <3>1. ASSUME NEW r \in Requests, DestroyVault(r)
          PROVE  FALSE
      BY <2>1, <3>1 DEF DestroyVault
    <3>2. PICK r \in Requests : AcceptPasswordHash(r) \/ SetPasswordHash(r)
      BY <2>1, <3>1, HowThePasswordChanges
    <3> QED  BY <3>2 DEF AcceptPasswordHash, SetPasswordHash
  <2>2. ASSUME NEW x \in Requests, PastItsCheck(x)'
        PROVE  PastItsCheck(x)
    <3>1. CASE req'[x] = req[x]
      BY <2>2, <3>1 DEF PastItsCheck
    <3>2. ASSUME BeginChange(x)
          PROVE  FALSE
      <4>1. PICK s \in live, old \in Secrets, p \in Secrets :
               Begin(x, SignedIn(s, [NewRequest("change", "verify") EXCEPT !.secret = old, !.new = p]))
        BY <3>2 DEF BeginChange
      <4>2. req'[x] = SignedIn(s, [NewRequest("change", "verify") EXCEPT !.secret = old, !.new = p])
        BY <2>t, <4>1 DEF Begin
      <4> QED  BY <2>2, <4>2 DEF SignedIn, NewRequest, Idle, PastItsCheck
    <3>3. ASSUME VerifyPassword(x)
          PROVE  FALSE
      <4>1. hash # req[x].secret
        BY <3>3 DEF VerifyPassword, Given, At
      <4>2. Finish(x)
        BY <3>3, <4>1 DEF VerifyPassword
      <4> QED  BY <2>t, <2>2, <4>2 DEF Finish, Idle, PastItsCheck
    <3>4. OpenCurrent(x) => PastItsCheck(x)
      BY DEF OpenCurrent, PastItsCheck, At
    <3>5. req'[x].pc \in Changing
      BY <2>2 DEF PastItsCheck, Changing
    <3> QED  BY <3>1, <3>2, <3>3, <3>4, <3>5, HowAChangeGoesOn
  <2> QED  BY <2>1, <2>2
<1>4. QED
  BY <1>1, <1>2, <1>3, TypeCorrect, PTL DEF Spec, OnlyALinkSetsAFirstPassword

-----------------------------------------------------------------------------
(* The login password and its door, when one link is in use at a time *)

\* What a request that deals with the password goes by is the password the
\* account has (password), that it has none while a link is being issued or
\* accepted (linked: another link is open), and that there is no door on it
\* where the request would make a new one (door).
Agrees(q, password, linked, door) ==
    /\ q.pc \in {"session", "ensure", "ensureOpen", "ensureInsert"} /\ q.kind # "sso" =>
         q.secret = password
    /\ q.pc = "acceptHash" => password = NoSecret /\ ~linked
    /\ q.pc = "link" => password = NoSecret
    /\ q.pc = "openCurrent" => q.secret = password
    /\ q.pc = "setHash" /\ q.priv = NoKey => door = NoWrap
    /\ q.pc = "rewrap" => q.new = password

RequestsAgree == \A r \in Requests : Agrees(req[r], hash, invite, wraps["password"])

\* Only an account without a password has an open link, and it has no door on one.
LinksAgree ==
    /\ invite => hash = NoSecret
    /\ hash \in {NoSecret, NoUser} => wraps["password"] = NoWrap

\* The door is on the password, or a request is about to put it there.
DoorFollows ==
    \/ wraps["password"] = NoWrap
    \/ wraps["password"].secret = hash
    \/ \E r \in Requests : At(r, "rewrap")

CalmInv == RequestsAgree /\ LinksAgree /\ DoorFollows

\* The statements a request has still to come to when the password decides.
PasswordPcs == {"session", "ensure", "ensureOpen", "ensureInsert", "acceptHash", "link",
                "openCurrent", "setHash", "rewrap"}

LEMMA OthersAgree ==
    ASSUME NEW q, NEW password, NEW linked, NEW door,
           q.pc \notin PasswordPcs
    PROVE  Agrees(q, password, linked, door)
  BY DEF Agrees, PasswordPcs

\* Besides the requests that create, only those that issue a link are concerned.
LEMMA BystandersAgree ==
    ASSUME NEW q, KindFits(q), q.kind \notin Creating,
           NEW password, NEW linked, NEW door,
           q.pc = "link" => password = NoSecret
    PROVE  Agrees(q, password, linked, door)
  BY DEF Agrees, KindFits, Creating

\* A step that writes neither the password nor its door.
LEMMA CalmQuiet ==
    ASSUME CalmInv, NEW r \in Requests, ~At(r, "rewrap"),
           hash' = hash, wraps'["password"] = wraps["password"], invite' => invite,
           \A x \in Requests \ {r} : req'[x] = req[x],
           Agrees(req'[r], hash, invite', wraps["password"])
    PROVE  CalmInv'
<1>1. RequestsAgree'
  <2> SUFFICES ASSUME NEW x \in Requests
               PROVE  Agrees(req'[x], hash', invite', wraps'["password"])
    BY DEF RequestsAgree
  <2>1. CASE x = r
    BY <2>1
  <2>2. CASE x # r
    BY <2>2 DEF CalmInv, RequestsAgree, Agrees
  <2> QED  BY <2>1, <2>2
<1>2. LinksAgree'
  BY DEF CalmInv, LinksAgree
<1>3. DoorFollows'
  BY DEF CalmInv, DoorFollows, At
<1> QED  BY <1>1, <1>2, <1>3 DEF CalmInv

\* A step of a request that creates leaves no other such request in flight.
LEMMA CreatesAlone ==
    ASSUME OneLinkAtATime, NEW r \in Requests, req[r].kind \in Creating,
           NEW x \in Requests \ {r}
    PROVE  req[x].kind \notin Creating /\ (req[r].kind = "accept" => req[x].kind \notin Linking)
<1>1. req[x].kind = "none" \/ CalmPair(req[r].kind, req[x].kind)
  BY DEF OneLinkAtATime, Creating
<1> QED  BY <1>1 DEF CalmPair, SafePair, Creating, Linking

\* A step that writes the password or its door while no other request creates.
LEMMA CalmLoud ==
    ASSUME RequestsFit, CalmInv, NEW r \in Requests,
           \A x \in Requests \ {r} :
              /\ req'[x] = req[x]
              /\ req[x].kind \notin Creating
              /\ At(x, "link") => hash' = NoSecret,
           Agrees(req'[r], hash', invite', wraps'["password"]),
           LinksAgree', DoorFollows'
    PROVE  CalmInv'
<1> SUFFICES ASSUME NEW x \in Requests
             PROVE  Agrees(req'[x], hash', invite', wraps'["password"])
  BY DEF CalmInv, RequestsAgree
<1>1. CASE x = r
  BY <1>1
<1>2. CASE x # r
  <2>1. req'[x] = req[x] /\ KindFits(req[x]) /\ req[x].kind \notin Creating
    BY <1>2 DEF RequestsFit
  <2>2. req[x].pc = "link" => hash' = NoSecret
    BY <1>2 DEF At
  <2> QED  BY <2>1, <2>2, BystandersAgree
<1> QED  BY <1>1, <1>2

\* The sign-in steps that write the password or its door.
LEMMA CalmSignInWrites ==
    ASSUME IInv, IInv', Verified, CalmInv, OneLinkAtATime, OneLinkAtATime', NEW r \in Requests,
           CreateUser(r) \/ AcceptPasswordHash(r) \/ EnsureInsert(r)
    PROVE  CalmInv'
<1> USE DistinctConstants
<1>t. /\ TypeOK /\ RequestsFit /\ req \in [Requests -> Request] /\ req[r] \in Request
      /\ wraps \in [Doors -> Wraps \cup {NoWrap}] /\ "password" \in Doors
  BY DEF IInv, TypeOK, Doors
<1>1. CASE CreateUser(r)
  <2>1. PICK p \in Secrets :
          /\ hash = NoUser /\ hash' = p
          /\ Begin(r, [NewRequest("create", "ensure") EXCEPT !.secret = p])
          /\ UNCHANGED <<invite, vault, wraps, live, skey, items>>
    BY <1>1 DEF CreateUser
  <2> DEFINE q == [NewRequest("create", "ensure") EXCEPT !.secret = p]
  <2>2. q.kind = "create" /\ q.pc = "ensure" /\ q.secret = p
    BY DEF NewRequest, Idle
  <2>3. req'[r] = q /\ \A x \in Requests \ {r} : req'[x] = req[x]
    BY <1>t, <2>1 DEF Begin
  <2> HIDE DEF q
  <2>4. \A x \in Requests \ {r} : req'[x].kind \notin Creating
    BY <2>2, <2>3 DEF OneLinkAtATime, CalmPair, SafePair, Creating
  <2>5. wraps["password"] = NoWrap /\ ~invite
    BY <2>1 DEF CalmInv, LinksAgree
  <2>6. LinksAgree' /\ DoorFollows'
    BY <2>1, <2>5 DEF LinksAgree, DoorFollows
  <2>7. Agrees(q, hash', invite', wraps'["password"])
    BY <2>1, <2>2 DEF Agrees
  <2>8. \A x \in Requests \ {r} : ~At(x, "link")
    BY <2>1 DEF CalmInv, RequestsAgree, Agrees, At
  <2> QED  BY <1>t, <2>3, <2>4, <2>6, <2>7, <2>8, CalmLoud
<1>2. CASE AcceptPasswordHash(r)
  <2>1. /\ req[r].pc = "acceptHash" /\ req[r].kind = "accept" /\ req[r].secret \in Secrets
        /\ hash' = req[r].secret /\ Goto(r, "session") /\ UNCHANGED <<invite, wraps>>
    BY <1>t, <1>2 DEF AcceptPasswordHash, At, RequestsFit, KindFits
  <2>2. /\ req'[r] = [req[r] EXCEPT !.pc = "session"]
        /\ \A x \in Requests \ {r} : req'[x] = req[x]
    BY <1>t, <2>1 DEF Goto
  <2>3. req'[r].pc = "session" /\ req'[r].secret = req[r].secret
    BY <1>t, <2>2 DEF Request
  <2>4. hash = NoSecret /\ ~invite
    BY <2>1 DEF CalmInv, RequestsAgree, Agrees
  <2>5. LinksAgree' /\ DoorFollows'
    BY <2>1, <2>4 DEF CalmInv, LinksAgree, DoorFollows
  <2>6. Agrees(req'[r], hash', invite', wraps'["password"])
    BY <2>1, <2>3 DEF Agrees
  <2>7. ASSUME NEW x \in Requests \ {r} PROVE req[x].kind \notin Creating /\ ~At(x, "link")
    <3>1. req[x].kind \notin Creating \cup Linking
      BY <2>1, CreatesAlone DEF Creating
    <3> QED  BY <1>t, <3>1 DEF RequestsFit, KindFits, Linking, At, OneLinkAtATime
  <2> QED  BY <1>t, <2>2, <2>5, <2>6, <2>7, CalmLoud
<1>3. CASE EnsureInsert(r)
  <2> DEFINE q == req[r]
  <2>1. /\ q.pc = "ensureInsert" /\ q.kind \in {"create", "login", "accept", "change"}
        /\ q.secret \in Secrets /\ q.priv \in Keys
        /\ wraps' = PutNew("password", q.priv, q.secret)
        /\ AfterEnsure(r, q.priv) /\ UNCHANGED <<hash, invite>>
    BY <1>t, <1>3 DEF EnsureInsert, At, RequestsFit, KindFits
  <2>2. hash = q.secret
    BY <2>1 DEF CalmInv, RequestsAgree, Agrees
  <2>h. hash' = hash /\ invite' = invite /\ hash \in Secrets
    BY <2>1, <2>2
  <2>3. /\ req'[r].pc \notin PasswordPcs
        /\ \A x \in Requests \ {r} : req'[x] = req[x]
    BY <1>t, <2>1 DEF AfterEnsure, Finish, Idle, PasswordPcs, Request
  <2>4. ASSUME wraps["password"] = NoWrap PROVE DoorFollows'
    <3>1. wraps'["password"] = [key |-> q.priv, secret |-> q.secret]
      BY <1>t, <2>1, <2>4 DEF PutNew, Put
    <3> QED  BY <2>h, <2>2, <3>1 DEF DoorFollows
  <2>5. ASSUME wraps["password"] # NoWrap PROVE DoorFollows'
    <3>1. wraps' = wraps
      BY <2>1, <2>5 DEF PutNew
    <3>2. ~At(r, "rewrap")
      BY <2>1 DEF At
    <3>3. \A x \in Requests : At(x, "rewrap") => At(x, "rewrap")'
      BY <2>3, <3>2 DEF At
    <3> QED  BY <2>h, <3>1, <3>3 DEF CalmInv, DoorFollows
  <2>6. DoorFollows'
    BY <2>4, <2>5
  <2>7. LinksAgree'
    BY <2>h DEF CalmInv, LinksAgree
  <2>8. Agrees(req'[r], hash', invite', wraps'["password"])
    BY <2>3, OthersAgree
  <2>9. ASSUME NEW x \in Requests \ {r}
        PROVE  req[x].kind \notin Creating /\ (At(x, "link") => hash' = NoSecret)
    <3>1. req[x].kind \notin Creating
      BY <2>1, CreatesAlone DEF Creating
    <3> QED  BY <2>1, <3>1 DEF CalmInv, RequestsAgree, Agrees, At
  <2> QED  BY <1>t, <2>3, <2>6, <2>7, <2>8, <2>9, CalmLoud
<1> QED  BY <1>1, <1>2, <1>3

\* An account that comes into being, without a vault.
LEMMA CalmNewAccount ==
    ASSUME IInv, Verified, CalmInv, NEW r \in Requests,
           hash = NoUser, hash' # NoUser, UNCHANGED <<invite, wraps>>,
           \A x \in Requests \ {r} : req'[x] = req[x],
           Agrees(req'[r], hash', invite', wraps'["password"])
    PROVE  CalmInv'
<1> USE DistinctConstants
<1>1. wraps["password"] = NoWrap /\ ~invite
  BY DEF CalmInv, LinksAgree
<1>2. ASSUME NEW x \in Requests \ {r}
      PROVE  Agrees(req'[x], hash', invite', wraps'["password"])
  <2>1. KindFits(req[x]) /\ Agrees(req[x], NoUser, invite, wraps["password"])
        /\ (req[x].pc = "openCurrent" => hash \in Secrets)
    BY DEF IInv, RequestsFit, CalmInv, RequestsAgree, Verified
  <2>2. req[x].pc \notin PasswordPcs \/ req[x].pc = "setHash" \/ (req[x].pc = "session" /\ req[x].kind = "sso")
    BY <2>1 DEF KindFits, Agrees, PasswordPcs
  <2> QED  BY <1>1, <2>2 DEF Agrees, PasswordPcs
<1>3. RequestsAgree'
  BY <1>2 DEF RequestsAgree
<1> QED  BY <1>1, <1>3 DEF CalmInv, LinksAgree, DoorFollows

\* The other sign-in steps.
LEMMA CalmSignIn ==
    ASSUME IInv, Verified, CalmInv, NEW r \in Requests,
           \/ CreateUserWithoutPassword(r) \/ SsoSignIn(r) \/ Authenticate(r)
           \/ ConsumeInvite(r) \/ CreateSession(r) \/ EnsureRead(r) \/ EnsureOpen(r)
    PROVE  CalmInv'
<1> USE DistinctConstants
<1>t. /\ TypeOK /\ RequestsFit /\ req \in [Requests -> Request] /\ req[r] \in Request
  BY DEF IInv, TypeOK
<1>a. Agrees(req[r], hash, invite, wraps["password"])
  BY DEF CalmInv, RequestsAgree
<1>1. CASE CreateUserWithoutPassword(r)
  <2> DEFINE q == NewRequest("invite", "link")
  <2>1. q.pc = "link"
    BY DEF NewRequest, Idle
  <2>2. hash = NoUser /\ hash' = NoSecret /\ Begin(r, q) /\ UNCHANGED <<invite, wraps>>
    BY <1>1 DEF CreateUserWithoutPassword
  <2> HIDE DEF q
  <2>3. req'[r] = q /\ \A x \in Requests \ {r} : req'[x] = req[x]
    BY <1>t, <2>2 DEF Begin
  <2>4. Agrees(q, hash', invite', wraps'["password"])
    BY <2>1, <2>2 DEF Agrees
  <2> QED  BY <2>2, <2>3, <2>4, CalmNewAccount
<1>2. CASE SsoSignIn(r)
  <2> DEFINE q == NewRequest("sso", "session")
  <2>1. q.pc = "session" /\ q.kind = "sso"
    BY DEF NewRequest, Idle
  <2>2. /\ Begin(r, q) /\ UNCHANGED <<invite, wraps>>
        /\ (hash = NoUser /\ hash' \in Secrets) \/ (hash # NoUser /\ hash' = hash)
    BY <1>2 DEF SsoSignIn
  <2> HIDE DEF q
  <2>3. req'[r] = q /\ (\A x \in Requests \ {r} : req'[x] = req[x]) /\ At(r, "idle")
    BY <1>t, <2>2 DEF Begin, MayBegin
  <2>4. \A h, i, w : Agrees(q, h, i, w)
    BY <2>1 DEF Agrees
  <2>5. CASE hash = NoUser
    BY <2>2, <2>3, <2>4, <2>5, CalmNewAccount
  <2>6. CASE hash # NoUser
    BY <2>2, <2>3, <2>4, <2>6, CalmQuiet DEF At
  <2> QED  BY <2>5, <2>6
<1>3. CASE Authenticate(r)
  <2>1. PICK p \in Secrets : hash = p /\ UNCHANGED db
           /\ Begin(r, [NewRequest("login", "session") EXCEPT !.secret = p])
    BY <1>3 DEF Authenticate
  <2> DEFINE q == [NewRequest("login", "session") EXCEPT !.secret = p]
  <2>2. q.pc = "session" /\ q.secret = p
    BY DEF NewRequest, Idle
  <2>3. Begin(r, q)
    BY <2>1
  <2> HIDE DEF q
  <2>4. req'[r] = q /\ (\A x \in Requests \ {r} : req'[x] = req[x]) /\ At(r, "idle")
    BY <1>t, <2>3 DEF Begin, MayBegin
  <2>5. Agrees(q, hash, invite', wraps["password"])
    BY <2>1, <2>2 DEF Agrees
  <2> QED  BY <2>1, <2>4, <2>5, CalmQuiet DEF db, At
<1>4. CASE ConsumeInvite(r)
  <2>1. PICK p \in Secrets : invite /\ invite' = FALSE /\ UNCHANGED <<hash, wraps>>
           /\ Begin(r, [NewRequest("accept", "acceptHash") EXCEPT !.secret = p])
    BY <1>4 DEF ConsumeInvite
  <2> DEFINE q == [NewRequest("accept", "acceptHash") EXCEPT !.secret = p]
  <2>2. q.pc = "acceptHash"
    BY DEF NewRequest, Idle
  <2>3. Begin(r, q)
    BY <2>1
  <2> HIDE DEF q
  <2>4. req'[r] = q /\ (\A x \in Requests \ {r} : req'[x] = req[x]) /\ At(r, "idle")
    BY <1>t, <2>3 DEF Begin, MayBegin
  <2>5. hash = NoSecret
    BY <2>1 DEF CalmInv, LinksAgree
  <2>6. Agrees(q, hash, invite', wraps["password"])
    BY <2>1, <2>2, <2>5 DEF Agrees
  <2> QED  BY <2>1, <2>4, <2>6, CalmQuiet DEF At
<1>5. CASE CreateSession(r)
  <2>1. req[r].pc = "session" /\ UNCHANGED <<hash, invite, wraps>>
    BY <1>5 DEF CreateSession, At
  <2>2. CASE req[r].kind = "sso"
    <3>1. req'[r].pc \notin PasswordPcs /\ (\A x \in Requests \ {r} : req'[x] = req[x])
      BY <1>t, <1>5, <2>2 DEF CreateSession, Finish, Idle, PasswordPcs
    <3>2. Agrees(req'[r], hash, invite', wraps["password"])
      BY <3>1, OthersAgree
    <3> QED  BY <2>1, <3>1, <3>2, CalmQuiet DEF At
  <2>3. CASE req[r].kind # "sso"
    <3>1. PICK s \in Sessions : req' = [req EXCEPT ![r].pc = "ensure", ![r].sess = s]
      BY <1>5, <2>3 DEF CreateSession
    <3>2. /\ req'[r].pc = "ensure" /\ req'[r].secret = req[r].secret
          /\ \A x \in Requests \ {r} : req'[x] = req[x]
      BY <1>t, <3>1 DEF Request
    <3>3. Agrees(req'[r], hash, invite', wraps["password"])
      BY <1>a, <2>1, <2>3, <3>2 DEF Agrees
    <3> QED  BY <2>1, <3>2, <3>3, CalmQuiet DEF At
  <2> QED  BY <2>2, <2>3
<1>6. CASE EnsureRead(r)
  <2>1. req[r].pc = "ensure" /\ UNCHANGED <<hash, invite, wraps>> /\ req[r].kind # "sso"
    BY <1>t, <1>6 DEF EnsureRead, At, db, RequestsFit, KindFits
  <2>2. /\ req'[r].pc \in {"ensureOpen", "ensureInsert"} /\ req'[r].secret = req[r].secret
        /\ \A x \in Requests \ {r} : req'[x] = req[x]
    BY <1>t, <1>6 DEF EnsureRead, Goto, Request
  <2>3. Agrees(req'[r], hash, invite', wraps["password"])
    BY <1>a, <2>1, <2>2 DEF Agrees
  <2> QED  BY <2>1, <2>2, <2>3, CalmQuiet DEF At
<1>7. CASE EnsureOpen(r)
  <2>1. req[r].pc = "ensureOpen" /\ UNCHANGED <<hash, invite, wraps>>
    BY <1>7 DEF EnsureOpen, At, db
  <2>2. req'[r].pc \notin PasswordPcs /\ (\A x \in Requests \ {r} : req'[x] = req[x])
    BY <1>t, <1>7 DEF EnsureOpen, AfterEnsure, Finish, Idle, PasswordPcs, Request
  <2>3. Agrees(req'[r], hash, invite', wraps["password"])
    BY <2>2, OthersAgree
  <2> QED  BY <2>1, <2>2, <2>3, CalmQuiet DEF At
<1> QED  BY <1>1, <1>2, <1>3, <1>4, <1>5, <1>6, <1>7

\* What concerns no password: unlock methods other than the login password,
\* sessions and items.
LEMMA CalmMethods ==
    ASSUME IInv, CalmInv, NEW r \in Requests, MethodStep(r) \/ SaveStep(r)
    PROVE  CalmInv'
<1> USE DistinctConstants
<1>t. /\ TypeOK /\ RequestsFit /\ req \in [Requests -> Request] /\ req[r] \in Request
      /\ wraps \in [Doors -> Wraps \cup {NoWrap}] /\ "password" \in Doors
  BY DEF IInv, TypeOK, Doors
<1>q. ASSUME hash' = hash, invite' = invite, wraps'["password"] = wraps["password"],
             ~At(r, "rewrap"), req'[r].pc \notin PasswordPcs,
             \A x \in Requests \ {r} : req'[x] = req[x]
      PROVE  CalmInv'
  <2>1. Agrees(req'[r], hash, invite', wraps["password"])
    BY <1>q, OthersAgree
  <2> QED  BY <1>q, <2>1, CalmQuiet
<1>b. ASSUME NEW q, Begin(r, q), q.pc \notin PasswordPcs, UNCHANGED db
      PROVE  CalmInv'
  <2>1. req'[r] = q /\ (\A x \in Requests \ {r} : req'[x] = req[x]) /\ At(r, "idle")
    BY <1>t, <1>b DEF Begin, MayBegin
  <2> QED  BY <1>b, <1>q, <2>1 DEF db, At
<1>1. CASE BeginSetup(r)
  <2>1. PICK s \in live, d \in Doors \ {"password"}, p \in Secrets :
           Begin(r, [NewRequest("setup", "setup") EXCEPT !.sess = s, !.door = d, !.secret = SecretFor(d, p)])
    BY <1>1 DEF BeginSetup
  <2> DEFINE q == [NewRequest("setup", "setup") EXCEPT !.sess = s, !.door = d, !.secret = SecretFor(d, p)]
  <2>2. Begin(r, q) /\ UNCHANGED db
    BY <1>1, <2>1 DEF BeginSetup
  <2>3. q.pc \notin PasswordPcs
    BY DEF NewRequest, Idle, PasswordPcs
  <2> HIDE DEF q
  <2> QED  BY <1>b, <2>2, <2>3
<1>2. CASE BeginUnlock(r)
  <2>1. PICK s \in live, p \in Secrets \cup Passkeys :
           Begin(r, [NewRequest("unlock", "open") EXCEPT !.sess = s, !.secret = p])
    BY <1>2 DEF BeginUnlock
  <2> DEFINE q == [NewRequest("unlock", "open") EXCEPT !.sess = s, !.secret = p]
  <2>2. Begin(r, q) /\ UNCHANGED db
    BY <1>2, <2>1 DEF BeginUnlock
  <2>3. q.pc \notin PasswordPcs
    BY DEF NewRequest, Idle, PasswordPcs
  <2> HIDE DEF q
  <2> QED  BY <1>b, <2>2, <2>3
<1>3. CASE BeginAdd(r)
  <2>1. PICK s \in live, d \in Doors \ {"password"}, p \in Secrets :
           Begin(r, SignedIn(s, [NewRequest("add", "add") EXCEPT !.door = d, !.secret = SecretFor(d, p)]))
    BY <1>3 DEF BeginAdd
  <2> DEFINE q == SignedIn(s, [NewRequest("add", "add") EXCEPT !.door = d, !.secret = SecretFor(d, p)])
  <2>2. Begin(r, q) /\ UNCHANGED db
    BY <1>3, <2>1 DEF BeginAdd
  <2>3. q.pc \notin PasswordPcs
    BY DEF NewRequest, Idle, SignedIn, PasswordPcs
  <2> HIDE DEF q
  <2> QED  BY <1>b, <2>2, <2>3
<1>4. CASE BeginRemove(r)
  <2>1. PICK s \in live, d \in Doors \ {"password"} :
           Begin(r, SignedIn(s, [NewRequest("remove", "count") EXCEPT !.door = d]))
    BY <1>4 DEF BeginRemove
  <2> DEFINE q == SignedIn(s, [NewRequest("remove", "count") EXCEPT !.door = d])
  <2>2. Begin(r, q) /\ UNCHANGED db
    BY <1>4, <2>1 DEF BeginRemove
  <2>3. q.pc \notin PasswordPcs
    BY DEF NewRequest, Idle, SignedIn, PasswordPcs
  <2> HIDE DEF q
  <2> QED  BY <1>b, <2>2, <2>3
<1>5. CASE BeginSave(r)
  <2>1. PICK s \in live, i \in Items :
           Begin(r, [NewRequest("save", "seal") EXCEPT !.sess = s, !.item = i])
    BY <1>5 DEF BeginSave
  <2> DEFINE q == [NewRequest("save", "seal") EXCEPT !.sess = s, !.item = i]
  <2>2. Begin(r, q) /\ UNCHANGED db
    BY <1>5, <2>1 DEF BeginSave
  <2>3. q.pc \notin PasswordPcs
    BY DEF NewRequest, Idle, PasswordPcs
  <2> HIDE DEF q
  <2> QED  BY <1>b, <2>2, <2>3
<1>6. CASE SetupRead(r) \/ UnlockOpen(r) \/ CountMethods(r) \/ ReadPublicKey(r)
  <2>1. UNCHANGED db /\ ~At(r, "rewrap")
    BY <1>6 DEF SetupRead, UnlockOpen, CountMethods, ReadPublicKey, At
  <2>2. req'[r].pc \notin PasswordPcs /\ (\A x \in Requests \ {r} : req'[x] = req[x])
    BY <1>t, <1>6 DEF SetupRead, UnlockOpen, CountMethods, ReadPublicKey, Goto, Finish, Idle,
       PasswordPcs, Request
  <2> QED  BY <1>q, <2>1, <2>2 DEF db
<1>7. CASE SetupInsert(r)
  <2>1. /\ req[r].pc = "setupInsert" /\ req[r].door # "password" /\ UNCHANGED <<hash, invite>>
        /\ Goto(r, "attach")
        /\ \/ wraps' = Put(req[r].door, req[r].priv, req[r].secret)
           \/ wraps' = PutNew(req[r].door, req[r].priv, req[r].secret)
    BY <1>t, <1>7 DEF SetupInsert, At, RequestsFit, KindFits
  <2>2. wraps'["password"] = wraps["password"]
    BY <1>t, <2>1 DEF Put, PutNew
  <2>3. req'[r].pc \notin PasswordPcs /\ (\A x \in Requests \ {r} : req'[x] = req[x])
    BY <1>t, <2>1 DEF Goto, PasswordPcs, Request
  <2> QED  BY <1>q, <2>1, <2>2, <2>3 DEF At
<1>8. CASE Attach(r) \/ AddMethod(r) \/ DeleteMethod(r) \/ StoreItem(r)
  <2>1. Finish(r) /\ UNCHANGED <<hash, invite>> /\ ~At(r, "rewrap")
    BY <1>8 DEF Attach, AddMethod, DeleteMethod, StoreItem, At
  <2>2. req'[r].pc \notin PasswordPcs /\ (\A x \in Requests \ {r} : req'[x] = req[x])
    BY <1>t, <2>1 DEF Finish, Idle, PasswordPcs
  <2>3. wraps'["password"] = wraps["password"]
    <3>1. CASE Attach(r) \/ StoreItem(r)
      BY <3>1 DEF Attach, StoreItem
    <3>2. CASE AddMethod(r)
      <4>1. req[r].door # "password"
        BY <1>t, <3>2 DEF AddMethod, At, RequestsFit, KindFits
      <4> QED  BY <1>t, <3>2, <4>1 DEF AddMethod, Put
    <3>3. CASE DeleteMethod(r)
      <4>1. req[r].door # "password"
        BY <1>t, <3>3 DEF DeleteMethod, At, RequestsFit, KindFits
      <4> QED  BY <1>t, <3>3, <4>1 DEF DeleteMethod
    <3> QED  BY <1>8, <3>1, <3>2, <3>3
  <2> QED  BY <1>q, <2>1, <2>2, <2>3
<1> QED
  BY <1>1, <1>2, <1>3, <1>4, <1>5, <1>6, <1>7, <1>8 DEF MethodStep, SaveStep

\* A change of the password, and what an administrator does.
LEMMA CalmAccount ==
    ASSUME IInv, Verified, CalmInv, OneLinkAtATime, OneLinkAtATime', NEW r \in Requests,
           AccountStep(r)
    PROVE  CalmInv'
<1> USE DistinctConstants
<1>t. /\ TypeOK /\ RequestsFit /\ req \in [Requests -> Request] /\ req[r] \in Request
      /\ wraps \in [Doors -> Wraps \cup {NoWrap}] /\ "password" \in Doors
  BY DEF IInv, TypeOK, Doors
<1>a. Agrees(req[r], hash, invite, wraps["password"])
  BY DEF CalmInv, RequestsAgree
<1>b. ASSUME NEW q, Begin(r, q), q.pc \notin PasswordPcs, UNCHANGED db
      PROVE  CalmInv'
  <2>1. req'[r] = q /\ (\A x \in Requests \ {r} : req'[x] = req[x]) /\ At(r, "idle")
    BY <1>t, <1>b DEF Begin, MayBegin
  <2>2. Agrees(q, hash, invite', wraps["password"])
    BY <1>b, OthersAgree
  <2> QED  BY <1>b, <2>1, <2>2, CalmQuiet DEF db, At
<1>o. ASSUME req[r].kind = "change", NEW x \in Requests \ {r}
      PROVE  req[x].kind \notin Creating
  BY <1>o, CreatesAlone DEF Creating
<1>1. CASE BeginChange(r)
  <2>1. PICK s \in live, old \in Secrets, p \in Secrets :
           Begin(r, SignedIn(s, [NewRequest("change", "verify") EXCEPT !.secret = old, !.new = p]))
    BY <1>1 DEF BeginChange
  <2> DEFINE q == SignedIn(s, [NewRequest("change", "verify") EXCEPT !.secret = old, !.new = p])
  <2>2. Begin(r, q) /\ UNCHANGED db
    BY <1>1, <2>1 DEF BeginChange
  <2>3. q.pc \notin PasswordPcs
    BY DEF NewRequest, Idle, SignedIn, PasswordPcs
  <2> HIDE DEF q
  <2> QED  BY <1>b, <2>2, <2>3
<1>2. CASE BeginReset(r)
  <2> DEFINE q == NewRequest("reset", "destroy")
  <2>1. Begin(r, q) /\ UNCHANGED db
    BY <1>2 DEF BeginReset
  <2>2. q.pc \notin PasswordPcs
    BY DEF NewRequest, Idle, PasswordPcs
  <2> HIDE DEF q
  <2> QED  BY <1>b, <2>1, <2>2
<1>3. CASE Reinvite(r)
  <2> DEFINE q == NewRequest("reinvite", "link")
  <2>1. Begin(r, q) /\ hash # NoUser /\ UNCHANGED db
    BY <1>3 DEF Reinvite
  <2>2. q.kind = "reinvite"
    BY DEF NewRequest, Idle
  <2> HIDE DEF q
  <2>3. req'[r] = q
    BY <1>t, <2>1 DEF Begin
  <2> QED  BY <2>2, <2>3 DEF OneLinkAtATime
<1>4. CASE VerifyPassword(r)
  <2>1. req[r].pc = "verify" /\ UNCHANGED db
    BY <1>4 DEF VerifyPassword, At
  <2>2. CASE hash # req[r].secret
    <3>1. req'[r].pc \notin PasswordPcs /\ (\A x \in Requests \ {r} : req'[x] = req[x])
      BY <1>t, <1>4, <2>2 DEF VerifyPassword, Finish, Idle, PasswordPcs
    <3>2. Agrees(req'[r], hash, invite', wraps["password"])
      BY <3>1, OthersAgree
    <3> QED  BY <2>1, <3>1, <3>2, CalmQuiet DEF db, At
  <2>3. CASE hash = req[r].secret
    <3>1. Goto(r, IF req[r].priv = NoKey THEN "openCurrent" ELSE "setHash")
      BY <1>4, <2>3 DEF VerifyPassword
    <3>2. /\ req'[r].pc = (IF req[r].priv = NoKey THEN "openCurrent" ELSE "setHash")
          /\ req'[r].secret = req[r].secret /\ req'[r].priv = req[r].priv
          /\ \A x \in Requests \ {r} : req'[x] = req[x]
      BY <1>t, <3>1 DEF Goto, Request
    <3>3. Agrees(req'[r], hash, invite', wraps["password"])
      BY <2>3, <3>2 DEF Agrees
    <3> QED  BY <2>1, <3>2, <3>3, CalmQuiet DEF db, At
  <2> QED  BY <2>2, <2>3
<1>5. CASE OpenCurrent(r)
  <2>1. req[r].pc = "openCurrent" /\ req[r].kind = "change" /\ UNCHANGED db
        /\ req' = [req EXCEPT ![r].pc = "setHash", ![r].priv = OpenedByPassword(req[r].secret)]
    BY <1>t, <1>5 DEF OpenCurrent, At, RequestsFit, KindFits
  <2>2. /\ req'[r].pc = "setHash" /\ req'[r].priv = OpenedByPassword(req[r].secret)
        /\ \A x \in Requests \ {r} : req'[x] = req[x]
    BY <1>t, <2>1 DEF Request
  <2>3. hash = req[r].secret
    BY <1>a, <2>1 DEF Agrees
  <2>4. \A x \in Requests : ~At(x, "rewrap")
    BY <1>t, <1>o, <2>1 DEF At, RequestsFit, KindFits, Creating
  <2>5. ASSUME wraps["password"] # NoWrap
        PROVE  OpenedByPassword(req[r].secret) # NoKey
    <3>1. wraps["password"].secret = req[r].secret /\ wraps["password"].key \in Keys
      BY <1>t, <2>3, <2>4, <2>5 DEF CalmInv, DoorFollows, Wraps
    <3> QED  BY <2>5, <3>1 DEF OpenedByPassword
  <2>6. Agrees(req'[r], hash, invite', wraps["password"])
    BY <2>2, <2>5 DEF Agrees
  <2> QED  BY <2>1, <2>2, <2>4, <2>6, CalmQuiet DEF db
<1>6. CASE SetPasswordHash(r)
  <2>1. /\ req[r].pc = "setHash" /\ req[r].kind = "change" /\ req[r].new \in Secrets
        /\ hash' = req[r].new /\ UNCHANGED <<invite, wraps>>
        /\ req' = [req EXCEPT ![r].secret = req[r].new,
                              ![r].pc = IF req[r].priv # NoKey THEN "rewrap" ELSE "ensure"]
    BY <1>t, <1>6 DEF SetPasswordHash, At, RequestsFit, KindFits
  <2>2. /\ req'[r].pc = (IF req[r].priv # NoKey THEN "rewrap" ELSE "ensure")
        /\ req'[r].secret = req[r].new /\ req'[r].new = req[r].new
        /\ \A x \in Requests \ {r} : req'[x] = req[x]
    BY <1>t, <2>1 DEF Request
  <2>3. hash \in Secrets
    BY <2>1 DEF Verified
  <2>4. Agrees(req'[r], hash', invite', wraps'["password"])
    BY <2>1, <2>2 DEF Agrees
  <2>5. LinksAgree'
    BY <2>1, <2>3 DEF CalmInv, LinksAgree
  <2>6. DoorFollows'
    BY <1>a, <2>1, <2>2 DEF DoorFollows, At, Agrees
  <2>7. \A x \in Requests \ {r} : ~At(x, "link")
    BY <2>3 DEF CalmInv, RequestsAgree, Agrees, At
  <2> QED  BY <1>t, <1>o, <2>1, <2>2, <2>4, <2>5, <2>6, <2>7, CalmLoud
<1>7. CASE Rewrap(r)
  <2>1. /\ req[r].pc = "rewrap" /\ req[r].kind = "change" /\ req[r].new \in Secrets
        /\ wraps' = Put("password", req[r].priv, req[r].new) /\ UNCHANGED <<hash, invite>>
        /\ req' = [req EXCEPT ![r].pc = "endOthers", ![r].priv = NoKey]
    BY <1>t, <1>7 DEF Rewrap, At, RequestsFit, KindFits
  <2>2. req'[r].pc \notin PasswordPcs /\ (\A x \in Requests \ {r} : req'[x] = req[x])
    BY <1>t, <2>1 DEF PasswordPcs, Request
  <2>3. hash = req[r].new /\ hash \in Secrets
    BY <1>a, <2>1 DEF Agrees
  <2>4. wraps'["password"] = [key |-> req[r].priv, secret |-> req[r].new]
    BY <1>t, <2>1 DEF Put
  <2>5. Agrees(req'[r], hash', invite', wraps'["password"])
    BY <2>2, OthersAgree
  <2>6. DoorFollows'
    BY <2>1, <2>3, <2>4 DEF DoorFollows
  <2>7. LinksAgree'
    BY <2>1, <2>3 DEF CalmInv, LinksAgree
  <2>8. \A x \in Requests \ {r} : ~At(x, "link")
    BY <2>3 DEF CalmInv, RequestsAgree, Agrees, At
  <2> QED  BY <1>t, <1>o, <2>1, <2>2, <2>5, <2>6, <2>7, <2>8, CalmLoud
<1>8. CASE EndOtherSessions(r)
  <2>1. Finish(r) /\ UNCHANGED <<hash, invite, wraps>> /\ ~At(r, "rewrap")
    BY <1>8 DEF EndOtherSessions, At
  <2>2. req'[r].pc \notin PasswordPcs /\ (\A x \in Requests \ {r} : req'[x] = req[x])
    BY <1>t, <2>1 DEF Finish, Idle, PasswordPcs
  <2>3. Agrees(req'[r], hash, invite', wraps["password"])
    BY <2>2, OthersAgree
  <2> QED  BY <2>1, <2>2, <2>3, CalmQuiet
<1>9. CASE DestroyVault(r)
  <2>1. /\ req[r].pc = "destroy" /\ req[r].kind = "reset" /\ hash' = NoSecret
        /\ wraps' = [d \in Doors |-> NoWrap] /\ Goto(r, "link") /\ UNCHANGED invite
    BY <1>t, <1>9 DEF DestroyVault, At, RequestsFit, KindFits
  <2>2. req'[r].pc = "link" /\ (\A x \in Requests \ {r} : req'[x] = req[x])
    BY <1>t, <2>1 DEF Goto, Request
  <2>3. wraps'["password"] = NoWrap
    BY <1>t, <2>1
  <2>4. Agrees(req'[r], hash', invite', wraps'["password"])
    BY <2>1, <2>2 DEF Agrees
  <2>5. LinksAgree' /\ DoorFollows'
    BY <2>1, <2>3 DEF LinksAgree, DoorFollows
  <2>6. ASSUME NEW x \in Requests \ {r}
        PROVE  req[x].kind \notin Creating
    <3>1. req[x].kind = "none" \/ CalmPair(req[r].kind, req[x].kind)
      BY <2>1 DEF OneLinkAtATime
    <3> QED  BY <2>1, <3>1 DEF CalmPair, SafePair, Creating, Destroying
  <2> QED  BY <1>t, <2>1, <2>2, <2>4, <2>5, <2>6, CalmLoud
<1>10. CASE CreateInvite(r)
  <2>1. /\ req[r].pc = "link" /\ req[r].kind \in Linking /\ invite' = TRUE
        /\ Finish(r) /\ UNCHANGED <<hash, wraps>>
    BY <1>t, <1>10 DEF CreateInvite, At, RequestsFit, KindFits, OneLinkAtATime, Linking
  <2>2. req'[r].pc \notin PasswordPcs /\ (\A x \in Requests \ {r} : req'[x] = req[x])
    BY <1>t, <2>1 DEF Finish, Idle, PasswordPcs
  <2>3. hash = NoSecret
    BY <1>a, <2>1 DEF Agrees
  <2>4. ASSUME NEW x \in Requests
        PROVE  Agrees(req'[x], hash', invite', wraps'["password"])
    <3>1. CASE x = r
      BY <2>2, <3>1, OthersAgree
    <3>2. CASE x # r
      <4>1. req[x].kind # "accept"
        BY <2>1, <3>2 DEF OneLinkAtATime, CalmPair, Linking
      <4>2. req[x].pc # "acceptHash" /\ req'[x] = req[x]
        BY <1>t, <2>2, <3>2, <4>1 DEF RequestsFit, KindFits
      <4> QED  BY <2>1, <4>2 DEF CalmInv, RequestsAgree, Agrees
    <3> QED  BY <3>1, <3>2
  <2>5. LinksAgree'
    BY <2>1, <2>3 DEF CalmInv, LinksAgree
  <2>6. DoorFollows'
    <3>1. \A x \in Requests : At(x, "rewrap") => At(x, "rewrap")'
      BY <2>1, <2>2 DEF At
    <3> QED  BY <2>1, <3>1 DEF CalmInv, DoorFollows
  <2> QED  BY <2>4, <2>5, <2>6 DEF CalmInv, RequestsAgree
<1> QED
  BY <1>1, <1>2, <1>3, <1>4, <1>5, <1>6, <1>7, <1>8, <1>9, <1>10 DEF AccountStep

LEMMA CalmNext ==
    ASSUME IInv, IInv', Verified, CalmInv, OneLinkAtATime, OneLinkAtATime',
           Step \/ UNCHANGED vars
    PROVE  CalmInv'
<1>1. ASSUME NEW r \in Requests,
             SignInStep(r) \/ MethodStep(r) \/ AccountStep(r) \/ SaveStep(r)
      PROVE  CalmInv'
  BY <1>1, CalmSignInWrites, CalmSignIn, CalmMethods, CalmAccount DEF SignInStep
<1>2. ASSUME \/ \E s \in Sessions : LockVault(s) \/ EndSession(s)
             \/ \E i \in Items : DeleteItem(i)
             \/ ExpireInvite
             \/ UNCHANGED vars
      PROVE  CalmInv'
  <2>1. UNCHANGED <<hash, wraps, req>> /\ (invite' => invite)
    BY <1>2 DEF LockVault, EndSession, DeleteItem, ExpireInvite, vars
  <2>2. RequestsAgree'
    BY <2>1 DEF CalmInv, RequestsAgree, Agrees
  <2> QED
    BY <2>1, <2>2 DEF CalmInv, LinksAgree, DoorFollows, At
<1> QED  BY <1>1, <1>2 DEF Next, Step

\* As long as requests overlap only in safe pairs: unless one has stopped half way
\* or a second link has been in use, the login password opens its door whenever no
\* request is in flight.
THEOREM LoginOpensTheVault ==
    ASSUME Overlap \subseteq SafeOverlap
    PROVE  Spec => []LoginPasswordOpensTheVault
<1> DEFINE Inv == IInv /\ Verified /\ (calm => OneLinkAtATime /\ CalmInv)
<1>1. Init => Inv
  <2> SUFFICES ASSUME Init PROVE Inv
    OBVIOUS
  <2>1. \A r \in Requests : req[r].pc = "idle" /\ req[r].kind = "none"
    BY DEF Init, Idle
  <2>2. IInv /\ Verified /\ OneLinkAtATime
    BY <2>1, IInvInit DEF Verified, OneLinkAtATime, At
  <2>3. wraps["password"] = NoWrap
    BY DEF Init, Doors
  <2>4. CalmInv
    BY <2>1, <2>3 DEF Init, CalmInv, RequestsAgree, Agrees, LinksAgree, DoorFollows
  <2> QED  BY <2>2, <2>4
<1>2. Inv /\ [Next]_vars => Inv'
  <2> SUFFICES ASSUME Inv, [Next]_vars PROVE Inv'
    OBVIOUS
  <2>1. IInv' /\ Verified'
    BY IInvNext, VerifiedNext
  <2>2. ASSUME calm' PROVE OneLinkAtATime' /\ CalmInv'
    <3>1. CASE Step /\ calm' = (calm /\ OneLinkAtATime')
      BY <2>1, <2>2, <3>1, CalmNext
    <3>2. CASE UNCHANGED vars
      <4>1. OneLinkAtATime'
        BY <2>2, <3>2 DEF vars, OneLinkAtATime, At
      <4> QED  BY <2>1, <2>2, <3>2, <4>1, CalmNext DEF vars
    <3> QED  BY <2>2, <3>1, <3>2 DEF Next
  <2> QED  BY <2>1, <2>2
<1>3. Inv => LoginPasswordOpensTheVault
  BY DEF CalmInv, DoorFollows, LoginPasswordOpensTheVault, At
<1> QED  BY <1>1, <1>2, <1>3, PTL DEF Spec
=============================================================================
