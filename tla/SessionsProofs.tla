--------------------------- MODULE SessionsProofs ---------------------------
(***************************************************************************)
(* Theorems about Sessions for any accounts, tokens, installations and     *)
(* requests: the types, and the three safety properties.                   *)
(*                                                                         *)
(* All hold however requests, sign-outs, blocks and resets overlap.  A     *)
(* connect token is in one place at a time (OnePlace); the other two       *)
(* follow what rows and requests carry from statement to statement.        *)
(***************************************************************************)
EXTENDS Sessions, TLAPS

(***************************************************************************)
(* Types                                                                   *)
(***************************************************************************)

\* What a program counter says of a request.
LEMMA RequestParts ==
    ASSUME TypeOK, NEW r \in Requests
    PROVE  /\ ~At(r, "idle") => req[r].user \in Users
           /\ At(r, "session") => req[r].kind \in {"login", "sso"}
           /\ At(r, "token") => req[r].kind = "connect" /\ req[r].key \in VaultKeys
           /\ At(r, "extension") =>
                /\ req[r].kind = "exchange" /\ req[r].key \in VaultKeys
                /\ req[r].from \in Connects /\ req[r].inst \in Installations
           /\ At(r, "sessions") => /\ req[r].kind = "revoke" /\ req[r].found \subseteq Tokens
                                   /\ req[r].keep \in Tokens \cup {NoToken}
           /\ At(r, "tokens") => /\ req[r].kind = "revoke"
                                 /\ req[r].doomed \subseteq Tokens
                                 /\ req[r].found \subseteq Tokens
           /\ PastItsCheck(r) => req[r] \in Issuing
           /\ Carries(r) => req[r] \in Issuing
           /\ ~At(r, "idle") /\ req[r].kind = "exchange" =>
                req[r].from \in Connects /\ req[r].key \in VaultKeys
           /\ ~At(r, "idle") /\ req[r].kind = "connect" => req[r].key \in VaultKeys
  <1>1. req[r] \in Request
    BY DEF TypeOK
  <1> QED
    BY <1>1 DEF Request, Issuing, Revoking, Idle, At, PastItsCheck, Carries

\* A request that has passed the check goes on with what it carries.
LEMMA CheckedTypes ==
    ASSUME TypeOK, NEW r \in Requests, At(r, "check"), Goto(r, AfterCheck(req[r]))
    PROVE  req' \in [Requests -> Request]
  <1>1. req[r] \in Request /\ req[r].pc = "check"
    BY DEF TypeOK, At
  <1>2. [req[r] EXCEPT !.pc = AfterCheck(req[r])] \in Request
    <2>1. CASE req[r] \in [pc : {"check", "session"}, kind : {"login"}, user : Users,
                           crossed : Crossings]
      BY <2>1 DEF AfterCheck, Request, Issuing
    <2>2. CASE req[r] \in [pc : {"check", "upsert", "session"}, kind : {"sso"}, user : Users,
                           crossed : Crossings]
      BY <2>2 DEF AfterCheck, Request, Issuing
    <2>3. CASE req[r] \in [pc : {"check", "token"}, kind : {"connect"}, user : Users,
                           key : VaultKeys, crossed : Crossings]
      BY <2>3 DEF AfterCheck, Request, Issuing
    <2>4. CASE req[r] \in [pc : {"check", "extension"}, kind : {"exchange"}, user : Users,
                           key : VaultKeys, from : Connects, inst : Installations,
                           crossed : Crossings]
      BY <2>4 DEF AfterCheck, Request, Issuing
    <2> QED
      BY <1>1, <2>1, <2>2, <2>3, <2>4 DEF Request, Issuing, Revoking, Idle
  <1> QED
    BY <1>2 DEF Goto, TypeOK

\* What being overtaken leaves of a request: everything else.
LEMMA OvertakeKeeps ==
    ASSUME TypeOK, NEW R \in SUBSET Requests, \A r \in R : req[r] \in Issuing,
           NEW u \in Users, NEW what \in {"block", "reset"}, Overtake(R, u, what),
           NEW r \in Requests
    PROVE  /\ req'[r] \in Request
           /\ req'[r] = req[r] \/ (req[r] \in Issuing /\ req'[r] \in Issuing)
           /\ req'[r].pc = req[r].pc
           /\ req[r] \in Issuing =>
                /\ req'[r].user = req[r].user /\ req'[r].kind = req[r].kind
                /\ req[r].crossed \subseteq req'[r].crossed
                /\ r \in R /\ req[r].user = u => what \in req'[r].crossed
                /\ req[r].kind \in {"connect", "exchange"} => req'[r].key = req[r].key
                /\ req[r].kind = "exchange" => req'[r].from = req[r].from
  <1>1. req[r] \in Request
    BY DEF TypeOK
  <1>2. CASE ~(r \in R /\ req[r].user = u)
    BY <1>1, <1>2 DEF Overtake
  <1>3. CASE r \in R /\ req[r].user = u
    <2>1. req'[r] = [req[r] EXCEPT !.crossed = @ \cup {what}]
      BY <1>3 DEF Overtake
    <2>2. req[r] \in Issuing
      BY <1>3
    <2> QED
      BY <2>1, <2>2 DEF Issuing, Request, Crossings
  <1> QED
    BY <1>2, <1>3

\* Whom a block and a reset overtake.
LEMMA Overtaken ==
    ASSUME TypeOK
    PROVE  /\ \A r \in {q \in Requests : PastItsCheck(q)} : req[r] \in Issuing
           /\ \A r \in {q \in Requests : Carries(q)} : req[r] \in Issuing
  BY RequestParts

LEMMA AdminKeeps ==
    ASSUME TypeOK, NEW u \in Users, AdminStep(u), NEW r \in Requests
    PROVE  /\ req'[r] \in Request
           /\ req'[r] = req[r] \/ (req[r] \in Issuing /\ req'[r] \in Issuing)
           /\ req'[r].pc = req[r].pc
           /\ req[r] \in Issuing =>
                /\ req'[r].user = req[r].user /\ req'[r].kind = req[r].kind
                /\ req[r].crossed \subseteq req'[r].crossed
                /\ Block(u) /\ PastItsCheck(r) /\ req[r].user = u => "block" \in req'[r].crossed
                /\ ResetPassword(u) /\ Carries(r) /\ req[r].user = u => "reset" \in req'[r].crossed
                /\ req[r].kind \in {"connect", "exchange"} => req'[r].key = req[r].key
                /\ req[r].kind = "exchange" => req'[r].from = req[r].from
  <1>0. req[r] \in Request
    BY DEF TypeOK
  <1> DEFINE P == {q \in Requests : PastItsCheck(q)}
             C == {q \in Requests : Carries(q)}
  <1>1. CASE Block(u)
    <2>1. Overtake(P, u, "block") /\ P \in SUBSET Requests /\ ~ResetPassword(u)
      BY <1>1 DEF Block, ResetPassword, TypeOK
    <2>2. (\A q \in P : req[q] \in Issuing) /\ (PastItsCheck(r) => r \in P)
      BY Overtaken
    <2> HIDE DEF P
    <2>3. /\ req'[r] \in Request
          /\ req'[r] = req[r] \/ (req[r] \in Issuing /\ req'[r] \in Issuing)
          /\ req'[r].pc = req[r].pc
          /\ req[r] \in Issuing =>
               /\ req'[r].user = req[r].user /\ req'[r].kind = req[r].kind
               /\ req[r].crossed \subseteq req'[r].crossed
               /\ r \in P /\ req[r].user = u => "block" \in req'[r].crossed
               /\ req[r].kind \in {"connect", "exchange"} => req'[r].key = req[r].key
               /\ req[r].kind = "exchange" => req'[r].from = req[r].from
      BY <2>1, <2>2, OvertakeKeeps
    <2> QED
      BY <2>1, <2>2, <2>3
  <1>2. CASE ResetPassword(u)
    <2>1. Overtake(C, u, "reset") /\ C \in SUBSET Requests /\ ~Block(u)
      BY <1>2 DEF Block, ResetPassword, TypeOK
    <2>2. (\A q \in C : req[q] \in Issuing) /\ (Carries(r) => r \in C)
      BY Overtaken
    <2> HIDE DEF C
    <2>3. /\ req'[r] \in Request
          /\ req'[r] = req[r] \/ (req[r] \in Issuing /\ req'[r] \in Issuing)
          /\ req'[r].pc = req[r].pc
          /\ req[r] \in Issuing =>
               /\ req'[r].user = req[r].user /\ req'[r].kind = req[r].kind
               /\ req[r].crossed \subseteq req'[r].crossed
               /\ r \in C /\ req[r].user = u => "reset" \in req'[r].crossed
               /\ req[r].kind \in {"connect", "exchange"} => req'[r].key = req[r].key
               /\ req[r].kind = "exchange" => req'[r].from = req[r].from
      BY <2>1, <2>2, OvertakeKeeps
    <2> QED
      BY <2>1, <2>2, <2>3
  <1>3. CASE Unblock(u) \/ DeleteUser(u)
    <2>1. UNCHANGED req
      BY <1>3 DEF Unblock, DeleteUser
    <2>2. ~Block(u) /\ ~ResetPassword(u)
      BY <1>3, BoundAssumption DEF Block, Unblock, ResetPassword, DeleteUser, TypeOK
    <2> QED
      BY <1>0, <2>1, <2>2
  <1> QED
    BY <1>1, <1>2, <1>3 DEF AdminStep

LEMMA DropTypes ==
    ASSUME TypeOK
    PROVE  /\ \A T : DropSessions(T) \in [Tokens -> Session \cup {NoRow}]
           /\ \A C : DropConnects(C) \in [Connects -> Connect \cup {NoRow}]
  BY DEF TypeOK, DropSessions, DropConnects

LEMMA TypeInit == Init => TypeOK
  BY BoundAssumption DEF Init, TypeOK, Request

LEMMA TypeRequest ==
    ASSUME TypeOK, NEW r \in Requests, RequestStep(r)
    PROVE  TypeOK'
  <1> USE BoundAssumption, RequestParts
  <1>1. ASSUME NEW u \in Users, Login(r, u) \/ SsoSignIn(r, u) \/ RevokeAllSessions(r, u)
        PROVE  TypeOK'
    BY <1>1 DEF Login, SsoSignIn, RevokeAllSessions, Begin, tables, TypeOK, Request, Issuing,
                Revoking, Crossings, Rows
  <1>2. ASSUME NEW t \in Tokens, IssueConnectToken(r, t) \/ RevokeOtherSessions(r, t)
        PROVE  TypeOK'
    <2>1. sess[t] \in Session
      BY <1>2 DEF IssueConnectToken, RevokeOtherSessions, Resolves, TypeOK
    <2> QED
      BY <1>2, <2>1 DEF IssueConnectToken, RevokeOtherSessions, Begin, tables, TypeOK,
                        Session, Request, Issuing, Revoking, Crossings, Rows
  <1>3. ASSUME NEW c \in Connects, NEW i \in Installations, ExchangeConnectToken(r, c, i)
        PROVE  TypeOK'
    <2>1. connect[c] \in Connect
      BY <1>3 DEF ExchangeConnectToken, TypeOK
    <2>2. req' \in [Requests -> Request]
      BY <1>3, <2>1 DEF ExchangeConnectToken, Begin, TypeOK, Connect, Request, Issuing,
                               Crossings
    <2> QED
      BY <1>3, <2>2, DropTypes DEF ExchangeConnectToken, TypeOK
  <1>4. CASE CheckBlocked(r)
    <2>1. req' \in [Requests -> Request]
      BY <1>4, CheckedTypes DEF CheckBlocked, Finish, TypeOK, Request
    <2> QED
      BY <1>4, <2>1 DEF CheckBlocked, tables, TypeOK
  <1>5. CASE UpsertExternalUser(r)
    <2>1. req[r] \in [pc : {"check", "upsert", "session"}, kind : {"sso"}, user : Users,
                      crossed : Crossings]
      BY <1>5 DEF UpsertExternalUser, At, TypeOK, Request, Issuing, Revoking, Idle
    <2>2. req' \in [Requests -> Request]
      BY <1>5, <2>1 DEF UpsertExternalUser, Goto, TypeOK, Request, Issuing
    <2> QED
      BY <1>5, <2>2 DEF UpsertExternalUser, TypeOK
  <1>6. CASE CreateSession(r)
    <2>1. req[r].user \in Users /\ req[r].crossed \in Crossings
      BY <1>6 DEF CreateSession, At, TypeOK, Request, Issuing, Revoking, Idle
    <2>2. sess' \in [Tokens -> Session \cup {NoRow}] /\ revoked' \subseteq Tokens \cup Connects
      BY <1>6, <2>1 DEF CreateSession, TypeOK, Session, Ages, NoKey, VaultKeys
    <2> QED
      BY <1>6, <2>2 DEF CreateSession, Finish, TypeOK, Request
  <1>7. CASE CreateConnectToken(r)
    <2>1. req[r].user \in Users /\ req[r].key \in VaultKeys /\ req[r].crossed \in Crossings
      BY <1>7 DEF CreateConnectToken, At, TypeOK, Request, Issuing, Revoking, Idle
    <2>2. connect' \in [Connects -> Connect \cup {NoRow}]
      BY <1>7, <2>1 DEF CreateConnectToken, TypeOK, Connect, Ages
    <2>3. revoked' \subseteq Tokens \cup Connects
      BY <1>7 DEF CreateConnectToken, TypeOK
    <2> QED
      BY <1>7, <2>2, <2>3 DEF CreateConnectToken, Finish, TypeOK, Request
  <1>8. CASE UpsertExtensionSession(r)
    <2>1. sess' \in [Tokens -> Session \cup {NoRow}]
      <3> DEFINE q == req[r]
                 row == [user |-> q.user, inst |-> q.inst, from |-> q.from,
                         key |-> q.key, age |-> "live", crossed |-> q.crossed]
                 before == {t \in Tokens : sess[t] # NoRow /\ sess[t].inst = q.inst}
      <3>1. row \in Session
        <4>1. req[r].user \in Users /\ req[r].crossed \in Crossings
          BY <1>8 DEF UpsertExtensionSession, At, TypeOK, Request, Issuing, Revoking, Idle
        <4> QED
          BY <1>8, <4>1 DEF UpsertExtensionSession, Session, Ages, At
      <3>2. \/ UNCHANGED sess
            \/ \E t \in Tokens : sess' = [DropSessions(before) EXCEPT ![t] = row]
        BY <1>8 DEF UpsertExtensionSession
      <3>3. DropSessions(before) \in [Tokens -> Session \cup {NoRow}]
        BY DropTypes
      <3> HIDE DEF q, row, before
      <3> QED
        BY <3>1, <3>2, <3>3 DEF TypeOK
    <2>2. revoked' \subseteq Tokens \cup Connects
      BY <1>8 DEF UpsertExtensionSession, TypeOK
    <2> QED
      BY <1>8, <2>1, <2>2 DEF UpsertExtensionSession, Finish, TypeOK, Request
  <1>9. CASE DeleteSessions(r)
    <2>1. req' \in [Requests -> Request]
      BY <1>9 DEF DeleteSessions, Rows, At, TypeOK, Request, Revoking
    <2> QED
      BY <1>9, <2>1 DEF DeleteSessions, tables, TypeOK
  <1>10. CASE DeleteConnectTokens(r)
    <2>1. revoked' \subseteq Tokens \cup Connects
      BY <1>10 DEF DeleteConnectTokens, Revoked, Pending, TypeOK, At
    <2> QED
      BY <1>10, <2>1, DropTypes DEF DeleteConnectTokens, Finish, TypeOK, Request
  <1>11. CASE Abort(r)
    BY <1>11 DEF Abort, Finish, tables, TypeOK, Request
  <1> QED
    BY <1>1, <1>2, <1>3, <1>4, <1>5, <1>6, <1>7, <1>8, <1>9, <1>10, <1>11 DEF RequestStep

LEMMA TypeStep == TypeOK /\ [Next]_vars => TypeOK'
  <1> SUFFICES ASSUME TypeOK, [Next]_vars PROVE TypeOK'
    OBVIOUS
  <1> USE BoundAssumption, DropTypes
  <1>1. ASSUME NEW r \in Requests, RequestStep(r) PROVE TypeOK'
    BY <1>1, TypeRequest
  <1>2. ASSUME NEW t \in Tokens, SessionStep(t) PROVE TypeOK'
    <2>1. sess[t] \in Session
      BY <1>2 DEF SessionStep, UnlockVault, LockVault, EndSession, SessionAges, Resolves, TypeOK
    <2>2. vault[sess[t].user] \in VaultKeys
      BY <2>1 DEF TypeOK, Session, VaultKeys
    <2>3. CASE EndSession(t)
      BY <2>3 DEF EndSession, TypeOK
    <2>4. CASE UnlockVault(t) \/ LockVault(t)
      BY <2>1, <2>2, <2>4 DEF UnlockVault, LockVault, TypeOK, Session, VaultKeys, NoKey
    <2>5. CASE SessionAges(t)
      BY <2>1, <2>5 DEF SessionAges, TypeOK, Session, Ages, Older
    <2> QED
      BY <1>2, <2>3, <2>4, <2>5 DEF SessionStep
  <1>3. ASSUME NEW u \in Users, AdminStep(u) PROVE TypeOK'
    <2>1. req' \in [Requests -> Request]
      <3>1. req' = [r \in Requests |-> req'[r]]
        BY <1>3 DEF AdminStep, Block, Unblock, ResetPassword, DeleteUser, Overtake, TypeOK
      <3> QED
        BY <1>3, <3>1, AdminKeeps
    <2>2. revoked' \subseteq Tokens \cup Connects
      BY <1>3 DEF AdminStep, Block, Unblock, ResetPassword, DeleteUser, SignOut, Revoked,
                  Rows, Pending, TypeOK
    <2>3. status' \in [Users -> {"absent", "active", "blocked"}]
      BY <1>3 DEF AdminStep, Block, Unblock, ResetPassword, DeleteUser, TypeOK
    <2>4. vault' \in [Users -> 1 .. MaxResets + 1]
      BY <1>3 DEF AdminStep, Block, Unblock, ResetPassword, DeleteUser, TypeOK
    <2>5. /\ sess' \in [Tokens -> Session \cup {NoRow}]
          /\ connect' \in [Connects -> Connect \cup {NoRow}]
      BY <1>3 DEF AdminStep, Block, Unblock, ResetPassword, DeleteUser, SignOut, TypeOK
    <2> QED
      BY <2>1, <2>2, <2>3, <2>4, <2>5 DEF TypeOK
  <1>4. ASSUME NEW c \in Connects, ConnectAges(c) PROVE TypeOK'
    <2>1. connect[c] \in Connect
      BY <1>4 DEF ConnectAges, TypeOK
    <2> QED
      BY <1>4, <2>1 DEF ConnectAges, TypeOK, Connect, Ages, Older
  <1>5. CASE PurgeExpired
    BY <1>5 DEF PurgeExpired, TypeOK
  <1>6. CASE UNCHANGED vars
    BY <1>6 DEF vars, tables, TypeOK
  <1> QED
    BY <1>1, <1>2, <1>3, <1>4, <1>5, <1>6 DEF Next

(***************************************************************************)
(* Every variable keeps its type, for any users, tokens and requests.      *)
(***************************************************************************)
THEOREM SessionTypes == Spec => []TypeOK
  BY TypeInit, TypeStep, PTL DEF Spec

(***************************************************************************)
(* The inductive invariant                                                 *)
(***************************************************************************)

\* A request that has taken a connect token, and may make a session of it.
Exchanges(r) == ~At(r, "idle") /\ req[r].kind = "exchange"

\* Nothing has come of a connect token, and nothing is about to.
Unused(c) ==
    /\ \A t \in Tokens : sess[t] # NoRow => sess[t].from # c
    /\ \A r \in Requests : Exchanges(r) => req[r].from # c

\* A connect token is in one place: in its table, with the request that took it,
\* or in a session.
OnePlace ==
    /\ \A r \in Requests : Exchanges(r) =>
         /\ connect[req[r].from] = NoRow
         /\ \A t \in Tokens : sess[t] # NoRow => sess[t].from # req[r].from
         /\ \A o \in Requests \ {r} : Exchanges(o) => req[o].from # req[r].from
    /\ AConnectTokenIsExchangedOnce

\* What was revoked is not there, nothing comes of it, and a session that outlived its
\* revocation has expired; the same holds of what a revocation in progress has found.
RevokedStaysRevoked ==
    /\ \A c \in revoked \cap Connects : connect[c] = NoRow /\ Unused(c)
    /\ \A t \in revoked \cap Tokens : sess[t] # NoRow => sess[t].age # "live"
    /\ \A r \in Requests : At(r, "sessions") =>
         \A t \in req[r].found :
             t # req[r].keep /\ (sess[t] # NoRow => sess[t].user = req[r].user)
    /\ \A r \in Requests : At(r, "tokens") =>
         \A t \in req[r].found \ req[r].doomed : sess[t] # NoRow => sess[t].age # "live"

\* A blocked account has nothing, on its way or there, that was not overtaken.
BlockedIsOvertaken ==
    /\ ABlockedUserHoldsNothing
    /\ \A r \in Requests : PastItsCheck(r) /\ status[req[r].user] = "blocked" =>
         "block" \in req[r].crossed

\* Nor is a former vault's key on its way, except where the reset overtook it.
KeysAreOvertaken ==
    /\ KeysAreTheCurrentVaults
    /\ \A r \in Requests : Carries(r) =>
         req[r].key \in {NoKey, vault[req[r].user]} \/ "reset" \in req[r].crossed

(***************************************************************************)
(* One place for each connect token                                        *)
(***************************************************************************)

\* A step that takes no connect token and issues no row: rows may go, and
\* requests may go on or end.
Shrinks ==
    /\ \A t \in Tokens : sess'[t] # NoRow =>
          sess[t] # NoRow /\ sess'[t].from = sess[t].from /\ sess'[t].user = sess[t].user
    /\ \A c \in Connects : connect'[c] # NoRow =>
          connect[c] # NoRow /\ connect'[c].user = connect[c].user
    /\ \A r \in Requests : Exchanges(r)' => Exchanges(r) /\ req'[r].from = req[r].from

LEMMA OnePlaceShrinks ==
    ASSUME TypeOK, OnePlace, Shrinks
    PROVE  OnePlace'
  <1>1. ASSUME NEW c \in Connects, connect[c] = NoRow PROVE connect'[c] = NoRow
    BY <1>1 DEF Shrinks
  <1>2. ASSUME NEW r \in Requests, Exchanges(r)'
        PROVE  /\ connect'[req'[r].from] = NoRow
               /\ \A t \in Tokens : sess'[t] # NoRow => sess'[t].from # req'[r].from
               /\ \A o \in Requests \ {r} : Exchanges(o)' => req'[o].from # req'[r].from
    <2>1. Exchanges(r) /\ req'[r].from = req[r].from
      BY <1>2 DEF Shrinks
    <2>2. req[r].from \in Connects
      BY <2>1, RequestParts DEF Exchanges
    <2> QED
      BY <1>1, <2>1, <2>2 DEF Shrinks, OnePlace
  <1>3. AConnectTokenIsExchangedOnce'
    <2>1. ASSUME NEW s \in Tokens, sess'[s] # NoRow, sess'[s].from # NoConnect
          PROVE  /\ connect'[sess'[s].from] = NoRow
                 /\ \A t \in Tokens \ {s} : sess'[t] # NoRow => sess'[t].from # sess'[s].from
      <3>1. sess[s] # NoRow /\ sess'[s].from = sess[s].from
        BY <2>1 DEF Shrinks
      <3>2. sess[s].from \in Connects
        BY <2>1, <3>1 DEF TypeOK, Session
      <3> QED
        BY <1>1, <2>1, <3>1, <3>2 DEF Shrinks, OnePlace, AConnectTokenIsExchangedOnce
    <2> QED
      BY <2>1 DEF AConnectTokenIsExchangedOnce
  <1> QED
    BY <1>2, <1>3 DEF OnePlace

\* What becomes of the one request that moves.
LEMMA Moves ==
    ASSUME TypeOK, NEW r \in Requests
    PROVE  /\ \A q : Begin(r, q) =>
                At(r, "idle") /\ req'[r] = q /\ \A o \in Requests \ {r} : req'[o] = req[o]
           /\ Finish(r) => req'[r] = Idle /\ \A o \in Requests \ {r} : req'[o] = req[o]
           /\ \A pc : Goto(r, pc) =>
                /\ req'[r] = [req[r] EXCEPT !.pc = pc]
                /\ \A o \in Requests \ {r} : req'[o] = req[o]
  BY DEF Begin, Finish, Goto, TypeOK

LEMMA GotoKeeps ==
    ASSUME TypeOK, NEW r \in Requests, NEW pc, Goto(r, pc), At(r, "check") \/ At(r, "upsert")
    PROVE  /\ req'[r].pc = pc
           /\ req'[r].user = req[r].user
           /\ req'[r].kind = req[r].kind
           /\ req[r].kind = "exchange" => req'[r].from = req[r].from
           /\ req[r].kind \in {"connect", "exchange"} => req'[r].key = req[r].key
  <1>1. req'[r] = [req[r] EXCEPT !.pc = pc] /\ req[r] \in Request
    BY Moves DEF TypeOK
  <1> QED
    BY <1>1 DEF Request, Idle, At

LEMMA DropShrinks ==
    ASSUME TypeOK
    PROVE  /\ \A T : sess' = DropSessions(T) =>
                \A t \in Tokens : sess'[t] # NoRow => sess'[t] = sess[t] /\ t \notin T
           /\ \A C : connect' = DropConnects(C) =>
                \A c \in Connects : connect'[c] # NoRow => connect'[c] = connect[c] /\ c \notin C
  BY DEF DropSessions, DropConnects

LEMMA OnePlaceInit == Init => OnePlace
  BY DEF Init, OnePlace, AConnectTokenIsExchangedOnce, Exchanges, At, Idle

LEMMA OnePlaceTake ==
    ASSUME TypeOK, OnePlace, NEW r \in Requests, NEW c \in Connects, NEW i \in Installations,
           ExchangeConnectToken(r, c, i)
    PROVE  OnePlace'
  <1>1. /\ req'[r].from = c /\ ~Exchanges(r)
        /\ \A o \in Requests \ {r} : req'[o] = req[o]
    BY Moves DEF ExchangeConnectToken, Exchanges
  <1>2. /\ connect[c] # NoRow /\ connect'[c] = NoRow /\ UNCHANGED sess
        /\ \A d \in Connects : connect[d] = NoRow => connect'[d] = NoRow
    BY DEF ExchangeConnectToken, DropConnects
  <1>3. \A o \in Requests \ {r} : Exchanges(o)' => Exchanges(o) /\ req[o].from \in Connects
    BY <1>1, RequestParts DEF Exchanges, At
  <1>4. \A t \in Tokens : sess[t] # NoRow => sess[t].from \in Connects \cup {NoConnect}
    BY DEF TypeOK, Session
  <1> QED
    BY <1>1, <1>2, <1>3, <1>4, NonesAssumption DEF OnePlace, AConnectTokenIsExchangedOnce

LEMMA OnePlaceIssue ==
    ASSUME TypeOK, OnePlace, NEW r \in Requests, CreateConnectToken(r)
    PROVE  OnePlace'
  <1>1. \A o \in Requests : Exchanges(o)' => Exchanges(o) /\ req'[o].from = req[o].from
    BY Moves DEF CreateConnectToken, Exchanges, At, Idle
  <1>2. UNCHANGED sess
    BY DEF CreateConnectToken
  <1>3. CASE UNCHANGED connect
    BY <1>1, <1>2, <1>3, OnePlaceShrinks DEF Shrinks
  <1>4. CASE ~UNCHANGED connect
    <2>1. PICK c \in Connects : FreshConnect(c) /\ \A d \in Connects \ {c} : connect'[d] = connect[d]
      BY <1>4 DEF CreateConnectToken, TypeOK
    <2>2. \A o \in Requests : Exchanges(o)' => req'[o].from \in Connects \ {c}
      BY <1>1, <2>1, RequestParts DEF FreshConnect, Exchanges
    <2>3. \A t \in Tokens : sess[t] # NoRow => sess[t].from # c
      BY <2>1 DEF FreshConnect
    <2>4. \A t \in Tokens : sess[t] # NoRow => sess[t].from \in Connects \cup {NoConnect}
      BY DEF TypeOK, Session
    <2> QED
      BY <1>1, <1>2, <2>1, <2>2, <2>3, <2>4, NonesAssumption
      DEF OnePlace, AConnectTokenIsExchangedOnce
  <1> QED
    BY <1>3, <1>4

\* What a finished exchange leaves: one session from the token it had taken.
LEMMA OnePlaceExtension ==
    ASSUME TypeOK, OnePlace, NEW r \in Requests, UpsertExtensionSession(r)
    PROVE  OnePlace'
  <1>1. /\ \A o \in Requests : Exchanges(o)' => Exchanges(o) /\ o # r /\ req'[o] = req[o]
        /\ UNCHANGED connect
    BY Moves DEF UpsertExtensionSession, Exchanges, At, Idle
  <1>2. Exchanges(r) /\ req[r].from \in Connects
    BY RequestParts DEF UpsertExtensionSession, Exchanges, At
  <1>3. CASE UNCHANGED sess
    BY <1>1, <1>3, OnePlaceShrinks DEF Shrinks
  <1>4. CASE ~UNCHANGED sess
    <2>1. PICK t \in Tokens :
            /\ sess'[t].from = req[r].from
            /\ \A s \in Tokens \ {t} : sess'[s] # NoRow => sess'[s] = sess[s]
      <3> DEFINE row == [user |-> req[r].user, inst |-> req[r].inst, from |-> req[r].from,
                         key |-> req[r].key, age |-> "live", crossed |-> req[r].crossed]
                 before == {t \in Tokens : sess[t] # NoRow /\ sess[t].inst = req[r].inst}
      <3>1. PICK t \in Tokens : sess' = [DropSessions(before) EXCEPT ![t] = row]
        BY <1>4 DEF UpsertExtensionSession
      <3>2. sess'[t] = row /\ \A s \in Tokens \ {t} : sess'[s] = DropSessions(before)[s]
        BY <3>1 DEF DropSessions
      <3> HIDE DEF before
      <3>3. \A s \in Tokens \ {t} : sess'[s] # NoRow => sess'[s] = sess[s]
        BY <3>2 DEF DropSessions
      <3> QED
        BY <3>2, <3>3
    <2>2. \A o \in Requests : Exchanges(o)' => req[o].from # req[r].from
      BY <1>1, <1>2 DEF OnePlace
    <2> QED
      BY <1>1, <1>2, <2>1, <2>2 DEF OnePlace, AConnectTokenIsExchangedOnce
  <1> QED
    BY <1>3, <1>4

LEMMA QuietSession ==
    ASSUME TypeOK, NEW t \in Tokens, SessionStep(t)
    PROVE  Shrinks
  <1>1. UNCHANGED <<connect, req>>
    BY DEF SessionStep, UnlockVault, LockVault, EndSession, SessionAges
  <1>2. ASSUME NEW s \in Tokens, sess'[s] # NoRow
        PROVE  sess[s] # NoRow /\ sess'[s].from = sess[s].from /\ sess'[s].user = sess[s].user
    <2>1. CASE EndSession(t)
      BY <1>2, <2>1, DropShrinks DEF EndSession
    <2>2. CASE UnlockVault(t) \/ LockVault(t) \/ SessionAges(t)
      <3>1. sess[t] \in Session
        BY <2>2 DEF UnlockVault, LockVault, SessionAges, Resolves, TypeOK
      <3> QED
        BY <1>2, <2>2, <3>1, NonesAssumption
        DEF UnlockVault, LockVault, SessionAges, TypeOK, Session
    <2> QED
      BY <2>1, <2>2 DEF SessionStep
  <1> QED
    BY <1>1, <1>2 DEF Shrinks, Exchanges, At

LEMMA QuietAdmin ==
    ASSUME TypeOK, NEW u \in Users, AdminStep(u)
    PROVE  Shrinks
  <1>1. SignOut(u) \/ UNCHANGED <<sess, connect>>
    BY DEF AdminStep, Block, Unblock, ResetPassword, DeleteUser
  <1>2. /\ \A t \in Tokens : sess'[t] # NoRow => sess'[t] = sess[t]
        /\ \A c \in Connects : connect'[c] # NoRow => connect'[c] = connect[c]
    BY <1>1, DropShrinks DEF SignOut
  <1>3. ASSUME NEW r \in Requests, Exchanges(r)'
        PROVE  Exchanges(r) /\ req'[r].from = req[r].from
    BY <1>3, AdminKeeps DEF Exchanges, At
  <1> QED
    BY <1>2, <1>3 DEF Shrinks

LEMMA QuietClock ==
    ASSUME TypeOK, (\E c \in Connects : ConnectAges(c)) \/ PurgeExpired \/ UNCHANGED vars
    PROVE  Shrinks
  <1>1. ASSUME NEW c \in Connects, ConnectAges(c) PROVE Shrinks
    <2>1. connect[c] \in Connect
      BY <1>1 DEF ConnectAges, TypeOK
    <2>2. /\ connect'[c].user = connect[c].user
          /\ \A d \in Connects \ {c} : connect'[d] = connect[d]
      BY <1>1, <2>1 DEF ConnectAges, TypeOK, Connect
    <2> QED
      BY <1>1, <2>1, <2>2 DEF ConnectAges, Shrinks, Exchanges, At
  <1>2. CASE PurgeExpired
    BY <1>2, DropShrinks DEF PurgeExpired, Shrinks, Exchanges, At
  <1>3. CASE UNCHANGED vars
    BY <1>3 DEF vars, tables, Shrinks, Exchanges, At
  <1> QED
    BY <1>1, <1>2, <1>3

\* Requests that begin, look, create an account or give up.
Passing(r) ==
    \/ \E u \in Users : Login(r, u) \/ SsoSignIn(r, u) \/ RevokeAllSessions(r, u)
    \/ \E t \in Tokens : IssueConnectToken(r, t) \/ RevokeOtherSessions(r, t)
    \/ CheckBlocked(r) \/ UpsertExternalUser(r) \/ Abort(r)

LEMMA QuietRequest ==
    ASSUME TypeOK, NEW r \in Requests, Passing(r)
    PROVE  Shrinks
  <1>1. UNCHANGED <<sess, connect>>
    BY DEF Passing, Login, SsoSignIn, RevokeAllSessions, IssueConnectToken,
           RevokeOtherSessions, CheckBlocked, UpsertExternalUser, Abort, tables
  <1> DEFINE Takes == Exchanges(r)' => Exchanges(r) /\ req'[r].from = req[r].from
             Rest == \A o \in Requests \ {r} : req'[o] = req[o]
  <1>2. Rest /\ Takes
    <2>1. ASSUME NEW u \in Users, Login(r, u) \/ SsoSignIn(r, u) \/ RevokeAllSessions(r, u)
          PROVE  Rest /\ Takes
      BY <2>1, Moves DEF Login, SsoSignIn, RevokeAllSessions, Exchanges, At
    <2>2. ASSUME NEW t \in Tokens, IssueConnectToken(r, t) \/ RevokeOtherSessions(r, t)
          PROVE  Rest /\ Takes
      BY <2>2, Moves DEF IssueConnectToken, RevokeOtherSessions, Exchanges, At
    <2>3. CASE CheckBlocked(r)
      <3>1. CASE Finish(r)
        BY <3>1, Moves DEF Exchanges, At, Idle
      <3>2. CASE Goto(r, AfterCheck(req[r]))
        BY <2>3, <3>2, GotoKeeps, Moves DEF CheckBlocked, Exchanges, At
      <3> QED
        BY <2>3, <3>1, <3>2 DEF CheckBlocked
    <2>4. CASE UpsertExternalUser(r)
      <3>1. Goto(r, "session") /\ At(r, "upsert")
        BY <2>4 DEF UpsertExternalUser
      <3>2. req'[r].pc = "session" /\ req'[r].kind = req[r].kind
        BY <3>1, GotoKeeps
      <3>3. req[r].kind # "exchange"
        BY <3>1 DEF At, TypeOK, Request, Issuing, Revoking, Idle
      <3> QED
        BY <3>1, <3>2, <3>3, Moves DEF Exchanges, At
    <2>5. CASE Abort(r)
      BY <2>5, Moves DEF Abort, Exchanges, At, Idle
    <2> QED
      BY <2>1, <2>2, <2>3, <2>4, <2>5 DEF Passing
  <1> QED
    BY <1>1, <1>2 DEF Shrinks, Exchanges, At

LEMMA RequestCases ==
    ASSUME NEW r \in Requests, RequestStep(r)
    PROVE  \/ Passing(r)
           \/ \E c \in Connects, i \in Installations : ExchangeConnectToken(r, c, i)
           \/ CreateSession(r) \/ CreateConnectToken(r) \/ UpsertExtensionSession(r)
           \/ DeleteSessions(r) \/ DeleteConnectTokens(r)
  BY DEF RequestStep, Passing

LEMMA QuietSteps ==
    ASSUME TypeOK, [Next]_vars
    PROVE  \/ Shrinks
           \/ \E r \in Requests :
                \/ \E c \in Connects, i \in Installations : ExchangeConnectToken(r, c, i)
                \/ CreateSession(r) \/ CreateConnectToken(r) \/ UpsertExtensionSession(r)
                \/ DeleteSessions(r) \/ DeleteConnectTokens(r)
  BY QuietSession, QuietAdmin, QuietClock, QuietRequest, RequestCases DEF Next

\* A plain sign-in makes a session that comes from no connect token.
LEMMA Signed ==
    ASSUME TypeOK, NEW r \in Requests, CreateSession(r)
    PROVE  /\ \A o \in Requests : Exchanges(o)' => Exchanges(o) /\ req'[o] = req[o]
           /\ UNCHANGED connect
           /\ \A t \in Tokens : sess'[t] # NoRow =>
                sess'[t] = sess[t] \/ sess'[t].from = NoConnect
  <1>1. \A t \in Tokens : sess'[t] # NoRow => sess'[t] = sess[t] \/ sess'[t].from = NoConnect
    BY DEF CreateSession, TypeOK
  <1> QED
    BY <1>1, Moves DEF CreateSession, Exchanges, At, Idle

LEMMA Dropping ==
    ASSUME TypeOK, NEW r \in Requests, DeleteSessions(r) \/ DeleteConnectTokens(r)
    PROVE  Shrinks
  <1>1. CASE DeleteSessions(r)
    BY <1>1 DEF DeleteSessions, tables, Shrinks, Exchanges, At, TypeOK
  <1>2. CASE DeleteConnectTokens(r)
    BY <1>2, DropShrinks, Moves DEF DeleteConnectTokens, Shrinks, Exchanges, At, Idle
  <1> QED
    BY <1>1, <1>2

LEMMA OnePlaceStep ==
    ASSUME TypeOK, OnePlace, [Next]_vars
    PROVE  OnePlace'
  <1>1. ASSUME NEW r \in Requests, CreateSession(r) PROVE OnePlace'
    <2>1. \A t \in Tokens : sess'[t] # NoRow /\ sess'[t].from # NoConnect => sess'[t] = sess[t]
      BY <1>1, Signed
    <2>2. \A o \in Requests : Exchanges(o) => req[o].from # NoConnect
      BY RequestParts, NonesAssumption DEF Exchanges
    <2> QED
      BY <1>1, <2>1, <2>2, Signed DEF OnePlace, AConnectTokenIsExchangedOnce
  <1> QED
    BY <1>1, QuietSteps, OnePlaceShrinks, OnePlaceTake, OnePlaceIssue, OnePlaceExtension,
       Dropping

(***************************************************************************)
(* A connect token makes one extension session, however many clients       *)
(* present it at once and whatever else happens meanwhile                  *)
(* (ExchangeBrowserExtensionConnectToken): the statement that takes it     *)
(* deletes it.                                                             *)
(***************************************************************************)
THEOREM OneSessionPerConnectToken == Spec => []AConnectTokenIsExchangedOnce
  <1>1. Init => TypeOK /\ OnePlace
    BY TypeInit, OnePlaceInit
  <1>2. TypeOK /\ OnePlace /\ [Next]_vars => (TypeOK /\ OnePlace)'
    BY TypeStep, OnePlaceStep
  <1>3. OnePlace => AConnectTokenIsExchangedOnce
    BY DEF OnePlace
  <1> QED
    BY <1>1, <1>2, <1>3, PTL DEF Spec

(***************************************************************************)
(* What a step makes of rows and requests                                  *)
(***************************************************************************)

\* The session row was there before the step.
SameSession(t) ==
    /\ sess[t] # NoRow
    /\ sess'[t].user = sess[t].user /\ sess'[t].from = sess[t].from
    /\ sess'[t].crossed = sess[t].crossed
    /\ sess'[t].age = "live" => sess[t].age = "live"
    /\ sess'[t].key \in {sess[t].key, NoKey, vault[sess[t].user]}

\* Request r issues the session in this step.
NewSession(t, r) ==
    /\ FreshToken(t)
    /\ t \notin revoked'
    /\ UNCHANGED <<status, vault, connect>>
    /\ sess'[t].user = req[r].user /\ sess'[t].crossed = req[r].crossed
    /\ \/ At(r, "session") /\ sess'[t].from = NoConnect /\ sess'[t].key = NoKey
       \/ At(r, "extension") /\ sess'[t].from = req[r].from /\ sess'[t].key = req[r].key

\* The same for connect tokens.
SameConnect(c) ==
    /\ connect[c] # NoRow
    /\ connect'[c].user = connect[c].user /\ connect'[c].key = connect[c].key
    /\ connect'[c].crossed = connect[c].crossed

NewConnect(c, r) ==
    /\ At(r, "token") /\ c \notin revoked'
    /\ UNCHANGED <<status, vault>>
    /\ connect'[c].user = req[r].user /\ connect'[c].key = req[r].key
    /\ connect'[c].crossed = req[r].crossed

LEMMA SessionBefore ==
    ASSUME TypeOK, [Next]_vars, NEW t \in Tokens, sess'[t] # NoRow
    PROVE  SameSession(t) \/ \E r \in Requests : NewSession(t, r)
  <1>0. ASSUME sess'[t] = sess[t] PROVE SameSession(t)
    BY <1>0 DEF SameSession
  <1>1. ASSUME NEW s \in Tokens, SessionStep(s) PROVE SameSession(t)
    <2>1. CASE EndSession(s)
      BY <1>0, <2>1, DropShrinks DEF EndSession
    <2>2. CASE ~EndSession(s)
      <3>1. sess[s] \in Session
        BY <1>1, <2>2 DEF SessionStep, UnlockVault, LockVault, SessionAges, Resolves, TypeOK
      <3>2. CASE UnlockVault(s)
        BY <3>1, <3>2, NonesAssumption DEF UnlockVault, SameSession, TypeOK, Session
      <3>3. CASE LockVault(s)
        BY <3>1, <3>3, NonesAssumption DEF LockVault, SameSession, TypeOK, Session
      <3>4. CASE SessionAges(s)
        BY <3>1, <3>4, NonesAssumption DEF SessionAges, SameSession, TypeOK, Session, Older
      <3> QED
        BY <1>1, <2>2, <3>2, <3>3, <3>4 DEF SessionStep
    <2> QED
      BY <2>1, <2>2
  <1>2. ASSUME NEW u \in Users, AdminStep(u) PROVE SameSession(t)
    BY <1>0, <1>2, DropShrinks
    DEF AdminStep, Block, Unblock, ResetPassword, DeleteUser, SignOut
  <1>3. CASE (\E c \in Connects : ConnectAges(c)) \/ PurgeExpired \/ UNCHANGED vars
    BY <1>0, <1>3, DropShrinks DEF ConnectAges, PurgeExpired, vars, tables
  <1>4. ASSUME NEW r \in Requests, RequestStep(r)
        PROVE  SameSession(t) \/ NewSession(t, r)
    <2>1. CASE Passing(r)
      BY <1>0, <2>1 DEF Passing, Login, SsoSignIn, RevokeAllSessions, IssueConnectToken,
             RevokeOtherSessions, CheckBlocked, UpsertExternalUser, Abort, tables
    <2>2. CASE (\E c \in Connects, i \in Installations : ExchangeConnectToken(r, c, i))
               \/ CreateConnectToken(r) \/ DeleteSessions(r) \/ DeleteConnectTokens(r)
      BY <1>0, <2>2, DropShrinks
      DEF ExchangeConnectToken, CreateConnectToken, DeleteSessions, DeleteConnectTokens, tables
    <2>3. CASE CreateSession(r)
      <3>1. CASE UNCHANGED sess
        BY <1>0, <3>1
      <3>2. CASE ~UNCHANGED sess
        <4>1. PICK n \in Tokens :
                /\ FreshToken(n) /\ revoked' = revoked \ {n}
                /\ sess' = [sess EXCEPT ![n] =
                     [user |-> req[r].user, inst |-> NoInstallation, from |-> NoConnect,
                      key |-> NoKey, age |-> "live", crossed |-> req[r].crossed]]
          BY <2>3, <3>2 DEF CreateSession
        <4>2. UNCHANGED <<status, vault, connect>> /\ At(r, "session")
          BY <2>3 DEF CreateSession
        <4>3. CASE t = n
          BY <4>1, <4>2, <4>3 DEF NewSession, TypeOK
        <4>4. CASE t # n
          BY <1>0, <4>1, <4>4 DEF TypeOK
        <4> QED
          BY <4>3, <4>4
      <3> QED
        BY <3>1, <3>2
    <2>4. CASE UpsertExtensionSession(r)
      <3> DEFINE row == [user |-> req[r].user, inst |-> req[r].inst, from |-> req[r].from,
                         key |-> req[r].key, age |-> "live", crossed |-> req[r].crossed]
                 before == {s \in Tokens : sess[s] # NoRow /\ sess[s].inst = req[r].inst}
      <3>1. CASE UNCHANGED sess
        BY <1>0, <3>1
      <3>2. CASE ~UNCHANGED sess
        <4>1. PICK n \in Tokens :
                /\ FreshToken(n) /\ revoked' = revoked \ {n}
                /\ sess' = [DropSessions(before) EXCEPT ![n] = row]
          BY <2>4, <3>2 DEF UpsertExtensionSession
        <4>2. UNCHANGED <<status, vault, connect>> /\ At(r, "extension")
          BY <2>4 DEF UpsertExtensionSession
        <4> HIDE DEF before
        <4>3. CASE t = n
          BY <4>1, <4>2, <4>3 DEF NewSession, DropSessions
        <4>4. CASE t # n
          BY <1>0, <4>1, <4>4 DEF DropSessions
        <4> QED
          BY <4>3, <4>4
      <3> QED
        BY <3>1, <3>2
    <2> QED
      BY <1>4, <2>1, <2>2, <2>3, <2>4, RequestCases
  <1> QED
    BY <1>1, <1>2, <1>3, <1>4 DEF Next

LEMMA ConnectBefore ==
    ASSUME TypeOK, [Next]_vars, NEW c \in Connects, connect'[c] # NoRow
    PROVE  SameConnect(c) \/ \E r \in Requests : NewConnect(c, r)
  <1>0. ASSUME connect'[c] = connect[c] PROVE SameConnect(c)
    BY <1>0 DEF SameConnect
  <1>1. ASSUME NEW s \in Tokens, SessionStep(s) PROVE SameConnect(c)
    BY <1>0, <1>1 DEF SessionStep, UnlockVault, LockVault, EndSession, SessionAges
  <1>2. ASSUME NEW u \in Users, AdminStep(u) PROVE SameConnect(c)
    BY <1>0, <1>2, DropShrinks
    DEF AdminStep, Block, Unblock, ResetPassword, DeleteUser, SignOut
  <1>3. ASSUME NEW d \in Connects, ConnectAges(d) PROVE SameConnect(c)
    <2>1. connect[d] \in Connect
      BY <1>3 DEF ConnectAges, TypeOK
    <2> QED
      BY <1>3, <2>1, NonesAssumption DEF ConnectAges, SameConnect, TypeOK, Connect
  <1>4. CASE PurgeExpired \/ UNCHANGED vars
    BY <1>0, <1>4, DropShrinks DEF PurgeExpired, vars, tables
  <1>5. ASSUME NEW r \in Requests, RequestStep(r)
        PROVE  SameConnect(c) \/ NewConnect(c, r)
    <2>1. CASE Passing(r)
      BY <1>0, <2>1 DEF Passing, Login, SsoSignIn, RevokeAllSessions, IssueConnectToken,
             RevokeOtherSessions, CheckBlocked, UpsertExternalUser, Abort, tables
    <2>2. CASE (\E d \in Connects, i \in Installations : ExchangeConnectToken(r, d, i))
               \/ CreateSession(r) \/ UpsertExtensionSession(r)
               \/ DeleteSessions(r) \/ DeleteConnectTokens(r)
      BY <1>0, <2>2, DropShrinks
      DEF ExchangeConnectToken, CreateSession, UpsertExtensionSession, DeleteSessions,
          DeleteConnectTokens, tables
    <2>3. CASE CreateConnectToken(r)
      <3>1. CASE UNCHANGED connect
        BY <1>0, <3>1
      <3>2. CASE ~UNCHANGED connect
        <4>1. PICK n \in Connects :
                /\ revoked' = revoked \ {n}
                /\ connect' = [connect EXCEPT ![n] =
                     [user |-> req[r].user, key |-> req[r].key, age |-> "live",
                      crossed |-> req[r].crossed]]
          BY <2>3, <3>2 DEF CreateConnectToken
        <4>2. UNCHANGED <<status, vault>> /\ At(r, "token")
          BY <2>3 DEF CreateConnectToken
        <4>3. CASE c = n
          BY <4>1, <4>2, <4>3 DEF NewConnect, TypeOK
        <4>4. CASE c # n
          BY <1>0, <4>1, <4>4 DEF TypeOK
        <4> QED
          BY <4>3, <4>4
      <3> QED
        BY <3>1, <3>2
    <2> QED
      BY <1>5, <2>1, <2>2, <2>3, RequestCases
  <1> QED
    BY <1>1, <1>2, <1>3, <1>4, <1>5 DEF Next

\* A request that another one's step, or a clock's, leaves alone.
LEMMA OthersRest ==
    ASSUME TypeOK, [Next]_vars, NEW r \in Requests
    PROVE  req'[r] = req[r] \/ RequestStep(r) \/ \E u \in Users : AdminStep(u)
  <1>1. ASSUME NEW o \in Requests, RequestStep(o), o # r PROVE req'[r] = req[r]
    <2>1. CASE \/ \E u \in Users : Login(o, u) \/ SsoSignIn(o, u) \/ RevokeAllSessions(o, u)
               \/ \E t \in Tokens : IssueConnectToken(o, t) \/ RevokeOtherSessions(o, t)
               \/ \E c \in Connects, i \in Installations : ExchangeConnectToken(o, c, i)
      BY <1>1, <2>1, Moves DEF Login, SsoSignIn, RevokeAllSessions, IssueConnectToken,
                               RevokeOtherSessions, ExchangeConnectToken
    <2>2. CASE CheckBlocked(o) \/ UpsertExternalUser(o) \/ CreateSession(o)
               \/ CreateConnectToken(o) \/ UpsertExtensionSession(o)
               \/ DeleteConnectTokens(o) \/ Abort(o)
      BY <1>1, <2>2, Moves DEF CheckBlocked, UpsertExternalUser, CreateSession,
             CreateConnectToken, UpsertExtensionSession, DeleteConnectTokens, Abort
    <2>3. CASE DeleteSessions(o)
      BY <1>1, <2>3 DEF DeleteSessions, TypeOK
    <2> QED
      BY <1>1, <2>1, <2>2, <2>3 DEF RequestStep
  <1>2. ASSUME NEW t \in Tokens, SessionStep(t) PROVE req'[r] = req[r]
    BY <1>2 DEF SessionStep, UnlockVault, LockVault, EndSession, SessionAges
  <1>3. CASE (\E c \in Connects : ConnectAges(c)) \/ PurgeExpired \/ UNCHANGED vars
    BY <1>3 DEF ConnectAges, PurgeExpired, vars, tables
  <1> QED
    BY <1>1, <1>2, <1>3 DEF Next

\* A request that begins.
LEMMA Begun ==
    ASSUME TypeOK, NEW r \in Requests
    PROVE  /\ \A u \in Users : Login(r, u) =>
                req'[r].pc = "check" /\ req'[r].kind = "login"
           /\ \A u \in Users : SsoSignIn(r, u) =>
                req'[r].pc = "check" /\ req'[r].kind = "sso"
           /\ \A u \in Users : RevokeAllSessions(r, u) =>
                req'[r].pc = "sessions" /\ req'[r].kind = "revoke"
           /\ \A t \in Tokens : RevokeOtherSessions(r, t) =>
                req'[r].pc = "sessions" /\ req'[r].kind = "revoke"
           /\ \A t \in Tokens : IssueConnectToken(r, t) => req'[r].pc = "check"
           /\ \A c \in Connects, i \in Installations :
                ExchangeConnectToken(r, c, i) => req'[r].pc = "check"
  <1>1. \A u \in Users : Login(r, u) => req'[r].pc = "check" /\ req'[r].kind = "login"
    BY Moves DEF Login
  <1>2. \A u \in Users : SsoSignIn(r, u) => req'[r].pc = "check" /\ req'[r].kind = "sso"
    BY Moves DEF SsoSignIn
  <1>3. \A u \in Users : RevokeAllSessions(r, u) =>
            req'[r].pc = "sessions" /\ req'[r].kind = "revoke"
    BY Moves DEF RevokeAllSessions
  <1>4. \A t \in Tokens : RevokeOtherSessions(r, t) =>
            req'[r].pc = "sessions" /\ req'[r].kind = "revoke"
    BY Moves DEF RevokeOtherSessions
  <1>5. \A t \in Tokens : IssueConnectToken(r, t) => req'[r].pc = "check"
    BY Moves DEF IssueConnectToken
  <1>6. \A c \in Connects, i \in Installations :
            ExchangeConnectToken(r, c, i) => req'[r].pc = "check"
    BY Moves DEF ExchangeConnectToken
  <1> QED
    BY <1>1, <1>2, <1>3, <1>4, <1>5, <1>6

\* Where a request that is past its check comes from.
LEMMA PastBefore ==
    ASSUME TypeOK, [Next]_vars, NEW r \in Requests, PastItsCheck(r)'
    PROVE  /\ req'[r].user = req[r].user /\ req[r].user \in Users
           /\ \/ PastItsCheck(r) /\ req[r].crossed \subseteq req'[r].crossed
              \/ status[req[r].user] # "blocked" /\ UNCHANGED status
           /\ Block(req[r].user) => "block" \in req'[r].crossed
  <1>1. CASE req'[r] = req[r] /\ ~(\E u \in Users : AdminStep(u))
    <2>1. PastItsCheck(r) /\ ~At(r, "idle")
      BY <1>1 DEF PastItsCheck, At
    <2>2. req[r].user \in Users
      BY <2>1, RequestParts
    <2> QED
      BY <1>1, <2>1, <2>2 DEF AdminStep
  <1>2. ASSUME NEW u \in Users, AdminStep(u)
        PROVE  /\ req'[r].user = req[r].user /\ req[r].user \in Users
               /\ PastItsCheck(r) /\ req[r].crossed \subseteq req'[r].crossed
               /\ Block(req[r].user) => "block" \in req'[r].crossed
    <2>1. PastItsCheck(r)
      BY <1>2, AdminKeeps DEF PastItsCheck
    <2>2. req[r] \in Issuing /\ req[r].user \in Users
      BY <2>1, RequestParts DEF PastItsCheck, At
    <2>3. /\ req'[r].user = req[r].user
          /\ req[r].crossed \subseteq req'[r].crossed
      BY <1>2, <2>2, AdminKeeps
    <2>4. ASSUME Block(req[r].user) PROVE "block" \in req'[r].crossed
      <3>1. AdminStep(req[r].user)
        BY <2>4 DEF AdminStep
      <3> QED
        BY <2>1, <2>2, <2>4, <3>1, AdminKeeps
    <2> QED
      BY <2>1, <2>2, <2>3, <2>4
  <1>3. CASE RequestStep(r)
    <2>1. CASE CheckBlocked(r)
      <3>1. Goto(r, AfterCheck(req[r])) /\ status[req[r].user] # "blocked"
        BY <1>3, <2>1, Moves DEF CheckBlocked, PastItsCheck, Idle, Finish, At
      <3>2. UNCHANGED status /\ At(r, "check")
        BY <2>1 DEF CheckBlocked, tables
      <3>3. req'[r].user = req[r].user
        BY <3>1, <3>2, GotoKeeps
      <3>4. req[r].user \in Users
        BY <3>2, RequestParts DEF At
      <3>5. ~Block(req[r].user)
        BY <3>2, <3>4 DEF Block, TypeOK
      <3> QED
        BY <3>1, <3>2, <3>3, <3>4, <3>5
    <2>2. CASE UpsertExternalUser(r)
      <3>1. Goto(r, "session") /\ At(r, "upsert")
        BY <2>2 DEF UpsertExternalUser
      <3>2. req'[r].user = req[r].user /\ req'[r].crossed = req[r].crossed
        <4>1. req'[r] = [req[r] EXCEPT !.pc = "session"] /\ req[r] \in Request
          BY <3>1, Moves DEF TypeOK
        <4> QED
          BY <3>1, <4>1 DEF Request, Issuing, Revoking, Idle, At
      <3>3. req[r].user \in Users /\ PastItsCheck(r)
        BY <3>1, RequestParts DEF At, PastItsCheck
      <3>4. ~Block(req[r].user)
        BY <2>2, <3>3 DEF UpsertExternalUser, Block, TypeOK
      <3> QED
        BY <3>2, <3>3, <3>4
    <2>3. CASE DeleteSessions(r)
      BY <2>3 DEF DeleteSessions, PastItsCheck, TypeOK
    <2>4. CASE CreateSession(r) \/ CreateConnectToken(r) \/ UpsertExtensionSession(r)
               \/ DeleteConnectTokens(r) \/ Abort(r)
      BY <2>4, Moves DEF CreateSession, CreateConnectToken, UpsertExtensionSession,
             DeleteConnectTokens, Abort, PastItsCheck, Idle
    <2>5. CASE \/ \E u \in Users : Login(r, u) \/ SsoSignIn(r, u) \/ RevokeAllSessions(r, u)
               \/ \E t \in Tokens : IssueConnectToken(r, t) \/ RevokeOtherSessions(r, t)
               \/ \E c \in Connects, i \in Installations : ExchangeConnectToken(r, c, i)
      BY <2>5, Begun DEF PastItsCheck
    <2> QED
      BY <1>3, <2>1, <2>2, <2>3, <2>4, <2>5 DEF RequestStep
  <1> QED
    BY <1>1, <1>2, <1>3, OthersRest

\* Where a vault key that a request carries comes from.
LEMMA CarriedBefore ==
    ASSUME TypeOK, [Next]_vars, NEW r \in Requests, Carries(r)'
    PROVE  \/ /\ Carries(r) /\ req[r].user \in Users
              /\ req'[r].user = req[r].user /\ req'[r].key = req[r].key
              /\ req[r].crossed \subseteq req'[r].crossed
              /\ ResetPassword(req[r].user) => "reset" \in req'[r].crossed
           \/ /\ UNCHANGED vault
              /\ \E t \in Tokens :
                   /\ sess[t] # NoRow
                   /\ req'[r].user = sess[t].user /\ req'[r].key = sess[t].key
                   /\ req'[r].crossed = sess[t].crossed \ {"block"}
           \/ /\ UNCHANGED vault
              /\ \E c \in Connects :
                   /\ connect[c] # NoRow
                   /\ req'[r].user = connect[c].user /\ req'[r].key = connect[c].key
                   /\ req'[r].crossed = connect[c].crossed \ {"block"}
  <1> DEFINE Goes == /\ Carries(r) /\ req[r].user \in Users
                     /\ req'[r].user = req[r].user /\ req'[r].key = req[r].key
                     /\ req[r].crossed \subseteq req'[r].crossed
                     /\ ResetPassword(req[r].user) => "reset" \in req'[r].crossed
             Issued == /\ UNCHANGED vault
                       /\ \E t \in Tokens :
                            /\ sess[t] # NoRow
                            /\ req'[r].user = sess[t].user /\ req'[r].key = sess[t].key
                            /\ req'[r].crossed = sess[t].crossed \ {"block"}
             Taken == /\ UNCHANGED vault
                      /\ \E c \in Connects :
                           /\ connect[c] # NoRow
                           /\ req'[r].user = connect[c].user /\ req'[r].key = connect[c].key
                           /\ req'[r].crossed = connect[c].crossed \ {"block"}
  <1>1. CASE req'[r] = req[r] /\ ~(\E u \in Users : AdminStep(u))
    <2>1. Carries(r)
      BY <1>1 DEF Carries, At
    <2>2. req[r].user \in Users
      BY <2>1, RequestParts DEF Carries
    <2>3. ~ResetPassword(req[r].user)
      BY <1>1, <2>2 DEF AdminStep
    <2> QED
      BY <1>1, <2>1, <2>2, <2>3
  <1>2. ASSUME NEW u \in Users, AdminStep(u) PROVE Goes
    <2>1. req'[r] = req[r] \/ req[r] \in Issuing
      BY <1>2, AdminKeeps
    <2>2. Carries(r)
      BY <1>2, <2>1, AdminKeeps DEF Carries, At
    <2>3. req[r] \in Issuing /\ req[r].user \in Users
      BY <2>2, RequestParts DEF Carries
    <2>4. req'[r].user = req[r].user /\ req'[r].key = req[r].key
          /\ req[r].crossed \subseteq req'[r].crossed
      BY <1>2, <2>2, <2>3, AdminKeeps DEF Carries
    <2>5. ASSUME ResetPassword(req[r].user) PROVE "reset" \in req'[r].crossed
      <3>1. AdminStep(req[r].user)
        BY <2>5 DEF AdminStep
      <3> QED
        BY <2>2, <2>3, <2>5, <3>1, AdminKeeps
    <2> QED
      BY <2>2, <2>3, <2>4, <2>5
  <1>3. CASE RequestStep(r)
    <2>1. CASE CheckBlocked(r)
      <3>1. Goto(r, AfterCheck(req[r]))
        BY <2>1, Moves DEF CheckBlocked, Carries, Idle, Finish, At
      <3>2. UNCHANGED vault /\ At(r, "check")
        BY <2>1 DEF CheckBlocked, tables
      <3>3. req'[r] = [req[r] EXCEPT !.pc = AfterCheck(req[r])] /\ req[r] \in Request
        BY <3>1, Moves DEF TypeOK
      <3>4. /\ req'[r].user = req[r].user /\ req'[r].crossed = req[r].crossed
            /\ req'[r].kind = req[r].kind /\ req[r].user \in Users
        BY <3>2, <3>3 DEF Request, Issuing, Revoking, Idle, At
      <3>5. Carries(r)
        BY <3>2, <3>4 DEF Carries, At
      <3>6. req'[r].key = req[r].key
        BY <3>1, <3>2, <3>5, GotoKeeps DEF Carries
      <3>7. ~ResetPassword(req[r].user)
        BY <3>2, <3>4 DEF ResetPassword, TypeOK
      <3> QED
        BY <3>4, <3>5, <3>6, <3>7
    <2>2. CASE UpsertExternalUser(r)
      <3>1. Goto(r, "session") /\ At(r, "upsert")
        BY <2>2 DEF UpsertExternalUser
      <3>2. req'[r].kind = req[r].kind
        BY <3>1, GotoKeeps
      <3>3. req[r].kind = "sso"
        BY <3>1 DEF At, TypeOK, Request, Issuing, Revoking, Idle
      <3> QED
        BY <3>2, <3>3 DEF Carries
    <2>3. CASE DeleteSessions(r)
      BY <2>3 DEF DeleteSessions, Carries, TypeOK, At
    <2>4. CASE CreateSession(r) \/ CreateConnectToken(r) \/ UpsertExtensionSession(r)
               \/ DeleteConnectTokens(r) \/ Abort(r)
      BY <2>4, Moves DEF CreateSession, CreateConnectToken, UpsertExtensionSession,
             DeleteConnectTokens, Abort, Carries, Idle, At
    <2>5. CASE \/ \E u \in Users : Login(r, u) \/ SsoSignIn(r, u) \/ RevokeAllSessions(r, u)
               \/ \E t \in Tokens : RevokeOtherSessions(r, t)
      BY <2>5, Begun DEF Carries
    <2>6. ASSUME NEW t \in Tokens, IssueConnectToken(r, t) PROVE Issued
      BY <2>6, Moves DEF IssueConnectToken, Resolves, tables
    <2>7. ASSUME NEW c \in Connects, NEW i \in Installations, ExchangeConnectToken(r, c, i)
          PROVE  Taken
      BY <2>7, Moves DEF ExchangeConnectToken
    <2> QED
      BY <1>3, <2>1, <2>2, <2>3, <2>4, <2>5, <2>6, <2>7 DEF RequestStep
  <1> QED
    BY <1>1, <1>2, <1>3, OthersRest

\* Where a revocation in progress comes from.
LEMMA RevokingBefore ==
    ASSUME TypeOK, [Next]_vars, NEW r \in Requests
    PROVE  /\ At(r, "sessions")' =>
                \/ At(r, "sessions") /\ req'[r] = req[r]
                \/ /\ req'[r].found \subseteq Rows(req'[r].user) /\ UNCHANGED sess
                   /\ req'[r].keep \notin req'[r].found
           /\ At(r, "tokens")' =>
                \/ At(r, "tokens") /\ req'[r] = req[r]
                \/ DeleteSessions(r)
  <1>1. CASE req'[r] = req[r]
    BY <1>1 DEF At
  <1>2. ASSUME NEW u \in Users, AdminStep(u)
        PROVE  /\ At(r, "sessions")' => At(r, "sessions") /\ req'[r] = req[r]
               /\ At(r, "tokens")' => At(r, "tokens") /\ req'[r] = req[r]
    <2>1. req[r] \in Issuing => req[r].pc \notin {"sessions", "tokens"}
      BY DEF Issuing
    <2> QED
      BY <1>2, <2>1, AdminKeeps DEF At
  <1>3. CASE RequestStep(r)
    <2>1. CASE CheckBlocked(r)
      <3>1. req'[r] = Idle \/ (At(r, "check") /\ Goto(r, AfterCheck(req[r])))
        BY <2>1, Moves DEF CheckBlocked, Finish
      <3>2. CASE At(r, "check") /\ Goto(r, AfterCheck(req[r]))
        <4>1. req[r].kind \in {"login", "sso", "connect", "exchange"}
          BY <3>2 DEF At, TypeOK, Request, Issuing, Revoking, Idle
        <4>2. AfterCheck(req[r]) \in {"session", "upsert", "token", "extension"}
          BY <4>1 DEF AfterCheck
        <4>3. req'[r].pc = AfterCheck(req[r])
          BY <3>2, GotoKeeps
        <4> QED
          BY <4>2, <4>3 DEF At
      <3> QED
        BY <3>1, <3>2 DEF Idle, At
    <2>2. CASE UpsertExternalUser(r)
      BY <2>2, GotoKeeps DEF UpsertExternalUser, At
    <2>3. CASE DeleteSessions(r)
      BY <2>3 DEF DeleteSessions, TypeOK, At
    <2>4. CASE CreateSession(r) \/ CreateConnectToken(r) \/ UpsertExtensionSession(r)
               \/ DeleteConnectTokens(r) \/ Abort(r)
      BY <2>4, Moves DEF CreateSession, CreateConnectToken, UpsertExtensionSession,
             DeleteConnectTokens, Abort, Idle, At
    <2>5. CASE \/ \E u \in Users : Login(r, u) \/ SsoSignIn(r, u)
               \/ \E t \in Tokens : IssueConnectToken(r, t)
               \/ \E c \in Connects, i \in Installations : ExchangeConnectToken(r, c, i)
      BY <2>5, Begun DEF At
    <2>6. ASSUME NEW u \in Users, RevokeAllSessions(r, u)
          PROVE  /\ ~At(r, "tokens")' /\ UNCHANGED sess
                 /\ req'[r].found \subseteq Rows(req'[r].user)
                 /\ req'[r].keep \notin req'[r].found
      BY <2>6, Moves, NonesAssumption DEF RevokeAllSessions, At, tables, Rows
    <2>7. ASSUME NEW t \in Tokens, RevokeOtherSessions(r, t)
          PROVE  /\ ~At(r, "tokens")' /\ UNCHANGED sess
                 /\ req'[r].found \subseteq Rows(req'[r].user)
                 /\ req'[r].keep \notin req'[r].found
      BY <2>7, Moves DEF RevokeOtherSessions, At, tables
    <2> QED
      BY <1>3, <2>1, <2>2, <2>3, <2>4, <2>5, <2>6, <2>7 DEF RequestStep
  <1> QED
    BY <1>1, <1>2, <1>3, OthersRest

LEMMA StatusBefore ==
    ASSUME TypeOK, [Next]_vars, NEW u \in Users, status'[u] = "blocked"
    PROVE  status[u] = "blocked" \/ Block(u)
  <1>1. ASSUME NEW v \in Users, AdminStep(v) PROVE status[u] = "blocked" \/ Block(u)
    BY <1>1 DEF AdminStep, Block, Unblock, ResetPassword, DeleteUser, TypeOK
  <1>2. ASSUME NEW r \in Requests, RequestStep(r) PROVE status[u] = "blocked"
    <2>1. CASE UpsertExternalUser(r)
      BY <2>1 DEF UpsertExternalUser, TypeOK
    <2>2. CASE ~UpsertExternalUser(r)
      BY <1>2, <2>2 DEF RequestStep, Login, SsoSignIn, RevokeAllSessions, IssueConnectToken,
             RevokeOtherSessions, ExchangeConnectToken, CheckBlocked, CreateSession,
             CreateConnectToken, UpsertExtensionSession, DeleteSessions,
             DeleteConnectTokens, Abort, tables
    <2> QED
      BY <2>1, <2>2
  <1>3. ASSUME NEW t \in Tokens, SessionStep(t) PROVE status[u] = "blocked"
    BY <1>3 DEF SessionStep, UnlockVault, LockVault, EndSession, SessionAges
  <1>4. CASE (\E c \in Connects : ConnectAges(c)) \/ PurgeExpired \/ UNCHANGED vars
    BY <1>4 DEF ConnectAges, PurgeExpired, vars, tables
  <1> QED
    BY <1>1, <1>2, <1>3, <1>4 DEF Next

LEMMA VaultBefore ==
    ASSUME TypeOK, [Next]_vars, NEW u \in Users
    PROVE  vault'[u] = vault[u] \/ ResetPassword(u)
  <1>1. ASSUME NEW v \in Users, AdminStep(v) PROVE vault'[u] = vault[u] \/ ResetPassword(u)
    BY <1>1 DEF AdminStep, Block, Unblock, ResetPassword, DeleteUser, TypeOK
  <1>2. ASSUME NEW r \in Requests, RequestStep(r) PROVE vault'[u] = vault[u]
    BY <1>2 DEF RequestStep, Login, SsoSignIn, RevokeAllSessions, IssueConnectToken,
           RevokeOtherSessions, ExchangeConnectToken, CheckBlocked, CreateSession,
           CreateConnectToken, UpsertExternalUser, UpsertExtensionSession, DeleteSessions,
           DeleteConnectTokens, Abort, tables
  <1>3. ASSUME NEW t \in Tokens, SessionStep(t) PROVE vault'[u] = vault[u]
    BY <1>3 DEF SessionStep, UnlockVault, LockVault, EndSession, SessionAges
  <1>4. CASE (\E c \in Connects : ConnectAges(c)) \/ PurgeExpired \/ UNCHANGED vars
    BY <1>4 DEF ConnectAges, PurgeExpired, vars, tables
  <1> QED
    BY <1>1, <1>2, <1>3, <1>4 DEF Next

\* A sign-out leaves no row of the account.
LEMMA SignedOut ==
    ASSUME TypeOK, NEW u \in Users, SignOut(u)
    PROVE  /\ \A t \in Tokens : sess'[t] # NoRow => sess'[t] = sess[t] /\ sess[t].user # u
           /\ \A c \in Connects : connect'[c] # NoRow => connect'[c] = connect[c] /\ connect[c].user # u
           /\ revoked' \subseteq revoked \cup Pending(u)
  BY DropShrinks DEF SignOut, Rows, Pending, Revoked, DropSessions

(***************************************************************************)
(* What was revoked                                                        *)
(***************************************************************************)

\* Which connect tokens and sessions a step may revoke.
LEMMA RevokedBefore ==
    ASSUME TypeOK, [Next]_vars, NEW x \in revoked'
    PROVE  \/ x \in revoked
           \/ /\ x \in Connects /\ connect[x] # NoRow /\ connect'[x] = NoRow /\ Shrinks
           \/ \E r \in Requests : /\ At(r, "tokens") /\ DeleteConnectTokens(r)
                                  /\ x \in req[r].found /\ sess'[x] # NoRow
  <1>1. ASSUME NEW u \in Users, AdminStep(u)
        PROVE  x \in revoked \/ (x \in Connects /\ connect[x] # NoRow /\ connect'[x] = NoRow)
    <2>1. SignOut(u) \/ UNCHANGED revoked
      BY <1>1 DEF AdminStep, Block, Unblock, ResetPassword, DeleteUser
    <2>2. CASE SignOut(u)
      <3>1. x \in revoked \cup Pending(u)
        BY <2>2, SignedOut
      <3>2. connect' = DropConnects(Pending(u))
        BY <2>2 DEF SignOut
      <3> QED
        BY <3>1, <3>2 DEF Pending, DropConnects
    <2> QED
      BY <2>1, <2>2
  <1>2. ASSUME NEW r \in Requests, DeleteConnectTokens(r)
        PROVE  \/ x \in revoked
               \/ x \in Connects /\ connect[x] # NoRow /\ connect'[x] = NoRow
               \/ At(r, "tokens") /\ x \in req[r].found /\ sess'[x] # NoRow
    BY <1>2 DEF DeleteConnectTokens, Revoked, Pending, DropConnects
  <1>3. ASSUME NEW r \in Requests, RequestStep(r), ~DeleteConnectTokens(r) PROVE x \in revoked
    BY <1>3 DEF RequestStep, Login, SsoSignIn, RevokeAllSessions, IssueConnectToken,
           RevokeOtherSessions, ExchangeConnectToken, CheckBlocked, CreateSession,
           CreateConnectToken, UpsertExternalUser, UpsertExtensionSession, DeleteSessions,
           Abort, tables
  <1>4. ASSUME NEW t \in Tokens, SessionStep(t) PROVE x \in revoked
    BY <1>4 DEF SessionStep, UnlockVault, LockVault, EndSession, SessionAges
  <1>5. CASE (\E c \in Connects : ConnectAges(c)) \/ PurgeExpired \/ UNCHANGED vars
    BY <1>5 DEF ConnectAges, PurgeExpired, vars, tables
  <1> QED
    BY <1>1, <1>2, <1>3, <1>4, <1>5, QuietAdmin, Dropping DEF Next

\* A connect token that is pending has made nothing.
LEMMA PendingIsUnused ==
    ASSUME TypeOK, OnePlace, NEW c \in Connects, connect[c] # NoRow
    PROVE  Unused(c)
  <1>1. \A t \in Tokens : sess[t] # NoRow => sess[t].from # c
    BY NonesAssumption DEF OnePlace, AConnectTokenIsExchangedOnce
  <1>2. \A r \in Requests : Exchanges(r) => req[r].from # c
    BY DEF OnePlace
  <1> QED
    BY <1>1, <1>2 DEF Unused

LEMMA UnusedShrinks ==
    ASSUME Shrinks, NEW c \in Connects, Unused(c)
    PROVE  Unused(c)'
  BY DEF Shrinks, Unused

\* What has come to nothing, and is not pending, comes to nothing.
LEMMA UnusedStays ==
    ASSUME TypeOK, [Next]_vars, NEW c \in Connects, connect[c] = NoRow, Unused(c)
    PROVE  Unused(c)'
  <1>1. CASE Shrinks
    BY <1>1, UnusedShrinks
  <1>2. ASSUME NEW r \in Requests, NEW d \in Connects, NEW i \in Installations,
               ExchangeConnectToken(r, d, i)
        PROVE  Unused(c)'
    <2>1. /\ d # c /\ UNCHANGED sess /\ req'[r].from = d
          /\ \A o \in Requests \ {r} : req'[o] = req[o]
      BY <1>2, Moves DEF ExchangeConnectToken
    <2> QED
      BY <2>1 DEF Unused, Exchanges, At
  <1>3. ASSUME NEW r \in Requests, CreateSession(r) PROVE Unused(c)'
    <2>1. NoConnect # c
      BY NonesAssumption
    <2> QED
      BY <1>3, <2>1, Signed DEF Unused
  <1>4. ASSUME NEW r \in Requests, CreateConnectToken(r) PROVE Unused(c)'
    <2>1. UNCHANGED sess /\ Finish(r)
      BY <1>4 DEF CreateConnectToken
    <2>2. \A o \in Requests : Exchanges(o)' => Exchanges(o) /\ req'[o] = req[o]
      BY <2>1, Moves DEF Exchanges, At, Idle
    <2> QED
      BY <2>1, <2>2 DEF Unused
  <1>5. ASSUME NEW r \in Requests, UpsertExtensionSession(r) PROVE Unused(c)'
    <2>1. Exchanges(r) /\ Finish(r)
      BY <1>5, RequestParts DEF UpsertExtensionSession, Exchanges, At
    <2>2. \A o \in Requests : Exchanges(o)' => Exchanges(o) /\ req'[o] = req[o]
      BY <2>1, Moves DEF Exchanges, At, Idle
    <2>3. ASSUME NEW t \in Tokens, sess'[t] # NoRow PROVE sess'[t].from # c
      <3>1. CASE SameSession(t)
        BY <3>1 DEF SameSession, Unused
      <3>2. ASSUME NEW o \in Requests, NewSession(t, o) PROVE sess'[t].from # c
        <4>1. At(o, "extension") => Exchanges(o)
          BY RequestParts DEF Exchanges, At
        <4> QED
          BY <3>2, <4>1, NonesAssumption DEF NewSession, Unused
      <3> QED
        BY <2>3, <3>1, <3>2, SessionBefore
    <2> QED
      BY <2>2, <2>3 DEF Unused
  <1> QED
    BY <1>1, <1>2, <1>3, <1>4, <1>5, QuietSteps, Dropping

LEMMA RevokedInit == Init => RevokedStaysRevoked
  BY DEF Init, RevokedStaysRevoked, At, Idle

LEMMA RevokedStep ==
    ASSUME TypeOK, OnePlace, RevokedStaysRevoked, [Next]_vars
    PROVE  RevokedStaysRevoked'
  <1>1. ASSUME NEW c \in revoked' \cap Connects PROVE connect'[c] = NoRow /\ Unused(c)'
    <2>1. CASE c \in revoked
      <3>1. connect[c] = NoRow /\ Unused(c)
        BY <1>1, <2>1 DEF RevokedStaysRevoked
      <3>2. connect'[c] = NoRow
        BY <1>1, <3>1, ConnectBefore DEF SameConnect, NewConnect
      <3> QED
        BY <1>1, <3>1, <3>2, UnusedStays
    <2>2. CASE connect[c] # NoRow /\ connect'[c] = NoRow /\ Shrinks
      BY <1>1, <2>2, PendingIsUnused, UnusedShrinks
    <2>3. ASSUME NEW r \in Requests, At(r, "tokens"), c \in req[r].found PROVE FALSE
      BY <1>1, <2>3, RequestParts, NonesAssumption
    <2> QED
      BY <1>1, <2>1, <2>2, <2>3, RevokedBefore
  <1>2. ASSUME NEW t \in revoked' \cap Tokens, sess'[t] # NoRow PROVE sess'[t].age # "live"
    <2>1. SameSession(t)
      BY <1>2, SessionBefore DEF NewSession
    <2>2. CASE t \in revoked
      BY <1>2, <2>1, <2>2 DEF SameSession, RevokedStaysRevoked
    <2>3. t \notin Connects
      BY NonesAssumption
    <2>4. ASSUME NEW r \in Requests, At(r, "tokens"), DeleteConnectTokens(r), t \in req[r].found
          PROVE  sess'[t].age # "live"
      <3>1. t \notin req[r].doomed
        BY <1>2, <2>4, DropShrinks DEF DeleteConnectTokens
      <3> QED
        BY <2>1, <2>4, <3>1 DEF SameSession, RevokedStaysRevoked
    <2> QED
      BY <1>2, <2>2, <2>3, <2>4, RevokedBefore
  <1>3. ASSUME NEW r \in Requests, At(r, "sessions")', NEW t \in req'[r].found
        PROVE  t # req'[r].keep /\ (sess'[t] # NoRow => sess'[t].user = req'[r].user)
    <2>1. CASE At(r, "sessions") /\ req'[r] = req[r]
      <3>1. t \in Tokens /\ t # req[r].keep /\ (sess[t] # NoRow => sess[t].user = req[r].user)
        BY <1>3, <2>1, RequestParts DEF RevokedStaysRevoked
      <3>2. ASSUME NEW o \in Requests PROVE ~NewSession(t, o)
        BY <1>3, <2>1 DEF NewSession, FreshToken, At
      <3> QED
        BY <2>1, <3>1, <3>2, SessionBefore DEF SameSession
    <2>2. CASE /\ req'[r].found \subseteq Rows(req'[r].user) /\ UNCHANGED sess
               /\ req'[r].keep \notin req'[r].found
      BY <1>3, <2>2 DEF Rows
    <2> QED
      BY <1>3, <2>1, <2>2, RevokingBefore
  <1>4. ASSUME NEW r \in Requests, At(r, "tokens")', NEW t \in req'[r].found \ req'[r].doomed,
               sess'[t] # NoRow
        PROVE  sess'[t].age # "live"
    <2>1. CASE At(r, "tokens") /\ req'[r] = req[r]
      <3>1. t \in Tokens /\ (sess[t] # NoRow => sess[t].age # "live")
        BY <1>4, <2>1, RequestParts DEF RevokedStaysRevoked
      <3>2. ASSUME NEW o \in Requests PROVE ~NewSession(t, o)
        BY <1>4, <2>1 DEF NewSession, FreshToken, At
      <3> QED
        BY <1>4, <3>1, <3>2, SessionBefore DEF SameSession
    <2>2. CASE DeleteSessions(r)
      <3>1. /\ At(r, "sessions") /\ UNCHANGED sess
            /\ req'[r].found = req[r].found
            /\ req'[r].doomed =
                 {s \in Rows(req[r].user) \ {req[r].keep} : sess[s].age = "live"}
        BY <2>2 DEF DeleteSessions, tables, TypeOK
      <3>2. t \in Tokens /\ t # req[r].keep /\ (sess[t] # NoRow => sess[t].user = req[r].user)
        BY <1>4, <3>1, RequestParts DEF RevokedStaysRevoked
      <3> QED
        BY <1>4, <3>1, <3>2 DEF Rows
    <2> QED
      BY <1>4, <2>1, <2>2, RevokingBefore
  <1> QED
    BY <1>1, <1>2, <1>3, <1>4 DEF RevokedStaysRevoked

LEMMA NothingRevoked ==
    ASSUME TypeOK, RevokedStaysRevoked
    PROVE  NothingRevokedIsUsed
  <1>1. ASSUME NEW t \in Tokens, sess[t] # NoRow, sess[t].age = "live"
        PROVE  t \notin revoked /\ sess[t].from \notin revoked
    <2>1. t \notin revoked
      BY <1>1 DEF RevokedStaysRevoked
    <2>2. sess[t].from \in Connects \cup {NoConnect}
      BY <1>1 DEF TypeOK, Session
    <2>3. NoConnect \notin revoked
      BY NonesAssumption DEF TypeOK
    <2> QED
      BY <1>1, <2>1, <2>2, <2>3 DEF RevokedStaysRevoked, Unused
  <1> QED
    BY <1>1 DEF NothingRevokedIsUsed, RevokedStaysRevoked

(***************************************************************************)
(* What a block overtakes                                                  *)
(***************************************************************************)

LEMMA BlockedInit == Init => BlockedIsOvertaken
  BY DEF Init, BlockedIsOvertaken, ABlockedUserHoldsNothing, PastItsCheck, Idle

LEMMA BlockedStep ==
    ASSUME TypeOK, BlockedIsOvertaken, [Next]_vars
    PROVE  BlockedIsOvertaken'
  <1>0. ASSUME NEW u \in Users, Block(u)
        PROVE  /\ \A t \in Tokens : sess'[t] # NoRow => sess'[t].user # u
               /\ \A c \in Connects : connect'[c] # NoRow => connect'[c].user # u
    BY <1>0, SignedOut DEF Block
  <1>1. ASSUME NEW t \in Tokens, sess'[t] # NoRow, status'[sess'[t].user] = "blocked",
               sess'[t].user \in Users
        PROVE  "block" \in sess'[t].crossed
    <2>1. status[sess'[t].user] = "blocked"
      BY <1>0, <1>1, StatusBefore
    <2>2. CASE SameSession(t)
      BY <1>1, <2>1, <2>2
      DEF SameSession, BlockedIsOvertaken, ABlockedUserHoldsNothing, Rows
    <2>3. ASSUME NEW r \in Requests, NewSession(t, r) PROVE "block" \in sess'[t].crossed
      BY <2>1, <2>3 DEF NewSession, BlockedIsOvertaken, PastItsCheck, At
    <2> QED
      BY <1>1, <2>2, <2>3, SessionBefore
  <1>2. ASSUME NEW c \in Connects, connect'[c] # NoRow, status'[connect'[c].user] = "blocked",
               connect'[c].user \in Users
        PROVE  "block" \in connect'[c].crossed
    <2>1. status[connect'[c].user] = "blocked"
      BY <1>0, <1>2, StatusBefore
    <2>2. CASE SameConnect(c)
      BY <1>2, <2>1, <2>2
      DEF SameConnect, BlockedIsOvertaken, ABlockedUserHoldsNothing, Pending
    <2>3. ASSUME NEW r \in Requests, NewConnect(c, r) PROVE "block" \in connect'[c].crossed
      BY <2>1, <2>3 DEF NewConnect, BlockedIsOvertaken, PastItsCheck, At
    <2> QED
      BY <1>2, <2>2, <2>3, ConnectBefore
  <1>3. ASSUME NEW r \in Requests, PastItsCheck(r)', status'[req'[r].user] = "blocked"
        PROVE  "block" \in req'[r].crossed
    <2>1. req'[r].user = req[r].user /\ req[r].user \in Users
      BY <1>3, PastBefore
    <2>2. CASE Block(req[r].user)
      BY <1>3, <2>2, PastBefore
    <2>3. CASE status[req[r].user] = "blocked"
      BY <1>3, <2>1, <2>3, PastBefore DEF BlockedIsOvertaken
    <2> QED
      BY <1>3, <2>1, <2>2, <2>3, StatusBefore
  <1> QED
    BY <1>1, <1>2, <1>3 DEF BlockedIsOvertaken, ABlockedUserHoldsNothing, Rows, Pending

(***************************************************************************)
(* What an account has given up stays given up, whatever is in flight:     *)
(* deleteSessions commits its sessions and connect tokens together, the    *)
(* administrators' transactions likewise, and after a block only what had  *)
(* passed its check before is written.                                     *)
(***************************************************************************)
THEOREM RevocationHolds == Spec => []RevocationIsFinal
  <1> DEFINE Inv == TypeOK /\ OnePlace /\ RevokedStaysRevoked /\ BlockedIsOvertaken
  <1>1. Init => Inv
    BY TypeInit, OnePlaceInit, RevokedInit, BlockedInit
  <1>2. Inv /\ [Next]_vars => Inv'
    BY TypeStep, OnePlaceStep, RevokedStep, BlockedStep
  <1>3. Inv => RevocationIsFinal
    BY NothingRevoked DEF RevocationIsFinal, BlockedIsOvertaken
  <1> QED
    BY <1>1, <1>2, <1>3, PTL DEF Spec

(***************************************************************************)
(* What a reset overtakes                                                  *)
(***************************************************************************)

LEMMA KeysInit == Init => KeysAreOvertaken
  BY DEF Init, KeysAreOvertaken, KeysAreTheCurrentVaults, Carries, At, Idle

LEMMA KeysStep ==
    ASSUME TypeOK, KeysAreOvertaken, [Next]_vars
    PROVE  KeysAreOvertaken'
  <1> DEFINE Fits(key, u, crossed) == key \in {NoKey, vault[u]} \/ "reset" \in crossed
  <1>0. ASSUME NEW u \in Users, ResetPassword(u)
        PROVE  /\ \A t \in Tokens : sess'[t] # NoRow => sess'[t].user # u
               /\ \A c \in Connects : connect'[c] # NoRow => connect'[c].user # u
    BY <1>0, SignedOut DEF ResetPassword
  <1>1. ASSUME NEW t \in Tokens, sess'[t] # NoRow
        PROVE  sess'[t].key \in {NoKey, vault'[sess'[t].user]} \/ "reset" \in sess'[t].crossed
    <2>1. CASE SameSession(t)
      <3>1. sess[t].user \in Users /\ sess'[t].user = sess[t].user
        BY <2>1 DEF SameSession, TypeOK, Session
      <3>2. vault'[sess[t].user] = vault[sess[t].user]
        BY <1>0, <1>1, <3>1, VaultBefore
      <3>3. Fits(sess[t].key, sess[t].user, sess[t].crossed)
        BY <2>1 DEF SameSession, KeysAreOvertaken, KeysAreTheCurrentVaults
      <3> QED
        BY <2>1, <3>1, <3>2, <3>3 DEF SameSession
    <2>2. ASSUME NEW r \in Requests, NewSession(t, r), At(r, "extension")
          PROVE  sess'[t].key \in {NoKey, vault'[sess'[t].user]} \/ "reset" \in sess'[t].crossed
      <3>1. Carries(r)
        BY <2>2, RequestParts DEF Carries, At
      <3>2. Fits(req[r].key, req[r].user, req[r].crossed)
        BY <3>1 DEF KeysAreOvertaken
      <3>3. /\ sess'[t].key = req[r].key /\ sess'[t].user = req[r].user
            /\ sess'[t].crossed = req[r].crossed /\ vault' = vault
        BY <2>2 DEF NewSession, At
      <3> QED
        BY <3>2, <3>3
    <2>3. ASSUME NEW r \in Requests, NewSession(t, r), ~At(r, "extension")
          PROVE  sess'[t].key = NoKey
      BY <2>3 DEF NewSession
    <2> QED
      BY <1>1, <2>1, <2>2, <2>3, SessionBefore
  <1>2. ASSUME NEW c \in Connects, connect'[c] # NoRow
        PROVE  \/ connect'[c].key \in {NoKey, vault'[connect'[c].user]}
               \/ "reset" \in connect'[c].crossed
    <2>1. CASE SameConnect(c)
      <3>1. connect[c].user \in Users /\ connect'[c].user = connect[c].user
        BY <2>1 DEF SameConnect, TypeOK, Connect
      <3>2. vault'[connect[c].user] = vault[connect[c].user]
        BY <1>0, <1>2, <3>1, VaultBefore
      <3>3. Fits(connect[c].key, connect[c].user, connect[c].crossed)
        BY <2>1 DEF SameConnect, KeysAreOvertaken, KeysAreTheCurrentVaults
      <3> QED
        BY <2>1, <3>1, <3>2, <3>3 DEF SameConnect
    <2>2. ASSUME NEW r \in Requests, NewConnect(c, r)
          PROVE  \/ connect'[c].key \in {NoKey, vault'[connect'[c].user]}
                 \/ "reset" \in connect'[c].crossed
      <3>1. Carries(r)
        BY <2>2, RequestParts DEF NewConnect, Carries, At
      <3>2. Fits(req[r].key, req[r].user, req[r].crossed)
        BY <3>1 DEF KeysAreOvertaken
      <3>3. /\ connect'[c].key = req[r].key /\ connect'[c].user = req[r].user
            /\ connect'[c].crossed = req[r].crossed /\ vault' = vault
        BY <2>2 DEF NewConnect
      <3> QED
        BY <3>2, <3>3
    <2> QED
      BY <1>2, <2>1, <2>2, ConnectBefore
  <1>3. ASSUME NEW r \in Requests, Carries(r)'
        PROVE  req'[r].key \in {NoKey, vault'[req'[r].user]} \/ "reset" \in req'[r].crossed
    <2>1. CASE /\ Carries(r) /\ req[r].user \in Users
               /\ req'[r].user = req[r].user /\ req'[r].key = req[r].key
               /\ req[r].crossed \subseteq req'[r].crossed
               /\ ResetPassword(req[r].user) => "reset" \in req'[r].crossed
      <3>1. Fits(req[r].key, req[r].user, req[r].crossed)
        BY <2>1 DEF KeysAreOvertaken
      <3>2. vault'[req[r].user] = vault[req[r].user] \/ ResetPassword(req[r].user)
        BY <2>1, VaultBefore
      <3> QED
        BY <2>1, <3>1, <3>2
    <2>2. ASSUME UNCHANGED vault, NEW t \in Tokens, sess[t] # NoRow,
                 req'[r].user = sess[t].user, req'[r].key = sess[t].key,
                 req'[r].crossed = sess[t].crossed \ {"block"}
          PROVE  req'[r].key \in {NoKey, vault'[req'[r].user]} \/ "reset" \in req'[r].crossed
      BY <2>2 DEF KeysAreOvertaken, KeysAreTheCurrentVaults
    <2>3. ASSUME UNCHANGED vault, NEW c \in Connects, connect[c] # NoRow,
                 req'[r].user = connect[c].user, req'[r].key = connect[c].key,
                 req'[r].crossed = connect[c].crossed \ {"block"}
          PROVE  req'[r].key \in {NoKey, vault'[req'[r].user]} \/ "reset" \in req'[r].crossed
      BY <2>3 DEF KeysAreOvertaken, KeysAreTheCurrentVaults
    <2> QED
      BY <1>3, <2>1, <2>2, <2>3, CarriedBefore
  <1> QED
    BY <1>1, <1>2, <1>3 DEF KeysAreOvertaken, KeysAreTheCurrentVaults

(***************************************************************************)
(* Nobody holds a former vault's key, except through a connect token that  *)
(* was in the making, or being exchanged, when the reset came              *)
(* (destroyVaultForReset takes sessions and pending tokens along, but not  *)
(* what a request has read: service.go:161 and 190).                       *)
(***************************************************************************)
THEOREM KeysStayCurrent == Spec => []KeysAreTheCurrentVaults
  <1>1. Init => TypeOK /\ KeysAreOvertaken
    BY TypeInit, KeysInit
  <1>2. TypeOK /\ KeysAreOvertaken /\ [Next]_vars => (TypeOK /\ KeysAreOvertaken)'
    BY TypeStep, KeysStep
  <1>3. KeysAreOvertaken => KeysAreTheCurrentVaults
    BY DEF KeysAreOvertaken
  <1> QED
    BY <1>1, <1>2, <1>3, PTL DEF Spec

=============================================================================
