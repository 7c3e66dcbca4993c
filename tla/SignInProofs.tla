---------------------------- MODULE SignInProofs ----------------------------
(***************************************************************************)
(* Theorems about SignIn for any accounts, browsers, replicas and requests *)
(* and any limits: the types, and that a browser holds a session of its    *)
(* own user only.                                                          *)
(*                                                                         *)
(* The second one is kept along the way a session takes.  Own says, of     *)
(* every place where an identity or a token rests, that it belongs to the  *)
(* browser it is on its way to: of the state in a browser's cookie, of a   *)
(* callback past the comparison, of a request about to issue a session, of *)
(* an answer, and of the cookie it becomes.                                *)
(*                                                                         *)
(* The bound of GuessesEndInALock is a binomial coefficient, which only    *)
(* induction would give for any number of requests; its cases of one and   *)
(* of two at a time are proved.  With one, what an attempt read of the     *)
(* count is what the count still is, and no wrong password since the last  *)
(* lock is missing from it.  With two, there is a price on where the two   *)
(* counts stand that they write over, and every wrong password lowers it.  *)
(*                                                                         *)
(* The last part is about Accounts, whose state is apart from SignIn's.    *)
(***************************************************************************)
EXTENDS SignIn, Accounts, FiniteSetTheorems, TLAPS

\* What each program counter says of a request.
LEMMA CallParts ==
    ASSUME TypeOK, NEW c \in Calls
    PROVE  /\ At(c, "password") => call[c] \in Attempt
           /\ At(c, "exchange") => call[c] \in Callback
           /\ At(c, "issue") => call[c] \in Issuing
           /\ At(c, "reply") => call[c] \in Answer
  BY DEF TypeOK, At, Idle, Attempt, Callback, Issuing, Answer

Request == {Idle} \cup Attempt \cup Callback \cup Issuing \cup Answer

\* One slot changes to a well-typed request, the others stay.
LEMMA GotoTypes ==
    ASSUME call \in [Calls -> Request], NEW c \in Calls, NEW q \in Request, Goto(c, q)
    PROVE  call' \in [Calls -> Request]
  BY DEF Goto

LEMMA ReplyTypes ==
    ASSUME call \in [Calls -> Request], NEW c \in Calls, NEW clears \in SUBSET Cookies,
           NEW t \in Tokens \cup {NoToken}, call[c].at \in Browsers, Reply(c, clears, t)
    PROVE  call' \in [Calls -> Request]
  <1>1. [pc |-> "reply", at |-> call[c].at, clears |-> clears, token |-> t] \in Request
    BY DEF Request, Answer
  <1> QED
    BY <1>1, GotoTypes DEF Reply

LEMMA FlowThere ==
    ASSUME TypeOK, NEW st \in States, NEW codes, HasCode(st, codes)
    PROVE  flow[st] \in Flow
  BY DEF HasCode, TypeOK

LEMMA TypeInit == Init => TypeOK
  BY SignInAssumption DEF Init, TypeOK, Login, Jar, Idle

LEMMA TypeStep == TypeOK /\ [Next]_vars => TypeOK'
  <1> SUFFICES ASSUME TypeOK, [Next]_vars PROVE TypeOK'
    OBVIOUS
  <1> USE SignInAssumption
  <1>0. call \in [Calls -> Request]
    BY DEF TypeOK, Request
  <1>1. ASSUME NEW c \in Calls, NEW b \in Browsers, NEW a \in Accounts,
               NEW right \in BOOLEAN, NEW r \in Replicas, NEW n \in Addresses,
               Password(c, b, a, right, r, n)
        PROVE  TypeOK'
    <2> DEFINE q == [pc |-> "password", at |-> b, account |-> a, right |-> right,
                     failed |-> login[a].failed, lock |-> login[a].lock]
    <2>1. q \in Request
      BY <1>1 DEF Password, TypeOK, Login, Request, Attempt
    <2>2. call' \in [Calls -> Request]
      BY <1>0, <1>1, <2>1 DEF Password, Begin
    <2>3. window' \in [Replicas \X Addresses -> 0 .. Limit]
      BY <1>1 DEF Password, Allow, TypeOK
    <2> QED
      BY <1>1, <2>2, <2>3 DEF Password, TypeOK, Request
  <1>2. ASSUME NEW c \in Calls, Wrong(c) PROVE TypeOK'
    <2>1. call[c] \in Attempt
      BY <1>2, CallParts DEF Wrong
    <2>2. call' \in [Calls -> Request]
      BY <1>0, <1>2, <2>1, ReplyTypes DEF Wrong, Attempt
    <2>3. login' \in [Accounts -> Login] /\ guesses' \in [Accounts -> Nat]
      <3> DEFINE a == call[c].account
                 count == call[c].failed + 1
      <3>1. a \in Accounts /\ count \in Nat /\ login[a] \in Login /\ guesses[a] \in Nat
        BY <2>1 DEF Attempt, TypeOK
      <3>2. RecordFailed(a, count)
        BY <1>2 DEF Wrong
      <3> HIDE DEF a, count
      <3>3. CASE UNCHANGED <<login, guesses>>
        BY <3>3 DEF TypeOK
      <3>4. CASE login' = [login EXCEPT ![a] = [login[a] EXCEPT !.failed = count, !.lock = "ahead"]]
                 /\ guesses' = [guesses EXCEPT ![a] = 0]
        <4>1. [login[a] EXCEPT !.failed = count, !.lock = "ahead"] \in Login
          BY <3>1 DEF Login
        <4> QED
          BY <3>1, <3>4, <4>1 DEF TypeOK
      <3>5. CASE login' = [login EXCEPT ![a] = [login[a] EXCEPT !.failed = count]]
                 /\ guesses' = [guesses EXCEPT ![a] = guesses[a] + 1]
        <4>1. [login[a] EXCEPT !.failed = count] \in Login
          BY <3>1 DEF Login
        <4> QED
          BY <3>1, <3>5, <4>1 DEF TypeOK
      <3> QED
        BY <3>1, <3>2, <3>3, <3>4, <3>5 DEF RecordFailed, TypeOK
    <2> QED
      BY <1>2, <2>2, <2>3 DEF Wrong, TypeOK, Request
  <1>3. ASSUME NEW c \in Calls, Right(c) PROVE TypeOK'
    <2>1. call[c] \in Attempt
      BY <1>3, CallParts DEF Right
    <2>2. [pc |-> "issue", at |-> call[c].at, account |-> call[c].account, clears |-> {}]
            \in Request
      BY <2>1 DEF Attempt, Issuing, Request
    <2>3. call' \in [Calls -> Request]
      BY <1>0, <1>3, <2>2, GotoTypes DEF Right
    <2>4. login' \in [Accounts -> Login] /\ guesses' \in [Accounts -> Nat]
      <3> DEFINE a == call[c].account
      <3>1. a \in Accounts /\ login[a] \in Login
        BY <2>1 DEF Attempt, TypeOK
      <3>2. [login[a] EXCEPT !.failed = 0, !.lock = "none"] \in Login
        BY <3>1 DEF Login
      <3>3. \/ /\ login' = [login EXCEPT ![a] = [login[a] EXCEPT !.failed = 0, !.lock = "none"]]
               /\ guesses' = [guesses EXCEPT ![a] = 0]
            \/ UNCHANGED <<login, guesses>>
        BY <1>3, <3>1 DEF Right, TypeOK
      <3> HIDE DEF a
      <3> QED
        BY <3>1, <3>2, <3>3 DEF TypeOK
    <2> QED
      BY <1>3, <2>3, <2>4 DEF Right, TypeOK, Request
  <1>4. ASSUME NEW c \in Calls, NEW b \in Browsers, NEW st \in States,
               MicrosoftCallback(c, b, st)
        PROVE  TypeOK'
    <2>1. [pc |-> "exchange", at |-> b, state |-> st] \in Request
      BY DEF Callback, Request
    <2>2. call' \in [Calls -> Request]
      BY <1>0, <1>4, <2>1 DEF MicrosoftCallback, Begin
    <2> QED
      BY <1>4, <2>2 DEF MicrosoftCallback, TypeOK, Request
  <1>5. ASSUME NEW c \in Calls, Exchange(c) PROVE TypeOK'
    <2>1. call[c] \in Callback
      BY <1>5, CallParts DEF Exchange
    <2> DEFINE st == call[c].state
    <2>2. st \in States /\ flow[st] \in Flow
      BY <1>5, <2>1, FlowThere DEF Exchange, TypeOK, Callback
    <2>3. [pc |-> "issue", at |-> call[c].at, account |-> Whose[flow[st].by],
           clears |-> {"state"}] \in Request
      BY <2>1, <2>2 DEF Callback, Flow, Issuing, Request, Cookies
    <2>4. call' \in [Calls -> Request]
      BY <1>0, <1>5, <2>3, GotoTypes DEF Exchange
    <2>5. flow' \in [States -> Flow \cup {NoFlow}]
      BY <1>5, <2>2 DEF Exchange, TypeOK, Flow
    <2> QED
      BY <1>5, <2>4, <2>5 DEF Exchange, TypeOK, Request
  <1>6. ASSUME NEW c \in Calls, ExchangeFails(c) PROVE TypeOK'
    <2>1. call[c] \in Callback
      BY <1>6, CallParts DEF ExchangeFails
    <2>2. call' \in [Calls -> Request]
      BY <1>0, <1>6, <2>1, ReplyTypes DEF ExchangeFails, Callback, Cookies
    <2>3. flow' \in [States -> Flow \cup {NoFlow}]
      <3> DEFINE st == call[c].state
      <3>1. st \in States /\ flow[st] \in Flow
        BY <1>6, <2>1, FlowThere DEF ExchangeFails, Callback
      <3>2. PICK code \in {flow[st].code, "spent"} : flow' = [flow EXCEPT ![st].code = code]
        BY <1>6 DEF ExchangeFails
      <3>3. code \in {"none", "live", "spent"}
        BY <3>1 DEF Flow
      <3> HIDE DEF st
      <3> QED
        BY <3>1, <3>2, <3>3 DEF TypeOK, Flow
    <2> QED
      BY <1>6, <2>2, <2>3 DEF ExchangeFails, TypeOK, Request
  <1>7. ASSUME NEW c \in Calls, IssueSession(c) PROVE TypeOK'
    <2>1. call[c] \in Issuing
      BY <1>7, CallParts DEF IssueSession
    <2>2. call' \in [Calls -> Request]
      BY <1>0, <1>7, <2>1, ReplyTypes DEF IssueSession, Issuing
    <2>3. session' \in [Tokens -> Session \cup {NoSession}]
      <3> DEFINE a == call[c].account
      <3>1. a \in Accounts
        BY <2>1 DEF Issuing
      <3>2. \/ UNCHANGED session
            \/ \E t \in Tokens : session' = [session EXCEPT ![t] = [of |-> a, live |-> TRUE]]
        BY <1>7 DEF IssueSession
      <3>3. [of |-> a, live |-> TRUE] \in Session
        BY <3>1 DEF Session
      <3> HIDE DEF a
      <3> QED
        BY <3>2, <3>3 DEF TypeOK
    <2> QED
      BY <1>7, <2>2, <2>3 DEF IssueSession, TypeOK, Request
  <1>8. ASSUME NEW c \in Calls, NEW b \in Browsers, Logout(c, b) PROVE TypeOK'
    <2>1. [pc |-> "reply", at |-> b, clears |-> {"token"}, token |-> NoToken] \in Request
      BY DEF Answer, Request, Cookies
    <2>2. call' \in [Calls -> Request]
      BY <1>0, <1>8, <2>1 DEF Logout, Begin
    <2>3. session' \in [Tokens -> Session \cup {NoSession}]
      <3> DEFINE t == jar[b].token
      <3>1. CASE t = NoToken \/ session[t] = NoSession
        BY <1>8, <3>1 DEF Logout, TypeOK
      <3>2. CASE ~(t = NoToken \/ session[t] = NoSession)
        <4>1. t \in Tokens /\ session[t] \in Session
          BY <3>2 DEF TypeOK, Jar
        <4>2. session' = [session EXCEPT ![t].live = FALSE]
          BY <1>8, <3>2 DEF Logout
        <4> HIDE DEF t
        <4> QED
          BY <4>1, <4>2 DEF TypeOK, Session
      <3> QED
        BY <3>1, <3>2
    <2> QED
      BY <1>8, <2>2, <2>3 DEF Logout, TypeOK, Request
  <1>9. ASSUME NEW c \in Calls, TakeReply(c) PROVE TypeOK'
    <2>1. call[c] \in Answer
      BY <1>9, CallParts DEF TakeReply
    <2>2. jar' \in [Browsers -> Jar]
      BY <1>9, <2>1 DEF TakeReply, Answer, TypeOK, Jar
    <2>3. call' \in [Calls -> Request]
      BY <1>0, <1>9, GotoTypes DEF TakeReply, Request
    <2> QED
      BY <1>9, <2>2, <2>3 DEF TakeReply, TypeOK, Request
  <1>10. ASSUME NEW c \in Calls, LoseReply(c) PROVE TypeOK'
    <2>1. call' \in [Calls -> Request]
      BY <1>0, <1>10, GotoTypes DEF LoseReply, Request
    <2> QED
      BY <1>10, <2>1 DEF LoseReply, TypeOK, Request
  <1>11. ASSUME NEW r \in Replicas, NEW n \in Addresses, WindowEnds(r, n) PROVE TypeOK'
    BY <1>11 DEF WindowEnds, TypeOK
  <1>12. ASSUME NEW a \in Accounts, LockEnds(a) PROVE TypeOK'
    BY <1>12 DEF LockEnds, TypeOK, Login
  <1>13. ASSUME NEW b \in Browsers, NEW st \in States, MicrosoftStart(b, st) PROVE TypeOK'
    BY <1>13 DEF MicrosoftStart, TypeOK, Jar, Flow
  <1>14. ASSUME NEW st \in States, SignInAtMicrosoft(st) PROVE TypeOK'
    BY <1>14, FlowThere DEF SignInAtMicrosoft, TypeOK, Flow
  <1>15. ASSUME NEW b \in Browsers, CookieEnds(b) PROVE TypeOK'
    BY <1>15 DEF CookieEnds, TypeOK, Jar
  <1>16. CASE UNCHANGED vars
    BY <1>16 DEF vars, TypeOK
  <1> QED
    BY <1>1, <1>2, <1>3, <1>4, <1>5, <1>6, <1>7, <1>8, <1>9, <1>10, <1>11, <1>12,
       <1>13, <1>14, <1>15, <1>16 DEF Next

(***************************************************************************)
(* Every reachable state is well typed.                                    *)
(***************************************************************************)
THEOREM SignInTypes == Spec => []TypeOK
  BY TypeInit, TypeStep, PTL DEF Spec

----------------------------------------------------------------------------
(* What belongs to a browser, in the sessions s and the sign-ins f. *)

\* A token that browser b holds, or is being sent.
TokenOf(b, t, s) == t # NoToken => s[t] # NoSession /\ s[t].of = Whose[b]

\* A state that browser b holds, or has presented.
StateOf(b, st, f) == st # NoState => f[st] # NoFlow /\ f[st].by = b

\* A request that is about its own browser's user.
Rightly(q, s, f) ==
    /\ q.pc = "password" => (q.right => q.account = Whose[q.at])
    /\ q.pc = "exchange" => StateOf(q.at, q.state, f)
    /\ q.pc = "issue" => q.account = Whose[q.at]
    /\ q.pc = "reply" => TokenOf(q.at, q.token, s)

OwnCookies ==
    \A b \in Browsers : TokenOf(b, jar[b].token, session) /\ StateOf(b, jar[b].state, flow)
OwnRequests == \A c \in Calls : Rightly(call[c], session, flow)
Own == OwnCookies /\ OwnRequests

\* Sessions and sign-ins never change hands and are never forgotten.
Kept ==
    /\ \A t \in Tokens : session[t] # NoSession =>
          session'[t] # NoSession /\ session'[t].of = session[t].of
    /\ \A st \in States : flow[st] # NoFlow =>
          flow'[st] # NoFlow /\ flow'[st].by = flow[st].by

LEMMA KeptStep == TypeOK /\ [Next]_vars => Kept
  <1> SUFFICES ASSUME TypeOK, [Next]_vars PROVE Kept
    OBVIOUS
  <1>1. CASE UNCHANGED <<session, flow>>
    BY <1>1 DEF Kept
  <1>2. ASSUME NEW c \in Calls, Exchange(c) \/ ExchangeFails(c) PROVE Kept
    <2>1. call[c] \in Callback
      BY <1>2, CallParts DEF Exchange, ExchangeFails
    <2> DEFINE st == call[c].state
    <2>2. st \in States /\ flow[st] \in Flow
      BY <1>2, <2>1, FlowThere DEF Exchange, ExchangeFails, Callback
    <2>3. \E code \in {flow[st].code, "spent"} : flow' = [flow EXCEPT ![st].code = code]
      BY <1>2 DEF Exchange, ExchangeFails
    <2>4. PICK code \in {flow[st].code, "spent"} : flow' = [flow EXCEPT ![st].code = code]
      BY <2>3
    <2>5. session' = session
      BY <1>2 DEF Exchange, ExchangeFails
    <2>6. code \in {"none", "live", "spent"}
      BY <2>2 DEF Flow
    <2> HIDE DEF st
    <2>7. flow'[st] = [flow[st] EXCEPT !.code = code]
      BY <2>2, <2>4 DEF TypeOK
    <2>8. flow'[st].by = flow[st].by /\ flow'[st] \in Flow
      BY <2>2, <2>6, <2>7 DEF Flow
    <2> QED
      BY <2>2, <2>4, <2>5, <2>8, NonesAssumption DEF Kept, TypeOK
  <1>3. ASSUME NEW c \in Calls, IssueSession(c) PROVE Kept
    <2>1. \/ UNCHANGED session
          \/ \E t \in Tokens : session[t] = NoSession
                /\ session' = [session EXCEPT ![t] = [of |-> call[c].account, live |-> TRUE]]
      BY <1>3 DEF IssueSession
    <2> QED
      BY <1>3, <2>1 DEF Kept, IssueSession, TypeOK
  <1>4. ASSUME NEW c \in Calls, NEW b \in Browsers, Logout(c, b) PROVE Kept
    <2> DEFINE t == jar[b].token
    <2>1. CASE t = NoToken \/ session[t] = NoSession
      BY <1>4, <2>1 DEF Logout, Kept
    <2>2. CASE ~(t = NoToken \/ session[t] = NoSession)
      <3>1. t \in Tokens /\ session[t] \in Session
        BY <2>2 DEF TypeOK, Jar
      <3>2. session' = [session EXCEPT ![t].live = FALSE] /\ flow' = flow
        BY <1>4, <2>2 DEF Logout
      <3> HIDE DEF t
      <3>3. session'[t] = [session[t] EXCEPT !.live = FALSE]
        BY <3>1, <3>2 DEF TypeOK
      <3>4. session'[t].of = session[t].of /\ session'[t] \in Session
        BY <3>1, <3>3 DEF Session
      <3> QED
        BY <3>1, <3>2, <3>4, NonesAssumption DEF Kept, TypeOK
    <2> QED
      BY <2>1, <2>2
  <1>5. ASSUME NEW b \in Browsers, NEW st \in States, MicrosoftStart(b, st) PROVE Kept
    BY <1>5 DEF MicrosoftStart, Kept, TypeOK
  <1>6. ASSUME NEW st \in States, SignInAtMicrosoft(st) PROVE Kept
    <2>1. flow[st] \in Flow /\ flow' = [flow EXCEPT ![st].code = "live"] /\ session' = session
      BY <1>6, FlowThere DEF SignInAtMicrosoft
    <2>2. flow'[st] = [flow[st] EXCEPT !.code = "live"]
      BY <2>1 DEF TypeOK
    <2>3. flow'[st].by = flow[st].by /\ flow'[st] \in Flow
      BY <2>1, <2>2 DEF Flow
    <2> QED
      BY <2>1, <2>3, NonesAssumption DEF Kept, TypeOK
  <1> QED
    BY <1>1, <1>2, <1>3, <1>4, <1>5, <1>6
    DEF Next, vars, Password, Wrong, Right, MicrosoftCallback, TakeReply, LoseReply,
        WindowEnds, LockEnds, CookieEnds

\* What belonged to a browser still does.
LEMMA KeptToken ==
    ASSUME Kept, NEW b, NEW t \in Tokens \cup {NoToken}, TokenOf(b, t, session)
    PROVE  TokenOf(b, t, session')
  BY DEF Kept, TokenOf

LEMMA KeptState ==
    ASSUME Kept, NEW b, NEW st \in States \cup {NoState}, StateOf(b, st, flow)
    PROVE  StateOf(b, st, flow')
  BY DEF Kept, StateOf

LEMMA KeptRequest ==
    ASSUME Kept, NEW q \in Request, Rightly(q, session, flow)
    PROVE  Rightly(q, session', flow')
  <1>1. q.pc = "exchange" => q.state \in States
    BY DEF Request, Idle, Attempt, Callback, Issuing, Answer
  <1>2. q.pc = "reply" => q.token \in Tokens \cup {NoToken}
    BY DEF Request, Idle, Attempt, Callback, Issuing, Answer
  <1> QED
    BY <1>1, <1>2, KeptToken, KeptState DEF Rightly

LEMMA KeptCookies ==
    ASSUME TypeOK, OwnCookies, Kept, UNCHANGED jar
    PROVE  OwnCookies'
  BY KeptToken, KeptState DEF OwnCookies, TypeOK, Jar

LEMMA KeptRequests ==
    ASSUME TypeOK, OwnRequests, Kept, UNCHANGED call
    PROVE  OwnRequests'
  BY KeptRequest DEF OwnRequests, TypeOK, Request

\* One slot goes on to a request that is about its own browser's user.
LEMMA OneRequest ==
    ASSUME TypeOK, OwnRequests, Kept, NEW c \in Calls, NEW q,
           call' = [call EXCEPT ![c] = q], Rightly(q, session', flow')
    PROVE  OwnRequests'
  BY KeptRequest DEF OwnRequests, TypeOK, Request

LEMMA OwnInit == Init => Own
  BY DEF Init, Own, OwnCookies, OwnRequests, TokenOf, StateOf, Rightly, Idle

LEMMA OwnStep == TypeOK /\ Own /\ [Next]_vars => Own'
  <1> SUFFICES ASSUME TypeOK, OwnCookies, OwnRequests, [Next]_vars PROVE Own'
    BY DEF Own
  <1>0. Kept
    BY KeptStep
  <1>1. ASSUME NEW c \in Calls, NEW b \in Browsers, NEW a \in Accounts,
               NEW right \in BOOLEAN, NEW r \in Replicas, NEW n \in Addresses,
               Password(c, b, a, right, r, n)
        PROVE  Own'
    <2> DEFINE q == [pc |-> "password", at |-> b, account |-> a, right |-> right,
                     failed |-> login[a].failed, lock |-> login[a].lock]
    <2>1. Rightly(q, session', flow')
      BY <1>1 DEF Password, Rightly
    <2>2. call' = [call EXCEPT ![c] = q] /\ UNCHANGED jar
      BY <1>1 DEF Password, Begin
    <2> HIDE DEF q
    <2> QED
      BY <1>0, <2>1, <2>2, OneRequest, KeptCookies DEF Own
  <1>2. ASSUME NEW c \in Calls, Wrong(c) PROVE Own'
    <2> DEFINE q == [pc |-> "reply", at |-> call[c].at, clears |-> {}, token |-> NoToken]
    <2>1. Rightly(q, session', flow')
      BY DEF Rightly, TokenOf
    <2>2. call' = [call EXCEPT ![c] = q] /\ UNCHANGED jar
      BY <1>2 DEF Wrong, Reply, Goto
    <2> HIDE DEF q
    <2> QED
      BY <1>0, <2>1, <2>2, OneRequest, KeptCookies DEF Own
  <1>3. ASSUME NEW c \in Calls, Right(c) PROVE Own'
    <2> DEFINE q == [pc |-> "issue", at |-> call[c].at, account |-> call[c].account,
                     clears |-> {}]
    <2>1. Rightly(q, session', flow')
      BY <1>3 DEF Right, OwnRequests, Rightly, At
    <2>2. call' = [call EXCEPT ![c] = q] /\ UNCHANGED jar
      BY <1>3 DEF Right, Goto
    <2> HIDE DEF q
    <2> QED
      BY <1>0, <2>1, <2>2, OneRequest, KeptCookies DEF Own
  <1>4. ASSUME NEW c \in Calls, NEW b \in Browsers, NEW st \in States,
               MicrosoftCallback(c, b, st)
        PROVE  Own'
    <2> DEFINE q == [pc |-> "exchange", at |-> b, state |-> st]
    <2>1. Rightly(q, session', flow')
      BY <1>4 DEF MicrosoftCallback, StateMatches, OwnCookies, Rightly
    <2>2. call' = [call EXCEPT ![c] = q] /\ UNCHANGED jar
      BY <1>4 DEF MicrosoftCallback, Begin
    <2> HIDE DEF q
    <2> QED
      BY <1>0, <2>1, <2>2, OneRequest, KeptCookies DEF Own
  <1>5. ASSUME NEW c \in Calls, Exchange(c) PROVE Own'
    <2> DEFINE st == call[c].state
               q == [pc |-> "issue", at |-> call[c].at, account |-> Whose[flow[st].by],
                     clears |-> {"state"}]
    <2>1. call[c] \in Callback
      BY <1>5, CallParts DEF Exchange
    <2>2. flow[st].by = call[c].at
      BY <1>5, <2>1, NonesAssumption DEF Exchange, OwnRequests, Rightly, At, StateOf, Callback
    <2>3. Rightly(q, session', flow')
      BY <2>2 DEF Rightly
    <2>4. call' = [call EXCEPT ![c] = q] /\ UNCHANGED jar
      BY <1>5 DEF Exchange, Goto
    <2> HIDE DEF q
    <2> QED
      BY <1>0, <2>3, <2>4, OneRequest, KeptCookies DEF Own
  <1>6. ASSUME NEW c \in Calls, ExchangeFails(c) PROVE Own'
    <2> DEFINE q == [pc |-> "reply", at |-> call[c].at, clears |-> {"state"},
                     token |-> NoToken]
    <2>1. Rightly(q, session', flow')
      BY DEF Rightly, TokenOf
    <2>2. call' = [call EXCEPT ![c] = q] /\ UNCHANGED jar
      BY <1>6 DEF ExchangeFails, Reply, Goto
    <2> HIDE DEF q
    <2> QED
      BY <1>0, <2>1, <2>2, OneRequest, KeptCookies DEF Own
  <1>7. ASSUME NEW c \in Calls, IssueSession(c) PROVE Own'
    <2> DEFINE q(t) == [pc |-> "reply", at |-> call[c].at, clears |-> call[c].clears,
                        token |-> t]
               a == call[c].account
    <2>1. a = Whose[call[c].at]
      BY <1>7 DEF IssueSession, OwnRequests, Rightly, At
    <2>2. UNCHANGED jar
      BY <1>7 DEF IssueSession
    <2>3. CASE login[a].blocked
      <3>1. Rightly(q(NoToken), session', flow')
        BY DEF Rightly, TokenOf
      <3>2. call' = [call EXCEPT ![c] = q(NoToken)]
        BY <1>7, <2>3 DEF IssueSession, Reply, Goto
      <3> HIDE DEF q
      <3> QED
        BY <1>0, <2>2, <3>1, <3>2, OneRequest, KeptCookies DEF Own
    <2>4. CASE ~login[a].blocked
      <3>1. PICK t \in Tokens :
              /\ session' = [session EXCEPT ![t] = [of |-> a, live |-> TRUE]]
              /\ call' = [call EXCEPT ![c] = q(t)]
        BY <1>7, <2>4 DEF IssueSession, Reply, Goto
      <3>2. session'[t] = [of |-> a, live |-> TRUE]
        BY <3>1 DEF TypeOK
      <3>3. [of |-> a, live |-> TRUE] # NoSession
        <4>1. a \in Accounts
          BY <1>7, CallParts DEF IssueSession, Issuing
        <4>2. [of |-> a, live |-> TRUE] \in Session
          BY <4>1 DEF Session
        <4> QED
          BY <4>2, NonesAssumption
      <3>4. Rightly(q(t), session', flow')
        BY <2>1, <3>2, <3>3 DEF Rightly, TokenOf
      <3> HIDE DEF q
      <3> QED
        BY <1>0, <2>2, <3>1, <3>4, OneRequest, KeptCookies DEF Own
    <2> QED
      BY <2>3, <2>4
  <1>8. ASSUME NEW c \in Calls, NEW b \in Browsers, Logout(c, b) PROVE Own'
    <2> DEFINE q == [pc |-> "reply", at |-> b, clears |-> {"token"}, token |-> NoToken]
    <2>1. Rightly(q, session', flow')
      BY DEF Rightly, TokenOf
    <2>2. call' = [call EXCEPT ![c] = q] /\ UNCHANGED jar
      BY <1>8 DEF Logout, Begin
    <2> HIDE DEF q
    <2> QED
      BY <1>0, <2>1, <2>2, OneRequest, KeptCookies DEF Own
  <1>9. ASSUME NEW c \in Calls, TakeReply(c) PROVE Own'
    <2>1. call[c] \in Answer
      BY <1>9, CallParts DEF TakeReply
    <2>2. call' = [call EXCEPT ![c] = Idle] /\ UNCHANGED <<session, flow>>
      BY <1>9 DEF TakeReply, Goto
    <2>3. OwnRequests'
      BY <1>0, <2>2, OneRequest DEF Rightly, Idle
    <2>4. TokenOf(call[c].at, call[c].token, session)
      BY <1>9 DEF TakeReply, OwnRequests, Rightly, At
    <2>5. ASSUME NEW b \in Browsers
          PROVE  TokenOf(b, jar'[b].token, session) /\ StateOf(b, jar'[b].state, flow)
      <3>1. CASE b # call[c].at
        <4>1. jar'[b] = jar[b]
          BY <1>9, <3>1 DEF TakeReply, TypeOK
        <4> QED
          BY <4>1 DEF OwnCookies
      <3>2. CASE b = call[c].at
        <4>1. jar'[b].token \in {call[c].token, NoToken, jar[b].token}
          BY <1>9, <2>1, <3>2 DEF TakeReply, TypeOK
        <4>2. jar'[b].state \in {NoState, jar[b].state}
          BY <1>9, <2>1, <3>2 DEF TakeReply, TypeOK
        <4> QED
          BY <2>4, <3>2, <4>1, <4>2 DEF OwnCookies, TokenOf, StateOf
      <3> QED
        BY <3>1, <3>2
    <2> QED
      BY <2>2, <2>3, <2>5 DEF Own, OwnCookies
  <1>10. ASSUME NEW c \in Calls, LoseReply(c) PROVE Own'
    <2>1. call' = [call EXCEPT ![c] = Idle] /\ UNCHANGED jar
      BY <1>10 DEF LoseReply, Goto
    <2> QED
      BY <1>0, <2>1, OneRequest, KeptCookies DEF Own, Rightly, Idle
  <1>11. CASE UNCHANGED <<jar, call>>
    BY <1>0, <1>11, KeptCookies, KeptRequests DEF Own
  <1>12. ASSUME NEW b \in Browsers, NEW st \in States, MicrosoftStart(b, st) PROVE Own'
    <2>1. OwnRequests'
      BY <1>0, <1>12, KeptRequests DEF MicrosoftStart
    <2>2. ASSUME NEW d \in Browsers
          PROVE  TokenOf(d, jar'[d].token, session') /\ StateOf(d, jar'[d].state, flow')
      <3>1. CASE d # b
        <4>1. jar'[d] = jar[d]
          BY <1>12, <3>1 DEF MicrosoftStart, TypeOK
        <4>2. jar[d].token \in Tokens \cup {NoToken} /\ jar[d].state \in States \cup {NoState}
          BY DEF TypeOK, Jar
        <4> QED
          BY <1>0, <4>1, <4>2, KeptToken, KeptState DEF OwnCookies
      <3>2. CASE d = b
        <4>1. jar'[b] = [jar[b] EXCEPT !.state = st] /\ jar[b] \in Jar
          BY <1>12 DEF MicrosoftStart, TypeOK
        <4>2. jar'[b].token = jar[b].token /\ jar'[b].state = st
          BY <4>1 DEF Jar
        <4>3. flow'[st] = [by |-> b, code |-> "none"]
          BY <1>12 DEF MicrosoftStart, TypeOK
        <4>4. flow'[st] # NoFlow /\ flow'[st].by = b
          BY <4>3, NonesAssumption DEF Flow
        <4>5. session' = session
          BY <1>12 DEF MicrosoftStart
        <4>6. TokenOf(b, jar[b].token, session')
          BY <4>5 DEF OwnCookies
        <4>7. StateOf(b, st, flow')
          BY <4>4 DEF StateOf
        <4> QED
          BY <3>2, <4>2, <4>6, <4>7
      <3> QED
        BY <3>1, <3>2
    <2> QED
      BY <2>1, <2>2 DEF Own, OwnCookies
  <1>13. ASSUME NEW b \in Browsers, CookieEnds(b) PROVE Own'
    <2>1. OwnRequests'
      BY <1>0, <1>13, KeptRequests DEF CookieEnds
    <2>2. ASSUME NEW d \in Browsers
          PROVE  /\ jar'[d].token \in {jar[d].token, NoToken}
                 /\ jar'[d].state \in {jar[d].state, NoState}
      BY <1>13 DEF CookieEnds, TypeOK, Jar
    <2>3. UNCHANGED <<session, flow>>
      BY <1>13 DEF CookieEnds
    <2> QED
      BY <2>1, <2>2, <2>3 DEF Own, OwnCookies, TokenOf, StateOf
  <1> QED
    BY <1>1, <1>2, <1>3, <1>4, <1>5, <1>6, <1>7, <1>8, <1>9, <1>10, <1>11, <1>12, <1>13
    DEF Next, vars, WindowEnds, LockEnds, SignInAtMicrosoft

(***************************************************************************)
(* A browser only ever holds a session of its own user (handleLogin,       *)
(* handleMicrosoftStart, handleMicrosoftCallback), for any accounts,       *)
(* browsers, tabs and replicas.                                            *)
(***************************************************************************)
THEOREM SessionsAreTheirOwn == Spec => []EachBrowserHoldsItsOwnSession
  <1>1. Init => TypeOK /\ Own
    BY TypeInit, OwnInit
  <1>2. TypeOK /\ Own /\ [Next]_vars => (TypeOK /\ Own)'
    BY TypeStep, OwnStep
  <1>3. Own => EachBrowserHoldsItsOwnSession
    BY DEF Own, OwnCookies, TokenOf, EachBrowserHoldsItsOwnSession
  <1> QED
    BY <1>1, <1>2, <1>3, PTL DEF Spec

----------------------------------------------------------------------------
(* The lock, when attempts follow one another. *)

OneSlot == \A c, d \in Calls : c = d

\* The count is written from the value it still has, and counts every guess.
Counted ==
    /\ \A c \in Calls : At(c, "password") => call[c].failed = login[call[c].account].failed
    /\ \A a \in Accounts : guesses[a] <= login[a].failed /\ guesses[a] < MaxFailed

LocksAtTheLimit == \A a \in Accounts : guesses[a] < MaxFailed

LEMMA CountedInit == Init => Counted
  BY SignInAssumption DEF Init, Counted, At, Idle

\* What a step does to the counts and to what requests have read of them: it
\* completes an attempt, or it changes no count and an attempt that it begins
\* reads its account's.
CountsStand ==
    /\ guesses' = guesses /\ \A a \in Accounts : login'[a].failed = login[a].failed
    /\ \A c \in Calls :
          \/ call'[c] = call[c]
          \/ /\ ~At(c, "password")
             /\ At(c, "password")' => call'[c].failed = login[call'[c].account].failed

LEMMA StepOnCounts ==
    ASSUME TypeOK, [Next]_vars
    PROVE  CountsStand \/ \E c \in Calls : Wrong(c) \/ Right(c)
  <1>t. /\ call \in [Calls -> {Idle} \cup Attempt \cup Callback \cup Issuing \cup Answer]
        /\ login \in [Accounts -> Login]
    BY DEF TypeOK
  <1>g. ASSUME NEW c \in Calls, NEW q, call' = [call EXCEPT ![c] = q], q.pc # "password",
               ~At(c, "password"), UNCHANGED <<login, guesses>>
        PROVE  CountsStand
    <2>1. call'[c] = q /\ \A e \in Calls \ {c} : call'[e] = call[e]
      BY <1>t, <1>g
    <2> QED
      BY <1>g, <2>1 DEF CountsStand, At
  <1>1. ASSUME NEW c \in Calls, NEW b \in Browsers, NEW a \in Accounts,
               NEW right \in BOOLEAN, NEW r \in Replicas, NEW n \in Addresses,
               Password(c, b, a, right, r, n)
        PROVE  CountsStand
    <2> DEFINE q == [pc |-> "password", at |-> b, account |-> a, right |-> right,
                     failed |-> login[a].failed, lock |-> login[a].lock]
    <2>1. call' = [call EXCEPT ![c] = q] /\ ~At(c, "password") /\ UNCHANGED <<login, guesses>>
      BY <1>t, <1>1 DEF Password, Begin, At
    <2>2. q.account = a /\ q.failed = login[a].failed
      OBVIOUS
    <2> HIDE DEF q
    <2>3. call'[c] = q /\ \A e \in Calls \ {c} : call'[e] = call[e]
      BY <1>t, <2>1
    <2> QED
      BY <2>1, <2>2, <2>3 DEF CountsStand, At
  <1>4. ASSUME NEW c \in Calls, NEW b \in Browsers, NEW st \in States,
               MicrosoftCallback(c, b, st)
        PROVE  CountsStand
    <2> DEFINE q == [pc |-> "exchange", at |-> b, state |-> st]
    <2>1. /\ call' = [call EXCEPT ![c] = q] /\ q.pc # "password" /\ ~At(c, "password")
          /\ UNCHANGED <<login, guesses>>
      BY <1>4 DEF MicrosoftCallback, Begin, At
    <2> HIDE DEF q
    <2> QED
      BY <1>g, <2>1
  <1>5. ASSUME NEW c \in Calls, Exchange(c) PROVE CountsStand
    <2> DEFINE q == [pc |-> "issue", at |-> call[c].at,
                     account |-> Whose[flow[call[c].state].by], clears |-> {"state"}]
    <2>1. /\ call' = [call EXCEPT ![c] = q] /\ q.pc # "password" /\ ~At(c, "password")
          /\ UNCHANGED <<login, guesses>>
      BY <1>5 DEF Exchange, Goto, At
    <2> HIDE DEF q
    <2> QED
      BY <1>g, <2>1
  <1>6. ASSUME NEW c \in Calls, NEW clears, NEW t, Reply(c, clears, t), ~At(c, "password"),
               UNCHANGED <<login, guesses>>
        PROVE  CountsStand
    <2> DEFINE q == [pc |-> "reply", at |-> call[c].at, clears |-> clears, token |-> t]
    <2>1. call' = [call EXCEPT ![c] = q] /\ q.pc # "password"
      BY <1>6 DEF Reply, Goto
    <2> HIDE DEF q
    <2> QED
      BY <1>g, <1>6, <2>1
  <1>7. ASSUME NEW c \in Calls, ExchangeFails(c) \/ IssueSession(c) PROVE CountsStand
    BY <1>6, <1>7 DEF ExchangeFails, IssueSession, At
  <1>8. ASSUME NEW c \in Calls, NEW b \in Browsers, Logout(c, b) PROVE CountsStand
    <2> DEFINE q == [pc |-> "reply", at |-> b, clears |-> {"token"}, token |-> NoToken]
    <2>1. /\ call' = [call EXCEPT ![c] = q] /\ q.pc # "password" /\ ~At(c, "password")
          /\ UNCHANGED <<login, guesses>>
      BY <1>8 DEF Logout, Begin, At
    <2> HIDE DEF q
    <2> QED
      BY <1>g, <2>1
  <1>9. ASSUME NEW c \in Calls, TakeReply(c) \/ LoseReply(c) PROVE CountsStand
    <2>1. call' = [call EXCEPT ![c] = Idle] /\ ~At(c, "password") /\ UNCHANGED <<login, guesses>>
      BY <1>9 DEF TakeReply, LoseReply, Goto, At
    <2>2. Idle.pc # "password"
      BY DEF Idle
    <2> QED
      BY <1>g, <2>1, <2>2
  <1>10. CASE UNCHANGED <<login, call, guesses>>
    BY <1>10 DEF CountsStand
  <1>11. ASSUME NEW a \in Accounts, LockEnds(a) PROVE CountsStand
    <2>1. login' = [login EXCEPT ![a].lock = "past"] /\ UNCHANGED <<call, guesses>>
      BY <1>11 DEF LockEnds
    <2>2. [login[a] EXCEPT !.lock = "past"].failed = login[a].failed
      BY <1>t DEF Login
    <2>3. \A o \in Accounts : login'[o].failed = login[o].failed
      BY <1>t, <2>1, <2>2
    <2> QED
      BY <2>1, <2>3 DEF CountsStand
  <1> QED
    BY <1>1, <1>4, <1>5, <1>7, <1>8, <1>9, <1>10, <1>11
    DEF Next, vars, WindowEnds, MicrosoftStart, SignInAtMicrosoft, CookieEnds

\* A wrong password writes one more than what it read, and locks or is a guess,
\* or its write is lost.
LEMMA WrongCounts ==
    ASSUME TypeOK, NEW c \in Calls, Wrong(c)
    PROVE  LET a == call[c].account
               count == call[c].failed + 1
           IN  /\ At(c, "password") /\ a \in Accounts /\ count \in Nat
               /\ \/ /\ login'[a].failed = count
                     /\ guesses'[a] = IF count >= MaxFailed THEN 0 ELSE guesses[a] + 1
                  \/ login'[a] = login[a] /\ guesses'[a] = guesses[a]
               /\ \A o \in Accounts \ {a} : login'[o] = login[o] /\ guesses'[o] = guesses[o]
               /\ ~At(c, "password")' /\ \A e \in Calls \ {c} : call'[e] = call[e]
  <1> DEFINE a == call[c].account
             count == call[c].failed + 1
  <1>t. /\ call \in [Calls -> {Idle} \cup Attempt \cup Callback \cup Issuing \cup Answer]
        /\ login \in [Accounts -> Login] /\ guesses \in [Accounts -> Nat]
    BY DEF TypeOK
  <1>1. call[c] \in Attempt /\ At(c, "password")
    BY CallParts DEF Wrong
  <1>2. a \in Accounts /\ login[a] \in Login /\ count \in Nat
    BY <1>t, <1>1 DEF Attempt
  <1>3. RecordFailed(a, count)
    BY DEF Wrong
  <1>4. ~At(c, "password")' /\ \A e \in Calls \ {c} : call'[e] = call[e]
    BY <1>t DEF Wrong, Reply, Goto, At
  <1> HIDE DEF a, count
  <1>5. \/ /\ login'[a].failed = count
           /\ guesses'[a] = IF count >= MaxFailed THEN 0 ELSE guesses[a] + 1
        \/ login'[a] = login[a] /\ guesses'[a] = guesses[a]
    <2>1. \/ count >= MaxFailed /\ guesses'[a] = 0
             /\ login'[a] = [login[a] EXCEPT !.failed = count, !.lock = "ahead"]
          \/ ~(count >= MaxFailed) /\ guesses'[a] = guesses[a] + 1
             /\ login'[a] = [login[a] EXCEPT !.failed = count]
          \/ login'[a] = login[a] /\ guesses'[a] = guesses[a]
      BY <1>t, <1>2, <1>3 DEF RecordFailed
    <2> QED
      BY <1>2, <2>1 DEF Login
  <1>6. \A o \in Accounts \ {a} : login'[o] = login[o] /\ guesses'[o] = guesses[o]
    BY <1>t, <1>2, <1>3 DEF RecordFailed
  <1> QED
    BY <1>1, <1>2, <1>4, <1>5, <1>6 DEF a, count

\* A right one sets the count to zero, or leaves it.
LEMMA RightCounts ==
    ASSUME TypeOK, NEW c \in Calls, Right(c)
    PROVE  LET a == call[c].account IN
           /\ At(c, "password") /\ a \in Accounts
           /\ \/ login'[a].failed = 0 /\ guesses'[a] = 0
              \/ login'[a] = login[a] /\ guesses'[a] = guesses[a]
           /\ \A o \in Accounts \ {a} : login'[o] = login[o] /\ guesses'[o] = guesses[o]
           /\ ~At(c, "password")' /\ \A e \in Calls \ {c} : call'[e] = call[e]
  <1> DEFINE a == call[c].account
  <1>t. /\ call \in [Calls -> {Idle} \cup Attempt \cup Callback \cup Issuing \cup Answer]
        /\ login \in [Accounts -> Login] /\ guesses \in [Accounts -> Nat]
    BY DEF TypeOK
  <1>1. call[c] \in Attempt /\ At(c, "password")
    BY CallParts DEF Right
  <1>2. a \in Accounts /\ login[a] \in Login
    BY <1>t, <1>1 DEF Attempt
  <1>3. \/ UNCHANGED <<login, guesses>>
        \/ /\ login' = [login EXCEPT ![a] = [login[a] EXCEPT !.failed = 0, !.lock = "none"]]
           /\ guesses' = [guesses EXCEPT ![a] = 0]
    BY <1>t, <1>2 DEF Right
  <1>4. ~At(c, "password")' /\ \A e \in Calls \ {c} : call'[e] = call[e]
    BY <1>t DEF Right, Goto, At
  <1> HIDE DEF a
  <1>5. [login[a] EXCEPT !.failed = 0, !.lock = "none"].failed = 0
    BY <1>2 DEF Login
  <1>6. /\ \/ login'[a].failed = 0 /\ guesses'[a] = 0
           \/ login'[a] = login[a] /\ guesses'[a] = guesses[a]
        /\ \A o \in Accounts \ {a} : login'[o] = login[o] /\ guesses'[o] = guesses[o]
    BY <1>t, <1>2, <1>3, <1>5
  <1> QED
    BY <1>1, <1>2, <1>4, <1>6 DEF a

LEMMA AttemptAfter ==
    ASSUME TypeOK', NEW c \in Calls, At(c, "password")'
    PROVE  call'[c] \in Attempt
  BY DEF TypeOK, At, Idle, Attempt, Callback, Issuing, Answer

LEMMA CountedStep ==
    ASSUME TypeOK, Counted, [Next]_vars, OneSlot
    PROVE  Counted'
  <1>1. CASE CountsStand
    <2>1. \A c \in Calls : At(c, "password") => call[c].account \in Accounts
      BY CallParts DEF Attempt
    <2>2. TypeOK'
      BY TypeStep
    <2>3. \A c \in Calls : At(c, "password")' => call'[c].account \in Accounts
      BY <2>2, AttemptAfter DEF Attempt
    <2> QED
      BY <1>1, <2>1, <2>3 DEF CountsStand, Counted, At
  <1>2. ASSUME NEW c \in Calls, Wrong(c) PROVE Counted'
    <2> DEFINE a == call[c].account
               count == call[c].failed + 1
    <2>1. /\ At(c, "password") /\ a \in Accounts /\ count \in Nat
          /\ \/ /\ login'[a].failed = count
                /\ guesses'[a] = IF count >= MaxFailed THEN 0 ELSE guesses[a] + 1
             \/ login'[a] = login[a] /\ guesses'[a] = guesses[a]
          /\ \A o \in Accounts \ {a} : login'[o] = login[o] /\ guesses'[o] = guesses[o]
          /\ ~At(c, "password")'
      BY <1>2, WrongCounts
    <2>2. call[c].failed = login[a].failed /\ guesses[a] <= login[a].failed
          /\ login[a].failed \in Nat /\ guesses[a] \in Nat /\ guesses[a] < MaxFailed
      BY <2>1 DEF Counted, TypeOK, Login
    <2>3. guesses'[a] <= login'[a].failed /\ guesses'[a] < MaxFailed
      BY <2>1, <2>2, SignInAssumption
    <2>4. \A e \in Calls : ~At(e, "password")'
      BY <2>1 DEF OneSlot
    <2> HIDE DEF a, count
    <2> QED
      BY <2>1, <2>3, <2>4 DEF Counted
  <1>3. ASSUME NEW c \in Calls, Right(c) PROVE Counted'
    <2> DEFINE a == call[c].account
    <2>1. /\ a \in Accounts
          /\ \/ login'[a].failed = 0 /\ guesses'[a] = 0
             \/ login'[a] = login[a] /\ guesses'[a] = guesses[a]
          /\ \A o \in Accounts \ {a} : login'[o] = login[o] /\ guesses'[o] = guesses[o]
          /\ ~At(c, "password")'
      BY <1>3, RightCounts
    <2>2. \A e \in Calls : ~At(e, "password")'
      BY <2>1 DEF OneSlot
    <2> HIDE DEF a
    <2> QED
      BY <2>1, <2>2, SignInAssumption DEF Counted
  <1> QED
    BY <1>1, <1>2, <1>3, StepOnCounts

(***************************************************************************)
(* Of wrong passwords that are tried one after another and whose writes    *)
(* succeed, at the latest the MaxFailed-th locks the account, whatever     *)
(* right ones, lost writes, lapsed locks and replicas come between         *)
(* (Authenticate, recordFailedLogin).                                      *)
(***************************************************************************)
THEOREM AttemptsInTurnLock ==
    ASSUME OneSlot
    PROVE  Spec => []LocksAtTheLimit
  <1>1. Init => TypeOK /\ Counted
    BY TypeInit, CountedInit
  <1>2. TypeOK /\ Counted /\ [Next]_vars => (TypeOK /\ Counted)'
    BY TypeStep, CountedStep
  <1>3. Counted => LocksAtTheLimit
    BY DEF Counted, LocksAtTheLimit
  <1> QED
    BY <1>1, <1>2, <1>3, PTL DEF Spec

----------------------------------------------------------------------------
(* The same for two requests at a time.  Cost bounds twice the number of    *)
(* wrong passwords that two requests can still spend before the lock, from  *)
(* how far below the limit the count lies that each of them writes over.    *)

TwoSlots == \E c, d \in Calls : \A e \in Calls : e \in {c, d}

\* How far below the limit a count is.
Room(n) == IF n < MaxFailed THEN MaxFailed - n ELSE 0

\* The count that an attempt on a would write over: what the request has read, or
\* what it would read now, should its write be lost.
Seen(c, a) ==
    IF At(c, "password") /\ call[c].account = a /\ call[c].failed <= login[a].failed
      THEN call[c].failed ELSE login[a].failed

Below(n) == IF n = 0 THEN 0 ELSE n - 1
Cost(x, y) ==
    IF x >= y THEN 2 * Below(y) + x * Below(x) ELSE 2 * Below(x) + y * Below(y)

Budget == MaxFailed * (MaxFailed + 1) - 2

Affordable ==
    \A a \in Accounts, c, d \in Calls :
        (\A e \in Calls : e \in {c, d}) =>
            2 * guesses[a] + Cost(Room(Seen(c, a)), Room(Seen(d, a))) <= Budget

LocksWithTwo == \A a \in Accounts : 2 * guesses[a] < MaxFailed * (MaxFailed + 1)

\* Products of naturals grow with their factors.
LEMMA ProductsGrow ==
    ASSUME NEW x \in Nat, NEW y \in Nat, NEW m \in Nat, NEW n \in Nat, x <= m, y <= n
    PROVE  x * y <= m * n /\ x * y \in Nat
  <1>1. x * y <= m * y /\ x * y \in Nat
    OBVIOUS
  <1>2. m * y <= m * n /\ m * y \in Nat /\ m * n \in Nat
    OBVIOUS
  <1> QED
    BY <1>1, <1>2

LEMMA BelowGrows ==
    ASSUME NEW x \in Nat, NEW y \in Nat, x <= y
    PROVE  Below(x) <= Below(y) /\ Below(x) \in Nat /\ Below(y) \in Nat /\ Below(x) <= x
  BY DEF Below

\* What is left costs no more when the counts have gone up.
LEMMA CostGrows ==
    ASSUME NEW x \in Nat, NEW y \in Nat, NEW m \in Nat, NEW n \in Nat, x <= m, y <= n
    PROVE  Cost(x, y) <= Cost(m, n) /\ Cost(x, y) \in Nat
  <1>1. /\ Below(x) <= Below(m) /\ Below(y) <= Below(n)
        /\ \A z \in {x, y, m, n} : Below(z) \in Nat
    BY BelowGrows
  <1>2. /\ x * Below(x) <= m * Below(m) /\ y * Below(y) <= n * Below(n)
        /\ \A z \in {x, y, m, n} : z * Below(z) \in Nat
    <2>1. \A z \in {x, y, m, n} : z \in Nat /\ Below(z) \in Nat /\ z <= z /\ Below(z) <= Below(z)
      BY <1>1
    <2> QED
      BY <1>1, <2>1, ProductsGrow
  <1>3. /\ x <= n => x * Below(x) <= n * Below(n) /\ Below(x) <= Below(n)
        /\ y <= m => y * Below(y) <= m * Below(m) /\ Below(y) <= Below(m)
    BY <1>1, BelowGrows, ProductsGrow
  <1> QED
    BY <1>1, <1>2, <1>3 DEF Cost

LEMMA CostIsFair ==
    ASSUME NEW x \in Nat, NEW y \in Nat
    PROVE  Cost(x, y) = Cost(y, x)
  BY DEF Cost

\* A wrong password that does not lock costs what it takes.
LEMMA CostOfAGuess ==
    ASSUME NEW x \in Nat, NEW y \in Nat, x >= 2
    PROVE  Cost(x - 1, y) + 2 <= Cost(x, y) /\ Cost(x - 1, x - 1) + 2 <= Cost(x, y)
  <1>1. /\ x - 1 \in Nat /\ Below(x) = x - 1 /\ Below(x - 1) = x - 2
        /\ Below(y) \in Nat /\ y * Below(y) \in Nat
    BY DEF Below
  <1>2. x * (x - 1) = (x - 1) * (x - 2) + 2 * (x - 1) /\ x * (x - 1) \in Nat
    <2> DEFINE z == x - 1
    <2>1. z \in Nat /\ x = z + 1 /\ x - 2 = z - 1
      OBVIOUS
    <2> HIDE DEF z
    <2>2. (z + 1) * z = z * z + z /\ z * (z - 1) = z * z - z /\ z * z \in Nat
      BY <2>1
    <2>3. (z + 1) * z = z * (z - 1) + 2 * z /\ (z + 1) * z \in Nat
      BY <2>1, <2>2
    <2> QED
      BY <2>1, <2>3 DEF z
  <1> DEFINE p == x * (x - 1)
             q == (x - 1) * (x - 2)
             r == y * Below(y)
  <1>3. p = q + 2 * (x - 1) /\ p \in Nat /\ q \in Int /\ r \in Nat
    BY <1>1, <1>2
  <1>4. Cost(x - 1, x - 1) = 2 * (x - 2) + q
    BY <1>1 DEF Cost
  <1>5. /\ x >= y => Cost(x, y) = 2 * Below(y) + p
        /\ y > x => Cost(x, y) = 2 * (x - 1) + r /\ Cost(x - 1, y) = 2 * (x - 2) + r
        /\ x - 1 >= y => Cost(x - 1, y) = 2 * Below(y) + q
        /\ x = y => Cost(x - 1, y) = 2 * (x - 2) + r /\ r = p /\ Below(y) = x - 1
    BY <1>1 DEF Cost
  <1>6. y > x => p <= r
    BY <1>1, BelowGrows, ProductsGrow
  <1> HIDE DEF p, q, r
  <1> QED
    BY <1>1, <1>3, <1>4, <1>5, <1>6

LEMMA RoomParts ==
    ASSUME NEW n \in Nat
    PROVE  /\ Room(n) \in Nat /\ Room(n) <= MaxFailed
           /\ n + 1 < MaxFailed => Room(n) >= 2 /\ Room(n + 1) = Room(n) - 1
  BY SignInAssumption DEF Room

\* From a count of zero and no guess, both requests can be afforded.
LEMMA BudgetIsEnough ==
    ASSUME NEW x \in Nat, NEW y \in Nat, x <= MaxFailed, y <= MaxFailed
    PROVE  Cost(x, y) <= Budget
  <1> DEFINE M == MaxFailed
  <1>1. M \in Nat /\ M >= 1
    BY SignInAssumption
  <1> HIDE DEF M
  <1>2. Cost(M, M) = 2 * (M - 1) + M * (M - 1)
    BY <1>1 DEF Cost, Below
  <1>3. M * (M - 1) = M * M - M /\ M * (M + 1) = M * M + M /\ M * M \in Nat
    BY <1>1
  <1>4. Cost(M, M) = M * (M + 1) - 2
    BY <1>1, <1>2, <1>3
  <1> QED
    BY <1>1, <1>4, CostGrows DEF M, Budget

LEMMA SeenIsACount ==
    ASSUME TypeOK, NEW c \in Calls, NEW a \in Accounts
    PROVE  Seen(c, a) \in Nat
  <1>1. At(c, "password") => call[c].failed \in Nat
    BY CallParts DEF Attempt
  <1>2. login[a].failed \in Nat
    BY DEF TypeOK, Login
  <1> QED
    BY <1>1, <1>2 DEF Seen

LEMMA SeenIsACountAfter ==
    ASSUME TypeOK', NEW c \in Calls, NEW a \in Accounts
    PROVE  Seen(c, a)' \in Nat
  <1>1. At(c, "password")' => call'[c].failed \in Nat
    BY AttemptAfter DEF Attempt
  <1>2. login'[a].failed \in Nat
    BY DEF TypeOK, Login
  <1> QED
    BY <1>1, <1>2 DEF Seen, At

LEMMA AffordableInit == Init => Affordable
  <1> SUFFICES ASSUME Init, NEW a \in Accounts, NEW c \in Calls, NEW d \in Calls
               PROVE  2 * guesses[a] + Cost(Room(Seen(c, a)), Room(Seen(d, a))) <= Budget
    BY DEF Affordable
  <1>1. guesses[a] = 0 /\ TypeOK
    BY TypeInit DEF Init
  <1>2. \A e \in Calls : Room(Seen(e, a)) \in Nat /\ Room(Seen(e, a)) <= MaxFailed
    BY <1>1, SeenIsACount, RoomParts
  <1>3. Cost(Room(Seen(c, a)), Room(Seen(d, a))) \in Nat
    BY <1>2, CostGrows
  <1> QED
    BY <1>1, <1>2, <1>3, BudgetIsEnough

\* Where no count of an account goes down and no guess is added, all stays affordable.
LEMMA StillAffordable ==
    ASSUME TypeOK, TypeOK', Affordable, NEW a \in Accounts, NEW c \in Calls, NEW d \in Calls,
           \A e \in Calls : e \in {c, d},
           \/ guesses'[a] = 0
           \/ guesses'[a] = guesses[a] /\ \A e \in Calls : Room(Seen(e, a)') <= Room(Seen(e, a))
    PROVE  2 * guesses'[a] + Cost(Room(Seen(c, a)'), Room(Seen(d, a)')) <= Budget
  <1>1. /\ \A e \in Calls : Room(Seen(e, a)) \in Nat
        /\ \A e \in Calls : Room(Seen(e, a)') \in Nat /\ Room(Seen(e, a)') <= MaxFailed
    BY SeenIsACount, SeenIsACountAfter, RoomParts
  <1>2. Cost(Room(Seen(c, a)'), Room(Seen(d, a)')) <= Budget
    BY <1>1, BudgetIsEnough
  <1>3. Cost(Room(Seen(c, a)'), Room(Seen(d, a)')) \in Nat
        /\ Cost(Room(Seen(c, a)), Room(Seen(d, a))) \in Nat
    BY <1>1, CostGrows
  <1>4. guesses[a] \in Nat /\ Budget \in Int
    BY SignInAssumption DEF TypeOK, Budget
  <1>5. CASE guesses'[a] = 0
    BY <1>2, <1>3, <1>5
  <1>6. CASE guesses'[a] = guesses[a] /\ \A e \in Calls : Room(Seen(e, a)') <= Room(Seen(e, a))
    <2>1. Cost(Room(Seen(c, a)'), Room(Seen(d, a)')) <= Cost(Room(Seen(c, a)), Room(Seen(d, a)))
      BY <1>1, <1>6, CostGrows
    <2>2. 2 * guesses[a] + Cost(Room(Seen(c, a)), Room(Seen(d, a))) <= Budget
      BY DEF Affordable
    <2> QED
      BY <1>3, <1>4, <1>6, <2>1, <2>2
  <1> QED
    BY <1>5, <1>6

LEMMA AffordableStep ==
    ASSUME TypeOK, Affordable, [Next]_vars
    PROVE  Affordable'
  <1>t. TypeOK'
    BY TypeStep
  <1> SUFFICES ASSUME NEW a \in Accounts, NEW c \in Calls, NEW d \in Calls,
                      \A e \in Calls : e \in {c, d}
               PROVE  2 * guesses'[a] + Cost(Room(Seen(c, a)'), Room(Seen(d, a)')) <= Budget
    BY DEF Affordable, Room, Budget, Cost, Below
  <1>r. \A e \in Calls : /\ Seen(e, a) \in Nat /\ Seen(e, a)' \in Nat
                         /\ Room(Seen(e, a)) \in Nat /\ Room(Seen(e, a)) <= MaxFailed
                         /\ Room(Seen(e, a)') \in Nat /\ Room(Seen(e, a)') <= MaxFailed
    BY <1>t, SeenIsACount, SeenIsACountAfter, RoomParts
  <1>1. CASE CountsStand
    <2>1. guesses'[a] = guesses[a] /\ login'[a].failed = login[a].failed
      BY <1>1 DEF CountsStand
    <2>2. ASSUME NEW e \in Calls PROVE Seen(e, a)' = Seen(e, a)
      BY <1>1, <2>1 DEF CountsStand, Seen, At
    <2>3. \A e \in Calls : Room(Seen(e, a)') <= Room(Seen(e, a))
      BY <1>r, <2>2
    <2> QED
      BY <1>t, <2>1, <2>3, StillAffordable
  <1>2. ASSUME NEW e \in Calls, Wrong(e)
        PROVE  2 * guesses'[a] + Cost(Room(Seen(c, a)'), Room(Seen(d, a)')) <= Budget
    <2> DEFINE to == call[e].account
               count == call[e].failed + 1
    <2>1. /\ At(e, "password") /\ to \in Accounts /\ count \in Nat
          /\ \/ /\ login'[to].failed = count
                /\ guesses'[to] = IF count >= MaxFailed THEN 0 ELSE guesses[to] + 1
             \/ login'[to] = login[to] /\ guesses'[to] = guesses[to]
          /\ \A o \in Accounts \ {to} : login'[o] = login[o] /\ guesses'[o] = guesses[o]
          /\ ~At(e, "password")' /\ \A o \in Calls \ {e} : call'[o] = call[o]
      BY <1>2, WrongCounts
    <2>2. a = to => Seen(e, a) <= count - 1
      BY <1>r, <2>1, CallParts DEF Seen, Attempt
    <2> HIDE DEF count
    <2>0. \A o \in Calls : At(o, "password") => call[o].failed \in Nat
      BY CallParts DEF Attempt
    <2>3. CASE login'[a] = login[a] /\ guesses'[a] = guesses[a]
      <3>1. \A o \in Calls : Seen(o, a) <= Seen(o, a)'
        BY <1>r, <2>0, <2>1, <2>3 DEF Seen, At, TypeOK, Login
      <3>2. \A o \in Calls : Room(Seen(o, a)') <= Room(Seen(o, a))
        BY <1>r, <3>1, SignInAssumption DEF Room
      <3> QED
        BY <1>t, <2>3, <3>2, StillAffordable
    <2>4. CASE guesses'[a] = 0
      BY <1>t, <2>4, StillAffordable
    <2>5. CASE /\ a = to /\ ~(count >= MaxFailed)
               /\ login'[a].failed = count /\ guesses'[a] = guesses[a] + 1
      <3> DEFINE x == Room(Seen(e, a))
      <3>1. guesses'[a] = guesses[a] + 1 /\ guesses[a] \in Nat
        BY <2>5 DEF TypeOK
      <3>2. Seen(e, a)' = count
        BY <2>1, <2>5 DEF Seen, At
      <3>3. x >= 2 /\ Room(Seen(e, a)') <= x - 1
        BY <1>r, <2>1, <2>2, <2>5, <3>2, SignInAssumption DEF Room
      <3>4. \A o \in Calls \ {e} : Seen(o, a)' >= Seen(o, a) \/ Seen(o, a)' = count
        <4>1. login[a].failed \in Nat
          BY DEF TypeOK, Login
        <4> QED
          BY <2>0, <2>1, <2>5, <4>1 DEF Seen, At
      <3>5. PICK o \in Calls : {c, d} = {e, o}
        OBVIOUS
      <3> DEFINE y == Room(Seen(o, a))
                 z == Room(Seen(o, a)')
                 w == Room(Seen(e, a)')
      <3>6. z <= y \/ z <= x - 1
        <4>1. CASE o = e
          BY <3>3, <4>1
        <4>2. CASE o # e
          <5>1. CASE Seen(o, a)' >= Seen(o, a)
            BY <1>r, <5>1, SignInAssumption DEF Room
          <5>2. CASE Seen(o, a)' = count
            BY <3>2, <3>3, <5>2
          <5> QED
            BY <3>4, <4>2, <5>1, <5>2
        <4> QED
          BY <4>1, <4>2
      <3>7. /\ x \in Nat /\ y \in Nat /\ z \in Nat /\ w \in Nat /\ x - 1 \in Nat
            /\ w <= x - 1
        BY <1>r, <3>3
      <3>8. 2 * guesses[a] + Cost(x, y) <= Budget
        BY <3>5 DEF Affordable
      <3>9. Cost(Room(Seen(c, a)'), Room(Seen(d, a)')) = Cost(w, z)
        <4>1. (c = e /\ d = o) \/ (c = o /\ d = e)
          BY <3>5
        <4>2. Cost(w, z) = Cost(z, w)
          BY <3>7, CostIsFair
        <4> QED
          BY <4>1, <4>2
      <3> HIDE DEF x, y, z, w
      <3>10. Cost(w, z) + 2 <= Cost(x, y) /\ Cost(x, y) \in Nat /\ Cost(w, z) \in Nat
        <4>1. Cost(x - 1, y) + 2 <= Cost(x, y) /\ Cost(x - 1, x - 1) + 2 <= Cost(x, y)
          BY <3>3, <3>7, CostOfAGuess DEF x
        <4>2. Cost(x, y) \in Nat /\ Cost(w, z) \in Nat
          <5>1. x <= x /\ y <= y /\ z <= z /\ w <= w
            BY <3>7
          <5> QED
            BY <3>7, <5>1, CostGrows
        <4>3. z <= y => Cost(w, z) <= Cost(x - 1, y) /\ Cost(x - 1, y) \in Nat
          BY <3>7, CostGrows
        <4>4. z <= x - 1 => Cost(w, z) <= Cost(x - 1, x - 1) /\ Cost(x - 1, x - 1) \in Nat
          BY <3>7, CostGrows
        <4> QED
          BY <3>6, <4>1, <4>2, <4>3, <4>4
      <3>11. Budget \in Int
        BY SignInAssumption DEF Budget
      <3> QED
        BY <3>1, <3>8, <3>9, <3>10, <3>11
    <2> QED
      BY <1>r, <2>1, <2>3, <2>4, <2>5
  <1>3. ASSUME NEW e \in Calls, Right(e)
        PROVE  2 * guesses'[a] + Cost(Room(Seen(c, a)'), Room(Seen(d, a)')) <= Budget
    <2> DEFINE to == call[e].account
    <2>1. /\ At(e, "password") /\ to \in Accounts
          /\ \/ login'[to].failed = 0 /\ guesses'[to] = 0
             \/ login'[to] = login[to] /\ guesses'[to] = guesses[to]
          /\ \A o \in Accounts \ {to} : login'[o] = login[o] /\ guesses'[o] = guesses[o]
          /\ ~At(e, "password")' /\ \A o \in Calls \ {e} : call'[o] = call[o]
      BY <1>3, RightCounts
    <2>2. CASE guesses'[a] = 0
      BY <1>t, <2>2, StillAffordable
    <2>3. CASE guesses'[a] # 0
      <3>1. guesses'[a] = guesses[a] /\ login'[a] = login[a]
        BY <2>1, <2>3
      <3>0. \A o \in Calls : At(o, "password") => call[o].failed \in Nat
        BY CallParts DEF Attempt
      <3>2. \A o \in Calls : Seen(o, a) <= Seen(o, a)'
        BY <1>r, <2>1, <3>0, <3>1 DEF Seen, At, TypeOK, Login
      <3>3. \A o \in Calls : Room(Seen(o, a)') <= Room(Seen(o, a))
        BY <1>r, <3>2, SignInAssumption DEF Room
      <3> QED
        BY <1>t, <3>1, <3>3, StillAffordable
    <2> QED
      BY <2>2, <2>3
  <1> QED
    BY <1>1, <1>2, <1>3, StepOnCounts

(***************************************************************************)
(* Of wrong passwords that are tried by two requests at a time, however    *)
(* they overlap, and whose writes succeed, at the latest the one that      *)
(* makes MaxFailed * (MaxFailed + 1) / 2 locks the account, although a     *)
(* stale attempt may set the count back and others lose their write        *)
(* (Authenticate, recordFailedLogin).  The bound is the one of             *)
(* GuessesEndInALock for two requests, written out.                        *)
(***************************************************************************)
THEOREM TwoAtATimeLock ==
    ASSUME TwoSlots
    PROVE  Spec => []LocksWithTwo
  <1>1. Init => TypeOK /\ Affordable
    BY TypeInit, AffordableInit
  <1>2. TypeOK /\ Affordable /\ [Next]_vars => (TypeOK /\ Affordable)'
    BY TypeStep, AffordableStep
  <1>3. TypeOK /\ Affordable => LocksWithTwo
    <2> SUFFICES ASSUME TypeOK, Affordable, NEW a \in Accounts
                 PROVE  2 * guesses[a] < MaxFailed * (MaxFailed + 1)
      BY DEF LocksWithTwo
    <2>1. PICK c \in Calls, d \in Calls : \A e \in Calls : e \in {c, d}
      BY DEF TwoSlots
    <2>2. 2 * guesses[a] + Cost(Room(Seen(c, a)), Room(Seen(d, a))) <= Budget
      BY <2>1 DEF Affordable
    <2>3. Cost(Room(Seen(c, a)), Room(Seen(d, a))) \in Nat
      BY SeenIsACount, RoomParts, CostGrows
    <2>4. guesses[a] \in Nat /\ MaxFailed * (MaxFailed + 1) \in Nat
      BY SignInAssumption DEF TypeOK
    <2> QED
      BY <2>2, <2>3, <2>4 DEF Budget
  <1> QED
    BY <1>1, <1>2, <1>3, PTL DEF Spec
----------------------------------------------------------------------------
(* The accounts that sign in: what a deletion leaves behind, for any people, *)
(* groups, objects and requests, whatever overlaps.                          *)

(* Types *)

LEMMA EnterFields ==
    ASSUME NEW r \in Requests, NEW q, Enter(r, q), AccountsTypeOK
    PROVE  /\ UNCHANGED <<account, used, members, item>>
           /\ req[r] = Free /\ req' = [req EXCEPT ![r] = q]
           /\ req'[r] = q
           /\ \A o \in Requests \ {r} : req'[o] = req[o]
           /\ q \in Work => req' \in [Requests -> Work]
  BY DEF Enter, tables, AccountsTypeOK

LEMMA LeaveFields ==
    ASSUME NEW r \in Requests, Leave(r), AccountsTypeOK
    PROVE  /\ req' \in [Requests -> Work]
           /\ req'[r] = Free
           /\ \A o \in Requests \ {r} : req'[o] = req[o]
  BY DEF Leave, AccountsTypeOK, Work

\* What each kind of request carries.
LEMMA WorkFields ==
    ASSUME NEW q \in Work
    PROVE  /\ q.pc \in {"idle", "create", "access", "group", "delete", "store", "edit"}
           /\ q.pc = "idle" <=> q = Free
           /\ q.pc \in {"create", "access"} =>
                 q.target \in Users /\ q.groups \subseteq Groups
                 /\ q.seen \in [Groups -> SUBSET Entries]
           /\ q.pc = "create" => q.row \in Account
           /\ q.pc = "access" => q.blocked \in BOOLEAN
           /\ q.pc = "group" => q.group \in Groups /\ q.list \subseteq Entries
           /\ q.pc = "delete" => q.by \in Users /\ q.as \in Names
                                 /\ q.target \in Users /\ q.name \in Names
           /\ q.pc \in {"store", "edit"} => q.item \in Items /\ q.to \in Item
  <1>1. CASE q = Free
    BY <1>1 DEF Free
  <1>2. CASE q # Free
    BY <1>2 DEF Work, Free
  <1> QED
    BY <1>1, <1>2

LEMMA EditedLists ==
    ASSUME NEW list \in SUBSET Entries, NEW edited \in Edited(list)
    PROVE  edited \subseteq Entries
  BY PeopleAssumption DEF Edited, Entries

LEMMA AccountRow ==
    ASSUME NEW a \in BOOLEAN, NEW b \in BOOLEAN, NEW n \in Names
    PROVE  [admin |-> a, blocked |-> b, name |-> n] \in Account
           /\ [admin |-> a, blocked |-> b, name |-> n] # NoAccount
  <1>1. [admin |-> a, blocked |-> b, name |-> n] \in Account
    BY DEF Account
  <1> QED
    BY <1>1, NothingAssumption

\* The row of an account that exists.
LEMMA ExistingRow ==
    ASSUME AccountsTypeOK, NEW u \in Users, Exists(u)
    PROVE  /\ account[u] \in Account
           /\ account[u].admin \in BOOLEAN
           /\ account[u].blocked \in BOOLEAN
           /\ account[u].name \in Names
  BY DEF AccountsTypeOK, Exists, Account

\* What somebody who exists may store or make of an object.
LEMMA OwnedItems ==
    ASSUME AccountsTypeOK, NEW u \in Users, Exists(u)
    PROVE  /\ Creatable(u) \subseteq Item
           /\ \A old \in Item : Editable(u, old) \subseteq Item
  <1>1. \A personal \in BOOLEAN : Mine(u, personal) \in Item
    BY ExistingRow DEF Mine, Item
  <1> QED
    BY <1>1 DEF Creatable, Editable

LEMMA AccountsTypeInit == AccountsInit => AccountsTypeOK
  <1> SUFFICES ASSUME AccountsInit PROVE AccountsTypeOK
    OBVIOUS
  <1>1. PICK a \in Users \ External, name \in Names :
           /\ account = [u \in Users |->
                 IF u = a THEN [admin |-> TRUE, blocked |-> FALSE, name |-> name]
                 ELSE NoAccount]
           /\ used = {a}
    BY DEF AccountsInit
  <1>2. [admin |-> TRUE, blocked |-> FALSE, name |-> name] \in Account
    BY AccountRow
  <1>3. account \in [Users -> {NoAccount} \cup Account] /\ used \subseteq Users
    BY <1>1, <1>2
  <1>4. members \in [Groups -> SUBSET Entries] /\ item \in [Items -> {NoItem} \cup Item]
        /\ stray \subseteq Users /\ raced \in BOOLEAN
    BY DEF AccountsInit
  <1>5. Free \in Work
    BY DEF Work
  <1>6. req \in [Requests -> Work]
    BY <1>5, Zenon DEF AccountsInit
  <1> QED
    BY <1>3, <1>4, <1>6 DEF AccountsTypeOK

LEMMA AccountsTypeStep ==
    ASSUME AccountsTypeOK, [AccountsNext]_accountsVars
    PROVE  AccountsTypeOK'
  <1>0. /\ account \in [Users -> {NoAccount} \cup Account] /\ used \subseteq Users
        /\ members \in [Groups -> SUBSET Entries] /\ item \in [Items -> {NoItem} \cup Item]
        /\ req \in [Requests -> Work] /\ stray \subseteq Users /\ raced \in BOOLEAN
    BY DEF AccountsTypeOK
  <1>b. ASSUME NEW r \in Requests, NEW q \in Work, Enter(r, q),
               stray' \subseteq Users, UNCHANGED raced
        PROVE  AccountsTypeOK'
    BY <1>0, <1>b, EnterFields DEF AccountsTypeOK
  <1>1. ASSUME NEW u \in External, NEW admin \in BOOLEAN, NEW name \in Names,
               SsoSignIn(u, admin, name)
        PROVE  AccountsTypeOK'
    <2>1. u \in Users
      BY PeopleAssumption
    <2>2. (Exists(u) /\ account[u].blocked) \in BOOLEAN
      BY <2>1, ExistingRow
    <2> DEFINE row == [admin |-> admin, blocked |-> Exists(u) /\ account[u].blocked,
                       name |-> name]
    <2>3. row \in Account
      BY <2>2, AccountRow
    <2>4. account' = [account EXCEPT ![u] = row] /\ UNCHANGED <<used, members, item, req, stray>>
      BY <1>1 DEF SsoSignIn
    <2>5. raced' \in BOOLEAN
      BY <1>1, <1>0 DEF SsoSignIn
    <2> HIDE DEF row
    <2> QED
      BY <1>0, <2>1, <2>3, <2>4, <2>5 DEF AccountsTypeOK
  <1>2. ASSUME NEW r \in Requests, NEW a \in Users, NEW u \in Users,
               NEW groups \in SUBSET Groups, NEW flag \in BOOLEAN, NEW name \in Names,
               BeginCreate(r, a, u, groups, flag, name)
        PROVE  AccountsTypeOK'
    <2>1. [admin |-> flag, blocked |-> FALSE, name |-> name] \in Account
      BY AccountRow
    <2>2. [pc |-> "create", target |-> u, groups |-> groups,
           row |-> [admin |-> flag, blocked |-> FALSE, name |-> name],
           seen |-> members] \in Work
      BY <1>0, <2>1 DEF Work
    <2> QED
      BY <1>0, <1>b, <1>2, <2>2 DEF BeginCreate, history
  <1>3. ASSUME NEW r \in Requests, NEW a \in Users, NEW u \in Users,
               NEW groups \in SUBSET Groups, NEW flag \in BOOLEAN,
               BeginAccess(r, a, u, groups, flag)
        PROVE  AccountsTypeOK'
    <2>1. [pc |-> "access", target |-> u, groups |-> groups, blocked |-> flag,
           seen |-> members] \in Work
      BY <1>0 DEF Work
    <2> QED
      BY <1>0, <1>b, <1>3, <2>1 DEF BeginAccess, history
  <1>4. ASSUME NEW r \in Requests, NEW a \in Users, NEW g \in Groups, BeginGroup(r, a, g)
        PROVE  AccountsTypeOK'
    <2>1. PICK list \in Edited(members[g]) :
              Enter(r, [pc |-> "group", group |-> g, list |-> list])
      BY <1>4 DEF BeginGroup
    <2>2. [pc |-> "group", group |-> g, list |-> list] \in Work
      BY <1>0, <2>1, EditedLists DEF Work
    <2> QED
      BY <1>0, <1>b, <1>4, <2>1, <2>2 DEF BeginGroup, history
  <1>5. ASSUME NEW r \in Requests, NEW a \in Users, NEW u \in Users, BeginDelete(r, a, u)
        PROVE  AccountsTypeOK'
    <2>1. Exists(a) /\ Exists(u)
      BY <1>5 DEF BeginDelete, Acts, IsAdmin
    <2>2. Deletion(a, u) \in Work
      BY <2>1, ExistingRow DEF Deletion, Work
    <2> QED
      BY <1>0, <1>b, <1>5, <2>2 DEF BeginDelete, history
  <1>6. ASSUME NEW r \in Requests, NEW u \in Users, NEW i \in Items,
               BeginStore(r, u, i) \/ BeginEdit(r, u, i)
        PROVE  AccountsTypeOK'
    <2>1. PICK pc \in {"store", "edit"}, x \in Item :
             Enter(r, [pc |-> pc, item |-> i, to |-> x]) /\ Named(x)
      <3>1. Exists(u)
        BY <1>6 DEF BeginStore, BeginEdit
      <3>2. item[i] # NoItem => item[i] \in Item
        BY <1>0
      <3> QED
        BY <1>6, <3>1, <3>2, OwnedItems DEF BeginStore, BeginEdit
    <2>2. [pc |-> pc, item |-> i, to |-> x] \in Work
      BY <2>1 DEF Work
    <2>3. stray' \subseteq Users
      BY <1>0, <2>1 DEF Named, Item
    <2> QED
      BY <1>b, <1>6, <2>1, <2>2, <2>3 DEF BeginStore, BeginEdit
  <1>7. ASSUME NEW r \in Requests, CommitCreate(r) PROVE AccountsTypeOK'
    <2>1. req[r].target \in Users /\ req[r].row \in Account
          /\ req[r].seen \in [Groups -> SUBSET Entries]
      BY <1>0, <1>7, WorkFields DEF CommitCreate
    <2>2. account' \in [Users -> {NoAccount} \cup Account] /\ used' \subseteq Users
      BY <1>0, <1>7, <2>1 DEF CommitCreate
    <2>3. members' \in [Groups -> SUBSET Entries]
      BY <1>7, <2>1 DEF CommitCreate, Entries
    <2> QED
      BY <1>0, <1>7, <2>2, <2>3, LeaveFields DEF CommitCreate, AccountsTypeOK, history
  <1>8. ASSUME NEW r \in Requests, CommitAccess(r) PROVE AccountsTypeOK'
    <2>1. req[r].target \in Users /\ req[r].blocked \in BOOLEAN
          /\ req[r].seen \in [Groups -> SUBSET Entries]
      BY <1>0, <1>8, WorkFields DEF CommitAccess
    <2>2. ASSUME Exists(req[r].target)
          PROVE  [account EXCEPT ![req[r].target].blocked = req[r].blocked]
                    \in [Users -> {NoAccount} \cup Account]
      BY <1>0, <2>1, <2>2 DEF Account, Exists
    <2>3. account' \in [Users -> {NoAccount} \cup Account]
      BY <1>0, <1>8, <2>2 DEF CommitAccess
    <2>4. members' \in [Groups -> SUBSET Entries]
      BY <1>8, <2>1 DEF CommitAccess, Entries
    <2> QED
      BY <1>0, <1>8, <2>3, <2>4, LeaveFields DEF CommitAccess, AccountsTypeOK, history
  <1>9. ASSUME NEW r \in Requests, CommitGroup(r) PROVE AccountsTypeOK'
    <2>1. req[r].list \subseteq Entries
      BY <1>0, <1>9, WorkFields DEF CommitGroup
    <2>2. members' \in [Groups -> SUBSET Entries]
      BY <1>0, <1>9, <2>1 DEF CommitGroup
    <2> QED
      BY <1>0, <1>9, <2>2, LeaveFields DEF CommitGroup, AccountsTypeOK, history
  <1>10. ASSUME NEW r \in Requests, CommitStore(r) \/ CommitEdit(r) PROVE AccountsTypeOK'
    <2>1. req[r].to \in Item
      BY <1>0, <1>10, WorkFields DEF CommitStore, CommitEdit
    <2>2. item' \in [Items -> {NoItem} \cup Item]
      BY <1>0, <1>10, <2>1 DEF CommitStore, CommitEdit
    <2> QED
      BY <1>0, <1>10, <2>2, LeaveFields DEF CommitStore, CommitEdit, AccountsTypeOK, history
  <1>11. ASSUME NEW r \in Requests, CommitDelete(r) PROVE AccountsTypeOK'
    <2>1. req[r].by \in Users /\ req[r].target \in Users /\ req[r].as \in Names
      BY <1>0, <1>11, WorkFields DEF CommitDelete, Deleting
    <2>2. [owner |-> req[r].by, label |-> req[r].as, personal |-> FALSE] \in Item
      BY <2>1 DEF Item
    <2>3. \A i \in Items : AfterDelete(r)[i] \in {NoItem} \cup Item
      BY <1>0, <2>2, Zenon DEF AfterDelete
    <2>4. item' \in [Items -> {NoItem} \cup Item]
      BY <1>11, <2>3, Zenon DEF CommitDelete, AfterDelete
    <2>5. account' \in [Users -> {NoAccount} \cup Account]
          /\ members' \in [Groups -> SUBSET Entries]
      BY <1>0, <1>11 DEF CommitDelete
    <2>6. stray' \subseteq Users /\ raced' \in BOOLEAN
      BY <1>0, <1>11, <2>1 DEF CommitDelete, Deleted
    <2> QED
      BY <1>0, <1>11, <2>4, <2>5, <2>6, LeaveFields DEF CommitDelete, AccountsTypeOK
  <1>12. ASSUME NEW r \in Requests, Abort(r) PROVE AccountsTypeOK'
    BY <1>0, <1>12, LeaveFields DEF Abort, AccountsTypeOK, tables, history
  <1>13. CASE UNCHANGED accountsVars
    BY <1>13 DEF accountsVars, AccountsTypeOK, tables, history
  <1> QED
    BY <1>1, <1>2, <1>3, <1>4, <1>5, <1>6, <1>7, <1>8, <1>9, <1>10, <1>11, <1>12, <1>13
       DEF AccountsNext, AdminStep

\* Every reachable state of the accounts, the groups that list them, what they own
\* and the requests on them is well typed (auth/repository.go).
THEOREM AccountTypes == AccountsSpec => []AccountsTypeOK
  BY AccountsTypeInit, AccountsTypeStep, PTL DEF AccountsSpec

----------------------------------------------------------------------------
(* What a deletion leaves dangling *)

\* An id with an account, or one of those the history accounts for.
Known(u) == Exists(u) \/ u \in stray
KnownList(list) == \A u \in Users : u \in list => Known(u)

\* What a request in flight will write names only ids that are known.
Pending(q) ==
    /\ q.pc \in {"create", "access"} => \A g \in Groups : KnownList(q.seen[g])
    /\ q.pc = "access" => Known(q.target)
    /\ q.pc = "group" => KnownList(q.list)
    /\ q.pc = "delete" => Known(q.by) /\ q.by # q.target
    /\ q.pc \in {"store", "edit"} => Known(q.to.owner)

KnownInv ==
    /\ AccountsTypeOK
    /\ NothingDangles
    /\ \A r \in Requests : Pending(req[r])

LEMMA DanglingParts ==
    /\ GroupsListLiveAccounts <=> \A g \in Groups : KnownList(members[g])
    /\ ItemsHaveALiveOwner <=> \A i \in Items : item[i] # NoItem => Known(item[i].owner)
  BY DEF GroupsListLiveAccounts, ItemsHaveALiveOwner, KnownList, Known

LEMMA KnownInit == AccountsInit => KnownInv
  <1> SUFFICES ASSUME AccountsInit PROVE KnownInv
    OBVIOUS
  <1>1. NothingDangles
    BY DEF AccountsInit, NothingDangles, GroupsListLiveAccounts, ItemsHaveALiveOwner
  <1>2. Pending(Free)
    BY DEF Pending, Free
  <1>3. \A r \in Requests : Pending(req[r])
    BY <1>2 DEF AccountsInit
  <1> QED
    BY <1>1, <1>3, AccountsTypeInit DEF KnownInv

\* While whoever was known stays so, everything that names only such ids still does.
LEMMA StillKnown ==
    ASSUME \A u \in Users : Known(u) => Known(u)'
    PROVE  /\ \A list : KnownList(list) => KnownList(list)'
           /\ \A q \in Work : Pending(q) => Pending(q)'
  <1>1. \A list : KnownList(list) => KnownList(list)'
    BY DEF KnownList
  <1>2. ASSUME NEW q \in Work, Pending(q) PROVE Pending(q)'
    <2>1. (q.pc \in {"create", "access"} => q.target \in Users)
          /\ (q.pc = "delete" => q.by \in Users)
          /\ (q.pc \in {"store", "edit"} => q.to.owner \in Users)
      BY WorkFields DEF Item
    <2> QED
      BY <1>1, <1>2, <2>1 DEF Pending
  <1> QED
    BY <1>1, <1>2

\* A request that begins: nothing changes but the slot and the history.
LEMMA KnownEnter ==
    ASSUME KnownInv, NEW r \in Requests, NEW q \in Work, Enter(r, q), AccountsTypeOK',
           stray \subseteq stray', Pending(q)'
    PROVE  KnownInv'
  <1>1. UNCHANGED <<account, members, item>> /\ req'[r] = q
        /\ \A o \in Requests \ {r} : req'[o] = req[o]
    BY EnterFields DEF KnownInv
  <1>2. \A u \in Users : Known(u) => Known(u)'
    BY <1>1 DEF Known, Exists
  <1>3. NothingDangles'
    BY <1>1 DEF KnownInv, NothingDangles, GroupsListLiveAccounts, ItemsHaveALiveOwner, Exists
  <1>4. ASSUME NEW o \in Requests, NEW p, p = req'[o] PROVE Pending(p)'
    <2>1. CASE o = r
      <3>1. p = q
        BY <1>1, <1>4, <2>1
      <3> QED
        BY <3>1
    <2>2. CASE o # r
      <3>1. p = req[o] /\ p \in Work /\ Pending(p)
        BY <1>1, <1>4, <2>2 DEF KnownInv, AccountsTypeOK
      <3> QED
        BY <1>2, <3>1, StillKnown
    <2> QED
      BY <2>1, <2>2
  <1>5. (\A o \in Requests : Pending(req[o]))'
    BY <1>4 DEF Pending
  <1> QED
    BY <1>3, <1>5 DEF KnownInv

\* A request that ends: either nothing else was in flight, or whoever was known stays so.
LEMMA KnownLeave ==
    ASSUME KnownInv, NEW r \in Requests, Leave(r), AccountsTypeOK', NothingDangles',
           Alone(r) \/ \A u \in Users : Known(u) => Known(u)'
    PROVE  KnownInv'
  <1>1. req'[r] = Free /\ \A o \in Requests \ {r} : req'[o] = req[o]
    BY LeaveFields DEF KnownInv
  <1>3. ASSUME NEW o \in Requests, NEW p, p = req'[o] PROVE Pending(p)'
    <2>1. CASE o = r \/ Alone(r)
      <3>1. p = Free
        BY <1>1, <1>3, <2>1 DEF Alone
      <3> QED
        BY <3>1 DEF Free, Pending
    <2>2. CASE o # r /\ ~Alone(r)
      <3>1. p = req[o] /\ p \in Work /\ Pending(p)
        BY <1>1, <1>3, <2>2 DEF KnownInv, AccountsTypeOK
      <3>2. \A u \in Users : Known(u) => Known(u)'
        BY <2>2
      <3> QED
        BY <3>1, <3>2, StillKnown
    <2> QED
      BY <2>1, <2>2
  <1>4. (\A o \in Requests : Pending(req[o]))'
    BY <1>3 DEF Pending
  <1> QED
    BY <1>4 DEF KnownInv

\* The deletion itself: nothing names the account any more but what its overlap
\* puts on record.
LEMMA KnownDelete ==
    ASSUME KnownInv, NEW r \in Requests, CommitDelete(r)
    PROVE  NothingDangles' /\ (Alone(r) \/ \A u \in Users : Known(u) => Known(u)')
  <1> DEFINE t == req[r].target
  <1>t. /\ account \in [Users -> {NoAccount} \cup Account]
        /\ item \in [Items -> {NoItem} \cup Item] /\ req[r] \in Work
    BY DEF KnownInv, AccountsTypeOK
  <1>1. t \in Users /\ req[r].by \in Users /\ req[r].by # t /\ Known(req[r].by)
    BY <1>t, WorkFields DEF KnownInv, CommitDelete, Deleting, Pending
  <1>2. \A u \in Users \ {t} : Known(u) => Known(u)'
    BY <1>t, <1>1 DEF CommitDelete, Deleted, Known, Exists
  <1>3. ASSUME ~Alone(r), NEW u \in Users, Known(u) PROVE Known(u)'
    <2>1. u = t => u \in stray'
      BY <1>3 DEF CommitDelete, Deleted
    <2> QED
      BY <1>2, <1>3, <2>1 DEF Known
  <1>4. \A g \in Groups : KnownList(members[g])'
    BY <1>2 DEF KnownInv, NothingDangles, GroupsListLiveAccounts, CommitDelete,
                KnownList, Known
  <1>5. ASSUME NEW i \in Items, item'[i] # NoItem
        PROVE  item'[i].owner \in Users \ {t} /\ Known(item'[i].owner)
    <2>1. item'[i] = AfterDelete(r)[i]
      BY DEF CommitDelete
    <2>2. CASE item'[i] = item[i] /\ item[i].owner # t
      <3>1. item[i] \in Item
        BY <1>5, <1>t, <2>2
      <3> QED
        BY <1>5, <2>2, <3>1 DEF Item, KnownInv, NothingDangles, ItemsHaveALiveOwner, Known
    <2>3. CASE item'[i] = [owner |-> req[r].by, label |-> req[r].as, personal |-> FALSE]
      BY <1>1, <2>3
    <2>4. item'[i] = item[i] => item[i] = NoItem \/ item[i].owner # t \/ item'[i].owner = req[r].by
      <3> DEFINE theirs == {j \in Items : item[j] # NoItem /\ item[j].owner = t}
                 shared == {j \in Items : item[j] # NoItem /\ ~item[j].personal}
                 named == {j \in shared : item[j].label = req[r].name}
                 gone == [owner |-> req[r].by, label |-> req[r].as, personal |-> FALSE]
      <3>1. item'[i] = IF i \in theirs \ shared THEN NoItem
                       ELSE IF i \in (theirs \cap shared) \cup named THEN gone ELSE item[i]
        BY <2>1 DEF AfterDelete
      <3> QED
        BY <1>5, <3>1
    <2>5. item'[i] = item[i] \/ item'[i] = NoItem
          \/ item'[i] = [owner |-> req[r].by, label |-> req[r].as, personal |-> FALSE]
      BY <2>1 DEF AfterDelete
    <2> QED
      BY <1>1, <1>5, <2>2, <2>3, <2>4, <2>5
  <1>6. ASSUME NEW i \in Items, item'[i] # NoItem, NEW u, u = item'[i].owner
        PROVE  Known(u)'
    <2>1. u \in Users \ {t} /\ Known(u)
      BY <1>5, <1>6
    <2> QED
      BY <1>2, <2>1
  <1>7. GroupsListLiveAccounts'
    BY <1>4 DEF GroupsListLiveAccounts, KnownList, Known
  <1>8. ItemsHaveALiveOwner'
    BY <1>6 DEF ItemsHaveALiveOwner, Known, Exists
  <1> QED
    BY <1>3, <1>7, <1>8 DEF NothingDangles

LEMMA KnownStep ==
    ASSUME KnownInv, [AccountsNext]_accountsVars
    PROVE  KnownInv'
  <1>0. AccountsTypeOK /\ NothingDangles /\ AccountsTypeOK'
    BY AccountsTypeStep DEF KnownInv
  <1>t. /\ account \in [Users -> {NoAccount} \cup Account]
        /\ members \in [Groups -> SUBSET Entries] /\ item \in [Items -> {NoItem} \cup Item]
        /\ req \in [Requests -> Work]
    BY <1>0 DEF AccountsTypeOK
  <1>p. \A r \in Requests : Pending(req[r])
    BY DEF KnownInv
  <1>g. \A g \in Groups : KnownList(members[g])
    BY <1>0, DanglingParts DEF NothingDangles
  <1>i. \A i \in Items : item[i] # NoItem => Known(item[i].owner)
    BY <1>0, DanglingParts DEF NothingDangles
  <1>e. ASSUME NEW r \in Requests, NEW q \in Work, Enter(r, q), UNCHANGED history, Pending(q)
        PROVE  KnownInv'
    <2>1. UNCHANGED <<account, stray>>
      BY <1>0, <1>e, EnterFields DEF history
    <2>2. \A u \in Users : Known(u) => Known(u)'
      BY <2>1 DEF Known, Exists
    <2>3. Pending(q)'
      BY <1>e, <2>2, StillKnown
    <2> QED
      BY <1>0, <1>e, <2>1, <2>3, KnownEnter
  <1>o. ASSUME \A u \in Users : Known(u) => Known(u)', UNCHANGED item
        PROVE  ItemsHaveALiveOwner'
    <2> SUFFICES ASSUME NEW i \in Items, item'[i] # NoItem, NEW u, u = item'[i].owner
                 PROVE  Known(u)'
      BY DEF ItemsHaveALiveOwner, Known, Exists
    <2>1. u \in Users /\ Known(u)
      BY <1>i, <1>o, <1>t DEF Item
    <2> QED
      BY <1>o, <2>1
  <1>l. ASSUME \A u \in Users : Known(u) => Known(u)',
               \A g \in Groups, u \in Users : u \in members'[g] => Known(u) \/ Known(u)'
        PROVE  GroupsListLiveAccounts'
    BY <1>l DEF GroupsListLiveAccounts, Known, Exists
  <1>1. ASSUME NEW u \in External, NEW admin \in BOOLEAN, NEW name \in Names,
               SsoSignIn(u, admin, name)
        PROVE  KnownInv'
    <2>1. UNCHANGED <<members, item, req, stray>>
      BY <1>1 DEF SsoSignIn
    <2>2. (Exists(u) /\ account[u].blocked) \in BOOLEAN
      BY <1>0, ExistingRow, PeopleAssumption
    <2>3. \A v \in Users : Exists(v) => Exists(v)'
      BY <1>1, <1>t, <2>2, AccountRow DEF SsoSignIn, Exists
    <2>4. \A v \in Users : Known(v) => Known(v)'
      BY <2>1, <2>3 DEF Known
    <2>5. NothingDangles'
      BY <1>g, <1>l, <1>o, <2>1, <2>4 DEF KnownList, NothingDangles
    <2>6. ASSUME NEW o \in Requests, NEW p, p = req'[o] PROVE Pending(p)'
      <3>1. p \in Work /\ Pending(p)
        BY <1>p, <1>t, <2>1, <2>6
      <3> QED
        BY <2>4, <3>1, StillKnown
    <2>7. (\A o \in Requests : Pending(req[o]))'
      BY <2>6 DEF Pending
    <2> QED
      BY <1>0, <2>5, <2>7 DEF KnownInv
  <1>2. ASSUME NEW r \in Requests, NEW a \in Users, NEW u \in Users,
               NEW groups \in SUBSET Groups, NEW flag \in BOOLEAN, NEW name \in Names,
               BeginCreate(r, a, u, groups, flag, name)
        PROVE  KnownInv'
    <2> DEFINE q == [pc |-> "create", target |-> u, groups |-> groups,
                     row |-> [admin |-> flag, blocked |-> FALSE, name |-> name],
                     seen |-> members]
    <2>1. q \in Work
      BY <1>t, AccountRow DEF Work
    <2>2. Pending(q)
      BY <1>g DEF Pending
    <2>3. Enter(r, q) /\ UNCHANGED history
      BY <1>2 DEF BeginCreate
    <2> HIDE DEF q
    <2> QED
      BY <1>e, <2>1, <2>2, <2>3
  <1>3. ASSUME NEW r \in Requests, NEW a \in Users, NEW u \in Users,
               NEW groups \in SUBSET Groups, NEW flag \in BOOLEAN,
               BeginAccess(r, a, u, groups, flag)
        PROVE  KnownInv'
    <2> DEFINE q == [pc |-> "access", target |-> u, groups |-> groups, blocked |-> flag,
                     seen |-> members]
    <2>1. q \in Work
      BY <1>t DEF Work
    <2>2. Pending(q)
      BY <1>g, <1>3 DEF Pending, BeginAccess, Known
    <2>3. Enter(r, q) /\ UNCHANGED history
      BY <1>3 DEF BeginAccess
    <2> HIDE DEF q
    <2> QED
      BY <1>e, <2>1, <2>2, <2>3
  <1>4. ASSUME NEW r \in Requests, NEW a \in Users, NEW g \in Groups, BeginGroup(r, a, g)
        PROVE  KnownInv'
    <2>1. PICK list \in Edited(members[g]) :
              Enter(r, [pc |-> "group", group |-> g, list |-> list])
      BY <1>4 DEF BeginGroup
    <2>2. KnownList(list)
      BY <1>g, <2>1, PeopleAssumption DEF Edited, KnownList, Known
    <2>3. [pc |-> "group", group |-> g, list |-> list] \in Work
      BY <1>t, <2>1, EditedLists DEF Work
    <2>4. Pending([pc |-> "group", group |-> g, list |-> list])
      BY <2>2 DEF Pending
    <2> QED
      BY <1>e, <1>4, <2>1, <2>3, <2>4 DEF BeginGroup
  <1>5. ASSUME NEW r \in Requests, NEW a \in Users, NEW u \in Users, BeginDelete(r, a, u)
        PROVE  KnownInv'
    <2>1. Exists(a) /\ Exists(u) /\ a # u /\ Enter(r, Deletion(a, u)) /\ UNCHANGED history
      BY <1>5 DEF BeginDelete, Acts, IsAdmin
    <2>2. Deletion(a, u) \in Work
      BY <1>0, <2>1, ExistingRow DEF Deletion, Work
    <2>3. Pending(Deletion(a, u))
      BY <2>1 DEF Pending, Deletion, Known
    <2> QED
      BY <1>e, <2>1, <2>2, <2>3
  <1>6. ASSUME NEW r \in Requests, NEW u \in Users, NEW i \in Items,
               BeginStore(r, u, i) \/ BeginEdit(r, u, i)
        PROVE  KnownInv'
    <2>1. PICK pc \in {"store", "edit"}, x \in Item :
             Enter(r, [pc |-> pc, item |-> i, to |-> x]) /\ Named(x)
      <3>1. Exists(u)
        BY <1>6 DEF BeginStore, BeginEdit
      <3>2. item[i] # NoItem => item[i] \in Item
        BY <1>t
      <3> QED
        BY <1>0, <1>6, <3>1, <3>2, OwnedItems DEF BeginStore, BeginEdit
    <2> DEFINE q == [pc |-> pc, item |-> i, to |-> x]
    <2>2. q \in Work /\ q.pc \notin {"create", "access", "group", "delete"} /\ q.to = x
      BY <2>1 DEF Work
    <2>3. x.owner \in Users /\ UNCHANGED account
      BY <1>0, <2>1, EnterFields DEF Item
    <2>4. stray \subseteq stray' /\ (Exists(x.owner) \/ x.owner \in stray')
      BY <2>1 DEF Named
    <2>5. Pending(q)'
      BY <2>2, <2>3, <2>4 DEF Pending, Known, Exists
    <2>6. Enter(r, q)
      BY <2>1
    <2> HIDE DEF q
    <2> QED
      BY <1>0, <2>2, <2>4, <2>5, <2>6, KnownEnter
  <1>7. ASSUME NEW r \in Requests, CommitCreate(r) PROVE KnownInv'
    <2> DEFINE t == req[r].target
    <2>1. t \in Users /\ req[r].row \in Account /\ Pending(req[r])
      BY <1>p, <1>t, <1>7, WorkFields DEF CommitCreate
    <2>2. UNCHANGED <<item, stray>> /\ account' = [account EXCEPT ![t] = req[r].row]
      BY <1>7 DEF CommitCreate, history
    <2>3. account'[t] # NoAccount /\ \A v \in Users : Exists(v) => Exists(v)'
      BY <1>t, <2>1, <2>2, NothingAssumption DEF Exists
    <2>4. \A v \in Users : Known(v) => Known(v)'
      BY <2>2, <2>3 DEF Known
    <2>5. \A g \in Groups, v \in Users : v \in members'[g] => Known(v) \/ v = t
      BY <1>7, <2>1 DEF CommitCreate, Pending, KnownList
    <2>6. \A v \in Users : v = t => Known(v)'
      BY <2>3 DEF Known, Exists
    <2>7. NothingDangles'
      BY <1>l, <1>o, <2>2, <2>4, <2>5, <2>6 DEF NothingDangles
    <2>8. Leave(r)
      BY <1>7 DEF CommitCreate
    <2> QED
      BY <1>0, <2>4, <2>7, <2>8, KnownLeave
  <1>8. ASSUME NEW r \in Requests, CommitAccess(r) PROVE KnownInv'
    <2> DEFINE t == req[r].target
    <2>1. t \in Users /\ req[r].blocked \in BOOLEAN /\ Pending(req[r])
      BY <1>p, <1>t, <1>8, WorkFields DEF CommitAccess
    <2>2. UNCHANGED <<item, stray>>
      BY <1>8 DEF CommitAccess, history
    <2>3. ASSUME Exists(t)
          PROVE  [account[t] EXCEPT !.blocked = req[r].blocked] # NoAccount
      <3>1. [account[t] EXCEPT !.blocked = req[r].blocked] \in Account
        BY <1>0, <2>1, <2>3, ExistingRow DEF Account
      <3> QED
        BY <3>1, NothingAssumption
    <2>4. \A v \in Users : Exists(v) => Exists(v)'
      BY <1>t, <1>8, <2>1, <2>3 DEF CommitAccess, Exists
    <2>5. \A v \in Users : Known(v) => Known(v)'
      BY <2>2, <2>4 DEF Known
    <2>6. Known(t) /\ \A g \in Groups : KnownList(req[r].seen[g])
      BY <1>8, <2>1 DEF CommitAccess, Pending
    <2>7. \A g \in Groups, v \in Users : v \in members'[g] => Known(v)
      BY <1>8, <2>6 DEF CommitAccess, KnownList
    <2>8. NothingDangles'
      BY <1>l, <1>o, <2>2, <2>5, <2>7 DEF NothingDangles
    <2>9. Leave(r)
      BY <1>8 DEF CommitAccess
    <2> QED
      BY <1>0, <2>5, <2>8, <2>9, KnownLeave
  <1>9. ASSUME NEW r \in Requests, CommitGroup(r) PROVE KnownInv'
    <2>1. KnownList(req[r].list) /\ UNCHANGED <<account, item, stray>> /\ Leave(r)
      BY <1>p, <1>9 DEF CommitGroup, Pending, history
    <2>2. \A v \in Users : Known(v) => Known(v)'
      BY <2>1 DEF Known, Exists
    <2>3. \A g \in Groups, v \in Users : v \in members'[g] => Known(v)
      BY <1>g, <1>t, <1>9, <2>1 DEF CommitGroup, KnownList
    <2>4. NothingDangles'
      BY <1>l, <1>o, <2>1, <2>2, <2>3 DEF NothingDangles
    <2> QED
      BY <1>0, <2>1, <2>2, <2>4, KnownLeave
  <1>10. ASSUME NEW r \in Requests, CommitStore(r) \/ CommitEdit(r) PROVE KnownInv'
    <2>1. req[r].to \in Item /\ Known(req[r].to.owner)
      BY <1>p, <1>t, <1>10, WorkFields DEF CommitStore, CommitEdit, Pending
    <2>2. UNCHANGED <<account, members, stray>> /\ Leave(r)
      BY <1>10 DEF CommitStore, CommitEdit, history
    <2>3. \A v \in Users : Known(v) => Known(v)'
      BY <2>2 DEF Known, Exists
    <2>4. \A i \in Items : item'[i] = item[i] \/ item'[i] = req[r].to
      BY <1>t, <1>10 DEF CommitStore, CommitEdit
    <2>5. \A i \in Items : item'[i] # NoItem => Known(item'[i].owner)
      BY <1>i, <2>1, <2>4
    <2>6. ItemsHaveALiveOwner'
      BY <2>2, <2>5 DEF ItemsHaveALiveOwner, Known, Exists
    <2>7. GroupsListLiveAccounts'
      BY <1>g, <1>l, <2>2, <2>3 DEF KnownList
    <2> QED
      BY <1>0, <2>2, <2>3, <2>6, <2>7, KnownLeave DEF NothingDangles
  <1>11. ASSUME NEW r \in Requests, CommitDelete(r) PROVE KnownInv'
    <2>1. Leave(r)
      BY <1>11 DEF CommitDelete
    <2> QED
      BY <1>0, <1>11, <2>1, KnownDelete, KnownLeave
  <1>12. ASSUME NEW r \in Requests, Abort(r) PROVE KnownInv'
    <2>1. UNCHANGED <<account, members, item, stray>> /\ Leave(r)
      BY <1>12 DEF Abort, tables, history
    <2>2. \A v \in Users : Known(v) => Known(v)'
      BY <2>1 DEF Known, Exists
    <2>3. NothingDangles'
      BY <1>g, <1>l, <1>o, <2>1, <2>2 DEF KnownList, NothingDangles
    <2> QED
      BY <1>0, <2>1, <2>2, <2>3, KnownLeave
  <1>13. CASE UNCHANGED accountsVars
    <2>1. UNCHANGED <<account, members, item, req, stray>>
      BY <1>13 DEF accountsVars, tables, history
    <2>2. NothingDangles'
      BY <1>0, <2>1 DEF NothingDangles, GroupsListLiveAccounts, ItemsHaveALiveOwner, Exists
    <2>3. (\A o \in Requests : Pending(req[o]))'
      BY <1>p, <2>1 DEF Pending, KnownList, Known, Exists
    <2> QED
      BY <1>0, <2>2, <2>3 DEF KnownInv
  <1> QED
    BY <1>1, <1>2, <1>3, <1>4, <1>5, <1>6, <1>7, <1>8, <1>9, <1>10, <1>11, <1>12, <1>13
       DEF AccountsNext, AdminStep

\* A deletion leaves nothing in a group or on an object that names the account,
\* whatever it overlaps: what dangles was put there by an administrator who named a
\* missing account, or by a request in flight with the deletion of the one it names
\* (repository.go:516, 523 and the pruning of every list).
THEOREM NothingIsLeftDangling == AccountsSpec => []NothingDangles
  <1>1. KnownInv => NothingDangles
    BY DEF KnownInv
  <1> QED
    BY <1>1, KnownInit, KnownStep, PTL DEF AccountsSpec

----------------------------------------------------------------------------
(* The last administrator *)

Creating(r) == req[r].pc = "create"

\* An id that is being given out is nobody's yet, and nobody else's to come.
NewIds ==
    /\ \A u \in Users : Exists(u) => u \in External \cup used
    /\ \A r \in Requests : Creating(r) => req[r].target \notin External \cup used
    /\ \A r, o \in Requests :
          Creating(r) /\ Creating(o) /\ r # o => req[r].target # req[o].target

\* While nothing has raced, every deletion past its count spares an administrator.
Spared(u) == \E v \in Admins : v # u

LeftInv ==
    /\ AccountsTypeOK
    /\ NewIds
    /\ raced \/ (/\ Admins # {}
                 /\ \A r \in Requests : Deleting(r) => Spared(req[r].target))

LEMMA LeftInit == AccountsInit => LeftInv
  <1> SUFFICES ASSUME AccountsInit PROVE LeftInv
    OBVIOUS
  <1>1. PICK a \in Users \ External, name \in Names :
           /\ account = [u \in Users |->
                 IF u = a THEN [admin |-> TRUE, blocked |-> FALSE, name |-> name]
                 ELSE NoAccount]
           /\ used = {a}
    BY DEF AccountsInit
  <1>2. a \in Admins
    BY <1>1, AccountRow DEF Admins, Exists
  <1>3. \A r \in Requests : req[r] = Free
    BY DEF AccountsInit
  <1>4. NewIds /\ \A r \in Requests : ~Deleting(r)
    BY <1>1, <1>3 DEF NewIds, Creating, Deleting, Exists, Free
  <1> QED
    BY <1>2, <1>4, AccountsTypeInit DEF LeftInv

\* An administrator among several is not the only one.
LEMMA AnotherAdmin ==
    ASSUME NEW u \in Users, u \in Admins, Cardinality(Admins) > 1
    PROVE  Spared(u)
  <1> SUFFICES ASSUME \A v \in Admins : v = u PROVE FALSE
    BY DEF Spared
  <1>1. Admins = {u}
    OBVIOUS
  <1>2. Cardinality(Admins) = 1
    BY <1>1, FS_Singleton
  <1> QED
    BY <1>2

\* A request that begins.
LEMMA LeftEnter ==
    ASSUME LeftInv, NEW r \in Requests, NEW q \in Work, Enter(r, q), AccountsTypeOK',
           UNCHANGED raced,
           q.pc = "create" =>
              /\ q.target \notin External \cup used
              /\ \A o \in Requests : Creating(o) => req[o].target # q.target,
           q.pc = "delete" /\ ~raced => Spared(q.target)
    PROVE  LeftInv'
  <1>1. UNCHANGED <<account, used, raced>> /\ req'[r] = q
        /\ \A o \in Requests \ {r} : req'[o] = req[o]
    BY EnterFields DEF LeftInv
  <1>2. NewIds'
    <2>1. (\A u \in Users : Exists(u) => u \in External \cup used)'
      BY <1>1 DEF LeftInv, NewIds, Exists
    <2>2. (\A o \in Requests : Creating(o) => req[o].target \notin External \cup used)'
      BY <1>1 DEF LeftInv, NewIds, Creating
    <2>3. (\A o, p \in Requests :
              Creating(o) /\ Creating(p) /\ o # p => req[o].target # req[p].target)'
      BY <1>1 DEF LeftInv, NewIds, Creating
    <2> QED
      BY <2>1, <2>2, <2>3 DEF NewIds
  <1>3. Admins' = Admins
    BY <1>1 DEF Admins, Exists
  <1>4. ~raced => (\A o \in Requests : Deleting(o) => Spared(req[o].target))'
    BY <1>1, <1>3 DEF LeftInv, Deleting, Spared
  <1> QED
    BY <1>1, <1>2, <1>3, <1>4 DEF LeftInv

\* A request that ends and is not a creation: no administrator goes.
LEMMA LeftLeave ==
    ASSUME LeftInv, NEW r \in Requests, Leave(r), AccountsTypeOK',
           UNCHANGED <<used, raced>>, Admins' = Admins,
           \A u \in Users : Exists(u)' => Exists(u)
    PROVE  LeftInv'
  <1>1. req'[r] = Free /\ \A o \in Requests \ {r} : req'[o] = req[o]
    BY LeaveFields DEF LeftInv
  <1>2. Free.pc = "idle"
    BY DEF Free
  <1>3. NewIds'
    <2>1. (\A u \in Users : Exists(u) => u \in External \cup used)'
      BY DEF LeftInv, NewIds
    <2>2. (\A o \in Requests : Creating(o) => req[o].target \notin External \cup used)'
      BY <1>1, <1>2 DEF LeftInv, NewIds, Creating
    <2>3. (\A o, p \in Requests :
              Creating(o) /\ Creating(p) /\ o # p => req[o].target # req[p].target)'
      BY <1>1, <1>2 DEF LeftInv, NewIds, Creating
    <2> QED
      BY <2>1, <2>2, <2>3 DEF NewIds
  <1>4. ~raced => (\A o \in Requests : Deleting(o) => Spared(req[o].target))'
    BY <1>1, <1>2 DEF LeftInv, Deleting, Spared
  <1> QED
    BY <1>3, <1>4 DEF LeftInv

LEMMA LeftStep ==
    ASSUME LeftInv, [AccountsNext]_accountsVars
    PROVE  LeftInv'
  <1>0. AccountsTypeOK /\ AccountsTypeOK' /\ NewIds
    BY AccountsTypeStep DEF LeftInv
  <1>t. /\ account \in [Users -> {NoAccount} \cup Account]
        /\ item \in [Items -> {NoItem} \cup Item] /\ req \in [Requests -> Work]
    BY <1>0 DEF AccountsTypeOK
  <1>1. ASSUME NEW u \in External, NEW admin \in BOOLEAN, NEW name \in Names,
               SsoSignIn(u, admin, name)
        PROVE  LeftInv'
    <2> DEFINE row == [admin |-> admin, blocked |-> Exists(u) /\ account[u].blocked,
                       name |-> name]
    <2>1. UNCHANGED <<used, req>> /\ account' = [account EXCEPT ![u] = row] /\ u \in Users
      BY <1>1, PeopleAssumption DEF SsoSignIn
    <2>2. row # NoAccount /\ row.admin = admin
      BY <1>0, <2>1, ExistingRow, AccountRow
    <2> HIDE DEF row
    <2>3. NewIds'
      BY <1>0, <2>1, <1>t DEF NewIds, Exists, Creating
    <2>4. Admins' = IF admin THEN Admins \cup {u} ELSE Admins \ {u}
      BY <1>t, <2>1, <2>2 DEF Admins, Exists
    <2>5. CASE admin \/ u \notin Admins
      <3>1. raced' = raced /\ Admins \subseteq Admins'
        BY <1>0, <1>1, <2>4, <2>5 DEF SsoSignIn, AccountsTypeOK
      <3>2. ~raced => Admins' # {}
        BY <3>1 DEF LeftInv
      <3>3. ~raced => (\A r \in Requests : Deleting(r) => Spared(req[r].target))'
        BY <2>1, <3>1 DEF LeftInv, Deleting, Spared
      <3> QED
        BY <1>0, <2>3, <3>1, <3>2, <3>3 DEF LeftInv
    <2>6. CASE ~admin /\ u \in Admins /\ ~raced'
      <3>1. Admins # {u} /\ \A r \in Requests : ~Deleting(r)
        BY <1>1, <2>6 DEF SsoSignIn
      <3>2. Admins' # {}
        BY <2>4, <2>6, <3>1
      <3>3. (\A r \in Requests : ~Deleting(r))'
        BY <2>1, <3>1 DEF Deleting
      <3> QED
        BY <1>0, <2>3, <3>2, <3>3 DEF LeftInv
    <2> QED
      BY <1>0, <2>3, <2>5, <2>6 DEF LeftInv
  <1>2. ASSUME NEW r \in Requests, NEW a \in Users, NEW u \in Users,
               NEW groups \in SUBSET Groups, NEW flag \in BOOLEAN, NEW name \in Names,
               BeginCreate(r, a, u, groups, flag, name)
        PROVE  LeftInv'
    <2> DEFINE q == [pc |-> "create", target |-> u, groups |-> groups,
                     row |-> [admin |-> flag, blocked |-> FALSE, name |-> name],
                     seen |-> members]
    <2>1. q \in Work
      BY <1>0, AccountRow DEF Work, AccountsTypeOK
    <2>2. q.pc = "create" /\ q.target = u
      OBVIOUS
    <2>3. Enter(r, q) /\ UNCHANGED raced /\ u \notin External \cup used
          /\ \A o \in Requests : Creating(o) => req[o].target # u
      BY <1>2 DEF BeginCreate, history, Creating
    <2> HIDE DEF q
    <2> QED
      BY <1>0, <2>1, <2>2, <2>3, LeftEnter
  <1>3. ASSUME NEW r \in Requests, NEW a \in Users, NEW u \in Users,
               NEW groups \in SUBSET Groups, NEW flag \in BOOLEAN,
               BeginAccess(r, a, u, groups, flag)
        PROVE  LeftInv'
    <2> DEFINE q == [pc |-> "access", target |-> u, groups |-> groups, blocked |-> flag,
                     seen |-> members]
    <2>1. q \in Work /\ q.pc = "access"
      BY <1>0 DEF Work, AccountsTypeOK
    <2>2. Enter(r, q) /\ UNCHANGED raced
      BY <1>3 DEF BeginAccess, history
    <2> HIDE DEF q
    <2> QED
      BY <1>0, <2>1, <2>2, LeftEnter
  <1>4. ASSUME NEW r \in Requests, NEW a \in Users, NEW g \in Groups, BeginGroup(r, a, g)
        PROVE  LeftInv'
    <2>1. PICK list \in Edited(members[g]) :
              Enter(r, [pc |-> "group", group |-> g, list |-> list])
      BY <1>4 DEF BeginGroup
    <2> DEFINE q == [pc |-> "group", group |-> g, list |-> list]
    <2>2. q \in Work /\ q.pc = "group"
      BY <1>0, <2>1, EditedLists DEF Work, AccountsTypeOK
    <2>3. Enter(r, q) /\ UNCHANGED raced
      BY <1>4, <2>1 DEF BeginGroup, history
    <2> HIDE DEF q
    <2> QED
      BY <1>0, <2>2, <2>3, LeftEnter
  <1>5. ASSUME NEW r \in Requests, NEW a \in Users, NEW u \in Users, BeginDelete(r, a, u)
        PROVE  LeftInv'
    <2>1. Exists(a) /\ Exists(u) /\ (account[u].admin => Cardinality(Admins) > 1)
          /\ Enter(r, Deletion(a, u)) /\ UNCHANGED raced
      BY <1>5 DEF BeginDelete, Acts, IsAdmin, history
    <2>2. Deletion(a, u) \in Work
      BY <1>0, <2>1, ExistingRow DEF Deletion, Work
    <2>3. Deletion(a, u).pc = "delete" /\ Deletion(a, u).target = u
      BY DEF Deletion
    <2>4. ~raced => Spared(u)
      <3>1. CASE u \in Admins
        BY <2>1, <3>1, AnotherAdmin DEF Admins
      <3>2. CASE u \notin Admins
        BY <3>2 DEF LeftInv, Spared
      <3> QED
        BY <3>1, <3>2
    <2> QED
      BY <1>0, <2>1, <2>2, <2>3, <2>4, LeftEnter
  <1>6. ASSUME NEW r \in Requests, NEW u \in Users, NEW i \in Items,
               BeginStore(r, u, i) \/ BeginEdit(r, u, i)
        PROVE  LeftInv'
    <2>1. PICK pc \in {"store", "edit"}, x \in Item :
             Enter(r, [pc |-> pc, item |-> i, to |-> x])
      <3>1. Exists(u)
        BY <1>6 DEF BeginStore, BeginEdit
      <3>2. item[i] # NoItem => item[i] \in Item
        BY <1>t
      <3> QED
        BY <1>0, <1>6, <3>1, <3>2, OwnedItems DEF BeginStore, BeginEdit
    <2> DEFINE q == [pc |-> pc, item |-> i, to |-> x]
    <2>2. q \in Work
      BY <2>1 DEF Work
    <2>4. q.pc \notin {"create", "delete"}
      BY <2>1
    <2>3. Enter(r, q) /\ UNCHANGED raced
      BY <1>6, <2>1 DEF BeginStore, BeginEdit
    <2> HIDE DEF q
    <2> QED
      BY <1>0, <2>2, <2>3, <2>4, LeftEnter
  <1>7. ASSUME NEW r \in Requests, CommitCreate(r) PROVE LeftInv'
    <2> DEFINE t == req[r].target
    <2>1. t \in Users /\ req[r].row \in Account /\ Creating(r)
      BY <1>t, <1>7, WorkFields DEF CommitCreate, Creating
    <2>2. account' = [account EXCEPT ![t] = req[r].row] /\ used' = used \cup {t}
          /\ UNCHANGED raced
      BY <1>7 DEF CommitCreate, history
    <2>3. req'[r] = Free /\ \A o \in Requests \ {r} : req'[o] = req[o]
      BY <1>0, <1>7, LeaveFields DEF CommitCreate
    <2>4. ~Exists(t)
      BY <1>0, <2>1 DEF NewIds
    <2>5. Admins \subseteq Admins'
      BY <1>t, <2>1, <2>2, <2>4 DEF Admins, Exists
    <2>6. NewIds'
      <3>1. (\A u \in Users : Exists(u) => u \in External \cup used)'
        BY <1>0, <1>t, <2>1, <2>2 DEF NewIds, Exists
      <3>2. (\A o \in Requests : Creating(o) => req[o].target \notin External \cup used)'
        BY <1>0, <2>1, <2>2, <2>3 DEF NewIds, Creating, Free
      <3>3. (\A o, p \in Requests :
                Creating(o) /\ Creating(p) /\ o # p => req[o].target # req[p].target)'
        BY <1>0, <2>3 DEF NewIds, Creating, Free
      <3> QED
        BY <3>1, <3>2, <3>3 DEF NewIds
    <2>7. ~raced => (\A o \in Requests : Deleting(o) => Spared(req[o].target))'
      BY <2>3, <2>5 DEF LeftInv, Deleting, Spared, Free
    <2>8. ~raced => Admins' # {}
      BY <2>5 DEF LeftInv
    <2> QED
      BY <1>0, <2>2, <2>6, <2>7, <2>8 DEF LeftInv
  <1>8. ASSUME NEW r \in Requests, CommitAccess(r) PROVE LeftInv'
    <2> DEFINE t == req[r].target
    <2>1. t \in Users /\ UNCHANGED <<used, raced>> /\ Leave(r)
      BY <1>t, <1>8, WorkFields DEF CommitAccess, history
    <2>2. ASSUME Exists(t)
          PROVE  LET row == [account[t] EXCEPT !.blocked = req[r].blocked]
                 IN  row # NoAccount /\ row.admin = account[t].admin
      <3>1. req[r].blocked \in BOOLEAN
        BY <1>t, <1>8, WorkFields DEF CommitAccess
      <3>2. [account[t] EXCEPT !.blocked = req[r].blocked] \in Account
        BY <1>0, <2>1, <2>2, <3>1, ExistingRow DEF Account
      <3>3. [account[t] EXCEPT !.blocked = req[r].blocked].admin = account[t].admin
        BY <1>0, <2>1, <2>2, ExistingRow DEF Account
      <3> QED
        BY <3>2, <3>3, NothingAssumption
    <2>3. \A v \in Users :
             \/ account'[v] = account[v]
             \/ /\ v = t /\ Exists(t)
                /\ account'[v] = [account[t] EXCEPT !.blocked = req[r].blocked]
      <3>1. CASE Exists(t)
        <4>1. account' = [account EXCEPT ![t].blocked = req[r].blocked]
          BY <1>8, <3>1 DEF CommitAccess
        <4> QED
          BY <1>t, <2>1, <3>1, <4>1
      <3>2. CASE ~Exists(t)
        BY <1>8, <3>2 DEF CommitAccess
      <3> QED
        BY <3>1, <3>2
    <2>4. \A v \in Users : Exists(v)' <=> Exists(v)
      BY <2>2, <2>3 DEF Exists
    <2>5. Admins' = Admins
      BY <2>2, <2>3, <2>4 DEF Admins
    <2> QED
      BY <1>0, <2>1, <2>4, <2>5, LeftLeave
  <1>9. ASSUME NEW r \in Requests,
               CommitGroup(r) \/ CommitStore(r) \/ CommitEdit(r) \/ Abort(r)
        PROVE  LeftInv'
    <2>1. UNCHANGED <<account, used, raced>> /\ Leave(r)
      BY <1>9 DEF CommitGroup, CommitStore, CommitEdit, Abort, tables, history
    <2>2. Admins' = Admins /\ \A u \in Users : Exists(u)' => Exists(u)
      BY <2>1 DEF Admins, Exists
    <2> QED
      BY <1>0, <2>1, <2>2, LeftLeave
  <1>10. ASSUME NEW r \in Requests, CommitDelete(r) PROVE LeftInv'
    <2> DEFINE t == req[r].target
    <2>1. t \in Users /\ Deleting(r) /\ Exists(t)
          /\ account' = [account EXCEPT ![t] = NoAccount] /\ UNCHANGED used
          /\ (raced' = (raced \/ (/\ t \in Admins
                                  /\ \E o \in Requests \ {r} : Deleting(o))))
      BY <1>t, <1>10, WorkFields DEF CommitDelete, Deleting, Deleted
    <2>2. req'[r] = Free /\ \A o \in Requests \ {r} : req'[o] = req[o]
      BY <1>0, <1>10, LeaveFields DEF CommitDelete
    <2>3. Admins' = Admins \ {t}
      BY <1>t, <2>1 DEF Admins, Exists
    <2>4. NewIds'
      <3>1. (\A u \in Users : Exists(u) => u \in External \cup used)'
        BY <1>0, <1>t, <2>1 DEF NewIds, Exists
      <3>2. (\A o \in Requests : Creating(o) => req[o].target \notin External \cup used)'
        BY <1>0, <2>1, <2>2 DEF NewIds, Creating, Free
      <3>3. (\A o, p \in Requests :
                Creating(o) /\ Creating(p) /\ o # p => req[o].target # req[p].target)'
        BY <1>0, <2>2 DEF NewIds, Creating, Free
      <3> QED
        BY <3>1, <3>2, <3>3 DEF NewIds
    <2>5. ASSUME ~raced'
          PROVE  Admins' # {} /\ (\A o \in Requests : Deleting(o) => Spared(req[o].target))'
      <3>1. ~raced /\ Spared(t) /\ \A o \in Requests : Deleting(o) => Spared(req[o].target)
        BY <2>1, <2>5 DEF LeftInv
      <3>2. Admins' # {}
        BY <2>3, <3>1 DEF Spared
      <3>3. t \in Admins => \A o \in Requests \ {r} : ~Deleting(o)
        BY <2>1, <2>5
      <3>4. (\A o \in Requests : Deleting(o) => Spared(req[o].target))'
        BY <2>2, <2>3, <3>1, <3>3 DEF Deleting, Spared, Free
      <3> QED
        BY <3>2, <3>4
    <2> QED
      BY <1>0, <2>4, <2>5 DEF LeftInv
  <1>11. CASE UNCHANGED accountsVars
    <2>1. UNCHANGED <<account, used, req, raced>>
      BY <1>11 DEF accountsVars, tables, history
    <2>2. Admins' = Admins
      BY <2>1 DEF Admins, Exists
    <2>3. NewIds'
      BY <1>0, <2>1 DEF NewIds, Creating, Exists
    <2> QED
      BY <1>0, <2>1, <2>2, <2>3 DEF LeftInv, Deleting, Spared
  <1> QED
    BY <1>1, <1>2, <1>3, <1>4, <1>5, <1>6, <1>7, <1>8, <1>9, <1>10, <1>11
       DEF AccountsNext, AdminStep

\* A deletion never takes the last administrator (service.go:392), whatever overlaps
\* it, unless another administrator is lost between its count and its commit or the
\* directory takes the last one's flag.
THEOREM AnAdminIsLeft == AccountsSpec => []AnAdministratorIsLeft
  <1>1. LeftInv => AnAdministratorIsLeft
    BY DEF LeftInv, AnAdministratorIsLeft
  <1> QED
    BY <1>1, LeftInit, LeftStep, PTL DEF AccountsSpec
=============================================================================
