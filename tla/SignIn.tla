------------------------------- MODULE SignIn -------------------------------
(***************************************************************************)
(* Signing in from a browser (backend/internal/api: server.go,             *)
(* ratelimit.go, handlers_auth.go, microsoft_auth.go; auth/repository.go): *)
(* by password, with the failed-login counter and the lock it sets, and    *)
(* through Microsoft, where one request leaves for the provider and        *)
(* another one comes back.                                                 *)
(*                                                                         *)
(* A password attempt reads its account's row, compares for a long time    *)
(* and writes what it computed from the row it read.  A reply's cookies    *)
(* reach the browser some time after the request was handled, so replies   *)
(* to two tabs of one browser may arrive in any order, or not at all.      *)
(***************************************************************************)
EXTENDS Naturals, FiniteSets, Combinatorics

CONSTANTS
    Accounts,   \* rows of app_users
    Browsers,
    Whose,      \* the one account the person at a browser can prove to be
    Addresses,  \* client addresses
    Replicas,   \* backend processes, each with a rate limiter of its own
    Calls,      \* request slots
    Tokens,     \* session tokens
    States,     \* values of the Microsoft state parameter
    MaxFailed,  \* wrong passwords that lock an account: 8 in the code
    Limit,      \* attempts per address and window: 20 in the code
    MaxLapses,  \* bound on how often an account's lock runs out
    NoToken, NoState, NoFlow, NoSession

ASSUME SignInAssumption ==
    /\ Whose \in [Browsers -> Accounts]
    /\ MaxFailed \in Nat \ {0} /\ Limit \in Nat \ {0} /\ MaxLapses \in Nat

VARIABLES
    login,    \* app_users: failed_login_attempts, locked_until, workspace_blocked
    window,   \* each replica's count per address in the current window
    session,  \* auth_sessions: whose, and is the row still there
    jar,      \* each browser's cookies aw_session and aw_ms_state
    flow,     \* Microsoft sign-ins: who began one, who signed in, its code
    call,     \* the requests in flight
    guesses,  \* history: wrong passwords whose count was written, since the last
              \* lock or cleared count
    lapses    \* how often each account's lock has run out

vars == <<login, window, session, jar, flow, call, guesses, lapses>>

----------------------------------------------------------------------------
Cookies == {"token", "state"}

Login == [failed : Nat, lock : {"none", "ahead", "past"}, blocked : BOOLEAN]
Session == [of : Accounts, live : BOOLEAN]
Jar == [token : Tokens \cup {NoToken}, state : States \cup {NoState}]
Flow == [by : Browsers, code : {"none", "live", "spent"}]

Idle == [pc |-> "idle"]
Attempt == [pc : {"password"}, at : Browsers, account : Accounts, right : BOOLEAN,
            failed : Nat, lock : {"none", "past"}]
Callback == [pc : {"exchange"}, at : Browsers, state : States]
Issuing == [pc : {"issue"}, at : Browsers, account : Accounts, clears : SUBSET Cookies]
Answer == [pc : {"reply"}, at : Browsers, clears : SUBSET Cookies,
           token : Tokens \cup {NoToken}]

ASSUME NonesAssumption ==
    /\ NoToken \notin Tokens /\ NoState \notin States
    /\ NoFlow \notin Flow /\ NoSession \notin Session

TypeOK ==
    /\ login \in [Accounts -> Login]
    /\ window \in [Replicas \X Addresses -> 0 .. Limit]
    /\ session \in [Tokens -> Session \cup {NoSession}]
    /\ jar \in [Browsers -> Jar]
    /\ flow \in [States -> Flow \cup {NoFlow}]
    /\ call \in [Calls -> {Idle} \cup Attempt \cup Callback \cup Issuing \cup Answer]
    /\ guesses \in [Accounts -> Nat] /\ lapses \in [Accounts -> 0 .. MaxLapses]

Init ==
    /\ login \in [Accounts -> [failed : {0}, lock : {"none"}, blocked : BOOLEAN]]
    /\ window = [w \in Replicas \X Addresses |-> 0]
    /\ session = [t \in Tokens |-> NoSession]
    /\ jar = [b \in Browsers |-> [token |-> NoToken, state |-> NoState]]
    /\ flow = [st \in States |-> NoFlow]
    /\ call = [c \in Calls |-> Idle]
    /\ guesses = [a \in Accounts |-> 0]
    /\ lapses = [a \in Accounts |-> 0]

At(c, pc) == call[c].pc = pc
Begin(c, q) == At(c, "idle") /\ call' = [call EXCEPT ![c] = q]
Goto(c, q) == call' = [call EXCEPT ![c] = q]

\* The answer that is on its way to the browser: the cookies it takes away,
\* and the session it brings, if any.
Reply(c, clears, t) ==
    Goto(c, [pc |-> "reply", at |-> call[c].at, clears |-> clears, token |-> t])

----------------------------------------------------------------------------
(* Passwords.                                                              *)

\* allow: within the limit of this window, and counted.
Allow(r, n) ==
    /\ window[<<r, n>>] < Limit
    /\ window' = [window EXCEPT ![<<r, n>>] = @ + 1]

WindowEnds(r, n) ==
    /\ window[<<r, n>>] > 0
    /\ window' = [window EXCEPT ![<<r, n>>] = 0]
    /\ UNCHANGED <<login, session, jar, flow, call, guesses, lapses>>

\* Login up to the comparison: the limiter, then the account's row.  Locked
\* and blocked accounts are refused without a comparison.
Password(c, b, a, right, r, n) ==
    /\ right => a = Whose[b]
    /\ Allow(r, n)
    /\ login[a].lock # "ahead" /\ ~login[a].blocked
    /\ Begin(c, [pc |-> "password", at |-> b, account |-> a, right |-> right,
                 failed |-> login[a].failed, lock |-> login[a].lock])
    /\ UNCHANGED <<login, session, jar, flow, guesses, lapses>>

\* recordFailedLogin with the lock set only on the attempt that reaches the limit.
RecordFailedOnce(a, count) ==
    \/ /\ count = MaxFailed
       /\ login' = [login EXCEPT ![a] = [@ EXCEPT !.failed = count, !.lock = "ahead"]]
       /\ guesses' = [guesses EXCEPT ![a] = 0]
    \/ /\ count # MaxFailed
       /\ login' = [login EXCEPT ![a].failed = count]
       /\ guesses' = [guesses EXCEPT ![a] = @ + 1]
    \/ UNCHANGED <<login, guesses>>

\* recordFailedLogin: the count is what the attempt read, plus one.  The write
\* is a best effort: it may fail, or its request be cancelled, and nobody knows.
RecordFailed(a, count) ==
    \/ /\ count >= MaxFailed
       /\ login' = [login EXCEPT ![a] = [@ EXCEPT !.failed = count, !.lock = "ahead"]]
       /\ guesses' = [guesses EXCEPT ![a] = 0]
    \/ /\ ~(count >= MaxFailed)
       /\ login' = [login EXCEPT ![a].failed = count]
       /\ guesses' = [guesses EXCEPT ![a] = @ + 1]
    \/ UNCHANGED <<login, guesses>>

Wrong(c) ==
    /\ At(c, "password") /\ ~call[c].right
    /\ RecordFailed(call[c].account, call[c].failed + 1)
    /\ Reply(c, {}, NoToken)
    /\ UNCHANGED <<window, session, jar, flow, lapses>>

\* A success clears the count and the lock, unless it read that there was
\* nothing to clear.  This write may fail unnoticed as well.
Right(c) ==
    LET a == call[c].account IN
    /\ At(c, "password") /\ call[c].right
    /\ \/ /\ call[c].failed # 0 \/ call[c].lock # "none"
          /\ login' = [login EXCEPT ![a] = [@ EXCEPT !.failed = 0, !.lock = "none"]]
          /\ guesses' = [guesses EXCEPT ![a] = 0]
       \/ UNCHANGED <<login, guesses>>
    /\ Goto(c, [pc |-> "issue", at |-> call[c].at, account |-> a, clears |-> {}])
    /\ UNCHANGED <<window, session, jar, flow, lapses>>

\* locked_until passes.  The count stays.
LockEnds(a) ==
    /\ login[a].lock = "ahead" /\ lapses[a] < MaxLapses
    /\ login' = [login EXCEPT ![a].lock = "past"]
    /\ lapses' = [lapses EXCEPT ![a] = @ + 1]
    /\ UNCHANGED <<window, session, jar, flow, call, guesses>>

----------------------------------------------------------------------------
(* Microsoft.                                                              *)

HasCode(st, codes) == flow[st] # NoFlow /\ flow[st].code \in codes

\* handleMicrosoftStart: a fresh state goes to the provider and, as a cookie,
\* to the browser, over the state of a sign-in that has not come back yet.
MicrosoftStart(b, st) ==
    /\ flow[st] = NoFlow
    /\ flow' = [flow EXCEPT ![st] = [by |-> b, code |-> "none"]]
    /\ jar' = [jar EXCEPT ![b].state = st]
    /\ UNCHANGED <<login, window, session, call, guesses, lapses>>

\* The provider: whoever sits at the browser signs in, and a code is made out.
SignInAtMicrosoft(st) ==
    /\ HasCode(st, {"none"})
    /\ flow' = [flow EXCEPT ![st].code = "live"]
    /\ UNCHANGED <<login, window, session, jar, call, guesses, lapses>>

\* Any browser that has begun a sign-in would do.
StateIsThere(b, st) == jar[b].state # NoState

\* The callback's state must be the one in the browser's cookie.
StateMatches(b, st) == jar[b].state = st

\* handleMicrosoftCallback up to the exchange.  The address it is called by
\* may be opened again, or in another browser.
MicrosoftCallback(c, b, st) ==
    /\ HasCode(st, {"live", "spent"})
    /\ StateMatches(b, st)
    /\ Begin(c, [pc |-> "exchange", at |-> b, state |-> st])
    /\ UNCHANGED <<login, window, session, jar, flow, guesses, lapses>>

\* exchangeMicrosoftCode, resolveMicrosoftUser: the provider takes a code once
\* and answers whose it is.
Exchange(c) ==
    LET st == call[c].state IN
    /\ At(c, "exchange") /\ HasCode(st, {"live"})
    /\ flow' = [flow EXCEPT ![st].code = "spent"]
    /\ Goto(c, [pc |-> "issue", at |-> call[c].at, account |-> Whose[flow[st].by],
                clears |-> {"state"}])
    /\ UNCHANGED <<login, window, session, jar, guesses, lapses>>

\* The configuration, the exchange or the profile fails, the last two perhaps
\* after the code was taken.
ExchangeFails(c) ==
    LET st == call[c].state IN
    /\ At(c, "exchange") /\ HasCode(st, {"live", "spent"})
    /\ \E code \in {flow[st].code, "spent"} : flow' = [flow EXCEPT ![st].code = code]
    /\ Reply(c, {"state"}, NoToken)
    /\ UNCHANGED <<login, window, session, jar, guesses, lapses>>

----------------------------------------------------------------------------
(* Sessions and cookies.                                                   *)

\* issueSession: not for a blocked account; a token is a new uuid.
IssueSession(c) ==
    LET a == call[c].account IN
    /\ At(c, "issue")
    /\ IF login[a].blocked
         THEN Reply(c, call[c].clears, NoToken) /\ UNCHANGED session
         ELSE \E t \in Tokens :
                /\ session[t] = NoSession
                /\ session' = [session EXCEPT ![t] = [of |-> a, live |-> TRUE]]
                /\ Reply(c, call[c].clears, t)
    /\ UNCHANGED <<login, window, jar, flow, guesses, lapses>>

\* handleLogout: the row of the token the browser presents goes, if any.
Logout(c, b) ==
    LET t == jar[b].token IN
    /\ Begin(c, [pc |-> "reply", at |-> b, clears |-> {"token"}, token |-> NoToken])
    /\ IF t = NoToken \/ session[t] = NoSession THEN UNCHANGED session
       ELSE session' = [session EXCEPT ![t].live = FALSE]
    /\ UNCHANGED <<login, window, jar, flow, guesses, lapses>>

\* The browser takes the cookies of an answer.
TakeReply(c) ==
    LET q == call[c] IN
    /\ At(c, "reply")
    /\ jar' = [jar EXCEPT ![q.at] =
         [token |-> IF q.token # NoToken THEN q.token
                    ELSE IF "token" \in q.clears THEN NoToken ELSE @.token,
          state |-> IF "state" \in q.clears THEN NoState ELSE @.state]]
    /\ Goto(c, Idle)
    /\ UNCHANGED <<login, window, session, flow, guesses, lapses>>

LoseReply(c) ==
    /\ At(c, "reply")
    /\ Goto(c, Idle)
    /\ UNCHANGED <<login, window, session, jar, flow, guesses, lapses>>

\* A cookie or its row runs out.
CookieEnds(b) ==
    /\ \/ jar[b].token # NoToken /\ jar' = [jar EXCEPT ![b].token = NoToken]
       \/ jar[b].state # NoState /\ jar' = [jar EXCEPT ![b].state = NoState]
    /\ UNCHANGED <<login, window, session, flow, call, guesses, lapses>>

----------------------------------------------------------------------------
Next ==
    \/ \E c \in Calls :
         \/ \E b \in Browsers, a \in Accounts, right \in BOOLEAN,
               r \in Replicas, n \in Addresses : Password(c, b, a, right, r, n)
         \/ Wrong(c) \/ Right(c)
         \/ \E b \in Browsers, st \in States : MicrosoftCallback(c, b, st)
         \/ Exchange(c) \/ ExchangeFails(c) \/ IssueSession(c)
         \/ \E b \in Browsers : Logout(c, b)
         \/ TakeReply(c) \/ LoseReply(c)
    \/ \E r \in Replicas, n \in Addresses : WindowEnds(r, n)
    \/ \E a \in Accounts : LockEnds(a)
    \/ \E b \in Browsers, st \in States : MicrosoftStart(b, st)
    \/ \E st \in States : SignInAtMicrosoft(st)
    \/ \E b \in Browsers : CookieEnds(b)

Spec == Init /\ [][Next]_vars

----------------------------------------------------------------------------
(***************************************************************************)
(* The counter is written absolutely from a stale read, so overlapping     *)
(* attempts lose counts and one of them may set the count back, and a      *)
(* write that fails is passed over; yet of the wrong passwords whose       *)
(* writes succeed a bounded number always sets the lock, again after each  *)
(* time it has run out: with one request at a time the MaxFailed-th, with  *)
(* k at a time at the latest the one of a number that grows with k.  What  *)
(* the writes that fail let through, nothing counts.  (Authenticate,       *)
(* recordFailedLogin)                                                      *)
(***************************************************************************)
GuessesEndInALock ==
    \A a \in Accounts :
        guesses[a] < choose(MaxFailed + Cardinality(Calls) - 1, Cardinality(Calls))

(***************************************************************************)
(* A browser only ever holds a session of the account that its own user    *)
(* proved to be, whatever tabs it has open, wherever the address Microsoft *)
(* sent it back to is opened, and in whatever order answers arrive.        *)
(* (handleMicrosoftStart, handleMicrosoftCallback, handleLogin)            *)
(***************************************************************************)
EachBrowserHoldsItsOwnSession ==
    \A b \in Browsers : jar[b].token # NoToken => session[jar[b].token].of = Whose[b]
=============================================================================
