------------------------------ MODULE Reminders ------------------------------
(***************************************************************************)
(* Expiry reminders (backend/internal/notifications/service.go), for the   *)
(* credentials of one record.                                              *)
(*                                                                         *)
(* A request or a synchronisation that has written the record evaluates it *)
(* and then mails what is pending: it reads the record, marks read the     *)
(* reminders of other dates, records one reminder for each credential and  *)
(* recipient when a reminder day is reached, reads the pending ones, and   *)
(* sends and marks one digest after the other.  Nothing holds a lock in    *)
(* between, and any error ends it silently.                                *)
(***************************************************************************)
EXTENDS Integers, FiniteSets

CONSTANTS
    Users,         \* recipients: the record's owner, its team, administrators
    Addressed,     \* those with an e-mail address
    Items,         \* credentials of the record
    Dates, DayOf,  \* expiry timestamps and the day each falls on
    LastDay,       \* bound on the days that pass
    ReminderDays,  \* days before the expiry on which the policy reminds
    Requests,      \* requests and synchronisations that evaluate
    MaxFailures,   \* bound on requests that stop half-way, marks that fail and digests
                   \* that are delivered although an error is reported
    NoDate, NoRow

VARIABLES
    day,       \* today
    expiry,    \* the record's credentials: a date, or none
    rows,      \* expiry_notifications, by recipient, credential, date and day
    req,       \* requests in flight
    mails,     \* history: how often each reminder was mailed, or that this is unclear
    calm,      \* history: no two requests have been in flight together
    failures

vars == <<day, expiry, rows, req, mails, calm, failures>>

----------------------------------------------------------------------------
Days == 0 .. LastDay
Key == [user : Users, item : Items, end : Dates, day : Days]
\* The status is "off" where the policy of the day has no e-mail among its channels.
Row == [read : {"no", "seen", "superseded"}, status : {"off", "", "failed", "sent"}]

\* It is unclear how often a reminder was mailed once an error was reported of what
\* had been delivered, a success was not recorded, or two flushes had listed it.
Mailed == {"no", "once", "twice", "unclear"}
OnceMore == [no |-> "once", once |-> "twice", twice |-> "twice", unclear |-> "unclear"]

Idle == [pc |-> "idle"]
Request ==
    {Idle}
    \cup [pc : {"read", "list"}]
    \cup [pc : {"supersede", "due"}, seen : [Items -> Dates \cup {NoDate}]]
    \cup [pc : {"ensure"}, left : SUBSET Key]
    \cup [pc : {"send"}, left : SUBSET Key]
    \cup [pc : {"mark"}, left : SUBSET Key, user : Users, outcome : {"sent", "failed"}]

ASSUME CalendarAssumption == DayOf \in [Dates -> Int] /\ LastDay \in Nat
ASSUME BoundAssumption == MaxFailures \in Nat
ASSUME NonesAssumption == NoDate \notin Dates /\ NoRow \notin Row

At(r, pc) == req[r].pc = pc
Goto(r, q) == req' = [req EXCEPT ![r] = q]

Unread == {k \in Key : rows[k] # NoRow /\ rows[k].read = "no"}
Untried == {k \in Unread : rows[k].status = ""}
Current(k) == expiry[k.item] = k.end

Init ==
    /\ day = 0
    /\ expiry \in [Items -> Dates \cup {NoDate}]
    /\ rows = [k \in Key |-> NoRow]
    /\ req = [r \in Requests |-> Idle]
    /\ mails = [k \in Key |-> "no"]
    /\ calm = TRUE
    /\ failures = 0

----------------------------------------------------------------------------
(* Writing the record                                                      *)

Begin(r) ==
    /\ At(r, "idle")
    /\ calm' = (calm /\ \A o \in Requests : At(o, "idle"))
    /\ Goto(r, [pc |-> "read"])

\* A synchronisation finds nothing changed, or a policy is saved.
Refresh(r) ==
    /\ Begin(r)
    /\ UNCHANGED <<day, expiry, rows, mails, failures>>

\* A credential is rotated, deleted or loses its expiry.
Rotate(r, i, date) ==
    /\ date # expiry[i]
    /\ Begin(r)
    /\ expiry' = [expiry EXCEPT ![i] = date]
    /\ UNCHANGED <<day, rows, mails, failures>>

----------------------------------------------------------------------------
(* EvaluateResource                                                        *)

ReadRecord(r) ==
    /\ At(r, "read")
    /\ Goto(r, [pc |-> "supersede", seen |-> expiry])
    /\ UNCHANGED <<day, expiry, rows, mails, calm, failures>>

SupersedeDated(r) == \* variant: only credentials that have an expiry are compared
    /\ At(r, "supersede")
    /\ rows' = [k \in Key |->
           IF k \in Unread /\ req[r].seen[k.item] \notin {k.end, NoDate}
           THEN [rows[k] EXCEPT !.read = "superseded"] ELSE rows[k]]
    /\ Goto(r, [pc |-> "due", seen |-> req[r].seen])
    /\ UNCHANGED <<day, expiry, mails, calm, failures>>

SupersedeNone(r) == \* variant: nothing is superseded
    /\ At(r, "supersede")
    /\ Goto(r, [pc |-> "due", seen |-> req[r].seen])
    /\ UNCHANGED <<day, expiry, rows, mails, calm, failures>>

\* supersedeStaleReminders: unread reminders of any date but the one that was
\* read, seen or deleted credentials alike.
Supersede(r) ==
    /\ At(r, "supersede")
    /\ rows' = [k \in Key |->
           IF k \in Unread /\ req[r].seen[k.item] # k.end
           THEN [rows[k] EXCEPT !.read = "superseded"] ELSE rows[k]]
    /\ Goto(r, [pc |-> "due", seen |-> req[r].seen])
    /\ UNCHANGED <<day, expiry, mails, calm, failures>>

\* Recorded what was left, the evaluation goes on to the flush.
EnsureRest(r, left) ==
    Goto(r, IF left = {} THEN [pc |-> "list"] ELSE [pc |-> "ensure", left |-> left])

\* The reminders that are due, by today's clock.
FindDue(r) ==
    /\ At(r, "due")
    /\ EnsureRest(r, {k \in Key : /\ k.day = day
                                 /\ req[r].seen[k.item] = k.end
                                 /\ DayOf[k.end] - day \in ReminderDays})
    /\ UNCHANGED <<day, expiry, rows, mails, calm, failures>>

\* ensureReminder: a reminder that exists, read or not, is left alone; the
\* unique index refuses a second one.
Ensure(r) ==
    /\ At(r, "ensure")
    /\ \E k \in req[r].left, status \in {"off", ""} :
          /\ rows' = [rows EXCEPT ![k] =
                 IF @ = NoRow THEN [read |-> "no", status |-> status] ELSE @]
          /\ EnsureRest(r, req[r].left \ {k})
    /\ UNCHANGED <<day, expiry, mails, calm, failures>>

\* An error ends the evaluation, and the flush follows all the same.
EvaluationFails(r) ==
    /\ req[r].pc \in {"read", "supersede", "due", "ensure"}
    /\ failures < MaxFailures
    /\ failures' = failures + 1
    /\ Goto(r, [pc |-> "list"])
    /\ UNCHANGED <<day, expiry, rows, mails, calm>>

----------------------------------------------------------------------------
(* FlushPendingEmails                                                      *)

SendRest(r, left) ==
    Goto(r, IF left = {} THEN Idle ELSE [pc |-> "send", left |-> left])

Digest(r, u) == {k \in req[r].left : k.user = u}

\* What a flush has listed and not done with, and what of it is sent and not marked.
Held(r) == IF req[r].pc \in {"send", "mark"} THEN req[r].left ELSE {}
JustSent(r) ==
    IF At(r, "mark") /\ req[r].outcome = "sent" THEN Digest(r, req[r].user) ELSE {}

Unclear(K) == mails' = [k \in Key |-> IF k \in K THEN "unclear" ELSE mails[k]]

List(r, K) ==
    /\ SendRest(r, K)
    /\ Unclear(K \cap UNION {Held(o) : o \in Requests})
    /\ UNCHANGED <<day, expiry, rows, calm, failures>>

ListEveryUnread(r) == \* variant: what was sent is listed again
    At(r, "list") /\ List(r, {k \in Unread : rows[k].status # "off"})

ListToday(r) == \* variant: the one-day window covers every reminder
    At(r, "list") /\ List(r, {k \in Unread : rows[k].status \in {"", "failed"} /\ k.day = day})

\* listPendingEmailReminders: for e-mail, unread and not tried, or failed less than a day
\* ago, which reaches back into yesterday.
ListPending(r) ==
    LET failed(d) == {k \in Unread : rows[k].status = "failed" /\ k.day = d}
    IN
    /\ At(r, "list")
    /\ \E recent \in SUBSET failed(day - 1) : List(r, Untried \cup failed(day) \cup recent)

\* One digest, for one recipient; no address, no mail.
Sending(r, u, outcome) ==
    /\ At(r, "send")
    /\ Digest(r, u) # {}
    /\ Goto(r, [pc |-> "mark", left |-> req[r].left, user |-> u, outcome |-> outcome])
    /\ UNCHANGED <<day, expiry, rows, calm>>

Send(r, u, outcome) ==
    /\ Sending(r, u, outcome)
    /\ outcome = "sent" => u \in Addressed
    /\ mails' = [k \in Key |-> IF outcome = "sent" /\ k \in Digest(r, u)
                                THEN OnceMore[mails[k]] ELSE mails[k]]
    /\ UNCHANGED failures

\* The server has taken the message and the connection ends in an error.
SendUnnoticed(r, u) ==
    /\ Sending(r, u, "failed")
    /\ u \in Addressed
    /\ failures < MaxFailures
    /\ failures' = failures + 1
    /\ Unclear(Digest(r, u))

NextDigest(r) ==
    SendRest(r, req[r].left \ Digest(r, req[r].user))

MarkReadColumn(r) == \* variant: the outcome goes to the wrong column
    /\ At(r, "mark")
    /\ rows' = [k \in Key |->
           IF k \in Digest(r, req[r].user) /\ rows[k] # NoRow
           THEN [rows[k] EXCEPT !.read = req[r].outcome] ELSE rows[k]]
    /\ NextDigest(r)
    /\ UNCHANGED <<day, expiry, mails, calm, failures>>

\* markEmailStatus, read meanwhile or not.
Mark(r) ==
    /\ At(r, "mark")
    /\ rows' = [k \in Key |->
           IF k \in Digest(r, req[r].user) /\ rows[k] # NoRow
           THEN [rows[k] EXCEPT !.status = req[r].outcome] ELSE rows[k]]
    /\ NextDigest(r)
    /\ UNCHANGED <<day, expiry, mails, calm, failures>>

\* The error of a mark is dropped.
MarkFails(r) ==
    /\ At(r, "mark")
    /\ failures < MaxFailures
    /\ failures' = failures + 1
    /\ NextDigest(r)
    /\ Unclear(JustSent(r))
    /\ UNCHANGED <<day, expiry, rows, calm>>

\* The process stops, or the pending reminders cannot be read.
Stop(r) ==
    /\ ~At(r, "idle")
    /\ failures < MaxFailures
    /\ failures' = failures + 1
    /\ Goto(r, Idle)
    /\ Unclear(JustSent(r))
    /\ UNCHANGED <<day, expiry, rows, calm>>

----------------------------------------------------------------------------
\* markRead and markAllRead
MarkRead(K) ==
    /\ K # {}
    /\ rows' = [k \in Key |-> IF k \in K THEN [rows[k] EXCEPT !.read = "seen"]
                              ELSE rows[k]]
    /\ UNCHANGED <<day, expiry, req, mails, calm, failures>>

NextDay ==
    /\ day < LastDay
    /\ day' = day + 1
    /\ UNCHANGED <<expiry, rows, req, mails, calm, failures>>

Evaluate(r) ==
    ReadRecord(r) \/ Supersede(r) \/ FindDue(r) \/ Ensure(r)

Flush(r) ==
    \/ ListPending(r) \/ Mark(r)
    \/ \E u \in Users, outcome \in {"sent", "failed"} : Send(r, u, outcome)

Next ==
    \/ \E r \in Requests :
          \/ Refresh(r)
          \/ \E i \in Items, date \in Dates \cup {NoDate} : Rotate(r, i, date)
          \/ Evaluate(r) \/ EvaluationFails(r)
          \/ Flush(r) \/ MarkFails(r) \/ Stop(r)
          \/ \E u \in Users : SendUnnoticed(r, u)
    \/ \E k \in Unread : MarkRead({k})
    \/ \E u \in Users : MarkRead({k \in Unread : k.user = u})
    \/ NextDay

Spec == Init /\ [][Next]_vars

\* A request in flight goes on, and the synchronisation comes round again.
FairSpec ==
    /\ Spec
    /\ \A r \in Requests : WF_vars(Evaluate(r)) /\ WF_vars(Flush(r))
    /\ WF_vars(\E r \in Requests : Refresh(r))

----------------------------------------------------------------------------
(* Properties                                                              *)

TypeOK ==
    /\ day \in Days
    /\ expiry \in [Items -> Dates \cup {NoDate}]
    /\ rows \in [Key -> {NoRow} \cup Row]
    /\ req \in [Requests -> Request]
    /\ mails \in [Key -> Mailed]
    /\ calm \in BOOLEAN
    /\ failures \in 0 .. MaxFailures

\* Nothing has overlapped and nothing has failed.
Undisturbed == calm /\ failures = 0

\* When one write at a time has been evaluated to its end, the notification centre
\* shows no expiry that the record does not have (supersedeStaleReminders runs
\* before anything else).
OnlyCurrentRemindersStand ==
    Undisturbed /\ (\A r \in Requests : At(r, "idle")) => \A k \in Unread : Current(k)

\* A reminder goes out in one digest at most, over flushes that overlap, stop and
\* fail (listPendingEmailReminders: delivery has not already succeeded), but for the
\* three ways in which no row comes to say that it did: an error is reported of what
\* was delivered, the success is not recorded, or two flushes have it listed at once.
MailedOnce == \A k \in Key : mails[k] # "twice"

\* An evaluation supersedes no reminder that describes the record as it is, though
\* others failed before it.
SupersedesOnlyTheStale ==
    [][calm => \A k \in Unread :
          rows'[k] # NoRow /\ rows'[k].read = "superseded" => ~Current(k)]_vars

\* No digest names an expiry date that the record does not have any more, whether its
\* delivery is reported or not.
DigestsAreCurrent ==
    [][Undisturbed => \A k \in Key : mails'[k] # mails[k] => Current(k)]_vars

\* Neither the notification centre nor the mail contradicts the record.
RemindersFollowTheRecord == SupersedesOnlyTheStale /\ DigestsAreCurrent

\* A recorded reminder is tried in the end, though the request that recorded it
\* stopped before its flush.
EveryReminderIsTried ==
    \A k \in Key : (k \in Untried) ~> (k \notin Untried)

\* A reminder of a date that is gone leaves the notification centre in the end,
\* whatever overlapped when it was recorded.
StaleRemindersGo ==
    \A k \in Key : (k \in Unread /\ ~Current(k)) ~> (k \notin Unread \/ Current(k))

\* Whatever stopped, failed or overlapped is made good by a later round.
RemindersSettle == EveryReminderIsTried /\ StaleRemindersGo
=============================================================================
