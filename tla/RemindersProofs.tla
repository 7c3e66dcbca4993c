--------------------------- MODULE RemindersProofs ---------------------------
(***************************************************************************)
(* Theorems about Reminders, for any recipients, credentials, dates,       *)
(* requests and reminder days: what an evaluation makes of the record, as  *)
(* long as no two requests have been in flight together and nothing has    *)
(* failed; and, whatever overlaps and fails, how often a reminder is mailed.*)
(***************************************************************************)
EXTENDS Reminders, TLAPS

-----------------------------------------------------------------------------
(* The inductive invariant                                                  *)

\* While nothing overlaps, one request is in flight at most, ...
Alone ==
    calm => \A r, o \in Requests : ~At(r, "idle") /\ ~At(o, "idle") => r = o

\* ... what it has read of the record is what the record says, ...
ReadsTheRecord ==
    calm => \A r \in Requests : req[r].pc \in {"supersede", "due"} => req[r].seen = expiry

\* ... once it is past supersedeStaleReminders, nothing stale stands, ...
NothingStaleStands ==
    Undisturbed /\ (\A r \in Requests : req[r].pc \notin {"read", "supersede"})
        => \A k \in Unread : Current(k)

\* ... and what it still has to record or to mail describes the record.
NothingStaleIsLeft ==
    Undisturbed => \A r \in Requests : req[r].pc \in {"ensure", "send", "mark"} =>
        \A k \in req[r].left : Current(k)

\* What is to be mailed has been recorded.
LeftIsRecorded ==
    \A r \in Requests : req[r].pc \in {"send", "mark"} =>
        \A k \in req[r].left : rows[k] # NoRow

\* What the mails of a reminder come to: one that is mailed once is marked sent, or
\* its digest is on its way to be; what is listed by two is unclear; and what is
\* listed has not been mailed, unless by the very digest.
Booked(k) ==
    /\ mails[k] # "twice"
    /\ mails[k] = "once" =>
           rows[k] # NoRow /\ (rows[k].status = "sent" \/ \E r \in Requests : k \in JustSent(r))
    /\ \A r, o \in Requests : r # o /\ k \in Held(r) /\ k \in Held(o) => mails[k] = "unclear"
    /\ \A r \in Requests : k \in Held(r) => mails[k] \in {"no", "unclear"} \/ k \in JustSent(r)

Reading == Alone /\ ReadsTheRecord
Standing == NothingStaleStands /\ NothingStaleIsLeft
Mailing == LeftIsRecorded /\ \A k \in Key : Booked(k)

IInv == TypeOK /\ Reading /\ Standing /\ Mailing

-----------------------------------------------------------------------------
(* The steps of a request                                                   *)

Acts(r) ==
    \/ Begin(r) \/ ReadRecord(r) \/ Supersede(r) \/ FindDue(r) \/ Ensure(r)
    \/ EvaluationFails(r) \/ ListPending(r) \/ Mark(r) \/ MarkFails(r) \/ Stop(r)
    \/ \E u \in Users, outcome \in {"sent", "failed"} : Sending(r, u, outcome)

LEMMA Steps ==
    ASSUME [Next]_vars
    PROVE  \/ UNCHANGED req
           \/ \E r \in Requests : Acts(r)
<1>1. ASSUME NEW r \in Requests,
             \/ Refresh(r)
             \/ \E i \in Items, date \in Dates \cup {NoDate} : Rotate(r, i, date)
      PROVE  Begin(r)
  BY <1>1 DEF Refresh, Rotate
<1>2. ASSUME NEW r \in Requests,
             Evaluate(r) \/ Flush(r) \/ \E u \in Users : SendUnnoticed(r, u)
      PROVE  Acts(r)
  BY <1>2 DEF Evaluate, Flush, Acts, Send, SendUnnoticed
<1>3. ASSUME NEW K, MarkRead(K)
      PROVE  UNCHANGED req
  BY <1>3 DEF MarkRead
<1>4. (\E k \in Unread : MarkRead({k})) => UNCHANGED req
  BY <1>3
<1>5. (\E u \in Users : MarkRead({k \in Unread : k.user = u})) => UNCHANGED req
  BY <1>3
<1> QED
  BY <1>1, <1>2, <1>4, <1>5 DEF Next, NextDay, vars, Acts

\* What is listed is unread, recorded and not yet delivered.
LEMMA ListedIsPending ==
    ASSUME TypeOK, NEW r \in Requests, ListPending(r)
    PROVE  \E left \in SUBSET Unread :
               /\ SendRest(r, left)
               /\ Unclear(left \cap UNION {Held(o) : o \in Requests})
               /\ \A k \in left : rows[k] # NoRow /\ rows[k].status # "sent"
<1> DEFINE failed(d) == {k \in Unread : rows[k].status = "failed" /\ k.day = d}
<1>1. PICK recent \in SUBSET failed(day - 1) :
          List(r, Untried \cup failed(day) \cup recent)
  BY DEF ListPending
<1> DEFINE left == Untried \cup failed(day) \cup recent
<1>2. left \in SUBSET Unread /\ \A k \in left : rows[k].status # "sent"
  BY DEF Untried
<1>3. \A k \in left : rows[k] # NoRow
  BY <1>2 DEF Unread
<1> QED  BY <1>1, <1>2, <1>3 DEF List

-----------------------------------------------------------------------------
(* Types                                                                    *)

LEMMA RequestType ==
    ASSUME TypeOK, NEW r \in Requests, Acts(r)
    PROVE  req' \in [Requests -> Request]
<1>t. req \in [Requests -> Request]
  BY DEF TypeOK
<1>q. ASSUME NEW q \in Request, Goto(r, q)
      PROVE  req' \in [Requests -> Request]
  BY <1>t, <1>q DEF Goto
<1>i. Idle \in Request /\ [pc |-> "list"] \in Request
  BY DEF Request, Idle
<1>l. ASSUME NEW left \in SUBSET Key
      PROVE  /\ [pc |-> "ensure", left |-> left] \in Request
             /\ [pc |-> "send", left |-> left] \in Request
  BY DEF Request
<1>e. ASSUME NEW left \in SUBSET Key, EnsureRest(r, left) \/ SendRest(r, left)
      PROVE  req' \in [Requests -> Request]
  <2>1. \E q \in Request : Goto(r, q)
    BY <1>e, <1>i, <1>l DEF EnsureRest, SendRest
  <2> QED  BY <2>1, <1>q
<1>r. req[r] \in Request
  BY <1>t
<1>1. CASE Begin(r)
  <2>1. [pc |-> "read"] \in Request
    BY DEF Request
  <2> QED  BY <2>1, <1>1, <1>q DEF Begin
<1>2. CASE ReadRecord(r)
  <2>1. [pc |-> "supersede", seen |-> expiry] \in Request
    BY DEF Request, TypeOK
  <2> QED  BY <2>1, <1>2, <1>q DEF ReadRecord
<1>3. CASE Supersede(r)
  <2>1. req[r].seen \in [Items -> Dates \cup {NoDate}]
    BY <1>3, <1>r DEF Supersede, At, Request, Idle
  <2>2. [pc |-> "due", seen |-> req[r].seen] \in Request
    BY <2>1 DEF Request
  <2> QED  BY <2>2, <1>3, <1>q DEF Supersede
<1>4. CASE FindDue(r)
  <2> DEFINE due == {k \in Key : /\ k.day = day
                                 /\ req[r].seen[k.item] = k.end
                                 /\ DayOf[k.end] - day \in ReminderDays}
  <2>1. EnsureRest(r, due) /\ due \in SUBSET Key
    BY <1>4 DEF FindDue
  <2> QED  BY <2>1, <1>e
<1>5. CASE Ensure(r)
  <2>p. req[r].pc = "ensure"
    BY <1>5 DEF Ensure, At
  <2>1. req[r].left \in SUBSET Key
    BY <2>p, <1>r DEF Request, Idle
  <2>2. PICK k \in req[r].left : EnsureRest(r, req[r].left \ {k})
    BY <1>5 DEF Ensure
  <2>3. req[r].left \ {k} \in SUBSET Key
    BY <2>1
  <2> QED  BY <2>2, <2>3, <1>e
<1>6. CASE EvaluationFails(r)
  BY <1>6, <1>q, <1>i DEF EvaluationFails
<1>7. CASE ListPending(r)
  <2>1. PICK left \in SUBSET Unread : SendRest(r, left)
    BY <1>7, ListedIsPending
  <2>2. left \in SUBSET Key
    BY <2>1 DEF Unread
  <2> QED  BY <2>1, <2>2, <1>e
<1>8. CASE Mark(r) \/ MarkFails(r)
  <2>1. req[r].left \in SUBSET Key
    BY <1>8, <1>r DEF Mark, MarkFails, At, Request, Idle
  <2>2. req[r].left \ Digest(r, req[r].user) \in SUBSET Key
    BY <2>1
  <2>3. SendRest(r, req[r].left \ Digest(r, req[r].user))
    BY <1>8 DEF Mark, MarkFails, NextDigest
  <2> QED  BY <2>2, <2>3, <1>e
<1>9. CASE Stop(r)
  BY <1>9, <1>q, <1>i DEF Stop
<1>10. CASE \E u \in Users, outcome \in {"sent", "failed"} : Sending(r, u, outcome)
  <2>1. PICK u \in Users, outcome \in {"sent", "failed"} : Sending(r, u, outcome)
    BY <1>10
  <2>2. req[r].left \in SUBSET Key
    BY <2>1, <1>r DEF Sending, At, Request, Idle
  <2>3. [pc |-> "mark", left |-> req[r].left, user |-> u, outcome |-> outcome] \in Request
    BY <2>2 DEF Request
  <2> QED  BY <2>1, <2>3, <1>q DEF Sending
<1> QED
  BY <1>1, <1>2, <1>3, <1>4, <1>5, <1>6, <1>7, <1>8, <1>9, <1>10 DEF Acts

\* Somebody has read reminders.
Reads(K) ==
    rows' = [k \in Key |-> IF k \in K THEN [rows[k] EXCEPT !.read = "seen"] ELSE rows[k]]

LEMMA RowSteps ==
    ASSUME [Next]_vars
    PROVE  \/ UNCHANGED rows
           \/ \E r \in Requests : Supersede(r) \/ Ensure(r) \/ Mark(r)
           \/ UNCHANGED <<day, expiry, req, mails, calm, failures>> /\ \E K \in SUBSET Unread : Reads(K)
<1>1. ASSUME NEW K, MarkRead(K), K \in SUBSET Unread
      PROVE  /\ UNCHANGED <<day, expiry, req, mails, calm, failures>>
             /\ \E L \in SUBSET Unread : Reads(L)
  BY <1>1 DEF MarkRead, Reads
<1>2. ASSUME NEW k \in Unread, MarkRead({k})
      PROVE  /\ UNCHANGED <<day, expiry, req, mails, calm, failures>>
             /\ \E L \in SUBSET Unread : Reads(L)
  <2>1. {k} \in SUBSET Unread
    OBVIOUS
  <2> QED  BY <1>2, <2>1, <1>1
<1>3. ASSUME NEW u \in Users, MarkRead({k \in Unread : k.user = u})
      PROVE  /\ UNCHANGED <<day, expiry, req, mails, calm, failures>>
             /\ \E L \in SUBSET Unread : Reads(L)
  <2>1. {k \in Unread : k.user = u} \in SUBSET Unread
    OBVIOUS
  <2> QED  BY <1>3, <2>1, <1>1
<1>4. ASSUME NEW r \in Requests,
             \/ Refresh(r)
             \/ \E i \in Items, date \in Dates \cup {NoDate} : Rotate(r, i, date)
             \/ ReadRecord(r) \/ FindDue(r) \/ EvaluationFails(r) \/ ListPending(r)
             \/ \E u \in Users, outcome \in {"sent", "failed"} : Sending(r, u, outcome)
             \/ MarkFails(r) \/ Stop(r)
             \/ \E u \in Users : SendUnnoticed(r, u)
      PROVE  UNCHANGED rows
  <2>1. ASSUME NEW i, NEW date, Rotate(r, i, date) PROVE UNCHANGED rows
    BY <2>1 DEF Rotate
  <2>2. ASSUME NEW u, NEW outcome, Sending(r, u, outcome) PROVE UNCHANGED rows
    BY <2>2 DEF Sending
  <2>3. Refresh(r) \/ ReadRecord(r) \/ FindDue(r) => UNCHANGED rows
    BY DEF Refresh, ReadRecord, FindDue
  <2>4. EvaluationFails(r) \/ ListPending(r) \/ MarkFails(r) \/ Stop(r) => UNCHANGED rows
    BY DEF EvaluationFails, ListPending, List, MarkFails, Stop
  <2>5. ASSUME NEW u, SendUnnoticed(r, u) PROVE UNCHANGED rows
    BY <2>5 DEF SendUnnoticed, Sending
  <2> QED  BY <1>4, <2>1, <2>2, <2>3, <2>4, <2>5
<1>5. NextDay \/ UNCHANGED vars => UNCHANGED rows
  BY DEF NextDay, vars
<1>6. \A r, u, outcome : Send(r, u, outcome) => Sending(r, u, outcome)
  BY DEF Send
<1> QED
  BY <1>2, <1>3, <1>4, <1>5, <1>6 DEF Next, Evaluate, Flush

\* A reminder that is recorded stays recorded; it is read or superseded once only.
LEMMA RowsStay ==
    ASSUME TypeOK, [Next]_vars
    PROVE  /\ rows' \in [Key -> {NoRow} \cup Row]
           /\ \A k \in Key : rows[k] # NoRow => rows'[k] # NoRow
<1>t. rows \in [Key -> {NoRow} \cup Row]
  BY DEF TypeOK
<1>n. NoRow \notin Row
  BY NonesAssumption
<1>r. ASSUME NEW row \in Row
      PROVE  /\ [row EXCEPT !.read = "seen"] \in Row
             /\ [row EXCEPT !.read = "superseded"] \in Row
             /\ [row EXCEPT !.status = "sent"] \in Row
             /\ [row EXCEPT !.status = "failed"] \in Row
  BY DEF Row
<1>u. \A k \in Unread : k \in Key /\ rows[k] \in Row
  BY <1>t DEF Unread
<1>1. CASE \E r \in Requests : Supersede(r)
  <2>1. PICK r \in Requests : Supersede(r)
    BY <1>1
  <2>2. rows' = [k \in Key |-> IF k \in Unread /\ req[r].seen[k.item] # k.end
                               THEN [rows[k] EXCEPT !.read = "superseded"] ELSE rows[k]]
    BY <2>1 DEF Supersede
  <2>3. \A k \in Key : /\ rows'[k] \in {NoRow} \cup Row
                       /\ rows[k] # NoRow => rows'[k] # NoRow
    <3> SUFFICES ASSUME NEW k \in Key
                 PROVE  /\ rows'[k] \in {NoRow} \cup Row
                        /\ rows[k] # NoRow => rows'[k] # NoRow
      OBVIOUS
    <3>1. \/ rows'[k] = rows[k]
          \/ k \in Unread /\ rows'[k] = [rows[k] EXCEPT !.read = "superseded"]
      BY <2>2
    <3>2. rows[k] \in {NoRow} \cup Row
      BY <1>t
    <3> QED  BY <3>1, <3>2, <1>n, <1>r, <1>u
  <2> QED  BY <2>2, <2>3
<1>2. CASE \E r \in Requests : Ensure(r)
  <2>1. PICK r \in Requests : Ensure(r)
    BY <1>2
  <2>2. PICK k \in req[r].left, status \in {"off", ""} :
            rows' = [rows EXCEPT ![k] =
                        IF @ = NoRow THEN [read |-> "no", status |-> status] ELSE @]
    BY <2>1 DEF Ensure
  <2>3. [read |-> "no", status |-> status] \in Row
    BY DEF Row
  <2> QED  BY <2>2, <2>3, <1>t, <1>n
<1>3. CASE \E r \in Requests : Mark(r)
  <2>1. PICK r \in Requests : Mark(r)
    BY <1>3
  <2>2. req[r].outcome \in {"sent", "failed"}
    <3>1. req[r].pc = "mark" /\ req[r] \in Request
      BY <2>1 DEF Mark, At, TypeOK
    <3> QED  BY <3>1 DEF Request, Idle
  <2>3. rows' = [k \in Key |-> IF k \in Digest(r, req[r].user) /\ rows[k] # NoRow
                               THEN [rows[k] EXCEPT !.status = req[r].outcome] ELSE rows[k]]
    BY <2>1 DEF Mark
  <2>4. \A k \in Key : /\ rows'[k] \in {NoRow} \cup Row
                       /\ rows[k] # NoRow => rows'[k] # NoRow
    <3> SUFFICES ASSUME NEW k \in Key
                 PROVE  /\ rows'[k] \in {NoRow} \cup Row
                        /\ rows[k] # NoRow => rows'[k] # NoRow
      OBVIOUS
    <3>1. \/ rows'[k] = rows[k]
          \/ rows[k] # NoRow /\ rows'[k] = [rows[k] EXCEPT !.status = req[r].outcome]
      BY <2>3
    <3>2. rows[k] \in {NoRow} \cup Row
      BY <1>t
    <3>3. rows[k] # NoRow => [rows[k] EXCEPT !.status = req[r].outcome] \in Row
      <4>1. rows[k] # NoRow => rows[k] \in Row
        BY <3>2
      <4> QED  BY <4>1, <2>2, <1>r
    <3> QED  BY <3>1, <3>2, <3>3, <1>n
  <2> QED  BY <2>3, <2>4
<1>4. CASE \E K \in SUBSET Unread : Reads(K)
  <2>1. PICK K \in SUBSET Unread : Reads(K)
    BY <1>4
  <2>2. \A k \in Key : /\ rows'[k] \in {NoRow} \cup Row
                       /\ rows[k] # NoRow => rows'[k] # NoRow
    BY <2>1, <1>t, <1>n, <1>r, <1>u DEF Reads
  <2> QED  BY <2>1, <2>2 DEF Reads
<1> QED
  BY <1>t, <1>1, <1>2, <1>3, <1>4, RowSteps

\* The steps that mail, or leave it unclear
LEMMA MailSteps ==
    ASSUME TypeOK, [Next]_vars
    PROVE  \/ UNCHANGED mails
           \/ \E r \in Requests : ListPending(r) \/ MarkFails(r) \/ Stop(r)
           \/ \E r \in Requests, u \in Users :
                  Send(r, u, "sent") \/ SendUnnoticed(r, u)
<1>1. ASSUME NEW r \in Requests,
             \/ Refresh(r)
             \/ \E i \in Items, date \in Dates \cup {NoDate} : Rotate(r, i, date)
             \/ Evaluate(r) \/ EvaluationFails(r) \/ Mark(r)
      PROVE  UNCHANGED mails
  <2>1. ASSUME NEW i, NEW date, Rotate(r, i, date) PROVE UNCHANGED mails
    BY <2>1 DEF Rotate
  <2>2. Refresh(r) \/ Evaluate(r) => UNCHANGED mails
    BY DEF Refresh, Evaluate, ReadRecord, Supersede, FindDue, Ensure
  <2>3. EvaluationFails(r) \/ Mark(r) => UNCHANGED mails
    BY DEF EvaluationFails, Mark
  <2> QED  BY <1>1, <2>1, <2>2, <2>3
<1>2. ASSUME NEW r \in Requests, NEW u \in Users, Send(r, u, "failed")
      PROVE  UNCHANGED mails
  <2>1. mails' = [k \in Key |-> mails[k]]
    BY <1>2 DEF Send
  <2> QED  BY <2>1 DEF TypeOK
<1>3. ASSUME NEW K, MarkRead(K)
      PROVE  UNCHANGED mails
  BY <1>3 DEF MarkRead
<1>4. /\ (\E k \in Unread : MarkRead({k})) => UNCHANGED mails
      /\ (\E u \in Users : MarkRead({k \in Unread : k.user = u})) => UNCHANGED mails
  BY <1>3
<1>5. NextDay \/ UNCHANGED vars => UNCHANGED mails
  BY DEF NextDay, vars
<1> QED
  BY <1>1, <1>2, <1>4, <1>5 DEF Next, Flush

LEMMA TypeNext ==
    ASSUME TypeOK, [Next]_vars
    PROVE  TypeOK'
<1>1. req' \in [Requests -> Request]
  <2>1. CASE UNCHANGED req
    BY <2>1 DEF TypeOK
  <2>2. CASE \E r \in Requests : Acts(r)
    BY <2>2, RequestType
  <2> QED  BY <2>1, <2>2, Steps
<1>2. mails' \in [Key -> Mailed]
  <2>t. mails \in [Key -> Mailed] /\ "unclear" \in Mailed
    BY DEF TypeOK, Mailed
  <2>u. \A K : Unclear(K) => mails' \in [Key -> Mailed]
    BY <2>t DEF Unclear
  <2>1. ASSUME NEW r \in Requests, ListPending(r) \/ MarkFails(r) \/ Stop(r)
        PROVE  mails' \in [Key -> Mailed]
    BY <2>1, <2>u DEF ListPending, List, MarkFails, Stop
  <2>2. ASSUME NEW r \in Requests, NEW u \in Users, Send(r, u, "sent")
        PROVE  mails' \in [Key -> Mailed]
    <3>1. mails' = [k \in Key |-> IF k \in Digest(r, u) THEN OnceMore[mails[k]] ELSE mails[k]]
      BY <2>2 DEF Send
    <3>2. \A m \in Mailed : OnceMore[m] \in Mailed
      BY DEF Mailed, OnceMore
    <3> QED  BY <2>t, <3>1, <3>2
  <2>3. ASSUME NEW r \in Requests, NEW u \in Users, SendUnnoticed(r, u)
        PROVE  mails' \in [Key -> Mailed]
    BY <2>3, <2>u DEF SendUnnoticed
  <2> QED  BY <2>t, <2>1, <2>2, <2>3, MailSteps
<1>3. /\ day' \in Days
      /\ expiry' \in [Items -> Dates \cup {NoDate}]
      /\ calm' \in BOOLEAN
      /\ failures' \in 0 .. MaxFailures
  <2>1. ASSUME NEW r \in Requests, Begin(r)
        PROVE  calm' \in BOOLEAN
    BY <2>1 DEF Begin, TypeOK
  <2>2. ASSUME NEW r \in Requests, Refresh(r)
        PROVE  calm' \in BOOLEAN /\ UNCHANGED <<day, expiry, failures>>
    BY <2>1, <2>2 DEF Refresh
  <2>3. ASSUME NEW r \in Requests, NEW i \in Items, NEW date \in Dates \cup {NoDate},
               Rotate(r, i, date)
        PROVE  /\ calm' \in BOOLEAN
               /\ expiry' = [expiry EXCEPT ![i] = date]
               /\ UNCHANGED <<day, failures>>
    BY <2>1, <2>3 DEF Rotate
  <2>4. ASSUME NEW r \in Requests, Evaluate(r) \/ ListPending(r) \/ Mark(r)
        PROVE  UNCHANGED <<day, expiry, calm, failures>>
    BY <2>4 DEF Evaluate, ReadRecord, Supersede, FindDue, Ensure, ListPending, List, Mark
  <2>5. ASSUME NEW r, NEW u, NEW outcome, Send(r, u, outcome)
        PROVE  UNCHANGED <<day, expiry, calm, failures>>
    BY <2>5 DEF Send, Sending
  <2>6. ASSUME NEW r \in Requests,
               \/ EvaluationFails(r) \/ MarkFails(r) \/ Stop(r)
               \/ \E u \in Users : SendUnnoticed(r, u)
        PROVE  /\ failures < MaxFailures /\ failures' = failures + 1
               /\ UNCHANGED <<day, expiry, calm>>
    BY <2>6 DEF EvaluationFails, MarkFails, Stop, SendUnnoticed, Sending
  <2>7. ASSUME NEW K, MarkRead(K)
        PROVE  UNCHANGED <<day, expiry, calm, failures>>
    BY <2>7 DEF MarkRead
  <2>8. NextDay => day < LastDay /\ day' = day + 1 /\ UNCHANGED <<expiry, calm, failures>>
    BY DEF NextDay
  <2>9. UNCHANGED vars => UNCHANGED <<day, expiry, calm, failures>>
    BY DEF vars
  <2>t. /\ day \in Days /\ expiry \in [Items -> Dates \cup {NoDate}]
        /\ calm \in BOOLEAN /\ failures \in 0 .. MaxFailures
    BY DEF TypeOK
  <2>n. LastDay \in Nat /\ MaxFailures \in Nat
    BY CalendarAssumption, BoundAssumption
  <2>10. day' = day \/ (day < LastDay /\ day' = day + 1)
    BY <2>2, <2>3, <2>4, <2>5, <2>6, <2>7, <2>8, <2>9 DEF Next, Flush
  <2>11. \/ expiry' = expiry
         \/ \E i \in Items, date \in Dates \cup {NoDate} : expiry' = [expiry EXCEPT ![i] = date]
    BY <2>2, <2>3, <2>4, <2>5, <2>6, <2>7, <2>8, <2>9 DEF Next, Flush
  <2>12. calm' = calm \/ calm' \in BOOLEAN
    BY <2>2, <2>3, <2>4, <2>5, <2>6, <2>7, <2>8, <2>9 DEF Next, Flush
  <2>13. failures' = failures \/ (failures < MaxFailures /\ failures' = failures + 1)
    BY <2>2, <2>3, <2>4, <2>5, <2>6, <2>7, <2>8, <2>9 DEF Next, Flush
  <2>14. day' \in Days
    BY <2>t, <2>n, <2>10 DEF Days
  <2>15. expiry' \in [Items -> Dates \cup {NoDate}]
    BY <2>t, <2>11
  <2>16. failures' \in 0 .. MaxFailures
    BY <2>t, <2>n, <2>13
  <2> QED  BY <2>t, <2>12, <2>14, <2>15, <2>16
<1> QED  BY <1>1, <1>2, <1>3, RowsStay DEF TypeOK

-----------------------------------------------------------------------------
(* One request at a time                                                    *)

\* A step is one request's.
LEMMA ActsAlone ==
    ASSUME TypeOK, NEW r \in Requests, Acts(r)
    PROVE  /\ \A o \in Requests \ {r} : req'[o] = req[o]
           /\ At(r, "idle") => calm' = (calm /\ \A o \in Requests : At(o, "idle"))
           /\ ~At(r, "idle") => UNCHANGED calm
<1>t. req \in [Requests -> Request]
  BY DEF TypeOK
<1>g. ASSUME NEW q, Goto(r, q)
      PROVE  \A o \in Requests \ {r} : req'[o] = req[o]
  BY <1>g, <1>t DEF Goto
<1>e. ASSUME NEW left, EnsureRest(r, left) \/ SendRest(r, left)
      PROVE  \A o \in Requests \ {r} : req'[o] = req[o]
  BY <1>e, <1>g DEF EnsureRest, SendRest
<1>1. CASE Begin(r)
  BY <1>1, <1>g DEF Begin
<1>2. CASE ReadRecord(r) \/ Supersede(r)
  BY <1>2, <1>g DEF ReadRecord, Supersede, At
<1>3. CASE FindDue(r)
  BY <1>3, <1>e DEF FindDue, At
<1>4. CASE Ensure(r)
  <2>1. \E k \in req[r].left : EnsureRest(r, req[r].left \ {k})
    BY <1>4 DEF Ensure
  <2>2. At(r, "ensure") /\ UNCHANGED calm
    BY <1>4 DEF Ensure
  <2> QED  BY <2>1, <2>2, <1>e DEF At
<1>5. CASE ListPending(r)
  <2>1. \E left \in SUBSET Unread : SendRest(r, left)
    BY <1>5, ListedIsPending
  <2>2. At(r, "list") /\ UNCHANGED calm
    BY <1>5 DEF ListPending, List
  <2> QED  BY <2>1, <2>2, <1>e DEF At
<1>6. CASE EvaluationFails(r) \/ Stop(r)
  BY <1>6, <1>g DEF EvaluationFails, Stop, At
<1>7. CASE Mark(r) \/ MarkFails(r)
  BY <1>7, <1>e DEF Mark, MarkFails, NextDigest, At
<1>8. ASSUME NEW u, NEW outcome, Sending(r, u, outcome)
      PROVE  /\ \A o \in Requests \ {r} : req'[o] = req[o]
             /\ ~At(r, "idle") /\ UNCHANGED calm
  BY <1>8, <1>g DEF Sending, At
<1> QED
  BY <1>1, <1>2, <1>3, <1>4, <1>5, <1>6, <1>7, <1>8 DEF Acts

\* As long as nothing overlaps, the others are idle.
LEMMA OthersAreIdle ==
    ASSUME TypeOK, Alone, NEW r \in Requests, Acts(r), calm'
    PROVE  /\ calm
           /\ \A o \in Requests \ {r} : At(o, "idle") /\ At(o, "idle")'
<1>1. CASE At(r, "idle")
  <2>1. calm /\ \A o \in Requests : At(o, "idle")
    BY <1>1, ActsAlone DEF TypeOK
  <2> QED  BY <2>1, ActsAlone DEF At
<1>2. CASE ~At(r, "idle")
  <2>1. calm
    BY <1>2, ActsAlone
  <2>2. \A o \in Requests \ {r} : At(o, "idle")
    BY <1>2, <2>1 DEF Alone
  <2> QED  BY <2>1, <2>2, ActsAlone DEF At
<1> QED  BY <1>1, <1>2

\* Nothing else writes the record, and nobody else begins.
LEMMA OutsideSteps ==
    ASSUME [Next]_vars, ~ \E r \in Requests : Acts(r)
    PROVE  UNCHANGED <<expiry, req, mails, calm, failures>>
<1>1. ASSUME NEW r \in Requests, Refresh(r) PROVE Acts(r)
  BY <1>1 DEF Refresh, Acts
<1>2. ASSUME NEW r \in Requests, NEW i, NEW date, Rotate(r, i, date) PROVE Acts(r)
  BY <1>2 DEF Rotate, Acts
<1>3. ASSUME NEW r \in Requests,
             \/ Evaluate(r) \/ EvaluationFails(r) \/ Flush(r) \/ MarkFails(r) \/ Stop(r)
             \/ \E u \in Users : SendUnnoticed(r, u)
      PROVE  Acts(r)
  BY <1>3 DEF Evaluate, Flush, Acts, Send, SendUnnoticed
<1>4. ASSUME NEW K, MarkRead(K)
      PROVE  UNCHANGED <<expiry, req, mails, calm, failures>>
  BY <1>4 DEF MarkRead
<1>5. \/ NextDay \/ UNCHANGED vars
      \/ \E k \in Unread : MarkRead({k})
      \/ \E u \in Users : MarkRead({k \in Unread : k.user = u})
  BY <1>1, <1>2, <1>3 DEF Next
<1> QED  BY <1>4, <1>5 DEF NextDay, vars

LEMMA ReadingNext ==
    ASSUME TypeOK, Reading, [Next]_vars
    PROVE  Reading'
<1>t. req \in [Requests -> Request]
  BY DEF TypeOK
<1>1. CASE ~ \E r \in Requests : Acts(r)
  BY <1>1, OutsideSteps DEF Reading, Alone, ReadsTheRecord, At
<1>2. ASSUME NEW r \in Requests, Acts(r)
      PROVE  Reading'
  <2> SUFFICES ASSUME calm'
               PROVE  Reading'
    BY DEF Reading, Alone, ReadsTheRecord
  <2>1. calm /\ \A o \in Requests \ {r} : At(o, "idle") /\ At(o, "idle")'
    BY <1>2, OthersAreIdle DEF Reading
  <2>2. Alone'
    BY <2>1 DEF Alone, At
  <2>3. req[r].pc \in {"supersede", "due"} => req[r].seen = expiry
    BY <2>1 DEF Reading, ReadsTheRecord
  <2>g. ASSUME NEW q, Goto(r, q)
        PROVE  req'[r] = q
    BY <2>g, <1>t DEF Goto
  <2>e. ASSUME NEW left, EnsureRest(r, left) \/ SendRest(r, left)
        PROVE  req'[r].pc \notin {"supersede", "due"}
    BY <2>e, <2>g DEF EnsureRest, SendRest, Idle
  <2>4. req'[r].pc \in {"supersede", "due"} => req'[r].seen = expiry'
    <3>1. CASE Begin(r)
      BY <3>1, <2>g DEF Begin
    <3>2. CASE ReadRecord(r)
      BY <3>2, <2>g DEF ReadRecord
    <3>3. CASE Supersede(r)
      BY <3>3, <2>g, <2>3 DEF Supersede, At
    <3>4. CASE FindDue(r)
      BY <3>4, <2>e DEF FindDue
    <3>5. CASE Ensure(r)
      BY <3>5, <2>e DEF Ensure
    <3>6. CASE ListPending(r)
      BY <3>6, <2>e, ListedIsPending
    <3>7. CASE EvaluationFails(r) \/ Stop(r)
      <4>1. Goto(r, [pc |-> "list"]) \/ Goto(r, Idle)
        BY <3>7 DEF EvaluationFails, Stop
      <4> QED  BY <4>1, <2>g DEF Idle
    <3>8. CASE Mark(r) \/ MarkFails(r)
      BY <3>8, <2>e DEF Mark, MarkFails, NextDigest
    <3>9. ASSUME NEW u, NEW outcome, Sending(r, u, outcome)
          PROVE  req'[r].pc \notin {"supersede", "due"}
      BY <3>9, <2>g DEF Sending
    <3> QED  BY <1>2, <3>1, <3>2, <3>3, <3>4, <3>5, <3>6, <3>7, <3>8, <3>9 DEF Acts
  <2> QED  BY <2>1, <2>2, <2>4 DEF Reading, ReadsTheRecord, At
<1> QED  BY <1>1, <1>2

-----------------------------------------------------------------------------
(* Nothing stale                                                            *)

\* What the calm steps are, and where they leave their request.
LEMMA CalmSteps ==
    ASSUME TypeOK, Alone, NEW r \in Requests, Acts(r), Undisturbed', failures' \in {failures, failures + 1}
    PROVE  /\ Undisturbed
           /\ \A o \in Requests \ {r} : At(o, "idle") /\ At(o, "idle")'
           /\ \/ Begin(r) \/ ReadRecord(r) \/ Supersede(r) \/ FindDue(r) \/ Ensure(r)
              \/ ListPending(r) \/ Mark(r)
              \/ \E u \in Users, outcome \in {"sent", "failed"} : Sending(r, u, outcome)
<1>1. failures \in Nat
  BY BoundAssumption DEF TypeOK
<1>2. failures = 0 /\ failures' # failures + 1
  BY <1>1 DEF Undisturbed
<1>3. ~EvaluationFails(r) /\ ~MarkFails(r) /\ ~Stop(r)
  BY <1>2 DEF EvaluationFails, MarkFails, Stop
<1>4. calm' /\ calm /\ \A o \in Requests \ {r} : At(o, "idle") /\ At(o, "idle")'
  BY OthersAreIdle DEF Undisturbed
<1> QED  BY <1>2, <1>3, <1>4 DEF Acts, Undisturbed

LEMMA FailuresCount ==
    ASSUME [Next]_vars
    PROVE  failures' \in {failures, failures + 1}
<1>1. ASSUME NEW r \in Requests, NEW i, NEW date, Rotate(r, i, date) PROVE UNCHANGED failures
  BY <1>1 DEF Rotate
<1>2. ASSUME NEW r \in Requests, Refresh(r) \/ Evaluate(r) \/ ListPending(r) \/ Mark(r)
      PROVE  UNCHANGED failures
  BY <1>2 DEF Refresh, Evaluate, ReadRecord, Supersede, FindDue, Ensure, ListPending, List, Mark
<1>3. ASSUME NEW r \in Requests,
             \/ EvaluationFails(r) \/ MarkFails(r) \/ Stop(r)
             \/ \E u \in Users : SendUnnoticed(r, u)
      PROVE  failures' = failures + 1
  BY <1>3 DEF EvaluationFails, MarkFails, Stop, SendUnnoticed
<1>4. ASSUME NEW r, NEW u, NEW outcome, Send(r, u, outcome) PROVE UNCHANGED failures
  BY <1>4 DEF Send
<1>5. ASSUME NEW K, MarkRead(K) PROVE UNCHANGED failures
  BY <1>5 DEF MarkRead
<1>6. NextDay \/ UNCHANGED vars => UNCHANGED failures
  BY DEF NextDay, vars
<1> QED  BY <1>1, <1>2, <1>3, <1>4, <1>5, <1>6 DEF Next, Flush

\* Where a step leaves its request.
LEMMA Goes ==
    ASSUME TypeOK, NEW r \in Requests
    PROVE  /\ Begin(r) => req'[r].pc = "read"
           /\ ReadRecord(r) => req'[r].pc = "supersede"
           /\ Supersede(r) => req'[r].pc = "due"
           /\ \A left : EnsureRest(r, left) =>
                  \/ req'[r].pc = "list"
                  \/ req'[r].pc = "ensure" /\ req'[r].left = left
           /\ \A left : SendRest(r, left) =>
                  \/ req'[r].pc = "idle"
                  \/ req'[r].pc = "send" /\ req'[r].left = left
           /\ \A u, outcome : Sending(r, u, outcome) =>
                  req'[r] = [pc |-> "mark", left |-> req[r].left, user |-> u, outcome |-> outcome]
<1>t. req \in [Requests -> Request]
  BY DEF TypeOK
<1>g. ASSUME NEW q, Goto(r, q)
      PROVE  req'[r] = q
  BY <1>g, <1>t DEF Goto
<1>1. Begin(r) => req'[r].pc = "read"
  BY <1>g DEF Begin
<1>2. ReadRecord(r) => req'[r].pc = "supersede"
  BY <1>g DEF ReadRecord
<1>3. Supersede(r) => req'[r].pc = "due"
  BY <1>g DEF Supersede
<1>4. ASSUME NEW left, EnsureRest(r, left)
      PROVE  \/ req'[r].pc = "list"
             \/ req'[r].pc = "ensure" /\ req'[r].left = left
  BY <1>4, <1>g DEF EnsureRest
<1>5. ASSUME NEW left, SendRest(r, left)
      PROVE  \/ req'[r].pc = "idle"
             \/ req'[r].pc = "send" /\ req'[r].left = left
  BY <1>5, <1>g DEF SendRest, Idle
<1>6. ASSUME NEW u, NEW outcome, Sending(r, u, outcome)
      PROVE  req'[r] = [pc |-> "mark", left |-> req[r].left, user |-> u, outcome |-> outcome]
  BY <1>6, <1>g DEF Sending
<1> QED  BY <1>1, <1>2, <1>3, <1>4, <1>5, <1>6

\* What the steps make of the unread reminders: only Ensure adds one, of those
\* that the request has left to record.
LEMMA UnreadSteps ==
    ASSUME TypeOK, [Next]_vars, ~ \E r \in Requests : Supersede(r) \/ Ensure(r)
    PROVE  Unread' \subseteq Unread
<1>t. rows \in [Key -> {NoRow} \cup Row]
  BY DEF TypeOK
<1>1. CASE UNCHANGED rows
  BY <1>1 DEF Unread
<1>2. ASSUME NEW r \in Requests, Mark(r)
      PROVE  Unread' \subseteq Unread
  <2>1. rows' = [k \in Key |-> IF k \in Digest(r, req[r].user) /\ rows[k] # NoRow
                               THEN [rows[k] EXCEPT !.status = req[r].outcome] ELSE rows[k]]
    BY <1>2 DEF Mark
  <2>2. ASSUME NEW k \in Key, rows'[k] # NoRow, rows'[k].read = "no"
        PROVE  rows[k] # NoRow /\ rows[k].read = "no"
    <3>1. CASE rows[k] = NoRow
      BY <2>1, <2>2, <3>1
    <3>2. CASE rows[k] \in Row
      <4>1. [rows[k] EXCEPT !.status = req[r].outcome].read = rows[k].read
        BY <3>2 DEF Row
      <4> QED  BY <2>1, <2>2, <3>2, <4>1, NonesAssumption
    <3> QED  BY <1>t, <3>1, <3>2
  <2> QED  BY <2>2 DEF Unread
<1>3. ASSUME NEW K \in SUBSET Unread, Reads(K)
      PROVE  Unread' \subseteq Unread
  <2>1. ASSUME NEW k \in Key, rows'[k] # NoRow, rows'[k].read = "no"
        PROVE  k \in Unread
    <3>1. CASE k \in K
      BY <3>1
    <3>2. CASE k \notin K
      BY <2>1, <3>2, <1>3 DEF Reads, Unread
    <3> QED  BY <3>1, <3>2
  <2> QED  BY <2>1 DEF Unread
<1> QED  BY <1>1, <1>2, <1>3, RowSteps

LEMMA StandingNext ==
    ASSUME TypeOK, Reading, Standing, [Next]_vars
    PROVE  Standing'
<1>t. req \in [Requests -> Request]
  BY DEF TypeOK
<1> SUFFICES ASSUME Undisturbed'
             PROVE  Standing'
  BY DEF Standing, NothingStaleStands, NothingStaleIsLeft
<1>1. CASE ~ \E r \in Requests : Acts(r)
  <2>1. UNCHANGED <<expiry, req, calm, failures>> /\ Undisturbed
    BY <1>1, OutsideSteps DEF Undisturbed
  <2>2. Unread' \subseteq Unread
    BY <1>1, UnreadSteps DEF Acts
  <2> QED
    BY <2>1, <2>2 DEF Standing, NothingStaleStands, NothingStaleIsLeft, Current
<1>2. ASSUME NEW r \in Requests, Acts(r)
      PROVE  Standing'
  <2>1. /\ Undisturbed
        /\ \A o \in Requests \ {r} : At(o, "idle") /\ At(o, "idle")'
        /\ \/ Begin(r) \/ ReadRecord(r) \/ Supersede(r) \/ FindDue(r) \/ Ensure(r)
           \/ ListPending(r) \/ Mark(r)
           \/ \E u \in Users, outcome \in {"sent", "failed"} : Sending(r, u, outcome)
    BY <1>2, CalmSteps, FailuresCount DEF Reading
  <2>s. req[r].pc \notin {"read", "supersede"} => \A k \in Unread : Current(k)
    BY <2>1 DEF Standing, NothingStaleStands, At
  <2>l. req[r].pc \in {"ensure", "send", "mark"} => \A k \in req[r].left : Current(k)
    BY <2>1 DEF Standing, NothingStaleIsLeft
  <2>r. req[r].pc \in {"supersede", "due"} => req[r].seen = expiry
    BY <2>1 DEF Undisturbed, Reading, ReadsTheRecord
  <2> SUFFICES /\ req'[r].pc \notin {"read", "supersede"} => \A k \in Unread' : Current(k)'
               /\ req'[r].pc \in {"ensure", "send", "mark"} => \A k \in req'[r].left : Current(k)'
    BY <2>1 DEF Standing, NothingStaleStands, NothingStaleIsLeft, At
  <2>2. CASE Begin(r) \/ ReadRecord(r)
    BY <2>2, Goes
  <2>3. CASE Supersede(r)
    <3>1. /\ rows' = [k \in Key |-> IF k \in Unread /\ req[r].seen[k.item] # k.end
                                    THEN [rows[k] EXCEPT !.read = "superseded"] ELSE rows[k]]
          /\ req[r].seen = expiry /\ UNCHANGED expiry
      BY <2>3, <2>r DEF Supersede, At
    <3>2. ASSUME NEW k \in Key, rows'[k] # NoRow, rows'[k].read = "no"
          PROVE  expiry[k.item] = k.end
      <4>1. CASE k \in Unread /\ req[r].seen[k.item] # k.end
        <5>1. rows[k] \in Row
          BY <4>1 DEF Unread, TypeOK
        <5>2. [rows[k] EXCEPT !.read = "superseded"].read = "superseded"
          BY <5>1 DEF Row
        <5> QED  BY <3>1, <3>2, <4>1, <5>2
      <4>2. CASE k \notin Unread
        BY <3>1, <3>2, <4>2 DEF Unread
      <4>3. CASE req[r].seen[k.item] = k.end
        BY <3>1, <4>3
      <4> QED  BY <4>1, <4>2, <4>3
    <3>3. \A k \in Unread' : Current(k)'
      BY <3>1, <3>2 DEF Unread, Current
    <3> QED  BY <3>3, <2>3, Goes
  <2>4. CASE FindDue(r)
    <3> DEFINE due == {k \in Key : /\ k.day = day
                                   /\ req[r].seen[k.item] = k.end
                                   /\ DayOf[k.end] - day \in ReminderDays}
    <3>1. EnsureRest(r, due) /\ UNCHANGED <<expiry, rows>> /\ req[r].pc = "due"
      BY <2>4 DEF FindDue, At
    <3>2. \A k \in due : Current(k)'
      BY <3>1, <2>r DEF Current
    <3>3. \A k \in Unread' : Current(k)'
      BY <3>1, <2>s DEF Unread, Current
    <3>4. req'[r].pc \in {"ensure", "send", "mark"} => req'[r].left = due
      BY <3>1, Goes
    <3> QED  BY <3>2, <3>3, <3>4
  <2>5. CASE Ensure(r)
    <3>1. PICK k \in req[r].left, status \in {"off", ""} :
              /\ rows' = [rows EXCEPT ![k] =
                             IF @ = NoRow THEN [read |-> "no", status |-> status] ELSE @]
              /\ EnsureRest(r, req[r].left \ {k})
      BY <2>5 DEF Ensure
    <3>2. UNCHANGED expiry /\ req[r].pc = "ensure"
      BY <2>5 DEF Ensure, At
    <3>3. \A j \in Key : j # k => rows'[j] = rows[j]
      BY <3>1 DEF TypeOK
    <3>4. \A j \in Unread' : j = k \/ j \in Unread
      BY <3>3 DEF Unread
    <3>5. \A j \in Unread' : Current(j)'
      BY <3>2, <3>4, <2>s, <2>l DEF Current
    <3>6. req'[r].pc \in {"ensure", "send", "mark"} => req'[r].left = req[r].left \ {k}
      BY <3>1, Goes
    <3> QED  BY <3>2, <3>5, <3>6, <2>l DEF Current
  <2>6. CASE ListPending(r)
    <3>1. PICK left \in SUBSET Unread : SendRest(r, left)
      BY <2>6, ListedIsPending
    <3>2. UNCHANGED <<expiry, rows>> /\ req[r].pc = "list"
      BY <2>6 DEF ListPending, List, At
    <3>3. \A k \in Unread : Current(k) /\ Current(k)'
      BY <3>2, <2>s DEF Current
    <3>4. Unread' = Unread
      BY <3>2 DEF Unread
    <3>5. req'[r].pc \in {"ensure", "send", "mark"} => req'[r].left = left
      BY <3>1, Goes
    <3> QED  BY <3>1, <3>3, <3>4, <3>5
  <2>7. CASE Mark(r)
    <3>1. SendRest(r, req[r].left \ Digest(r, req[r].user)) /\ UNCHANGED expiry /\ req[r].pc = "mark"
      BY <2>7 DEF Mark, NextDigest, At
    <3>2. ~ \E o \in Requests : Supersede(o) \/ Ensure(o)
      <4>1. ASSUME NEW o \in Requests, Supersede(o) \/ Ensure(o)
            PROVE  o = r
        <5>1. req[o].pc \in {"supersede", "ensure"}
          BY <4>1 DEF Supersede, Ensure, At
        <5> QED  BY <5>1, <2>1 DEF At
      <4>2. ~Supersede(r) /\ ~Ensure(r)
        BY <3>1 DEF Supersede, Ensure, At
      <4> QED  BY <4>1, <4>2
    <3>3. \A k \in Unread' : Current(k)'
      BY <3>1, <3>2, <2>s, UnreadSteps DEF Current
    <3>4. req'[r].pc \in {"ensure", "send", "mark"} => req'[r].left \subseteq req[r].left
      BY <3>1, Goes
    <3> QED  BY <3>1, <3>3, <3>4, <2>l DEF Current
  <2>8. ASSUME NEW u \in Users, NEW outcome \in {"sent", "failed"}, Sending(r, u, outcome)
        PROVE  /\ \A k \in Unread' : Current(k)'
               /\ \A k \in req'[r].left : Current(k)'
    <3>1. UNCHANGED <<expiry, rows>> /\ req[r].pc = "send"
      BY <2>8 DEF Sending, At
    <3>2. req'[r].left = req[r].left
      <4>1. req'[r] = [pc |-> "mark", left |-> req[r].left, user |-> u, outcome |-> outcome]
        BY <2>8, Goes
      <4> QED  BY <4>1
    <3> QED  BY <3>1, <3>2, <2>s, <2>l DEF Unread, Current
  <2> QED  BY <2>1, <2>2, <2>3, <2>4, <2>5, <2>6, <2>7, <2>8
<1> QED  BY <1>1, <1>2

-----------------------------------------------------------------------------
(* The mail                                                                 *)

\* Only ListPending gives a request something to mail.
LEMMA WhatIsLeft ==
    ASSUME TypeOK, NEW r \in Requests, Acts(r), req'[r].pc \in {"send", "mark"}, ~ListPending(r)
    PROVE  /\ req[r].pc \in {"send", "mark"}
           /\ req'[r].left \subseteq req[r].left
<1>t. req \in [Requests -> Request]
  BY DEF TypeOK
<1>g. ASSUME NEW q, Goto(r, q)
      PROVE  req'[r] = q
  BY <1>g, <1>t DEF Goto
<1>e. \A left : EnsureRest(r, left) => req'[r].pc \in {"list", "ensure"}
  BY Goes
<1>1. ~Begin(r) /\ ~ReadRecord(r) /\ ~Supersede(r)
  BY Goes
<1>2. ~FindDue(r) /\ ~Ensure(r)
  BY <1>e DEF FindDue, Ensure
<1>3. ~EvaluationFails(r) /\ ~Stop(r)
  <2>1. EvaluationFails(r) \/ Stop(r) => Goto(r, [pc |-> "list"]) \/ Goto(r, Idle)
    BY DEF EvaluationFails, Stop
  <2> QED  BY <2>1, <1>g DEF Idle
<1>4. CASE Mark(r) \/ MarkFails(r)
  <2>1. SendRest(r, req[r].left \ Digest(r, req[r].user)) /\ req[r].pc = "mark"
    BY <1>4 DEF Mark, MarkFails, NextDigest, At
  <2>2. req'[r].left = req[r].left \ Digest(r, req[r].user)
    BY <2>1, Goes
  <2> QED  BY <2>1, <2>2
<1>5. ASSUME NEW u \in Users, NEW outcome \in {"sent", "failed"}, Sending(r, u, outcome)
      PROVE  /\ req[r].pc \in {"send", "mark"}
             /\ req'[r].left \subseteq req[r].left
  <2>1. req'[r] = [pc |-> "mark", left |-> req[r].left, user |-> u, outcome |-> outcome]
    BY <1>5, Goes
  <2>2. req[r].pc = "send"
    BY <1>5 DEF Sending, At
  <2> QED  BY <2>1, <2>2
<1> QED  BY <1>1, <1>2, <1>3, <1>4, <1>5 DEF Acts

LEMMA LeftIsRecordedNext ==
    ASSUME TypeOK, LeftIsRecorded, [Next]_vars
    PROVE  LeftIsRecorded'
<1>1. \A k \in Key : rows[k] # NoRow => rows'[k] # NoRow
  BY RowsStay
<1>2. ASSUME NEW o \in Requests, req[o].pc \in {"send", "mark"}
      PROVE  \A k \in req[o].left : k \in Key /\ rows[k] # NoRow
  <2>1. req[o] \in Request
    BY DEF TypeOK
  <2>2. req[o].left \subseteq Key
    BY <1>2, <2>1 DEF Request, Idle
  <2> QED  BY <1>2, <2>2 DEF LeftIsRecorded
<1>3. CASE UNCHANGED req
  BY <1>1, <1>2, <1>3 DEF LeftIsRecorded
<1>4. ASSUME NEW r \in Requests, Acts(r)
      PROVE  LeftIsRecorded'
  <2>1. ASSUME NEW o \in Requests \ {r}, req'[o].pc \in {"send", "mark"}
        PROVE  \A k \in req'[o].left : rows'[k] # NoRow
    <3>1. req'[o] = req[o]
      BY <1>4, ActsAlone
    <3> QED  BY <2>1, <3>1, <1>1, <1>2
  <2>2. ASSUME req'[r].pc \in {"send", "mark"}
        PROVE  \A k \in req'[r].left : rows'[k] # NoRow
    <3>1. CASE ListPending(r)
      <4>1. PICK left \in SUBSET Unread :
                SendRest(r, left) /\ \A k \in left : rows[k] # NoRow
        BY <3>1, ListedIsPending
      <4>2. req'[r].left = left
        BY <2>2, <4>1, Goes
      <4> QED  BY <4>1, <4>2, <1>1 DEF Unread
    <3>2. CASE ~ListPending(r)
      BY <1>4, <2>2, <3>2, <1>1, <1>2, WhatIsLeft
    <3> QED  BY <3>1, <3>2
  <2> QED  BY <2>1, <2>2 DEF LeftIsRecorded
<1> QED  BY <1>3, <1>4, Steps

\* What becomes of the outcome that a reminder was marked with.
LEMMA StatusStays ==
    ASSUME TypeOK, [Next]_vars, NEW k \in Key, rows[k] # NoRow, rows'[k].status # rows[k].status
    PROVE  \E r \in Requests : /\ Mark(r) /\ k \in Digest(r, req[r].user)
                               /\ rows'[k].status = req[r].outcome
<1>t. rows \in [Key -> {NoRow} \cup Row]
  BY DEF TypeOK
<1>r. rows[k] \in Row
  BY <1>t
<1>s. /\ [rows[k] EXCEPT !.read = "seen"].status = rows[k].status
      /\ [rows[k] EXCEPT !.read = "superseded"].status = rows[k].status
  BY <1>r DEF Row
<1>1. ASSUME NEW r \in Requests, Supersede(r)
      PROVE  FALSE
  <2>1. rows' = [j \in Key |-> IF j \in Unread /\ req[r].seen[j.item] # j.end
                               THEN [rows[j] EXCEPT !.read = "superseded"] ELSE rows[j]]
    BY <1>1 DEF Supersede
  <2> QED  BY <2>1, <1>s
<1>2. ASSUME NEW r \in Requests, Ensure(r)
      PROVE  FALSE
  <2>1. PICK j \in req[r].left, status \in {"off", ""} :
            rows' = [rows EXCEPT ![j] =
                        IF @ = NoRow THEN [read |-> "no", status |-> status] ELSE @]
    BY <1>2 DEF Ensure
  <2>2. rows'[k] = rows[k]
    BY <2>1, <1>t
  <2> QED  BY <2>2
<1>3. ASSUME NEW K \in SUBSET Unread, Reads(K)
      PROVE  FALSE
  BY <1>3, <1>s DEF Reads
<1>4. ASSUME NEW r \in Requests, Mark(r)
      PROVE  /\ k \in Digest(r, req[r].user)
             /\ rows'[k].status = req[r].outcome
  <2>1. rows' = [j \in Key |-> IF j \in Digest(r, req[r].user) /\ rows[j] # NoRow
                               THEN [rows[j] EXCEPT !.status = req[r].outcome] ELSE rows[j]]
    BY <1>4 DEF Mark
  <2>2. [rows[k] EXCEPT !.status = req[r].outcome].status = req[r].outcome
    BY <1>r DEF Row
  <2> QED  BY <2>1, <2>2
<1> QED  BY <1>1, <1>2, <1>3, <1>4, RowSteps

\* A request that neither mails nor has listed anything holds nothing.
LEMMA HeldByNobody ==
    ASSUME NEW r \in Requests, req[r].pc \notin {"send", "mark"}
    PROVE  Held(r) = {} /\ JustSent(r) = {}
BY DEF Held, JustSent, At

LEMMA JustSentIsHeld ==
    ASSUME NEW r \in Requests
    PROVE  JustSent(r) \subseteq Held(r)
BY DEF Held, JustSent, Digest, At

\* A request that begins mails nothing.
LEMMA BeginKeepsMails ==
    ASSUME TypeOK, [Next]_vars, NEW r \in Requests, Begin(r)
    PROVE  UNCHANGED mails
<1>1. At(r, "idle") /\ req'[r].pc = "read"
  BY Goes DEF Begin
<1>2. ASSUME NEW o \in Requests,
             \/ ListPending(o) \/ MarkFails(o) \/ Stop(o)
             \/ \E u \in Users, outcome \in {"sent", "failed"} : Sending(o, u, outcome)
      PROVE  FALSE
  <2>1. req[o].pc # "idle"
    BY <1>2 DEF ListPending, List, MarkFails, Stop, Sending, At
  <2>2. o # r /\ req'[r] # req[r]
    BY <1>1, <2>1 DEF At
  <2>3. Acts(o)
    BY <1>2 DEF Acts
  <2>4. req'[r] = req[r]
    BY <2>2, <2>3, ActsAlone
  <2> QED  BY <2>2, <2>4
<1>3. ASSUME NEW o \in Requests, NEW u \in Users, Send(o, u, "sent") \/ SendUnnoticed(o, u)
      PROVE  FALSE
  BY <1>3, <1>2 DEF Send, SendUnnoticed
<1> QED  BY <1>2, <1>3, MailSteps

LEMMA BookedNext ==
    ASSUME TypeOK, Mailing, [Next]_vars, NEW k \in Key
    PROVE  Booked(k)'
<1>t. req \in [Requests -> Request] /\ rows \in [Key -> {NoRow} \cup Row]
      /\ mails \in [Key -> Mailed]
  BY DEF TypeOK
<1>b. Booked(k)
  BY DEF Mailing
<1>r. rows[k] # NoRow => rows'[k] # NoRow
  BY RowsStay
<1>0. CASE mails'[k] = "unclear"
  BY <1>0 DEF Booked
<1>1. CASE ~ \E r \in Requests : Acts(r)
  <2>1. UNCHANGED <<req, mails>>
    BY <1>1, OutsideSteps
  <2>2. rows[k] # NoRow => rows'[k].status = rows[k].status
    BY <1>1, StatusStays DEF Acts
  <2>3. \A o \in Requests : UNCHANGED <<Held(o), JustSent(o)>>
    BY <2>1 DEF Held, JustSent, Digest, At
  <2> QED  BY <1>b, <1>r, <2>1, <2>2, <2>3 DEF Booked
<1>2. ASSUME NEW r \in Requests, Acts(r), mails'[k] # "unclear"
      PROVE  Booked(k)'
  <2>o. \A o \in Requests \ {r} : req'[o] = req[o] /\ UNCHANGED <<Held(o), JustSent(o)>>
    BY <1>2, ActsAlone DEF Held, JustSent, Digest, At
  <2>s. rows[k] # NoRow /\ rows'[k].status # rows[k].status =>
            /\ Mark(r) /\ k \in Digest(r, req[r].user) /\ rows'[k].status = req[r].outcome
    <3>1. ASSUME NEW o \in Requests, Mark(o) PROVE o = r
      <4>1. req[o].pc = "mark" /\ req'[o].pc \in {"idle", "send"}
        BY <3>1, Goes DEF Mark, NextDigest, At
      <4> QED  BY <2>o, <4>1
    <3> QED  BY <3>1, StatusStays
  <2>1. CASE \/ Begin(r) \/ ReadRecord(r) \/ Supersede(r) \/ FindDue(r) \/ Ensure(r)
             \/ EvaluationFails(r)
    <3>1. req[r].pc \notin {"send", "mark", "list"}
      BY <2>1 DEF Begin, ReadRecord, Supersede, FindDue, Ensure, EvaluationFails, At
    <3>2. ~ListPending(r) /\ ~Mark(r)
      BY <3>1 DEF ListPending, Mark, At
    <3>3. req'[r].pc \notin {"send", "mark"}
      BY <1>2, <3>1, <3>2, WhatIsLeft
    <3>4. Held(r) = {} /\ JustSent(r) = {} /\ Held(r)' = {} /\ JustSent(r)' = {}
      BY <3>1, <3>3 DEF Held, JustSent, At
    <3>5. UNCHANGED mails
      BY <2>1, BeginKeepsMails DEF ReadRecord, Supersede, FindDue, Ensure, EvaluationFails
    <3>6. rows[k] # NoRow => rows'[k].status = rows[k].status
      BY <2>s, <3>2
    <3> QED  BY <1>b, <1>r, <2>o, <3>4, <3>5, <3>6 DEF Booked
  <2>2. CASE ListPending(r)
    <3>1. PICK left \in SUBSET Unread :
              /\ SendRest(r, left)
              /\ Unclear(left \cap UNION {Held(o) : o \in Requests})
              /\ \A j \in left : rows[j] # NoRow /\ rows[j].status # "sent"
      BY <2>2, ListedIsPending
    <3>2. req[r].pc = "list" /\ UNCHANGED rows
      BY <2>2 DEF ListPending, List, At
    <3>3. Held(r) = {} /\ JustSent(r) = {}
      BY <3>2, HeldByNobody
    <3>4. Held(r)' \subseteq left /\ JustSent(r)' = {}
      <4>1. req'[r].pc = "idle" \/ (req'[r].pc = "send" /\ req'[r].left = left)
        BY <3>1, Goes
      <4> QED  BY <4>1 DEF Held, JustSent, At
    <3>5. mails'[k] = mails[k] /\ ~(k \in left /\ \E o \in Requests : k \in Held(o))
      BY <1>2, <3>1 DEF Unclear
    <3>6. CASE k \in left
      <4>1. \A o \in Requests : k \notin Held(o) /\ k \notin JustSent(o)
        BY <3>5, <3>6, JustSentIsHeld
      <4>2. mails[k] = "no"
        BY <1>2, <1>b, <1>t, <3>1, <3>5, <3>6, <4>1 DEF Booked, Mailed
      <4> QED  BY <2>o, <3>4, <3>5, <4>1, <4>2 DEF Booked
    <3>7. CASE k \notin left
      BY <1>b, <2>o, <3>2, <3>3, <3>4, <3>5, <3>7 DEF Booked
    <3> QED  BY <3>6, <3>7
  <2>3. CASE Mark(r)
    <3> DEFINE D == Digest(r, req[r].user)
    <3>1. /\ SendRest(r, req[r].left \ D) /\ req[r].pc = "mark" /\ UNCHANGED mails
          /\ rows' = [j \in Key |-> IF j \in D /\ rows[j] # NoRow
                                    THEN [rows[j] EXCEPT !.status = req[r].outcome] ELSE rows[j]]
      BY <2>3 DEF Mark, NextDigest, At
    <3>2. Held(r) = req[r].left /\ JustSent(r) = IF req[r].outcome = "sent" THEN D ELSE {}
      BY <3>1 DEF Held, JustSent, At
    <3>3. Held(r)' \subseteq req[r].left \ D /\ JustSent(r)' = {}
      <4>1. \/ req'[r].pc = "idle"
            \/ req'[r].pc = "send" /\ req'[r].left = req[r].left \ D
        BY <3>1, Goes
      <4> QED  BY <4>1 DEF Held, JustSent, At
    <3>4. k \in D => k \in Held(r) /\ rows[k] # NoRow
      BY <3>1, <3>2 DEF Digest, Mailing, LeftIsRecorded
    <3>5. k \in D => rows'[k].status = req[r].outcome
      <4>1. rows[k] \in Row => [rows[k] EXCEPT !.status = req[r].outcome].status = req[r].outcome
        BY DEF Row
      <4> QED  BY <1>t, <3>1, <3>4, <4>1
    <3>6. CASE k \in D
      <4>1. mails[k] \in {"once", "no"}
        BY <1>2, <1>b, <1>t, <3>1 DEF Booked, Mailed
      <4>2. mails[k] = "once" => rows'[k].status = "sent"
        BY <1>b, <3>2, <3>4, <3>5, <3>6 DEF Booked
      <4>3. \A o \in Requests \ {r} : k \notin Held(o)
        BY <1>b, <3>4, <3>6, <4>1 DEF Booked
      <4> QED  BY <1>r, <2>o, <3>1, <3>3, <3>4, <3>6, <4>1, <4>2, <4>3 DEF Booked
    <3>7. CASE k \notin D
      <4>1. rows'[k] = rows[k] /\ k \notin JustSent(r)
        BY <3>1, <3>2, <3>7
      <4> QED  BY <1>b, <2>o, <3>1, <3>2, <3>3, <3>7, <4>1 DEF Booked
    <3> QED  BY <3>6, <3>7
  <2>4. CASE MarkFails(r) \/ Stop(r)
    <3>1. Unclear(JustSent(r)) /\ UNCHANGED rows
      BY <2>4 DEF MarkFails, Stop
    <3>2. mails'[k] = mails[k] /\ k \notin JustSent(r)
      BY <1>2, <3>1 DEF Unclear
    <3>3. Held(r)' \subseteq Held(r) /\ JustSent(r)' = {}
      <4>1. CASE Stop(r)
        <5>1. req'[r] = Idle
          BY <1>t, <4>1 DEF Stop, Goto
        <5> QED  BY <5>1 DEF Held, JustSent, At, Idle
      <4>2. CASE MarkFails(r)
        <5>1. /\ SendRest(r, req[r].left \ Digest(r, req[r].user)) /\ req[r].pc = "mark"
          BY <4>2 DEF MarkFails, NextDigest, At
        <5>2. \/ req'[r].pc = "idle"
              \/ req'[r].pc = "send" /\ req'[r].left = req[r].left \ Digest(r, req[r].user)
          BY <5>1, Goes
        <5> QED  BY <5>1, <5>2 DEF Held, JustSent, At
      <4> QED  BY <2>4, <4>1, <4>2
    <3> QED  BY <1>b, <2>o, <3>1, <3>2, <3>3 DEF Booked
  <2>5. ASSUME NEW u \in Users, NEW outcome \in {"sent", "failed"}, Sending(r, u, outcome)
        PROVE  Booked(k)'
    <3>1. req'[r] = [pc |-> "mark", left |-> req[r].left, user |-> u, outcome |-> outcome]
      BY <2>5, Goes
    <3>2. UNCHANGED rows /\ req[r].pc = "send"
      BY <2>5 DEF Sending, At
    <3>3. JustSent(r) = {} /\ Held(r) = req[r].left /\ Held(r)' = req[r].left
          /\ JustSent(r)' = IF outcome = "sent" THEN {j \in req[r].left : j.user = u} ELSE {}
      BY <3>1, <3>2 DEF Held, JustSent, Digest, At
    <3>4. ASSUME mails' # mails
          PROVE  \E v \in Users : Send(r, v, "sent") \/ SendUnnoticed(r, v)
      <4>1. ASSUME NEW o \in Requests, ListPending(o) \/ MarkFails(o) \/ Stop(o)
            PROVE  FALSE
        <5>1. CASE ListPending(o)
          <6>1. req[o].pc = "list" /\ req'[o].pc \in {"idle", "send"}
            BY <5>1, Goes DEF ListPending, List, At
          <6> QED  BY <2>o, <3>2, <6>1
        <5>2. CASE MarkFails(o)
          <6>1. req[o].pc = "mark" /\ req'[o].pc \in {"idle", "send"}
            BY <5>2, Goes DEF MarkFails, NextDigest, At
          <6> QED  BY <2>o, <3>2, <6>1
        <5>3. CASE Stop(o)
          <6>1. req[o].pc # "idle" /\ req'[o] = Idle
            BY <1>t, <5>3 DEF Stop, At, Goto
          <6> QED  BY <2>o, <3>1, <6>1 DEF Idle
        <5> QED  BY <4>1, <5>1, <5>2, <5>3
      <4>2. ASSUME NEW o \in Requests, NEW v \in Users,
                   Send(o, v, "sent") \/ SendUnnoticed(o, v)
            PROVE  o = r
        <5>1. Sending(o, v, "sent") \/ Sending(o, v, "failed")
          BY <4>2 DEF Send, SendUnnoticed
        <5>2. req[o].pc = "send" /\ req'[o].pc = "mark"
          BY <5>1, Goes DEF Sending, At
        <5> QED  BY <2>o, <5>2
      <4> QED  BY <3>4, <4>1, <4>2, MailSteps
    <3>5. ASSUME NEW v \in Users, Send(r, v, "sent"), k \in Digest(r, v)
          PROVE  mails'[k] = OnceMore[mails[k]] /\ k \in JustSent(r)' /\ k \in Held(r)
      <4>1. req'[r] = [pc |-> "mark", left |-> req[r].left, user |-> v, outcome |-> "sent"]
        BY <3>5, Goes DEF Send
      <4>2. v = u /\ outcome = "sent"
        BY <3>1, <4>1
      <4>3. mails'[k] = OnceMore[mails[k]]
        BY <3>5 DEF Send
      <4> QED  BY <3>3, <3>5, <4>2, <4>3 DEF Digest
    <3>6. \/ mails'[k] = mails[k]
          \/ mails'[k] = OnceMore[mails[k]] /\ k \in JustSent(r)' /\ k \in Held(r)
      <4>1. ASSUME NEW v \in Users, Send(r, v, "sent"), k \notin Digest(r, v)
            PROVE  mails'[k] = mails[k]
        BY <4>1 DEF Send
      <4>2. ASSUME NEW v \in Users, SendUnnoticed(r, v)
            PROVE  mails'[k] = mails[k]
        BY <1>2, <4>2 DEF SendUnnoticed, Unclear
      <4> QED  BY <3>4, <3>5, <4>1, <4>2
    <3>7. CASE mails'[k] = mails[k]
      BY <1>b, <2>o, <3>2, <3>3, <3>7 DEF Booked
    <3>8. CASE mails'[k] = OnceMore[mails[k]] /\ k \in JustSent(r)' /\ k \in Held(r)
      <4>1. mails[k] = "no"
        BY <1>2, <1>b, <3>3, <3>8 DEF Booked, OnceMore
      <4>2. mails'[k] = "once"
        BY <3>8, <4>1 DEF OnceMore
      <4>3. \A o \in Requests \ {r} : k \notin Held(o)
        BY <1>b, <3>8, <4>1 DEF Booked
      <4>4. rows'[k] # NoRow
        BY <3>2, <3>3, <3>8 DEF Mailing, LeftIsRecorded
      <4> QED  BY <2>o, <3>8, <4>2, <4>3, <4>4 DEF Booked
    <3> QED  BY <3>6, <3>7, <3>8
  <2> QED  BY <1>2, <2>1, <2>2, <2>3, <2>4, <2>5 DEF Acts
<1> QED  BY <1>0, <1>1, <1>2
LEMMA MailingNext ==
    ASSUME TypeOK, Mailing, [Next]_vars
    PROVE  Mailing'
BY BookedNext, LeftIsRecordedNext DEF Mailing

-----------------------------------------------------------------------------
(* The theorems                                                             *)

LEMMA IInvInit ==
    Init => IInv
<1> SUFFICES ASSUME Init PROVE IInv
  OBVIOUS
<1>1. TypeOK
  BY CalendarAssumption, BoundAssumption DEF Init, TypeOK, Days, Request, Mailed
<1>2. \A r \in Requests : req[r].pc = "idle"
  BY DEF Init, Idle
<1>3. Unread = {} /\ \A k \in Key : mails[k] = "no"
  BY DEF Init, Unread
<1>4. Reading
  BY <1>2 DEF Reading, Alone, ReadsTheRecord, At
<1>5. Standing
  BY <1>2, <1>3 DEF Standing, NothingStaleStands, NothingStaleIsLeft
<1>6. Mailing
  BY <1>2, <1>3 DEF Mailing, LeftIsRecorded, Booked, Held
<1> QED  BY <1>1, <1>4, <1>5, <1>6 DEF IInv

LEMMA IInvNext ==
    ASSUME IInv, [Next]_vars
    PROVE  IInv'
  BY TypeNext, ReadingNext, StandingNext, MailingNext DEF IInv

LEMMA Inductive ==
    Spec => []IInv
  BY IInvInit, IInvNext, PTL DEF Spec

\* Types, and the few things that a request is between two steps.
THEOREM ReminderTypes ==
    Spec => []TypeOK
<1>1. IInv => TypeOK
  BY DEF IInv
<1> QED  BY <1>1, Inductive, PTL

\* Between undisturbed evaluations, the notification centre shows no expiry that the
\* record does not have (supersedeStaleReminders).
THEOREM TheCentreIsCurrent ==
    Spec => []OnlyCurrentRemindersStand
<1>1. IInv => OnlyCurrentRemindersStand
  BY DEF IInv, Standing, NothingStaleStands, OnlyCurrentRemindersStand, At
<1> QED  BY <1>1, Inductive, PTL

\* Whatever overlaps, stops and fails, a reminder is named in one digest at most
\* (listPendingEmailReminders, markEmailStatus), unless an error is reported of what
\* was delivered, a success is not recorded, or two flushes have it listed at once.
THEOREM OneDigestPerReminder ==
    Spec => []MailedOnce
<1>1. IInv => MailedOnce
  BY DEF IInv, Mailing, Booked, MailedOnce
<1> QED  BY <1>1, Inductive, PTL

\* Without overlaps, an evaluation supersedes nothing that is current, and no digest
\* names a date that is gone (supersedeStaleReminders, FlushPendingEmails).
THEOREM RemindersSayWhatTheRecordSays ==
    Spec => RemindersFollowTheRecord
<1>1. ASSUME IInv, [Next]_vars, calm, NEW k \in Unread, rows'[k] # NoRow, rows'[k].read = "superseded"
      PROVE  ~Current(k)
  <2>1. k \in Key /\ rows[k] \in Row /\ rows[k].read = "no" /\ rows[k] # NoRow
    BY <1>1 DEF IInv, TypeOK, Unread
  <2>2. CASE UNCHANGED rows
    BY <1>1, <2>1, <2>2
  <2>3. ASSUME NEW r \in Requests, Supersede(r)
        PROVE  ~Current(k)
    <3>1. req[r].seen = expiry
      BY <1>1, <2>3 DEF Supersede, At, IInv, Reading, ReadsTheRecord
    <3>2. rows' = [j \in Key |-> IF j \in Unread /\ req[r].seen[j.item] # j.end
                                 THEN [rows[j] EXCEPT !.read = "superseded"] ELSE rows[j]]
      BY <2>3 DEF Supersede
    <3> QED  BY <1>1, <2>1, <3>1, <3>2 DEF Current
  <2>4. ASSUME NEW r \in Requests, Ensure(r)
        PROVE  FALSE
    <3>1. PICK j \in req[r].left, status \in {"off", ""} :
              rows' = [rows EXCEPT ![j] =
                          IF @ = NoRow THEN [read |-> "no", status |-> status] ELSE @]
      BY <2>4 DEF Ensure
    <3>2. rows'[k] = rows[k]
      BY <1>1, <2>1, <3>1 DEF IInv, TypeOK
    <3> QED  BY <1>1, <2>1, <3>2
  <2>5. ASSUME NEW r \in Requests, Mark(r)
        PROVE  FALSE
    <3>1. rows' = [j \in Key |-> IF j \in Digest(r, req[r].user) /\ rows[j] # NoRow
                                 THEN [rows[j] EXCEPT !.status = req[r].outcome] ELSE rows[j]]
      BY <2>5 DEF Mark
    <3>2. [rows[k] EXCEPT !.status = req[r].outcome].read = rows[k].read
      BY <2>1 DEF Row
    <3> QED  BY <1>1, <2>1, <3>1, <3>2
  <2>6. ASSUME NEW K \in SUBSET Unread, Reads(K)
        PROVE  FALSE
    <3>1. [rows[k] EXCEPT !.read = "seen"].read = "seen"
      BY <2>1 DEF Row
    <3> QED  BY <1>1, <2>1, <2>6, <3>1 DEF Reads
  <2> QED  BY <1>1, <2>2, <2>3, <2>4, <2>5, <2>6, RowSteps
<1>2. ASSUME IInv, [Next]_vars, Undisturbed, NEW k \in Key, mails'[k] # mails[k]
      PROVE  Current(k)
  <2>1. mails \in [Key -> Mailed]
    BY <1>2 DEF IInv, TypeOK
  <2>2. \A r \in Requests : k \in Held(r) => Current(k)
    BY <1>2 DEF IInv, Standing, NothingStaleIsLeft, Held
  <2>3. \A r \in Requests, u \in Users : At(r, "send") => Digest(r, u) \subseteq Held(r)
    BY DEF Digest, Held, At
  <2>4. ASSUME NEW r \in Requests, ListPending(r) \/ MarkFails(r) \/ Stop(r)
        PROVE  \E o \in Requests : k \in Held(o)
    <3>1. CASE ListPending(r)
      <4>1. PICK left \in SUBSET Unread : Unclear(left \cap UNION {Held(o) : o \in Requests})
        BY <1>2, <3>1, ListedIsPending DEF IInv
      <4> QED  BY <1>2, <4>1 DEF Unclear
    <3>2. CASE MarkFails(r) \/ Stop(r)
      <4>1. k \in JustSent(r)
        BY <1>2, <3>2 DEF MarkFails, Stop, Unclear
      <4> QED  BY <4>1, JustSentIsHeld
    <3> QED  BY <2>4, <3>1, <3>2
  <2>5. ASSUME NEW r \in Requests, NEW u \in Users, Send(r, u, "sent") \/ SendUnnoticed(r, u)
        PROVE  k \in Held(r)
    <3>1. At(r, "send")
      BY <2>5 DEF Send, SendUnnoticed, Sending
    <3>2. k \in Digest(r, u)
      BY <1>2, <2>5 DEF Send, SendUnnoticed, Unclear
    <3> QED  BY <2>3, <3>1, <3>2
  <2> QED
    BY <1>2, <2>2, <2>4, <2>5, MailSteps DEF IInv
<1>3. IInv /\ [Next]_vars => [calm => \A k \in Unread :
          rows'[k] # NoRow /\ rows'[k].read = "superseded" => ~Current(k)]_vars
  BY <1>1
<1>4. IInv /\ [Next]_vars =>
          [Undisturbed => \A k \in Key : mails'[k] # mails[k] => Current(k)]_vars
  BY <1>2
<1> QED
  BY <1>3, <1>4, Inductive, PTL
     DEF Spec, RemindersFollowTheRecord, SupersedesOnlyTheStale, DigestsAreCurrent
=============================================================================
