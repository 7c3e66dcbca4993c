------------------------------ MODULE Accounts ------------------------------
(***************************************************************************)
(* Accounts, local groups and what an account owns (backend/internal/auth: *)
(* service.go, repository.go, authorization.go): administrators create,    *)
(* edit, block and delete accounts; single sign-on brings external ones.   *)
(*                                                                         *)
(* A request has authorised its caller before it does anything else, and   *)
(* what it read of the caller, of the target and of the groups it uses as  *)
(* it read it.  A transaction that reads every group and writes every      *)
(* group back holds no lock while it computes, so it is two steps: what it *)
(* read, and what it commits.  A deletion reads the target's display name  *)
(* and counts administrators before its transaction starts.                *)
(***************************************************************************)
EXTENDS Naturals, FiniteSets

CONSTANTS
    Users,        \* account ids
    External,     \* those that a directory gives out; the others are uuids
    Groups,       \* local groups
    AdminGroups,  \* those whose rights hold admin.access
    Items,        \* resources
    Names,        \* display names, which need not be unique
    Emails, EmailOf,  \* e-mail addresses, which a group may list instead of ids
    ByEmail,      \* accounts that administrators list by address
    Requests,     \* request slots
    NoAccount, NoItem

VARIABLES
    account,  \* app_users
    used,     \* ids that have been given out and will not be again
    members,  \* local_groups.assigned_user_ids
    item,     \* owner, owner_user_id and personal of resources
    req,      \* the requests in flight
    stray,    \* history: ids that were named as owners without being an account, and
              \* ids of accounts whose deletion overlapped another request
    raced     \* history: an administrator was lost while a deletion was past its
              \* count, or a sign-in took the last one's flag

tables == <<account, used, members, item>>
history == <<stray, raced>>
accountsVars == <<tables, req, history>>

----------------------------------------------------------------------------
Entries == Users \cup Emails
Account == [admin : BOOLEAN, blocked : BOOLEAN, name : Names]
Item == [owner : Users, label : Names, personal : BOOLEAN]

Free == [pc |-> "idle"]
Work ==
    {Free}
    \cup [pc : {"create"}, target : Users, groups : SUBSET Groups, row : Account,
          seen : [Groups -> SUBSET Entries]]
    \cup [pc : {"access"}, target : Users, groups : SUBSET Groups, blocked : BOOLEAN,
          seen : [Groups -> SUBSET Entries]]
    \cup [pc : {"group"}, group : Groups, list : SUBSET Entries]
    \cup [pc : {"delete"}, by : Users, as : Names, target : Users, name : Names]
    \cup [pc : {"store", "edit"}, item : Items, to : Item]

ASSUME PeopleAssumption ==
    /\ External \subseteq Users /\ ByEmail \subseteq Users /\ AdminGroups \subseteq Groups
    /\ EmailOf \in [Users -> Emails]
    /\ Users \cap Emails = {}
ASSUME NothingAssumption == NoAccount \notin Account /\ NoItem \notin Item

Exists(u) == account[u] # NoAccount

\* assignmentSourceForUser, direct assignment
Assigned(u, g) == u \in members[g] \/ EmailOf[u] \in members[g]

\* resolveAuthorizationFromInputs
IsAdmin(u) ==
    /\ Exists(u)
    /\ account[u].admin \/ \E g \in AdminGroups : Assigned(u, g)

\* A signed-in administrator: a blocked account has no session.
Acts(u) == IsAdmin(u) /\ ~account[u].blocked

Admins == {u \in Users : Exists(u) /\ account[u].admin}

Enter(r, request) ==
    /\ req[r] = Free
    /\ req' = [req EXCEPT ![r] = request]
    /\ UNCHANGED tables

Leave(r) == req' = [req EXCEPT ![r] = Free]

Abort(r) ==
    /\ req[r] # Free
    /\ Leave(r)
    /\ UNCHANGED <<tables, history>>

----------------------------------------------------------------------------
(* Creating and editing *)

Deleting(o) == req[o].pc = "delete"

\* UpsertExternalUser: the directory says what the account is called and whether it
\* is an administrator; blocking is left alone.
SsoSignIn(u, admin, name) ==
    /\ u \in External
    /\ account' = [account EXCEPT ![u] =
           [admin |-> admin, blocked |-> Exists(u) /\ account[u].blocked, name |-> name]]
    /\ raced' = (raced \/ (/\ u \in Admins /\ ~admin
                           /\ Admins = {u} \/ \E o \in Requests : Deleting(o)))
    /\ UNCHANGED <<used, members, item, req, stray>>

BeginCreate(r, a, u, groups, admin, name) ==
    /\ Acts(a)
    /\ u \notin External \cup used
    /\ \A o \in Requests : req[o].pc = "create" => req[o].target # u
    /\ Enter(r, [pc |-> "create", target |-> u, groups |-> groups,
                 row |-> [admin |-> admin, blocked |-> FALSE, name |-> name],
                 seen |-> members])
    /\ UNCHANGED history

\* Every group is written back as it was read, with the new id where chosen.
CommitCreate(r) ==
    /\ req[r].pc = "create"
    /\ LET q == req[r]
       IN  /\ account' = [account EXCEPT ![q.target] = q.row]
           /\ used' = used \cup {q.target}
           /\ members' = [g \in Groups |->
                  q.seen[g] \cup {u \in {q.target} : g \in q.groups}]
    /\ Leave(r)
    /\ UNCHANGED <<item, history>>

BeginAccess(r, a, u, groups, blocked) ==
    /\ Acts(a)
    /\ Exists(u)
    /\ Enter(r, [pc |-> "access", target |-> u, groups |-> groups,
                 blocked |-> blocked, seen |-> members])
    /\ UNCHANGED history

\* UpdateUserAccess: the id and the e-mail go from every group, the id comes
\* back to the chosen ones; an account that is gone meanwhile matches no row.
CommitAccess(r) ==
    /\ req[r].pc = "access"
    /\ LET q == req[r]
       IN  /\ account' = IF Exists(q.target)
                         THEN [account EXCEPT ![q.target].blocked = q.blocked]
                         ELSE account
           /\ members' = [g \in Groups |->
                  (q.seen[g] \ {q.target, EmailOf[q.target]})
                      \cup {u \in {q.target} : g \in q.groups}]
    /\ Leave(r)
    /\ UNCHANGED <<used, item, history>>

\* An administrator edits the list the page loaded: an account in or out, or the
\* e-mail address of one.
Edited(list) ==
    {list \cup {u} : u \in {u \in Users : Exists(u)}}
        \cup {list \cup {EmailOf[u]} : u \in {u \in ByEmail : Exists(u)}}
        \cup {list \ {u, EmailOf[u]} : u \in Users}

BeginGroup(r, a, g) ==
    /\ Acts(a)
    /\ \E list \in Edited(members[g]) :
          Enter(r, [pc |-> "group", group |-> g, list |-> list])
    /\ UNCHANGED history

CommitGroup(r) ==
    /\ req[r].pc = "group"
    /\ members' = [members EXCEPT ![req[r].group] = req[r].list]
    /\ Leave(r)
    /\ UNCHANGED <<account, used, item, history>>

----------------------------------------------------------------------------
(* Owning                                                                  *)

Mine(u, personal) == [owner |-> u, label |-> account[u].name, personal |-> personal]

\* enforceCreatorOwnership, enforcePersonalPasswordOwnership: what is personal, or
\* created by anybody but an administrator, is the caller's.  An administrator names
\* the owner's id and display name as free text; neither has to be an account's.
Creatable(u) ==
    {Mine(u, TRUE), Mine(u, FALSE)}
        \cup IF IsAdmin(u) THEN {x \in Item : ~x.personal} ELSE {}

\* Update: the label of a shared object is free, its owner for administrators; only
\* the owner makes an object personal.
Editable(u, old) ==
    {Mine(x, TRUE) : x \in {u} \cap {old.owner}}
        \cup {x \in Item : /\ ~x.personal
                           /\ old.owner = u \/ (~old.personal /\ IsAdmin(u))
                           /\ IsAdmin(u) \/ x.owner = old.owner}

\* One that is named without being an account.
Named(x) == stray' = stray \cup {u \in {x.owner} : ~Exists(u)}

\* resources.Create by a signed-in account, from authorisation to insert.
BeginStore(r, u, i) ==
    /\ Exists(u) /\ ~account[u].blocked
    /\ item[i] = NoItem
    /\ \A o \in Requests : req[o].pc = "store" => req[o].item # i
    /\ \E x \in Creatable(u) :
          Enter(r, [pc |-> "store", item |-> i, to |-> x]) /\ Named(x)
    /\ UNCHANGED raced

\* owner_user_id is no foreign key.
CommitStore(r) ==
    /\ req[r].pc = "store"
    /\ item' = [item EXCEPT ![req[r].item] = req[r].to]
    /\ Leave(r)
    /\ UNCHANGED <<account, used, members, history>>

\* resources.Update, from its read to its write.
BeginEdit(r, u, i) ==
    /\ Exists(u) /\ ~account[u].blocked
    /\ item[i] # NoItem
    /\ \E x \in Editable(u, item[i]) :
          Enter(r, [pc |-> "edit", item |-> i, to |-> x]) /\ Named(x)
    /\ UNCHANGED raced

CommitEdit(r) ==
    /\ req[r].pc = "edit"
    /\ item' = IF item[req[r].item] = NoItem THEN item
               ELSE [item EXCEPT ![req[r].item] = req[r].to]
    /\ Leave(r)
    /\ UNCHANGED <<account, used, members, history>>

----------------------------------------------------------------------------
(* Deleting *)

\* What the request has read of the two: their display names.
Deletion(a, u) ==
    [pc |-> "delete", by |-> a, as |-> account[a].name, target |-> u,
     name |-> account[u].name]

\* Variant: administrators are not counted.
BeginDeleteAnyone(r, a, u) ==
    /\ Acts(a)
    /\ a # u /\ Exists(u)
    /\ Enter(r, Deletion(a, u))
    /\ UNCHANGED history

\* Not oneself, and not the last account whose row says administrator.
BeginDelete(r, a, u) ==
    /\ Acts(a)
    /\ a # u /\ Exists(u)
    /\ account[u].admin => Cardinality(Admins) > 1
    /\ Enter(r, Deletion(a, u))
    /\ UNCHANGED history

\* A shared object is the target's by id or by the display name that was read; it
\* goes to whoever deletes.
AfterDelete(r) ==
    LET q == req[r]
        theirs == {i \in Items : item[i] # NoItem /\ item[i].owner = q.target}
        shared == {i \in Items : item[i] # NoItem /\ ~item[i].personal}
        named == {i \in shared : item[i].label = q.name}
    IN  [i \in Items |->
            IF i \in theirs \ shared THEN NoItem
            ELSE IF i \in (theirs \cap shared) \cup named
            THEN [owner |-> q.by, label |-> q.as, personal |-> FALSE]
            ELSE item[i]]

Alone(r) == \A o \in Requests \ {r} : req[o] = Free

\* Nothing is left of an account whose deletion overlapped nothing.
Deleted(r) ==
    /\ stray' = IF Alone(r) THEN stray \ {req[r].target}
                ELSE stray \cup {req[r].target}
    /\ raced' = (raced \/ (/\ req[r].target \in Admins
                           /\ \E o \in Requests \ {r} : Deleting(o)))

\* Variant: the local groups, which no foreign key cascades to, are forgotten.
CommitDeleteKeepingGroups(r) ==
    /\ Deleting(r)
    /\ Exists(req[r].target)
    /\ account' = [account EXCEPT ![req[r].target] = NoAccount]
    /\ item' = AfterDelete(r)
    /\ Leave(r)
    /\ Deleted(r)
    /\ UNCHANGED <<used, members>>

\* One transaction; nothing when the account is gone already.
CommitDelete(r) ==
    /\ Deleting(r)
    /\ Exists(req[r].target)
    /\ account' = [account EXCEPT ![req[r].target] = NoAccount]
    /\ item' = AfterDelete(r)
    /\ members' = [g \in Groups |-> members[g] \ {req[r].target}]
    /\ Leave(r)
    /\ Deleted(r)
    /\ UNCHANGED used

----------------------------------------------------------------------------
\* A workspace as it is seeded: one local administrator, one user, no groups
\* filled.
AccountsInit ==
    /\ \E a \in Users \ External, name \in Names :
          /\ account = [u \in Users |->
                 IF u = a THEN [admin |-> TRUE, blocked |-> FALSE, name |-> name]
                 ELSE NoAccount]
          /\ used = {a}
    /\ members = [g \in Groups |-> {}]
    /\ item = [i \in Items |-> NoItem]
    /\ req = [r \in Requests |-> Free]
    /\ stray = {}
    /\ raced = FALSE

AdminStep(r, a) ==
    \/ \E u \in Users, groups \in SUBSET Groups, flag \in BOOLEAN :
          \/ \E name \in Names : BeginCreate(r, a, u, groups, flag, name)
          \/ BeginAccess(r, a, u, groups, flag)
    \/ \E g \in Groups : BeginGroup(r, a, g)
    \/ \E u \in Users : BeginDelete(r, a, u)

AccountsNext ==
    \/ \E u \in External, admin \in BOOLEAN, name \in Names : SsoSignIn(u, admin, name)
    \/ \E r \in Requests :
          \/ \E a \in Users : AdminStep(r, a)
          \/ \E u \in Users, i \in Items : BeginStore(r, u, i) \/ BeginEdit(r, u, i)
          \/ CommitCreate(r) \/ CommitAccess(r) \/ CommitGroup(r)
          \/ CommitStore(r) \/ CommitEdit(r) \/ CommitDelete(r) \/ Abort(r)

AccountsSpec == AccountsInit /\ [][AccountsNext]_accountsVars

----------------------------------------------------------------------------
AccountsTypeOK ==
    /\ account \in [Users -> {NoAccount} \cup Account]
    /\ used \subseteq Users
    /\ members \in [Groups -> SUBSET Entries]
    /\ item \in [Items -> {NoItem} \cup Item]
    /\ req \in [Requests -> Work]
    /\ stray \subseteq Users
    /\ raced \in BOOLEAN

\* No group lists the id of an account that is gone, so an id the directory gives
\* out again does not bring rights along (DeleteUser drops it from every list),
\* unless a request was in flight that writes back what it read before.
GroupsListLiveAccounts ==
    \A g \in Groups, u \in Users : u \in members[g] => Exists(u) \/ u \in stray

\* No shared object is left pointing at a deleted account, and no personal one
\* lingers (repository.go:516, 523), with the same exception; an administrator can
\* name an owner who never was.
ItemsHaveALiveOwner ==
    \A i \in Items : item[i] # NoItem => Exists(item[i].owner) \/ item[i].owner \in stray

\* A deletion leaves nothing in a group or on an object that names the account, over
\* everything that creates, edits, stores or deletes: what dangles was put there by
\* an administrator who named it, or by a request that overlapped that very deletion.
NothingDangles == GroupsListLiveAccounts /\ ItemsHaveALiveOwner

\* There is an administrator (service.go:392, over what overlaps the deletion of one:
\* creations, edits, stores, promotions, deletions of others): the last one is lost
\* only when another administrator goes between a deletion's count and its commit, or
\* when the directory takes the right away.
AnAdministratorIsLeft == Admins # {} \/ raced
=============================================================================
