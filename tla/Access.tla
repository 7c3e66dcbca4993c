------------------------------- MODULE Access -------------------------------
(***************************************************************************)
(* Who sees what of one object (backend/internal/auth: authorization.go,   *)
(* dev.go; backend/internal/resources: permissions.go, authz.go,           *)
(* service.go, reveal.go, mentions.go, portal.go, launch.go, validate.go). *)
(*                                                                         *)
(* Every request resolves its user's groups and rights afresh and decides  *)
(* by the row it reads.  The decision is written several times over: lists *)
(* go by a visibility scope, single objects by CanAccess, and revealing,   *)
(* filling, launching, mentioning and matching have rules of their own.    *)
(* Each handler is one step here: how requests that read the same row      *)
(* overwrite one another is the subject of Resource.                       *)
(***************************************************************************)
EXTENDS FiniteSets

CONSTANTS
    Users,       \* accounts, by their id
    Emails,      \* their addresses
    EmailOf,     \* the address of each account
    Groups,      \* names of local groups
    Externals,   \* external groups; one may have a local group's name
    Foreign,     \* the accounts that sign in with Microsoft
    Definitions, \* what administrators make of a local group
    OwnRights,   \* sets of rights that an account is given
    Granted,     \* rights of the external groups
    Inputs,      \* what people send to store an object
    NoGroup, NoUser, NoObject

VARIABLES
    group,    \* local_groups
    account,  \* app_users
    granted,  \* the rights configured for external groups
    obj       \* one row of resources, or none

vars == <<group, account, granted, obj>>

----------------------------------------------------------------------------
\* The rights of the object's category, and admin.access.
Rights == {"read", "edit", "create", "admin"}
Manual == {"connection", "saved", "portal"}
Kinds == Manual \cup {"secret", "registration"}
Usage == {"copy", "reveal"}

Group == [rights : SUBSET Rights, mapped : SUBSET Externals,
          assigned : SUBSET (Users \cup Emails)]
Account == [admin : BOOLEAN, external : SUBSET Externals, rights : SUBSET Rights]
Sharing == [groups : SUBSET Groups, users : SUBSET Users]
Object == [kind : Kinds, personal : BOOLEAN, owner : Users \cup {NoUser},
           shared : Sharing, usage : SUBSET Usage, launch : BOOLEAN,
           stored : BOOLEAN, archived : BOOLEAN]

Input == [kind : Manual, personal : BOOLEAN, owner : Users \cup {NoUser},
          shared : Sharing, usage : SUBSET Usage, launch : BOOLEAN, stored : BOOLEAN]

ASSUME PeopleAssumption ==
    EmailOf \in [Users -> Emails] /\ NoUser \notin Users /\ Foreign \subseteq Users
ASSUME RightsAssumption ==
    /\ Definitions \subseteq Group /\ OwnRights \subseteq SUBSET Rights
    /\ Granted \subseteq [Externals -> SUBSET Rights]
ASSUME InputAssumption == Inputs \subseteq Input
ASSUME NonesAssumption == NoGroup \notin Group /\ NoObject \notin Object

Nobody == [groups |-> {}, users |-> {}]

Category(kind) ==
    CASE kind = "connection" -> "connections"
      [] kind = "secret" -> "keyvault"
      [] kind = "registration" -> "appregistrations"
      [] OTHER -> "passwords"

----------------------------------------------------------------------------
(* Authorization of a user, resolved for each request                      *)

AssignmentSource(u, g) ==
    LET def == group[g]
        external == account[u].external
    IN  IF def = NoGroup THEN "none"
        ELSE CASE {u, EmailOf[u]} \cap def.assigned # {} -> "direct"
               [] {u, EmailOf[u]} \cap def.assigned = {} /\ def.mapped \cap external # {} -> "mapped"
               [] OTHER -> IF g \in external THEN "matching" ELSE "none"

LocalGroups(u) == {g \in Groups : AssignmentSource(u, g) # "none"}

ResolvedRights(u) ==
    UNION {group[g].rights : g \in LocalGroups(u)}
        \cup UNION {granted[x] : x \in account[u].external}
        \cup account[u].rights
        \cup (IF account[u].admin THEN Rights ELSE {})

\* resolveAuthorizationFromInputs
Resolved(u) ==
    [id |-> u, groups |-> LocalGroups(u), rights |-> ResolvedRights(u),
     admin |-> account[u].admin \/ "admin" \in ResolvedRights(u)]

\* Variant: administrators are not given the reveal of key vault secrets.
ImportersCapabilities(category) ==
    IF category \in {"connections", "passwords"}
    THEN {"view", "create", "edit", "reveal", "launch"}
    ELSE {"view", "edit"}

AdminCapabilities(category) ==
    CASE category \in {"connections", "passwords"} ->
            {"view", "create", "edit", "reveal", "launch"}
      [] category = "keyvault" -> {"view", "edit", "reveal"}
      [] OTHER -> {"view", "edit"}

\* CapabilitiesForUser, for one category.
Capabilities(user, category) ==
    LET has(right) == right \in user.rights
        creates == category \in {"connections", "passwords"} /\ has("create")
        uses == has("read") \/ has("edit") \/ creates
        when(condition, capabilities) == IF condition THEN capabilities ELSE {}
    IN  IF user.admin THEN AdminCapabilities(category)
        ELSE when(uses, {"view"})
             \cup when(has("edit"), {"edit"})
             \cup when(creates \/ (category = "passwords" /\ has("edit")), {"create"})
             \cup when(uses /\ category # "appregistrations", {"reveal"})
             \cup when(uses /\ category \in {"connections", "passwords"}, {"launch"})

Can(user, capability, o) == capability \in Capabilities(user, Category(o.kind))

----------------------------------------------------------------------------
(* Decisions about one object                                              *)

IsOwner(user, o) == o.owner = user.id
Everyone(o) == o.shared = Nobody

CanAccess(user, o) ==
    \/ IsOwner(user, o)
    \/ /\ ~o.personal
       /\ \/ user.admin
          \/ Everyone(o)
          \/ user.id \in o.shared.users
          \/ o.shared.groups \cap user.groups # {}

CanView(user, o) == Can(user, "view", o) /\ CanAccess(user, o)

\* visibilityScopeForResource: what the lists go by.
Scope(user, o) ==
    CASE o.personal -> IF IsOwner(user, o) THEN "personal" ELSE "none"
      [] ~o.personal /\ IsOwner(user, o) -> "owner"
      [] OTHER ->
            IF user.admin THEN "administrator"
            ELSE IF Everyone(o) THEN "everyone"
            ELSE IF user.id \in o.shared.users THEN "matched_user"
            ELSE IF o.shared.groups \cap user.groups # {} THEN "matched_groups"
            ELSE "none"

Live(o) == o # NoObject /\ ~o.archived

\* explainVisibleResourcesForUser over what repo.List returns.
Listed(user, o) == Live(o) /\ Can(user, "view", o) /\ Scope(user, o) # "none"

UsageAllowed(o) == o.usage # {}

OwnerOrAdmin(user, o) == IsOwner(user, o) \/ (user.admin /\ ~o.personal)

\* canRevealStoredPassword, canRevealConnectionSecret, and the general rule for
\* the categories that have neither.
MayReveal(user, o) ==
    /\ Can(user, "reveal", o) /\ CanAccess(user, o)
    /\ \/ Category(o.kind) \in {"passwords", "connections"} /\ OwnerOrAdmin(user, o)
       \/ UsageAllowed(o)

MayLaunch(user, o) == Can(user, "launch", o) /\ CanAccess(user, o) /\ o.launch

\* Variant: only the flag and the category are looked at.
MayFillAny(user, o) ==
    o.kind = "portal" /\ Can(user, "reveal", o) /\ UsageAllowed(o)

\* canFillPasswordResource
MayFill(user, o) ==
    /\ o.kind = "portal"
    /\ Can(user, "reveal", o) /\ UsageAllowed(o) /\ CanAccess(user, o)

CanUpdate(user, o) ==
    \/ IsOwner(user, o)
    \/ ~o.personal /\ (user.admin \/ (Can(user, "edit", o) /\ CanAccess(user, o)))

CanArchive(user, o) == IsOwner(user, o) \/ (user.admin /\ ~o.personal)

----------------------------------------------------------------------------
(* What the handlers answer                                                *)

\* Variant: every refusal is Forbidden.
RefuseAll(user, o) == "forbidden"

\* accessDenied
Refusal(user, o) ==
    IF o.personal /\ ~IsOwner(user, o) THEN "not found" ELSE "forbidden"

Answer(user, o, allowed) ==
    IF ~Live(o) THEN "not found"
    ELSE IF allowed THEN "ok" ELSE Refusal(user, o)

Get(user, o) == Answer(user, o, Live(o) /\ CanView(user, o))
Launch(user, o) == Answer(user, o, Live(o) /\ MayLaunch(user, o))
EditOf(user, o) == Answer(user, o, Live(o) /\ CanUpdate(user, o))
RemovalOf(user, o) == Answer(user, o, Live(o) /\ CanArchive(user, o))

\* An entry without a password is told apart before anything is decided.
Reveal(user, o) ==
    IF Live(o) /\ o.kind = "portal" /\ ~o.stored THEN "invalid"
    ELSE Answer(user, o, Live(o) /\ MayReveal(user, o))

Fill(user, o) ==
    CASE ~Live(o) -> "not found"
      [] Live(o) /\ o.kind # "portal" -> "invalid"
      [] OTHER -> IF MayFill(user, o) THEN "ok" ELSE "forbidden"

PortalMatches(user, o) == Listed(user, o) /\ o.kind = "portal" /\ UsageAllowed(o)

Mentionable(o) == Category(o.kind) \in {"passwords", "keyvault"}

\* resolveMention: "accessible" tells name and user name, "denied" the name only.
Mention(user, o) ==
    IF ~Live(o) \/ o.personal \/ ~Mentionable(o) THEN "hidden"
    ELSE IF CanView(user, o) THEN "accessible" ELSE "denied"

\* ListMentionCandidates
MentionCandidate(user, o) == Listed(user, o) /\ ~o.personal /\ Mentionable(o)

\* ListArchived
ArchiveShows(user, o) == user.admin /\ o # NoObject /\ o.archived /\ ~o.personal

----------------------------------------------------------------------------
(* Writing the object                                                      *)

\* normalizeInput: a personal object has no lists, the two usage flags are one,
\* and what has no password to use or cannot be launched is not.
Normalize(input) ==
    [input EXCEPT
        !.shared = IF input.personal THEN Nobody ELSE @,
        !.launch = @ /\ input.kind # "saved",
        !.usage = IF @ = {} \/ (input.kind = "portal" /\ ~input.stored)
                  THEN {} ELSE Usage]

\* validateInput, of what tells these inputs apart.
Valid(input) ==
    /\ input.personal => Category(input.kind) = "passwords"
    /\ input.kind = "saved" => input.stored

Row(input) ==
    [kind |-> input.kind, personal |-> input.personal, owner |-> input.owner,
     shared |-> input.shared, usage |-> input.usage, launch |-> input.launch,
     stored |-> input.stored, archived |-> FALSE]

\* enforceCreatorOwnership, enforcePersonalPasswordOwnership
Owned(user, input) ==
    LET shared == [input EXCEPT !.personal = @ /\ (user.admin \/ input.kind # "connection")]
        mine == ~user.admin \/ input.owner = NoUser
                    \/ (shared.personal /\ Category(input.kind) = "passwords")
    IN  [shared EXCEPT !.owner = IF mine THEN user.id ELSE @]

Create(u, input) ==
    LET user == Resolved(u)
        made == Normalize(Owned(user, input))
    IN  /\ obj = NoObject
        /\ "create" \in Capabilities(user, Category(input.kind))
        /\ Valid(made)
        /\ obj' = Row(made)
        /\ UNCHANGED <<group, account, granted>>

\* An import stores a record: a synchronisation's is nobody's, and what an
\* administrator imports of the Key Vault is the importer's.
Import(kind, shared, owner) ==
    /\ obj = NoObject
    /\ owner # NoUser => kind = "secret" /\ Resolved(owner).admin
    /\ obj' = [kind |-> kind, personal |-> FALSE, owner |-> owner, shared |-> shared,
               usage |-> IF kind = "secret" THEN Usage ELSE {}, launch |-> FALSE,
               stored |-> TRUE, archived |-> FALSE]
    /\ UNCHANGED <<group, account, granted>>

MetadataEditor(user, o) == ~user.admin /\ ~o.personal /\ ~IsOwner(user, o)

\* preserveManagedFields, of an imported record.
Managed(o, input) ==
    CASE o.kind = "secret" -> [input EXCEPT !.kind = o.kind, !.stored = o.stored]
      [] o.kind = "registration" ->
            [input EXCEPT !.kind = o.kind, !.stored = o.stored,
                          !.launch = o.launch, !.usage = o.usage]
      [] OTHER -> input

\* Variant: the sharing lists are taken from the request.
RestrictedButShared(o, input) ==
    [kind |-> o.kind, personal |-> o.personal, owner |-> o.owner,
     shared |-> input.shared, usage |-> o.usage, launch |-> o.launch, stored |-> o.stored]

\* restrictToSharedMetadata: what is modelled of the object stays as it is.
Restricted(o, input) ==
    [kind |-> o.kind, personal |-> o.personal, owner |-> o.owner,
     shared |-> o.shared, usage |-> o.usage, launch |-> o.launch, stored |-> o.stored]

\* The owner an edit leaves: a personal object keeps its owner, one that becomes
\* personal goes to its editor, and only administrators hand one over.
OwnerAfter(user, o, input) ==
    CASE o.personal /\ input.personal -> o.owner
      [] ~o.personal /\ input.personal -> user.id
      [] OTHER -> IF user.admin /\ input.owner # NoUser THEN input.owner ELSE o.owner

Edited(user, o, input) ==
    IF MetadataEditor(user, o)
    THEN Managed(o, Normalize(Restricted(o, input)))
    ELSE Managed(o, Normalize([input EXCEPT !.owner = OwnerAfter(user, o, input)]))

MayEdit(user, o, input) ==
    /\ Live(o) /\ CanUpdate(user, o)
    /\ input.personal /\ ~o.personal => IsOwner(user, o)
    /\ Valid(Edited(user, o, input))

Update(u, input) ==
    /\ MayEdit(Resolved(u), obj, input)
    /\ obj' = Row(Edited(Resolved(u), obj, input))
    /\ UNCHANGED <<group, account, granted>>

Archive(u) ==
    /\ Live(obj)
    /\ CanArchive(Resolved(u), obj)
    /\ obj' = IF obj.personal THEN NoObject ELSE [obj EXCEPT !.archived = TRUE]
    /\ UNCHANGED <<group, account, granted>>

Restore(u) ==
    /\ obj # NoObject /\ obj.archived /\ ~obj.personal
    /\ Resolved(u).admin
    /\ obj' = [obj EXCEPT !.archived = FALSE]
    /\ UNCHANGED <<group, account, granted>>

----------------------------------------------------------------------------
(* Administration                                                          *)

\* CreateLocalGroup, UpdateLocalGroup
SaveGroup(g, def) ==
    /\ group' = [group EXCEPT ![g] = def]
    /\ UNCHANGED <<account, granted, obj>>

\* UpdateUserAccess, of the rights of an account
SaveRights(u, rights) ==
    /\ account' = [account EXCEPT ![u].rights = rights]
    /\ UNCHANGED <<group, granted, obj>>

\* UpsertExternalUser at a Microsoft sign-in
SignIn(u, external) ==
    /\ account' = [account EXCEPT ![u].external = external]
    /\ UNCHANGED <<group, granted, obj>>

\* Rows saved before the two usage flags became one.
HalfAllowed ==
    [kind : Manual, personal : {FALSE}, owner : Users, shared : {Nobody},
     usage : {{"copy"}}, launch : {FALSE}, stored : {TRUE}, archived : {FALSE}]

Init ==
    /\ group = [g \in Groups |-> NoGroup]
    /\ account \in {[u \in Users |-> [admin |-> u \in admins, external |-> {}, rights |-> {}]]
                       : admins \in SUBSET (Users \ Foreign)}
    /\ granted \in Granted
    /\ obj \in {NoObject} \cup HalfAllowed

Next ==
    \/ \E u \in Users :
          \/ \E input \in Inputs : Create(u, input) \/ Update(u, input)
          \/ Archive(u) \/ Restore(u)
          \/ \E rights \in OwnRights : SaveRights(u, rights)
    \/ \E u \in Foreign, external \in {{}} \cup {{x} : x \in Externals} : SignIn(u, external)
    \/ \E kind \in Kinds \ Manual, shared \in {input.shared : input \in Inputs},
          owner \in Users \cup {NoUser} : Import(kind, shared, owner)
    \/ \E g \in Groups, def \in Definitions : SaveGroup(g, def)

Spec == Init /\ [][Next]_vars

----------------------------------------------------------------------------
(* Properties                                                              *)

\* Only password objects are personal, and a personal object has an owner, whoever
\* created, edited or imported it (validateInput, enforcePersonalPasswordOwnership).
TypeOK ==
    /\ group \in [Groups -> {NoGroup} \cup Group]
    /\ account \in [Users -> Account]
    /\ granted \in [Externals -> SUBSET Rights]
    /\ obj \in {NoObject} \cup Object
    /\ obj # NoObject /\ obj.personal =>
           Category(obj.kind) = "passwords" /\ obj.owner # NoUser

\* A personal object is nobody's but its owner's, administrators included: no
\* list, answer, mention, match or archive has it for anybody else.
PersonalIsTheOwners ==
    obj # NoObject /\ obj.personal =>
        \A u \in Users \ {obj.owner} :
            LET user == Resolved(u) IN
            /\ ~Listed(user, obj) /\ ~ArchiveShows(user, obj)
            /\ Mention(user, obj) = "hidden"
            /\ "ok" \notin {Get(user, obj), Reveal(user, obj), Launch(user, obj),
                            Fill(user, obj), EditOf(user, obj), RemovalOf(user, obj)}

\* Nobody but the owner of a personal object can tell it from one that is gone by
\* asking for it, launching, editing or removing it (accessDenied).
PersonalLooksGone ==
    obj # NoObject /\ obj.personal =>
        \A u \in Users \ {obj.owner} :
            LET user == Resolved(u) IN
            {Get(user, obj), Launch(user, obj), EditOf(user, obj), RemovalOf(user, obj)}
                = {"not found"}

\* The lists have what can be opened, and nothing else: the scope of
\* explainVisibleResourcesForUser and CanAccess are two writings of one rule.
ListsHaveWhatOpens ==
    \A u \in Users : Listed(Resolved(u), obj) <=> Get(Resolved(u), obj) = "ok"

\* Whoever gets at a secret, by revealing, filling or launching, can open the
\* object it belongs to, and what can be filled can be read (secretUsageAllowed:
\* anyone who can put it on the clipboard can read it).
SecretsFollowTheObject ==
    \A u \in Users :
        LET user == Resolved(u) IN
        /\ "ok" \in {Reveal(user, obj), Fill(user, obj), Launch(user, obj)}
               => Get(user, obj) = "ok"
        /\ PortalMatches(user, obj) => Fill(user, obj) = "ok"
        /\ Fill(user, obj) = "ok" => Reveal(user, obj) # "forbidden"

\* A mention is accessible to exactly those whom the picker offers the object, and
\* the name of an object is told to others only while it is shared and live.
MentionsFollowTheReader ==
    \A u \in Users :
        LET user == Resolved(u) IN
        /\ Mention(user, obj) = "accessible" <=> MentionCandidate(user, obj)
        /\ Mention(user, obj) = "denied" => Live(obj) /\ ~obj.personal

\* A personal object has no sharing lists, whatever it was before, so nobody is on
\* one when it is shared again (normalizeInput).
PersonalHasNoLists == obj # NoObject /\ obj.personal => obj.shared = Nobody

\* What is personal is its owner's alone, and was shared with nobody when it
\* becomes shared again.
PersonalStaysPersonal == PersonalIsTheOwners /\ PersonalLooksGone /\ PersonalHasNoLists

\* The rule of who may see an object is written down six times, once for each way
\* to come by it, and they agree.
DecisionsAgree == ListsHaveWhatOpens /\ SecretsFollowTheObject /\ MentionsFollowTheReader

\* Who may see and use an object, and who owns it.
Terms(o) == <<o.kind, o.personal, o.owner, o.shared, UsageAllowed(o), o.launch>>

\* An editor who neither owns the object nor is an administrator changes nothing
\* of who may see it, use it or launch it (restrictToSharedMetadata).
EditorsLeaveTheTerms ==
    \A u \in Users :
        LET user == Resolved(u) IN
        Live(obj) /\ MetadataEditor(user, obj) /\ CanUpdate(user, obj) =>
            \A input \in Inputs : MayEdit(user, obj, input) =>
                Terms(Row(Edited(user, obj, input))) = Terms(obj)

Extends(def, old) ==
    old = NoGroup \/ (/\ old.rights \subseteq def.rights /\ old.mapped \subseteq def.mapped
                      /\ old.assigned \subseteq def.assigned)

\* A group that gains rights or members takes nothing from anybody, though it may
\* make somebody an administrator, whose capabilities are a table of their own.
MoreRightsTakeNothing ==
    [][(group' # group /\ \A g \in Groups : group[g] # group'[g] => Extends(group'[g], group[g]))
          => \A u \in Users :
                 /\ Get(Resolved(u), obj) = "ok" => (Get(Resolved(u), obj))' = "ok"
                 /\ Reveal(Resolved(u), obj) = "ok" => (Reveal(Resolved(u), obj))' = "ok"]_vars
=============================================================================
