---------------------------- MODULE AccessProofs ----------------------------
(***************************************************************************)
(* Proofs about Access, for any accounts, groups, rights and inputs: the   *)
(* decisions agree about every object there can be, and what they rely on  *)
(* about an object is kept by everything that writes one.  And about       *)
(* Launch, the use that is made of such a right, for any connections,      *)
(* tickets and launches; the two share no constant and no variable.        *)
(***************************************************************************)
EXTENDS Access, Launch, TLAPS

----------------------------------------------------------------------------
(* Groups and rights *)

\* Who is in a group: by assignment, by a mapping, or by its name.
In(u, def, g, external) ==
    /\ def # NoGroup
    /\ \/ {u, EmailOf[u]} \cap def.assigned # {}
       \/ def.mapped \cap external # {}
       \/ g \in external

LEMMA Membership ==
    ASSUME NEW u, NEW g
    PROVE  /\ AssignmentSource(u, g) # "none" <=> In(u, group[g], g, account[u].external)
           /\ (AssignmentSource(u, g) # "none")' <=> In(u, group'[g], g, account'[u].external)
  BY DEF AssignmentSource, In

LEMMA ResolvedFields ==
    ASSUME NEW u
    PROVE  /\ Resolved(u).id = u
           /\ Resolved(u).groups = LocalGroups(u)
           /\ Resolved(u).rights = ResolvedRights(u)
           /\ Resolved(u).admin <=> account[u].admin \/ "admin" \in ResolvedRights(u)
           /\ (Resolved(u))'.id = u
           /\ (Resolved(u))'.groups = LocalGroups(u)'
           /\ (Resolved(u))'.rights = ResolvedRights(u)'
           /\ (Resolved(u))'.admin <=> account'[u].admin \/ "admin" \in ResolvedRights(u)'
  BY DEF Resolved

----------------------------------------------------------------------------
(* Decisions: for any user, as resolved, and any object *)

LEMMA CategoryOfKind ==
    ASSUME NEW o, o.kind \in Kinds
    PROVE  /\ Category(o.kind) = "passwords" <=> o.kind \in {"saved", "portal"}
           /\ Category(o.kind) = "connections" <=> o.kind = "connection"
           /\ Category(o.kind) = "keyvault" <=> o.kind = "secret"
           /\ Category(o.kind) = "appregistrations" <=> o.kind = "registration"
           /\ Category(o.kind) \in {"passwords", "connections", "keyvault", "appregistrations"}
  BY DEF Category, Kinds, Manual

\* Seeing is what every other use rests on, and whoever sees what holds a secret
\* may have it revealed.
LEMMA CapabilityRules ==
    ASSUME NEW user,
           NEW category \in {"passwords", "connections", "keyvault", "appregistrations"}
    PROVE  LET has == Capabilities(user, category) IN
           /\ has \cap {"reveal", "launch"} # {} => "view" \in has
           /\ category # "appregistrations" => ("view" \in has <=> "reveal" \in has)
           /\ category = "appregistrations" => "reveal" \notin has
  <1>1. CASE user.admin
    BY <1>1 DEF Capabilities, AdminCapabilities
  <1>2. CASE ~user.admin
    BY <1>2 DEF Capabilities
  <1> QED
    BY <1>1, <1>2

\* The two writings of the rule of who may see an object agree.
LEMMA ScopeIsAccess ==
    ASSUME NEW user, NEW o
    PROVE  Scope(user, o) # "none" <=> CanAccess(user, o)
  <1>1. CASE IsOwner(user, o)
    BY <1>1 DEF Scope, CanAccess
  <1>2. CASE o.personal /\ ~IsOwner(user, o)
    BY <1>2 DEF Scope, CanAccess
  <1>3. CASE ~o.personal /\ ~IsOwner(user, o)
    BY <1>3 DEF Scope, CanAccess
  <1> QED
    BY <1>1, <1>2, <1>3

LEMMA ListedIsGet ==
    ASSUME NEW user, NEW o
    PROVE  Listed(user, o) <=> Get(user, o) = "ok"
  BY ScopeIsAccess DEF Listed, Get, Answer, Refusal, CanView

LEMMA SecretRules ==
    ASSUME NEW user, NEW o, o.kind \in Kinds
    PROVE  /\ "ok" \in {Reveal(user, o), Fill(user, o), Launch(user, o)} => Get(user, o) = "ok"
           /\ PortalMatches(user, o) => Fill(user, o) = "ok"
           /\ Fill(user, o) = "ok" => Reveal(user, o) # "forbidden"
  <1>1. Can(user, "reveal", o) \/ Can(user, "launch", o) => Can(user, "view", o)
    BY CategoryOfKind, CapabilityRules DEF Can
  <1>2. Reveal(user, o) = "ok" => Live(o) /\ MayReveal(user, o)
    BY DEF Reveal, Answer, Refusal
  <1>3. Fill(user, o) = "ok" <=> Live(o) /\ MayFill(user, o)
    BY DEF Fill, MayFill
  <1>4. Launch(user, o) = "ok" => Live(o) /\ MayLaunch(user, o)
    BY DEF Launch, Answer, Refusal
  <1>5. Get(user, o) = "ok" <=> Live(o) /\ CanView(user, o)
    BY DEF Get, Answer, Refusal
  <1>6. o.kind = "portal" => (Can(user, "view", o) <=> Can(user, "reveal", o))
    BY CategoryOfKind, CapabilityRules DEF Can
  <1>7. "ok" \in {Reveal(user, o), Fill(user, o), Launch(user, o)} => Get(user, o) = "ok"
    BY <1>1, <1>2, <1>3, <1>4, <1>5 DEF MayReveal, MayFill, MayLaunch, CanView
  <1>8. PortalMatches(user, o) => Fill(user, o) = "ok"
    BY <1>3, <1>6, ScopeIsAccess DEF PortalMatches, Listed, MayFill
  <1>9. Fill(user, o) = "ok" => Reveal(user, o) # "forbidden"
    BY <1>3 DEF MayFill, MayReveal, Reveal, Answer
  <1> QED
    BY <1>7, <1>8, <1>9

LEMMA MentionRules ==
    ASSUME NEW user, NEW o
    PROVE  /\ Mention(user, o) = "accessible" <=> MentionCandidate(user, o)
           /\ Mention(user, o) = "denied" => Live(o) /\ ~o.personal
  BY ScopeIsAccess DEF Mention, MentionCandidate, Listed, CanView

\* A personal object is out of everybody else's reach.
LEMMA PersonalRules ==
    ASSUME NEW user, NEW o, o.personal, ~IsOwner(user, o)
    PROVE  /\ ~Listed(user, o) /\ ~ArchiveShows(user, o)
           /\ Mention(user, o) = "hidden"
           /\ "ok" \notin {Get(user, o), Reveal(user, o), Launch(user, o),
                           Fill(user, o), EditOf(user, o), RemovalOf(user, o)}
           /\ {Get(user, o), Launch(user, o), EditOf(user, o), RemovalOf(user, o)} = {"not found"}
  <1>1. ~CanAccess(user, o)
    BY DEF CanAccess
  <1>2. ~Listed(user, o) /\ ~ArchiveShows(user, o) /\ Mention(user, o) = "hidden"
    BY <1>1, ScopeIsAccess DEF Listed, ArchiveShows, Mention
  <1>4. Get(user, o) = "not found"
    BY <1>1 DEF Get, Answer, Refusal, CanView
  <1>5. Launch(user, o) = "not found"
    BY <1>1 DEF Launch, Answer, Refusal, MayLaunch
  <1>6. EditOf(user, o) = "not found"
    BY DEF EditOf, Answer, Refusal, CanUpdate
  <1>7. RemovalOf(user, o) = "not found"
    BY DEF RemovalOf, Answer, Refusal, CanArchive
  <1>8. Reveal(user, o) # "ok"
    BY <1>1 DEF Reveal, Answer, Refusal, MayReveal
  <1>9. Fill(user, o) # "ok"
    BY <1>1 DEF Fill, MayFill
  <1> QED
    BY <1>2, <1>4, <1>5, <1>6, <1>7, <1>8, <1>9

----------------------------------------------------------------------------
(* What is stored *)

\* What a handler has of an object before it stores the row
Wide == [kind : Kinds, personal : BOOLEAN, owner : Users \cup {NoUser},
         shared : Sharing, usage : SUBSET Usage, launch : BOOLEAN, stored : BOOLEAN]

\* What normalizing sees to, of an input or a row
Clean(o) ==
    /\ o.personal => o.shared = Nobody
    /\ o.kind = "saved" => ~o.launch
    /\ o.kind = "portal" /\ ~o.stored => o.usage = {}

LEMMA InputIsWide == Inputs \subseteq Wide
  BY InputAssumption DEF Input, Wide, Kinds

LEMMA NormalizeShape ==
    ASSUME NEW i \in Wide
    PROVE  /\ Normalize(i) \in Wide /\ Clean(Normalize(i))
           /\ Normalize(i).kind = i.kind /\ Normalize(i).stored = i.stored
           /\ Normalize(i).personal = i.personal /\ Normalize(i).owner = i.owner
           /\ ~i.personal => Normalize(i).shared = i.shared
           /\ i.kind # "saved" => Normalize(i).launch = i.launch
           /\ Normalize(i).usage = {} <=> i.usage = {} \/ (i.kind = "portal" /\ ~i.stored)
  <1> DEFINE shared == IF i.personal THEN Nobody ELSE i.shared
             launched == i.launch /\ i.kind # "saved"
             usage == IF i.usage = {} \/ (i.kind = "portal" /\ ~i.stored) THEN {} ELSE Usage
  <1>1. Normalize(i) = [i EXCEPT !.shared = shared, !.launch = launched, !.usage = usage]
    BY DEF Normalize
  <1>2. shared \in Sharing /\ usage \in SUBSET Usage
    BY DEF Wide, Sharing, Nobody
  <1>3. launched \in BOOLEAN
    OBVIOUS
  <1>4. (i.personal => shared = Nobody) /\ (~i.personal => shared = i.shared)
    OBVIOUS
  <1>5. (i.kind = "saved" => ~launched)
    OBVIOUS
  <1>6. i.kind # "saved" => launched = i.launch
    BY DEF Wide
  <1>7. usage = {} <=> i.usage = {} \/ (i.kind = "portal" /\ ~i.stored)
    BY DEF Usage
  <1> HIDE DEF shared, launched, usage
  <1>8. Normalize(i) \in Wide
    BY <1>1, <1>2, <1>3 DEF Wide
  <1>9. /\ Normalize(i).kind = i.kind /\ Normalize(i).stored = i.stored
        /\ Normalize(i).personal = i.personal /\ Normalize(i).owner = i.owner
        /\ Normalize(i).shared = shared /\ Normalize(i).launch = launched
        /\ Normalize(i).usage = usage
    BY <1>1 DEF Wide
  <1> QED
    BY <1>4, <1>5, <1>6, <1>7, <1>8, <1>9 DEF Clean

LEMMA RowShape ==
    ASSUME NEW i \in Wide
    PROVE  /\ Row(i) \in Object /\ Row(i) # NoObject
           /\ Row(i).kind = i.kind /\ Row(i).personal = i.personal
           /\ Row(i).owner = i.owner /\ Row(i).shared = i.shared
           /\ Row(i).usage = i.usage /\ Row(i).launch = i.launch
           /\ Row(i).stored = i.stored /\ ~Row(i).archived
  <1>1. Row(i) \in Object
    BY DEF Wide, Row, Object
  <1> QED
    BY <1>1, NonesAssumption DEF Row

LEMMA ManagedShape ==
    ASSUME NEW o \in Object, NEW i \in Wide
    PROVE  /\ Managed(o, i) \in Wide
           /\ Managed(o, i).personal = i.personal /\ Managed(o, i).owner = i.owner
           /\ Managed(o, i).shared = i.shared
           /\ o.kind \in {"secret", "registration"} => Managed(o, i).kind = o.kind
           /\ o.kind \notin {"secret", "registration"} => Managed(o, i) = i
           /\ o.kind # "registration" => Managed(o, i).launch = i.launch
                                         /\ Managed(o, i).usage = i.usage
           /\ o.kind = "registration" => Managed(o, i).launch = o.launch
                                         /\ Managed(o, i).usage = o.usage
  <1>1. CASE o.kind = "secret"
    <2>1. Managed(o, i) = [i EXCEPT !.kind = o.kind, !.stored = o.stored]
      BY <1>1 DEF Managed
    <2> QED
      BY <1>1, <2>1 DEF Wide, Object
  <1>2. CASE o.kind = "registration"
    <2>1. Managed(o, i) = [i EXCEPT !.kind = o.kind, !.stored = o.stored,
                                    !.launch = o.launch, !.usage = o.usage]
      BY <1>2 DEF Managed
    <2> QED
      BY <1>2, <2>1 DEF Wide, Object
  <1>3. CASE o.kind \notin {"secret", "registration"}
    BY <1>3 DEF Managed
  <1> QED
    BY <1>1, <1>2, <1>3

LEMMA ManagedIsClean ==
    ASSUME NEW o \in Object, NEW i \in Wide, Clean(i)
    PROVE  Clean(Managed(o, i))
  BY ManagedShape DEF Clean

LEMMA OwnedShape ==
    ASSUME NEW u \in Users, NEW i \in Wide
    PROVE  /\ Owned(Resolved(u), i) \in Wide
           /\ Owned(Resolved(u), i).kind = i.kind
           /\ Owned(Resolved(u), i).personal /\ Category(i.kind) = "passwords"
                 => Owned(Resolved(u), i).owner # NoUser
  <1> DEFINE user == Resolved(u)
             personal == i.personal /\ (user.admin \/ i.kind # "connection")
             shared == [i EXCEPT !.personal = personal]
             mine == ~user.admin \/ i.owner = NoUser
                       \/ (shared.personal /\ Category(i.kind) = "passwords")
  <1>1. personal \in BOOLEAN
    OBVIOUS
  <1>2. u \in Users /\ user.id = u /\ u # NoUser
    BY ResolvedFields, PeopleAssumption
  <1>3. Owned(user, i) = [shared EXCEPT !.owner = IF mine THEN user.id ELSE shared.owner]
    BY DEF Owned
  <1> HIDE DEF user, personal
  <1>4. shared \in Wide /\ shared.kind = i.kind /\ shared.owner = i.owner
    BY <1>1 DEF Wide
  <1>5. shared.personal /\ Category(i.kind) = "passwords" => mine
    OBVIOUS
  <1> HIDE DEF shared, mine
  <1>6. CASE mine
    <2>1. Owned(user, i) = [shared EXCEPT !.owner = u]
      BY <1>2, <1>3, <1>6
    <2> QED
      BY <1>2, <1>4, <2>1 DEF user, Wide
  <1>7. CASE ~mine
    <2>1. Owned(user, i) = [shared EXCEPT !.owner = shared.owner]
      BY <1>3, <1>7
    <2>2. Owned(user, i) = shared
      BY <1>4, <2>1 DEF Wide
    <2> QED
      BY <1>4, <1>5, <1>7, <2>2 DEF user
  <1> QED
    BY <1>6, <1>7

\* What an edit starts from
LEMMA RestrictedShape ==
    ASSUME NEW o \in Object, NEW i
    PROVE  /\ Restricted(o, i) \in Wide
           /\ Restricted(o, i).kind = o.kind /\ Restricted(o, i).personal = o.personal
           /\ Restricted(o, i).owner = o.owner /\ Restricted(o, i).shared = o.shared
           /\ Restricted(o, i).usage = o.usage /\ Restricted(o, i).launch = o.launch
           /\ Restricted(o, i).stored = o.stored
  BY DEF Restricted, Object, Wide

LEMMA EditedShape ==
    ASSUME NEW u \in Users, NEW o \in Object, NEW i \in Wide,
           o.personal => o.owner # NoUser
    PROVE  LET made == Edited(Resolved(u), o, i) IN
           /\ made \in Wide /\ Clean(made)
           /\ made.personal => made.owner # NoUser
  <1> DEFINE user == Resolved(u)
  <1>1. CASE MetadataEditor(user, o)
    <2>1. Edited(user, o, i) = Managed(o, Normalize(Restricted(o, i)))
      BY <1>1 DEF Edited
    <2>2. ~o.personal
      BY <1>1 DEF MetadataEditor
    <2> QED
      BY <2>1, <2>2, RestrictedShape, NormalizeShape, ManagedShape, ManagedIsClean
  <1>2. CASE ~MetadataEditor(user, o)
    <2> DEFINE owner == OwnerAfter(user, o, i)
               given == [i EXCEPT !.owner = owner]
    <2>0. user.id = u /\ u # NoUser
      BY ResolvedFields, PeopleAssumption
    <2>1. owner \in Users \cup {NoUser} /\ (i.personal => owner # NoUser)
      <3>1. CASE o.personal /\ i.personal
        BY <3>1 DEF OwnerAfter, Object
      <3>2. CASE ~o.personal /\ i.personal
        BY <2>0, <3>2 DEF OwnerAfter
      <3>3. CASE ~i.personal
        BY <3>3 DEF OwnerAfter, Object, Wide
      <3> QED
        BY <3>1, <3>2, <3>3
    <2>2. Edited(user, o, i) = Managed(o, Normalize(given))
      BY <1>2 DEF Edited
    <2> HIDE DEF owner, user
    <2>3. given \in Wide /\ given.owner = owner /\ given.personal = i.personal
      BY <2>1 DEF Wide
    <2> HIDE DEF given
    <2>4. /\ Normalize(given) \in Wide /\ Clean(Normalize(given))
          /\ Normalize(given).personal = i.personal /\ Normalize(given).owner = owner
      BY <2>3, NormalizeShape
    <2>5. /\ Managed(o, Normalize(given)) \in Wide /\ Clean(Managed(o, Normalize(given)))
          /\ Managed(o, Normalize(given)).personal = i.personal
          /\ Managed(o, Normalize(given)).owner = owner
      BY <2>4, ManagedShape, ManagedIsClean
    <2> QED
      BY <2>1, <2>2, <2>5 DEF user
  <1> QED
    BY <1>1, <1>2

----------------------------------------------------------------------------
(* The invariant *)

Stored == obj # NoObject => Clean(obj)

Kept == TypeOK /\ Stored

\* A row that is valid, clean and, if personal, owned, is as it should be.
LEMMA StoresWell ==
    ASSUME TypeOK, NEW made \in Wide, Clean(made), Valid(made),
           made.personal => made.owner # NoUser,
           obj' = Row(made), UNCHANGED <<group, account, granted>>
    PROVE  Kept'
  <1>1. /\ obj' \in Object /\ obj' # NoObject
        /\ obj'.personal => Category(obj'.kind) = "passwords" /\ obj'.owner # NoUser
    BY RowShape DEF Valid
  <1>2. Clean(obj')
    BY RowShape DEF Clean
  <1> QED
    BY <1>1, <1>2 DEF Kept, Stored, TypeOK

LEMMA InitKept == Init => Kept
  <1> SUFFICES ASSUME Init PROVE Kept
    OBVIOUS
  <1>1. group \in [Groups -> {NoGroup} \cup Group]
    BY DEF Init
  <1>2. account \in [Users -> Account]
    <2>1. PICK admins \in SUBSET (Users \ Foreign) :
             account = [u \in Users |-> [admin |-> u \in admins, external |-> {}, rights |-> {}]]
      BY DEF Init
    <2>2. \A u \in Users : (u \in admins) \in BOOLEAN
      OBVIOUS
    <2>3. \A u \in Users : [admin |-> u \in admins, external |-> {}, rights |-> {}] \in Account
      BY <2>2 DEF Account
    <2> QED
      BY <2>1, <2>3
  <1>3. granted \in [Externals -> SUBSET Rights]
    BY RightsAssumption DEF Init
  <1>4. ASSUME obj \in HalfAllowed
        PROVE  obj \in Object /\ ~obj.personal /\ obj.kind \in Manual /\ ~obj.launch /\ obj.stored
    <2>1. /\ obj = [kind |-> obj.kind, personal |-> obj.personal, owner |-> obj.owner,
                    shared |-> obj.shared, usage |-> obj.usage, launch |-> obj.launch,
                    stored |-> obj.stored, archived |-> obj.archived]
          /\ obj.kind \in Manual /\ obj.owner \in Users /\ obj.shared = Nobody
          /\ obj.usage = {"copy"}
          /\ obj.personal = FALSE /\ obj.launch = FALSE /\ obj.stored = TRUE
          /\ obj.archived = FALSE
      BY <1>4 DEF HalfAllowed
    <2>2. Nobody \in Sharing /\ {"copy"} \in SUBSET Usage
      BY DEF Nobody, Sharing, Usage
    <2>3. obj \in Object
      BY <2>1, <2>2 DEF Object, Kinds
    <2> QED
      BY <2>1, <2>3
  <1>5. obj = NoObject \/ obj \in HalfAllowed
    BY DEF Init
  <1> QED
    BY <1>1, <1>2, <1>3, <1>4, <1>5 DEF Kept, TypeOK, Stored, Clean

LEMMA KeptStep ==
    ASSUME Kept, [Next]_vars
    PROVE  Kept'
  <1>0. TypeOK
    BY DEF Kept
  <1>1. ASSUME NEW u \in Users, NEW input \in Inputs, Create(u, input)
        PROVE  Kept'
    <2> DEFINE owned == Owned(Resolved(u), input)
    <2>1. input \in Wide
      BY InputIsWide
    <2>2. /\ owned \in Wide /\ owned.kind = input.kind
          /\ owned.personal /\ Category(input.kind) = "passwords" => owned.owner # NoUser
      BY <2>1, OwnedShape
    <2>3. Valid(Normalize(owned)) /\ obj' = Row(Normalize(owned)) /\ UNCHANGED <<group, account, granted>>
      BY <1>1 DEF Create
    <2> HIDE DEF owned
    <2>4. /\ Normalize(owned) \in Wide /\ Clean(Normalize(owned))
          /\ Normalize(owned).personal = owned.personal /\ Normalize(owned).owner = owned.owner
          /\ Normalize(owned).kind = owned.kind
      BY <2>2, NormalizeShape
    <2>5. Normalize(owned).personal => Normalize(owned).owner # NoUser
      BY <2>2, <2>3, <2>4 DEF Valid
    <2> QED
      BY <1>0, <2>3, <2>4, <2>5, StoresWell
  <1>2. ASSUME NEW u \in Users, NEW input \in Inputs, Update(u, input)
        PROVE  Kept'
    <2> DEFINE made == Edited(Resolved(u), obj, input)
    <2>1. obj \in Object /\ (obj.personal => obj.owner # NoUser)
      BY <1>0, <1>2 DEF Update, MayEdit, Live, TypeOK
    <2>2. made \in Wide /\ Clean(made) /\ (made.personal => made.owner # NoUser)
      BY <2>1, InputIsWide, EditedShape
    <2>3. Valid(made) /\ obj' = Row(made) /\ UNCHANGED <<group, account, granted>>
      BY <1>2 DEF Update, MayEdit
    <2> HIDE DEF made
    <2> QED
      BY <1>0, <2>2, <2>3, StoresWell
  <1>3. ASSUME NEW u \in Users, Archive(u)
        PROVE  Kept'
    <2>1. CASE obj' = NoObject
      BY <1>0, <1>3, <2>1 DEF Archive, Kept, TypeOK, Stored
    <2>2. CASE obj' = [obj EXCEPT !.archived = TRUE]
      <3>1. obj \in Object
        BY <1>0, <1>3 DEF Archive, Live, TypeOK
      <3>2. obj' \in Object
        BY <2>2, <3>1 DEF Object
      <3>3. /\ obj'.kind = obj.kind /\ obj'.personal = obj.personal /\ obj'.owner = obj.owner
            /\ obj'.shared = obj.shared /\ obj'.usage = obj.usage /\ obj'.launch = obj.launch
            /\ obj'.stored = obj.stored
        BY <2>2, <3>1 DEF Object
      <3>4. Clean(obj) /\ (obj.personal => Category(obj.kind) = "passwords" /\ obj.owner # NoUser)
        BY <1>3, <1>0 DEF Archive, Live, Kept, Stored, TypeOK
      <3>5. Clean(obj')
        BY <3>3, <3>4 DEF Clean
      <3> QED
        BY <1>0, <1>3, <3>2, <3>3, <3>4, <3>5 DEF Archive, Kept, TypeOK, Stored
    <2> QED
      BY <1>3, <2>1, <2>2 DEF Archive
  <1>4. ASSUME NEW u \in Users, Restore(u)
        PROVE  Kept'
    <2>1. obj \in Object /\ obj' = [obj EXCEPT !.archived = FALSE]
      BY <1>0, <1>4 DEF Restore, TypeOK
    <2>2. obj' \in Object
      BY <2>1 DEF Object
    <2>3. /\ obj'.kind = obj.kind /\ obj'.personal = obj.personal /\ obj'.owner = obj.owner
          /\ obj'.shared = obj.shared /\ obj'.usage = obj.usage /\ obj'.launch = obj.launch
          /\ obj'.stored = obj.stored
      BY <2>1 DEF Object
    <2>4. Clean(obj) /\ (obj.personal => Category(obj.kind) = "passwords" /\ obj.owner # NoUser)
      BY <1>4, <1>0 DEF Restore, Kept, Stored, TypeOK
    <2>5. Clean(obj')
      BY <2>3, <2>4 DEF Clean
    <2> QED
      BY <1>0, <1>4, <2>2, <2>3, <2>4, <2>5 DEF Restore, Kept, TypeOK, Stored
  <1>5. ASSUME NEW kind \in Kinds \ Manual, NEW shared \in {input.shared : input \in Inputs},
               NEW owner \in Users \cup {NoUser}, Import(kind, shared, owner)
        PROVE  Kept'
    <2>1. shared \in Sharing
      BY InputIsWide DEF Wide
    <2>2. /\ obj' = [kind |-> kind, personal |-> FALSE, owner |-> owner, shared |-> shared,
                     usage |-> IF kind = "secret" THEN Usage ELSE {}, launch |-> FALSE,
                     stored |-> TRUE, archived |-> FALSE]
          /\ UNCHANGED <<group, account, granted>>
      BY <1>5 DEF Import
    <2>3. /\ obj' \in Object /\ ~obj'.personal /\ ~obj'.launch /\ obj'.stored
      BY <2>1, <2>2 DEF Object
    <2> QED
      BY <1>0, <2>2, <2>3 DEF Kept, TypeOK, Stored, Clean
  <1>6. ASSUME NEW u \in Users, NEW rights \in OwnRights, SaveRights(u, rights)
        PROVE  Kept'
    <2>1. rights \in SUBSET Rights
      BY RightsAssumption
    <2>2. account[u] \in Account
      BY <1>0 DEF TypeOK
    <2>3. [account[u] EXCEPT !.rights = rights] \in Account
      BY <2>1, <2>2 DEF Account
    <2>4. account' = [account EXCEPT ![u] = [account[u] EXCEPT !.rights = rights]]
      BY <1>6 DEF SaveRights
    <2>5. account' \in [Users -> Account]
      BY <1>0, <2>3, <2>4 DEF TypeOK
    <2> QED
      BY <1>6, <2>5 DEF SaveRights, Kept, TypeOK, Stored
  <1>7. ASSUME NEW u \in Foreign, NEW external \in {{}} \cup {{x} : x \in Externals},
               SignIn(u, external)
        PROVE  Kept'
    <2>1. external \in SUBSET Externals /\ u \in Users
      BY PeopleAssumption
    <2>2. account[u] \in Account
      BY <1>0, <2>1 DEF TypeOK
    <2>3. [account[u] EXCEPT !.external = external] \in Account
      BY <2>1, <2>2 DEF Account
    <2>4. account' = [account EXCEPT ![u] = [account[u] EXCEPT !.external = external]]
      BY <1>7 DEF SignIn
    <2>5. account' \in [Users -> Account]
      BY <1>0, <2>3, <2>4 DEF TypeOK
    <2> QED
      BY <1>7, <2>5 DEF SignIn, Kept, TypeOK, Stored
  <1>8. ASSUME NEW g \in Groups, NEW def \in Definitions, SaveGroup(g, def)
        PROVE  Kept'
    BY <1>8, RightsAssumption DEF SaveGroup, Kept, TypeOK, Stored
  <1>9. CASE UNCHANGED vars
    BY <1>9 DEF vars, Kept, TypeOK, Stored
  <1> QED
    BY <1>1, <1>2, <1>3, <1>4, <1>5, <1>6, <1>7, <1>8, <1>9 DEF Next

LEMMA KeptAlways == Spec => []Kept
  BY InitKept, KeptStep, PTL DEF Spec

----------------------------------------------------------------------------
(* Gaining rights *)

\* What one user may see or have revealed, so may another of at least the same
\* groups and rights, and an administrator if the first is one.
LEMMA MoreMaySeeMore ==
    ASSUME NEW user, NEW more, NEW o, o.kind \in Kinds,
           more.id = user.id, user.groups \subseteq more.groups,
           user.rights \subseteq more.rights, user.admin => more.admin
    PROVE  /\ Get(user, o) = "ok" => Get(more, o) = "ok"
           /\ Reveal(user, o) = "ok" => Reveal(more, o) = "ok"
  <1>1. CanAccess(user, o) => CanAccess(more, o)
    BY DEF CanAccess, IsOwner
  <1>2. OwnerOrAdmin(user, o) => OwnerOrAdmin(more, o)
    BY DEF OwnerOrAdmin, IsOwner
  <1>3. Can(user, "view", o) => Can(more, "view", o)
    <2>1. CASE more.admin
      BY <2>1 DEF Can, Capabilities, AdminCapabilities
    <2>2. CASE ~more.admin
      BY <2>2 DEF Can, Capabilities
    <2> QED
      BY <2>1, <2>2
  <1>4. Can(user, "reveal", o) => Can(more, "reveal", o)
    <2>1. Can(user, "reveal", o) => Can(user, "view", o) /\ Category(o.kind) # "appregistrations"
      BY CategoryOfKind, CapabilityRules DEF Can
    <2>2. Category(o.kind) # "appregistrations" /\ Can(more, "view", o) => Can(more, "reveal", o)
      BY CategoryOfKind, CapabilityRules DEF Can
    <2> QED
      BY <1>3, <2>1, <2>2
  <1>5. MayReveal(user, o) => MayReveal(more, o)
    BY <1>1, <1>2, <1>4 DEF MayReveal
  <1>6. Reveal(user, o) = "ok" =>
           Live(o) /\ ~(o.kind = "portal" /\ ~o.stored) /\ MayReveal(user, o)
    BY DEF Reveal, Answer, Refusal
  <1>7. Live(o) /\ ~(o.kind = "portal" /\ ~o.stored) /\ MayReveal(more, o) => Reveal(more, o) = "ok"
    BY DEF Reveal, Answer
  <1>8. Get(user, o) = "ok" => Get(more, o) = "ok"
    BY <1>1, <1>3 DEF Get, Answer, Refusal, CanView
  <1> QED
    BY <1>5, <1>6, <1>7, <1>8

\* A group that is extended keeps its members and gives what it gave.
LEMMA ExtendingKeeps ==
    ASSUME \A g \in Groups : group[g] # group'[g] => Extends(group'[g], group[g]),
           \A g \in Groups : group'[g] = NoGroup => group[g] = NoGroup,
           UNCHANGED <<account, granted>>, NEW u
    PROVE  /\ LocalGroups(u) \subseteq LocalGroups(u)'
           /\ ResolvedRights(u) \subseteq ResolvedRights(u)'
  <1>1. ASSUME NEW g \in Groups, group[g] # NoGroup
        PROVE  /\ group'[g] # NoGroup
               /\ group[g].rights \subseteq group'[g].rights
               /\ group[g].mapped \subseteq group'[g].mapped
               /\ group[g].assigned \subseteq group'[g].assigned
    BY <1>1 DEF Extends
  <1>2. LocalGroups(u) \subseteq LocalGroups(u)'
    BY <1>1, Membership DEF LocalGroups, In
  <1>3. \A g \in LocalGroups(u) : group[g].rights \subseteq group'[g].rights
    BY <1>1, Membership DEF LocalGroups, In
  <1>4. UNION {group[g].rights : g \in LocalGroups(u)}
            \subseteq UNION {group'[g].rights : g \in LocalGroups(u)'}
    BY <1>2, <1>3
  <1> QED
    BY <1>2, <1>4 DEF ResolvedRights

----------------------------------------------------------------------------
(* The theorems *)

\* Every reachable state is well typed: in particular only passwords are personal,
\* and a personal one has an owner (validateInput, enforcePersonalPasswordOwnership).
THEOREM AccessTypes == Spec => []TypeOK
  <1>1. Kept => TypeOK
    BY DEF Kept
  <1> QED
    BY <1>1, KeptAlways, PTL

\* Nobody but its owner comes by a personal object, or learns that there is one
\* by asking for it, and it has no sharing lists (CanAccess, accessDenied,
\* normalizeInput): for any administrators, groups and rights.
THEOREM PersonalIsPrivate == Spec => []PersonalStaysPersonal
  <1>1. ASSUME obj # NoObject, obj.personal, NEW u \in Users \ {obj.owner}
        PROVE  ~IsOwner(Resolved(u), obj)
    BY <1>1, ResolvedFields DEF IsOwner
  <1>2. PersonalIsTheOwners
    BY <1>1, PersonalRules DEF PersonalIsTheOwners
  <1>3. PersonalLooksGone
    BY <1>1, PersonalRules DEF PersonalLooksGone
  <1>4. Kept => PersonalHasNoLists
    BY DEF Kept, Stored, Clean, PersonalHasNoLists
  <1>5. Kept => PersonalStaysPersonal
    BY <1>2, <1>3, <1>4 DEF PersonalStaysPersonal
  <1> QED
    BY <1>5, KeptAlways, PTL

\* The six ways to come by an object decide alike (CanAccess,
\* visibilityScopeForResource, canRevealStoredPassword, canFillPasswordResource,
\* resolveMention): for any user and any object.
THEOREM OneRule == Spec => []DecisionsAgree
  <1>1. ListsHaveWhatOpens
    BY ListedIsGet DEF ListsHaveWhatOpens
  <1>2. MentionsFollowTheReader
    BY MentionRules DEF MentionsFollowTheReader
  <1>3. Kept => SecretsFollowTheObject
    <2>1. CASE obj = NoObject
      BY <2>1 DEF SecretsFollowTheObject, Reveal, Fill, Launch, PortalMatches, Listed, Live, Answer
    <2>2. CASE obj # NoObject
      <3>1. Kept => obj.kind \in Kinds
        BY <2>2 DEF Kept, TypeOK, Object
      <3> QED
        BY <3>1, SecretRules DEF SecretsFollowTheObject
    <2> QED
      BY <2>1, <2>2
  <1>4. Kept => DecisionsAgree
    BY <1>1, <1>2, <1>3 DEF DecisionsAgree
  <1> QED
    BY <1>4, KeptAlways, PTL

\* An edit by someone who may only edit what is shared leaves who may see, use and
\* launch the object as it was (restrictToSharedMetadata): also where normalizing
\* and the fields of imported records would change it.
THEOREM EditorsKeepTheTerms == Spec => []EditorsLeaveTheTerms
  <1>1. ASSUME Kept, NEW u \in Users, Live(obj), MetadataEditor(Resolved(u), obj),
               NEW input \in Inputs
        PROVE  Terms(Row(Edited(Resolved(u), obj, input))) = Terms(obj)
    <2> DEFINE given == Restricted(obj, input)
               normal == Normalize(given)
               made == Managed(obj, normal)
    <2>1. obj \in Object /\ Clean(obj) /\ ~obj.personal
      BY <1>1 DEF Kept, TypeOK, Stored, Live, MetadataEditor
    <2>2. Edited(Resolved(u), obj, input) = made
      BY <1>1 DEF Edited
    <2>3. /\ given \in Wide
          /\ given.kind = obj.kind /\ given.personal = obj.personal
          /\ given.owner = obj.owner /\ given.shared = obj.shared
          /\ given.usage = obj.usage /\ given.launch = obj.launch
          /\ given.stored = obj.stored
      BY <2>1, RestrictedShape
    <2> HIDE DEF given
    <2>4. /\ normal \in Wide /\ Clean(normal)
          /\ normal.kind = obj.kind /\ normal.personal = obj.personal
          /\ normal.owner = obj.owner /\ normal.shared = obj.shared
          /\ obj.kind # "saved" => normal.launch = obj.launch
          /\ normal.usage = {} <=> obj.usage = {}
      BY <2>1, <2>3, NormalizeShape DEF Clean
    <2>5. normal.launch = obj.launch
      <3>1. CASE obj.kind = "saved"
        <4>1. ~normal.launch /\ ~obj.launch
          BY <2>1, <2>4, <3>1 DEF Clean
        <4>2. normal.launch \in BOOLEAN /\ obj.launch \in BOOLEAN
          BY <2>1, <2>4 DEF Wide, Object
        <4> QED
          BY <4>1, <4>2
      <3> QED
        BY <2>4, <3>1
    <2> HIDE DEF normal
    <2>6. /\ made \in Wide
          /\ made.kind = obj.kind /\ made.personal = obj.personal
          /\ made.owner = obj.owner /\ made.shared = obj.shared
          /\ made.launch = obj.launch
          /\ made.usage = {} <=> obj.usage = {}
      BY <2>1, <2>4, <2>5, ManagedShape
    <2> HIDE DEF made
    <2>7. /\ Row(made).kind = obj.kind /\ Row(made).personal = obj.personal
          /\ Row(made).owner = obj.owner /\ Row(made).shared = obj.shared
          /\ Row(made).launch = obj.launch
          /\ Row(made).usage = {} <=> obj.usage = {}
      BY <2>6, RowShape
    <2> QED
      BY <2>2, <2>7 DEF Terms, UsageAllowed
  <1>2. Kept => EditorsLeaveTheTerms
    BY <1>1 DEF EditorsLeaveTheTerms
  <1> QED
    BY <1>2, KeptAlways, PTL

\* Saving a group with more rights, mappings or members takes neither the sight of
\* an object nor its secret from anybody (resolveAuthorizationFromInputs,
\* CapabilitiesForUser): the table of an administrator has all that matters.
THEOREM GainingTakesNothing == Spec => MoreRightsTakeNothing
  <1> DEFINE Grows == group' # group /\ \A g \in Groups : group[g] # group'[g] => Extends(group'[g], group[g])
             Sees == \A u \in Users :
                 /\ Get(Resolved(u), obj) = "ok" => (Get(Resolved(u), obj))' = "ok"
                 /\ Reveal(Resolved(u), obj) = "ok" => (Reveal(Resolved(u), obj))' = "ok"
  <1>1. ASSUME Kept, Next, Grows
        PROVE  Sees
    <2>1. PICK g \in Groups, def \in Definitions : SaveGroup(g, def)
      BY <1>1 DEF Next, Create, Update, Archive, Restore, SaveRights, SignIn, Import
    <2>2. UNCHANGED <<account, granted, obj>> /\ group' = [group EXCEPT ![g] = def]
      BY <2>1 DEF SaveGroup
    <2>3. \A h \in Groups : group'[h] = NoGroup => group[h] = NoGroup
      BY <1>1, <2>2, RightsAssumption, NonesAssumption DEF Kept, TypeOK
    <2> SUFFICES ASSUME NEW u \in Users
                 PROVE  /\ Get(Resolved(u), obj) = "ok" => (Get(Resolved(u), obj))' = "ok"
                        /\ Reveal(Resolved(u), obj) = "ok" => (Reveal(Resolved(u), obj))' = "ok"
      OBVIOUS
    <2> DEFINE user == Resolved(u)
               more == (Resolved(u))'
    <2>4. /\ LocalGroups(u) \subseteq LocalGroups(u)'
          /\ ResolvedRights(u) \subseteq ResolvedRights(u)'
      BY <1>1, <2>2, <2>3, ExtendingKeeps
    <2>5. /\ more.id = user.id /\ user.groups \subseteq more.groups
          /\ user.rights \subseteq more.rights /\ (user.admin => more.admin)
      BY <2>2, <2>4, ResolvedFields
    <2> HIDE DEF user, more
    <2>6. CASE obj = NoObject
      BY <2>6 DEF Get, Reveal, Answer, Live
    <2>7. CASE obj # NoObject
      <3>1. obj.kind \in Kinds
        BY <1>1, <2>7 DEF Kept, TypeOK, Object
      <3>2. /\ Get(user, obj) = "ok" => Get(more, obj) = "ok"
            /\ Reveal(user, obj) = "ok" => Reveal(more, obj) = "ok"
        BY <2>5, <3>1, MoreMaySeeMore
      <3> QED
        BY <2>2, <3>2 DEF user, more
    <2> QED
      BY <2>6, <2>7
  <1>2. Kept /\ [Next]_vars => [Grows => Sees]_vars
    BY <1>1
  <1> QED
    BY <1>2, KeptAlways, PTL DEF Spec, MoreRightsTakeNothing

----------------------------------------------------------------------------
(* Launches: a ticket is redeemed once, what a launch puts on the desktop   *)
(* is owed by somebody, and a client finds there what its launch wrote.     *)

USE DEF backend, desktop

(* Types *)

Bare == {"resolved", "filed", "session"}

LEMMA SlotFields ==
    ASSUME NEW s \in Slot
    PROVE  /\ s.pc = "idle" => s = Idle
           /\ s.pc = "handed" => s \in [pc : {"handed"}, way : Ways, ticket : Tickets]
           /\ s.pc \in Bare => s \in [pc : Bare, way : Ways, payload : Payload]
           /\ s.pc \in Working => s \in [pc : Working, way : Ways, payload : Payload,
                                         sign : BOOLEAN, alone : BOOLEAN]
           /\ s.pc = "open" => s \in [pc : {"open"}, way : Ways]
           /\ s.pc \in {"idle", "handed", "open"} \cup Bare \cup Working
  <1>1. CASE s = Idle
    BY <1>1 DEF Idle, Bare, Working
  <1>2. CASE s \in [pc : {"handed"}, way : Ways, ticket : Tickets]
    BY <1>2 DEF Bare, Working
  <1>3. CASE s \in [pc : Bare, way : Ways, payload : Payload]
    BY <1>3 DEF Bare, Working
  <1>4. CASE s \in [pc : Working, way : Ways, payload : Payload, sign : BOOLEAN, alone : BOOLEAN]
    BY <1>4 DEF Bare, Working
  <1>5. CASE s \in [pc : {"open"}, way : Ways]
    BY <1>5 DEF Bare, Working
  <1> QED
    BY <1>1, <1>2, <1>3, <1>4, <1>5 DEF Slot, Bare

LEMMA NewSlot ==
    /\ Idle \in Slot
    /\ \A way \in Ways, t \in Tickets : [pc |-> "handed", way |-> way, ticket |-> t] \in Slot
    /\ \A way \in Ways, p \in Payload, pc \in Bare :
          [pc |-> pc, way |-> way, payload |-> p] \in Slot
    /\ \A way \in Ways, p \in Payload, pc \in Working, sign \in BOOLEAN, alone \in BOOLEAN :
          [pc |-> pc, way |-> way, payload |-> p, sign |-> sign, alone |-> alone] \in Slot
    /\ \A way \in Ways : [pc |-> "open", way |-> way] \in Slot
  <1>1. Idle \in Slot
    BY DEF Slot
  <1>2. \A way \in Ways, t \in Tickets : [pc |-> "handed", way |-> way, ticket |-> t] \in Slot
    BY DEF Slot
  <1>3. \A way \in Ways, p \in Payload, pc \in Bare :
          [pc |-> pc, way |-> way, payload |-> p] \in Slot
    BY DEF Slot, Bare
  <1>4. \A way \in Ways, p \in Payload, pc \in Working, sign \in BOOLEAN, alone \in BOOLEAN :
          [pc |-> pc, way |-> way, payload |-> p, sign |-> sign, alone |-> alone] \in Slot
    BY DEF Slot
  <1>5. \A way \in Ways : [pc |-> "open", way |-> way] \in Slot
    BY DEF Slot
  <1> QED
    BY <1>1, <1>2, <1>3, <1>4, <1>5

LEMMA PayloadFields ==
    ASSUME NEW p \in Payload
    PROVE  /\ p.connection \in Connections /\ p.login \in Logins /\ p.secret \in BOOLEAN
           /\ p.thumbprint \in Certs \cup {None} /\ p.thumbprint \in Nat
  BY BoundsAssumption DEF Payload, Certs, None

LEMMA SlotTypes ==
    ASSUME LaunchTypeOK, NEW l \in Launches
    PROVE  /\ launch[l] \in Slot
           /\ launch[l].pc = "handed" => launch[l].way \in Ways /\ launch[l].ticket \in Tickets
           /\ launch[l].pc \in Bare \cup Working =>
                 launch[l].way \in Ways /\ launch[l].payload \in Payload
           /\ Works(l) => launch[l].sign \in BOOLEAN /\ launch[l].alone \in BOOLEAN
  <1>1. launch[l] \in Slot
    BY DEF LaunchTypeOK
  <1> QED
    BY <1>1, SlotFields DEF Works, Bare, Working

LEMMA BecomeFields ==
    ASSUME LaunchTypeOK, NEW l \in Launches, NEW next, Become(l, next)
    PROVE  /\ next \in Slot => launch' \in [Launches -> Slot]
           /\ launch'[l] = next
           /\ \A m \in Launches \ {l} : launch'[m] = launch[m]
  BY DEF Become, LaunchTypeOK

\* A launch at work that is not alone any more.
LEMMA DisturbedFields ==
    ASSUME LaunchTypeOK, NEW m \in Launches, Works(m)
    PROVE  LET d == [launch[m] EXCEPT !.alone = FALSE]
           IN  /\ d \in Slot /\ d.pc = launch[m].pc /\ d.payload = launch[m].payload
               /\ d.alone = FALSE
  <1> DEFINE s == launch[m]
             d == [s EXCEPT !.alone = FALSE]
  <1>1. s \in [pc : Working, way : Ways, payload : Payload, sign : BOOLEAN, alone : BOOLEAN]
    BY SlotTypes, SlotFields DEF Works
  <1>2. /\ d \in [pc : Working, way : Ways, payload : Payload, sign : BOOLEAN, alone : BOOLEAN]
        /\ d.pc = s.pc /\ d.payload = s.payload /\ d.alone = FALSE
    BY <1>1
  <1>3. d \in Slot
    BY <1>2 DEF Slot
  <1> QED
    BY <1>2, <1>3

\* What a step of launch l leaves of another: all of it, or it is not alone any more.
Leaves(l, m) ==
    \/ launch'[m] = launch[m]
    \/ /\ Works(m) /\ launch'[m].alone = FALSE
       /\ launch'[m].pc = launch[m].pc /\ launch'[m].payload = launch[m].payload

LEMMA DisturbingFields ==
    ASSUME LaunchTypeOK, NEW l \in Launches, NEW next, Disturbing(l, next)
    PROVE  /\ next \in Slot => launch' \in [Launches -> Slot]
           /\ launch'[l] = next
           /\ \A m \in Launches \ {l} : Leaves(l, m) /\ (Works(m) => launch'[m].alone = FALSE)
  <1>1. launch'[l] = next
    BY DEF Disturbing
  <1>2. ASSUME NEW m \in Launches \ {l}
        PROVE  /\ launch'[m] \in Slot
               /\ Leaves(l, m) /\ (Works(m) => launch'[m].alone = FALSE)
    <2>1. CASE Works(m)
      <3>1. launch'[m] = [launch[m] EXCEPT !.alone = FALSE]
        BY <1>2, <2>1 DEF Disturbing
      <3> QED
        BY <2>1, <3>1, DisturbedFields DEF Leaves
    <2>2. CASE ~Works(m)
      <3>1. launch'[m] = launch[m]
        BY <1>2, <2>2 DEF Disturbing
      <3> QED
        BY <2>2, <3>1, SlotTypes DEF Leaves
    <2> QED
      BY <2>1, <2>2
  <1>3. launch' = [m \in Launches |-> launch'[m]]
    BY DEF Disturbing
  <1> QED
    BY <1>1, <1>2, <1>3

\* A launch that moves on keeps what it carries.
LEMMA MovedFields ==
    ASSUME LaunchTypeOK, NEW l \in Launches, NEW pc, Moved(l, pc),
           \/ launch[l].pc \in Bare /\ pc \in Bare
           \/ launch[l].pc \in Working /\ pc \in Working
    PROVE  /\ launch' \in [Launches -> Slot]
           /\ launch'[l].pc = pc /\ launch'[l].payload = launch[l].payload
           /\ Works(l) => launch'[l].sign = launch[l].sign /\ launch'[l].alone = launch[l].alone
           /\ \A m \in Launches \ {l} : launch'[m] = launch[m]
  <1> DEFINE s == launch[l]
             n == [s EXCEPT !.pc = pc]
  <1>1. s \in Slot
    BY SlotTypes
  <1>2. Become(l, n)
    BY DEF Moved
  <1>3. CASE s.pc \in Bare /\ pc \in Bare
    <2>1. s \in [pc : Bare, way : Ways, payload : Payload]
      BY <1>1, <1>3, SlotFields
    <2>2. n = [pc |-> pc, way |-> s.way, payload |-> s.payload]
      BY <2>1
    <2>3. s.way \in Ways /\ s.payload \in Payload
      BY <2>1
    <2>4. [pc |-> pc, way |-> s.way, payload |-> s.payload] \in Slot
      BY <1>3, <2>3, NewSlot
    <2>5. n \in Slot /\ n.pc = pc /\ n.payload = s.payload
      BY <2>2, <2>4
    <2>6. ~Works(l)
      BY <1>3 DEF Works, Bare, Working
    <2> HIDE DEF n
    <2> QED
      BY <1>2, <2>5, <2>6, BecomeFields
  <1>4. CASE s.pc \in Working /\ pc \in Working
    <2>1. s \in [pc : Working, way : Ways, payload : Payload, sign : BOOLEAN, alone : BOOLEAN]
      BY <1>1, <1>4, SlotFields
    <2>2. n \in [pc : Working, way : Ways, payload : Payload, sign : BOOLEAN, alone : BOOLEAN]
      BY <1>4, <2>1
    <2>3. n \in Slot
      BY <2>2 DEF Slot
    <2>4. n.pc = pc /\ n.payload = s.payload /\ n.sign = s.sign /\ n.alone = s.alone
      BY <2>1
    <2> HIDE DEF n
    <2> QED
      BY <1>2, <2>3, <2>4, BecomeFields
  <1> QED
    BY <1>3, <1>4

LEMMA MarkedFields ==
    ASSUME LaunchTypeOK, NEW l \in Launches, NEW sign \in BOOLEAN, Works(l),
           Become(l, [launch[l] EXCEPT !.pc = "signing", !.sign = sign])
    PROVE  /\ launch' \in [Launches -> Slot]
           /\ launch'[l].pc = "signing" /\ launch'[l].payload = launch[l].payload
           /\ launch'[l].sign = sign /\ launch'[l].alone = launch[l].alone
           /\ \A m \in Launches \ {l} : launch'[m] = launch[m]
  <1> DEFINE s == launch[l]
             n == [s EXCEPT !.pc = "signing", !.sign = sign]
  <1>1. s \in [pc : Working, way : Ways, payload : Payload, sign : BOOLEAN, alone : BOOLEAN]
    BY SlotTypes, SlotFields DEF Works
  <1>2. n \in [pc : Working, way : Ways, payload : Payload, sign : BOOLEAN, alone : BOOLEAN]
    BY <1>1 DEF Working
  <1>3. n \in Slot
    BY <1>2 DEF Slot
  <1>4. n.pc = "signing" /\ n.payload = s.payload /\ n.sign = sign /\ n.alone = s.alone
    BY <1>1
  <1> HIDE DEF n
  <1> QED
    BY <1>3, <1>4, BecomeFields DEF n

LEMMA LaunchTypeInit == LaunchInit => LaunchTypeOK
  <1> SUFFICES ASSUME LaunchInit PROVE LaunchTypeOK
    OBVIOUS
  <1>1. launch \in [Launches -> Slot]
    BY NewSlot DEF LaunchInit
  <1>2. tickets \in [Tickets -> Ticket] /\ override \in [Connections -> Overrides]
    BY DEF LaunchInit, Ticket, Overrides
  <1>3. NoProfile \in [login : Logins \cup {NoLogin}, signer : Certs \cup {None}]
    BY DEF NoProfile
  <1>4. profile \in [Rdp -> [login : Logins \cup {NoLogin}, signer : Certs \cup {None}]]
        /\ marker \in [Rdp -> Certs \cup {None}]
    BY <1>3 DEF LaunchInit
  <1> QED
    BY <1>1, <1>2, <1>4 DEF LaunchInit, LaunchTypeOK

\* The backend's stores are well typed, and so are the desktop's.
BackendTypes ==
    /\ certificate \in Certs \cup {None}
    /\ override \in [Connections -> Overrides]
    /\ tickets \in [Tickets -> Ticket]
    /\ served \subseteq Tickets

StoreTypes ==
    /\ stored \in Logins \cup {NoLogin}
    /\ files \subseteq Launches
    /\ profile \in [Rdp -> [login : Logins \cup {NoLogin}, signer : Certs \cup {None}]]
    /\ marker \in [Rdp -> Certs \cup {None}]
    /\ muddled \subseteq Connections
    /\ left \in BOOLEAN

LEMMA LaunchTypeParts == LaunchTypeOK <=> BackendTypes /\ launch \in [Launches -> Slot] /\ StoreTypes
  BY DEF LaunchTypeOK, BackendTypes, StoreTypes

\* What the launch page sends
LEMMA Issued ==
    ASSUME BackendTypes, NEW t \in Tickets, NEW c \in Connections, Issue(t, c)
    PROVE  /\ tickets' \in [Tickets -> Ticket]
           /\ tickets'[t].payload.login = Applied(c)
           /\ tickets[t] = Unissued
           /\ tickets'[t] \notin {Unissued, Late, Gone}
           /\ \A u \in Tickets \ {t} : \/ tickets'[u] = tickets[u]
                                       \/ tickets[u] = Late /\ tickets'[u] = Gone
  <1>1. PICK payload \in PayloadsFor(c) :
            tickets' = [Swept EXCEPT ![t] = [state |-> "live", payload |-> payload]]
    BY DEF Issue
  <1>a. Gone \in Ticket
    BY DEF Ticket
  <1>2. /\ Swept \in [Tickets -> Ticket]
        /\ \A u \in Tickets : Swept[u] = tickets[u] \/ (tickets[u] = Late /\ Swept[u] = Gone)
    BY <1>a DEF Swept, BackendTypes
  <1>3. payload \in Payload /\ payload.login = Applied(c)
    BY <1>1 DEF PayloadsFor, Payload, BackendTypes, Applied, Logins
  <1>4. [state |-> "live", payload |-> payload] \in Ticket
    BY <1>3 DEF Ticket
  <1>5. tickets'[t] = [state |-> "live", payload |-> payload]
        /\ \A u \in Tickets \ {t} : tickets'[u] = Swept[u]
    BY <1>1, <1>2
  <1>6. tickets'[t].state = "live"
    BY <1>5
  <1>7. Unissued.state # "live" /\ Late.state # "live" /\ Gone.state # "live"
    BY DEF Unissued, Late, Gone
  <1>8. tickets' \in [Tickets -> Ticket]
    BY <1>1, <1>2, <1>4
  <1>9. tickets'[t] \notin {Unissued, Late, Gone}
    BY <1>6, <1>7
  <1>10. tickets'[t].payload.login = Applied(c)
    BY <1>3, <1>5
  <1> QED
    BY <1>2, <1>5, <1>8, <1>9, <1>10 DEF Issue

LEMMA BackendStep ==
    ASSUME LaunchTypeOK, Backend
    PROVE  BackendTypes' /\ UNCHANGED desktop
  <1>0. BackendTypes
    BY LaunchTypeParts
  <1>1. ASSUME NEW c \in Connections, SetOverride(c) \/ ClearOverride(c) \/ ChangePassword(c)
        PROVE  BackendTypes' /\ UNCHANGED desktop
    BY <1>0, <1>1 DEF SetOverride, ClearOverride, ChangePassword, BackendTypes, Overrides,
                      Connections
  <1>2. ASSUME NEW t \in Tickets, Lapse(t)
        PROVE  BackendTypes' /\ UNCHANGED desktop
    BY <1>0, <1>2 DEF Lapse, BackendTypes, Ticket
  <1>3. ASSUME NEW t \in Tickets, NEW c \in Connections, Issue(t, c)
        PROVE  BackendTypes' /\ UNCHANGED desktop
    <2>1. tickets' \in [Tickets -> Ticket]
      BY <1>0, <1>3, Issued
    <2> QED
      BY <1>0, <1>3, <2>1 DEF Issue, BackendTypes
  <1>4. ASSUME RestartBackend
        PROVE  BackendTypes' /\ UNCHANGED desktop
    BY <1>0, <1>4 DEF RestartBackend, BackendTypes, Ticket
  <1>5. ASSUME NewCertificate
        PROVE  BackendTypes' /\ UNCHANGED desktop
    BY <1>0, <1>5, BoundsAssumption DEF NewCertificate, BackendTypes, Certs, None
  <1> QED
    BY <1>1, <1>2, <1>3, <1>4, <1>5, Zenon DEF Backend

LEMMA DesktopStep ==
    ASSUME LaunchTypeOK, Desktop
    PROVE  LaunchTypeOK'
  <1>0. BackendTypes /\ launch \in [Launches -> Slot] /\ StoreTypes
    BY LaunchTypeParts
  <1>b. ASSUME UNCHANGED backend, launch' \in [Launches -> Slot], StoreTypes' PROVE LaunchTypeOK'
    <2>1. BackendTypes'
      BY <1>0, <1>b DEF BackendTypes
    <2> QED
      BY <1>b, <2>1 DEF LaunchTypeOK, BackendTypes, StoreTypes
  <1>s. ASSUME UNCHANGED <<stored, files, profile, marker, muddled, left>> PROVE StoreTypes'
    BY <1>0, <1>s DEF StoreTypes
  <1>i. ASSUME NEW l \in Launches, Become(l, Idle) PROVE launch' \in [Launches -> Slot]
    BY <1>i, BecomeFields, NewSlot
  <1>1. ASSUME NEW l \in Launches, NEW t \in Tickets, NEW way \in Ways, Hand(l, t, way)
        PROVE  LaunchTypeOK'
    <2>1. launch' \in [Launches -> Slot]
      BY <1>1, BecomeFields, NewSlot DEF Hand
    <2> QED
      BY <1>1, <1>b, <1>s, <2>1 DEF Hand
  <1>2. ASSUME NEW l \in Launches, RefuseOutdated(l) PROVE LaunchTypeOK'
    BY <1>2, <1>b, <1>s, <1>i DEF RefuseOutdated
  <1>3. ASSUME NEW l \in Launches, Resolve(l) PROVE LaunchTypeOK'
    <2> DEFINE t == launch[l].ticket
    <2>1. t \in Tickets /\ launch[l].way \in Ways
      BY <1>3, SlotTypes DEF Resolve, At
    <2>2. tickets[t].state = "live" => tickets[t].payload \in Payload
      BY <1>0, <2>1 DEF BackendTypes, Ticket, Unissued, Late, Gone
    <2>3. launch' \in [Launches -> Slot]
      <3>1. \/ Become(l, Idle)
            \/ /\ tickets[t].state = "live"
               /\ Become(l, [pc |-> "resolved", way |-> launch[l].way,
                             payload |-> tickets[t].payload])
        BY <1>3 DEF Resolve
      <3>2. tickets[t].state = "live" =>
                [pc |-> "resolved", way |-> launch[l].way, payload |-> tickets[t].payload]
                    \in Slot
        BY <2>1, <2>2, NewSlot DEF Bare
      <3> QED
        BY <1>i, <3>1, <3>2, BecomeFields
    <2>4. tickets' \in [Tickets -> Ticket]
      BY <1>0, <1>3 DEF Resolve, BackendTypes, Ticket
    <2>5. served' \subseteq Tickets
      BY <1>0, <1>3, <2>1 DEF Resolve, BackendTypes
    <2>6. BackendTypes' /\ StoreTypes'
      BY <1>0, <1>3, <1>s, <2>4, <2>5 DEF Resolve, BackendTypes
    <2> QED
      BY <2>3, <2>6 DEF LaunchTypeOK, BackendTypes, StoreTypes
  <1>4. ASSUME NEW l \in Launches, StoreCredential(l) PROVE LaunchTypeOK'
    <2> DEFINE payload == launch[l].payload
               next == [pc |-> "stored", way |-> launch[l].way, payload |-> payload,
                        sign |-> FALSE, alone |-> ~OthersWork(l)]
    <2>1. payload \in Payload /\ payload.login \in Logins /\ launch[l].way \in Ways
      BY <1>4, SlotTypes, PayloadFields DEF StoreCredential, At, Bare
    <2>2. StoreTypes'
      BY <1>0, <1>4, <2>1 DEF StoreCredential, StoreTypes
    <2>3. (~OthersWork(l)) \in BOOLEAN
      BY DEF OthersWork
    <2>4. next \in Slot
      BY <2>1, <2>3, NewSlot DEF Working
    <2>5. Disturbing(l, next)
      BY <1>4 DEF StoreCredential
    <2> HIDE DEF next
    <2>6. launch' \in [Launches -> Slot]
      BY <2>4, <2>5, DisturbingFields
    <2> QED
      BY <1>4, <1>b, <2>2, <2>6 DEF StoreCredential
  <1>5. ASSUME NEW l \in Launches, WriteProfile(l) PROVE LaunchTypeOK'
    <2> DEFINE payload == launch[l].payload
               c == payload.connection
               signs == ~(profile[c].login = payload.login)
                        \/ profile[c].signer = None \/ SignerChanged(payload)
    <2>1. payload \in Payload /\ payload.login \in Logins /\ Works(l)
      BY <1>5, SlotTypes, PayloadFields DEF WriteProfile, At, Works, Working
    <2>2. signs \in BOOLEAN
      OBVIOUS
    <2>3. Become(l, [launch[l] EXCEPT !.pc = "signing", !.sign = signs])
      BY <1>5 DEF WriteProfile
    <2>a. [login |-> payload.login, signer |-> None]
              \in [login : Logins \cup {NoLogin}, signer : Certs \cup {None}]
      BY <2>1
    <2>b. \/ profile' = profile
          \/ profile' = [profile EXCEPT ![c] = [login |-> payload.login, signer |-> None]]
      BY <1>5 DEF WriteProfile
    <2>c. profile' \in [Rdp -> [login : Logins \cup {NoLogin}, signer : Certs \cup {None}]]
      BY <1>0, <2>a, <2>b DEF StoreTypes
    <2>d. muddled' \subseteq muddled
      BY <1>5 DEF WriteProfile
    <2>4. StoreTypes'
      BY <1>0, <1>5, <2>c, <2>d DEF WriteProfile, StoreTypes
    <2> HIDE DEF signs, payload
    <2>6. launch' \in [Launches -> Slot]
      BY <2>1, <2>2, <2>3, MarkedFields
    <2> QED
      BY <1>5, <1>b, <2>4, <2>6 DEF WriteProfile
  <1>6. ASSUME NEW l \in Launches, Sign(l) PROVE LaunchTypeOK'
    <2> DEFINE payload == launch[l].payload
    <2>1. payload.thumbprint \in Certs \cup {None} /\ launch[l].pc \in Working
      BY <1>6, SlotTypes, PayloadFields DEF Sign, At, Working
    <2>2. /\ profile' = [profile EXCEPT ![payload.connection].signer = payload.thumbprint]
          /\ muddled' \subseteq muddled \cup {payload.connection}
      BY <1>6 DEF Sign
    <2>r. payload.connection \in Connections
      BY <2>1, SlotTypes, PayloadFields
    <2>3. profile' \in [Rdp -> [login : Logins \cup {NoLogin}, signer : Certs \cup {None}]]
      BY <1>0, <2>1, <2>2 DEF StoreTypes
    <2>4. StoreTypes'
      BY <1>0, <1>6, <2>2, <2>3, <2>r DEF Sign, StoreTypes
    <2>5. launch' \in [Launches -> Slot]
      BY <1>6, <2>1, MovedFields DEF Sign, Working
    <2> QED
      BY <1>6, <1>b, <2>4, <2>5 DEF Sign
  <1>7. ASSUME NEW l \in Launches, Mark(l) PROVE LaunchTypeOK'
    <2>1. launch[l].payload.thumbprint \in Certs \cup {None} /\ Works(l)
      BY <1>7, SlotTypes, PayloadFields DEF Mark, At, Works, Working
    <2>2. marker' \in [Rdp -> Certs \cup {None}]
      BY <1>0, <1>7, <2>1 DEF Mark, StoreTypes
    <2>3. StoreTypes'
      BY <1>0, <1>7, <2>2 DEF Mark, StoreTypes
    <2>4. launch' \in [Launches -> Slot]
      BY <1>7, <2>1, MarkedFields DEF Mark
    <2> QED
      BY <1>7, <1>b, <2>3, <2>4 DEF Mark
  <1>8. ASSUME NEW l \in Launches, OpenClient(l) PROVE LaunchTypeOK'
    <2>1. \/ Become(l, Idle)
          \/ "bridge" \in Ways /\ Become(l, [pc |-> "open", way |-> "bridge"])
      <3>1. launch[l].way \in Ways
        BY <1>8, SlotTypes DEF OpenClient, Opens, At, Working
      <3> QED
        BY <1>8, <3>1 DEF OpenClient
    <2>2. launch' \in [Launches -> Slot]
      BY <1>i, <2>1, NewSlot, BecomeFields
    <2>3. launch[l].payload.secret \in BOOLEAN
      BY <1>8, SlotTypes, PayloadFields DEF OpenClient, Opens, At, Working
    <2>4. StoreTypes'
      BY <1>0, <1>8, <2>3 DEF OpenClient, StoreTypes
    <2> QED
      BY <1>8, <1>b, <2>2, <2>4 DEF OpenClient
  <1>9. ASSUME NEW l \in Launches, WriteSession(l) \/ StartSession(l) \/ ReadSession(l)
        PROVE  LaunchTypeOK'
    <2>1. launch' \in [Launches -> Slot]
      BY <1>9, <1>i, MovedFields DEF WriteSession, StartSession, ReadSession, At, Bare
    <2>2. StoreTypes'
      BY <1>0, <1>9 DEF WriteSession, StartSession, ReadSession, StoreTypes
    <2> QED
      BY <1>9, <1>b, <2>1, <2>2 DEF WriteSession, StartSession, ReadSession
  <1>10. ASSUME NEW l \in Launches, ClearCredential(l) PROVE LaunchTypeOK'
    <2>1. StoreTypes'
      BY <1>0, <1>10 DEF ClearCredential, StoreTypes
    <2>2. launch' \in [Launches -> Slot]
      BY <1>10, NewSlot, DisturbingFields DEF ClearCredential
    <2> QED
      BY <1>10, <1>b, <2>1, <2>2 DEF ClearCredential
  <1>11. ASSUME NEW l \in Launches, Fail(l) PROVE LaunchTypeOK'
    <2>1. (left \/ Abandons(l)) \in BOOLEAN
      BY <1>0 DEF StoreTypes, Abandons
    <2>2. StoreTypes'
      BY <1>0, <1>11, <2>1 DEF Fail, StoreTypes
    <2> QED
      BY <1>11, <1>b, <1>i, <2>2 DEF Fail
  <1>12. ASSUME StopBridge PROVE LaunchTypeOK'
    <2>1. PICK cut \in SUBSET Launches :
              launch' = [l \in Launches |-> IF l \in cut THEN Idle ELSE launch[l]]
              /\ left' = (left \/ \E l \in cut : Abandons(l))
      BY <1>12 DEF StopBridge
    <2>2. launch' \in [Launches -> Slot]
      BY <1>0, <2>1, NewSlot
    <2>3. (left \/ \E l \in cut : Abandons(l)) \in BOOLEAN
      OBVIOUS
    <2>4. StoreTypes'
      BY <1>0, <1>12, <2>1, <2>3 DEF StopBridge, StoreTypes
    <2> QED
      BY <1>12, <1>b, <2>2, <2>4 DEF StopBridge
  <1> QED
    BY <1>1, <1>2, <1>3, <1>4, <1>5, <1>6, <1>7, <1>8, <1>9, <1>10, <1>11, <1>12, Zenon
       DEF Desktop, Step

LEMMA LaunchTypeStep ==
    ASSUME LaunchTypeOK, [LaunchNext]_launchVars
    PROVE  LaunchTypeOK'
  <1>1. CASE Backend
    <2>1. BackendTypes' /\ UNCHANGED desktop
      BY <1>1, BackendStep
    <2> QED
      BY <2>1 DEF LaunchTypeOK, BackendTypes
  <1>2. CASE Desktop
    BY <1>2, DesktopStep
  <1>3. CASE UNCHANGED launchVars
    BY <1>3 DEF launchVars, LaunchTypeOK
  <1> QED
    BY <1>1, <1>2, <1>3 DEF LaunchNext

\* Every reachable state of the tickets, of the launches and of the desktop's stores
\* is well typed (launch_tickets.go, launcher.go).
THEOREM LaunchTypes == LaunchSpec => []LaunchTypeOK
  BY LaunchTypeInit, LaunchTypeStep, PTL DEF LaunchSpec

----------------------------------------------------------------------------
(* Who moves *)

\* Every step on the desktop but the end of the bridge is of one launch.
LEMMA OneMoves ==
    ASSUME LaunchTypeOK, NEW l \in Launches,
           \/ \E t \in Tickets, way \in Ways : Hand(l, t, way)
           \/ Step(l) \/ ClearCredential(l) \/ Fail(l)
    PROVE  \A m \in Launches \ {l} : Leaves(l, m)
  <1>b. ASSUME NEW next, Become(l, next) PROVE \A m \in Launches \ {l} : Leaves(l, m)
    BY <1>b, BecomeFields DEF Leaves
  <1>d. ASSUME NEW next, Disturbing(l, next) PROVE \A m \in Launches \ {l} : Leaves(l, m)
    BY <1>d, DisturbingFields
  <1>1. CASE \E t \in Tickets, way \in Ways : Hand(l, t, way)
    <2>1. \E next : Become(l, next)
      BY <1>1, Zenon DEF Hand
    <2> QED
      BY <1>b, <2>1
  <1>2. CASE ClearCredential(l) \/ Fail(l)
    <2>1. \E next : Become(l, next) \/ Disturbing(l, next)
      BY <1>2, Zenon DEF ClearCredential, Fail
    <2> QED
      BY <1>b, <1>d, <2>1
  <1>3. CASE Step(l)
    <2>1. CASE RefuseOutdated(l) \/ Resolve(l)
      <3>1. \E next : Become(l, next)
        BY <2>1, Zenon DEF RefuseOutdated, Resolve
      <3> QED
        BY <1>b, <3>1
    <2>2. CASE WriteProfile(l) \/ StoreCredential(l)
      <3>1. \E next : Become(l, next) \/ Disturbing(l, next)
        BY <2>2, Zenon DEF WriteProfile, StoreCredential
      <3> QED
        BY <1>b, <1>d, <3>1
    <2>3. CASE Sign(l) \/ Mark(l) \/ OpenClient(l)
      <3>1. \E next : Become(l, next)
        BY <2>3, Zenon DEF Sign, Mark, OpenClient, Moved
      <3> QED
        BY <1>b, <3>1
    <2>4. CASE WriteSession(l) \/ StartSession(l) \/ ReadSession(l)
      <3>1. \E next : Become(l, next)
        BY <2>4, Zenon DEF WriteSession, StartSession, ReadSession, Moved
      <3> QED
        BY <1>b, <3>1
    <2> QED
      BY <1>3, <2>1, <2>2, <2>3, <2>4 DEF Step
  <1> QED
    BY <1>1, <1>2, <1>3

----------------------------------------------------------------------------
(* One launch of a ticket *)

\* What was sent is gone from the store.
Redeemed == \A t \in Tickets : t \in served => tickets[t] = Gone

LEMMA RedeemedStep ==
    ASSUME LaunchTypeOK, Redeemed, [LaunchNext]_launchVars
    PROVE  Redeemed'
  <1>0. BackendTypes
    BY LaunchTypeParts
  <1>s. ASSUME UNCHANGED <<tickets, served>> PROVE Redeemed'
    BY <1>s DEF Redeemed
  <1>1. ASSUME NEW t \in Tickets, NEW c \in Connections, Issue(t, c) PROVE Redeemed'
    <2>1. /\ tickets[t] = Unissued /\ served' = served
          /\ \A u \in Tickets \ {t} : \/ tickets'[u] = tickets[u]
                                      \/ tickets[u] = Late /\ tickets'[u] = Gone
      BY <1>0, <1>1, Issued DEF Issue
    <2>2. Unissued # Gone
      BY DEF Unissued, Gone
    <2> QED
      BY <2>1, <2>2 DEF Redeemed
  <1>2. ASSUME NEW t \in Tickets, Lapse(t) PROVE Redeemed'
    <2>1. tickets[t] # Gone /\ served' = served
      BY <1>2 DEF Lapse, Gone
    <2>2. \A u \in Tickets \ {t} : tickets'[u] = tickets[u]
      BY <1>0, <1>2 DEF Lapse, BackendTypes
    <2> QED
      BY <2>1, <2>2 DEF Redeemed
  <1>3. ASSUME RestartBackend PROVE Redeemed'
    BY <1>3 DEF RestartBackend, Redeemed
  <1>4. ASSUME NEW l \in Launches, Resolve(l) PROVE Redeemed'
    <2> DEFINE t == launch[l].ticket
    <2>1. tickets' = [tickets EXCEPT ![t] = Gone] /\ (served' = served \/ served' = served \cup {t})
      BY <1>4 DEF Resolve
    <2> HIDE DEF t
    <2>2. \A u \in Tickets : tickets'[u] = IF u = t THEN Gone ELSE tickets[u]
      BY <1>0, <2>1 DEF BackendTypes
    <2> QED
      BY <2>1, <2>2 DEF Redeemed
  <1>5. ASSUME NEW c \in Connections, SetOverride(c) \/ ClearOverride(c) \/ ChangePassword(c)
        PROVE  UNCHANGED <<tickets, served>>
    BY <1>5 DEF SetOverride, ClearOverride, ChangePassword
  <1>6. ASSUME NEW l \in Launches, Step(l), ~Resolve(l) PROVE UNCHANGED <<tickets, served>>
    BY <1>6 DEF Step, RefuseOutdated, StoreCredential, WriteProfile, Sign, Mark, OpenClient,
                WriteSession, StartSession, ReadSession
  <1>7. ASSUME NEW l \in Launches, NEW t \in Tickets, NEW way \in Ways, Hand(l, t, way)
        PROVE  UNCHANGED <<tickets, served>>
    BY <1>7 DEF Hand
  <1>8. ASSUME NEW l \in Launches, ClearCredential(l) \/ Fail(l)
        PROVE  UNCHANGED <<tickets, served>>
    BY <1>8 DEF ClearCredential, Fail
  <1>9. ASSUME NewCertificate \/ StopBridge \/ UNCHANGED launchVars PROVE UNCHANGED <<tickets, served>>
    BY <1>9 DEF NewCertificate, StopBridge, launchVars
  <1>10. CASE Backend
    BY <1>10, <1>s, <1>1, <1>2, <1>3, <1>5, <1>9 DEF Backend
  <1>11. CASE Desktop
    BY <1>11, <1>s, <1>4, <1>6, <1>7, <1>8, <1>9 DEF Desktop
  <1> QED
    BY <1>9, <1>10, <1>11, <1>s DEF LaunchNext

\* A launch that was handed a ticket and has a payload has redeemed the ticket.
LEMMA OnlyByRedeeming ==
    ASSUME LaunchTypeOK, [LaunchNext]_launchVars, NEW l \in Launches, At(l, "handed"), launch'[l].pc = "resolved"
    PROVE  Resolve(l)
  <1>0. launch[l].pc = "handed" /\ launch[l] # Idle /\ Idle.pc # "resolved"
    BY DEF At, Idle
  <1>1. launch'[l] # launch[l] /\ launch'[l] # Idle
    BY <1>0 DEF Idle
  <1>2. Desktop
    <2>1. ASSUME Backend PROVE UNCHANGED launch
      BY <2>1, BackendStep
    <2> QED
      BY <1>1, <2>1 DEF LaunchNext, launchVars
  <1>3. ~StopBridge
    BY <1>1 DEF StopBridge
  <1>4. PICK m \in Launches :
            \/ \E t \in Tickets, way \in Ways : Hand(m, t, way)
            \/ Step(m) \/ ClearCredential(m) \/ Fail(m)
    BY <1>2, <1>3, Zenon DEF Desktop
  <1>5. m = l
    <2>1. launch'[l].pc # launch[l].pc
      BY <1>0 DEF At
    <2> QED
      BY <1>4, <2>1, OneMoves DEF Leaves
  <1>6. ~Fail(l) /\ ~RefuseOutdated(l) /\ ~ClearCredential(l)
    <2>1. ASSUME Become(l, Idle) \/ Disturbing(l, Idle) PROVE FALSE
      BY <1>1, <2>1, BecomeFields, DisturbingFields
    <2> QED
      BY <2>1 DEF Fail, RefuseOutdated, ClearCredential
  <1>7. \A t \in Tickets, way \in Ways : ~Hand(l, t, way)
    BY <1>0 DEF Hand
  <1>8. ~(StoreCredential(l) \/ WriteProfile(l) \/ Sign(l) \/ Mark(l) \/ OpenClient(l)
          \/ WriteSession(l) \/ StartSession(l) \/ ReadSession(l))
    BY <1>0 DEF StoreCredential, WriteProfile, Sign, Mark, OpenClient, Opens, WriteSession,
                StartSession, ReadSession, At
  <1> QED
    BY <1>4, <1>5, <1>6, <1>7, <1>8 DEF Step

\* A ticket becomes one launch at most, within its time, and carries the credential
\* that the connection's page shows (Redeem, launch_tickets.go:46;
\* applyConnectionCredentialOverride): for any number of tickets and launches, however
\* they overlap.
THEOREM OneLaunchOfATicket == LaunchSpec => OneLaunchAsShown
  <1>1. LaunchInit => Redeemed
    BY DEF LaunchInit, Redeemed
  <1>2. ASSUME LaunchTypeOK, Redeemed, [LaunchNext]_launchVars, NEW l \in Launches,
               At(l, "handed"), launch'[l].pc = "resolved"
        PROVE  /\ launch[l].ticket \notin served
               /\ tickets[launch[l].ticket].state = "live"
               /\ launch'[l].payload = tickets[launch[l].ticket].payload
    <2> DEFINE t == launch[l].ticket
    <2>1. Resolve(l) /\ t \in Tickets
      BY <1>2, OnlyByRedeeming, SlotTypes DEF At
    <2>2. ~Become(l, Idle)
      BY <1>2, BecomeFields DEF Idle
    <2>3. tickets[t].state = "live"
          /\ Become(l, [pc |-> "resolved", way |-> launch[l].way, payload |-> tickets[t].payload])
      BY <2>1, <2>2 DEF Resolve
    <2>4. launch'[l].payload = tickets[t].payload
      BY <1>2, <2>3, BecomeFields
    <2>5. tickets[t] # Gone
      BY <2>3 DEF Gone
    <2> QED
      BY <1>2, <2>1, <2>3, <2>4, <2>5 DEF Redeemed
  <1>3. ASSUME LaunchTypeOK, NEW t \in Tickets, NEW c \in Connections, Issue(t, c)
        PROVE  tickets'[t].payload.login = Shown(c)
    <2>1. override[c] \in Overrides
      BY <1>3 DEF LaunchTypeOK
    <2>2. Applied(c) = Shown(c)
      BY <2>1 DEF Applied, Shown, Overrides
    <2> QED
      BY <1>3, <2>2, Issued, LaunchTypeParts
  <1>4. ASSUME LaunchTypeOK, Redeemed, [LaunchNext]_launchVars
        PROVE  [/\ \A l \in Launches :
                      At(l, "handed") /\ launch'[l].pc = "resolved" =>
                          /\ launch[l].ticket \notin served
                          /\ tickets[launch[l].ticket].state = "live"
                          /\ launch'[l].payload = tickets[launch[l].ticket].payload
                /\ \A t \in Tickets, c \in Connections :
                      Issue(t, c) => tickets'[t].payload.login = Shown(c)]_launchVars
    BY <1>2, <1>3, <1>4
  <1>5. LaunchSpec => [](LaunchTypeOK /\ Redeemed)
    BY <1>1, LaunchTypeInit, LaunchTypeStep, RedeemedStep, PTL DEF LaunchSpec
  <1> QED
    BY <1>4, <1>5, PTL DEF LaunchSpec, OneLaunchAsShown

----------------------------------------------------------------------------
(* What a launch leaves on the desktop *)

\* A launch that removes a credential in the end
Removes(l) ==
    \/ Works(l) /\ launch[l].payload.secret
    \/ At(l, "open")

Owed ==
    /\ stored # NoLogin => \E l \in Launches : Removes(l)
    /\ \A l \in files : launch[l].pc \in {"filed", "session"}

LEMMA OwedIs == EverySecretIsOwed <=> left \/ Owed
  BY DEF EverySecretIsOwed, Owed, Removes

\* One launch moves, and takes what it owed along.
LEMMA OwedMove ==
    ASSUME LaunchTypeOK, Owed, NEW l \in Launches, \A m \in Launches \ {l} : Leaves(l, m),
           \/ Removes(l)'
           \/ stored' = NoLogin
           \/ stored' = stored /\ ~Removes(l),
           files' \subseteq files \cup {l},
           l \in files' => launch'[l].pc \in {"filed", "session"}
    PROVE  Owed'
  <1>1. \A m \in Launches \ {l} : launch'[m].pc = launch[m].pc /\ (Removes(m) => Removes(m)')
    BY DEF Leaves, Removes, Works, At
  <1>2. files \subseteq Launches
    BY DEF LaunchTypeOK
  <1>3. stored' # NoLogin => \E m \in Launches : Removes(m)'
    BY <1>1 DEF Owed
  <1>4. \A m \in files' : launch'[m].pc \in {"filed", "session"}
    BY <1>1, <1>2 DEF Owed
  <1> QED
    BY <1>3, <1>4 DEF Owed

LEMMA OwedStep ==
    ASSUME LaunchTypeOK, EverySecretIsOwed, [LaunchNext]_launchVars
    PROVE  EverySecretIsOwed'
  <1>p. \A l \in Launches : Removes(l) => launch[l].pc \in {"stored", "signing", "marking", "open"}
    BY DEF Removes, Works, Working, At
  <1>1. CASE UNCHANGED desktop
    BY <1>1 DEF EverySecretIsOwed, Works, At
  <1>2. CASE Desktop /\ left
    <2>1. left'
      BY <1>2 DEF Desktop, Step, Hand, RefuseOutdated, Resolve, StoreCredential, WriteProfile,
                  Sign, Mark, OpenClient, WriteSession, StartSession, ReadSession,
                  ClearCredential, Fail, StopBridge
    <2> QED
      BY <2>1 DEF EverySecretIsOwed
  <1>3. CASE Desktop /\ ~left
    <2>0. Owed
      BY <1>3, OwedIs
    <2>f. \A l \in files : launch[l].pc \in {"filed", "session"}
      BY <2>0 DEF Owed
    <2>q. Owed' => EverySecretIsOwed'
      BY DEF EverySecretIsOwed, Owed, Removes, Works, At
    <2>l. left' => EverySecretIsOwed'
      BY DEF EverySecretIsOwed
    <2>1. ASSUME NEW l \in Launches, NEW t \in Tickets, NEW way \in Ways, Hand(l, t, way)
          PROVE  EverySecretIsOwed'
      <3>1. ~Removes(l)
        BY <1>p, <2>1 DEF Hand, Idle
      <3>2. l \notin files /\ UNCHANGED <<stored, files>>
        BY <2>1 DEF Hand
      <3> QED
        BY <2>0, <2>1, <2>q, <3>1, <3>2, OneMoves, OwedMove
    <2>2. ASSUME NEW l \in Launches, RefuseOutdated(l) \/ Resolve(l) PROVE EverySecretIsOwed'
      <3>1. launch[l].pc = "handed" /\ l \notin files
        BY <2>2, <2>f DEF RefuseOutdated, Resolve, At
      <3>2. \A m \in Launches \ {l} : Leaves(l, m)
        BY <2>2, OneMoves DEF Step
      <3>3. UNCHANGED <<stored, files>>
        BY <2>2 DEF RefuseOutdated, Resolve
      <3> QED
        BY <1>p, <2>0, <2>q, <3>1, <3>2, <3>3, OwedMove
    <2>3. ASSUME NEW l \in Launches, StoreCredential(l) PROVE EverySecretIsOwed'
      <3> DEFINE next == [pc |-> "stored", way |-> launch[l].way, payload |-> launch[l].payload,
                          sign |-> FALSE, alone |-> ~OthersWork(l)]
      <3>1. launch[l].pc = "resolved" /\ l \notin files /\ UNCHANGED files
            /\ (~launch[l].payload.secret => stored' = stored)
        BY <2>3, <2>f DEF StoreCredential, At
      <3>2. Disturbing(l, next)
        BY <2>3 DEF StoreCredential
      <3>3. next.pc = "stored" /\ next.payload = launch[l].payload
        OBVIOUS
      <3> HIDE DEF next
      <3>4. launch'[l].pc = "stored" /\ launch'[l].payload = launch[l].payload
            /\ \A m \in Launches \ {l} : Leaves(l, m)
        BY <3>2, <3>3, DisturbingFields
      <3>5. ~Removes(l) /\ (launch[l].payload.secret => Removes(l)')
        BY <1>p, <3>1, <3>4 DEF Removes, Works, Working
      <3> QED
        BY <2>0, <2>q, <3>1, <3>4, <3>5, OwedMove
    <2>4. ASSUME NEW l \in Launches, WriteProfile(l) \/ Sign(l) \/ Mark(l)
          PROVE  EverySecretIsOwed'
      <3>1. launch[l].pc \in Working /\ l \notin files /\ UNCHANGED <<stored, files>>
        BY <2>4, <2>f DEF WriteProfile, Sign, Mark, At, Working
      <3>2. \A m \in Launches \ {l} : Leaves(l, m)
        BY <2>4, OneMoves DEF Step
      <3>3. launch'[l].pc \in {"signing", "marking"} /\ launch'[l].payload = launch[l].payload
        <4>1. CASE WriteProfile(l)
          <5>1. PICK sign \in BOOLEAN :
                    Become(l, [launch[l] EXCEPT !.pc = "signing", !.sign = sign])
            BY <4>1 DEF WriteProfile
          <5> QED
            BY <3>1, <5>1, MarkedFields DEF Works
        <4>2. CASE Sign(l)
          BY <3>1, <4>2, MovedFields DEF Sign, Working
        <4>3. CASE Mark(l)
          BY <3>1, <4>3, MarkedFields DEF Mark, Works
        <4> QED
          BY <2>4, <4>1, <4>2, <4>3
      <3>4. Removes(l) => Removes(l)'
        BY <3>1, <3>3 DEF Removes, Works, Working, At
      <3> QED
        BY <2>0, <2>q, <3>1, <3>2, <3>3, <3>4, OwedMove
    <2>5. ASSUME NEW l \in Launches, OpenClient(l) PROVE EverySecretIsOwed'
      <3>0. /\ launch[l].pc = "signing" /\ l \notin files /\ UNCHANGED <<stored, files>>
            /\ \A m \in Launches \ {l} : Leaves(l, m)
        BY <2>5, <2>f, OneMoves DEF OpenClient, Opens, At, Step
      <3>1. CASE left'
        BY <2>l, <3>1
      <3>2. CASE ~left' /\ ~launch[l].payload.secret
        <4>1. ~Removes(l)
          BY <3>0, <3>2 DEF Removes, At
        <4>2. launch'[l].pc \in {"open", "idle"}
          BY <2>5, BecomeFields DEF OpenClient, Idle
        <4> QED
          BY <2>0, <2>q, <3>0, <4>1, <4>2, OwedMove
      <3>3. CASE ~left' /\ launch[l].payload.secret
        <4>1. Become(l, [pc |-> "open", way |-> "bridge"])
          BY <2>5, <3>3 DEF OpenClient
        <4>2. launch'[l].pc = "open"
          BY <4>1, BecomeFields
        <4>3. Removes(l)'
          BY <4>2 DEF Removes, At
        <4> QED
          BY <2>0, <2>q, <3>0, <4>2, <4>3, OwedMove
      <3> QED
        BY <3>1, <3>2, <3>3
    <2>6. ASSUME NEW l \in Launches, ClearCredential(l) PROVE EverySecretIsOwed'
      <3>1. l \notin files /\ stored' = NoLogin /\ UNCHANGED files
        BY <2>6, <2>f DEF ClearCredential, At
      <3> QED
        BY <2>0, <2>6, <2>q, <3>1, OneMoves, OwedMove
    <2>7. ASSUME NEW l \in Launches, WriteSession(l) \/ StartSession(l) \/ ReadSession(l)
          PROVE  EverySecretIsOwed'
      <3>1. \A m \in Launches \ {l} : Leaves(l, m)
        BY <2>7, OneMoves DEF Step
      <3>2. ~Removes(l) /\ stored' = stored /\ files' \subseteq files \cup {l}
        BY <1>p, <2>7 DEF WriteSession, StartSession, ReadSession, At
      <3>3. l \in files' => launch'[l].pc \in {"filed", "session"}
        <4>1. CASE WriteSession(l)
          BY <2>f, <4>1, MovedFields DEF WriteSession, At, Bare
        <4>2. CASE StartSession(l)
          BY <4>2, MovedFields DEF StartSession, At, Bare
        <4>3. CASE ReadSession(l)
          BY <4>3 DEF ReadSession
        <4> QED
          BY <2>7, <4>1, <4>2, <4>3
      <3> QED
        BY <2>0, <2>q, <3>1, <3>2, <3>3, OwedMove
    <2>8. ASSUME NEW l \in Launches, Fail(l) PROVE EverySecretIsOwed'
      <3>1. CASE left'
        BY <2>l, <3>1
      <3>2. CASE ~left'
        <4>1. l \notin files /\ ~Removes(l) /\ UNCHANGED <<stored, files>>
          BY <2>8, <3>2 DEF Fail, Abandons, Removes
        <4> QED
          BY <2>0, <2>8, <2>q, <4>1, OneMoves, OwedMove
      <3> QED
        BY <3>1, <3>2
    <2>9. ASSUME StopBridge PROVE EverySecretIsOwed'
      <3>1. CASE left'
        BY <2>l, <3>1
      <3>2. CASE ~left'
        <4>1. PICK cut \in SUBSET Launches :
                  /\ launch' = [l \in Launches |-> IF l \in cut THEN Idle ELSE launch[l]]
                  /\ left' = (left \/ \E l \in cut : Abandons(l))
          BY <2>9 DEF StopBridge
        <4>2. \A l \in cut : ~Abandons(l)
          BY <3>2, <4>1, Zenon
        <4>3. \A l \in cut : ~Removes(l) /\ l \notin files
          BY <4>2 DEF Abandons, Removes
        <4>4. \A l \in Launches \ cut : launch'[l] = launch[l]
          BY <4>1
        <4>5. UNCHANGED <<stored, files>> /\ files \subseteq Launches
          BY <2>9 DEF StopBridge, LaunchTypeOK
        <4>6. \A l \in Launches \ cut : Removes(l) => Removes(l)'
          BY <4>4 DEF Removes, Works, At
        <4>7. Owed'
          BY <2>0, <4>3, <4>4, <4>5, <4>6 DEF Owed
        <4> QED
          BY <2>q, <4>7
      <3> QED
        BY <3>1, <3>2
    <2> QED
      BY <1>3, <2>1, <2>2, <2>3, <2>4, <2>5, <2>6, <2>7, <2>8, <2>9, Zenon DEF Desktop, Step
  <1>4. CASE Backend
    BY <1>4, <1>1, BackendStep
  <1> QED
    BY <1>1, <1>2, <1>3, <1>4 DEF LaunchNext, launchVars

\* A credential or a session file on the desktop is one that a launch in progress
\* will remove, unless one was cut off after it had stored it
\* (clearRDPCredentialsLater, main.go:79).  Launches may overlap as they like.
THEOREM SecretsAreOwed == LaunchSpec => []EverySecretIsOwed
  <1>1. LaunchInit => EverySecretIsOwed
    BY DEF LaunchInit, EverySecretIsOwed
  <1> QED
    BY <1>1, LaunchTypeInit, LaunchTypeStep, OwedStep, PTL DEF LaunchSpec

----------------------------------------------------------------------------
(* What a client finds *)

\* What a launch finds on the stores that has had them to itself
InOrder(l) ==
    LET payload == launch[l].payload
        c == payload.connection
    IN  /\ payload.secret => stored = payload.login
        /\ launch[l].pc \in {"signing", "marking"} => profile[c].login = payload.login
        /\ launch[l].pc = "signing" /\ ~launch[l].sign /\ payload.thumbprint # None
               /\ c \notin muddled =>
              profile[c].signer >= payload.thumbprint
        /\ launch[l].pc = "marking" => profile[c].signer = payload.thumbprint

\* A launch that is alone is the only one at work.
OneWorks ==
    \A l, m \in Launches : Works(l) /\ launch[l].alone /\ Works(m) => l = m

OverRdp == \A l \in Launches : Works(l) => launch[l].payload.connection \in Rdp

\* Unless it was made out of turn, a signature on disk is no older than the marker
\* beside it and than what is about to be noted there: it is written first.
SignedFirst ==
    \A c \in Rdp \ muddled :
        profile[c].signer # None =>
            /\ profile[c].signer >= marker[c]
            /\ \A l \in Launches :
                  At(l, "marking") /\ launch[l].payload.connection = c =>
                      profile[c].signer >= launch[l].payload.thumbprint

Tidy ==
    /\ OverRdp
    /\ OneWorks
    /\ \A l \in Launches : Works(l) /\ launch[l].alone => InOrder(l)
    /\ SignedFirst

\* One launch moves.  Those that are still alone find what they left.
LEMMA TidyMove ==
    ASSUME LaunchTypeOK, Tidy, NEW l \in Launches, \A m \in Launches \ {l} : Leaves(l, m),
           Works(l)' => launch'[l].payload.connection \in Rdp,
           Works(l)' /\ launch'[l].alone =>
               InOrder(l)' /\ \A m \in Launches \ {l} : ~Works(m),
           \A m \in Launches \ {l} : Works(m) /\ launch'[m].alone =>
               ~Works(l)' /\ UNCHANGED <<stored, profile, muddled>>,
           SignedFirst'
    PROVE  Tidy'
  <1>0. \A m \in Launches \ {l} : /\ Works(m)' <=> Works(m)
                                  /\ Works(m)' => launch'[m].payload = launch[m].payload
                                  /\ Works(m)' /\ launch'[m].alone => launch'[m] = launch[m]
    BY DEF Leaves, Works
  <1>1. OverRdp'
    BY <1>0 DEF Tidy, OverRdp
  <1>2. OneWorks'
    <2> SUFFICES ASSUME NEW m \in Launches, NEW n \in Launches,
                        Works(m)', launch'[m].alone, Works(n)'
                 PROVE  m = n
      BY DEF OneWorks
    <2>1. CASE m = l
      BY <1>0, <2>1
    <2>2. CASE m # l
      <3>1. n # l
        BY <1>0, <2>2
      <3>2. Works(m) /\ launch[m].alone /\ Works(n)
        BY <1>0, <2>2, <3>1
      <3> QED
        BY <3>2 DEF Tidy, OneWorks
    <2> QED
      BY <2>1, <2>2
  <1>3. ASSUME NEW m \in Launches, Works(m)', launch'[m].alone PROVE InOrder(m)'
    <2>1. CASE m = l
      BY <1>3, <2>1
    <2>2. CASE m # l
      <3>1. /\ launch'[m] = launch[m] /\ Works(m) /\ launch[m].alone
            /\ UNCHANGED <<stored, profile, muddled>>
        BY <1>0, <1>3, <2>2
      <3>2. InOrder(m)
        BY <3>1 DEF Tidy
      <3> QED
        BY <3>1, <3>2 DEF InOrder
    <2> QED
      BY <2>1, <2>2
  <1> QED
    BY <1>1, <1>2, <1>3 DEF Tidy

\* No launch signs, or comes to note what it has signed.
LEMMA SignedStays ==
    ASSUME SignedFirst, NEW l \in Launches, \A m \in Launches \ {l} : Leaves(l, m),
           UNCHANGED <<profile, marker, muddled>>, ~At(l, "marking")'
    PROVE  SignedFirst'
  <1>1. \A m \in Launches : At(m, "marking")' =>
            At(m, "marking") /\ launch'[m].payload = launch[m].payload
    BY DEF Leaves, At
  <1> QED
    BY <1>1 DEF SignedFirst, At

\* A launch that does not work on the stores, or stops doing so.
LEMMA TidyLeave ==
    ASSUME LaunchTypeOK, Tidy, NEW l \in Launches, \A m \in Launches \ {l} : Leaves(l, m),
           ~Works(l)', UNCHANGED <<profile, marker, muddled>>,
           \A m \in Launches \ {l} : Works(m) /\ launch'[m].alone => stored' = stored
    PROVE  Tidy'
  <1>1. ~At(l, "marking")'
    BY DEF Works, Working, At
  <1>2. SignedFirst'
    BY <1>1, SignedStays DEF Tidy
  <1> QED
    BY <1>2, TidyMove

LEMMA TidyStep ==
    ASSUME LaunchTypeOK, Tidy, [LaunchNext]_launchVars
    PROVE  Tidy'
  <1>p. /\ Idle.pc \notin Working /\ "handed" \notin Working /\ "resolved" \notin Working
        /\ "open" \notin Working /\ "filed" \notin Working /\ "session" \notin Working
        /\ "stored" \in Working /\ "signing" \in Working /\ "marking" \in Working
    BY DEF Idle, Working
  <1>o. /\ OverRdp /\ OneWorks /\ SignedFirst
        /\ \A l \in Launches : Works(l) /\ launch[l].alone => InOrder(l)
    BY DEF Tidy
  <1>t. StoreTypes /\ None = 0 /\ \A n \in Certs \cup {None} : n \in Nat
    BY LaunchTypeParts, BoundsAssumption DEF Certs, None
  <1>1. CASE UNCHANGED desktop
    BY <1>1 DEF Tidy, OverRdp, OneWorks, InOrder, SignedFirst, Works, At
  <1>2. ASSUME NEW l \in Launches, NEW t \in Tickets, NEW way \in Ways, Hand(l, t, way)
        PROVE  Tidy'
    <2>1. ~Works(l)'
      BY <1>p, <1>2, BecomeFields DEF Hand, Works
    <2> QED
      BY <1>2, <2>1, OneMoves, TidyLeave DEF Hand
  <1>3. ASSUME NEW l \in Launches, RefuseOutdated(l) \/ Resolve(l) PROVE Tidy'
    <2>1. \/ Become(l, Idle)
          \/ Become(l, [pc |-> "resolved", way |-> launch[l].way,
                        payload |-> tickets[launch[l].ticket].payload])
      BY <1>3 DEF RefuseOutdated, Resolve
    <2>2. ~Works(l)'
      BY <1>p, <2>1, BecomeFields DEF Works
    <2>3. UNCHANGED <<stored, profile, marker, muddled>>
      BY <1>3 DEF RefuseOutdated, Resolve
    <2> QED
      BY <1>3, <2>2, <2>3, OneMoves, TidyLeave DEF Step
  <1>4. ASSUME NEW l \in Launches, StoreCredential(l) PROVE Tidy'
    <2> DEFINE payload == launch[l].payload
               next == [pc |-> "stored", way |-> launch[l].way, payload |-> payload,
                        sign |-> FALSE, alone |-> ~OthersWork(l)]
    <2>1. /\ payload.connection \in Rdp /\ Disturbing(l, next)
          /\ (payload.secret => stored' = payload.login) /\ UNCHANGED <<profile, marker, muddled>>
      BY <1>4 DEF StoreCredential
    <2>2. next.pc = "stored" /\ next.payload = payload /\ next.alone = ~OthersWork(l)
      OBVIOUS
    <2> HIDE DEF next
    <2>3. /\ launch'[l].pc = "stored" /\ launch'[l].payload = payload
          /\ launch'[l].alone = ~OthersWork(l)
          /\ \A m \in Launches \ {l} : Leaves(l, m) /\ (Works(m) => launch'[m].alone = FALSE)
      BY <2>1, <2>2, DisturbingFields
    <2> HIDE DEF payload
    <2>4. InOrder(l)'
      BY <2>1, <2>3 DEF InOrder
    <2>5. launch'[l].alone => \A m \in Launches \ {l} : ~Works(m)
      BY <2>3 DEF OthersWork
    <2>6. SignedFirst'
      BY <1>o, <2>1, <2>3, SignedStays DEF At
    <2> QED
      BY <2>1, <2>3, <2>4, <2>5, <2>6, TidyMove
  <1>w. ASSUME NEW l \in Launches, Works(l), launch[l].alone \in BOOLEAN
        PROVE  /\ launch[l].alone => \A m \in Launches \ {l} : ~Works(m)
               /\ \A m \in Launches \ {l} : ~(Works(m) /\ launch[m].alone)
    BY <1>o, <1>w DEF OneWorks
  <1>5. ASSUME NEW l \in Launches, WriteProfile(l) PROVE Tidy'
    <2> DEFINE payload == launch[l].payload
               c == payload.connection
               matches == profile[c].login = payload.login
               signs == ~matches \/ profile[c].signer = None \/ SignerChanged(payload)
    <2>1. /\ launch[l].pc = "stored" /\ UNCHANGED <<stored, marker>>
          /\ Become(l, [launch[l] EXCEPT !.pc = "signing", !.sign = signs])
          /\ profile' = IF matches THEN profile
                        ELSE [profile EXCEPT ![c] = [login |-> payload.login, signer |-> None]]
          /\ muddled' = IF matches THEN muddled ELSE muddled \ {c}
      BY <1>5 DEF WriteProfile, At
    <2>2. Works(l) /\ launch[l].alone \in BOOLEAN /\ signs \in BOOLEAN
      BY <1>p, <2>1, SlotTypes DEF Works
    <2>3. c \in Rdp
      BY <1>o, <2>2 DEF OverRdp
    <2>4. /\ launch'[l].pc = "signing" /\ launch'[l].payload = payload
          /\ launch'[l].sign = signs /\ launch'[l].alone = launch[l].alone
          /\ \A m \in Launches \ {l} : launch'[m] = launch[m]
      <3> HIDE DEF signs
      <3> QED
        BY <2>1, <2>2, MarkedFields
    <2>5. profile'[c].login = payload.login
          /\ (~matches => profile'[c].signer = None)
          /\ \A d \in Rdp \ {c} : profile'[d] = profile[d]
      BY <1>t, <2>1, <2>3 DEF StoreTypes
    <2>6. ~signs /\ payload.thumbprint # None /\ c \notin muddled' =>
              profile'[c].signer >= payload.thumbprint
      <3> SUFFICES ASSUME ~signs, payload.thumbprint # None, c \notin muddled'
                   PROVE  profile'[c].signer >= payload.thumbprint
        OBVIOUS
      <3>1. profile' = profile /\ profile[c].signer # None /\ muddled' = muddled
            /\ marker[c] = payload.thumbprint
        BY <2>1 DEF SignerChanged
      <3> QED
        BY <1>o, <2>3, <3>1 DEF SignedFirst
    <2>7. SignedFirst'
      <3>1. CASE matches
        <4>1. UNCHANGED <<profile, marker, muddled>>
          BY <2>1, <3>1
        <4> QED
          BY <1>o, <2>4, <4>1, SignedStays DEF At, Leaves
      <3>2. CASE ~matches
        <4>1. \A d \in Rdp \ muddled' : profile'[d].signer # None =>
                  d \in Rdp \ muddled /\ profile'[d] = profile[d]
          BY <2>1, <2>5, <3>2
        <4>2. \A m \in Launches : At(m, "marking")' => At(m, "marking") /\ launch'[m] = launch[m]
          BY <2>4 DEF At
        <4> QED
          BY <1>o, <2>1, <4>1, <4>2 DEF SignedFirst, At
      <3> QED
        BY <3>1, <3>2
    <2> HIDE DEF signs, matches
    <2>8. launch[l].alone => InOrder(l)'
      <3> SUFFICES ASSUME launch[l].alone PROVE InOrder(l)'
        OBVIOUS
      <3>1. payload.secret => stored' = payload.login
        BY <1>o, <2>1, <2>2 DEF InOrder
      <3> HIDE DEF payload
      <3> QED
        BY <2>4, <2>5, <2>6, <3>1 DEF InOrder
    <2>9. \A m \in Launches \ {l} : Leaves(l, m)
      BY <2>4 DEF Leaves
    <2> QED
      BY <1>w, <2>2, <2>3, <2>4, <2>7, <2>8, <2>9, TidyMove
  <1>6. ASSUME NEW l \in Launches, Sign(l) PROVE Tidy'
    <2> DEFINE payload == launch[l].payload
               c == payload.connection
    <2>1. /\ launch[l].pc = "signing" /\ payload.thumbprint # None
          /\ profile' = [profile EXCEPT ![c].signer = payload.thumbprint]
          /\ muddled' = IF launch[l].alone /\ payload.thumbprint >= marker[c]
                          THEN muddled ELSE muddled \cup {c}
          /\ UNCHANGED <<stored, marker>> /\ Moved(l, "marking")
      BY <1>6 DEF Sign, At, NeedsSignature
    <2>2. Works(l) /\ launch[l].alone \in BOOLEAN
      BY <1>p, <2>1, SlotTypes DEF Works
    <2>3. c \in Rdp
      BY <1>o, <2>2 DEF OverRdp
    <2>4. /\ launch'[l].pc = "marking" /\ launch'[l].payload = payload
          /\ launch'[l].alone = launch[l].alone
          /\ \A m \in Launches \ {l} : launch'[m] = launch[m]
      BY <1>p, <2>1, <2>2, MovedFields
    <2>5. profile'[c].signer = payload.thumbprint /\ profile'[c].login = profile[c].login
          /\ \A d \in Rdp \ {c} : profile'[d] = profile[d]
      BY <1>t, <2>1, <2>3 DEF StoreTypes
    <2>9. \A m \in Launches \ {l} : Leaves(l, m)
      BY <2>4 DEF Leaves
    <2>n. payload.thumbprint \in Nat
      BY <1>p, <2>1, SlotTypes, PayloadFields
    <2>6. SignedFirst'
      <3> SUFFICES ASSUME NEW d \in Rdp \ muddled', profile'[d].signer # None
                   PROVE  /\ profile'[d].signer >= marker'[d]
                          /\ \A m \in Launches :
                                At(m, "marking")' /\ launch'[m].payload.connection = d =>
                                    profile'[d].signer >= launch'[m].payload.thumbprint
        BY DEF SignedFirst
      <3>1. CASE d = c
        <4>1. launch[l].alone /\ payload.thumbprint >= marker[c]
          BY <2>1, <3>1
        <4>2. \A m \in Launches : At(m, "marking")' => m = l
          BY <1>w, <1>p, <2>2, <2>4, <4>1 DEF At, Works
        <4> QED
          BY <2>1, <2>4, <2>5, <2>n, <3>1, <4>1, <4>2
      <3>2. CASE d # c
        <4>1. profile'[d] = profile[d] /\ d \notin muddled
          BY <2>1, <2>5, <3>2
        <4>2. \A m \in Launches :
                  At(m, "marking")' /\ launch'[m].payload.connection = d =>
                      At(m, "marking") /\ launch'[m] = launch[m]
          BY <2>4, <3>2 DEF At
        <4> QED
          BY <1>o, <2>1, <4>1, <4>2 DEF SignedFirst
      <3> QED
        BY <3>1, <3>2
    <2>7. launch[l].alone => InOrder(l)'
      <3> SUFFICES ASSUME launch[l].alone PROVE InOrder(l)'
        OBVIOUS
      <3>1. (payload.secret => stored' = payload.login) /\ profile[c].login = payload.login
        BY <1>o, <2>1, <2>2 DEF InOrder
      <3> HIDE DEF payload
      <3> QED
        BY <2>4, <2>5, <3>1 DEF InOrder
    <2> QED
      BY <1>w, <2>2, <2>3, <2>4, <2>6, <2>7, <2>9, TidyMove
  <1>7. ASSUME NEW l \in Launches, Mark(l) PROVE Tidy'
    <2> DEFINE payload == launch[l].payload
               c == payload.connection
    <2>1. /\ launch[l].pc = "marking" /\ UNCHANGED <<stored, profile, muddled>>
          /\ marker' = [marker EXCEPT ![c] = payload.thumbprint]
          /\ Become(l, [launch[l] EXCEPT !.pc = "signing", !.sign = FALSE])
      BY <1>7 DEF Mark, At
    <2>2. Works(l) /\ launch[l].alone \in BOOLEAN /\ payload.thumbprint \in Nat
      BY <1>p, <2>1, SlotTypes, PayloadFields DEF Works
    <2>3. c \in Rdp
      BY <1>o, <2>2 DEF OverRdp
    <2>4. /\ launch'[l].pc = "signing" /\ launch'[l].payload = payload
          /\ launch'[l].sign = FALSE /\ launch'[l].alone = launch[l].alone
          /\ \A m \in Launches \ {l} : launch'[m] = launch[m]
      BY <2>1, <2>2, MarkedFields
    <2>6. marker'[c] = payload.thumbprint /\ \A d \in Rdp \ {c} : marker'[d] = marker[d]
      BY <1>t, <2>1, <2>3 DEF StoreTypes
    <2>9. \A m \in Launches \ {l} : Leaves(l, m)
      BY <2>4 DEF Leaves
    <2>7. SignedFirst'
      <3> SUFFICES ASSUME NEW d \in Rdp \ muddled, profile[d].signer # None
                   PROVE  /\ profile[d].signer >= marker'[d]
                          /\ \A m \in Launches :
                                At(m, "marking")' /\ launch'[m].payload.connection = d =>
                                    profile[d].signer >= launch'[m].payload.thumbprint
        BY <2>1 DEF SignedFirst
      <3>1. \A m \in Launches : At(m, "marking")' => At(m, "marking") /\ launch'[m] = launch[m]
        BY <2>4 DEF At
      <3>2. profile[d].signer >= marker'[d]
        <4>1. CASE d = c
          BY <1>o, <2>1, <2>6, <4>1 DEF SignedFirst, At
        <4>2. CASE d # c
          BY <1>o, <2>6, <4>2 DEF SignedFirst
        <4> QED
          BY <4>1, <4>2
      <3> QED
        BY <1>o, <3>1, <3>2 DEF SignedFirst
    <2>8. launch[l].alone => InOrder(l)'
      <3> SUFFICES ASSUME launch[l].alone PROVE InOrder(l)'
        OBVIOUS
      <3>1. /\ payload.secret => stored' = payload.login
            /\ profile'[c].login = payload.login /\ profile'[c].signer = payload.thumbprint
        BY <1>o, <2>1, <2>2 DEF InOrder
      <3> HIDE DEF payload
      <3> QED
        BY <2>2, <2>4, <3>1 DEF InOrder
    <2> QED
      BY <1>w, <2>2, <2>3, <2>4, <2>7, <2>8, <2>9, TidyMove
  <1>8. ASSUME NEW l \in Launches, OpenClient(l) PROVE Tidy'
    <2>1. Become(l, [pc |-> "open", way |-> "bridge"]) \/ Become(l, Idle)
      BY <1>8 DEF OpenClient
    <2>2. ~Works(l)'
      BY <1>p, <2>1, BecomeFields DEF Works
    <2>3. UNCHANGED <<stored, profile, marker, muddled>>
      BY <1>8 DEF OpenClient
    <2> QED
      BY <1>8, <2>2, <2>3, OneMoves, TidyLeave DEF Step
  <1>9. ASSUME NEW l \in Launches, WriteSession(l) \/ StartSession(l) \/ ReadSession(l)
        PROVE  Tidy'
    <2>1. launch'[l].pc \notin Working
      <3>1. CASE Moved(l, "filed") \/ Moved(l, "session")
        BY <1>9, <1>p, <3>1, MovedFields DEF WriteSession, StartSession, ReadSession, At, Bare
      <3>2. CASE Become(l, Idle)
        BY <1>p, <3>2, BecomeFields
      <3> QED
        BY <1>9, <3>1, <3>2 DEF WriteSession, StartSession, ReadSession
    <2>2. UNCHANGED <<stored, profile, marker, muddled>>
      BY <1>9 DEF WriteSession, StartSession, ReadSession
    <2> QED
      BY <1>9, <2>1, <2>2, OneMoves, TidyLeave DEF Step, Works
  <1>10. ASSUME NEW l \in Launches, ClearCredential(l) PROVE Tidy'
    <2>1. Disturbing(l, Idle) /\ UNCHANGED <<profile, marker, muddled>>
      BY <1>10 DEF ClearCredential
    <2>2. /\ ~Works(l)'
          /\ \A m \in Launches \ {l} : Leaves(l, m) /\ (Works(m) => launch'[m].alone = FALSE)
      BY <1>p, <2>1, DisturbingFields DEF Works
    <2> QED
      BY <2>1, <2>2, TidyLeave
  <1>11. ASSUME NEW l \in Launches, Fail(l) PROVE Tidy'
    <2>1. ~Works(l)' /\ UNCHANGED <<stored, profile, marker, muddled>>
      BY <1>p, <1>11, BecomeFields DEF Fail, Works
    <2> QED
      BY <1>11, <2>1, OneMoves, TidyLeave
  <1>12. ASSUME StopBridge PROVE Tidy'
    <2>1. \A l \in Launches : launch'[l] = launch[l] \/ launch'[l] = Idle
      BY <1>12 DEF StopBridge
    <2>2. UNCHANGED <<stored, profile, marker, muddled>>
      BY <1>12 DEF StopBridge
    <2>3. \A l \in Launches : Works(l)' => launch'[l] = launch[l] /\ Works(l)
      BY <1>p, <2>1 DEF Works
    <2>4. \A l \in Launches : At(l, "marking")' => launch'[l] = launch[l] /\ At(l, "marking")
      BY <2>1 DEF At, Idle
    <2>5. OneWorks' /\ OverRdp'
      BY <1>o, <2>3 DEF OneWorks, OverRdp
    <2>6. SignedFirst'
      BY <1>o, <2>2, <2>4 DEF SignedFirst, At
    <2>7. ASSUME NEW l \in Launches, Works(l)', launch'[l].alone PROVE InOrder(l)'
      <3>1. launch'[l] = launch[l] /\ InOrder(l)
        BY <1>o, <2>3, <2>7
      <3> QED
        BY <2>2, <3>1 DEF InOrder
    <2> QED
      BY <2>5, <2>6, <2>7 DEF Tidy
  <1>13. CASE Backend
    BY <1>13, <1>1, BackendStep
  <1>14. CASE Desktop
    BY <1>14, <1>2, <1>3, <1>4, <1>5, <1>6, <1>7, <1>8, <1>9, <1>10, <1>11, <1>12, Zenon
       DEF Desktop, Step
  <1> QED
    BY <1>1, <1>13, <1>14 DEF LaunchNext, launchVars

\* A client opens on the profile of its own launch, on its credential, if the launch
\* carries one, and on a signature of its certificate or a later one, unless another
\* launch worked on the stores or cleared them in the meantime or the profile was
\* signed out of turn: however launches overlapped before, and whatever failed
\* (writeRDPProfile, signRDPProfile).
THEOREM ClientsOpenAsSent == LaunchSpec => OpensAsSent
  <1>1. LaunchInit => Tidy
    BY DEF LaunchInit, Tidy, OverRdp, OneWorks, SignedFirst, Idle, Works, Working, NoProfile
  <1>2. ASSUME LaunchTypeOK, Tidy, NEW l \in Launches, OpenClient(l), launch[l].alone
        PROVE  LET payload == launch[l].payload
                   c == payload.connection
               IN  /\ payload.secret => stored = payload.login
                   /\ profile[c].login = payload.login
                   /\ payload.thumbprint # None /\ c \notin muddled =>
                          profile[c].signer >= payload.thumbprint
    <2>1. launch[l].pc = "signing" /\ ~NeedsSignature(l)
      BY <1>2 DEF OpenClient, Opens, At
    <2>2. InOrder(l)
      BY <1>2, <2>1 DEF Tidy, Works, Working
    <2> QED
      BY <2>1, <2>2 DEF InOrder, NeedsSignature
  <1>3. ASSUME LaunchTypeOK, Tidy, [LaunchNext]_launchVars
        PROVE  [\A l \in Launches :
                   LET payload == launch[l].payload
                       c == payload.connection
                   IN  OpenClient(l) /\ launch[l].alone =>
                           /\ payload.secret => stored = payload.login
                           /\ profile[c].login = payload.login
                           /\ payload.thumbprint # None /\ c \notin muddled =>
                                 profile[c].signer >= payload.thumbprint]_launchVars
    BY <1>2, <1>3
  <1>4. LaunchSpec => [](LaunchTypeOK /\ Tidy)
    BY <1>1, LaunchTypeInit, LaunchTypeStep, TidyStep, PTL DEF LaunchSpec
  <1> QED
    BY <1>3, <1>4, PTL DEF LaunchSpec, OpensAsSent
=============================================================================
