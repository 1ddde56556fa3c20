--------------------------- MODULE OrganisationProofs ---------------------------
(***************************************************************************)
(* Theorems about Organisation, for any people, invitations, groups and    *)
(* any number of requests between their reads and their writes; about      *)
(* SignIn, for any accounts, browsers and tabs; about TaskQueue, for any   *)
(* users, tasks and size of a page; and about what an organisation gets    *)
(* computed from clocks: the deadlines counted on its working calendar,    *)
(* for any weeks, holidays and zones, and the times that its reports       *)
(* count, for any cases, people and outcomes of the engine, and trails of  *)
(* any length.                                                             *)
(***************************************************************************)
EXTENDS Organisation, SignIn, TaskQueue, WorkingCalendar, Reports,
        FiniteSetTheorems, SequenceTheorems, WellFoundedInduction, TLAPS

(* What a request holds between its reads and its writes.                  *)
NewStatus == {"active", "suspended", "removed", Keep}

RequestRow ==
  [pc : {"free", "found", "join", "mark", "change", "group"},
   person : Person \cup {None}, id : Invitation \cup Group \cup {None},
   role : Role \cup {Keep}, status : NewStatus, key : 0 .. Cardinality(Group)]

(* Each kind of request knows what it writes to.                           *)
KnowsItsRows(r) ==
  /\ r.pc \in {"join", "mark"} => r.person \in Person /\ r.id \in Invitation
  /\ r.pc = "change" => r.person \in Person
  /\ r.pc = "group" => r.id \in Group
  /\ r.id \in Invitation => r.pc \in {"join", "mark"}

(* Before there is a first owner nobody can do anything.                   *)
NothingBeforeTheFounder ==
  /\ organisation # "founded" =>
       /\ \A p \in Person : ~HasRow(p)
       /\ session = {}
       /\ \A i \in Invitation : ~invitation[i].there
       /\ \A c \in Client : request[c].pc \in {"free", "found"}
  /\ \A c, d \in Client : request[c].pc = "found" =>
       /\ organisation = "unowned"
       /\ request[d].pc = "found" => c = d

(* What an invitation has given, given the requests that accept it.        *)
Accepting(i) == {c \in Client : request[c].id = i}

SettledOnce(i) ==
  /\ ~(invitation[i].accepted /\ invitation[i].revoked)
  /\ \A c, d \in Accepting(i) : c = d
  /\ \A c \in Accepting(i) :
       /\ invitation[i].there /\ ~invitation[i].accepted /\ ~invitation[i].revoked
       /\ grants[i] = IF request[c].pc = "mark" THEN 1 ELSE 0
  /\ Accepting(i) = {} => grants[i] = IF invitation[i].accepted THEN 1 ELSE 0

InvitationsAreSettledOnce == \A i \in Invitation \ loose : SettledOnce(i)

(* A membership that was granted is there when the session is opened.      *)
GrantedIsThere ==
  \A c \in Client : request[c].pc = "mark" => HasRow(request[c].person)

(* A change takes an owner away.                                           *)
Loses(r) == r.role \notin {Keep, "owner"} \/ r.status \notin {Keep, "active"}

(* While changes come one after the other, there is an owner besides the   *)
(* one whom a change in flight would take away.                            *)
AnotherOwnerRemains ==
  overlapped \/
  /\ OwnerRemains
  /\ \A c, d \in Client :
       request[c].pc = "change" =>
         /\ request[d].pc = "change" => c = d
         /\ Loses(request[c]) => ActiveOwners \ {request[c].person} # {}

RequestsAreTyped ==
  request \in [Client -> RequestRow] /\ \A c \in Client : KnowsItsRows(request[c])

Typed == TypeOK /\ RequestsAreTyped

OrganisationIInv ==
  /\ Typed
  /\ NothingBeforeTheFounder
  /\ InvitationsAreSettledOnce
  /\ GrantedIsThere
  /\ ReferencesSurvive
  /\ KeysNameOneGroup
  /\ AnotherOwnerRemains

-----------------------------------------------------------------------------
(* Kinds.                                                                  *)

LEMMA KeysAreNumbers == Cardinality(Group) \in Nat
BY OrganisationAssumption, FS_CardinalityType

LEMMA FreeIsRequest == Free \in RequestRow /\ KnowsItsRows(Free) /\ Free.pc = "free"
                       /\ Free.id = None
BY KeysAreNumbers, OrganisationAssumption DEF Free, RequestRow, KnowsItsRows, NewStatus

(* The requests there are after one has begun, and after one has ended.    *)
Begins(c, r) ==
  /\ request' \in [Client -> RequestRow]
  /\ request[c] = Free /\ request'[c] = r /\ \A d \in Client \ {c} : request'[d] = request[d]

LEMMA StartIsTyped ==
  ASSUME Typed, NEW c \in Client, NEW r \in RequestRow, KnowsItsRows(r), Start(c, r)
  PROVE  Begins(c, r) /\ RequestsAreTyped' /\ requests' \in 0 .. MaxRequests
<1>1. requests' \in 0 .. MaxRequests
  BY OrganisationAssumption DEF Typed, TypeOK, Start
<1>2. Begins(c, r)
  BY DEF Typed, RequestsAreTyped, Start, Begins
<1>3. RequestsAreTyped'
  BY <1>2 DEF Typed, RequestsAreTyped, Begins
<1> QED
  BY <1>1, <1>2, <1>3

(* A request ends, or goes on with what it holds.                          *)
Moves(c, r) ==
  /\ request' \in [Client -> RequestRow]
  /\ request'[c] = r /\ \A d \in Client \ {c} : request'[d] = request[d]

LEMMA MoveIsTyped ==
  ASSUME Typed, NEW c \in Client, NEW r \in RequestRow, KnowsItsRows(r),
         request' = [request EXCEPT ![c] = r]
  PROVE  Moves(c, r) /\ RequestsAreTyped'
<1>1. Moves(c, r)
  BY DEF Typed, RequestsAreTyped, Moves
<1> QED
  BY <1>1 DEF Typed, RequestsAreTyped, Moves

LEMMA DoneIsTyped ==
  ASSUME Typed, NEW c \in Client, Done(c)
  PROVE  Moves(c, Free) /\ RequestsAreTyped' /\ requests' = requests
BY FreeIsRequest, MoveIsTyped DEF Done

LEMMA AtOnceIsTyped ==
  ASSUME Typed, AtOnce
  PROVE  requests' \in 0 .. MaxRequests /\ RequestsAreTyped' /\ UNCHANGED request
<1>1. requests' \in 0 .. MaxRequests /\ UNCHANGED request
  BY OrganisationAssumption DEF Typed, TypeOK, AtOnce
<1> QED
  BY <1>1 DEF Typed, RequestsAreTyped

(* What each request holds when it begins.                                 *)
ToFound == [Free EXCEPT !.pc = "found", !.person = Founder]
ToJoin(p, i) == [Free EXCEPT !.pc = "join", !.person = p, !.id = i]
ToChange(p, role, status) ==
  [Free EXCEPT !.pc = "change", !.person = p, !.role = role, !.status = status]
ToGroup(g, k) == [Free EXCEPT !.pc = "group", !.id = g, !.key = k]

LEMMA ToFoundIsRequest ==
  /\ ToFound \in RequestRow /\ KnowsItsRows(ToFound)
  /\ ToFound.pc = "found" /\ ToFound.id = None
BY FreeIsRequest, OrganisationAssumption DEF ToFound, RequestRow, KnowsItsRows

LEMMA ToJoinIsRequest ==
  ASSUME NEW p \in Person, NEW i \in Invitation
  PROVE  /\ ToJoin(p, i) \in RequestRow /\ KnowsItsRows(ToJoin(p, i))
         /\ ToJoin(p, i).pc = "join" /\ ToJoin(p, i).person = p /\ ToJoin(p, i).id = i
BY FreeIsRequest DEF ToJoin, RequestRow, KnowsItsRows

LEMMA ToChangeIsRequest ==
  ASSUME NEW p \in Person, NEW role \in Role \cup {Keep}, NEW status \in NewStatus
  PROVE  /\ ToChange(p, role, status) \in RequestRow
         /\ KnowsItsRows(ToChange(p, role, status))
         /\ ToChange(p, role, status).pc = "change" /\ ToChange(p, role, status).id = None
         /\ ToChange(p, role, status).person = p
         /\ ToChange(p, role, status).role = role
         /\ ToChange(p, role, status).status = status
BY FreeIsRequest, OrganisationAssumption DEF ToChange, RequestRow, KnowsItsRows

LEMMA ToGroupIsRequest ==
  ASSUME NEW g \in Group, NEW k \in 0 .. Cardinality(Group)
  PROVE  /\ ToGroup(g, k) \in RequestRow /\ KnowsItsRows(ToGroup(g, k))
         /\ ToGroup(g, k).pc = "group" /\ ToGroup(g, k).id = g /\ ToGroup(g, k).key = k
BY FreeIsRequest, OrganisationAssumption DEF ToGroup, RequestRow, KnowsItsRows

-----------------------------------------------------------------------------
(* Who writes what.                                                        *)

WritesGroup ==
  \/ \E c \in Client : CreateGroup(c)
  \/ \E g \in Group : Reference(g)
  \/ \E actor \in Person, g \in Group : DeleteGroup(actor, g)
  \/ \E actor, p \in Person, g \in Group :
       EnsureGroupMember(actor, g, p) \/ RemoveGroupMember(actor, g, p)

WritesDelegation ==
  \/ \E p, to \in Person, d \in Delegation : CreateDelegation(p, to, d)
  \/ \E p \in Person, d \in Delegation : DeleteDelegation(p, d)

WritesInvitation ==
  \/ \E p, email \in Person, i \in Invitation, role \in Role : CreateInvitation(p, i, email, role)
  \/ \E p \in Person, i \in Invitation : RevokeInvitation(p, i)
  \/ \E i \in Invitation : SevenDaysPass(i)
  \/ \E c \in Client : MarkInvitationAccepted(c)

WritesMember == \E c \in Client : FirstOwner(c) \/ Join(c) \/ UpdateOrganisationMember(c)

WritesSession ==
  \/ \E c \in Client : FirstOwner(c) \/ MarkInvitationAccepted(c)
  \/ \E p \in Person : SignIn(p) \/ SessionEnds(p)

(* PATCH and DELETE of a member begin alike.                               *)
StartsChange(c) ==
  \E actor, p \in Person, role \in Role \cup {Keep}, status \in NewStatus :
    StartChange(c, actor, p, role, status)

LEMMA ChangesBegin ==
  ASSUME NEW c \in Client, NEW actor \in Person, NEW p \in Person,
         PatchMember(c, actor, p) \/ RemoveMember(c, actor, p)
  PROVE  StartsChange(c)
BY DEF PatchMember, RemoveMember, StartsChange, NewStatus

(* The steps of a request, but those that write a group.                   *)
LEMMA Writers ==
  ASSUME OrganisationNext
  PROVE  /\ UNCHANGED group \/ WritesGroup
         /\ UNCHANGED delegation \/ WritesDelegation
         /\ UNCHANGED invitation \/ WritesInvitation
         /\ UNCHANGED member \/ WritesMember
         /\ UNCHANGED session \/ WritesSession
         /\ UNCHANGED organisation
            \/ \E c \in Client : CreateOrganisation(c) \/ FirstOwner(c)
         /\ UNCHANGED grants \/ \E c \in Client : Join(c)
         /\ UNCHANGED overlapped \/ \E c \in Client : Join(c) \/ StartsChange(c)
         /\ UNCHANGED loose
            \/ (\E p \in Person, i \in Invitation : RevokeInvitation(p, i))
            \/ \E c \in Client : Stop(c) \/ \E p \in Person, i \in Invitation : StartAccept(c, p, i)
         /\ UNCHANGED <<request, requests>> \/ (AtOnce /\ UNCHANGED request)
            \/ \E c \in Client :
                 \/ CreateOrganisation(c) \/ FirstOwner(c)
                 \/ \E p \in Person, i \in Invitation : StartAccept(c, p, i)
                 \/ Join(c) \/ MarkInvitationAccepted(c) \/ StartsChange(c)
                 \/ UpdateOrganisationMember(c)
                 \/ \E actor \in Person, g \in Group : StartGroup(c, actor, g)
                 \/ CreateGroup(c) \/ Stop(c)
<1>1. ASSUME NEW c \in Client, ClientStep(c), ~StartsChange(c)
      PROVE  \/ CreateOrganisation(c) \/ FirstOwner(c)
             \/ \E p \in Person, i \in Invitation : StartAccept(c, p, i)
             \/ Join(c) \/ MarkInvitationAccepted(c)
             \/ UpdateOrganisationMember(c)
             \/ \E actor \in Person, g \in Group : StartGroup(c, actor, g)
             \/ CreateGroup(c) \/ Stop(c)
  BY <1>1, ChangesBegin DEF ClientStep
<1>2. ASSUME NEW c \in Client, StartsChange(c)
      PROVE  UNCHANGED <<organisation, member, invitation, group, delegation, session, grants, loose>>
  BY <1>2 DEF StartsChange, StartChange
<1> USE DEF CreateOrganisation, FirstOwner, SignIn, SessionEnds, CreateInvitation,
            RevokeInvitation, SevenDaysPass, StartAccept, Join, MarkInvitationAccepted,
            UpdateOrganisationMember, Stop, StartGroup, CreateGroup, Reference, DeleteGroup,
            EnsureGroupMember, RemoveGroupMember, CreateDelegation, DeleteDelegation
<1>3. UNCHANGED group \/ WritesGroup
  BY <1>1, <1>2 DEF OrganisationNext, WritesGroup
<1>4. UNCHANGED delegation \/ WritesDelegation
  BY <1>1, <1>2 DEF OrganisationNext, WritesDelegation
<1>5. UNCHANGED invitation \/ WritesInvitation
  BY <1>1, <1>2 DEF OrganisationNext, WritesInvitation
<1>6. UNCHANGED member \/ WritesMember
  BY <1>1, <1>2 DEF OrganisationNext, WritesMember
<1>7. UNCHANGED session \/ WritesSession
  BY <1>1, <1>2 DEF OrganisationNext, WritesSession
<1>8. UNCHANGED organisation \/ \E c \in Client : CreateOrganisation(c) \/ FirstOwner(c)
  BY <1>1, <1>2 DEF OrganisationNext
<1>9. UNCHANGED grants \/ \E c \in Client : Join(c)
  BY <1>1, <1>2 DEF OrganisationNext
<1>10. UNCHANGED overlapped \/ \E c \in Client : Join(c) \/ StartsChange(c)
  BY <1>1 DEF OrganisationNext
<1>11. UNCHANGED loose
       \/ (\E p \in Person, i \in Invitation : RevokeInvitation(p, i))
       \/ \E c \in Client : Stop(c) \/ \E p \in Person, i \in Invitation : StartAccept(c, p, i)
  <2>1. ASSUME NEW c \in Client,
               \/ CreateOrganisation(c) \/ FirstOwner(c) \/ Join(c) \/ MarkInvitationAccepted(c)
               \/ UpdateOrganisationMember(c) \/ CreateGroup(c)
               \/ \E actor \in Person, g \in Group : StartGroup(c, actor, g)
        PROVE  UNCHANGED loose
    BY <2>1
  <2> HIDE DEF CreateOrganisation, FirstOwner, StartAccept, Join, MarkInvitationAccepted,
               UpdateOrganisationMember, Stop, StartGroup, CreateGroup
  <2>2. (\E c \in Client : ClientStep(c)) \/ UNCHANGED loose
        \/ \E p \in Person, i \in Invitation : RevokeInvitation(p, i)
    <3> HIDE DEF RevokeInvitation
    <3> QED
      BY DEF OrganisationNext
  <2> QED
    BY <1>1, <1>2, <2>1, <2>2
<1>12. (\E c \in Client : ClientStep(c))
       \/ UNCHANGED <<request, requests>> \/ (AtOnce /\ UNCHANGED request)
  <2>1. ASSUME NEW p \in Person, SignIn(p) \/ SessionEnds(p)
        PROVE  UNCHANGED <<request, requests>>
    BY <2>1
  <2>2. ASSUME NEW i \in Invitation, SevenDaysPass(i)
        PROVE  UNCHANGED <<request, requests>>
    BY <2>2
  <2>3. AtOnce => UNCHANGED request
    BY DEF AtOnce
  <2>4. /\ \A p, q \in Person, i \in Invitation, role \in Role :
             CreateInvitation(p, i, q, role) => AtOnce
        /\ \A p \in Person, i \in Invitation : RevokeInvitation(p, i) => AtOnce
    BY DEF AtOnce
  <2>5. /\ \A g \in Group : Reference(g) => AtOnce
        /\ \A p \in Person, g \in Group : DeleteGroup(p, g) => AtOnce
        /\ \A p, q \in Person, g \in Group :
             EnsureGroupMember(p, g, q) \/ RemoveGroupMember(p, g, q) => AtOnce
    BY DEF AtOnce
  <2>6. /\ \A p, q \in Person, d \in Delegation : CreateDelegation(p, q, d) => AtOnce
        /\ \A p \in Person, d \in Delegation : DeleteDelegation(p, d) => AtOnce
    BY DEF AtOnce
  <2> HIDE DEF SignIn, SessionEnds, CreateInvitation, RevokeInvitation, SevenDaysPass,
               Reference, DeleteGroup, EnsureGroupMember, RemoveGroupMember,
               CreateDelegation, DeleteDelegation
  <2> QED
    BY <2>1, <2>2, <2>3, <2>4, <2>5, <2>6 DEF OrganisationNext
<1>13. UNCHANGED <<request, requests>> \/ (AtOnce /\ UNCHANGED request)
       \/ \E c \in Client :
            \/ CreateOrganisation(c) \/ FirstOwner(c)
            \/ \E p \in Person, i \in Invitation : StartAccept(c, p, i)
            \/ Join(c) \/ MarkInvitationAccepted(c) \/ StartsChange(c)
            \/ UpdateOrganisationMember(c)
            \/ \E actor \in Person, g \in Group : StartGroup(c, actor, g)
            \/ CreateGroup(c) \/ Stop(c)
  <2> HIDE DEF CreateOrganisation, FirstOwner, StartAccept, Join, MarkInvitationAccepted,
               UpdateOrganisationMember, Stop, StartGroup, CreateGroup
  <2> QED
    BY <1>1, <1>12
<1> HIDE DEF CreateOrganisation, FirstOwner, SignIn, SessionEnds, CreateInvitation,
             RevokeInvitation, SevenDaysPass, StartAccept, Join, MarkInvitationAccepted,
             UpdateOrganisationMember, Stop, StartGroup, CreateGroup, Reference, DeleteGroup,
             EnsureGroupMember, RemoveGroupMember, CreateDelegation, DeleteDelegation
<1> QED
  BY <1>3, <1>4, <1>5, <1>6, <1>7, <1>8, <1>9, <1>10, <1>11, <1>13


-----------------------------------------------------------------------------
(* Kinds are kept.                                                         *)

LEMMA RequestsStayTyped ==
  ASSUME Typed, OrganisationNext
  PROVE  RequestsAreTyped' /\ requests' \in 0 .. MaxRequests
<1>1. CASE UNCHANGED <<request, requests>>
  BY <1>1 DEF Typed, TypeOK, RequestsAreTyped
<1>2. CASE AtOnce /\ UNCHANGED request
  BY <1>2, AtOnceIsTyped
<1>3. ASSUME NEW c \in Client, CreateOrganisation(c)
      PROVE  RequestsAreTyped' /\ requests' \in 0 .. MaxRequests
  BY <1>3, ToFoundIsRequest, StartIsTyped DEF CreateOrganisation, ToFound
<1>4. ASSUME NEW c \in Client, FirstOwner(c) \/ MarkInvitationAccepted(c)
                               \/ UpdateOrganisationMember(c) \/ CreateGroup(c) \/ Stop(c)
      PROVE  RequestsAreTyped' /\ requests' \in 0 .. MaxRequests
  <2>1. Done(c)
    BY <1>4 DEF FirstOwner, MarkInvitationAccepted, UpdateOrganisationMember, CreateGroup, Stop
  <2> QED
    BY <2>1, DoneIsTyped DEF Typed, TypeOK
<1>5. ASSUME NEW c \in Client, NEW p \in Person, NEW i \in Invitation, StartAccept(c, p, i)
      PROVE  RequestsAreTyped' /\ requests' \in 0 .. MaxRequests
  BY <1>5, ToJoinIsRequest, StartIsTyped DEF StartAccept, ToJoin
<1>6. ASSUME NEW c \in Client, Join(c)
      PROVE  RequestsAreTyped' /\ requests' \in 0 .. MaxRequests
  <2> DEFINE r == [request[c] EXCEPT !.pc = "mark"]
  <2>1. r \in RequestRow /\ KnowsItsRows(r)
    BY <1>6 DEF Typed, RequestsAreTyped, Join, RequestRow, KnowsItsRows
  <2>2. request' = [request EXCEPT ![c] = r] /\ requests' = requests
    BY <1>6 DEF Join
  <2> HIDE DEF r
  <2> QED
    BY <2>1, <2>2, MoveIsTyped DEF Typed, TypeOK
<1>7. ASSUME NEW c \in Client, StartsChange(c)
      PROVE  RequestsAreTyped' /\ requests' \in 0 .. MaxRequests
  <2>1. PICK actor \in Person, p \in Person, role \in Role \cup {Keep}, status \in NewStatus :
          StartChange(c, actor, p, role, status)
    BY <1>7 DEF StartsChange
  <2>2. Start(c, ToChange(p, role, status))
    BY <2>1 DEF StartChange, ToChange
  <2> QED
    BY <2>2, ToChangeIsRequest, StartIsTyped
<1>8. ASSUME NEW c \in Client, NEW actor \in Person, NEW g \in Group, StartGroup(c, actor, g)
      PROVE  RequestsAreTyped' /\ requests' \in 0 .. MaxRequests
  <2>1. PICK k \in 1 .. Cardinality(Group) : Start(c, ToGroup(g, k))
    BY <1>8 DEF StartGroup, ToGroup
  <2>2. k \in 0 .. Cardinality(Group)
    BY KeysAreNumbers
  <2> QED
    BY <2>1, <2>2, ToGroupIsRequest, StartIsTyped
<1> QED
  BY <1>1, <1>2, <1>3, <1>4, <1>5, <1>6, <1>7, <1>8, Writers

LEMMA RowsStayTyped ==
  ASSUME Typed, OrganisationNext
  PROVE  TypeOK'
<1>1. organisation' \in {"absent", "unowned", "founded"}
  BY Writers DEF Typed, TypeOK, CreateOrganisation, FirstOwner
<1>2. member' \in [Person -> Member]
  <2>1. ASSUME NEW c \in Client, FirstOwner(c)
        PROVE  member' \in [Person -> Member]
    BY <2>1 DEF FirstOwner, Typed, TypeOK, Member, Role
  <2>2. ASSUME NEW c \in Client, Join(c)
        PROVE  member' \in [Person -> Member]
    <3>1. request[c].id \in Invitation
      BY <2>2 DEF Join, Typed, RequestsAreTyped, KnowsItsRows
    <3>2. invitation[request[c].id].role \in Role
      BY <3>1 DEF Typed, TypeOK, InvitationRow
    <3> QED
      BY <2>2, <3>2 DEF Join, Typed, TypeOK, Member
  <2>3. ASSUME NEW c \in Client, UpdateOrganisationMember(c)
        PROVE  member' \in [Person -> Member]
    <3> DEFINE r == request[c]
    <3>1. r \in RequestRow
      BY DEF Typed, RequestsAreTyped
    <3>2. /\ r.role \in Role \cup {Keep} /\ r.status \in NewStatus
          /\ member \in [Person -> Member]
      BY <3>1 DEF RequestRow, Typed, TypeOK
    <3> DEFINE role(m) == IF r.role = Keep THEN m.role ELSE r.role
               status(m) == IF r.status = Keep THEN m.status ELSE r.status
    <3>3. \A m \in Member : role(m) \in Role /\ status(m) \in {"none", "active", "suspended", "removed"}
      BY <3>2 DEF Member, NewStatus
    <3>4. \A m \in Member : [m EXCEPT !.role = role(m), !.status = status(m)] \in Member
      BY <3>3 DEF Member
    <3>5. member' = [member EXCEPT ![r.person] =
                       [member[r.person] EXCEPT !.role = role(member[r.person]),
                                                !.status = status(member[r.person])]]
      BY <2>3, <3>2 DEF UpdateOrganisationMember, Member
    <3> HIDE DEF r, role, status
    <3> QED
      BY <3>2, <3>4, <3>5
  <2> QED
    BY <2>1, <2>2, <2>3, Writers DEF WritesMember, Typed, TypeOK
<1>3. invitation' \in [Invitation -> InvitationRow]
  <2>1. invitation \in [Invitation -> InvitationRow]
    BY DEF Typed, TypeOK
  <2>2. ASSUME NEW p \in Person, NEW email \in Person, NEW i \in Invitation, NEW role \in Role,
               CreateInvitation(p, i, email, role)
        PROVE  invitation' \in [Invitation -> InvitationRow]
    BY <2>1, <2>2 DEF CreateInvitation, InvitationRow
  <2>3. ASSUME NEW i \in Invitation,
               SevenDaysPass(i) \/ \E p \in Person : RevokeInvitation(p, i)
        PROVE  invitation' \in [Invitation -> InvitationRow]
    BY <2>1, <2>3 DEF SevenDaysPass, RevokeInvitation, InvitationRow
  <2>4. ASSUME NEW c \in Client, MarkInvitationAccepted(c)
        PROVE  invitation' \in [Invitation -> InvitationRow]
    BY <2>1, <2>4 DEF MarkInvitationAccepted, InvitationRow
  <2> QED
    BY <2>1, <2>2, <2>3, <2>4, Writers DEF WritesInvitation
<1>4. group' \in [Group -> GroupRow]
  <2>1. group \in [Group -> GroupRow] /\ 0 \in 0 .. Cardinality(Group)
    BY KeysAreNumbers DEF Typed, TypeOK
  <2>2. ASSUME NEW c \in Client, CreateGroup(c)
        PROVE  group' \in [Group -> GroupRow]
    <3>1. request[c].key \in 0 .. Cardinality(Group)
      BY DEF Typed, RequestsAreTyped, RequestRow
    <3> QED
      BY <2>1, <2>2, <3>1 DEF CreateGroup, GroupRow
  <2>3. ASSUME NEW g \in Group, Reference(g)
        PROVE  group' \in [Group -> GroupRow]
    BY <2>1, <2>3 DEF Reference, GroupRow
  <2>5. ASSUME NEW g \in Group, NEW actor \in Person, DeleteGroup(actor, g)
        PROVE  group' \in [Group -> GroupRow]
    <3>1. [key |-> 0, members |-> {}, used |-> FALSE] \in GroupRow
      BY <2>1 DEF GroupRow
    <3> QED
      BY <2>1, <2>5, <3>1 DEF DeleteGroup
  <2>4. ASSUME NEW actor \in Person, NEW p \in Person, NEW g \in Group,
               EnsureGroupMember(actor, g, p) \/ RemoveGroupMember(actor, g, p)
        PROVE  group' \in [Group -> GroupRow]
    BY <2>1, <2>4 DEF EnsureGroupMember, RemoveGroupMember, GroupRow
  <2> QED
    BY <2>1, <2>2, <2>3, <2>4, <2>5, Writers DEF WritesGroup
<1>5. delegation' \in [Delegation -> DelegationRow]
  BY Writers DEF WritesDelegation, CreateDelegation, DeleteDelegation, Typed, TypeOK, DelegationRow
<1>6. session' \subseteq Person
  <2>1. ASSUME NEW c \in Client, MarkInvitationAccepted(c)
        PROVE  session' \subseteq Person
    BY <2>1 DEF MarkInvitationAccepted, Typed, TypeOK, RequestsAreTyped, KnowsItsRows
  <2> QED
    BY <2>1, Writers, OrganisationAssumption
       DEF WritesSession, FirstOwner, SignIn, SessionEnds, Typed, TypeOK
<1>7. requests' \in 0 .. MaxRequests
  BY RequestsStayTyped
<1>8. grants' \in [Invitation -> Nat]
  <2>1. grants \in [Invitation -> Nat]
    BY DEF Typed, TypeOK
  <2>2. ASSUME NEW c \in Client, Join(c)
        PROVE  grants' \in [Invitation -> Nat]
    <3>1. \A n \in Nat : n + 1 \in Nat
      OBVIOUS
    <3>2. grants' = [grants EXCEPT ![request[c].id] = grants[request[c].id] + 1]
      BY <2>2 DEF Join
    <3> QED
      BY <2>1, <3>1, <3>2
  <2> QED
    BY <2>1, <2>2, Writers
<1>9. loose' \subseteq Invitation
  <2>1. ASSUME NEW c \in Client, Stop(c)
        PROVE  loose' \subseteq Invitation
    BY <2>1 DEF Stop, Typed, TypeOK, RequestsAreTyped, KnowsItsRows
  <2> QED
    BY <2>1, Writers DEF RevokeInvitation, StartAccept, Typed, TypeOK
<1>10. overlapped' \in BOOLEAN
  <2>1. ASSUME NEW c \in Client, Join(c) \/ StartsChange(c)
        PROVE  overlapped' \in BOOLEAN
    BY <2>1 DEF Join, StartsChange, StartChange
  <2> QED
    BY <2>1, Writers DEF Typed, TypeOK
<1>11. \A c \in Client : request'[c].pc \in {"free", "found", "join", "mark", "change", "group"}
  <2>1. request' \in [Client -> RequestRow]
    BY RequestsStayTyped DEF RequestsAreTyped
  <2> QED
    BY <2>1 DEF RequestRow
<1> QED
  BY <1>1, <1>2, <1>3, <1>4, <1>5, <1>6, <1>7, <1>8, <1>9, <1>10, <1>11 DEF TypeOK


(* How the requests of clients move: one at a time.                        *)
LEMMA RequestsMove ==
  ASSUME Typed, OrganisationNext, NEW c \in Client, request'[c] # request[c]
  PROVE  /\ \A d \in Client \ {c} : request'[d] = request[d]
         /\ \/ request'[c] = Free
            \/ CreateOrganisation(c) /\ request'[c] = ToFound
            \/ \E p \in Person, i \in Invitation : StartAccept(c, p, i) /\ request'[c] = ToJoin(p, i)
            \/ Join(c) /\ request'[c] = [request[c] EXCEPT !.pc = "mark"]
            \/ \E actor, p \in Person, role \in Role \cup {Keep}, status \in NewStatus :
                 StartChange(c, actor, p, role, status) /\ request'[c] = ToChange(p, role, status)
            \/ \E actor \in Person, g \in Group, k \in 0 .. Cardinality(Group) :
                 StartGroup(c, actor, g) /\ request'[c] = ToGroup(g, k)
<1>1. request \in [Client -> RequestRow]
  BY DEF Typed, RequestsAreTyped
<1>2. ~UNCHANGED request
  OBVIOUS
<1> DEFINE Only(d) == d = c /\ \A e \in Client \ {c} : request'[e] = request[e]
<1>3. ASSUME NEW d \in Client, NEW r \in RequestRow, Begins(d, r) \/ Moves(d, r)
      PROVE  Only(d) /\ request'[d] = r
  BY <1>3 DEF Begins, Moves
<1> HIDE DEF Only
<1>4. ASSUME NEW d \in Client, CreateOrganisation(d)
      PROVE  Only(d) /\ request'[d] = ToFound
  <2>1. Start(d, ToFound)
    BY <1>4 DEF CreateOrganisation, ToFound
  <2> QED
    BY <1>3, <2>1, ToFoundIsRequest, StartIsTyped
<1>5. ASSUME NEW d \in Client, FirstOwner(d) \/ MarkInvitationAccepted(d)
                               \/ UpdateOrganisationMember(d) \/ CreateGroup(d) \/ Stop(d)
      PROVE  Only(d) /\ request'[d] = Free
  <2>1. Done(d)
    BY <1>5 DEF FirstOwner, MarkInvitationAccepted, UpdateOrganisationMember, CreateGroup, Stop
  <2> QED
    BY <1>3, <2>1, DoneIsTyped, FreeIsRequest
<1>6. ASSUME NEW d \in Client, NEW p \in Person, NEW i \in Invitation, StartAccept(d, p, i)
      PROVE  Only(d) /\ request'[d] = ToJoin(p, i)
  <2>1. Start(d, ToJoin(p, i))
    BY <1>6 DEF StartAccept, ToJoin
  <2> QED
    BY <1>3, <2>1, ToJoinIsRequest, StartIsTyped
<1>7. ASSUME NEW d \in Client, Join(d)
      PROVE  Only(d) /\ request'[d] = [request[d] EXCEPT !.pc = "mark"]
  BY <1>1, <1>2, <1>7 DEF Join, Only
<1>8. ASSUME NEW d \in Client, NEW actor \in Person, NEW p \in Person,
             NEW role \in Role \cup {Keep}, NEW status \in NewStatus,
             StartChange(d, actor, p, role, status)
      PROVE  Only(d) /\ request'[d] = ToChange(p, role, status)
  <2>1. Start(d, ToChange(p, role, status))
    BY <1>8 DEF StartChange, ToChange
  <2> QED
    BY <1>3, <2>1, ToChangeIsRequest, StartIsTyped
<1>9. ASSUME NEW d \in Client, NEW actor \in Person, NEW g \in Group, StartGroup(d, actor, g)
      PROVE  Only(d) /\ \E k \in 0 .. Cardinality(Group) : request'[d] = ToGroup(g, k)
  <2>1. PICK k \in 1 .. Cardinality(Group) : Start(d, ToGroup(g, k))
    BY <1>9 DEF StartGroup, ToGroup
  <2>2. k \in 0 .. Cardinality(Group)
    BY KeysAreNumbers
  <2> QED
    BY <1>3, <2>1, <2>2, ToGroupIsRequest, StartIsTyped
<1>10. ~(AtOnce /\ UNCHANGED request) /\ ~UNCHANGED <<request, requests>>
  BY <1>2
<1>11. PICK d \in Client :
         \/ CreateOrganisation(d) \/ FirstOwner(d)
         \/ \E p \in Person, i \in Invitation : StartAccept(d, p, i)
         \/ Join(d) \/ MarkInvitationAccepted(d) \/ StartsChange(d)
         \/ UpdateOrganisationMember(d)
         \/ \E actor \in Person, g \in Group : StartGroup(d, actor, g)
         \/ CreateGroup(d) \/ Stop(d)
  BY <1>10, Writers
<1>12. Only(d)
  BY <1>4, <1>5, <1>6, <1>7, <1>8, <1>9, <1>11 DEF StartsChange
<1>13. d = c /\ \A e \in Client \ {c} : request'[e] = request[e]
  BY <1>12 DEF Only
<1>14. CASE \E actor \in Person, g \in Group : StartGroup(d, actor, g)
  BY <1>9, <1>13, <1>14
<1>15. CASE StartsChange(d)
  BY <1>8, <1>13, <1>15 DEF StartsChange
<1>16. CASE \E p \in Person, i \in Invitation : StartAccept(d, p, i)
  BY <1>6, <1>13, <1>16
<1> QED
  BY <1>4, <1>5, <1>7, <1>11, <1>13, <1>14, <1>15, <1>16

-----------------------------------------------------------------------------
(* Before the first owner, and after.                                      *)

LEMMA NothingHappensBefore ==
  ASSUME Typed, NothingBeforeTheFounder, OrganisationNext, organisation # "founded"
  PROVE  \/ \E c \in Client : CreateOrganisation(c) \/ FirstOwner(c) \/ Stop(c)
         \/ \E g \in Group : Reference(g)
<1>1. /\ \A p \in Person : ~HasRow(p) /\ ~IsAdministrator(p)
      /\ session = {}
      /\ \A i \in Invitation : ~invitation[i].there
      /\ \A c \in Client : request[c].pc \in {"free", "found"}
  BY DEF NothingBeforeTheFounder, IsAdministrator
<1>2. ASSUME NEW c \in Client, ClientStep(c)
      PROVE  CreateOrganisation(c) \/ FirstOwner(c) \/ Stop(c)
  <2>1. ~Join(c) /\ ~MarkInvitationAccepted(c) /\ ~UpdateOrganisationMember(c) /\ ~CreateGroup(c)
    BY <1>1 DEF Join, MarkInvitationAccepted, UpdateOrganisationMember, CreateGroup
  <2>2. \A p \in Person, i \in Invitation : ~StartAccept(c, p, i)
    BY <1>1 DEF StartAccept, Outstanding
  <2>3. \A actor, p \in Person : ~PatchMember(c, actor, p) /\ ~RemoveMember(c, actor, p)
    BY <1>1 DEF PatchMember, RemoveMember, StartChange
  <2>4. \A actor \in Person, g \in Group : ~StartGroup(c, actor, g)
    BY <1>1 DEF StartGroup
  <2> QED
    BY <1>2, <2>1, <2>2, <2>3, <2>4 DEF ClientStep
<1>3. \A p \in Person : ~SignIn(p) /\ ~SessionEnds(p)
  BY <1>1 DEF SignIn, SessionEnds, HasRow
<1>4. /\ \A p, email \in Person, i \in Invitation, role \in Role : ~CreateInvitation(p, i, email, role)
      /\ \A p \in Person, i \in Invitation : ~RevokeInvitation(p, i)
      /\ \A i \in Invitation : ~SevenDaysPass(i)
  BY <1>1 DEF CreateInvitation, RevokeInvitation, SevenDaysPass, Outstanding
<1>5. \A actor, p \in Person, g \in Group :
        ~DeleteGroup(actor, g) /\ ~EnsureGroupMember(actor, g, p) /\ ~RemoveGroupMember(actor, g, p)
  BY <1>1 DEF DeleteGroup, EnsureGroupMember, RemoveGroupMember
<1>6. \A p, to \in Person, d \in Delegation : ~CreateDelegation(p, to, d) /\ ~DeleteDelegation(p, d)
  BY <1>1 DEF CreateDelegation, DeleteDelegation
<1> QED
  BY <1>2, <1>3, <1>4, <1>5, <1>6 DEF OrganisationNext

LEMMA TheFounderComesFirst ==
  ASSUME Typed, NothingBeforeTheFounder, OrganisationNext
  PROVE  NothingBeforeTheFounder'
<1>1. request \in [Client -> RequestRow]
  BY DEF Typed, RequestsAreTyped
<1>2. ASSUME NEW c \in Client, CreateOrganisation(c)
      PROVE  NothingBeforeTheFounder'
  <2>1. Begins(c, ToFound)
    BY <1>2, StartIsTyped, ToFoundIsRequest DEF CreateOrganisation, ToFound
  <2>2. \A d \in Client : request[d].pc # "found"
    BY <1>2 DEF NothingBeforeTheFounder, CreateOrganisation
  <2>3. \A d \in Client : request'[d].pc \in {"free", "found"} /\ (request'[d].pc = "found" => d = c)
    BY <1>2, <2>1, <2>2, ToFoundIsRequest DEF NothingBeforeTheFounder, CreateOrganisation, Begins
  <2> QED
    BY <1>2, <2>3 DEF NothingBeforeTheFounder, CreateOrganisation, HasRow
<1>3. ASSUME NEW c \in Client, FirstOwner(c)
      PROVE  NothingBeforeTheFounder'
  <2>1. Moves(c, Free)
    BY <1>3, DoneIsTyped DEF FirstOwner
  <2>2. \A d \in Client : request'[d].pc # "found"
    BY <1>3, <2>1, FreeIsRequest DEF NothingBeforeTheFounder, FirstOwner, Moves
  <2> QED
    BY <1>3, <2>2 DEF NothingBeforeTheFounder, FirstOwner
<1>4. ASSUME NEW c \in Client, Stop(c)
      PROVE  NothingBeforeTheFounder'
  <2>1. Moves(c, Free)
    BY <1>4, DoneIsTyped DEF Stop
  <2>2. \A d \in Client : request'[d] = Free \/ request'[d] = request[d]
    BY <2>1 DEF Moves
  <2> QED
    BY <1>4, <2>2, FreeIsRequest DEF NothingBeforeTheFounder, Stop, HasRow
<1>5. ASSUME NEW g \in Group, Reference(g)
      PROVE  NothingBeforeTheFounder'
  BY <1>5 DEF NothingBeforeTheFounder, Reference, AtOnce, HasRow
<1>6. CASE organisation # "founded"
  BY <1>2, <1>3, <1>4, <1>5, <1>6, NothingHappensBefore
<1>7. CASE organisation = "founded"
  <2>1. \A c \in Client : request[c].pc # "found" /\ ~CreateOrganisation(c) /\ ~FirstOwner(c)
    BY <1>7 DEF NothingBeforeTheFounder, CreateOrganisation, FirstOwner
  <2>2. organisation' = "founded"
    BY <1>7, <2>1, Writers
  <2>3. ASSUME NEW c \in Client, request'[c] # request[c]
        PROVE  request'[c].pc # "found"
    <3>1. Join(c) => [request[c] EXCEPT !.pc = "mark"].pc = "mark"
      BY <1>1 DEF RequestRow
    <3>2. \A actor, p \in Person, role \in Role \cup {Keep}, status \in NewStatus :
            ToChange(p, role, status).pc = "change"
      BY ToChangeIsRequest
    <3>3. \A g \in Group, k \in 0 .. Cardinality(Group) : ToGroup(g, k).pc = "group"
      BY ToGroupIsRequest
    <3>4. \A p \in Person, i \in Invitation : ToJoin(p, i).pc = "join"
      BY ToJoinIsRequest
    <3> QED
      BY <2>1, <2>3, <3>1, <3>2, <3>3, <3>4, RequestsMove, FreeIsRequest
  <2> QED
    BY <2>1, <2>2, <2>3 DEF NothingBeforeTheFounder
<1> QED
  BY <1>6, <1>7

-----------------------------------------------------------------------------
(* Membership rows, and who names them.                                    *)

(* No request deletes a membership.                                        *)
LEMMA RowsStay ==
  ASSUME Typed, OrganisationNext, NEW p \in Person, HasRow(p)
  PROVE  HasRow(p)'
<1>1. member \in [Person -> Member]
  BY DEF Typed, TypeOK
<1>2. ASSUME NEW c \in Client, FirstOwner(c) \/ Join(c)
      PROVE  HasRow(p)'
  <2>1. CASE FirstOwner(c)
    BY <1>1, <2>1 DEF FirstOwner, HasRow
  <2>2. CASE Join(c)
    BY <1>1, <2>2 DEF Join, HasRow
  <2> QED
    BY <1>2, <2>1, <2>2
<1>3. ASSUME NEW c \in Client, UpdateOrganisationMember(c)
      PROVE  HasRow(p)'
  <2>1. request[c].status \in {Keep, "active", "suspended", "removed"}
    BY DEF Typed, RequestsAreTyped, RequestRow, NewStatus
  <2> DEFINE r == request[c]
             m == [member[r.person] EXCEPT
                     !.role = IF r.role = Keep THEN member[r.person].role ELSE r.role,
                     !.status = IF r.status = Keep THEN member[r.person].status ELSE r.status]
  <2>2. member' = [member EXCEPT ![r.person] = m]
    BY <1>3 DEF UpdateOrganisationMember
  <2>3. p = r.person => m.status # "none"
    BY <1>1, <2>1 DEF HasRow, Member
  <2> HIDE DEF m, r
  <2> QED
    BY <1>1, <2>2, <2>3 DEF HasRow
<1> QED
  BY <1>2, <1>3, Writers DEF WritesMember, HasRow

LEMMA GrantedStays ==
  ASSUME Typed, GrantedIsThere, OrganisationNext
  PROVE  GrantedIsThere'
<1>1. request \in [Client -> RequestRow]
  BY DEF Typed, RequestsAreTyped
<1>2. ASSUME NEW c \in Client, request'[c].pc = "mark", request'[c] = request[c]
      PROVE  member'[request'[c].person].status # "none"
  <2>1. PICK p \in Person : p = request[c].person /\ HasRow(p)
    BY <1>2 DEF GrantedIsThere, Typed, RequestsAreTyped, KnowsItsRows
  <2>2. HasRow(p)'
    BY <2>1, RowsStay
  <2> QED
    BY <1>2, <2>1, <2>2 DEF HasRow
<1>3. ASSUME NEW c \in Client, request'[c].pc = "mark", request'[c] # request[c]
      PROVE  member'[request'[c].person].status # "none"
  <2>1. Join(c) /\ request'[c] = [request[c] EXCEPT !.pc = "mark"]
    BY <1>3, RequestsMove, FreeIsRequest, ToFoundIsRequest, ToJoinIsRequest, ToChangeIsRequest,
       ToGroupIsRequest, KeysAreNumbers
  <2>2. request'[c].person = request[c].person /\ request[c].person \in Person
    BY <1>1, <2>1 DEF RequestRow, Join, Typed, RequestsAreTyped, KnowsItsRows
  <2>3. member \in [Person -> Member]
    BY DEF Typed, TypeOK
  <2> QED
    BY <2>1, <2>2, <2>3 DEF Join, HasRow
<1> QED
  BY <1>2, <1>3 DEF GrantedIsThere, HasRow


LEMMA ReferencesStay ==
  ASSUME Typed, GrantedIsThere, ReferencesSurvive, OrganisationNext
  PROVE  ReferencesSurvive'
<1>1. group \in [Group -> GroupRow] /\ delegation \in [Delegation -> DelegationRow]
      /\ session \subseteq Person /\ member \in [Person -> Member]
  BY DEF Typed, TypeOK
<1>2. ASSUME NEW g \in Group, NEW p \in group'[g].members
      PROVE  p \in Person /\ HasRow(p)
  <2>1. CASE p \in group[g].members
    BY <1>1, <2>1 DEF ReferencesSurvive, GroupRow
  <2>2. ASSUME NEW c \in Client, CreateGroup(c)
        PROVE  p \in group[g].members
    BY <1>1, <1>2, <2>2 DEF CreateGroup, GroupRow
  <2>3. ASSUME NEW h \in Group, Reference(h)
        PROVE  p \in group[g].members
    BY <1>1, <1>2, <2>3 DEF Reference, GroupRow
  <2>4. ASSUME NEW actor \in Person, NEW h \in Group, DeleteGroup(actor, h)
        PROVE  p \in group[g].members
    BY <1>1, <1>2, <2>4 DEF DeleteGroup
  <2>5. ASSUME NEW actor \in Person, NEW q \in Person, NEW h \in Group,
               EnsureGroupMember(actor, h, q)
        PROVE  p \in group[g].members \/ (p = q /\ HasRow(p))
    <3>1. group' = [group EXCEPT ![h].members = group[h].members \cup {q}] /\ HasRow(q)
      BY <2>5 DEF EnsureGroupMember
    <3>2. group'[g].members \subseteq group[g].members \cup {q}
      BY <1>1, <3>1 DEF GroupRow
    <3> QED
      BY <1>2, <3>1, <3>2
  <2>6. ASSUME NEW actor \in Person, NEW q \in Person, NEW h \in Group,
               RemoveGroupMember(actor, h, q)
        PROVE  p \in group[g].members
    <3>1. group' = [group EXCEPT ![h].members = group[h].members \ {q}]
      BY <2>6 DEF RemoveGroupMember
    <3>2. group'[g].members \subseteq group[g].members
      BY <1>1, <3>1 DEF GroupRow
    <3> QED
      BY <1>2, <3>2
  <2> QED
    BY <1>2, <2>1, <2>2, <2>3, <2>4, <2>5, <2>6, Writers DEF WritesGroup
<1>3. ASSUME NEW d \in Delegation, delegation'[d].to # None
      PROVE  delegation'[d].to \in Person /\ HasRow(delegation'[d].to)
  <2>1. ASSUME NEW from \in Person, NEW to \in Person, NEW e \in Delegation,
               CreateDelegation(from, to, e)
        PROVE  delegation'[d].to \in Person /\ HasRow(delegation'[d].to)
    BY <1>1, <1>3, <2>1 DEF CreateDelegation, ReferencesSurvive, DelegationRow
  <2>2. ASSUME NEW p \in Person, NEW e \in Delegation, DeleteDelegation(p, e)
        PROVE  delegation'[d].to \in Person /\ HasRow(delegation'[d].to)
    BY <1>1, <1>3, <2>2 DEF DeleteDelegation, ReferencesSurvive, DelegationRow
  <2>3. CASE UNCHANGED delegation
    BY <1>1, <1>3, <2>3 DEF ReferencesSurvive, DelegationRow
  <2> QED
    BY <2>1, <2>2, <2>3, Writers DEF WritesDelegation
<1>4. ASSUME NEW p \in session'
      PROVE  p \in Person /\ HasRow(p)'
  <2>1. CASE p \in session
    BY <1>1, <2>1, RowsStay DEF ReferencesSurvive
  <2>2. ASSUME NEW c \in Client, FirstOwner(c)
        PROVE  p \in session \/ (p \in Person /\ HasRow(p)')
    BY <1>1, <1>4, <2>2, OrganisationAssumption DEF FirstOwner, HasRow
  <2>3. ASSUME NEW c \in Client, MarkInvitationAccepted(c)
        PROVE  p \in session \/ (p \in Person /\ HasRow(p))
    BY <1>4, <2>3
       DEF MarkInvitationAccepted, GrantedIsThere, Typed, RequestsAreTyped, KnowsItsRows
  <2>4. ASSUME NEW q \in Person, SignIn(q) \/ SessionEnds(q)
        PROVE  p \in session \/ (p \in Person /\ HasRow(p))
    BY <1>4, <2>4 DEF SignIn, SessionEnds, HasRow
  <2> QED
    BY <1>4, <2>1, <2>2, <2>3, <2>4, RowsStay, Writers DEF WritesSession
<1>5. \A g \in Group : \A p \in group'[g].members : HasRow(p)'
  BY <1>2, RowsStay
<1>6. ASSUME NEW d \in Delegation, delegation'[d].to # None
      PROVE  member'[delegation'[d].to].status # "none"
  <2>1. PICK p \in Person : p = delegation'[d].to /\ HasRow(p)
    BY <1>3, <1>6
  <2>2. HasRow(p)'
    BY <2>1, RowsStay
  <2> QED
    BY <2>1, <2>2 DEF HasRow
<1> QED
  BY <1>4, <1>5, <1>6 DEF ReferencesSurvive, HasRow

LEMMA KeysStayUnique ==
  ASSUME Typed, KeysNameOneGroup, OrganisationNext
  PROVE  KeysNameOneGroup'
<1>1. group \in [Group -> GroupRow] /\ request \in [Client -> RequestRow]
  BY DEF Typed, TypeOK, RequestsAreTyped
<1>2. ASSUME NEW c \in Client, CreateGroup(c)
      PROVE  KeysNameOneGroup'
  <2>1. PICK i \in Group, k \in 0 .. Cardinality(Group) :
          i = request[c].id /\ k = request[c].key /\ k \notin TakenKeys
          /\ group' = [group EXCEPT ![i].key = k]
    BY <1>1, <1>2 DEF CreateGroup, Typed, RequestsAreTyped, KnowsItsRows, RequestRow
  <2>2. \A h \in Group : group'[h].key = IF h = i THEN k ELSE group[h].key
    BY <1>1, <2>1 DEF GroupRow
  <2>3. \A h \in Group : group[h].key # 0 => group[h].key # k
    BY <2>1 DEF TakenKeys
  <2> QED
    BY <2>2, <2>3 DEF KeysNameOneGroup, Exists
<1>3. ASSUME NEW g \in Group,
             \/ Reference(g)
             \/ \E actor \in Person : DeleteGroup(actor, g)
             \/ \E actor, p \in Person : EnsureGroupMember(actor, g, p) \/ RemoveGroupMember(actor, g, p)
      PROVE  KeysNameOneGroup'
  <2>1. \A h \in Group : group'[h].key \in {0, group[h].key}
    <3>1. CASE Reference(g)
      BY <1>1, <3>1 DEF Reference, GroupRow
    <3>2. ASSUME NEW actor \in Person, DeleteGroup(actor, g)
          PROVE  \A h \in Group : group'[h].key \in {0, group[h].key}
      BY <1>1, <3>2 DEF DeleteGroup
    <3>3. ASSUME NEW actor \in Person, NEW p \in Person, EnsureGroupMember(actor, g, p)
          PROVE  \A h \in Group : group'[h].key = group[h].key
      BY <1>1, <3>3 DEF EnsureGroupMember, GroupRow
    <3>4. ASSUME NEW actor \in Person, NEW p \in Person, RemoveGroupMember(actor, g, p)
          PROVE  \A h \in Group : group'[h].key = group[h].key
      BY <1>1, <3>4 DEF RemoveGroupMember, GroupRow
    <3> QED
      BY <1>3, <3>1, <3>2, <3>3, <3>4
  <2> QED
    BY <2>1 DEF KeysNameOneGroup, Exists
<1>4. CASE UNCHANGED group
  BY <1>4 DEF KeysNameOneGroup, Exists
<1> QED
  BY <1>2, <1>3, <1>4, Writers DEF WritesGroup


-----------------------------------------------------------------------------
(* What an invitation gives.                                               *)

(* Nothing that the settlement of an invitation depends on has moved.      *)
Untouched(i) ==
  /\ \A c \in Client :
       /\ request'[c].id = i <=> request[c].id = i
       /\ request[c].id = i => request'[c].pc = request[c].pc
  /\ grants'[i] = grants[i]
  /\ invitation'[i].accepted = invitation[i].accepted
  /\ (\E c \in Client : request[c].id = i) =>
       invitation'[i].there = invitation[i].there /\ invitation'[i].revoked = invitation[i].revoked
  /\ ~invitation[i].accepted \/ invitation'[i].revoked = invitation[i].revoked

LEMMA UntouchedStaysSettled ==
  ASSUME NEW i \in Invitation, SettledOnce(i), Untouched(i)
  PROVE  SettledOnce(i)'
<1>1. Accepting(i)' = Accepting(i)
  BY DEF Accepting, Untouched
<1>2. \A c \in Accepting(i) : c \in Client /\ request[c].id = i
  BY DEF Accepting
<1>3. ~(invitation'[i].accepted /\ invitation'[i].revoked)
  BY DEF SettledOnce, Untouched
<1> QED
  BY <1>1, <1>2, <1>3 DEF SettledOnce, Untouched

LEMMA LooseStays ==
  ASSUME OrganisationNext
  PROVE  loose \subseteq loose'
BY Writers DEF RevokeInvitation, Stop, StartAccept

(* A request that is not an acceptance holds no invitation.                *)
LEMMA OthersHoldNoInvitation ==
  ASSUME Typed, NEW c \in Client, request[c].pc \notin {"join", "mark"}
  PROVE  request[c].id \notin Invitation
BY DEF Typed, RequestsAreTyped, KnowsItsRows

LEMMA SettlementIsKept ==
  ASSUME Typed, InvitationsAreSettledOnce, OrganisationNext,
         NEW i \in Invitation, i \notin loose'
  PROVE  SettledOnce(i)'
<1>1. /\ request \in [Client -> RequestRow] /\ invitation \in [Invitation -> InvitationRow]
      /\ grants \in [Invitation -> Nat]
  BY DEF Typed, TypeOK, RequestsAreTyped
<1>2. SettledOnce(i)
  BY LooseStays DEF InvitationsAreSettledOnce
<1>3. ASSUME NEW c \in Client, NEW p \in Person, NEW j \in Invitation, StartAccept(c, p, j)
      PROVE  SettledOnce(i)'
  <2>1. Begins(c, ToJoin(p, j))
    BY <1>3, ToJoinIsRequest, StartIsTyped DEF StartAccept, ToJoin
  <2>2. UNCHANGED <<invitation, grants>> /\ ToJoin(p, j).id = j /\ ToJoin(p, j).pc = "join"
    BY <1>3, ToJoinIsRequest DEF StartAccept
  <2>3. CASE i # j
    <3>1. Untouched(i)
      BY <2>1, <2>2, <2>3, FreeIsRequest, OrganisationAssumption DEF Untouched, Begins
    <3> QED
      BY <1>2, <3>1, UntouchedStaysSettled
  <2>4. CASE i = j
    <3>1. Accepting(i) = {}
      BY <1>3, <2>4 DEF StartAccept, Accepting
    <3>2. Accepting(i)' = {c}
      BY <2>1, <2>2, <2>4, <3>1 DEF Accepting, Begins
    <3>3. request'[c].pc = "join"
      BY <2>1, <2>2 DEF Begins
    <3>4. Outstanding(i)
      BY <1>3, <2>4 DEF StartAccept
    <3> QED
      BY <1>2, <2>2, <3>1, <3>2, <3>3, <3>4 DEF SettledOnce, Outstanding
  <2> QED
    BY <2>3, <2>4
<1>4. ASSUME NEW c \in Client, Join(c)
      PROVE  SettledOnce(i)'
  <2>1. PICK j \in Invitation : j = request[c].id
    BY <1>4 DEF Join, Typed, RequestsAreTyped, KnowsItsRows
  <2> DEFINE r == [request[c] EXCEPT !.pc = "mark"]
  <2>2. r.id = j /\ r.pc = "mark" /\ request[c].pc = "join"
    BY <1>1, <1>4, <2>1 DEF RequestRow, Join
  <2>3. request' = [request EXCEPT ![c] = r] /\ grants' = [grants EXCEPT ![j] = grants[j] + 1]
        /\ invitation' = invitation
    BY <1>4, <2>1 DEF Join
  <2> HIDE DEF r
  <2>4. CASE i # j
    <3>1. Untouched(i)
      BY <1>1, <2>1, <2>2, <2>3, <2>4 DEF Untouched
    <3> QED
      BY <1>2, <3>1, UntouchedStaysSettled
  <2>5. CASE i = j
    <3>1. c \in Accepting(i) /\ Accepting(i)' = Accepting(i)
      BY <1>1, <2>1, <2>2, <2>3, <2>5 DEF Accepting
    <3>2. Accepting(i) = {c} /\ grants[i] = 0
      BY <1>2, <2>2, <3>1 DEF SettledOnce
    <3>3. grants'[i] = 1 /\ request'[c].pc = "mark"
      BY <1>1, <2>2, <2>3, <2>5, <3>2
    <3> QED
      BY <1>2, <2>3, <3>1, <3>2, <3>3 DEF SettledOnce
  <2> QED
    BY <2>4, <2>5
<1>5. ASSUME NEW c \in Client, MarkInvitationAccepted(c)
      PROVE  SettledOnce(i)'
  <2>1. PICK j \in Invitation : j = request[c].id
    BY <1>5 DEF MarkInvitationAccepted, Typed, RequestsAreTyped, KnowsItsRows
  <2>2. Moves(c, Free) /\ Free.id = None /\ None # i
    BY <1>5, DoneIsTyped, FreeIsRequest, OrganisationAssumption DEF MarkInvitationAccepted
  <2>3. /\ grants' = grants /\ request[c].pc = "mark"
        /\ \A k \in Invitation : k # j => invitation'[k] = invitation[k]
        /\ invitation'[j].accepted /\ invitation'[j].revoked = invitation[j].revoked
    BY <1>1, <1>5, <2>1 DEF MarkInvitationAccepted, InvitationRow
  <2>4. CASE i # j
    <3>1. Untouched(i)
      BY <2>1, <2>2, <2>3, <2>4 DEF Untouched, Moves
    <3> QED
      BY <1>2, <3>1, UntouchedStaysSettled
  <2>5. CASE i = j
    <3>1. c \in Accepting(i)
      BY <2>1, <2>5 DEF Accepting
    <3>2. Accepting(i) = {c} /\ grants[i] = 1 /\ ~invitation[i].revoked
      BY <1>2, <2>3, <3>1 DEF SettledOnce
    <3>3. Accepting(i)' = {}
      BY <2>2, <3>2 DEF Accepting, Moves
    <3> QED
      BY <2>3, <2>5, <3>2, <3>3 DEF SettledOnce
  <2> QED
    BY <2>4, <2>5
<1>6. ASSUME NEW c \in Client, Stop(c)
      PROVE  SettledOnce(i)'
  <2>1. Moves(c, Free) /\ Free.id = None /\ None # i
    BY <1>6, DoneIsTyped, FreeIsRequest, OrganisationAssumption DEF Stop
  <2>2. UNCHANGED <<grants, invitation>>
    BY <1>6 DEF Stop
  <2>3. CASE request[c].id # i
    <3>1. Untouched(i)
      BY <2>1, <2>2, <2>3 DEF Untouched, Moves
    <3> QED
      BY <1>2, <3>1, UntouchedStaysSettled
  <2>4. CASE request[c].id = i
    <3>1. request[c].pc = "join"
      BY <1>6, <2>4 DEF Stop, Typed, RequestsAreTyped, KnowsItsRows
    <3>2. c \in Accepting(i)
      BY <2>4 DEF Accepting
    <3>3. Accepting(i) = {c} /\ grants[i] = 0 /\ ~invitation[i].accepted
      BY <1>2, <3>1, <3>2 DEF SettledOnce
    <3>4. Accepting(i)' = {}
      BY <2>1, <3>3 DEF Accepting, Moves
    <3> QED
      BY <2>2, <3>3, <3>4 DEF SettledOnce
  <2> QED
    BY <2>3, <2>4
<1>7. ASSUME NEW p \in Person, RevokeInvitation(p, i)
      PROVE  SettledOnce(i)'
  <2>1. Accepting(i) = {}
    BY <1>7 DEF RevokeInvitation, Accepting
  <2>2. UNCHANGED <<request, grants>> /\ ~invitation[i].accepted
    BY <1>7 DEF RevokeInvitation, AtOnce, Outstanding
  <2>3. ~invitation'[i].accepted
    BY <1>1, <1>7, <2>2 DEF RevokeInvitation, InvitationRow
  <2>4. Accepting(i)' = {}
    BY <2>1, <2>2 DEF Accepting
  <2> QED
    BY <1>2, <2>1, <2>2, <2>3, <2>4 DEF SettledOnce
<1> DEFINE OtherRow ==
      /\ invitation'[i].accepted = invitation[i].accepted
      /\ (\E c \in Client : request[c].id = i) =>
           invitation'[i].there = invitation[i].there /\ invitation'[i].revoked = invitation[i].revoked
      /\ ~invitation[i].accepted \/ invitation'[i].revoked = invitation[i].revoked
<1>8. (\E c \in Client : MarkInvitationAccepted(c)) \/ (\E p \in Person : RevokeInvitation(p, i)) \/ OtherRow
  <2>1. ASSUME NEW p \in Person, NEW email \in Person, NEW j \in Invitation, NEW role \in Role,
               CreateInvitation(p, j, email, role)
        PROVE  OtherRow
    BY <1>1, <1>2, <2>1 DEF CreateInvitation, SettledOnce, Accepting, InvitationRow
  <2>2. ASSUME NEW p \in Person, NEW j \in Invitation, RevokeInvitation(p, j), j # i
        PROVE  OtherRow
    BY <1>1, <2>2 DEF RevokeInvitation
  <2>3. ASSUME NEW j \in Invitation, SevenDaysPass(j)
        PROVE  OtherRow
    BY <1>1, <2>3 DEF SevenDaysPass, InvitationRow
  <2>4. UNCHANGED invitation => OtherRow
    OBVIOUS
  <2> HIDE DEF OtherRow
  <2> QED
    BY <2>1, <2>2, <2>3, <2>4, Writers DEF WritesInvitation
<1> DEFINE Others == \A c \in Client : request'[c].id = i \/ request[c].id = i => request'[c] = request[c]
<1>9. \/ \E c \in Client : Join(c) \/ MarkInvitationAccepted(c) \/ Stop(c)
      \/ \E c \in Client, p \in Person, j \in Invitation : StartAccept(c, p, j)
      \/ Others
  <2>1. ASSUME NEW d \in Client, FirstOwner(d) \/ UpdateOrganisationMember(d) \/ CreateGroup(d)
        PROVE  Others
    <3>1. Moves(d, Free)
      BY <2>1, DoneIsTyped DEF FirstOwner, UpdateOrganisationMember, CreateGroup
    <3>2. request[d].pc \in {"found", "change", "group"}
      BY <2>1 DEF FirstOwner, UpdateOrganisationMember, CreateGroup
    <3>3. request[d].id # i /\ Free.id # i
      BY <3>2, OthersHoldNoInvitation, FreeIsRequest, OrganisationAssumption
    <3> QED
      BY <3>1, <3>3 DEF Moves
  <2>2. ASSUME NEW d \in Client, NEW r \in RequestRow, KnowsItsRows(r), Start(d, r), r.id \notin Invitation
        PROVE  Others
    <3>1. Begins(d, r)
      BY <2>2, StartIsTyped
    <3> QED
      BY <2>2, <3>1, FreeIsRequest, OrganisationAssumption DEF Begins
  <2> HIDE DEF Others
  <2>3. ASSUME NEW d \in Client, CreateOrganisation(d)
        PROVE  Others
    <3>1. Start(d, ToFound)
      BY <2>3 DEF CreateOrganisation, ToFound
    <3> QED
      BY <2>2, <3>1, ToFoundIsRequest, OrganisationAssumption
  <2>4. ASSUME NEW d \in Client, StartsChange(d)
        PROVE  Others
    <3>1. PICK actor \in Person, p \in Person, role \in Role \cup {Keep}, status \in NewStatus :
            StartChange(d, actor, p, role, status)
      BY <2>4 DEF StartsChange
    <3>2. Start(d, ToChange(p, role, status))
      BY <3>1 DEF StartChange, ToChange
    <3> QED
      BY <2>2, <3>2, ToChangeIsRequest, OrganisationAssumption
  <2>5. ASSUME NEW d \in Client, NEW actor \in Person, NEW g \in Group, StartGroup(d, actor, g)
        PROVE  Others
    <3>1. PICK k \in 1 .. Cardinality(Group) : Start(d, ToGroup(g, k))
      BY <2>5 DEF StartGroup, ToGroup
    <3>2. k \in 0 .. Cardinality(Group)
      BY KeysAreNumbers
    <3> QED
      BY <2>2, <3>1, <3>2, ToGroupIsRequest, OrganisationAssumption
  <2>6. UNCHANGED request => Others
    BY DEF Others
  <2> QED
    BY <2>1, <2>3, <2>4, <2>5, <2>6, Writers
<1>10. ASSUME Others, OtherRow, ~\E c \in Client : Join(c)
       PROVE  SettledOnce(i)'
  <2>1. UNCHANGED grants
    BY <1>10, Writers
  <2>2. Untouched(i)
    BY <1>10, <2>1 DEF Untouched
  <2> QED
    BY <1>2, <2>2, UntouchedStaysSettled
<1> HIDE DEF Others, OtherRow
<1> QED
  BY <1>3, <1>4, <1>5, <1>6, <1>7, <1>8, <1>9, <1>10


-----------------------------------------------------------------------------
(* Owners.                                                                 *)

LEMMA OverlapStays ==
  ASSUME OrganisationNext, overlapped
  PROVE  overlapped'
BY Writers DEF Join, StartsChange, StartChange

LEMMA AnotherOwnerStays ==
  ASSUME Typed, NothingBeforeTheFounder, AnotherOwnerRemains, OrganisationNext
  PROVE  AnotherOwnerRemains'
<1> SUFFICES ASSUME ~overlapped'
             PROVE  /\ OwnerRemains'
                    /\ \A c, d \in Client :
                         request'[c].pc = "change" =>
                           /\ request'[d].pc = "change" => c = d
                           /\ Loses(request'[c]) => ActiveOwners' \ {request'[c].person} # {}
  BY DEF AnotherOwnerRemains, Loses
<1>1. ~overlapped
  BY OverlapStays
<1>2. /\ OwnerRemains
      /\ \A c, d \in Client :
           request[c].pc = "change" =>
             /\ request[d].pc = "change" => c = d
             /\ Loses(request[c]) => ActiveOwners \ {request[c].person} # {}
  BY <1>1 DEF AnotherOwnerRemains
<1>3. /\ member \in [Person -> Member] /\ request \in [Client -> RequestRow]
      /\ request' \in [Client -> RequestRow]
  BY RequestsStayTyped DEF Typed, TypeOK, RequestsAreTyped
(* The first owner.                                                        *)
<1>4. ASSUME NEW c \in Client, FirstOwner(c)
      PROVE  Founder \in ActiveOwners' /\ \A d \in Client : request'[d].pc # "change"
  <2>1. \A d \in Client : request[d].pc # "change"
    BY <1>4 DEF FirstOwner, NothingBeforeTheFounder
  <2>2. Moves(c, Free)
    BY <1>4, DoneIsTyped DEF FirstOwner
  <2>3. member' = [member EXCEPT ![Founder] = [status |-> "active", role |-> "owner"]]
    BY <1>4 DEF FirstOwner
  <2>4. Founder \in ActiveOwners'
    BY <1>3, <2>3, OrganisationAssumption DEF ActiveOwners
  <2> QED
    BY <2>1, <2>2, <2>4, FreeIsRequest DEF Moves
(* Any step but a change keeps every owner.                                *)
<1>5. ASSUME \A c \in Client : ~UpdateOrganisationMember(c)
      PROVE  ActiveOwners \subseteq ActiveOwners'
  <2>1. ASSUME NEW c \in Client, Join(c)
        PROVE  ActiveOwners \subseteq ActiveOwners'
    <3>1. PICK p \in Person, i \in Invitation : p = request[c].person /\ i = request[c].id
      BY <2>1 DEF Join, Typed, RequestsAreTyped, KnowsItsRows
    <3>2. /\ p \in ActiveOwners => invitation[i].role = "owner"
          /\ member' = [member EXCEPT ![p] = [status |-> "active", role |-> invitation[i].role]]
      BY <2>1, <3>1 DEF Join
    <3> QED
      BY <1>3, <3>2 DEF ActiveOwners
  <2>2. ASSUME NEW c \in Client, FirstOwner(c)
        PROVE  ActiveOwners \subseteq ActiveOwners'
    BY <1>3, <2>2 DEF FirstOwner, ActiveOwners
  <2>3. UNCHANGED member => ActiveOwners \subseteq ActiveOwners'
    BY DEF ActiveOwners
  <2> QED
    BY <1>5, <2>1, <2>2, <2>3, Writers DEF WritesMember
(* A change keeps every owner but the one whom it takes away.              *)
<1>6. ASSUME NEW c \in Client, UpdateOrganisationMember(c)
      PROVE  /\ ActiveOwners \ {request[c].person} \subseteq ActiveOwners'
             /\ ~Loses(request[c]) => ActiveOwners \subseteq ActiveOwners'
  <2> DEFINE r == request[c]
             m == [member[r.person] EXCEPT
                     !.role = IF r.role = Keep THEN member[r.person].role ELSE r.role,
                     !.status = IF r.status = Keep THEN member[r.person].status ELSE r.status]
  <2>1. member' = [member EXCEPT ![r.person] = m]
    BY <1>6 DEF UpdateOrganisationMember
  <2>2. ASSUME ~Loses(r), r.person \in ActiveOwners
        PROVE  m.status = "active" /\ m.role = "owner"
    BY <1>3, <2>2 DEF Loses, ActiveOwners, Member
  <2> HIDE DEF m
  <2>3. ActiveOwners \ {r.person} \subseteq ActiveOwners'
    BY <1>3, <2>1 DEF ActiveOwners
  <2>4. ASSUME ~Loses(r)
        PROVE  ActiveOwners \subseteq ActiveOwners'
    BY <1>3, <2>1, <2>2, <2>4 DEF ActiveOwners
  <2> QED
    BY <2>3, <2>4
(* A change that begins has seen another owner.                            *)
<1>7. ASSUME NEW c \in Client, NEW actor \in Person, NEW p \in Person,
             NEW role \in Role \cup {Keep}, NEW status \in NewStatus,
             StartChange(c, actor, p, role, status), Loses(ToChange(p, role, status))
      PROVE  ActiveOwners \ {p} # {}
  <2>1. organisation = "founded" /\ ActiveOwners # {}
    BY <1>2, <1>7 DEF NothingBeforeTheFounder, OwnerRemains, StartChange
  <2>2. p \in ActiveOwners => Cardinality(ActiveOwners) > 1
    BY <1>7, ToChangeIsRequest DEF StartChange, AssertOwnershipSurvives, Loses
  <2>3. ASSUME ActiveOwners \ {p} = {}
        PROVE  FALSE
    <3>1. ActiveOwners = {p}
      BY <2>1, <2>3
    <3>2. Cardinality({p}) = 1
      BY FS_Singleton
    <3> QED
      BY <2>2, <3>1, <3>2
  <2> QED
    BY <2>3
<1>8. OwnerRemains'
  <2>1. CASE organisation = "founded"
    <3>1. ASSUME NEW c \in Client, UpdateOrganisationMember(c)
          PROVE  ActiveOwners' # {}
      <4>1. request[c].pc = "change"
        BY <3>1 DEF UpdateOrganisationMember
      <4> QED
        BY <1>2, <1>6, <2>1, <3>1, <4>1 DEF OwnerRemains
    <3> QED
      BY <1>2, <1>5, <2>1, <3>1 DEF OwnerRemains
  <2>2. CASE organisation # "founded"
    <3>1. organisation' = "founded" => \E c \in Client : FirstOwner(c)
      BY <2>2, Writers DEF CreateOrganisation
    <3> QED
      BY <1>4, <3>1 DEF OwnerRemains
  <2> QED
    BY <2>1, <2>2
(* A change in flight was there before, or has just begun.                 *)
<1>9. ASSUME NEW c \in Client, request'[c].pc = "change", request'[c] # request[c]
      PROVE  \E actor, p \in Person, role \in Role \cup {Keep}, status \in NewStatus :
               StartChange(c, actor, p, role, status) /\ request'[c] = ToChange(p, role, status)
  <2>1. Join(c) => [request[c] EXCEPT !.pc = "mark"].pc = "mark"
    BY <1>3 DEF RequestRow
  <2>2. \A g \in Group, k \in 0 .. Cardinality(Group) : ToGroup(g, k).pc = "group"
    BY ToGroupIsRequest
  <2>3. \A p \in Person, i \in Invitation : ToJoin(p, i).pc = "join"
    BY ToJoinIsRequest
  <2> QED
    BY <1>9, <2>1, <2>2, <2>3, RequestsMove, FreeIsRequest, ToFoundIsRequest
<1>10. ASSUME NEW c \in Client, request'[c].pc = "change", request'[c] # request[c]
       PROVE  /\ \A d \in Client \ {c} : request'[d].pc # "change"
              /\ Loses(request'[c]) => ActiveOwners' \ {request'[c].person} # {}
  <2>1. PICK actor \in Person, p \in Person, role \in Role \cup {Keep}, status \in NewStatus :
          StartChange(c, actor, p, role, status) /\ request'[c] = ToChange(p, role, status)
    BY <1>9, <1>10
  <2>2. /\ \A d \in Client : request[d].pc # "change"
        /\ UNCHANGED member
    BY <2>1 DEF StartChange
  <2>3. \A d \in Client \ {c} : request'[d] = request[d]
    BY <1>10, RequestsMove
  <2>4. ActiveOwners' = ActiveOwners
    BY <2>2 DEF ActiveOwners
  <2> QED
    BY <1>7, <2>1, <2>2, <2>3, <2>4, ToChangeIsRequest
<1>11. ASSUME NEW c \in Client, request'[c].pc = "change", request'[c] = request[c],
              Loses(request'[c])
       PROVE  ActiveOwners' \ {request'[c].person} # {}
  <2>1. ActiveOwners \ {request[c].person} # {}
    BY <1>2, <1>11
  <2>2. ASSUME NEW d \in Client, UpdateOrganisationMember(d)
        PROVE  FALSE
    <3>1. c = d
      BY <1>2, <1>11, <2>2 DEF UpdateOrganisationMember
    <3>2. Moves(d, Free)
      BY <2>2, DoneIsTyped DEF UpdateOrganisationMember
    <3> QED
      BY <1>11, <3>1, <3>2, FreeIsRequest DEF Moves
  <2> QED
    BY <1>5, <1>11, <2>1, <2>2
<1>12. ASSUME NEW c \in Client, NEW d \in Client,
              request'[c].pc = "change", request'[d].pc = "change"
       PROVE  c = d
  BY <1>2, <1>10, <1>12
<1> QED
  BY <1>8, <1>10, <1>11, <1>12

-----------------------------------------------------------------------------
(* The invariant.                                                          *)

LEMMA OrganisationInvIsInductive ==
  ASSUME OrganisationIInv, [OrganisationNext]_organisationVars
  PROVE  OrganisationIInv'
<1>1. CASE OrganisationNext
  <2>1. Typed'
    BY <1>1, RequestsStayTyped, RowsStayTyped DEF OrganisationIInv, Typed
  <2>2. NothingBeforeTheFounder' /\ GrantedIsThere' /\ ReferencesSurvive' /\ KeysNameOneGroup'
        /\ AnotherOwnerRemains'
    BY <1>1, TheFounderComesFirst, GrantedStays, ReferencesStay, KeysStayUnique, AnotherOwnerStays
       DEF OrganisationIInv
  <2>3. InvitationsAreSettledOnce'
    BY <1>1, SettlementIsKept DEF OrganisationIInv, InvitationsAreSettledOnce
  <2> QED
    BY <2>1, <2>2, <2>3 DEF OrganisationIInv
<1>2. CASE UNCHANGED organisationVars
  BY <1>2 DEF organisationVars, OrganisationIInv, Typed, TypeOK, RequestsAreTyped,
     NothingBeforeTheFounder, InvitationsAreSettledOnce, SettledOnce, Accepting, GrantedIsThere,
     ReferencesSurvive, KeysNameOneGroup, AnotherOwnerRemains, OwnerRemains, ActiveOwners,
     HasRow, Exists
<1> QED
  BY <1>1, <1>2

LEMMA OrganisationStartsRight == OrganisationInit => OrganisationIInv
<1> SUFFICES ASSUME OrganisationInit PROVE OrganisationIInv
  OBVIOUS
<1>1. Typed
  <2>1. RequestsAreTyped /\ \A c \in Client : request[c].pc = "free"
    BY FreeIsRequest DEF OrganisationInit, RequestsAreTyped
  <2>2. member \in [Person -> Member]
    BY DEF OrganisationInit, Member, Role
  <2>3. invitation \in [Invitation -> InvitationRow]
    BY DEF OrganisationInit, InvitationRow, Role
  <2>4. group \in [Group -> GroupRow]
    BY KeysAreNumbers DEF OrganisationInit, GroupRow
  <2>5. delegation \in [Delegation -> DelegationRow]
    BY DEF OrganisationInit, DelegationRow
  <2>6. organisation \in {"absent"} /\ session = {} /\ loose = {} /\ overlapped \in BOOLEAN
    BY DEF OrganisationInit
  <2>7. requests \in 0 .. MaxRequests
    BY OrganisationAssumption DEF OrganisationInit
  <2>8. grants \in [Invitation -> Nat]
    BY DEF OrganisationInit
  <2> QED
    BY <2>1, <2>2, <2>3, <2>4, <2>5, <2>6, <2>7, <2>8 DEF Typed, TypeOK
<1>2. /\ organisation = "absent" /\ session = {} /\ loose = {} /\ overlapped = FALSE
      /\ \A p \in Person : ~HasRow(p)
      /\ \A i \in Invitation : invitation[i].there = FALSE /\ invitation[i].accepted = FALSE
                               /\ grants[i] = 0
      /\ \A g \in Group : group[g].key = 0 /\ group[g].members = {}
      /\ \A d \in Delegation : delegation[d].to = None
      /\ \A c \in Client : request[c] = Free
  BY DEF OrganisationInit, HasRow
<1>3. \A i \in Invitation : Accepting(i) = {}
  BY <1>2, FreeIsRequest, OrganisationAssumption DEF Accepting
<1> QED
  BY <1>1, <1>2, <1>3, FreeIsRequest
     DEF OrganisationIInv, NothingBeforeTheFounder, InvitationsAreSettledOnce, SettledOnce,
         GrantedIsThere, ReferencesSurvive, KeysNameOneGroup, Exists, AnotherOwnerRemains,
         OwnerRemains

(* Every request, alone or overlapping with others, keeps the inductive    *)
(* invariant: requests know their rows, an invitation's grants, its        *)
(* acceptance and the requests that accept it agree, and while changes of  *)
(* members come one after the other, another owner than the one whom a     *)
(* change takes away is there until it is written.                         *)
THEOREM OrganisationInvariance == OrganisationSpec => []OrganisationIInv
<1> QED
  BY OrganisationStartsRight, OrganisationInvIsInductive, PTL DEF OrganisationSpec

(* Rows are of their kinds, an invitation is used once, whoever a group, a *)
(* delegation or a session names has a membership row, and a key names one *)
(* group: for any number of requests between their reads and writes.       *)
THEOREM OrganisationStaysInOrder == OrganisationSpec => []OrganisationInv
<1>1. OrganisationIInv => OrganisationInv
  <2> SUFFICES ASSUME OrganisationIInv PROVE InvitationsAreUsedOnce
    BY DEF OrganisationIInv, OrganisationInv, Typed
  <2> SUFFICES ASSUME NEW i \in Invitation \ loose
               PROVE  /\ grants[i] <= 1
                      /\ ~(invitation[i].accepted /\ invitation[i].revoked)
                      /\ invitation[i].revoked => grants[i] = 0
    BY DEF InvitationsAreUsedOnce
  <2>1. SettledOnce(i)
    BY DEF OrganisationIInv, InvitationsAreSettledOnce
  <2>2. grants[i] \in {0, 1}
    BY <2>1 DEF SettledOnce
  <2> QED
    BY <2>1, <2>2 DEF SettledOnce
<1> QED
  BY <1>1, OrganisationInvariance, PTL

(* While changes of members come one after the other, "an organisation     *)
(* must keep at least one active owner" (members.ts): the check of the     *)
(* owners that the request read is enough then, and only then.             *)
THEOREM OwnersRemain == OrganisationSpec => []SerialChangesKeepAnOwner
<1>1. OrganisationIInv => SerialChangesKeepAnOwner
  BY DEF OrganisationIInv, AnotherOwnerRemains, SerialChangesKeepAnOwner
<1> QED
  BY <1>1, OrganisationInvariance, PTL

----------------------------------------------------------------------------
(* Signing in.                                                             *)

UserRow == [account : Account, email : {Profile(a).email : a \in Account}]

AttemptRow ==
  [pc : {"unused", "away", "find", "create", "member", "answer", "fail", "over"},
   browser : Browser \cup {Nothing}, domain : Domain \cup {Nothing},
   account : Account \cup {Nothing}, claims : Claims \cup {Nothing}]

Everything == {Seeded[i] : i \in DOMAIN Seeded}

SignInTyped ==
  /\ user \in Seq(UserRow)
  /\ belongs \in [Account -> SUBSET Tenancy] /\ belonged \subseteq Account \X Tenancy
  /\ attempt \in [Attempt -> AttemptRow] /\ flowCookie \in [Browser -> Attempt \cup {Nothing}]
  /\ signedIn \in [Browser -> Claims \cup {Nothing}]
  /\ accepting \in [Browser -> Claims \cup {Nothing}]

UsersAreUnique ==
  \A i, j \in DOMAIN user :
    user[i].account = user[j].account \/ user[i].email = user[j].email => i = j

(* What claims say is true, and was earned in the browser they are for.    *)
AreTrue(claims) ==
  LET a == claims.account IN
  /\ a \in Account =>
       /\ Profile(a).verified
       /\ claims.user \in DOMAIN user /\ user[claims.user].account = a
       /\ claims.organisation = Nothing \/ <<a, claims.organisation>> \in belonged
  /\ a \notin Account => seed = Everything

Tried(b, domain) == \E n \in Attempt : attempt[n].browser = b /\ attempt[n].domain = domain

AreEarned(claims, b) ==
  claims.account \in Account => Tried(b, Profile(claims.account).domain)

ClaimsInOrder(claims, b) == claims # Nothing => AreTrue(claims) /\ AreEarned(claims, b)

SessionsInOrder ==
  \A b \in Browser : ClaimsInOrder(signedIn[b], b) /\ ClaimsInOrder(accepting[b], b)

(* What an attempt knows of the account that came back from the provider.  *)
AttemptInOrder(r) ==
  /\ r.pc = "unused" => r = Unused
  /\ r.pc # "unused" => r.browser \in Browser
  /\ r.pc \in {"find", "create", "member", "answer"} =>
       /\ r.account \in Account
       /\ Profile(r.account).verified /\ Profile(r.account).domain = r.domain
  /\ r.pc = "member" => RowOf(r.account) # {}
  /\ r.pc = "answer" => /\ r.claims # Nothing /\ AreTrue(r.claims)
                        /\ r.claims.account = r.account

AttemptsInOrder == \A n \in Attempt : AttemptInOrder(attempt[n])

MembershipsAreRemembered == \A a \in Account : \A o \in belongs[a] : <<a, o>> \in belonged

(* A development sign-in has seen to what comes before the thing it is at. *)
SeedInOrder ==
  /\ seed \subseteq Everything
  /\ \A i \in DOMAIN Seeded : Seeded[i] \in seed => \A j \in 1 .. i : Seeded[j] \in seed
  /\ seeding \in [Browser -> 0 .. 13]
  /\ \A b \in Browser : \A j \in DOMAIN Seeded : 2 * j < seeding[b] => Seeded[j] \in seed

SignInIInv ==
  /\ SignInTyped /\ UsersAreUnique /\ SessionsInOrder /\ AttemptsInOrder
  /\ MembershipsAreRemembered /\ SeedInOrder

----------------------------------------------------------------------------

(* Nothing that a session rests on is ever taken back.                     *)
Remembers ==
  /\ DOMAIN user \subseteq DOMAIN user' /\ \A i \in DOMAIN user : user'[i] = user[i]
  /\ belonged \subseteq belonged'
  /\ seed = Everything => seed' = Everything
  /\ \A n \in Attempt : attempt[n].browser # Nothing =>
       attempt'[n].browser = attempt[n].browser /\ attempt'[n].domain = attempt[n].domain

LEMMA ClaimsStayInOrder ==
  ASSUME Remembers, NEW claims, NEW b \in Browser
  PROVE  /\ AreTrue(claims) => AreTrue(claims)'
         /\ ClaimsInOrder(claims, b) => ClaimsInOrder(claims, b)'
<1>1. AreTrue(claims) => AreTrue(claims)'
  BY DEF Remembers, AreTrue
<1>2. AreEarned(claims, b) => AreEarned(claims, b)'
  BY SignInAssumption DEF Remembers, AreEarned, Tried
<1> QED
  BY <1>1, <1>2 DEF ClaimsInOrder

LEMMA AttemptStaysInOrder ==
  ASSUME Remembers, NEW r, AttemptInOrder(r) PROVE AttemptInOrder(r)'
<1>1. AreTrue(r.claims) => AreTrue(r.claims)'
  BY DEF Remembers, AreTrue
<1>2. RowOf(r.account) # {} => RowOf(r.account)' # {}
  BY DEF Remembers, RowOf
<1> QED
  BY <1>1, <1>2 DEF AttemptInOrder

(* Which steps touch what.                                                 *)

LEMMA UsersAreOnlyAdded ==
  ASSUME SignInIInv, SignInNext
  PROVE  \/ user' = user
         \/ \E a \in Account :
              IsNew(a) /\ user' = Append(user, [account |-> a, email |-> Profile(a).email])
<1>1. CASE \E n \in Attempt : CreateUserWithIdentity(n)
  <2>1. PICK n \in Attempt : CreateUserWithIdentity(n)
    BY <1>1
  <2>2. attempt[n].pc = "create" /\ attempt[n].account \in Account
    BY <2>1 DEF CreateUserWithIdentity, SignInIInv, AttemptsInOrder, AttemptInOrder
  <2> QED
    BY <2>1, <2>2 DEF CreateUserWithIdentity
<1>2. CASE ~ \E n \in Attempt : CreateUserWithIdentity(n)
  BY <1>2 DEF SignInNext, CreateIdentityProvider, UpdateIdentityProvider, DeleteIdentityProvider,
       ProviderChange, Login, Callback, FindUserByIdentity, FindMembershipsForUser, Answer,
       MembershipChanges, FlowExpires, InvitationAnswered, Logout, AcceptInvitation, DevLogin, Look,
       Insert, DevAnswer, DevFails, database, roundTrips, development
<1> QED
  BY <1>1, <1>2

LEMMA MembershipsChange ==
  ASSUME SignInIInv, SignInNext
  PROVE  \/ belongs' = belongs /\ belonged' = belonged
         \/ \E a \in Account, o \in Tenancy :
              \/ belongs' = [belongs EXCEPT ![a] = @ \ {o}] /\ belonged' = belonged
              \/ /\ belongs' = [belongs EXCEPT ![a] = @ \cup {o}]
                 /\ belonged' = belonged \cup {<<a, o>>}
<1>1. CASE \E a \in Account, o \in Tenancy : MembershipChanges(a, o)
  BY <1>1 DEF MembershipChanges
<1>2. CASE \E b \in Browser, o \in Tenancy : AcceptInvitation(b, o)
  BY <1>2 DEF AcceptInvitation
<1>3. CASE /\ ~ \E a \in Account, o \in Tenancy : MembershipChanges(a, o)
           /\ ~ \E b \in Browser, o \in Tenancy : AcceptInvitation(b, o)
  BY <1>3 DEF SignInNext, CreateIdentityProvider, UpdateIdentityProvider, DeleteIdentityProvider,
       ProviderChange, Login, Callback, FindUserByIdentity, CreateUserWithIdentity,
       FindMembershipsForUser, Answer, FlowExpires, InvitationAnswered, Logout, DevLogin, Look,
       Insert, DevAnswer, DevFails, database, roundTrips, development
<1> QED
  BY <1>1, <1>2, <1>3

LEMMA SeedMoves ==
  ASSUME SignInNext
  PROVE  \/ seed' = seed /\ seeding' = seeding
         \/ \E b \in Browser : DevLogin(b) \/ Look(b) \/ Insert(b) \/ DevAnswer(b) \/ DevFails(b)
<1>1. CASE ~ \E b \in Browser : DevLogin(b) \/ Look(b) \/ Insert(b) \/ DevAnswer(b) \/ DevFails(b)
  BY <1>1 DEF SignInNext, CreateIdentityProvider, UpdateIdentityProvider, DeleteIdentityProvider,
       ProviderChange, Login, Callback, FindUserByIdentity, CreateUserWithIdentity,
       FindMembershipsForUser, Answer, MembershipChanges, FlowExpires, InvitationAnswered, Logout,
       AcceptInvitation, database, roundTrips, development
<1> QED
  BY <1>1

LEMMA AttemptsMove ==
  ASSUME SignInNext
  PROVE  \/ attempt' = attempt
         \/ \E n \in Attempt :
              \/ \E b \in Browser, d \in Domain : Login(n, b, d)
              \/ \E a \in Account : Callback(n, a)
              \/ FindUserByIdentity(n) \/ CreateUserWithIdentity(n)
              \/ FindMembershipsForUser(n) \/ Answer(n)
<1>1. CASE ~ \E n \in Attempt :
              \/ \E b \in Browser, d \in Domain : Login(n, b, d)
              \/ \E a \in Account : Callback(n, a)
              \/ FindUserByIdentity(n) \/ CreateUserWithIdentity(n)
              \/ FindMembershipsForUser(n) \/ Answer(n)
  BY <1>1 DEF SignInNext, CreateIdentityProvider, UpdateIdentityProvider, DeleteIdentityProvider,
       ProviderChange, MembershipChanges, FlowExpires, InvitationAnswered, Logout,
       AcceptInvitation, DevLogin, Look, Insert, DevAnswer, DevFails, database, roundTrips,
       development
<1> QED
  BY <1>1

LEMMA SessionsMove ==
  ASSUME SignInNext
  PROVE  \/ signedIn' = signedIn /\ accepting' = accepting
         \/ \E n \in Attempt : Answer(n)
         \/ \E b \in Browser : \/ InvitationAnswered(b) \/ Logout(b) \/ DevAnswer(b)
                               \/ \E o \in Tenancy : AcceptInvitation(b, o)
<1>1. CASE /\ ~ \E n \in Attempt : Answer(n)
           /\ ~ \E b \in Browser : \/ InvitationAnswered(b) \/ Logout(b) \/ DevAnswer(b)
                                   \/ \E o \in Tenancy : AcceptInvitation(b, o)
  BY <1>1 DEF SignInNext, CreateIdentityProvider, UpdateIdentityProvider, DeleteIdentityProvider,
       ProviderChange, Login, Callback, FindUserByIdentity, CreateUserWithIdentity,
       FindMembershipsForUser, MembershipChanges, FlowExpires, DevLogin, Look, Insert, DevFails,
       database, roundTrips, development
<1> QED
  BY <1>1

LEMMA CookiesMove ==
  ASSUME SignInNext
  PROVE  \/ flowCookie' = flowCookie
         \/ \E n \in Attempt, b \in Browser : flowCookie' = [flowCookie EXCEPT ![b] = n]
         \/ \E b \in Browser : flowCookie' = [flowCookie EXCEPT ![b] = Nothing]
         \/ \E n \in Attempt : Answer(n)
<1>1. CASE ~ \E n \in Attempt : Answer(n)
  BY <1>1 DEF SignInNext, CreateIdentityProvider, UpdateIdentityProvider, DeleteIdentityProvider,
       ProviderChange, Login, Callback, FindUserByIdentity, CreateUserWithIdentity,
       FindMembershipsForUser, MembershipChanges, FlowExpires, InvitationAnswered, Logout,
       AcceptInvitation, DevLogin, Look, Insert, DevAnswer, DevFails, database, roundTrips,
       development
<1> QED
  BY <1>1

(* An attempt, once begun, stays in its browser and with its domain.       *)
LEMMA AttemptsStayPut ==
  ASSUME SignInIInv, SignInNext, NEW n \in Attempt, attempt[n].browser # Nothing
  PROVE  attempt'[n].browser = attempt[n].browser /\ attempt'[n].domain = attempt[n].domain
<1>0. /\ attempt \in [Attempt -> AttemptRow] /\ attempt[n].pc # "unused"
      /\ attempt[n] \in AttemptRow
  BY DEF SignInIInv, SignInTyped, AttemptsInOrder, AttemptInOrder, Unused
<1>1. CASE attempt' = attempt
  BY <1>1
<1>2. ASSUME NEW m \in Attempt, NEW b \in Browser, NEW d \in Domain, Login(m, b, d)
      PROVE  attempt'[n] = attempt[n]
  BY <1>0, <1>2 DEF Login, Step
<1>3. ASSUME NEW m \in Attempt, NEW a \in Account, Callback(m, a)
      PROVE  attempt'[n].browser = attempt[n].browser /\ attempt'[n].domain = attempt[n].domain
  BY <1>0, <1>3 DEF Callback, Step, AttemptRow
<1>4. ASSUME NEW m \in Attempt, FindUserByIdentity(m) \/ FindMembershipsForUser(m)
      PROVE  attempt'[n].browser = attempt[n].browser /\ attempt'[n].domain = attempt[n].domain
  <2>1. CASE FindUserByIdentity(m)
    BY <1>0, <2>1 DEF FindUserByIdentity, Step, AttemptRow
  <2>2. CASE FindMembershipsForUser(m)
    BY <1>0, <2>2 DEF FindMembershipsForUser, Step, AttemptRow
  <2> QED
    BY <1>4, <2>1, <2>2
<1>5. ASSUME NEW m \in Attempt, CreateUserWithIdentity(m)
      PROVE  attempt'[n].browser = attempt[n].browser /\ attempt'[n].domain = attempt[n].domain
  <2>1. \/ attempt' = [attempt EXCEPT ![m] = [attempt[m] EXCEPT !.pc = "member"]]
        \/ attempt' = [attempt EXCEPT ![m] = [attempt[m] EXCEPT !.pc = "fail"]]
    BY <1>5 DEF CreateUserWithIdentity, Step
  <2> QED
    BY <1>0, <2>1 DEF AttemptRow
<1>6. ASSUME NEW m \in Attempt, Answer(m)
      PROVE  attempt'[n].browser = attempt[n].browser /\ attempt'[n].domain = attempt[n].domain
  BY <1>0, <1>6 DEF Answer, Step, AttemptRow, Unused
<1> QED
  BY <1>1, <1>2, <1>3, <1>4, <1>5, <1>6, AttemptsMove

LEMMA WholeSeedStays ==
  ASSUME SignInIInv, SignInNext PROVE seed' \subseteq Everything /\ seed \subseteq seed'
<1>1. seed \subseteq Everything /\ seeding \in [Browser -> 0 .. 13]
  BY DEF SignInIInv, SeedInOrder
<1>2. ASSUME NEW b \in Browser, Insert(b) PROVE seed' \subseteq Everything /\ seed \subseteq seed'
  <2>1. seeding[b] \in 1 .. 13 /\ seeding[b] % 2 = 0
    BY <1>1, <1>2 DEF Insert
  <2>2. (seeding[b] + 1) \div 2 \in 1 .. 6
    BY <2>1
  <2>3. ThingOf(seeding[b]) \in Everything
    BY <2>2 DEF ThingOf, Everything, Seeded
  <2> QED
    BY <1>1, <1>2, <2>3 DEF Insert
<1>3. ASSUME NEW b \in Browser, DevLogin(b) \/ Look(b) \/ DevAnswer(b) \/ DevFails(b)
      PROVE  seed' = seed
  BY <1>3 DEF DevLogin, Look, DevAnswer, DevFails
<1> QED
  BY <1>1, <1>2, <1>3, SeedMoves

LEMMA NothingIsTakenBack ==
  ASSUME SignInIInv, SignInNext PROVE Remembers
<1>1. DOMAIN user \subseteq DOMAIN user' /\ \A i \in DOMAIN user : user'[i] = user[i]
  <2>1. user \in Seq(UserRow)
    BY DEF SignInIInv, SignInTyped
  <2>2. ASSUME NEW a \in Account, user' = Append(user, [account |-> a, email |-> Profile(a).email])
        PROVE  DOMAIN user \subseteq DOMAIN user' /\ \A i \in DOMAIN user : user'[i] = user[i]
    <3>1. [account |-> a, email |-> Profile(a).email] \in UserRow
      BY DEF UserRow
    <3> QED
      BY <2>1, <2>2, <3>1, AppendProperties
  <2> QED
    BY <2>2, UsersAreOnlyAdded
<1>2. belonged \subseteq belonged'
  BY MembershipsChange
<1>3. seed = Everything => seed' = Everything
  BY WholeSeedStays
<1> QED
  BY <1>1, <1>2, <1>3, AttemptsStayPut DEF Remembers

----------------------------------------------------------------------------

LEMMA UsersStayUnique ==
  ASSUME SignInIInv, SignInNext PROVE user' \in Seq(UserRow) /\ UsersAreUnique'
<1>1. user \in Seq(UserRow) /\ UsersAreUnique
  BY DEF SignInIInv, SignInTyped
<1>2. ASSUME NEW a \in Account, IsNew(a),
             user' = Append(user, [account |-> a, email |-> Profile(a).email])
      PROVE  user' \in Seq(UserRow) /\ UsersAreUnique'
  <2> DEFINE row == [account |-> a, email |-> Profile(a).email]
  <2>1. row \in UserRow
    BY DEF UserRow
  <2>2. /\ user' \in Seq(UserRow) /\ Len(user') = Len(user) + 1 /\ user'[Len(user) + 1] = row
        /\ \A i \in 1 .. Len(user) : user'[i] = user[i]
    BY <1>1, <1>2, <2>1, AppendProperties
  <2>3. /\ Len(user) \in Nat /\ DOMAIN user = 1 .. Len(user)
        /\ DOMAIN user' = 1 .. (Len(user) + 1)
    BY <1>1, <2>2
  <2>4. \A i \in 1 .. Len(user) : user[i].account # row.account /\ user[i].email # row.email
    BY <1>2, <2>3 DEF IsNew
  <2>5. ASSUME NEW i \in DOMAIN user', NEW j \in DOMAIN user',
               user'[i].account = user'[j].account \/ user'[i].email = user'[j].email
        PROVE  i = j
    <3>1. CASE i \in 1 .. Len(user) /\ j \in 1 .. Len(user)
      BY <1>1, <2>2, <2>3, <2>5, <3>1 DEF UsersAreUnique
    <3>2. CASE i = Len(user) + 1 \/ j = Len(user) + 1
      BY <2>2, <2>3, <2>4, <2>5, <3>2
    <3> QED
      BY <2>3, <3>1, <3>2
  <2> QED
    BY <2>2, <2>5 DEF UsersAreUnique
<1> QED
  BY <1>1, <1>2, UsersAreOnlyAdded DEF UsersAreUnique

LEMMA MembershipsStayRemembered ==
  ASSUME SignInIInv, SignInNext
  PROVE  /\ belongs' \in [Account -> SUBSET Tenancy] /\ belonged' \subseteq Account \X Tenancy
         /\ MembershipsAreRemembered'
  BY MembershipsChange DEF SignInIInv, SignInTyped, MembershipsAreRemembered

LEMMA SeedStaysInOrder ==
  ASSUME SignInIInv, SignInNext PROVE SeedInOrder'
<1>0. /\ seed \subseteq Everything /\ seeding \in [Browser -> 0 .. 13]
      /\ \A i \in DOMAIN Seeded : Seeded[i] \in seed => \A j \in 1 .. i : Seeded[j] \in seed
      /\ \A c \in Browser : \A j \in DOMAIN Seeded : 2 * j < seeding[c] => Seeded[j] \in seed
  BY DEF SignInIInv, SeedInOrder
<1>1. DOMAIN Seeded = 1 .. 6 /\ Len(Seeded) = 6
  BY DEF Seeded
<1>2. \A i, j \in 1 .. 6 : Seeded[i] = Seeded[j] => i = j
  BY DEF Seeded
<1>3. seed \subseteq seed' /\ seed' \subseteq Everything
  BY WholeSeedStays
<1>4. ASSUME NEW b \in Browser, NEW p \in 0 .. 13, seed' = seed,
             seeding' = [seeding EXCEPT ![b] = p],
             \A j \in 1 .. 6 : 2 * j < p => Seeded[j] \in seed
      PROVE  SeedInOrder'
  BY <1>0, <1>1, <1>4 DEF SeedInOrder
<1>5. ASSUME NEW b \in Browser, DevLogin(b) \/ DevAnswer(b) \/ DevFails(b) PROVE SeedInOrder'
  <2>1. /\ seed' = seed
        /\ seeding' = [seeding EXCEPT ![b] = 0] \/ seeding' = [seeding EXCEPT ![b] = 1]
    BY <1>5 DEF DevLogin, DevAnswer, DevFails
  <2>2. PICK p \in 0 .. 1 : seeding' = [seeding EXCEPT ![b] = p]
    BY <2>1
  <2>3. p \in 0 .. 13 /\ \A j \in 1 .. 6 : ~ 2 * j < p
    OBVIOUS
  <2> QED
    BY <1>4, <2>1, <2>2, <2>3
<1>6. ASSUME NEW b \in Browser, Look(b) PROVE SeedInOrder'
  <2>1. seeding[b] \in 1 .. 12 /\ seeding[b] % 2 = 1 /\ seed' = seed
    BY <1>0, <1>1, <1>6 DEF Look
  <2>2. PICK k \in 1 .. 6 : seeding[b] = 2 * k - 1
    BY <2>1
  <2>3. ThingOf(seeding[b]) = Seeded[k]
    BY <2>2 DEF ThingOf
  <2>4. PICK p : p = IF Seeded[k] \in seed THEN 2 * k + 1 ELSE 2 * k
    OBVIOUS
  <2>5. seeding' = [seeding EXCEPT ![b] = p]
    <3>1. p = IF ThingOf(seeding[b]) \in seed THEN seeding[b] + 2 ELSE seeding[b] + 1
      BY <2>2, <2>3, <2>4
    <3> QED
      BY <1>6, <3>1 DEF Look
  <2>6. \A j \in 1 .. 6 : 2 * j < 2 * k => Seeded[j] \in seed
    BY <1>0, <1>1, <2>2
  <2>7. \A j \in 1 .. 6 : 2 * j < p => Seeded[j] \in seed
    BY <2>4, <2>6
  <2>8. p \in 0 .. 13
    BY <2>4
  <2> QED
    BY <1>4, <2>1, <2>5, <2>7, <2>8
<1>7. ASSUME NEW b \in Browser, Insert(b) PROVE SeedInOrder'
  <2>1. seeding[b] \in 1 .. 13 /\ seeding[b] % 2 = 0
    BY <1>0, <1>7 DEF Insert
  <2>2. PICK k \in 1 .. 6 : seeding[b] = 2 * k
    BY <2>1
  <2>3. ThingOf(seeding[b]) = Seeded[k]
    BY <2>2 DEF ThingOf
  <2>4. CASE Seeded[k] \in seed
    <3>1. seed' = seed /\ seeding' = [seeding EXCEPT ![b] = 0]
      BY <1>7, <2>3, <2>4 DEF Insert
    <3>2. 0 \in 0 .. 13 /\ \A j \in 1 .. 6 : ~ 2 * j < 0
      OBVIOUS
    <3> QED
      BY <1>4, <3>1, <3>2
  <2>5. CASE Seeded[k] \notin seed
    <3>1. seed' = seed \cup {Seeded[k]} /\ seeding' = [seeding EXCEPT ![b] = 2 * k + 1]
      BY <1>7, <2>2, <2>3, <2>5 DEF Insert
    <3>2. \A j \in 1 .. k : Seeded[j] \in seed'
      <4>1. \A j \in 1 .. 6 : j < k => Seeded[j] \in seed
        BY <1>0, <1>1, <2>2
      <4> QED
        BY <3>1, <4>1
    <3>3. seeding' \in [Browser -> 0 .. 13]
      BY <1>0, <3>1
    <3>4. \A i \in DOMAIN Seeded : Seeded[i] \in seed' => \A j \in 1 .. i : Seeded[j] \in seed'
      <4>1. SUFFICES ASSUME NEW i \in 1 .. 6, Seeded[i] \in seed', NEW j \in 1 .. i
                     PROVE  Seeded[j] \in seed'
        BY <1>1
      <4>2. CASE i = k
        BY <3>2, <4>2
      <4>3. CASE i # k
        <5>1. Seeded[i] \in seed
          BY <1>2, <3>1, <4>1, <4>3
        <5> QED
          BY <1>0, <1>1, <1>3, <5>1
      <4> QED
        BY <4>2, <4>3
    <3>5. \A c \in Browser : \A j \in DOMAIN Seeded : 2 * j < seeding'[c] => Seeded[j] \in seed'
      <4>1. SUFFICES ASSUME NEW c \in Browser, NEW j \in 1 .. 6, 2 * j < seeding'[c]
                     PROVE  Seeded[j] \in seed'
        BY <1>1
      <4>2. CASE c = b
        BY <1>0, <3>1, <3>2, <4>1, <4>2
      <4>3. CASE c # b
        BY <1>0, <1>1, <1>3, <3>1, <4>1, <4>3
      <4> QED
        BY <4>2, <4>3
    <3> QED
      BY <1>3, <3>3, <3>4, <3>5 DEF SeedInOrder
  <2> QED
    BY <2>4, <2>5
<1>8. CASE seed' = seed /\ seeding' = seeding
  BY <1>0, <1>8 DEF SeedInOrder
<1> QED
  BY <1>5, <1>6, <1>7, <1>8, SeedMoves

LEMMA AttemptsKeepOrder ==
  ASSUME SignInIInv, SignInNext PROVE attempt' \in [Attempt -> AttemptRow] /\ AttemptsInOrder'
<1>0. /\ attempt \in [Attempt -> AttemptRow] /\ \A m \in Attempt : attempt[m] \in AttemptRow
      /\ \A m \in Attempt : AttemptInOrder(attempt[m]) /\ user \in Seq(UserRow)
  BY DEF SignInIInv, SignInTyped, AttemptsInOrder
<1>1. Remembers
  BY NothingIsTakenBack
<1>2. ASSUME NEW n \in Attempt, NEW r \in AttemptRow, attempt' = [attempt EXCEPT ![n] = r],
             AttemptInOrder(r)'
      PROVE  attempt' \in [Attempt -> AttemptRow] /\ AttemptsInOrder'
  <2>1. attempt' \in [Attempt -> AttemptRow]
    BY <1>0, <1>2
  <2>2. ASSUME NEW m \in Attempt, m # n PROVE AttemptInOrder(attempt[m])' /\ attempt'[m] = attempt[m]
    <3>1. attempt'[m] = attempt[m]
      BY <1>0, <1>2, <2>2
    <3>2. PICK row : row = attempt[m]
      OBVIOUS
    <3>3. AttemptInOrder(row)'
      BY <1>0, <1>1, <3>2, AttemptStaysInOrder
    <3> QED
      BY <3>1, <3>2, <3>3
  <2>3. attempt'[n] = r
    BY <1>0, <1>2
  <2> QED
    BY <1>2, <2>1, <2>2, <2>3 DEF AttemptsInOrder
<1>3. CASE attempt' = attempt
  <2>1. ASSUME NEW m \in Attempt PROVE AttemptInOrder(attempt[m])'
    <3>1. PICK row : row = attempt[m]
      OBVIOUS
    <3>2. AttemptInOrder(row)'
      BY <1>0, <1>1, <3>1, AttemptStaysInOrder
    <3> QED
      BY <1>3, <3>1, <3>2
  <2> QED
    BY <1>0, <1>3, <2>1 DEF AttemptsInOrder
<1>4. ASSUME NEW n \in Attempt, NEW b \in Browser, NEW d \in Domain, Login(n, b, d)
      PROVE  attempt' \in [Attempt -> AttemptRow] /\ AttemptsInOrder'
  <2> DEFINE r == [Unused EXCEPT !.pc = "away", !.browser = b, !.domain = d]
  <2>1. r.pc = "away" /\ r.browser = b /\ r \in AttemptRow
    BY DEF Unused, AttemptRow
  <2>2. attempt' = [attempt EXCEPT ![n] = r]
    BY <1>4 DEF Login, Step
  <2> HIDE DEF r
  <2>3. AttemptInOrder(r)'
    BY <2>1 DEF AttemptInOrder
  <2> QED
    BY <1>2, <2>1, <2>2, <2>3
<1>5. ASSUME NEW n \in Attempt, NEW a \in Account, Callback(n, a)
      PROVE  attempt' \in [Attempt -> AttemptRow] /\ AttemptsInOrder'
  <2>1. /\ attempt[n] \in AttemptRow /\ AttemptInOrder(attempt[n]) /\ attempt[n].pc = "away"
        /\ attempt[n].browser \in Browser
    BY <1>0, <1>5 DEF Callback, AttemptInOrder
  <2>2. CASE Accepts(n, a) /\ flowCookie[attempt[n].browser] # Nothing
    <3>1. PICK r : r = [attempt[n] EXCEPT !.pc = "find", !.account = a]
      OBVIOUS
    <3>2. attempt' = [attempt EXCEPT ![n] = r]
      BY <1>5, <2>2, <3>1 DEF Callback, Step
    <3>3. /\ r \in AttemptRow /\ r.pc = "find" /\ r.browser = attempt[n].browser
          /\ r.domain = attempt[n].domain /\ r.account = a
      BY <2>1, <3>1 DEF AttemptRow
    <3>4. Profile(a).verified /\ Profile(a).domain = attempt[n].domain
      BY <2>2 DEF Accepts
    <3>5. AttemptInOrder(r)'
      BY <2>1, <3>3, <3>4 DEF AttemptInOrder
    <3> QED
      BY <1>2, <3>2, <3>3, <3>5
  <2>3. CASE ~ (Accepts(n, a) /\ flowCookie[attempt[n].browser] # Nothing)
    <3>0. \/ attempt' = [attempt EXCEPT ![n] = [attempt[n] EXCEPT !.pc = "over"]]
          \/ attempt' = [attempt EXCEPT ![n] = [attempt[n] EXCEPT !.pc = "fail"]]
      <4>1. Accepts(n, a) => flowCookie[attempt[n].browser] # Nothing
        BY SignInAssumption DEF Accepts, Attempt
      <4>2. ~ Accepts(n, a)
        BY <2>3, <4>1
      <4>3. Callback(n, a)
        BY <1>5
      <4>4. CASE flowCookie[attempt[n].browser] = Nothing
        BY <4>2, <4>3, <4>4 DEF Callback, Step
      <4>5. CASE flowCookie[attempt[n].browser] # Nothing
        BY <4>2, <4>3, <4>5 DEF Callback, Step
      <4> QED
        BY <4>4, <4>5
    <3>1. PICK pc \in {"over", "fail"} :
            attempt' = [attempt EXCEPT ![n] = [attempt[n] EXCEPT !.pc = pc]]
      BY <3>0
    <3>2. PICK r : r = [attempt[n] EXCEPT !.pc = pc]
      OBVIOUS
    <3>3. r \in AttemptRow /\ r.pc = pc /\ r.browser = attempt[n].browser
      BY <2>1, <3>1, <3>2 DEF AttemptRow
    <3>4. AttemptInOrder(r)'
      BY <2>1, <3>1, <3>3 DEF AttemptInOrder
    <3> QED
      BY <1>2, <3>1, <3>2, <3>3, <3>4
  <2> QED
    BY <2>2, <2>3
<1>6. ASSUME NEW n \in Attempt, FindUserByIdentity(n)
      PROVE  attempt' \in [Attempt -> AttemptRow] /\ AttemptsInOrder'
  <2>1. /\ attempt[n] \in AttemptRow /\ AttemptInOrder(attempt[n]) /\ attempt[n].pc = "find"
        /\ user' = user
    BY <1>0, <1>6 DEF FindUserByIdentity, database
  <2>2. PICK pc \in {"create", "member"} :
          /\ attempt' = [attempt EXCEPT ![n] = [attempt[n] EXCEPT !.pc = pc]]
          /\ pc = "member" => RowOf(attempt[n].account) # {}
    BY <1>6 DEF FindUserByIdentity, Step
  <2>3. PICK r : r = [attempt[n] EXCEPT !.pc = pc]
    OBVIOUS
  <2>4. /\ r \in AttemptRow /\ r.pc = pc /\ r.browser = attempt[n].browser
        /\ r.domain = attempt[n].domain /\ r.account = attempt[n].account
    BY <2>1, <2>2, <2>3 DEF AttemptRow
  <2>5. AttemptInOrder(r)
    BY <2>1, <2>2, <2>4 DEF AttemptInOrder
  <2>6. AttemptInOrder(r)'
    BY <1>1, <2>5, AttemptStaysInOrder
  <2> QED
    BY <1>2, <2>2, <2>3, <2>4, <2>6
<1>7. ASSUME NEW n \in Attempt, CreateUserWithIdentity(n)
      PROVE  attempt' \in [Attempt -> AttemptRow] /\ AttemptsInOrder'
  <2> DEFINE a == attempt[n].account
  <2>1. /\ attempt[n] \in AttemptRow /\ AttemptInOrder(attempt[n]) /\ attempt[n].pc = "create"
        /\ a \in Account /\ attempt[n].browser \in Browser
        /\ Profile(a).verified /\ Profile(a).domain = attempt[n].domain
    BY <1>0, <1>7 DEF CreateUserWithIdentity, AttemptInOrder
  <2>2. PICK pc \in {"fail", "member"} :
          /\ attempt' = [attempt EXCEPT ![n] = [attempt[n] EXCEPT !.pc = pc]]
          /\ pc = "member" => user' = Append(user, [account |-> a, email |-> Profile(a).email])
    BY <1>7 DEF CreateUserWithIdentity, Step
  <2>3. PICK r : r = [attempt[n] EXCEPT !.pc = pc]
    OBVIOUS
  <2>4. /\ r \in AttemptRow /\ r.pc = pc /\ r.browser = attempt[n].browser
        /\ r.domain = attempt[n].domain /\ r.account = attempt[n].account
    BY <2>1, <2>2, <2>3 DEF AttemptRow
  <2>5. pc = "member" => \E i \in DOMAIN user' : user'[i].account = a
    <3> DEFINE row == [account |-> a, email |-> Profile(a).email]
    <3>1. row \in UserRow /\ row.account = a
      BY <2>1 DEF UserRow
    <3> HIDE DEF row
    <3>2. /\ Append(user, row) \in Seq(UserRow) /\ Len(Append(user, row)) = Len(user) + 1
          /\ Append(user, row)[Len(user) + 1] = row /\ Len(user) \in Nat
      BY <1>0, <3>1, AppendProperties
    <3>3. pc = "member" => user' = Append(user, row)
      BY <2>2 DEF row
    <3>4. Len(user) + 1 \in DOMAIN Append(user, row)
      BY <3>2
    <3> QED
      BY <3>1, <3>2, <3>3, <3>4
  <2>6. AttemptInOrder(r)'
    BY <2>1, <2>2, <2>4, <2>5 DEF AttemptInOrder, RowOf
  <2> QED
    BY <1>2, <2>2, <2>3, <2>4, <2>6
<1>8. ASSUME NEW n \in Attempt, FindMembershipsForUser(n)
      PROVE  attempt' \in [Attempt -> AttemptRow] /\ AttemptsInOrder'
  <2> DEFINE a == attempt[n].account
  <2>1. /\ attempt[n] \in AttemptRow /\ AttemptInOrder(attempt[n]) /\ attempt[n].pc = "member"
        /\ a \in Account /\ RowOf(a) # {} /\ Profile(a).verified
    BY <1>0, <1>8 DEF FindMembershipsForUser, AttemptInOrder
  <2>2. PICK i, o : /\ i = CHOOSE j \in RowOf(a) : TRUE
                    /\ o = IF Cardinality(belongs[a]) = 1 THEN CHOOSE p \in belongs[a] : TRUE
                                                          ELSE Nothing
    OBVIOUS
  <2>3. PICK claims : claims = [user |-> i, account |-> a, organisation |-> o]
    OBVIOUS
  <2>4. PICK r : r = [attempt[n] EXCEPT !.pc = "answer", !.claims = claims]
    OBVIOUS
  <2>5. attempt' = [attempt EXCEPT ![n] = r]
    BY <1>8, <2>2, <2>3, <2>4 DEF FindMembershipsForUser, Step
  <2>6. i \in DOMAIN user /\ user[i].account = a /\ i \in Nat
    <3>1. i \in RowOf(a)
      BY <2>1, <2>2
    <3> QED
      BY <1>0, <3>1 DEF RowOf
  <2>7. o = Nothing \/ (o \in belongs[a] /\ o \in Tenancy)
    <3>1. belongs[a] \subseteq Tenancy
      BY <2>1 DEF SignInIInv, SignInTyped
    <3>2. Cardinality(belongs[a]) = 1 => belongs[a] # {}
      BY FS_EmptySet
    <3> QED
      BY <2>2, <3>1, <3>2
  <2>8. claims \in Claims
    BY <2>1, <2>3, <2>6, <2>7 DEF Claims
  <2>9. AreTrue(claims)
    BY <2>1, <2>3, <2>6, <2>7 DEF AreTrue, SignInIInv, MembershipsAreRemembered
  <2>10. /\ r \in AttemptRow /\ r.pc = "answer" /\ r.browser = attempt[n].browser
         /\ r.domain = attempt[n].domain /\ r.account = a /\ r.claims = claims
    BY <2>1, <2>4, <2>8 DEF AttemptRow
  <2>11. AttemptInOrder(r)
    BY <2>1, <2>3, <2>8, <2>9, <2>10, SignInAssumption DEF AttemptInOrder
  <2>12. AttemptInOrder(r)'
    BY <1>1, <2>11, AttemptStaysInOrder
  <2> QED
    BY <1>2, <2>5, <2>10, <2>12
<1>9. ASSUME NEW n \in Attempt, Answer(n)
      PROVE  attempt' \in [Attempt -> AttemptRow] /\ AttemptsInOrder'
  <2> DEFINE r == [Unused EXCEPT !.pc = "over", !.browser = attempt[n].browser,
                                 !.domain = attempt[n].domain]
  <2>1. attempt[n] \in AttemptRow /\ attempt[n].browser \in Browser
    BY <1>0, <1>9 DEF Answer, AttemptInOrder
  <2>2. r \in AttemptRow /\ r.pc = "over" /\ r.browser \in Browser
    BY <2>1 DEF Unused, AttemptRow
  <2>3. attempt' = [attempt EXCEPT ![n] = r]
    BY <1>9 DEF Answer, Step
  <2> HIDE DEF r
  <2>4. PICK row : row = r
    OBVIOUS
  <2>5. AttemptInOrder(row)'
    BY <2>2, <2>4 DEF AttemptInOrder
  <2> QED
    BY <1>2, <2>2, <2>3, <2>4, <2>5
<1> QED
  BY <1>3, <1>4, <1>5, <1>6, <1>7, <1>8, <1>9, AttemptsMove

LEMMA SessionsStayInOrder ==
  ASSUME SignInIInv, SignInNext
  PROVE  /\ signedIn' \in [Browser -> Claims \cup {Nothing}]
         /\ accepting' \in [Browser -> Claims \cup {Nothing}]
         /\ SessionsInOrder'
<1>0. /\ signedIn \in [Browser -> Claims \cup {Nothing}]
      /\ accepting \in [Browser -> Claims \cup {Nothing}]
      /\ SessionsInOrder
  BY DEF SignInIInv, SignInTyped
<1>1. Remembers
  BY NothingIsTakenBack
<1>2. ASSUME NEW b \in Browser
      PROVE  ClaimsInOrder(signedIn[b], b)' \/ signedIn'[b] # signedIn[b]
  <2>1. PICK claims : claims = signedIn[b]
    OBVIOUS
  <2>2. ClaimsInOrder(claims, b)'
    BY <1>0, <1>1, <2>1, ClaimsStayInOrder DEF SessionsInOrder
  <2> QED
    BY <2>1, <2>2
<1>3. ASSUME NEW b \in Browser
      PROVE  ClaimsInOrder(accepting[b], b)' \/ accepting'[b] # accepting[b]
  <2>1. PICK claims : claims = accepting[b]
    OBVIOUS
  <2>2. ClaimsInOrder(claims, b)'
    BY <1>0, <1>1, <2>1, ClaimsStayInOrder DEF SessionsInOrder
  <2> QED
    BY <2>1, <2>2
<1>4. ASSUME NEW b \in Browser, NEW claims \in Claims \cup {Nothing}, ClaimsInOrder(claims, b)',
             signedIn' = [signedIn EXCEPT ![b] = claims],
             accepting' = accepting \/ accepting' = [accepting EXCEPT ![b] = Nothing]
      PROVE  /\ signedIn' \in [Browser -> Claims \cup {Nothing}]
             /\ accepting' \in [Browser -> Claims \cup {Nothing}]
             /\ SessionsInOrder'
  <2>1. /\ signedIn' \in [Browser -> Claims \cup {Nothing}]
        /\ accepting' \in [Browser -> Claims \cup {Nothing}]
    BY <1>0, <1>4
  <2>2. ASSUME NEW c \in Browser PROVE ClaimsInOrder(signedIn[c], c)'
    <3>1. CASE c = b
      BY <1>0, <1>4, <3>1
    <3>2. CASE c # b
      BY <1>0, <1>2, <1>4, <3>2
    <3> QED
      BY <3>1, <3>2
  <2>3. ASSUME NEW c \in Browser PROVE ClaimsInOrder(accepting[c], c)'
    <3>1. CASE accepting'[c] = Nothing
      BY <3>1 DEF ClaimsInOrder
    <3>2. CASE accepting'[c] = accepting[c]
      BY <1>3, <3>2
    <3> QED
      BY <1>0, <1>4, <3>1, <3>2
  <2> QED
    BY <2>1, <2>2, <2>3 DEF SessionsInOrder
<1>5. CASE signedIn' = signedIn /\ accepting' = accepting
  BY <1>0, <1>2, <1>3, <1>5 DEF SessionsInOrder
<1>6. ASSUME NEW n \in Attempt, Answer(n)
      PROVE  /\ signedIn' \in [Browser -> Claims \cup {Nothing}]
             /\ accepting' \in [Browser -> Claims \cup {Nothing}]
             /\ SessionsInOrder'
  <2>1. /\ attempt[n] \in AttemptRow /\ AttemptInOrder(attempt[n])
        /\ attempt[n].pc \in {"answer", "fail"} /\ accepting' = accepting
    BY <1>6 DEF Answer, SignInIInv, SignInTyped, AttemptsInOrder
  <2>2. CASE attempt[n].pc = "fail"
    <3>1. signedIn' = signedIn
      BY <1>6, <2>2 DEF Answer
    <3> QED
      BY <1>5, <2>1, <3>1
  <2>3. CASE attempt[n].pc = "answer"
    <3>1. PICK claims, b : claims = attempt[n].claims /\ b = attempt[n].browser
      OBVIOUS
    <3>2. signedIn' = [signedIn EXCEPT ![b] = claims]
      BY <1>6, <2>3, <3>1 DEF Answer
    <3>3. /\ b \in Browser /\ claims \in Claims /\ AreTrue(claims)
          /\ Profile(claims.account).domain = attempt[n].domain
      BY <2>1, <2>3, <3>1 DEF AttemptInOrder, AttemptRow
    <3>4. AreEarned(claims, b)
      BY <3>1, <3>3 DEF AreEarned, Tried
    <3>5. ClaimsInOrder(claims, b)'
      BY <1>1, <3>3, <3>4, ClaimsStayInOrder DEF ClaimsInOrder
    <3> QED
      BY <1>4, <2>1, <3>2, <3>3, <3>5
  <2> QED
    BY <2>1, <2>2, <2>3
<1>7. ASSUME NEW b \in Browser, InvitationAnswered(b)
      PROVE  /\ signedIn' \in [Browser -> Claims \cup {Nothing}]
             /\ accepting' \in [Browser -> Claims \cup {Nothing}]
             /\ SessionsInOrder'
  <2>1. PICK claims : claims = accepting[b]
    OBVIOUS
  <2>2. claims \in Claims \cup {Nothing} /\ ClaimsInOrder(claims, b)
    BY <1>0, <2>1 DEF SessionsInOrder
  <2>3. ClaimsInOrder(claims, b)'
    BY <1>1, <2>2, ClaimsStayInOrder
  <2> QED
    BY <1>4, <1>7, <2>1, <2>2, <2>3 DEF InvitationAnswered
<1>8. ASSUME NEW b \in Browser, Logout(b)
      PROVE  /\ signedIn' \in [Browser -> Claims \cup {Nothing}]
             /\ accepting' \in [Browser -> Claims \cup {Nothing}]
             /\ SessionsInOrder'
  <2>1. ClaimsInOrder(Nothing, b)'
    BY DEF ClaimsInOrder
  <2> QED
    BY <1>4, <1>8, <2>1 DEF Logout
<1>9. ASSUME NEW b \in Browser, DevAnswer(b)
      PROVE  /\ signedIn' \in [Browser -> Claims \cup {Nothing}]
             /\ accepting' \in [Browser -> Claims \cup {Nothing}]
             /\ SessionsInOrder'
  <2>1. PICK who \in DevAccount : signedIn' = [signedIn EXCEPT ![b] =
               [user |-> 0, account |-> who, organisation |-> DevOrganisation]]
    BY <1>9 DEF DevAnswer
  <2>2. PICK claims : claims = [user |-> 0, account |-> who, organisation |-> DevOrganisation]
    OBVIOUS
  <2>3. claims \in Claims /\ claims.account = who /\ who \notin Account
    BY <2>2, SignInAssumption DEF Claims
  <2>4. seed = Everything /\ seed' = seed /\ accepting' = accepting
    <3>1. seeding[b] = 13 /\ seed' = seed /\ accepting' = accepting
      BY <1>9 DEF DevAnswer, Seeded
    <3>2. DOMAIN Seeded = 1 .. 6
      BY DEF Seeded
    <3>3. \A j \in DOMAIN Seeded : Seeded[j] \in seed
      BY <3>1, <3>2 DEF SignInIInv, SeedInOrder
    <3> QED
      BY <3>1, <3>3 DEF SignInIInv, SeedInOrder, Everything
  <2>5. ClaimsInOrder(claims, b)'
    BY <2>3, <2>4 DEF ClaimsInOrder, AreTrue, AreEarned
  <2> QED
    BY <1>4, <2>1, <2>2, <2>3, <2>4, <2>5
<1>10. ASSUME NEW b \in Browser, NEW o \in Tenancy, AcceptInvitation(b, o)
       PROVE  /\ signedIn' \in [Browser -> Claims \cup {Nothing}]
              /\ accepting' \in [Browser -> Claims \cup {Nothing}]
              /\ SessionsInOrder'
  <2>1. PICK old, claims : old = signedIn[b] /\ claims = [old EXCEPT !.organisation = o]
    OBVIOUS
  <2>2. /\ old \in Claims /\ old # Nothing /\ old.account \in Account /\ ClaimsInOrder(old, b)
        /\ accepting' = [accepting EXCEPT ![b] = claims] /\ signedIn' = signedIn
        /\ belonged' = belonged \cup {<<old.account, o>>} /\ user' = user
    BY <1>0, <1>10, <2>1 DEF AcceptInvitation, SessionsInOrder
  <2>3. /\ claims \in Claims /\ claims.account = old.account /\ claims.user = old.user
        /\ claims.organisation = o
    BY <2>1, <2>2 DEF Claims
  <2>4. AreTrue(old)' /\ AreEarned(old, b)'
    BY <1>1, <2>2, ClaimsStayInOrder DEF ClaimsInOrder
  <2>5. ClaimsInOrder(claims, b)'
    BY <2>2, <2>3, <2>4 DEF ClaimsInOrder, AreTrue, AreEarned
  <2>6. /\ signedIn' \in [Browser -> Claims \cup {Nothing}]
        /\ accepting' \in [Browser -> Claims \cup {Nothing}]
    BY <1>0, <2>2, <2>3
  <2>7. ASSUME NEW c \in Browser PROVE ClaimsInOrder(accepting[c], c)'
    <3>1. CASE c = b
      BY <1>0, <2>2, <2>5, <3>1
    <3>2. CASE c # b
      BY <1>0, <1>3, <2>2, <3>2
    <3> QED
      BY <3>1, <3>2
  <2>8. ASSUME NEW c \in Browser PROVE ClaimsInOrder(signedIn[c], c)'
    BY <1>2, <2>2
  <2> QED
    BY <2>6, <2>7, <2>8 DEF SessionsInOrder
<1> QED
  BY <1>5, <1>6, <1>7, <1>8, <1>9, <1>10, SessionsMove

LEMMA CookiesStayTyped ==
  ASSUME SignInIInv, SignInNext PROVE flowCookie' \in [Browser -> Attempt \cup {Nothing}]
<1>1. flowCookie \in [Browser -> Attempt \cup {Nothing}]
  BY DEF SignInIInv, SignInTyped
<1>2. ASSUME NEW n \in Attempt, Answer(n)
      PROVE  flowCookie' \in [Browser -> Attempt \cup {Nothing}]
  BY <1>1, <1>2 DEF Answer
<1> QED
  BY <1>1, <1>2, CookiesMove

LEMMA SignInsStartInOrder == SignInInit => SignInIInv
<1> SUFFICES ASSUME SignInInit PROVE SignInIInv
  OBVIOUS
<1>1. user = <<>> /\ user \in Seq(UserRow) /\ DOMAIN user = {}
  BY DEF SignInInit
<1>2. Unused \in AttemptRow /\ Unused.pc = "unused"
  BY DEF Unused, AttemptRow
<1>3. \A n \in Attempt : attempt[n] = Unused
  BY DEF SignInInit
<1>4. AttemptsInOrder
  BY <1>2, <1>3 DEF AttemptsInOrder, AttemptInOrder
<1>5. SignInTyped
  BY <1>1, <1>2 DEF SignInInit, SignInTyped
<1>6. SessionsInOrder
  BY DEF SignInInit, SessionsInOrder, ClaimsInOrder
<1>7. UsersAreUnique /\ MembershipsAreRemembered
  BY <1>1 DEF SignInInit, UsersAreUnique, MembershipsAreRemembered
<1>8. SeedInOrder
  <2>1. DOMAIN Seeded = 1 .. 6
    BY DEF Seeded
  <2> QED
    BY <2>1 DEF SignInInit, SeedInOrder
<1> QED
  BY <1>4, <1>5, <1>6, <1>7, <1>8 DEF SignInIInv

LEMMA SignInIInvIsInductive == SignInIInv /\ [SignInNext]_signInVars => SignInIInv'
<1> SUFFICES ASSUME SignInIInv, [SignInNext]_signInVars PROVE SignInIInv'
  OBVIOUS
<1>1. CASE SignInNext
  <2>1. user' \in Seq(UserRow) /\ UsersAreUnique'
    BY <1>1, UsersStayUnique
  <2>2. /\ belongs' \in [Account -> SUBSET Tenancy] /\ belonged' \subseteq Account \X Tenancy
        /\ MembershipsAreRemembered'
    BY <1>1, MembershipsStayRemembered
  <2>3. attempt' \in [Attempt -> AttemptRow] /\ AttemptsInOrder'
    BY <1>1, AttemptsKeepOrder
  <2>4. /\ signedIn' \in [Browser -> Claims \cup {Nothing}]
        /\ accepting' \in [Browser -> Claims \cup {Nothing}]
        /\ SessionsInOrder'
    BY <1>1, SessionsStayInOrder
  <2>5. flowCookie' \in [Browser -> Attempt \cup {Nothing}]
    BY <1>1, CookiesStayTyped
  <2>6. SeedInOrder'
    BY <1>1, SeedStaysInOrder
  <2> QED
    BY <2>1, <2>2, <2>3, <2>4, <2>5, <2>6 DEF SignInIInv, SignInTyped
<1>2. CASE UNCHANGED signInVars
  BY <1>2 DEF signInVars, SignInIInv, SignInTyped, UsersAreUnique, SessionsInOrder, ClaimsInOrder,
       AreTrue, AreEarned, Tried, AttemptsInOrder, AttemptInOrder, RowOf, MembershipsAreRemembered,
       SeedInOrder
<1> QED
  BY <1>1, <1>2

(* However sign-ins, expiries, first visits, invitations, changes of       *)
(* membership and development sign-ins interleave (routes/auth.ts), the    *)
(* claims in every browser's session, and those an accepted invitation is  *)
(* about to answer with, are true and earned in that browser.              *)
THEOREM SignInInvariance == SignInSpec => []SignInIInv
  BY SignInsStartInOrder, SignInIInvIsInductive, PTL DEF SignInSpec

(* One account is one user; a session names a user row of its own account, *)
(* was earned in the browser that holds it and names no organisation its   *)
(* user never belonged to; a development session finds everything seeded.  *)
THEOREM SessionsSayWhatIsTrue == SignInSpec => []SignInInv
<1>1. SignInIInv => SignInInv
  <2> SUFFICES ASSUME SignInIInv PROVE SignInInv
    OBVIOUS
  <2>1. ASSUME NEW b \in Browser, signedIn[b] # Nothing
        PROVE  AreTrue(signedIn[b]) /\ AreEarned(signedIn[b], b)
    BY <2>1 DEF SignInIInv, SessionsInOrder, ClaimsInOrder
  <2>2. OneUserPerAccount
    <3>1. UsersAreUnique
      BY DEF SignInIInv
    <3>2. \A s \in Sessions : s.account \in Account => user[s.user].account = s.account
      BY <2>1 DEF Sessions, AreTrue
    <3> QED
      BY <3>1, <3>2 DEF OneUserPerAccount, UsersAreUnique
  <2>3. SessionsAreEarned
    BY <2>1 DEF SessionsAreEarned, AreTrue, AreEarned, Tried
  <2>4. SessionsNameAMembership
    BY <2>1 DEF SessionsNameAMembership, Sessions, AreTrue
  <2>5. SeedIsWhole
    BY <2>1 DEF SeedIsWhole, Sessions, AreTrue, Everything, SignInIInv, SeedInOrder
  <2> QED
    BY <2>2, <2>3, <2>4, <2>5 DEF SignInInv
<1> QED
  BY <1>1, SignInInvariance, PTL

----------------------------------------------------------------------------
(* Queues.                                                                 *)

Entry ==
  [case : Case, status : {"pending", "claimed", "completed", "cancelled"},
   assignee : User \cup {Nobody}, pool : Pool \cup {Nobody}, due : DueDate,
   claimedBy : User \cup {Nobody}, completedBy : User \cup {Nobody}]

Cursor == Nat \X Nat

Address == [list : Queue \cup {"none"}, cursor : Cursor, back : Seq(Cursor), next : Cursor]

QueueTyped ==
  /\ entry \in Seq(Entry) /\ within \in [User -> SUBSET Pool]
  /\ url \in [User -> Address]
  /\ steady \in [User -> SUBSET TaskId] /\ seen \in [User -> SUBSET TaskId]

(* Of the rows that stayed, those up to a cursor have been on a page.      *)
Covered(u, cursor) == \A t \in steady[u] : After(Key(t), cursor) \/ t \in seen[u]

Ascending(back, cursor) ==
  \A k \in 1 .. Len(back) : After(Append(back, cursor)[k + 1], back[k])

(* A reading keeps to what it has covered: this page, the pages before it  *)
(* and, if there is one, the page after it.                                *)
ReadingInOrder(u) ==
  /\ steady[u] \subseteq Listed(u, url[u].list)
  /\ Covered(u, url[u].cursor)
  /\ \A k \in 1 .. Len(url[u].back) : Covered(u, url[u].back[k])
  /\ IF url[u].next = NoCursor THEN steady[u] \subseteq seen[u]
     ELSE Covered(u, url[u].next) /\ After(url[u].next, url[u].cursor)
  /\ Ascending(url[u].back, url[u].cursor)

QueueIInv == QueueTyped /\ \A u \in User : ReadingInOrder(u)

LEMMA SmallestNumber ==
  ASSUME NEW S, S \subseteq Nat, S # {}
  PROVE  \E n \in S : \A m \in S : n <= m
<1>1. PICK n \in S : \A m \in S : <<m, n>> \notin OpToRel(<, Nat)
  BY WFMin, NatLessThanWellFounded
<1>2. ASSUME NEW m \in S PROVE n <= m
  <2>1. n \in Nat /\ m \in Nat /\ <<m, n>> \in Nat \X Nat
    BY <1>1
  <2>2. ~(m < n)
    BY <1>1, <2>1 DEF OpToRel
  <2> QED
    BY <2>1, <2>2
<1> QED
  BY <1>1, <1>2

(* The order of a list is total, and a cursor keeps the place of its row.  *)
LEMMA ListsAreOrdered ==
  ASSUME entry \in Seq(Entry)
  PROVE  /\ IsFiniteSet(TaskId) /\ TaskId \subseteq Nat \ {0}
         /\ \A t \in TaskId : Key(t) \in Cursor /\ Key(t) # NoCursor /\ ~Before(t, t)
         /\ \A t \in TaskId : After(Key(t), NoCursor)
         /\ \A s, t \in TaskId : s # t => Before(s, t) \/ Before(t, s)
         /\ \A s, t \in TaskId : Before(s, t) <=> After(Key(t), Key(s))
         /\ \A r, s, t \in TaskId : Before(r, s) /\ Before(s, t) => Before(r, t)
<1>1. TaskId = 1 .. Len(entry) /\ Len(entry) \in Nat
  BY DEF TaskId
<1>2. IsFiniteSet(TaskId)
  BY <1>1, FS_Interval
<1>3. \A t \in TaskId : t \in Nat \ {0} /\ entry[t].due \in Nat
  <2> SUFFICES ASSUME NEW t \in TaskId PROVE t \in Nat \ {0} /\ entry[t].due \in Nat
    OBVIOUS
  <2>1. entry[t] \in Entry
    BY <1>1
  <2>2. entry[t].due \in DueDate
    BY <2>1 DEF Entry
  <2>3. DueDate \subseteq Nat
    BY QueueAssumption
  <2>4. t \in 1 .. Len(entry)
    BY <1>1
  <2>5. t \in Nat \ {0}
    BY <1>1, <2>4
  <2>6. entry[t].due \in Nat
    BY <2>2, <2>3
  <2> QED
    BY <2>5, <2>6
<1> QED
  BY <1>2, <1>3 DEF Key, Before, After, NoCursor, Cursor

Preds(S, t) == {s \in S : Before(s, t)}

LEMMA PredsCount ==
  ASSUME entry \in Seq(Entry), NEW S \in SUBSET TaskId, NEW t \in S
  PROVE  /\ IsFiniteSet(Preds(S, t)) /\ Cardinality(Preds(S, t)) \in Nat
         /\ \A s \in S : Before(s, t) =>
              /\ Preds(S, s) \subseteq Preds(S, t)
              /\ Cardinality(Preds(S, s)) < Cardinality(Preds(S, t))
<1>1. IsFiniteSet(S)
  BY ListsAreOrdered, FS_Subset
<1>2. IsFiniteSet(Preds(S, t)) /\ Cardinality(Preds(S, t)) \in Nat
  <2>1. Preds(S, t) \subseteq S
    BY DEF Preds
  <2> QED
    BY <1>1, <2>1, FS_Subset, FS_CardinalityType
<1>3. ASSUME NEW s \in S, Before(s, t)
      PROVE  /\ Preds(S, s) \subseteq Preds(S, t)
             /\ Cardinality(Preds(S, s)) < Cardinality(Preds(S, t))
  <2>1. Preds(S, s) \subseteq Preds(S, t)
    BY <1>3, ListsAreOrdered DEF Preds
  <2>2. s \in Preds(S, t) /\ s \notin Preds(S, s)
    BY <1>3, ListsAreOrdered DEF Preds
  <2> QED
    BY <1>2, <2>1, <2>2, FS_Subset, FS_CardinalityType
<1> QED
  BY <1>2, <1>3

LEMMA PagesComeFirst ==
  ASSUME entry \in Seq(Entry), NEW S \in SUBSET TaskId,
         NEW t \in Page(S), NEW s \in S, Before(s, t)
  PROVE  s \in Page(S)
<1>1. t \in S /\ Cardinality(Preds(S, t)) < PageSize
  BY DEF Page, Preds
<1>2. Cardinality(Preds(S, s)) < Cardinality(Preds(S, t)) /\ Cardinality(Preds(S, t)) \in Nat
  BY <1>1, PredsCount
<1>3. Cardinality(Preds(S, s)) \in Nat
  BY PredsCount
<1>4. Cardinality(Preds(S, s)) < PageSize
  BY <1>1, <1>2, <1>3, QueueAssumption
<1> QED
  BY <1>4 DEF Page, Preds

LEMMA PagesAreNotEmpty ==
  ASSUME entry \in Seq(Entry), NEW S \in SUBSET TaskId, S # {}
  PROVE  Page(S) # {}
<1> DEFINE N == {Cardinality(Preds(S, t)) : t \in S}
<1>1. N \subseteq Nat /\ N # {}
  BY PredsCount
<1>2. PICK n \in N : \A m \in N : n <= m
  BY <1>1, SmallestNumber
<1>3. PICK t \in S : n = Cardinality(Preds(S, t))
  BY <1>2
<1>4. Preds(S, t) = {}
  <2> SUFFICES ASSUME NEW s \in Preds(S, t) PROVE FALSE
    OBVIOUS
  <2>1. s \in S /\ Before(s, t)
    BY DEF Preds
  <2>2. Cardinality(Preds(S, s)) < Cardinality(Preds(S, t)) /\ Cardinality(Preds(S, t)) \in Nat
    BY <2>1, PredsCount
  <2>3. Cardinality(Preds(S, s)) \in Nat
    BY <2>1, PredsCount
  <2>4. n <= Cardinality(Preds(S, s))
    BY <1>2, <2>1
  <2> QED
    BY <1>3, <2>2, <2>3, <2>4
<1>5. Cardinality(Preds(S, t)) < PageSize
  BY <1>4, FS_EmptySet, QueueAssumption
<1> QED
  BY <1>5 DEF Page, Preds

LEMMA LastIsLast ==
  ASSUME entry \in Seq(Entry), NEW S \in SUBSET TaskId, S # {}
  PROVE  LastOf(S) \in S /\ \A s \in S \ {LastOf(S)} : Before(s, LastOf(S))
<1>1. IsFiniteSet(S) /\ Cardinality(S) \in Nat
  BY ListsAreOrdered, FS_Subset, FS_CardinalityType
<1>2. \A t \in S : Cardinality(Preds(S, t)) \in Nat /\ Cardinality(Preds(S, t)) <= Cardinality(S)
  <2> SUFFICES ASSUME NEW t \in S
               PROVE  Cardinality(Preds(S, t)) \in Nat /\ Cardinality(Preds(S, t)) <= Cardinality(S)
    OBVIOUS
  <2>1. Preds(S, t) \subseteq S
    BY DEF Preds
  <2> QED
    BY <1>1, <2>1, FS_Subset, FS_CardinalityType
<1> DEFINE N == {Cardinality(S) - Cardinality(Preds(S, t)) : t \in S}
<1>3. N \subseteq Nat /\ N # {}
  BY <1>1, <1>2
<1>4. PICK n \in N : \A m \in N : n <= m
  BY <1>3, SmallestNumber
<1>5. PICK t \in S : n = Cardinality(S) - Cardinality(Preds(S, t))
  BY <1>4
<1>6. ASSUME NEW s \in S \ {t} PROVE Before(s, t)
  <2> SUFFICES ASSUME ~Before(s, t) PROVE FALSE
    OBVIOUS
  <2>1. Before(t, s)
    BY <1>6, ListsAreOrdered
  <2>2. Cardinality(Preds(S, t)) < Cardinality(Preds(S, s))
    BY <1>6, <2>1, PredsCount
  <2>3. n <= Cardinality(S) - Cardinality(Preds(S, s))
    BY <1>4, <1>6
  <2>4. /\ Cardinality(Preds(S, s)) \in Nat /\ Cardinality(Preds(S, t)) \in Nat
        /\ Cardinality(S) \in Nat
    BY <1>1, <1>2, <1>6
  <2> QED
    BY <1>5, <2>2, <2>3, <2>4
<1>7. \E x \in S : \A s \in S \ {x} : Before(s, x)
  BY <1>6
<1> QED
  BY <1>7 DEF LastOf

(* Reading a page covers what it was to cover: the rows after a cursor and *)
(* up to the last one of the page are on it.                               *)
LEMMA ReadCovers ==
  ASSUME entry \in Seq(Entry), NEW rows \in SUBSET TaskId, NEW t \in rows, Page(rows) # rows,
         ~After(Key(t), Key(LastOf(Page(rows))))
  PROVE  t \in Page(rows)
<1>1. rows # {} /\ Page(rows) \in SUBSET TaskId
  BY DEF Page
<1>2. Page(rows) # {}
  BY <1>1, PagesAreNotEmpty
<1>3. LastOf(Page(rows)) \in Page(rows)
  BY <1>1, <1>2, LastIsLast
<1>4. t = LastOf(Page(rows)) \/ Before(t, LastOf(Page(rows)))
  BY <1>1, <1>3, ListsAreOrdered
<1> QED
  BY <1>3, <1>4, PagesComeFirst

(* Where a page is read: from the start, or from a cursor of the reading.  *)
MayRead(u, list, cursor, back) ==
  /\ list \in Queue \cup {"none"} /\ cursor \in Cursor /\ back \in Seq(Cursor)
  /\ Ascending(back, cursor)
  /\ cursor = NoCursor => back = <<>>
  /\ cursor # NoCursor =>
       /\ list = url[u].list /\ Covered(u, cursor)
       /\ \A k \in 1 .. Len(back) : Covered(u, back[k])

LEMMA NoRowIsBeforeTheStart ==
  ASSUME NEW c \in Cursor PROVE ~After(NoCursor, c)
BY DEF Cursor, After, NoCursor

LEMMA ListedAreTasks ==
  ASSUME NEW u, NEW list PROVE Listed(u, list) \in SUBSET TaskId
BY DEF Listed, Mine, Available

LEMMA ReadKeepsOrder ==
  ASSUME QueueIInv, NEW u \in User, NEW list, NEW cursor, NEW back,
         MayRead(u, list, cursor, back), Read(u, list, cursor, back)
  PROVE  QueueIInv'
<1> DEFINE rows == {t \in Listed(u, list) : After(Key(t), cursor)}
           page == Page(rows)
           next == IF page # rows THEN Key(LastOf(page)) ELSE NoCursor
<1>1. QueueTyped /\ entry \in Seq(Entry) /\ ReadingInOrder(u)
  BY DEF QueueIInv, QueueTyped
<1>2. Listed(u, list) \in SUBSET TaskId /\ rows \in SUBSET TaskId /\ page \in SUBSET rows
  BY ListedAreTasks DEF Page
<1>3. ASSUME page # rows
      PROVE  /\ LastOf(page) \in page /\ next = Key(LastOf(page)) /\ next \in Cursor
             /\ next # NoCursor /\ After(next, cursor)
  <2>1. page # {}
    BY <1>1, <1>2, <1>3, PagesAreNotEmpty
  <2>2. LastOf(page) \in page
    BY <1>1, <1>2, <2>1, LastIsLast
  <2>3. next = Key(LastOf(page))
    BY <1>3
  <2>4. LastOf(page) \in TaskId /\ After(Key(LastOf(page)), cursor)
    BY <1>2, <2>2
  <2> QED
    BY <1>1, <2>2, <2>3, <2>4, ListsAreOrdered
<1>4. next \in Cursor
  BY <1>3 DEF NoCursor, Cursor
<1>5. /\ entry' = entry /\ within' = within
      /\ url' = [url EXCEPT ![u] = [list |-> list, cursor |-> cursor, back |-> back, next |-> next]]
      /\ seen' = [seen EXCEPT ![u] = IF cursor = NoCursor THEN page ELSE @ \cup page]
      /\ steady' = [steady EXCEPT ![u] = IF cursor = NoCursor THEN Listed(u, list) ELSE @]
  BY DEF Read
<1> HIDE DEF next, page, rows
<1>6. /\ url'[u].list = list /\ url'[u].cursor = cursor /\ url'[u].back = back
      /\ url'[u].next = next
      /\ seen'[u] = IF cursor = NoCursor THEN page ELSE seen[u] \cup page
      /\ steady'[u] = IF cursor = NoCursor THEN Listed(u, list) ELSE steady[u]
      /\ \A v \in User \ {u} : url'[v] = url[v] /\ seen'[v] = seen[v] /\ steady'[v] = steady[v]
  BY <1>1, <1>5 DEF QueueTyped
<1>7. \A t : Key(t)' = Key(t)
  BY <1>5 DEF Key
<1>8. \A v \in User : \A l : Listed(v, l)' = Listed(v, l)
  BY <1>5 DEF Listed, Mine, Available, TaskId, Open
<1>9. QueueTyped'
  <2>1. [list |-> list, cursor |-> cursor, back |-> back, next |-> next] \in Address
    BY <1>4 DEF MayRead, Address
  <2>2. url' \in [User -> Address]
    BY <1>1, <1>5, <2>1 DEF QueueTyped
  <2>3. TaskId' = TaskId
    BY <1>5 DEF TaskId
  <2>4. seen[u] \subseteq TaskId
    BY <1>1 DEF QueueTyped
  <2>5. seen' \in [User -> SUBSET TaskId]
    BY <1>1, <1>2, <1>5, <2>4 DEF QueueTyped
  <2>6. steady' \in [User -> SUBSET TaskId]
    BY <1>1, <1>2, <1>5 DEF QueueTyped
  <2> QED
    BY <1>1, <1>5, <2>2, <2>3, <2>5, <2>6 DEF QueueTyped
<1>10. ReadingInOrder(u)'
  <2>1. steady'[u] \subseteq Listed(u, list)
    BY <1>1, <1>6 DEF MayRead, ReadingInOrder
  <2>2. \A t \in steady'[u] : t \in TaskId
    BY <1>2, <2>1
  <2>3. \A t \in steady'[u] : After(Key(t), cursor) \/ t \in seen'[u]
    <3>1. CASE cursor = NoCursor
      BY <1>1, <2>2, <3>1, ListsAreOrdered
    <3>2. CASE cursor # NoCursor
      BY <1>6, <3>2 DEF MayRead, Covered
    <3> QED
      BY <3>1, <3>2
  <2>4. page \subseteq seen'[u]
    BY <1>6
  <2>5. \A t \in steady'[u] : After(Key(t), cursor) => t \in rows
    BY <2>1 DEF rows
  <2>6. ASSUME next = NoCursor PROVE steady'[u] \subseteq seen'[u]
    <3>1. page = rows
      BY <1>3, <2>6
    <3> QED
      BY <2>3, <2>4, <2>5, <3>1
  <2>7. ASSUME next # NoCursor
        PROVE  After(next, cursor) /\ \A t \in steady'[u] : After(Key(t), next) \/ t \in seen'[u]
    <3>1. page # rows
      BY <2>7 DEF next
    <3>2. ASSUME NEW t \in rows, ~After(Key(t), next) PROVE t \in page
      BY <1>1, <1>2, <1>3, <3>1, <3>2, ReadCovers DEF page
    <3> QED
      BY <1>3, <2>3, <2>4, <2>5, <3>1, <3>2
  <2>8. \A k \in 1 .. Len(back) : \A t \in steady'[u] : After(Key(t), back[k]) \/ t \in seen'[u]
    <3>1. CASE cursor = NoCursor
      <4>1. Len(back) = 0
        BY <3>1 DEF MayRead
      <4> QED
        BY <4>1
    <3>2. CASE cursor # NoCursor
      BY <1>6, <3>2 DEF MayRead, Covered
    <3> QED
      BY <3>1, <3>2
  <2>9. Ascending(back, cursor)
    BY DEF MayRead
  <2>10. /\ (steady[u] \subseteq Listed(u, url[u].list))'
         /\ Covered(u, url[u].cursor)'
         /\ (\A k \in 1 .. Len(url[u].back) : Covered(u, url[u].back[k]))'
    BY <1>6, <1>7, <1>8, <2>1, <2>3, <2>8 DEF Covered
  <2>11. (IF url[u].next = NoCursor THEN steady[u] \subseteq seen[u]
          ELSE Covered(u, url[u].next) /\ After(url[u].next, url[u].cursor))'
    BY <1>6, <1>7, <2>6, <2>7 DEF Covered
  <2>12. Ascending(url[u].back, url[u].cursor)'
    BY <1>6, <2>9 DEF Ascending
  <2> QED
    BY <2>10, <2>11, <2>12 DEF ReadingInOrder
<1>11. ASSUME NEW v \in User \ {u} PROVE ReadingInOrder(v)'
  <2>1. ReadingInOrder(v)
    BY DEF QueueIInv
  <2> QED
    BY <1>6, <1>7, <1>8, <2>1 DEF ReadingInOrder, Covered, Ascending
<1> QED
  BY <1>9, <1>10, <1>11 DEF QueueIInv

LEMMA ReadingsMayRead ==
  ASSUME QueueIInv, NEW u \in User
  PROVE  /\ \A list \in Queue : MayRead(u, list, NoCursor, <<>>)
         /\ url[u].next # NoCursor =>
              MayRead(u, url[u].list, url[u].next, Append(url[u].back, url[u].cursor))
         /\ url[u].back # <<>> =>
              MayRead(u, url[u].list, Last(url[u].back), Front(url[u].back))
<1> DEFINE back == url[u].back  cursor == url[u].cursor  next == url[u].next
<1>1. /\ url[u].list \in Queue \cup {"none"} /\ cursor \in Cursor /\ back \in Seq(Cursor)
      /\ next \in Cursor
  <2>1. url[u] \in Address
    BY DEF QueueIInv, QueueTyped
  <2> QED
    BY <2>1 DEF Address
<1>2. /\ Covered(u, cursor) /\ \A k \in 1 .. Len(back) : Covered(u, back[k])
      /\ next # NoCursor => Covered(u, next) /\ After(next, cursor)
      /\ \A k \in 1 .. Len(back) : After(Append(back, cursor)[k + 1], back[k])
  BY DEF QueueIInv, ReadingInOrder, Ascending
<1> HIDE DEF back, cursor, next
<1>3. ASSUME NEW list \in Queue PROVE MayRead(u, list, NoCursor, <<>>)
  <2>1. NoCursor \in Cursor /\ <<>> \in Seq(Cursor) /\ Len(<<>>) = 0
    BY DEF NoCursor, Cursor
  <2> QED
    BY <2>1 DEF MayRead, Ascending
<1>4. ASSUME next # NoCursor
      PROVE  MayRead(u, url[u].list, next, Append(back, cursor))
  <2> DEFINE more == Append(back, cursor)
  <2>1. more \in Seq(Cursor) /\ Len(more) = Len(back) + 1 /\ Len(back) \in Nat
    BY <1>1
  <2>2. \A k \in 1 .. Len(back) : more[k] = back[k]
    BY <1>1
  <2>3. more[Len(back) + 1] = cursor
    BY <1>1
  <2>4. \A k \in 1 .. Len(more) : Append(more, next)[k] = more[k]
    BY <1>1, <2>1
  <2>5. Append(more, next)[Len(more) + 1] = next
    BY <1>1, <2>1
  <2> HIDE DEF more
  <2>6. ASSUME NEW k \in 1 .. Len(more) PROVE After(Append(more, next)[k + 1], more[k])
    <3>1. CASE k = Len(back) + 1
      BY <1>2, <1>4, <2>1, <2>3, <2>5, <3>1
    <3>2. CASE k # Len(back) + 1
      <4>1. k \in 1 .. Len(back) /\ k + 1 \in 1 .. Len(more)
        BY <2>1, <3>2
      <4>2. Append(more, next)[k + 1] = more[k + 1] /\ more[k] = back[k]
        BY <2>2, <2>4, <4>1
      <4>3. After(more[k + 1], back[k])
        BY <1>2, <4>1 DEF more
      <4> QED
        BY <4>2, <4>3
    <3> QED
      BY <3>1, <3>2
  <2>7. \A k \in 1 .. Len(more) : Covered(u, more[k])
    <3> SUFFICES ASSUME NEW k \in 1 .. Len(more) PROVE Covered(u, more[k])
      OBVIOUS
    <3>1. k = Len(back) + 1 \/ k \in 1 .. Len(back)
      BY <2>1
    <3> QED
      BY <1>2, <2>2, <2>3, <3>1
  <2>8. url[u].next = next
    BY DEF next
  <2> QED
    BY <1>1, <1>2, <1>4, <2>1, <2>6, <2>7 DEF MayRead, Ascending, more
<1>5. ASSUME back # <<>>
      PROVE  MayRead(u, url[u].list, Last(back), Front(back))
  <2> DEFINE n == Len(back)  front == Front(back)
  <2>0. Len(back) \in Nat \ {0}
    BY <1>1, <1>5, EmptySeq
  <2>a. Last(back) = back[n]
    BY DEF Last
  <2>b. \A k \in 1 .. Len(back) : back[k] \in Cursor
    BY <1>1
  <2>c. Len(back) \in 1 .. Len(back)
    BY <2>0
  <2>1. n \in Nat \ {0} /\ Last(back) = back[n] /\ back[n] \in Cursor
    BY <2>0, <2>a, <2>b, <2>c
  <2>2. front \in Seq(Cursor) /\ Len(front) = n - 1 /\ \A k \in 1 .. (n - 1) : front[k] = back[k]
    <3>1. front = SubSeq(back, 1, n - 1)
      BY DEF Front
    <3>2. \A i \in 1 .. (n - 1) : back[i] \in Cursor
      BY <2>0, <2>b
    <3>3. 1 \in Int /\ n - 1 \in Int
      BY <2>0
    <3> HIDE DEF front, n
    <3>4. /\ front \in Seq(Cursor) /\ Len(front) = IF 1 <= n - 1 THEN n - 1 - 1 + 1 ELSE 0
          /\ \A i \in 1 .. n - 1 - 1 + 1 : front[i] = back[1 + i - 1]
      BY <3>1, <3>2, <3>3, SubSeqProperties
    <3>5. n \in Nat \ {0}
      BY <2>1
    <3>6. \A k \in 1 .. (n - 1) : k \in 1 .. n - 1 - 1 + 1 /\ 1 + k - 1 = k
      BY <3>5
    <3> QED
      BY <3>4, <3>5, <3>6
  <2>3. \A k \in 1 .. (n - 1) : Append(front, back[n])[k] = front[k]
    BY <2>1, <2>2
  <2>4. Append(front, back[n])[n] = back[n]
    BY <2>1, <2>2
  <2>5. \A k \in 1 .. n : Append(back, cursor)[k] = back[k]
    BY <1>1
  <2> HIDE DEF n, front
  <2>6. ASSUME NEW k \in 1 .. (n - 1) PROVE After(back[k + 1], back[k])
    <3>1. k \in 1 .. n /\ k + 1 \in 1 .. n
      BY <2>1
    <3> QED
      BY <1>2, <2>5, <3>1 DEF n
  <2>7. ASSUME NEW k \in 1 .. (n - 1) PROVE After(Append(front, back[n])[k + 1], front[k])
    <3>1. Append(front, back[n])[k + 1] = back[k + 1]
      <4>1. CASE k + 1 = n
        BY <2>4, <4>1
      <4>2. CASE k + 1 # n
        <5>1. k + 1 \in 1 .. (n - 1)
          BY <2>1, <4>2
        <5> QED
          BY <2>2, <2>3, <5>1
      <4> QED
        BY <4>1, <4>2
    <3> QED
      BY <2>2, <2>6, <3>1
  <2>8. ASSUME back[n] = NoCursor PROVE front = <<>>
    <3>1. CASE n = 1
      BY <2>2, <3>1
    <3>2. CASE n # 1
      <4>1. n - 1 \in 1 .. (n - 1) /\ (n - 1) + 1 = n /\ n - 1 \in 1 .. n
        BY <2>1, <3>2
      <4>2. After(back[n], back[n - 1])
        BY <2>6, <4>1
      <4>3. back[n - 1] \in Cursor
        BY <1>1, <4>1 DEF n
      <4> QED
        BY <2>8, <4>2, <4>3, NoRowIsBeforeTheStart
    <3> QED
      BY <3>1, <3>2
  <2>9. n \in 1 .. n /\ \A k \in 1 .. (n - 1) : k \in 1 .. n
    BY <2>1
  <2>10. Covered(u, back[n]) /\ \A k \in 1 .. (n - 1) : Covered(u, front[k])
    BY <1>2, <2>2, <2>9 DEF n
  <2>11. MayRead(u, url[u].list, back[n], front)
    BY <1>1, <2>1, <2>2, <2>7, <2>8, <2>10 DEF MayRead, Ascending
  <2> QED
    BY <2>1, <2>11 DEF front, n
<1> QED
  BY <1>3, <1>4, <1>5 DEF back, cursor, next

LEMMA ReadingKeepsOrder == QueueIInv /\ Reading => QueueIInv'
<1> SUFFICES ASSUME QueueIInv, NEW u \in User,
                    (\E list \in Queue : FirstPage(u, list)) \/ NextPage(u) \/ PreviousPage(u)
             PROVE  QueueIInv'
  BY DEF Reading
<1>1. ASSUME NEW list \in Queue, FirstPage(u, list) PROVE QueueIInv'
  BY <1>1, ReadingsMayRead, ReadKeepsOrder DEF FirstPage
<1>2. ASSUME NextPage(u) PROVE QueueIInv'
  BY <1>2, ReadingsMayRead, ReadKeepsOrder DEF NextPage
<1>3. ASSUME PreviousPage(u) PROVE QueueIInv'
  BY <1>3, ReadingsMayRead, ReadKeepsOrder DEF PreviousPage
<1> QED
  BY <1>1, <1>2, <1>3

(* Whatever happens to tasks, a row that is there keeps its place.         *)
RowsKeepTheirPlace ==
  /\ entry' \in Seq(Entry) /\ TaskId \subseteq TaskId'
  /\ \A t \in TaskId : entry'[t].due = entry[t].due

LEMMA WorkKeepsPlaces ==
  ASSUME QueueTyped, Working
  PROVE  /\ RowsKeepTheirPlace /\ UNCHANGED <<url, seen>>
         /\ within' \in [User -> SUBSET Pool]
<1>0. entry \in Seq(Entry) /\ within \in [User -> SUBSET Pool] /\ TaskId = 1 .. Len(entry)
      /\ Len(entry) \in Nat
  BY DEF QueueTyped, TaskId
<1>e. ASSUME NEW t \in TaskId PROVE entry[t] \in Entry
  BY <1>0
<1>1. ASSUME NEW u \in User, NEW t \in TaskId, Claim(u, t)
      PROVE  RowsKeepTheirPlace /\ UNCHANGED <<url, seen, within>>
  <2> DEFINE r == [entry[t] EXCEPT !.status = "claimed", !.assignee = u, !.claimedBy = u]
  <2>1. r \in Entry /\ r.due = entry[t].due
    BY <1>e DEF Entry
  <2>2. entry' = [entry EXCEPT ![t] = r]
    BY <1>0, <1>1 DEF Claim
  <2> HIDE DEF r
  <2>3. entry' \in Seq(Entry) /\ Len(entry') = Len(entry)
    BY <1>0, <2>1, <2>2, ExceptSeq
  <2>4. TaskId' = TaskId
    BY <1>0, <2>3 DEF TaskId
  <2>5. \A s \in TaskId : entry'[s].due = entry[s].due
    BY <1>0, <2>1, <2>2
  <2> QED
    BY <1>1, <2>3, <2>4, <2>5 DEF RowsKeepTheirPlace, Claim
<1>2. ASSUME NEW u \in User, NEW t \in TaskId, Decide(u, t)
      PROVE  RowsKeepTheirPlace /\ UNCHANGED <<url, seen, within>>
  <2> DEFINE r == [entry[t] EXCEPT !.status = "completed", !.completedBy = u]
  <2>1. r \in Entry /\ r.due = entry[t].due
    BY <1>e DEF Entry
  <2>2. entry' = [entry EXCEPT ![t] = r]
    BY <1>0, <1>2 DEF Decide
  <2> HIDE DEF r
  <2>3. entry' \in Seq(Entry) /\ Len(entry') = Len(entry)
    BY <1>0, <2>1, <2>2, ExceptSeq
  <2>4. TaskId' = TaskId
    BY <1>0, <2>3 DEF TaskId
  <2>5. \A s \in TaskId : entry'[s].due = entry[s].due
    BY <1>0, <2>1, <2>2
  <2> QED
    BY <1>2, <2>3, <2>4, <2>5 DEF RowsKeepTheirPlace, Decide
<1>3. ASSUME NEW c \in Case, NEW due \in DueDate, NEW assignee \in User \cup {Nobody},
             NEW pool \in Pool \cup {Nobody}, CreateCaseTask(c, assignee, pool, due)
      PROVE  RowsKeepTheirPlace /\ UNCHANGED <<url, seen, within>>
  <2> DEFINE r == [case |-> c, status |-> "pending", assignee |-> assignee, pool |-> pool,
                   due |-> due, claimedBy |-> Nobody, completedBy |-> Nobody]
  <2>1. r \in Entry
    BY DEF Entry
  <2>2. entry' = Append(entry, r)
    BY <1>3 DEF CreateCaseTask
  <2> HIDE DEF r
  <2> QED
    BY <1>0, <1>3, <2>1, <2>2 DEF RowsKeepTheirPlace, CreateCaseTask, TaskId
<1>4. ASSUME NEW c \in Case, CancelOpenTasksForCase(c)
      PROVE  RowsKeepTheirPlace /\ UNCHANGED <<url, seen, within>>
  <2> DEFINE r(t) == IF entry[t].case = c /\ Open(t)
                     THEN [entry[t] EXCEPT !.status = "cancelled"] ELSE entry[t]
  <2>1. \A t \in TaskId : r(t) \in Entry /\ r(t).due = entry[t].due
    BY <1>e DEF Entry
  <2>2. entry' = [t \in TaskId |-> r(t)]
    BY <1>4 DEF CancelOpenTasksForCase
  <2> HIDE DEF r
  <2>3. entry' \in [1 .. Len(entry) -> Entry]
    BY <1>0, <2>1, <2>2
  <2>4. entry' \in Seq(Entry)
    BY <1>0, <2>3, SeqDef
  <2>5. TaskId' = TaskId /\ \A t \in TaskId : entry'[t] = r(t)
    BY <2>2 DEF TaskId
  <2> QED
    BY <1>4, <2>1, <2>4, <2>5 DEF RowsKeepTheirPlace, CancelOpenTasksForCase
<1>5. ASSUME NEW u \in User, NEW pool \in Pool, MembershipMoves(u, pool)
      PROVE  /\ RowsKeepTheirPlace /\ UNCHANGED <<url, seen>>
             /\ within' \in [User -> SUBSET Pool]
  BY <1>0, <1>5 DEF MembershipMoves, RowsKeepTheirPlace, TaskId
<1> QED
  BY <1>0, <1>1, <1>2, <1>3, <1>4, <1>5 DEF Working

LEMMA WorkingKeepsOrder ==
  ASSUME QueueIInv, Working,
         steady' = [u \in User |-> steady[u] \cap Listed(u, url[u].list)']
  PROVE  QueueIInv'
<1>1. QueueTyped /\ RowsKeepTheirPlace /\ UNCHANGED <<url, seen>> /\ within' \in [User -> SUBSET Pool]
  BY WorkKeepsPlaces DEF QueueIInv
<1>2. \A u \in User : /\ steady'[u] \subseteq steady[u]
                      /\ steady'[u] \subseteq Listed(u, url[u].list)'
                      /\ steady[u] \subseteq TaskId /\ seen[u] \subseteq TaskId
  BY <1>1 DEF QueueTyped
<1>3. \A t \in TaskId : Key(t)' = Key(t)
  BY <1>1 DEF RowsKeepTheirPlace, Key
<1>4. QueueTyped'
  BY <1>1, <1>2 DEF QueueTyped, RowsKeepTheirPlace
<1>5. ASSUME NEW u \in User PROVE ReadingInOrder(u)'
  <2>1. ReadingInOrder(u)
    BY DEF QueueIInv
  <2>2. \A c : Covered(u, c) => \A t \in steady'[u] : After(Key(t)', c) \/ t \in seen'[u]
    BY <1>1, <1>2, <1>3 DEF Covered
  <2>3. \A c : Covered(u, c) => Covered(u, c)'
    BY <2>2 DEF Covered
  <2>4. url'[u] = url[u] /\ seen'[u] = seen[u]
    BY <1>1
  <2> QED
    BY <1>2, <2>1, <2>3, <2>4 DEF ReadingInOrder, Ascending
<1> QED
  BY <1>4, <1>5 DEF QueueIInv

LEMMA QueuesStartInOrder == QueueInit => QueueIInv
<1> SUFFICES ASSUME QueueInit PROVE QueueIInv
  OBVIOUS
<1>1. NoUrl \in Address /\ NoUrl.next = NoCursor /\ NoUrl.back = <<>>
  BY DEF NoUrl, Address, Queue, Cursor, NoCursor
<1>2. QueueTyped
  BY <1>1 DEF QueueInit, QueueTyped, TaskId
<1>3. ASSUME NEW u \in User PROVE ReadingInOrder(u)
  <2>1. url[u] = NoUrl /\ steady[u] = {}
    BY DEF QueueInit
  <2> QED
    BY <1>1, <2>1 DEF ReadingInOrder, Covered, Ascending
<1> QED
  BY <1>2, <1>3 DEF QueueIInv

LEMMA QueueInvIsInductive == QueueIInv /\ [QueueNext]_queueVars => QueueIInv'
<1>1. QueueIInv /\ UNCHANGED queueVars => QueueIInv'
  BY DEF queueVars, QueueIInv, QueueTyped, ReadingInOrder, Covered, Ascending, Key, TaskId,
         Listed, Mine, Available, Open
<1> QED
  BY <1>1, ReadingKeepsOrder, WorkingKeepsOrder DEF QueueNext

(* Readings of both lists are in order, whatever happens to the tasks.     *)
THEOREM QueueInvariance == QueueSpec => []QueueIInv
<1> QED
  BY QueuesStartInOrder, QueueInvIsInductive, PTL DEF QueueSpec

(* Whoever reads a list to its end has seen every row that stayed, and     *)
(* going on never shows an earlier place again.                            *)
THEOREM QueuesAreReadWhole == QueueSpec => []QueueInv
<1>1. QueueIInv => QueueInv
  <2> SUFFICES ASSUME QueueIInv PROVE QueueInv
    OBVIOUS
  <2>1. \A t \in TaskId : entry[t] \in Entry
    BY DEF QueueIInv, QueueTyped, TaskId
  <2>2. QueueTypeOK
    BY <2>1 DEF QueueIInv, QueueTyped, QueueTypeOK, Entry
  <2>3. ReadingsAreWhole
    BY DEF QueueIInv, ReadingInOrder, ReadingsAreWhole, Ascending
  <2> QED
    BY <2>2, <2>3 DEF QueueInv
<1> QED
  BY <1>1, QueueInvariance, PTL

----------------------------------------------------------------------------
(* Days and minutes.                                                       *)

(* The minute at which a day begins.                                       *)
Midnight(day) == DayLength * day

LEMMA DayIsLong == DayLength \in Nat /\ DayLength > 0
BY CalendarAssumption

LEMMA Midnights ==
  ASSUME NEW d \in Int
  PROVE  /\ Midnight(d) \in Int /\ d * DayLength = Midnight(d)
         /\ Midnight(d + 1) = Midnight(d) + DayLength
<1>1. Midnight(d) \in Int /\ d * DayLength = Midnight(d)
  BY DayIsLong DEF Midnight
<1>2. DayLength * (d + 1) = DayLength * d + DayLength
  BY DayIsLong
<1> QED
  BY <1>1, <1>2 DEF Midnight

LEMMA LaterMidnight ==
  ASSUME NEW d \in Int, NEW e \in Int, d < e
  PROVE  Midnight(d) + DayLength <= Midnight(e)
<1>1. DayLength * (d + 1) <= DayLength * e
  BY DayIsLong
<1> QED
  BY <1>1, Midnights DEF Midnight

LEMMA DayAndMinute ==
  ASSUME NEW w \in Int
  PROVE  /\ Day(w) \in Int /\ MinuteOfDay(w) \in Nat /\ MinuteOfDay(w) < DayLength
         /\ Midnight(Day(w)) \in Int /\ w = Midnight(Day(w)) + MinuteOfDay(w)
BY DayIsLong DEF Day, MinuteOfDay, Midnight

LEMMA ClockIsUnique ==
  ASSUME NEW w \in Int, NEW d \in Int, NEW m \in Nat, m < DayLength, w = Midnight(d) + m
  PROVE  Day(w) = d /\ MinuteOfDay(w) = m
<1>1. Midnight(d) \in Int
  BY Midnights
<1>2. ~ (d < Day(w))
  BY <1>1, DayAndMinute, LaterMidnight, DayIsLong
<1>3. ~ (Day(w) < d)
  BY <1>1, DayAndMinute, LaterMidnight, DayIsLong
<1>4. Day(w) \in Int /\ MinuteOfDay(w) \in Nat /\ w = Midnight(Day(w)) + MinuteOfDay(w)
  BY DayAndMinute
<1>5. d = Day(w)
  BY <1>2, <1>3, <1>4
<1>6. MinuteOfDay(w) = w - Midnight(d)
  BY <1>1, <1>4, <1>5
<1>7. m = w - Midnight(d)
  BY <1>1
<1> QED
  BY <1>5, <1>6, <1>7

LEMMA DaysAreInOrder ==
  ASSUME NEW v \in Int, NEW w \in Int, v <= w
  PROVE  /\ Day(v) <= Day(w)
         /\ Day(v) = Day(w) => MinuteOfDay(w) - MinuteOfDay(v) = w - v
<1>1. ~ (Day(w) < Day(v))
  BY DayAndMinute, LaterMidnight, DayIsLong
<1>2. /\ Day(v) \in Int /\ MinuteOfDay(v) \in Nat /\ v = Midnight(Day(v)) + MinuteOfDay(v)
      /\ Day(w) \in Int /\ MinuteOfDay(w) \in Nat /\ w = Midnight(Day(w)) + MinuteOfDay(w)
      /\ Midnight(Day(v)) \in Int
  BY DayAndMinute
<1> QED
  BY <1>1, <1>2

----------------------------------------------------------------------------
(* Working time.                                                           *)

IsCalendar(k) ==
  /\ k.start \in Nat /\ k.end \in Nat /\ k.start < k.end /\ k.end <= DayLength
  /\ k.zone.before \in Int /\ k.zone.after \in Int /\ k.zone.shift \in Int

(* The window of a working day, from a minute of it on.                    *)
LEMMA WindowIsWorked ==
  ASSUME NEW k, IsCalendar(k), NEW c \in Int, WorkingTime(c, k), NEW v \in Int, c <= v
  PROVE  /\ v < c + LeftToday(c, k) => WorkingTime(v, k)
         /\ c + LeftToday(c, k) <= v /\ v < Midnight(Day(c) + 1) => ~ WorkingTime(v, k)
<1>1. /\ Day(c) \in Int /\ MinuteOfDay(c) \in Nat /\ Midnight(Day(c)) \in Int
      /\ c = Midnight(Day(c)) + MinuteOfDay(c)
      /\ Day(v) \in Int /\ MinuteOfDay(v) \in Nat /\ Midnight(Day(v)) \in Int
      /\ v = Midnight(Day(v)) + MinuteOfDay(v)
  BY DayAndMinute
<1>2. Midnight(Day(c) + 1) = Midnight(Day(c)) + DayLength
  BY <1>1, Midnights
<1>3. k.start \in Nat /\ k.end \in Nat /\ k.end <= DayLength
      /\ k.start <= MinuteOfDay(c) /\ MinuteOfDay(c) < k.end
      /\ IsWorkingDay(Day(c), k) /\ LeftToday(c, k) = k.end - MinuteOfDay(c)
  BY DEF IsCalendar, WorkingTime, LeftToday
<1>4. v < Midnight(Day(c) + 1) => Day(v) = Day(c)
  <2>1. Day(c) <= Day(v)
    BY DaysAreInOrder
  <2>2. Day(c) < Day(v) => Midnight(Day(c)) + DayLength <= Midnight(Day(v))
    BY <1>1, LaterMidnight
  <2> QED
    BY <1>1, <1>2, <2>1, <2>2, DayIsLong
<1>5. Day(v) = Day(c) => MinuteOfDay(v) - MinuteOfDay(c) = v - c
  BY DaysAreInOrder
<1>6. ASSUME v < c + LeftToday(c, k) PROVE WorkingTime(v, k)
  <2>1. v < Midnight(Day(c) + 1)
    BY <1>1, <1>2, <1>3, <1>6, DayIsLong
  <2> QED
    BY <1>1, <1>3, <1>4, <1>5, <1>6, <2>1 DEF WorkingTime
<1>7. ASSUME c + LeftToday(c, k) <= v, v < Midnight(Day(c) + 1) PROVE ~ WorkingTime(v, k)
  BY <1>1, <1>3, <1>4, <1>5, <1>7 DEF WorkingTime
<1> QED
  BY <1>6, <1>7

LEMMA DayHasAnEnd ==
  ASSUME NEW k, IsCalendar(k), NEW c \in Int, WorkingTime(c, k)
  PROVE  /\ LeftToday(c, k) \in Nat \ {0} /\ Midnight(Day(c) + 1) \in Int
         /\ (Day(c) + 1) * DayLength = Midnight(Day(c) + 1)
         /\ c + LeftToday(c, k) <= Midnight(Day(c) + 1)
<1>1. /\ Day(c) \in Int /\ MinuteOfDay(c) \in Nat /\ Midnight(Day(c)) \in Int
      /\ c = Midnight(Day(c)) + MinuteOfDay(c)
  BY DayAndMinute
<1>2. /\ Midnight(Day(c) + 1) = Midnight(Day(c)) + DayLength
      /\ (Day(c) + 1) * DayLength = Midnight(Day(c) + 1)
  BY <1>1, Midnights
<1>3. k.end \in Nat /\ k.end <= DayLength /\ MinuteOfDay(c) < k.end
      /\ LeftToday(c, k) = k.end - MinuteOfDay(c)
  BY DEF IsCalendar, WorkingTime, LeftToday
<1> QED
  BY <1>1, <1>2, <1>3, DayIsLong

(* advanceToWorkingTime finds the first working minute.                    *)
LEMMA AdvanceIsTheFirst ==
  ASSUME NEW k, IsCalendar(k), NEW w \in Int, AdvanceToWorkingTime(w, k) # NoDeadline
  PROVE  LET a == AdvanceToWorkingTime(w, k) IN
         /\ a \in Int /\ w <= a /\ WorkingTime(a, k)
         /\ \A v \in Int : w <= v /\ v < a => ~ WorkingTime(v, k)
<1> DEFINE fits(d) == /\ IsWorkingDay(Day(w) + d, k)
                      /\ d = 0 => MinuteOfDay(w) < k.end
           fitting == {d \in 0 .. MaxDaysSearched : fits(d)}
           found == Min(fitting)
           a == AdvanceToWorkingTime(w, k)
           e == Day(w) + found
<1>1. /\ fitting # {}
      /\ a = IF found = 0 /\ MinuteOfDay(w) >= k.start THEN w ELSE e * DayLength + k.start
  BY DEF AdvanceToWorkingTime
<1>2. found \in fitting /\ \A d \in fitting : found <= d
  <2>1. fitting \subseteq Nat
    OBVIOUS
  <2> HIDE DEF fitting
  <2>2. \E d \in fitting : \A x \in fitting : d <= x
    BY <1>1, <2>1, SmallestNumber
  <2> QED
    BY <2>2 DEF Min
<1>3. /\ Day(w) \in Int /\ MinuteOfDay(w) \in Nat /\ MinuteOfDay(w) < DayLength
      /\ Midnight(Day(w)) \in Int /\ w = Midnight(Day(w)) + MinuteOfDay(w)
      /\ k.start \in Nat /\ k.end \in Nat /\ k.start < k.end /\ k.end <= DayLength
  <2>1. /\ Day(w) \in Int /\ MinuteOfDay(w) \in Nat /\ MinuteOfDay(w) < DayLength
        /\ Midnight(Day(w)) \in Int /\ w = Midnight(Day(w)) + MinuteOfDay(w)
    BY DayAndMinute
  <2> QED
    BY <2>1 DEF IsCalendar
<1>4. found \in Nat /\ fits(found) /\ \A d \in Nat : fits(d) /\ d < found => FALSE
  <2>1. found \in 0 .. MaxDaysSearched /\ MaxDaysSearched \in Nat
    BY <1>2, CalendarAssumption
  <2>2. fits(found)
    BY <1>2
  <2>3. ASSUME NEW d \in Nat, fits(d), d < found PROVE FALSE
    <3>1. d \in fitting
      BY <2>1, <2>3
    <3> QED
      BY <1>2, <2>1, <2>3, <3>1
  <2> QED
    BY <2>1, <2>2, <2>3
<1>5. /\ IsWorkingDay(e, k) /\ (found = 0 => MinuteOfDay(w) < k.end)
      /\ \A d \in Nat : d < found => ~ (IsWorkingDay(Day(w) + d, k)
                                        /\ (d = 0 => MinuteOfDay(w) < k.end))
  BY <1>4
<1> HIDE DEF found, a, fitting, fits
<1>6. CASE found = 0 /\ MinuteOfDay(w) >= k.start
  <2>1. Day(w) + 0 = Day(w)
    BY <1>3
  <2>2. a = w /\ WorkingTime(w, k)
    BY <1>1, <1>3, <1>5, <1>6, <2>1 DEF WorkingTime
  <2> QED
    BY <2>2 DEF a
<1>7. CASE ~ (found = 0 /\ MinuteOfDay(w) >= k.start)
  <2>1. e \in Int /\ Midnight(e) \in Int /\ a = Midnight(e) + k.start
    BY <1>1, <1>3, <1>4, <1>7, Midnights
  <2> HIDE DEF e
  <2>2. a \in Int /\ Day(a) = e /\ MinuteOfDay(a) = k.start
    <3>1. a \in Int /\ k.start < DayLength
      BY <1>3, <2>1, DayIsLong
    <3> QED
      BY <1>3, <2>1, <3>1, ClockIsUnique
  <2>3. WorkingTime(a, k)
    BY <1>3, <1>5, <2>2 DEF WorkingTime
  <2>4. w <= a
    <3>1. CASE found = 0
      BY <1>3, <1>7, <2>1, <3>1 DEF e
    <3>2. CASE found # 0
      <4>1. Day(w) < e
        BY <1>3, <1>4, <3>2 DEF e
      <4>2. Midnight(Day(w)) + DayLength <= Midnight(e)
        BY <1>3, <2>1, <4>1, LaterMidnight
      <4> QED
        BY <1>3, <2>1, <4>2, DayIsLong
    <3> QED
      BY <3>1, <3>2
  <2>5. ASSUME NEW v \in Int, w <= v, v < a, WorkingTime(v, k) PROVE FALSE
    <3>1. /\ Day(v) \in Int /\ MinuteOfDay(v) \in Nat
          /\ IsWorkingDay(Day(v), k) /\ k.start <= MinuteOfDay(v) /\ MinuteOfDay(v) < k.end
      BY <2>5, DayAndMinute DEF WorkingTime
    <3>2. Day(w) <= Day(v) /\ Day(v) <= e
      BY <2>2, <2>5, DaysAreInOrder
    <3>3. Day(v) = e => MinuteOfDay(a) - MinuteOfDay(v) = a - v
      BY <2>2, <2>5, DaysAreInOrder
    <3>4. Day(v) # e
      BY <1>3, <2>2, <2>5, <3>1, <3>3
    <3> DEFINE d == Day(v) - Day(w)
    <3>5. d \in Nat /\ d < found /\ Day(w) + d = Day(v)
      BY <1>3, <1>4, <2>1, <3>1, <3>2, <3>4 DEF e
    <3>6. Day(v) = Day(w) => MinuteOfDay(v) - MinuteOfDay(w) = v - w
      BY <2>5, DaysAreInOrder
    <3>7. d = 0 => MinuteOfDay(w) < k.end
      BY <1>3, <2>5, <3>1, <3>6
    <3> HIDE DEF d
    <3> QED
      BY <1>5, <3>1, <3>5, <3>7
  <2> QED
    BY <2>2, <2>3, <2>4, <2>5 DEF a
<1> QED
  BY <1>6, <1>7

----------------------------------------------------------------------------
(* Working time is counted piece by piece.                                 *)

WorkingTimes(from, to, k) == {v \in from .. (to - 1) : WorkingTime(v, k)}

Worked(from, to, k) == Cardinality(WorkingTimes(from, to, k))

LEMMA WorkedIsCounted ==
  ASSUME NEW k, NEW a \in Int, NEW b \in Int
  PROVE  IsFiniteSet(WorkingTimes(a, b, k)) /\ Worked(a, b, k) \in Nat
<1>1. IsFiniteSet(a .. (b - 1))
  BY FS_Interval
<1>2. WorkingTimes(a, b, k) \in SUBSET (a .. (b - 1))
  BY DEF WorkingTimes
<1>3. IsFiniteSet(WorkingTimes(a, b, k))
  BY <1>1, <1>2, FS_Subset
<1> QED
  BY <1>3, FS_CardinalityType DEF Worked

LEMMA WorkedAddsUp ==
  ASSUME NEW k, NEW a \in Int, NEW b \in Int, NEW c \in Int, a <= b, b <= c
  PROVE  Worked(a, c, k) = Worked(a, b, k) + Worked(b, c, k)
<1> DEFINE S == WorkingTimes(a, b, k)
           T == WorkingTimes(b, c, k)
<1>1. IsFiniteSet(S) /\ IsFiniteSet(T) /\ Cardinality(S) \in Nat /\ Cardinality(T) \in Nat
  BY WorkedIsCounted DEF Worked
<1>2. WorkingTimes(a, c, k) = S \cup T
  <2>1. ASSUME NEW v \in Int PROVE v \in a .. (c - 1) <=> v \in a .. (b - 1) \/ v \in b .. (c - 1)
    OBVIOUS
  <2> QED
    BY <2>1 DEF WorkingTimes
<1>3. S \cap T = {}
  <2>1. ASSUME NEW v \in Int, v \in a .. (b - 1), v \in b .. (c - 1) PROVE FALSE
    BY <2>1
  <2> QED
    BY <2>1 DEF WorkingTimes
<1>4. Cardinality(S \cup T) = Cardinality(S) + Cardinality(T) - Cardinality(S \cap T)
  BY <1>1, FS_Union
<1>5. Cardinality(S \cap T) = 0
  BY <1>3, FS_EmptySet
<1> QED
  BY <1>1, <1>2, <1>4, <1>5 DEF Worked

LEMMA WorkedWithoutBreak ==
  ASSUME NEW k, NEW a \in Int, NEW b \in Int, a <= b,
         \A v \in Int : a <= v /\ v < b => WorkingTime(v, k)
  PROVE  Worked(a, b, k) = b - a
<1>1. WorkingTimes(a, b, k) = a .. (b - 1)
  BY DEF WorkingTimes
<1>2. Cardinality(a .. (b - 1)) = IF a > b - 1 THEN 0 ELSE (b - 1) - a + 1
  BY FS_Interval
<1> QED
  BY <1>1, <1>2 DEF Worked

LEMMA NothingWorked ==
  ASSUME NEW k, NEW a \in Int, NEW b \in Int,
         \A v \in Int : a <= v /\ v < b => ~ WorkingTime(v, k)
  PROVE  Worked(a, b, k) = 0
<1>1. WorkingTimes(a, b, k) = {}
  BY DEF WorkingTimes
<1> QED
  BY <1>1, FS_EmptySet DEF Worked

----------------------------------------------------------------------------
(* Day after day.                                                          *)

(* Where the search stands, of so much working time from w on.             *)
SearchStands(at, w, duration, k) ==
  at.cursor # NoDeadline =>
    /\ at.cursor \in Int /\ w <= at.cursor /\ WorkingTime(at.cursor, k)
    /\ at.remaining \in Nat /\ (at.remaining = 0 => duration = 0)
    /\ Worked(w, at.cursor, k) + at.remaining = duration

LEMMA OneDayIsWorked ==
  ASSUME NEW k, IsCalendar(k), NEW w \in Int, NEW duration \in Nat, NEW at,
         SearchStands(at, w, duration, k)
  PROVE  SearchStands(WorkOneDay(at, k), w, duration, k)
<1> DEFINE next == WorkOneDay(at, k)
           c == at.cursor
           n == AdvanceToWorkingTime((Day(c) + 1) * DayLength, k)
           left == LeftToday(c, k)
           night == Midnight(Day(c) + 1)
<1>1. CASE c = NoDeadline \/ Fits(at, k)
  BY <1>1 DEF WorkOneDay
<1>2. CASE c # NoDeadline /\ ~ Fits(at, k) /\ n = NoDeadline
  <2>1. next.cursor = NoDeadline
    BY <1>2 DEF WorkOneDay
  <2> QED
    BY <2>1 DEF SearchStands
<1>3. CASE c # NoDeadline /\ ~ Fits(at, k) /\ n # NoDeadline
  <2>1. next.cursor = n /\ next.remaining = at.remaining - left
    BY <1>3 DEF WorkOneDay
  <2>2. /\ c \in Int /\ w <= c /\ WorkingTime(c, k)
        /\ at.remaining \in Nat /\ Worked(w, c, k) + at.remaining = duration
    BY <1>3 DEF SearchStands
  <2>3. /\ left \in Nat \ {0} /\ night \in Int /\ (Day(c) + 1) * DayLength = night
        /\ c + left <= night
    BY <2>2, DayHasAnEnd
  <2>4. ~ (at.remaining <= left)
    BY <1>3 DEF Fits
  <2>5. /\ n \in Int /\ night <= n /\ WorkingTime(n, k)
        /\ \A v \in Int : night <= v /\ v < n => ~ WorkingTime(v, k)
    BY <1>3, <2>3, AdvanceIsTheFirst
  <2> HIDE DEF c, n, left, night, next
  <2>6. Worked(c, c + left, k) = left
    <3>1. \A v \in Int : c <= v /\ v < c + left => WorkingTime(v, k)
      BY <2>2, <2>3, WindowIsWorked DEF left
    <3> QED
      BY <2>2, <2>3, <3>1, WorkedWithoutBreak
  <2>7. Worked(c + left, n, k) = 0
    <3>1. \A v \in Int : c + left <= v /\ v < night => ~ WorkingTime(v, k)
      BY <2>2, <2>3, WindowIsWorked DEF left, night
    <3>2. \A v \in Int : c + left <= v /\ v < n => ~ WorkingTime(v, k)
      BY <2>2, <2>3, <2>5, <3>1
    <3> QED
      BY <2>2, <2>3, <2>5, <3>2, NothingWorked
  <2>8. Worked(w, n, k) = Worked(w, c, k) + left
    <3>1. c + left \in Int /\ c <= c + left /\ c + left <= n /\ c <= n
      BY <2>2, <2>3, <2>5
    <3>2. Worked(c, n, k) = Worked(c, c + left, k) + Worked(c + left, n, k)
      BY <2>2, <2>5, <3>1, WorkedAddsUp
    <3>3. Worked(w, n, k) = Worked(w, c, k) + Worked(c, n, k)
      BY <2>2, <2>5, <3>1, WorkedAddsUp
    <3> QED
      BY <2>3, <2>6, <2>7, <3>2, <3>3
  <2>9. Worked(w, c, k) \in Nat
    BY <2>2, WorkedIsCounted
  <2>10. /\ next.cursor \in Int /\ w <= next.cursor /\ WorkingTime(next.cursor, k)
         /\ next.remaining \in Nat /\ next.remaining # 0
         /\ Worked(w, next.cursor, k) + next.remaining = duration
    BY <2>1, <2>2, <2>3, <2>4, <2>5, <2>8, <2>9
  <2> QED
    BY <2>10 DEF SearchStands, next
<1> QED
  BY <1>1, <1>2, <1>3

(* The function that the search is defined by exists.                      *)
SearchOf(f, n, init, k) ==
  f = [d \in 0 .. n |-> IF d = 0 THEN init ELSE WorkOneDay(f[d - 1], k)]

LEMMA SearchExists ==
  ASSUME NEW k, NEW init, NEW n \in Nat
  PROVE  \E f : SearchOf(f, n, init, k)
<1> DEFINE missing == {m \in Nat : ~ \E f : SearchOf(f, m, init, k)}
<1>1. SUFFICES ASSUME missing # {} PROVE FALSE
  OBVIOUS
<1>2. PICK m \in missing : \A j \in missing : m <= j
  <2>1. missing \subseteq Nat
    OBVIOUS
  <2> HIDE DEF missing
  <2> QED
    BY <1>1, <2>1, SmallestNumber
<1>3. m \in Nat /\ ~ \E f : SearchOf(f, m, init, k)
  OBVIOUS
<1>4. CASE m = 0
  <2> DEFINE g == [d \in 0 .. 0 |-> init]
  <2>1. g = [d \in 0 .. 0 |-> IF d = 0 THEN init ELSE WorkOneDay(g[d - 1], k)]
    OBVIOUS
  <2> HIDE DEF g
  <2>2. SearchOf(g, 0, init, k)
    BY <2>1 DEF SearchOf
  <2> QED
    BY <1>3, <1>4, <2>2
<1>5. CASE m # 0
  <2>1. m - 1 \in Nat /\ m - 1 \notin missing
    BY <1>2, <1>3, <1>5
  <2>2. PICK f : SearchOf(f, m - 1, init, k)
    BY <2>1
  <2>3. DOMAIN f = 0 .. (m - 1) /\ \A d \in 0 .. (m - 1) :
          f[d] = IF d = 0 THEN init ELSE WorkOneDay(f[d - 1], k)
    BY <2>2 DEF SearchOf
  <2> DEFINE g == [d \in 0 .. m |-> IF d = m THEN WorkOneDay(f[m - 1], k) ELSE f[d]]
  <2>4. ASSUME NEW d \in 0 .. m
        PROVE  g[d] = IF d = 0 THEN init ELSE WorkOneDay(g[d - 1], k)
    <3>1. d # 0 => d - 1 \in 0 .. m /\ d - 1 # m
      BY <1>3
    <3>2. d # 0 => g[d - 1] = f[d - 1]
      BY <3>1
    <3>3. d = m => g[d] = WorkOneDay(f[m - 1], k)
      OBVIOUS
    <3>4. d # m => g[d] = f[d] /\ d \in 0 .. (m - 1)
      BY <1>3
    <3> HIDE DEF g
    <3> QED
      BY <1>5, <2>3, <3>2, <3>3, <3>4
  <2>5. g = [d \in 0 .. m |-> g[d]]
    OBVIOUS
  <2> HIDE DEF g
  <2>6. g = [d \in 0 .. m |-> IF d = 0 THEN init ELSE WorkOneDay(g[d - 1], k)]
    BY <2>4, <2>5
  <2>7. SearchOf(g, m, init, k)
    BY <2>6 DEF SearchOf
  <2> QED
    BY <1>3, <2>7
<1> QED
  BY <1>4, <1>5

LEMMA SearchKeepsStanding ==
  ASSUME NEW k, IsCalendar(k), NEW w \in Int, NEW duration \in Nat, NEW init,
         SearchStands(init, w, duration, k), NEW n \in Nat,
         NEW f, SearchOf(f, n, init, k)
  PROVE  SearchStands(f[n], w, duration, k)
<1> DEFINE wrong == {m \in 0 .. n : ~ SearchStands(f[m], w, duration, k)}
<1>1. SUFFICES ASSUME wrong # {} PROVE FALSE
  OBVIOUS
<1>2. PICK m \in wrong : \A j \in wrong : m <= j
  <2>1. wrong \subseteq Nat
    OBVIOUS
  <2> HIDE DEF wrong
  <2> QED
    BY <1>1, <2>1, SmallestNumber
<1>3. f[m] = IF m = 0 THEN init ELSE WorkOneDay(f[m - 1], k)
  BY DEF SearchOf
<1>4. CASE m = 0
  BY <1>3, <1>4
<1>5. CASE m # 0
  <2>1. m - 1 \in 0 .. n /\ m - 1 \notin wrong
    BY <1>2, <1>5
  <2>2. SearchStands(f[m - 1], w, duration, k)
    BY <2>1
  <2> QED
    BY <1>3, <1>5, <2>2, OneDayIsWorked
<1> QED
  BY <1>4, <1>5

(* On the wall clock, the search ends as the work is done.                 *)
LEMMA ConsumeIsExact ==
  ASSUME NEW k, IsCalendar(k), NEW w \in Int, NEW duration \in Nat,
         AdvanceToWorkingTime(w, k) # NoDeadline
  PROVE  LET due == Consume(AdvanceToWorkingTime(w, k), duration, k) IN
         due # NoDeadline =>
           /\ due \in Int /\ w <= due /\ Worked(w, due, k) = duration
           /\ WorkingTime(IF duration = 0 THEN due ELSE due - 1, k)
<1> DEFINE a == AdvanceToWorkingTime(w, k)
           init == [cursor |-> a, remaining |-> duration]
           after == CHOOSE f : SearchOf(f, MaxDaysSearched, init, k)
           at == after[MaxDaysSearched]
           due == Consume(a, duration, k)
<1>1. MaxDaysSearched \in Nat
  BY CalendarAssumption
<1>2. a \in Int /\ w <= a /\ WorkingTime(a, k) /\ Worked(w, a, k) = 0
  BY AdvanceIsTheFirst, NothingWorked
<1>3. SearchStands(init, w, duration, k)
  BY <1>2 DEF SearchStands
<1>4. due = IF at.cursor # NoDeadline /\ Fits(at, k) THEN at.cursor + at.remaining
            ELSE NoDeadline
  BY DEF Consume, SearchOf
<1> HIDE DEF a, init, due
<1>5. SearchOf(after, MaxDaysSearched, init, k)
  BY <1>1, SearchExists
<1> HIDE DEF after
<1>6. SearchStands(at, w, duration, k)
  BY <1>1, <1>3, <1>5, SearchKeepsStanding
<1> HIDE DEF at
<1> SUFFICES ASSUME due # NoDeadline
             PROVE  /\ due \in Int /\ w <= due /\ Worked(w, due, k) = duration
                    /\ WorkingTime(IF duration = 0 THEN due ELSE due - 1, k)
  BY DEF due, a
<1> DEFINE c == at.cursor
           r == at.remaining
<1>7. /\ c \in Int /\ w <= c /\ WorkingTime(c, k) /\ r \in Nat /\ (r = 0 => duration = 0)
      /\ Worked(w, c, k) + r = duration /\ due = c + r /\ r <= LeftToday(c, k)
      /\ Worked(w, c, k) \in Nat
  <2>1. at.cursor # NoDeadline /\ Fits(at, k) /\ due = c + r
    BY <1>4
  <2> QED
    BY <1>6, <2>1, WorkedIsCounted DEF SearchStands, Fits
<1> HIDE DEF c, r
<1>8. LeftToday(c, k) \in Nat
  BY <1>7, DayHasAnEnd
<1>9. \A v \in Int : c <= v /\ v < due => WorkingTime(v, k)
  BY <1>7, <1>8, WindowIsWorked
<1>10. Worked(c, due, k) = r
  BY <1>7, <1>9, WorkedWithoutBreak
<1>11. Worked(w, due, k) = duration
  BY <1>7, <1>10, WorkedAddsUp
<1>12. r = 0 => due = c /\ duration = 0
  BY <1>7
<1>13. r # 0 => WorkingTime(due - 1, k) /\ duration # 0
  BY <1>7, <1>9
<1>14. WorkingTime(IF duration = 0 THEN due ELSE due - 1, k)
  BY <1>7, <1>12, <1>13
<1> QED
  BY <1>7, <1>11, <1>14

----------------------------------------------------------------------------
(* Instants and wall clocks.                                               *)

IsZone(z) == z.before \in Int /\ z.after \in Int /\ z.shift \in Int

(* The wall clock of a deadline is no irregular one.                       *)
LEMMA DueIsRegular ==
  ASSUME NEW k, IsCalendar(k), ShiftsAtRest(k), NEW due \in Int,
         WorkingTime(due, k) \/ WorkingTime(due - 1, k)
  PROVE  due \notin Irregular(k.zone)
BY DEF ShiftsAtRest

(* Corrected twice, a regular wall clock is what it shows at the instant   *)
(* found, which is on its own side of the shift.                           *)
LEMMA InstantOfAWallClock ==
  ASSUME NEW z, IsZone(z), NEW wall \in Int, wall \notin Irregular(z)
  PROVE  LET i == ToInstant(wall, z) IN
         /\ i \in Int
         /\ \/ /\ i < z.shift /\ wall = i + z.before
               /\ wall < z.shift + z.before /\ wall < z.shift + z.after
            \/ /\ z.shift <= i /\ wall = i + z.after
               /\ z.shift + z.before <= wall /\ z.shift + z.after <= wall
<1> DEFINE x == Correct(wall, wall, z)
           b == z.before
           a == z.after
           s == z.shift
<1>1. b \in Int /\ a \in Int /\ s \in Int
  BY DEF IsZone
<1>2. x = wall - b \/ x = wall - a
  BY <1>1 DEF Correct, ToWallClock, Offset
<1>3. x \in Int
  BY <1>1, <1>2
<1>4. ToInstant(wall, z) = IF x < s THEN wall - b ELSE wall - a
  <2>1. ToInstant(wall, z) = x + (wall - ToWallClock(x, z))
    BY DEF ToInstant, Correct
  <2>2. ToWallClock(x, z) = IF x < s THEN x + b ELSE x + a
    BY DEF ToWallClock, Offset
  <2> HIDE DEF x
  <2> QED
    BY <1>1, <1>3, <2>1, <2>2
<1>5. (wall < s + b /\ wall < s + a) \/ (s + b <= wall /\ s + a <= wall)
  BY <1>1 DEF Irregular
<1> HIDE DEF x, a, b, s
<1>6. CASE wall < s + b /\ wall < s + a
  <2>1. x < s
    BY <1>1, <1>2, <1>6
  <2> QED
    BY <1>1, <1>4, <1>6, <2>1 DEF a, b, s
<1>7. CASE s + b <= wall /\ s + a <= wall
  <2>1. ~ (x < s)
    BY <1>1, <1>2, <1>7
  <2> QED
    BY <1>1, <1>4, <1>7, <2>1 DEF a, b, s
<1> QED
  BY <1>5, <1>6, <1>7

(* When clocks are shifted at rest, as many minutes are worked between two *)
(* instants as between the wall clocks they show.                          *)
LEMMA WorkedOnBothClocks ==
  ASSUME NEW k, IsCalendar(k), ShiftsAtRest(k), NEW start \in Int, NEW due \in Int,
         NEW wall \in Int, ToWallClock(start, k.zone) <= wall, wall \notin Irregular(k.zone),
         due = ToInstant(wall, k.zone)
  PROVE  WorkedBetween(start, due, k) = Worked(ToWallClock(start, k.zone), wall, k)
<1> DEFINE z == k.zone
           b == z.before
           a == z.after
           s == z.shift
           from == ToWallClock(start, z)
           clock(i) == ToWallClock(i, z)
           I == {i \in start .. (due - 1) : WorkingTime(clock(i), k)}
           V == WorkingTimes(from, wall, k)
           f == [i \in I |-> clock(i)]
<1>1. b \in Int /\ a \in Int /\ s \in Int /\ IsZone(z)
  BY DEF IsCalendar, IsZone
<1>2. \A i \in Int : clock(i) = (IF i < s THEN i + b ELSE i + a) /\ clock(i) \in Int
  BY <1>1 DEF ToWallClock, Offset
<1>3. \A v \in Int : WorkingTime(v, k) =>
        (v < s + b /\ v < s + a) \/ (s + b <= v /\ s + a <= v)
  <2>1. \A v \in Irregular(z) : ~ WorkingTime(v, k)
    BY DEF ShiftsAtRest
  <2>2. \A v \in Int : v \notin Irregular(z) =>
          (v < s + b /\ v < s + a) \/ (s + b <= v /\ s + a <= v)
    BY <1>1 DEF Irregular
  <2> QED
    BY <2>1, <2>2
<1>4. \/ due < s /\ wall = due + b /\ wall < s + b /\ wall < s + a
      \/ s <= due /\ wall = due + a /\ s + b <= wall /\ s + a <= wall
  BY <1>1, InstantOfAWallClock
<1>5. from = (IF start < s THEN start + b ELSE start + a) /\ from \in Int /\ from <= wall
  BY <1>2
<1> HIDE DEF z, b, a, s, from, clock
<1>6. ASSUME NEW i \in I PROVE clock(i) \in V
  <2>1. i \in Int /\ start <= i /\ i < due /\ WorkingTime(clock(i), k)
    OBVIOUS
  <2>2. clock(i) \in Int /\ from <= clock(i) /\ clock(i) < wall
    BY <1>1, <1>2, <1>3, <1>4, <1>5, <2>1
  <2> QED
    BY <1>5, <2>1, <2>2 DEF WorkingTimes
<1>7. ASSUME NEW v \in V PROVE \E i \in I : clock(i) = v
  <2>1. v \in Int /\ from <= v /\ v < wall /\ WorkingTime(v, k)
    BY <1>5 DEF WorkingTimes
  <2>2. (v < s + b /\ v < s + a) \/ (s + b <= v /\ s + a <= v)
    BY <1>3, <2>1
  <2>3. CASE v < s + b /\ v < s + a
    <3>1. v - b \in Int /\ start <= v - b /\ v - b < due /\ clock(v - b) = v
      BY <1>1, <1>2, <1>4, <1>5, <2>1, <2>3
    <3> QED
      BY <2>1, <3>1
  <2>4. CASE s + b <= v /\ s + a <= v
    <3>1. v - a \in Int /\ start <= v - a /\ v - a < due /\ clock(v - a) = v
      BY <1>1, <1>2, <1>4, <1>5, <2>1, <2>4
    <3> QED
      BY <2>1, <3>1
  <2> QED
    BY <2>2, <2>3, <2>4
<1>8. ASSUME NEW i \in I, NEW j \in I, clock(i) = clock(j) PROVE i = j
  <2>1. i \in Int /\ j \in Int /\ WorkingTime(clock(i), k)
    OBVIOUS
  <2> QED
    BY <1>1, <1>2, <1>3, <1>8, <2>1
<1>9. f \in Bijection(I, V)
  <2>1. f \in [I -> V]
    BY <1>6
  <2>2. \A i, j \in I : f[i] = f[j] => i = j
    BY <1>8
  <2>3. \A v \in V : \E i \in I : f[i] = v
    BY <1>7
  <2> HIDE DEF f, I, V
  <2> QED
    BY <2>1, <2>2, <2>3 DEF Bijection, Injection, Surjection, IsInjective
<1>10. IsFiniteSet(I)
  <2>1. IsFiniteSet(start .. (due - 1))
    BY FS_Interval
  <2>2. I \in SUBSET (start .. (due - 1))
    OBVIOUS
  <2> HIDE DEF I
  <2> QED
    BY <2>1, <2>2, FS_Subset
<1>11. Cardinality(V) = Cardinality(I)
  <2> HIDE DEF f, I, V
  <2>1. ExistsBijection(I, V)
    BY <1>9 DEF ExistsBijection
  <2> QED
    BY <1>10, <2>1, FS_Bijection
<1> QED
  BY <1>11 DEF WorkedBetween, Worked, I, V, clock, z, from

(* One minute more or less.                                                *)
LEMMA LastMinute ==
  ASSUME NEW k, NEW start \in Int, NEW due \in Int, start < due,
         WorkingTime(ToWallClock(due - 1, k.zone), k)
  PROVE  WorkedBetween(start, due - 1, k) = WorkedBetween(start, due, k) - 1
<1> DEFINE minutes(to) == {i \in start .. (to - 1) : WorkingTime(ToWallClock(i, k.zone), k)}
<1>1. IsFiniteSet(minutes(due - 1))
  <2>1. /\ IsFiniteSet(start .. (due - 1 - 1))
        /\ minutes(due - 1) \in SUBSET (start .. (due - 1 - 1))
    BY FS_Interval
  <2> HIDE DEF minutes
  <2> QED
    BY <2>1, FS_Subset
<1>2. minutes(due) = minutes(due - 1) \cup {due - 1}
  <2>1. ASSUME NEW i \in Int
        PROVE  i \in start .. (due - 1) <=> i \in start .. (due - 1 - 1) \/ i = due - 1
    OBVIOUS
  <2> QED
    BY <2>1
<1>3. due - 1 \notin minutes(due - 1)
  OBVIOUS
<1>4. WorkedBetween(start, due, k) = Cardinality(minutes(due))
      /\ WorkedBetween(start, due - 1, k) = Cardinality(minutes(due - 1))
  BY DEF WorkedBetween
<1> HIDE DEF minutes
<1>5. Cardinality(minutes(due)) = Cardinality(minutes(due - 1)) + 1
  BY <1>1, <1>2, <1>3, FS_AddElement
<1>6. Cardinality(minutes(due - 1)) \in Nat
  BY <1>1, FS_CardinalityType
<1> QED
  BY <1>4, <1>5, <1>6

LEMMA DeadlineIsExact ==
  ASSUME NEW k, IsCalendar(k), ShiftsAtRest(k), NEW start \in Int, NEW duration \in Nat,
         AddWorkingHours(start, duration, k) # NoDeadline
  PROVE  LET due == AddWorkingHours(start, duration, k) IN
         /\ WorkedBetween(start, due, k) = duration
         /\ IF duration = 0
              THEN WorkingTime(ToWallClock(due, k.zone), k)
              ELSE WorkedBetween(start, due - 1, k) = duration - 1
<1> DEFINE z == k.zone
           from == ToWallClock(start, z)
           a == AdvanceToWorkingTime(from, k)
           wall == Consume(a, duration, k)
           due == AddWorkingHours(start, duration, k)
<1>1. IsZone(z)
  BY DEF IsCalendar, IsZone
<1>2. from \in Int
  BY <1>1 DEF IsZone, ToWallClock, Offset
<1>3. a # NoDeadline /\ wall # NoDeadline /\ due = ToInstant(wall, z)
  BY DEF AddWorkingHours
<1>4. /\ wall \in Int /\ from <= wall /\ Worked(from, wall, k) = duration
      /\ WorkingTime(IF duration = 0 THEN wall ELSE wall - 1, k)
  BY <1>2, <1>3, ConsumeIsExact
<1> HIDE DEF wall, due
<1>5. /\ duration = 0 => WorkingTime(wall, k)
      /\ duration # 0 => WorkingTime(wall - 1, k)
  BY <1>4
<1>6. wall \notin Irregular(z)
  BY <1>4, <1>5, DueIsRegular
<1>7. /\ due \in Int
      /\ \/ /\ due < z.shift /\ wall = due + z.before
            /\ wall < z.shift + z.before /\ wall < z.shift + z.after
         \/ /\ z.shift <= due /\ wall = due + z.after
            /\ z.shift + z.before <= wall /\ z.shift + z.after <= wall
  BY <1>1, <1>3, <1>4, <1>6, InstantOfAWallClock
<1>8. WorkedBetween(start, due, k) = duration
  BY <1>2, <1>3, <1>4, <1>6, <1>7, WorkedOnBothClocks
<1>9. CASE duration = 0
  <2>1. ToWallClock(due, z) = wall
    BY <1>1, <1>4, <1>7 DEF IsZone, ToWallClock, Offset
  <2> QED
    BY <1>5, <1>8, <1>9, <2>1 DEF due
<1>10. CASE duration # 0
  <2>1. wall - 1 \notin Irregular(z)
    BY <1>5, <1>10 DEF ShiftsAtRest
  <2> DEFINE b == z.before
             c == z.after
             s == z.shift
  <2>2. /\ b \in Int /\ c \in Int /\ s \in Int
        /\ ToWallClock(due - 1, z) = (due - 1) + (IF due - 1 < s THEN b ELSE c)
        /\ wall - 1 \notin (IF s + b <= s + c THEN (s + b) .. (s + c - 1)
                            ELSE (s + c) .. (s + b - 1))
        /\ \/ due < s /\ wall = due + b
           \/ s <= due /\ wall = due + c /\ s + b <= wall /\ s + c <= wall
    BY <1>1, <1>7, <2>1 DEF IsZone, ToWallClock, Offset, Irregular
  <2> HIDE DEF b, c, s
  <2>3. ToWallClock(due - 1, z) = wall - 1
    <3>1. due \in Int /\ wall \in Int
      BY <1>4, <1>7
    <3>2. CASE due < s /\ wall = due + b
      BY <2>2, <3>1, <3>2
    <3>3. CASE s <= due /\ wall = due + c /\ s + b <= wall /\ s + c <= wall
      <4>1. CASE due - 1 < s
        BY <2>2, <3>1, <3>3, <4>1
      <4>2. CASE s <= due - 1
        BY <2>2, <3>1, <3>3, <4>2
      <4> QED
        BY <2>2, <3>1, <4>1, <4>2
    <3> QED
      BY <2>2, <3>2, <3>3
  <2>4. start < due
    <3>1. ~ (start < due) => start .. (due - 1) = {}
      BY <1>7
    <3>2. ~ (start < due) => WorkedBetween(start, due, k) = 0
      BY <3>1, FS_EmptySet DEF WorkedBetween
    <3> QED
      BY <1>8, <1>10, <3>2
  <2>5. WorkedBetween(start, due - 1, k) = WorkedBetween(start, due, k) - 1
    BY <1>5, <1>7, <1>10, <2>3, <2>4, LastMinute
  <2> QED
    BY <1>8, <1>10, <2>5 DEF due
<1> QED
  BY <1>9, <1>10

----------------------------------------------------------------------------
(* Settings and tasks.                                                     *)

WeekInv == configured \in Week \cup {DefaultWeek}

(* A task holds the calendar of its creation, and the deadline on it.      *)
DeadlineOfTheCalendar ==
  task.there =>
    /\ IsCalendar(task.calendar) /\ task.start \in Int /\ task.duration \in Nat
    /\ [task.calendar EXCEPT !.holidays = task.holidays] = task.calendar
    /\ task.business =>
         task.dueAt = AddWorkingHours(task.start, task.duration, task.calendar)

CalendarIInv == WeekInv /\ DeadlineOfTheCalendar

(* A task is persisted with the deadline counted on the calendar there was *)
(* at its creation, which no later edit of the settings touches.           *)
THEOREM CalendarInvariance == CalendarSpec => []CalendarIInv
<1>1. CalendarInit => CalendarIInv
  BY DEF CalendarInit, CalendarIInv, WeekInv, DeadlineOfTheCalendar, NoTask
<1>2. ASSUME CalendarIInv, [CalendarNext]_calendarVars PROVE CalendarIInv'
  <2> USE <1>2 DEF CalendarIInv, WeekInv, DeadlineOfTheCalendar
  <2>1. CASE \E week \in Week : UpsertOrganisationCalendar(week)
    BY <2>1 DEF UpsertOrganisationCalendar
  <2>2. CASE \E day \in Holiday : AddHoliday(day) \/ RemoveHoliday(day)
    BY <2>2 DEF AddHoliday, RemoveHoliday
  <2>3. ASSUME NEW business \in BOOLEAN, NEW s \in Created, NEW d \in Duration,
               CreateTask(business, s, d)
        PROVE  CalendarIInv'
    <3> DEFINE k == ResolveWorkingCalendar
    <3>1. /\ configured' = configured
          /\ task'.there = TRUE /\ task'.business = business /\ task'.start = s
          /\ task'.duration = d /\ task'.calendar = k /\ task'.holidays = holidays
          /\ task'.dueAt = ComputeDueAt(business, s, d, k)
      BY <2>3 DEF CreateTask
    <3>2. IsCalendar(k)
      <4>1. \A w \in Week \cup {DefaultWeek} :
              /\ w.start \in Nat /\ w.end \in Nat /\ w.start < w.end /\ w.end <= DayLength
              /\ w.zone.before \in Int /\ w.zone.after \in Int /\ w.zone.shift \in Int
        <5>1. \A x \in 0 .. DayLength : x \in Nat /\ x <= DayLength
          BY DayIsLong
        <5> QED
          BY <5>1, CalendarAssumption
      <4>2. /\ k.start = configured.start /\ k.end = configured.end
            /\ k.zone = configured.zone
        BY DEF ResolveWorkingCalendar, WithHolidays
      <4> HIDE DEF k
      <4> QED
        BY <4>1, <4>2 DEF IsCalendar
    <3>3. [k EXCEPT !.holidays = holidays] = k
      BY DEF ResolveWorkingCalendar, WithHolidays
    <3>4. s \in Int /\ d \in Nat
      BY CalendarAssumption
    <3>5. business => ComputeDueAt(business, s, d, k) = AddWorkingHours(s, d, k)
      BY DEF ComputeDueAt
    <3> HIDE DEF k
    <3> QED
      BY <3>1, <3>2, <3>3, <3>4, <3>5
  <2>4. CASE UNCHANGED calendarVars
    BY <2>4 DEF calendarVars
  <2> QED
    BY <2>1, <2>2, <2>3, <2>4 DEF CalendarNext
<1> QED
  BY <1>1, <1>2, PTL DEF CalendarSpec

(* addWorkingHours, and toInstant after it, return the instant up to which *)
(* exactly the duration is worked, the last minute of it being worked.     *)
THEOREM DeadlinesAreExact == CalendarSpec => []DeadlineIsTheLastWorkingMinute
<1>1. CalendarIInv => DeadlineIsTheLastWorkingMinute
  <2> SUFFICES ASSUME CalendarIInv, task.there, task.business, task.dueAt # NoDeadline,
                      ShiftsAtRest(task.calendar)
               PROVE  DeadlineIsTheLastWorkingMinute
    BY DEF DeadlineIsTheLastWorkingMinute
  <2> DEFINE k == task.calendar
  <2>1. /\ IsCalendar(k) /\ task.start \in Int /\ task.duration \in Nat
        /\ [k EXCEPT !.holidays = task.holidays] = k
        /\ task.dueAt = AddWorkingHours(task.start, task.duration, k)
    BY DEF CalendarIInv, DeadlineOfTheCalendar
  <2>2. /\ WorkedBetween(task.start, task.dueAt, k) = task.duration
        /\ IF task.duration = 0
             THEN WorkingTime(ToWallClock(task.dueAt, k.zone), k)
             ELSE WorkedBetween(task.start, task.dueAt - 1, k) = task.duration - 1
    BY <2>1, DeadlineIsExact
  <2> QED
    BY <2>1, <2>2 DEF DeadlineIsTheLastWorkingMinute
<1> QED
  BY <1>1, CalendarInvariance, PTL

----------------------------------------------------------------------------
(* What is reported.                                                       *)

EndedStatus == {"completed", "rejected", "cancelled"}

FilingRow ==
  [status : {"draft", "active", "unassigned"} \cup EndedStatus, step : DOMAIN Runs \cup {NoWhere},
   submitted : 0 .. MaxInstant, completed : 0 .. MaxInstant]

WorkRow ==
  [step : DOMAIN Runs \cup {Returned}, status : {"open", "completed", "cancelled"},
   decision : Outcome \cup {NoWhere}, level : 0 .. MaxRaised,
   by : Approver \cup {Requester, NoWhere}, created : Nat, completed : Nat]

TrailKey == DOMAIN Runs \cup {"$cancelled"} \cup UNION {Range(run) : run \in AllRuns}

TrailRow == [to : TrailKey, at : Nat]

IsRun(run) ==
  /\ run \in Seq(TrailKey) /\ run # <<>>
  /\ Last(run) \in DOMAIN Runs \cup Closing \cup {Returned}

(* What the tasks of a case that came to k at an instant must show.        *)
Behind(outcome, ws) == \E i \in DOMAIN ws : ws[i].decision = outcome

Closer(ws, at) ==
  \E i \in DOMAIN ws :
    ws[i].status = "completed" /\ ws[i].by \in Approver /\ ws[i].completed = at

NothingClosesAtOnce == \A run \in FirstRuns : Last(run) \notin Closing

Explained(k, at, ws) ==
  /\ OnlyBy("returned", Returned) /\ k = Returned => Behind("returned", ws)
  /\ OnlyBy("rejected", "$rejected") /\ k = "$rejected" => Behind("rejected", ws)
  /\ NothingClosesAtOnce /\ k \in {"$completed", "$rejected"} => Closer(ws, at)

Whereabouts(f) ==
  CASE f.status = "completed" -> "$completed"
    [] f.status = "rejected"  -> "$rejected"
    [] f.status = "active" /\ f.step = NoWhere -> Returned
    [] OTHER -> NoWhere

FilingInOrder(f, ws, now) ==
  /\ f.submitted < now /\ f.completed < now
  /\ f.submitted = Never => f.status \in {"draft", "cancelled"}
  /\ f.status = "draft" => f.submitted = Never
  /\ f.completed # Never <=> f.status \in EndedStatus
  /\ f.status \in {"draft"} \cup EndedStatus => f.step = NoWhere
  /\ Explained(Whereabouts(f), f.completed, ws)

TrailInOrder(tr, now) ==
  /\ \A i \in DOMAIN tr : tr[i].at < now
  /\ \A i, j \in DOMAIN tr : i <= j => tr[i].at <= tr[j].at

(* A trail leads from the submission to the end.                           *)
TrailTells(f, tr) ==
  /\ f.status = "draft" => tr = <<>>
  /\ f.submitted # Never => tr # <<>> /\ tr[1].at = f.submitted
  /\ f.completed # Never => tr # <<>> /\ tr[Len(tr)].at = f.completed

RowsTyped ==
  /\ instant \in 1 .. MaxInstant
  /\ filing \in [Filing -> FilingRow] /\ work \in [Filing -> Seq(WorkRow)]
  /\ trail \in [Filing -> Seq(TrailRow)]

ReportsIInv ==
  /\ RowsTyped
  /\ \A c \in Filing : /\ FilingInOrder(filing[c], work[c], instant)
                       /\ TrailInOrder(trail[c], instant) /\ TrailTells(filing[c], trail[c])

(* A later list of the tasks of a case: what was decided stays.            *)
KeepsDecisions(ws, vs) ==
  \A i \in DOMAIN ws :
    /\ i \in DOMAIN vs
    /\ ws[i].decision # NoWhere => vs[i].decision = ws[i].decision
    /\ ws[i].status = "completed" =>
         /\ vs[i].status = "completed" /\ vs[i].by = ws[i].by
         /\ vs[i].completed = ws[i].completed

LEMMA DecisionsExplain ==
  ASSUME NEW k, NEW at, NEW ws, NEW vs, KeepsDecisions(ws, vs), Explained(k, at, ws)
  PROVE  Explained(k, at, vs)
BY DEF KeepsDecisions, Explained, Behind, Closer, NoWhere

LEMMA NowhereIsExplained ==
  ASSUME NEW at, NEW ws PROVE Explained(NoWhere, at, ws)
BY DEF Explained, NoWhere, Returned

StartsAt(f, tr) ==
  f.submitted # Never => f.submitted = IF tr = <<>> THEN instant ELSE tr[1].at

LEMMA TrailsStart ==
  ASSUME ReportsIInv, NEW c \in Filing PROVE StartsAt(filing[c], trail[c])
BY DEF ReportsIInv, TrailTells, StartsAt

(* Any function on 1..n is a sequence.                                     *)
LEMMA SameLength ==
  ASSUME NEW S, NEW T, NEW s \in Seq(S), NEW f, DOMAIN f = DOMAIN s,
         f = [i \in DOMAIN s |-> f[i]], \A i \in DOMAIN s : f[i] \in T
  PROVE  f \in Seq(T) /\ Len(f) = Len(s)
<1>1. Len(s) \in Nat /\ DOMAIN s = 1 .. Len(s)
  BY LenProperties
<1>2. f \in [1 .. Len(s) -> T]
  BY <1>1
<1> QED
  BY <1>1, <1>2

LEMMA RunsAreRuns == \A run \in AllRuns : IsRun(run)
<1> SUFFICES ASSUME NEW run \in AllRuns PROVE IsRun(run)
  OBVIOUS
<1>1. run \in Seq(Range(run)) /\ run # <<>>
      /\ Last(run) \in DOMAIN Runs \cup Closing \cup {Returned}
  BY ReportsAssumption
<1>2. Range(run) \subseteq TrailKey
  BY DEF TrailKey
<1>3. run \in Seq(TrailKey)
  BY <1>1, <1>2, SeqMonotonic
<1> QED
  BY <1>1, <1>3 DEF IsRun

LEMMA OneKeyIsARun ==
  ASSUME NEW k \in DOMAIN Runs \cup {"$cancelled"}
  PROVE  IsRun(<<k>>) /\ Last(<<k>>) = k
<1>1. k \in TrailKey
  BY DEF TrailKey
<1>2. <<k>> \in Seq(TrailKey) /\ <<k>> # <<>> /\ Last(<<k>>) = k
  BY <1>1 DEF Last
<1> QED
  BY <1>2 DEF IsRun, Closing

LEMMA OpenWorkCancelled ==
  ASSUME NEW ws \in Seq(WorkRow)
  PROVE  CancelOpenWork(ws) \in Seq(WorkRow) /\ KeepsDecisions(ws, CancelOpenWork(ws))
<1> DEFINE vs == CancelOpenWork(ws)
<1>1. \A i \in DOMAIN ws : ws[i] \in WorkRow
  BY ElementOfSeq, LenProperties
<1>2. ASSUME NEW i \in DOMAIN ws
      PROVE  /\ vs[i] \in WorkRow /\ vs[i].decision = ws[i].decision
             /\ ws[i].status = "completed" => vs[i] = ws[i]
  <2> DEFINE r == [ws[i] EXCEPT !.status = "cancelled"]
  <2>1. r \in WorkRow /\ r.decision = ws[i].decision
    BY <1>1 DEF WorkRow
  <2>2. vs[i] = IF ws[i].status = "open" THEN r ELSE ws[i]
    BY DEF CancelOpenWork
  <2> HIDE DEF r, vs
  <2> QED
    BY <1>1, <2>1, <2>2
<1>3. DOMAIN vs = DOMAIN ws /\ vs = [i \in DOMAIN ws |-> vs[i]]
  BY DEF CancelOpenWork
<1> HIDE DEF vs
<1>4. vs \in Seq(WorkRow)
  BY <1>2, <1>3, SameLength
<1>5. KeepsDecisions(ws, vs)
  BY <1>2, <1>3 DEF KeepsDecisions
<1> QED
  BY <1>4, <1>5 DEF vs

LEMMA WorkAppended ==
  ASSUME RowsTyped, NEW ws \in Seq(WorkRow), NEW k \in DOMAIN Runs \cup {Returned},
         NEW level \in 0 .. MaxRaised
  PROVE  /\ Append(ws, NewWork(k, level)) \in Seq(WorkRow)
         /\ KeepsDecisions(ws, Append(ws, NewWork(k, level)))
<1>1. NewWork(k, level) \in WorkRow
  BY DEF NewWork, WorkRow, RowsTyped, Never
<1> DEFINE new == NewWork(k, level)
<1> HIDE DEF new
<1>2. /\ Append(ws, new) \in Seq(WorkRow) /\ Len(Append(ws, new)) = Len(ws) + 1
      /\ \A i \in 1 .. Len(ws) : Append(ws, new)[i] = ws[i]
  BY <1>1, AppendProperties DEF new
<1>3. DOMAIN ws = 1 .. Len(ws) /\ Len(ws) \in Nat
      /\ DOMAIN Append(ws, new) = 1 .. (Len(ws) + 1)
  BY <1>2, LenProperties
<1>4. KeepsDecisions(ws, Append(ws, new))
  BY <1>2, <1>3 DEF KeepsDecisions
<1> QED
  BY <1>2, <1>4 DEF new

LEMMA ZeroIsALevel == 0 \in 0 .. MaxRaised
BY ReportsAssumption

(* Rows written by one transaction follow those of the ones before.        *)
LEMMA TrailGrows ==
  ASSUME RowsTyped, NEW tr \in Seq(TrailRow), TrailInOrder(tr, instant),
         NEW run, IsRun(run), NEW order \in Ordered(run)
  PROVE  LET all == tr \o Timed(order) IN
         /\ all \in Seq(TrailRow) /\ TrailInOrder(all, instant + 1)
         /\ all # <<>> /\ all[Len(all)].at = instant
         /\ all[1].at = IF tr = <<>> THEN instant ELSE tr[1].at
<1> DEFINE new == Timed(order)
           all == tr \o new
<1>1. /\ run \in Seq(TrailKey) /\ DOMAIN order = DOMAIN run
      /\ \A i \in DOMAIN run : order[i] \in Range(run)
      /\ instant \in Nat
  BY DEF IsRun, Ordered, RowsTyped
<1>2. \A i \in DOMAIN run : run[i] \in TrailKey
  BY <1>1, LenProperties
<1>3. \A i \in DOMAIN run : order[i] \in TrailKey
  BY <1>1, <1>2 DEF Range
<1>4. /\ DOMAIN new = DOMAIN run /\ new = [i \in DOMAIN run |-> new[i]]
      /\ \A i \in DOMAIN run : new[i] \in TrailRow /\ new[i].at = instant
  BY <1>1, <1>3 DEF Timed, TrailRow
<1> HIDE DEF new
<1>5. new \in Seq(TrailRow) /\ \A i \in DOMAIN new : new[i].at = instant
  BY <1>1, <1>4, SameLength
<1>6. /\ all \in Seq(TrailRow) /\ Len(all) = Len(tr) + Len(new)
      /\ \A i \in 1 .. Len(tr) + Len(new) :
           all[i] = IF i <= Len(tr) THEN tr[i] ELSE new[i - Len(tr)]
  BY <1>5, ConcatProperties
<1>7. /\ Len(tr) \in Nat /\ DOMAIN tr = 1 .. Len(tr) /\ Len(new) \in Nat
      /\ DOMAIN new = 1 .. Len(new)
      /\ DOMAIN all = 1 .. Len(tr) + Len(new)
      /\ \A i \in DOMAIN tr : tr[i].at \in Nat /\ tr[i].at < instant
  <2>1. \A i \in DOMAIN tr : tr[i] \in TrailRow
    BY LenProperties
  <2> QED
    BY <1>5, <1>6, <2>1, LenProperties DEF TrailInOrder, TrailRow
<1> HIDE DEF all
<1>8. ASSUME NEW i \in DOMAIN all
      PROVE  IF i <= Len(tr) THEN i \in DOMAIN tr /\ all[i] = tr[i] ELSE all[i].at = instant
  <2>1. i > Len(tr) => i - Len(tr) \in DOMAIN new
    BY <1>7
  <2> QED
    BY <1>5, <1>6, <1>7, <2>1
<1>9. \A i \in DOMAIN all : all[i].at < instant + 1
  BY <1>1, <1>7, <1>8
<1>10. ASSUME NEW i \in DOMAIN all, NEW j \in DOMAIN all, i <= j
       PROVE  all[i].at <= all[j].at
  <2>1. i \in Nat /\ j \in Nat
    BY <1>7
  <2>2. CASE j <= Len(tr)
    BY <1>7, <1>8, <1>10, <2>1, <2>2 DEF TrailInOrder
  <2>3. CASE ~ (j <= Len(tr))
    BY <1>1, <1>7, <1>8, <2>1, <2>3
  <2> QED
    BY <2>2, <2>3
<1>11. /\ all # <<>> /\ all[Len(all)].at = instant
       /\ all[1].at = IF tr = <<>> THEN instant ELSE tr[1].at
  <2>1. run # <<>> /\ DOMAIN run = 1 .. Len(run) /\ Len(run) \in Nat
    BY <1>1, LenProperties DEF IsRun
  <2>2. Len(run) # 0
    BY <1>1, <2>1, EmptySeq
  <2>3. Len(new) = Len(run)
    BY <1>1, <1>4, SameLength
  <2>4. Len(all) > Len(tr) /\ Len(all) \in DOMAIN all /\ 1 \in DOMAIN all /\ Len(all) # 0
    BY <1>6, <1>7, <2>1, <2>2, <2>3
  <2>5. tr = <<>> <=> Len(tr) = 0
    BY EmptySeq
  <2>6. all # <<>>
    BY <1>6, <2>4, EmptySeq
  <2>7. all[Len(all)].at = instant
    BY <1>7, <1>8, <2>4
  <2>8. all[1].at = IF tr = <<>> THEN instant ELSE tr[1].at
    BY <1>7, <1>8, <2>4, <2>5
  <2> QED
    BY <2>6, <2>7, <2>8
<1> QED
  BY <1>6, <1>9, <1>10, <1>11 DEF TrailInOrder, new, all

(* The rows of the other cases.                                            *)
LEMMA LaterIsFine ==
  ASSUME RowsTyped, NEW f \in FilingRow, NEW ws, FilingInOrder(f, ws, instant)
  PROVE  FilingInOrder(f, ws, instant + 1)
BY DEF RowsTyped, FilingRow, FilingInOrder

LEMMA LaterTrailIsFine ==
  ASSUME RowsTyped, NEW tr \in Seq(TrailRow), TrailInOrder(tr, instant)
  PROVE  TrailInOrder(tr, instant + 1)
<1>1. \A i \in DOMAIN tr : tr[i] \in TrailRow
  BY LenProperties
<1> QED
  BY <1>1 DEF RowsTyped, TrailInOrder, TrailRow

(* One case moves on by new rows, the others stay.                         *)
LEMMA OneFilingMoves ==
  ASSUME ReportsIInv, NEW c \in Filing, NEW f \in FilingRow, NEW ws \in Seq(WorkRow),
         NEW run, IsRun(run), NEW order \in Ordered(run),
         instant < MaxInstant, instant' = instant + 1,
         trail' = [trail EXCEPT ![c] = @ \o Timed(order)],
         filing' = [filing EXCEPT ![c] = f], work' = [work EXCEPT ![c] = ws],
         FilingInOrder(f, ws, instant + 1), StartsAt(f, trail[c]),
         f.status # "draft", f.completed # Never => f.completed = instant
  PROVE  ReportsIInv'
<1>0. RowsTyped /\ \A d \in Filing : /\ filing[d] \in FilingRow /\ trail[d] \in Seq(TrailRow)
                                     /\ FilingInOrder(filing[d], work[d], instant)
                                     /\ TrailInOrder(trail[d], instant)
                                     /\ TrailTells(filing[d], trail[d])
  BY DEF ReportsIInv, RowsTyped
<1> DEFINE tr == trail[c] \o Timed(order)
<1>1. /\ tr \in Seq(TrailRow) /\ TrailInOrder(tr, instant + 1)
      /\ tr # <<>> /\ tr[Len(tr)].at = instant
      /\ tr[1].at = IF trail[c] = <<>> THEN instant ELSE trail[c][1].at
  BY <1>0, TrailGrows
<1>2. trail' = [trail EXCEPT ![c] = tr]
  OBVIOUS
<1> HIDE DEF tr
<1>3. instant' \in 1 .. MaxInstant
  BY <1>0, ReportsAssumption DEF RowsTyped
<1>4. RowsTyped'
  BY <1>0, <1>1, <1>2, <1>3 DEF RowsTyped
<1>5. ASSUME NEW d \in Filing
      PROVE  /\ FilingInOrder(filing'[d], work'[d], instant')
             /\ TrailInOrder(trail'[d], instant') /\ TrailTells(filing'[d], trail'[d])
  <2>1. CASE d = c
    <3>1. filing'[c] = f /\ work'[c] = ws /\ trail'[c] = tr
      BY <1>0, <1>2 DEF RowsTyped
    <3>2. TrailTells(f, tr)
      BY <1>1 DEF TrailTells, StartsAt
    <3> QED
      BY <1>1, <2>1, <3>1, <3>2
  <2>2. CASE d # c
    <3>1. filing'[d] = filing[d] /\ work'[d] = work[d] /\ trail'[d] = trail[d]
      BY <1>2, <2>2 
    <3>2. FilingInOrder(filing[d], work[d], instant + 1)
      BY <1>0, LaterIsFine
    <3>3. TrailInOrder(trail[d], instant + 1)
      BY <1>0, LaterTrailIsFine
    <3> QED
      BY <1>0, <3>1, <3>2, <3>3
  <2> QED
    BY <2>1, <2>2
<1> QED
  BY <1>4, <1>5 DEF ReportsIInv, FilingInOrder, Explained, TrailInOrder, TrailTells

LEMMA PersistKeepsReports ==
  ASSUME ReportsIInv, NEW c \in Filing, NEW row \in FilingRow, NEW ws \in Seq(WorkRow),
         NEW run, IsRun(run), NEW found \in BOOLEAN,
         row.submitted <= instant, row.completed = Never, StartsAt(row, trail[c]),
         row.submitted = Never => Last(run) = "$cancelled",
         Explained(Last(run), instant, ws),
         Persist(c, row, ws, run, found)
  PROVE  ReportsIInv'
<1> DEFINE k == Last(run)
           status == StatusAt(k, found)
           step == IF k \in Closing \cup {Returned} THEN NoWhere ELSE k
           completed == IF k \in Closing THEN instant ELSE row.completed
           f == [Stamp(row, k) EXCEPT !.status = status, !.step = step]
           vs == IF k \in Closing THEN CancelOpenWork(ws)
                 ELSE IF found \/ k = Returned THEN Append(ws, NewWork(k, 0)) ELSE ws
<1>0. /\ RowsTyped /\ instant \in Nat \ {0} /\ instant \in 0 .. MaxInstant
      /\ k \in DOMAIN Runs \cup Closing \cup {Returned}
      /\ DOMAIN Runs \cap (Closing \cup {Returned, NoWhere}) = {}
  BY ReportsAssumption DEF ReportsIInv, RowsTyped, IsRun
<1>1. /\ f \in FilingRow /\ f.status = status /\ f.step = step
      /\ f.completed = completed /\ f.submitted = row.submitted
  <2>1. status \in {"draft", "active", "unassigned"} \cup EndedStatus
    BY DEF StatusAt, EndedStatus
  <2>2. step \in DOMAIN Runs \cup {NoWhere}
    BY <1>0
  <2> HIDE DEF status, step
  <2>3. Stamp(row, k) \in FilingRow /\ Stamp(row, k).completed = completed
        /\ Stamp(row, k).submitted = row.submitted
    BY <1>0 DEF Stamp, FilingRow
  <2> QED
    BY <2>1, <2>2, <2>3 DEF FilingRow
<1>2. vs \in Seq(WorkRow) /\ KeepsDecisions(ws, vs)
  <2>1. CASE k \in Closing
    BY <2>1, OpenWorkCancelled
  <2>2. CASE k \notin Closing /\ (found \/ k = Returned)
    BY <1>0, <2>2, WorkAppended, ZeroIsALevel
  <2>3. CASE k \notin Closing /\ ~ (found \/ k = Returned)
    BY <2>3 DEF KeepsDecisions
  <2> QED
    BY <2>1, <2>2, <2>3
<1>3. PICK order \in Ordered(run) : trail' = [trail EXCEPT ![c] = @ \o Timed(order)]
  BY DEF Persist
<1>4. /\ instant < MaxInstant /\ instant' = instant + 1
      /\ filing' = [filing EXCEPT ![c] = f] /\ work' = [work EXCEPT ![c] = vs]
  BY DEF Persist
<1>5. Explained(k, instant, vs)
  BY <1>2, DecisionsExplain
<1>6. /\ status = "draft" <=> FALSE
      /\ status = "completed" <=> k = "$completed"
      /\ status = "rejected" <=> k = "$rejected"
      /\ status = "cancelled" <=> k = "$cancelled"
      /\ status = "active" /\ step = NoWhere <=> k = Returned
      /\ k \in Closing => step = NoWhere
  BY <1>0 DEF StatusAt, Closing, Returned, NoWhere
<1> HIDE DEF status, step, f, vs, k
<1>7. Explained(Whereabouts(f), f.completed, vs)
  <2>1. CASE status = "completed" \/ status = "rejected"
    BY <1>1, <1>5, <1>6, <2>1 DEF Whereabouts, Closing
  <2>2. CASE status = "active" /\ step = NoWhere
    <3>1. Whereabouts(f) = Returned /\ k = Returned
      BY <1>1, <1>6, <2>2 DEF Whereabouts
    <3> QED
      BY <1>5, <3>1 DEF Explained, Returned
  <2>3. CASE status \notin {"completed", "rejected"} /\ ~ (status = "active" /\ step = NoWhere)
    BY <1>1, <2>3, NowhereIsExplained DEF Whereabouts
  <2> QED
    BY <2>1, <2>2, <2>3
<1>8. FilingInOrder(f, vs, instant + 1)
  <2>1. f.submitted < instant + 1 /\ f.completed < instant + 1
    BY <1>0, <1>1 DEF FilingRow, Never
  <2>2. f.completed # Never <=> f.status \in EndedStatus
    BY <1>0, <1>1, <1>6 DEF Never, EndedStatus, Closing
  <2>3. /\ f.submitted = Never => f.status \in {"draft", "cancelled"}
        /\ f.status = "draft" => f.submitted = Never
        /\ f.status \in {"draft"} \cup EndedStatus => f.step = NoWhere
    BY <1>1, <1>6 DEF k, EndedStatus, Closing
  <2> QED
    BY <1>7, <2>1, <2>2, <2>3 DEF FilingInOrder
<1>9. /\ StartsAt(f, trail[c]) /\ f.status # "draft"
      /\ f.completed # Never => f.completed = instant
  BY <1>1, <1>6 DEF StartsAt
<1> QED
  BY <1>1, <1>2, <1>3, <1>4, <1>8, <1>9, OneFilingMoves

LEMMA TaskDecidedRow ==
  ASSUME RowsTyped, NEW w \in WorkRow, NEW outcome \in Outcome,
         NEW by \in Approver \cup {Requester}
  PROVE  /\ Decided(w, outcome, by) \in WorkRow
         /\ Decided(w, outcome, by).status = "completed"
         /\ Decided(w, outcome, by).decision = outcome
         /\ Decided(w, outcome, by).by = by /\ Decided(w, outcome, by).completed = instant
<1>1. instant \in Nat
  BY DEF RowsTyped
<1> DEFINE d == [w EXCEPT !.status = "completed", !.decision = outcome, !.by = by,
                          !.completed = instant]
<1>2. /\ d \in WorkRow /\ d.status = "completed" /\ d.decision = outcome
      /\ d.by = by /\ d.completed = instant
  BY <1>1 DEF WorkRow
<1> QED
  BY <1>2 DEF Decided

LEMMA SubmitKeepsReports ==
  ASSUME ReportsIInv, NEW c \in Filing, SubmitFiling(c) PROVE ReportsIInv'
<1> DEFINE row == [filing[c] EXCEPT !.submitted = instant]
<1>1. RowsTyped /\ filing[c] \in FilingRow /\ work[c] \in Seq(WorkRow)
      /\ FilingInOrder(filing[c], work[c], instant) /\ filing[c].status = "draft"
  BY DEF ReportsIInv, RowsTyped, SubmitFiling
<1>2. PICK run \in FirstRuns, found \in BOOLEAN : Persist(c, row, work[c], run, found)
  BY DEF SubmitFiling
<1>3. IsRun(run)
  BY RunsAreRuns DEF AllRuns
<1>4. Explained(Last(run), instant, work[c])
  BY DEF Explained, OnlyBy, NothingClosesAtOnce, Closing
<1>5. row \in FilingRow /\ row.submitted = instant /\ row.completed = Never /\ instant # Never
  <2>1. instant \in 0 .. MaxInstant /\ instant # 0
    BY <1>1, ReportsAssumption DEF RowsTyped
  <2>2. filing[c].completed = Never
    BY <1>1 DEF FilingInOrder, EndedStatus
  <2> QED
    BY <1>1, <2>1, <2>2 DEF FilingRow, Never
<1>6. StartsAt(row, trail[c])
  BY <1>1, <1>5 DEF ReportsIInv, TrailTells, StartsAt
<1> HIDE DEF row
<1> QED
  BY <1>1, <1>2, <1>3, <1>4, <1>5, <1>6, PersistKeepsReports DEF RowsTyped

LEMMA ResubmitKeepsReports ==
  ASSUME ReportsIInv, NEW c \in Filing, ResubmitFiling(c) PROVE ReportsIInv'
<1> DEFINE ws == [i \in DOMAIN work[c] |->
                    IF work[c][i].status = "open" /\ work[c][i].step = Returned
                    THEN Decided(work[c][i], "completed", Requester) ELSE work[c][i]]
<1>1. RowsTyped /\ filing[c] \in FilingRow /\ work[c] \in Seq(WorkRow)
      /\ FilingInOrder(filing[c], work[c], instant) /\ filing[c].status = "active"
  BY DEF ReportsIInv, RowsTyped, ResubmitFiling
<1>2. PICK run \in FirstRuns, found \in BOOLEAN : Persist(c, filing[c], ws, run, found)
  BY DEF ResubmitFiling
<1>3. IsRun(run)
  BY RunsAreRuns DEF AllRuns
<1>4. Explained(Last(run), instant, ws)
  BY DEF Explained, OnlyBy, NothingClosesAtOnce, Closing
<1>5. ws \in Seq(WorkRow)
  <2>1. \A i \in DOMAIN work[c] : work[c][i] \in WorkRow
    BY <1>1, LenProperties
  <2>2. \A i \in DOMAIN ws : ws[i] \in WorkRow
    BY <1>1, <2>1, TaskDecidedRow DEF Outcome
  <2>3. DOMAIN ws = DOMAIN work[c] /\ ws = [i \in DOMAIN work[c] |-> ws[i]]
    OBVIOUS
  <2> HIDE DEF ws
  <2> QED
    BY <1>1, <2>2, <2>3, SameLength
<1>6. filing[c].submitted # Never /\ filing[c].submitted <= instant /\ filing[c].completed = Never
  BY <1>1 DEF FilingInOrder, EndedStatus, FilingRow, RowsTyped, Never
<1> HIDE DEF ws
<1> QED
  BY <1>1, <1>2, <1>3, <1>4, <1>5, <1>6, TrailsStart, PersistKeepsReports

LEMMA CancelKeepsReports ==
  ASSUME ReportsIInv, NEW c \in Filing, CancelFiling(c) PROVE ReportsIInv'
<1>1. RowsTyped /\ filing[c] \in FilingRow /\ work[c] \in Seq(WorkRow)
      /\ FilingInOrder(filing[c], work[c], instant)
      /\ filing[c].status \in {"draft", "active", "unassigned"}
  BY DEF ReportsIInv, RowsTyped, CancelFiling
<1>2. PICK run : run = <<"$cancelled">>
  OBVIOUS
<1>3. IsRun(run) /\ Last(run) = "$cancelled"
  BY <1>2, OneKeyIsARun
<1>4. Explained(Last(run), instant, work[c])
  BY <1>3 DEF Explained, Returned
<1>5. filing[c].submitted <= instant /\ filing[c].completed = Never
  BY <1>1 DEF FilingInOrder, EndedStatus, FilingRow, RowsTyped, Never
<1>6. PICK found \in BOOLEAN : Persist(c, filing[c], work[c], run, found)
  BY <1>2 DEF CancelFiling
<1> QED
  BY <1>1, <1>3, <1>4, <1>5, <1>6, TrailsStart, PersistKeepsReports

(* A task at the step the case is at is an open case's.                    *)
LEMMA TaskInHand ==
  ASSUME ReportsIInv, NEW c \in Filing, NEW i \in DOMAIN work[c],
         work[c][i].step = filing[c].step
  PROVE  /\ work[c][i] \in WorkRow /\ work[c][i].step \in DOMAIN Runs
         /\ filing[c].submitted # Never /\ filing[c].submitted <= instant
         /\ filing[c].completed = Never
         /\ filing[c].status \in {"active", "unassigned"}
<1>1. RowsTyped /\ filing[c] \in FilingRow /\ work[c] \in Seq(WorkRow)
      /\ FilingInOrder(filing[c], work[c], instant)
  BY DEF ReportsIInv, RowsTyped
<1>2. work[c][i] \in WorkRow
  BY <1>1, LenProperties
<1>3. filing[c].step \in DOMAIN Runs /\ filing[c].step # NoWhere
  BY <1>1, <1>2, ReportsAssumption DEF WorkRow, FilingRow, Returned, NoWhere
<1> QED
  BY <1>1, <1>2, <1>3 DEF FilingInOrder, FilingRow, RowsTyped, EndedStatus, Never

LEMMA DecideKeepsReports ==
  ASSUME ReportsIInv, NEW c \in Filing, NEW i \in DOMAIN work[c], NEW by \in Approver,
         DecideWork(c, i, by)
  PROVE  ReportsIInv'
<1> DEFINE w == work[c][i]
<1>1. RowsTyped /\ filing[c] \in FilingRow /\ work[c] \in Seq(WorkRow) /\ w.step = filing[c].step
  BY DEF ReportsIInv, RowsTyped, DecideWork
<1>2. /\ w \in WorkRow /\ w.step \in DOMAIN Runs
      /\ filing[c].submitted # Never /\ filing[c].submitted <= instant
      /\ filing[c].completed = Never
  BY <1>1, TaskInHand
<1>3. PICK outcome \in DOMAIN Runs[w.step] :
        LET ws == [work[c] EXCEPT ![i] = Decided(w, outcome, by)] IN
        \/ \E run \in Runs[w.step][outcome], found \in BOOLEAN :
             Persist(c, filing[c], ws, run, found)
        \/ Persist(c, filing[c], ws, <<w.step>>, FALSE)
  BY DEF DecideWork
<1> DEFINE r  == Decided(w, outcome, by)
           ws == [work[c] EXCEPT ![i] = r]
<1>4. outcome \in Outcome /\ outcome # NoWhere
  BY <1>2, ReportsAssumption DEF Outcome, NoWhere
<1>5. r \in WorkRow /\ r.status = "completed" /\ r.decision = outcome /\ r.by = by
      /\ r.completed = instant
  BY <1>1, <1>2, <1>4, TaskDecidedRow
<1> HIDE DEF r, w
<1>6. ws \in Seq(WorkRow) /\ DOMAIN ws = DOMAIN work[c] /\ ws[i] = r
  <2>1. \A j \in DOMAIN work[c] : work[c][j] \in WorkRow
    BY <1>1, LenProperties
  <2>2. DOMAIN ws = DOMAIN work[c] /\ ws = [j \in DOMAIN work[c] |-> ws[j]]
        /\ ws[i] = r /\ \A j \in DOMAIN work[c] : ws[j] \in WorkRow
    BY <1>1, <1>5, <2>1, LenProperties
  <2> HIDE DEF ws
  <2> QED
    BY <1>1, <2>2, SameLength
<1>7. \/ \E run \in Runs[w.step][outcome], found \in BOOLEAN :
           Persist(c, filing[c], ws, run, found)
      \/ Persist(c, filing[c], ws, <<w.step>>, FALSE)
  BY <1>3 DEF r, w
<1> HIDE DEF ws
<1>8. ASSUME NEW run, IsRun(run), NEW found \in BOOLEAN, Persist(c, filing[c], ws, run, found),
             Explained(Last(run), instant, ws)
      PROVE  ReportsIInv'
  BY <1>1, <1>2, <1>6, <1>8, TrailsStart, PersistKeepsReports
<1>9. ASSUME NEW run \in Runs[w.step][outcome], NEW found \in BOOLEAN,
             Persist(c, filing[c], ws, run, found)
      PROVE  ReportsIInv'
  <2>1. IsRun(run)
    BY <1>2, RunsAreRuns DEF AllRuns, Range
  <2>2. OnlyBy("returned", Returned) /\ Last(run) = Returned => outcome = "returned"
    BY <1>2 DEF OnlyBy
  <2>3. OnlyBy("rejected", "$rejected") /\ Last(run) = "$rejected" => outcome = "rejected"
    BY <1>2 DEF OnlyBy
  <2>4. Explained(Last(run), instant, ws)
    BY <1>5, <1>6, <2>2, <2>3 DEF Explained, Behind, Closer
  <2> QED
    BY <1>8, <1>9, <2>1, <2>4
<1>10. ASSUME Persist(c, filing[c], ws, <<w.step>>, FALSE) PROVE ReportsIInv'
  <2>1. PICK run : run = <<w.step>>
    OBVIOUS
  <2>2. IsRun(run) /\ Last(run) = w.step
    BY <1>2, <2>1, OneKeyIsARun
  <2>3. Explained(Last(run), instant, ws)
    BY <1>2, <2>2, ReportsAssumption DEF Explained, Closing
  <2>4. Persist(c, filing[c], ws, run, FALSE)
    BY <1>10, <2>1
  <2> QED
    BY <1>8, <2>2, <2>3, <2>4
<1> QED
  BY <1>7, <1>9, <1>10

LEMMA EscalateKeepsReports ==
  ASSUME ReportsIInv, NEW c \in Filing, NEW i \in DOMAIN work[c], EscalateWork(c, i)
  PROVE  ReportsIInv'
<1> DEFINE w == work[c][i]
<1>1. RowsTyped /\ filing[c] \in FilingRow /\ work[c] \in Seq(WorkRow)
      /\ FilingInOrder(filing[c], work[c], instant) /\ w.step = filing[c].step
  BY DEF ReportsIInv, RowsTyped, EscalateWork
<1>2. /\ w \in WorkRow /\ w.step \in DOMAIN Runs
      /\ filing[c].submitted # Never /\ filing[c].submitted <= instant
      /\ filing[c].completed = Never
  BY <1>1, TaskInHand
<1>3. PICK run : run = <<w.step>>
  OBVIOUS
<1>4. IsRun(run) /\ Last(run) = w.step
  BY <1>2, <1>3, OneKeyIsARun
<1>5. CASE ~ (w.level < MaxRaised)
  <2>1. Persist(c, filing[c], work[c], run, FALSE)
    BY <1>3, <1>5 DEF EscalateWork
  <2>2. Explained(Last(run), instant, work[c])
    BY <1>2, <1>4, ReportsAssumption DEF Explained, Closing
  <2> QED
    BY <1>1, <1>2, <1>4, <2>1, <2>2, TrailsStart, PersistKeepsReports
<1>6. CASE w.level < MaxRaised
  <2> DEFINE n  == w.level + 1
             r  == [w EXCEPT !.level = n]
             ws == [work[c] EXCEPT ![i] = r]
             vs == Append(ws, NewWork(w.step, n))
  <2>1. n \in 0 .. MaxRaised
    BY <1>2, <1>6, ReportsAssumption DEF WorkRow
  <2>2. /\ instant < MaxInstant /\ instant' = instant + 1 /\ filing' = filing
        /\ trail' = [trail EXCEPT ![c] = @ \o Timed(run)]
        /\ work' = [work EXCEPT ![c] = vs]
    <3>1. work' = [work EXCEPT ![c] =
                     Append([work[c] EXCEPT ![i].level = w.level + 1], NewWork(w.step, n))]
      BY <1>6 DEF EscalateWork
    <3>2. [work[c] EXCEPT ![i].level = w.level + 1] = ws
      OBVIOUS
    <3> QED
      BY <1>3, <1>6, <3>1, <3>2 DEF EscalateWork
  <2> HIDE DEF n
  <2>3. /\ r \in WorkRow /\ r.decision = w.decision /\ r.status = w.status
        /\ r.by = w.by /\ r.completed = w.completed
    BY <1>2, <2>1 DEF WorkRow
  <2> HIDE DEF r
  <2>4. ws \in Seq(WorkRow) /\ KeepsDecisions(work[c], ws)
    <3>1. \A j \in DOMAIN work[c] : work[c][j] \in WorkRow
      BY <1>1, LenProperties
    <3>2. DOMAIN ws = DOMAIN work[c] /\ ws = [j \in DOMAIN work[c] |-> ws[j]]
          /\ ws[i] = r /\ (\A j \in DOMAIN work[c] : ws[j] \in WorkRow)
          /\ \A j \in DOMAIN work[c] : j # i => ws[j] = work[c][j]
      BY <1>1, <2>3, <3>1, LenProperties
    <3> HIDE DEF ws
    <3>3. ws \in Seq(WorkRow)
      BY <1>1, <3>2, SameLength
    <3> QED
      BY <2>3, <3>2, <3>3 DEF KeepsDecisions
  <2> HIDE DEF ws
  <2>5. vs \in Seq(WorkRow) /\ KeepsDecisions(ws, vs)
    BY <1>1, <1>2, <2>1, <2>4, WorkAppended
  <2> HIDE DEF vs
  <2>6. Explained(Whereabouts(filing[c]), filing[c].completed, vs)
    <3>1. Explained(Whereabouts(filing[c]), filing[c].completed, ws)
      BY <1>1, <2>4, DecisionsExplain DEF FilingInOrder
    <3> QED
      BY <2>5, <3>1, DecisionsExplain
  <2>7. FilingInOrder(filing[c], vs, instant + 1)
    <3>1. FilingInOrder(filing[c], vs, instant)
      BY <1>1, <2>6 DEF FilingInOrder
    <3> QED
      BY <1>1, <3>1, LaterIsFine
  <2>8. run \in Ordered(run)
    BY <1>4, LenProperties DEF Ordered, IsRun, Range
  <2>9. filing' = [filing EXCEPT ![c] = filing[c]]
    BY <1>1, <2>2 DEF RowsTyped
  <2>10. filing[c].status # "draft"
    BY <1>1, TaskInHand
  <2> QED
    BY <1>1, <1>2, <1>4, <2>2, <2>5, <2>7, <2>8, <2>9, <2>10, TrailsStart, OneFilingMoves
<1> QED
  BY <1>5, <1>6

(* What the rows of the reports have to do with each other.                *)
THEOREM ReportsInvariance == ReportsSpec => []ReportsIInv
<1>1. ReportsInit => ReportsIInv
  <2> SUFFICES ASSUME ReportsInit PROVE ReportsIInv
    OBVIOUS
  <2>1. RowsTyped
    BY ReportsAssumption DEF ReportsInit, RowsTyped, FilingRow, Never
  <2>2. ASSUME NEW c \in Filing
        PROVE  /\ FilingInOrder(filing[c], work[c], instant)
               /\ TrailInOrder(trail[c], instant) /\ TrailTells(filing[c], trail[c])
    <3>1. /\ filing[c].status = "draft" /\ filing[c].step = NoWhere
          /\ filing[c].submitted = Never /\ filing[c].completed = Never
          /\ trail[c] = <<>> /\ instant = 1
      BY DEF ReportsInit
    <3>2. Explained(Whereabouts(filing[c]), filing[c].completed, work[c])
      BY <3>1, NowhereIsExplained DEF Whereabouts
    <3> QED
      BY <3>1, <3>2 DEF FilingInOrder, TrailInOrder, TrailTells, EndedStatus, Never
  <2> QED
    BY <2>1, <2>2 DEF ReportsIInv
<1>2. ReportsIInv /\ [ReportsNext]_reportVars => ReportsIInv'
  <2> SUFFICES ASSUME ReportsIInv, [ReportsNext]_reportVars PROVE ReportsIInv'
    OBVIOUS
  <2>1. CASE UNCHANGED reportVars
    BY <2>1 DEF reportVars, ReportsIInv, RowsTyped, FilingInOrder, Explained, Closer, TrailInOrder,
       TrailTells
  <2>2. ASSUME NEW c \in Filing, SubmitFiling(c) \/ ResubmitFiling(c) \/ CancelFiling(c)
        PROVE  ReportsIInv'
    BY <2>2, SubmitKeepsReports, ResubmitKeepsReports, CancelKeepsReports
  <2>3. ASSUME NEW c \in Filing, NEW i \in DOMAIN work[c],
               EscalateWork(c, i) \/ \E by \in Approver : DecideWork(c, i, by)
        PROVE  ReportsIInv'
    BY <2>3, EscalateKeepsReports, DecideKeepsReports
  <2> QED
    BY <2>1, <2>2, <2>3 DEF ReportsNext
<1> QED
  BY <1>1, <1>2, PTL DEF ReportsSpec

LEMMA RowsAreSound ==
  ASSUME ReportsIInv, NEW c \in Filing
  PROVE  /\ instant \in Nat /\ filing[c] \in FilingRow
         /\ work[c] \in Seq(WorkRow) /\ trail[c] \in Seq(TrailRow)
         /\ FilingInOrder(filing[c], work[c], instant) /\ TrailInOrder(trail[c], instant)
         /\ \A i \in DOMAIN work[c] : work[c][i] \in WorkRow
         /\ \A i \in DOMAIN trail[c] : trail[c][i].at \in Nat
         /\ filing[c].submitted \in Nat /\ filing[c].completed \in Nat
<1>1. /\ instant \in Nat /\ filing[c] \in FilingRow
      /\ work[c] \in Seq(WorkRow) /\ trail[c] \in Seq(TrailRow)
      /\ FilingInOrder(filing[c], work[c], instant) /\ TrailInOrder(trail[c], instant)
  BY ReportsAssumption DEF ReportsIInv, RowsTyped
<1>2. \A i \in DOMAIN trail[c] : trail[c][i] \in TrailRow
  BY <1>1, LenProperties
<1>3. \A i \in DOMAIN work[c] : work[c][i] \in WorkRow
  BY <1>1, LenProperties
<1>4. filing[c].submitted \in Nat /\ filing[c].completed \in Nat
  BY <1>1, ReportsAssumption DEF FilingRow
<1> QED
  BY <1>1, <1>2, <1>3, <1>4 DEF TrailRow

LEMMA ReportRowsTyped == ReportsIInv => ReportsTypeOK
<1> SUFFICES ASSUME ReportsIInv, NEW c \in Filing
             PROVE  /\ instant \in 1 .. MaxInstant
                    /\ filing[c].status \in {"draft", "active", "unassigned", "completed",
                                             "rejected", "cancelled"}
                    /\ filing[c].submitted \in 0 .. instant /\ filing[c].completed \in 0 .. instant
                    /\ \A i \in DOMAIN work[c] : work[c][i].level \in 0 .. MaxRaised
  BY DEF ReportsTypeOK, ReportsIInv, RowsTyped
<1>1. /\ instant \in Nat /\ filing[c] \in FilingRow
      /\ FilingInOrder(filing[c], work[c], instant)
      /\ filing[c].submitted \in Nat /\ filing[c].completed \in Nat
      /\ \A i \in DOMAIN work[c] : work[c][i] \in WorkRow
  BY RowsAreSound
<1>2. instant \in 1 .. MaxInstant
  BY DEF ReportsIInv, RowsTyped
<1>3. filing[c].submitted \in 0 .. instant /\ filing[c].completed \in 0 .. instant
  BY <1>1 DEF FilingInOrder
<1>4. \A i \in DOMAIN work[c] : work[c][i].level \in 0 .. MaxRaised
  BY <1>1 DEF WorkRow
<1>5. filing[c].status \in {"draft", "active", "unassigned", "completed", "rejected", "cancelled"}
  BY <1>1 DEF FilingRow, EndedStatus
<1> QED
  BY <1>2, <1>3, <1>4, <1>5

(* A later instant is in no earlier day.                                   *)
LEMMA LaterIsNoEarlier ==
  ASSUME NEW a \in Nat, NEW b \in Nat, a <= b, NEW l \in Nat \ {0}
  PROVE  a \div l \in 0 .. b \div l
<1> DEFINE q == a \div l
           r == a % l
           u == b \div l
           v == b % l
<1>1. a = l * q + r /\ r \in 0 .. l - 1 /\ q \in Nat
  OBVIOUS
<1>2. b = l * u + v /\ v \in 0 .. l - 1 /\ u \in Nat
  OBVIOUS
<1> HIDE DEF q, r, u, v
<1>3. ASSUME u < q PROVE FALSE
  <2>1. u + 1 <= q
    BY <1>1, <1>2, <1>3
  <2>2. l * (u + 1) <= l * q
    BY <1>1, <1>2, <2>1
  <2>3. l * (u + 1) = l * u + l
    BY <1>2
  <2> QED
    BY <1>1, <1>2, <2>2, <2>3
<1>4. q \in 0 .. u
  BY <1>1, <1>2, <1>3
<1> QED
  BY <1>4 DEF q, u

LEMMA TurnaroundIsComplete == ReportsIInv => TurnaroundCoversTheEnded
<1> SUFFICES ASSUME ReportsIInv, NEW p \in Periods
             PROVE  LET t     == FindTurnaround(p[1], p[2])
                        ended == t.completed \cup t.rejected \cup t.cancelled IN
                    /\ DOMAIN t.hours = ended
                    /\ \A l \in Bucket :
                         UNION Range(FindVolume(p[1], p[2], l)) =
                           ended \cup {c \in InPeriod(p[1], p[2]) :
                                         filing[c].status \in {"active", "unassigned"}}
  BY DEF TurnaroundCoversTheEnded
<1> DEFINE t     == FindTurnaround(p[1], p[2])
           ended == t.completed \cup t.rejected \cup t.cancelled
           all   == InPeriod(p[1], p[2])
<1>1. \A c \in all : c \in Filing /\ filing[c].submitted # Never
  BY DEF InPeriod
<1>2. \A c \in all : /\ filing[c].completed # Never <=> filing[c].status \in EndedStatus
                     /\ filing[c].status \in {"active", "unassigned"} \cup EndedStatus
                     /\ filing[c].submitted \in Nat /\ filing[c].submitted <= MaxInstant
  <2> SUFFICES ASSUME NEW c \in all
               PROVE  /\ filing[c].completed # Never <=> filing[c].status \in EndedStatus
                      /\ filing[c].status \in {"active", "unassigned"} \cup EndedStatus
                      /\ filing[c].submitted \in Nat /\ filing[c].submitted <= MaxInstant
    OBVIOUS
  <2>1. filing[c] \in FilingRow /\ FilingInOrder(filing[c], work[c], instant)
        /\ filing[c].submitted \in Nat
    BY <1>1, RowsAreSound
  <2>2. filing[c].status \in {"active", "unassigned"} \cup EndedStatus
    BY <1>1, <2>1 DEF FilingInOrder, FilingRow
  <2>3. filing[c].submitted <= MaxInstant
    BY <2>1, ReportsAssumption DEF FilingRow
  <2> QED
    BY <2>1, <2>2, <2>3 DEF FilingInOrder
<1>3. /\ ended = {c \in all : filing[c].status \in EndedStatus}
      /\ DOMAIN t.hours = {c \in all : filing[c].completed # Never}
  BY DEF FindTurnaround, EndedStatus
<1>4. ASSUME NEW l \in Bucket PROVE UNION Range(FindVolume(p[1], p[2], l)) = all
  <2> DEFINE days == 0 .. MaxInstant \div l
             v    == FindVolume(p[1], p[2], l)
  <2>1. l \in Nat \ {0}
    BY ReportsAssumption
  <2>2. \A c \in all : filing[c].submitted \div l \in days
    BY <1>2, <2>1, LaterIsNoEarlier, ReportsAssumption
  <2>3. DOMAIN v = days /\ \A d \in days : v[d] = {c \in all : filing[c].submitted \div l = d}
    BY DEF FindVolume
  <2> HIDE DEF days, all, v
  <2>4. Range(v) = {v[d] : d \in days}
    BY <2>3 DEF Range
  <2>5. \A c : c \in UNION Range(v) <=> \E d \in days : c \in v[d]
    BY <2>4
  <2>6. \A c : c \in UNION Range(v) <=> c \in all
    BY <2>2, <2>3, <2>5
  <2> QED
    BY <2>6 DEF v
<1> HIDE DEF t, all
<1>5. DOMAIN t.hours = ended
  BY <1>2, <1>3
<1>6. all = ended \cup {c \in all : filing[c].status \in {"active", "unassigned"}}
  BY <1>2, <1>3
<1> QED
  BY <1>4, <1>5, <1>6 DEF t, all

LEMMA RowsAreFinite ==
  ASSUME ReportsIInv, NEW from, NEW to
  PROVE  /\ IsFiniteSet(InPeriod(from, to))
         /\ IsFiniteSet(Rows(from, to))
<1>1. IsFiniteSet(InPeriod(from, to))
  BY FS_Subset, ReportsAssumption DEF InPeriod
<1>2. ASSUME NEW c \in Filing PROVE IsFiniteSet({<<c, i>> : i \in DOMAIN work[c]})
  <2> DEFINE T == {<<c, i>> : i \in DOMAIN work[c]}
             f == [i \in DOMAIN work[c] |-> <<c, i>>]
  <2>1. DOMAIN work[c] = 1 .. Len(work[c]) /\ Len(work[c]) \in Nat
    BY RowsAreSound, LenProperties
  <2>2. IsFiniteSet(DOMAIN work[c])
    <3>1. PICK n \in Nat : n = Len(work[c])
      BY <2>1
    <3>2. IsFiniteSet(1 .. n)
      BY FS_Interval
    <3> QED
      BY <2>1, <3>1, <3>2
  <2>3. f \in Surjection(DOMAIN work[c], T)
    BY DEF Surjection
  <2> QED
    BY <2>2, <2>3, FS_Surjection
<1> DEFINE sets == {{<<c, i>> : i \in DOMAIN work[c]} : c \in InPeriod(from, to)}
<1>3. IsFiniteSet(sets)
  <2> DEFINE f == [c \in InPeriod(from, to) |-> {<<c, i>> : i \in DOMAIN work[c]}]
  <2>1. f \in Surjection(InPeriod(from, to), sets)
    BY DEF Surjection
  <2> QED
    BY <1>1, <2>1, FS_Surjection
<1>4. \A S \in sets : IsFiniteSet(S)
  BY <1>2 DEF InPeriod
<1>5. IsFiniteSet(UNION sets)
  BY <1>3, <1>4, FS_UNION
<1> QED
  BY <1>1, <1>5 DEF Rows

(* A group of tasks that is withheld is of few cases.                      *)
LEMMA WithheldIsFew ==
  ASSUME ReportsIInv, NEW from, NEW to, NEW k \in StepsNamed,
         NEW cs \in SUBSET InPeriod(from, to),
         \A c \in cs : \E i \in DOMAIN work[c] : work[c][i].decision = "rejected"
                                                  /\ work[c][i].step = k
  PROVE  k \in FindRejectionCounts(from, to) \/ Cardinality(cs) < SuppressBelow
<1> DEFINE atStep == {r \in Rows(from, to) : /\ work[r[1]][r[2]].step = k
                                             /\ work[r[1]][r[2]].decision = "rejected"}
           some == {r \in atStep : r[1] \in cs}
           f == [r \in some |-> r[1]]
<1>1. IsFiniteSet(atStep) /\ IsFiniteSet(some) /\ Cardinality(some) <= Cardinality(atStep)
  <2>1. IsFiniteSet(atStep)
    BY RowsAreFinite, FS_Subset
  <2> QED
    BY <2>1, FS_Subset
<1>2. f \in Surjection(some, cs)
  <2>1. f \in [some -> cs]
    OBVIOUS
  <2>2. ASSUME NEW c \in cs PROVE \E r \in some : f[r] = c
    <3>1. PICK i \in DOMAIN work[c] : work[c][i].decision = "rejected" /\ work[c][i].step = k
      OBVIOUS
    <3>2. <<c, i>> \in Rows(from, to)
      BY DEF Rows
    <3>3. <<c, i>> \in some /\ f[<<c, i>>] = c
      BY <3>1, <3>2
    <3> QED
      BY <3>3
  <2> QED
    BY <2>1, <2>2 DEF Surjection
<1>3. IsFiniteSet(cs) /\ Cardinality(cs) <= Cardinality(some)
  <2> HIDE DEF f, some, atStep
  <2> QED
    BY <1>1, <1>2, FS_Surjection
<1>4. Cardinality(cs) \in Nat /\ Cardinality(some) \in Nat /\ Cardinality(atStep) \in Nat
  BY <1>1, <1>3, FS_CardinalityType
<1>5. Cardinality(atStep) >= SuppressBelow => k \in FindRejectionCounts(from, to)
  <2> DEFINE groups == [j \in StepsNamed |->
                          {r \in Rows(from, to) : /\ work[r[1]][r[2]].step = j
                                                  /\ work[r[1]][r[2]].decision = "rejected"}]
  <2>1. k \in DOMAIN groups /\ groups[k] = atStep
    OBVIOUS
  <2>2. FindRejectionCounts(from, to) = Reported(groups)
    BY DEF FindRejectionCounts
  <2> HIDE DEF groups, atStep
  <2> QED
    BY <2>1, <2>2 DEF Reported
<1> HIDE DEF atStep, some
<1> QED
  BY <1>1, <1>3, <1>4, <1>5, ReportsAssumption

LEMMA ReportPartsAgree == ReportsIInv => PartsAgree
<1> SUFFICES ASSUME ReportsIInv, NEW p \in Periods
             PROVE
    LET r == DefinitionReport(p[1], p[2])
        reasons(c) == {i \in DOMAIN work[c] : work[c][i].decision = "rejected"} IN
    /\ OnlyBy("returned", Returned) =>
         {c \in InPeriod(p[1], p[2]) : filing[c].status = "active" /\ filing[c].step = NoWhere}
           \subseteq r.rates.returned
    /\ OnlyBy("rejected", "$rejected") =>
         \A c \in r.rejected :
           \E i \in reasons(c) :
             \/ work[c][i].step \in r.rejections
             \/ Cardinality({d \in r.rejected :
                               \E j \in reasons(d) : work[d][j].step = work[c][i].step})
                  < SuppressBelow
    /\ (\A run \in FirstRuns : Last(run) \notin Closing) =>
         \A c \in r.volume \ r.cancelled :
           \E who \in Approver :
             \E h \in Handled(who, filing[c].completed, filing[c].completed + 1) : h[1] = c
  BY DEF PartsAgree
<1> DEFINE all == InPeriod(p[1], p[2])
           r == DefinitionReport(p[1], p[2])
           reasons(c) == {i \in DOMAIN work[c] : work[c][i].decision = "rejected"}
<1>1. /\ r.rejected = {c \in all : filing[c].status = "rejected"}
      /\ r.cancelled = {c \in all : filing[c].status = "cancelled"}
      /\ r.volume = {c \in all : filing[c].status \in EndedStatus}
      /\ r.rates.returned = {c \in all : \E i \in DOMAIN work[c] : work[c][i].decision = "returned"}
      /\ r.rejections = FindRejectionCounts(p[1], p[2])
  BY DEF DefinitionReport, FindTurnaround, FindRates, EndedStatus
<1>2. \A c \in all : c \in Filing /\ Explained(Whereabouts(filing[c]), filing[c].completed, work[c])
  BY RowsAreSound DEF InPeriod, FilingInOrder
<1> HIDE DEF r, all
<1>3. ASSUME OnlyBy("returned", Returned), NEW c \in all,
             filing[c].status = "active", filing[c].step = NoWhere
      PROVE  c \in r.rates.returned
  <2>1. Whereabouts(filing[c]) = Returned
    BY <1>3 DEF Whereabouts
  <2> QED
    BY <1>1, <1>2, <1>3, <2>1 DEF Explained, Behind
<1>4. ASSUME OnlyBy("rejected", "$rejected"), NEW c \in r.rejected
      PROVE  \E i \in reasons(c) :
               \/ work[c][i].step \in r.rejections
               \/ Cardinality({d \in r.rejected :
                                 \E j \in reasons(d) : work[d][j].step = work[c][i].step})
                    < SuppressBelow
  <2>1. c \in all /\ c \in Filing /\ Whereabouts(filing[c]) = "$rejected"
    BY <1>1, <1>2, <1>4 DEF Whereabouts
  <2>2. Behind("rejected", work[c])
    BY <1>2, <1>4, <2>1 DEF Explained
  <2>3. PICK i \in DOMAIN work[c] : work[c][i].decision = "rejected"
    BY <2>2 DEF Behind
  <2> DEFINE k  == work[c][i].step
             cs == {d \in r.rejected : \E j \in reasons(d) : work[d][j].step = k}
  <2>4. k \in StepsNamed
    BY <2>1, RowsAreSound DEF WorkRow, StepsNamed
  <2>5. cs \in SUBSET all
    BY <1>1
  <2>6. \A d \in cs : \E j \in DOMAIN work[d] : work[d][j].decision = "rejected"
                                                 /\ work[d][j].step = k
    OBVIOUS
  <2> HIDE DEF k, cs
  <2>7. k \in r.rejections \/ Cardinality(cs) < SuppressBelow
    BY <1>1, <2>4, <2>5, <2>6, WithheldIsFew DEF all
  <2> QED
    BY <2>3, <2>7 DEF k, cs
<1>5. ASSUME NothingClosesAtOnce, NEW c \in r.volume \ r.cancelled
      PROVE  \E who \in Approver :
               \E h \in Handled(who, filing[c].completed, filing[c].completed + 1) : h[1] = c
  <2>1. /\ c \in all /\ c \in Filing
        /\ Whereabouts(filing[c]) \in {"$completed", "$rejected"}
    BY <1>1, <1>2, <1>5 DEF Whereabouts, EndedStatus
  <2>2. Closer(work[c], filing[c].completed)
    BY <1>2, <1>5, <2>1 DEF Explained
  <2>3. PICK i \in DOMAIN work[c] :
          work[c][i].status = "completed" /\ work[c][i].by \in Approver
          /\ work[c][i].completed = filing[c].completed
    BY <2>2 DEF Closer
  <2>4. filing[c].completed \in Nat
    BY <2>1, RowsAreSound
  <2>5. <<c, i>> \in UNION {{<<d, j>> : j \in DOMAIN work[d]} : d \in Filing}
    BY <2>1
  <2>6. <<c, i>> \in Handled(work[c][i].by, filing[c].completed, filing[c].completed + 1)
    BY <2>3, <2>4, <2>5 DEF Handled
  <2> QED
    BY <2>3, <2>6
<1> QED
  BY <1>3, <1>4, <1>5 DEF r, all, NothingClosesAtOnce

(* The next transition of a case.                                          *)
LEMMA VisitsTakeTime ==
  ASSUME ReportsIInv, NEW c \in Filing, NEW i \in Visits(c) PROVE VisitTime(c, i) >= 0
<1>1. /\ TrailInOrder(trail[c], instant) /\ trail[c] \in Seq(TrailRow)
      /\ \A j \in DOMAIN trail[c] : trail[c][j].at \in Nat
      /\ DOMAIN trail[c] = 1 .. Len(trail[c]) /\ Len(trail[c]) \in Nat
  BY RowsAreSound, LenProperties
<1>2. PICK j \in DOMAIN trail[c] : i < j
  BY DEF Visits, Lead
<1>3. i \in DOMAIN trail[c] /\ i + 1 \in Lead(c, i) /\ \A k \in Lead(c, i) : i + 1 <= k
  BY <1>1, <1>2 DEF Visits, Lead
<1>4. Min(Lead(c, i)) \in Lead(c, i)
  BY <1>3 DEF Min
<1> DEFINE m == Min(Lead(c, i))
<1>5. m \in DOMAIN trail[c] /\ i <= m
  BY <1>1, <1>3, <1>4 DEF Lead
<1> HIDE DEF m
<1>6. trail[c][i].at <= trail[c][m].at
  BY <1>1, <1>3, <1>5 DEF TrailInOrder
<1> QED
  BY <1>1, <1>3, <1>5, <1>6 DEF VisitTime, m

LEMMA OneElement ==
  ASSUME NEW S, IsFiniteSet(S), Cardinality(S) <= 1, NEW a \in S, NEW b \in S
  PROVE  a = b
<1>1. {a, b} \subseteq S
  OBVIOUS
<1>2. IsFiniteSet({a, b}) /\ Cardinality({a, b}) <= Cardinality(S)
  BY <1>1, FS_Subset
<1>3. ASSUME a # b PROVE FALSE
  <2>1. IsFiniteSet({a}) /\ Cardinality({a}) = 1
    BY FS_Singleton
  <2>2. Cardinality({a} \cup {b}) = Cardinality({a}) + 1
    BY <1>3, <2>1, FS_AddElement
  <2>3. {a} \cup {b} = {a, b}
    OBVIOUS
  <2>4. Cardinality(S) \in Nat
    BY FS_CardinalityType
  <2> QED
    BY <1>2, <2>1, <2>2, <2>3, <2>4
<1> QED
  BY <1>3

LEMMA PlainVisits == ReportsIInv => PlainVisitsAreSampledOnce
<1> SUFFICES ASSUME ReportsIInv, NEW p \in Periods, NEW k \in FindStepDurations(p[1], p[2]),
                    \A c \in InPeriod(p[1], p[2]) : Plain(c, k)
             PROVE
      /\ Cardinality(StepSamples(k, p[1], p[2])) =
           Cardinality({c \in InPeriod(p[1], p[2]) : \E i \in Visits(c) :
                          trail[c][i].to = k /\ \E t \in DOMAIN work[c] : work[c][t].step = k})
      /\ \A s \in StepSamples(k, p[1], p[2]) : VisitTime(s[1], s[2]) >= 0
  BY DEF PlainVisitsAreSampledOnce
<1> DEFINE all == InPeriod(p[1], p[2])
           samples == StepSamples(k, p[1], p[2])
           cases == {c \in all : \E i \in Visits(c) :
                       trail[c][i].to = k /\ \E t \in DOMAIN work[c] : work[c][t].step = k}
           visits(c) == {j \in Visits(c) : trail[c][j].to = k}
           tasks(c)  == {u \in DOMAIN work[c] : work[c][u].step = k}
<1>1. \A s : s \in samples <=> \E c \in all : \E i \in visits(c), t \in tasks(c) : s = <<c, i, t>>
  BY DEF StepSamples
<1>2. ASSUME NEW c \in all
      PROVE  /\ \A i, j \in visits(c) : i = j
             /\ \A t, u \in tasks(c) : t = u
  <2>1. c \in Filing
    BY DEF InPeriod
  <2>2. PICK n \in Nat : DOMAIN trail[c] = 1 .. n
    BY <2>1, RowsAreSound, LenProperties
  <2>3. PICK m \in Nat : DOMAIN work[c] = 1 .. m
    BY <2>1, RowsAreSound, LenProperties
  <2>4. IsFiniteSet(1 .. n) /\ IsFiniteSet(1 .. m)
    BY FS_Interval
  <2> DEFINE V == {i \in DOMAIN trail[c] : trail[c][i].to = k}
             W == {i \in DOMAIN work[c] : work[c][i].step = k}
  <2>5. IsFiniteSet(V) /\ IsFiniteSet(W)
    BY <2>2, <2>3, <2>4, FS_Subset
  <2>6. Cardinality(V) <= 1 /\ Cardinality(W) <= 1
    BY DEF Plain
  <2>7. visits(c) \subseteq V /\ tasks(c) \subseteq W
    BY DEF Visits
  <2> HIDE DEF V, W
  <2>8. (\A i, j \in V : i = j) /\ (\A t, u \in W : t = u)
    BY <2>5, <2>6, OneElement
  <2> QED
    BY <2>7, <2>8
<1>3. \A c : c \in cases <=> c \in all /\ \E i \in visits(c), t \in tasks(c) : TRUE
  OBVIOUS
<1> DEFINE f == [c \in cases |-> CHOOSE s \in samples : s[1] = c]
<1> HIDE DEF samples, cases, visits, tasks, all
<1>4. ASSUME NEW c \in cases PROVE f[c] \in samples /\ f[c][1] = c
  <2>1. PICK i \in visits(c), t \in tasks(c) : c \in all
    BY <1>3
  <2>2. <<c, i, t>> \in samples /\ <<c, i, t>>[1] = c
    BY <1>1, <2>1
  <2> QED
    BY <2>2
<1>5. ASSUME NEW s \in samples, NEW u \in samples, s[1] = u[1] PROVE s = u
  BY <1>1, <1>2, <1>5
<1>6. \A s \in samples : s[1] \in cases
  BY <1>1, <1>3
<1>7. f \in Bijection(cases, samples)
  <2>1. f \in [cases -> samples]
    BY <1>4
  <2>2. \A c, d \in cases : f[c] = f[d] => c = d
    BY <1>4
  <2>3. \A s \in samples : \E c \in cases : f[c] = s
    BY <1>4, <1>5, <1>6
  <2> QED
    BY <2>1, <2>2, <2>3 DEF Bijection, Injection, Surjection, IsInjective
<1>8. IsFiniteSet(cases)
  BY RowsAreFinite, FS_Subset DEF cases, all
<1>9. Cardinality(samples) = Cardinality(cases)
  BY <1>7, <1>8, FS_Bijection DEF ExistsBijection
<1>10. ASSUME NEW s \in samples PROVE VisitTime(s[1], s[2]) >= 0
  <2>1. PICK c \in all : \E i \in visits(c), t \in tasks(c) : s = <<c, i, t>>
    BY <1>1
  <2>2. PICK i \in visits(c), t \in tasks(c) : s = <<c, i, t>>
    BY <2>1
  <2>3. c \in Filing /\ i \in Visits(c)
    BY DEF all, InPeriod, visits
  <2> QED
    BY <2>2, <2>3, VisitsTakeTime
<1> QED
  BY <1>9, <1>10 DEF samples, cases, all

(* A function that adds up differences gives the difference of the ends.   *)
LEMMA DifferencesAddUp ==
  ASSUME NEW L \in Nat, NEW at \in [1 .. L -> Int], NEW add,
         \A n \in 1 .. L : add[n] = IF n < L THEN at[n + 1] - at[n] ELSE 0
  PROVE  L > 0 => SumUpTo(add, L) = at[L] - at[1]
<1> DEFINE Adds(f) == f = [n \in 0 .. L |-> IF n = 0 THEN 0 ELSE f[n - 1] + add[n]]
           g == [n \in 0 .. L |-> IF n = 0 THEN 0 ELSE IF n < L THEN at[n + 1] - at[1]
                                                       ELSE at[L] - at[1]]
           upTo == CHOOSE f : Adds(f)
<1>1. Adds(g)
  <2>1. ASSUME NEW n \in 0 .. L, n # 0 PROVE g[n] = g[n - 1] + add[n]
    <3>1. n - 1 \in 0 .. L /\ n - 1 < L /\ n \in 1 .. L
      BY <2>1
    <3>2. at[n] \in Int /\ at[1] \in Int /\ at[L] \in Int
      BY <3>1
    <3>3. g[n - 1] = at[n] - at[1]
      BY <2>1, <3>1, <3>2
    <3>4. CASE n < L
      <4>1. at[n + 1] \in Int
        BY <3>1, <3>4
      <4> QED
        BY <2>1, <3>1, <3>2, <3>3, <3>4, <4>1
    <3>5. CASE n = L
      BY <2>1, <3>1, <3>2, <3>3, <3>5
    <3> QED
      BY <2>1, <3>4, <3>5
  <2>2. g[0] = 0
    OBVIOUS
  <2>3. g = [n \in 0 .. L |-> g[n]]
    OBVIOUS
  <2> HIDE DEF g
  <2>4. \A n \in 0 .. L : g[n] = IF n = 0 THEN 0 ELSE g[n - 1] + add[n]
    BY <2>1, <2>2
  <2> QED
    BY <2>3, <2>4
<1>2. Adds(upTo)
  BY <1>1
<1> HIDE DEF upTo
<1>3. \A n \in 0 .. L : upTo[n] = IF n = 0 THEN 0 ELSE upTo[n - 1] + add[n]
  BY <1>2
<1>4. \A n \in 0 .. L : g[n] = IF n = 0 THEN 0 ELSE g[n - 1] + add[n]
  BY <1>1
<1> HIDE DEF g
<1>5. \A n \in 0 .. L : upTo[n] = g[n]
  <2> DEFINE wrong == {n \in 0 .. L : upTo[n] # g[n]}
  <2>1. SUFFICES ASSUME wrong # {} PROVE FALSE
    OBVIOUS
  <2>2. wrong \subseteq Nat
    OBVIOUS
  <2>3. PICK n \in wrong : \A m \in wrong : n <= m
    <3> HIDE DEF wrong
    <3> QED
      BY <2>1, <2>2, SmallestNumber
  <2>4. n # 0
    BY <1>3, <1>4
  <2>5. n - 1 \in 0 .. L /\ n - 1 \notin wrong
    BY <2>3, <2>4
  <2> QED
    BY <1>3, <1>4, <2>4, <2>5
<1>6. L > 0 => g[L] = at[L] - at[1]
  BY DEF g
<1> QED
  BY <1>5, <1>6 DEF upTo, SumUpTo

LEMMA TurnaroundAddsUp == ReportsIInv => TimesAddUp
<1> SUFFICES ASSUME ReportsIInv, NEW c \in Filing,
                    filing[c].submitted # Never, filing[c].completed # Never
             PROVE  TimeAtSteps(c) = filing[c].completed - filing[c].submitted
  BY DEF TimesAddUp
<1>1. /\ TrailTells(filing[c], trail[c]) /\ trail[c] \in Seq(TrailRow)
      /\ \A i \in DOMAIN trail[c] : trail[c][i].at \in Nat
      /\ DOMAIN trail[c] = 1 .. Len(trail[c]) /\ Len(trail[c]) \in Nat
  BY RowsAreSound, LenProperties DEF ReportsIInv
<1>2. PICK L \in Nat : L = Len(trail[c])
  BY <1>1
<1>3. L > 0 /\ trail[c][1].at = filing[c].submitted /\ trail[c][L].at = filing[c].completed
  BY <1>1, <1>2, EmptySeq DEF TrailTells
<1> DEFINE at == [i \in 1 .. L |-> trail[c][i].at]
           add == [n \in 1 .. L |-> IF n \in Visits(c) THEN VisitTime(c, n) ELSE 0]
<1>4. at \in [1 .. L -> Int]
  BY <1>1, <1>2
<1>5. ASSUME NEW n \in 1 .. L PROVE add[n] = IF n < L THEN at[n + 1] - at[n] ELSE 0
  <2>1. CASE n < L
    <3>1. n + 1 \in Lead(c, n) /\ n \in Visits(c) /\ \A k \in Lead(c, n) : n + 1 <= k /\ k \in Nat
      BY <1>1, <1>2, <2>1 DEF Visits, Lead
    <3>2. Min(Lead(c, n)) = n + 1
      BY <3>1 DEF Min
    <3> QED
      BY <1>2, <2>1, <3>1, <3>2 DEF VisitTime
  <2>2. CASE ~ (n < L)
    <3>1. n \notin Visits(c)
      BY <1>1, <1>2, <2>2 DEF Visits, Lead
    <3> QED
      BY <2>2, <3>1
  <2> QED
    BY <2>1, <2>2
<1>6. TimeAtSteps(c) = SumUpTo(add, L)
  BY <1>1, <1>2 DEF TimeAtSteps
<1>7. at[1] = filing[c].submitted /\ at[L] = filing[c].completed
  BY <1>3
<1> HIDE DEF at, add
<1> QED
  BY <1>3, <1>4, <1>5, <1>6, <1>7, DifferencesAddUp

(* reports.ts: the times of a case add up to its turnaround; the           *)
(* turnaround is over exactly the cases that have ended; what one part of  *)
(* a definition's report counts the others account for; and cases that     *)
(* came to a step once are measured there once.                            *)
THEOREM ReportsAgree == ReportsSpec => []ReportsInv
<1>1. ReportsIInv => ReportsInv
  BY ReportRowsTyped, TurnaroundAddsUp, TurnaroundIsComplete, PlainVisits, ReportPartsAgree
  DEF ReportsInv
<1> QED
  BY <1>1, ReportsInvariance, PTL
=============================================================================
