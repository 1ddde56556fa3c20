----------------------------- MODULE Organisation -----------------------------
(***************************************************************************)
(* Who belongs to an organisation: its creation, invitations, members,     *)
(* groups, delegations and the sessions people act with.  Every request    *)
(* is one transaction, or several one after the other; in each, what was   *)
(* read may have changed by the time it writes (READ COMMITTED, no row is  *)
(* locked before it is written).                                           *)
(* Sources: apps/api/src/routes organisations.ts, auth.ts, invitations.ts, *)
(* members.ts, groups.ts, delegations.ts, and their repositories.          *)
(***************************************************************************)
EXTENDS Naturals, FiniteSets

CONSTANTS
  Person,       \* who has a users row
  Founder,      \* the platform admin who creates the organisation
  Invitation,   \* rows of invitations
  Group,        \* rows of groups, all created with the same name
  Delegation,   \* rows of delegations
  Client,       \* requests in flight
  MaxRequests,  \* bound: requests in all
  Keep,         \* a column a PATCH does not mention
  None

ASSUME OrganisationAssumption ==
  /\ Founder \in Person /\ IsFiniteSet(Group) /\ MaxRequests \in Nat
  /\ None \notin Person \cup Invitation \cup Group /\ Invitation \cap Group = {}
  /\ Keep \notin {"member", "admin", "owner", "active", "suspended", "removed"}

VARIABLES
  organisation,  \* absent, without any member yet, or founded
  member,        \* organisation_members
  invitation,    \* invitations
  group,         \* groups with their group_members
  delegation,    \* delegations
  session,       \* whose session cookie names this organisation
  request,       \* requests between their reads and their writes
  requests,      \* how many there have been
  grants,        \* history: how often each invitation gave a membership
  loose,         \* history: invitations settled by requests that overlapped
                 \* or stopped half-way
  overlapped     \* history: member changes overlapped, or an invitation
                 \* replaced the role of an owner

organisationVars == <<organisation, member, invitation, group, delegation,
                      session, request, requests, grants, loose, overlapped>>

(* The roles the rules here tell apart: an owner's array holds 'owner', an *)
(* admin's 'admin', and every array 'member'.                              *)
Role == {"member", "admin", "owner"}

Member == [status : {"none", "active", "suspended", "removed"}, role : Role]

(* NULL timestamps are FALSE; expired: expires_at has passed.              *)
InvitationRow == [there : BOOLEAN, email : Person \cup {None}, role : Role,
                  accepted : BOOLEAN, revoked : BOOLEAN, expired : BOOLEAN]

(* key: the suffix after the slug of the name, 0 while there is no row.    *)
GroupRow == [key : 0 .. Cardinality(Group), members : SUBSET Person, used : BOOLEAN]

DelegationRow == [from : Person \cup {None}, to : Person \cup {None}]

Free == [pc |-> "free", person |-> None, id |-> None, role |-> Keep, status |-> Keep, key |-> 0]

OrganisationInit ==
  /\ organisation = "absent"
  /\ member = [p \in Person |-> [status |-> "none", role |-> "member"]]
  /\ invitation = [i \in Invitation |->
       [there |-> FALSE, email |-> None, role |-> "member",
        accepted |-> FALSE, revoked |-> FALSE, expired |-> FALSE]]
  /\ group = [g \in Group |-> [key |-> 0, members |-> {}, used |-> FALSE]]
  /\ delegation = [d \in Delegation |-> [from |-> None, to |-> None]]
  /\ session = {}
  /\ request = [c \in Client |-> Free]
  /\ requests = 0
  /\ grants = [i \in Invitation |-> 0]
  /\ loose = {} /\ overlapped = FALSE

(* findOrganisationMemberByUserId finds a row whatever its status.         *)
HasRow(p) == member[p].status # "none"

(* isAdministrator: the role in the database now, not in the session.      *)
IsAdministrator(p) == p \in session /\ HasRow(p) /\ member[p].role \in {"admin", "owner"}

ActiveOwners == {p \in Person : member[p].status = "active" /\ member[p].role = "owner"}

Start(c, r) ==
  /\ request[c] = Free /\ requests < MaxRequests
  /\ requests' = requests + 1
  /\ request' = [request EXCEPT ![c] = r]

(* A request that is over within one statement.                            *)
AtOnce == requests < MaxRequests /\ requests' = requests + 1 /\ UNCHANGED request

Done(c) == request' = [request EXCEPT ![c] = Free] /\ UNCHANGED requests

----------------------------------------------------------------------------
(* Creating the organisation: its row, then the first owner in another     *)
(* transaction.                                                            *)

CreateOrganisation(c) ==
  /\ organisation = "absent"
  /\ Start(c, [Free EXCEPT !.pc = "found", !.person = Founder])
  /\ organisation' = "unowned"
  /\ UNCHANGED <<member, invitation, group, delegation, session, grants, loose, overlapped>>

FirstOwner(c) ==
  /\ request[c].pc = "found"
  /\ organisation' = "founded"
  /\ member' = [member EXCEPT ![Founder] = [status |-> "active", role |-> "owner"]]
  /\ session' = session \cup {Founder}
  /\ Done(c)
  /\ UNCHANGED <<invitation, group, delegation, grants, loose, overlapped>>

(* The callback puts the organisation into the session of an active        *)
(* member.  A session outlives the membership by up to twelve hours.       *)
SignIn(p) ==
  /\ member[p].status = "active"
  /\ session' = session \cup {p}
  /\ UNCHANGED <<organisation, member, invitation, group, delegation, request,
                 requests, grants, loose, overlapped>>

SessionEnds(p) ==
  /\ p \in session
  /\ session' = session \ {p}
  /\ UNCHANGED <<organisation, member, invitation, group, delegation, request,
                 requests, grants, loose, overlapped>>

----------------------------------------------------------------------------
(* Invitations.                                                            *)

(* uq_invitations_pending does not look at the expiry.                     *)
Outstanding(i) ==
  invitation[i].there /\ ~invitation[i].accepted /\ ~invitation[i].revoked

CreateInvitation(p, i, email, role) ==
  /\ IsAdministrator(p) /\ ~invitation[i].there
  /\ \A j \in Invitation : Outstanding(j) => invitation[j].email # email
  /\ AtOnce
  /\ invitation' = [invitation EXCEPT ![i] =
       [@ EXCEPT !.there = TRUE, !.email = email, !.role = role]]
  /\ UNCHANGED <<organisation, member, group, delegation, session, grants, loose, overlapped>>

(* The one update that looks at accepted_at itself.                        *)
RevokeInvitation(p, i) ==
  /\ IsAdministrator(p) /\ Outstanding(i)
  /\ AtOnce
  /\ invitation' = [invitation EXCEPT ![i].revoked = TRUE]
  /\ loose' = IF \E c \in Client : request[c].id = i THEN loose \cup {i} ELSE loose
  /\ UNCHANGED <<organisation, member, group, delegation, session, grants, overlapped>>

SevenDaysPass(i) ==
  /\ Outstanding(i) /\ ~invitation[i].expired
  /\ \A c \in Client : request[c].id # i
  /\ invitation' = [invitation EXCEPT ![i].expired = TRUE]
  /\ UNCHANGED <<organisation, member, group, delegation, session, request,
                 requests, grants, loose, overlapped>>

(* statusOf = 'pending', and the address is the caller's.                  *)
StartAccept(c, p, i) ==
  /\ Outstanding(i) /\ ~invitation[i].expired /\ invitation[i].email = p
  /\ Start(c, [Free EXCEPT !.pc = "join", !.person = p, !.id = i])
  /\ loose' = IF \E d \in Client : request[d].id = i THEN loose \cup {i} ELSE loose
  /\ UNCHANGED <<organisation, member, invitation, group, delegation, session,
                 grants, overlapped>>

(* An existing row is reactivated and its role replaced; otherwise one is  *)
(* inserted.  Two inserts at once: one fails, as in Stop.                  *)
Join(c) ==
  LET p == request[c].person  i == request[c].id IN
  /\ request[c].pc = "join"
  /\ member' = [member EXCEPT ![p] = [status |-> "active", role |-> invitation[i].role]]
  /\ grants' = [grants EXCEPT ![i] = @ + 1]
  /\ overlapped' = (overlapped \/ (p \in ActiveOwners /\ invitation[i].role # "owner"))
  /\ request' = [request EXCEPT ![c].pc = "mark"] /\ UNCHANGED requests
  /\ UNCHANGED <<organisation, invitation, group, delegation, session, loose>>

(* In a transaction of its own, and by id alone; then the cookie.          *)
MarkInvitationAccepted(c) ==
  /\ request[c].pc = "mark"
  /\ invitation' = [invitation EXCEPT ![request[c].id].accepted = TRUE]
  /\ session' = session \cup {request[c].person}
  /\ Done(c)
  /\ UNCHANGED <<organisation, member, group, delegation, grants, loose, overlapped>>

----------------------------------------------------------------------------
(* Members.                                                                *)

(* A slip: suspensions are not taken for a loss.                           *)
OwnershipUnlessDemoted(p, role, status) ==
  p \in ActiveOwners /\ role \notin {Keep, "owner"} => Cardinality(ActiveOwners) > 1

(* assertOwnershipSurvives, on the roles and status the request read.      *)
AssertOwnershipSurvives(p, role, status) ==
  LET losesOwnerRole    == role \notin {Keep, "owner"}
      losesActiveStatus == status \notin {Keep, "active"}
  IN  p \in ActiveOwners /\ (losesOwnerRole \/ losesActiveStatus) =>
        Cardinality(ActiveOwners) > 1

StartChange(c, actor, p, role, status) ==
  /\ IsAdministrator(actor) /\ HasRow(p)
  /\ AssertOwnershipSurvives(p, role, status)
  /\ Start(c, [Free EXCEPT !.pc = "change", !.person = p, !.role = role, !.status = status])
  /\ overlapped' = (overlapped \/ \E d \in Client : request[d].pc \in {"change", "join"})
  /\ UNCHANGED <<organisation, member, invitation, group, delegation, session,
                 grants, loose>>

(* PATCH: not one's own role; a status of active or suspended.             *)
PatchMember(c, actor, p) ==
  \E role \in Role \cup {Keep}, status \in {"active", "suspended", Keep} :
    /\ <<role, status>> # <<Keep, Keep>>
    /\ actor = p => role = Keep
    /\ StartChange(c, actor, p, role, status)

(* DELETE is a status, not a deletion.                                     *)
RemoveMember(c, actor, p) ==
  actor # p /\ StartChange(c, actor, p, Keep, "removed")

(* A slip: removal deletes the row.                                        *)

DeleteRemoved(c) ==
  LET r == request[c] IN
  /\ r.pc = "change"
  /\ member' = [member EXCEPT
       ![r.person].role = IF r.role = Keep THEN @ ELSE r.role,
       ![r.person].status = IF r.status = "removed" THEN "none"
                            ELSE IF r.status = Keep THEN @ ELSE r.status]
  /\ Done(c)
  /\ UNCHANGED <<organisation, invitation, group, delegation, session, grants,
                 loose, overlapped>>

UpdateOrganisationMember(c) ==
  LET r == request[c] IN
  /\ r.pc = "change"
  /\ member' = [member EXCEPT
       ![r.person].role = IF r.role = Keep THEN @ ELSE r.role,
       ![r.person].status = IF r.status = Keep THEN @ ELSE r.status]
  /\ Done(c)
  /\ UNCHANGED <<organisation, invitation, group, delegation, session, grants,
                 loose, overlapped>>

(* Any request may stop before it writes: a constraint, a lost connection, *)
(* a process that dies.  An acceptance stopped after the membership was    *)
(* committed leaves its invitation pending.                                *)
Stop(c) ==
  /\ request[c] # Free
  /\ Done(c)
  /\ loose' = IF request[c].pc = "mark" THEN loose \cup {request[c].id} ELSE loose
  /\ UNCHANGED <<organisation, member, invitation, group, delegation, session,
                 grants, overlapped>>

----------------------------------------------------------------------------
(* Groups and delegations.                                                 *)

TakenKeys == {group[g].key : g \in Group} \ {0}

Exists(g) == group[g].key # 0

(* allocateGroupKey picks the first key that is free when it looks.        *)
StartGroup(c, actor, g) ==
  /\ IsAdministrator(actor) /\ ~Exists(g)
  /\ \A d \in Client : request[d].id # g
  /\ \E k \in 1 .. Cardinality(Group) :
       /\ k \notin TakenKeys /\ \A l \in 1 .. (k - 1) : l \in TakenKeys
       /\ Start(c, [Free EXCEPT !.pc = "group", !.id = g, !.key = k])
  /\ UNCHANGED <<organisation, member, invitation, group, delegation, session,
                 grants, loose, overlapped>>

(* UNIQUE (organisation_id, key) decides; the loser gets an error (Stop).  *)
CreateGroup(c) ==
  LET r == request[c] IN
  /\ r.pc = "group" /\ r.key \notin TakenKeys
  /\ group' = [group EXCEPT ![r.id].key = r.key]
  /\ Done(c)
  /\ UNCHANGED <<organisation, member, invitation, delegation, session, grants,
                 loose, overlapped>>

(* A definition names the group as its owner, or a task is assigned to it. *)
Reference(g) ==
  /\ Exists(g) /\ AtOnce
  /\ group' = [group EXCEPT ![g].used = TRUE]
  /\ UNCHANGED <<organisation, member, invitation, delegation, session, grants,
                 loose, overlapped>>

(* RESTRICT refuses while referenced; group_members goes with the group.   *)
DeleteGroup(actor, g) ==
  /\ IsAdministrator(actor) /\ Exists(g) /\ ~group[g].used
  /\ AtOnce
  /\ group' = [group EXCEPT ![g] = [key |-> 0, members |-> {}, used |-> FALSE]]
  /\ UNCHANGED <<organisation, member, invitation, delegation, session, grants,
                 loose, overlapped>>

EnsureGroupMember(actor, g, p) ==
  /\ IsAdministrator(actor) /\ Exists(g) /\ HasRow(p)
  /\ AtOnce
  /\ group' = [group EXCEPT ![g].members = @ \cup {p}]
  /\ UNCHANGED <<organisation, member, invitation, delegation, session, grants,
                 loose, overlapped>>

RemoveGroupMember(actor, g, p) ==
  /\ IsAdministrator(actor) /\ p \in group[g].members
  /\ AtOnce
  /\ group' = [group EXCEPT ![g].members = @ \ {p}]
  /\ UNCHANGED <<organisation, member, invitation, delegation, session, grants,
                 loose, overlapped>>

(* The delegate has to be a member, of any status, and somebody else.      *)
CreateDelegation(from, to, d) ==
  /\ from \in session /\ from # to /\ HasRow(to)
  /\ delegation[d].from = None
  /\ AtOnce
  /\ delegation' = [delegation EXCEPT ![d] = [from |-> from, to |-> to]]
  /\ UNCHANGED <<organisation, member, invitation, group, session, grants,
                 loose, overlapped>>

DeleteDelegation(actor, d) ==
  /\ delegation[d].from # None /\ actor \in session
  /\ actor = delegation[d].from \/ IsAdministrator(actor)
  /\ AtOnce
  /\ delegation' = [delegation EXCEPT ![d] = [from |-> None, to |-> None]]
  /\ UNCHANGED <<organisation, member, invitation, group, session, grants,
                 loose, overlapped>>

----------------------------------------------------------------------------

ClientStep(c) ==
  \/ CreateOrganisation(c) \/ FirstOwner(c)
  \/ \E p \in Person, i \in Invitation : StartAccept(c, p, i)
  \/ Join(c) \/ MarkInvitationAccepted(c)
  \/ \E actor, p \in Person : PatchMember(c, actor, p) \/ RemoveMember(c, actor, p)
  \/ UpdateOrganisationMember(c)
  \/ \E actor \in Person, g \in Group : StartGroup(c, actor, g)
  \/ CreateGroup(c) \/ Stop(c)

OrganisationNext ==
  \/ \E c \in Client : ClientStep(c)
  \/ \E p \in Person : SignIn(p) \/ SessionEnds(p)
  \/ \E p, email \in Person, i \in Invitation, role \in Role : CreateInvitation(p, i, email, role)
  \/ \E p \in Person, i \in Invitation : RevokeInvitation(p, i)
  \/ \E i \in Invitation : SevenDaysPass(i)
  \/ \E g \in Group : Reference(g)
  \/ \E actor \in Person, g \in Group : DeleteGroup(actor, g)
  \/ \E actor, p \in Person, g \in Group :
       EnsureGroupMember(actor, g, p) \/ RemoveGroupMember(actor, g, p)
  \/ \E p, to \in Person, d \in Delegation : CreateDelegation(p, to, d)
  \/ \E p \in Person, d \in Delegation : DeleteDelegation(p, d)

OrganisationSpec == OrganisationInit /\ [][OrganisationNext]_organisationVars

----------------------------------------------------------------------------

(* Rows, sessions and requests are of the kinds the schema allows.         *)
TypeOK ==
  /\ organisation \in {"absent", "unowned", "founded"}
  /\ member \in [Person -> Member]
  /\ invitation \in [Invitation -> InvitationRow]
  /\ group \in [Group -> GroupRow]
  /\ delegation \in [Delegation -> DelegationRow]
  /\ session \subseteq Person
  /\ requests \in 0 .. MaxRequests
  /\ grants \in [Invitation -> Nat] /\ loose \subseteq Invitation
  /\ overlapped \in BOOLEAN
  /\ \A c \in Client :
       request[c].pc \in {"free", "found", "join", "mark", "change", "group"}

(* "An organisation must keep at least one active owner."                  *)
OwnerRemains == organisation = "founded" => ActiveOwners # {}

(* One change of members after the other, an owner remains: whoever is     *)
(* demoted, suspended, removed or suspends themselves.                     *)
SerialChangesKeepAnOwner == OwnerRemains \/ overlapped

(* An invitation gives its role once, and is accepted or withdrawn but not *)
(* both, unless the requests that settled it overlapped or one stopped     *)
(* between granting the membership and recording the acceptance.           *)
InvitationsAreUsedOnce ==
  \A i \in Invitation \ loose :
    /\ grants[i] <= 1
    /\ ~(invitation[i].accepted /\ invitation[i].revoked)
    /\ invitation[i].revoked => grants[i] = 0

(* Whoever a group or a delegation names still has a membership row, even  *)
(* if removed since, and so has whoever holds a session.                   *)
ReferencesSurvive ==
  /\ \A g \in Group : \A p \in group[g].members : HasRow(p)
  /\ \A d \in Delegation : delegation[d].to # None => HasRow(delegation[d].to)
  /\ \A p \in session : HasRow(p)

(* A key names one group, whoever creates groups of one name at the same   *)
(* time: published documents name their groups by key.                     *)
KeysNameOneGroup ==
  \A g, h \in Group : Exists(g) /\ group[g].key = group[h].key => g = h
(* The invariant of every request, alone or overlapping: rows are of their *)
(* kinds, nobody whom a group, a delegation or a session names is without  *)
(* a membership row, and a group's key is its own.                         *)
OrganisationInv ==
  TypeOK /\ InvitationsAreUsedOnce /\ ReferencesSurvive /\ KeysNameOneGroup
=============================================================================
