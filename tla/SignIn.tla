-------------------------------- MODULE SignIn --------------------------------
(***************************************************************************)
(* Signing in: the round trip through the identity provider, which leaves  *)
(* one cookie per browser for all its tabs; the user row of a first visit; *)
(* the session and the organisation it names; identity providers of        *)
(* organisations; and the sign-in of a development machine with what it    *)
(* seeds.  A handler reads the cookies its request came with; what it sets *)
(* or clears reaches the browser with its answer.                          *)
(* Sources: apps/api routes auth.ts, identity-providers.ts, seed/          *)
(* laptop-request.ts, auth/, middleware/require-session.ts, and their      *)
(* repositories.                                                           *)
(***************************************************************************)
EXTENDS Naturals, Sequences, FiniteSets

CONSTANTS
  Account,      \* accounts at the platform's identity provider
  Profile(_),   \* of an account: [email, domain, verified], from its token
  Domain,       \* email domains
  Browser,
  Tenancy,      \* organisations
  MaxAttempts,  \* bound: sign-ins begun
  MaxChanges,   \* bound: changes of memberships and providers
  Nothing

(* Who the development sign-in signs in, and to which organisation.        *)
DevAccount == {"dev user", "manager"}
DevOrganisation == "orgflow-dev"

(* The claims of a session: a row of users, if it has one, the account and *)
(* the organisation it is for.                                             *)
Claims == [user : Nat, account : Account \cup DevAccount,
           organisation : Tenancy \cup {DevOrganisation, Nothing}]

ASSUME SignInAssumption ==
  /\ Nothing \notin Account /\ Nothing \notin Browser /\ Nothing \notin Claims
  /\ MaxAttempts \in Nat /\ Nothing \notin 1 .. MaxAttempts
  /\ Account \cap DevAccount = {}

VARIABLES
  isLocal,    \* ORGFLOW_ENV=local, where the development sign-in is; the
              \* platform's provider is taken to be configured elsewhere only
  provider,   \* identity_providers: at most one for each organisation here
  user,       \* users with their one user_identities row, in order of creation
  belongs,    \* active organisation_members: account -> organisations
  flowCookie, \* orgflow_oidc_flow: browser -> attempt
  signedIn,   \* orgflow_session: browser -> its claims
  attempt,    \* sign-ins through the identity provider, each in a tab
  accepting,  \* browser -> the claims an accepted invitation answers with
  seed,       \* what the development sign-in has put into the database
  seeding,    \* browser -> where its development sign-in is
  changes,    \* how many there were
  belonged    \* history: every membership there was

signInVars == <<isLocal, provider, user, belongs, flowCookie, signedIn, attempt,
                accepting, seed, seeding, changes, belonged>>

database == <<provider, user, belongs, belonged>>
roundTrips == <<flowCookie, attempt>>
development == <<isLocal, seed, seeding>>

Attempt == 1 .. MaxAttempts

Unused == [pc |-> "unused", browser |-> Nothing, domain |-> Nothing,
           account |-> Nothing, claims |-> Nothing]

(* The development sign-in finds or creates these, in this order, each in  *)
(* a statement or a transaction of its own; the last is one transaction    *)
(* with group, definition, document, version and publication.              *)
Seeded == <<"user", "organisation", "ownership", "manager", "membership", "process">>

SignInInit ==
  /\ isLocal \in BOOLEAN
  /\ provider = [o \in Tenancy |-> Nothing]
  /\ user = <<>>
  /\ belongs = [a \in Account |-> {}]
  /\ flowCookie = [b \in Browser |-> Nothing]
  /\ signedIn = [b \in Browser |-> Nothing]
  /\ attempt = [n \in Attempt |-> Unused]
  /\ accepting = [b \in Browser |-> Nothing]
  /\ seed = {}
  /\ seeding = [b \in Browser |-> 0]
  /\ changes = 0 /\ belonged = {}

----------------------------------------------------------------------------
(* Providers.                                                              *)

Provider == [enabled : BOOLEAN, domains : SUBSET Domain \ {{}}]

Change == changes < MaxChanges /\ changes' = changes + 1

ProviderChange(o, row) ==
  /\ ~isLocal /\ Change
  /\ provider' = [provider EXCEPT ![o] = row]
  /\ UNCHANGED <<roundTrips, development, user, belongs, signedIn, accepting, belonged>>

CreateIdentityProvider(o) ==
  /\ provider[o] = Nothing
  /\ \E row \in Provider : row.enabled /\ ProviderChange(o, row)

UpdateIdentityProvider(o) ==
  /\ provider[o] # Nothing
  /\ \E row \in Provider : ProviderChange(o, row)

DeleteIdentityProvider(o) == provider[o] # Nothing /\ ProviderChange(o, Nothing)

FindIdentityProviderByEmailDomain(d) ==
  {o \in Tenancy : provider[o] # Nothing /\ provider[o].enabled /\ d \in provider[o].domains}

(* An organisation's own provider has no secret here, so only the          *)
(* platform's can complete a sign-in.                                      *)
PlatformProvides(d) == ~isLocal /\ FindIdentityProviderByEmailDomain(d) = {}

----------------------------------------------------------------------------
(* The round trip.                                                         *)

Step(n, r) == attempt' = [attempt EXCEPT ![n] = r]

(* GET /auth/login: the cookie replaces that of another tab.               *)
Login(n, b, d) ==
  /\ attempt[n].pc = "unused" /\ \A m \in 1 .. (n - 1) : attempt[m].pc # "unused"
  /\ PlatformProvides(d)
  /\ flowCookie' = [flowCookie EXCEPT ![b] = n]
  /\ Step(n, [Unused EXCEPT !.pc = "away", !.browser = b, !.domain = d])
  /\ UNCHANGED <<database, development, signedIn, accepting, changes>>

(* Ten minutes pass.                                                       *)
FlowExpires(b) ==
  /\ flowCookie[b] # Nothing
  /\ flowCookie' = [flowCookie EXCEPT ![b] = Nothing]
  /\ UNCHANGED <<database, development, signedIn, attempt, accepting, changes>>

(* A slip: whose domain it is, is left to the identity provider, which was *)
(* only hinted at it.                                                      *)
AcceptsVerified(n, a) == flowCookie[attempt[n].browser] = n /\ Profile(a).verified

(* The state in the address is that of the cookie, the email is verified   *)
(* and the account is of the domain that was entered.                      *)
Accepts(n, a) ==
  /\ flowCookie[attempt[n].browser] = n
  /\ Profile(a).verified
  /\ Profile(a).domain = attempt[flowCookie[attempt[n].browser]].domain

(* GET /auth/callback with whichever account was chosen at the provider;   *)
(* without the cookie nothing is cleared either.                           *)
Callback(n, a) ==
  /\ attempt[n].pc = "away"
  /\ Step(n, CASE flowCookie[attempt[n].browser] = Nothing -> [attempt[n] EXCEPT !.pc = "over"]
               [] Accepts(n, a) -> [attempt[n] EXCEPT !.pc = "find", !.account = a]
               [] flowCookie[attempt[n].browser] # Nothing /\ ~Accepts(n, a)
                  -> [attempt[n] EXCEPT !.pc = "fail"])
  /\ UNCHANGED <<database, development, flowCookie, signedIn, accepting, changes>>

RowOf(a) == {i \in DOMAIN user : user[i].account = a}

FindUserByIdentity(n) ==
  /\ attempt[n].pc = "find"
  /\ Step(n, IF RowOf(attempt[n].account) = {}
             THEN [attempt[n] EXCEPT !.pc = "create"]
             ELSE [attempt[n] EXCEPT !.pc = "member"])
  /\ UNCHANGED <<database, development, flowCookie, signedIn, accepting, changes>>

(* users is unique by email, user_identities by issuer and subject: of two *)
(* first visits one fails, and so does an account given the email of an    *)
(* earlier one.                                                            *)
IsNew(a) == \A i \in DOMAIN user : user[i].account # a /\ user[i].email # Profile(a).email

CreateUserWithIdentity(n) ==
  LET a == attempt[n].account IN
  /\ attempt[n].pc = "create"
  /\ IF IsNew(a)
     THEN /\ user' = Append(user, [account |-> a, email |-> Profile(a).email])
          /\ Step(n, [attempt[n] EXCEPT !.pc = "member"])
     ELSE /\ UNCHANGED user
          /\ Step(n, [attempt[n] EXCEPT !.pc = "fail"])
  /\ UNCHANGED <<development, provider, belongs, flowCookie, signedIn, accepting, changes, belonged>>

(* The session's organisation is the one the user is an active member of,  *)
(* if it is the only one.                                                  *)
FindMembershipsForUser(n) ==
  LET a == attempt[n].account IN
  /\ attempt[n].pc = "member"
  /\ Step(n, [attempt[n] EXCEPT !.pc = "answer",
                !.claims = [user |-> CHOOSE i \in RowOf(a) : TRUE, account |-> a,
                            organisation |-> IF Cardinality(belongs[a]) = 1
                                             THEN CHOOSE o \in belongs[a] : TRUE
                                             ELSE Nothing]])
  /\ UNCHANGED <<database, development, flowCookie, signedIn, accepting, changes>>

Answer(n) ==
  /\ attempt[n].pc \in {"answer", "fail"}
  /\ flowCookie' = [flowCookie EXCEPT ![attempt[n].browser] = Nothing]
  /\ IF attempt[n].pc = "answer"
     THEN signedIn' = [signedIn EXCEPT ![attempt[n].browser] = attempt[n].claims]
     ELSE UNCHANGED signedIn
  /\ Step(n, [Unused EXCEPT !.pc = "over", !.browser = attempt[n].browser, !.domain = attempt[n].domain])
  /\ UNCHANGED <<database, development, accepting, changes>>

----------------------------------------------------------------------------
(* Sessions.                                                               *)

(* Members come and go, by no doing of this browser (see Organisation).    *)
MembershipChanges(a, o) ==
  /\ Change /\ RowOf(a) # {}
  /\ \/ o \in belongs[a] /\ belongs' = [belongs EXCEPT ![a] = @ \ {o}] /\ UNCHANGED belonged
     \/ /\ o \notin belongs[a] /\ belongs' = [belongs EXCEPT ![a] = @ \cup {o}]
        /\ belonged' = belonged \cup {<<a, o>>}
  /\ UNCHANGED <<roundTrips, development, provider, user, signedIn, accepting>>

(* requireUserSession: an invitation may be accepted with any session of a *)
(* user; the answer carries another.                                       *)
AcceptInvitation(b, o) ==
  /\ signedIn[b] # Nothing /\ signedIn[b].account \in Account
  /\ accepting[b] = Nothing /\ Change
  /\ belongs' = [belongs EXCEPT ![signedIn[b].account] = @ \cup {o}]
  /\ belonged' = belonged \cup {<<signedIn[b].account, o>>}
  /\ accepting' = [accepting EXCEPT ![b] = [signedIn[b] EXCEPT !.organisation = o]]
  /\ UNCHANGED <<roundTrips, development, provider, user, signedIn>>

InvitationAnswered(b) ==
  /\ accepting[b] # Nothing
  /\ signedIn' = [signedIn EXCEPT ![b] = accepting[b]]
  /\ accepting' = [accepting EXCEPT ![b] = Nothing]
  /\ UNCHANGED <<database, roundTrips, development, changes>>

(* Logging out clears the cookie of this browser; so do twelve hours.      *)
Logout(b) ==
  /\ signedIn[b] # Nothing
  /\ signedIn' = [signedIn EXCEPT ![b] = Nothing]
  /\ UNCHANGED <<database, roundTrips, development, accepting, changes>>

----------------------------------------------------------------------------
(* POST /auth/dev-login, on a development machine only.                    *)

DevLogin(b) ==
  /\ isLocal /\ seeding[b] = 0 /\ Change
  /\ seeding' = [seeding EXCEPT ![b] = 1]
  /\ UNCHANGED <<database, roundTrips, isLocal, signedIn, accepting, seed>>

(* An odd number is before the look, an even one before the insertion that *)
(* it showed to be needed; another sign-in may be quicker and win the      *)
(* UNIQUE constraint, and this one is then answered with an error.         *)
ThingOf(i) == Seeded[(i + 1) \div 2]

Look(b) ==
  LET i == seeding[b] IN
  /\ i # 0 /\ i <= 2 * Len(Seeded) /\ i % 2 = 1
  /\ seeding' = [seeding EXCEPT ![b] = IF ThingOf(i) \in seed THEN i + 2 ELSE i + 1]
  /\ UNCHANGED <<database, roundTrips, isLocal, signedIn, accepting, seed, changes>>

Insert(b) ==
  LET i == seeding[b] IN
  /\ i # 0 /\ i % 2 = 0
  /\ IF ThingOf(i) \in seed
     THEN seeding' = [seeding EXCEPT ![b] = 0] /\ UNCHANGED seed
     ELSE seeding' = [seeding EXCEPT ![b] = i + 1] /\ seed' = seed \cup {ThingOf(i)}
  /\ UNCHANGED <<database, roundTrips, isLocal, signedIn, accepting, changes>>

DevAnswer(b) ==
  /\ seeding[b] = 2 * Len(Seeded) + 1
  /\ \E who \in DevAccount :
       signedIn' = [signedIn EXCEPT ![b] = [user |-> 0, account |-> who, organisation |-> DevOrganisation]]
  /\ seeding' = [seeding EXCEPT ![b] = 0]
  /\ UNCHANGED <<database, roundTrips, isLocal, accepting, seed, changes>>

(* The process dies, or a database does not answer.                        *)
DevFails(b) ==
  /\ seeding[b] # 0
  /\ seeding' = [seeding EXCEPT ![b] = 0]
  /\ UNCHANGED <<database, roundTrips, isLocal, signedIn, accepting, seed, changes>>

----------------------------------------------------------------------------

SignInNext ==
  \/ \E o \in Tenancy :
       CreateIdentityProvider(o) \/ UpdateIdentityProvider(o) \/ DeleteIdentityProvider(o)
  \/ \E n \in Attempt :
       \/ \E b \in Browser, d \in Domain : Login(n, b, d)
       \/ \E a \in Account : Callback(n, a)
       \/ FindUserByIdentity(n) \/ CreateUserWithIdentity(n) \/ FindMembershipsForUser(n) \/ Answer(n)
  \/ \E a \in Account, o \in Tenancy : MembershipChanges(a, o)
  \/ \E b \in Browser :
       \/ FlowExpires(b) \/ InvitationAnswered(b) \/ Logout(b)
       \/ \E o \in Tenancy : AcceptInvitation(b, o)
       \/ DevLogin(b) \/ Look(b) \/ Insert(b) \/ DevAnswer(b) \/ DevFails(b)

SignInSpec == SignInInit /\ [][SignInNext]_signInVars

----------------------------------------------------------------------------

Sessions == {signedIn[b] : b \in Browser} \ {Nothing}

(* However first visits overlap, one account is one user, and one user's   *)
(* email is nobody else's.                                                 *)
OneUserPerAccount ==
  /\ \A i, j \in DOMAIN user :
       user[i].account = user[j].account \/ user[i].email = user[j].email => i = j
  /\ \A s \in Sessions : s.account \in Account => user[s.user].account = s.account

(* Whoever a browser is signed in as entered an email of their account's   *)
(* domain in this very browser, whatever other tabs were up to, and the    *)
(* account's email is verified.                                            *)
SessionsAreEarned ==
  \A b \in Browser :
    signedIn[b] # Nothing /\ signedIn[b].account \in Account =>
      /\ Profile(signedIn[b].account).verified
      /\ \E n \in Attempt : /\ attempt[n].browser = b
                            /\ attempt[n].domain = Profile(signedIn[b].account).domain

(* A session names no organisation its user never belonged to.             *)
SessionsNameAMembership ==
  \A s \in Sessions :
    s.account \in Account => s.organisation = Nothing \/ <<s.account, s.organisation>> \in belonged

(* A development session finds all that the journeys need, though sign-ins *)
(* raced or were cut short in between; and each thing follows those it     *)
(* refers to.                                                              *)
SeedIsWhole ==
  /\ \A i \in DOMAIN Seeded : Seeded[i] \in seed => \A j \in 1 .. i : Seeded[j] \in seed
  /\ \A s \in Sessions : s.account \notin Account => seed = {Seeded[i] : i \in DOMAIN Seeded}

(* What a session says is true of whoever holds it.                        *)
SignInInv == OneUserPerAccount /\ SessionsAreEarned /\ SessionsNameAMembership /\ SeedIsWhole
=============================================================================
