------------------------------ MODULE Accounts ------------------------------
(***************************************************************************)
(* Who a caller is (core/internal/identity) and the organisation a new     *)
(* caller makes (core/internal/tenancy). A sign-in is two requests with    *)
(* the provider in between: /start writes an auth_flows row and a cookie   *)
(* naming it, /callback takes the row away again, finds or makes the       *)
(* account, and issues a session. A browser may have several of these in   *)
(* flight, in several tabs, and the answers arrive in any order.           *)
(*                                                                         *)
(* Every InSystemTx and InTx is a transaction at READ COMMITTED; the one   *)
(* transaction whose statements are told apart is resolveOrProvision's.    *)
(***************************************************************************)
EXTENDS Integers, Sequences

CONSTANTS
  Browsers,
  Requests,          \* requests the server handles at one time
  Claims,            \* what the provider may assert: [subject, email, verified]
  NoEmail,           \* users.email IS NULL
  None,              \* no browser, no claim
  FlowLifetime,      \* Config.AuthFlowLifetime
  SessionLifetime,   \* Config.SessionLifetime
  SessionRetention,  \* Config.SessionRetention
  MaxTime,           \* bound: the clock
  MaxFlows,          \* bound: sign-ins started
  MaxOrganisations   \* bound: organisations made

ASSUME ClaimsAssumption ==
  /\ \A c \in Claims : DOMAIN c = {"subject", "email", "verified"} /\ c.verified \in BOOLEAN
  /\ None \notin Claims /\ None \notin Browsers

ASSUME LifetimesAssumption ==
  /\ FlowLifetime \in Nat /\ SessionLifetime \in Nat /\ SessionRetention \in Nat
  /\ MaxTime \in Nat /\ MaxFlows \in Nat /\ MaxOrganisations \in Nat

VARIABLES
  now,          \* the clock
  flows,        \* auth_flows
  users,        \* users, in the order they were committed: their address
  identities,   \* user_identities: the account of each known subject
  sessions,     \* sessions
  orgs,         \* organizations with the owner's membership of each
  jar,          \* each browser's two cookies, 0 for none
  req,          \* the requests being handled
  asked,        \* the flows whose browser has been sent on to the provider
  origin,       \* history: the browser each flow was started in
  issued        \* history: the sign-in each session token was issued to

tables == <<flows, users, identities, sessions, orgs>>
history == <<origin, issued>>
vars == <<now, tables, jar, req, asked, history>>

-----------------------------------------------------------------------------
Subjects == {c.subject : c \in Claims}
Emails == {c.email : c \in Claims} \cup {NoEmail}

(* A handler's place, the request's own data, and what it has looked up. *)
Idle ==
  [pc |-> "idle", browser |-> None, flow |-> 0, cookie |-> 0, claim |-> None,
   user |-> 0, token |-> 0, base |-> {}]

Places ==
  {"idle", "started", "consume", "find", "insert", "bind", "session",
   "welcome", "refused", "revoke", "signedOut", "create"}

Free(r) == req[r].pc = "idle"
Goto(r, p) == req' = [req EXCEPT ![r].pc = p]
Done(r) == req' = [req EXCEPT ![r] = Idle]
Answer(r, p) == req' = [req EXCEPT ![r] = [Idle EXCEPT !.pc = p, !.browser = req[r].browser]]

(* auth_flows and sessions rows that a query's expires_at > now() admits. *)
Pending(f) == {x \in flows : x.id = f /\ x.expires > now}
Live(t) == {s \in sessions : s.token = t /\ ~s.revoked /\ s.expires > now}

MembershipsForUser(u) == {o \in DOMAIN orgs : orgs[o].owner = u}

Init ==
  /\ now = 0
  /\ flows = {} /\ users = <<>> /\ identities = <<>> /\ sessions = {} /\ orgs = <<>>
  /\ jar = [b \in Browsers |-> [flow |-> 0, session |-> 0]]
  /\ req = [r \in Requests |-> Idle]
  /\ asked = {}
  /\ origin = <<>> /\ issued = <<>>

-----------------------------------------------------------------------------
(* handleStart: the flow is committed, then the answer sets the cookie and *)
(* sends the browser on.                                                   *)

Start(r, b) ==
  /\ Free(r)
  /\ Len(origin) < MaxFlows
  /\ flows' = flows \cup {[id |-> Len(origin) + 1, expires |-> now + FlowLifetime]}
  /\ origin' = Append(origin, b)
  /\ req' = [req EXCEPT ![r] = [Idle EXCEPT !.pc = "started", !.browser = b, !.flow = Len(origin) + 1]]
  /\ UNCHANGED <<now, users, identities, sessions, orgs, jar, asked, issued>>

StartAnswered(r) ==
  /\ req[r].pc = "started"
  /\ jar' = [jar EXCEPT ![req[r].browser].flow = req[r].flow]
  /\ asked' = asked \cup {req[r].flow}
  /\ Done(r)
  /\ UNCHANGED <<now, tables, history>>

-----------------------------------------------------------------------------
(* handleCallback. The provider's redirect names the flow by its state and *)
(* carries a code for whoever consented, or none. It is opened in the      *)
(* browser that followed it, again on a reload, or in another browser. One *)
(* without a flow cookie is refused before anything is read.               *)

Callback(r, b, f) ==
  /\ Free(r)
  /\ f \in asked
  /\ jar[b].flow # 0
  /\ req' = [req EXCEPT ![r] = [Idle EXCEPT !.pc = "consume", !.browser = b, !.flow = f,
                                             !.cookie = jar[b].flow]]
  /\ UNCHANGED <<now, tables, jar, asked, history>>

\* Mutant: the flow's id is not compared with the cookie.
StartedHereUnchecked(r) == TRUE

(* The flow that was consumed is the one this browser's cookie names. *)
StartedHere(r) == req[r].flow = req[r].cookie

(* The redirect carried a code, the exchange verified, and the address is  *)
(* a verified one. An exchange that fails is among Fails.                  *)
Exchange(c) == c # None /\ c.verified

\* Mutant: the flow is read and only the expiry job deletes it.
ConsumeReads(r, c) ==
  /\ req[r].pc = "consume"
  /\ flows' = flows
  /\ IF Pending(req[r].flow) # {} /\ StartedHere(r) /\ Exchange(c)
     THEN req' = [req EXCEPT ![r].pc = "find", ![r].cookie = 0, ![r].claim = c]
     ELSE Answer(r, "refused")
  /\ UNCHANGED <<now, users, identities, sessions, orgs, jar, asked, history>>

(* ConsumeAuthFlow deletes the row whichever way the checks after it go.   *)
(* c is what the code in the address turns out to stand for.               *)
Consume(r, c) ==
  /\ req[r].pc = "consume"
  /\ flows' = flows \ Pending(req[r].flow)
  /\ IF Pending(req[r].flow) # {} /\ StartedHere(r) /\ Exchange(c)
     THEN req' = [req EXCEPT ![r].pc = "find", ![r].cookie = 0, ![r].claim = c]
     ELSE Answer(r, "refused")
  /\ UNCHANGED <<now, users, identities, sessions, orgs, jar, asked, history>>

-----------------------------------------------------------------------------
(* resolveOrProvision, one transaction: FindIdentity, and for an unknown   *)
(* subject InsertUser and InsertIdentity.                                  *)

FindIdentity(r) ==
  /\ req[r].pc = "find"
  /\ req' = IF req[r].claim.subject \in DOMAIN identities
            THEN [req EXCEPT ![r].pc = "session", ![r].user = identities[req[r].claim.subject]]
            ELSE [req EXCEPT ![r].pc = "insert"]
  /\ UNCHANGED <<now, tables, jar, asked, history>>

SameAddress(r, q) == req[q].claim.email = req[r].claim.email /\ req[r].claim.email # NoEmail

(* users_email_key: the insert waits for another transaction's uncommitted *)
(* row of one address; NULLs are distinct.                                 *)
AddressAwaited(r) == \E q \in Requests \ {r} : req[q].pc = "bind" /\ SameAddress(r, q)
AddressTaken(r) == req[r].claim.email # NoEmail /\ \E u \in DOMAIN users : users[u] = req[r].claim.email

\* Mutant: the account is committed before its identity is inserted.
InsertUserCommits(r) ==
  /\ req[r].pc = "insert"
  /\ ~AddressAwaited(r)
  /\ IF AddressTaken(r) THEN Answer(r, "refused") ELSE Goto(r, "bind")
  /\ users' = IF AddressTaken(r) THEN users ELSE Append(users, req[r].claim.email)
  /\ UNCHANGED <<now, flows, identities, sessions, orgs, jar, asked, history>>

InsertUser(r) ==
  /\ req[r].pc = "insert"
  /\ ~AddressAwaited(r)
  /\ IF AddressTaken(r) THEN Answer(r, "refused") ELSE Goto(r, "bind")
  /\ UNCHANGED <<now, tables, jar, asked, history>>

(* InsertIdentity and the commit. A second first sign-in of the subject    *)
(* meets the primary key, and its account is rolled back.                  *)
Bind(r) ==
  /\ req[r].pc = "bind"
  /\ req[r].claim.subject \notin DOMAIN identities
  /\ users' = Append(users, req[r].claim.email)
  /\ identities' = [s \in DOMAIN identities \cup {req[r].claim.subject} |->
                      IF s \in DOMAIN identities THEN identities[s] ELSE Len(users) + 1]
  /\ req' = [req EXCEPT ![r].pc = "session", ![r].user = Len(users) + 1]
  /\ UNCHANGED <<now, flows, sessions, orgs, jar, asked, history>>

BindRefused(r) ==
  /\ req[r].pc = "bind"
  /\ req[r].claim.subject \in DOMAIN identities
  /\ Answer(r, "refused")
  /\ UNCHANGED <<now, tables, jar, asked, history>>

-----------------------------------------------------------------------------
(* createSession, in a transaction of its own, and the answers. *)

\* Mutant: the account is not carried over to the session.
CreateSessionUnowned(r) ==
  /\ req[r].pc = "session"
  /\ sessions' = sessions \cup {[token |-> Len(issued) + 1, user |-> 0,
                                 expires |-> now + SessionLifetime, revoked |-> FALSE]}
  /\ issued' = Append(issued, [flow |-> req[r].flow, browser |-> req[r].browser,
                               subject |-> req[r].claim.subject, user |-> req[r].user])
  /\ req' = [req EXCEPT ![r] = [Idle EXCEPT !.pc = "welcome", !.browser = req[r].browser,
                                             !.token = Len(issued) + 1]]
  /\ UNCHANGED <<now, flows, users, identities, orgs, jar, asked, origin>>

CreateSession(r) ==
  /\ req[r].pc = "session"
  /\ sessions' = sessions \cup {[token |-> Len(issued) + 1, user |-> req[r].user,
                                 expires |-> now + SessionLifetime, revoked |-> FALSE]}
  /\ issued' = Append(issued, [flow |-> req[r].flow, browser |-> req[r].browser,
                               subject |-> req[r].claim.subject, user |-> req[r].user])
  /\ req' = [req EXCEPT ![r] = [Idle EXCEPT !.pc = "welcome", !.browser = req[r].browser,
                                             !.token = Len(issued) + 1]]
  /\ UNCHANGED <<now, flows, users, identities, orgs, jar, asked, origin>>

Welcome(r) ==
  /\ req[r].pc = "welcome"
  /\ jar' = [jar EXCEPT ![req[r].browser] = [flow |-> 0, session |-> req[r].token]]
  /\ Done(r)
  /\ UNCHANGED <<now, tables, asked, history>>

(* clearCookie goes out with a refusal too, whatever flow the cookie names *)
(* by the time it arrives.                                                 *)
Refused(r) ==
  /\ req[r].pc = "refused"
  /\ jar' = [jar EXCEPT ![req[r].browser].flow = 0]
  /\ Done(r)
  /\ UNCHANGED <<now, tables, asked, history>>

(* The database or the provider fails: the open transaction is rolled back *)
(* and the callback refused.                                               *)
Fails(r) ==
  /\ req[r].pc \in {"consume", "find", "insert", "bind", "session"}
  /\ Answer(r, "refused")
  /\ UNCHANGED <<now, tables, jar, asked, history>>

(* An answer that never reaches the browser. *)
Lost(r) ==
  /\ req[r].pc \in {"started", "welcome", "refused", "signedOut"}
  /\ Done(r)
  /\ UNCHANGED <<now, tables, jar, asked, history>>

-----------------------------------------------------------------------------
(* handleLogout *)

Logout(r, b) ==
  /\ Free(r)
  /\ jar[b].session # 0
  /\ req' = [req EXCEPT ![r] = [Idle EXCEPT !.pc = "revoke", !.browser = b, !.token = jar[b].session]]
  /\ UNCHANGED <<now, tables, jar, asked, history>>

\* Mutant: every session of the person is revoked, not the cookie's own.
RevokeAll(r) ==
  /\ req[r].pc = "revoke"
  /\ sessions' = {IF s.user = issued[req[r].token].user THEN [s EXCEPT !.revoked = TRUE] ELSE s : s \in sessions}
  /\ Answer(r, "signedOut")
  /\ UNCHANGED <<now, flows, users, identities, orgs, jar, asked, history>>

Revoke(r) ==
  /\ req[r].pc = "revoke"
  /\ sessions' = {IF s.token = req[r].token THEN [s EXCEPT !.revoked = TRUE] ELSE s : s \in sessions}
  /\ Answer(r, "signedOut")
  /\ UNCHANGED <<now, flows, users, identities, orgs, jar, asked, history>>

(* An error of revoke is logged, and the cookie is cleared all the same. *)
RevokeFails(r) ==
  /\ req[r].pc = "revoke"
  /\ Answer(r, "signedOut")
  /\ UNCHANGED <<now, tables, jar, asked, history>>

SignedOut(r) ==
  /\ req[r].pc = "signedOut"
  /\ jar' = [jar EXCEPT ![req[r].browser].session = 0]
  /\ Done(r)
  /\ UNCHANGED <<now, tables, asked, history>>

-----------------------------------------------------------------------------
(* identity.expire, the hourly sweep, and the clock. *)

ExpiredSessions == {s \in sessions : s.expires < now - SessionRetention}
ExpiredFlows == {x \in flows : x.expires < now}

Expire ==
  /\ ExpiredSessions # {} \/ ExpiredFlows # {}
  /\ flows' = flows \ ExpiredFlows
  /\ sessions' = sessions \ ExpiredSessions
  /\ UNCHANGED <<now, users, identities, orgs, jar, req, asked, history>>

Tick ==
  /\ now < MaxTime
  /\ now' = now + 1
  /\ UNCHANGED <<tables, jar, req, asked, history>>

-----------------------------------------------------------------------------
(* tenancy.Service.Create, for a caller the middleware resolved. A request *)
(* with a missing name, an unknown country or currency ends before any     *)
(* read and changes nothing, and so does that of a caller who is a member. *)
(* The session is resolved in a transaction before the memberships are     *)
(* read; a session's user never changes, so the two reads are one step.    *)

\* Mutant: the refusal for a caller who already belongs somewhere is dropped.
NoMembershipUnchecked(u) == TRUE

NoMembership(u) == MembershipsForUser(u) = {}

RequestOrganisation(r, b) ==
  /\ Free(r)
  /\ \E s \in Live(jar[b].session) :
       /\ NoMembership(s.user)
       /\ req' = [req EXCEPT ![r] = [Idle EXCEPT !.pc = "create", !.user = s.user, !.base = DOMAIN orgs]]
  /\ UNCHANGED <<now, tables, jar, asked, history>>

(* db.CreateOrganization: organisation, entity, industry template and the  *)
(* owner's membership in one transaction. base records, for the property,  *)
(* what had been committed when the memberships were read.                 *)
CreateOrganization(r) ==
  /\ req[r].pc = "create"
  /\ Len(orgs) < MaxOrganisations
  /\ orgs' = Append(orgs, [owner |-> req[r].user, base |-> req[r].base])
  /\ Done(r)
  /\ UNCHANGED <<now, flows, users, identities, sessions, jar, asked, history>>

CreateOrganizationFails(r) ==
  /\ req[r].pc = "create"
  /\ Done(r)
  /\ UNCHANGED <<now, tables, jar, asked, history>>

-----------------------------------------------------------------------------
SignIn(r) ==
  \/ StartAnswered(r) \/ \E c \in Claims \cup {None} : Consume(r, c)
  \/ FindIdentity(r) \/ InsertUser(r) \/ Bind(r) \/ BindRefused(r)
  \/ CreateSession(r) \/ Welcome(r) \/ Refused(r)
  \/ Fails(r) \/ Lost(r)

SignOut(r) == Revoke(r) \/ RevokeFails(r) \/ SignedOut(r)

Create(r) == CreateOrganization(r) \/ CreateOrganizationFails(r)

Next ==
  \/ \E r \in Requests :
       \/ SignIn(r) \/ SignOut(r) \/ Create(r)
       \/ \E b \in Browsers :
            \/ Start(r, b) \/ Logout(r, b) \/ RequestOrganisation(r, b)
            \/ \E f \in asked : Callback(r, b, f)
  \/ Expire \/ Tick

Spec == Init /\ [][Next]_vars

-----------------------------------------------------------------------------
(* Properties *)

Types ==
  /\ now \in 0 .. MaxTime
  /\ origin \in Seq(Browsers) /\ Len(origin) <= MaxFlows
  /\ flows \subseteq [id : Nat, expires : Nat]
  /\ asked \subseteq DOMAIN origin
  /\ users \in Seq(Emails)
  /\ DOMAIN identities \subseteq Subjects
  /\ issued \in Seq([flow : Nat, browser : Browsers, subject : Subjects, user : Nat])
  /\ sessions \subseteq [token : Nat, user : Nat, expires : Nat, revoked : BOOLEAN]
  /\ orgs \in Seq([owner : Nat, base : SUBSET Nat]) /\ Len(orgs) <= MaxOrganisations
  /\ jar \in [Browsers -> [flow : Nat, session : Nat]]
  /\ req \in [Requests -> [pc : Places, browser : Browsers \cup {None}, flow : Nat, cookie : Nat,
                           claim : Claims \cup {None}, user : Nat, token : Nat, base : SUBSET Nat]]

References ==
  /\ \A x \in flows : x.id \in DOMAIN origin
  /\ \A s \in DOMAIN identities : identities[s] \in DOMAIN users
  /\ \A t \in DOMAIN issued : issued[t].flow \in DOMAIN origin /\ issued[t].user \in DOMAIN users
  /\ \A s \in sessions : s.token \in DOMAIN issued /\ s.user = issued[s.token].user
  /\ \A o \in DOMAIN orgs : orgs[o].owner \in DOMAIN users /\ orgs[o].base \subseteq DOMAIN orgs
  /\ \A b \in Browsers :
       jar[b].flow \in {0} \cup DOMAIN origin /\ jar[b].session \in {0} \cup DOMAIN issued

(* The types of the tables, and their references: every row and cookie     *)
(* names rows that exist, and a session is of the user it was issued to    *)
(* (migration 00003's foreign keys, createSession's parameters).           *)
TypeOK == Types /\ References

(* A started sign-in ends in at most one session, however often and        *)
(* wherever its callback is opened: ConsumeAuthFlow returns its row once.  *)
OneSessionPerFlow ==
  \A t, u \in DOMAIN issued : issued[t].flow = issued[u].flow => t = u

(* A session goes to the browser that started the sign-in, for the account *)
(* of the person who consented to it, and no browser ever comes to hold    *)
(* another's: handleCallback's comparison with the cookie, and             *)
(* FindIdentity by subject, never by address.                              *)
SessionIsTheSigners ==
  /\ \A t \in DOMAIN issued :
       /\ issued[t].browser = origin[issued[t].flow]
       /\ issued[t].subject \in DOMAIN identities
       /\ issued[t].user = identities[issued[t].subject]
  /\ \A b \in Browsers : jar[b].session # 0 => issued[jar[b].session].browser = b

(* One person, one account, one address: resolveOrProvision, run twice at  *)
(* once or failing half way, leaves no account without an identity, none   *)
(* with two, and no address on two accounts.                               *)
AccountsWhole ==
  /\ \A u \in DOMAIN users : \E s \in DOMAIN identities : identities[s] = u
  /\ \A s, t \in DOMAIN identities : identities[s] = identities[t] => s = t
  /\ \A u, v \in DOMAIN users : users[u] = users[v] /\ users[u] # NoEmail => u = v

(* Access ends when the session expires or when the browser that holds it  *)
(* signs out, never through the sweep or through another's sign-out, and   *)
(* once ended it stays ended.                                              *)
SessionEnds ==
  [][\A t \in DOMAIN issued :
       /\ Live(t) = {} => Live(t)' = {}
       /\ Live(t) # {} /\ Live(t)' = {} =>
            \/ now' > now
            \/ \E r \in Requests : req[r].pc = "revoke" /\ req[r].token = t
                                   /\ req[r].browser = issued[t].browser]_vars

(* A person owns a second organisation only through two creations that     *)
(* overlapped: each had read the memberships before the other committed    *)
(* (tenancy.Service.Create reads and writes in two transactions).          *)
OrganisationsRaced ==
  \A o, p \in DOMAIN orgs : o # p /\ orgs[o].owner = orgs[p].owner => o \notin orgs[p].base
=============================================================================
