--------------------------- MODULE AccountsProofs ---------------------------
(***************************************************************************)
(* Proofs about Accounts, for any browsers, requests, claims, lifetimes    *)
(* and bounds. The properties say what has been issued and stored; the     *)
(* invariant adds what the requests in flight hold: a flow that has been   *)
(* consumed is in no table and with one request, that request's browser    *)
(* started it, and the address of an uncommitted account is nobody else's. *)
(***************************************************************************)
EXTENDS Accounts, TLAPS

(* The places of a callback that has consumed its flow. *)
Holding == {"find", "insert", "bind", "session"}

(* A started flow is in auth_flows, with one request, or behind one        *)
(* session, and never in two of these places.                              *)
FlowsHeldOnce ==
  /\ \A r \in Requests : req[r].pc \in Holding =>
       /\ \A x \in flows : x.id # req[r].flow
       /\ \A q \in Requests : req[q].pc \in Holding /\ req[q].flow = req[r].flow => q = r
       /\ \A t \in DOMAIN issued : issued[t].flow # req[r].flow
  /\ \A t \in DOMAIN issued : \A x \in flows : x.id # issued[t].flow
  /\ \A x, y \in flows : x.id = y.id => x = y

(* A browser's flow cookie names a flow it started. *)
CookiesKept == \A b \in Browsers : jar[b].flow # 0 => origin[jar[b].flow] = b

(* What a request holds at each place. *)
Whole(v) ==
  /\ v.pc \in {"started", "consume", "welcome", "refused", "revoke", "signedOut"} \cup Holding => v.browser \in Browsers
  /\ v.pc \in {"started"} \cup Holding => v.flow \in DOMAIN origin /\ origin[v.flow] = v.browser
  /\ v.pc = "consume" => v.cookie \in DOMAIN origin /\ origin[v.cookie] = v.browser
  /\ v.pc \in Holding => v.claim \in Claims
  /\ v.pc = "session" => v.claim.subject \in DOMAIN identities /\ v.user = identities[v.claim.subject]
  /\ v.pc \in {"welcome", "revoke"} => v.token \in DOMAIN issued /\ issued[v.token].browser = v.browser
  /\ v.pc = "create" => /\ v.user \in DOMAIN users
                        /\ v.base \subseteq DOMAIN orgs
                        /\ \A o \in v.base : orgs[o].owner # v.user

RequestsWhole == \A r \in Requests : Whole(req[r])

(* The address of an account not yet committed is on no other account. *)
AddressesHeldOnce ==
  \A r \in Requests : req[r].pc = "bind" =>
    /\ ~AddressTaken(r)
    /\ \A q \in Requests : req[q].pc = "bind" /\ SameAddress(r, q) => q = r

OwnersApart == \A p \in DOMAIN orgs : \A o \in orgs[p].base : orgs[o].owner # orgs[p].owner

SignInInv == FlowsHeldOnce /\ CookiesKept /\ RequestsWhole
AccountsInv ==
  /\ TypeOK /\ SignInInv
  /\ OneSessionPerFlow /\ SessionIsTheSigners
  /\ AddressesHeldOnce /\ AccountsWhole
  /\ OwnersApart

-----------------------------------------------------------------------------
(* Types and the facts on sequences the proofs use. *)

Request ==
  [pc : Places, browser : Browsers \cup {None}, flow : Nat, cookie : Nat,
   claim : Claims \cup {None}, user : Nat, token : Nat, base : SUBSET Nat]

(* The invariant's part on the cookies. *)
JarKept ==
  /\ jar \in [Browsers -> [flow : Nat, session : Nat]]
  /\ \A b \in Browsers :
       /\ jar[b].flow \in {0} \cup DOMAIN origin
       /\ jar[b].session \in {0} \cup DOMAIN issued
       /\ jar[b].flow # 0 => origin[jar[b].flow] = b
       /\ jar[b].session # 0 => issued[jar[b].session].browser = b

(* A request's place and data in the idle state of the pool (Idle). *)
LEMMA IdleWhole == Idle \in Request /\ Whole(Idle) /\ Idle.pc = "idle"
  BY DEF Idle, Request, Places, Whole, Holding

(* What Append adds to a table, and what it keeps. *)
LEMMA AppendFacts ==
  ASSUME NEW S, NEW s \in Seq(S), NEW e \in S
  PROVE  /\ Append(s, e) \in Seq(S)
         /\ Len(Append(s, e)) = Len(s) + 1
         /\ Len(s) \in Nat
         /\ DOMAIN s = 1 .. Len(s)
         /\ DOMAIN Append(s, e) = 1 .. Len(s) + 1
         /\ DOMAIN s \subseteq DOMAIN Append(s, e)
         /\ Len(s) + 1 \in DOMAIN Append(s, e) /\ Len(s) + 1 \notin DOMAIN s
         /\ \A i \in DOMAIN s : Append(s, e)[i] = s[i]
         /\ Append(s, e)[Len(s) + 1] = e
         /\ \A i \in DOMAIN Append(s, e) : i \in DOMAIN s \/ i = Len(s) + 1
  OBVIOUS

(* Rows are numbered from one. *)
LEMMA RowNumbers ==
  ASSUME NEW S, NEW s \in Seq(S)
  PROVE  Len(s) \in Nat /\ DOMAIN s = 1 .. Len(s) /\ DOMAIN s \subseteq Nat \ {0}
  OBVIOUS

(* The initial state: no row, no cookie, no request (Init). *)
LEMMA InitInv == Init => AccountsInv
<1> SUFFICES ASSUME Init PROVE AccountsInv
  OBVIOUS
<1>1. DOMAIN origin = {} /\ DOMAIN users = {} /\ DOMAIN issued = {} /\ DOMAIN orgs = {} /\ DOMAIN identities = {}
  BY DEF Init
<1>2. Types
  BY IdleWhole, LifetimesAssumption DEF Init, Types, Request
<1>3. References
  BY <1>1 DEF Init, References
<1>4. SignInInv
  BY <1>1, IdleWhole DEF Init, SignInInv, FlowsHeldOnce, CookiesKept, RequestsWhole, Holding
<1>5. OneSessionPerFlow /\ SessionIsTheSigners
  BY <1>1 DEF Init, OneSessionPerFlow, SessionIsTheSigners
<1>6. AddressesHeldOnce /\ AccountsWhole /\ OwnersApart
  BY <1>1, IdleWhole DEF Init, AddressesHeldOnce, AccountsWhole, OwnersApart
<1> QED
  BY <1>2, <1>3, <1>4, <1>5, <1>6 DEF AccountsInv, TypeOK

(* A step that changes no table and puts one request at v keeps the        *)
(* invariant when v is whole, consumes no flow and takes no address: most  *)
(* steps of a handler, and the answers.                                    *)
LEMMA RequestStep ==
  ASSUME AccountsInv, NEW r \in Requests, NEW v \in Request,
         req' = [req EXCEPT ![r] = v], UNCHANGED <<now, tables, history>>,
         asked' \subseteq DOMAIN origin, JarKept', Whole(v),
         v.pc \in Holding => req[r].pc \in Holding /\ v.flow = req[r].flow,
         v.pc = "bind" =>
           \/ v.claim.email = NoEmail
           \/ /\ \A u \in DOMAIN users : users[u] # v.claim.email
              /\ \A q \in Requests \ {r} : req[q].pc = "bind" => req[q].claim.email # v.claim.email
  PROVE  AccountsInv'
<1> USE DEF tables, history
<1>0. /\ req \in [Requests -> Request] /\ req' \in [Requests -> Request]
      /\ req'[r] = v /\ \A q \in Requests \ {r} : req'[q] = req[q]
  BY DEF AccountsInv, TypeOK, Types, Request
<1>1. Types'
  BY <1>0 DEF AccountsInv, TypeOK, Types, JarKept, Request
<1>2. References'
  BY DEF AccountsInv, TypeOK, References, JarKept
<1>3. FlowsHeldOnce'
  <2>1. FlowsHeldOnce
    BY DEF AccountsInv, SignInInv
  <2>2. \A q \in Requests : req'[q].pc \in Holding => req[q].pc \in Holding /\ req'[q].flow = req[q].flow
    BY <1>0
  <2> QED
    BY <2>1, <2>2 DEF FlowsHeldOnce
<1>4. CookiesKept'
  BY DEF JarKept, CookiesKept
<1>5. RequestsWhole'
  <2>1. \A q \in Requests : Whole(req'[q])
    BY <1>0 DEF AccountsInv, SignInInv, RequestsWhole
  <2> QED
    BY <2>1 DEF RequestsWhole, Whole
<1>6. OneSessionPerFlow' /\ AccountsWhole' /\ OwnersApart'
  BY DEF AccountsInv, OneSessionPerFlow, AccountsWhole, OwnersApart
<1>7. SessionIsTheSigners'
  BY DEF AccountsInv, SessionIsTheSigners, JarKept
<1>8. AddressesHeldOnce'
  BY <1>0 DEF AccountsInv, AddressesHeldOnce, AddressTaken, SameAddress
<1> QED
  BY <1>1, <1>2, <1>3, <1>4, <1>5, <1>6, <1>7, <1>8 DEF AccountsInv, TypeOK, SignInInv

(* Facts of the invariant every step starts from. *)
LEMMA InvFacts ==
  ASSUME AccountsInv, NEW r \in Requests
  PROVE  /\ JarKept /\ req[r] \in Request /\ Whole(req[r])
         /\ asked \subseteq DOMAIN origin
         /\ DOMAIN origin \subseteq Nat \ {0} /\ DOMAIN issued \subseteq Nat \ {0}
         /\ DOMAIN users \subseteq Nat \ {0} /\ DOMAIN orgs \subseteq Nat \ {0}
<1>1. JarKept
  BY DEF AccountsInv, TypeOK, Types, References, SignInInv, CookiesKept, SessionIsTheSigners, JarKept
<1>2. req[r] \in Request /\ asked \subseteq DOMAIN origin
  BY DEF AccountsInv, TypeOK, Types, Request
<1>3. Whole(req[r])
  BY DEF AccountsInv, SignInInv, RequestsWhole
<1>4. /\ DOMAIN origin \subseteq Nat \ {0} /\ DOMAIN issued \subseteq Nat \ {0}
      /\ DOMAIN users \subseteq Nat \ {0} /\ DOMAIN orgs \subseteq Nat \ {0}
  BY RowNumbers DEF AccountsInv, TypeOK, Types
<1> QED
  BY <1>1, <1>2, <1>3, <1>4

(* The answers of a handler: each takes its request out of the pool and    *)
(* gives the browser the cookies of its own request (setCookie,            *)
(* clearCookie).                                                           *)
LEMMA AnswerSteps ==
  ASSUME AccountsInv, NEW r \in Requests,
         StartAnswered(r) \/ Welcome(r) \/ Refused(r) \/ Lost(r) \/ SignedOut(r) \/ CreateOrganizationFails(r)
  PROVE  AccountsInv'
<1> USE IdleWhole, InvFacts
<1>1. req' = [req EXCEPT ![r] = Idle] /\ UNCHANGED <<now, tables, history>>
  BY DEF StartAnswered, Welcome, Refused, Lost, SignedOut, CreateOrganizationFails, Done
<1>2. asked' \subseteq DOMAIN origin
  BY DEF StartAnswered, Welcome, Refused, Lost, SignedOut, CreateOrganizationFails, Whole, Holding
<1>3. JarKept'
  <2>1. CASE StartAnswered(r)
    BY <2>1, <1>1 DEF StartAnswered, JarKept, Whole, Holding, history, Request
  <2>2. CASE Welcome(r)
    BY <2>2, <1>1 DEF Welcome, JarKept, Whole, Holding, history, Request
  <2>3. CASE Refused(r)
    BY <2>3, <1>1 DEF Refused, JarKept, Whole, Holding, history, Request
  <2>4. CASE SignedOut(r)
    BY <2>4, <1>1 DEF SignedOut, JarKept, Whole, Holding, history, Request
  <2>5. CASE Lost(r) \/ CreateOrganizationFails(r)
    BY <2>5, <1>1 DEF Lost, CreateOrganizationFails, JarKept, history
  <2> QED
    BY <2>1, <2>2, <2>3, <2>4, <2>5
<1> QED
  BY <1>1, <1>2, <1>3, RequestStep DEF Holding

(* A callback that ends in a refusal, and a sign-out whose revocation      *)
(* failed, go on to their answer.                                          *)
LEMMA RefusalSteps ==
  ASSUME AccountsInv, NEW r \in Requests, BindRefused(r) \/ Fails(r) \/ RevokeFails(r)
  PROVE  AccountsInv'
<1> USE InvFacts
<1>1. PICK p \in {"refused", "signedOut"} : Answer(r, p)
  BY DEF BindRefused, Fails, RevokeFails
<1>2. req[r].browser \in Browsers
  BY DEF BindRefused, Fails, RevokeFails, Whole, Holding
<1> DEFINE v == [Idle EXCEPT !.pc = p, !.browser = req[r].browser]
<1>3. v \in Request /\ Whole(v) /\ v.pc = p
  BY <1>2 DEF Idle, Request, Places, Whole, Holding
<1>4. UNCHANGED <<now, tables, history>> /\ asked' = asked /\ JarKept'
  BY DEF BindRefused, Fails, RevokeFails, JarKept, history
<1> HIDE DEF v
<1>5. req' = [req EXCEPT ![r] = v]
  BY <1>1 DEF Answer, v
<1> QED
  BY <1>1, <1>3, <1>4, <1>5, RequestStep DEF Holding

(* A callback or a sign-out arrives with its browser's cookies. *)
LEMMA ArrivalSteps ==
  ASSUME AccountsInv, NEW r \in Requests, NEW b \in Browsers,
         (\E f \in asked : Callback(r, b, f)) \/ Logout(r, b)
  PROVE  AccountsInv'
<1> USE InvFacts
<1>0. UNCHANGED <<now, tables, history>> /\ asked' = asked /\ JarKept'
  BY DEF Callback, Logout, JarKept, history
<1>1. ASSUME NEW f \in asked, Callback(r, b, f) PROVE AccountsInv'
  <2> DEFINE v == [Idle EXCEPT !.pc = "consume", !.browser = b, !.flow = f, !.cookie = jar[b].flow]
  <2>1. v \in Request /\ Whole(v) /\ v.pc = "consume"
    BY <1>1 DEF Callback, Idle, Request, Places, Whole, Holding, JarKept
  <2>2. req' = [req EXCEPT ![r] = v]
    BY <1>1 DEF Callback
  <2> HIDE DEF v
  <2> QED
    BY <1>0, <2>1, <2>2, RequestStep DEF Holding
<1>2. CASE Logout(r, b)
  <2> DEFINE v == [Idle EXCEPT !.pc = "revoke", !.browser = b, !.token = jar[b].session]
  <2>1. v \in Request /\ Whole(v) /\ v.pc = "revoke"
    BY <1>2 DEF Logout, Idle, Request, Places, Whole, Holding, JarKept
  <2>2. req' = [req EXCEPT ![r] = v]
    BY <1>2 DEF Logout
  <2> HIDE DEF v
  <2> QED
    BY <1>0, <2>1, <2>2, RequestStep DEF Holding
<1> QED
  BY <1>1, <1>2

(* resolveOrProvision's reads: the subject's account, and an address that  *)
(* is free or not.                                                         *)
LEMMA ResolveSteps ==
  ASSUME AccountsInv, NEW r \in Requests, FindIdentity(r) \/ InsertUser(r)
  PROVE  AccountsInv'
<1> USE InvFacts
<1>0. UNCHANGED <<now, tables, history>> /\ asked' = asked /\ JarKept'
  BY DEF FindIdentity, InsertUser, JarKept, history
<1>a. req \in [Requests -> Request]
  BY DEF AccountsInv, TypeOK, Types, Request
<1>b. req[r].pc \in Holding /\ req[r].claim \in Claims
  BY DEF FindIdentity, InsertUser, Whole, Holding
<1>1. CASE FindIdentity(r) /\ req[r].claim.subject \in DOMAIN identities
  <2> DEFINE v == [req[r] EXCEPT !.pc = "session", !.user = identities[req[r].claim.subject]]
  <2>1. identities[req[r].claim.subject] \in Nat
    BY <1>1 DEF AccountsInv, TypeOK, References, Types
  <2>2. v \in Request /\ Whole(v) /\ v.pc = "session" /\ v.flow = req[r].flow
    BY <1>1, <1>b, <2>1 DEF FindIdentity, Request, Places, Whole, Holding
  <2>3. req' = [req EXCEPT ![r] = v]
    BY <1>1, <1>a DEF FindIdentity, Request
  <2> HIDE DEF v
  <2> QED
    BY <1>0, <1>b, <2>2, <2>3, RequestStep
<1>2. CASE FindIdentity(r) /\ req[r].claim.subject \notin DOMAIN identities
  <2> DEFINE v == [req[r] EXCEPT !.pc = "insert"]
  <2>1. v \in Request /\ Whole(v) /\ v.pc = "insert" /\ v.flow = req[r].flow
    BY <1>2, <1>b DEF FindIdentity, Request, Places, Whole, Holding
  <2>2. req' = [req EXCEPT ![r] = v]
    BY <1>2, <1>a DEF FindIdentity, Request
  <2> HIDE DEF v
  <2> QED
    BY <1>0, <1>b, <2>1, <2>2, RequestStep
<1>3. CASE InsertUser(r) /\ AddressTaken(r)
  <2> DEFINE v == [Idle EXCEPT !.pc = "refused", !.browser = req[r].browser]
  <2>1. v \in Request /\ Whole(v) /\ v.pc = "refused"
    BY <1>b DEF Idle, Request, Places, Whole, Holding
  <2>2. req' = [req EXCEPT ![r] = v]
    BY <1>3 DEF InsertUser, Answer
  <2> HIDE DEF v
  <2> QED
    BY <1>0, <2>1, <2>2, RequestStep DEF Holding
<1>4. CASE InsertUser(r) /\ ~AddressTaken(r)
  <2> DEFINE v == [req[r] EXCEPT !.pc = "bind"]
  <2>1. v \in Request /\ Whole(v) /\ v.pc = "bind" /\ v.flow = req[r].flow /\ v.claim = req[r].claim
    BY <1>4, <1>b DEF InsertUser, Request, Places, Whole, Holding
  <2>2. req' = [req EXCEPT ![r] = v]
    BY <1>4, <1>a DEF InsertUser, Goto, Request
  <2> HIDE DEF v
  <2>3. \/ v.claim.email = NoEmail
        \/ /\ \A u \in DOMAIN users : users[u] # v.claim.email
           /\ \A q \in Requests \ {r} : req[q].pc = "bind" => req[q].claim.email # v.claim.email
    BY <1>4, <2>1 DEF InsertUser, AddressTaken, AddressAwaited, SameAddress
  <2> QED
    BY <1>0, <1>b, <2>1, <2>2, <2>3, RequestStep
<1> QED
  BY <1>1, <1>2, <1>3, <1>4

(* A member-less caller asks for an organisation. *)
LEMMA RequestOrganisationStep ==
  ASSUME AccountsInv, NEW r \in Requests, NEW b \in Browsers, RequestOrganisation(r, b)
  PROVE  AccountsInv'
<1> USE InvFacts
<1>0. UNCHANGED <<now, tables, history>> /\ asked' = asked /\ JarKept'
  BY DEF RequestOrganisation, JarKept, history
<1>1. PICK s \in Live(jar[b].session) :
        /\ NoMembership(s.user)
        /\ req' = [req EXCEPT ![r] = [Idle EXCEPT !.pc = "create", !.user = s.user, !.base = DOMAIN orgs]]
  BY DEF RequestOrganisation
<1> DEFINE v == [Idle EXCEPT !.pc = "create", !.user = s.user, !.base = DOMAIN orgs]
<1>2. s.user \in DOMAIN users /\ s.user \in Nat
  BY DEF Live, AccountsInv, TypeOK, Types, References
<1>3. DOMAIN orgs \subseteq Nat /\ \A o \in DOMAIN orgs : orgs[o].owner # s.user
  BY <1>1 DEF NoMembership, MembershipsForUser
<1>4. v \in Request /\ Whole(v) /\ v.pc = "create"
  BY <1>2, <1>3 DEF Idle, Request, Places, Whole, Holding
<1>5. req' = [req EXCEPT ![r] = v]
  BY <1>1
<1> HIDE DEF v
<1> QED
  BY <1>0, <1>4, <1>5, RequestStep DEF Holding

(* handleStart: the new flow is in no other place. *)
LEMMA StartStep ==
  ASSUME AccountsInv, NEW r \in Requests, NEW b \in Browsers, Start(r, b)
  PROVE  AccountsInv'
<1> USE InvFacts
<1> DEFINE f == Len(origin) + 1
           v == [Idle EXCEPT !.pc = "started", !.browser = b, !.flow = f]
<1>0. UNCHANGED <<now, users, identities, sessions, orgs, jar, asked, issued>>
  BY DEF Start
<1>1. /\ origin' \in Seq(Browsers) /\ Len(origin') <= MaxFlows /\ Len(origin) \in Nat
      /\ DOMAIN origin \subseteq DOMAIN origin' /\ f \in DOMAIN origin' /\ f \notin DOMAIN origin
      /\ origin'[f] = b /\ \A g \in DOMAIN origin : origin'[g] = origin[g]
  <2>1. origin \in Seq(Browsers) /\ origin' = Append(origin, b) /\ Len(origin) < MaxFlows
    BY DEF Start, AccountsInv, TypeOK, Types
  <2> QED
    BY <2>1, AppendFacts, LifetimesAssumption
<1>a. f \in Nat
  BY <1>1
<1> HIDE DEF f
<1>2. v \in Request /\ v.pc = "started" /\ v.flow = f /\ v.browser = b
  BY <1>a DEF Idle, Request, Places
<1>3. req' = [req EXCEPT ![r] = v] /\ flows' = flows \cup {[id |-> f, expires |-> now + FlowLifetime]}
  BY DEF Start, f
<1> HIDE DEF v
<1>4. req' \in [Requests -> Request] /\ req'[r] = v /\ \A q \in Requests \ {r} : req'[q] = req[q]
  BY <1>2, <1>3 DEF AccountsInv, TypeOK, Types, Request
<1>5. Types'
  <2>1. flows' \subseteq [id : Nat, expires : Nat] /\ asked' \subseteq DOMAIN origin'
    <3>1. now + FlowLifetime \in Nat /\ flows \subseteq [id : Nat, expires : Nat]
      BY LifetimesAssumption DEF AccountsInv, TypeOK, Types
    <3> QED
      BY <1>0, <1>1, <1>a, <1>3, <3>1
  <2> QED
    BY <1>0, <1>1, <1>4, <2>1 DEF AccountsInv, TypeOK, Types, Request
<1>6. References'
  BY <1>0, <1>1, <1>3 DEF AccountsInv, TypeOK, References
<1>7. FlowsHeldOnce'
  <2>1. \A q \in Requests : req[q].pc \in Holding => req[q].flow \in DOMAIN origin
    BY DEF Whole
  <2>2. \A t \in DOMAIN issued : issued[t].flow \in DOMAIN origin
    BY DEF AccountsInv, TypeOK, References
  <2>3. \A x \in flows' : x \in flows \/ x.id = f
    BY <1>3
  <2>4. \A q \in Requests : req'[q].pc \in Holding => q # r /\ req'[q] = req[q]
    BY <1>2, <1>4 DEF Holding
  <2> QED
    BY <1>0, <1>1, <1>3, <2>1, <2>2, <2>3, <2>4 DEF AccountsInv, SignInInv, FlowsHeldOnce, TypeOK, References
<1>8. CookiesKept'
  BY <1>0, <1>1 DEF JarKept, CookiesKept
<1>9. RequestsWhole'
  <2>1. \A q \in Requests \ {r} : Whole(req[q])
    OBVIOUS
  <2> QED
    BY <1>0, <1>1, <1>2, <1>4, <2>1 DEF RequestsWhole, Whole, Holding
<1>10. OneSessionPerFlow' /\ AccountsWhole' /\ OwnersApart'
  BY <1>0 DEF AccountsInv, OneSessionPerFlow, AccountsWhole, OwnersApart
<1>11. SessionIsTheSigners'
  BY <1>0, <1>1 DEF AccountsInv, TypeOK, References, SessionIsTheSigners
<1>12. AddressesHeldOnce'
  BY <1>0, <1>2, <1>4 DEF AccountsInv, AddressesHeldOnce, AddressTaken, SameAddress
<1> QED
  BY <1>5, <1>6, <1>7, <1>8, <1>9, <1>10, <1>11, <1>12 DEF AccountsInv, TypeOK, SignInInv

(* ConsumeAuthFlow: the flow passes from the table to the one request that *)
(* deleted it, or to none.                                                 *)
LEMMA ConsumeStep ==
  ASSUME AccountsInv, NEW r \in Requests, NEW c \in Claims \cup {None}, Consume(r, c)
  PROVE  AccountsInv'
<1> USE InvFacts
<1>0. UNCHANGED <<now, users, identities, sessions, orgs, jar, asked, history>> /\ flows' \subseteq flows
  BY DEF Consume
<1>1. PICK v \in Request :
        /\ req' = [req EXCEPT ![r] = v] /\ Whole(v)
        /\ v.pc \in {"find", "refused"}
        /\ v.pc = "find" => v.flow = req[r].flow /\ Pending(req[r].flow) # {}
  <2>0. req \in [Requests -> Request] /\ req[r].browser \in Browsers
    BY DEF AccountsInv, TypeOK, Types, Request, Consume, Whole
  <2>1. CASE Pending(req[r].flow) # {} /\ StartedHere(r) /\ Exchange(c)
    <3> DEFINE v == [req[r] EXCEPT !.pc = "find", !.cookie = 0, !.claim = c]
    <3>1. req' = [req EXCEPT ![r] = v]
      BY <2>0, <2>1 DEF Consume, Request
    <3>2. v \in Request /\ Whole(v) /\ v.pc = "find" /\ v.flow = req[r].flow
      BY <2>0, <2>1 DEF Consume, Request, Places, Whole, Holding, StartedHere, Exchange
    <3> HIDE DEF v
    <3> QED
      BY <2>1, <3>1, <3>2
  <2>2. CASE ~(Pending(req[r].flow) # {} /\ StartedHere(r) /\ Exchange(c))
    <3> DEFINE v == [Idle EXCEPT !.pc = "refused", !.browser = req[r].browser]
    <3>1. req' = [req EXCEPT ![r] = v]
      BY <2>2 DEF Consume, Answer
    <3>2. v \in Request /\ Whole(v) /\ v.pc = "refused"
      BY <2>0 DEF Idle, Request, Places, Whole, Holding
    <3> HIDE DEF v
    <3> QED
      BY <3>1, <3>2
  <2> QED
    BY <2>1, <2>2
<1>2. req' \in [Requests -> Request] /\ req'[r] = v /\ \A q \in Requests \ {r} : req'[q] = req[q]
  BY <1>1 DEF AccountsInv, TypeOK, Types, Request
<1>3. Types'
  BY <1>0, <1>2 DEF AccountsInv, TypeOK, Types, Request, history
<1>4. References'
  BY <1>0 DEF AccountsInv, TypeOK, References, history
<1>5. FlowsHeldOnce'
  <2>1. v.pc = "find" => \E x \in flows : x.id = v.flow
    BY <1>1 DEF Pending
  <2>2. v.pc = "find" => \A x \in flows' : x.id # v.flow
    <3>1. SUFFICES ASSUME v.pc = "find", NEW x \in flows', x.id = v.flow PROVE FALSE
      OBVIOUS
    <3>2. PICK y \in flows : y.id = v.flow /\ y.expires > now
      BY <1>1, <3>1 DEF Pending
    <3> QED
      BY <1>0, <1>1, <3>1, <3>2 DEF Consume, Pending, AccountsInv, SignInInv, FlowsHeldOnce
  <2> QED
    BY <1>0, <1>1, <1>2, <2>1, <2>2 DEF AccountsInv, SignInInv, FlowsHeldOnce, history, Holding
<1>6. CookiesKept' /\ OneSessionPerFlow' /\ AccountsWhole' /\ OwnersApart' /\ SessionIsTheSigners'
  BY <1>0 DEF AccountsInv, SignInInv, CookiesKept, OneSessionPerFlow, AccountsWhole, OwnersApart,
              SessionIsTheSigners, history
<1>7. RequestsWhole'
  <2>1. \A q \in Requests : Whole(req'[q])
    BY <1>1, <1>2
  <2> QED
    BY <1>0, <2>1 DEF RequestsWhole, Whole, history
<1>8. AddressesHeldOnce'
  BY <1>0, <1>1, <1>2 DEF AccountsInv, AddressesHeldOnce, AddressTaken, SameAddress
<1> QED
  BY <1>3, <1>4, <1>5, <1>6, <1>7, <1>8 DEF AccountsInv, TypeOK, SignInInv

(* Bind: the account and its identity appear together, the address on no   *)
(* other account, the subject on no other identity.                        *)
LEMMA BindStep ==
  ASSUME AccountsInv, NEW r \in Requests, Bind(r)
  PROVE  AccountsInv'
<1> USE InvFacts
<1> DEFINE u == Len(users) + 1
           s == req[r].claim.subject
           e == req[r].claim.email
           v == [req[r] EXCEPT !.pc = "session", !.user = u]
<1>0. UNCHANGED <<now, flows, sessions, orgs, jar, asked, history>>
  BY DEF Bind
<1>1. req[r].pc = "bind" /\ req[r].claim \in Claims /\ s \in Subjects /\ e \in Emails /\ s \notin DOMAIN identities
  BY DEF Bind, Whole, Holding, Subjects, Emails
<1>2. /\ users' \in Seq(Emails) /\ u \in Nat
      /\ DOMAIN users \subseteq DOMAIN users' /\ u \in DOMAIN users' /\ u \notin DOMAIN users
      /\ users'[u] = e /\ \A i \in DOMAIN users : users'[i] = users[i]
      /\ \A i \in DOMAIN users' : i \in DOMAIN users \/ i = u
  <2>1. users \in Seq(Emails) /\ users' = Append(users, e)
    BY DEF Bind, AccountsInv, TypeOK, Types
  <2> QED
    BY <1>1, <2>1, AppendFacts
<1>3. /\ DOMAIN identities' = DOMAIN identities \cup {s} /\ identities'[s] = u
      /\ \A i \in DOMAIN identities : identities'[i] = identities[i]
  BY <1>1 DEF Bind
<1>4. req' = [req EXCEPT ![r] = v]
  BY DEF Bind, AccountsInv, TypeOK, Types, Request
<1> HIDE DEF u
<1>5. /\ v \in Request /\ v.pc = "session" /\ v.user = u
      /\ v.flow = req[r].flow /\ v.claim = req[r].claim /\ v.browser = req[r].browser
  BY <1>2 DEF Request, Places
<1> HIDE DEF v, s, e
<1>6. req' \in [Requests -> Request] /\ req'[r] = v /\ \A q \in Requests \ {r} : req'[q] = req[q]
  BY <1>4, <1>5 DEF AccountsInv, TypeOK, Types, Request
<1>7. Types'
  BY <1>0, <1>1, <1>2, <1>3, <1>6 DEF AccountsInv, TypeOK, Types, Request, history
<1>8. References'
  BY <1>0, <1>2, <1>3 DEF AccountsInv, TypeOK, References, history
<1>9. FlowsHeldOnce'
  <2>1. \A q \in Requests : req'[q].pc \in Holding => req[q].pc \in Holding /\ req'[q].flow = req[q].flow
    BY <1>1, <1>5, <1>6 DEF Holding
  <2> QED
    BY <1>0, <2>1 DEF AccountsInv, SignInInv, FlowsHeldOnce, history
<1>10. CookiesKept' /\ OneSessionPerFlow' /\ OwnersApart'
  BY <1>0 DEF AccountsInv, SignInInv, CookiesKept, OneSessionPerFlow, OwnersApart, history
<1>11. RequestsWhole'
  <2>1. Whole(req[r])'
    <3>1. v.claim.subject = s
      BY <1>5 DEF s
    <3> QED
      BY <1>0, <1>1, <1>3, <1>4, <1>5, <1>6, <3>1 DEF Whole, Holding, history
  <2>2. ASSUME NEW q \in Requests \ {r} PROVE Whole(req[q])'
    BY <1>0, <1>2, <1>3, <1>6 DEF Whole, Holding, history
  <2> QED
    BY <2>1, <2>2 DEF RequestsWhole
<1>12. SessionIsTheSigners'
  BY <1>0, <1>3 DEF AccountsInv, SessionIsTheSigners, history
<1>13. AccountsWhole'
  <2>1. AccountsWhole /\ \A i \in DOMAIN identities : identities[i] \in DOMAIN users
    BY DEF AccountsInv, TypeOK, References
  <2>2. e # NoEmail => \A i \in DOMAIN users : users[i] # e
    BY <1>1 DEF AccountsInv, AddressesHeldOnce, AddressTaken, e
  <2>3. \A i \in DOMAIN users' : \E k \in DOMAIN identities' : identities'[k] = i
    BY <1>2, <1>3, <2>1 DEF AccountsWhole
  <2>4. \A i, k \in DOMAIN identities' : identities'[i] = identities'[k] => i = k
    BY <1>2, <1>3, <2>1 DEF AccountsWhole
  <2>5. \A i, k \in DOMAIN users' : users'[i] = users'[k] /\ users'[i] # NoEmail => i = k
    BY <1>2, <2>1, <2>2 DEF AccountsWhole
  <2> QED
    BY <2>3, <2>4, <2>5 DEF AccountsWhole
<1>14. AddressesHeldOnce'
  <2>1. ASSUME NEW q \in Requests, req'[q].pc = "bind" PROVE q # r /\ req'[q] = req[q] /\ req[q].pc = "bind"
    BY <1>5, <1>6, <2>1
  <2>2. ASSUME NEW q \in Requests, req'[q].pc = "bind" PROVE ~AddressTaken(q)'
    <3>1. ~AddressTaken(q) /\ ~SameAddress(q, r)
      BY <1>1, <2>1, <2>2 DEF AccountsInv, AddressesHeldOnce
    <3> QED
      BY <1>2, <2>1, <2>2, <3>1 DEF AddressTaken, SameAddress, e
  <2>3. ASSUME NEW q \in Requests, NEW p \in Requests, req'[q].pc = "bind", req'[p].pc = "bind", SameAddress(q, p)'
        PROVE  p = q
    BY <2>1, <2>3 DEF AccountsInv, AddressesHeldOnce, SameAddress
  <2> QED
    BY <2>2, <2>3 DEF AddressesHeldOnce
<1> QED
  BY <1>7, <1>8, <1>9, <1>10, <1>11, <1>12, <1>13, <1>14 DEF AccountsInv, TypeOK, SignInInv

(* CreateSession: the flow passes from its request to the session. *)
LEMMA CreateSessionStep ==
  ASSUME AccountsInv, NEW r \in Requests, CreateSession(r)
  PROVE  AccountsInv'
<1> USE InvFacts
<1> DEFINE t == Len(issued) + 1
           i == [flow |-> req[r].flow, browser |-> req[r].browser,
                 subject |-> req[r].claim.subject, user |-> req[r].user]
           v == [Idle EXCEPT !.pc = "welcome", !.browser = req[r].browser, !.token = t]
           n == [token |-> t, user |-> req[r].user, expires |-> now + SessionLifetime, revoked |-> FALSE]
<1>0. UNCHANGED <<now, flows, users, identities, orgs, jar, asked, origin>>
  BY DEF CreateSession
<1>1. /\ req[r].pc = "session" /\ req[r].claim \in Claims /\ req[r].browser \in Browsers
      /\ req[r].claim.subject \in DOMAIN identities /\ req[r].user = identities[req[r].claim.subject]
      /\ req[r].flow \in DOMAIN origin /\ origin[req[r].flow] = req[r].browser
      /\ req[r].user \in DOMAIN users /\ req[r].user \in Nat
  BY DEF CreateSession, Whole, Holding, AccountsInv, TypeOK, References
<1>2. i \in [flow : Nat, browser : Browsers, subject : Subjects, user : Nat]
  BY <1>1 DEF Subjects
<1>3. /\ i.flow = req[r].flow /\ i.browser = req[r].browser /\ i.user = req[r].user
      /\ i.subject = req[r].claim.subject
  OBVIOUS
<1>4. issued' = Append(issued, i) /\ req' = [req EXCEPT ![r] = v] /\ sessions' = sessions \cup {n}
  BY DEF CreateSession
<1> HIDE DEF i
<1>5. /\ issued' \in Seq([flow : Nat, browser : Browsers, subject : Subjects, user : Nat]) /\ t \in Nat
      /\ DOMAIN issued \subseteq DOMAIN issued' /\ t \in DOMAIN issued' /\ t \notin DOMAIN issued
      /\ issued'[t] = i /\ \A k \in DOMAIN issued : issued'[k] = issued[k]
      /\ \A k \in DOMAIN issued' : k \in DOMAIN issued \/ k = t
  <2>1. issued \in Seq([flow : Nat, browser : Browsers, subject : Subjects, user : Nat])
    BY DEF AccountsInv, TypeOK, Types
  <2> QED
    BY <1>2, <1>4, <2>1, AppendFacts
<1> HIDE DEF t
<1>b. /\ issued'[t].flow = req[r].flow /\ issued'[t].browser = req[r].browser
      /\ issued'[t].user = req[r].user /\ issued'[t].subject = req[r].claim.subject
  BY <1>3, <1>5
<1>c. /\ DOMAIN issued \subseteq DOMAIN issued' /\ t \in DOMAIN issued' /\ t \notin DOMAIN issued
      /\ \A k \in DOMAIN issued : issued'[k] = issued[k]
      /\ \A k \in DOMAIN issued' : k \in DOMAIN issued \/ k = t
  BY <1>5
<1>6. n \in [token : Nat, user : Nat, expires : Nat, revoked : BOOLEAN] /\ n.token = t /\ n.user = req[r].user
  BY <1>1, <1>5, LifetimesAssumption DEF AccountsInv, TypeOK, Types
<1>7. v \in Request /\ v.pc = "welcome" /\ v.browser = req[r].browser /\ v.token = t
  BY <1>1, <1>5 DEF Idle, Request, Places
<1> HIDE DEF n, v
<1>8. req' \in [Requests -> Request] /\ req'[r] = v /\ \A q \in Requests \ {r} : req'[q] = req[q]
  BY <1>4, <1>7 DEF AccountsInv, TypeOK, Types, Request
<1>9. Types'
  BY <1>0, <1>4, <1>5, <1>6, <1>8 DEF AccountsInv, TypeOK, Types, Request
<1>10. References'
  <2>1. \A x \in sessions' : x.token \in DOMAIN issued' /\ x.user = issued'[x.token].user
    BY <1>b, <1>4, <1>c, <1>6 DEF AccountsInv, TypeOK, References
  <2>2. \A k \in DOMAIN issued' : issued'[k].flow \in DOMAIN origin /\ issued'[k].user \in DOMAIN users
    BY <1>b, <1>1, <1>c DEF AccountsInv, TypeOK, References
  <2> QED
    BY <1>0, <1>c, <2>1, <2>2 DEF AccountsInv, TypeOK, References
<1>11. FlowsHeldOnce' /\ OneSessionPerFlow'
  <2>1. /\ FlowsHeldOnce /\ OneSessionPerFlow
        /\ req[r].pc \in Holding
        /\ \A q \in Requests : req'[q].pc \in Holding => q # r /\ req'[q] = req[q]
    BY <1>1, <1>7, <1>8 DEF AccountsInv, SignInInv, Holding
  <2>2. FlowsHeldOnce'
    BY <1>0, <1>b, <1>c, <2>1 DEF FlowsHeldOnce
  <2>3. OneSessionPerFlow'
    BY <1>b, <1>c, <2>1 DEF FlowsHeldOnce, OneSessionPerFlow
  <2> QED
    BY <2>2, <2>3
<1>12. CookiesKept' /\ AccountsWhole' /\ OwnersApart'
  BY <1>0 DEF AccountsInv, SignInInv, CookiesKept, AccountsWhole, OwnersApart
<1>13. RequestsWhole'
  <2>1. Whole(req[r])'
    BY <1>b, <1>1, <1>c, <1>7, <1>8 DEF Whole, Holding
  <2>2. ASSUME NEW q \in Requests \ {r} PROVE Whole(req[q])'
    BY <1>0, <1>c, <1>8 DEF Whole, Holding
  <2> QED
    BY <2>1, <2>2 DEF RequestsWhole
<1>14. SessionIsTheSigners'
  BY <1>0, <1>b, <1>1, <1>c DEF AccountsInv, TypeOK, References, SessionIsTheSigners
<1>15. AddressesHeldOnce'
  BY <1>0, <1>7, <1>8 DEF AccountsInv, AddressesHeldOnce, AddressTaken, SameAddress
<1> QED
  BY <1>9, <1>10, <1>11, <1>12, <1>13, <1>14, <1>15 DEF AccountsInv, TypeOK, SignInInv

(* Revoke: a row is marked, and names the same token and user. *)
LEMMA RevokeStep ==
  ASSUME AccountsInv, NEW r \in Requests, Revoke(r)
  PROVE  AccountsInv'
<1> USE InvFacts
<1> DEFINE v == [Idle EXCEPT !.pc = "signedOut", !.browser = req[r].browser]
<1>0. UNCHANGED <<now, flows, users, identities, orgs, jar, asked, history>>
  BY DEF Revoke
<1>1. v \in Request /\ Whole(v) /\ v.pc = "signedOut"
  BY DEF Revoke, Idle, Request, Places, Whole, Holding
<1>2. req' = [req EXCEPT ![r] = v]
  BY DEF Revoke, Answer
<1> HIDE DEF v
<1>3. req' \in [Requests -> Request] /\ req'[r] = v /\ \A q \in Requests \ {r} : req'[q] = req[q]
  BY <1>1, <1>2 DEF AccountsInv, TypeOK, Types, Request
<1>4. \A x \in sessions' : /\ x \in [token : Nat, user : Nat, expires : Nat, revoked : BOOLEAN]
                          /\ \E y \in sessions : x.token = y.token /\ x.user = y.user
  <2>1. sessions \subseteq [token : Nat, user : Nat, expires : Nat, revoked : BOOLEAN]
    BY DEF AccountsInv, TypeOK, Types
  <2> SUFFICES ASSUME NEW x \in sessions'
               PROVE  /\ x \in [token : Nat, user : Nat, expires : Nat, revoked : BOOLEAN]
                      /\ \E y \in sessions : x.token = y.token /\ x.user = y.user
    OBVIOUS
  <2>2. PICK y \in sessions : x = IF y.token = req[r].token THEN [y EXCEPT !.revoked = TRUE] ELSE y
    BY DEF Revoke
  <2>3. y \in [token : Nat, user : Nat, expires : Nat, revoked : BOOLEAN]
    BY <2>1
  <2>4. /\ x \in [token : Nat, user : Nat, expires : Nat, revoked : BOOLEAN]
        /\ x.token = y.token /\ x.user = y.user
    BY <2>2, <2>3
  <2> QED
    BY <2>4
<1>5. Types'
  BY <1>0, <1>3, <1>4 DEF AccountsInv, TypeOK, Types, Request, history
<1>6. References'
  BY <1>0, <1>4 DEF AccountsInv, TypeOK, References, history
<1>7. FlowsHeldOnce'
  <2>1. \A q \in Requests : req'[q].pc \in Holding => q # r /\ req'[q] = req[q]
    BY <1>1, <1>3 DEF Holding
  <2> QED
    BY <1>0, <2>1 DEF AccountsInv, SignInInv, FlowsHeldOnce, history
<1>8. CookiesKept' /\ OneSessionPerFlow' /\ AccountsWhole' /\ OwnersApart' /\ SessionIsTheSigners'
  BY <1>0 DEF AccountsInv, SignInInv, CookiesKept, OneSessionPerFlow, AccountsWhole, OwnersApart,
              SessionIsTheSigners, history
<1>9. RequestsWhole'
  <2>1. \A q \in Requests : Whole(req'[q])
    BY <1>1, <1>3
  <2> QED
    BY <1>0, <2>1 DEF RequestsWhole, Whole, history
<1>10. AddressesHeldOnce'
  BY <1>0, <1>1, <1>3 DEF AccountsInv, AddressesHeldOnce, AddressTaken, SameAddress
<1> QED
  BY <1>5, <1>6, <1>7, <1>8, <1>9, <1>10 DEF AccountsInv, TypeOK, SignInInv

(* The sweep only takes rows away, and the clock takes none. *)
LEMMA SweepAndTick ==
  ASSUME AccountsInv, Expire \/ Tick
  PROVE  AccountsInv'
<1>0. /\ UNCHANGED <<users, identities, orgs, jar, req, asked, history>>
      /\ flows' \subseteq flows /\ sessions' \subseteq sessions /\ now' \in 0 .. MaxTime
  BY LifetimesAssumption DEF Expire, Tick, tables, AccountsInv, TypeOK, Types
<1>1. Types' /\ References'
  BY <1>0 DEF AccountsInv, TypeOK, Types, References, history
<1>2. SignInInv'
  BY <1>0 DEF AccountsInv, SignInInv, FlowsHeldOnce, CookiesKept, RequestsWhole, Whole, history
<1>3. OneSessionPerFlow' /\ AccountsWhole' /\ OwnersApart' /\ SessionIsTheSigners' /\ AddressesHeldOnce'
  BY <1>0 DEF AccountsInv, OneSessionPerFlow, AccountsWhole, OwnersApart, SessionIsTheSigners,
              AddressesHeldOnce, AddressTaken, SameAddress, history
<1> QED
  BY <1>1, <1>2, <1>3 DEF AccountsInv, TypeOK

(* db.CreateOrganization: none of the organisations the caller was seen to *)
(* be outside of is theirs.                                                *)
LEMMA CreateOrganizationStep ==
  ASSUME AccountsInv, NEW r \in Requests, CreateOrganization(r)
  PROVE  AccountsInv'
<1> USE InvFacts
<1> DEFINE o == Len(orgs) + 1
           n == [owner |-> req[r].user, base |-> req[r].base]
<1>0. UNCHANGED <<now, flows, users, identities, sessions, jar, asked, history>>
  BY DEF CreateOrganization
<1>1. /\ req[r].user \in DOMAIN users /\ req[r].base \subseteq DOMAIN orgs
      /\ \A p \in req[r].base : orgs[p].owner # req[r].user
  BY DEF CreateOrganization, Whole, Holding
<1>2. n \in [owner : Nat, base : SUBSET Nat] /\ n.owner = req[r].user /\ n.base = req[r].base
  BY DEF Request
<1>3. orgs' = Append(orgs, n) /\ Len(orgs) < MaxOrganisations /\ req' = [req EXCEPT ![r] = Idle]
  BY DEF CreateOrganization, Done
<1> HIDE DEF n
<1>4. /\ orgs' \in Seq([owner : Nat, base : SUBSET Nat]) /\ Len(orgs') <= MaxOrganisations
      /\ DOMAIN orgs \subseteq DOMAIN orgs' /\ o \in DOMAIN orgs' /\ o \notin DOMAIN orgs
      /\ orgs'[o] = n /\ \A k \in DOMAIN orgs : orgs'[k] = orgs[k]
      /\ \A k \in DOMAIN orgs' : k \in DOMAIN orgs \/ k = o
  <2>1. orgs \in Seq([owner : Nat, base : SUBSET Nat])
    BY DEF AccountsInv, TypeOK, Types
  <2> QED
    BY <1>2, <1>3, <2>1, AppendFacts, LifetimesAssumption
<1> HIDE DEF o
<1>5. /\ DOMAIN orgs \subseteq DOMAIN orgs'
      /\ orgs'[o].owner = req[r].user /\ orgs'[o].base = req[r].base
      /\ \A k \in DOMAIN orgs : orgs'[k] = orgs[k]
      /\ \A k \in DOMAIN orgs' : k \in DOMAIN orgs \/ k = o
  BY <1>2, <1>4
<1>6. req' \in [Requests -> Request] /\ req'[r] = Idle /\ \A q \in Requests \ {r} : req'[q] = req[q]
  BY <1>3, IdleWhole DEF AccountsInv, TypeOK, Types, Request
<1>7. Types'
  BY <1>0, <1>4, <1>6 DEF AccountsInv, TypeOK, Types, Request, history
<1>8. References'
  BY <1>0, <1>1, <1>5 DEF AccountsInv, TypeOK, References, history
<1>9. FlowsHeldOnce'
  <2>1. \A q \in Requests : req'[q].pc \in Holding => q # r /\ req'[q] = req[q]
    BY <1>6, IdleWhole DEF Holding
  <2> QED
    BY <1>0, <2>1 DEF AccountsInv, SignInInv, FlowsHeldOnce, history
<1>10. CookiesKept' /\ OneSessionPerFlow' /\ AccountsWhole' /\ SessionIsTheSigners'
  BY <1>0 DEF AccountsInv, SignInInv, CookiesKept, OneSessionPerFlow, AccountsWhole, SessionIsTheSigners, history
<1>11. RequestsWhole'
  <2>1. Whole(req[r])'
    BY <1>6, IdleWhole DEF Whole, Holding
  <2>2. ASSUME NEW q \in Requests \ {r} PROVE Whole(req[q])'
    BY <1>0, <1>5, <1>6 DEF Whole, Holding, history
  <2> QED
    BY <2>1, <2>2 DEF RequestsWhole
<1>12. OwnersApart'
  <2>1. \A p \in DOMAIN orgs : orgs[p].base \subseteq DOMAIN orgs
    BY DEF AccountsInv, TypeOK, References
  <2> QED
    BY <1>1, <1>5, <2>1 DEF AccountsInv, OwnersApart
<1>13. AddressesHeldOnce'
  BY <1>0, <1>6, IdleWhole DEF AccountsInv, AddressesHeldOnce, AddressTaken, SameAddress
<1> QED
  BY <1>7, <1>8, <1>9, <1>10, <1>11, <1>12, <1>13 DEF AccountsInv, TypeOK, SignInInv

(* Every step of the system keeps the invariant. *)
LEMMA NextInv == AccountsInv /\ [Next]_vars => AccountsInv'
<1> SUFFICES ASSUME AccountsInv, [Next]_vars PROVE AccountsInv'
  OBVIOUS
<1>1. ASSUME NEW r \in Requests, SignIn(r) \/ SignOut(r) \/ Create(r) PROVE AccountsInv'
  BY <1>1, AnswerSteps, RefusalSteps, ResolveSteps, ConsumeStep, BindStep, CreateSessionStep,
     RevokeStep, CreateOrganizationStep DEF SignIn, SignOut, Create
<1>2. ASSUME NEW r \in Requests, NEW b \in Browsers,
             \/ Start(r, b) \/ Logout(r, b) \/ RequestOrganisation(r, b)
             \/ \E f \in asked : Callback(r, b, f)
      PROVE  AccountsInv'
  BY <1>2, StartStep, ArrivalSteps, RequestOrganisationStep
<1>3. CASE Expire \/ Tick
  BY <1>3, SweepAndTick
<1>4. CASE UNCHANGED vars
  BY <1>4 DEF vars, tables, history, AccountsInv, TypeOK, Types, References, SignInInv, FlowsHeldOnce,
              CookiesKept, RequestsWhole, Whole, OneSessionPerFlow, SessionIsTheSigners, AddressesHeldOnce,
              AddressTaken, SameAddress, AccountsWhole, OwnersApart
<1> QED
  BY <1>1, <1>2, <1>3, <1>4 DEF Next

(* AccountsInv is an invariant of the specification. *)
LEMMA InvHolds == Spec => []AccountsInv
  BY InitInv, NextInv, PTL DEF Spec

-----------------------------------------------------------------------------
(* The identity tables and the cookies keep their types and references, in *)
(* any number of sign-ins (handleStart, handleCallback, createSession).    *)
THEOREM TypeCorrect == Spec => []TypeOK
<1>1. AccountsInv => TypeOK
  BY DEF AccountsInv
<1> QED
  BY <1>1, InvHolds, PTL

(* A started sign-in ends in at most one session, whatever callbacks are   *)
(* opened (ConsumeAuthFlow).                                               *)
THEOREM SignInOnce == Spec => []OneSessionPerFlow
<1>1. AccountsInv => OneSessionPerFlow
  BY DEF AccountsInv
<1> QED
  BY <1>1, InvHolds, PTL

(* A session is in the browser its sign-in was started in, and is of the   *)
(* account of the person who consented (handleCallback, FindIdentity).     *)
THEOREM SessionsAreTheSigners == Spec => []SessionIsTheSigners
<1>1. AccountsInv => SessionIsTheSigners
  BY DEF AccountsInv
<1> QED
  BY <1>1, InvHolds, PTL

(* Accounts and identities correspond one to one and no address is on two  *)
(* accounts, however many first sign-ins run at once (resolveOrProvision). *)
THEOREM AccountsAreWhole == Spec => []AccountsWhole
<1>1. AccountsInv => AccountsWhole
  BY DEF AccountsInv
<1> QED
  BY <1>1, InvHolds, PTL

(* A second organisation of one person was made beside the first, never    *)
(* after it (tenancy.Service.Create).                                      *)
THEOREM SecondOrganisationNeedsARace == Spec => []OrganisationsRaced
<1>1. AccountsInv => OrganisationsRaced
  BY DEF AccountsInv, OwnersApart, OrganisationsRaced
<1> QED
  BY <1>1, InvHolds, PTL

(* What a step may do to the sessions issued before it: no row of theirs   *)
(* appears or is revived, and a live one goes only by its browser's own    *)
(* revocation or with the clock.                                           *)
EndsStep(t) ==
  /\ Live(t) = {} => Live(t)' = {}
  /\ Live(t) # {} /\ Live(t)' = {} =>
       \/ now' > now
       \/ \E r \in Requests : req[r].pc = "revoke" /\ req[r].token = t /\ req[r].browser = issued[t].browser

(* Access ends by expiry or by the holder's own sign-out, and for good     *)
(* (FindLiveSessionWithUser, RevokeSession, DeleteExpiredSessions).        *)
THEOREM AccessEnds == Spec => SessionEnds
<1>1. ASSUME AccountsInv, [Next]_vars, NEW t \in DOMAIN issued PROVE EndsStep(t)
  <2>a. /\ now \in Nat /\ sessions \subseteq [token : Nat, user : Nat, expires : Nat, revoked : BOOLEAN]
    BY <1>1, LifetimesAssumption DEF AccountsInv, TypeOK, Types
  <2>1. CASE UNCHANGED <<now, sessions>>
    BY <2>1, <2>a DEF EndsStep, Live
  <2>2. ASSUME NEW r \in Requests, CreateSession(r) PROVE EndsStep(t)
    <3>1. PICK n : sessions' = sessions \cup {n} /\ n.token = Len(issued) + 1 /\ now' = now
      <4> DEFINE n == [token |-> Len(issued) + 1, user |-> req[r].user,
                       expires |-> now + SessionLifetime, revoked |-> FALSE]
      <4>1. sessions' = sessions \cup {n} /\ n.token = Len(issued) + 1 /\ now' = now
        BY <2>2 DEF CreateSession
      <4> QED
        BY <4>1
    <3>2. t # Len(issued) + 1
      BY <1>1, RowNumbers DEF AccountsInv, TypeOK, Types
    <3>3. Live(t)' = Live(t)
      BY <3>1, <3>2 DEF Live
    <3> QED
      BY <3>3 DEF EndsStep
  <2>3. ASSUME NEW r \in Requests, Revoke(r) PROVE EndsStep(t)
    <3>1. /\ now' = now /\ req[r].pc = "revoke" /\ req[r].browser = issued[req[r].token].browser
          /\ sessions' = {IF x.token = req[r].token THEN [x EXCEPT !.revoked = TRUE] ELSE x : x \in sessions}
      BY <1>1, <2>3 DEF Revoke, AccountsInv, SignInInv, RequestsWhole, Whole
    <3>2. CASE req[r].token = t
      <4>1. Live(t)' = {}
        BY <2>a, <3>1, <3>2 DEF Live
      <4> QED
        BY <3>1, <3>2, <4>1 DEF EndsStep
    <3>3. CASE req[r].token # t
      <4>1. Live(t)' = Live(t)
        BY <2>a, <3>1, <3>3 DEF Live
      <4> QED
        BY <4>1 DEF EndsStep
    <3> QED
      BY <3>2, <3>3
  <2>4. CASE Expire
    <3>1. now' = now /\ sessions' = sessions \ {x \in sessions : x.expires < now - SessionRetention}
      BY <2>4 DEF Expire, ExpiredSessions
    <3>2. Live(t)' = Live(t)
      BY <2>a, <3>1, LifetimesAssumption DEF Live
    <3> QED
      BY <3>2 DEF EndsStep
  <2>5. CASE Tick
    BY <2>5, <2>a DEF Tick, tables, EndsStep, Live
  <2>6. ASSUME NEW r \in Requests, ~CreateSession(r), ~Revoke(r), SignIn(r) \/ SignOut(r) \/ Create(r)
        PROVE  UNCHANGED <<now, sessions>>
    BY <2>6 DEF SignIn, SignOut, Create, StartAnswered, Consume, FindIdentity, InsertUser, Bind, BindRefused,
         Welcome, Refused, Fails, Lost, RevokeFails, SignedOut, CreateOrganization, CreateOrganizationFails, tables
  <2>7. ASSUME NEW r \in Requests, NEW b \in Browsers,
               \/ Start(r, b) \/ Logout(r, b) \/ RequestOrganisation(r, b)
               \/ \E f \in asked : Callback(r, b, f)
        PROVE  UNCHANGED <<now, sessions>>
    BY <2>7 DEF Start, Logout, RequestOrganisation, Callback, tables
  <2>8. CASE UNCHANGED vars
    BY <2>1, <2>8 DEF vars, tables
  <2> QED
    BY <1>1, <2>1, <2>2, <2>3, <2>4, <2>5, <2>6, <2>7, <2>8 DEF Next
<1>2. AccountsInv /\ [Next]_vars =>
        [\A t \in DOMAIN issued :
           /\ Live(t) = {} => Live(t)' = {}
           /\ Live(t) # {} /\ Live(t)' = {} =>
                \/ now' > now
                \/ \E r \in Requests : req[r].pc = "revoke" /\ req[r].token = t
                                       /\ req[r].browser = issued[t].browser]_vars
  BY <1>1 DEF EndsStep
<1> QED
  BY <1>2, InvHolds, PTL DEF Spec, SessionEnds
=============================================================================
