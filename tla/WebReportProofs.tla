--------------------------- MODULE WebReportProofs ---------------------------
(***************************************************************************)
(* The shell and the report under it, for every set of months a link may   *)
(* name, every set of batches and rows, every range and any number of      *)
(* failures, landings and page loads.                                      *)
(*                                                                         *)
(* The tenant set is of somebody this page was told of, who may not be the *)
(* person it shows: another tab signs in under it.  That a person whose    *)
(* tenant is set is never again shown without an organisation rests on     *)
(* core, where organisations only come, and on answers arriving in the     *)
(* order they were read (TenantInv).                                       *)
(*                                                                         *)
(* The numbers of a report agree because its sums do: a sum over a finite  *)
(* set may be taken in any order, apart and part by part (Sum lemmas, from *)
(* the community modules' definition).  What the page holds is always such *)
(* an answer (ReportInv).                                                  *)
(***************************************************************************)
EXTENDS WebShell, WebReport, FiniteSetTheorems, TLAPS

Who == People \cup {Anonymous}
Replies == {a \in Answers : a.org \in {NoOrg, a.person}}
Ordered == {r \in MonthRange : r.from <= r.to}

TenantTyped ==
  /\ account \in Who /\ founded \in SUBSET People /\ met \in SUBSET People
  /\ user \in Replies /\ carried \in Replies
  /\ userError \in {"none", "unauthenticated", "failed"}
  /\ session \in met \cup {NoOrg} /\ summary \in met \cup {NoOrg}

\* What the page has been told is true of core still, and told in order.
InOrder ==
  /\ session # NoOrg => session \in founded
  /\ user.org # NoOrg => user.person \in founded \cap met
  /\ carried.org # NoOrg => carried.person \in founded
  /\ carried # Nobody /\ carried.person = user.person /\ user.org # NoOrg => carried.org # NoOrg

\* A person whose tenant is set is not shown, nor about to be, without it.
TenantKnown ==
  /\ user.person = session => user.org = session
  /\ carried # Nobody /\ carried.person = session => carried.org = session

TenantShown == AppLayout = "screens" => session = (IF cleared THEN NoOrg ELSE user.org)

TenantInv == TenantTyped /\ InOrder /\ TenantKnown /\ TenantShown

RangeInv ==
  /\ now \in Nat \ {0} /\ remembered \in Ordered
  /\ stored = NoRange \/ stored \in Ordered
  /\ route = "pnl" => search \in MonthRange /\ (~linked => search \in Ordered)

ThemeInv == dataTheme = "absent" <=> theme = "system"

ShellInv == TenantInv /\ RangeInv /\ ThemeInv

-----------------------------------------------------------------------------
(* A year to date is a range; two ranges that read alike are one.  ui/     *)
(* period.ts:31-58.                                                        *)
LEMMA DefaultOrdered ==
  ASSUME NEW at \in Nat \ {0}
  PROVE  defaultRange(at) \in Ordered
BY DEF defaultRange, Year, Ordered, MonthRange

(* A month and a year name one month.                                      *)
LEMMA MonthsApart ==
  ASSUME NEW m \in Nat \ {0}, NEW n \in Nat \ {0}, Month(m) = Month(n), Year(m) = Year(n)
  PROVE  m = n
BY DEF Month, Year

(* Two ranges that read alike are one.                                     *)
LEMMA ReadsApart ==
  ASSUME NEW r \in MonthRange, NEW s \in MonthRange, formatPeriodRange(r) = formatPeriodRange(s)
  PROVE  r = s
<1>1. CASE Year(r.from) = Year(r.to) /\ Year(s.from) = Year(s.to)
  <2>1. Month(r.from) = Month(s.from) /\ Month(r.to) = Month(s.to) /\ Year(r.from) = Year(s.from)
    BY <1>1 DEF formatPeriodRange
  <2>2. r.from = s.from /\ r.to = s.to
    <3>1. /\ r.from \in Nat \ {0} /\ s.from \in Nat \ {0}
          /\ r.to \in Nat \ {0} /\ s.to \in Nat \ {0}
      BY DEF MonthRange
    <3> QED  BY <1>1, <2>1, <3>1, MonthsApart
  <2> QED  BY <2>2 DEF MonthRange
<1>2. CASE Year(r.from) # Year(r.to) /\ Year(s.from) # Year(s.to)
  <2>1. /\ Month(r.from) = Month(s.from) /\ Month(r.to) = Month(s.to)
        /\ Year(r.from) = Year(s.from) /\ Year(r.to) = Year(s.to)
    BY <1>2 DEF formatPeriodRange
  <2> QED  BY <2>1, MonthsApart DEF MonthRange
<1>3. CASE (Year(r.from) = Year(r.to)) # (Year(s.from) = Year(s.to))
  <2>1. Len(formatPeriodRange(r)) # Len(formatPeriodRange(s))
    BY <1>3 DEF formatPeriodRange
  <2> QED  BY <2>1
<1> QED  BY <1>1, <1>2, <1>3

(* The range a page starts with is one.                                    *)
LEMMA InitOrdered ==
  ASSUME RangeInv, NEW at \in Nat \ {0}
  PROVE  initPeriodRange(at) \in Ordered
BY DefaultOrdered DEF initPeriodRange, RangeInv

(* A link's ends stand where it has them, the fallback's elsewhere.        *)
LEMMA SearchValid ==
  ASSUME NEW s \in [from : Nat, to : Nat], NEW r \in Ordered
  PROVE  /\ validateSearch(s, r) \in MonthRange
         /\ s = NoSearch => validateSearch(s, r) = r
BY DEF validateSearch, NoSearch, Ordered, MonthRange

-----------------------------------------------------------------------------
(* Only somebody with an organisation sees the screens. *)
LEMMA ScreensMember ==
  ASSUME user \in Replies, userError \in {"none", "unauthenticated", "failed"}, AppLayout = "screens"
  PROVE  /\ route \in AppRoutes /\ userError = "none" /\ user # Nobody
         /\ user.org # NoOrg /\ user.org = user.person
<1>1. CASE route \notin AppRoutes
  BY <1>1 DEF AppLayout
<1>2. CASE route \in AppRoutes /\ userError = "unauthenticated"
  BY <1>2 DEF AppLayout
<1>3. CASE route \in AppRoutes /\ userError = "failed"
  BY <1>3 DEF AppLayout
<1>4. CASE route \in AppRoutes /\ userError = "none" /\ user = Nobody
  BY <1>4 DEF AppLayout
<1>5. CASE route \in AppRoutes /\ userError = "none" /\ user # Nobody /\ user.org = NoOrg
  BY <1>5 DEF AppLayout
<1>6. user.org # NoOrg => user.org = user.person
  BY DEF Replies
<1> QED  BY <1>1, <1>2, <1>3, <1>4, <1>5, <1>6

(* Nobody is an answer, and core's answers are. *)
LEMMA NobodyReplies ==
  Nobody \in Replies /\ Nobody.org = NoOrg /\ Nobody.person = Anonymous
BY DEF Nobody, Replies, Answers

LEMMA CoreReplies ==
  ASSUME account \in Who, founded \in SUBSET People
  PROVE  /\ CurrentUser \in Replies /\ CurrentUser.person = account
         /\ CurrentUser.org # NoOrg => account \in founded
         /\ account \in founded => CurrentUser.org = account
BY DEF CurrentUser, Replies, Answers, Who

(* An answer with no name and one with NoOrg for a person are Nobody. *)
LEMMA NamedReply ==
  ASSUME NEW a \in Replies, a # Nobody, ShellConstants
  PROVE  a.person # NoOrg \/ a.org = NoOrg
BY DEF Replies

(* A page that is loaded knows of nobody. *)
LEMMA PageTenant ==
  ASSUME NEW r, NEW s, LoadPage(r, s), account' \in Who, founded' \in SUBSET People
  PROVE  TenantInv'
<1>1. /\ user' = Nobody /\ carried' = Nobody /\ userError' = "none" /\ summary' = NoOrg
      /\ session' = NoOrg /\ met' = {}
  BY DEF LoadPage
<1>2. TenantTyped'
  BY <1>1, NobodyReplies DEF TenantTyped
<1>3. InOrder'
  BY <1>1, NobodyReplies DEF InOrder
<1>4. TenantKnown'
  BY <1>1, NobodyReplies DEF TenantKnown
<1>5. TenantShown'
  BY <1>1, NobodyReplies DEF TenantShown
<1> QED  BY <1>2, <1>3, <1>4, <1>5 DEF TenantInv

(* Its range is the link's, or the one it starts with. *)
LEMMA PageRange ==
  ASSUME NEW r \in AppRoutes \cup {"landing"}, NEW s \in Links, LoadPage(r, s),
         RangeInv, now' = now, stored' = stored, Months \subseteq Nat
  PROVE  RangeInv'
<1>1. initPeriodRange(now) \in Ordered
  BY InitOrdered DEF RangeInv
<1>2. /\ remembered' = initPeriodRange(now) /\ route' = r /\ linked' = (s # NoSearch)
      /\ r = "pnl" => search' = validateSearch(s, initPeriodRange(now))
  BY DEF LoadPage
<1>3. s \in [from : Nat, to : Nat]
  <2>1. Months \cup {0} \subseteq Nat
    OBVIOUS
  <2> QED  BY <2>1 DEF Links
<1> QED  BY <1>1, <1>2, <1>3, SearchValid DEF RangeInv

(* A render with the same answers about. *)
LEMMA RenderedStep ==
  ASSUME TenantInv, UNCHANGED <<coreVars, user, carried, userError, met>>, summary' \in met \cup {NoOrg}, Rendered
  PROVE  TenantInv'
<1>1. /\ UNCHANGED <<account, founded, user, carried, userError, met>>
      /\ TenantTyped /\ InOrder /\ TenantKnown /\ TenantShown
  BY DEF TenantInv, coreVars
<1>2. CASE AppLayout' = "screens"
  <2>1. session' = user.org /\ cleared' = FALSE
    BY <1>1, <1>2 DEF Rendered
  <2>2. user' \in Replies /\ userError' \in {"none", "unauthenticated", "failed"}
    BY <1>1 DEF TenantTyped
  <2>3. user.org # NoOrg /\ user.org = user.person
    <3>1. CASE route' \notin AppRoutes
      BY <1>2, <3>1 DEF AppLayout
    <3>2. CASE route' \in AppRoutes /\ userError' = "none" /\ user' # Nobody /\ user'.org # NoOrg
      BY <1>1, <3>2 DEF TenantTyped, Replies
    <3>3. CASE route' \in AppRoutes /\ userError' # "none"
      BY <1>2, <2>2, <3>3 DEF AppLayout
    <3>4. CASE route' \in AppRoutes /\ userError' = "none" /\ (user' = Nobody \/ user'.org = NoOrg)
      BY <1>2, <3>4 DEF AppLayout
    <3> QED  BY <3>1, <3>2, <3>3, <3>4
  <2>4. user.org \in founded \cap met
    BY <1>1, <2>3 DEF InOrder
  <2>5. TenantTyped'
    BY <1>1, <2>1, <2>4 DEF TenantTyped
  <2>6. InOrder'
    BY <1>1, <2>1, <2>4 DEF InOrder
  <2>7. TenantKnown'
    <3>1. ASSUME carried # Nobody, carried.person = user.org  PROVE carried.org = user.org
      <4>1. carried.org # NoOrg /\ carried \in Replies
        BY <1>1, <2>3, <3>1 DEF InOrder, TenantTyped
      <4> QED  BY <2>3, <3>1, <4>1 DEF Replies
    <3> QED  BY <1>1, <2>1, <2>3, <3>1 DEF TenantKnown
  <2>8. TenantShown'
    BY <1>1, <2>1 DEF TenantShown
  <2> QED  BY <2>5, <2>6, <2>7, <2>8 DEF TenantInv
<1>3. CASE AppLayout' # "screens"
  <2>1. session' = session /\ cleared' = cleared
    BY <1>3 DEF Rendered, tenantVars
  <2>2. TenantTyped'
    BY <1>1, <2>1 DEF TenantTyped
  <2>3. InOrder' /\ TenantKnown'
    BY <1>1, <2>1 DEF InOrder, TenantKnown
  <2>4. TenantShown'
    BY <1>3 DEF TenantShown
  <2> QED  BY <2>2, <2>3, <2>4 DEF TenantInv
<1> QED  BY <1>2, <1>3

(* An answer arrives and the shell is rendered with it. *)
LEMMA ArriveStep ==
  ASSUME TenantInv, UserArrive
  PROVE  TenantInv'
<1>1. /\ TenantTyped /\ InOrder /\ TenantKnown
      /\ UNCHANGED <<account, founded, summary>> /\ carried' = Nobody /\ Rendered
  BY DEF TenantInv, UserArrive, coreVars
<1>2. CASE carried = Nobody
  <2>1. user' = user /\ met' = met /\ userError' = "unauthenticated"
    BY <1>2 DEF UserArrive
  <2>2. AppLayout' # "screens"
    BY <2>1 DEF AppLayout
  <2>3. session' = session /\ cleared' = cleared
    BY <1>1, <2>2 DEF Rendered, tenantVars
  <2>4. TenantTyped'
    BY <1>1, <2>1, <2>3, NobodyReplies DEF TenantTyped
  <2>5. InOrder' /\ TenantKnown'
    BY <1>1, <2>1, <2>3, NobodyReplies DEF InOrder, TenantKnown
  <2> QED  BY <2>2, <2>4, <2>5 DEF TenantInv, TenantShown
<1>3. CASE carried # Nobody
  <2>1. user' = carried /\ met' = met \cup {carried.person} /\ userError' = "none"
    BY <1>3 DEF UserArrive
  <2>2. carried \in Replies /\ carried.person \in People
    <3>1. carried \in Replies
      BY <1>1 DEF TenantTyped
    <3>2. carried.person # Anonymous
      <4>1. ASSUME carried.person = Anonymous  PROVE FALSE
        <5>1. carried.person \notin founded
          BY <1>1, <4>1, ShellConstants DEF TenantTyped, ShellConstants
        <5>2. carried.org = NoOrg
          BY <1>1, <5>1 DEF InOrder
        <5>3. carried = Nobody
          BY <3>1, <4>1, <5>2 DEF Replies, Answers, Nobody
        <5> QED  BY <1>3, <5>3
      <4> QED  BY <4>1
    <3> QED  BY <3>1, <3>2 DEF Replies, Answers
  <2>3. carried.org # NoOrg => carried.person \in founded /\ carried.org = carried.person
    BY <1>1, <2>2 DEF InOrder, Replies
  <2>4. CASE AppLayout' = "screens"
    <3>1. session' = carried.org /\ cleared' = FALSE
      BY <1>1, <2>1, <2>4 DEF Rendered
    <3>2. TenantTyped'
      <4>1. session' \in met' \cup {NoOrg}
        BY <2>1, <2>3, <3>1
      <4> QED  BY <1>1, <2>1, <2>2, <4>1, NobodyReplies DEF TenantTyped
    <3>3. InOrder'
      BY <1>1, <2>1, <2>3, <3>1, NobodyReplies DEF InOrder
    <3>4. TenantKnown' /\ TenantShown'
      BY <1>1, <2>1, <3>1 DEF TenantKnown, TenantShown
    <3> QED  BY <3>2, <3>3, <3>4 DEF TenantInv
  <2>5. CASE AppLayout' # "screens"
    <3>1. session' = session
      BY <1>1, <2>5 DEF Rendered, tenantVars
    <3>2. TenantTyped'
      <4>1. session' \in met' \cup {NoOrg} /\ summary' \in met' \cup {NoOrg}
        BY <1>1, <2>1, <3>1 DEF TenantTyped
      <4> QED  BY <1>1, <2>1, <2>2, <4>1, NobodyReplies DEF TenantTyped
    <3>3. InOrder'
      BY <1>1, <2>1, <2>3, <3>1, NobodyReplies DEF InOrder
    <3>4. TenantKnown'
      BY <1>1, <1>3, <2>1, <3>1 DEF TenantKnown
    <3> QED  BY <2>5, <3>2, <3>3, <3>4 DEF TenantInv, TenantShown
  <2> QED  BY <2>4, <2>5
<1> QED  BY <1>2, <1>3

(* Who is signed in, and the tenant set for them.                          *)
LEMMA TenantStep ==
  ASSUME ShellInv, [ShellNext]_shellVars, ShellConstants
  PROVE  TenantInv'
<1> USE DEF ShellInv
<1>0. TenantTyped /\ InOrder /\ TenantKnown /\ TenantShown
  BY DEF TenantInv
<1>1. ASSUME account' \in Who, founded' \in SUBSET People, founded \subseteq founded',
             UNCHANGED <<user, session, cleared, summary, met>>,
             carried' \in {carried, Nobody},
             userError' \in {"none", "unauthenticated", "failed"},
             AppLayout' = "screens" => AppLayout = "screens"
      PROVE  TenantInv'
  <2>1. TenantTyped'
    BY <1>0, <1>1, NobodyReplies DEF TenantTyped
  <2>2. InOrder' /\ TenantKnown'
    BY <1>0, <1>1, NobodyReplies DEF InOrder, TenantKnown
  <2>3. TenantShown'
    BY <1>0, <1>1 DEF TenantShown
  <2> QED  BY <2>1, <2>2, <2>3 DEF TenantInv
<1>2. ASSUME NEW r \in AppRoutes, NEW s \in Links, OpenLink(r, s)  PROVE TenantInv'
  <2>1. LoadPage(r, s) /\ UNCHANGED <<account, founded, now, stored>>
    BY <1>2 DEF OpenLink, coreVars
  <2> QED  BY <1>0, <2>1, PageTenant DEF TenantTyped
<1>3. ASSUME NEW who \in People, SignIn(who)  PROVE TenantInv'
  <2>1. LoadPage("home", NoSearch) /\ account' = who /\ UNCHANGED <<founded, now, stored>>
    BY <1>3 DEF SignIn
  <2> QED  BY <1>0, <2>1, PageTenant DEF Who, TenantTyped
<1>4. ASSUME SignedOut  PROVE TenantInv'
  <2>1. LoadPage("landing", NoSearch) /\ account' = Anonymous /\ UNCHANGED <<founded, now, stored>>
    BY <1>4 DEF SignedOut
  <2> QED  BY <1>0, <2>1, PageTenant DEF Who, TenantTyped
<1>5. ASSUME NEW who \in People \cup {Anonymous}, CookieChanges(who)  PROVE TenantInv'
  <2>1. account' \in Who /\ founded' = founded /\ UNCHANGED pageVars
    BY <1>5 DEF CookieChanges, Who
  <2>2. UNCHANGED <<route, user, carried, userError, session, cleared, summary, met>>
    BY <2>1 DEF pageVars, userVars, tenantVars
  <2>3. AppLayout' = AppLayout
    BY <2>2 DEF AppLayout
  <2> QED  BY <1>0, <1>1, <2>1, <2>2, <2>3 DEF TenantTyped
<1>6. ASSUME FoundedElsewhere  PROVE TenantInv'
  <2>1. account \in People /\ account' = account /\ founded' = founded \cup {account} /\ UNCHANGED pageVars
    BY <1>6 DEF FoundedElsewhere
  <2>2. UNCHANGED <<route, user, carried, userError, session, cleared, summary, met>>
    BY <2>1 DEF pageVars, userVars, tenantVars
  <2>3. AppLayout' = AppLayout
    BY <2>2 DEF AppLayout
  <2> QED  BY <1>0, <1>1, <2>1, <2>2, <2>3 DEF TenantTyped, Who
<1>7. ASSUME UserServed  PROVE TenantInv'
  <2>1. /\ carried' = CurrentUser
        /\ UNCHANGED <<account, founded, route, user, userError, session, cleared, summary, met>>
    BY <1>7 DEF UserServed, coreVars, tenantVars
  <2>2. /\ CurrentUser \in Replies /\ CurrentUser.person = account
        /\ CurrentUser.org # NoOrg => account \in founded
        /\ account \in founded => CurrentUser.org = account
    BY <1>0, CoreReplies DEF TenantTyped
  <2>3. TenantTyped'
    BY <1>0, <2>1, <2>2 DEF TenantTyped
  <2>4. InOrder'
    <3>1. ASSUME account = user.person, user.org # NoOrg  PROVE CurrentUser.org # NoOrg
      <4>1. account \in founded
        BY <1>0, <3>1 DEF InOrder
      <4>2. account # NoOrg
        BY <1>0, <4>1, ShellConstants DEF TenantTyped, ShellConstants
      <4> QED  BY <2>2, <4>1, <4>2
    <3> QED  BY <1>0, <2>1, <2>2, <3>1 DEF InOrder
  <2>5. TenantKnown'
    <3>1. ASSUME CurrentUser # Nobody, account = session  PROVE CurrentUser.org = session
      <4>1. CASE session # NoOrg
        BY <1>0, <2>2, <3>1, <4>1 DEF InOrder
      <4>2. CASE session = NoOrg
        <5>1. account \notin founded
          BY <1>0, <3>1, <4>2, ShellConstants DEF TenantTyped, ShellConstants
        <5> QED  BY <2>2, <4>2, <5>1
      <4> QED  BY <4>1, <4>2
    <3> QED  BY <1>0, <2>1, <2>2, <3>1 DEF TenantKnown
  <2>6. AppLayout' = AppLayout
    BY <2>1 DEF AppLayout
  <2>7. TenantShown'
    BY <1>0, <2>1, <2>6 DEF TenantShown
  <2> QED  BY <2>3, <2>4, <2>5, <2>7 DEF TenantInv
<1>8. ASSUME UserArrive  PROVE TenantInv'
  BY <1>8, ArriveStep
<1>9. ASSUME UserFail  PROVE TenantInv'
  <2>1. /\ userError' = "failed" /\ carried' = Nobody
        /\ UNCHANGED <<account, founded, user, session, cleared, summary, met>>
    BY <1>9 DEF UserFail, coreVars, tenantVars
  <2>2. AppLayout' # "screens"
    BY <2>1 DEF AppLayout
  <2> QED  BY <1>0, <1>1, <2>1, <2>2 DEF TenantTyped
<1>10. ASSUME Focus  PROVE TenantInv'
  <2>1. /\ userError' = IF user = Nobody THEN "none" ELSE userError
        /\ UNCHANGED <<account, founded, route, user, carried, session, cleared, summary, met>>
    BY <1>10 DEF Focus, coreVars, tenantVars
  <2>2. AppLayout' = "screens" => AppLayout = "screens"
    BY <2>1 DEF AppLayout
  <2> QED  BY <1>0, <1>1, <2>1, <2>2 DEF TenantTyped
<1>11. ASSUME SummaryTry  PROVE TenantInv'
  <2>1. UNCHANGED <<coreVars, userVars, met, route>>
    BY <1>11 DEF SummaryTry
  <2>2. CASE UNCHANGED <<summary, tenantVars>>
    <3>1. UNCHANGED <<account, founded, route, user, carried, userError, session, cleared, summary, met>>
      BY <2>1, <2>2 DEF coreVars, userVars, tenantVars
    <3>2. AppLayout' = AppLayout
      BY <3>1 DEF AppLayout
    <3> QED  BY <1>0, <1>1, <3>1, <3>2 DEF TenantTyped
  <2>3. CASE summary' = session /\ Rendered
    BY <1>0, <2>1, <2>3, RenderedStep DEF TenantTyped, userVars
  <2> QED  BY <1>11, <2>2, <2>3 DEF SummaryTry
<1>12. ASSUME \/ \E r \in AppRoutes : Navigate(r)
              \/ \E end \in {"from", "to"}, m \in Months : ChoosePeriod(end, m)
              \/ \E t \in {"light", "dark", "system"} : SetTheme(t)
              \/ \E l \in {"en", "ru"} : SetLocale(l)
       PROVE  TenantInv'
  <2>1. UNCHANGED <<coreVars, user, carried, userError, met, summary>> /\ Rendered
    BY <1>12 DEF Navigate, ChoosePeriod, SetTheme, SetLocale, userVars
  <2>2. summary' \in met \cup {NoOrg}
    BY <1>0, <2>1 DEF TenantTyped
  <2> QED  BY <2>1, <2>2, RenderedStep
<1>13. ASSUME OrganisationAnswered  PROVE TenantInv'
  <2>1. /\ account' = account /\ founded' \in {founded, founded \cup {account}}
        /\ carried' \in {carried, Nobody} /\ account # Anonymous
        /\ UNCHANGED <<route, user, userError, session, cleared, summary, met>>
    BY <1>13 DEF OrganisationAnswered, tenantVars
  <2>2. AppLayout' = AppLayout
    BY <2>1 DEF AppLayout
  <2>3. account \in People
    BY <1>0, <2>1 DEF TenantTyped, Who
  <2> QED  BY <1>0, <1>1, <2>1, <2>2, <2>3 DEF TenantTyped
<1>14. ASSUME SignOut  PROVE TenantInv'
  <2>1. /\ session' = NoOrg /\ cleared' = TRUE
        /\ UNCHANGED <<account, founded, user, carried, userError, summary, met>>
    BY <1>14 DEF SignOut, coreVars, userVars
  <2>2. TenantTyped'
    BY <1>0, <2>1 DEF TenantTyped
  <2>3. InOrder'
    BY <1>0, <2>1 DEF InOrder
  <2>4. TenantKnown'
    BY <1>0, <2>1 DEF TenantKnown, TenantTyped, Replies
  <2>5. TenantShown'
    BY <2>1 DEF TenantShown
  <2> QED  BY <2>2, <2>3, <2>4, <2>5 DEF TenantInv
<1>15. ASSUME \/ \E r \in [from : Months, to : Months] : StoredElsewhere(r)
              \/ NextMonth \/ CreateOrganisation \/ OrganisationRefused \/ SignOutFails
              \/ UNCHANGED shellVars
       PROVE  TenantInv'
  <2>1. UNCHANGED <<coreVars, route, userVars, tenantVars, summary, met>>
    BY <1>15 DEF StoredElsewhere, NextMonth, CreateOrganisation, OrganisationRefused, SignOutFails,
       shellVars, pageVars
  <2>2. UNCHANGED <<account, founded, route, user, carried, userError, session, cleared, summary, met>>
    BY <2>1 DEF coreVars, userVars, tenantVars
  <2>3. AppLayout' = AppLayout
    BY <2>2 DEF AppLayout
  <2> QED  BY <1>0, <1>1, <2>2, <2>3 DEF TenantTyped
<1>16. CASE ShellNext
  BY <1>2, <1>3, <1>4, <1>5, <1>6, <1>7, <1>8, <1>9, <1>10, <1>11, <1>12, <1>13, <1>14, <1>15, <1>16
     DEF ShellNext
<1> QED  BY <1>15, <1>16

(* The range of the route, the one remembered and the one stored.          *)
LEMMA RangeStep ==
  ASSUME ShellInv, [ShellNext]_shellVars, ShellConstants
  PROVE  RangeInv'
<1> USE DEF ShellInv
<1>1. ASSUME UNCHANGED <<now, route, rangeVars>>  PROVE RangeInv'
  BY <1>1 DEF RangeInv, rangeVars
<1>2. ASSUME NEW r \in AppRoutes, NEW s \in Links, OpenLink(r, s)  PROVE RangeInv'
  <2>1. LoadPage(r, s) /\ UNCHANGED <<now, stored>>
    BY <1>2 DEF OpenLink
  <2> QED  BY <2>1, PageRange, ShellConstants DEF ShellConstants
<1>3. ASSUME NEW who \in People, SignIn(who)  PROVE RangeInv'
  <2>1. LoadPage("home", NoSearch) /\ UNCHANGED <<now, stored>>
    BY <1>3 DEF SignIn
  <2>2. NoSearch \in Links
    BY DEF NoSearch, Links
  <2> QED  BY <2>1, <2>2, PageRange, ShellConstants DEF AppRoutes, ShellConstants
<1>4. ASSUME SignedOut  PROVE RangeInv'
  <2>1. LoadPage("landing", NoSearch) /\ UNCHANGED <<now, stored>>
    BY <1>4 DEF SignedOut
  <2>2. NoSearch \in Links
    BY DEF NoSearch, Links
  <2> QED  BY <2>1, <2>2, PageRange, ShellConstants DEF ShellConstants
<1>5. ASSUME NextMonth  PROVE RangeInv'
  BY <1>5 DEF NextMonth, RangeInv, rangeVars, pageVars
<1>6. ASSUME NEW r \in AppRoutes, Navigate(r)  PROVE RangeInv'
  <2>1. /\ route' = r /\ UNCHANGED <<now, remembered, stored>>
        /\ r = "pnl" => search' = validateSearch(NoSearch, remembered)
    BY <1>6 DEF Navigate
  <2>2. NoSearch \in [from : Nat, to : Nat]
    BY DEF NoSearch
  <2> QED  BY <2>1, <2>2, SearchValid DEF RangeInv
<1>7. ASSUME NEW end \in {"from", "to"}, NEW m \in Months, ChoosePeriod(end, m)  PROVE RangeInv'
  <2> DEFINE next == IF end = "from" THEN [HeaderRange EXCEPT !.from = m]
                     ELSE [HeaderRange EXCEPT !.to = m]
  <2>1. HeaderRange \in MonthRange
    BY DEF HeaderRange, RangeInv, Ordered
  <2>2. m \in Nat \ {0}
    BY ShellConstants DEF ShellConstants
  <2>3. next \in Ordered
    BY <1>7, <2>1, <2>2 DEF ChoosePeriod, Ordered, MonthRange
  <2>4. /\ remembered' = next /\ stored' \in {next, stored} /\ UNCHANGED <<now, route>>
        /\ route = "pnl" => search' = next
    BY <1>7 DEF ChoosePeriod
  <2> HIDE DEF next
  <2> QED  BY <2>3, <2>4 DEF RangeInv, Ordered
<1>8. ASSUME NEW r \in [from : Months, to : Months], StoredElsewhere(r)  PROVE RangeInv'
  <2>1. r \in Ordered
    BY <1>8, ShellConstants DEF StoredElsewhere, Ordered, MonthRange, ShellConstants
  <2> QED  BY <1>8, <2>1 DEF StoredElsewhere, RangeInv, pageVars
<1>9. ASSUME \/ \E who \in People \cup {Anonymous} : CookieChanges(who)
             \/ FoundedElsewhere \/ Focus \/ UserServed \/ UserArrive \/ UserFail \/ SummaryTry
             \/ \E t \in {"light", "dark", "system"} : SetTheme(t)
             \/ \E l \in {"en", "ru"} : SetLocale(l)
             \/ CreateOrganisation \/ OrganisationAnswered \/ OrganisationRefused
             \/ SignOut \/ SignOutFails
      PROVE  RangeInv'
  BY <1>1, <1>9 DEF CookieChanges, FoundedElsewhere, pageVars, Focus, UserServed, UserArrive, UserFail, SummaryTry, SetTheme, SetLocale,
     CreateOrganisation, OrganisationAnswered, OrganisationRefused, SignOut, SignOutFails
<1>10. CASE UNCHANGED shellVars
  BY <1>1, <1>10 DEF shellVars, pageVars
<1>11. CASE ShellNext
  BY <1>2, <1>3, <1>4, <1>5, <1>6, <1>7, <1>8, <1>9, <1>11 DEF ShellNext
<1> QED  BY <1>10, <1>11

(* The theme chosen and the one on the page.                               *)
LEMMA ThemeStep ==
  ASSUME ShellInv, [ShellNext]_shellVars
  PROVE  ThemeInv'
<1>1. ASSUME NEW t \in {"light", "dark", "system"}, SetTheme(t)  PROVE ThemeInv'
  BY <1>1 DEF SetTheme, ThemeInv
<1>2. ASSUME UNCHANGED <<theme, dataTheme>>  PROVE ThemeInv'
  BY <1>2 DEF ShellInv, ThemeInv
<1>3. CASE UNCHANGED shellVars
  BY <1>2, <1>3 DEF shellVars, preferenceVars
<1>4. CASE ShellNext
  BY <1>1, <1>2, <1>4 DEF ShellNext, preferenceVars, OpenLink, SignIn, SignedOut, Navigate, ChoosePeriod,
     CookieChanges, FoundedElsewhere, StoredElsewhere, NextMonth, Focus, UserServed, UserArrive, UserFail, SummaryTry, SetLocale,
     CreateOrganisation, OrganisationAnswered, OrganisationRefused, SignOut, SignOutFails
<1> QED  BY <1>3, <1>4

-----------------------------------------------------------------------------
(* The page load.                                                          *)
LEMMA ShellInvInit ==
  ASSUME ShellInit, ShellConstants
  PROVE  ShellInv
<1>1. TenantInv
  <2>1. /\ user = Nobody /\ carried = Nobody /\ userError = "none" /\ session = NoOrg
        /\ summary = NoOrg /\ met = {} /\ account \in Who /\ founded \in SUBSET People
    BY DEF ShellInit, Who
  <2>2. TenantTyped
    BY <2>1, NobodyReplies DEF TenantTyped
  <2>3. InOrder /\ TenantKnown /\ TenantShown
    BY <2>1, NobodyReplies DEF InOrder, TenantKnown, TenantShown
  <2> QED  BY <2>2, <2>3 DEF TenantInv
<1>2. now \in Nat \ {0} /\ (stored = NoRange \/ stored \in Ordered)
  BY DEF ShellInit, ShellConstants, Ordered, MonthRange
<1>3. initPeriodRange(FirstMonth) \in Ordered
  BY <1>2, DefaultOrdered DEF initPeriodRange, ShellConstants
<1>4. PICK s \in Links :
        /\ route = "pnl" => search = validateSearch(s, remembered)
        /\ linked = (s # NoSearch) /\ remembered = initPeriodRange(FirstMonth)
  BY DEF ShellInit
<1>5. s \in [from : Nat, to : Nat]
  <2>1. Months \cup {0} \subseteq Nat
    BY DEF ShellConstants
  <2> QED  BY <2>1 DEF Links
<1>6. RangeInv
  BY <1>2, <1>3, <1>4, <1>5, SearchValid DEF RangeInv
<1>7. ThemeInv
  BY DEF ShellInit, ThemeInv
<1> QED  BY <1>1, <1>6, <1>7 DEF ShellInv

(* Together they are the gate. *)
LEMMA InvGate ==
  ASSUME ShellInv, ShellConstants
  PROVE  ShellGate
<1>0. TenantTyped /\ TenantKnown /\ TenantShown
  BY DEF ShellInv, TenantInv
<1>1. AppLayout = "screens" =>
        user.org = user.person /\ session = (IF cleared THEN NoOrg ELSE user.org)
  BY <1>0, ScreensMember DEF TenantTyped, TenantShown
<1>2. AppLayout = "first_run" => session # user.person
  <2>1. SUFFICES ASSUME AppLayout = "first_run", session = user.person  PROVE FALSE
    OBVIOUS
  <2>2. user # Nobody /\ user.org = NoOrg /\ user \in Replies
    <3>1. CASE route \notin AppRoutes
      BY <2>1, <3>1 DEF AppLayout
    <3>2. CASE route \in AppRoutes
      BY <1>0, <2>1, <3>2 DEF AppLayout, TenantTyped
    <3> QED  BY <3>1, <3>2
  <2>3. user.org = session
    BY <1>0, <2>1 DEF TenantKnown
  <2>4. user.person \in People \cup {Anonymous} /\ user = [person |-> user.person, org |-> user.org]
    BY <2>2 DEF Replies, Answers
  <2>5. user.person = Anonymous
    BY <2>1, <2>2, <2>3, <2>4 DEF ShellConstants
  <2> QED  BY <2>2, <2>4, <2>5 DEF Nobody
<1>3. {session, summary} \subseteq met \cup {NoOrg}
  BY <1>0 DEF TenantTyped
<1>4. HeaderRange \in MonthRange /\ remembered \in MonthRange /\ remembered.from <= remembered.to
      /\ (route = "pnl" /\ ~linked => search.from <= search.to)
  BY DEF ShellInv, RangeInv, Ordered, HeaderRange
<1>5. formatPeriodRange(HeaderRange) = formatPeriodRange(remembered) => HeaderRange = remembered
  BY <1>4, ReadsApart
<1> QED  BY <1>1, <1>2, <1>3, <1>4, <1>5 DEF ShellGate, ShellInv, ThemeInv

(* The tenant, the periods and the theme keep what each step needs of      *)
(* them.  web/src/app/AppLayout.tsx:38-114, data/session.ts:25-45.         *)
THEOREM ShellKept == ShellSpec => []ShellInv
<1>1. ShellInit => ShellInv
  BY ShellConstants, ShellInvInit
<1>2. ShellInv /\ [ShellNext]_shellVars => ShellInv'
  BY ShellConstants, TenantStep, RangeStep, ThemeStep DEF ShellInv
<1> QED  BY <1>1, <1>2, PTL DEF ShellSpec

(* However people sign in and out, in this tab or another, calls fail or   *)
(* are late and links are followed: the screens call for the organisation  *)
(* of the person the page shows, a tenant left behind the first-run screen *)
(* is not that person's, and the period in the header is a range that      *)
(* reads as itself.  AppLayout.tsx:38-114, router.tsx:140-182,             *)
(* ui/periodPreference.ts:43-94, ui/period.ts:31-58.                       *)
THEOREM GateKept == ShellSpec => []ShellGate
<1>1. ShellInv => ShellGate  BY InvGate, ShellConstants
<1> QED  BY <1>1, ShellKept, PTL

(* Where the tab is, the range of its route, and the tries left.           *)
RouteInv ==
  /\ route \in AppRoutes \cup {"landing"} /\ (route # "pnl" => search = NoSearch)
  /\ tries \in 0..TRIES

LEMMA RouteStep ==
  ASSUME RouteInv, [ShellNext]_shellVars
  PROVE  RouteInv'
<1>1. ASSUME UNCHANGED <<route, search, tries>>  PROVE RouteInv'
  BY <1>1 DEF RouteInv
<1>2. ASSUME NEW r \in AppRoutes \cup {"landing"}, NEW s \in Links, LoadPage(r, s)
      PROVE  RouteInv'
  BY <1>2, ShellConstants DEF LoadPage, RouteInv
<1>3. NoSearch \in Links
  BY DEF NoSearch, Links
<1>4. ASSUME \/ \E r \in AppRoutes, s \in Links : OpenLink(r, s)
             \/ \E who \in People : SignIn(who)
             \/ SignedOut
      PROVE  RouteInv'
  <2>1. "home" \in AppRoutes
    BY DEF AppRoutes
  <2> QED  BY <1>2, <1>3, <1>4, <2>1 DEF OpenLink, SignIn, SignedOut
<1>5. ASSUME NEW r \in AppRoutes, Navigate(r)  PROVE RouteInv'
  BY <1>5, ShellConstants DEF Navigate, RouteInv
<1>6. ASSUME Focus \/ SummaryTry  PROVE RouteInv'
  BY <1>6, ShellConstants DEF Focus, SummaryTry, RouteInv, rangeVars
<1>7. ASSUME \E end \in {"from", "to"}, m \in Months : ChoosePeriod(end, m)  PROVE RouteInv'
  BY <1>7 DEF ChoosePeriod, RouteInv
<1>8. CASE UNCHANGED shellVars
  BY <1>1, <1>8 DEF shellVars, rangeVars, pageVars
<1>9. CASE \/ \E who \in People \cup {Anonymous} : CookieChanges(who)
           \/ \E r \in [from : Months, to : Months] : StoredElsewhere(r)
           \/ FoundedElsewhere \/ NextMonth \/ UserServed \/ UserArrive \/ UserFail
           \/ \E t \in {"light", "dark", "system"} : SetTheme(t)
           \/ \E l \in {"en", "ru"} : SetLocale(l)
           \/ CreateOrganisation \/ OrganisationAnswered \/ OrganisationRefused
           \/ SignOut \/ SignOutFails
  <2>1. CASE UserArrive
    BY <2>1, ShellConstants DEF UserArrive, rangeVars, RouteInv
  <2>2. CASE OrganisationAnswered
    BY <1>1, <2>2 DEF OrganisationAnswered, rangeVars
  <2>3. CASE \/ \E who \in People \cup {Anonymous} : CookieChanges(who)
             \/ \E r \in [from : Months, to : Months] : StoredElsewhere(r)
             \/ FoundedElsewhere
    BY <1>1, <2>3 DEF CookieChanges, StoredElsewhere, FoundedElsewhere, rangeVars, pageVars
  <2>5. CASE NextMonth \/ UserServed \/ UserFail \/ CreateOrganisation \/ OrganisationRefused
             \/ SignOut \/ SignOutFails
    BY <1>1, <2>5 DEF NextMonth, UserServed, UserFail, CreateOrganisation, OrganisationRefused,
       SignOut, SignOutFails, rangeVars, pageVars
  <2>4. CASE \/ \E t \in {"light", "dark", "system"} : SetTheme(t)
             \/ \E l \in {"en", "ru"} : SetLocale(l)
    BY <1>1, <2>4 DEF SetTheme, SetLocale, rangeVars
  <2> QED  BY <1>9, <2>1, <2>2, <2>3, <2>4, <2>5
<1>10. CASE ShellNext
  BY <1>4, <1>5, <1>6, <1>7, <1>9, <1>10 DEF ShellNext
<1> QED  BY <1>8, <1>10

(* The shell's state stays of its types: the ranges are ranges of months,  *)
(* and a screen without a report in its URL has no range there.            *)
(* router.tsx:140-182, ui/periodPreference.ts:43-94.                       *)
THEOREM ShellTyped == ShellSpec => []ShellTypeOK
<1>1. ShellInv /\ RouteInv => ShellTypeOK
  <2>1. ASSUME TenantTyped
        PROVE  user \in Answers /\ session \in People \cup {NoOrg} /\ summary \in People \cup {NoOrg}
    BY <2>1 DEF TenantTyped, Replies
  <2> QED  BY <2>1 DEF ShellInv, TenantInv, RangeInv, RouteInv, Ordered, ShellTypeOK
<1>2. ShellInit => RouteInv
  BY ShellConstants DEF ShellInit, RouteInv
<1> QED  BY <1>1, <1>2, RouteStep, ShellKept, PTL DEF ShellSpec

-----------------------------------------------------------------------------
(* A set of naturals has a least one.                                      *)
LEMMA LeastNat ==
  ASSUME NEW T, T \subseteq Nat, T # {}
  PROVE  \E n \in T : \A k \in T : n <= k
<1> DEFINE Less == OpToRel(<, Nat)
<1>1. PICK n \in T : \A k \in T : ~(<<k, n>> \in Less)
  <2>1. IsWellFoundedOn(Less, Nat)  BY NatLessThanWellFounded
  <2> HIDE DEF Less
  <2> QED  BY <2>1, WFMin
<1>2. ASSUME NEW k \in T PROVE n <= k
  <2>1. ~(<<k, n>> \in Less)  BY <1>1
  <2>2. k \in Nat /\ n \in Nat  OBVIOUS
  <2>3. ~(k < n)  BY <2>1, <2>2 DEF OpToRel
  <2> QED  BY <2>2, <2>3
<1> QED  BY <1>2

(* Induction over a finite set, as a set of its subsets: one that holds a  *)
(* set whenever it holds the smaller ones holds them all.                  *)
LEMMA SmallerSets ==
  ASSUME NEW S, IsFiniteSet(S), NEW Q,
         \A T \in SUBSET S : (\A U \in SUBSET T : U # T => U \in Q) => T \in Q
  PROVE  \A T \in SUBSET S : T \in Q
<1> SUFFICES ASSUME NEW W \in SUBSET S, W \notin Q PROVE FALSE
  OBVIOUS
<1> DEFINE Bad == {n \in Nat : \E T \in SUBSET S : T \notin Q /\ Cardinality(T) = n}
<1>1. Bad # {} /\ Bad \subseteq Nat
  <2>1. Cardinality(W) \in Nat  BY FS_CardinalityType, FS_Subset
  <2>2. Cardinality(W) \in Bad  BY <2>1
  <2> QED  BY <2>2
<1>2. PICK n \in Bad : \A k \in Bad : n <= k
  <2> HIDE DEF Bad
  <2> QED  BY <1>1, LeastNat
<1>3. PICK T \in SUBSET S : T \notin Q /\ Cardinality(T) = n
  OBVIOUS
<1>4. PICK U \in SUBSET T : U # T /\ U \notin Q
  BY <1>3
<1>5. Cardinality(U) \in Nat /\ Cardinality(U) < n
  BY <1>3, <1>4, FS_Subset, FS_CardinalityType
<1>6. Cardinality(U) \in Bad  BY <1>5, <1>4
<1> QED  BY <1>1, <1>2, <1>5, <1>6

(* And one that takes in an element at a time.                             *)
LEMMA SubsetInduction ==
  ASSUME NEW S, IsFiniteSet(S), NEW Q, {} \in Q,
         \A T \in SUBSET S : \A x \in S \ T : T \in Q => T \cup {x} \in Q
  PROVE  \A T \in SUBSET S : T \in Q
<1>1. ASSUME NEW T \in SUBSET S, \A U \in SUBSET T : U # T => U \in Q
      PROVE  T \in Q
  <2>1. CASE T = {}  BY <2>1
  <2>2. CASE T # {}
    <3>1. PICK x : x \in T  BY <2>2
    <3>2. T \ {x} \in Q  BY <3>1, <1>1
    <3>3. (T \ {x}) \cup {x} = T /\ T \ {x} \in SUBSET S /\ x \in S \ (T \ {x})  BY <3>1
    <3> QED  BY <3>2, <3>3
  <2> QED  BY <2>1, <2>2
<1> QED  BY <1>1, SmallerSets

-----------------------------------------------------------------------------
\* The equation SumFunctionOnSet iterates, over the subsets of S.
Picked(s) == CHOOSE x \in s : TRUE
Iterates(g, f, S) ==
  g = [s \in SUBSET S |-> IF s = {} THEN 0 ELSE f[Picked(s)] + g[s \ {Picked(s)}]]

(* SumFunctionOnSet is the value of that equation.                         *)
LEMMA SumIterates ==
  ASSUME NEW f, NEW S
  PROVE  SumFunctionOnSet(f, S) = (CHOOSE g : Iterates(g, f, S))[S]
BY DEF SumFunctionOnSet, FoldFunctionOnSet, MapThenFoldSet, Iterates, Picked

(* What is picked of a set is of it.                                       *)
LEMMA PickedIn ==
  ASSUME NEW s, s # {}
  PROVE  Picked(s) \in s
BY DEF Picked

(* Two of its solutions agree wherever both are defined.                   *)
LEMMA IteratesOnce ==
  ASSUME NEW f, NEW S, NEW T, IsFiniteSet(S), NEW g, NEW h,
         Iterates(g, f, S), Iterates(h, f, T)
  PROVE  \A U \in SUBSET S : U \in SUBSET T => g[U] = h[U]
<1> DEFINE Q == {U \in SUBSET S : U \in SUBSET T => g[U] = h[U]}
<1>1. ASSUME NEW U \in SUBSET S, \A V \in SUBSET U : V # U => V \in Q
      PROVE  U \in Q
  <2> SUFFICES ASSUME U \in SUBSET T PROVE g[U] = h[U]
    OBVIOUS
  <2>1. CASE U = {}  BY <2>1 DEF Iterates
  <2>2. CASE U # {}
    <3> DEFINE V == U \ {Picked(U)}
    <3>1. V \in SUBSET U /\ V # U /\ V \in SUBSET T  BY <2>2, PickedIn
    <3>2. g[V] = h[V]  BY <3>1, <1>1
    <3>3. g[U] = f[Picked(U)] + g[V]  BY <2>2 DEF Iterates
    <3>4. h[U] = f[Picked(U)] + h[V]  BY <2>2 DEF Iterates
    <3> QED  BY <3>2, <3>3, <3>4
  <2> QED  BY <2>1, <2>2
<1>2. \A U \in SUBSET S : U \in Q
  <2> HIDE DEF Q
  <2> QED  BY <1>1, SmallerSets
<1> QED  BY <1>2

(* It has one.                                                             *)
LEMMA IteratesExists ==
  ASSUME NEW f, NEW S, IsFiniteSet(S)
  PROVE  \E g : Iterates(g, f, S)
<1> DEFINE Q == {T \in SUBSET S : \E g : Iterates(g, f, T)}
<1>1. ASSUME NEW T \in SUBSET S, \A U \in SUBSET T : U # T => U \in Q
      PROVE  T \in Q
  <2> DEFINE of(U) == CHOOSE g : Iterates(g, f, U)
             below == [U \in SUBSET T |-> IF U = T THEN 0 ELSE of(U)[U]]
             g == [U \in SUBSET T |-> IF U = {} THEN 0 ELSE f[Picked(U)] + below[U \ {Picked(U)}]]
  <2>1. ASSUME NEW U \in SUBSET T, U # T PROVE Iterates(of(U), f, U)
    <3>1. \E k : Iterates(k, f, U)  BY <1>1, <2>1
    <3> QED  BY <3>1
  <2>2. ASSUME NEW U \in SUBSET T, U # T PROVE g[U] = below[U]
    <3>1. Iterates(of(U), f, U) /\ below[U] = of(U)[U]  BY <2>1, <2>2
    <3>2. CASE U = {}
      <4>1. of(U)[U] = 0 BY <3>1, <3>2 DEF Iterates
      <4>2. g[U] = 0  BY <3>2
      <4> QED  BY <3>1, <4>1, <4>2
    <3>3. CASE U # {}
      <4> DEFINE V == U \ {Picked(U)}
      <4>1. V \in SUBSET U /\ V # T /\ V \in SUBSET T  BY <3>3, <2>2, PickedIn
      <4>2. of(U)[U] = f[Picked(U)] + of(U)[V]  BY <3>1, <3>3 DEF Iterates
      <4>3. Iterates(of(V), f, V)  BY <4>1, <2>1
      <4>4. IsFiniteSet(U)  BY FS_Subset
      <4>5. of(U)[V] = of(V)[V]
        <5> HIDE DEF of, V
        <5> QED  BY <4>1, <4>3, <4>4, <3>1, IteratesOnce
      <4>6. below[V] = of(V)[V]  BY <4>1
      <4>7. g[U] = f[Picked(U)] + below[V]  BY <3>3
      <4> HIDE DEF of, V, g, below
      <4> QED  BY <3>1, <4>2, <4>5, <4>6, <4>7
    <3> QED  BY <3>2, <3>3
  <2>3. Iterates(g, f, T)
    <3>1. ASSUME NEW U \in SUBSET T, U # {}
          PROVE  g[U] = f[Picked(U)] + g[U \ {Picked(U)}]
      <4>1. U \ {Picked(U)} \in SUBSET T /\ U \ {Picked(U)} # T  BY <3>1, PickedIn
      <4>2. g[U \ {Picked(U)}] = below[U \ {Picked(U)}]  BY <4>1, <2>2
      <4>3. g[U] = f[Picked(U)] + below[U \ {Picked(U)}]  BY <3>1
      <4> HIDE DEF g, below
      <4> QED  BY <4>2, <4>3
    <3>2. {} \in SUBSET T => g[{}] = 0  OBVIOUS
    <3>3. g = [U \in SUBSET T |-> g[U]]  OBVIOUS
    <3> HIDE DEF g
    <3>4. [U \in SUBSET T |-> g[U]] = [U \in SUBSET T |-> IF U = {} THEN 0 ELSE f[Picked(U)] + g[U \ {Picked(U)}]]
      BY <3>1, <3>2
    <3> QED  BY <3>3, <3>4 DEF Iterates
  <2> QED  BY <2>3
<1>2. \A T \in SUBSET S : T \in Q
  <2> HIDE DEF Q
  <2> QED  BY <1>1, SmallerSets
<1> QED  BY <1>2

(* A sum over no element is nothing.                                       *)
LEMMA SumEmpty ==
  ASSUME NEW f
  PROVE  SumFunctionOnSet(f, {}) = 0
<1>1. PICK g : Iterates(g, f, {})  BY FS_EmptySet, IteratesExists
<1>2. Iterates(CHOOSE k : Iterates(k, f, {}), f, {})  BY <1>1
<1> QED  BY <1>2, SumIterates DEF Iterates

(* A sum is the picked element's value and the sum over the rest.          *)
LEMMA SumPicked ==
  ASSUME NEW f, NEW S, IsFiniteSet(S), S # {}
  PROVE  SumFunctionOnSet(f, S) = f[Picked(S)] + SumFunctionOnSet(f, S \ {Picked(S)})
<1> DEFINE of(T) == CHOOSE g : Iterates(g, f, T)
           R == S \ {Picked(S)}
<1>1. R \in SUBSET S /\ IsFiniteSet(R)  BY FS_Subset
<1>2. Iterates(of(S), f, S) /\ Iterates(of(R), f, R)
  BY <1>1, IteratesExists
<1>3. of(S)[S] = f[Picked(S)] + of(S)[R]  BY <1>2 DEF Iterates
<1>4. SumFunctionOnSet(f, S) = of(S)[S] /\ SumFunctionOnSet(f, R) = of(R)[R]  BY SumIterates
<1>5. of(S)[R] = of(R)[R]
  <2> HIDE DEF of, R
  <2> QED  BY <1>1, <1>2, IteratesOnce
<1> HIDE DEF of
<1> QED  BY <1>3, <1>4, <1>5

(* Sums of whole amounts are whole.                                        *)
LEMMA SumInt ==
  ASSUME NEW f, NEW S, IsFiniteSet(S), \A x \in S : f[x] \in Int
  PROVE  SumFunctionOnSet(f, S) \in Int
<1> DEFINE Q == {T \in SUBSET S : SumFunctionOnSet(f, T) \in Int}
<1>1. ASSUME NEW T \in SUBSET S, \A U \in SUBSET T : U # T => U \in Q
      PROVE  T \in Q
  <2>1. CASE T = {}  BY <2>1, SumEmpty
  <2>2. CASE T # {}
    <3>1. Picked(T) \in T /\ T \ {Picked(T)} \in SUBSET T /\ T \ {Picked(T)} # T
      BY <2>2, PickedIn
    <3>2. SumFunctionOnSet(f, T \ {Picked(T)}) \in Int  BY <1>1, <3>1
    <3>3. f[Picked(T)] \in Int  BY <3>1
    <3>4. SumFunctionOnSet(f, T) = f[Picked(T)] + SumFunctionOnSet(f, T \ {Picked(T)})
      BY <2>2, FS_Subset, SumPicked
    <3> QED  BY <3>2, <3>3, <3>4
  <2> QED  BY <2>1, <2>2
<1>2. \A T \in SUBSET S : T \in Q
  <2> HIDE DEF Q
  <2> QED  BY <1>1, SmallerSets
<1> QED  BY <1>2

(* Any element may be taken out first.                                     *)
LEMMA SumTake ==
  ASSUME NEW f, NEW S, IsFiniteSet(S), \A x \in S : f[x] \in Int
  PROVE  \A x \in S : SumFunctionOnSet(f, S) = f[x] + SumFunctionOnSet(f, S \ {x})
<1> DEFINE Sum(T) == SumFunctionOnSet(f, T)
           Q == {T \in SUBSET S : \A x \in T : Sum(T) = f[x] + Sum(T \ {x})}
<1>0. \A T \in SUBSET S : IsFiniteSet(T) /\ Sum(T) \in Int
  <2>1. \A T \in SUBSET S : IsFiniteSet(T)  BY FS_Subset
  <2> QED  BY <2>1, SumInt
<1>1. ASSUME NEW T \in SUBSET S, \A U \in SUBSET T : U # T => U \in Q
      PROVE  T \in Q
  <2> SUFFICES ASSUME NEW x \in T PROVE Sum(T) = f[x] + Sum(T \ {x})
    OBVIOUS
  <2> DEFINE p == Picked(T)
  <2>1. p \in T /\ Sum(T) = f[p] + Sum(T \ {p})
    BY <1>0, PickedIn, SumPicked
  <2> HIDE DEF p
  <2>2. CASE x = p  BY <2>1, <2>2
  <2>3. CASE x # p
    <3>1. Sum(T \ {p}) = f[x] + Sum((T \ {p}) \ {x})
      <4>1. T \ {p} \in SUBSET T /\ T \ {p} # T /\ x \in T \ {p}  BY <2>1, <2>3
      <4> HIDE DEF Sum
      <4> QED  BY <4>1, <1>1
    <3>2. Sum(T \ {x}) = f[p] + Sum((T \ {x}) \ {p})
      <4>1. T \ {x} \in SUBSET T /\ T \ {x} # T /\ p \in T \ {x}  BY <2>1, <2>3
      <4> HIDE DEF Sum
      <4> QED  BY <4>1, <1>1
    <3>3. (T \ {p}) \ {x} = (T \ {x}) \ {p}  OBVIOUS
    <3> DEFINE rest == Sum((T \ {x}) \ {p})
    <3>4. f[x] \in Int /\ f[p] \in Int /\ rest \in Int
      BY <1>0, <2>1
    <3>5. Sum(T \ {p}) = f[x] + rest  BY <3>1, <3>3
    <3> HIDE DEF Sum, rest
    <3>6. Sum(T) = f[p] + (f[x] + rest)  BY <2>1, <3>5
    <3>7. f[p] + (f[x] + rest) = f[x] + (f[p] + rest)  BY <3>4
    <3>8. Sum(T \ {x}) = f[p] + rest  BY <3>2 DEF rest
    <3> QED  BY <3>6, <3>7, <3>8
  <2> QED  BY <2>2, <2>3
<1>2. \A T \in SUBSET S : T \in Q
  <2> HIDE DEF Q
  <2> QED  BY <1>1, SmallerSets
<1> QED  BY <1>2

(* An element joins a sum with its value.                                  *)
LEMMA SumAdd ==
  ASSUME NEW f, NEW S, IsFiniteSet(S), NEW x, x \notin S,
         \A y \in S : f[y] \in Int, f[x] \in Int
  PROVE  SumFunctionOnSet(f, S \cup {x}) = f[x] + SumFunctionOnSet(f, S)
<1>1. IsFiniteSet(S \cup {x})  BY FS_AddElement
<1>2. (S \cup {x}) \ {x} = S /\ x \in S \cup {x} /\ \A y \in S \cup {x} : f[y] \in Int
  OBVIOUS
<1>3. \A y \in S \cup {x} : SumFunctionOnSet(f, S \cup {x}) = f[y] + SumFunctionOnSet(f, (S \cup {x}) \ {y})
  BY <1>1, <1>2, SumTake
<1> QED  BY <1>2, <1>3

(* Functions that agree on a set have one sum over it.                     *)
LEMMA SumSame ==
  ASSUME NEW f, NEW g, NEW S, IsFiniteSet(S), \A x \in S : f[x] = g[x]
  PROVE  SumFunctionOnSet(f, S) = SumFunctionOnSet(g, S)
<1> DEFINE Q == {T \in SUBSET S : SumFunctionOnSet(f, T) = SumFunctionOnSet(g, T)}
<1>1. ASSUME NEW T \in SUBSET S, \A U \in SUBSET T : U # T => U \in Q
      PROVE  T \in Q
  <2>1. CASE T = {}  BY <2>1, SumEmpty
  <2>2. CASE T # {}
    <3>1. Picked(T) \in T /\ T \ {Picked(T)} \in SUBSET T /\ T \ {Picked(T)} # T
      BY <2>2, PickedIn
    <3>2. SumFunctionOnSet(f, T \ {Picked(T)}) = SumFunctionOnSet(g, T \ {Picked(T)})
      BY <1>1, <3>1
    <3>3. SumFunctionOnSet(f, T) = f[Picked(T)] + SumFunctionOnSet(f, T \ {Picked(T)})
      BY <2>2, FS_Subset, SumPicked
    <3>4. SumFunctionOnSet(g, T) = g[Picked(T)] + SumFunctionOnSet(g, T \ {Picked(T)})
      BY <2>2, FS_Subset, SumPicked
    <3>5. f[Picked(T)] = g[Picked(T)]  BY <3>1
    <3> QED  BY <3>2, <3>3, <3>4, <3>5
  <2> QED  BY <2>1, <2>2
<1>2. \A T \in SUBSET S : T \in Q
  <2> HIDE DEF Q
  <2> QED  BY <1>1, SmallerSets
<1> QED  BY <1>2

(* A sum of sums is the sum of the two.                                    *)
LEMMA SumPlus ==
  ASSUME NEW f, NEW g, NEW h, NEW S, IsFiniteSet(S),
         \A x \in S : f[x] \in Int /\ g[x] \in Int /\ h[x] = f[x] + g[x]
  PROVE  SumFunctionOnSet(h, S) = SumFunctionOnSet(f, S) + SumFunctionOnSet(g, S)
<1> DEFINE F(T) == SumFunctionOnSet(f, T)
           G(T) == SumFunctionOnSet(g, T)
           H(T) == SumFunctionOnSet(h, T)
           Q == {T \in SUBSET S : H(T) = F(T) + G(T)}
<1>0. \A T \in SUBSET S : IsFiniteSet(T) /\ F(T) \in Int /\ G(T) \in Int
  <2>1. \A T \in SUBSET S : IsFiniteSet(T)  BY FS_Subset
  <2> QED  BY <2>1, SumInt
<1>1. {} \in Q  BY SumEmpty
<1>2. ASSUME NEW T \in SUBSET S, NEW x \in S \ T, T \in Q
      PROVE  T \cup {x} \in Q
  <2>1. F(T \cup {x}) = f[x] + F(T)  BY <1>0, SumAdd
  <2>2. G(T \cup {x}) = g[x] + G(T)  BY <1>0, SumAdd
  <2>3. H(T \cup {x}) = h[x] + H(T)
    <3>1. \A y \in S : h[y] \in Int  OBVIOUS
    <3> QED  BY <1>0, <3>1, SumAdd
  <2>4. f[x] \in Int /\ g[x] \in Int /\ h[x] = f[x] + g[x]  OBVIOUS
  <2>5. F(T) \in Int /\ G(T) \in Int  BY <1>0
  <2>6. H(T) = F(T) + G(T)  BY <1>2
  <2> HIDE DEF F, G, H
  <2>7. H(T \cup {x}) = F(T \cup {x}) + G(T \cup {x})
    BY <2>1, <2>2, <2>3, <2>4, <2>5, <2>6
  <2> QED  BY <2>7
<1>3. \A T \in SUBSET S : T \in Q
  <2> HIDE DEF Q
  <2> QED  BY <1>1, <1>2, SubsetInduction
<1> QED  BY <1>3

(* The sum of the opposites is the opposite of the sum.                    *)
LEMMA SumOpposite ==
  ASSUME NEW f, NEW h, NEW S, IsFiniteSet(S),
         \A x \in S : f[x] \in Int /\ h[x] = 0 - f[x]
  PROVE  SumFunctionOnSet(h, S) = 0 - SumFunctionOnSet(f, S)
<1> DEFINE F(T) == SumFunctionOnSet(f, T)
           H(T) == SumFunctionOnSet(h, T)
           Q == {T \in SUBSET S : H(T) = 0 - F(T)}
<1>0. \A T \in SUBSET S : IsFiniteSet(T) /\ F(T) \in Int
  <2>1. \A T \in SUBSET S : IsFiniteSet(T)  BY FS_Subset
  <2> QED  BY <2>1, SumInt
<1>1. {} \in Q  BY SumEmpty
<1>2. ASSUME NEW T \in SUBSET S, NEW x \in S \ T, T \in Q
      PROVE  T \cup {x} \in Q
  <2>1. F(T \cup {x}) = f[x] + F(T)  BY <1>0, SumAdd
  <2>3. H(T \cup {x}) = h[x] + H(T)
    <3>1. \A y \in S : h[y] \in Int  OBVIOUS
    <3> QED  BY <1>0, <3>1, SumAdd
  <2>4. f[x] \in Int /\ h[x] = 0 - f[x]  OBVIOUS
  <2>5. F(T) \in Int  BY <1>0
  <2>6. H(T) = 0 - F(T)  BY <1>2
  <2> HIDE DEF F, H
  <2>7. H(T \cup {x}) = 0 - F(T \cup {x})
    BY <2>1, <2>3, <2>4, <2>5, <2>6
  <2> QED  BY <2>7
<1>3. \A T \in SUBSET S : T \in Q
  <2> HIDE DEF Q
  <2> QED  BY <1>1, <1>2, SubsetInduction
<1> QED  BY <1>3

(* What adds nothing leaves a sum at nothing.                              *)
LEMMA SumZero ==
  ASSUME NEW f, NEW S, IsFiniteSet(S), \A x \in S : f[x] = 0
  PROVE  SumFunctionOnSet(f, S) = 0
<1>1. \A x \in S : f[x] \in Int /\ f[x] = 0 - f[x]  OBVIOUS
<1>2. SumFunctionOnSet(f, S) = 0 - SumFunctionOnSet(f, S)  BY <1>1, SumOpposite
<1>3. SumFunctionOnSet(f, S) \in Int  BY <1>1, SumInt
<1> DEFINE s == SumFunctionOnSet(f, S)
<1> HIDE DEF s
<1>4. s \in Int /\ s = 0 - s  BY <1>2, <1>3 DEF s
<1>5. s = 0  BY <1>4
<1> QED  BY <1>5 DEF s

(* Two sets apart sum one by one.                                          *)
LEMMA SumUnion ==
  ASSUME NEW f, NEW S, NEW R, IsFiniteSet(S), IsFiniteSet(R), S \cap R = {},
         \A x \in S \cup R : f[x] \in Int
  PROVE  SumFunctionOnSet(f, S \cup R) = SumFunctionOnSet(f, S) + SumFunctionOnSet(f, R)
<1> DEFINE F(T) == SumFunctionOnSet(f, T)
           Q == {T \in SUBSET S : F(T \cup R) = F(T) + F(R)}
<1>0. \A T \in SUBSET S : IsFiniteSet(T) /\ IsFiniteSet(T \cup R) /\ F(T) \in Int /\ F(T \cup R) \in Int
  <2>1. \A T \in SUBSET S : IsFiniteSet(T)  BY FS_Subset
  <2>2. \A T \in SUBSET S : IsFiniteSet(T \cup R)  BY <2>1, FS_Union
  <2>3. ASSUME NEW T \in SUBSET S PROVE F(T) \in Int /\ F(T \cup R) \in Int
    <3>1. (\A x \in T : f[x] \in Int) /\ (\A x \in T \cup R : f[x] \in Int)  OBVIOUS
    <3> QED  BY <3>1, <2>1, <2>2, SumInt
  <2> QED  BY <2>1, <2>2, <2>3
<1>1. {} \in Q
  <2>1. {} \cup R = R /\ F({}) = 0 /\ F(R) \in Int  BY SumEmpty, SumInt
  <2> QED  BY <2>1
<1>2. ASSUME NEW T \in SUBSET S, NEW x \in S \ T, T \in Q
      PROVE  T \cup {x} \in Q
  <2>1. F(T \cup {x}) = f[x] + F(T)  BY <1>0, SumAdd
  <2>2. F((T \cup R) \cup {x}) = f[x] + F(T \cup R)
    <3>1. x \notin T \cup R /\ \A y \in T \cup R : f[y] \in Int  OBVIOUS
    <3> QED  BY <1>0, <3>1, SumAdd
  <2>3. (T \cup {x}) \cup R = (T \cup R) \cup {x}  OBVIOUS
  <2>4. f[x] \in Int /\ F(T) \in Int /\ F(R) \in Int  BY <1>0, SumInt
  <2>5. F(T \cup R) = F(T) + F(R)  BY <1>2
  <2> DEFINE a == F(T)
             b == F(R)
  <2>a. a \in Int /\ b \in Int  BY <2>4
  <2>b. F((T \cup {x}) \cup R) = f[x] + (a + b)  BY <2>2, <2>3, <2>5
  <2>c. F(T \cup {x}) = f[x] + a  BY <2>1
  <2> HIDE DEF F, a, b
  <2>d. f[x] + (a + b) = (f[x] + a) + b  BY <2>4, <2>a
  <2>6. F((T \cup {x}) \cup R) = F(T \cup {x}) + F(R)
    BY <2>b, <2>c, <2>d DEF b
  <2> QED  BY <2>6
<1>3. \A T \in SUBSET S : T \in Q
  <2> HIDE DEF Q
  <2> QED  BY <1>1, <1>2, SubsetInduction
<1> QED  BY <1>3

(* Values carried one to one to another set sum to the same.               *)
LEMMA SumCarried ==
  ASSUME NEW f, NEW g, NEW S, NEW h, IsFiniteSet(S),
         \A x \in S : f[x] \in Int /\ g[h[x]] = f[x],
         \A x, y \in S : h[x] = h[y] => x = y
  PROVE  SumFunctionOnSet(g, {h[x] : x \in S}) = SumFunctionOnSet(f, S)
         /\ IsFiniteSet({h[x] : x \in S})
<1> DEFINE Image(T) == {h[x] : x \in T}
           Q == {T \in SUBSET S : IsFiniteSet(Image(T)) /\ SumFunctionOnSet(g, Image(T)) = SumFunctionOnSet(f, T)}
<1>1. {} \in Q
  <2>1. Image({}) = {}  OBVIOUS
  <2> QED  BY <2>1, SumEmpty, FS_EmptySet
<1>2. ASSUME NEW T \in SUBSET S, NEW x \in S \ T, T \in Q
      PROVE  T \cup {x} \in Q
  <2>1. IsFiniteSet(T) /\ (\A y \in T : f[y] \in Int) /\ f[x] \in Int  BY FS_Subset
  <2>2. SumFunctionOnSet(f, T \cup {x}) = f[x] + SumFunctionOnSet(f, T)  BY <2>1, SumAdd
  <2>3. Image(T \cup {x}) = Image(T) \cup {h[x]} /\ h[x] \notin Image(T)  OBVIOUS
  <2>4. \A y \in Image(T) : g[y] \in Int  OBVIOUS
  <2>5. IsFiniteSet(Image(T)) /\ g[h[x]] \in Int /\ g[h[x]] = f[x]  BY <1>2
  <2>6. SumFunctionOnSet(g, Image(T) \cup {h[x]}) = g[h[x]] + SumFunctionOnSet(g, Image(T))
    <3> HIDE DEF Image
    <3> QED  BY <2>3, <2>4, <2>5, SumAdd
  <2>7. IsFiniteSet(Image(T) \cup {h[x]})  BY <2>5, FS_AddElement
  <2>8. SumFunctionOnSet(g, Image(T)) = SumFunctionOnSet(f, T)  BY <1>2
  <2> HIDE DEF Image
  <2> QED  BY <2>2, <2>3, <2>5, <2>6, <2>7, <2>8
<1>3. \A T \in SUBSET S : T \in Q
  <2> HIDE DEF Q
  <2> QED  BY <1>1, <1>2, SubsetInduction
<1> QED  BY <1>3

(* A set sorted by a key sums part by part.                                *)
LEMMA SumParts ==
  ASSUME NEW f, NEW S, NEW k, NEW P, NEW part, IsFiniteSet(S), IsFiniteSet(P),
         \A x \in S : f[x] \in Int,
         \A p \in P : part[p] = SumFunctionOnSet(f, {x \in S : k[x] = p})
  PROVE  SumFunctionOnSet(part, P) = SumFunctionOnSet(f, {x \in S : k[x] \in P})
<1> DEFINE Of(T) == {x \in S : k[x] \in T}
           One(p) == {x \in S : k[x] = p}
           Q == {T \in SUBSET P : SumFunctionOnSet(part, T) = SumFunctionOnSet(f, Of(T))}
<1>0. \A T : IsFiniteSet(Of(T)) /\ SumFunctionOnSet(f, Of(T)) \in Int
  <2>1. \A T : Of(T) \in SUBSET S  OBVIOUS
  <2>2. \A T : IsFiniteSet(Of(T)) /\ \A x \in Of(T) : f[x] \in Int  BY <2>1, FS_Subset
  <2> HIDE DEF Of
  <2> QED  BY <2>2, SumInt
<1>00. \A p : IsFiniteSet(One(p)) /\ SumFunctionOnSet(f, One(p)) \in Int
  <2>1. \A p : One(p) \in SUBSET S  OBVIOUS
  <2>2. \A p : IsFiniteSet(One(p)) /\ \A x \in One(p) : f[x] \in Int  BY <2>1, FS_Subset
  <2> HIDE DEF One
  <2> QED  BY <2>2, SumInt
<1>1. {} \in Q
  <2>1. Of({}) = {}  OBVIOUS
  <2> QED  BY <2>1, SumEmpty
<1>2. ASSUME NEW T \in SUBSET P, NEW p \in P \ T, T \in Q
      PROVE  T \cup {p} \in Q
  <2>1. Of(T \cup {p}) = Of(T) \cup One(p) /\ Of(T) \cap One(p) = {}  OBVIOUS
  <2>2. \A x \in Of(T) \cup One(p) : f[x] \in Int  OBVIOUS
  <2>3. SumFunctionOnSet(f, Of(T) \cup One(p)) = SumFunctionOnSet(f, Of(T)) + SumFunctionOnSet(f, One(p))
    <3> HIDE DEF Of, One
    <3> QED  BY <1>0, <1>00, <2>1, <2>2, SumUnion
  <2>4. part[p] = SumFunctionOnSet(f, One(p))  OBVIOUS
  <2>5. SumFunctionOnSet(part, T \cup {p}) = part[p] + SumFunctionOnSet(part, T)
    <3>1. \A q \in P : part[q] \in Int
      <4>1. \A q \in P : part[q] = SumFunctionOnSet(f, One(q))  OBVIOUS
      <4> HIDE DEF One
      <4> QED  BY <4>1, <1>00
    <3> QED  BY <3>1, FS_Subset, SumAdd
  <2>6. SumFunctionOnSet(part, T) = SumFunctionOnSet(f, Of(T))  BY <1>2
  <2>7. SumFunctionOnSet(f, Of(T)) \in Int /\ SumFunctionOnSet(f, One(p)) \in Int  BY <1>0, <1>00
  <2> HIDE DEF Of, One
  <2> DEFINE a == SumFunctionOnSet(f, Of(T))
             b == SumFunctionOnSet(f, One(p))
  <2>8. a \in Int /\ b \in Int  BY <2>7
  <2>9. SumFunctionOnSet(part, T \cup {p}) = b + a  BY <2>4, <2>5, <2>6
  <2>10. SumFunctionOnSet(f, Of(T \cup {p})) = a + b  BY <2>1, <2>3
  <2> HIDE DEF a, b
  <2>11. b + a = a + b  BY <2>8
  <2> QED  BY <2>9, <2>10, <2>11
<1>3. \A T \in SUBSET P : T \in Q
  <2> HIDE DEF Q
  <2> QED  BY <1>1, <1>2, SubsetInduction
<1> QED  BY <1>3

(* A difference of sums.                                                   *)
LEMMA SumMinus ==
  ASSUME NEW f, NEW g, NEW h, NEW S, IsFiniteSet(S),
         \A x \in S : f[x] \in Int /\ g[x] \in Int /\ h[x] = f[x] - g[x]
  PROVE  SumFunctionOnSet(h, S) = SumFunctionOnSet(f, S) - SumFunctionOnSet(g, S)
<1>1. \A x \in S : h[x] \in Int /\ g[x] \in Int /\ f[x] = h[x] + g[x]  OBVIOUS
<1>2. SumFunctionOnSet(f, S) = SumFunctionOnSet(h, S) + SumFunctionOnSet(g, S)
  BY <1>1, SumPlus
<1>3. SumFunctionOnSet(h, S) \in Int /\ SumFunctionOnSet(g, S) \in Int  BY <1>1, SumInt
<1> DEFINE a == SumFunctionOnSet(h, S)
           b == SumFunctionOnSet(g, S)
<1>4. a \in Int /\ b \in Int /\ SumFunctionOnSet(f, S) = a + b  BY <1>2, <1>3
<1> HIDE DEF a, b
<1>5. a = (a + b) - b  BY <1>4
<1> QED  BY <1>4, <1>5 DEF a, b

(* A sum of one.                                                           *)
LEMMA SumOne ==
  ASSUME NEW f, NEW a, f[a] \in Int
  PROVE  SumFunctionOnSet(f, {a}) = f[a] /\ IsFiniteSet({a})
<1>1. SumFunctionOnSet(f, {} \cup {a}) = f[a] + SumFunctionOnSet(f, {})
  BY FS_EmptySet, SumAdd
<1>2. {} \cup {a} = {a} /\ f[a] + 0 = f[a]  OBVIOUS
<1>3. IsFiniteSet({a})  BY FS_Singleton
<1> QED  BY <1>1, <1>2, <1>3, SumEmpty

(* A sum of two.                                                           *)
LEMMA SumTwo ==
  ASSUME NEW f, NEW a, NEW b, a # b, f[a] \in Int, f[b] \in Int
  PROVE  SumFunctionOnSet(f, {a} \cup {b}) = f[a] + f[b] /\ IsFiniteSet({a} \cup {b})
<1>1. SumFunctionOnSet(f, {a}) = f[a] /\ IsFiniteSet({a})  BY SumOne
<1>2. b \notin {a} /\ \A y \in {a} : f[y] \in Int  OBVIOUS
<1>3. SumFunctionOnSet(f, {a} \cup {b}) = f[b] + SumFunctionOnSet(f, {a})  BY <1>1, <1>2, SumAdd
<1>4. IsFiniteSet({a} \cup {b})  BY <1>1, FS_AddElement
<1>5. f[b] + f[a] = f[a] + f[b]  OBVIOUS
<1> QED  BY <1>1, <1>3, <1>4, <1>5

-----------------------------------------------------------------------------
(* The sections of the chart of accounts.                                  *)
LEMMA SectionsAre == Elems(Sections) = {"01", "02", "03", "04", "05", "06", "07"}
BY DEF Elems, Sections
(* The lines of the table, in no order.                                    *)
LEMMA OrderIs ==
  Elems(Order) = {"01", "02", "91", "03", "92", "04", "05", "93", "06", "94", "07", "95"}
BY DEF Elems, Order
(* The statements of a report.                                             *)
LEMMA StatementsAre == Elems(Statements) = {"lines", "unclassified", "other", "balances", "movements"}
BY DEF Elems, Statements
(* What each computed line is made of.                                     *)
LEMMA ChainIs ==
  /\ DOMAIN Chain = {"91", "92", "93", "94", "95"}
  /\ Chain["91"] = [plus |-> {"01"}, minus |-> {"02"}]
  /\ Chain["92"] = [plus |-> {"91"}, minus |-> {"03"}]
  /\ Chain["93"] = [plus |-> {"92"}, minus |-> {"04", "05"}]
  /\ Chain["94"] = [plus |-> {"93"}, minus |-> {"06"}]
  /\ Chain["95"] = [plus |-> {"94"}, minus |-> {"07"}]
BY DEF Chain

\* The equation of the chain.
Chains(v, rows, m) ==
  v = [c \in Elems(Order) |->
         IF c \in DOMAIN Chain THEN SumFunctionOnSet(v, Chain[c].plus \cup Chain[c].minus)
         ELSE Stored(rows, c, m)]

(* The chain has a solution, so Value is one: each computed line is the    *)
(* sum of its operands.                                                    *)
LEMMA ValueChains ==
  ASSUME NEW rows, NEW m, \A c \in Elems(Sections) : Stored(rows, c, m) \in Int
  PROVE  Chains(Value(rows, m), rows, m)
<1> DEFINE s(c) == Stored(rows, c, m)
           v == [c \in Elems(Order) |->
                   CASE c = "91" -> s("01") + s("02")
                     [] c = "92" -> (s("01") + s("02")) + s("03")
                     [] c = "93" -> ((s("01") + s("02")) + s("03")) + s("04") + s("05")
                     [] c = "94" -> (((s("01") + s("02")) + s("03")) + s("04") + s("05")) + s("06")
                     [] c = "95" -> ((((s("01") + s("02")) + s("03")) + s("04") + s("05")) + s("06")) + s("07")
                     [] OTHER -> s(c)]
<1>1. /\ s("01") \in Int /\ s("02") \in Int /\ s("03") \in Int /\ s("04") \in Int
      /\ s("05") \in Int /\ s("06") \in Int /\ s("07") \in Int
  BY SectionsAre
<1> HIDE DEF s
<1>2. /\ v["01"] = s("01") /\ v["02"] = s("02") /\ v["03"] = s("03") /\ v["04"] = s("04")
      /\ v["05"] = s("05") /\ v["06"] = s("06") /\ v["07"] = s("07")
  BY OrderIs
<1>3. /\ v["91"] = v["01"] + v["02"] /\ v["92"] = v["91"] + v["03"]
      /\ v["93"] = v["92"] + v["04"] + v["05"] /\ v["94"] = v["93"] + v["06"]
      /\ v["95"] = v["94"] + v["07"]
  BY <1>1, OrderIs
<1>4. v = [c \in Elems(Order) |-> v[c]]  OBVIOUS
<1> HIDE DEF v
<1>5. /\ v["91"] \in Int /\ v["92"] \in Int /\ v["93"] \in Int /\ v["94"] \in Int /\ v["95"] \in Int
      /\ v["01"] \in Int /\ v["02"] \in Int /\ v["03"] \in Int /\ v["04"] \in Int
      /\ v["05"] \in Int /\ v["06"] \in Int /\ v["07"] \in Int
  <2>1. v["91"] \in Int  BY <1>1, <1>2, <1>3
  <2>2. v["92"] \in Int  BY <1>1, <1>2, <1>3, <2>1
  <2>3. v["93"] \in Int  BY <1>1, <1>2, <1>3, <2>2
  <2>4. v["94"] \in Int  BY <1>1, <1>2, <1>3, <2>3
  <2>5. v["95"] \in Int  BY <1>1, <1>2, <1>3, <2>4
  <2> QED  BY <1>1, <1>2, <2>1, <2>2, <2>3, <2>4, <2>5
<1>6. ASSUME NEW c \in Elems(Order)
      PROVE  v[c] = IF c \in DOMAIN Chain THEN SumFunctionOnSet(v, Chain[c].plus \cup Chain[c].minus)
                    ELSE Stored(rows, c, m)
  <2>1. CASE c = "91"
    <3>1. SumFunctionOnSet(v, {"01"} \cup {"02"}) = v["01"] + v["02"]  BY <1>5, SumTwo
    <3> QED  BY <2>1, <3>1, <1>3, ChainIs
  <2>2. CASE c = "92"
    <3>1. SumFunctionOnSet(v, {"91"} \cup {"03"}) = v["91"] + v["03"]  BY <1>5, SumTwo
    <3> QED  BY <2>2, <3>1, <1>3, ChainIs
  <2>3. CASE c = "93"
    <3>1. SumFunctionOnSet(v, ({"92"} \cup {"04"}) \cup {"05"}) = v["92"] + v["04"] + v["05"]
      <4>1. v["92"] \in Int /\ v["04"] \in Int /\ v["05"] \in Int  BY <1>5
      <4>2. SumFunctionOnSet(v, {"92"} \cup {"04"}) = v["92"] + v["04"] /\ IsFiniteSet({"92"} \cup {"04"})
        BY <4>1, SumTwo
      <4>3. "05" \notin {"92"} \cup {"04"} /\ \A y \in {"92"} \cup {"04"} : v[y] \in Int  BY <4>1
      <4>4. SumFunctionOnSet(v, ({"92"} \cup {"04"}) \cup {"05"})
              = v["05"] + SumFunctionOnSet(v, {"92"} \cup {"04"})
        BY <4>1, <4>2, <4>3, SumAdd
      <4>5. v["05"] + (v["92"] + v["04"]) = v["92"] + v["04"] + v["05"]  BY <4>1
      <4> QED  BY <4>2, <4>4, <4>5
    <3> QED  BY <2>3, <3>1, <1>3, ChainIs
  <2>4. CASE c = "94"
    <3>1. SumFunctionOnSet(v, {"93"} \cup {"06"}) = v["93"] + v["06"]  BY <1>5, SumTwo
    <3> QED  BY <2>4, <3>1, <1>3, ChainIs
  <2>5. CASE c = "95"
    <3>1. SumFunctionOnSet(v, {"94"} \cup {"07"}) = v["94"] + v["07"]  BY <1>5, SumTwo
    <3> QED  BY <2>5, <3>1, <1>3, ChainIs
  <2>6. CASE c \in Elems(Sections)  BY <2>6, <1>2, ChainIs, SectionsAre DEF s
  <2> QED  BY <2>1, <2>2, <2>3, <2>4, <2>5, <2>6, OrderIs, SectionsAre
<1>7. Chains(v, rows, m)
  <2>1. [c \in Elems(Order) |-> v[c]] =
          [c \in Elems(Order) |->
             IF c \in DOMAIN Chain THEN SumFunctionOnSet(v, Chain[c].plus \cup Chain[c].minus)
             ELSE Stored(rows, c, m)]
    BY <1>6
  <2> QED  BY <2>1, <1>4 DEF Chains
<1>8. Value(rows, m) = CHOOSE w : Chains(w, rows, m)  BY DEF Value, Chains
<1> QED  BY <1>7, <1>8

(* Each line, of the sections' amounts.                                    *)
LEMMA ValueIs ==
  ASSUME NEW rows, NEW m, \A c \in Elems(Sections) : Stored(rows, c, m) \in Int
  PROVE  LET v == Value(rows, m)
         IN  /\ \A c \in Elems(Sections) : v[c] = Stored(rows, c, m)
             /\ v["91"] = Stored(rows, "01", m) + Stored(rows, "02", m)
             /\ v["92"] = v["91"] + Stored(rows, "03", m)
             /\ v["93"] = v["92"] + Stored(rows, "04", m) + Stored(rows, "05", m)
             /\ v["94"] = v["93"] + Stored(rows, "06", m)
             /\ v["95"] = v["94"] + Stored(rows, "07", m)
             /\ {v["91"], v["92"], v["93"], v["94"], v["95"]} \subseteq Int
<1> DEFINE v == Value(rows, m)
<1>1. Chains(v, rows, m)  BY ValueChains
<1> HIDE DEF v
<1>2. \A c \in Elems(Order) :
        v[c] = IF c \in DOMAIN Chain THEN SumFunctionOnSet(v, Chain[c].plus \cup Chain[c].minus)
               ELSE Stored(rows, c, m)
  BY <1>1 DEF Chains
<1>3. \A c \in Elems(Sections) : v[c] = Stored(rows, c, m) /\ v[c] \in Int
  <2>1. \A c \in Elems(Sections) : c \in Elems(Order) /\ c \notin DOMAIN Chain
    BY SectionsAre, OrderIs, ChainIs
  <2> QED  BY <2>1, <1>2
<1>4. /\ v["01"] \in Int /\ v["02"] \in Int /\ v["03"] \in Int /\ v["04"] \in Int
      /\ v["05"] \in Int /\ v["06"] \in Int /\ v["07"] \in Int
  BY <1>3, SectionsAre
<1>5. /\ v["01"] = Stored(rows, "01", m) /\ v["02"] = Stored(rows, "02", m)
      /\ v["03"] = Stored(rows, "03", m) /\ v["04"] = Stored(rows, "04", m)
      /\ v["05"] = Stored(rows, "05", m) /\ v["06"] = Stored(rows, "06", m)
      /\ v["07"] = Stored(rows, "07", m)
  BY <1>3, SectionsAre
<1>6. v["91"] = SumFunctionOnSet(v, {"01"} \cup {"02"})
  <2>1. v["91"] = SumFunctionOnSet(v, Chain["91"].plus \cup Chain["91"].minus)
    BY <1>2, OrderIs, ChainIs
  <2>2. Chain["91"].plus \cup Chain["91"].minus = {"01"} \cup {"02"}  BY ChainIs
  <2> QED  BY <2>1, <2>2
<1>7. v["92"] = SumFunctionOnSet(v, {"91"} \cup {"03"})
  <2>1. v["92"] = SumFunctionOnSet(v, Chain["92"].plus \cup Chain["92"].minus)
    BY <1>2, OrderIs, ChainIs
  <2>2. Chain["92"].plus \cup Chain["92"].minus = {"91"} \cup {"03"}  BY ChainIs
  <2> QED  BY <2>1, <2>2
<1>8. v["93"] = SumFunctionOnSet(v, ({"92"} \cup {"04"}) \cup {"05"})
  <2>1. v["93"] = SumFunctionOnSet(v, Chain["93"].plus \cup Chain["93"].minus)
    BY <1>2, OrderIs, ChainIs
  <2>2. Chain["93"].plus \cup Chain["93"].minus = ({"92"} \cup {"04"}) \cup {"05"}  BY ChainIs
  <2> QED  BY <2>1, <2>2
<1>9. v["94"] = SumFunctionOnSet(v, {"93"} \cup {"06"})
  <2>1. v["94"] = SumFunctionOnSet(v, Chain["94"].plus \cup Chain["94"].minus)
    BY <1>2, OrderIs, ChainIs
  <2>2. Chain["94"].plus \cup Chain["94"].minus = {"93"} \cup {"06"}  BY ChainIs
  <2> QED  BY <2>1, <2>2
<1>10. v["95"] = SumFunctionOnSet(v, {"94"} \cup {"07"})
  <2>1. v["95"] = SumFunctionOnSet(v, Chain["95"].plus \cup Chain["95"].minus)
    BY <1>2, OrderIs, ChainIs
  <2>2. Chain["95"].plus \cup Chain["95"].minus = {"94"} \cup {"07"}  BY ChainIs
  <2> QED  BY <2>1, <2>2
<1>11. v["91"] = v["01"] + v["02"] /\ v["91"] \in Int
  <2>1. SumFunctionOnSet(v, {"01"} \cup {"02"}) = v["01"] + v["02"]  BY <1>4, SumTwo
  <2> QED  BY <2>1, <1>4, <1>6
<1>12. v["92"] = v["91"] + v["03"] /\ v["92"] \in Int
  <2>1. SumFunctionOnSet(v, {"91"} \cup {"03"}) = v["91"] + v["03"]  BY <1>4, <1>11, SumTwo
  <2> QED  BY <2>1, <1>4, <1>7, <1>11
<1>13. v["93"] = v["92"] + v["04"] + v["05"] /\ v["93"] \in Int
  <2>1. v["92"] \in Int /\ v["04"] \in Int /\ v["05"] \in Int  BY <1>4, <1>12
  <2> DEFINE S == {"92"} \cup {"04"}
  <2>2. SumFunctionOnSet(v, S) = v["92"] + v["04"] /\ IsFiniteSet(S)  BY <2>1, SumTwo
  <2>3. "05" \notin S /\ \A c \in S : v[c] \in Int  BY <2>1
  <2> HIDE DEF S
  <2>4. SumFunctionOnSet(v, S \cup {"05"}) = v["05"] + SumFunctionOnSet(v, S)
    BY <2>1, <2>2, <2>3, SumAdd
  <2> QED  BY <2>1, <2>2, <2>4, <1>8 DEF S
<1>14. v["94"] = v["93"] + v["06"] /\ v["94"] \in Int
  <2>1. SumFunctionOnSet(v, {"93"} \cup {"06"}) = v["93"] + v["06"]  BY <1>4, <1>13, SumTwo
  <2> QED  BY <2>1, <1>4, <1>9, <1>13
<1>15. v["95"] = v["94"] + v["07"] /\ v["95"] \in Int
  <2>1. SumFunctionOnSet(v, {"94"} \cup {"07"}) = v["94"] + v["07"]  BY <1>4, <1>14, SumTwo
  <2> QED  BY <2>1, <1>4, <1>10, <1>14
<1> HIDE DEF v
<1>16. /\ v["91"] = Stored(rows, "01", m) + Stored(rows, "02", m)
       /\ v["92"] = v["91"] + Stored(rows, "03", m)
       /\ v["93"] = v["92"] + Stored(rows, "04", m) + Stored(rows, "05", m)
       /\ v["94"] = v["93"] + Stored(rows, "06", m)
       /\ v["95"] = v["94"] + Stored(rows, "07", m)
  BY <1>5, <1>11, <1>12, <1>13, <1>14, <1>15
<1>17. {v["91"], v["92"], v["93"], v["94"], v["95"]} \subseteq Int
  BY <1>11, <1>12, <1>13, <1>14, <1>15
<1> QED  BY <1>3, <1>16, <1>17 DEF v

(* What a finite set is mapped to is finite.                               *)
LEMMA ImageFinite ==
  ASSUME NEW S, IsFiniteSet(S), NEW h
  PROVE  IsFiniteSet({h[x] : x \in S})
<1> DEFINE T == {h[x] : x \in S}
           k == [x \in S |-> h[x]]
<1>1. k \in Surjection(S, T)  BY DEF Surjection
<1> QED  BY <1>1, FS_Surjection

\* The rows of some months.
Over(rows, M) == {r \in rows : r.month \in M}

(* The rows of some imports are finite, typed, without an answer, and each *)
(* known by its identity.                                                  *)
LEMMA StoredRows ==
  ASSUME NEW of \in SUBSET Imports, NEW basis
  PROVE  LET B == Transactions(of, basis)
         IN  /\ IsFiniteSet(B) /\ B \subseteq ReportRow
             /\ \A r, q \in B : r.id = q.id => r = q
             /\ \A r \in B : r.by = 0
             /\ \A r \in B, v \in Verdicts : Says[<<r.id, v>>] \in Places
<1> DEFINE X == {x \in of : Contents[x].source = basis}
           h == [b \in X |-> Contents[b].rows]
           B == Transactions(of, basis)
<1>1. IsFiniteSet(X)  BY ReportConstants, FS_Subset DEF Imports
<1>2. IsFiniteSet({h[b] : b \in X})
  <2> HIDE DEF h, X
  <2> QED  BY <1>1, ImageFinite
<1>3. {h[b] : b \in X} = {Contents[b].rows : b \in X}  OBVIOUS
<1>4. \A T \in {Contents[b].rows : b \in X} : IsFiniteSet(T)  BY ReportRows
<1>5. IsFiniteSet(UNION {Contents[b].rows : b \in X})
  <2> HIDE DEF h, X
  <2> QED  BY <1>2, <1>3, <1>4, FS_UNION
<1>6. \A r \in B : \E b \in Imports : r \in Contents[b].rows  BY DEF Transactions
<1>7. B \subseteq ReportRow /\ \A r \in B : r.by = 0  BY <1>6, ReportRows
<1>8. \A r \in B, v \in Verdicts : Says[<<r.id, v>>] \in Places  BY <1>6, ReportAnswers
<1>9. \A r, q \in B : r.id = q.id => r = q  BY <1>6, ReportRows
<1> QED  BY <1>5, <1>7, <1>8, <1>9 DEF Transactions

(* A row as it is joined to its answers: itself, but for who answered and  *)
(* where that puts it; once without an answer, once for each it has.       *)
LEMMA JoinedRow ==
  ASSUME NEW seen, NEW r \in ReportRow, \A v \in Verdicts : Says[<<r.id, v>>] \in Places
  PROVE  /\ IsFiniteSet(Joined(r, seen))
         /\ Joined(r, seen) # {}
         /\ \A q \in Joined(r, seen) : /\ q \in ReportRow /\ q.id = r.id /\ q.month = r.month
                                       /\ q.minor = r.minor /\ q.transfer = r.transfer
         /\ \A q, p \in Joined(r, seen) : q.by = p.by => q = p
<1> DEFINE L == LiveOf(r, seen)
           h == [v \in L |-> [r EXCEPT !.by = v, !.place = Says[<<r.id, v>>]]]
<1>1. CASE L = {}
  <2>1. Joined(r, seen) = {r}  BY <1>1 DEF Joined
  <2> QED  BY <2>1, FS_Singleton
<1>2. CASE L # {}
  <2>1. Joined(r, seen) = {h[v] : v \in L}  BY <1>2 DEF Joined
  <2>2. L \subseteq Verdicts /\ IsFiniteSet(L)  BY ReportConstants, FS_Subset DEF LiveOf
  <2>3. ASSUME NEW v \in L
        PROVE  /\ h[v] \in ReportRow /\ h[v].id = r.id /\ h[v].month = r.month
               /\ h[v].minor = r.minor /\ h[v].transfer = r.transfer /\ h[v].by = v
    <3>1. Says[<<r.id, v>>] \in Places /\ v \in Verdicts  BY <2>2
    <3> QED  BY <3>1 DEF ReportRow
  <2> HIDE DEF h, L
  <2>4. IsFiniteSet({h[v] : v \in L})  BY <2>2, ImageFinite
  <2> QED  BY <1>2, <2>1, <2>3, <2>4
<1> QED  BY <1>1, <1>2

(* What a statement joins of some imports are their rows: none is lost,    *)
(* and each comes once for each of its answers.                            *)
LEMMA RowsOnce ==
  ASSUME NEW seen \in Seen, NEW basis
  PROVE  LET R == RowsOfImports(seen, basis)
             B == Transactions(seen.imported, basis)
         IN  /\ IsFiniteSet(R)
             /\ \A q \in R : q \in ReportRow /\ \E r \in B : /\ q.id = r.id /\ q.month = r.month
                                                             /\ q.minor = r.minor /\ q.transfer = r.transfer
             /\ \A r \in B : \E q \in R : q.id = r.id
             /\ \A q, p \in R : q.id = p.id /\ q.by = p.by => q = p
<1> DEFINE R == RowsOfImports(seen, basis)
           B == Transactions(seen.imported, basis)
           h == [r \in B |-> Joined(r, seen)]
<1>1. /\ IsFiniteSet(B) /\ B \subseteq ReportRow
      /\ \A r, q \in B : r.id = q.id => r = q
      /\ \A r \in B, v \in Verdicts : Says[<<r.id, v>>] \in Places
  BY StoredRows DEF Seen
<1>2. R = UNION {h[r] : r \in B}  BY DEF RowsOfImports
<1>3. ASSUME NEW r \in B
      PROVE  /\ IsFiniteSet(h[r]) /\ h[r] # {}
             /\ \A q \in h[r] : /\ q \in ReportRow /\ q.id = r.id /\ q.month = r.month
                                /\ q.minor = r.minor /\ q.transfer = r.transfer
             /\ \A q, p \in h[r] : q.by = p.by => q = p
  <2>1. r \in ReportRow /\ h[r] = Joined(r, seen)  BY <1>1
  <2>2. \A v \in Verdicts : Says[<<r.id, v>>] \in Places  BY <1>1
  <2> HIDE DEF h, B
  <2> QED  BY <2>1, <2>2, JoinedRow
<1> HIDE DEF R, B, h
<1>4. IsFiniteSet(R)
  <2>1. IsFiniteSet({h[r] : r \in B})  BY <1>1, ImageFinite
  <2>2. \A T \in {h[r] : r \in B} : IsFiniteSet(T)  BY <1>3
  <2> QED  BY <1>2, <2>1, <2>2, FS_UNION
<1>5. ASSUME NEW q \in R PROVE \E r \in B : q \in h[r]  BY <1>2
<1>6. ASSUME NEW q \in R, NEW p \in R, q.id = p.id, q.by = p.by PROVE q = p
  <2>1. PICK r \in B : q \in h[r]  BY <1>5
  <2>2. PICK t \in B : p \in h[t]  BY <1>5
  <2>3. r = t  BY <1>1, <1>3, <1>6, <2>1, <2>2
  <2> QED  BY <1>3, <1>6, <2>1, <2>2, <2>3
<1>7. ASSUME NEW q \in R
      PROVE  q \in ReportRow /\ \E r \in B : /\ q.id = r.id /\ q.month = r.month
                                             /\ q.minor = r.minor /\ q.transfer = r.transfer
  <2>1. PICK r \in B : q \in h[r]  BY <1>5
  <2> QED  BY <1>3, <2>1
<1>8. ASSUME NEW r \in B PROVE \E q \in R : q.id = r.id
  <2>1. PICK q : q \in h[r]  BY <1>3
  <2> QED  BY <1>2, <1>3, <2>1
<1> QED  BY <1>4, <1>6, <1>7, <1>8 DEF R, B

(* Rows that stand one for one for stored ones make the same amounts.      *)
LEMMA SameTotal ==
  ASSUME NEW B, IsFiniteSet(B), B \subseteq ReportRow, \A r, q \in B : r.id = q.id => r = q,
         NEW R, \A q \in R : \E r \in B : q.id = r.id /\ q.month = r.month /\ q.minor = r.minor,
         \A r \in B : \E q \in R : q.id = r.id,
         \A q, p \in R : q.id = p.id => q = p,
         NEW M
  PROVE  Total(Over(R, M)) = Total(Over(B, M))
<1> DEFINE h == [r \in B |-> CHOOSE q \in R : q.id = r.id]
<1>2. ASSUME NEW r \in B
      PROVE  h[r] \in R /\ h[r].id = r.id /\ h[r].month = r.month /\ h[r].minor = r.minor
  <2>1. h[r] \in R /\ h[r].id = r.id  OBVIOUS
  <2>2. PICK s \in B : h[r].id = s.id /\ h[r].month = s.month /\ h[r].minor = s.minor  BY <2>1
  <2>3. s = r  BY <2>1, <2>2
  <2> QED  BY <2>1, <2>2, <2>3
<1>3. ASSUME NEW q \in R
      PROVE  \E r \in B : q = h[r] /\ q.month = r.month
  <2>1. PICK r \in B : q.id = r.id /\ q.month = r.month  OBVIOUS
  <2>2. q = h[r]  BY <1>2, <2>1
  <2> QED  BY <2>1, <2>2
<1> HIDE DEF h
<1> DEFINE S == Over(B, M)
           f == [r \in S |-> r.minor]
           g == [q \in Over(R, M) |-> q.minor]
<1>4. S \in SUBSET B /\ IsFiniteSet(S)  BY FS_Subset DEF Over
<1>5. Over(R, M) = {h[r] : r \in S}  BY <1>2, <1>3 DEF Over
<1>6. \A r \in S : f[r] \in Int /\ g[h[r]] = f[r]
  <2>1. ASSUME NEW r \in S PROVE f[r] \in Int /\ g[h[r]] = f[r]
    <3>1. h[r] \in Over(R, M) /\ h[r].minor = r.minor  BY <1>2, <1>4, <1>5
    <3>2. r.minor \in Int  BY <1>4 DEF ReportRow
    <3> QED  BY <3>1, <3>2
  <2> QED  BY <2>1
<1>7. \A r, s \in S : h[r] = h[s] => r = s  BY <1>2, <1>4
<1>8. SumFunctionOnSet(g, {h[r] : r \in S}) = SumFunctionOnSet(f, S)
  <2> HIDE DEF S, f, g
  <2> QED  BY <1>4, <1>6, <1>7, SumCarried
<1> QED  BY <1>5, <1>8 DEF Total

\* The amount of a row, as a function; the total of some of the rows is its sum.
Minor(rows) == [r \in rows |-> r.minor]

(* The total of some rows is a sum over them of one function.              *)
LEMMA TotalAs ==
  ASSUME NEW R, IsFiniteSet(R), NEW T \in SUBSET R, \A r \in R : r.minor \in Int
  PROVE  /\ Total(T) = SumFunctionOnSet(Minor(R), T)
         /\ Total(T) \in Int /\ IsFiniteSet(T)
         /\ \A r \in T : Minor(R)[r] \in Int
<1>1. IsFiniteSet(T)  BY FS_Subset
<1>2. \A r \in T : [q \in T |-> q.minor][r] = Minor(R)[r]  BY DEF Minor
<1>3. SumFunctionOnSet([q \in T |-> q.minor], T) = SumFunctionOnSet(Minor(R), T)
  BY <1>1, <1>2, SumSame
<1>4. \A r \in T : Minor(R)[r] \in Int  BY DEF Minor
<1> QED  BY <1>1, <1>3, <1>4, SumInt DEF Total

(* The total of two sets of rows apart.                                    *)
LEMMA TotalUnion ==
  ASSUME NEW R, IsFiniteSet(R), \A r \in R : r.minor \in Int,
         NEW S \in SUBSET R, NEW T \in SUBSET R, S \cap T = {}
  PROVE  Total(S \cup T) = Total(S) + Total(T)
<1>1. S \cup T \in SUBSET R  OBVIOUS
<1>2. /\ Total(S) = SumFunctionOnSet(Minor(R), S) /\ IsFiniteSet(S)
      /\ Total(T) = SumFunctionOnSet(Minor(R), T) /\ IsFiniteSet(T)
      /\ Total(S \cup T) = SumFunctionOnSet(Minor(R), S \cup T)
      /\ \A r \in S \cup T : Minor(R)[r] \in Int
  BY <1>1, TotalAs
<1> QED  BY <1>2, SumUnion

(* The joined rows of some months make the amount their stored rows make,  *)
(* and that of the rows that come again.                                   *)
LEMMA RowsTotal ==
  ASSUME NEW seen \in Seen, NEW basis
  PROVE  LET R == RowsOfImports(seen, basis)
             B == Transactions(seen.imported, basis)
         IN  /\ IsFiniteSet(R) /\ R \subseteq ReportRow
             /\ \A q, p \in R : q.id = p.id /\ q.by = p.by => q = p
             /\ \A M : /\ Total(Over(R, M)) = Total(Over(B, M)) + CountedAgain(seen, basis, M)
                       /\ Total(Over(B, M)) \in Int /\ CountedAgain(seen, basis, M) \in Int
<1> DEFINE R == RowsOfImports(seen, basis)
           B == Transactions(seen.imported, basis)
           F == R \ Again(R)
<1>1. IsFiniteSet(B) /\ B \subseteq ReportRow /\ \A r, q \in B : r.id = q.id => r = q
  BY StoredRows DEF Seen
<1>2. /\ IsFiniteSet(R)
      /\ \A q \in R : q \in ReportRow /\ \E r \in B : q.id = r.id /\ q.month = r.month /\ q.minor = r.minor
      /\ \A r \in B : \E q \in R : q.id = r.id
      /\ \A q, p \in R : q.id = p.id /\ q.by = p.by => q = p
  BY RowsOnce
<1>3. \A M : CountedAgain(seen, basis, M) = Total(Over(Again(R), M))  BY DEF CountedAgain, Over
<1> HIDE DEF R, B
<1>4. \A q \in R : q.by \in Nat /\ q.minor \in Int  BY <1>2, ReportConstants DEF ReportRow
<1>5. ASSUME NEW r \in B PROVE \E q \in F : q.id = r.id
  <2> DEFINE T == {q.by : q \in {x \in R : x.id = r.id}}
  <2>1. T \subseteq Nat /\ T # {}  BY <1>2, <1>4
  <2>2. PICK n \in T : \A k \in T : n <= k
    <3> HIDE DEF T
    <3> QED  BY <2>1, LeastNat
  <2>3. PICK q \in R : q.id = r.id /\ q.by = n  BY <2>2
  <2>4. ASSUME NEW p \in R, p.id = q.id, p.by < q.by PROVE FALSE
    <3>1. p.by \in T /\ p.by \in Nat /\ q.by \in Nat  BY <1>4, <2>3, <2>4
    <3>2. n <= p.by  BY <2>2, <3>1
    <3> HIDE DEF T
    <3> QED  BY <2>3, <2>4, <3>1, <3>2
  <2>5. q \notin Again(R)  BY <2>4 DEF Again
  <2> QED  BY <2>3, <2>5
<1>6. ASSUME NEW q \in F, NEW p \in F, q.id = p.id PROVE q = p
  <2>1. ~(q.by < p.by) /\ ~(p.by < q.by)  BY <1>6 DEF Again
  <2>2. q.by = p.by  BY <1>4, <2>1
  <2> QED  BY <1>2, <1>6, <2>2
<1>7. \A q \in F : \E r \in B : q.id = r.id /\ q.month = r.month /\ q.minor = r.minor  BY <1>2
<1>8. ASSUME NEW M
      PROVE  /\ Total(Over(R, M)) = Total(Over(B, M)) + CountedAgain(seen, basis, M)
             /\ Total(Over(B, M)) \in Int /\ CountedAgain(seen, basis, M) \in Int
  <2>1. Again(R) \subseteq R  BY DEF Again
  <2> HIDE DEF F
  <2>2. Total(Over(F, M)) = Total(Over(B, M))  BY <1>1, <1>5, <1>6, <1>7, SameTotal
  <2> USE DEF F
  <2> DEFINE S == Over(F, M)
             T == Over(Again(R), M)
  <2>3. S \in SUBSET R /\ T \in SUBSET R /\ S \cap T = {} /\ S \cup T = Over(R, M)  BY <2>1 DEF Over
  <2> HIDE DEF S, T, F
  <2>4. Total(S \cup T) = Total(S) + Total(T) /\ Total(S) \in Int /\ Total(T) \in Int
    BY <1>2, <1>4, <2>3, TotalUnion, TotalAs
  <2> QED  BY <1>3, <2>2, <2>3, <2>4 DEF S, T
<1>9. R \subseteq ReportRow  BY <1>2
<1> QED  BY <1>2, <1>8, <1>9 DEF R, B

(* Rows counted apart make, in a month, what they make there.              *)
LEMMA ApartTotal ==
  ASSUME NEW R, IsFiniteSet(R), R \subseteq ReportRow, NEW m,
         \A q, p \in R : q.id = p.id /\ q.by = p.by => q = p
  PROVE  Stored(CountedApart(R), "other_basis", m) = Total(Over(R, {m}))
<1> DEFINE S == Over(R, {m})
           h == [r \in R |-> [r EXCEPT !.place = "other_basis"]]
           D == {h[r] : r \in S}
           f == [r \in S |-> r.minor]
           g == [q \in D |-> q.minor]
<1>1. ASSUME NEW r \in R
      PROVE  /\ h[r].id = r.id /\ h[r].by = r.by /\ h[r].month = r.month /\ h[r].minor = r.minor
             /\ h[r].place = "other_basis" /\ r.minor \in Int
  BY DEF ReportRow
<1>2. CountedApart(R) = {h[r] : r \in R}  BY DEF CountedApart
<1> HIDE DEF h
<1>3. S \in SUBSET R /\ IsFiniteSet(S)  BY FS_Subset DEF Over
<1>4. In(CountedApart(R), "other_basis", m) = D  BY <1>1, <1>2 DEF In, Over
<1>5. \A r \in S : f[r] \in Int /\ g[h[r]] = f[r]
  <2>1. ASSUME NEW r \in S PROVE f[r] \in Int /\ g[h[r]] = f[r]
    <3>1. h[r] \in D /\ r \in R  BY <1>3
    <3> QED  BY <1>1, <3>1
  <2> QED  BY <2>1
<1>6. \A r, s \in S : h[r] = h[s] => r = s  BY <1>1, <1>3
<1>7. SumFunctionOnSet(g, {h[r] : r \in S}) = SumFunctionOnSet(f, S)
  <2> HIDE DEF S, f, g
  <2> QED  BY <1>3, <1>5, <1>6, SumCarried
<1> QED  BY <1>4, <1>7 DEF Total, Stored


PeriodSet == Elems(Periods)
FirstPeriod == Periods[1]
LastPeriod == Periods[Len(Periods)]

(* The months of the range are an interval.                                *)
LEMMA MonthsAre ==
  /\ FirstPeriod \in Int /\ LastPeriod \in Int /\ FirstPeriod <= LastPeriod
  /\ PeriodSet = FirstPeriod..LastPeriod /\ IsFiniteSet(PeriodSet) /\ FirstPeriod \in PeriodSet /\ LastPeriod \in PeriodSet
<1> DEFINE n == Len(Periods)
           Off == {i \in 1..n : Periods[i] # FirstPeriod + i - 1}
<1>1. n \in Nat /\ n > 0 /\ DOMAIN Periods = 1..n /\ \A i \in 1..n : Periods[i] \in Int
  BY ReportRange
<1>2. FirstPeriod \in Int /\ LastPeriod \in Int  BY <1>1 DEF FirstPeriod, LastPeriod
<1>3. Off = {}
  <2> SUFFICES ASSUME Off # {} PROVE FALSE  OBVIOUS
  <2>1. Off \subseteq Nat  BY <1>1
  <2>2. PICK i \in Off : \A k \in Off : i <= k
    <3> HIDE DEF Off
    <3> QED  BY <2>1, LeastNat
  <2>3. i # 1  BY <1>1, <1>2 DEF FirstPeriod
  <2>4. i - 1 \in 1..(n - 1)  BY <2>3, <1>1
  <2>5. Periods[i - 1] = FirstPeriod + (i - 1) - 1
    <3>1. i - 1 \notin Off  BY <2>2, <2>4
    <3> QED  BY <3>1, <2>4, <1>1
  <2>6. Periods[(i - 1) + 1] = Periods[i - 1] + 1  BY <2>4, ReportRange
  <2>7. Periods[i] = FirstPeriod + i - 1  BY <2>4, <2>5, <2>6, <1>2
  <2> QED  BY <2>7
<1>4. \A i \in 1..n : Periods[i] = FirstPeriod + i - 1  BY <1>3
<1> HIDE DEF Off
<1>5. LastPeriod = FirstPeriod + n - 1  BY <1>1, <1>4 DEF LastPeriod
<1>6. PeriodSet = {Periods[i] : i \in 1..n}  BY <1>1 DEF PeriodSet, Elems
<1>7. ASSUME NEW m \in FirstPeriod..LastPeriod PROVE m \in PeriodSet
  <2>1. m - FirstPeriod + 1 \in 1..n  BY <1>1, <1>2, <1>5
  <2>2. Periods[m - FirstPeriod + 1] = m  BY <2>1, <1>2, <1>4
  <2> QED  BY <2>1, <2>2, <1>6
<1>8. ASSUME NEW m \in PeriodSet PROVE m \in FirstPeriod..LastPeriod
  <2>1. PICK i \in 1..n : m = FirstPeriod + i - 1  BY <1>4, <1>6
  <2> QED  BY <2>1, <1>1, <1>2, <1>5
<1>9. FirstPeriod <= LastPeriod  BY <1>1, <1>2, <1>5
<1>10. PeriodSet = FirstPeriod..LastPeriod  BY <1>7, <1>8
<1>11. IsFiniteSet(PeriodSet)  BY <1>2, <1>10, FS_Interval
<1> QED  BY <1>2, <1>9, <1>10, <1>11

(* Of one set of rows, what lies before a month and what lies in the range *)
(* from it make what lies before the month after.                          *)
LEMMA RangeTotal ==
  ASSUME NEW R, IsFiniteSet(R), R \subseteq ReportRow
  PROVE  /\ Balance(R, LastPeriod + 1) = Balance(R, FirstPeriod) + Total(Over(R, PeriodSet))
         /\ Balance(R, LastPeriod + 1) \in Int /\ Balance(R, FirstPeriod) \in Int /\ Total(Over(R, PeriodSet)) \in Int
<1> DEFINE S == {r \in R : r.month < FirstPeriod}
           T == Over(R, PeriodSet)
<1>1. \A r \in R : r.minor \in Int /\ r.month \in Int  BY DEF ReportRow
<1>2. S \in SUBSET R /\ T \in SUBSET R /\ S \cap T = {} /\ S \cup T = {r \in R : r.month < LastPeriod + 1}
  BY <1>1, MonthsAre DEF Over
<1>3. Total(S) \in Int /\ Total(T) \in Int
  <2> HIDE DEF S, T
  <2> QED  BY <1>1, <1>2, TotalAs
<1>4. Total(S \cup T) = Total(S) + Total(T)
  <2> HIDE DEF S, T
  <2> QED  BY <1>1, <1>2, TotalUnion
<1>5. Balance(R, LastPeriod + 1) = Total(S \cup T)  BY <1>2 DEF Balance
<1>6. Balance(R, FirstPeriod) = Total(S)  BY DEF Balance
<1>7. Total(S) + Total(T) \in Int  BY <1>3
<1> HIDE DEF S
<1> QED  BY <1>3, <1>4, <1>5, <1>6, <1>7

(* The months of a range sum to the range.                                 *)
LEMMA MonthByMonth ==
  ASSUME NEW R, IsFiniteSet(R), R \subseteq ReportRow, NEW f,
         \A m \in PeriodSet : f[m] = Total({r \in R : r.month = m})
  PROVE  SumOver(f) = Total(Over(R, PeriodSet))
<1> DEFINE k == [r \in R |-> r.month]
           g == Minor(R)
<1>1. \A r \in R : r.minor \in Int /\ r.month \in Int  BY DEF ReportRow
<1>2. \A r \in R : g[r] \in Int  BY <1>1 DEF Minor
<1>3. ASSUME NEW m \in PeriodSet PROVE f[m] = SumFunctionOnSet(g, {r \in R : k[r] = m})
  <2>1. {r \in R : k[r] = m} = {r \in R : r.month = m}  OBVIOUS
  <2>2. {r \in R : r.month = m} \in SUBSET R  OBVIOUS
  <2>3. Total({r \in R : r.month = m}) = SumFunctionOnSet(g, {r \in R : r.month = m})
    BY <1>1, <2>2, TotalAs
  <2> QED  BY <2>1, <2>3
<1>4. SumFunctionOnSet(f, PeriodSet) = SumFunctionOnSet(g, {r \in R : k[r] \in PeriodSet})
  <2> HIDE DEF k, g
  <2> QED  BY <1>2, <1>3, MonthsAre, SumParts
<1>5. {r \in R : k[r] \in PeriodSet} = Over(R, PeriodSet)  BY DEF Over
<1>6. Over(R, PeriodSet) \in SUBSET R  BY DEF Over
<1>7. Total(Over(R, PeriodSet)) = SumFunctionOnSet(g, Over(R, PeriodSet))  BY <1>1, <1>6, TotalAs
<1> QED  BY <1>4, <1>5, <1>7 DEF SumOver, PeriodSet

(* A month's receipts, payments and transfers are its rows.                *)
LEMMA MonthMoves ==
  ASSUME NEW R, IsFiniteSet(R), R \subseteq ReportRow, NEW B, NEW m
  PROVE  LET line == ReconciliationLine(B, R, m)
         IN  /\ line.in \in Int /\ line.out \in Int /\ line.transfers \in Int
             /\ Total({r \in R : r.month = m}) \in Int
             /\ line.in - line.out - line.transfers = Total({r \in R : r.month = m})
<1> DEFINE own == {r \in R : r.month = m}
           I == {r \in own : ~r.transfer /\ r.minor > 0}
           O == {r \in own : ~r.transfer /\ r.minor < 0}
           X == {r \in own : r.transfer}
           Z == {r \in own : ~r.transfer /\ r.minor = 0}
<1>1. \A r \in R : r.minor \in Int /\ r.transfer \in BOOLEAN  BY DEF ReportRow
<1>2. /\ I \in SUBSET R /\ O \in SUBSET R /\ X \in SUBSET R /\ Z \in SUBSET R
      /\ I \cup O \in SUBSET R /\ (I \cup O) \cup X \in SUBSET R
      /\ I \cap O = {} /\ (I \cup O) \cap X = {} /\ ((I \cup O) \cup X) \cap Z = {}
      /\ own = ((I \cup O) \cup X) \cup Z
  BY <1>1
<1>3. Total(Z) = 0
  <2>1. IsFiniteSet(Z)  BY <1>2, FS_Subset
  <2>2. \A r \in Z : [q \in Z |-> q.minor][r] = 0  OBVIOUS
  <2> HIDE DEF Z
  <2> QED  BY <2>1, <2>2, SumZero DEF Total
<1>4. Total(I) \in Int /\ Total(O) \in Int /\ Total(X) \in Int
  <2> HIDE DEF I, O, X
  <2> QED  BY <1>1, <1>2, TotalAs
<1>5. /\ Total(I \cup O) = Total(I) + Total(O)
      /\ Total((I \cup O) \cup X) = Total(I \cup O) + Total(X)
      /\ Total(((I \cup O) \cup X) \cup Z) = Total((I \cup O) \cup X) + Total(Z)
  <2> HIDE DEF I, O, X, Z
  <2>1. Total(I \cup O) = Total(I) + Total(O)  BY <1>1, <1>2, TotalUnion
  <2>2. Total((I \cup O) \cup X) = Total(I \cup O) + Total(X)  BY <1>1, <1>2, TotalUnion
  <2>3. Total(((I \cup O) \cup X) \cup Z) = Total((I \cup O) \cup X) + Total(Z)  BY <1>1, <1>2, TotalUnion
  <2> QED  BY <2>1, <2>2, <2>3
<1> DEFINE i == Total(I)
           o == Total(O)
           x == Total(X)
<1>6. i \in Int /\ o \in Int /\ x \in Int /\ Total(own) = i + o + x + 0  BY <1>2, <1>3, <1>4, <1>5
<1> DEFINE line == ReconciliationLine(B, R, m)
<1>7. line.in = i /\ line.out = 0 - o /\ line.transfers = 0 - x
  BY DEF ReconciliationLine
<1> HIDE DEF i, o, x, line, own
<1>8. line.in \in Int /\ line.out \in Int /\ line.transfers \in Int /\ Total(own) \in Int
      /\ line.in - line.out - line.transfers = Total(own)
  BY <1>6, <1>7
<1> QED  BY <1>8 DEF line, own

Readings == [Elems(Statements) -> Seen]

(* The derived closing is the opening and the movements of the range.      *)
LEMMA StripMoves ==
  ASSUME NEW read \in Readings, NEW basis
  PROVE  LET a == GetManagementPNL(read, basis)
             B == Transactions(read["balances"].imported, basis)
             V == Transactions(read["movements"].imported, basis)
             strip == aggregateReconciliation(a)
         IN  /\ strip.opening = Balance(B, FirstPeriod)
             /\ strip.closing = Balance(B, FirstPeriod) + Total(Over(V, PeriodSet))
             /\ strip.in + strip.out = SumOver([m \in PeriodSet |-> cashByPeriod(a, m).net])
<1> DEFINE a == GetManagementPNL(read, basis)
           B == Transactions(read["balances"].imported, basis)
           V == Transactions(read["movements"].imported, basis)
           line(m) == ReconciliationLine(B, V, m)
           strip == aggregateReconciliation(a)
           in == [m \in PeriodSet |-> a.strip[m].in]
           out == [m \in PeriodSet |-> a.strip[m].out]
           transfers == [m \in PeriodSet |-> a.strip[m].transfers]
           own == [m \in PeriodSet |-> Total({r \in V : r.month = m})]
           net == [m \in PeriodSet |-> cashByPeriod(a, m).net]
           rest == [m \in PeriodSet |-> in[m] - out[m]]
<1>1. read["balances"].imported \in SUBSET Imports /\ read["movements"].imported \in SUBSET Imports
  BY StatementsAre DEF Readings, Seen
<1>2. IsFiniteSet(V) /\ V \subseteq ReportRow /\ IsFiniteSet(B) /\ B \subseteq ReportRow
  BY <1>1, StoredRows
<1>3. \A m \in PeriodSet : a.strip[m] = line(m)  BY DEF GetManagementPNL, PeriodSet
<1>4. strip.opening = a.strip[FirstPeriod].opening
      /\ strip.in = SumOver(in) /\ strip.out = 0 - SumOver(out)
      /\ strip.closing = a.strip[FirstPeriod].opening + SumOver(in) - SumOver(out) - SumOver(transfers)
  BY DEF aggregateReconciliation, PeriodSet, FirstPeriod
<1>5. a.strip[FirstPeriod].opening = Balance(B, FirstPeriod)
  <2>1. line(FirstPeriod).opening = Balance(B, FirstPeriod)  BY DEF ReconciliationLine
  <2> HIDE DEF a, line
  <2>2. a.strip[FirstPeriod] = line(FirstPeriod)  BY <1>3, MonthsAre
  <2> QED  BY <2>1, <2>2
<1>6. Balance(B, FirstPeriod) \in Int  BY <1>2, RangeTotal
<1>7. \A m \in PeriodSet : cashByPeriod(a, m).net = a.strip[m].in - a.strip[m].out
  BY DEF cashByPeriod
<1> HIDE DEF a, B, V, strip
<1>8. \A m \in PeriodSet : /\ in[m] \in Int /\ out[m] \in Int /\ transfers[m] \in Int /\ own[m] \in Int
                           /\ in[m] - out[m] - transfers[m] = own[m]
  <2>1. ASSUME NEW m \in PeriodSet
        PROVE  /\ line(m).in \in Int /\ line(m).out \in Int /\ line(m).transfers \in Int
               /\ Total({r \in V : r.month = m}) \in Int
               /\ line(m).in - line(m).out - line(m).transfers = Total({r \in V : r.month = m})
    BY <1>2, MonthMoves
  <2>2. \A m \in PeriodSet : in[m] = line(m).in /\ out[m] = line(m).out
                             /\ transfers[m] = line(m).transfers /\ own[m] = Total({r \in V : r.month = m})
    BY <1>3
  <2> HIDE DEF line, in, out, transfers, own
  <2> QED  BY <2>1, <2>2
<1>9. \A m \in PeriodSet : rest[m] = in[m] - out[m]  OBVIOUS
<1>10. \A m \in PeriodSet : net[m] = rest[m]  BY <1>7
<1>11. \A m \in PeriodSet : own[m] = Total({r \in V : r.month = m})  OBVIOUS
<1> HIDE DEF in, out, transfers, own, net, rest
<1>12. SumOver(own) = Total(Over(V, PeriodSet))  BY <1>2, <1>11, MonthByMonth
<1>13. SumOver(rest) = SumOver(in) - SumOver(out)
  BY <1>8, <1>9, MonthsAre, SumMinus DEF SumOver, PeriodSet
<1>14. SumOver(own) = SumOver(rest) - SumOver(transfers)
  <2>1. \A m \in PeriodSet : rest[m] \in Int /\ transfers[m] \in Int /\ own[m] = rest[m] - transfers[m]
    BY <1>8, <1>9
  <2> QED  BY <2>1, MonthsAre, SumMinus DEF SumOver, PeriodSet
<1>15. SumOver(in) \in Int /\ SumOver(out) \in Int /\ SumOver(transfers) \in Int
  BY <1>8, MonthsAre, SumInt DEF SumOver, PeriodSet
<1>16. SumOver(net) = SumOver(rest)  BY <1>10, MonthsAre, SumSame DEF SumOver, PeriodSet
<1>17. strip.closing = Balance(B, FirstPeriod) + SumOver(own)
  BY <1>4, <1>5, <1>6, <1>13, <1>14, <1>15
<1>18. strip.in + strip.out = SumOver(net)
  BY <1>4, <1>13, <1>15, <1>16
<1>19. strip.opening = Balance(B, FirstPeriod)  BY <1>4, <1>5
<1> QED  BY <1>12, <1>17, <1>18, <1>19 DEF a, B, V, strip, net

(* The strip, whatever is answered between its two readings: its closing   *)
(* is the one the server counted, and its receipts and payments are the    *)
(* months'.                                                                *)
LEMMA StripHolds ==
  ASSUME NEW read \in Readings, NEW basis,
         read["balances"].imported = read["movements"].imported
  PROVE  StripAgrees(GetManagementPNL(read, basis))
<1> DEFINE a == GetManagementPNL(read, basis)
           B == Transactions(read["balances"].imported, basis)
           V == Transactions(read["movements"].imported, basis)
<1>1. read["balances"].imported \in SUBSET Imports  BY StatementsAre DEF Readings, Seen
<1>2. Total(Over(B, PeriodSet)) = Total(Over(V, PeriodSet))  OBVIOUS
<1>3. Balance(B, LastPeriod + 1) = Balance(B, FirstPeriod) + Total(Over(B, PeriodSet))
  <2>1. IsFiniteSet(B) /\ B \subseteq ReportRow  BY <1>1, StoredRows
  <2> HIDE DEF B
  <2> QED  BY <2>1, RangeTotal
<1>4. a.strip[LastPeriod].closing = Balance(B, LastPeriod + 1)
  <2>1. a.strip[LastPeriod] = ReconciliationLine(B, V, LastPeriod)
    BY MonthsAre DEF GetManagementPNL, PeriodSet
  <2> QED  BY <2>1 DEF ReconciliationLine
<1>5. /\ aggregateReconciliation(a).closing = Balance(B, FirstPeriod) + Total(Over(V, PeriodSet))
      /\ aggregateReconciliation(a).in + aggregateReconciliation(a).out
           = SumOver([m \in PeriodSet |-> cashByPeriod(a, m).net])
  BY StripMoves
<1> HIDE DEF a, B, V
<1> QED  BY <1>2, <1>3, <1>4, <1>5 DEF StripAgrees, LastPeriod, PeriodSet, a

(* What is stored of a place and a month is a whole amount.                *)
LEMMA StoredInt ==
  ASSUME NEW R, IsFiniteSet(R), \A r \in R : r.minor \in Int, NEW c, NEW m
  PROVE  Stored(R, c, m) \in Int
<1>1. In(R, c, m) \in SUBSET R  BY DEF In
<1> QED  BY <1>1, TotalAs DEF Stored

(* A month's figures as the page shows them: revenue less each cost.       *)
LEMMA FigureIs ==
  ASSUME NEW R, IsFiniteSet(R), \A r \in R : r.minor \in Int, NEW m
  PROVE  /\ \A c \in Elems(Order) : Figure(R, c, m) \in Int
         /\ Figure(R, "01", m) = Stored(R, "01", m)
         /\ \A c \in Elems(Sections) \ {"01"} : Figure(R, c, m) = 0 - Stored(R, c, m)
         /\ Figure(R, "91", m) = Figure(R, "01", m) - Figure(R, "02", m)
         /\ Figure(R, "92", m) = Figure(R, "91", m) - Figure(R, "03", m)
         /\ Figure(R, "93", m) = Figure(R, "92", m) - Figure(R, "04", m) - Figure(R, "05", m)
         /\ Figure(R, "94", m) = Figure(R, "93", m) - Figure(R, "06", m)
         /\ Figure(R, "95", m) = Figure(R, "94", m) - Figure(R, "07", m)
<1> DEFINE s(c) == Stored(R, c, m)
           v == Value(R, m)
           g(c) == Figure(R, c, m)
<1>1. \A c : s(c) \in Int  BY StoredInt
<1>2. /\ \A c \in Elems(Sections) : v[c] = s(c)
      /\ v["91"] = s("01") + s("02") /\ v["92"] = v["91"] + s("03")
      /\ v["93"] = v["92"] + s("04") + s("05") /\ v["94"] = v["93"] + s("06")
      /\ v["95"] = v["94"] + s("07")
      /\ {v["91"], v["92"], v["93"], v["94"], v["95"]} \subseteq Int
  BY <1>1, ValueIs
<1>3. /\ g("91") = v["91"] /\ g("92") = v["92"] /\ g("93") = v["93"] /\ g("94") = v["94"] /\ g("95") = v["95"]
      /\ g("01") = v["01"]
      /\ \A c \in Elems(Sections) \ {"01"} : g(c) = 0 - v[c]
  BY SectionsAre DEF Figure
<1> HIDE DEF s, v, g
<1>4. /\ g("01") = s("01") /\ g("02") = 0 - s("02") /\ g("03") = 0 - s("03") /\ g("04") = 0 - s("04")
      /\ g("05") = 0 - s("05") /\ g("06") = 0 - s("06") /\ g("07") = 0 - s("07")
  BY <1>2, <1>3, SectionsAre
<1>5. \A c \in Elems(Sections) \ {"01"} : g(c) = 0 - s(c)  BY <1>2, <1>3
<1>6. v["91"] \in Int /\ v["92"] \in Int /\ v["93"] \in Int /\ v["94"] \in Int /\ v["95"] \in Int  BY <1>2
<1>7. /\ g("91") = g("01") - g("02") /\ g("92") = g("91") - g("03")
      /\ g("93") = g("92") - g("04") - g("05") /\ g("94") = g("93") - g("06")
      /\ g("95") = g("94") - g("07")
  BY <1>1, <1>2, <1>3, <1>4, <1>6
<1>8. /\ g("01") \in Int /\ g("02") \in Int /\ g("03") \in Int /\ g("04") \in Int
      /\ g("05") \in Int /\ g("06") \in Int /\ g("07") \in Int
  BY <1>1, <1>4
<1>9. \A c \in Elems(Order) : g(c) \in Int  BY <1>3, <1>6, <1>8, OrderIs
<1> QED  BY <1>4, <1>5, <1>7, <1>9 DEF s, g

\* A line of an answer, and its total.
ValuesOf(a, c) == a.lines[c].values
LineTotal(a, c) == a.lines[c].total

(* What each line of an answer is made of, month by month.                 *)
LEMMA LinesByMonth ==
  ASSUME NEW read \in Readings, NEW basis
  PROVE  LET a == GetManagementPNL(read, basis)
         IN  /\ \A c \in Elems(Order) : LineTotal(a, c) = SumOver(ValuesOf(a, c))
             /\ \A m \in PeriodSet :
                  /\ \A c \in Elems(Order) : ValuesOf(a, c)[m] \in Int
                  /\ ValuesOf(a, "91")[m] = ValuesOf(a, "01")[m] - ValuesOf(a, "02")[m]
                  /\ ValuesOf(a, "92")[m] = ValuesOf(a, "91")[m] - ValuesOf(a, "03")[m]
                  /\ ValuesOf(a, "93")[m] = ValuesOf(a, "92")[m] - ValuesOf(a, "04")[m] - ValuesOf(a, "05")[m]
                  /\ ValuesOf(a, "94")[m] = ValuesOf(a, "93")[m] - ValuesOf(a, "06")[m]
                  /\ ValuesOf(a, "95")[m] = ValuesOf(a, "94")[m] - ValuesOf(a, "07")[m]
<1> DEFINE a == GetManagementPNL(read, basis)
           R == RowsOfImports(read["lines"], basis)
<1>1. read["lines"] \in Seen  BY StatementsAre DEF Readings
<1>2. IsFiniteSet(R) /\ \A r \in R : r.minor \in Int
  <2>1. IsFiniteSet(R) /\ R \subseteq ReportRow  BY <1>1, RowsTotal
  <2> QED  BY <2>1 DEF ReportRow
<1>3. \A c \in Elems(Order) : LineTotal(a, c) = SumOver(ValuesOf(a, c))
  BY DEF GetManagementPNL, Totalled, ValuesOf, LineTotal
<1>4. \A c \in Elems(Order) : \A m \in PeriodSet : ValuesOf(a, c)[m] = Figure(R, c, m)
  BY DEF GetManagementPNL, Totalled, ValuesOf, PeriodSet
<1> HIDE DEF a, R
<1>5. ASSUME NEW m \in PeriodSet
      PROVE  /\ \A c \in Elems(Order) : ValuesOf(a, c)[m] \in Int
             /\ ValuesOf(a, "91")[m] = ValuesOf(a, "01")[m] - ValuesOf(a, "02")[m]
             /\ ValuesOf(a, "92")[m] = ValuesOf(a, "91")[m] - ValuesOf(a, "03")[m]
             /\ ValuesOf(a, "93")[m] = ValuesOf(a, "92")[m] - ValuesOf(a, "04")[m] - ValuesOf(a, "05")[m]
             /\ ValuesOf(a, "94")[m] = ValuesOf(a, "93")[m] - ValuesOf(a, "06")[m]
             /\ ValuesOf(a, "95")[m] = ValuesOf(a, "94")[m] - ValuesOf(a, "07")[m]
  <2>1. /\ \A c \in Elems(Order) : Figure(R, c, m) \in Int
        /\ Figure(R, "91", m) = Figure(R, "01", m) - Figure(R, "02", m)
        /\ Figure(R, "92", m) = Figure(R, "91", m) - Figure(R, "03", m)
        /\ Figure(R, "93", m) = Figure(R, "92", m) - Figure(R, "04", m) - Figure(R, "05", m)
        /\ Figure(R, "94", m) = Figure(R, "93", m) - Figure(R, "06", m)
        /\ Figure(R, "95", m) = Figure(R, "94", m) - Figure(R, "07", m)
    BY <1>2, FigureIs
  <2>2. \A c \in Elems(Order) : ValuesOf(a, c)[m] = Figure(R, c, m)  BY <1>4
  <2> QED  BY <2>1, <2>2, OrderIs
<1> QED  BY <1>3, <1>5 DEF a

(* And of the totals.                                                      *)
LEMMA TotalsChain ==
  ASSUME NEW read \in Readings, NEW basis
  PROVE  LET a == GetManagementPNL(read, basis)
         IN  /\ \A c \in Elems(Order) : LineTotal(a, c) \in Int
             /\ LineTotal(a, "91") = LineTotal(a, "01") - LineTotal(a, "02")
             /\ LineTotal(a, "92") = LineTotal(a, "91") - LineTotal(a, "03")
             /\ LineTotal(a, "93") = LineTotal(a, "92") - LineTotal(a, "04") - LineTotal(a, "05")
             /\ LineTotal(a, "94") = LineTotal(a, "93") - LineTotal(a, "06")
             /\ LineTotal(a, "95") = LineTotal(a, "94") - LineTotal(a, "07")
<1> DEFINE a == GetManagementPNL(read, basis)
           f(c) == ValuesOf(a, c)
           t(c) == LineTotal(a, c)
           part == [m \in PeriodSet |-> f("92")[m] - f("04")[m]]
<1>1. /\ \A c \in Elems(Order) : t(c) = SumOver(f(c))
      /\ \A m \in PeriodSet :
           /\ \A c \in Elems(Order) : f(c)[m] \in Int
           /\ f("91")[m] = f("01")[m] - f("02")[m] /\ f("92")[m] = f("91")[m] - f("03")[m]
           /\ f("93")[m] = f("92")[m] - f("04")[m] - f("05")[m]
           /\ f("94")[m] = f("93")[m] - f("06")[m] /\ f("95")[m] = f("94")[m] - f("07")[m]
  BY LinesByMonth
<1>2. IsFiniteSet(PeriodSet)  BY MonthsAre
<1>3. \A m \in PeriodSet : part[m] = f("92")[m] - f("04")[m]  OBVIOUS
<1> HIDE DEF a, f, t, part
<1>4. ASSUME NEW c \in Elems(Order) PROVE t(c) \in Int
  <2>1. \A m \in PeriodSet : f(c)[m] \in Int  BY <1>1
  <2> QED  BY <1>1, <1>2, <2>1, SumInt DEF SumOver, PeriodSet
<1>5. t("91") = t("01") - t("02")
  <2>1. \A m \in PeriodSet : f("01")[m] \in Int /\ f("02")[m] \in Int /\ f("91")[m] = f("01")[m] - f("02")[m]
    BY <1>1, OrderIs
  <2>2. SumOver(f("91")) = SumOver(f("01")) - SumOver(f("02"))  BY <1>2, <2>1, SumMinus DEF SumOver, PeriodSet
  <2> QED  BY <2>2, <1>1, OrderIs
<1>6. t("92") = t("91") - t("03")
  <2>1. \A m \in PeriodSet : f("91")[m] \in Int /\ f("03")[m] \in Int /\ f("92")[m] = f("91")[m] - f("03")[m]
    BY <1>1, OrderIs
  <2>2. SumOver(f("92")) = SumOver(f("91")) - SumOver(f("03"))  BY <1>2, <2>1, SumMinus DEF SumOver, PeriodSet
  <2> QED  BY <2>2, <1>1, OrderIs
<1>7. t("93") = t("92") - t("04") - t("05")
  <2>1. \A m \in PeriodSet : f("92")[m] \in Int /\ f("04")[m] \in Int /\ f("05")[m] \in Int
                             /\ part[m] = f("92")[m] - f("04")[m] /\ f("93")[m] = f("92")[m] - f("04")[m] - f("05")[m]
    BY <1>1, <1>3, OrderIs
  <2>2. SumOver(part) = SumOver(f("92")) - SumOver(f("04"))  BY <1>2, <2>1, SumMinus DEF SumOver, PeriodSet
  <2>3. \A m \in PeriodSet : part[m] \in Int /\ f("05")[m] \in Int /\ f("93")[m] = part[m] - f("05")[m]  BY <2>1
  <2>4. SumOver(f("93")) = SumOver(part) - SumOver(f("05"))  BY <1>2, <2>3, SumMinus DEF SumOver, PeriodSet
  <2> QED  BY <2>2, <2>4, <1>1, OrderIs
<1>8. t("94") = t("93") - t("06")
  <2>1. \A m \in PeriodSet : f("93")[m] \in Int /\ f("06")[m] \in Int /\ f("94")[m] = f("93")[m] - f("06")[m]
    BY <1>1, OrderIs
  <2>2. SumOver(f("94")) = SumOver(f("93")) - SumOver(f("06"))  BY <1>2, <2>1, SumMinus DEF SumOver, PeriodSet
  <2> QED  BY <2>2, <1>1, OrderIs
<1>9. t("95") = t("94") - t("07")
  <2>1. \A m \in PeriodSet : f("94")[m] \in Int /\ f("07")[m] \in Int /\ f("95")[m] = f("94")[m] - f("07")[m]
    BY <1>1, OrderIs
  <2>2. SumOver(f("95")) = SumOver(f("94")) - SumOver(f("07"))  BY <1>2, <2>1, SumMinus DEF SumOver, PeriodSet
  <2> QED  BY <2>2, <1>1, OrderIs
<1> QED  BY <1>4, <1>5, <1>6, <1>7, <1>8, <1>9 DEF a, t

(* Of things ranked by size and then by place, as many as there are slots  *)
(* have fewer than that ahead of them, and no more.                        *)
LEMMA FewAhead ==
  ASSUME NEW S, IsFiniteSet(S), NEW size, NEW place, NEW n \in Nat,
         \A c \in S : size[c] \in Int /\ place[c] \in Int,
         \A c, d \in S : place[c] = place[d] => c = d
  PROVE  Cardinality({c \in S :
           Cardinality({d \in S : size[d] > size[c] \/ (size[d] = size[c] /\ place[d] < place[c])}) < n}) <= n
<1> DEFINE Ahead(c) == {d \in S : size[d] > size[c] \/ (size[d] = size[c] /\ place[d] < place[c])}
           K == {c \in S : Cardinality(Ahead(c)) < n}
           Q == {T \in SUBSET S : T = {} \/ \E l \in T : T \ {l} \subseteq Ahead(l)}
<1>1. {} \in Q  OBVIOUS
<1>2. ASSUME NEW T \in SUBSET S, NEW x \in S \ T, T \in Q
      PROVE  T \cup {x} \in Q
  <2>1. CASE T = {}
    <3>1. (T \cup {x}) \ {x} \subseteq Ahead(x) /\ x \in T \cup {x}  BY <2>1
    <3> QED  BY <3>1
  <2>2. CASE T # {}
    <3>1. PICK l \in T : T \ {l} \subseteq Ahead(l)  BY <2>2, <1>2
    <3>2. x # l /\ l \in S /\ x \in S  OBVIOUS
    <3>3. x \in Ahead(l) \/ l \in Ahead(x)  BY <3>2
    <3>4. CASE x \in Ahead(l)
      <4>1. (T \cup {x}) \ {l} \subseteq Ahead(l) /\ l \in T \cup {x}  BY <3>1, <3>4
      <4> QED  BY <4>1
    <3>5. CASE l \in Ahead(x)
      <4>1. ASSUME NEW d \in T PROVE d \in Ahead(x)
        <5>1. CASE d = l  BY <5>1, <3>5
        <5>2. CASE d # l
          <6>1. d \in S /\ (size[d] > size[l] \/ (size[d] = size[l] /\ place[d] < place[l]))  BY <3>1, <5>2
          <6>2. size[l] > size[x] \/ (size[l] = size[x] /\ place[l] < place[x])  BY <3>5
          <6>3. /\ size[d] \in Int /\ size[l] \in Int /\ size[x] \in Int
                /\ place[d] \in Int /\ place[l] \in Int /\ place[x] \in Int
            BY <3>2, <6>1
          <6>4. size[d] > size[x] \/ (size[d] = size[x] /\ place[d] < place[x])  BY <6>1, <6>2, <6>3
          <6> QED  BY <6>1, <6>4
        <5> QED  BY <5>1, <5>2
      <4>2. (T \cup {x}) \ {x} \subseteq Ahead(x) /\ x \in T \cup {x}  BY <4>1
      <4> QED  BY <4>2
    <3> QED  BY <3>3, <3>4, <3>5
  <2> QED  BY <2>1, <2>2
<1>3. K \in Q
  <2>1. \A T \in SUBSET S : T \in Q
    <3> HIDE DEF Q
    <3> QED  BY <1>1, <1>2, SubsetInduction
  <2> QED  BY <2>1
<1>4. IsFiniteSet(K) /\ Cardinality(K) \in Nat
  <2>1. K \in SUBSET S  OBVIOUS
  <2> QED  BY <2>1, FS_Subset, FS_CardinalityType
<1>5. CASE K = {}
  <2>1. Cardinality(K) = 0  BY <1>5, FS_EmptySet
  <2> HIDE DEF K
  <2>2. Cardinality(K) <= n  BY <2>1
  <2> QED  BY <2>2 DEF K
<1>6. CASE K # {}
  <2>1. PICK l \in K : K \ {l} \subseteq Ahead(l)  BY <1>3, <1>6
  <2>2. IsFiniteSet(K \ {l}) /\ Cardinality(K \ {l}) = Cardinality(K) - 1
    <3> HIDE DEF K
    <3> QED  BY <1>4, FS_RemoveElement
  <2>3. Ahead(l) \in SUBSET S  OBVIOUS
  <2>4. IsFiniteSet(Ahead(l))  BY <2>3, FS_Subset
  <2>5. Cardinality(K \ {l}) <= Cardinality(Ahead(l)) /\ Cardinality(Ahead(l)) \in Nat
    <3> HIDE DEF Ahead, K
    <3> QED  BY <2>1, <2>4, FS_Subset, FS_CardinalityType
  <2>6. Cardinality(Ahead(l)) < n  OBVIOUS
  <2>7. Cardinality(K) <= n  BY <2>2, <2>5, <2>6, <1>4
  <2> QED  BY <2>7
<1> QED  BY <1>5, <1>6

(* There are finitely many sections and lines.                             *)
LEMMA SectionsFinite == IsFiniteSet(Elems(Sections)) /\ IsFiniteSet(Elems(Order))
<1>1. DOMAIN Sections = 1..7 /\ DOMAIN Order = 1..12  BY DEF Sections, Order
<1>2. \A n \in Nat : IsFiniteSet(1..n)  BY FS_Interval
<1> QED  BY <1>1, <1>2, ImageFinite DEF Elems

(* The cost chart keeps no more lines than it has slots, whatever ties.    *)
LEMMA KeptFew ==
  ASSUME NEW a, \A c \in Elems(Order) : a.lines[c].total \in Int
  PROVE  Cardinality(Kept(a)) <= Slots /\ Kept(a) \subseteq Costs(a) /\ IsFiniteSet(Costs(a))
<1> DEFINE C == Costs(a)
           size == [c \in C |-> a.lines[c].total]
           place == [c \in C |-> CHOOSE i \in DOMAIN Order : Order[i] = c]
<1>1. C \subseteq {"02", "03", "04", "05", "06", "07"}  BY SectionsAre DEF Costs
<1>2. IsFiniteSet(C)
  <2>1. C \in SUBSET Elems(Sections)  BY <1>1, SectionsAre
  <2> QED  BY <2>1, SectionsFinite, FS_Subset
<1>3. C \subseteq Elems(Order)  BY <1>1, OrderIs
<1>4. \A c \in Elems(Order) : \E i \in DOMAIN Order : Order[i] = c  BY DEF Elems
<1>5. \A i, j \in DOMAIN Order : Order[i] = Order[j] => i = j  BY DEF Order
<1>6. DOMAIN Order \subseteq Int  BY DEF Order
<1>7. \A c \in C : place[c] \in DOMAIN Order /\ Order[place[c]] = c  BY <1>3, <1>4
<1>8. \A c, d \in C : (\E i \in DOMAIN Order : Order[i] = d /\ \E j \in DOMAIN Order : i < j /\ Order[j] = c) <=> place[d] < place[c]
  BY <1>5, <1>7
<1>9. \A c \in C : size[c] = a.lines[c].total /\ size[c] \in Int /\ place[c] \in Int  BY <1>3, <1>6, <1>7
<1>10. \A c, d \in C : place[c] = place[d] => c = d  BY <1>7
<1> HIDE DEF size, place
<1>11. Kept(a) = {c \in C :
           Cardinality({d \in C : size[d] > size[c] \/ (size[d] = size[c] /\ place[d] < place[c])}) < Slots}
  <2>1. ASSUME NEW c \in C
        PROVE  {d \in C : a.lines[d].total > a.lines[c].total
                          \/ (a.lines[d].total = a.lines[c].total
                              /\ \E i \in DOMAIN Order : Order[i] = d /\ \E j \in DOMAIN Order : i < j /\ Order[j] = c)}
               = {d \in C : size[d] > size[c] \/ (size[d] = size[c] /\ place[d] < place[c])}
    BY <1>8, <1>9
  <2>2. Kept(a) = {c \in C :
           Cardinality({d \in C : a.lines[d].total > a.lines[c].total
                          \/ (a.lines[d].total = a.lines[c].total
                              /\ \E i \in DOMAIN Order : Order[i] = d /\ \E j \in DOMAIN Order : i < j /\ Order[j] = c)}) < Slots}
    BY DEF Kept, ReportLine
  <2> HIDE DEF C
  <2> QED  BY <2>1, <2>2
<1> HIDE DEF C
<1>12. Slots \in Nat  BY ReportConstants
<1>13. Cardinality(Kept(a)) <= Slots
  <2>1. \A c \in C : size[c] \in Int /\ place[c] \in Int  BY <1>9
  <2>2. Cardinality({c \in C :
           Cardinality({d \in C : size[d] > size[c] \/ (size[d] = size[c] /\ place[d] < place[c])}) < Slots}) <= Slots
    BY <1>2, <2>1, <1>10, <1>12, FewAhead
  <2> QED  BY <2>2, <1>11
<1>14. Kept(a) \subseteq C  BY <1>11
<1> QED  BY <1>2, <1>13, <1>14 DEF C

CostSections == Elems(Sections) \ {"01"}

(* The sections below revenue, summed one by one.                          *)
LEMMA CostsSum ==
  ASSUME NEW f, f["02"] \in Int, f["03"] \in Int, f["04"] \in Int,
         f["05"] \in Int, f["06"] \in Int, f["07"] \in Int
  PROVE  SumFunctionOnSet(f, CostSections) = f["02"] + f["03"] + f["04"] + f["05"] + f["06"] + f["07"]
<1> DEFINE A == {"02"} \cup {"03"}
           B == A \cup {"04"}
           C == B \cup {"05"}
           D == C \cup {"06"}
           E == D \cup {"07"}
<1>1. E = CostSections  BY SectionsAre DEF CostSections
<1>2. \A c \in E : f[c] \in Int  OBVIOUS
<1>3. /\ "04" \notin A /\ "05" \notin B /\ "06" \notin C /\ "07" \notin D
      /\ A \subseteq E /\ B \subseteq E /\ C \subseteq E /\ D \subseteq E
  OBVIOUS
<1>4. SumFunctionOnSet(f, A) = f["02"] + f["03"] /\ IsFiniteSet(A)  BY SumTwo
<1>5. /\ B = A \cup {"04"} /\ C = B \cup {"05"} /\ D = C \cup {"06"} /\ E = D \cup {"07"}  OBVIOUS
<1> HIDE DEF A, B, C, D, E
<1>6. SumFunctionOnSet(f, B) = f["04"] + SumFunctionOnSet(f, A) /\ IsFiniteSet(B)
  <2>1. (\A c \in A : f[c] \in Int) /\ "04" \notin A /\ IsFiniteSet(A)  BY <1>2, <1>3, <1>4
  <2>2. SumFunctionOnSet(f, A \cup {"04"}) = f["04"] + SumFunctionOnSet(f, A)  BY <2>1, SumAdd
  <2>3. IsFiniteSet(A \cup {"04"})  BY <2>1, FS_AddElement
  <2> QED  BY <2>2, <2>3, <1>5
<1>7. SumFunctionOnSet(f, C) = f["05"] + SumFunctionOnSet(f, B) /\ IsFiniteSet(C)
  <2>1. (\A c \in B : f[c] \in Int) /\ "05" \notin B /\ IsFiniteSet(B)  BY <1>2, <1>3, <1>6
  <2>2. SumFunctionOnSet(f, B \cup {"05"}) = f["05"] + SumFunctionOnSet(f, B)  BY <2>1, SumAdd
  <2>3. IsFiniteSet(B \cup {"05"})  BY <2>1, FS_AddElement
  <2> QED  BY <2>2, <2>3, <1>5
<1>8. SumFunctionOnSet(f, D) = f["06"] + SumFunctionOnSet(f, C) /\ IsFiniteSet(D)
  <2>1. (\A c \in C : f[c] \in Int) /\ "06" \notin C /\ IsFiniteSet(C)  BY <1>2, <1>3, <1>7
  <2>2. SumFunctionOnSet(f, C \cup {"06"}) = f["06"] + SumFunctionOnSet(f, C)  BY <2>1, SumAdd
  <2>3. IsFiniteSet(C \cup {"06"})  BY <2>1, FS_AddElement
  <2> QED  BY <2>2, <2>3, <1>5
<1>9. SumFunctionOnSet(f, E) = f["07"] + SumFunctionOnSet(f, D) /\ IsFiniteSet(E)
  <2>1. (\A c \in D : f[c] \in Int) /\ "07" \notin D /\ IsFiniteSet(D)  BY <1>2, <1>3, <1>8
  <2>2. SumFunctionOnSet(f, D \cup {"07"}) = f["07"] + SumFunctionOnSet(f, D)  BY <2>1, SumAdd
  <2>3. IsFiniteSet(D \cup {"07"})  BY <2>1, FS_AddElement
  <2> QED  BY <2>2, <2>3, <1>5
<1>10. SumFunctionOnSet(f, E) = f["07"] + (f["06"] + (f["05"] + (f["04"] + (f["02"] + f["03"]))))
  BY <1>4, <1>6, <1>7, <1>8, <1>9
<1>11. f["07"] + (f["06"] + (f["05"] + (f["04"] + (f["02"] + f["03"]))))
         = f["02"] + f["03"] + f["04"] + f["05"] + f["06"] + f["07"]
  OBVIOUS
<1> QED  BY <1>1, <1>10, <1>11

(* The flow's costs, the ones folded away and the credits it leaves out    *)
(* are all the sections below revenue.                                     *)
LEMMA CostsSplit ==
  ASSUME NEW a, \A c \in Elems(Order) : a.lines[c].total \in Int
  PROVE  /\ SumFunctionOnSet(LineTotals(a), CostSections)
              = (SumFunctionOnSet(LineTotals(a), Kept(a)) + Other(a)) - Credits(a)
         /\ SumFunctionOnSet(LineTotals(a), Kept(a)) \in Int /\ Other(a) \in Int /\ Credits(a) \in Int
<1> DEFINE T == LineTotals(a)
           C == Costs(a)
           K == Kept(a)
           N == {c \in CostSections : a.lines[c].total < 0}
           Z == {c \in CostSections : a.lines[c].total = 0}
<1>1. CostSections \subseteq Elems(Order) /\ IsFiniteSet(CostSections)
  <2>1. CostSections \subseteq Elems(Sections)  BY DEF CostSections
  <2> QED  BY <2>1, SectionsAre, OrderIs, SectionsFinite, FS_Subset
<1>2. \A c \in CostSections : T[c] = a.lines[c].total /\ T[c] \in Int  BY <1>1 DEF LineTotals, ReportLine
<1>3. C = {c \in CostSections : a.lines[c].total > 0}  BY DEF Costs, CostSections, ReportLine
<1>4. K \subseteq C /\ IsFiniteSet(C)  BY KeptFew
<1>5. CostSections = (C \cup N) \cup Z /\ C \cap N = {} /\ (C \cup N) \cap Z = {}
  BY <1>1, <1>3
<1>6. C \subseteq CostSections /\ N \subseteq CostSections /\ Z \subseteq CostSections /\ C \cup N \subseteq CostSections
  BY <1>3
<1>7. \A c \in Z : T[c] = 0  BY <1>2
<1>8. Other(a) = SumFunctionOnSet(T, C \ K)  BY DEF Other
<1>9. Credits(a) = 0 - SumFunctionOnSet(T, N)  BY DEF Credits, CostSections, ReportLine
<1> HIDE DEF T, C, K, N, Z
<1>10. IsFiniteSet(N) /\ IsFiniteSet(Z) /\ IsFiniteSet(C \cup N)  BY <1>1, <1>6, FS_Subset
<1>11. K \in SUBSET C /\ C \ K \in SUBSET C /\ C = K \cup (C \ K) /\ K \cap (C \ K) = {}  BY <1>4
<1>12. IsFiniteSet(K) /\ IsFiniteSet(C \ K)  BY <1>4, <1>11, FS_Subset
<1>13. SumFunctionOnSet(T, C) = SumFunctionOnSet(T, K) + SumFunctionOnSet(T, C \ K)
  <2>1. \A c \in K \cup (C \ K) : T[c] \in Int  BY <1>2, <1>6, <1>11
  <2>2. SumFunctionOnSet(T, K \cup (C \ K)) = SumFunctionOnSet(T, K) + SumFunctionOnSet(T, C \ K)
    BY <2>1, <1>11, <1>12, SumUnion
  <2> QED  BY <2>2, <1>11
<1>14. SumFunctionOnSet(T, C \cup N) = SumFunctionOnSet(T, C) + SumFunctionOnSet(T, N)
  <2>1. \A c \in C \cup N : T[c] \in Int  BY <1>2, <1>6
  <2> QED  BY <2>1, <1>4, <1>5, <1>10, SumUnion
<1>15. SumFunctionOnSet(T, CostSections) = SumFunctionOnSet(T, C \cup N) + SumFunctionOnSet(T, Z)
  <2>1. \A c \in (C \cup N) \cup Z : T[c] \in Int  BY <1>2, <1>6
  <2>2. SumFunctionOnSet(T, (C \cup N) \cup Z) = SumFunctionOnSet(T, C \cup N) + SumFunctionOnSet(T, Z)
    BY <2>1, <1>5, <1>10, SumUnion
  <2> QED  BY <2>2, <1>5
<1>16. SumFunctionOnSet(T, Z) = 0  BY <1>7, <1>10, SumZero
<1>17. SumFunctionOnSet(T, K) \in Int /\ SumFunctionOnSet(T, C \ K) \in Int /\ SumFunctionOnSet(T, N) \in Int
  <2>1. (\A c \in K : T[c] \in Int) /\ (\A c \in C \ K : T[c] \in Int) /\ (\A c \in N : T[c] \in Int)
    BY <1>2, <1>6, <1>11
  <2> QED  BY <2>1, <1>10, <1>12, SumInt
<1> DEFINE k == SumFunctionOnSet(T, K)
           o == SumFunctionOnSet(T, C \ K)
           n == SumFunctionOnSet(T, N)
<1>18. k \in Int /\ o \in Int /\ n \in Int /\ SumFunctionOnSet(T, CostSections) = ((k + o) + n) + 0
       /\ Other(a) = o /\ Credits(a) = 0 - n
  BY <1>8, <1>9, <1>13, <1>14, <1>15, <1>16, <1>17
<1> HIDE DEF k, o, n
<1>19. ((k + o) + n) + 0 = (k + o) - (0 - n) /\ 0 - n \in Int  BY <1>18
<1> QED  BY <1>18, <1>19 DEF T, K, k

(* The tiles, the months and the charts are one account of the lines.      *)
LEMMA LinesAccount ==
  ASSUME NEW read \in Readings, NEW basis
  PROVE  LinesAgree(GetManagementPNL(read, basis))
<1> DEFINE a == GetManagementPNL(read, basis)
           t(c) == LineTotal(a, c)
           f(c) == ValuesOf(a, c)
           spent == [m \in PeriodSet |-> expensesByPeriod(a, m)]
           result == [m \in PeriodSet |-> netResultRow(a, m).profit - netResultRow(a, m).loss]
           T == LineTotals(a)
           k == SumFunctionOnSet(T, Kept(a))
           o == Other(a)
           n == Credits(a)
<1>1. /\ \A c \in Elems(Order) : t(c) = SumOver(f(c))
      /\ \A m \in PeriodSet : \A c \in Elems(Order) : f(c)[m] \in Int
  BY LinesByMonth
<1>2. /\ \A c \in Elems(Order) : t(c) \in Int
      /\ t("91") = t("01") - t("02") /\ t("92") = t("91") - t("03")
      /\ t("93") = t("92") - t("04") - t("05") /\ t("94") = t("93") - t("06") /\ t("95") = t("94") - t("07")
  BY TotalsChain
<1>3. /\ t("01") \in Int /\ t("02") \in Int /\ t("03") \in Int /\ t("04") \in Int /\ t("05") \in Int
      /\ t("06") \in Int /\ t("07") \in Int /\ t("91") \in Int /\ t("92") \in Int /\ t("93") \in Int
      /\ t("94") \in Int /\ t("95") \in Int
  BY <1>2, OrderIs
<1>4. Tiles(a).revenue = t("01") /\ Tiles(a).expenses = t("01") - t("93") /\ Tiles(a).net = t("95")
      /\ ReportLine(a, "06").total = t("06") /\ ReportLine(a, "07").total = t("07")
  BY DEF Tiles, ReportLine, LineTotal
<1>5. \A m \in PeriodSet : spent[m] = f("01")[m] - f("93")[m]
  BY DEF expensesByPeriod, ReportLine, ValuesOf
<1>6. \A m \in PeriodSet : result[m] = (IF f("95")[m] > 0 THEN f("95")[m] ELSE 0) - (IF f("95")[m] < 0 THEN 0 - f("95")[m] ELSE 0)
  BY DEF netResultRow, ReportLine, ValuesOf
<1>7. \A c \in Elems(Order) : a.lines[c].total = t(c)  BY DEF LineTotal
<1>8. \A c \in Elems(Order) : a.lines[c].values = f(c)  BY DEF ValuesOf
<1>9. \A c \in Elems(Order) : T[c] = t(c)  BY DEF LineTotals, ReportLine, LineTotal
<1>10. MoneyFlow(a) = IF t("01") <= 0 THEN [drawn |-> FALSE]
         ELSE [drawn |-> TRUE, in |-> t("01"), out |-> k + o,
               remainder |-> IF t("01") > k + o THEN t("01") - (k + o) ELSE 0]
  BY DEF MoneyFlow, ReportLine, LineTotal
<1> HIDE DEF a, t, f, spent, result, T
<1>11. SumOver(spent) = t("01") - t("93")
  <2>1. \A m \in PeriodSet : f("01")[m] \in Int /\ f("93")[m] \in Int /\ spent[m] = f("01")[m] - f("93")[m]
    BY <1>1, <1>5, OrderIs
  <2>2. SumOver(spent) = SumOver(f("01")) - SumOver(f("93"))
    BY <2>1, MonthsAre, SumMinus DEF SumOver, PeriodSet
  <2> QED  BY <2>2, <1>1, OrderIs
<1>12. SumOver(result) = t("95")
  <2>1. \A m \in PeriodSet : f("95")[m] \in Int  BY <1>1, OrderIs
  <2>2. \A m \in PeriodSet : result[m] = f("95")[m]
    <3>1. ASSUME NEW m \in PeriodSet PROVE result[m] = f("95")[m]
      <4> DEFINE v == f("95")[m]
      <4>1. v \in Int /\ result[m] = (IF v > 0 THEN v ELSE 0) - (IF v < 0 THEN 0 - v ELSE 0)  BY <2>1, <1>6
      <4> HIDE DEF v
      <4>2. result[m] = v  BY <4>1
      <4> QED  BY <4>2 DEF v
    <3> QED  BY <3>1
  <2>3. SumOver(result) = SumOver(f("95"))  BY <2>2, MonthsAre, SumSame DEF SumOver, PeriodSet
  <2> QED  BY <2>3, <1>1, OrderIs
<1>13. Tiles(a).net = Tiles(a).revenue - Tiles(a).expenses - ReportLine(a, "06").total - ReportLine(a, "07").total
  BY <1>2, <1>3, <1>4
<1>14. Cardinality(Kept(a)) <= Slots /\ Kept(a) \subseteq Costs(a)
  BY <1>2, <1>7, KeptFew
<1>15. Costs(a) \subseteq Facets(a)
  <2> SUFFICES ASSUME NEW c \in Costs(a), c \notin Facets(a) PROVE FALSE
    OBVIOUS
  <2>1. c \in Elems(Sections) \ {"01"} /\ t(c) > 0 /\ c \in Elems(Order)
    BY <1>7, SectionsAre, OrderIs DEF Costs, ReportLine
  <2>2. \A m \in PeriodSet : f(c)[m] = 0  BY <1>8, <2>1 DEF Facets, ReportLine, PeriodSet
  <2>3. SumOver(f(c)) = 0  BY <2>2, MonthsAre, SumZero DEF SumOver, PeriodSet
  <2> QED  BY <2>1, <2>3, <1>1
<1>16. /\ SumFunctionOnSet(T, CostSections) = (k + o) - n
       /\ k \in Int /\ o \in Int /\ n \in Int
  BY <1>2, <1>7, CostsSplit DEF T
<1>17. SumFunctionOnSet(T, CostSections) = t("02") + t("03") + t("04") + t("05") + t("06") + t("07")
  <2>1. /\ T["02"] = t("02") /\ T["03"] = t("03") /\ T["04"] = t("04") /\ T["05"] = t("05")
        /\ T["06"] = t("06") /\ T["07"] = t("07")
    BY <1>9, OrderIs
  <2> QED  BY <1>3, <2>1, CostsSum
<1> HIDE DEF k, o, n
<1>18. t("95") = t("01") - ((k + o) - n)  BY <1>2, <1>3, <1>16, <1>17
<1>19. ASSUME MoneyFlow(a).drawn, MoneyFlow(a).in >= MoneyFlow(a).out
       PROVE  MoneyFlow(a).remainder + Credits(a) = Tiles(a).net
  <2>1. MoneyFlow(a).in = t("01") /\ MoneyFlow(a).out = k + o
        /\ MoneyFlow(a).remainder = IF t("01") > k + o THEN t("01") - (k + o) ELSE 0
    BY <1>10, <1>19
  <2>2. MoneyFlow(a).remainder = t("01") - (k + o)  BY <2>1, <1>19, <1>3, <1>16
  <2>3. MoneyFlow(a).remainder + n = t("95")  BY <2>2, <1>3, <1>16, <1>18
  <2> QED  BY <2>3, <1>4 DEF n
<1>20. Tiles(a).expenses = SumOver(spent) /\ SumOver(result) = Tiles(a).net  BY <1>4, <1>11, <1>12
<1>21. LinesAgree(a)
  BY <1>13, <1>14, <1>15, <1>19, <1>20 DEF LinesAgree, spent, result, PeriodSet
<1> QED  BY <1>21 DEF a

(* Where a row may lie: revenue, a cost, or one of three buckets.          *)
LEMMA PlacesAre ==
  /\ Places = (((CostSections \cup {"01"}) \cup {"unclassified"}) \cup {"non_pnl"}) \cup {"unallocated"}
  /\ "01" \notin CostSections /\ "unclassified" \notin CostSections \cup {"01"}
  /\ "non_pnl" \notin (CostSections \cup {"01"}) \cup {"unclassified"}
  /\ "unallocated" \notin ((CostSections \cup {"01"}) \cup {"unclassified"}) \cup {"non_pnl"}
  /\ IsFiniteSet(CostSections) /\ IsFiniteSet(Places)
<1>1. CostSections \in SUBSET Elems(Sections)  BY DEF CostSections
<1>2. IsFiniteSet(CostSections)  BY <1>1, SectionsFinite, FS_Subset
<1>3. Places = (((CostSections \cup {"01"}) \cup {"unclassified"}) \cup {"non_pnl"}) \cup {"unallocated"}
  BY SectionsAre DEF Places, CostSections, ReportBucketKind
<1>4. IsFiniteSet(CostSections \cup {"01"})  BY <1>2, FS_AddElement
<1>5. IsFiniteSet((CostSections \cup {"01"}) \cup {"unclassified"})  BY <1>4, FS_AddElement
<1>6. IsFiniteSet(((CostSections \cup {"01"}) \cup {"unclassified"}) \cup {"non_pnl"})  BY <1>5, FS_AddElement
<1>7. IsFiniteSet(Places)  BY <1>3, <1>6, FS_AddElement
<1> QED  BY <1>2, <1>3, <1>7, SectionsAre DEF CostSections

(* A set that parts of it cover without meeting sums part by part.         *)
LEMMA SumCover ==
  ASSUME NEW f, NEW S, NEW P, NEW of, NEW part, IsFiniteSet(S), IsFiniteSet(P),
         \A x \in S : f[x] \in Int /\ \E p \in P : x \in of[p],
         \A p \in P : of[p] \subseteq S /\ part[p] = SumFunctionOnSet(f, of[p]),
         \A p, q \in P : \A x \in of[p] : x \in of[q] => p = q
  PROVE  SumFunctionOnSet(part, P) = SumFunctionOnSet(f, S)
<1> DEFINE Of(T) == {x \in S : \E p \in T : x \in of[p]}
           F(T) == SumFunctionOnSet(f, T)
           G(T) == SumFunctionOnSet(part, T)
           Q == {T \in SUBSET P : G(T) = F(Of(T))}
<1>1. \A T : Of(T) \in SUBSET S  OBVIOUS
<1>2. \A T \in SUBSET S : IsFiniteSet(T) /\ (\A x \in T : f[x] \in Int) /\ F(T) \in Int
  <2>1. \A T \in SUBSET S : IsFiniteSet(T) /\ \A x \in T : f[x] \in Int  BY FS_Subset
  <2> QED  BY <2>1, SumInt
<1>3. \A p \in P : of[p] \in SUBSET S /\ part[p] = F(of[p]) /\ part[p] \in Int
  <2>1. \A p \in P : of[p] \in SUBSET S /\ part[p] = F(of[p])  OBVIOUS
  <2> HIDE DEF F
  <2> QED  BY <1>2, <2>1
<1>4. G({}) = F(Of({}))
  <2>1. Of({}) = {}  OBVIOUS
  <2> QED  BY <2>1, SumEmpty
<1>5. ASSUME NEW T \in SUBSET P, NEW p \in P \ T, T \in Q
      PROVE  T \cup {p} \in Q
  <2>1. Of(T \cup {p}) = Of(T) \cup of[p] /\ Of(T) \cap of[p] = {}  BY <1>3
  <2>2. G(T) = F(Of(T))  BY <1>5
  <2>3. G(T \cup {p}) = part[p] + G(T)  BY <1>3, FS_Subset, SumAdd
  <2> HIDE DEF Of, G
  <2>4. Of(T) \in SUBSET S /\ of[p] \in SUBSET S  BY <1>1, <1>3
  <2>5. F(Of(T) \cup of[p]) = F(Of(T)) + F(of[p])
    <3>1. \A x \in Of(T) \cup of[p] : f[x] \in Int  BY <1>2, <2>4
    <3> QED  BY <1>2, <2>1, <2>4, <3>1, SumUnion
  <2> HIDE DEF F
  <2>6. F(Of(T)) \in Int /\ F(of[p]) \in Int  BY <1>2, <2>4
  <2>7. G(T \cup {p}) = F(of[p]) + F(Of(T))  BY <1>3, <2>2, <2>3
  <2>8. F(Of(T \cup {p})) = F(Of(T)) + F(of[p])  BY <2>1, <2>5
  <2>9. G(T \cup {p}) = F(Of(T \cup {p}))
    <3> DEFINE a == F(Of(T))
               b == F(of[p])
    <3>1. a \in Int /\ b \in Int  BY <2>6
    <3> HIDE DEF a, b
    <3>2. a + b = b + a  BY <3>1
    <3> QED  BY <2>7, <2>8, <3>2 DEF a, b
  <2> QED  BY <2>9
<1>6. \A T \in SUBSET P : T \in Q
  <2> HIDE DEF Q
  <2>1. {} \in Q  BY <1>4 DEF Q
  <2> QED  BY <1>5, <2>1, SubsetInduction
<1>7. Of(P) = S  OBVIOUS
<1> QED  BY <1>6, <1>7

(* A month's rows lie each in one place: the sections or a bucket.         *)
LEMMA OwnByPlace ==
  ASSUME NEW R, IsFiniteSet(R), R \subseteq ReportRow, NEW m
  PROVE  Total({r \in R : r.month = m})
           = (((Figure(R, "95", m) + Stored(R, "unclassified", m)) + Stored(R, "non_pnl", m))
                + Stored(R, "unallocated", m))
<1> DEFINE own == {r \in R : r.month = m}
           f == Minor(R)
           of == [p \in Places |-> In(R, p, m)]
           part == [p \in Places |-> Stored(R, p, m)]
           A == CostSections
           B == A \cup {"01"}
           C == B \cup {"unclassified"}
           D == C \cup {"non_pnl"}
<1>1. \A r \in R : r.minor \in Int /\ r.place \in Places  BY DEF ReportRow
<1>2. own \in SUBSET R /\ IsFiniteSet(own)  BY FS_Subset
<1>3. \A p : Stored(R, p, m) \in Int  BY <1>1, StoredInt
<1>4. \A p \in Places : of[p] \subseteq own /\ part[p] = SumFunctionOnSet(f, of[p])
  <2>1. ASSUME NEW p \in Places PROVE of[p] \subseteq own /\ part[p] = SumFunctionOnSet(f, of[p])
    <3>1. In(R, p, m) \in SUBSET R /\ of[p] \subseteq own  BY DEF In
    <3>2. Total(In(R, p, m)) = SumFunctionOnSet(f, In(R, p, m))  BY <1>1, <3>1, TotalAs
    <3> QED  BY <3>1, <3>2 DEF Stored
  <2> QED  BY <2>1
<1>5. \A r \in own : f[r] \in Int /\ \E p \in Places : r \in of[p]  BY <1>1 DEF Minor, In
<1>6. \A p, q \in Places : \A r \in of[p] : r \in of[q] => p = q  BY DEF In
<1>7. Total(own) = SumFunctionOnSet(f, own)  BY <1>1, <1>2, TotalAs
<1>8. \A p \in Places : part[p] = Stored(R, p, m) /\ part[p] \in Int  BY <1>3
<1> HIDE DEF own, f, of, part
<1>9. SumFunctionOnSet(part, Places) = Total(own)
  <2>1. IsFiniteSet(own)  BY <1>2
  <2>2. SumFunctionOnSet(part, Places) = SumFunctionOnSet(f, own)
    BY <2>1, <1>4, <1>5, <1>6, PlacesAre, SumCover
  <2> QED  BY <2>2, <1>7
<1>10. /\ A \subseteq Places /\ B \subseteq Places /\ C \subseteq Places /\ D \subseteq Places
       /\ Places = D \cup {"unallocated"}
       /\ "01" \in Places /\ "unclassified" \in Places /\ "non_pnl" \in Places /\ "unallocated" \in Places
  BY PlacesAre
<1>11. "01" \notin A /\ "unclassified" \notin B /\ "non_pnl" \notin C /\ "unallocated" \notin D
       /\ IsFiniteSet(A)
  BY PlacesAre
<1>12. SumFunctionOnSet(part, B) = part["01"] + SumFunctionOnSet(part, A) /\ IsFiniteSet(B)
  <2>1. (\A p \in A : part[p] \in Int) /\ part["01"] \in Int  BY <1>8, <1>10
  <2> HIDE DEF A
  <2> QED  BY <2>1, <1>11, SumAdd, FS_AddElement
<1>13. SumFunctionOnSet(part, C) = part["unclassified"] + SumFunctionOnSet(part, B) /\ IsFiniteSet(C)
  <2>1. (\A p \in B : part[p] \in Int) /\ part["unclassified"] \in Int  BY <1>8, <1>10
  <2> HIDE DEF B
  <2> QED  BY <2>1, <1>11, <1>12, SumAdd, FS_AddElement
<1>14. SumFunctionOnSet(part, D) = part["non_pnl"] + SumFunctionOnSet(part, C) /\ IsFiniteSet(D)
  <2>1. (\A p \in C : part[p] \in Int) /\ part["non_pnl"] \in Int  BY <1>8, <1>10
  <2> HIDE DEF C
  <2> QED  BY <2>1, <1>11, <1>13, SumAdd, FS_AddElement
<1>15. SumFunctionOnSet(part, Places) = part["unallocated"] + SumFunctionOnSet(part, D)
  <2>1. (\A p \in D : part[p] \in Int) /\ part["unallocated"] \in Int  BY <1>8, <1>10
  <2> HIDE DEF D
  <2> QED  BY <2>1, <1>10, <1>11, <1>14, SumAdd
<1>16. /\ part["01"] = Stored(R, "01", m) /\ part["02"] = Stored(R, "02", m) /\ part["03"] = Stored(R, "03", m)
       /\ part["04"] = Stored(R, "04", m) /\ part["05"] = Stored(R, "05", m) /\ part["06"] = Stored(R, "06", m)
       /\ part["07"] = Stored(R, "07", m) /\ part["unclassified"] = Stored(R, "unclassified", m)
       /\ part["non_pnl"] = Stored(R, "non_pnl", m) /\ part["unallocated"] = Stored(R, "unallocated", m)
  BY <1>8, PlacesAre, SectionsAre DEF CostSections
<1>17. SumFunctionOnSet(part, A) = part["02"] + part["03"] + part["04"] + part["05"] + part["06"] + part["07"]
  BY <1>3, <1>16, CostsSum
<1>18. Figure(R, "95", m) = Stored(R, "01", m) + Stored(R, "02", m) + Stored(R, "03", m) + Stored(R, "04", m)
                             + Stored(R, "05", m) + Stored(R, "06", m) + Stored(R, "07", m)
  <2> DEFINE g(c) == Figure(R, c, m)
             s(c) == Stored(R, c, m)
  <2>1. /\ g("01") = s("01") /\ g("91") = g("01") - g("02") /\ g("92") = g("91") - g("03")
        /\ g("93") = g("92") - g("04") - g("05") /\ g("94") = g("93") - g("06") /\ g("95") = g("94") - g("07")
        /\ \A c \in Elems(Sections) \ {"01"} : g(c) = 0 - s(c)
    BY <1>1, FigureIs
  <2>2. /\ g("02") = 0 - s("02") /\ g("03") = 0 - s("03") /\ g("04") = 0 - s("04") /\ g("05") = 0 - s("05")
        /\ g("06") = 0 - s("06") /\ g("07") = 0 - s("07")
    BY <2>1, SectionsAre
  <2>3. \A c : s(c) \in Int  BY <1>3
  <2> HIDE DEF g, s
  <2>4. g("95") = s("01") + s("02") + s("03") + s("04") + s("05") + s("06") + s("07")
    BY <2>1, <2>2, <2>3
  <2> QED  BY <2>4 DEF g, s
<1> DEFINE u == Stored(R, "unclassified", m)
           n == Stored(R, "non_pnl", m)
           l == Stored(R, "unallocated", m)
           v == Figure(R, "95", m)
<1>19. SumFunctionOnSet(part, B) = v
  BY <1>3, <1>12, <1>16, <1>17, <1>18
<1>20. v \in Int /\ u \in Int /\ n \in Int /\ l \in Int  BY <1>3, <1>18
<1>21. Total(own) = l + (n + (u + v))  BY <1>9, <1>13, <1>14, <1>15, <1>16, <1>19
<1> HIDE DEF u, n, l, v
<1>22. l + (n + (u + v)) = ((v + u) + n) + l  BY <1>20
<1> QED  BY <1>21, <1>22 DEF own, u, n, l, v

(* Of statements that saw the same, the strip moves by the net result and  *)
(* the buckets, less what the lines count again.                           *)
LEMMA WholeHolds ==
  ASSUME NEW w, w.read \in Readings, w.answer = GetManagementPNL(w.read, w.basis),
         \A s, t \in Elems(Statements) : w.read[s] = w.read[t]
  PROVE  WholeAgrees(w)
<1> DEFINE read == w.read
           basis == w.basis
           a == GetManagementPNL(read, basis)
           R == RowsOfImports(read["lines"], basis)
           T == Transactions(read["lines"].imported, basis)
           again == CountedAgain(read["lines"], basis, PeriodSet)
           strip == aggregateReconciliation(a)
           b(k) == a.buckets[k].values
           own == [m \in PeriodSet |-> Total({r \in R : r.month = m})]
           one == [m \in PeriodSet |-> ValuesOf(a, "95")[m] + b("unclassified")[m]]
           two == [m \in PeriodSet |-> one[m] + b("non_pnl")[m]]
<1>1. /\ read["lines"] \in Seen /\ read["balances"] = read["lines"] /\ read["movements"] = read["lines"]
      /\ read["unclassified"] = read["lines"]
  BY StatementsAre DEF Readings
<1>2. IsFiniteSet(R) /\ R \subseteq ReportRow  BY <1>1, RowsTotal
<1>3. \A r \in R : r.minor \in Int  BY <1>2 DEF ReportRow
<1>4. strip.opening = Balance(T, FirstPeriod) /\ strip.closing = Balance(T, FirstPeriod) + Total(Over(T, PeriodSet))
  <2>1. /\ strip.opening = Balance(Transactions(read["balances"].imported, basis), FirstPeriod)
        /\ strip.closing = Balance(Transactions(read["balances"].imported, basis), FirstPeriod)
                             + Total(Over(Transactions(read["movements"].imported, basis), PeriodSet))
    BY StripMoves
  <2> QED  BY <1>1, <2>1
<1>5. /\ Balance(T, FirstPeriod) \in Int /\ Total(Over(T, PeriodSet)) \in Int /\ again \in Int
      /\ Total(Over(R, PeriodSet)) = Total(Over(T, PeriodSet)) + again
  <2>1. IsFiniteSet(T) /\ T \subseteq ReportRow  BY <1>1, StoredRows DEF Seen
  <2>2. Total(Over(R, PeriodSet)) = Total(Over(T, PeriodSet)) + again /\ again \in Int
    BY <1>1, RowsTotal
  <2> HIDE DEF T, R, again
  <2> QED  BY <2>1, <2>2, RangeTotal
<1>6. \A m \in PeriodSet : /\ b("unclassified")[m] = Stored(R, "unclassified", m)
                           /\ b("non_pnl")[m] = Stored(R, "non_pnl", m)
                           /\ b("unallocated")[m] = Stored(R, "unallocated", m)
                           /\ ValuesOf(a, "95")[m] = Figure(R, "95", m)
  BY <1>1, OrderIs DEF GetManagementPNL, Totalled, ValuesOf, PeriodSet, ReportBucketKind, BucketRows, StatementOf
<1>7. /\ ReportBucket(a, "unclassified").total = SumOver(b("unclassified"))
      /\ ReportBucket(a, "non_pnl").total = SumOver(b("non_pnl"))
      /\ ReportBucket(a, "unallocated").total = SumOver(b("unallocated"))
      /\ Tiles(a).net = SumOver(ValuesOf(a, "95")) /\ Tiles(a).unreviewed = SumOver(b("unclassified"))
  BY OrderIs DEF GetManagementPNL, Totalled, ReportBucket, ReportBucketKind, Tiles, ReportLine, ValuesOf
<1> HIDE DEF a, R, T, strip, b, again
<1>8. ASSUME NEW m \in PeriodSet
      PROVE  /\ ValuesOf(a, "95")[m] \in Int /\ b("unclassified")[m] \in Int
             /\ b("non_pnl")[m] \in Int /\ b("unallocated")[m] \in Int
             /\ own[m] = ((ValuesOf(a, "95")[m] + b("unclassified")[m]) + b("non_pnl")[m]) + b("unallocated")[m]
  <2>1. Figure(R, "95", m) \in Int  BY <1>2, <1>3, FigureIs, OrderIs
  <2>2. \A k : Stored(R, k, m) \in Int  BY <1>2, <1>3, StoredInt
  <2>3. own[m] = ((Figure(R, "95", m) + Stored(R, "unclassified", m)) + Stored(R, "non_pnl", m))
                   + Stored(R, "unallocated", m)
    BY <1>2, OwnByPlace
  <2> QED  BY <1>6, <2>1, <2>2, <2>3
<1>9. /\ \A m \in PeriodSet : one[m] = ValuesOf(a, "95")[m] + b("unclassified")[m]
      /\ \A m \in PeriodSet : two[m] = one[m] + b("non_pnl")[m]
      /\ \A m \in PeriodSet : own[m] = Total({r \in R : r.month = m})
  OBVIOUS
<1> HIDE DEF own, one, two
<1>10. SumOver(one) = SumOver(ValuesOf(a, "95")) + SumOver(b("unclassified"))
  <2>1. \A m \in PeriodSet : /\ ValuesOf(a, "95")[m] \in Int /\ b("unclassified")[m] \in Int
                              /\ one[m] = ValuesOf(a, "95")[m] + b("unclassified")[m]
    BY <1>8, <1>9
  <2> QED  BY <2>1, MonthsAre, SumPlus DEF SumOver, PeriodSet
<1>11. SumOver(two) = SumOver(one) + SumOver(b("non_pnl"))
  <2>1. \A m \in PeriodSet : one[m] \in Int /\ b("non_pnl")[m] \in Int /\ two[m] = one[m] + b("non_pnl")[m]
    BY <1>8, <1>9
  <2> QED  BY <2>1, MonthsAre, SumPlus DEF SumOver, PeriodSet
<1>12. SumOver(own) = SumOver(two) + SumOver(b("unallocated"))
  <2>1. \A m \in PeriodSet : two[m] \in Int /\ b("unallocated")[m] \in Int /\ own[m] = two[m] + b("unallocated")[m]
    BY <1>8, <1>9
  <2> QED  BY <2>1, MonthsAre, SumPlus DEF SumOver, PeriodSet
<1>13. SumOver(own) = Total(Over(R, PeriodSet))  BY <1>2, <1>9, MonthByMonth
<1>14. strip.closing - strip.opening + again = SumOver(own)  BY <1>4, <1>5, <1>13
<1>15. SumOver(own) = Tiles(a).net + Tiles(a).unreviewed + ReportBucket(a, "non_pnl").total
                        + ReportBucket(a, "unallocated").total
  BY <1>7, <1>10, <1>11, <1>12
<1>16. w.answer = a /\ PeriodSet = Elems(Periods)  BY DEF a, PeriodSet
<1> QED  BY <1>14, <1>15, <1>16 DEF WholeAgrees, strip, again

(* What is derived of a report, as of when its statements saw it.          *)
LEMMA AnswerAgrees ==
  ASSUME NEW w, w.read \in Readings, w.answer = GetManagementPNL(w.read, w.basis)
  PROVE  FiguresAgree(w)
BY LinesAccount, StripHolds, WholeHolds DEF FiguresAgree

(* What a statement of an open figure reads: a finite set of rows, in an   *)
(* order by identity and answer.                                           *)
LEMMA ReadRows ==
  ASSUME NEW seen \in Seen, NEW basis \in ReportBasis, NEW place
  PROVE  LET R == RowsRead(place, seen, basis)
         IN  IsFiniteSet(R) /\ \A r \in R : r.id \in Nat /\ r.by \in Nat
<1>1. \A q \in ReportRow : q.id \in Nat /\ q.by \in Nat  BY ReportConstants DEF ReportRow
<1>2. CASE place # "other_basis"
  <2>1. RowsRead(place, seen, basis) = RowsOfImports(seen, basis)  BY <1>2 DEF RowsRead
  <2>2. IsFiniteSet(RowsOfImports(seen, basis)) /\ RowsOfImports(seen, basis) \subseteq ReportRow
    BY RowsTotal
  <2> QED  BY <1>1, <2>1, <2>2
<1>3. CASE place = "other_basis"
  <2> DEFINE J == RowsOfImports(seen, OtherKind(basis))
             h == [r \in J |-> [r EXCEPT !.place = "other_basis"]]
  <2>1. IsFiniteSet(J) /\ J \subseteq ReportRow  BY RowsTotal
  <2>2. RowsRead(place, seen, basis) = {h[r] : r \in J}  BY <1>3 DEF RowsRead, CountedApart
  <2>3. \A r \in J : h[r].id = r.id /\ h[r].by = r.by  BY <2>1 DEF ReportRow
  <2> HIDE DEF J, h
  <2>4. IsFiniteSet({h[r] : r \in J})  BY <2>1, ImageFinite
  <2> QED  BY <1>1, <2>1, <2>2, <2>3, <2>4
<1> QED  BY <1>2, <1>3

\* The rows of some before one of them.
RowsAhead(R, r) == {q \in R : q.id < r.id \/ (q.id = r.id /\ q.by < r.by)}

(* Fewer rows than were asked for are all there are.                       *)
LEMMA FirstRows ==
  ASSUME NEW R, IsFiniteSet(R), \A r \in R : r.id \in Nat /\ r.by \in Nat,
         Cardinality({r \in R : Cardinality(RowsAhead(R, r)) < Limit}) < Limit
  PROVE  {r \in R : Cardinality(RowsAhead(R, r)) < Limit} = R
<1> DEFINE ahead(r) == RowsAhead(R, r)
           shown == {r \in R : Cardinality(ahead(r)) < Limit}
           T == {r.id : r \in R \ shown}
<1> SUFFICES ASSUME R \ shown # {} PROVE FALSE  OBVIOUS
<1>1. T \subseteq Nat /\ T # {}  OBVIOUS
<1>2. PICK n \in T : \A k \in T : n <= k
  <2> HIDE DEF T
  <2> QED  BY <1>1, LeastNat
<1> DEFINE U == {r.by : r \in {x \in R \ shown : x.id = n}}
<1>a. U \subseteq Nat /\ U # {}  BY <1>2
<1>b. PICK i \in U : \A k \in U : i <= k
  <2> HIDE DEF U
  <2> QED  BY <1>a, LeastNat
<1>3. PICK r \in R \ shown : r.id = n /\ r.by = i  BY <1>b
<1>4. ahead(r) \subseteq shown
  <2> SUFFICES ASSUME NEW q \in ahead(r), q \notin shown PROVE FALSE  OBVIOUS
  <2>1. q \in R /\ (q.id < n \/ (q.id = n /\ q.by < i)) /\ q.id \in T  BY <1>3 DEF RowsAhead
  <2>2. n <= q.id  BY <1>2, <2>1
  <2>3. n \in Nat /\ q.id \in Nat /\ i \in Nat /\ q.by \in Nat  BY <1>1, <1>a, <2>1
  <2>4. q.id = n => q.by \in U  BY <2>1
  <2>5. q.id = n => i <= q.by  BY <1>b, <2>4
  <2> HIDE DEF ahead, shown, T, U
  <2> QED  BY <2>1, <2>2, <2>3, <2>5
<1>5. shown \in SUBSET R  OBVIOUS
<1>6. IsFiniteSet(shown)  BY <1>5, FS_Subset
<1>7. /\ Cardinality(ahead(r)) <= Cardinality(shown)
      /\ Cardinality(ahead(r)) \in Nat /\ Cardinality(shown) \in Nat
  <2> DEFINE A == ahead(r)
  <2>1. A \in SUBSET shown  BY <1>4
  <2> HIDE DEF A, shown
  <2>2. IsFiniteSet(A) /\ Cardinality(A) <= Cardinality(shown)  BY <1>6, <2>1, FS_Subset
  <2>3. Cardinality(A) \in Nat /\ Cardinality(shown) \in Nat  BY <1>6, <2>2, FS_CardinalityType
  <2> QED  BY <2>2, <2>3 DEF A
<1>8. ~(Cardinality(ahead(r)) < Limit)  BY <1>3
<1>9. Cardinality(shown) < Limit  OBVIOUS
<1>10. Limit \in Nat  BY ReportConstants
<1> HIDE DEF ahead, shown
<1> QED  BY <1>7, <1>8, <1>9, <1>10

(* An open figure, read as p, and the report r under it.                   *)
PanelPair(p, r) ==
  /\ p.total \in Seen /\ p.page \in Seen /\ p.basis \in ReportBasis
  /\ r.read \in Readings /\ r.basis \in ReportBasis
  /\ r.answer = GetManagementPNL(r.read, r.basis)

(* A computed figure is the operands it is made of.                        *)
LEMMA OperandsHold ==
  ASSUME NEW c \in DOMAIN Chain, NEW m \in PeriodSet, NEW p, NEW r, PanelPair(p, r)
  PROVE  LET shown == [d \in Elems(Order) |-> r.answer.lines[d].values[m]]
         IN  shown[c] = SumFunctionOnSet(shown, Chain[c].plus) - SumFunctionOnSet(shown, Chain[c].minus)
<1> DEFINE a == r.answer
           shown == [d \in Elems(Order) |-> a.lines[d].values[m]]
<1>1. /\ \A d \in Elems(Order) : ValuesOf(a, d)[m] \in Int
      /\ ValuesOf(a, "91")[m] = ValuesOf(a, "01")[m] - ValuesOf(a, "02")[m]
      /\ ValuesOf(a, "92")[m] = ValuesOf(a, "91")[m] - ValuesOf(a, "03")[m]
      /\ ValuesOf(a, "93")[m] = ValuesOf(a, "92")[m] - ValuesOf(a, "04")[m] - ValuesOf(a, "05")[m]
      /\ ValuesOf(a, "94")[m] = ValuesOf(a, "93")[m] - ValuesOf(a, "06")[m]
      /\ ValuesOf(a, "95")[m] = ValuesOf(a, "94")[m] - ValuesOf(a, "07")[m]
  BY LinesByMonth DEF PanelPair
<1>2. \A d \in Elems(Order) : shown[d] = ValuesOf(a, d)[m] /\ shown[d] \in Int
  BY <1>1 DEF ValuesOf
<1> HIDE DEF shown
<1>3. /\ shown["91"] = shown["01"] - shown["02"] /\ shown["92"] = shown["91"] - shown["03"]
      /\ shown["93"] = shown["92"] - shown["04"] - shown["05"] /\ shown["94"] = shown["93"] - shown["06"]
      /\ shown["95"] = shown["94"] - shown["07"]
  BY <1>1, <1>2, OrderIs
<1>4. \A d \in Elems(Order) : SumFunctionOnSet(shown, {d}) = shown[d]
  BY <1>2, SumOne
<1>5. SumFunctionOnSet(shown, {"04", "05"}) = shown["04"] + shown["05"]
  <2>1. {"04", "05"} = {"04"} \cup {"05"}  OBVIOUS
  <2>2. shown["04"] \in Int /\ shown["05"] \in Int  BY <1>2, OrderIs
  <2> QED  BY <2>1, <2>2, SumTwo
<1>6. shown["92"] \in Int /\ shown["04"] \in Int /\ shown["05"] \in Int  BY <1>2, OrderIs
<1> DEFINE plus(d) == SumFunctionOnSet(shown, Chain[d].plus)
           minus(d) == SumFunctionOnSet(shown, Chain[d].minus)
<1>7. plus("91") = shown["01"] /\ minus("91") = shown["02"]  BY <1>4, ChainIs, OrderIs
<1>8. plus("92") = shown["91"] /\ minus("92") = shown["03"]  BY <1>4, ChainIs, OrderIs
<1>9. plus("93") = shown["92"] /\ minus("93") = shown["04"] + shown["05"]  BY <1>4, <1>5, ChainIs, OrderIs
<1>10. plus("94") = shown["93"] /\ minus("94") = shown["06"]  BY <1>4, ChainIs, OrderIs
<1>11. plus("95") = shown["94"] /\ minus("95") = shown["07"]  BY <1>4, ChainIs, OrderIs
<1> HIDE DEF plus, minus
<1>12. shown[c] = plus(c) - minus(c)
  <2>1. c \in {"91", "92", "93", "94", "95"}  BY ChainIs
  <2>2. CASE c = "93"
    <3>1. shown["93"] = shown["92"] - (shown["04"] + shown["05"])  BY <1>3, <1>6
    <3> QED  BY <2>2, <3>1, <1>9
  <2> QED  BY <2>1, <2>2, <1>3, <1>7, <1>8, <1>10, <1>11
<1> QED  BY <1>12 DEF plus, minus, shown

(* A figure of transactions is the one the report has, a cost with the     *)
(* opposite sign, where both saw the same.                                 *)
LEMMA AmountHolds ==
  ASSUME NEW c \in Cells, c[1] \notin DOMAIN Chain, NEW p, NEW r, PanelPair(p, r),
         p.answer = ListLineTransactions(p.total, p.page, p.basis, c)
  PROVE  LET bucket == c[1] \in ReportBucketKind
             figure == IF bucket THEN r.answer.buckets[c[1]].values[c[2]] ELSE r.answer.lines[c[1]].values[c[2]]
             under == r.read[IF bucket THEN StatementOf(c[1]) ELSE "lines"]
         IN  p.basis = r.basis /\ p.total = under =>
               p.answer.amount = (IF c[1] \in Elems(Sections) \ {"01"} THEN 0 - figure ELSE figure)
                                   + (IF c[1] # "other_basis" THEN 0
                                      ELSE CountedAgain(p.total, OtherKind(p.basis), {c[2]}))
<1> SUFFICES ASSUME p.basis = r.basis,
                    p.total = r.read[IF c[1] \in ReportBucketKind THEN StatementOf(c[1]) ELSE "lines"]
             PROVE  p.answer.amount =
                      LET figure == IF c[1] \in ReportBucketKind THEN r.answer.buckets[c[1]].values[c[2]]
                                    ELSE r.answer.lines[c[1]].values[c[2]]
                      IN  (IF c[1] \in Elems(Sections) \ {"01"} THEN 0 - figure ELSE figure)
                            + (IF c[1] # "other_basis" THEN 0
                               ELSE CountedAgain(p.total, OtherKind(p.basis), {c[2]}))
  OBVIOUS
<1>1. c[1] \in Elems(Order) \cup ReportBucketKind /\ c[2] \in Elems(Periods)  BY ReportRange
<1>2. p.answer.amount = Stored(RowsRead(c[1], p.total, p.basis), c[1], c[2])
  BY DEF ListLineTransactions
<1>0. p.total \in Seen  BY DEF PanelPair
<1>3. CASE c[1] \in ReportBucketKind
  <2>1. r.answer.buckets[c[1]].values[c[2]]
          = Stored(BucketRows(c[1], r.read[StatementOf(c[1])], r.basis), c[1], c[2])
    BY <1>1, <1>3 DEF PanelPair, GetManagementPNL, Totalled
  <2>2. c[1] \notin Elems(Sections)  BY <1>3, SectionsAre DEF ReportBucketKind
  <2>3. CASE c[1] # "other_basis"
    <3> DEFINE R == RowsOfImports(p.total, p.basis)
               x == Stored(R, c[1], c[2])
    <3>1. p.answer.amount = x /\ r.answer.buckets[c[1]].values[c[2]] = x
      BY <1>2, <1>3, <2>1, <2>3 DEF RowsRead, BucketRows
    <3>2. x \in Int
      <4>1. IsFiniteSet(R) /\ \A q \in R : q.minor \in Int  BY <1>0, RowsTotal DEF ReportRow
      <4> HIDE DEF R
      <4> QED  BY <4>1, StoredInt
    <3> HIDE DEF x
    <3>3. x = x + 0  BY <3>2
    <3> QED  BY <1>3, <2>2, <2>3, <3>1, <3>3
  <2>4. CASE c[1] = "other_basis"
    <3> DEFINE m == c[2]
               o == OtherKind(p.basis)
               J == RowsOfImports(p.total, o)
               B == Transactions(p.total.imported, o)
               again == CountedAgain(p.total, o, {m})
    <3>1. /\ p.answer.amount = Stored(CountedApart(J), "other_basis", m)
          /\ r.answer.buckets[c[1]].values[c[2]] = Stored(CountedApart(B), "other_basis", m)
      BY <1>2, <1>3, <2>1, <2>4 DEF RowsRead, BucketRows
    <3>2. /\ IsFiniteSet(J) /\ J \subseteq ReportRow /\ \A q, s \in J : q.id = s.id /\ q.by = s.by => q = s
          /\ Total(Over(J, {m})) = Total(Over(B, {m})) + again
      BY <1>0, RowsTotal
    <3>3. IsFiniteSet(B) /\ B \subseteq ReportRow /\ \A q, s \in B : q.id = s.id /\ q.by = s.by => q = s
      BY <1>0, StoredRows DEF Seen
    <3>4. Stored(CountedApart(J), "other_basis", m) = Total(Over(J, {m}))
      <4> HIDE DEF J, m
      <4> QED  BY <3>2, ApartTotal
    <3>5. Stored(CountedApart(B), "other_basis", m) = Total(Over(B, {m}))
      <4> HIDE DEF B, m
      <4> QED  BY <3>3, ApartTotal
    <3>6. p.answer.amount = r.answer.buckets[c[1]].values[c[2]] + again
      BY <3>1, <3>2, <3>4, <3>5
    <3> QED  BY <1>3, <2>2, <2>4, <3>6
  <2> QED  BY <2>3, <2>4
<1>4. CASE c[1] \notin ReportBucketKind
  <2>1. c[1] \in Elems(Sections)  BY <1>1, <1>4, OrderIs, ChainIs, SectionsAre
  <2>2. r.answer.lines[c[1]].values[c[2]] = Figure(RowsOfImports(r.read["lines"], r.basis), c[1], c[2])
    BY <1>1, <1>4 DEF PanelPair, GetManagementPNL, Totalled
  <2>3. RowsRead(c[1], p.total, p.basis) = RowsOfImports(r.read["lines"], r.basis)
    BY <1>4 DEF RowsRead, ReportBucketKind
  <2> DEFINE R == RowsOfImports(r.read["lines"], r.basis)
             s == Stored(R, c[1], c[2])
  <2>4. IsFiniteSet(R) /\ \A q \in R : q.minor \in Int
    <3>1. r.read["lines"] \in Seen  BY StatementsAre DEF PanelPair, Readings
    <3> QED  BY <3>1, RowsTotal DEF ReportRow
  <2>5. s \in Int /\ Figure(R, c[1], c[2]) = (IF c[1] \in Elems(Sections) \ {"01"} THEN 0 - s ELSE s)
    <3> HIDE DEF R
    <3> QED  BY <2>1, <2>4, FigureIs, StoredInt
  <2>6. p.answer.amount = s  BY <1>2, <2>3
  <2>8. c[1] # "other_basis"  BY <1>4 DEF ReportBucketKind
  <2> HIDE DEF s, R
  <2>7. 0 - (0 - s) = s /\ s + 0 = s  BY <2>5
  <2> QED  BY <1>4, <2>2, <2>5, <2>6, <2>7, <2>8 DEF R
<1> QED  BY <1>3, <1>4

(* And it is the sum of its rows, where all of them are on the page.       *)
LEMMA RowsHold ==
  ASSUME NEW c \in Cells, c[1] \notin DOMAIN Chain, NEW p, NEW r, PanelPair(p, r),
         p.answer = ListLineTransactions(p.total, p.page, p.basis, c)
  PROVE  p.total = p.page /\ Cardinality(p.answer.rows) < Limit => Total(p.answer.rows) = p.answer.amount
<1> DEFINE R == In(RowsRead(c[1], p.page, p.basis), c[1], c[2])
<1>1. p.answer.rows = {q \in R : Cardinality(RowsAhead(R, q)) < Limit}
  BY DEF ListLineTransactions, RowsAhead
<1>2. IsFiniteSet(R) /\ \A q \in R : q.id \in Nat /\ q.by \in Nat
  <2>1. R \in SUBSET RowsRead(c[1], p.page, p.basis)  BY DEF In
  <2>2. /\ IsFiniteSet(RowsRead(c[1], p.page, p.basis))
        /\ \A q \in RowsRead(c[1], p.page, p.basis) : q.id \in Nat /\ q.by \in Nat
    BY ReadRows DEF PanelPair
  <2> QED  BY <2>1, <2>2, FS_Subset
<1>3. p.total = p.page => p.answer.amount = Total(R)
  BY DEF ListLineTransactions, Stored
<1> HIDE DEF R
<1>4. Cardinality(p.answer.rows) < Limit => p.answer.rows = R
  BY <1>1, <1>2, FirstRows
<1> QED  BY <1>3, <1>4

(* An open figure agrees with the report under it.                         *)
LEMMA PanelHolds ==
  ASSUME NEW c \in Cells, PanelPair(panel[c], report),
         panel[c].answer = ListLineTransactions(panel[c].total, panel[c].page, panel[c].basis, c)
  PROVE  PanelAgrees(c)
<1> DEFINE p == panel[c]
           m == c[2]
           shown == [d \in Elems(Order) |-> report.answer.lines[d].values[m]]
<1>1. c[1] \in Elems(Order) \cup ReportBucketKind /\ m \in PeriodSet  BY ReportRange DEF PeriodSet
<1>2. CASE c[1] \in DOMAIN Chain
  <2>1. p.answer.kind = "operands" /\ p.answer.plus = Chain[c[1]].plus /\ p.answer.minus = Chain[c[1]].minus
    BY <1>2 DEF ListLineTransactions
  <2>2. c[1] \notin ReportBucketKind  BY <1>2, ChainIs DEF ReportBucketKind
  <2>3. shown[c[1]] = SumFunctionOnSet(shown, Chain[c[1]].plus) - SumFunctionOnSet(shown, Chain[c[1]].minus)
    BY <1>1, <1>2, OperandsHold
  <2> HIDE DEF shown
  <2> QED  BY <2>1, <2>2, <2>3 DEF PanelAgrees, shown
<1>3. CASE c[1] \notin DOMAIN Chain
  <2>1. p.answer.kind = "transactions"
    BY <1>3 DEF ListLineTransactions
  <2>2. c[1] \notin ReportBucketKind => c[1] \in Elems(Order)  BY <1>1
  <2>3. p.basis = report.basis
          /\ p.total = report.read[IF c[1] \in ReportBucketKind THEN StatementOf(c[1]) ELSE "lines"] =>
        p.answer.amount =
          (IF c[1] \in Elems(Sections) \ {"01"}
           THEN 0 - (IF c[1] \in ReportBucketKind THEN report.answer.buckets[c[1]].values[c[2]]
                     ELSE report.answer.lines[c[1]].values[c[2]])
           ELSE (IF c[1] \in ReportBucketKind THEN report.answer.buckets[c[1]].values[c[2]]
                 ELSE report.answer.lines[c[1]].values[c[2]]))
        + (IF c[1] # "other_basis" THEN 0 ELSE CountedAgain(p.total, OtherKind(p.basis), {c[2]}))
    BY <1>3, AmountHolds
  <2>4. p.total = p.page /\ Cardinality(p.answer.rows) < Limit => Total(p.answer.rows) = p.answer.amount
    BY <1>3, RowsHold
  <2>5. c[1] \notin ReportBucketKind => shown[c[1]] = report.answer.lines[c[1]].values[c[2]]  BY <2>2
  <2> HIDE DEF p
  <2> QED  BY <2>1, <2>3, <2>4, <2>5 DEF PanelAgrees, p
<1> QED  BY <1>2, <1>3

-----------------------------------------------------------------------------
\* What a report in hand is of, and what an open figure is.
Reading(w) == w \in [read : Readings, basis : ReportBasis, answer : {w.answer}]
Answered(w) == w.answer = GetManagementPNL(w.read, w.basis)

PageRead(w) == w \in [total : Seen, page : Seen, basis : ReportBasis, answer : {w.answer}]

ScreenInv ==
  /\ Landed \in Seen /\ reportError \in {"none", "mixed", "failed"}
  /\ cell \in Cells \cup {NoCell}

FetchInv ==
  /\ reportFetch \in [st : {"idle", "basis", "arrives"} \cup Elems(Statements), w : {reportFetch.w}]
  /\ Reading(reportFetch.w)
  /\ reportFetch.st = "arrives" => Answered(reportFetch.w)

HeldInv == report # NoReport => Reading(report) /\ Answered(report)

AskInv ==
  /\ panelFetch = [c \in Cells |-> panelFetch[c]]
  /\ \A c \in Cells :
       /\ panelFetch[c] \in [st : {"idle", "due", "reads", "rows"}, left : SUBSET {"basis", "report"},
                              w : {panelFetch[c].w}]
       /\ PageRead(panelFetch[c].w)

PageInv ==
  /\ panel = [c \in Cells |-> panel[c]]
  /\ \A c \in Cells : panel[c] # NoPanel =>
       /\ PageRead(panel[c])
       /\ panel[c].answer = ListLineTransactions(panel[c].total, panel[c].page, panel[c].basis, c)

ReportInv == ScreenInv /\ FetchInv /\ HeldInv /\ AskInv /\ PageInv

(* It gives the type of what is on the page, and that its numbers agree.   *)
LEMMA ReportInvTyped ==
  ASSUME ReportInv
  PROVE  ReportTypeOK
<1>1. \A c \in Cells : panel[c] # NoPanel => panel[c].total \in Seen /\ panel[c].answer.kind \in ReportAnswerKind
  <2> SUFFICES ASSUME NEW c \in Cells, panel[c] # NoPanel
               PROVE  panel[c].total \in Seen /\ panel[c].answer.kind \in ReportAnswerKind
    OBVIOUS
  <2>1. /\ panel[c].total \in Seen
        /\ panel[c].answer = ListLineTransactions(panel[c].total, panel[c].page, panel[c].basis, c)
    BY DEF ReportInv, PageInv, PageRead
  <2> QED  BY <2>1 DEF ListLineTransactions, ReportAnswerKind
<1>2. report # NoReport => report.basis \in ReportBasis /\ report.read \in [Elems(Statements) -> Seen]
  BY DEF ReportInv, HeldInv, Reading, Readings
<1> QED  BY <1>1, <1>2 DEF ReportInv, ScreenInv, ReportTypeOK

(* Its numbers agree, those of an open figure with those of the report.    *)
LEMMA ReportInvAgrees ==
  ASSUME ReportInv
  PROVE  ReportAgrees
<1>1. ASSUME reportFetch.st = "arrives" PROVE FiguresAgree(reportFetch.w)
  <2>1. reportFetch.w.read \in Readings /\ reportFetch.w.answer = GetManagementPNL(reportFetch.w.read, reportFetch.w.basis)
    BY <1>1 DEF ReportInv, FetchInv, Reading, Answered
  <2> QED  BY <2>1, AnswerAgrees
<1>2. ASSUME DrilldownPanel.page = "answer" PROVE PanelAgrees(cell)
  <2>1. cell # NoCell /\ ReportScreen = "report" /\ panel[cell] # NoPanel
    BY <1>2 DEF DrilldownPanel
  <2>2. report # NoReport
    <3>1. reportError \in {"none", "mixed", "failed"}  BY DEF ReportInv, ScreenInv
    <3> QED  BY <2>1, <3>1 DEF ReportScreen
  <2>3. cell \in Cells  BY <2>1 DEF ReportInv, ScreenInv
  <2>4. Reading(report) /\ Answered(report)  BY <2>2 DEF ReportInv, HeldInv
  <2>5. PageRead(panel[cell])
        /\ panel[cell].answer = ListLineTransactions(panel[cell].total, panel[cell].page, panel[cell].basis, cell)
    BY <2>1, <2>3 DEF ReportInv, PageInv
  <2>6. PanelPair(panel[cell], report)  BY <2>4, <2>5 DEF PanelPair, Reading, Answered, PageRead
  <2> QED  BY <2>3, <2>5, <2>6, PanelHolds
<1> QED  BY <1>1, <1>2 DEF ReportAgrees

(* It holds as the page loads.                                             *)
LEMMA ReportInvInit ==
  ASSUME ReportInit
  PROVE  ReportInv
<1>1. Unseen \in Seen /\ NoReading.read \in Readings
  BY StatementsAre DEF Unseen, Seen, NoReading, Readings
<1>2. Reading(NoReading) /\ NoReading.basis = "bank"
  BY <1>1 DEF Reading, NoReading, ReportBasis
<1>3. PageRead(NoPage)
  BY <1>1 DEF PageRead, NoPage, ReportBasis
<1>4. Landed \in Seen
  <2>1. PICK o \in Opened : imported = o.imported /\ classified = o.classified  BY DEF ReportInit
  <2>2. o \in Seen  BY ReportOpened
  <2>3. o = [imported |-> o.imported, classified |-> o.classified]  BY <2>2 DEF Seen
  <2> QED  BY <2>1, <2>2, <2>3 DEF Landed
<1>5. ScreenInv
  BY <1>4 DEF ScreenInv, ReportInit
<1>6. FetchInv
  BY <1>2 DEF FetchInv, ReportInit, ReportAsked
<1>7. HeldInv  BY DEF HeldInv, ReportInit
<1>8. AskInv
  <2>1. \A c \in Cells : panelFetch[c] = PanelDue \/ panelFetch[c] = PanelIdle
    BY DEF ReportInit
  <2>2. \A x \in {PanelDue, PanelIdle} :
          /\ x \in [st : {"idle", "due", "reads", "rows"}, left : SUBSET {"basis", "report"}, w : {x.w}]
          /\ x.w = NoPage
    BY DEF PanelDue, PanelIdle
  <2>3. panelFetch = [c \in Cells |-> panelFetch[c]]  BY DEF ReportInit
  <2> QED  BY <1>3, <2>1, <2>2, <2>3 DEF AskInv
<1>9. PageInv  BY DEF PageInv, ReportInit
<1> QED  BY <1>5, <1>6, <1>7, <1>8, <1>9 DEF ReportInv

(* What is in a source, of one reading of the batches.                     *)
LEMMA BasisDerived ==
  ASSUME NEW of, deriveBasis(of) # "mixed"
  PROVE  deriveBasis(of) \in ReportBasis
BY DEF deriveBasis, ReportBasis

(* The screen: imports and answers land, answers are taken back, errors    *)
(* come and go, figures are opened.                                        *)
LEMMA ScreenStep ==
  ASSUME ReportInv, [ReportNext]_reportVars
  PROVE  ScreenInv'
<1> USE DEF ReportInv, ScreenInv, Landed
<1>1. CASE UNCHANGED reportVars  BY <1>1 DEF reportVars, contentVars, reportOnly, panelOnly
<1>2. ASSUME NEW b \in Imports, Import(b) PROVE ScreenInv'
  BY <1>2 DEF Import, Seen, RowIds, reportOnly, panelOnly
<1>3. ASSUME NEW rows \in Chunks, NEW v \in Verdicts, AnswersLand(rows, v) PROVE ScreenInv'
  <2>1. classified' \subseteq RowIds(imported) \X Verdicts
    <3>1. classified \subseteq RowIds(imported) \X Verdicts  BY DEF Seen
    <3>2. classified' = classified \cup (rows \X {v}) /\ rows \subseteq RowIds(imported)
      BY <1>3 DEF AnswersLand
    <3> QED  BY <3>1, <3>2
  <2>2. imported' = imported /\ classified' \in SUBSET (Nat \X Verdicts)
    <3>1. imported \in SUBSET Imports  BY DEF Seen
    <3>2. RowIds(imported) \subseteq Nat  BY <3>1, ReportRows DEF RowIds, ReportRow
    <3> QED  BY <1>3, <2>1, <3>2 DEF AnswersLand
  <2>3. Landed' \in Seen  BY <2>1, <2>2 DEF Seen
  <2> QED  BY <1>3, <2>3 DEF AnswersLand, reportOnly, panelOnly
<1>3a. ASSUME NEW rows \in Chunks, NEW saw \in SUBSET Verdicts, AnswersTaken(rows, saw) PROVE ScreenInv'
  BY <1>3a DEF AnswersTaken, Seen, reportOnly, panelOnly
<1>4. CASE ReportBasisRead  BY <1>4 DEF ReportBasisRead, contentVars, panelOnly
<1>5. CASE ReportServed  BY <1>5 DEF ReportServed, contentVars, panelOnly
<1>6. CASE ReportArrive  BY <1>6 DEF ReportArrive, contentVars, panelOnly
<1>7. CASE ReportFail  BY <1>7 DEF ReportFail, contentVars, panelOnly
<1>8. CASE ReportAgain  BY <1>8 DEF ReportAgain, contentVars, panelOnly
<1>9. ASSUME NEW v \in {"table", "charts"}, ShowView(v) PROVE ScreenInv'
  BY <1>9 DEF ShowView, contentVars, reportOnly
<1>10. ASSUME NEW c \in Charts, ToggleCard(c) PROVE ScreenInv'
  BY <1>10 DEF ToggleCard, contentVars, reportOnly, panelOnly
<1>11. ASSUME NEW c \in Cells, OpenCell(c) PROVE ScreenInv'
  BY <1>11 DEF OpenCell, contentVars, reportOnly
<1>12. CASE CloseCell  BY <1>12 DEF CloseCell, contentVars, reportOnly
<1>13. CASE PanelStart  BY <1>13 DEF PanelStart, contentVars, reportOnly
<1>14. ASSUME NEW c \in Cells, PanelBasisRead(c) PROVE ScreenInv'
  BY <1>14 DEF PanelBasisRead, contentVars, reportOnly
<1>15. ASSUME NEW c \in Cells, PanelReportRead(c) PROVE ScreenInv'
  BY <1>15 DEF PanelReportRead, contentVars, reportOnly
<1>16. ASSUME NEW c \in Cells, PanelTotal(c) PROVE ScreenInv'
  BY <1>16 DEF PanelTotal, contentVars, reportOnly
<1>17. ASSUME NEW c \in Cells, PanelArrive(c) PROVE ScreenInv'
  BY <1>17 DEF PanelArrive, contentVars, reportOnly
<1>18. ASSUME NEW c \in Cells, PanelFail(c) PROVE ScreenInv'
  BY <1>18 DEF PanelFail, contentVars, reportOnly
<1> QED
  BY <1>1, <1>2, <1>3, <1>3a, <1>4, <1>5, <1>6, <1>7, <1>8, <1>9, <1>10, <1>11, <1>12, <1>13, <1>14, <1>15,
     <1>16, <1>17, <1>18
  DEF ReportNext

(* The report being read, and the one in hand: a statement's reading goes  *)
(* into the one at hand, and the answer is made of all of them.            *)
LEMMA FetchStep ==
  ASSUME ReportInv, [ReportNext]_reportVars
  PROVE  FetchInv' /\ HeldInv'
<1> DEFINE Same == UNCHANGED <<reportFetch, report>>
           Goal == FetchInv' /\ HeldInv'
<1>0. ASSUME Same PROVE Goal
  BY <1>0 DEF ReportInv, FetchInv, HeldInv, Reading, Answered
<1>00. ASSUME reportFetch' = ReportIdle \/ reportFetch' = ReportAsked PROVE FetchInv'
  <2>1. Unseen \in Seen /\ NoReading.read \in Readings
    BY StatementsAre DEF Unseen, Seen, NoReading, Readings
  <2>2. Reading(NoReading)
    BY <2>1 DEF Reading, NoReading, ReportBasis
  <2>3. Reading(reportFetch.w)'
    BY <1>00, <2>2 DEF Reading, ReportIdle, ReportAsked
  <2> QED  BY <1>00, <2>3 DEF FetchInv, ReportIdle, ReportAsked
<1>000. UNCHANGED report => HeldInv'
  BY DEF ReportInv, HeldInv, Reading, Answered
<1>1. CASE ReportBasisRead
  <2>1. UNCHANGED report  BY <1>1 DEF ReportBasisRead
  <2>2. CASE reportFetch' = ReportIdle  BY <2>1, <2>2, <1>00, <1>000
  <2>3. CASE deriveBasis(imported) # "mixed"
               /\ reportFetch' = [st |-> Statements[1], w |-> [NoReading EXCEPT !.basis = deriveBasis(imported)]]
    <3> DEFINE w == [NoReading EXCEPT !.basis = deriveBasis(imported)]
    <3>1. Unseen \in Seen /\ NoReading.read \in Readings
      BY StatementsAre DEF Unseen, Seen, NoReading, Readings
    <3>2. deriveBasis(imported) \in ReportBasis  BY <2>3, BasisDerived
    <3>3. Reading(w)  BY <3>1, <3>2 DEF Reading, NoReading
    <3>4. Statements[1] = "lines"  BY DEF Statements
    <3> HIDE DEF w
    <3>5. reportFetch' = [st |-> "lines", w |-> w]  BY <2>3, <3>4 DEF w
    <3>6. FetchInv'
      BY <3>3, <3>5, StatementsAre DEF FetchInv, Reading
    <3> QED  BY <2>1, <3>6, <1>000
  <2> QED  BY <1>1, <2>2, <2>3 DEF ReportBasisRead
<1>2. CASE ReportServed
  <2>1. PICK i \in DOMAIN Statements :
          /\ reportFetch.st = Statements[i]
          /\ LET read == [reportFetch.w.read EXCEPT ![Statements[i]] = Landed]
                 last == i = Len(Statements)
             IN  reportFetch' =
                   [st |-> IF last THEN "arrives" ELSE Statements[i + 1],
                    w |-> [reportFetch.w EXCEPT !.read = read,
                             !.answer = IF last THEN GetManagementPNL(read, reportFetch.w.basis) ELSE @]]
    BY <1>2 DEF ReportServed
  <2> DEFINE o == reportFetch.w
             read == [o.read EXCEPT ![Statements[i]] = Landed]
             last == i = Len(Statements)
             answer == IF last THEN GetManagementPNL(read, o.basis) ELSE o.answer
  <2>2. UNCHANGED report  BY <1>2 DEF ReportServed
  <2>3. Landed \in Seen /\ Reading(o)  BY DEF ReportInv, ScreenInv, FetchInv
  <2>4. read \in Readings
    <3>1. o.read \in Readings  BY <2>3 DEF Reading
    <3> QED  BY <2>3, <3>1 DEF Readings
  <2>5. ~last => Statements[i + 1] \in Elems(Statements) /\ Statements[i + 1] # "arrives"
    BY StatementsAre DEF Statements, Elems
  <2> DEFINE w == [o EXCEPT !.read = read, !.answer = answer]
  <2>6. /\ reportFetch' = [st |-> IF last THEN "arrives" ELSE Statements[i + 1], w |-> w]
        /\ Reading(w) /\ w.read = read /\ w.basis = o.basis /\ w.answer = answer
    <3>1. reportFetch' = [st |-> IF last THEN "arrives" ELSE Statements[i + 1], w |-> w]
      BY <2>1
    <3> HIDE DEF o, read, answer, last
    <3> QED  BY <3>1, <2>3, <2>4 DEF Reading
  <2>7. o.basis \in ReportBasis  BY <2>3 DEF Reading
  <2>8. last => answer = GetManagementPNL(read, o.basis)  OBVIOUS
  <2> HIDE DEF read, last, answer, o, w
  <2>9. FetchInv'
    BY <2>4, <2>5, <2>6, <2>7, <2>8 DEF FetchInv, Reading, Answered
  <2> QED  BY <2>2, <2>9, <1>000
<1>3. CASE ReportArrive
  <2>1. report' = reportFetch.w /\ reportFetch' = ReportIdle  BY <1>3 DEF ReportArrive
  <2>2. Reading(reportFetch.w) /\ Answered(reportFetch.w)
    BY <1>3 DEF ReportArrive, ReportInv, FetchInv
  <2>3. HeldInv'  BY <2>1, <2>2 DEF HeldInv, Reading, Answered
  <2> QED  BY <2>1, <2>3, <1>00
<1>4. CASE ReportFail  BY <1>4, <1>00, <1>000 DEF ReportFail
<1>5. CASE ReportAgain  BY <1>5, <1>00, <1>000 DEF ReportAgain
<1>6. ASSUME NEW b \in Imports, Import(b) PROVE Goal
  BY <1>6, <1>0 DEF Import, reportOnly
<1>6a. ASSUME NEW rows \in Chunks, NEW v \in Verdicts, AnswersLand(rows, v) PROVE Goal
  BY <1>6a, <1>0 DEF AnswersLand, reportOnly
<1>6b. ASSUME NEW rows \in Chunks, NEW saw \in SUBSET Verdicts, AnswersTaken(rows, saw) PROVE Goal
  BY <1>6b, <1>0 DEF AnswersTaken, reportOnly
<1>7. ASSUME NEW v \in {"table", "charts"}, ShowView(v) PROVE Goal
  BY <1>7, <1>0 DEF ShowView, reportOnly
<1>8. ASSUME NEW c \in Charts, ToggleCard(c) PROVE Goal
  BY <1>8, <1>0 DEF ToggleCard, reportOnly
<1>9. ASSUME NEW c \in Cells, OpenCell(c) PROVE Goal
  BY <1>9, <1>0 DEF OpenCell, reportOnly
<1>10. CASE CloseCell \/ PanelStart
  BY <1>10, <1>0 DEF CloseCell, PanelStart, reportOnly
<1>11. ASSUME NEW c \in Cells, PanelBasisRead(c) \/ PanelReportRead(c) \/ PanelTotal(c) \/ PanelArrive(c) \/ PanelFail(c)
       PROVE  Goal
  BY <1>11, <1>0 DEF PanelBasisRead, PanelReportRead, PanelTotal, PanelArrive, PanelFail, reportOnly
<1>12. CASE UNCHANGED reportVars  BY <1>12, <1>0 DEF reportVars, reportOnly
<1> HIDE DEF Goal
<1> QED
  BY <1>1, <1>2, <1>3, <1>4, <1>5, <1>6, <1>6a, <1>6b, <1>7, <1>8, <1>9, <1>10, <1>11, <1>12
  DEF ReportNext, Goal

\* One query about a figure, as it may stand.
FigureAsked(x) ==
  /\ x \in [st : {"idle", "due", "reads", "rows"}, left : SUBSET {"basis", "report"}, w : {x.w}]
  /\ PageRead(x.w)

(* Where a query may go.                                                   *)
LEMMA AskedThen ==
  ASSUME NEW x, FigureAsked(x), NEW seen \in Seen, NEW basis \in ReportBasis
  PROVE  /\ FigureAsked([x EXCEPT !.left = x.left \ {"basis"}, !.w.basis = basis])
         /\ FigureAsked([x EXCEPT !.left = x.left \ {"report"}])
         /\ FigureAsked([x EXCEPT !.st = "rows", !.w.total = seen])
<1> DEFINE w == x.w
           r == [w EXCEPT !.basis = basis]
           t == [w EXCEPT !.total = seen]
<1>1. PageRead(w)  BY DEF FigureAsked
<1>2. PageRead(r) /\ PageRead(t)
  <2> HIDE DEF w
  <2> QED  BY <1>1 DEF PageRead
<1>3. x \in [st : {"idle", "due", "reads", "rows"}, left : SUBSET {"basis", "report"}, w : {w}]
  BY DEF FigureAsked
<1> HIDE DEF w, r, t
<1>4. FigureAsked([x EXCEPT !.left = x.left \ {"basis"}, !.w = r])  BY <1>2, <1>3 DEF FigureAsked
<1>5. FigureAsked([x EXCEPT !.left = x.left \ {"report"}])  BY <1>1, <1>3 DEF FigureAsked
<1>6. FigureAsked([x EXCEPT !.st = "rows", !.w = t])  BY <1>2, <1>3 DEF FigureAsked
<1> QED  BY <1>4, <1>5, <1>6 DEF r, t, w

(* A query starts with nothing of its figure read.                         *)
LEMMA AskedFirst == FigureAsked(PanelIdle) /\ FigureAsked(PanelDue) /\ FigureAsked(PanelReads)
<1>1. PageRead(NoPage)  BY DEF PageRead, NoPage, Unseen, Seen, ReportBasis
<1> QED  BY <1>1 DEF FigureAsked, PanelIdle, PanelDue, PanelReads

(* The queries about figures, each of its own cell.                        *)
LEMMA AskStep ==
  ASSUME ReportInv, [ReportNext]_reportVars
  PROVE  AskInv'
<1>0. panelFetch = [c \in Cells |-> panelFetch[c]] /\ \A c \in Cells : FigureAsked(panelFetch[c])
  BY DEF ReportInv, AskInv, FigureAsked
<1>00. ASSUME panelFetch' = [c \in Cells |-> panelFetch'[c]], \A c \in Cells : FigureAsked(panelFetch'[c])
       PROVE  AskInv'
  BY <1>00 DEF AskInv, FigureAsked, PageRead
<1>1. ASSUME NEW c \in Cells, NEW x, FigureAsked(x), panelFetch' = [panelFetch EXCEPT ![c] = x] PROVE AskInv'
  <2>1. panelFetch' = [d \in Cells |-> panelFetch'[d]]  BY <1>0, <1>1
  <2>2. \A d \in Cells : panelFetch'[d] = IF d = c THEN x ELSE panelFetch[d]  BY <1>0, <1>1
  <2>3. \A d \in Cells : FigureAsked(panelFetch'[d])  BY <1>0, <1>1, <2>2
  <2> QED  BY <2>1, <2>3, <1>00
<1>2. ASSUME UNCHANGED panelFetch PROVE AskInv'
  BY <1>0, <1>2, <1>00
<1>3. Landed \in Seen /\ cell \in Cells \cup {NoCell}  BY DEF ReportInv, ScreenInv
<1>4. CASE ReportBasisRead \/ ReportServed \/ ReportFail \/ ReportAgain
  BY <1>2, <1>4 DEF ReportBasisRead, ReportServed, ReportFail, ReportAgain, panelOnly
<1>5. CASE ReportArrive
  <2>1. CASE UNCHANGED panelFetch  BY <1>2, <2>1
  <2>2. CASE cell # NoCell /\ panelFetch' = [panelFetch EXCEPT ![cell] = PanelDue]
    <3>1. cell \in Cells  BY <1>3, <2>2
    <3> QED  BY <1>1, <2>2, <3>1, AskedFirst
  <2> QED  BY <1>5, <2>1, <2>2 DEF ReportArrive, PanelBack
<1>6. ASSUME NEW b \in Imports, Import(b) PROVE AskInv'
  BY <1>2, <1>6 DEF Import, panelOnly
<1>6a. ASSUME NEW rows \in Chunks, NEW v \in Verdicts, AnswersLand(rows, v) PROVE AskInv'
  BY <1>2, <1>6a DEF AnswersLand, panelOnly
<1>6b. ASSUME NEW rows \in Chunks, NEW saw \in SUBSET Verdicts, AnswersTaken(rows, saw) PROVE AskInv'
  BY <1>2, <1>6b DEF AnswersTaken, panelOnly
<1>7. ASSUME NEW v \in {"table", "charts"}, ShowView(v) PROVE AskInv'
  BY <1>2, <1>7 DEF ShowView
<1>8. ASSUME NEW c \in Charts, ToggleCard(c) PROVE AskInv'
  BY <1>2, <1>8 DEF ToggleCard, panelOnly
<1>9. ASSUME NEW c \in Cells, OpenCell(c) PROVE AskInv'
  BY <1>1, <1>2, <1>9, AskedFirst DEF OpenCell
<1>10. CASE CloseCell  BY <1>2, <1>10 DEF CloseCell
<1>11. CASE PanelStart
  <2>1. cell \in Cells  BY <1>3, <1>11 DEF PanelStart
  <2> QED  BY <1>1, <1>11, <2>1, AskedFirst DEF PanelStart
<1>12. ASSUME NEW c \in Cells, PanelRejected(c) PROVE AskInv'
  BY <1>1, <1>12, AskedFirst DEF PanelRejected
<1>13. ASSUME NEW c \in Cells, PanelBasisRead(c) PROVE AskInv'
  <2>1. CASE PanelRejected(c)  BY <2>1, <1>12
  <2>2. CASE /\ deriveBasis(imported) # "mixed"
             /\ panelFetch' = [panelFetch EXCEPT ![c].left = @ \ {"basis"}, ![c].w.basis = deriveBasis(imported)]
    <3> DEFINE basis == deriveBasis(imported)
    <3>1. basis \in ReportBasis  BY <2>2, BasisDerived
    <3>2. panelFetch' = [panelFetch EXCEPT ![c] =
                           [panelFetch[c] EXCEPT !.left = panelFetch[c].left \ {"basis"}, !.w.basis = basis]]
      BY <1>0, <2>2
    <3> HIDE DEF basis
    <3> QED  BY <1>0, <1>1, <1>3, <3>1, <3>2, AskedThen
  <2> QED  BY <1>13, <2>1, <2>2 DEF PanelBasisRead
<1>14. ASSUME NEW c \in Cells, PanelReportRead(c) PROVE AskInv'
  <2>1. CASE PanelRejected(c)  BY <2>1, <1>12
  <2>2. CASE panelFetch' = [panelFetch EXCEPT ![c].left = @ \ {"report"}]
    <3>1. panelFetch' = [panelFetch EXCEPT ![c] = [panelFetch[c] EXCEPT !.left = panelFetch[c].left \ {"report"}]]
      BY <1>0, <2>2
    <3>2. "bank" \in ReportBasis  BY DEF ReportBasis
    <3> QED  BY <1>0, <1>1, <1>3, <3>1, <3>2, AskedThen
  <2> QED  BY <1>14, <2>1, <2>2 DEF PanelReportRead
<1>15. ASSUME NEW c \in Cells, PanelTotal(c) PROVE AskInv'
  <2>1. panelFetch' = [panelFetch EXCEPT ![c] = [panelFetch[c] EXCEPT !.st = "rows", !.w.total = Landed]]
    BY <1>0, <1>15 DEF PanelTotal
  <2>2. "bank" \in ReportBasis  BY DEF ReportBasis
  <2> QED  BY <1>0, <1>1, <1>3, <2>1, <2>2, AskedThen
<1>16. ASSUME NEW c \in Cells, PanelArrive(c) PROVE AskInv'
  BY <1>1, <1>16, AskedFirst DEF PanelArrive
<1>17. ASSUME NEW c \in Cells, PanelFail(c) PROVE AskInv'
  BY <1>12, <1>17 DEF PanelFail
<1>18. CASE UNCHANGED reportVars  BY <1>2, <1>18 DEF reportVars, panelOnly
<1> QED
  BY <1>4, <1>5, <1>6, <1>6a, <1>6b, <1>7, <1>8, <1>9, <1>10, <1>11, <1>13, <1>14, <1>15, <1>16, <1>17, <1>18
  DEF ReportNext

(* What was read of a figure is of its own cell, all of it.                *)
LEMMA PageStep ==
  ASSUME ReportInv, [ReportNext]_reportVars
  PROVE  PageInv'
<1>0. panel = [c \in Cells |-> panel[c]]  BY DEF ReportInv, PageInv
<1>1. ASSUME UNCHANGED panel PROVE PageInv'
  BY <1>1 DEF ReportInv, PageInv, PageRead
<1>2. ASSUME NEW c \in Cells, PanelArrive(c) PROVE PageInv'
  <2> DEFINE w == panelFetch[c].w
             x == [w EXCEPT !.page = Landed, !.answer = ListLineTransactions(w.total, Landed, w.basis, c)]
  <2>1. panel' = [panel EXCEPT ![c] = x]  BY <1>2 DEF PanelArrive
  <2>2. PageRead(w) /\ Landed \in Seen  BY DEF ReportInv, AskInv, ScreenInv
  <2>3. /\ PageRead(x) /\ x.total = w.total /\ x.page = Landed /\ x.basis = w.basis
        /\ x.answer = ListLineTransactions(w.total, Landed, w.basis, c)
    <3> HIDE DEF w
    <3> QED  BY <2>2 DEF PageRead
  <2> HIDE DEF x, w
  <2>4. panel' = [d \in Cells |-> panel'[d]]  BY <1>0, <2>1
  <2>5. \A d \in Cells : panel'[d] = IF d = c THEN x ELSE panel[d]  BY <1>0, <2>1
  <2>6. ASSUME NEW d \in Cells, panel'[d] # NoPanel
        PROVE  /\ PageRead(panel'[d])
               /\ panel'[d].answer = ListLineTransactions(panel'[d].total, panel'[d].page, panel'[d].basis, d)
    <3>1. CASE d = c  BY <2>3, <2>5, <3>1
    <3>2. CASE d # c
      <4>1. panel'[d] = panel[d]  BY <2>5, <3>2
      <4> QED  BY <2>6, <4>1 DEF ReportInv, PageInv
    <3> QED  BY <3>1, <3>2
  <2> QED  BY <2>4, <2>6 DEF PageInv, PageRead
<1>3. ASSUME NEW b \in Imports, Import(b) PROVE PageInv'
  BY <1>1, <1>3 DEF Import, panelOnly
<1>3a. ASSUME NEW rows \in Chunks, NEW v \in Verdicts, AnswersLand(rows, v) PROVE PageInv'
  BY <1>1, <1>3a DEF AnswersLand, panelOnly
<1>3b. ASSUME NEW rows \in Chunks, NEW saw \in SUBSET Verdicts, AnswersTaken(rows, saw) PROVE PageInv'
  BY <1>1, <1>3b DEF AnswersTaken, panelOnly
<1>4. CASE ReportBasisRead \/ ReportServed \/ ReportArrive \/ ReportFail \/ ReportAgain
  BY <1>1, <1>4 DEF ReportBasisRead, ReportServed, ReportArrive, ReportFail, ReportAgain, panelOnly
<1>5. ASSUME NEW v \in {"table", "charts"}, ShowView(v) PROVE PageInv'
  BY <1>1, <1>5 DEF ShowView
<1>6. ASSUME NEW c \in Charts, ToggleCard(c) PROVE PageInv'
  BY <1>1, <1>6 DEF ToggleCard, panelOnly
<1>7. ASSUME NEW c \in Cells, OpenCell(c) PROVE PageInv'
  BY <1>1, <1>7 DEF OpenCell
<1>8. CASE CloseCell \/ PanelStart
  BY <1>1, <1>8 DEF CloseCell, PanelStart
<1>9. ASSUME NEW c \in Cells, PanelBasisRead(c) \/ PanelReportRead(c) \/ PanelTotal(c) \/ PanelFail(c)
      PROVE  PageInv'
  BY <1>1, <1>9 DEF PanelBasisRead, PanelReportRead, PanelTotal, PanelFail
<1>10. CASE UNCHANGED reportVars  BY <1>1, <1>10 DEF reportVars, panelOnly
<1> QED
  BY <1>2, <1>3, <1>3a, <1>3b, <1>4, <1>5, <1>6, <1>7, <1>8, <1>9, <1>10 DEF ReportNext

-----------------------------------------------------------------------------
(* Every step of the report screen keeps it.                               *)
LEMMA ReportInvStep == ReportInv /\ [ReportNext]_reportVars => ReportInv'
BY ScreenStep, FetchStep, AskStep, PageStep DEF ReportInv

(* The report and the figures open over it are always what core read for   *)
(* them: the answer of the statements it was read with, a figure of its    *)
(* own cell.  data/report.ts:264-345, 429-479.                             *)
THEOREM ReportKept == ReportSpec => []ReportInv
BY ReportInvInit, ReportInvStep, PTL DEF ReportSpec

(* What is on the report's page has its type.  data/report.ts:264-345.     *)
THEOREM ReportTyped == ReportSpec => []ReportTypeOK
BY ReportInvTyped, ReportKept, PTL

(* Whatever batches land, whatever their rows, however often each of them  *)
(* is answered, whatever the range and the figures opened: the tiles, the  *)
(* months, the charts and the strip are one account but for what the lines *)
(* count again, and an open figure is the cell it was opened from, made of *)
(* its operands or its rows.  data/report.ts:122-157, 264-345, 429-479.    *)
THEOREM ReportNumbers == ReportSpec => []ReportAgrees
BY ReportInvAgrees, ReportKept, PTL
=============================================================================
