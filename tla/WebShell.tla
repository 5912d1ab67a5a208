------------------------------ MODULE WebShell ------------------------------
(***************************************************************************)
(* The shell every screen is rendered in (web/src/router.tsx,              *)
(* app/AppLayout.tsx, data/session.ts): who is signed in, the tenant the   *)
(* data modules read from module state, the period the header shows, and   *)
(* the preferences kept in the browser.                                    *)
(*                                                                         *)
(* The tenant is set while rendering, from a query that may be late, fail  *)
(* or be asked again, next to a query (the badge) that starts before it    *)
(* and reads it.  The cookie and the storage are the browser's: another    *)
(* tab may sign out and in as somebody else under a page that stays.       *)
(* A person's organisation is named after them, since it is the one they   *)
(* created.  A period is a month counted from a year's start; 0 stands for *)
(* a value of a link that does not parse.                                  *)
(***************************************************************************)
EXTENDS Naturals, Sequences

CONSTANTS
  People, Anonymous, NoOrg,
  Months,     \* the months links and the picker name
  FirstMonth,      \* the month the first page is loaded in
  NoRange,
  TRIES,      \* react-query's own: one call and three more
  MaxShellTroubles   \* bound: failures, page loads, month ends, focus, toggles, other tabs

ASSUME ShellConstants ==
  /\ Anonymous \notin People /\ NoOrg \notin People
  /\ Months \subseteq Nat \ {0} /\ FirstMonth \in Nat \ {0}
  /\ TRIES \in Nat \ {0} /\ MaxShellTroubles \in Nat

VARIABLES
  account,          \* core: who the cookie is a session of
  founded,          \* core: those who have created their organisation
  now, shellTroubles,
  route, search,    \* the URL
  user, userFetch, carried, userError,   \* the query ["currentUser"]
  session,          \* data/session.ts: the organisation set, or NoOrg
  summary, tries,   \* the query ["reviewSummary"]: whose queue; tries left, 0 when idle
  creating,         \* FirstRunScreen's mutation: idle, pending, refused, unmounted
  signingOut,
  remembered, stored,   \* the period chosen last, here and in localStorage
  theme, locale, dataTheme, lang,   \* the choices, and what the document has
  cleared,          \* history: signed out, and the shell not rendered since
  linked,           \* history: the range on screen was named by a link
  met               \* history: whom this page was told it is for

coreVars == <<account, founded>>
userVars == <<user, userFetch, carried, userError>>
tenantVars == <<session, cleared>>
rangeVars == <<search, remembered, stored, linked>>
preferenceVars == <<theme, locale, dataTheme, lang>>
pageVars == <<route, userVars, tenantVars, summary, tries, creating, signingOut, met>>
shellVars == <<coreVars, now, shellTroubles, pageVars, rangeVars, preferenceVars>>

\* The import and review screens are alike to the shell: "queue".
AppRoutes == {"home", "queue", "pnl"}

-----------------------------------------------------------------------------
\* ui/period.ts: a year to date, and how a range and a column are named.
Year(m) == (m - 1) \div 12
Month(m) == (m - 1) % 12
defaultRange(at) == [from |-> 12 * Year(at) + 1, to |-> at]

formatPeriodRange(r) ==
  IF Year(r.from) = Year(r.to) THEN <<Month(r.from), Month(r.to), Year(r.to)>>
  ELSE <<Month(r.from), Year(r.from), Month(r.to), Year(r.to)>>

formatPeriodShort(m) == Month(m)
formatPeriodLong(m) == <<Month(m), Year(m)>>

\* initPeriodRange: what was stored, or the year to date.
initPeriodRange(at) == IF stored = NoRange THEN defaultRange(at) ELSE stored

\* Mutant: a link that names one end is taken as it is.
validateSearch_Whole(s, fallback) == IF s.from = 0 /\ s.to = 0 THEN fallback ELSE s

\* validateSearch: each end of the range by itself falls back to the one
\* remembered.
validateSearch(s, fallback) ==
  [from |-> IF s.from # 0 THEN s.from ELSE fallback.from,
   to   |-> IF s.to # 0 THEN s.to ELSE fallback.to]

NoSearch == [from |-> 0, to |-> 0]
Links == [from : Months \cup {0}, to : Months \cup {0}]

\* What AppLayout puts in the header: the report's own range where there is
\* one, the remembered one elsewhere.
HeaderRange == IF route = "pnl" THEN search ELSE remembered

\* GetCurrentUserResponse: a person and their organisation, if they have one.
Answers == [person : People \cup {Anonymous}, org : People \cup {NoOrg}]
Nobody == [person |-> Anonymous, org |-> NoOrg]
CurrentUser == [person |-> account, org |-> IF account \in founded THEN account ELSE NoOrg]

\* AppLayout's early returns in order.
AppLayout ==
  IF route \notin AppRoutes THEN "public"
  ELSE CASE userError = "unauthenticated" -> "signin"
         [] userError = "failed" -> "error"
         [] userError = "none" /\ user = Nobody -> "loading"
         [] userError = "none" /\ user # Nobody /\ user.org = NoOrg -> "first_run"
         [] userError = "none" /\ user # Nobody /\ user.org # NoOrg -> "screens"

\* Mutant: the tenant is set by an effect, after the screens were rendered.
RenderedLate == session' = session /\ cleared' = FALSE

\* A render of the shell sets the tenant before any screen below it renders.
Rendered ==
  IF AppLayout' = "screens" THEN session' = user'.org /\ cleared' = FALSE
  ELSE UNCHANGED tenantVars

\* The home screen comes up, with a second observer of either query.
HomeMounts == /\ AppLayout' = "screens" /\ route' = "home"
              /\ ~(AppLayout = "screens" /\ route = "home")

\* FirstRunScreen leaves the page: a call in flight goes on without it.
Creating == IF AppLayout' = "first_run" THEN creating
            ELSE IF creating \in {"pending", "unmounted"} THEN "unmounted" ELSE "idle"

-----------------------------------------------------------------------------
ShellInit ==
  /\ account \in People \cup {Anonymous} /\ founded \in SUBSET People
  /\ now = FirstMonth /\ shellTroubles = 0
  /\ route \in AppRoutes
  /\ stored \in {NoRange} \cup {[from |-> m, to |-> m] : m \in Months}
  /\ remembered = initPeriodRange(FirstMonth)
  /\ \E s \in Links :
       /\ s # NoSearch => route = "pnl"
       /\ search = (IF route = "pnl" THEN validateSearch(s, remembered) ELSE NoSearch)
       /\ linked = (s # NoSearch)
  /\ user = Nobody /\ userFetch = "asked" /\ carried = Nobody /\ userError = "none"
  /\ session = NoOrg /\ summary = NoOrg /\ tries = TRIES /\ met = {}
  /\ creating = "idle" /\ signingOut = FALSE /\ cleared = FALSE
  /\ theme = "system" /\ dataTheme = "absent" /\ locale = "en" /\ lang = "en"

ShellTrouble == shellTroubles < MaxShellTroubles /\ shellTroubles' = shellTroubles + 1

\* makeRouter over a new page: nothing of the old one is in memory.
LoadPage(r, s) ==
  /\ route' = r /\ remembered' = initPeriodRange(now)
  /\ search' = IF r = "pnl" THEN validateSearch(s, initPeriodRange(now)) ELSE NoSearch
  /\ linked' = (s # NoSearch)
  /\ user' = Nobody /\ userError' = "none" /\ summary' = NoOrg /\ carried' = Nobody /\ met' = {}
  /\ IF r \in AppRoutes THEN userFetch' = "asked" /\ tries' = TRIES
     ELSE userFetch' = "idle" /\ tries' = 0
  /\ session' = NoOrg /\ creating' = "idle" /\ signingOut' = FALSE /\ cleared' = FALSE

\* A link is followed from outside, or the page is reloaded, signed in or not.
OpenLink(r, s) ==
  /\ ShellTrouble /\ (s # NoSearch => r = "pnl") /\ LoadPage(r, s)
  /\ UNCHANGED <<coreVars, now, stored, preferenceVars>>

\* SignInPage: the way through Google ends in a page load with a cookie.
SignIn(who) ==
  /\ ShellTrouble /\ AppLayout = "signin" /\ account' = who /\ LoadPage("home", NoSearch)
  /\ UNCHANGED <<founded, now, stored, preferenceVars>>

\* The cookie ends, or another tab signs out, or in as anybody, while this page
\* stays as it is.
CookieChanges(who) ==
  /\ ShellTrouble /\ account # who /\ account' = who
  /\ UNCHANGED <<founded, now, pageVars, rangeVars, preferenceVars>>

\* Another tab's first-run screen.
FoundedElsewhere ==
  /\ ShellTrouble /\ account \in People \ founded /\ founded' = founded \cup {account}
  /\ UNCHANGED <<account, now, pageVars, rangeVars, preferenceVars>>

\* Another tab's choice of a period is read with the next page.
StoredElsewhere(r) ==
  /\ ShellTrouble /\ r.from <= r.to /\ stored' = r
  /\ UNCHANGED <<coreVars, now, pageVars, search, remembered, linked, preferenceVars>>

NextMonth ==
  /\ ShellTrouble /\ now' = now + 1
  /\ UNCHANGED <<coreVars, pageVars, rangeVars, preferenceVars>>

-----------------------------------------------------------------------------
\* getCurrentUser, read and arrived; it is never tried twice.
UserServed ==
  /\ userFetch = "asked" /\ userFetch' = "served" /\ carried' = CurrentUser
  /\ UNCHANGED <<coreVars, now, shellTroubles, route, user, userError, tenantVars, summary,
                 tries, creating, signingOut, met, rangeVars, preferenceVars>>

\* What is cached stays beside an error.
UserArrive ==
  /\ userFetch = "served" /\ carried' = Nobody
  /\ IF carried = Nobody
     THEN userError' = "unauthenticated" /\ UNCHANGED <<user, met>>
     ELSE userError' = "none" /\ user' = carried /\ met' = met \cup {carried.person}
  /\ UNCHANGED <<coreVars, now, shellTroubles, route, summary, signingOut, rangeVars,
                 preferenceVars>>
  /\ userFetch' = IF HomeMounts THEN "asked" ELSE "idle"
  /\ tries' = IF HomeMounts /\ tries = 0 THEN TRIES ELSE tries
  /\ creating' = Creating /\ Rendered

UserFail ==
  /\ ShellTrouble /\ userFetch # "idle" /\ userFetch' = "idle" /\ carried' = Nobody
  /\ userError' = "failed"
  /\ UNCHANGED <<coreVars, now, route, user, tenantVars, summary, tries, signingOut, met,
                 rangeVars, preferenceVars>>
  /\ creating' = Creating

\* The window gets the focus: both queries of the shell are asked again.
Focus ==
  /\ ShellTrouble /\ route \in AppRoutes /\ userFetch = "idle"
  /\ userFetch' = "asked" /\ tries' = IF tries = 0 THEN TRIES ELSE tries
  /\ userError' = IF user = Nobody THEN "none" ELSE userError    \* without data, pending again
  /\ UNCHANGED <<coreVars, now, route, user, carried, tenantVars, summary, creating, signingOut,
                 met, rangeVars, preferenceVars>>

\* reviewSummary: requireSession throws where no tenant is set, and core refuses
\* one the cookie's person is no member of: either is a try like any other.
SummaryTry ==
  /\ tries > 0
  /\ UNCHANGED <<coreVars, now, shellTroubles, route, userVars, creating, signingOut, met,
                 rangeVars, preferenceVars>>
  /\ \/ /\ session = NoOrg \/ session # CurrentUser.org
        /\ tries' = tries - 1 /\ UNCHANGED <<summary, tenantVars>>
     \/ /\ session # NoOrg /\ session = CurrentUser.org
        /\ tries' = 0 /\ summary' = session /\ Rendered

-----------------------------------------------------------------------------
\* The rail, a card or the redirects of /app and /app/reports.  A screen that
\* reads a query asks for it when it comes up.
Navigate(r) ==
  /\ AppLayout = "screens" /\ route' = r
  /\ search' = IF r = "pnl" THEN validateSearch(NoSearch, remembered) ELSE NoSearch
  /\ linked' = FALSE
  /\ UNCHANGED <<coreVars, now, shellTroubles, user, carried, userError, summary, creating,
                 signingOut, met, remembered, stored, preferenceVars>>
  /\ tries' = IF HomeMounts /\ tries = 0 THEN TRIES ELSE tries
  /\ userFetch' = IF HomeMounts /\ userFetch = "idle" THEN "asked" ELSE userFetch
  /\ Rendered

\* PeriodPicker: one end at a time, bounded by the other end on screen; the
\* store may refuse to keep it.
ChoosePeriod(end, m) ==
  /\ AppLayout = "screens"
  /\ end = "from" => m <= HeaderRange.to
  /\ end = "to" => m >= HeaderRange.from
  /\ LET next == IF end = "from" THEN [HeaderRange EXCEPT !.from = m]
                 ELSE [HeaderRange EXCEPT !.to = m]
     IN  /\ remembered' = next
         /\ stored' \in {next, stored}
         /\ search' = IF route = "pnl" THEN next ELSE search
  /\ linked' = FALSE
  /\ UNCHANGED <<coreVars, now, shellTroubles, route, userVars, summary, tries, creating,
                 signingOut, met, preferenceVars>>
  /\ Rendered

\* setTheme and setLocale, and apply: no attribute at all means "system".
SetTheme(t) ==
  /\ ShellTrouble /\ AppLayout = "screens"
  /\ theme' = t /\ dataTheme' = IF t = "system" THEN "absent" ELSE t
  /\ UNCHANGED <<coreVars, now, route, userVars, summary, tries, creating, signingOut, met,
                 rangeVars, locale, lang>>
  /\ Rendered
SetLocale(l) ==
  /\ ShellTrouble /\ AppLayout = "screens" /\ locale' = l /\ lang' = l
  /\ UNCHANGED <<coreVars, now, route, userVars, summary, tries, creating, signingOut, met,
                 rangeVars, theme, dataTheme>>
  /\ Rendered

-----------------------------------------------------------------------------
\* FirstRunScreen: one mutation at a time, as far as the screen knows.
CreateOrganisation ==
  /\ AppLayout = "first_run" /\ creating # "pending" /\ creating' = "pending"
  /\ UNCHANGED <<coreVars, now, shellTroubles, route, userVars, tenantVars, summary, tries,
                 signingOut, met, rangeVars, preferenceVars>>

\* A screen that is gone shows no refusal.
RefusalShown == IF creating = "pending" THEN "refused" ELSE "idle"

\* Core answers whoever the cookie is of by now: the first is created, a second
\* is refused; only a success asks for the user again, dropping a fetch in flight,
\* and an answer may be lost after the fact.
OrganisationAnswered ==
  /\ creating \in {"pending", "unmounted"} /\ account # Anonymous
  /\ \/ /\ account \notin founded /\ founded' = founded \cup {account} /\ creating' = "idle"
        /\ userFetch' = "asked" /\ carried' = Nobody /\ UNCHANGED shellTroubles
     \/ /\ account \in founded /\ creating' = RefusalShown
        /\ UNCHANGED <<founded, userFetch, carried, shellTroubles>>
     \/ /\ ShellTrouble /\ founded' = founded \cup {account} /\ creating' = RefusalShown
        /\ UNCHANGED <<userFetch, carried>>
  /\ UNCHANGED <<account, now, route, user, userError, tenantVars, summary, tries, signingOut,
                 met, rangeVars, preferenceVars>>

OrganisationRefused ==
  /\ creating \in {"pending", "unmounted"} /\ account = Anonymous /\ creating' = RefusalShown
  /\ UNCHANGED <<coreVars, now, shellTroubles, route, userVars, tenantVars, summary, tries,
                 signingOut, met, rangeVars, preferenceVars>>

\* signOut: the tenant goes first, then the call, then the page.
SignOut ==
  /\ AppLayout = "screens" /\ ~signingOut
  /\ signingOut' = TRUE /\ session' = NoOrg /\ cleared' = TRUE
  /\ UNCHANGED <<coreVars, now, shellTroubles, route, userVars, summary, tries, creating, met,
                 rangeVars, preferenceVars>>

SignedOut ==
  /\ signingOut /\ account' = Anonymous /\ LoadPage("landing", NoSearch)
  /\ UNCHANGED <<founded, now, shellTroubles, stored, preferenceVars>>

\* The call fails: nothing is said and the page stays.
SignOutFails ==
  /\ ShellTrouble /\ signingOut /\ signingOut' = FALSE
  /\ UNCHANGED <<coreVars, now, route, userVars, tenantVars, summary, tries, creating, met,
                 rangeVars, preferenceVars>>

ShellNext ==
  \/ \E r \in AppRoutes, s \in Links : OpenLink(r, s)
  \/ \E who \in People : SignIn(who)
  \/ \E who \in People \cup {Anonymous} : CookieChanges(who)
  \/ \E r \in [from : Months, to : Months] : StoredElsewhere(r)
  \/ FoundedElsewhere \/ NextMonth \/ Focus
  \/ UserServed \/ UserArrive \/ UserFail \/ SummaryTry
  \/ \E r \in AppRoutes : Navigate(r)
  \/ \E end \in {"from", "to"}, m \in Months : ChoosePeriod(end, m)
  \/ \E t \in {"light", "dark", "system"} : SetTheme(t)
  \/ \E l \in {"en", "ru"} : SetLocale(l)
  \/ CreateOrganisation \/ OrganisationAnswered \/ OrganisationRefused
  \/ SignOut \/ SignedOut \/ SignOutFails

ShellSpec == ShellInit /\ [][ShellNext]_shellVars

-----------------------------------------------------------------------------
MonthRange == [from : Nat \ {0}, to : Nat \ {0}]

ShellTypeOK ==
  /\ remembered \in MonthRange /\ stored \in MonthRange \cup {NoRange}
  /\ search \in (IF route = "pnl" THEN MonthRange ELSE MonthRange \cup {NoSearch})
  /\ route \in AppRoutes \cup {"landing"} /\ tries \in 0..TRIES
  /\ user \in Answers
  /\ session \in People \cup {NoOrg} /\ summary \in People \cup {NoOrg}

(* Whoever signs in or out, here or in another tab, fails or is late: the  *)
(* screens on the page call for the organisation of the person the page    *)
(* shows and of nobody it showed before, or for none since a sign-out; one *)
(* still set behind the first-run screen is not that person's; and the     *)
(* tenant and the badge are of people this page was told it is for.  The   *)
(* header shows the report's own range; no range runs backwards unless a   *)
(* link named it, and two different ranges never read alike.               *)
(* AppLayout.tsx:38-114, data/session.ts:25-45, router.tsx:140-182,        *)
(* ui/periodPreference.ts:43-94, ui/period.ts:31-48.                       *)
ShellGate ==
  /\ AppLayout = "screens" =>
       /\ user.org = user.person
       /\ session = (IF cleared THEN NoOrg ELSE user.org)
  /\ AppLayout = "first_run" => session # user.person
  /\ {session, summary} \subseteq met \cup {NoOrg}
  /\ remembered.from <= remembered.to
  /\ route = "pnl" /\ ~linked => search.from <= search.to
  /\ formatPeriodRange(HeaderRange) = formatPeriodRange(remembered) => HeaderRange = remembered
  /\ dataTheme = "absent" <=> theme = "system"
=============================================================================
