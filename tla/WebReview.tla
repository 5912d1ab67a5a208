----------------------------- MODULE WebReview -----------------------------
(***************************************************************************)
(* The review screen and the badge that counts the same queue              *)
(* (web/src/app/ReviewScreen.tsx, AppLayout.tsx, data/review.ts): what one *)
(* tab shows, has chosen and has sent, next to the queue on the server     *)
(* that other people and imports change.                                   *)
(*                                                                         *)
(* Two queries are cached, the groups and the summary behind the badge.  A *)
(* fetch is three steps: asked, served (the server's state is read) and    *)
(* arrived.  An invalidation restarts a fetch of a query that has data and *)
(* joins the one in flight of a query that has none.                       *)
(***************************************************************************)
EXTENDS WebPicker

CONSTANTS
  Groups,      \* counterparty keys
  NoGroup, NoCode, NoData,
  Queues,      \* what the queue may hold when the tab is opened
  PAGE_SIZE,   \* the groups the screen asks for: one page, and no other
  MOST_GROUPS, FEW_GROUPS,   \* core: the most it answers with; how many to anything else
  Calls,       \* decisions in flight at once, at most
  MaxTroubles  \* bound: changes by others, failures, focus, screen changes, second decisions

VARIABLES
  queue,       \* the server's groups in its order: [key, side]
  troubles,
  groups, groupsFetch, groupsError,    \* the query ["reviewGroups"]
  badge, badgeFetch, badgeError,       \* the query ["reviewSummary"]
  mounted,     \* the review screen is the one shown
  index, selected, showAllSides, decideError,
  browsing,    \* the group under which the filter was typed or a branch opened
  calls,       \* decideGroup calls and what is left to do after them
  chosenFor,   \* history: the group on screen when `selected` was chosen
  turned,      \* history: the group's sign changed under a standing choice
  unasked      \* history: queries whose data is old and nobody asked again

serverVars == <<queue, troubles>>
groupsVars == <<groups, groupsFetch, groupsError>>
badgeVars  == <<badge, badgeFetch, badgeError>>
choiceVars == <<selected, browsing, showAllSides, decideError, chosenFor, turned>>
queueVars  == <<serverVars, groupsVars, badgeVars, mounted, index, choiceVars, calls, unasked>>
reviewVars == <<cats, queueVars>>

-----------------------------------------------------------------------------
GroupRows == [key : Groups, side : Sides]

ASSUME ReviewConstants ==
  /\ NoGroup \notin Groups /\ MaxTroubles \in Nat /\ {PAGE_SIZE, MOST_GROUPS, FEW_GROUPS} \subseteq Nat \ {0}
  /\ Queues \subseteq Seq(GroupRows) /\ NoData \notin Seq(GroupRows)

IdleFetch == [st |-> "idle", got |-> NoData]
Asked     == [st |-> "asked", got |-> NoData]
NoCall    == [st |-> "none", key |-> NoGroup, for |-> NoGroup, here |-> FALSE]

\* What core answers of the queue as it stands: a page of it, and how many
\* groups there are.  A page larger than it gives is taken for none named.
Page(limit) == IF limit \in 1..MOST_GROUPS THEN limit ELSE FEW_GROUPS
ListReviewGroups(q, limit) ==
  [groups |-> SubSeq(q, 1, IF Page(limit) < Len(q) THEN Page(limit) ELSE Len(q)),
   total_counterparty_count |-> Len(q)]

\* The screen's one page, and the badge's count with the least of a page.
listReviewGroups(q) == ListReviewGroups(q, PAGE_SIZE).groups
reviewSummary(q) == ListReviewGroups(q, 1).total_counterparty_count

list == IF groups = NoData THEN <<>> ELSE groups

\* The group on screen: the index, held inside the list.
GroupAt(l, i) ==
  IF l = <<>> THEN [key |-> NoGroup, side |-> "both"]
  ELSE l[IF i + 1 <= Len(l) THEN i + 1 ELSE Len(l)]
group == GroupAt(list, index)

\* Nothing can be clicked while the screen is loading, failed or empty.  The
\* keys are the document's, and heard as long as the screen is mounted.
OnScreen == mounted /\ groups # NoData /\ ~groupsError /\ list # <<>>

side == IF showAllSides THEN "both" ELSE group.side
offered == Offered(cats, side)
allLeaves == {c.code : c \in offered}

\* Mutant: the choice survives into the next group.
ScopedKept(l, i) ==
  /\ browsing' = NoGroup /\ showAllSides' = FALSE /\ decideError' = FALSE
  /\ UNCHANGED <<selected, chosenFor, turned>>

\* The effect on the group's key: every choice is scoped to its group.
Scoped(l, i) ==
  IF GroupAt(l, i).key # group.key
  THEN /\ selected' = NoCode /\ browsing' = NoGroup
       /\ showAllSides' = FALSE /\ decideError' = FALSE
       /\ chosenFor' = NoGroup /\ turned' = FALSE
  ELSE /\ UNCHANGED <<selected, browsing, showAllSides, decideError, chosenFor>>
       /\ turned' = (turned \/ (selected # NoCode /\ GroupAt(l, i).side # group.side))

-----------------------------------------------------------------------------
\* useQuery's refetch: joins a fetch in flight.  An error shown stays until an
\* answer, except where there is no data: the query is then pending again.
Refetch(f) == IF f.st = "idle" THEN Asked ELSE f
StillFailed(error, data) == error /\ data # NoData

\* invalidateQueries on a query in use: a fetch in flight is dropped when
\* there is data to fall back on, and joined otherwise.
Invalidate(f, data) == IF data = NoData THEN Refetch(f) ELSE Asked

QueueInit ==
  /\ queue \in Queues
  /\ troubles = 0
  /\ groups = NoData /\ groupsFetch = Asked /\ groupsError = FALSE
  /\ badge = NoData /\ badgeFetch = Asked /\ badgeError = FALSE
  /\ mounted = TRUE /\ index = 0 /\ selected = NoCode /\ browsing = NoGroup
  /\ showAllSides = FALSE /\ decideError = FALSE
  /\ calls = [c \in Calls |-> NoCall]
  /\ chosenFor = NoGroup /\ turned = FALSE /\ unasked = {}

ReviewInit == cats \in Catalogs /\ QueueInit

Both == {"groups", "badge"}

Trouble == troubles < MaxTroubles /\ troubles' = troubles + 1

\* Other reviewers decide a group, an import queues one or turns the sign of
\* one that is queued: nobody tells this tab.
Others ==
  /\ Trouble
  /\ unasked' = Both
  /\ \/ \E i \in DOMAIN queue : queue' = RemoveAt(queue, i)
     \/ \E g \in GroupRows : /\ \A i \in DOMAIN queue : queue[i].key # g.key
                             /\ queue' = Append(queue, g)
     \/ \E i \in DOMAIN queue, s \in Sides :
          s # queue[i].side /\ queue' = [queue EXCEPT ![i].side = s]
  /\ UNCHANGED <<cats, groupsVars, badgeVars, mounted, index, choiceVars, calls>>

GroupsServed ==
  /\ groupsFetch.st = "asked"
  /\ groupsFetch' = [st |-> "served", got |-> listReviewGroups(queue)]
  /\ unasked' = unasked \ {"groups"}
  /\ UNCHANGED <<cats, serverVars, groups, groupsError, badgeVars, mounted, index, choiceVars, calls>>

\* What waits for the refetch goes on when it ended, however it ended.
Onward(c) == [c EXCEPT !.st = IF @ = "groups" THEN "badge" ELSE @]

GroupsArrive ==
  /\ groupsFetch.st = "served"
  /\ groups' = groupsFetch.got /\ groupsError' = FALSE /\ groupsFetch' = IdleFetch
  /\ calls' = [c \in Calls |-> Onward(calls[c])]
  /\ IF mounted THEN Scoped(groupsFetch.got, index) ELSE UNCHANGED choiceVars
  /\ UNCHANGED <<cats, serverVars, badgeVars, mounted, index, unasked>>

\* The last retry failed.  The list is kept and an error shown over it.
GroupsFail ==
  /\ Trouble /\ groupsFetch.st # "idle"
  /\ groupsError' = TRUE /\ groupsFetch' = IdleFetch
  /\ calls' = [c \in Calls |-> Onward(calls[c])]
  /\ UNCHANGED <<cats, queue, groups, badgeVars, mounted, index, choiceVars, unasked>>

BadgeServed ==
  /\ badgeFetch.st = "asked"
  /\ badgeFetch' = [st |-> "served", got |-> reviewSummary(queue)]
  /\ unasked' = unasked \ {"badge"}
  /\ UNCHANGED <<cats, serverVars, groupsVars, badge, badgeError, mounted, index, choiceVars, calls>>

BadgeArrive ==
  /\ badgeFetch.st = "served"
  /\ badge' = badgeFetch.got /\ badgeError' = FALSE /\ badgeFetch' = IdleFetch
  /\ UNCHANGED <<cats, serverVars, groupsVars, mounted, index, choiceVars, calls, unasked>>

\* The badge keeps its number and says nothing.
BadgeFail ==
  /\ Trouble /\ badgeFetch.st # "idle"
  /\ badgeError' = TRUE /\ badgeFetch' = IdleFetch
  /\ UNCHANGED <<cats, queue, groupsVars, badge, mounted, index, choiceVars, calls, unasked>>

\* The window gets the focus back: every query in use is fetched again.
Refocus ==
  /\ Trouble
  /\ groupsFetch' = IF mounted THEN Refetch(groupsFetch) ELSE groupsFetch
  /\ groupsError' = IF mounted THEN StillFailed(groupsError, groups) ELSE groupsError
  /\ badgeFetch' = Refetch(badgeFetch) /\ badgeError' = StillFailed(badgeError, badge)
  /\ UNCHANGED <<cats, queue, groups, badge, mounted, index, choiceVars, calls, unasked>>

-----------------------------------------------------------------------------
\* Navigation away drops the screen's own state, keeps the cache and leaves
\* calls without a screen to report to; coming back shows the cache and
\* refetches, or joins the fetch still in flight.
Leave ==
  /\ Trouble /\ mounted /\ mounted' = FALSE
  /\ index' = 0 /\ selected' = NoCode /\ browsing' = NoGroup
  /\ showAllSides' = FALSE /\ decideError' = FALSE /\ chosenFor' = NoGroup /\ turned' = FALSE
  /\ calls' = [c \in Calls |-> [calls[c] EXCEPT !.here = FALSE]]
  /\ UNCHANGED <<cats, queue, groupsVars, badgeVars, unasked>>

Return ==
  /\ ~mounted /\ mounted' = TRUE
  /\ groupsFetch' = Refetch(groupsFetch) /\ groupsError' = StillFailed(groupsError, groups)
  /\ unasked' = IF groupsFetch.st = "served" THEN unasked \cup {"groups"} ELSE unasked
  /\ UNCHANGED <<cats, serverVars, groups, badgeVars, index, choiceVars, calls>>

Unchosen == <<cats, serverVars, groupsVars, badgeVars, mounted, calls, unasked>>

\* ArrowDown and ArrowUp.
Move ==
  /\ mounted
  /\ index' \in {IF index + 1 < Len(list) THEN index + 1
                 ELSE IF list = <<>> THEN 0 ELSE Len(list) - 1,
                 IF index > 0 THEN index - 1 ELSE 0}
  /\ Scoped(list, index')
  /\ UNCHANGED Unchosen

\* The filter and the branches on the way down.  What they show is a subset
\* of the offered leaves, and every offered leaf can be got to (PickerWhole).
Browse ==
  /\ mounted /\ browsing' \in {group.key, NoGroup}
  /\ UNCHANGED <<index, selected, showAllSides, decideError, chosenFor, turned>>
  /\ UNCHANGED Unchosen

\* A digit or a click on a leaf.
Choose(code) ==
  /\ mounted
  /\ selected' = code /\ chosenFor' = group.key /\ turned' = FALSE
  /\ UNCHANGED <<index, browsing, showAllSides, decideError>> /\ UNCHANGED Unchosen

Escape ==
  /\ mounted
  /\ selected' = NoCode /\ chosenFor' = NoGroup /\ turned' = FALSE
  /\ browsing' \in {browsing, NoGroup}    \* the filter's text stays
  /\ UNCHANGED <<index, showAllSides, decideError>> /\ UNCHANGED Unchosen

\* Mutant: hiding a side leaves a choice from it armed.
ToggleSidesArmed ==
  /\ OnScreen /\ group.side # "both"
  /\ showAllSides' = ~showAllSides /\ browsing' \in {browsing, NoGroup}
  /\ UNCHANGED <<index, selected, decideError, chosenFor, turned>>
  /\ UNCHANGED Unchosen

ToggleSides ==
  /\ OnScreen /\ group.side # "both"
  /\ IF showAllSides THEN selected' = NoCode /\ chosenFor' = NoGroup /\ turned' = FALSE
     ELSE UNCHANGED <<selected, chosenFor, turned>>
  /\ showAllSides' = ~showAllSides /\ browsing' \in {browsing, NoGroup}
  /\ UNCHANGED <<index, decideError>>
  /\ UNCHANGED Unchosen

-----------------------------------------------------------------------------
\* decide: nothing stops a second one while the first is in flight, nor a key
\* while an error hides the list.
Decide(c, kind) ==
  /\ mounted /\ list # <<>> /\ calls[c] = NoCall
  /\ c = CHOOSE d \in Calls : calls[d] = NoCall    \* which one is of no interest
  /\ kind = "classify" => selected # NoCode
  /\ calls' = [calls EXCEPT ![c] =
       [st |-> "sent", key |-> group.key, here |-> TRUE,
        for |-> IF kind = "classify" THEN chosenFor ELSE group.key]]
  /\ decideError' = FALSE
  /\ IF \A d \in Calls : calls[d] = NoCall THEN UNCHANGED troubles ELSE Trouble
  /\ UNCHANGED <<cats, queue, groupsVars, badgeVars, mounted, index, selected, browsing,
                 showAllSides, chosenFor, turned, unasked>>

\* ResolveGroup: the group leaves the queue, or was decided before.
Resolve(c) ==
  /\ calls[c].st = "sent"
  /\ LET at == {i \in DOMAIN queue : queue[i].key = calls[c].key} IN
     /\ calls' = [calls EXCEPT ![c].st = IF at = {} THEN "refused" ELSE "resolved"]
     /\ queue' = IF at = {} THEN queue ELSE RemoveAt(queue, CHOOSE i \in at : TRUE)
  /\ UNCHANGED <<cats, troubles, groupsVars, badgeVars, mounted, index, choiceVars, unasked>>

\* Mutant: the list is asked for again and the badge forgotten.
ResolvedBadgeless(c) ==
  /\ calls[c].st = "resolved"
  /\ calls' = [calls EXCEPT ![c] = NoCall]
  /\ groupsFetch' = IF mounted THEN Invalidate(groupsFetch, groups) ELSE groupsFetch
  /\ UNCHANGED <<cats, serverVars, groups, groupsError, badgeVars, mounted, index, choiceVars, unasked>>

\* The decision was accepted: the screen that sent it goes back to the first
\* group with nothing chosen, and the list is asked for again if it is in
\* use.  Calls that awaited the fetch this drops go on.
Resolved(c) ==
  /\ calls[c].st = "resolved"
  /\ LET others == IF mounted THEN [d \in Calls |-> Onward(calls[d])] ELSE calls
     IN calls' = [others EXCEPT ![c].st = IF mounted THEN "groups" ELSE "badge"]
  /\ groupsFetch' = IF mounted THEN Invalidate(groupsFetch, groups) ELSE groupsFetch
  /\ groupsError' = IF mounted THEN StillFailed(groupsError, groups) ELSE groupsError
  /\ IF calls[c].here
     THEN /\ index' = 0 /\ selected' = NoCode /\ chosenFor' = NoGroup /\ turned' = FALSE
          /\ IF GroupAt(list, 0).key # group.key
             THEN browsing' = NoGroup /\ showAllSides' = FALSE /\ decideError' = FALSE
             ELSE UNCHANGED <<browsing, showAllSides, decideError>>
     ELSE UNCHANGED <<index, choiceVars>>
  /\ UNCHANGED <<cats, serverVars, groups, badgeVars, mounted, unasked>>

\* A refusal or a failed call says so on the screen as it is by then, and
\* refreshes nothing.  An answer that is lost may be of a decision made.
Refused(c) ==
  /\ calls[c].st \in {"sent", "resolved", "refused"}
  /\ IF calls[c].st = "refused" THEN UNCHANGED troubles ELSE Trouble
  /\ calls' = [calls EXCEPT ![c] = NoCall]
  /\ unasked' = IF calls[c].st = "resolved" THEN Both ELSE unasked
  /\ decideError' = (calls[c].here \/ decideError)
  /\ UNCHANGED <<cats, queue, groupsVars, badgeVars, mounted, index, selected, browsing,
                 showAllSides, chosenFor, turned>>

\* "The rail badge counts the same list, so it has to be refreshed with it."
\* A first fetch of the badge that is in flight is joined, not restarted.
RefreshBadge(c) ==
  /\ calls[c].st = "badge"
  /\ calls' = [calls EXCEPT ![c] = NoCall]
  /\ badgeFetch' = Invalidate(badgeFetch, badge) /\ badgeError' = StillFailed(badgeError, badge)
  /\ unasked' = IF badge = NoData /\ badgeFetch.st = "served" THEN unasked \cup {"badge"} ELSE unasked
  /\ UNCHANGED <<cats, serverVars, groupsVars, badge, mounted, index, choiceVars>>

\* internal_transfer and not_in_pnl, the decisions without a category, are sent
\* and answered alike.
Decisions == {"classify", "not_in_pnl"}

ReviewNext ==
  \/ Others \/ Refocus \/ Leave \/ Return
  \/ GroupsServed \/ GroupsArrive \/ GroupsFail
  \/ BadgeServed \/ BadgeArrive \/ BadgeFail
  \/ Move \/ Browse \/ Escape \/ ToggleSides
  \/ \E code \in allLeaves : Choose(code)
  \/ \E c \in Calls : \/ \E kind \in Decisions : Decide(c, kind)
                      \/ Resolve(c) \/ Resolved(c) \/ Refused(c) \/ RefreshBadge(c)

ReviewSpec == ReviewInit /\ [][ReviewNext]_reviewVars

-----------------------------------------------------------------------------
ReviewTypeOK ==
  /\ index \in Nat /\ mounted \in BOOLEAN /\ turned \in BOOLEAN /\ unasked \subseteq Both
  /\ showAllSides \in BOOLEAN /\ decideError \in BOOLEAN
  /\ chosenFor \in Groups \cup {NoGroup}
  /\ \A c \in Calls :
       /\ calls[c].st \in {"none", "sent", "resolved", "refused", "groups", "badge"}
       /\ calls[c].key \in Groups \cup {NoGroup} /\ (calls[c].key = NoGroup <=> calls[c].st = "none")

(* A category stands armed behind Enter only for the group it was chosen   *)
(* under, what is sent for a group was chosen under that group, and the    *)
(* filter is the group's own; and a choice stands armed unseen only if the *)
(* group's own sign turned in a refetch.  ReviewScreen.tsx:192-198 ("a     *)
(* stale filter hides categories [...] a stale selection risks approving   *)
(* the new group under the old one's category") and :360 ("armed behind    *)
(* Enter, invisible").                                                     *)
ChoiceScoped ==
  /\ mounted /\ selected # NoCode =>
       chosenFor = group.key /\ (selected \in allLeaves \/ turned)
  /\ mounted => browsing \in {NoGroup, group.key}
  /\ \A c \in Calls : calls[c].st # "none" => calls[c].for = calls[c].key

(* When nothing is in flight, the list is the first page of the server's   *)
(* queue and the badge the size of the queue, unless somebody else changed *)
(* it or an answer was lost since it was last read, or the refetch failed  *)
(* and said so; the badge counts more than the list only past the page     *)
(* core gives.  AppLayout.tsx:66-68, ReviewScreen.tsx:183-187,             *)
(* core/internal/server/review.go:49-52.                                   *)
QueueSettles ==
  (\A c \in Calls : calls[c].st = "none") =>
    /\ mounted /\ groupsFetch.st = "idle" /\ ~groupsError /\ "groups" \notin unasked =>
         list = SubSeq(queue, 1, Len(list)) /\ (Len(list) < Len(queue) => Len(list) = Page(PAGE_SIZE))
    /\ badgeFetch.st = "idle" /\ ~badgeError /\ "badge" \notin unasked => badge = Len(queue)
=============================================================================
