---------------------------- MODULE WebDataProofs ----------------------------
(***************************************************************************)
(* The two screens that keep what they read of a queue and of files, for   *)
(* every queue, catalogue and set of files, and for every number of calls, *)
(* failures and refetches; and the tree the review screen picks from, for  *)
(* every finite list of categories.                                        *)
(*                                                                         *)
(* Review.  The group on screen moves with the list, with the index and    *)
(* with the screen itself, and each of the three drops what was chosen     *)
(* under the group before (Scoped); a screen that is not shown holds no    *)
(* choice.                                                                 *)
(*                                                                         *)
(* Imports.  The server only moves a batch forward, so whatever was read   *)
(* of it is at or behind what it is now (Known).  One fetch at a time is   *)
(* under way for each query, so what it carries is at or ahead of what is  *)
(* shown: the invariant keeps shown, carried and current in this order.  A *)
(* status that ends a file stays, so what was read of it after that status *)
(* was read under it, and the parts of an open batch agree (AgreeInv).     *)
(*                                                                         *)
(* The picker.  A node is told by the way down to it (Way), and what a     *)
(* node is folded into by that way alone (FoldOf).  A chain has one way    *)
(* out, so folding keeps the leaves below (FoldKeeps); where it stops at a *)
(* branch there are two children, and these stay two when folded.          *)
(***************************************************************************)
EXTENDS WebReview, WebImports, SequenceTheorems, FiniteSetTheorems, TLAPS

-----------------------------------------------------------------------------
(* The review screen.                                                      *)

Keys == Groups \cup {NoGroup}
Call == [st : {"none", "sent", "resolved", "refused", "groups", "badge"},
         key : Keys, for : Keys, here : BOOLEAN]

(* What is listed, wherever it is kept. *)
QueueInv ==
  /\ queue \in Seq(GroupRows)
  /\ groups \in Seq(GroupRows) \cup {NoData}
  /\ groupsFetch.st = "served" => groupsFetch.got \in Seq(GroupRows)
  /\ index \in Nat

CallInv == calls \in [Calls -> Call] /\ chosenFor \in Keys

(* A screen that is not shown has nothing chosen. *)
Away == ~mounted => selected = NoCode /\ browsing = NoGroup

ReviewInv == QueueInv /\ CallInv /\ Away /\ ChoiceScoped

-----------------------------------------------------------------------------
(* The parts of ChoiceScoped. *)
Armed == mounted /\ selected # NoCode =>
           chosenFor = group.key /\ (selected \in allLeaves \/ turned)
Filtered == mounted => browsing \in {NoGroup, group.key}
Sent == \A c \in Calls : calls[c].st # "none" => calls[c].for = calls[c].key

LEMMA ChoiceParts == ChoiceScoped <=> Armed /\ Filtered /\ Sent
BY DEF ChoiceScoped, Armed, Filtered, Sent

(* The group on screen is one of the list's, or none. *)
LEMMA GroupTyped ==
  ASSUME NEW l \in Seq(GroupRows), NEW i \in Nat
  PROVE  GroupAt(l, i) \in [key : Keys, side : Sides]
<1>1. CASE l = <<>>
  BY <1>1 DEF GroupAt, Keys, Sides
<1>2. CASE l # <<>>
  <2>1. Len(l) \in Nat \ {0} /\ \A j \in 1..Len(l) : l[j] \in GroupRows
    BY <1>2
  <2>2. (IF i + 1 <= Len(l) THEN i + 1 ELSE Len(l)) \in 1..Len(l)
    BY <2>1
  <2> QED
    BY <1>2, <2>1, <2>2 DEF GroupAt, GroupRows, Keys
<1> QED
  BY <1>1, <1>2

LEMMA ListTyped == QueueInv => list \in Seq(GroupRows)
BY DEF QueueInv, list

(* A page of a queue is a queue, and never mistaken for no data. *)
LEMMA PageTyped ==
  ASSUME queue \in Seq(GroupRows)
  PROVE  listReviewGroups(queue) \in Seq(GroupRows)
<1> DEFINE n == IF Page(PAGE_SIZE) < Len(queue) THEN Page(PAGE_SIZE) ELSE Len(queue)
<1>1. n \in Int /\ 1 \in Int /\ \A i \in 1..n : queue[i] \in GroupRows
  BY ReviewConstants DEF Page
<1>2. SubSeq(queue, 1, n) \in Seq(GroupRows)
  <2> HIDE DEF n
  <2> QED BY <1>1, SubSeqProperties
<1> QED
  BY <1>2 DEF listReviewGroups, ListReviewGroups

LEMMA RemovedTyped ==
  ASSUME NEW q \in Seq(GroupRows), NEW i \in DOMAIN q
  PROVE  RemoveAt(q, i) \in Seq(GroupRows)
<1>1. i \in 1..Len(q) /\ Len(q) \in Nat /\ \A j \in 1..Len(q) : q[j] \in GroupRows
  OBVIOUS
<1>2. SubSeq(q, 1, i - 1) \in Seq(GroupRows)
  BY <1>1, SubSeqProperties
<1>3. SubSeq(q, i + 1, Len(q)) \in Seq(GroupRows)
  BY <1>1, SubSeqProperties
<1> QED
  BY <1>2, <1>3, ConcatProperties DEF RemoveAt

(* Asking for both sides offers no less. *)
LEMMA BothOffersMore ==
  ASSUME NEW s PROVE Offered(cats, s) \subseteq Offered(cats, "both")
BY DEF Offered

-----------------------------------------------------------------------------
LEMMA ReviewInvInit == ReviewInit => ReviewInv
<1> SUFFICES ASSUME ReviewInit PROVE ReviewInv
  OBVIOUS
<1>1. QueueInv
  BY ReviewConstants DEF ReviewInit, QueueInit, QueueInv, Asked
<1>2. CallInv
  BY DEF ReviewInit, QueueInit, CallInv, NoCall, Call, Keys
<1>3. Away
  BY DEF ReviewInit, QueueInit, Away
<1>4. ChoiceScoped
  BY DEF ReviewInit, QueueInit, ChoiceScoped, NoCall
<1> QED
  BY <1>1, <1>2, <1>3, <1>4 DEF ReviewInv

(* A step that leaves the choice, the list and the place in it alone. *)
Still == UNCHANGED <<cats, groups, mounted, index, choiceVars>>

LEMMA StillKeeps ==
  ASSUME ReviewInv, Still PROVE Armed' /\ Filtered' /\ Away' /\ chosenFor' \in Keys
<1>1. group' = group /\ allLeaves' = allLeaves
  BY DEF Still, choiceVars, group, list, GroupAt, allLeaves, offered, side, Offered
<1>2. Armed' /\ Filtered'
  BY <1>1, ChoiceParts DEF ReviewInv, Still, choiceVars, Armed, Filtered
<1>3. Away' /\ chosenFor' \in Keys
  BY DEF ReviewInv, Still, choiceVars, Away, CallInv
<1> QED
  BY <1>2, <1>3

(* The effect on the group's key, whatever moved the group. *)
LEMMA ScopedKeeps ==
  ASSUME ReviewInv, mounted, mounted' = mounted, cats' = cats,
         list' \in Seq(GroupRows), index' \in Nat, Scoped(list', index')
  PROVE  Armed' /\ Filtered' /\ Away' /\ chosenFor' \in Keys
<1>1. group' = GroupAt(list', index')
  BY DEF group, GroupAt
<1>2. CASE group'.key # group.key
  <2>1. selected' = NoCode /\ browsing' = NoGroup /\ chosenFor' = NoGroup
    BY <1>1, <1>2 DEF Scoped
  <2> QED
    BY <2>1 DEF Armed, Filtered, Away, Keys
<1>3. CASE group'.key = group.key
  <2>1. /\ UNCHANGED <<selected, browsing, showAllSides, chosenFor>>
        /\ turned' = (turned \/ (selected # NoCode /\ group'.side # group.side))
    BY <1>1, <1>3 DEF Scoped
  <2>2. group'.side = group.side => allLeaves' = allLeaves
    BY <2>1 DEF allLeaves, offered, side, Offered
  <2>3. Armed'
    BY <1>3, <2>1, <2>2, ChoiceParts DEF ReviewInv, Armed
  <2>4. Filtered' /\ Away' /\ chosenFor' \in Keys
    BY <1>3, <2>1, ChoiceParts DEF ReviewInv, Filtered, Away, CallInv
  <2> QED
    BY <2>3, <2>4
<1> QED
  BY <1>2, <1>3

(* What a call becomes when the fetch it waits for ends. *)
LEMMA OnwardTyped ==
  ASSUME NEW k \in Call
  PROVE  /\ Onward(k) \in Call /\ Onward(k).key = k.key /\ Onward(k).for = k.for
         /\ (Onward(k).st = "none" <=> k.st = "none")
BY DEF Call, Onward

(* A step that leaves the choice and the calls alone. *)
LEMMA QuietKeeps ==
  ASSUME ReviewInv, Still, UNCHANGED calls, QueueInv' PROVE ReviewInv'
<1>1. Sent' /\ CallInv'
  <2>1. Sent /\ CallInv
    BY ChoiceParts DEF ReviewInv
  <2> QED
    BY <2>1, StillKeeps DEF Sent, CallInv, Keys
<1> QED
  BY <1>1, StillKeeps, ChoiceParts DEF ReviewInv, ChoiceScoped, Armed, Filtered, Sent

-----------------------------------------------------------------------------
LEMMA OthersKeeps == ASSUME ReviewInv, Others PROVE ReviewInv'
<1>1. queue' \in Seq(GroupRows)
  <2>1. queue \in Seq(GroupRows)
    BY DEF ReviewInv, QueueInv
  <2>2. ASSUME NEW i \in DOMAIN queue, queue' = RemoveAt(queue, i)
        PROVE  queue' \in Seq(GroupRows)
    BY <2>1, <2>2, RemovedTyped
  <2>3. ASSUME NEW g \in GroupRows, queue' = Append(queue, g)
        PROVE  queue' \in Seq(GroupRows)
    BY <2>1, <2>3, AppendProperties
  <2>4. ASSUME NEW i \in DOMAIN queue, NEW s \in Sides, queue' = [queue EXCEPT ![i].side = s]
        PROVE  queue' \in Seq(GroupRows)
    <3>1. i \in 1..Len(queue) /\ queue[i] \in GroupRows
      BY <2>1
    <3>2. PICK g \in GroupRows : g = [queue[i] EXCEPT !.side = s]
      BY <3>1 DEF GroupRows
    <3>3. queue' = [queue EXCEPT ![i] = g]
      BY <2>4, <3>2
    <3> QED
      BY <2>1, <3>1, <3>3, ExceptSeq
  <2> QED
    BY <2>2, <2>3, <2>4 DEF Others
<1>2. QueueInv'
  BY <1>1 DEF ReviewInv, QueueInv, Others, groupsVars
<1> QED
  BY <1>2, QuietKeeps DEF Others, Still, groupsVars

LEMMA GroupsServedKeeps == ASSUME ReviewInv, GroupsServed PROVE ReviewInv'
<1>1. QueueInv'
  BY PageTyped DEF ReviewInv, QueueInv, GroupsServed, serverVars
<1> QED
  BY <1>1, QuietKeeps DEF GroupsServed, Still, serverVars

(* Steps that leave the list and what was fetched of it alone. *)
LEMMA ElsewhereKeeps ==
  ASSUME ReviewInv, UNCHANGED <<cats, queue, groups, mounted, index, choiceVars, calls>>,
         groupsFetch'.st = "served" => groupsFetch' = groupsFetch
  PROVE  ReviewInv'
<1>1. QueueInv'
  BY DEF ReviewInv, QueueInv
<1> QED
  BY <1>1, QuietKeeps DEF Still

LEMMA BadgeKeeps ==
  ASSUME ReviewInv, BadgeServed \/ BadgeArrive \/ BadgeFail PROVE ReviewInv'
BY ElsewhereKeeps DEF BadgeServed, BadgeArrive, BadgeFail, serverVars, groupsVars

LEMMA RefocusKeeps == ASSUME ReviewInv, Refocus PROVE ReviewInv'
BY ElsewhereKeeps DEF Refocus, Refetch, Asked

LEMMA ReturnKeeps == ASSUME ReviewInv, Return PROVE ReviewInv'
<1>1. QueueInv'
  BY DEF ReviewInv, QueueInv, Return, serverVars, Refetch, Asked
<1>2. UNCHANGED <<groups, index, cats, selected, browsing, calls, chosenFor>>
  BY DEF Return, choiceVars
<1>3. selected' = NoCode /\ browsing' = NoGroup
  BY <1>2 DEF ReviewInv, Away, Return
<1>4. Armed' /\ Filtered' /\ Away'
  BY <1>3 DEF Armed, Filtered, Away
<1>5. Sent' /\ CallInv'
  BY <1>2, ChoiceParts DEF ReviewInv, Sent, CallInv, Keys
<1> QED
  BY <1>1, <1>4, <1>5 DEF ReviewInv, ChoiceScoped, Armed, Filtered, Sent

LEMMA GroupsArriveKeeps == ASSUME ReviewInv, GroupsArrive PROVE ReviewInv'
<1>1. groupsFetch.got \in Seq(GroupRows) /\ groups' = groupsFetch.got
  BY DEF ReviewInv, QueueInv, GroupsArrive
<1>2. list' = groupsFetch.got
  BY <1>1, ReviewConstants DEF list
<1>3. QueueInv'
  BY <1>1 DEF ReviewInv, QueueInv, GroupsArrive, serverVars, IdleFetch
<1>4. Armed' /\ Filtered' /\ Away' /\ chosenFor' \in Keys
  <2>1. CASE mounted
    <3>1. Scoped(list', index') /\ index' \in Nat /\ mounted' = mounted /\ cats' = cats
      BY <1>2, <2>1 DEF GroupsArrive, ReviewInv, QueueInv
    <3> QED
      BY <1>1, <1>2, <2>1, <3>1, ScopedKeeps
  <2>2. CASE ~mounted
    BY <2>2, ChoiceParts DEF GroupsArrive, choiceVars, ReviewInv, Armed, Filtered, Away, CallInv
  <2> QED
    BY <2>1, <2>2
<1>5. Sent' /\ calls' \in [Calls -> Call]
  <2>1. calls' = [c \in Calls |-> Onward(calls[c])]
    BY DEF GroupsArrive
  <2>2. \A c \in Calls : calls[c] \in Call /\ (calls[c].st # "none" => calls[c].for = calls[c].key)
    BY ChoiceParts DEF ReviewInv, CallInv, Sent
  <2> QED
    BY <2>1, <2>2, OnwardTyped DEF Sent
<1> QED
  BY <1>3, <1>4, <1>5 DEF ReviewInv, ChoiceScoped, Armed, Filtered, Sent, CallInv, Keys

LEMMA GroupsFailKeeps == ASSUME ReviewInv, GroupsFail PROVE ReviewInv'
<1>1. QueueInv'
  BY DEF ReviewInv, QueueInv, GroupsFail, IdleFetch
<1>2. Armed' /\ Filtered' /\ Away' /\ chosenFor' \in Keys
  BY StillKeeps DEF GroupsFail, Still
<1>3. Sent' /\ calls' \in [Calls -> Call]
  <2>1. calls' = [c \in Calls |-> Onward(calls[c])]
    BY DEF GroupsFail
  <2>2. \A c \in Calls : calls[c] \in Call /\ (calls[c].st # "none" => calls[c].for = calls[c].key)
    BY ChoiceParts DEF ReviewInv, CallInv, Sent
  <2> QED
    BY <2>1, <2>2, OnwardTyped DEF Sent
<1> QED
  BY <1>1, <1>2, <1>3 DEF ReviewInv, ChoiceScoped, Armed, Filtered, Sent, CallInv, Keys

-----------------------------------------------------------------------------
(* One call is replaced by another, or by none. *)
LEMMA CallsKeep ==
  ASSUME ReviewInv, NEW c \in Calls, NEW k \in Call, k.st # "none" => k.for = k.key,
         calls' = [calls EXCEPT ![c] = k]
  PROVE  Sent' /\ calls' \in [Calls -> Call]
BY ChoiceParts DEF ReviewInv, CallInv, Sent

(* The group on screen and what it offers, where neither the list nor the  *)
(* place in it moved.                                                      *)
Put == UNCHANGED <<cats, groups, mounted, index>>

LEMMA PutKeeps ==
  ASSUME Put PROVE group' = group /\ (showAllSides' = showAllSides => allLeaves' = allLeaves)
BY DEF Put, group, list, GroupAt, allLeaves, offered, side, Offered

LEMMA UnchosenKeeps ==
  ASSUME ReviewInv, UNCHANGED Unchosen, index' = index PROVE QueueInv' /\ Put /\ Sent' /\ UNCHANGED calls
BY ChoiceParts DEF ReviewInv, QueueInv, Unchosen, serverVars, groupsVars, Put, Sent

LEMMA GroupKey == ReviewInv => group.key \in Keys
BY GroupTyped, ListTyped DEF ReviewInv, QueueInv, group

LEMMA MoveKeeps == ASSUME ReviewInv, Move PROVE ReviewInv'
<1>1. list \in Seq(GroupRows) /\ index \in Nat
  BY ListTyped DEF ReviewInv, QueueInv
<1>2. index' \in Nat
  BY <1>1 DEF Move
<1>3. list' = list /\ UNCHANGED Unchosen
  BY DEF Move, Unchosen, groupsVars, list
<1>4. Armed' /\ Filtered' /\ Away' /\ chosenFor' \in Keys
  BY <1>1, <1>2, <1>3, ScopedKeeps DEF Move, Unchosen
<1>5. QueueInv' /\ Sent' /\ CallInv'
  BY <1>2, <1>3, <1>4, ChoiceParts DEF ReviewInv, QueueInv, CallInv, Sent, Keys, Unchosen, serverVars, groupsVars
<1> QED
  BY <1>4, <1>5 DEF ReviewInv, ChoiceScoped, Armed, Filtered, Sent

LEMMA BrowseKeeps == ASSUME ReviewInv, Browse PROVE ReviewInv'
<1>1. QueueInv' /\ Put /\ Sent' /\ UNCHANGED calls
  BY UnchosenKeeps DEF Browse
<1>2. UNCHANGED <<selected, showAllSides, chosenFor, turned>>
  BY DEF Browse
<1>3. Armed' /\ CallInv'
  BY <1>1, <1>2, PutKeeps, ChoiceParts DEF ReviewInv, Armed, Put, CallInv, Keys
<1>4. Filtered' /\ Away'
  BY <1>1, PutKeeps DEF Filtered, Away, Browse, Unchosen
<1> QED
  BY <1>1, <1>3, <1>4 DEF ReviewInv, ChoiceScoped, Armed, Filtered, Sent

LEMMA ChooseKeeps == ASSUME ReviewInv, NEW code \in allLeaves, Choose(code) PROVE ReviewInv'
<1>1. QueueInv' /\ Put /\ Sent' /\ UNCHANGED calls
  BY UnchosenKeeps DEF Choose
<1>2. mounted /\ selected' = code /\ chosenFor' = group.key /\ UNCHANGED <<browsing, showAllSides>>
  BY DEF Choose
<1>3. Armed' /\ CallInv'
  BY <1>1, <1>2, PutKeeps, GroupKey DEF ReviewInv, Armed, CallInv, Keys
<1>4. Filtered' /\ Away'
  BY <1>1, <1>2, PutKeeps, ChoiceParts DEF ReviewInv, Filtered, Away, Put
<1> QED
  BY <1>1, <1>3, <1>4 DEF ReviewInv, ChoiceScoped, Armed, Filtered, Sent

LEMMA EscapeKeeps == ASSUME ReviewInv, Escape PROVE ReviewInv'
<1>1. QueueInv' /\ Put /\ Sent' /\ UNCHANGED calls
  BY UnchosenKeeps DEF Escape
<1>2. selected' = NoCode /\ chosenFor' = NoGroup
  BY DEF Escape
<1>3. Armed' /\ CallInv'
  BY <1>1, <1>2 DEF ReviewInv, Armed, CallInv, Keys
<1>4. Filtered' /\ Away'
  BY <1>1, PutKeeps, ChoiceParts DEF ReviewInv, Filtered, Away, Escape, Put
<1> QED
  BY <1>1, <1>3, <1>4 DEF ReviewInv, ChoiceScoped, Armed, Filtered, Sent

(* Hiding a side drops the choice; showing one keeps every category that   *)
(* was offered on offer.                                                   *)
LEMMA ToggleSidesKeeps == ASSUME ReviewInv, ToggleSides PROVE ReviewInv'
<1>1. QueueInv' /\ Put /\ Sent' /\ UNCHANGED calls
  BY UnchosenKeeps DEF ToggleSides
<1>2. Armed' /\ CallInv'
  <2>1. CASE showAllSides
    BY <1>1, <2>1 DEF ReviewInv, ToggleSides, Armed, CallInv, Keys
  <2>2. CASE ~showAllSides
    <3>1. UNCHANGED <<selected, chosenFor, turned>> /\ showAllSides'
      BY <2>2 DEF ToggleSides
    <3>2. allLeaves \subseteq allLeaves'
      BY <1>1, <3>1, BothOffersMore DEF Put, allLeaves, offered, side, Offered
    <3> QED
      BY <1>1, <3>1, <3>2, PutKeeps, ChoiceParts DEF ReviewInv, Armed, Put, CallInv, Keys
  <2> QED
    BY <2>1, <2>2
<1>3. Filtered' /\ Away'
  BY <1>1, PutKeeps, ChoiceParts DEF ReviewInv, Filtered, Away, ToggleSides, OnScreen, Put
<1> QED
  BY <1>1, <1>2, <1>3 DEF ReviewInv, ChoiceScoped, Armed, Filtered, Sent

LEMMA LeaveKeeps == ASSUME ReviewInv, Leave PROVE ReviewInv'
<1>1. QueueInv'
  BY DEF ReviewInv, QueueInv, Leave, groupsVars
<1>2. Armed' /\ Filtered' /\ Away' /\ chosenFor' \in Keys
  BY DEF Leave, Armed, Filtered, Away, Keys
<1>3. Sent' /\ calls' \in [Calls -> Call]
  <2>1. \A c \in Calls : calls[c] \in Call /\ (calls[c].st # "none" => calls[c].for = calls[c].key)
    BY ChoiceParts DEF ReviewInv, CallInv, Sent
  <2>2. ASSUME NEW k \in Call
        PROVE  LET gone == [k EXCEPT !.here = FALSE]
               IN gone \in Call /\ gone.st = k.st /\ gone.key = k.key /\ gone.for = k.for
    BY DEF Call
  <2> QED
    BY <2>1, <2>2 DEF Leave, Sent
<1> QED
  BY <1>1, <1>2, <1>3 DEF ReviewInv, ChoiceScoped, Armed, Filtered, Sent, CallInv, Keys

-----------------------------------------------------------------------------
(* A step that leaves the choice alone but for the message over it. *)
LEMMA ErrorKeeps ==
  ASSUME ReviewInv, Put, UNCHANGED <<selected, browsing, showAllSides, chosenFor, turned>>
  PROVE  Armed' /\ Filtered' /\ Away' /\ chosenFor' \in Keys
BY PutKeeps, ChoiceParts DEF ReviewInv, Put, Armed, Filtered, Away, CallInv, Keys

(* What is sent for a group was chosen under that group. *)
LEMMA DecideKeeps ==
  ASSUME ReviewInv, NEW c \in Calls, NEW kind \in Decisions, Decide(c, kind) PROVE ReviewInv'
<1> DEFINE k == [st |-> "sent", key |-> group.key, here |-> TRUE,
                 for |-> IF kind = "classify" THEN chosenFor ELSE group.key]
<1>1. Put /\ UNCHANGED <<selected, browsing, showAllSides, chosenFor, turned>> /\ QueueInv'
  BY DEF Decide, Put, groupsVars, ReviewInv, QueueInv
<1>2. kind = "classify" => chosenFor = group.key
  BY ChoiceParts DEF ReviewInv, Armed, Decide
<1>3. k \in Call /\ k.for = k.key
  BY <1>2, GroupKey DEF Call, Keys
<1>4. calls' = [calls EXCEPT ![c] = k]
  BY DEF Decide
<1>5. Sent' /\ calls' \in [Calls -> Call]
  <2> HIDE DEF k
  <2> QED BY <1>3, <1>4, CallsKeep
<1> QED
  BY <1>1, <1>5, ErrorKeeps DEF ReviewInv, ChoiceScoped, Armed, Filtered, Sent, CallInv, Keys

LEMMA ResolveKeeps == ASSUME ReviewInv, NEW c \in Calls, Resolve(c) PROVE ReviewInv'
<1> DEFINE at == {i \in DOMAIN queue : queue[i].key = calls[c].key}
           st == IF at = {} THEN "refused" ELSE "resolved"
           k  == [calls[c] EXCEPT !.st = st]
<1>1. calls[c] \in Call /\ calls[c].st = "sent" /\ calls[c].for = calls[c].key
  BY ChoiceParts DEF ReviewInv, CallInv, Sent, Resolve
<1>2. k \in Call /\ k.for = k.key
  BY <1>1 DEF Call
<1>3. calls' = [calls EXCEPT ![c] = k]
  BY DEF Resolve
<1>4. Sent' /\ calls' \in [Calls -> Call]
  <2> HIDE DEF k
  <2> QED BY <1>2, <1>3, CallsKeep
<1>5. queue' \in Seq(GroupRows)
  <2>1. queue \in Seq(GroupRows)
    BY DEF ReviewInv, QueueInv
  <2>2. at # {} => (CHOOSE i \in at : TRUE) \in DOMAIN queue
    OBVIOUS
  <2> QED
    BY <2>1, <2>2, RemovedTyped DEF Resolve
<1>6. Still /\ QueueInv'
  BY <1>5 DEF Resolve, Still, ReviewInv, QueueInv, groupsVars
<1> QED
  BY <1>4, <1>6, StillKeeps DEF ReviewInv, ChoiceScoped, Armed, Filtered, Sent, CallInv, Keys

(* The screen that sent the decision starts over at the first group. *)
LEMMA ResolvedKeeps == ASSUME ReviewInv, NEW c \in Calls, Resolved(c) PROVE ReviewInv'
<1>1. QueueInv'
  BY DEF ReviewInv, QueueInv, Resolved, serverVars, Invalidate, Refetch, Asked
<1>2. Sent' /\ calls' \in [Calls -> Call]
  <2> DEFINE others == IF mounted THEN [d \in Calls |-> Onward(calls[d])] ELSE calls
  <2>1. \A d \in Calls : others[d] \in Call /\ (others[d].st # "none" => others[d].for = others[d].key)
    BY ChoiceParts, OnwardTyped DEF ReviewInv, CallInv, Sent
  <2>2. others \in [Calls -> Call]
    BY <2>1 DEF ReviewInv, CallInv
  <2>3. others[c].st # "none"
    BY OnwardTyped DEF Resolved, ReviewInv, CallInv
  <2>4. PICK st \in {"groups", "badge"} : calls' = [others EXCEPT ![c].st = st]
    BY DEF Resolved
  <2>5. PICK k \in Call : k = [others[c] EXCEPT !.st = st]
    BY <2>1 DEF Call
  <2>6. k.for = k.key /\ calls' = [others EXCEPT ![c] = k]
    BY <2>1, <2>3, <2>4, <2>5 DEF Call
  <2> HIDE DEF others
  <2> QED
    BY <2>1, <2>2, <2>6 DEF Sent
<1>3. Armed' /\ Filtered' /\ Away' /\ chosenFor' \in Keys
  <2>1. CASE calls[c].here
    <3>1. /\ selected' = NoCode /\ chosenFor' = NoGroup /\ index' = 0
          /\ UNCHANGED <<groups, mounted>>
      BY <2>1 DEF Resolved
    <3>2. group' = GroupAt(list, 0)
      BY <3>1 DEF group, list, GroupAt
    <3>3. browsing' = NoGroup \/ (browsing' = browsing /\ group'.key = group.key)
      BY <2>1, <3>2 DEF Resolved
    <3>4. Filtered' /\ Away'
      BY <3>1, <3>3, ChoiceParts DEF ReviewInv, Filtered, Away
    <3> QED
      BY <3>1, <3>4 DEF Armed, Keys
  <2>2. CASE ~calls[c].here
    BY <2>2, ErrorKeeps DEF Resolved, Put, choiceVars
  <2> QED
    BY <2>1, <2>2
<1> QED
  BY <1>1, <1>2, <1>3 DEF ReviewInv, ChoiceScoped, Armed, Filtered, Sent, CallInv, Keys

LEMMA NoCallTyped == NoCall \in Call /\ NoCall.st = "none"
BY DEF NoCall, Call, Keys

LEMMA RefusedKeeps == ASSUME ReviewInv, NEW c \in Calls, Refused(c) PROVE ReviewInv'
<1>1. Put /\ UNCHANGED <<selected, browsing, showAllSides, chosenFor, turned>> /\ QueueInv'
  BY DEF Refused, Put, groupsVars, ReviewInv, QueueInv
<1>2. Sent' /\ calls' \in [Calls -> Call]
  BY CallsKeep, NoCallTyped DEF Refused
<1> QED
  BY <1>1, <1>2, ErrorKeeps DEF ReviewInv, ChoiceScoped, Armed, Filtered, Sent, CallInv, Keys

LEMMA RefreshBadgeKeeps == ASSUME ReviewInv, NEW c \in Calls, RefreshBadge(c) PROVE ReviewInv'
<1>1. Still /\ QueueInv'
  BY DEF RefreshBadge, Still, serverVars, groupsVars, ReviewInv, QueueInv
<1>2. Sent' /\ calls' \in [Calls -> Call]
  BY CallsKeep, NoCallTyped DEF RefreshBadge
<1> QED
  BY <1>1, <1>2, StillKeeps DEF ReviewInv, ChoiceScoped, Armed, Filtered, Sent, CallInv, Keys

-----------------------------------------------------------------------------
LEMMA ReviewInvNext == ReviewInv /\ [ReviewNext]_reviewVars => ReviewInv'
<1> SUFFICES ASSUME ReviewInv, [ReviewNext]_reviewVars PROVE ReviewInv'
  OBVIOUS
<1>1. CASE UNCHANGED reviewVars
  BY <1>1, ElsewhereKeeps DEF reviewVars, queueVars, serverVars, groupsVars
<1>2. CASE Others \/ Refocus \/ Leave \/ Return
  BY <1>2, OthersKeeps, RefocusKeeps, LeaveKeeps, ReturnKeeps
<1>3. CASE GroupsServed \/ GroupsArrive \/ GroupsFail
  BY <1>3, GroupsServedKeeps, GroupsArriveKeeps, GroupsFailKeeps
<1>4. CASE BadgeServed \/ BadgeArrive \/ BadgeFail
  BY <1>4, BadgeKeeps
<1>5. CASE Move \/ Browse \/ Escape \/ ToggleSides
  BY <1>5, MoveKeeps, BrowseKeeps, EscapeKeeps, ToggleSidesKeeps
<1>6. CASE \E code \in allLeaves : Choose(code)
  BY <1>6, ChooseKeeps
<1>7. CASE \E c \in Calls : \/ \E kind \in Decisions : Decide(c, kind)
                            \/ Resolve(c) \/ Resolved(c) \/ Refused(c) \/ RefreshBadge(c)
  BY <1>7, DecideKeeps, ResolveKeeps, ResolvedKeeps, RefusedKeeps, RefreshBadgeKeeps
<1> QED
  BY <1>1, <1>2, <1>3, <1>4, <1>5, <1>6, <1>7 DEF ReviewNext

(* Whatever others do to the queue, whenever an answer comes and however   *)
(* the person moves about, Enter never files a group under the category    *)
(* chosen for another one: ReviewScreen.tsx:192-205.                       *)
THEOREM ChoiceKept == ReviewSpec => []ChoiceScoped
<1>1. ReviewInv => ChoiceScoped
  BY DEF ReviewInv
<1> QED
  BY <1>1, ReviewInvInit, ReviewInvNext, PTL DEF ReviewSpec

-----------------------------------------------------------------------------
(* Why the list and the badge settle.  A decision that was made is still   *)
(* to be followed by a refetch of the list while its call is "resolved",   *)
(* and by one of the badge until its call is over.                         *)
ListDue  == \E c \in Calls : calls[c].st = "resolved"
BadgeDue == \E c \in Calls : calls[c].st \in {"resolved", "groups", "badge"}

FirstPage == listReviewGroups(queue)

ListFresh ==
  mounted /\ "groups" \notin unasked /\ ~ListDue =>
    /\ groupsFetch.st = "served" => groupsFetch.got = FirstPage
    /\ groupsFetch.st = "idle" /\ ~groupsError => groups = FirstPage

BadgeFresh ==
  "badge" \notin unasked /\ ~BadgeDue =>
    /\ badgeFetch.st = "served" => badgeFetch.got = Len(queue)
    /\ badgeFetch.st = "idle" /\ ~badgeError => badge = Len(queue)

(* Nothing is decided before there is a list, so no decision joins the     *)
(* first fetch of it.                                                      *)
ListFirst == groups = NoData => \A c \in Calls : calls[c].st = "none"

SettleInv == ReviewInv /\ ListFresh /\ BadgeFresh /\ ListFirst

LEMMA SettleInit == ReviewInit => SettleInv
BY ReviewInvInit DEF ReviewInit, QueueInit, SettleInv, ListFresh, BadgeFresh, ListFirst, NoCall, Asked

(* How many groups there are does not depend on the page asked for. *)
LEMMA SummaryCounts == reviewSummary(queue) = Len(queue)
BY DEF reviewSummary, ListReviewGroups

(* What waits for a refetch is not what the list waits for. *)
LEMMA OnwardDue ==
  ASSUME ReviewInv, calls' = [c \in Calls |-> Onward(calls[c])]
  PROVE  /\ ListDue' <=> ListDue
         /\ BadgeDue' <=> BadgeDue
         /\ (\A c \in Calls : calls[c].st = "none") => \A c \in Calls : calls'[c].st = "none"
<1>1. \A c \in Calls : calls[c] \in Call
  BY DEF ReviewInv, CallInv
<1>2. \A c \in Calls : /\ calls'[c].st = "resolved" <=> calls[c].st = "resolved"
                       /\ calls'[c].st \in {"groups", "badge"} <=> calls[c].st \in {"groups", "badge"}
                       /\ calls'[c].st = "none" <=> calls[c].st = "none"
  BY <1>1 DEF Onward, Call
<1> QED
  BY <1>2 DEF ListDue, BadgeDue

-----------------------------------------------------------------------------
(* Nothing the list or the badge is about. *)
LEMMA SettleQuiet ==
  ASSUME SettleInv, UNCHANGED <<queue, groupsVars, badgeVars, mounted, calls, unasked>>
  PROVE  ListFresh' /\ BadgeFresh' /\ ListFirst'
BY DEF SettleInv, ListFresh, BadgeFresh, ListFirst, ListDue, BadgeDue, FirstPage, groupsVars, badgeVars

LEMMA SettleOthers == ASSUME SettleInv, Others PROVE ListFresh' /\ BadgeFresh' /\ ListFirst'
<1>1. unasked' = {"groups", "badge"} /\ UNCHANGED <<groups, calls>>
  BY DEF Others, Both, groupsVars
<1> QED
  BY <1>1 DEF SettleInv, ListFresh, BadgeFresh, ListFirst

LEMMA SettleGroups ==
  ASSUME SettleInv, GroupsServed \/ GroupsArrive \/ GroupsFail
  PROVE  ListFresh' /\ BadgeFresh' /\ ListFirst'
<1>1. CASE GroupsServed
  <2>1. /\ groupsFetch' = [st |-> "served", got |-> listReviewGroups(queue)]
        /\ UNCHANGED <<queue, groups, badgeVars, calls>> /\ unasked' = unasked \ {"groups"}
    BY <1>1 DEF GroupsServed, serverVars
  <2> QED
    BY <2>1 DEF SettleInv, ListFresh, BadgeFresh, ListFirst, ListDue, BadgeDue, FirstPage,
                listReviewGroups, badgeVars
<1>2. CASE GroupsArrive
  <2>1. /\ groupsFetch.st = "served" /\ groups' = groupsFetch.got /\ groupsFetch' = IdleFetch
        /\ UNCHANGED <<queue, badgeVars, mounted, unasked>>
        /\ calls' = [c \in Calls |-> Onward(calls[c])]
    BY <1>2 DEF GroupsArrive, serverVars
  <2>2. groups' # NoData
    BY <2>1, ReviewConstants DEF SettleInv, ReviewInv, QueueInv
  <2> QED
    BY <2>1, <2>2, OnwardDue DEF SettleInv, ListFresh, BadgeFresh, ListFirst, FirstPage, listReviewGroups,
                                 badgeVars, IdleFetch
<1>3. CASE GroupsFail
  <2>1. /\ groupsError' /\ groupsFetch' = IdleFetch
        /\ UNCHANGED <<queue, groups, badgeVars, mounted, unasked>>
        /\ calls' = [c \in Calls |-> Onward(calls[c])]
    BY <1>3 DEF GroupsFail
  <2> QED
    BY <2>1, OnwardDue DEF SettleInv, ListFresh, BadgeFresh, ListFirst, badgeVars, IdleFetch
<1> QED
  BY <1>1, <1>2, <1>3

LEMMA SettleBadge ==
  ASSUME SettleInv, BadgeServed \/ BadgeArrive \/ BadgeFail
  PROVE  ListFresh' /\ BadgeFresh' /\ ListFirst'
<1>1. UNCHANGED <<queue, groupsVars, mounted, calls>>
  BY DEF BadgeServed, BadgeArrive, BadgeFail, serverVars
<1>2. unasked' \in {unasked, unasked \ {"badge"}}
  BY DEF BadgeServed, BadgeArrive, BadgeFail
<1>3. ListFresh' /\ ListFirst'
  BY <1>1, <1>2 DEF SettleInv, ListFresh, ListFirst, ListDue, FirstPage, groupsVars
<1>4. BadgeFresh'
  <2>1. CASE BadgeServed
    BY <2>1, SummaryCounts DEF BadgeServed, BadgeFresh, serverVars
  <2>2. CASE BadgeArrive \/ BadgeFail
    BY <1>1, <2>2 DEF SettleInv, BadgeArrive, BadgeFail, BadgeFresh, BadgeDue, IdleFetch
  <2> QED
    BY <2>1, <2>2
<1> QED
  BY <1>3, <1>4

LEMMA SettleScreen ==
  ASSUME SettleInv, Refocus \/ Leave \/ Return
  PROVE  ListFresh' /\ BadgeFresh' /\ ListFirst'
<1>1. CASE Refocus
  <2>1. UNCHANGED <<queue, groups, badge, mounted, calls, unasked>>
    BY <1>1 DEF Refocus
  <2>2. /\ badgeFetch' = Refetch(badgeFetch)
        /\ mounted => groupsFetch' = Refetch(groupsFetch)
    BY <1>1 DEF Refocus
  <2> QED
    BY <2>1, <2>2 DEF SettleInv, ListFresh, BadgeFresh, ListFirst, ListDue, BadgeDue, FirstPage,
                      Refetch, Asked
<1>2. CASE Leave
  <2>1. /\ ~mounted' /\ UNCHANGED <<queue, groups, badgeVars, unasked>>
        /\ calls' = [c \in Calls |-> [calls[c] EXCEPT !.here = FALSE]]
    BY <1>2 DEF Leave, groupsVars
  <2>2. \A c \in Calls : calls'[c].st = calls[c].st
    BY <2>1 DEF SettleInv, ReviewInv, CallInv, Call
  <2> QED
    BY <2>1, <2>2 DEF SettleInv, ListFresh, BadgeFresh, ListFirst, BadgeDue, badgeVars
<1>3. CASE Return
  <2>1. /\ UNCHANGED <<queue, groups, badgeVars, calls>> /\ groupsFetch' = Refetch(groupsFetch)
        /\ unasked' = IF groupsFetch.st = "served" THEN unasked \cup {"groups"} ELSE unasked
    BY <1>3 DEF Return, serverVars
  <2> QED
    BY <2>1 DEF SettleInv, ListFresh, BadgeFresh, ListFirst, BadgeDue, badgeVars, Refetch, Asked
<1> QED
  BY <1>1, <1>2, <1>3

LEMMA SettleChoice ==
  ASSUME SettleInv, Move \/ Browse \/ Escape \/ ToggleSides \/ \E code \in allLeaves : Choose(code)
  PROVE  ListFresh' /\ BadgeFresh' /\ ListFirst'
<1>1. UNCHANGED Unchosen
  BY DEF Move, Browse, Escape, ToggleSides, Choose
<1> QED
  BY <1>1, SettleQuiet DEF Unchosen, serverVars

(* A call is made only over a list, and the list is never lost again. *)
LEMMA SettleDecide ==
  ASSUME SettleInv, NEW c \in Calls, NEW kind \in Decisions, Decide(c, kind)
  PROVE  ListFresh' /\ BadgeFresh' /\ ListFirst'
<1>1. groups # NoData
  BY DEF Decide, list
<1>2. /\ UNCHANGED <<queue, groupsVars, badgeVars, mounted, unasked>>
      /\ calls[c].st = "none" /\ calls'[c].st = "sent" /\ \A d \in Calls \ {c} : calls'[d] = calls[d]
  BY DEF Decide, NoCall, SettleInv, ReviewInv, CallInv
<1>3. (ListDue' <=> ListDue) /\ (BadgeDue' <=> BadgeDue)
  BY <1>2 DEF ListDue, BadgeDue
<1> QED
  BY <1>1, <1>2, <1>3 DEF SettleInv, ListFresh, BadgeFresh, ListFirst, FirstPage, groupsVars, badgeVars

LEMMA SettleResolve ==
  ASSUME SettleInv, NEW c \in Calls, Resolve(c) PROVE ListFresh' /\ BadgeFresh' /\ ListFirst'
<1>1. /\ UNCHANGED <<groupsVars, badgeVars, mounted, unasked>> /\ calls[c].st = "sent"
      /\ \A d \in Calls \ {c} : calls'[d] = calls[d]
      /\ (calls'[c].st = "refused" /\ queue' = queue) \/ calls'[c].st = "resolved"
  BY DEF Resolve, SettleInv, ReviewInv, CallInv, Call
<1>2. groups # NoData
  BY <1>1 DEF SettleInv, ListFirst
<1>3. CASE calls'[c].st = "resolved"
  BY <1>1, <1>2, <1>3 DEF ListFresh, BadgeFresh, ListFirst, ListDue, BadgeDue, groupsVars
<1>4. CASE calls'[c].st = "refused" /\ queue' = queue
  <2>1. (ListDue' <=> ListDue) /\ (BadgeDue' <=> BadgeDue)
    BY <1>1, <1>4 DEF ListDue, BadgeDue
  <2> QED
    BY <1>1, <1>2, <1>4, <2>1 DEF SettleInv, ListFresh, BadgeFresh, ListFirst, FirstPage, groupsVars, badgeVars
<1> QED
  BY <1>1, <1>3, <1>4

(* The list is asked for anew: there is one to fall back on. *)
LEMMA SettleResolved ==
  ASSUME SettleInv, NEW c \in Calls, Resolved(c) PROVE ListFresh' /\ BadgeFresh' /\ ListFirst'
<1>1. /\ UNCHANGED <<queue, groups, badgeVars, mounted, unasked>> /\ calls[c].st = "resolved"
      /\ mounted => groupsFetch' = Invalidate(groupsFetch, groups)
  BY DEF Resolved, serverVars
<1>2. groups # NoData
  BY <1>1 DEF SettleInv, ListFirst
<1>3. calls'[c].st \in {"groups", "badge"}
  <2> DEFINE others == IF mounted THEN [d \in Calls |-> Onward(calls[d])] ELSE calls
  <2>1. others \in [Calls -> Call]
    BY OnwardTyped DEF SettleInv, ReviewInv, CallInv
  <2>2. PICK st \in {"groups", "badge"} : calls' = [others EXCEPT ![c].st = st]
    BY DEF Resolved
  <2> HIDE DEF others
  <2> QED
    BY <2>1, <2>2 DEF Call
<1>4. BadgeDue'
  BY <1>3 DEF BadgeDue
<1> QED
  BY <1>1, <1>2, <1>4 DEF ListFresh, BadgeFresh, ListFirst, Invalidate, Asked

LEMMA SettleRefused ==
  ASSUME SettleInv, NEW c \in Calls, Refused(c) PROVE ListFresh' /\ BadgeFresh' /\ ListFirst'
<1>1. /\ UNCHANGED <<queue, groupsVars, badgeVars, mounted>>
      /\ calls[c].st \in {"sent", "resolved", "refused"}
      /\ calls'[c].st = "none" /\ \A d \in Calls \ {c} : calls'[d] = calls[d]
      /\ unasked' = IF calls[c].st = "resolved" THEN {"groups", "badge"} ELSE unasked
  BY DEF Refused, NoCall, Both, SettleInv, ReviewInv, CallInv
<1>2. CASE calls[c].st = "resolved"
  BY <1>1, <1>2 DEF SettleInv, ListFresh, BadgeFresh, ListFirst, groupsVars
<1>3. CASE calls[c].st # "resolved"
  <2>1. (ListDue' <=> ListDue) /\ (BadgeDue' <=> BadgeDue)
    BY <1>1, <1>3 DEF ListDue, BadgeDue
  <2> QED
    BY <1>1, <1>3, <2>1 DEF SettleInv, ListFresh, BadgeFresh, ListFirst, FirstPage, groupsVars, badgeVars
<1> QED
  BY <1>2, <1>3

(* A first fetch of the badge is joined: it is as old as its answer. *)
LEMMA SettleRefreshed ==
  ASSUME SettleInv, NEW c \in Calls, RefreshBadge(c) PROVE ListFresh' /\ BadgeFresh' /\ ListFirst'
<1>1. /\ UNCHANGED <<queue, groupsVars, badge, mounted>>
      /\ calls[c].st = "badge" /\ calls'[c].st = "none" /\ \A d \in Calls \ {c} : calls'[d] = calls[d]
      /\ badgeFetch' = Invalidate(badgeFetch, badge)
      /\ unasked' = IF badge = NoData /\ badgeFetch.st = "served" THEN unasked \cup {"badge"} ELSE unasked
  BY DEF RefreshBadge, NoCall, serverVars, SettleInv, ReviewInv, CallInv
<1>2. ListDue' <=> ListDue
  BY <1>1 DEF ListDue
<1>3. ListFresh' /\ ListFirst'
  BY <1>1, <1>2 DEF SettleInv, ListFresh, ListFirst, FirstPage, groupsVars
<1>4. BadgeFresh'
  BY <1>1 DEF BadgeFresh, Invalidate, Refetch, Asked
<1> QED
  BY <1>3, <1>4

-----------------------------------------------------------------------------
LEMMA SettleNext == SettleInv /\ [ReviewNext]_reviewVars => SettleInv'
<1> SUFFICES ASSUME SettleInv, [ReviewNext]_reviewVars PROVE SettleInv'
  OBVIOUS
<1>1. ReviewInv'
  BY ReviewInvNext DEF SettleInv
<1>2. CASE UNCHANGED reviewVars
  BY <1>1, <1>2, SettleQuiet DEF reviewVars, queueVars, serverVars, SettleInv
<1>3. CASE Others \/ Refocus \/ Leave \/ Return
  BY <1>1, <1>3, SettleOthers, SettleScreen DEF SettleInv
<1>4. CASE GroupsServed \/ GroupsArrive \/ GroupsFail \/ BadgeServed \/ BadgeArrive \/ BadgeFail
  BY <1>1, <1>4, SettleGroups, SettleBadge DEF SettleInv
<1>5. CASE Move \/ Browse \/ Escape \/ ToggleSides \/ \E code \in allLeaves : Choose(code)
  BY <1>1, <1>5, SettleChoice DEF SettleInv
<1>6. CASE \E c \in Calls : \/ \E kind \in Decisions : Decide(c, kind)
                            \/ Resolve(c) \/ Resolved(c) \/ Refused(c) \/ RefreshBadge(c)
  BY <1>1, <1>6, SettleDecide, SettleResolve, SettleResolved, SettleRefused, SettleRefreshed
     DEF SettleInv
<1> QED
  BY <1>2, <1>3, <1>4, <1>5, <1>6 DEF ReviewNext

(* With nothing in flight and nothing missed, the list is the first page   *)
(* of the queue and the badge its size: AppLayout.tsx:66-68.               *)
LEMMA FreshSettles == SettleInv => QueueSettles
<1> SUFFICES ASSUME SettleInv, \A c \in Calls : calls[c].st = "none" PROVE
      /\ mounted /\ groupsFetch.st = "idle" /\ ~groupsError /\ "groups" \notin unasked =>
           list = SubSeq(queue, 1, Len(list)) /\ (Len(list) < Len(queue) => Len(list) = Page(PAGE_SIZE))
      /\ badgeFetch.st = "idle" /\ ~badgeError /\ "badge" \notin unasked => badge = Len(queue)
  BY DEF QueueSettles
<1>1. ~ListDue /\ ~BadgeDue
  BY DEF ListDue, BadgeDue
<1>2. badgeFetch.st = "idle" /\ ~badgeError /\ "badge" \notin unasked => badge = Len(queue)
  BY <1>1 DEF SettleInv, BadgeFresh
<1>3. ASSUME mounted, groupsFetch.st = "idle", ~groupsError, "groups" \notin unasked
      PROVE  list = SubSeq(queue, 1, Len(list)) /\ (Len(list) < Len(queue) => Len(list) = Page(PAGE_SIZE))
  <2> DEFINE n == IF Page(PAGE_SIZE) < Len(queue) THEN Page(PAGE_SIZE) ELSE Len(queue)
  <2>1. queue \in Seq(GroupRows) /\ n \in Nat /\ 1 \in Int /\ \A i \in 1..n : queue[i] \in GroupRows
    BY ReviewConstants DEF SettleInv, ReviewInv, QueueInv, Page
  <2>2. groups = SubSeq(queue, 1, n)
    BY <1>1, <1>3 DEF SettleInv, ListFresh, FirstPage, listReviewGroups, ListReviewGroups
  <2>3. list = SubSeq(queue, 1, n)
    BY <2>1, <2>2, ReviewConstants, PageTyped DEF list, listReviewGroups, ListReviewGroups
  <2>4. Len(SubSeq(queue, 1, n)) = n
    <3> HIDE DEF n
    <3> QED BY <2>1, SubSeqProperties
  <2> QED
    BY <2>1, <2>3, <2>4
<1> QED
  BY <1>2, <1>3

(* The screen and the badge agree with the queue, whoever changes it.      *)
THEOREM QueueKept == ReviewSpec => []QueueSettles
BY SettleInit, SettleNext, FreshSettles, PTL DEF ReviewSpec

(* The flags are flags, and a call has a group's key until it is over.     *)
FlagInv ==
  /\ mounted \in BOOLEAN /\ turned \in BOOLEAN /\ showAllSides \in BOOLEAN
  /\ decideError \in BOOLEAN /\ unasked \subseteq Both
KeyInv == \A c \in Calls : calls[c].key = NoGroup <=> calls[c].st = "none"

LEMMA ScopedFlags ==
  ASSUME FlagInv, NEW l, NEW i, Scoped(l, i)
  PROVE  turned' \in BOOLEAN /\ showAllSides' \in BOOLEAN /\ decideError' \in BOOLEAN
BY DEF FlagInv, Scoped

LEMMA FlagStep ==
  ASSUME ReviewInv, FlagInv, [ReviewNext]_reviewVars
  PROVE  FlagInv'
<1>1. ASSUME UNCHANGED <<mounted, choiceVars>>, unasked' \subseteq Both  PROVE FlagInv'
  BY <1>1 DEF FlagInv, choiceVars
<1>2. ASSUME UNCHANGED reviewVars  PROVE FlagInv'
  BY <1>1, <1>2 DEF reviewVars, queueVars, FlagInv
<1>3. ASSUME Others \/ GroupsServed \/ GroupsFail \/ BadgeServed \/ BadgeArrive \/ BadgeFail \/ Refocus
      PROVE  FlagInv'
  BY <1>1, <1>3 DEF Others, GroupsServed, GroupsFail, BadgeServed, BadgeArrive, BadgeFail, Refocus, FlagInv
<1>4. ASSUME GroupsArrive  PROVE FlagInv'
  <2>1. mounted' = mounted /\ unasked' = unasked
    BY <1>4 DEF GroupsArrive
  <2>2. CASE mounted
    BY <1>4, <2>1, <2>2, ScopedFlags DEF GroupsArrive, FlagInv
  <2>3. CASE ~mounted
    BY <1>1, <1>4, <2>1, <2>3 DEF GroupsArrive, FlagInv
  <2> QED  BY <2>2, <2>3
<1>5. ASSUME Leave \/ Return  PROVE FlagInv'
  BY <1>5 DEF Leave, Return, FlagInv, choiceVars, Both
<1>6. ASSUME Move  PROVE FlagInv'
  BY <1>6, ScopedFlags DEF Move, Unchosen, FlagInv
<1>7. ASSUME Browse \/ Escape \/ ToggleSides \/ \E code \in allLeaves : Choose(code)  PROVE FlagInv'
  BY <1>7 DEF Browse, Escape, ToggleSides, Choose, Unchosen, FlagInv
<1>8. ASSUME NEW c \in Calls, NEW kind \in Decisions, Decide(c, kind)  PROVE FlagInv'
  BY <1>8 DEF Decide, FlagInv
<1>9. ASSUME NEW c \in Calls, Resolve(c) \/ RefreshBadge(c)  PROVE FlagInv'
  BY <1>1, <1>9 DEF Resolve, RefreshBadge, FlagInv, Both
<1>10. ASSUME NEW c \in Calls, Resolved(c)  PROVE FlagInv'
  BY <1>10 DEF Resolved, FlagInv, choiceVars
<1>11. ASSUME NEW c \in Calls, Refused(c)  PROVE FlagInv'
  <2>1. calls[c].here \in BOOLEAN
    BY DEF ReviewInv, CallInv, Call
  <2> QED  BY <1>11, <2>1 DEF Refused, FlagInv
<1> QED
  BY <1>2, <1>3, <1>4, <1>5, <1>6, <1>7, <1>8, <1>9, <1>10, <1>11 DEF ReviewNext

(* A call that goes on keeps its key.                                      *)
LEMMA OnwardKeeps ==
  ASSUME NEW call \in Call
  PROVE  Onward(call) \in Call /\ Onward(call).key = call.key
         /\ (Onward(call).st = "none" <=> call.st = "none")
BY DEF Onward, Call

LEMMA KeyStep ==
  ASSUME ReviewInv, KeyInv, [ReviewNext]_reviewVars
  PROVE  KeyInv'
<1> USE DEF ReviewInv, CallInv
<1>1. ASSUME UNCHANGED calls  PROVE KeyInv'
  BY <1>1 DEF KeyInv
<1>2. ASSUME UNCHANGED reviewVars  PROVE KeyInv'
  BY <1>1, <1>2 DEF reviewVars, queueVars
<1>3. ASSUME \/ Others \/ Refocus \/ Return \/ GroupsServed \/ BadgeServed \/ BadgeArrive \/ BadgeFail
             \/ Move \/ Browse \/ Escape \/ ToggleSides
             \/ \E code \in allLeaves : Choose(code)
      PROVE  KeyInv'
  BY <1>1, <1>3 DEF Others, Refocus, Return, GroupsServed, BadgeServed, BadgeArrive, BadgeFail, Move,
     Browse, Escape, ToggleSides, Choose, Unchosen
<1>4. ASSUME GroupsArrive \/ GroupsFail  PROVE KeyInv'
  <2>1. calls' = [c \in Calls |-> Onward(calls[c])]
    BY <1>4 DEF GroupsArrive, GroupsFail
  <2> QED  BY <2>1, OnwardKeeps DEF KeyInv
<1>5. ASSUME Leave  PROVE KeyInv'
  <2>1. calls' = [c \in Calls |-> [calls[c] EXCEPT !.here = FALSE]]
    BY <1>5 DEF Leave
  <2> QED  BY <2>1 DEF KeyInv, Call
<1>6. ASSUME NEW c \in Calls, NEW kind \in Decisions, Decide(c, kind)  PROVE KeyInv'
  <2>1. group.key \in Groups
    <3>1. list \in Seq(GroupRows) /\ list # <<>> /\ index \in Nat
      BY <1>6, ListTyped DEF Decide, QueueInv
    <3>2. (IF index + 1 <= Len(list) THEN index + 1 ELSE Len(list)) \in 1..Len(list)
      BY <3>1
    <3>3. \A j \in 1..Len(list) : list[j] \in GroupRows
      BY <3>1
    <3> QED  BY <3>1, <3>2, <3>3 DEF group, GroupAt, GroupRows
  <2>2. group.key # NoGroup
    BY <2>1, ReviewConstants
  <2>3. calls'[c].key = group.key /\ calls'[c].st = "sent" /\ \A d \in Calls : d # c => calls'[d] = calls[d]
    BY <1>6 DEF Decide
  <2> QED  BY <2>2, <2>3 DEF KeyInv
<1>7. ASSUME NEW c \in Calls, Resolve(c)  PROVE KeyInv'
  <2>1. \/ calls' = [calls EXCEPT ![c].st = "refused"]
        \/ calls' = [calls EXCEPT ![c].st = "resolved"]
    BY <1>7 DEF Resolve
  <2>2. calls[c] \in Call /\ calls[c].st = "sent"
    BY <1>7 DEF Resolve
  <2>3. /\ calls'[c].key = calls[c].key /\ calls'[c].st # "none"
        /\ \A d \in Calls : d # c => calls'[d] = calls[d]
    BY <2>1, <2>2 DEF Call
  <2> QED  BY <2>2, <2>3 DEF KeyInv
<1>8. ASSUME NEW c \in Calls, Resolved(c)  PROVE KeyInv'
  <2> DEFINE others == IF mounted THEN [d \in Calls |-> Onward(calls[d])] ELSE calls
             to == IF mounted THEN "groups" ELSE "badge"
  <2>1. calls' = [others EXCEPT ![c].st = to] /\ to # "none" /\ calls[c].st = "resolved"
    BY <1>8 DEF Resolved
  <2>2. others \in [Calls -> Call]
        /\ \A d \in Calls : others[d].key = calls[d].key
                              /\ (others[d].st = "none" <=> calls[d].st = "none")
    BY OnwardKeeps
  <2> HIDE DEF others, to
  <2>3. /\ calls'[c].key = others[c].key /\ calls'[c].st = to
        /\ \A d \in Calls : d # c => calls'[d] = others[d]
    BY <2>1, <2>2 DEF Call
  <2> QED  BY <2>1, <2>2, <2>3 DEF KeyInv
<1>9. ASSUME NEW c \in Calls, Refused(c) \/ RefreshBadge(c)  PROVE KeyInv'
  <2>1. calls' = [calls EXCEPT ![c] = NoCall]
    BY <1>9 DEF Refused, RefreshBadge
  <2> QED  BY <2>1 DEF KeyInv, NoCall
<1>10. CASE \E c \in Calls : \/ \E kind \in Decisions : Decide(c, kind)
                             \/ Resolve(c) \/ Resolved(c) \/ Refused(c) \/ RefreshBadge(c)
  BY <1>6, <1>7, <1>8, <1>9, <1>10
<1> QED
  BY <1>2, <1>3, <1>4, <1>5, <1>10 DEF ReviewNext

LEMMA HeldTyped == ReviewInv /\ FlagInv /\ KeyInv => ReviewTypeOK
BY DEF ReviewInv, QueueInv, CallInv, Call, Keys, FlagInv, KeyInv, ReviewTypeOK

LEMMA FlagInit == ReviewInit => FlagInv
BY DEF ReviewInit, QueueInit, FlagInv

LEMMA KeyInit == ReviewInit => KeyInv
<1>1. \A c \in Calls : ReviewInit => calls[c] = NoCall
  BY DEF ReviewInit, QueueInit
<1> QED  BY <1>1 DEF KeyInv, NoCall

(* The screen's state stays of its types, and a call names a group as long *)
(* as it is under way.  ReviewScreen.tsx:192-205, data/review.ts.          *)
THEOREM ReviewTyped == ReviewSpec => []ReviewTypeOK
BY HeldTyped, FlagInit, KeyInit, ReviewInvInit, ReviewInvNext, FlagStep, KeyStep, PTL DEF ReviewSpec

-----------------------------------------------------------------------------
(* The import screens.                                                     *)

Word(f) == STATE_BY_STATUS(wire[f].status)

(* A word read of a file, and the file as it is. *)
Known(w, f) == f \in Listed /\ w \in {"pending", "parsing", "rejected", "imported"} /\ Forward(w, Word(f))

Recorded == [status : LC!Status, kind : SourceKind, report : ValidationReport,
         validated : BOOLEAN, confirmed : BOOLEAN]
WireOK == wire \in [Files -> Recorded]

(* The list on screen, and the one on its way. *)
Listing(l) == \E S \in SUBSET Files : l \in [S -> Told]
ListInv ==
  /\ batches # Absent => Listing(batches) /\ \A f \in DOMAIN batches : Known(batches[f].state, f)
  /\ batchesFetch.st = "served" =>
       LET got == batchesFetch.got IN
       /\ Listing(got) /\ \A f \in DOMAIN got : Known(got[f].state, f)
       /\ batches # Absent => \A f \in DOMAIN batches :
                                f \in DOMAIN got /\ Forward(batches[f].state, got[f].state)

(* The open batch, and its parts on their way. *)
DetailParts == [st : {"idle", "batch", "rest"}, left : SUBSET {"report", "summary"},
          batch : ImportBatch \cup {Absent}, report : ValidationReport \cup {Absent},
          summary : DedupSummary \cup {Absent}]
Read == STATE_BY_STATUS(detailFetch.batch.status)
DetailInv ==
  /\ opened \in Listed \cup {NoFile} /\ detailFetch \in DetailParts
  /\ detailFetch.st # "idle" \/ detail # Absent => opened \in Listed
  /\ detail # Absent => Known(detail.batch.state, opened)
  /\ detailFetch.st = "rest" =>
       /\ detailFetch.batch \in ImportBatch /\ Known(Read, opened)
       /\ detail # Absent => Forward(detail.batch.state, Read)

(* A file being reserved is on no wire yet. *)
UploadInv ==
  /\ sourceKind \in SourceKind \cup {"none"}
  /\ uploads \in [Files -> [st : {"none", "reserve", "put", "confirm", "readback", "done", "failed"},
                           kind : SourceKind]]
  /\ \A f \in Files : uploads[f].st = "reserve" => wire[f].status = "absent"

ImportsInv == WireOK /\ ListInv /\ DetailInv /\ UploadInv

-----------------------------------------------------------------------------
(* The words are ordered. *)
LEMMA ForwardOrder ==
  ASSUME NEW v, NEW w, NEW x, Forward(v, w), Forward(w, x)
  PROVE  Forward(v, x) /\ Forward(v, v)
BY DEF Forward

(* state.go's table and its chains never take a word back.  core/internal/ *)
(* ingest/state.go:30-48 against web/src/data/imports.ts:46-59.            *)
LEMMA MovesForward ==
  ASSUME NEW s \in LC!Status \ {"absent"}, NEW t \in Committed, LC!LegalMove(s, t)
  PROVE  /\ t \in LC!Status \ {"absent"}
         /\ Forward(STATE_BY_STATUS(s), STATE_BY_STATUS(t))
<1>1. CASE LC!CheckTransition(s, t)
  BY <1>1 DEF LC!CheckTransition, LC!transitions, LC!Status, Committed, STATE_BY_STATUS, Forward
<1>2. CASE \E c \in LC!Chains : s = Head(c) /\ t = c[Len(c)]
  <2>1. PICK c \in LC!Chains : s = Head(c) /\ t = c[Len(c)]
    BY <1>2
  <2>2. CASE c = <<"uploaded", "parsing", "parsed", "validating", "validated">>
    <3>1. s = "uploaded" /\ t = "validated"  BY <2>1, <2>2
    <3> QED  BY <3>1 DEF LC!Status, STATE_BY_STATUS, Forward
  <2>3. CASE c = <<"uploaded", "parsing", "parsed", "validating", "rejected">>
    <3>1. s = "uploaded" /\ t = "rejected"  BY <2>1, <2>3
    <3> QED  BY <3>1 DEF LC!Status, STATE_BY_STATUS, Forward
  <2>4. CASE c = <<"validated", "persisting", "imported">>
    <3>1. s = "validated" /\ t = "imported"  BY <2>1, <2>4
    <3> QED  BY <3>1 DEF LC!Status, STATE_BY_STATUS, Forward
  <2> QED  BY <2>1, <2>2, <2>3, <2>4 DEF LC!Chains
<1> QED  BY <1>1, <1>2 DEF LC!LegalMove

(* A status has a word, and a batch read is told as one. *)
LEMMA WordsOf ==
  ASSUME NEW b \in [status : LC!Status \ {"absent"}, kind : SourceKind]
  PROVE  /\ b \in ImportBatch /\ batchFromProto(b) \in Told
         /\ batchFromProto(b).state = STATE_BY_STATUS(b.status)
         /\ STATE_BY_STATUS(b.status) \in {"pending", "parsing", "rejected", "imported"}
BY DEF LC!Status, ImportBatch, ImportStatus, batchFromProto, Told, STATE_BY_STATUS

(* No step takes a file off the wire or its word back. *)
Ahead == \A f \in Listed : f \in Listed' /\ Forward(Word(f), Word(f)')

LEMMA WireStep ==
  ASSUME ImportsInv, [ImportsNext]_importVars
  PROVE  WireOK' /\ Ahead
<1> USE DEF ImportsInv, WireOK
<1>1. ASSUME UNCHANGED wire  PROVE WireOK' /\ Ahead
  BY <1>1, ForwardOrder DEF Ahead, Listed, Word, Forward
<1>2. ASSUME NEW f \in Files, NEW to \in Committed, BatchMoves(f, to)
      PROVE  WireOK' /\ Ahead
  <2>1. wire[f].status \in LC!Status \ {"absent"} /\ LC!LegalMove(wire[f].status, to)
    BY <1>2 DEF BatchMoves, Recorded
  <2>2. /\ to \in LC!Status \ {"absent"}
        /\ Forward(STATE_BY_STATUS(wire[f].status), STATE_BY_STATUS(to))
    BY <2>1, MovesForward
  <2>3. PICK r \in ValidationReport :
          wire' = [wire EXCEPT ![f].status = to, ![f].report = r,
                               ![f].validated = @ \/ to = "validated"]
    BY <1>2 DEF BatchMoves, ValidationReport, Recorded
  <2>4. wire[f] \in Recorded
    OBVIOUS
  <2>5. [wire[f] EXCEPT !.status = to, !.report = r, !.validated = @ \/ to = "validated"] \in Recorded
    BY <2>2, <2>4 DEF Recorded
  <2>6. WireOK'
    BY <2>3, <2>5
  <2>7. /\ wire'[f].status = to
        /\ \A g \in Files : g # f => wire'[g] = wire[g]
    BY <2>3, <2>4 DEF Recorded
  <2> QED  BY <2>2, <2>6, <2>7 DEF Ahead, Listed, Word, Forward
<1>3. ASSUME NEW f \in Files, SentElsewhere(f)  PROVE WireOK' /\ Ahead
  <2>1. /\ wire' = [wire EXCEPT ![f].status = "uploaded", ![f].confirmed = TRUE]
        /\ wire[f].status = "absent" /\ wire[f] \in Recorded
    BY <1>3 DEF SentElsewhere
  <2>2. [wire[f] EXCEPT !.status = "uploaded", !.confirmed = TRUE] \in Recorded
    BY <2>1 DEF Recorded, LC!Status
  <2>3. WireOK'
    BY <2>1, <2>2
  <2>4. \A g \in Files : g # f => wire'[g] = wire[g]
    BY <2>1
  <2> QED  BY <2>1, <2>3, <2>4, ForwardOrder DEF Ahead, Listed, Word, Forward
<1>4. ASSUME NEW f \in Files, CreateImportBatch(f)  PROVE WireOK' /\ Ahead
  <2>1. /\ wire' = [wire EXCEPT ![f].status = "awaiting_upload", ![f].kind = uploads[f].kind]
        /\ uploads[f].kind \in SourceKind /\ wire[f].status = "absent" /\ wire[f] \in Recorded
    BY <1>4 DEF CreateImportBatch, UploadInv
  <2>2. [wire[f] EXCEPT !.status = "awaiting_upload", !.kind = uploads[f].kind] \in Recorded
    BY <2>1 DEF Recorded, LC!Status
  <2>3. WireOK'
    BY <2>1, <2>2
  <2>4. \A g \in Files : g # f => wire'[g] = wire[g]
    BY <2>1
  <2> QED  BY <2>1, <2>3, <2>4, ForwardOrder DEF Ahead, Listed, Word, Forward
<1>5. ASSUME NEW f \in Files, ConfirmImportUpload(f)  PROVE WireOK' /\ Ahead
  BY <1>5 DEF ConfirmImportUpload, Ahead, Listed, Word, Forward, Recorded
<1>6. CASE UNCHANGED importVars
  BY <1>1, <1>6 DEF importVars
<1>7. CASE ImportsNext
  BY <1>1, <1>2, <1>3, <1>4, <1>5, <1>7
     DEF ImportsNext, BatchesServed, BatchesArrive, BatchesFail, BatchesAgain, DetailBatchRead,
         DetailReportRead, DetailSummaryRead, DetailArrive, DetailPartFails, DetailFail,
         DetailAgain, RowsArrive, ChooseSource, Open, Pick, PutUpload, Uploaded, UploadFails
<1> QED  BY <1>6, <1>7

-----------------------------------------------------------------------------
(* What was seen stays behind. *)
LEMMA SeenKept ==
  ASSUME Ahead, NEW w, NEW f, Known(w, f)
  PROVE  Known(w, f)'
BY ForwardOrder DEF Ahead, Known

(* The server's list, told. *)
LEMMA ListServed ==
  ASSUME WireOK, NEW got, got = [f \in Listed |-> batchFromProto(BatchOf(wire[f]))]
  PROVE  /\ DOMAIN got = Listed /\ Listing(got)
         /\ \A f \in Listed : Known(got[f].state, f) /\ got[f].state = Word(f)
<1>1. \A f \in Listed : /\ BatchOf(wire[f]) \in [status : LC!Status \ {"absent"}, kind : SourceKind]
                        /\ BatchOf(wire[f]).status = wire[f].status
  BY DEF WireOK, Recorded, BatchOf, Listed
<1>2. \A f \in Listed : /\ batchFromProto(BatchOf(wire[f])) \in Told
                        /\ batchFromProto(BatchOf(wire[f])).state = Word(f)
                        /\ Word(f) \in {"pending", "parsing", "rejected", "imported"}
  BY <1>1, WordsOf DEF Word
<1>3. got \in [Listed -> Told] /\ Listed \in SUBSET Files
  BY <1>2 DEF Listed
<1> QED  BY <1>2, <1>3, ForwardOrder DEF Listing, Known, Forward

LEMMA ListStep ==
  ASSUME ImportsInv, WireOK', Ahead, [ImportsNext]_importVars
  PROVE  ListInv' /\ \A f \in Files : Forward(Chip(f), Chip(f)')
<1> DEFINE Same == /\ batches' = batches
                   /\ batchesFetch' = batchesFetch \/ batchesFetch'.st # "served"
<1>1. ASSUME Same  PROVE ListInv' /\ \A f \in Files : Forward(Chip(f), Chip(f)')
  <2>1. ListInv'
    BY <1>1, SeenKept DEF ImportsInv, ListInv, Listing
  <2> QED  BY <1>1, <2>1 DEF Chip, Forward
<1>2. ASSUME BatchesServed  PROVE ListInv' /\ \A f \in Files : Forward(Chip(f), Chip(f)')
  <2> DEFINE got == [f \in Listed |-> batchFromProto(BatchOf(wire[f]))]
  <2>1. batches' = batches /\ wire' = wire /\ batchesFetch' = [st |-> "served", got |-> got]
    BY <1>2 DEF BatchesServed
  <2>2. /\ DOMAIN got = Listed /\ Listing(got)
        /\ \A f \in Listed : Known(got[f].state, f) /\ got[f].state = Word(f)
    BY ListServed DEF ImportsInv
  <2> HIDE DEF got
  <2>3. batches # Absent => \A f \in DOMAIN batches :
          f \in DOMAIN got /\ Forward(batches[f].state, got[f].state)
    BY <2>2 DEF ImportsInv, ListInv, Known
  <2>4. ListInv'
    BY <2>1, <2>2, <2>3, SeenKept DEF ImportsInv, ListInv, Listing
  <2> QED  BY <2>1, <2>4 DEF Chip, Forward
<1>3. ASSUME BatchesArrive  PROVE ListInv' /\ \A f \in Files : Forward(Chip(f), Chip(f)')
  <2> DEFINE got == batchesFetch.got
  <2>1. batches' = got /\ batchesFetch'.st = "idle"
    BY <1>3 DEF BatchesArrive
  <2>2. /\ Listing(got) /\ \A f \in DOMAIN got : Known(got[f].state, f)
        /\ batches # Absent => \A f \in DOMAIN batches :
                                 f \in DOMAIN got /\ Forward(batches[f].state, got[f].state)
    BY <1>3 DEF BatchesArrive, ImportsInv, ListInv
  <2>3. got # Absent
    BY <2>2, AbsentIsNothing DEF Listing
  <2> HIDE DEF got
  <2>4. ListInv'
    BY <2>1, <2>2, SeenKept DEF ListInv, Listing
  <2>5. ASSUME NEW f \in Files  PROVE Forward(Chip(f), Chip(f)')
    <3>1. CASE batches # Absent /\ f \in DOMAIN batches
      <4>1. Chip(f) = batches[f].state /\ Chip(f)' = got[f].state
        BY <2>1, <2>2, <2>3, <3>1 DEF Chip
      <4> QED  BY <2>2, <3>1, <4>1
    <3>2. CASE ~(batches # Absent /\ f \in DOMAIN batches)
      BY <3>2 DEF Chip, Forward
    <3> QED  BY <3>1, <3>2
  <2> QED  BY <2>4, <2>5
<1>4. CASE UNCHANGED importVars
  BY <1>1, <1>4 DEF importVars, listVars
<1>5. ASSUME NEW f \in Files, NEW to \in Committed,
             BatchMoves(f, to) \/ SentElsewhere(f) \/ Open(f) \/ Pick(f) \/ CreateImportBatch(f)
               \/ PutUpload(f) \/ ConfirmImportUpload(f) \/ UploadFails(f)
      PROVE Same
  BY <1>5 DEF listVars, BatchMoves, SentElsewhere, Open, Pick, CreateImportBatch, PutUpload,
              ConfirmImportUpload, UploadFails
<1>6. ASSUME NEW f \in Files, Uploaded(f)  PROVE Same
  BY <1>6 DEF Uploaded
<1>7. ASSUME BatchesFail \/ BatchesAgain  PROVE Same
  BY <1>7 DEF BatchesFail, BatchesAgain
<1>8. ASSUME \/ DetailBatchRead \/ DetailReportRead \/ DetailSummaryRead \/ DetailArrive
             \/ DetailPartFails \/ DetailFail \/ DetailAgain \/ RowsArrive
             \/ \E k \in SourceKind : ChooseSource(k)
      PROVE Same
  BY <1>8 DEF listVars, DetailBatchRead, DetailReportRead, DetailSummaryRead, DetailArrive,
              DetailPartFails, DetailFail, DetailAgain, RowsArrive, ChooseSource
<1> HIDE DEF Same
<1>9. CASE ImportsNext
  <2>1. Committed # {}  BY DEF Committed
  <2> QED  BY <1>1, <1>2, <1>3, <1>5, <1>6, <1>7, <1>8, <1>9, <2>1 DEF ImportsNext
<1> QED  BY <1>4, <1>9

LEMMA UploadStep ==
  ASSUME ImportsInv, WireOK', [ImportsNext]_importVars
  PROVE  UploadInv'
<1> USE DEF ImportsInv, UploadInv
<1>1. ASSUME NEW f \in Files, NEW to \in Committed, BatchMoves(f, to)  PROVE UploadInv'
  BY <1>1 DEF BatchMoves, uploadVars, WireOK, Recorded
<1>2. ASSUME NEW f \in Files, SentElsewhere(f)  PROVE UploadInv'
  BY <1>2 DEF SentElsewhere, uploadVars, WireOK, Recorded
<1>3. ASSUME NEW f \in Files, CreateImportBatch(f)  PROVE UploadInv'
  BY <1>3 DEF CreateImportBatch, WireOK, Recorded
<1>4. ASSUME NEW f \in Files, ConfirmImportUpload(f)  PROVE UploadInv'
  BY <1>4 DEF ConfirmImportUpload, WireOK, Recorded
<1>5. ASSUME NEW f \in Files, Pick(f)  PROVE UploadInv'
  BY <1>5 DEF Pick, WireOK, Recorded
<1>6. ASSUME NEW f \in Files, PutUpload(f) \/ Uploaded(f) \/ UploadFails(f)  PROVE UploadInv'
  <2>1. PICK st \in {"confirm", "done", "failed"} : uploads' = [uploads EXCEPT ![f].st = st]
    BY <1>6 DEF PutUpload, Uploaded, UploadFails
  <2>2. wire' = wire /\ sourceKind' \in {sourceKind, "none"}
    BY <1>6 DEF PutUpload, Uploaded, UploadFails
  <2> QED  BY <2>1, <2>2
<1>7. ASSUME NEW k \in SourceKind, ChooseSource(k)  PROVE UploadInv'
  BY <1>7 DEF ChooseSource
<1>8. CASE UNCHANGED importVars
  BY <1>8 DEF importVars, uploadVars
<1>9. ASSUME UNCHANGED <<wire, uploadVars>>  PROVE UploadInv'
  BY <1>9 DEF uploadVars
<1>10. CASE ImportsNext
  BY <1>1, <1>2, <1>3, <1>4, <1>5, <1>6, <1>7, <1>9, <1>10
     DEF ImportsNext, BatchesServed, BatchesArrive, BatchesFail, BatchesAgain, DetailBatchRead,
         DetailReportRead, DetailSummaryRead, DetailArrive, DetailPartFails, DetailFail,
         DetailAgain, RowsArrive, Open
<1> QED  BY <1>8, <1>10

LEMMA DetailStep ==
  ASSUME ImportsInv, WireOK', Ahead, [ImportsNext]_importVars
  PROVE  DetailInv' /\ Forward(DetailChip, DetailChip')
<1> DEFINE Goal == DetailInv' /\ Forward(DetailChip, DetailChip')
<1> SUFFICES Goal
  OBVIOUS
<1> USE DEF ImportsInv
<1>1. ASSUME UNCHANGED <<opened, detail>>, detailFetch' \in DetailParts,
             detailFetch'.st = "rest" =>
               detailFetch.st = "rest" /\ detailFetch'.batch = detailFetch.batch,
             detailFetch'.st # "idle" => opened \in Listed
      PROVE  Goal
  <2>1. Listed \subseteq Listed'
    BY DEF Ahead
  <2>2. detail' # Absent => Known(detail.batch.state, opened)'
    BY <1>1, SeenKept DEF DetailInv
  <2>3. ASSUME detailFetch'.st = "rest"
        PROVE  /\ detailFetch'.batch \in ImportBatch /\ Known(Read, opened)'
               /\ detail' # Absent => Forward(detail'.batch.state, Read')
    <3>1. detailFetch.st = "rest" /\ Read' = Read
      BY <1>1, <2>3 DEF Read
    <3>2. detailFetch.batch \in ImportBatch /\ Known(Read, opened)
          /\ (detail # Absent => Forward(detail.batch.state, Read))
      BY <3>1 DEF DetailInv
    <3>3. Known(Read, opened)'
      BY <3>1, <3>2, <1>1, SeenKept
    <3> QED  BY <1>1, <2>3, <3>1, <3>2, <3>3
  <2>4. DetailInv'
    BY <1>1, <2>1, <2>2, <2>3 DEF DetailInv
  <2> QED  BY <1>1, <2>4 DEF DetailChip, Forward
<1>2. ASSUME UNCHANGED <<opened, detail, detailFetch>>  PROVE Goal
  BY <1>1, <1>2 DEF DetailInv
<1>3. ASSUME NEW f \in Files, Open(f)  PROVE Goal
  <2>1. /\ opened = NoFile /\ opened' = f /\ detail' = detail /\ detailFetch' = DetailStart
        /\ batches # Absent /\ f \in DOMAIN batches
    BY <1>3 DEF Open
  <2>2. detail = Absent
    BY <2>1, ImportConstants DEF DetailInv, Listed
  <2>3. f \in Listed'
    BY <2>1 DEF ListInv, Known, Ahead
  <2>4. DetailStart \in DetailParts /\ DetailStart.st = "batch"
    BY DEF DetailStart, DetailIdle, DetailParts
  <2> QED  BY <2>1, <2>2, <2>3, <2>4 DEF DetailInv, DetailChip, Forward
<1>4. ASSUME DetailBatchRead  PROVE Goal
  <2> DEFINE b == BatchOf(wire[opened])
  <2>1. /\ UNCHANGED <<wire, opened, detail>> /\ detailFetch.st = "batch"
        /\ detailFetch' = [detailFetch EXCEPT !.st = "rest", !.batch = b]
    BY <1>4 DEF DetailBatchRead
  <2>2. opened \in Listed
    BY <2>1 DEF DetailInv
  <2>3. /\ b \in [status : LC!Status \ {"absent"}, kind : SourceKind]
        /\ b.status = wire[opened].status
    BY <2>2 DEF WireOK, Recorded, BatchOf, Listed
  <2>4. b \in ImportBatch /\ Known(STATE_BY_STATUS(b.status), opened) /\ STATE_BY_STATUS(b.status) = Word(opened)
    BY <2>2, <2>3, WordsOf, ForwardOrder DEF Word, Known, Forward
  <2> HIDE DEF b
  <2>5. detailFetch' \in DetailParts /\ detailFetch'.st = "rest" /\ detailFetch'.batch = b
    BY <2>1, <2>4 DEF DetailInv, DetailParts
  <2>6. Read' = STATE_BY_STATUS(b.status)
    BY <2>5 DEF Read
  <2>7. DetailInv'
    BY <2>1, <2>2, <2>4, <2>5, <2>6, SeenKept DEF DetailInv, Known, Ahead
  <2> QED  BY <2>1, <2>7 DEF DetailChip, Forward
<1>5. ASSUME DetailArrive  PROVE Goal
  <2>1. /\ UNCHANGED <<wire, opened>> /\ detailFetch.st = "rest" /\ detailFetch' = DetailIdle
        /\ detail' = BatchDetail(detailFetch.batch, detailFetch.report, detailFetch.summary)
    BY <1>5 DEF DetailArrive
  <2>2. /\ detailFetch.batch \in ImportBatch /\ Known(Read, opened) /\ opened \in Listed
        /\ detail # Absent => Forward(detail.batch.state, Read)
    BY <2>1 DEF DetailInv
  <2>3. detail'.batch.state = Read
    BY <2>1 DEF BatchDetail, batchFromProto, Read
  <2>4. detail' # Absent
    <3> DEFINE report == detailFetch.report
               summary == detailFetch.summary
    <3>1. report \in ValidationReport \cup {Absent} /\ summary \in DedupSummary \cup {Absent}
      BY DEF DetailInv, DetailParts
    <3>2. batchFromProto(detailFetch.batch) \in Told
      BY <2>2 DEF batchFromProto, Told, ImportBatch, Known, Read
    <3>3. (IF report = Absent THEN 0 ELSE report.errors) \in {0, ErrorsOf}
      BY <3>1 DEF ValidationReport
    <3>4. (IF summary = Absent THEN Absent ELSE summary.importedRows) \in {0, RowsOf, Absent}
      BY <3>1 DEF DedupSummary
    <3>5. balanceCheckFromProto(Mismatch) = [closing |-> 3, declared |-> 4]
      BY DEF balanceCheckFromProto, Mismatch
    <3> HIDE DEF report, summary
    <3>6. BatchDetail(detailFetch.batch, report, summary) \in
            [batch : Told, errors : {0, ErrorsOf}, reported : BOOLEAN,
             counts : {0, RowsOf, Absent}, balance : {[closing |-> 3, declared |-> 4], Absent}]
      BY <3>2, <3>3, <3>4, <3>5 DEF BatchDetail
    <3> QED  BY <2>1, <3>6, AbsentIsNothing DEF report, summary
  <2>5. DetailIdle \in DetailParts /\ DetailIdle.st = "idle"
    BY DEF DetailIdle, DetailParts
  <2>6. DetailInv'
    BY <2>1, <2>2, <2>3, <2>5, SeenKept DEF DetailInv, Ahead
  <2> QED  BY <2>2, <2>3, <2>4, <2>6 DEF DetailChip, Forward
<1>6. ASSUME DetailReportRead \/ DetailSummaryRead \/ DetailPartFails  PROVE Goal
  <2>1. UNCHANGED <<opened, detail>> /\ detailFetch.st = "rest"
    BY <1>6 DEF DetailReportRead, DetailSummaryRead, DetailPartFails
  <2>2. \A f \in Files : SummaryOf(wire[f]) \in DedupSummary /\ ReportOf(wire[f]) \in ValidationReport \cup {Absent}
    BY DEF WireOK, Recorded, SummaryOf, DedupSummary, ReportOf
  <2>3. /\ detailFetch' \in DetailParts /\ detailFetch'.st = "rest"
        /\ detailFetch'.batch = detailFetch.batch
    <3>1. detailFetch \in DetailParts /\ opened \in Files
      BY <2>1 DEF DetailInv, Listed
    <3>2. CASE DetailReportRead
      <4>1. PICK r \in ValidationReport \cup {Absent} :
              detailFetch' = [detailFetch EXCEPT !.left = @ \ {"report"}, !.report = r]
        BY <2>2, <3>1, <3>2 DEF DetailReportRead
      <4> QED  BY <2>1, <3>1, <4>1 DEF DetailParts
    <3>3. CASE DetailSummaryRead
      <4>1. PICK r \in DedupSummary \cup {Absent} :
              detailFetch' = [detailFetch EXCEPT !.left = @ \ {"summary"}, !.summary = r]
        BY <2>2, <3>1, <3>3 DEF DetailSummaryRead
      <4> QED  BY <2>1, <3>1, <4>1 DEF DetailParts
    <3>4. CASE DetailPartFails
      <4>1. PICK part : detailFetch' = [detailFetch EXCEPT !.left = @ \ {part}]
        BY <3>4 DEF DetailPartFails
      <4> QED  BY <2>1, <3>1, <4>1 DEF DetailParts
    <3> QED  BY <1>6, <3>2, <3>3, <3>4
  <2> QED  BY <1>1, <2>1, <2>3 DEF DetailInv
<1>7. ASSUME DetailFail \/ DetailAgain  PROVE Goal
  <2>1. /\ DetailStart \in DetailParts /\ DetailStart.st = "batch"
        /\ DetailIdle \in DetailParts /\ DetailIdle.st = "idle"
    BY DEF DetailStart, DetailIdle, DetailParts
  <2>2. CASE DetailFail
    BY <1>1, <2>1, <2>2 DEF DetailFail
  <2>3. CASE DetailAgain
    BY <1>1, <2>1, <2>3 DEF DetailAgain, DetailInv
  <2> QED  BY <1>7, <2>2, <2>3
<1> HIDE DEF Goal
<1>8. ASSUME \/ BatchesServed \/ BatchesArrive \/ BatchesFail \/ BatchesAgain \/ RowsArrive
             \/ \E k \in SourceKind : ChooseSource(k)
      PROVE Goal
  BY <1>2, <1>8 DEF detailVars, BatchesServed, BatchesArrive, BatchesFail, BatchesAgain, RowsArrive,
              ChooseSource
<1>9. ASSUME NEW f \in Files,
             \/ \E to \in Committed : BatchMoves(f, to)
             \/ SentElsewhere(f) \/ Pick(f) \/ CreateImportBatch(f)
             \/ PutUpload(f) \/ ConfirmImportUpload(f) \/ Uploaded(f) \/ UploadFails(f)
      PROVE Goal
  BY <1>2, <1>9 DEF detailVars, BatchMoves, SentElsewhere, Pick, CreateImportBatch, PutUpload,
              ConfirmImportUpload, Uploaded, UploadFails
<1>10. CASE UNCHANGED importVars
  BY <1>2, <1>10 DEF importVars, detailVars
<1>11. CASE \E f \in Files :
              \/ \E to \in Committed : BatchMoves(f, to)
              \/ SentElsewhere(f) \/ Open(f) \/ Pick(f)
              \/ CreateImportBatch(f) \/ PutUpload(f) \/ ConfirmImportUpload(f)
              \/ Uploaded(f) \/ UploadFails(f)
  <2>1. PICK f \in Files :
              \/ \E to \in Committed : BatchMoves(f, to)
              \/ SentElsewhere(f) \/ Open(f) \/ Pick(f)
              \/ CreateImportBatch(f) \/ PutUpload(f) \/ ConfirmImportUpload(f)
              \/ Uploaded(f) \/ UploadFails(f)
    BY <1>11
  <2> QED  BY <1>3, <1>9, <2>1
<1>12. CASE ImportsNext
  BY <1>4, <1>5, <1>6, <1>7, <1>8, <1>11, <1>12 DEF ImportsNext
<1> QED  BY <1>10, <1>12

-----------------------------------------------------------------------------
LEMMA ImportsInvInit ==
  ASSUME ImportsInit
  PROVE  ImportsInv
<1>1. WireOK
  BY DEF ImportsInit, WireOK, Recorded, LC!Status, SourceKind, Unreported, ValidationReport
<1>2. ListInv
  BY DEF ImportsInit, ListInv
<1>3. DetailInv
  BY DEF ImportsInit, DetailInv, DetailParts, DetailIdle
<1>4. UploadInv
  BY DEF ImportsInit, UploadInv, NoUpload, SourceKind
<1> QED  BY <1>1, <1>2, <1>3, <1>4 DEF ImportsInv

LEMMA ImportsInvStep ==
  ASSUME ImportsInv, [ImportsNext]_importVars
  PROVE  /\ ImportsInv'
         /\ \A f \in Files : Forward(Chip(f), Chip(f)')
         /\ Forward(DetailChip, DetailChip')
BY WireStep, ListStep, UploadStep, DetailStep DEF ImportsInv

(* Shown, carried and current stay in order: what a screen tells, what a   *)
(* fetch carries and what the server has.  web/src/data/imports.ts:132-179 *)
(* over core/internal/ingest/state.go.                                     *)
THEOREM ImportsInOrder == ImportsSpec => []ImportsInv
<1>1. ImportsInit => ImportsInv  BY ImportsInvInit
<1>2. ImportsInv /\ [ImportsNext]_importVars => ImportsInv'  BY ImportsInvStep
<1> QED  BY <1>1, <1>2, PTL DEF ImportsSpec

(* What a person is told of a file only moves forward, in the list and on  *)
(* its own screen, for every set of files and any number of refetches,     *)
(* failures and uploads.  web/src/data/imports.ts:18-24 and 46-59.         *)
THEOREM ImportsForward == ImportsSpec => ChipsForward
<1>1. ImportsInv /\ [ImportsNext]_importVars =>
        [/\ \A f \in Files : Forward(Chip(f), Chip(f)')
         /\ Forward(DetailChip, DetailChip')]_importVars
  BY ImportsInvStep
<1> QED  BY <1>1, ImportsInOrder, PTL DEF ImportsSpec, ChipsForward

-----------------------------------------------------------------------------
(* The parts of an open batch agree.                                       *)
(*                                                                         *)
(* The rounds of a fetch are read at different moments, but a status that  *)
(* says how a file ended stays; so a report or a summary read after it was *)
(* read under it.  The list is what was served, but for the files others   *)
(* have moved since and those still being sent.                            *)

Ended == {"imported", "rejected", "abandoned"}

(* What the server keeps beside a batch is what its status says. *)
WireTells ==
  \A f \in Files :
    /\ wire[f].status \in Committed \cup {"absent", "awaiting_upload"}
    /\ wire[f].report.errors = IF wire[f].status = "rejected" THEN ErrorsOf ELSE 0
    /\ wire[f].validated => wire[f].status \in {"validated", "imported", "failed"}

(* What a fetch carries belongs to the status it read first. *)
FetchTells ==
  /\ detailFetch.st = "batch" => detailFetch = DetailStart
  /\ detailFetch.st = "rest" =>
       LET read == detailFetch.batch.status IN
       /\ read # "absent"
       /\ read \in Ended => wire[opened].status = read
       /\ read = "imported" =>
            /\ detailFetch.summary # Absent => detailFetch.summary.importedRows = RowsOf
            /\ detailFetch.report # Absent => detailFetch.report.errors = 0
       /\ read = "rejected" /\ detailFetch.report # Absent => detailFetch.report.errors = ErrorsOf
       /\ read = "abandoned" => detailFetch.report = Absent

ScreenTells ==
  detail # Absent =>
    /\ detail.batch.state = "imported" => detail.counts \in {Absent, RowsOf} /\ detail.errors = 0
    /\ detail.batch.state = "rejected" /\ detail.reported /\ ~detail.batch.reasoned =>
         detail.errors = ErrorsOf
    /\ detail.batch.reasoned => detail.batch.state = "rejected"
    /\ detail.balance \in {[closing |-> 3, declared |-> 4], Absent}

(* A list has a file as the server does. *)
Fresh(l, f) ==
  /\ f \in DOMAIN l <=> f \in Listed
  /\ f \in Listed => l[f] = batchFromProto(BatchOf(wire[f]))
Unmoved == {f \in Files \ unlisted : uploads[f].st \in {"none", "done"}}

ListTells ==
  /\ batchesFetch.st = "served" => \A f \in Unmoved : Fresh(batchesFetch.got, f)
  /\ batches # Absent /\ batchesFetch.st = "idle" /\ ~batchesError =>
       \A f \in Unmoved : Fresh(batches, f)

AgreeInv == WireTells /\ FetchTells /\ ScreenTells /\ ListTells

-----------------------------------------------------------------------------
USE ImportConstants

(* No move leaves a status that says how a file ended, and a file is       *)
(* validated before it is imported.  core/internal/ingest/state.go:30-48.  *)
LEMMA MovesFrom ==
  ASSUME NEW s \in Committed \cup {"absent", "awaiting_upload"}, NEW t \in Committed,
         LC!LegalMove(s, t)
  PROVE  /\ s \notin Ended
         /\ s = "validated" => t \in {"imported", "failed"}
         /\ t = "imported" => s = "validated"
         /\ s # "failed"
<1>1. CASE LC!CheckTransition(s, t)
  BY <1>1 DEF LC!CheckTransition, LC!transitions, Committed, Ended
<1>2. CASE \E c \in LC!Chains : s = Head(c) /\ t = c[Len(c)]
  <2>1. PICK c \in LC!Chains : s = Head(c) /\ t = c[Len(c)]
    BY <1>2
  <2>2. CASE c = <<"uploaded", "parsing", "parsed", "validating", "validated">>
    <3>1. s = "uploaded" /\ t = "validated"  BY <2>1, <2>2
    <3> QED  BY <3>1 DEF Ended
  <2>3. CASE c = <<"uploaded", "parsing", "parsed", "validating", "rejected">>
    <3>1. s = "uploaded" /\ t = "rejected"  BY <2>1, <2>3
    <3> QED  BY <3>1 DEF Ended
  <2>4. CASE c = <<"validated", "persisting", "imported">>
    <3>1. s = "validated" /\ t = "imported"  BY <2>1, <2>4
    <3> QED  BY <3>1 DEF Ended
  <2> QED  BY <2>1, <2>2, <2>3, <2>4 DEF LC!Chains
<1> QED  BY <1>1, <1>2 DEF LC!LegalMove

(* A step of the server keeps what its status says of a file, and leaves   *)
(* one that has ended as it is.  core/internal/ingest/state.go:30-48.      *)
LEMMA WireTold ==
  ASSUME ImportsInv, WireTells, [ImportsNext]_importVars
  PROVE  /\ WireTells'
         /\ \A f \in Files :
              wire[f].status \in Ended => /\ wire'[f].status = wire[f].status
                                          /\ wire'[f].report = wire[f].report
<1> DEFINE Goal == /\ WireTells'
                   /\ \A f \in Files :
                        wire[f].status \in Ended => /\ wire'[f].status = wire[f].status
                                                    /\ wire'[f].report = wire[f].report
<1> SUFFICES Goal
  OBVIOUS
<1>0. \A f \in Files : wire[f] \in Recorded
  BY DEF ImportsInv, WireOK
<1>1. ASSUME UNCHANGED wire  PROVE Goal
  BY <1>1 DEF WireTells
<1>2. ASSUME NEW f \in Files, NEW to \in Committed, BatchMoves(f, to)  PROVE Goal
  <2>1. /\ wire[f].status \in Committed \cup {"absent", "awaiting_upload"}
        /\ LC!LegalMove(wire[f].status, to)
    BY <1>2 DEF BatchMoves, WireTells
  <2>2. /\ wire[f].status \notin Ended
        /\ wire[f].status = "validated" => to \in {"imported", "failed"}
        /\ to = "imported" => wire[f].status = "validated"
        /\ wire[f].status # "failed"
    BY <2>1, MovesFrom
  <2>3. PICK r \in IF to = "rejected" THEN {[errors |-> ErrorsOf, mismatch |-> FALSE]}
                     ELSE IF to = "validated" THEN [errors : {0}, mismatch : BOOLEAN]
                     ELSE {wire[f].report} :
          wire' = [wire EXCEPT ![f].status = to, ![f].report = r,
                               ![f].validated = @ \/ to = "validated"]
    BY <1>2 DEF BatchMoves
  <2>4. /\ to = "rejected" => r.errors = ErrorsOf
        /\ to = "validated" => r.errors = 0
        /\ to \notin {"rejected", "validated"} => r = wire[f].report
    BY <2>3
  <2>5. /\ wire'[f].status = to /\ wire'[f].report = r
        /\ wire'[f].validated <=> wire[f].validated \/ to = "validated"
        /\ \A g \in Files : g # f => wire'[g] = wire[g]
    BY <1>0, <2>3 DEF ImportsInv, WireOK, Recorded
  <2>6. /\ wire[f].validated => wire[f].status \in {"validated", "imported", "failed"}
        /\ wire[f].status # "rejected" => wire[f].report.errors = 0
    BY DEF WireTells
  <2>7. wire[f].status # "rejected"
    BY <2>2 DEF Ended
  <2>8. /\ wire'[f].report.errors = IF wire'[f].status = "rejected" THEN ErrorsOf ELSE 0
    BY <2>4, <2>5, <2>6, <2>7
  <2>9. wire'[f].validated => wire'[f].status \in {"validated", "imported", "failed"}
    BY <2>2, <2>5, <2>6 DEF Ended
  <2>10. WireTells'
    BY <2>5, <2>8, <2>9 DEF WireTells
  <2> QED  BY <2>2, <2>5, <2>10
<1>3. ASSUME NEW f \in Files, NEW b \in Recorded, wire' = [wire EXCEPT ![f] = b],
             b.report = wire[f].report, b.validated = wire[f].validated,
             \/ b.status = wire[f].status
             \/ wire[f].status = "absent" /\ b.status \in {"awaiting_upload", "uploaded"}
      PROVE  Goal
  <2>1. wire'[f] = b /\ \A g \in Files : g # f => wire'[g] = wire[g]
    BY <1>3 DEF ImportsInv, WireOK
  <2>2. wire[f].status = "absent" => ~wire[f].validated /\ wire[f].report.errors = 0
    BY DEF WireTells
  <2>3. b.status \in Committed \cup {"absent", "awaiting_upload"}
    BY <1>3 DEF WireTells, Committed
  <2>4. WireTells'
    BY <1>3, <2>1, <2>2, <2>3 DEF WireTells
  <2> QED  BY <1>3, <2>1, <2>4 DEF Ended
<1>4. ASSUME NEW f \in Files, SentElsewhere(f) \/ CreateImportBatch(f) \/ ConfirmImportUpload(f)
      PROVE  Goal
  <2>0. WireOK' /\ wire \in [Files -> Recorded]
    BY WireStep DEF ImportsInv, WireOK
  <2> DEFINE b == wire'[f]
  <2>1. b \in Recorded /\ wire' = [wire EXCEPT ![f] = b]
    <3>1. \A g \in Files : g # f => wire'[g] = wire[g]
      BY <1>4, <2>0 DEF SentElsewhere, CreateImportBatch, ConfirmImportUpload
    <3> QED BY <2>0, <3>1 DEF WireOK
  <2>2. /\ b.report = wire[f].report /\ b.validated = wire[f].validated
        /\ \/ b.status = wire[f].status
           \/ wire[f].status = "absent" /\ b.status \in {"awaiting_upload", "uploaded"}
    BY <1>0, <1>4, <2>0 DEF SentElsewhere, CreateImportBatch, ConfirmImportUpload, Recorded, ImportsInv, UploadInv
  <2> HIDE DEF b
  <2> QED  BY <1>3, <2>1, <2>2
<1> HIDE DEF Goal
<1>5. CASE UNCHANGED importVars
  BY <1>1, <1>5 DEF importVars
<1>6. CASE ImportsNext
  BY <1>1, <1>2, <1>4, <1>6
     DEF ImportsNext, BatchesServed, BatchesArrive, BatchesFail, BatchesAgain, DetailBatchRead,
         DetailReportRead, DetailSummaryRead, DetailArrive, DetailPartFails, DetailFail,
         DetailAgain, RowsArrive, ChooseSource, Open, Pick, PutUpload, Uploaded, UploadFails
<1> QED  BY <1>5, <1>6

(* The words that end a file, and the statuses they are of.                *)
(* web/src/data/imports.ts:46-59.                                          *)
LEMMA EndWords ==
  ASSUME NEW s \in ImportStatus \ {"absent"}
  PROVE  /\ STATE_BY_STATUS(s) = "imported" <=> s = "imported"
         /\ STATE_BY_STATUS(s) = "rejected" <=> s \in {"rejected", "abandoned", "failed"}
BY DEF ImportStatus, STATE_BY_STATUS

(* What the second round reads is of the status of the first, and what is  *)
(* shown of both agrees.  web/src/data/imports.ts:132-179.                 *)
LEMMA DetailTold ==
  ASSUME ImportsInv, WireTells, FetchTells, ScreenTells, [ImportsNext]_importVars,
         \A f \in Files : wire[f].status \in Ended => /\ wire'[f].status = wire[f].status
                                                      /\ wire'[f].report = wire[f].report
  PROVE  FetchTells' /\ ScreenTells'
<1> DEFINE Goal == FetchTells' /\ ScreenTells'
<1> SUFFICES Goal
  OBVIOUS
<1>1. /\ detailFetch \in DetailParts
      /\ detailFetch.st # "idle" => opened \in Files /\ opened \in Listed
      /\ \A f \in Files : wire[f] \in Recorded
  BY DEF ImportsInv, DetailInv, Listed, WireOK
\* A fetch stays where it is, or begins or ends.
<1>2. ASSUME UNCHANGED <<opened, detail, detailFetch>>  PROVE Goal
  BY <1>1, <1>2 DEF FetchTells, ScreenTells
<1>3. ASSUME UNCHANGED detail, detailFetch' \in {DetailStart, DetailIdle}  PROVE Goal
  <2>1. DetailStart.st = "batch" /\ DetailIdle.st = "idle"
    BY DEF DetailStart, DetailIdle
  <2>2. detailFetch'.st # "rest" /\ (detailFetch'.st = "batch" => detailFetch' = DetailStart)
    BY <1>3, <2>1
  <2>3. FetchTells'
    BY <2>2 DEF FetchTells, DetailStart, DetailIdle
  <2> QED  BY <1>3, <2>3 DEF ScreenTells
<1>4. ASSUME DetailBatchRead  PROVE Goal
  <2> DEFINE b == BatchOf(wire[opened])
  <2>1. /\ UNCHANGED <<wire, opened, detail>> /\ detailFetch = DetailStart
        /\ opened \in Listed /\ opened \in Files
        /\ detailFetch' = [detailFetch EXCEPT !.st = "rest", !.batch = b]
    BY <1>1, <1>4 DEF DetailBatchRead, FetchTells
  <2>2. b.status = wire[opened].status /\ b.status # "absent"
    BY <2>1 DEF BatchOf, Listed
  <2> HIDE DEF b
  <2>3. /\ detailFetch'.st = "rest" /\ detailFetch'.batch = b
        /\ detailFetch'.report = Absent /\ detailFetch'.summary = Absent
    BY <2>1 DEF DetailStart, DetailIdle
  <2> QED  BY <2>1, <2>2, <2>3 DEF FetchTells, ScreenTells
<1>5. ASSUME DetailReportRead  PROVE Goal
  <2> DEFINE r == ReportOf(wire[opened])
  <2>1. /\ UNCHANGED <<wire, opened, detail>> /\ detailFetch.st = "rest" /\ opened \in Files
        /\ detailFetch' = [detailFetch EXCEPT !.left = @ \ {"report"}, !.report = r]
    BY <1>1, <1>5 DEF DetailReportRead
  <2>2. /\ r # Absent => r = wire[opened].report
        /\ wire[opened].status = "abandoned" => r = Absent
    BY <2>1 DEF WireTells, ReportOf, Reported
  <2> HIDE DEF r
  <2>3. /\ detailFetch'.st = "rest" /\ detailFetch'.batch = detailFetch.batch
        /\ detailFetch'.report = r /\ detailFetch'.summary = detailFetch.summary
    BY <1>1, <2>1 DEF DetailParts
  <2>4. r # Absent => r.errors = IF wire[opened].status = "rejected" THEN ErrorsOf ELSE 0
    BY <2>1, <2>2 DEF WireTells
  <2>5. ScreenTells'
    BY <2>1 DEF ScreenTells
  <2> QED  BY <2>1, <2>2, <2>3, <2>4, <2>5 DEF FetchTells, Ended
<1>6. ASSUME DetailSummaryRead  PROVE Goal
  <2> DEFINE s == SummaryOf(wire[opened])
  <2>1. /\ UNCHANGED <<wire, opened, detail>> /\ detailFetch.st = "rest" /\ opened \in Files
        /\ detailFetch' = [detailFetch EXCEPT !.left = @ \ {"summary"}, !.summary = s]
    BY <1>1, <1>6 DEF DetailSummaryRead
  <2>2. wire[opened].status = "imported" => s.importedRows = RowsOf
    BY DEF SummaryOf
  <2> HIDE DEF s
  <2>3. /\ detailFetch'.st = "rest" /\ detailFetch'.batch = detailFetch.batch
        /\ detailFetch'.report = detailFetch.report /\ detailFetch'.summary = s
    BY <1>1, <2>1 DEF DetailParts
  <2>4. ScreenTells'
    BY <2>1 DEF ScreenTells
  <2> QED  BY <2>1, <2>2, <2>3, <2>4 DEF FetchTells, Ended
<1>7. ASSUME DetailPartFails  PROVE Goal
  <2>1. PICK part : /\ UNCHANGED <<wire, opened, detail>> /\ detailFetch.st = "rest"
                    /\ detailFetch' = [detailFetch EXCEPT !.left = @ \ {part}]
    BY <1>7 DEF DetailPartFails
  <2>2. /\ detailFetch'.st = "rest" /\ detailFetch'.batch = detailFetch.batch
        /\ detailFetch'.report = detailFetch.report /\ detailFetch'.summary = detailFetch.summary
    BY <1>1, <2>1 DEF DetailParts
  <2> QED  BY <2>1, <2>2 DEF FetchTells, ScreenTells
<1>8. ASSUME DetailArrive  PROVE Goal
  <2> DEFINE b == detailFetch.batch
             r == detailFetch.report
             s == detailFetch.summary
  <2>1. detailFetch.st = "rest" /\ detailFetch' = DetailIdle /\ detail' = BatchDetail(b, r, s)
    BY <1>8 DEF DetailArrive
  <2>2. b \in ImportBatch /\ b.status \in ImportStatus \ {"absent"}
    BY <2>1 DEF ImportsInv, DetailInv, FetchTells, ImportBatch
  <2>3. /\ b.status = "imported" => /\ s # Absent => s.importedRows = RowsOf
                                    /\ r # Absent => r.errors = 0
        /\ b.status = "rejected" /\ r # Absent => r.errors = ErrorsOf
        /\ b.status = "abandoned" => r = Absent
    BY <2>1 DEF FetchTells
  <2> HIDE DEF b, r, s
  <2>4. /\ detail'.batch.state = STATE_BY_STATUS(b.status)
        /\ detail'.batch.reasoned <=> b.status = "failed"
        /\ detail'.errors = IF r = Absent THEN 0 ELSE r.errors
        /\ detail'.reported <=> r # Absent
        /\ detail'.counts = IF s = Absent THEN Absent ELSE s.importedRows
    BY <2>1 DEF BatchDetail, batchFromProto
  <2>5. detail'.balance \in {[closing |-> 3, declared |-> 4], Absent}
    <3>1. balanceCheckFromProto(Mismatch) = [closing |-> 3, declared |-> 4]
      BY DEF balanceCheckFromProto, Mismatch
    <3> QED  BY <2>1, <3>1 DEF BatchDetail
  <2>6. ScreenTells'
    BY <2>2, <2>3, <2>4, <2>5, EndWords DEF ScreenTells
  <2>7. FetchTells'
    BY <2>1 DEF FetchTells, DetailIdle
  <2> QED  BY <2>6, <2>7
<1>9. ASSUME DetailFail \/ DetailAgain \/ \E f \in Files : Open(f)  PROVE Goal
  BY <1>3, <1>9 DEF DetailFail, DetailAgain, Open
<1> HIDE DEF Goal
<1>10. ASSUME \/ BatchesServed \/ BatchesArrive \/ BatchesFail \/ BatchesAgain \/ RowsArrive
              \/ \E k \in SourceKind : ChooseSource(k)
       PROVE  Goal
  BY <1>2, <1>10 DEF detailVars, BatchesServed, BatchesArrive, BatchesFail, BatchesAgain,
                     RowsArrive, ChooseSource
<1>11. ASSUME NEW f \in Files,
              \/ \E to \in Committed : BatchMoves(f, to)
              \/ SentElsewhere(f) \/ Pick(f) \/ CreateImportBatch(f)
              \/ PutUpload(f) \/ ConfirmImportUpload(f) \/ Uploaded(f) \/ UploadFails(f)
       PROVE  Goal
  BY <1>2, <1>11 DEF detailVars, BatchMoves, SentElsewhere, Pick, CreateImportBatch, PutUpload,
                     ConfirmImportUpload, Uploaded, UploadFails
<1>12. CASE UNCHANGED importVars
  BY <1>2, <1>12 DEF importVars, detailVars
<1>13. CASE \E f \in Files :
              \/ \E to \in Committed : BatchMoves(f, to)
              \/ SentElsewhere(f) \/ Open(f) \/ Pick(f)
              \/ CreateImportBatch(f) \/ PutUpload(f) \/ ConfirmImportUpload(f)
              \/ Uploaded(f) \/ UploadFails(f)
  <2>1. PICK f \in Files :
              \/ \E to \in Committed : BatchMoves(f, to)
              \/ SentElsewhere(f) \/ Open(f) \/ Pick(f)
              \/ CreateImportBatch(f) \/ PutUpload(f) \/ ConfirmImportUpload(f)
              \/ Uploaded(f) \/ UploadFails(f)
    BY <1>13
  <2> QED  BY <1>9, <1>11, <2>1
<1>14. CASE ImportsNext
  BY <1>4, <1>5, <1>6, <1>7, <1>8, <1>9, <1>10, <1>13, <1>14 DEF ImportsNext
<1> QED  BY <1>12, <1>14

(* The list of files is the server's, but for those still being sent or    *)
(* moved by others since it was served.  web/src/app/Upload.tsx:23-34.     *)
LEMMA ListTold ==
  ASSUME ImportsInv, ListTells, [ImportsNext]_importVars
  PROVE  ListTells'
<1> DEFINE After(l, f) == /\ f \in DOMAIN l <=> f \in Listed'
                          /\ f \in Listed' => l[f] = batchFromProto(BatchOf(wire'[f]))
<1>0. ASSUME batchesFetch'.st = "served" => \A f \in Unmoved' : After(batchesFetch'.got, f),
             batches' # Absent /\ batchesFetch'.st = "idle" /\ ~batchesError' =>
               \A f \in Unmoved' : After(batches', f)
      PROVE  ListTells'
  BY <1>0 DEF ListTells, Fresh, BatchOf
<1>1. wire \in [Files -> Recorded] /\ \A f \in Files : wire[f] \in Recorded
  BY DEF ImportsInv, WireOK
\* A step that leaves the list alone, or takes it for stale.
<1>2. ASSUME UNCHANGED <<batches, batchesError>> \/ batchesFetch'.st = "asked" \/ batchesError',
             UNCHANGED batchesFetch \/ batchesFetch'.st \in {"asked", "idle"},
             batchesFetch'.st = "idle" /\ ~batchesError' => UNCHANGED batchesFetch,
             \A f \in Unmoved' : /\ f \in Unmoved
                                 /\ wire'[f].status = wire[f].status
                                 /\ wire'[f].kind = wire[f].kind
      PROVE  ListTells'
  <2>1. ASSUME batchesFetch'.st = "served", NEW f \in Unmoved'
        PROVE  After(batchesFetch'.got, f)
    <3>1. batchesFetch' = batchesFetch /\ f \in Files /\ f \in Unmoved
      BY <1>2, <2>1 DEF Unmoved
    <3>2. Fresh(batchesFetch.got, f)
      BY <2>1, <3>1 DEF ListTells
    <3>3. After(batchesFetch.got, f)
      BY <1>2, <2>1, <3>1, <3>2 DEF Fresh, Listed, BatchOf
    <3> QED  BY <3>1, <3>3
  <2>2. ASSUME batches' # Absent, batchesFetch'.st = "idle", ~batchesError', NEW f \in Unmoved'
        PROVE  After(batches', f)
    <3>1. UNCHANGED <<batches, batchesError, batchesFetch>> /\ f \in Files /\ f \in Unmoved
      BY <1>2, <2>2 DEF Unmoved
    <3>2. Fresh(batches, f)
      BY <2>2, <3>1 DEF ListTells
    <3> QED  BY <1>2, <2>2, <3>1, <3>2 DEF Fresh, Listed, BatchOf
  <2> QED  BY <1>0, <2>1, <2>2
<1>3. ASSUME BatchesServed  PROVE ListTells'
  <2> DEFINE got == [f \in Listed |-> batchFromProto(BatchOf(wire[f]))]
  <2>1. wire' = wire /\ batchesFetch' = [st |-> "served", got |-> got]
    BY <1>3 DEF BatchesServed
  <2>2. \A f \in Files : Fresh(got, f)
    BY DEF Fresh
  <2> HIDE DEF got
  <2>3. \A f \in Files : After(batchesFetch'.got, f)
    BY <2>1, <2>2 DEF Fresh, Listed, BatchOf
  <2> QED  BY <1>0, <2>1, <2>3 DEF Unmoved
<1>4. ASSUME BatchesArrive  PROVE ListTells'
  <2>1. /\ batchesFetch.st = "served" /\ batches' = batchesFetch.got /\ batchesFetch'.st = "idle"
        /\ UNCHANGED <<wire, unlisted, uploads>>
    BY <1>4 DEF BatchesArrive, uploadVars
  <2>2. \A f \in Unmoved : Fresh(batchesFetch.got, f)
    BY <2>1 DEF ListTells
  <2>3. \A f \in Unmoved' : After(batches', f)
    BY <2>1, <2>2 DEF Fresh, Listed, BatchOf, Unmoved
  <2> QED  BY <1>0, <2>1, <2>3
<1>5. ASSUME NEW f \in Files, NEW to \in Committed, BatchMoves(f, to) \/ SentElsewhere(f)
      PROVE  ListTells'
  <2>1. /\ UNCHANGED <<batches, batchesFetch, batchesError, uploads>>
        /\ unlisted' = unlisted \cup {f}
        /\ \A g \in Files : g # f => wire'[g] = wire[g]
    BY <1>1, <1>5 DEF BatchMoves, SentElsewhere, uploadVars
  <2> QED  BY <1>2, <2>1 DEF Unmoved
<1>6. ASSUME NEW f \in Files, CreateImportBatch(f)  PROVE ListTells'
  <2>1. /\ UNCHANGED <<batches, batchesFetch, batchesError, unlisted>>
        /\ uploads' = [uploads EXCEPT ![f].st = "put"]
        /\ \A g \in Files : g # f => wire'[g] = wire[g]
    BY <1>1, <1>6 DEF CreateImportBatch, listVars
  <2>2. \A g \in Unmoved' : g # f /\ g \in Unmoved
    BY <2>1 DEF Unmoved, ImportsInv, UploadInv
  <2> QED  BY <1>2, <2>1, <2>2 DEF Unmoved
<1>7. ASSUME NEW f \in Files, ConfirmImportUpload(f)  PROVE ListTells'
  <2>1. /\ UNCHANGED <<batches, batchesFetch, batchesError, unlisted>>
        /\ uploads' = [uploads EXCEPT ![f].st = "readback"]
        /\ \A g \in Files : wire'[g].status = wire[g].status /\ wire'[g].kind = wire[g].kind
    BY <1>1, <1>7 DEF ConfirmImportUpload, listVars, Recorded
  <2>2. \A g \in Unmoved' : g \in Files /\ g \in Unmoved
    BY <2>1 DEF Unmoved, ImportsInv, UploadInv
  <2> QED  BY <1>2, <2>1, <2>2
<1>8. ASSUME NEW f \in Files, Pick(f) \/ PutUpload(f) \/ UploadFails(f)  PROVE ListTells'
  <2>1. /\ UNCHANGED <<wire, batches, batchesFetch, batchesError, unlisted>>
        /\ \/ \E k : uploads' = [uploads EXCEPT ![f] = [st |-> "reserve", kind |-> k]]
           \/ \E st \in {"confirm", "failed"} : uploads' = [uploads EXCEPT ![f].st = st]
    BY <1>8 DEF Pick, PutUpload, UploadFails, listVars
  <2>2. \A g \in Unmoved' : g \in Unmoved
    BY <2>1 DEF Unmoved, ImportsInv, UploadInv
  <2> QED  BY <1>2, <2>1, <2>2
<1>9. ASSUME NEW f \in Files, Uploaded(f)  PROVE ListTells'
  <2>1. UNCHANGED <<wire, batches>> /\ uploads' = [uploads EXCEPT ![f].st = "done"]
        /\ \A g \in Files : g # f => uploads'[g] = uploads[g]
    BY <1>9 DEF Uploaded, ImportsInv, UploadInv
  <2>2. CASE batches = Absent /\ batchesFetch.st # "idle"
    <3>1. /\ batchesFetch' = batchesFetch
          /\ batchesFetch.st = "served" => unlisted' = unlisted \cup {f}
          /\ batches' = Absent
      BY <1>9, <2>1, <2>2 DEF Uploaded
    <3>2. ASSUME batchesFetch.st = "served", NEW g \in Unmoved'
          PROVE  After(batchesFetch.got, g)
      <4>1. g \in Unmoved
        BY <2>1, <3>1, <3>2 DEF Unmoved
      <4>2. Fresh(batchesFetch.got, g)
        BY <3>2, <4>1 DEF ListTells
      <4> QED  BY <2>1, <3>1, <4>2 DEF Fresh, Listed, BatchOf
    <3> QED  BY <1>0, <2>2, <3>1, <3>2
  <2>3. CASE ~(batches = Absent /\ batchesFetch.st # "idle")
    <3>1. batchesFetch'.st = "asked"
      BY <1>9, <2>3 DEF Uploaded
    <3> QED  BY <1>0, <3>1
  <2> QED  BY <2>2, <2>3
<1>10. ASSUME BatchesFail \/ BatchesAgain  PROVE ListTells'
  <2>1. batchesFetch'.st = "asked" \/ (batchesFetch'.st = "idle" /\ batchesError')
    BY <1>10 DEF BatchesFail, BatchesAgain
  <2> QED  BY <1>0, <2>1
<1>11. ASSUME UNCHANGED <<wire, batches, batchesFetch, batchesError, unlisted, uploads>>
       PROVE  ListTells'
  BY <1>2, <1>11 DEF Unmoved
<1>12. ASSUME \/ DetailBatchRead \/ DetailReportRead \/ DetailSummaryRead \/ DetailArrive
              \/ DetailPartFails \/ DetailFail \/ DetailAgain \/ RowsArrive
              \/ (\E k \in SourceKind : ChooseSource(k)) \/ \E f \in Files : Open(f)
       PROVE  ListTells'
  BY <1>11, <1>12 DEF listVars, uploadVars, DetailBatchRead, DetailReportRead, DetailSummaryRead,
     DetailArrive, DetailPartFails, DetailFail, DetailAgain, RowsArrive, ChooseSource, Open
<1>13. CASE UNCHANGED importVars
  BY <1>11, <1>13 DEF importVars, listVars, uploadVars
<1>14. CASE \E f \in Files :
              \/ \E to \in Committed : BatchMoves(f, to)
              \/ SentElsewhere(f) \/ Open(f) \/ Pick(f)
              \/ CreateImportBatch(f) \/ PutUpload(f) \/ ConfirmImportUpload(f)
              \/ Uploaded(f) \/ UploadFails(f)
  <2>1. PICK f \in Files :
              \/ \E to \in Committed : BatchMoves(f, to)
              \/ SentElsewhere(f) \/ Open(f) \/ Pick(f)
              \/ CreateImportBatch(f) \/ PutUpload(f) \/ ConfirmImportUpload(f)
              \/ Uploaded(f) \/ UploadFails(f)
    BY <1>14
  <2>2. Committed # {}  BY DEF Committed
  <2> QED  BY <1>5, <1>6, <1>7, <1>8, <1>9, <1>12, <2>1, <2>2
<1>15. CASE ImportsNext
  BY <1>3, <1>4, <1>10, <1>12, <1>14, <1>15 DEF ImportsNext
<1> QED  BY <1>13, <1>15

LEMMA AgreeInit == ASSUME ImportsInit  PROVE AgreeInv
<1>1. WireTells
  BY DEF ImportsInit, WireTells, Unreported
<1>2. FetchTells /\ ScreenTells
  BY DEF ImportsInit, FetchTells, ScreenTells, DetailIdle
<1>3. ListTells
  BY DEF ImportsInit, ListTells
<1> QED  BY <1>1, <1>2, <1>3 DEF AgreeInv

LEMMA AgreeInvariant == ImportsSpec => [](ImportsInv /\ AgreeInv)
<1>1. ImportsInit => ImportsInv /\ AgreeInv
  BY ImportsInvInit, AgreeInit
<1>2. ImportsInv /\ AgreeInv /\ [ImportsNext]_importVars => (ImportsInv /\ AgreeInv)'
  BY ImportsInvStep, WireTold, DetailTold, ListTold DEF AgreeInv
<1> QED  BY <1>1, <1>2, PTL DEF ImportsSpec

(* The parts of an open batch agree, and the list settles on what the      *)
(* server has, for every set of files and any number of failures, moves of *)
(* the server's jobs between the reads, and uploads at once.               *)
(* web/src/data/imports.ts:132-179, Upload.tsx:23-34, BatchScreen.tsx.     *)
THEOREM ImportsAgree == ImportsSpec => []DetailAgrees
<1>1. ImportsInv /\ AgreeInv => DetailAgrees
  <2> SUFFICES ASSUME ImportsInv, AgreeInv PROVE DetailAgrees
    OBVIOUS
  <2>1. ASSUME BatchScreen.page = "batch"
        PROVE  /\ BatchScreen.chip = "imported" =>
                    BatchScreen.counts \in {Absent, RowsOf} /\ detail.errors = 0
               /\ BatchScreen.chip = "rejected" /\ detail.reported /\ ~BatchScreen.reason =>
                    BatchScreen.errors.shown + BatchScreen.errors.more = ErrorsOf
               /\ BatchScreen.balance # Absent =>
                    BatchScreen.balance.closing # BatchScreen.balance.declared
               /\ BatchScreen.reason => BatchScreen.chip = "rejected"
    <3>1. detail # Absent /\ ~detailError
      BY <2>1 DEF BatchScreen
    <3>2. /\ BatchScreen.chip = detail.batch.state /\ BatchScreen.reason = detail.batch.reasoned
          /\ BatchScreen.counts = detail.counts /\ BatchScreen.balance = detail.balance
          /\ BatchScreen.errors = Errors(detail.errors)
      BY <3>1 DEF BatchScreen
    <3>3. /\ detail.batch.state = "imported" => detail.counts \in {Absent, RowsOf} /\ detail.errors = 0
          /\ detail.batch.state = "rejected" /\ detail.reported /\ ~detail.batch.reasoned =>
               detail.errors = ErrorsOf
          /\ detail.batch.reasoned => detail.batch.state = "rejected"
          /\ detail.balance \in {[closing |-> 3, declared |-> 4], Absent}
      BY <3>1 DEF AgreeInv, ScreenTells
    <3>4. Errors(ErrorsOf).shown + Errors(ErrorsOf).more = ErrorsOf
      BY DEF Errors
    <3> QED  BY <3>2, <3>3, <3>4
  <2>2. ASSUME batches # Absent, batchesFetch.st = "idle", ~batchesError,
               NEW f \in Files \ unlisted, uploads[f].st \in {"none", "done"}
        PROVE  /\ f \in DOMAIN batches <=> f \in Listed
               /\ f \in Listed => batches[f] = batchFromProto(BatchOf(wire[f]))
    BY <2>2 DEF AgreeInv, ListTells, Unmoved, Fresh
  <2> QED  BY <2>1, <2>2 DEF DetailAgrees
<1> QED  BY <1>1, AgreeInvariant, PTL

(* The rows of the open batch are all of them, none, or not read yet.      *)
RowsInv == rows \in {Absent, 0, RowsOf}

LEMMA RowsStep ==
  ASSUME RowsInv, [ImportsNext]_importVars
  PROVE  RowsInv'
<1>1. ASSUME UNCHANGED rows  PROVE RowsInv'
  BY <1>1 DEF RowsInv
<1>2. CASE RowsArrive
  BY <1>2 DEF RowsArrive, RowsInv, RowsIn, SummaryOf
<1>3. CASE UNCHANGED importVars
  BY <1>1, <1>3 DEF importVars, detailVars
<1>4. CASE \E f \in Files :
        \/ \E to \in Committed : BatchMoves(f, to)
        \/ SentElsewhere(f) \/ Open(f) \/ Pick(f)
        \/ CreateImportBatch(f) \/ PutUpload(f) \/ ConfirmImportUpload(f)
        \/ Uploaded(f) \/ UploadFails(f)
  BY <1>1, <1>4 DEF BatchMoves, SentElsewhere, Open, Pick, CreateImportBatch, PutUpload,
     ConfirmImportUpload, Uploaded, UploadFails, detailVars
<1>5. CASE \/ BatchesServed \/ BatchesArrive \/ BatchesFail \/ BatchesAgain
           \/ DetailBatchRead \/ DetailReportRead \/ DetailSummaryRead \/ DetailArrive
           \/ DetailPartFails \/ DetailFail \/ DetailAgain
           \/ \E k \in SourceKind : ChooseSource(k)
  BY <1>1, <1>5 DEF BatchesServed, BatchesArrive, BatchesFail, BatchesAgain, DetailBatchRead,
     DetailReportRead, DetailSummaryRead, DetailArrive, DetailPartFails, DetailFail, DetailAgain,
     ChooseSource, detailVars
<1>6. CASE ImportsNext
  BY <1>2, <1>4, <1>5, <1>6 DEF ImportsNext
<1> QED  BY <1>3, <1>6

(* What the import screens read stays of the wire's types, and nothing is  *)
(* read of a batch that is not open.  imports.ts:100-179.                  *)
THEOREM ImportsTyped == ImportsSpec => []ImportsTypeOK
<1>1. ASSUME ImportsInv, RowsInv  PROVE ImportsTypeOK
  <2>1. ASSUME NEW f \in Files
        PROVE  /\ wire[f].report \in ValidationReport /\ BatchOf(wire[f]) \in ImportBatch
               /\ SummaryOf(wire[f]) \in DedupSummary
    <3>1. wire[f] \in Recorded
      BY <1>1 DEF ImportsInv, WireOK
    <3>2. wire[f].status \in ImportStatus
      BY <3>1 DEF Recorded, LC!Status, ImportStatus
    <3> QED  BY <3>1, <3>2 DEF Recorded, BatchOf, ImportBatch, SummaryOf, DedupSummary
  <2>2. Mismatch \in BalanceMismatchDetail
    BY DEF Mismatch, BalanceMismatchDetail
  <2>3. opened \in Files \cup {NoFile} /\ (detailFetch.st # "idle" => opened # NoFile)
    BY <1>1, ImportConstants DEF ImportsInv, DetailInv, Listed
  <2> QED  BY <1>1, <2>1, <2>2, <2>3 DEF ImportsInv, UploadInv, RowsInv, ImportsTypeOK
<1>2. ImportsInit => RowsInv
  BY DEF ImportsInit, RowsInv
<1> QED  BY <1>1, <1>2, RowsStep, ImportsInOrder, PTL DEF ImportsSpec

-----------------------------------------------------------------------------
(* The picker.                                                             *)

(* A part of a key is made of names, and of what tells a code from a name. *)
Token == STRING \cup {"code", "name"}
Label == Seq(Token)

LEMMA Tokens ==
  /\ <<"code">> \in Label /\ \A x \in Token : <<"name", x>> \in Label
  /\ \A s \in Seq(STRING) : s \in Seq(Token)
<1>1. "code" \in Token /\ "name" \in Token /\ STRING \subseteq Token
  BY DEF Token
<1>2. \A s \in Seq(STRING) : s \in Seq(Token)
  BY <1>1, SeqMonotonic
<1> QED  BY <1>1, <1>2 DEF Label

(* The first parts of a key.                                               *)
Cut(s, i) == SubSeq(s, 1, i)

LEMMA CutIs ==
  ASSUME NEW X, NEW s \in Seq(X), NEW i \in 0..Len(s)
  PROVE  /\ Cut(s, i) \in Seq(X) /\ Len(Cut(s, i)) = i
         /\ \A j \in 1..i : Cut(s, i)[j] = s[j]
<1>1. i \in Int /\ 1 \in Int /\ Len(s) \in Nat /\ \A j \in 1..Len(s) : s[j] \in X
  BY ElementOfSeq, LenProperties
<1>2. \A j \in 1..i : s[j] \in X
  BY <1>1
<1>3. /\ SubSeq(s, 1, i) \in Seq(X) /\ Len(SubSeq(s, 1, i)) = IF 1 <= i THEN i - 1 + 1 ELSE 0
      /\ \A j \in 1..(i - 1 + 1) : SubSeq(s, 1, i)[j] = s[1 + j - 1]
  BY <1>1, <1>2, SubSeqProperties
<1>4. i - 1 + 1 = i /\ \A j \in 1..i : 1 + j - 1 = j
  BY <1>1
<1> QED  BY <1>1, <1>3, <1>4 DEF Cut

LEMMA CutCut ==
  ASSUME NEW X, NEW s \in Seq(X), NEW i \in 0..Len(s), NEW j \in 0..i
  PROVE  Cut(Cut(s, i), j) = Cut(s, j)
<1>1. Len(s) \in Nat /\ j \in 0..Len(s)
  BY LenProperties
<1>2. Cut(s, i) \in Seq(X) /\ Len(Cut(s, i)) = i /\ \A k \in 1..i : Cut(s, i)[k] = s[k]
  BY CutIs
<1>3. /\ Cut(Cut(s, i), j) \in Seq(X) /\ Len(Cut(Cut(s, i), j)) = j
      /\ \A k \in 1..j : Cut(Cut(s, i), j)[k] = Cut(s, i)[k]
  BY <1>2, CutIs
<1>4. Cut(s, j) \in Seq(X) /\ Len(Cut(s, j)) = j /\ \A k \in 1..j : Cut(s, j)[k] = s[k]
  BY <1>1, CutIs
<1>5. \A k \in 1..j : k \in 1..i
  BY <1>1
<1> QED  BY <1>2, <1>3, <1>4, <1>5, SeqEqual

LEMMA CutAll ==
  ASSUME NEW X, NEW s \in Seq(X)
  PROVE  Cut(s, Len(s)) = s
BY SubSeqFull DEF Cut

(* A prefix is what is cut to its length.                                  *)
LEMMA PrefixIs ==
  ASSUME NEW X, NEW s \in Seq(X), NEW t \in Seq(X)
  PROVE  /\ IsPrefix(s, t) <=> Len(s) <= Len(t) /\ s = Cut(t, Len(s))
         /\ IsStrictPrefix(s, t) <=> Len(s) < Len(t) /\ s = Cut(t, Len(s))
<1>1. Len(s) \in Nat /\ Len(t) \in Nat
  BY LenProperties
<1>2. SubSeq(s, 1, Len(s)) = s
  BY SubSeqFull
<1>3. IsPrefix(s, t) <=> Len(s) <= Len(t) /\ s = Cut(t, Len(s))
  BY <1>2 DEF IsPrefix, Cut
<1>4. Len(s) = Len(t) => Cut(t, Len(s)) = t
  BY CutAll
<1>5. Len(s) < Len(t) => s # t
  BY <1>1
<1> QED  BY <1>1, <1>3, <1>4, <1>5 DEF IsStrictPrefix

(* A leaf's key is one longer than its depth, and its branches' are cuts.  *)
LEMMA LeafKey ==
  ASSUME NEW c \in Category
  PROVE  /\ Depth(c) \in Nat /\ Leaf(c).key \in Seq(Label) /\ Len(Leaf(c).key) = Depth(c) + 1
         /\ \A i \in 0..Depth(c) : BranchKey(c, i) = Cut(Leaf(c).key, i)
<1>1. Len(c.path) \in Nat /\ (c.path # <<>> => Len(c.path) # 0) /\ c.path \in Seq(Token)
      /\ c.code \in Seq(Token) /\ Len(c.code) \in Nat
  <2>1. c.path \in Seq(Token) /\ c.code \in Seq(Token)
    BY Tokens DEF Category
  <2> QED  BY <2>1, EmptySeq, LenProperties
<1>2. Depth(c) \in Nat /\ (Depth(c) # 0 => Depth(c) = Len(c.path) - 1)
  BY <1>1 DEF Depth
<1>3. ASSUME NEW i \in 1..Depth(c)  PROVE Part(c, i) \in Label
  <2>1. CASE Aligned(c)
    <3>1. i \in 0..Len(c.code)
      BY <1>1, <1>2, <2>1 DEF Aligned
    <3>2. SubSeq(c.code, 1, i) \in Seq(Token)
      BY <1>1, <3>1, CutIs DEF Cut
    <3> QED  BY <2>1, <3>2, Tokens, ConcatProperties DEF Part, Label
  <2>2. CASE ~Aligned(c)
    <3>1. c.path[i] \in Token
      BY <1>1, <1>2, ElementOfSeq
    <3> QED  BY <2>2, <3>1, Tokens DEF Part
  <2> QED  BY <2>1, <2>2
<1>4. ASSUME NEW i \in 0..Depth(c)
      PROVE  /\ BranchKey(c, i) \in Seq(Label) /\ Len(BranchKey(c, i)) = i
             /\ \A j \in 1..i : BranchKey(c, i)[j] = Part(c, j)
  <2>1. i \in Nat /\ \A j \in 1..i : Part(c, j) \in Label
    BY <1>2, <1>3
  <2>2. [j \in 1..i |-> Part(c, j)] \in [1..i -> Label]
    BY <2>1
  <2>3. BranchKey(c, i) \in [1..i -> Label] /\ \A j \in 1..i : BranchKey(c, i)[j] = Part(c, j)
    BY <2>2 DEF BranchKey
  <2>4. BranchKey(c, i) \in Seq(Label)
    BY <2>1, <2>3, SeqDef
  <2>5. Len(BranchKey(c, i)) = i
    BY <2>1, <2>3, <2>4, LenProperties
  <2> QED  BY <2>3, <2>4, <2>5
<1> DEFINE b == BranchKey(c, Depth(c))
           e == <<"code">> \o c.code
<1>5. Depth(c) \in 0..Depth(c)
  BY <1>2
<1>6. b \in Seq(Label) /\ Len(b) = Depth(c) /\ e \in Label
  <2>2. e \in Seq(Token)
    BY <1>1, Tokens, ConcatProperties DEF Label
  <2>3. b \in Seq(Label) /\ Len(b) = Depth(c)
    BY <1>4, <1>5
  <2> QED  BY <2>2, <2>3 DEF Label
<1>7. Leaf(c).key = Append(b, e)
  BY DEF Leaf
<1> HIDE DEF b, e
<1>8. /\ Leaf(c).key \in Seq(Label) /\ Len(Leaf(c).key) = Depth(c) + 1
      /\ \A j \in 1..Depth(c) : Leaf(c).key[j] = b[j]
  BY <1>2, <1>6, <1>7
<1>9. ASSUME NEW i \in 0..Depth(c)  PROVE BranchKey(c, i) = Cut(Leaf(c).key, i)
  <2>1. i \in 0..Len(Leaf(c).key) /\ \A j \in 1..i : j \in 1..Depth(c)
    BY <1>2, <1>8
  <2>2. /\ Cut(Leaf(c).key, i) \in Seq(Label) /\ Len(Cut(Leaf(c).key, i)) = i
        /\ \A j \in 1..i : Cut(Leaf(c).key, i)[j] = Leaf(c).key[j]
    BY <1>8, <2>1, CutIs
  <2>3. \A j \in 1..Depth(c) : b[j] = Part(c, j)
    BY <1>4, <1>5 DEF b
  <2>4. \A j \in 1..i : BranchKey(c, i)[j] = Cut(Leaf(c).key, i)[j]
    BY <1>4, <1>8, <2>1, <2>2, <2>3
  <2> QED  BY <1>4, <2>2, <2>4, SeqEqual
<1> QED  BY <1>2, <1>8, <1>9

-----------------------------------------------------------------------------
(* The tree in terms of its nodes alone: the way down to a node goes by    *)
(* the branches of its cuts.                                               *)
Nodes(all) == Leaves(all) \cup Branches(all)
Way(n, i) == IF i = Len(n.key) THEN n ELSE Branch(Cut(n.key, i))

LEMMA LeavesAre ==
  ASSUME NEW A \in SUBSET Category, NEW l \in Leaves(A)
  PROVE  l.kind = "leaf" /\ l.key \in Seq(Label) /\ Len(l.key) \in Nat \ {0}
<1>1. PICK c \in A : l = Leaf(c)
  BY DEF Leaves
<1>2. Depth(c) \in Nat /\ l.key \in Seq(Label) /\ Len(l.key) = Depth(c) + 1
  BY <1>1, LeafKey
<1>3. l.kind = "leaf"
  BY <1>1 DEF Leaf
<1> QED  BY <1>2, <1>3

LEMMA BranchesAre ==
  ASSUME NEW A \in SUBSET Category
  PROVE  \A n : n \in Branches(A) <=>
           \E l \in Leaves(A), i \in Nat \ {0} : i < Len(l.key) /\ n = Branch(Cut(l.key, i))
<1>1. \A c \in A : /\ Leaf(c) \in Leaves(A) /\ 1..(Len(Leaf(c).key) - 1) = 1..Depth(c)
                   /\ \A i \in 1..Depth(c) : BranchKey(c, i) = Cut(Leaf(c).key, i)
  <2> SUFFICES ASSUME NEW c \in A
               PROVE  /\ Leaf(c) \in Leaves(A) /\ 1..(Len(Leaf(c).key) - 1) = 1..Depth(c)
                      /\ \A i \in 1..Depth(c) : BranchKey(c, i) = Cut(Leaf(c).key, i)
    OBVIOUS
  <2>1. /\ Depth(c) \in Nat /\ Len(Leaf(c).key) = Depth(c) + 1
        /\ \A i \in 0..Depth(c) : BranchKey(c, i) = Cut(Leaf(c).key, i)
    BY LeafKey
  <2> QED  BY <2>1 DEF Leaves
<1>2. \A n : n \in Branches(A) <=> \E c \in A : \E i \in 1..Depth(c) : n = Branch(BranchKey(c, i))
  BY DEF Branches
<1>3. \A l \in Leaves(A) : \E c \in A : l = Leaf(c)
  BY DEF Leaves
<1>4. ASSUME NEW c \in A, NEW i \in 1..Depth(c)
      PROVE  \E l \in Leaves(A), j \in Nat \ {0} :
               j < Len(l.key) /\ Branch(BranchKey(c, i)) = Branch(Cut(l.key, j))
  <2>1. i \in 1..(Len(Leaf(c).key) - 1) /\ Len(Leaf(c).key) \in Nat
    BY <1>1, LeafKey
  <2>2. i \in Nat \ {0} /\ i < Len(Leaf(c).key)
    BY <2>1
  <2> QED  BY <1>1, <2>2
<1>5. ASSUME NEW l \in Leaves(A), NEW j \in Nat \ {0}, j < Len(l.key)
      PROVE  \E c \in A : \E i \in 1..Depth(c) : Branch(Cut(l.key, j)) = Branch(BranchKey(c, i))
  <2>1. PICK c \in A : l = Leaf(c)
    BY <1>3
  <2>2. Len(l.key) \in Nat
    BY <2>1, LeafKey
  <2>3. j \in 1..(Len(l.key) - 1)
    BY <1>5, <2>2
  <2> QED  BY <1>1, <2>1, <2>3
<1> QED  BY <1>2, <1>4, <1>5

LEMMA CutBranch ==
  ASSUME NEW s \in Seq(Label), NEW i \in 1..(Len(s) - 1)
  PROVE  /\ Branch(Cut(s, i)).kind = "branch" /\ Branch(Cut(s, i)).key = Cut(s, i)
         /\ Cut(s, i) \in Seq(Label) /\ Len(Cut(s, i)) = i
<1>1. i \in 0..Len(s)
  BY LenProperties
<1> QED  BY <1>1, CutIs DEF Branch

LEMMA NodesAre ==
  ASSUME NEW A \in SUBSET Category, NEW n \in Nodes(A)
  PROVE  /\ n.key \in Seq(Label) /\ Len(n.key) \in Nat \ {0}
         /\ \/ n.kind = "leaf" /\ n \in Leaves(A)
            \/ n.kind = "branch" /\ n \in Branches(A) /\ n = Branch(n.key)
<1>1. CASE n \in Leaves(A)
  <2>1. n.kind = "leaf" /\ n.key \in Seq(Label) /\ Len(n.key) \in Nat \ {0}
    BY <1>1, LeavesAre
  <2> QED  BY <1>1, <2>1
<1>2. CASE n \in Branches(A)
  <2>1. PICK l \in Leaves(A), i \in Nat \ {0} : i < Len(l.key) /\ n = Branch(Cut(l.key, i))
    BY <1>2, BranchesAre
  <2>2. l.key \in Seq(Label) /\ Len(l.key) \in Nat
    BY LeavesAre
  <2>3. n.kind = "branch" /\ n.key = Cut(l.key, i) /\ n.key \in Seq(Label) /\ Len(n.key) = i
    BY <2>1, <2>2, CutBranch
  <2> QED  BY <1>2, <2>1, <2>2, <2>3
<1> QED  BY <1>1, <1>2 DEF Nodes

(* Every cut of a node's key is a branch's.                                *)
LEMMA WayIs ==
  ASSUME NEW A \in SUBSET Category, NEW n \in Nodes(A), NEW i \in 1..Len(n.key)
  PROVE  /\ Way(n, i) \in Nodes(A) /\ Way(n, i).key = Cut(n.key, i) /\ Len(Way(n, i).key) = i
         /\ i = Len(n.key) => Way(n, i) = n
         /\ i # Len(n.key) => Way(n, i).kind = "branch" /\ Way(n, i) = Branch(Cut(n.key, i))
<1>1. n.key \in Seq(Label) /\ Len(n.key) \in Nat \ {0}
  BY NodesAre
<1>2. CASE i = Len(n.key)
  BY <1>1, <1>2, CutAll DEF Way
<1>3. CASE i # Len(n.key)
  <2>1. i \in 1..(Len(n.key) - 1) /\ Way(n, i) = Branch(Cut(n.key, i))
    BY <1>1, <1>3 DEF Way
  <2>2. /\ Way(n, i).kind = "branch" /\ Way(n, i).key = Cut(n.key, i) /\ Len(Way(n, i).key) = i
    BY <1>1, <2>1, CutBranch
  <2>3. Way(n, i) \in Branches(A)
    <3>1. CASE n \in Leaves(A)
      BY <2>1, <3>1, BranchesAre
    <3>2. CASE n \in Branches(A)
      <4>1. PICK l \in Leaves(A), j \in Nat \ {0} : j < Len(l.key) /\ n = Branch(Cut(l.key, j))
        BY <3>2, BranchesAre
      <4>2. l.key \in Seq(Label) /\ Len(l.key) \in Nat
        BY LeavesAre
      <4>3. n.key = Cut(l.key, j) /\ Len(n.key) = j
        BY <4>1, <4>2, CutBranch
      <4>4. i \in 0..j /\ j \in 0..Len(l.key) /\ i \in 1..(Len(l.key) - 1)
        BY <2>1, <4>1, <4>2, <4>3
      <4>5. Cut(n.key, i) = Cut(l.key, i)
        BY <4>2, <4>3, <4>4, CutCut
      <4> QED  BY <2>1, <4>4, <4>5, BranchesAre
    <3> QED  BY <3>1, <3>2 DEF Nodes
  <2> QED  BY <1>3, <2>1, <2>2, <2>3 DEF Nodes
<1> QED  BY <1>2, <1>3

LEMMA WayWay ==
  ASSUME NEW A \in SUBSET Category, NEW n \in Nodes(A), NEW i \in 1..Len(n.key), NEW j \in 1..i
  PROVE  Way(Way(n, i), j) = Way(n, j)
<1>1. n.key \in Seq(Label) /\ Len(n.key) \in Nat \ {0}
  BY NodesAre
<1>2. Way(n, i).key = Cut(n.key, i) /\ Len(Way(n, i).key) = i
  BY WayIs
<1>3. CASE j = i
  BY <1>2, <1>3 DEF Way
<1>4. CASE j # i
  <2>1. j # Len(n.key) /\ i \in 0..Len(n.key) /\ j \in 0..i
    BY <1>1, <1>4
  <2>2. Cut(Cut(n.key, i), j) = Cut(n.key, j)
    BY <1>1, <2>1, CutCut
  <2> QED  BY <1>2, <1>4, <2>1, <2>2 DEF Way
<1> QED  BY <1>3, <1>4

(* What hangs under a branch, and its children.                            *)
LEMMA UnderBranch ==
  ASSUME NEW A \in SUBSET Category, NEW b \in Branches(A), NEW n \in Nodes(A)
  PROVE  /\ Above(n, b.key) <=> Len(b.key) < Len(n.key) /\ Way(n, Len(b.key)) = b
         /\ n \in Children(A, b.key) <=> Len(n.key) = Len(b.key) + 1 /\ Way(n, Len(b.key)) = b
         /\ n \in Branches(A) => (IsPrefix(b.key, n.key) <=> Len(b.key) <= Len(n.key) /\ Way(n, Len(b.key)) = b)
<1>1. b \in Nodes(A) /\ n.key \in Seq(Label) /\ Len(n.key) \in Nat \ {0}
  BY NodesAre DEF Nodes
<1>2. b.key \in Seq(Label) /\ Len(b.key) \in Nat \ {0} /\ b.kind = "branch" /\ b = Branch(b.key)
  <2>1. b \in Leaves(A) => b.kind = "leaf"
    BY LeavesAre
  <2>2. b.kind = "branch"
    <3>1. PICK l \in Leaves(A), j \in Nat \ {0} : j < Len(l.key) /\ b = Branch(Cut(l.key, j))
      BY BranchesAre
    <3> QED  BY <3>1 DEF Branch
  <2> QED  BY <1>1, <2>2, NodesAre
<1>3. Len(b.key) < Len(n.key) => (Way(n, Len(b.key)) = b <=> b.key = Cut(n.key, Len(b.key)))
  <2>1. SUFFICES ASSUME Len(b.key) < Len(n.key)
                 PROVE  Way(n, Len(b.key)) = b <=> b.key = Cut(n.key, Len(b.key))
    OBVIOUS
  <2>2. Way(n, Len(b.key)) = Branch(Cut(n.key, Len(b.key)))
    BY <1>1, <1>2, <2>1 DEF Way
  <2> QED  BY <1>2, <2>2 DEF Branch
<1>4. Above(n, b.key) <=> Len(b.key) < Len(n.key) /\ Way(n, Len(b.key)) = b
  BY <1>1, <1>2, <1>3, PrefixIs DEF Above
<1>5. n \in Children(A, b.key) <=> Len(n.key) = Len(b.key) + 1 /\ Way(n, Len(b.key)) = b
  <2>1. Len(n.key) - 1 \in 0..Len(n.key)
    BY <1>1
  <2>2. Front(n.key) = Cut(n.key, Len(n.key) - 1) /\ Len(Front(n.key)) = Len(n.key) - 1
    BY <1>1, <2>1, CutIs DEF Front, Cut
  <2>3. n \in Children(A, b.key) <=> Front(n.key) = b.key
    BY DEF Children, Nodes
  <2>4. Len(n.key) = Len(b.key) + 1 <=> Len(n.key) - 1 = Len(b.key)
    BY <1>1, <1>2
  <2>5. Len(n.key) = Len(b.key) + 1 => Len(b.key) < Len(n.key)
    BY <1>1, <1>2
  <2> QED  BY <1>3, <2>2, <2>3, <2>4, <2>5
<1>6. ASSUME n \in Branches(A)
      PROVE  IsPrefix(b.key, n.key) <=> Len(b.key) <= Len(n.key) /\ Way(n, Len(b.key)) = b
  <2>1. IsPrefix(b.key, n.key) <=> Len(b.key) <= Len(n.key) /\ b.key = Cut(n.key, Len(b.key))
    BY <1>1, <1>2, PrefixIs
  <2>2. CASE Len(b.key) = Len(n.key)
    <3>1. Cut(n.key, Len(b.key)) = n.key /\ Way(n, Len(b.key)) = n
      BY <1>1, <2>2, CutAll DEF Way
    <3>2. n = Branch(n.key)
      <4>1. PICK l \in Leaves(A), j \in Nat \ {0} : j < Len(l.key) /\ n = Branch(Cut(l.key, j))
        BY <1>6, BranchesAre
      <4> QED  BY <4>1 DEF Branch
    <3> QED  BY <1>2, <2>1, <2>2, <3>1, <3>2
  <2>3. CASE Len(b.key) < Len(n.key)
    BY <1>3, <2>1, <2>3
  <2>4. CASE Len(b.key) > Len(n.key)
    BY <1>1, <1>2, <2>1, <2>4
  <2> QED  BY <1>1, <1>2, <2>2, <2>3, <2>4
<1> QED  BY <1>4, <1>5, <1>6

-----------------------------------------------------------------------------
(* A leaf lies at or below a node when its way goes through the node, and  *)
(* some leaf lies below every node.                                        *)
LEMMA BelowIs ==
  ASSUME NEW A \in SUBSET Category, NEW n \in Nodes(A), NEW l \in Leaves(A)
  PROVE  l \in LeavesBelow(A, n) <=> Len(n.key) <= Len(l.key) /\ Way(l, Len(n.key)) = n
<1>1. l \in Nodes(A) /\ l.kind = "leaf" /\ Len(l.key) \in Nat \ {0} /\ Len(n.key) \in Nat \ {0}
  BY NodesAre, LeavesAre DEF Nodes
<1>2. Len(n.key) < Len(l.key) => Way(l, Len(n.key)).kind = "branch"
  BY <1>1, WayIs
<1>3. Way(l, Len(l.key)) = l /\ Way(n, Len(n.key)) = n
  BY DEF Way
<1>4. CASE n.kind = "leaf"
  <2>1. LeavesBelow(A, n) = {n}
    BY <1>4 DEF LeavesBelow
  <2>2. Len(n.key) <= Len(l.key) /\ Way(l, Len(n.key)) = n => l = n
    BY <1>1, <1>2, <1>3, <1>4
  <2> QED  BY <1>1, <1>3, <2>1, <2>2
<1>5. CASE n.kind = "branch"
  <2>1. n \in Branches(A)
    BY <1>5, NodesAre
  <2>2. l \in LeavesBelow(A, n) <=> Above(l, n.key)
    BY <1>5 DEF LeavesBelow
  <2>3. Above(l, n.key) <=> Len(n.key) < Len(l.key) /\ Way(l, Len(n.key)) = n
    BY <1>1, <2>1, UnderBranch
  <2>4. Len(n.key) = Len(l.key) => Way(l, Len(n.key)) # n
    BY <1>1, <1>3, <1>5
  <2> QED  BY <1>1, <2>2, <2>3, <2>4
<1> QED  BY <1>4, <1>5, NodesAre

LEMMA LeafUnder ==
  ASSUME NEW A \in SUBSET Category, NEW n \in Nodes(A)
  PROVE  \E l \in Leaves(A) : Len(n.key) <= Len(l.key) /\ Way(l, Len(n.key)) = n
<1>1. CASE n \in Leaves(A)
  <2>1. Len(n.key) \in Nat /\ Way(n, Len(n.key)) = n
    BY NodesAre DEF Way
  <2> QED  BY <1>1, <2>1
<1>2. CASE n \in Branches(A)
  <2>1. PICK l \in Leaves(A), j \in Nat \ {0} : j < Len(l.key) /\ n = Branch(Cut(l.key, j))
    BY <1>2, BranchesAre
  <2>2. l \in Nodes(A) /\ Len(l.key) \in Nat
    BY LeavesAre DEF Nodes
  <2>3. j \in 1..Len(l.key) /\ j # Len(l.key)
    BY <2>1, <2>2
  <2>4. Way(l, j) = n /\ Len(n.key) = j
    BY <2>1, <2>2, <2>3, WayIs
  <2> QED  BY <2>1, <2>2, <2>4
<1> QED  BY <1>1, <1>2 DEF Nodes

-----------------------------------------------------------------------------
(* The nodes of a finite list are finitely many.                           *)
LEMMA NodesFinite ==
  ASSUME NEW A \in SUBSET Category, IsFiniteSet(A)
  PROVE  IsFiniteSet(Nodes(A))
<1>1. IsFiniteSet(Leaves(A))
  <2> DEFINE f == [c \in A |-> Leaf(c)]
  <2>1. f \in Surjection(A, Leaves(A))
    BY DEF Surjection, Leaves
  <2> QED  BY <2>1, FS_Surjection
<1> DEFINE Of(c) == {Branch(BranchKey(c, i)) : i \in 1..Depth(c)}
           T == {Of(c) : c \in A}
<1>2. \A U \in T : IsFiniteSet(U)
  <2> SUFFICES ASSUME NEW c \in A  PROVE IsFiniteSet(Of(c))
    OBVIOUS
  <2> DEFINE g == [i \in 1..Depth(c) |-> Branch(BranchKey(c, i))]
  <2>1. g \in Surjection(1..Depth(c), Of(c))
    BY DEF Surjection
  <2>2. IsFiniteSet(1..Depth(c))
    <3>1. Depth(c) \in Int /\ 1 \in Int
      BY LeafKey
    <3> QED  BY <3>1, FS_Interval
  <2> HIDE DEF Of, g
  <2> QED  BY <2>1, <2>2, FS_Surjection
<1>3. IsFiniteSet(T)
  <2> DEFINE h == [c \in A |-> Of(c)]
  <2>1. h \in Surjection(A, T)
    BY DEF Surjection
  <2> QED  BY <2>1, FS_Surjection
<1>4. IsFiniteSet(UNION T)
  <2> HIDE DEF T
  <2> QED  BY <1>2, <1>3, FS_UNION
<1>5. Branches(A) = UNION T
  BY DEF Branches
<1> QED  BY <1>1, <1>4, <1>5, FS_Union DEF Nodes

(* A set of numbers that has any has a first one.                          *)
LEMMA FirstOf ==
  ASSUME NEW T, T \subseteq Nat, T # {}
  PROVE  \E i \in T : \A j \in T : i <= j
<1> DEFINE Less == OpToRel(<, Nat)
<1>1. PICK i \in T : \A j \in T : <<j, i>> \notin Less
  <2>1. IsWellFoundedOn(Less, Nat)
    BY NatLessThanWellFounded
  <2> HIDE DEF Less
  <2> QED  BY <2>1, WFMin
<1>2. ASSUME NEW j \in T  PROVE i <= j
  <2>1. i \in Nat /\ j \in Nat /\ <<j, i>> \notin Less
    BY <1>1
  <2>2. ~(j < i)
    BY <2>1 DEF OpToRel
  <2>3. i \in Nat /\ j \in Nat
    BY <2>1
  <2> HIDE DEF Less
  <2> QED  BY <2>2, <2>3
<1> QED  BY <1>2

-----------------------------------------------------------------------------
(* What a node is folded into: the first on one way down that is a leaf,   *)
(* or does not have a single child.                                        *)
Single(A, b) == Cardinality(Children(A, b.key)) = 1
FoldOf(A, n, d) ==
  /\ d \in Nodes(A) /\ Len(n.key) <= Len(d.key) /\ Way(d, Len(n.key)) = n
  /\ d.kind = "leaf" \/ ~Single(A, d)
  /\ \A i \in Len(n.key)..(Len(d.key) - 1) : Single(A, Way(d, i))

(* A candidate and the condition as categoryTree.ts's fold has them.       *)
Candidates(A, n) == {n} \cup {m \in Leaves(A) \cup Branches(A) : n.kind = "branch" /\ Above(m, n.key)}
FoldsTo(A, n, d) ==
  /\ d.kind = "leaf" \/ Cardinality(Children(A, d.key)) # 1
  /\ \A b \in Branches(A) :
       IsPrefix(n.key, b.key) /\ Above(d, b.key) => Cardinality(Children(A, b.key)) = 1

LEMMA FoldsDown ==
  ASSUME NEW A \in SUBSET Category, NEW n \in Nodes(A), NEW d \in Candidates(A, n), FoldsTo(A, n, d)
  PROVE  FoldOf(A, n, d)
<1>1. d \in Nodes(A) /\ (d = n \/ (n.kind = "branch" /\ Above(d, n.key)))
  BY DEF Candidates, Nodes
<1>2. Len(n.key) \in Nat \ {0} /\ Len(d.key) \in Nat \ {0}
  BY <1>1, NodesAre
<1>3. Len(n.key) <= Len(d.key) /\ Way(d, Len(n.key)) = n
  <2>1. CASE d = n
    BY <1>2, <2>1 DEF Way
  <2>2. CASE n.kind = "branch" /\ Above(d, n.key)
    <3>1. n \in Branches(A)
      BY <2>2, NodesAre
    <3> QED  BY <1>1, <1>2, <2>2, <3>1, UnderBranch
  <2> QED  BY <1>1, <2>1, <2>2
<1>4. ASSUME NEW i \in Len(n.key)..(Len(d.key) - 1)  PROVE Single(A, Way(d, i))
  <2> DEFINE b == Way(d, i)
  <2>1. i \in 1..Len(d.key) /\ i # Len(d.key) /\ Len(n.key) \in 1..Len(d.key) /\ Len(n.key) # Len(d.key)
        /\ Len(n.key) \in 1..i
    BY <1>2
  <2>2. b \in Nodes(A) /\ Len(b.key) = i /\ b.kind = "branch"
    BY <1>1, <2>1, WayIs
  <2>3. Way(d, Len(n.key)).kind = "branch"
    BY <1>1, <2>1, WayIs
  <2>4. b \in Branches(A) /\ n \in Branches(A)
    BY <1>3, <2>2, <2>3, NodesAre
  <2>5. Way(b, Len(n.key)) = n
    BY <1>1, <1>3, <2>1, WayWay
  <2>6. Above(d, b.key)
    BY <1>1, <2>1, <2>2, <2>4, UnderBranch
  <2>7. IsPrefix(n.key, b.key)
    BY <2>1, <2>2, <2>4, <2>5, UnderBranch
  <2> QED  BY <2>4, <2>6, <2>7 DEF FoldsTo, Single
<1> QED  BY <1>1, <1>3, <1>4 DEF FoldOf, FoldsTo, Single

-----------------------------------------------------------------------------
(* The children of a node are finitely many; a single child is the only    *)
(* one.                                                                    *)
LEMMA ChildrenFinite ==
  ASSUME NEW A \in SUBSET Category, IsFiniteSet(A), NEW k
  PROVE  IsFiniteSet(Children(A, k)) /\ Cardinality(Children(A, k)) \in Nat
<1>1. Children(A, k) \subseteq Nodes(A)
  BY DEF Children, Nodes
<1>2. IsFiniteSet(Nodes(A))
  BY NodesFinite
<1>3. IsFiniteSet(Children(A, k))
  BY <1>1, <1>2, FS_Subset
<1> QED  BY <1>3, FS_CardinalityType

LEMMA OneOf ==
  ASSUME NEW S, IsFiniteSet(S), Cardinality(S) = 1, NEW x \in S, NEW y \in S
  PROVE  x = y
<1>1. PICK z : S = {z}
  BY FS_Singleton
<1> QED  BY <1>1

LEMMA ManyOf ==
  ASSUME NEW S, IsFiniteSet(S), NEW x \in S, NEW y \in S, x # y
  PROVE  Cardinality(S) > 1
<1>1. Cardinality(S) \in Nat
  BY FS_CardinalityType
<1>2. Cardinality(S) # 0
  BY FS_EmptySet
<1>3. Cardinality(S) # 1
  BY OneOf
<1> QED  BY <1>1, <1>2, <1>3

(* The next node on the way to a node is a child of the one before it.     *)
LEMMA NextChild ==
  ASSUME NEW A \in SUBSET Category, NEW n \in Nodes(A), NEW i \in 1..Len(n.key), i # Len(n.key)
  PROVE  /\ i + 1 \in 1..Len(n.key)
         /\ Way(n, i + 1) \in Children(A, Way(n, i).key)
<1>1. Len(n.key) \in Nat
  BY NodesAre
<1>2. i + 1 \in 1..Len(n.key) /\ i \in 1..(i + 1)
  BY <1>1
<1>3. Way(n, i) \in Nodes(A) /\ Way(n, i).kind = "branch" /\ Len(Way(n, i).key) = i
  BY WayIs
<1>4. Way(n, i) \in Branches(A)
  BY <1>3, NodesAre
<1>5. Way(n, i + 1) \in Nodes(A) /\ Len(Way(n, i + 1).key) = i + 1
  BY <1>2, WayIs
<1>6. Way(Way(n, i + 1), i) = Way(n, i)
  BY <1>2, WayWay
<1> QED  BY <1>2, <1>3, <1>4, <1>5, <1>6, UnderBranch

(* There is a node to fold into: down from the node, on the way to a leaf, *)
(* the first that is not a chain.                                          *)
LEMMA FoldsSome ==
  ASSUME NEW A \in SUBSET Category, NEW n \in Nodes(A)
  PROVE  \E d \in Candidates(A, n) : FoldsTo(A, n, d)
<1>1. PICK l \in Leaves(A) : Len(n.key) <= Len(l.key) /\ Way(l, Len(n.key)) = n
  BY LeafUnder
<1>2. l \in Nodes(A) /\ l.kind = "leaf" /\ Len(l.key) \in Nat \ {0} /\ Len(n.key) \in Nat \ {0}
  BY NodesAre, LeavesAre DEF Nodes
<1> DEFINE T == {i \in Len(n.key)..Len(l.key) : i = Len(l.key) \/ ~Single(A, Way(l, i))}
<1>3. PICK e \in T : \A j \in T : e <= j
  <2>1. Len(l.key) \in T /\ T \subseteq Nat
    BY <1>1, <1>2
  <2> HIDE DEF T
  <2> QED  BY <2>1, FirstOf
<1>4. e \in 1..Len(l.key) /\ Len(n.key) \in 1..e /\ (e = Len(l.key) \/ ~Single(A, Way(l, e)))
  BY <1>2
<1>5. \A i \in Len(n.key)..(e - 1) : Single(A, Way(l, i))
  BY <1>2, <1>3, <1>4
<1> DEFINE d == Way(l, e)
<1>6. d \in Nodes(A) /\ Len(d.key) = e /\ Way(d, Len(n.key)) = n
  BY <1>1, <1>2, <1>4, WayIs, WayWay
<1>7. d \in Candidates(A, n)
  <2>1. CASE Len(n.key) = e
    BY <1>6, <2>1 DEF Way, Candidates
  <2>2. CASE Len(n.key) # e
    <3>1. Len(n.key) < e
      BY <1>4, <2>2
    <3>2. Way(d, Len(n.key)).kind = "branch"
      BY <1>4, <1>6, <2>2, WayIs
    <3>3. n.kind = "branch" /\ n \in Branches(A)
      BY <1>6, <3>2, NodesAre
    <3>4. Above(d, n.key)
      BY <1>6, <3>1, <3>3, UnderBranch
    <3> QED  BY <1>6, <3>3, <3>4 DEF Candidates, Nodes
  <2> QED  BY <2>1, <2>2
<1>8. d.kind = "leaf" \/ Cardinality(Children(A, d.key)) # 1
  <2>1. CASE e = Len(l.key)
    BY <1>2, <2>1 DEF Way
  <2>2. CASE ~Single(A, Way(l, e))
    BY <2>2 DEF Single
  <2> QED  BY <1>4, <2>1, <2>2
<1>9. ASSUME NEW b \in Branches(A), IsPrefix(n.key, b.key), Above(d, b.key)
      PROVE  Cardinality(Children(A, b.key)) = 1
  <2>1. b \in Nodes(A) /\ Len(b.key) \in Nat \ {0} /\ b.key \in Seq(Label) /\ n.key \in Seq(Label)
    BY NodesAre DEF Nodes
  <2>2. Len(b.key) < e /\ Way(d, Len(b.key)) = b
    BY <1>6, <1>9, UnderBranch
  <2>3. Len(n.key) <= Len(b.key)
    BY <1>9, <2>1, PrefixIs
  <2>4. Len(b.key) \in Len(n.key)..(e - 1) /\ Len(b.key) \in 1..e
    BY <1>2, <1>4, <2>1, <2>2, <2>3
  <2>5. Way(l, Len(b.key)) = b
    BY <1>2, <1>4, <2>2, <2>4, WayWay
  <2>6. Single(A, b)
    BY <1>5, <2>4, <2>5
  <2> QED  BY <2>6 DEF Single
<1> QED  BY <1>7, <1>8, <1>9 DEF FoldsTo

LEMMA FoldedIs ==
  ASSUME NEW A \in SUBSET Category, NEW n \in Nodes(A)
  PROVE  FoldOf(A, n, Folded(A, n))
<1>1. Folded(A, n) = CHOOSE d \in Candidates(A, n) : FoldsTo(A, n, d)
  BY DEF Folded, Candidates, FoldsTo
<1>2. Folded(A, n) \in Candidates(A, n) /\ FoldsTo(A, n, Folded(A, n))
  BY <1>1, FoldsSome
<1> QED  BY <1>2, FoldsDown

(* A chain has one way out: every leaf below a node lies below what the    *)
(* node is folded into.                                                    *)
LEMMA FoldKeeps ==
  ASSUME NEW A \in SUBSET Category, IsFiniteSet(A), NEW n \in Nodes(A), NEW d, FoldOf(A, n, d),
         NEW l \in Leaves(A), Len(n.key) <= Len(l.key), Way(l, Len(n.key)) = n
  PROVE  Len(d.key) <= Len(l.key) /\ Way(l, Len(d.key)) = d
<1>1. /\ d \in Nodes(A) /\ Len(n.key) <= Len(d.key) /\ Way(d, Len(n.key)) = n
      /\ \A i \in Len(n.key)..(Len(d.key) - 1) : Single(A, Way(d, i))
  BY DEF FoldOf
<1>2. /\ l \in Nodes(A) /\ l.kind = "leaf" /\ Len(l.key) \in Nat \ {0}
      /\ Len(n.key) \in Nat \ {0} /\ Len(d.key) \in Nat \ {0}
  BY <1>1, NodesAre, LeavesAre DEF Nodes
<1> DEFINE T == {i \in Len(n.key)..Len(d.key) : ~(i <= Len(l.key) /\ Way(l, i) = Way(d, i))}
<1>3. ASSUME T # {}  PROVE FALSE
  <2>1. PICK e \in T : \A j \in T : e <= j
    <3>1. T \subseteq Nat
      BY <1>2
    <3> HIDE DEF T
    <3> QED  BY <1>3, <3>1, FirstOf
  <2>2. e \in Len(n.key)..Len(d.key) /\ ~(e <= Len(l.key) /\ Way(l, e) = Way(d, e)) /\ e # Len(n.key)
    BY <1>1
  <2> DEFINE f == e - 1
  <2>3. f \in Len(n.key)..(Len(d.key) - 1) /\ f \in 1..Len(d.key) /\ f # Len(d.key) /\ f + 1 = e
    BY <1>2, <2>2
  <2>4. f \notin T
    BY <1>2, <2>1, <2>3
  <2>5. f <= Len(l.key) /\ Way(l, f) = Way(d, f)
    BY <2>3, <2>4
  <2>6. Way(d, f) \in Nodes(A) /\ Way(d, f).kind = "branch"
    BY <1>1, <2>3, WayIs
  <2>7. f \in 1..Len(l.key) /\ f # Len(l.key)
    <3>1. f \in 1..Len(l.key)
      BY <1>2, <2>3, <2>5
    <3>2. Way(l, Len(l.key)) = l
      BY DEF Way
    <3> QED  BY <1>2, <2>5, <2>6, <3>1, <3>2
  <2>8. e <= Len(l.key) /\ Way(l, e) \in Children(A, Way(d, f).key)
    <3>1. f + 1 \in 1..Len(l.key) /\ Way(l, f + 1) \in Children(A, Way(l, f).key)
      BY <1>2, <2>7, NextChild
    <3>2. e \in 1..Len(l.key) /\ e <= Len(l.key)
      BY <1>2, <2>3, <3>1
    <3> QED  BY <2>3, <2>5, <3>1, <3>2
  <2>9. Way(d, e) \in Children(A, Way(d, f).key)
    BY <1>1, <2>3, NextChild
  <2>10. IsFiniteSet(Children(A, Way(d, f).key)) /\ Cardinality(Children(A, Way(d, f).key)) = 1
    BY <1>1, <2>3, ChildrenFinite DEF Single
  <2>11. Way(l, e) = Way(d, e)
    BY <2>8, <2>9, <2>10, OneOf
  <2> QED  BY <2>2, <2>8, <2>11
<1>4. Len(d.key) \in Len(n.key)..Len(d.key)
  BY <1>1, <1>2
<1>5. Way(d, Len(d.key)) = d
  BY DEF Way
<1> QED  BY <1>3, <1>4, <1>5

-----------------------------------------------------------------------------
(* A level of the picker: what it shows is its children, each folded below *)
(* the sections, and folding keeps what lies below.                        *)
LevelKey(A, k) == k = <<>> \/ \E b \in Branches(A) : k = b.key
Option(A, k, n) == IF k = <<>> THEN n ELSE Folded(A, n)

LEMMA ShownIs ==
  ASSUME NEW A, NEW k
  PROVE  Shown(A, k) = {Option(A, k, n) : n \in Children(A, k)}
BY DEF Shown, Option

LEMMA ChildIs ==
  ASSUME NEW A \in SUBSET Category, NEW k, LevelKey(A, k)
  PROVE  /\ Len(k) \in Nat
         /\ \A n \in Children(A, k) : n \in Nodes(A) /\ Len(n.key) = Len(k) + 1
         /\ \A l \in Leaves(A) : k = <<>> \/ Above(l, k) =>
              Len(k) + 1 <= Len(l.key) /\ Way(l, Len(k) + 1) \in Children(A, k)
<1>1. \A n \in Children(A, k) : n \in Nodes(A)
  BY DEF Children, Nodes
<1>2. \A l \in Leaves(A) : l \in Nodes(A) /\ Len(l.key) \in Nat \ {0}
  BY LeavesAre DEF Nodes
<1>3. CASE k = <<>>
  <2>1. Len(k) = 0
    BY <1>3
  <2>2. \A n \in Nodes(A) : Front(n.key) = <<>> <=> Len(n.key) = 1
    <3> SUFFICES ASSUME NEW n \in Nodes(A)  PROVE Front(n.key) = <<>> <=> Len(n.key) = 1
      OBVIOUS
    <3>1. n.key \in Seq(Label) /\ Len(n.key) \in Nat \ {0}
      BY NodesAre
    <3>2. Len(n.key) - 1 \in 0..Len(n.key)
      BY <3>1
    <3>3. Front(n.key) \in Seq(Label) /\ Len(Front(n.key)) = Len(n.key) - 1
      BY <3>1, <3>2, CutIs DEF Front, Cut
    <3>4. Len(Front(n.key)) = 0 <=> Front(n.key) = <<>>
      BY <3>3, EmptySeq
    <3> QED  BY <3>1, <3>3, <3>4
  <2>3. \A n \in Nodes(A) : n \in Children(A, k) <=> Len(n.key) = 1
    BY <1>3, <2>2 DEF Children, Nodes
  <2>4. ASSUME NEW l \in Leaves(A)  PROVE 1 <= Len(l.key) /\ Way(l, 1) \in Children(A, k)
    <3>1. l \in Nodes(A) /\ 1 \in 1..Len(l.key)
      BY <1>2
    <3> DEFINE one == 1
    <3>2. one \in 1..Len(l.key)
      BY <3>1
    <3> HIDE DEF one
    <3>3. Way(l, one) \in Nodes(A) /\ Len(Way(l, one).key) = one
      BY <3>1, <3>2, WayIs
    <3> QED  BY <2>3, <3>1, <3>3 DEF one
  <2> QED  BY <1>1, <2>1, <2>3, <2>4
<1>4. CASE \E b \in Branches(A) : k = b.key
  <2>1. PICK b \in Branches(A) : k = b.key
    BY <1>4
  <2>2. b \in Nodes(A) /\ Len(k) \in Nat \ {0} /\ k # <<>>
    <3>1. b \in Nodes(A) /\ Len(k) \in Nat \ {0}
      BY <2>1, NodesAre DEF Nodes
    <3> QED  BY <3>1
  <2>3. \A n \in Children(A, k) : Len(n.key) = Len(k) + 1
    BY <1>1, <2>1, UnderBranch
  <2>4. ASSUME NEW l \in Leaves(A), Above(l, k)
        PROVE  Len(k) + 1 <= Len(l.key) /\ Way(l, Len(k) + 1) \in Children(A, k)
    <3>1. Len(k) < Len(l.key) /\ Way(l, Len(k)) = b
      BY <1>2, <2>1, <2>4, UnderBranch
    <3>2. Len(k) \in 1..Len(l.key) /\ Len(k) # Len(l.key)
      BY <1>2, <2>2, <3>1
    <3>3. Len(k) + 1 \in 1..Len(l.key) /\ Way(l, Len(k) + 1) \in Children(A, k)
      BY <1>2, <2>1, <3>1, <3>2, NextChild
    <3> QED  BY <3>3
  <2> QED  BY <1>1, <2>2, <2>3, <2>4
<1> QED  BY <1>3, <1>4 DEF LevelKey

LEMMA BelowOption ==
  ASSUME NEW A \in SUBSET Category, IsFiniteSet(A), NEW n \in Nodes(A), NEW k
  PROVE  /\ Option(A, k, n) \in Nodes(A)
         /\ \A l \in Leaves(A) : l \in LeavesBelow(A, Option(A, k, n)) <=> l \in LeavesBelow(A, n)
<1>1. CASE k = <<>>
  BY <1>1 DEF Option
<1>2. CASE k # <<>>
  <2> DEFINE d == Folded(A, n)
  <2>1. FoldOf(A, n, d)
    BY FoldedIs
  <2>2. d \in Nodes(A) /\ Len(n.key) <= Len(d.key) /\ Way(d, Len(n.key)) = n
    BY <2>1 DEF FoldOf
  <2> HIDE DEF d
  <2>3. Len(d.key) \in Nat /\ Len(n.key) \in Nat \ {0}
    BY <2>2, NodesAre
  <2>4. ASSUME NEW l \in Leaves(A)  PROVE l \in LeavesBelow(A, d) <=> l \in LeavesBelow(A, n)
    <3>1. l \in Nodes(A) /\ Len(l.key) \in Nat
      BY LeavesAre DEF Nodes
    <3>2. l \in LeavesBelow(A, n) <=> Len(n.key) <= Len(l.key) /\ Way(l, Len(n.key)) = n
      BY BelowIs
    <3>3. l \in LeavesBelow(A, d) <=> Len(d.key) <= Len(l.key) /\ Way(l, Len(d.key)) = d
      BY <2>2, BelowIs
    <3>4. ASSUME l \in LeavesBelow(A, n)  PROVE l \in LeavesBelow(A, d)
      BY <2>1, <3>2, <3>3, <3>4, FoldKeeps
    <3>5. ASSUME l \in LeavesBelow(A, d)  PROVE l \in LeavesBelow(A, n)
      <4>1. Len(d.key) \in 1..Len(l.key) /\ Len(n.key) \in 1..Len(d.key) /\ Len(n.key) <= Len(l.key)
        BY <2>2, <2>3, <3>1, <3>3, <3>5
      <4>2. Way(Way(l, Len(d.key)), Len(n.key)) = Way(l, Len(n.key))
        BY <3>1, <4>1, WayWay
      <4> QED  BY <2>2, <3>2, <3>3, <3>5, <4>1, <4>2
    <3> QED  BY <3>4, <3>5
  <2> QED  BY <1>2, <2>2, <2>4 DEF Option, d
<1> QED  BY <1>1, <1>2

(* Each leaf below a level lies behind exactly one of its options.         *)
LEMMA BehindOne ==
  ASSUME NEW A \in SUBSET Category, IsFiniteSet(A), NEW k, LevelKey(A, k),
         NEW l \in Leaves(A), k = <<>> \/ Above(l, k)
  PROVE  Cardinality({n \in Shown(A, k) : l \in LeavesBelow(A, n)}) = 1
<1> DEFINE w == Way(l, Len(k) + 1)
<1>1. Len(k) \in Nat /\ Len(k) + 1 <= Len(l.key) /\ w \in Children(A, k)
  BY ChildIs
<1>2. ASSUME NEW n \in Children(A, k)  PROVE l \in LeavesBelow(A, Option(A, k, n)) <=> n = w
  <2>1. n \in Nodes(A) /\ Len(n.key) = Len(k) + 1
    BY ChildIs
  <2>2. l \in LeavesBelow(A, n) <=> Len(n.key) <= Len(l.key) /\ Way(l, Len(n.key)) = n
    BY <2>1, BelowIs
  <2>3. l \in LeavesBelow(A, Option(A, k, n)) <=> l \in LeavesBelow(A, n)
    BY <2>1, BelowOption
  <2> QED  BY <1>1, <2>1, <2>2, <2>3
<1> HIDE DEF w
<1>3. {n \in Shown(A, k) : l \in LeavesBelow(A, n)} = {Option(A, k, w)}
  BY <1>1, <1>2, ShownIs
<1> QED  BY <1>3, FS_Singleton

(* Something lies behind every option, and below the sections an option    *)
(* that is a branch opens a level of more than one.                        *)
LEMMA RealChoice ==
  ASSUME NEW A \in SUBSET Category, IsFiniteSet(A), NEW k, LevelKey(A, k), NEW n \in Shown(A, k)
  PROVE  /\ LeavesBelow(A, n) # {}
         /\ k # <<>> /\ n.kind = "branch" => Cardinality(Shown(A, n.key)) > 1
<1>1. PICK m \in Children(A, k) : n = Option(A, k, m)
  BY ShownIs
<1>2. m \in Nodes(A)
  BY ChildIs
<1>3. n \in Nodes(A)
  BY <1>1, <1>2, BelowOption
<1>4. PICK l \in Leaves(A) : Len(n.key) <= Len(l.key) /\ Way(l, Len(n.key)) = n
  BY <1>3, LeafUnder
<1>5. l \in LeavesBelow(A, n)
  BY <1>3, <1>4, BelowIs
<1>6. ASSUME k # <<>>, n.kind = "branch"  PROVE Cardinality(Shown(A, n.key)) > 1
  <2>1. ~Single(A, n)
    <3>1. FoldOf(A, m, n)
      BY <1>1, <1>2, <1>6, FoldedIs DEF Option
    <3> QED  BY <1>6, <3>1 DEF FoldOf
  <2>2. l \in Nodes(A) /\ l.kind = "leaf" /\ Len(l.key) \in Nat
    BY LeavesAre DEF Nodes
  <2>3. Len(n.key) \in Nat \ {0} /\ n \in Branches(A)
    BY <1>3, <1>6, NodesAre
  <2>4. Len(n.key) \in 1..Len(l.key) /\ Len(n.key) # Len(l.key)
    BY <1>4, <1>6, <2>2, <2>3 DEF Way
  <2> DEFINE x == Way(l, Len(n.key) + 1)
  <2>5. x \in Children(A, n.key)
    BY <1>4, <2>2, <2>4, NextChild
  <2>6. PICK y \in Children(A, n.key) : y # x
    <3>1. Children(A, n.key) # {x}
      BY <2>1, FS_Singleton DEF Single
    <3> HIDE DEF x
    <3> QED  BY <2>5, <3>1
  <2>7. LevelKey(A, n.key) /\ n.key # <<>>
    BY <2>3 DEF LevelKey
  <2> HIDE DEF x
  <2>8. Option(A, n.key, x) # Option(A, n.key, y)
    <3>1. /\ x \in Nodes(A) /\ Len(x.key) = Len(n.key) + 1
          /\ y \in Nodes(A) /\ Len(y.key) = Len(n.key) + 1
      BY <2>5, <2>7, ChildIs
    <3>2. Way(Folded(A, x), Len(x.key)) = x /\ Way(Folded(A, y), Len(y.key)) = y
      BY <3>1, FoldedIs DEF FoldOf
    <3> QED  BY <2>6, <2>7, <3>1, <3>2 DEF Option
  <2>9. Option(A, n.key, x) \in Shown(A, n.key) /\ Option(A, n.key, y) \in Shown(A, n.key)
    BY <2>5, ShownIs
  <2>10. IsFiniteSet(Shown(A, n.key))
    <3> DEFINE f == [c \in Children(A, n.key) |-> Option(A, n.key, c)]
    <3>1. f \in Surjection(Children(A, n.key), Shown(A, n.key))
      BY ShownIs DEF Surjection
    <3>2. IsFiniteSet(Children(A, n.key))
      BY ChildrenFinite
    <3> HIDE DEF f
    <3> QED  BY <3>1, <3>2, FS_Surjection
  <2> QED  BY <2>8, <2>9, <2>10, ManyOf
<1> QED  BY <1>5, <1>6

(* The picker hides nothing and asks no needless question, whatever finite *)
(* list of categories it is given.                                         *)
LEMMA PickerTree ==
  ASSUME cats \in SUBSET Category, IsFiniteSet(cats)
  PROVE  PickerWhole
<1>1. ASSUME NEW s \in Sides, NEW k \in Reachable(Offered(cats, s))
      PROVE  /\ \A l \in Leaves(Offered(cats, s)) : k = <<>> \/ Above(l, k) =>
                  Cardinality({n \in Shown(Offered(cats, s), k) :
                                 l \in LeavesBelow(Offered(cats, s), n)}) = 1
             /\ \A n \in Shown(Offered(cats, s), k) :
                  /\ LeavesBelow(Offered(cats, s), n) # {}
                  /\ k # <<>> /\ n.kind = "branch" => Cardinality(Shown(Offered(cats, s), n.key)) > 1
  <2> DEFINE A == Offered(cats, s)
  <2>1. A \subseteq cats
    BY DEF Offered
  <2>2. A \in SUBSET Category /\ IsFiniteSet(A)
    BY <2>1, FS_Subset
  <2>3. LevelKey(A, k)
    BY DEF Reachable, LevelKey
  <2> HIDE DEF A
  <2>4. /\ \A l \in Leaves(A) : k = <<>> \/ Above(l, k) =>
             Cardinality({n \in Shown(A, k) : l \in LeavesBelow(A, n)}) = 1
        /\ \A n \in Shown(A, k) :
             /\ LeavesBelow(A, n) # {}
             /\ k # <<>> /\ n.kind = "branch" => Cardinality(Shown(A, n.key)) > 1
    BY <2>2, <2>3, BehindOne, RealChoice
  <2> QED  BY <2>4 DEF A
<1>2. \A c : sideOf(c.code) \in {"income", "expense", "both"}
  BY DEF sideOf
<1>3. \A c \in cats : \E s \in Sides \ {"both"} : c \in Offered(cats, s)
  <2> SUFFICES ASSUME NEW c \in cats
               PROVE  \E s \in Sides \ {"both"} : c \in Offered(cats, s)
    OBVIOUS
  <2>1. CASE sideOf(c.code) = "expense"
    <3>1. "expense" \in Sides \ {"both"} /\ c \in Offered(cats, "expense")
      BY <2>1 DEF Sides, Offered
    <3> QED  BY <3>1
  <2>2. CASE sideOf(c.code) # "expense"
    <3>1. "income" \in Sides \ {"both"} /\ c \in Offered(cats, "income")
      BY <1>2, <2>2 DEF Sides, Offered
    <3> QED  BY <3>1
  <2> QED  BY <2>1, <2>2
<1>4. Offered(cats, "income") \cap Offered(cats, "expense") = {c \in cats : sideOf(c.code) = "both"}
  BY <1>2 DEF Offered
<1> QED  BY <1>1, <1>3, <1>4 DEF PickerWhole
=============================================================================
