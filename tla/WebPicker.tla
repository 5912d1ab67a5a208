----------------------------- MODULE WebPicker -----------------------------
(***************************************************************************)
(* The category picker of the review screen (web/src/app/categoryTree.ts): *)
(* the leaves the server lists, as a tree walked one level at a time, with *)
(* the chains that lead to one place folded and only one side of the P&L   *)
(* offered.  Pure functions of the listed categories.                      *)
(*                                                                         *)
(* A code is the sequence of its two-character levels, a path the sequence *)
(* of its names.  A node is named by its key, the sequence of the parts on *)
(* the way to it.                                                          *)
(***************************************************************************)
EXTENDS Naturals, FiniteSets, SequencesExt

CONSTANT Catalogs    \* the lists of leaves ListCategories may answer with

VARIABLE cats        \* the list this session was given

\* A leaf of the chart of categories, by the levels of its code and its names.
Category == [code : Seq(STRING), path : Seq(STRING)]

Sides == {"income", "expense", "both"}

\* Sections and the branches that split a mixed section, by code prefix.
SideTable ==
  [income  |-> {<<"01">>, <<"05", "02">>, <<"06", "02">>},
   expense |-> {<<"02">>, <<"03">>, <<"04">>, <<"05", "01">>, <<"07">>, <<"08">>}]

sideOf(code) ==
  IF \E p \in SideTable.income : IsPrefix(p, code) THEN "income"
  ELSE IF \E p \in SideTable.expense : IsPrefix(p, code) THEN "expense" ELSE "both"

\* What is offered to a group of one side; "both" when the sign says nothing
\* or the reviewer asked for the rest.
Offered(all, side) ==
  {c \in all : side = "both" \/ sideOf(c.code) \in {side, "both"}}

-----------------------------------------------------------------------------
Aligned(c) == Len(c.code) = Len(c.path)

\* How many branches stand above a leaf: its path names the leaf itself last.
Depth(c) == IF c.path = <<>> THEN 0 ELSE Len(c.path) - 1

\* The part of a key that stands for the i-th ancestor: the code cut to its
\* level, or the wire's own name where code and path do not line up.
Part(c, i) == IF Aligned(c) THEN <<"code">> \o SubSeq(c.code, 1, i) ELSE <<"name", c.path[i]>>

BranchKey(c, i) == [j \in 1..i |-> Part(c, j)]

Branch(k) == [kind |-> "branch", key |-> k]
Leaf(c) == [kind |-> "leaf", key |-> Append(BranchKey(c, Depth(c)), <<"code">> \o c.code)]

Leaves(all) == {Leaf(c) : c \in all}
Branches(all) == UNION {{Branch(BranchKey(c, i)) : i \in 1..Depth(c)} : c \in all}

\* buildCategoryTree before folding: a node hangs under the key without its
\* last part.
Children(all, k) == {n \in Leaves(all) \cup Branches(all) : Front(n.key) = k}

Above(n, k) == IsStrictPrefix(k, n.key)
LeavesBelow(all, n) == IF n.kind = "leaf" THEN {n} ELSE {l \in Leaves(all) : Above(l, n.key)}

-----------------------------------------------------------------------------
\* Mutant: a fork of two counts as a chain.
FoldedShort(all, n) ==
  CHOOSE d \in {n} \cup {m \in Leaves(all) \cup Branches(all) : n.kind = "branch" /\ Above(m, n.key)} :
    /\ d.kind = "leaf" \/ Cardinality(Children(all, d.key)) > 2
    /\ \A b \in Branches(all) :
         IsPrefix(n.key, b.key) /\ Above(d, b.key) => Cardinality(Children(all, b.key)) <= 2

\* fold: below a section, a branch with a single child gives way to it.
Folded(all, n) ==
  CHOOSE d \in {n} \cup {m \in Leaves(all) \cup Branches(all) : n.kind = "branch" /\ Above(m, n.key)} :
    /\ d.kind = "leaf" \/ Cardinality(Children(all, d.key)) # 1
    /\ \A b \in Branches(all) :
         IsPrefix(n.key, b.key) /\ Above(d, b.key) => Cardinality(Children(all, b.key)) = 1

\* What a level shows: the sections as they are, everything below folded.
Shown(all, k) ==
  IF k = <<>> THEN Children(all, k) ELSE {Folded(all, n) : n \in Children(all, k)}

\* Where the remembered keys still lead: as far as each is a branch of the
\* level before it.
openPath(all, keys) ==
  LET holds(i) == \A j \in 1..i :
        Branch(keys[j]) \in Shown(all, IF j = 1 THEN <<>> ELSE keys[j - 1])
  IN  SubSeq(keys, 1, CHOOSE i \in 0..Len(keys) : holds(i) /\ (i = Len(keys) \/ ~holds(i + 1)))

Level(all, keys) ==
  LET open == openPath(all, keys) IN Shown(all, IF open = <<>> THEN <<>> ELSE Last(open))

-----------------------------------------------------------------------------
\* The levels a reviewer can get to.
Reachable(all) ==
  {<<>>} \cup {n.key : n \in {b \in Branches(all) :
    \/ Len(b.key) = 1
    \/ \E s \in Branches(all) : Above(b, s.key) /\ b \in Shown(all, s.key)}}

(* Walking the tree hides nothing and asks no needless question: at every  *)
(* level, of every list and side, each leaf below it lies behind exactly   *)
(* one of the options shown; below the sections an option that is a branch *)
(* is a real choice; and an outflow is never shown an income-only leaf     *)
(* while every leaf is offered to somebody.  categoryTree.ts:15-20, where  *)
(* "the folded node keeps both names so nothing is hidden".                *)
PickerWhole ==
  \A side \in Sides :
    LET all == Offered(cats, side) IN
    /\ \A k \in Reachable(all) :
         /\ \A l \in Leaves(all) : k = <<>> \/ Above(l, k) =>
              Cardinality({n \in Shown(all, k) : l \in LeavesBelow(all, n)}) = 1
         /\ \A n \in Shown(all, k) :
              /\ LeavesBelow(all, n) # {}
              /\ k # <<>> /\ n.kind = "branch" => Cardinality(Shown(all, n.key)) > 1
    /\ \A c \in cats : \E s \in Sides \ {"both"} : c \in Offered(cats, s)
    /\ Offered(cats, "income") \cap Offered(cats, "expense") =
         {c \in cats : sideOf(c.code) = "both"}
=============================================================================
