------------------------------ MODULE MatchAST ------------------------------
(***************************************************************************)
(* The matching loop of LHSTemplate::matchAST.  The template is traversed  *)
(* once, and every potential match in the source files follows it step by  *)
(* step: a potential match that cannot take the step is dropped, one that  *)
(* meets a metavariable is copied for every run of siblings that the       *)
(* metavariable may stand for.  A traversal is a stack of levels, a list   *)
(* of siblings and the position in it: the levels are what the stack of    *)
(* parents and currNodeIdx of ASTTraversalState denote.                    *)
(***************************************************************************)
EXTENDS ASTNode

CONSTANTS
  Identifier,    \* of metavariables
  Inputs

Metavariable == [identifier : Identifier, nameOnly : BOOLEAN]

Input ==
  [ subtrees : Seq(Node) \ {<< >>},      \* of the template
    metas    : [Node -> {{}} \cup {{m} : m \in Metavariable}],
                                         \* what a template node maps to, if it
                                         \* does
    content  : [Node -> Content],
    parts    : [Node -> Parts],
    main     : SUBSET Node ]             \* source nodes the finder looks at

ASSUME InputsAssumption == Inputs \subseteq Input

VARIABLES
  input,           \* never changes
  phase,           \* "gather", "match", "matched" or "crashed"
  trav,            \* the levels of the template traversal, top last
  backtracked,     \* the current template node's children were accessed
  potentials       \* the potential matches

vars == <<input, phase, trav, backtracked, potentials>>

-----------------------------------------------------------------------------
(* ASTTraversalState                                                       *)

Level == [sibs : Seq(Node), at : Nat \ {0}]

LevelOf_FromZero(sibs) == [sibs |-> sibs, at |-> 0]

LevelOf(sibs) == [sibs |-> sibs, at |-> 1]

KindOf(n) == input.content[n].kind

Kids(n) == GetChildren(KindOf(n), input.parts[n])

Top(t) == t[Len(t)]

GetCurrent(t) == Top(t).sibs[Top(t).at]

IsLastChild(t) == Top(t).at = Len(Top(t).sibs)

HasChildren(t) == Kids(GetCurrent(t)) # << >>

BacktrackToParent(t) == SubSeq(t, 1, Len(t) - 1)

MoveTo(t, i) == [t EXCEPT ![Len(t)] = [sibs |-> Top(t).sibs, at |-> i]]

NextSibling(t) == MoveTo(t, Top(t).at + 1)

DescendToChild(t) == Append(t, LevelOf(Kids(GetCurrent(t))))

(* std::map::insert leaves a binding that is there as it is.               *)
Insert(binds, id, nodes) ==
  IF id \in DOMAIN binds THEN binds
  ELSE [k \in DOMAIN binds \cup {id} |-> IF k = id THEN nodes ELSE binds[k]]

Instantiate(pot, meta) ==
  [pot EXCEPT !.binds = Insert(@, meta.identifier, <<GetCurrent(pot.levels)>>)]

ExtendForMetavariable_NotToTheLast(pot, meta) ==
  LET top == Top(pot.levels)
  IN  { [pot EXCEPT !.levels = MoveTo(@, i),
                    !.binds = Insert(@, meta.identifier,
                                     SubSeq(top.sibs, top.at, i))] :
          i \in top.at .. Len(top.sibs) - 1 }

(* One copy of pot for each run of siblings from the current one on.       *)
ExtendForMetavariable(pot, meta) ==
  LET top == Top(pot.levels)
  IN  { [pot EXCEPT !.levels = MoveTo(@, i),
                    !.binds = Insert(@, meta.identifier,
                                     SubSeq(top.sibs, top.at, i))] :
          i \in top.at .. Len(top.sibs) }

(* filter, then foreach.                                                   *)
Filter(pots, keeps(_)) == {pot \in pots : keeps(pot.levels)}

ForEach(pots, move(_)) == {[pot EXCEPT !.levels = move(@)] : pot \in pots}


-----------------------------------------------------------------------------

Init ==
  /\ input \in Inputs
  /\ phase = "gather"
  /\ trav = << >>
  /\ backtracked = FALSE
  /\ potentials = {}

(* fromParentAndChild: the siblings from a node on up to each later one.   *)
PotentialMatch(sibs) ==
  [root |-> sibs, levels |-> <<LevelOf(sibs)>>, binds |-> << >>]

(* PotentialMatchFinder: a child of a node of its own, in the main file,   *)
(* with the kind of the first node of the template.                        *)
PotentialRoots ==
  (UNION { { SubSeq(Kids(p), i, j) :
               i \in {k \in DOMAIN Kids(p) :
                        /\ Kids(p)[k] \in input.main
                        /\ KindOf(Kids(p)[k]) = KindOf(input.subtrees[1])},
               j \in DOMAIN Kids(p) } :
           p \in {n \in Node : KindOf(n) # NoKind} }) \ {<< >>}

GatherPotentialMatches ==
  /\ phase = "gather"
  /\ potentials' = {PotentialMatch(r) : r \in PotentialRoots}
  /\ trav' = <<LevelOf(input.subtrees)>>
  /\ phase' = "match"
  /\ UNCHANGED <<input, backtracked>>

curr == GetCurrent(trav)

Meta == CHOOSE m \in input.metas[curr] : TRUE

(* The three ways in which the template traversal goes on.  The potential  *)
(* matches among pots that keep up with it go on likewise.                 *)
GoUp_AsFromSibling(pots) ==
  /\ potentials' = ForEach(Filter(pots, IsLastChild), BacktrackToParent)
  /\ trav' = BacktrackToParent(trav)
  /\ backtracked' = FALSE

GoUp(pots) ==
  /\ potentials' = ForEach(Filter(pots, IsLastChild), BacktrackToParent)
  /\ trav' = BacktrackToParent(trav)
  /\ backtracked' = TRUE

GoOn(pots) ==
  /\ potentials' =
       ForEach(Filter(pots, LAMBDA l : ~ IsLastChild(l)), NextSibling)
  /\ trav' = NextSibling(trav)
  /\ backtracked' = FALSE

GoDown_Childless(pots) ==
  /\ potentials' = ForEach(pots, DescendToChild)
  /\ trav' = DescendToChild(trav)
  /\ backtracked' = FALSE

GoDown(pots) ==
  /\ potentials' = ForEach(Filter(pots, HasChildren), DescendToChild)
  /\ trav' = DescendToChild(trav)
  /\ backtracked' = FALSE

Matching == phase = "match" /\ trav # << >>

AfterChildren ==
  /\ Matching /\ backtracked
  /\ IF IsLastChild(trav) THEN GoUp(potentials) ELSE GoOn(potentials)
  /\ UNCHANGED <<input, phase>>

GoOnFrom_SkipsChildren(pots) ==
  IF HasChildren(trav) THEN GoDown(pots)
  ELSE IF IsLastChild(trav) THEN GoUp(pots)
  ELSE GoOn(pots)

(* Lines shared by plain nodes and name-only metavariables.                *)
GoOnFrom(pots) ==
  LET childless == Filter(pots, LAMBDA l : ~ HasChildren(l))
  IN  IF HasChildren(trav) THEN GoDown(pots)
      ELSE IF IsLastChild(trav) THEN GoUp(childless)
      ELSE GoOn(childless)

Comparing ==
  /\ Matching /\ ~ backtracked
  /\ \A m \in input.metas[curr] : m.nameOnly

Alike(pot, nameOnly) ==
  Compare(input.content[curr], input.content[GetCurrent(pot.levels)], nameOnly)

Defined ==
  \A pot \in potentials :
    ~ NullDereference(input.content[curr], input.content[GetCurrent(pot.levels)],
                      input.metas[curr] # {})

ComparePlain ==
  /\ Comparing /\ input.metas[curr] = {} /\ Defined
  /\ GoOnFrom({pot \in potentials : Alike(pot, FALSE)})
  /\ UNCHANGED <<input, phase>>

CompareNameOnly ==
  /\ Comparing /\ input.metas[curr] # {} /\ Defined
  /\ LET same == {pot \in potentials : Alike(pot, TRUE)}
     IN  GoOnFrom({Instantiate(pot, Meta) : pot \in same})
  /\ UNCHANGED <<input, phase>>

CompareCrashes ==
  /\ Comparing /\ ~ Defined
  /\ phase' = "crashed"
  /\ UNCHANGED <<input, trav, backtracked, potentials>>

(* A metavariable that stands for whole subtrees.  The template goes on    *)
(* behind the last of the siblings that map to the same identifier.        *)
SameMetavariable(n) ==
  \E m \in input.metas[n] : m.identifier = Meta.identifier

NextOther ==
  LET top == Top(trav)
      others == {i \in top.at + 1 .. Len(top.sibs) :
                   ~ SameMetavariable(top.sibs[i])}
  IN  {i \in others : \A j \in others : i <= j}

Extended == UNION {ExtendForMetavariable(pot, Meta) : pot \in potentials}

AtMetavariable ==
  /\ Matching /\ ~ backtracked
  /\ \E m \in input.metas[curr] : ~ m.nameOnly

MetavariableLast ==
  /\ AtMetavariable /\ IsLastChild(trav)
  /\ GoUp(Extended)
  /\ UNCHANGED <<input, phase>>

Proceeded == ForEach(Filter(Extended, LAMBDA l : ~ IsLastChild(l)), NextSibling)

MetavariableThenOther ==
  /\ AtMetavariable /\ ~ IsLastChild(trav)
  /\ \E i \in NextOther : trav' = MoveTo(trav, i)
  /\ potentials' = Proceeded
  /\ backtracked' = FALSE
  /\ UNCHANGED <<input, phase>>

(* All the siblings that follow map to the same identifier.                *)
MetavariableToTheEnd ==
  /\ AtMetavariable /\ ~ IsLastChild(trav) /\ NextOther = {}
  /\ GoUp(Proceeded)
  /\ UNCHANGED <<input, phase>>

Processed ==
  /\ phase = "match" /\ trav = << >>
  /\ phase' = "matched"
  /\ UNCHANGED <<input, trav, backtracked, potentials>>

Finished == phase \in {"matched", "crashed"} /\ UNCHANGED vars

Next ==
  \/ GatherPotentialMatches \/ AfterChildren \/ ComparePlain
  \/ CompareNameOnly \/ CompareCrashes \/ MetavariableLast
  \/ MetavariableThenOther \/ MetavariableToTheEnd \/ Processed \/ Finished

(* One thread runs the loop, and nothing in it waits.                      *)
Spec == Init /\ [][Next]_vars /\ WF_vars(Next)

-----------------------------------------------------------------------------
(* Properties                                                              *)

Bindings == UNION {[ids -> Seq(Node)] : ids \in SUBSET Identifier}

(* The traversal of the template and those of the potential matches are    *)
(* stacks of sibling lists, and what is bound is a list of nodes.          *)
TypeOK ==
  /\ input \in Input
  /\ phase \in {"gather", "match", "matched", "crashed"}
  /\ trav \in Seq(Level)
  /\ backtracked \in BOOLEAN
  /\ \A pot \in potentials :
       /\ pot.root \in Seq(Node)
       /\ pot.levels \in Seq(Level)
       /\ DOMAIN pot.binds \subseteq Identifier
       /\ \A id \in DOMAIN pot.binds : pot.binds[id] \in Seq(Node)

(* Every level has a current node: no step asks for one beyond the list,   *)
(* so "No more siblings" and "No children" are never thrown.               *)
OnANode(t) == \A d \in DOMAIN t : t[d].at \in DOMAIN t[d].sibs

(* The parent of the siblings in a level is the current node of the level  *)
(* below: what backtrackToParent relies on when it looks for the parent.   *)
Nested(t) ==
  \A d \in 2 .. Len(t) : t[d].sibs = Kids(t[d - 1].sibs[t[d - 1].at])

(* All that keeps the template and the potential matches together is that  *)
(* the same moves are applied to both: each potential match is as deep in  *)
(* its file as the template traversal is in the template, on a node, and   *)
(* has come to its end exactly when the template has.                      *)
LockStep ==
  phase # "gather" =>
    /\ OnANode(trav) /\ Nested(trav)
    /\ \A pot \in potentials :
         /\ Len(pot.levels) = Len(trav)
         /\ OnANode(pot.levels) /\ Nested(pot.levels)
         /\ pot.levels # << >> => pot.levels[1].sibs = pot.root

Contents == {input.content[n] : n \in {k \in Node : KindOf(k) # NoKind}}

(* compare() asks two dozen questions, down through declarations and       *)
(* types, each on its own; together they must not be one-sided: which      *)
(* sources a template finds does not depend on which of several nodes that *)
(* match each other it was written with.                                   *)
AlikeIsEquivalence ==
  phase = "gather" =>
  \A b \in BOOLEAN : \A k, l, m \in Contents :
    /\ Compare(k, k, b)
    /\ Compare(k, l, b) => Compare(l, k, b)
    /\ Compare(k, l, b) /\ Compare(l, m, b) => Compare(k, m, b)

Named(c) ==
  IF c.kind \in ReferringStmts THEN {c.decl.name}
  ELSE IF c.kind \in NamedDecls THEN {c.name} ELSE {}

(* The flag nameOnly is passed down, or not, at each of these questions.   *)
(* What it forgives is a difference of the node's own name, not of the     *)
(* type, the access or the names in the type ("ignore differences in name",*)
(* LHSComparators.hpp:26).                                                 *)
NameOnlyForgivesName ==
  phase = "gather" =>
  \A k, l \in Contents :
    Compare(k, l, FALSE) <=> Compare(k, l, TRUE) /\ Named(k) = Named(l)

MapsTo(t, id) == \E m \in input.metas[t] : m.identifier = id

(* A metavariable stands for several siblings, the last one among them.    *)
RunToTheEnd ==
  \E sibs \in {input.subtrees} \cup {Kids(n) : n \in Node} :
    \E i \in 1 .. Len(sibs) - 1 : \E m \in input.metas[sibs[i]] :
      ~ m.nameOnly /\ \A k \in i + 1 .. Len(sibs) : MapsTo(sibs[k], m.identifier)

(* The identifier id is that of one metavariable: it is on one node, or    *)
(* stands for a whole run of siblings.                                     *)
OnOneRun(id) ==
  LET on == {t \in Node : MapsTo(t, id)}
  IN  \E sibs \in {input.subtrees} \cup {Kids(n) : n \in Node} :
        \E i, j \in DOMAIN sibs :
          /\ i <= j
          /\ on = {sibs[k] : k \in i .. j}
          /\ i = j \/ \A t \in on : \A m \in input.metas[t] : ~ m.nameOnly

(* The doc of _metavariables and the comments of the loop: a metavariable  *)
(* may represent several subtrees, and the loop goes on behind all of      *)
(* them.  So the template matches the text it was made from, and each      *)
(* metavariable stands there for the nodes it was written over.            *)
MatchesItself ==
  (phase = "matched" /\ input.subtrees \in PotentialRoots) =>
    \E pot \in potentials :
      /\ pot.root = input.subtrees
      /\ \A id \in Identifier : OnOneRun(id) =>
           /\ id \in DOMAIN pot.binds
           /\ {t \in Node : MapsTo(t, id)}
                = {pot.binds[id][i] : i \in DOMAIN pot.binds[id]}

(* The loop drops a potential match for good whenever it falls out of step *)
(* with the template, yet never the text the template was made from: it is *)
(* found, with each metavariable on its own nodes, unless a metavariable   *)
(* runs to the end of a list of siblings.                                  *)
MatchesItselfElsewhere == ~ RunToTheEnd => MatchesItself

(* The nodes that the traversal of the template comes to: the subtrees,    *)
(* and the children of a node it comes to, unless a metavariable stands    *)
(* for the whole of the node.                                              *)
KidsIn(in, n) == GetChildren(in.content[n].kind, in.parts[n])

ClosedIn(in, V) ==
  \A n \in V : (\A m \in in.metas[n] : m.nameOnly) =>
    \A i \in DOMAIN KidsIn(in, n) : KidsIn(in, n)[i] \in V

Reached(in) ==
  LET closed == {V \in SUBSET Node :
                   /\ \A i \in DOMAIN in.subtrees : in.subtrees[i] \in V
                   /\ ClosedIn(in, V)}
  IN  {n \in Node : \A V \in closed : n \in V}

(* No node of the template is below itself or in two places: it has an     *)
(* interval of numbers, behind those of the siblings before it and inside  *)
(* that of its parent.                                                     *)
Follow(first, last, s) ==
  \A i, j \in DOMAIN s : i < j => last[s[i]] < first[s[j]]

NumberedBy(in, first, last) ==
  /\ Follow(first, last, in.subtrees)
  /\ \A n \in Reached(in) :
       /\ first[n] <= last[n]
       /\ Follow(first, last, KidsIn(in, n))
       /\ \A i \in DOMAIN KidsIn(in, n) :
            LET k == KidsIn(in, n)[i] IN first[n] < first[k] /\ last[k] <= last[n]

(* What LHSTemplateParser makes of a template: a tree, in which no         *)
(* metavariable is on a node that the traversal does not come to.          *)
IsTemplate(in) ==
  LET reached == Reached(in)
      kids(n) == KidsIn(in, n)
  IN  /\ \A n \in Node : in.metas[n] # {} => n \in reached
      /\ \A n \in reached :
           \A i \in DOMAIN kids(n), j \in DOMAIN in.subtrees :
             kids(n)[i] # in.subtrees[j]
      /\ \A n, p \in Node : \A i \in DOMAIN kids(n), j \in DOMAIN kids(p) :
           (kids(n)[i] = kids(p)[j] /\ in.metas[kids(n)[i]] # {})
             => n = p /\ i = j

(* The configuration uses no identifier both for a name and for subtrees.  *)
UsesAgree(in) ==
  \A n, p \in Node : \A m \in in.metas[n], k \in in.metas[p] :
    m.identifier = k.identifier => m.nameOnly = k.nameOnly

(* The loop comes to an end.                                               *)
Terminates == <>(phase \in {"matched", "crashed"})
=============================================================================
