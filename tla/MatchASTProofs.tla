--------------------------- MODULE MatchASTProofs ---------------------------
(***************************************************************************)
(* The traversals of the template and of all potential matches stay in     *)
(* step, for any template, any files and any number of potential matches;  *)
(* the occurrence that a template was made from is among the matches;      *)
(* every match is the template again but for its metavariables; and the    *)
(* loop finds all the matches that the recursion of MatchReference has.    *)
(***************************************************************************)
EXTENDS MatchReference, WellFoundedInduction, TLAPS

PotentialMatches == [root : Seq(Node), levels : Seq(Level), binds : Bindings]

(* A traversal that is on a node at every level.                           *)
Good(t) == t \in Seq(Level) /\ OnANode(t) /\ Nested(t)

InStep(pot, depth) ==
  /\ pot \in PotentialMatches
  /\ Good(pot.levels) /\ Len(pot.levels) = depth
  /\ pot.levels # << >> => pot.levels[1].sibs = pot.root

AllInStep(pots, depth) == \A pot \in pots : InStep(pot, depth)

FlagOK == backtracked \in BOOLEAN

Traversals ==
  /\ trav \in Seq(Level)
  /\ phase # "gather" => Good(trav) /\ AllInStep(potentials, Len(trav))
  /\ phase = "gather" => potentials = {}

IInv ==
  /\ input \in Input
  /\ phase \in {"gather", "match", "matched", "crashed"}
  /\ FlagOK
  /\ Traversals

-----------------------------------------------------------------------------
(* The children of a node are a list of nodes, whatever its kind.          *)
LEMMA KidsType ==
  ASSUME input \in Input, NEW n \in Node
  PROVE  Kids(n) \in Seq(Node)
<1>1. input.parts[n] \in Parts
  BY DEF Input
<1> DEFINE parts == input.parts[n]
<1>2. /\ parts.children \in Seq(Node) /\ parts.decls \in Seq(Node)
      /\ parts.params \in Seq(Node) /\ parts.body \in Seq(Node)
      /\ parts.init \in Seq(Node)
  BY <1>1 DEF Parts
<1> HIDE DEF parts
<1>3. parts.params \o parts.body \in Seq(Node) /\ << >> \in Seq(Node)
  BY <1>2
<1>4. GetChildren(KindOf(n), parts) \in Seq(Node)
  BY <1>2, <1>3 DEF GetChildren
<1> QED
  BY <1>4 DEF Kids, parts

(* On a traversal that is not at its end there is a current node.          *)
LEMMA GoodTop ==
  ASSUME NEW t, Good(t), t # << >>
  PROVE  /\ Len(t) \in Nat \ {0} /\ DOMAIN t = 1 .. Len(t)
         /\ \A d \in 1 .. Len(t) :
              /\ t[d] \in Level /\ t[d].sibs \in Seq(Node)
              /\ t[d].at \in Nat \ {0} /\ t[d].at \in 1 .. Len(t[d].sibs)
              /\ t[d].sibs[t[d].at] \in Node
         /\ Top(t) = t[Len(t)] /\ GetCurrent(t) \in Node
<1>1. t \in Seq(Level)
  BY DEF Good
<1>2. Len(t) \in Nat \ {0} /\ DOMAIN t = 1 .. Len(t)
      /\ \A d \in 1 .. Len(t) : t[d] \in Level
  BY <1>1
<1>3. ASSUME NEW d \in 1 .. Len(t)
      PROVE  /\ t[d].sibs \in Seq(Node)
             /\ t[d].at \in Nat \ {0} /\ t[d].at \in 1 .. Len(t[d].sibs)
             /\ t[d].sibs[t[d].at] \in Node
  <2>1. t[d].sibs \in Seq(Node) /\ t[d].at \in Nat \ {0}
    BY <1>2, <1>3 DEF Level
  <2>2. t[d].at \in DOMAIN t[d].sibs
    BY <1>2, <1>3 DEF Good, OnANode
  <2> QED
    BY <2>1, <2>2
<1>4. Len(t) \in 1 .. Len(t)
  BY <1>2
<1> QED
  BY <1>2, <1>3, <1>4 DEF Top, GetCurrent

(* backtrackToParent returns to a node of the traversal.                   *)
LEMMA BacktrackGood ==
  ASSUME NEW t, Good(t), t # << >>
  PROVE  /\ Good(BacktrackToParent(t))
         /\ Len(BacktrackToParent(t)) = Len(t) - 1
         /\ BacktrackToParent(t) # << >> => BacktrackToParent(t)[1] = t[1]
<1> DEFINE u == BacktrackToParent(t)
<1>1. t \in Seq(Level) /\ Len(t) \in Nat \ {0} /\ DOMAIN t = 1 .. Len(t)
  BY GoodTop DEF Good
<1>2. u \in Seq(Level) /\ Len(u) = Len(t) - 1
      /\ \A d \in 1 .. Len(t) - 1 : u[d] = t[d]
  BY <1>1 DEF BacktrackToParent
<1>3. DOMAIN u = 1 .. Len(t) - 1
  BY <1>2
<1>4. OnANode(u)
  BY <1>1, <1>2, <1>3 DEF Good, OnANode
<1>5. Nested(u)
  <2> SUFFICES ASSUME NEW d \in 2 .. Len(u)
               PROVE  u[d].sibs = Kids(u[d - 1].sibs[u[d - 1].at])
    BY DEF Nested
  <2>1. d \in 2 .. Len(t) /\ d \in 1 .. Len(t) - 1 /\ d - 1 \in 1 .. Len(t) - 1
    BY <1>1, <1>2
  <2> QED
    BY <2>1, <1>2 DEF Good, Nested
<1> QED
  BY <1>1, <1>2, <1>4, <1>5 DEF Good

(* A move within the siblings of the last level keeps the rest.            *)
LEMMA MoveGood ==
  ASSUME NEW t, Good(t), t # << >>, NEW i \in 1 .. Len(Top(t).sibs)
  PROVE  /\ Good(MoveTo(t, i))
         /\ Len(MoveTo(t, i)) = Len(t) /\ MoveTo(t, i) # << >>
         /\ MoveTo(t, i)[1].sibs = t[1].sibs
<1> DEFINE u == MoveTo(t, i)
           l == [sibs |-> Top(t).sibs, at |-> i]
<1>1. /\ t \in Seq(Level) /\ Len(t) \in Nat \ {0} /\ DOMAIN t = 1 .. Len(t)
      /\ \A d \in 1 .. Len(t) : t[d] \in Level
      /\ Len(t) \in 1 .. Len(t)
      /\ Top(t).sibs \in Seq(Node) /\ Top(t) = t[Len(t)]
  BY GoodTop DEF Good
<1>2. l \in Level /\ l.at \in DOMAIN l.sibs /\ l.sibs = t[Len(t)].sibs
  BY <1>1 DEF Level
<1>3. /\ u \in Seq(Level) /\ Len(u) = Len(t) /\ DOMAIN u = 1 .. Len(t)
      /\ u[Len(t)] = l
      /\ \A d \in 1 .. Len(t) : d # Len(t) => u[d] = t[d]
  BY <1>1, <1>2 DEF MoveTo
<1> HIDE DEF u, l
<1>4. OnANode(u)
  BY <1>1, <1>2, <1>3 DEF Good, OnANode
<1>5. ASSUME NEW d \in 1 .. Len(t)
      PROVE  u[d].sibs = t[d].sibs
  <2>1. CASE d = Len(t)
    BY <2>1, <1>2, <1>3
  <2>2. CASE d # Len(t)
    BY <2>2, <1>3
  <2> QED
    BY <2>1, <2>2
<1>6. Nested(u)
  <2> SUFFICES ASSUME NEW d \in 2 .. Len(t)
               PROVE  u[d].sibs = Kids(u[d - 1].sibs[u[d - 1].at])
    BY <1>3 DEF Nested
  <2>1. d \in 2 .. Len(t) /\ d \in 1 .. Len(t) /\ d - 1 \in 1 .. Len(t)
        /\ d - 1 # Len(t)
    BY <1>1
  <2> QED
    BY <2>1, <1>3, <1>5 DEF Good, Nested
<1>7. 1 \in 1 .. Len(t)
  BY <1>1
<1>8. Good(u) /\ Len(u) = Len(t) /\ u # << >> /\ u[1].sibs = t[1].sibs
  BY <1>1, <1>3, <1>4, <1>5, <1>6, <1>7 DEF Good
<1> QED
  BY <1>8 DEF u

(* nextSibling behind isLastChild finds a sibling.                         *)
LEMMA NextSiblingGood ==
  ASSUME NEW t, Good(t), t # << >>, ~ IsLastChild(t)
  PROVE  /\ Good(NextSibling(t))
         /\ Len(NextSibling(t)) = Len(t) /\ NextSibling(t) # << >>
         /\ NextSibling(t)[1].sibs = t[1].sibs
<1>1. Top(t).at + 1 \in 1 .. Len(Top(t).sibs)
  <2>1. Len(t) \in 1 .. Len(t) /\ Top(t) = t[Len(t)]
    BY GoodTop
  <2>2. Top(t).at \in Nat /\ Top(t).at \in 1 .. Len(Top(t).sibs)
        /\ Top(t).sibs \in Seq(Node)
    BY <2>1, GoodTop
  <2>3. Len(Top(t).sibs) \in Nat
    BY <2>2
  <2> QED
    BY <2>2, <2>3 DEF IsLastChild
<1> QED
  BY <1>1, MoveGood DEF NextSibling

(* The level of a list of siblings starts on its first node.               *)
LEMMA LevelOfGood ==
  ASSUME NEW s \in Seq(Node), s # << >>
  PROVE  LevelOf(s) \in Level /\ LevelOf(s).at \in DOMAIN LevelOf(s).sibs
         /\ LevelOf(s).sibs = s
  BY DEF LevelOf, Level

(* descendToChild behind hasChildren finds a child.                        *)
LEMMA DescendGood ==
  ASSUME input \in Input, NEW t, Good(t), t # << >>, HasChildren(t)
  PROVE  /\ Good(DescendToChild(t))
         /\ Len(DescendToChild(t)) = Len(t) + 1 /\ DescendToChild(t) # << >>
         /\ DescendToChild(t)[1] = t[1]
<1> DEFINE u == DescendToChild(t)
           l == LevelOf(Kids(GetCurrent(t)))
<1>1. /\ t \in Seq(Level) /\ Len(t) \in Nat \ {0} /\ DOMAIN t = 1 .. Len(t)
      /\ Top(t) = t[Len(t)] /\ GetCurrent(t) \in Node
  BY GoodTop DEF Good
<1>2. l \in Level /\ l.at \in DOMAIN l.sibs /\ l.sibs = Kids(GetCurrent(t))
  <2>1. Kids(GetCurrent(t)) \in Seq(Node)
    BY <1>1, KidsType
  <2> QED
    BY <2>1, LevelOfGood DEF HasChildren
<1>3. /\ u \in Seq(Level) /\ Len(u) = Len(t) + 1
      /\ DOMAIN u = 1 .. Len(t) + 1
      /\ u[Len(t) + 1] = l
      /\ \A d \in 1 .. Len(t) : u[d] = t[d]
  BY <1>1, <1>2 DEF DescendToChild
<1>4. \A d \in 1 .. Len(t) + 1 : d \in 1 .. Len(t) \/ d = Len(t) + 1
  BY <1>1
<1>5. OnANode(u)
  BY <1>1, <1>2, <1>3, <1>4 DEF Good, OnANode
<1>6. Nested(u)
  <2> SUFFICES ASSUME NEW d \in 2 .. Len(u)
               PROVE  u[d].sibs = Kids(u[d - 1].sibs[u[d - 1].at])
    BY DEF Nested
  <2>1. d - 1 \in 1 .. Len(t) /\ (d \in 2 .. Len(t) \/ d = Len(t) + 1)
    BY <1>1, <1>3
  <2>2. CASE d \in 2 .. Len(t)
    <3>1. d \in 1 .. Len(t)
      BY <2>2
    <3> QED
      BY <2>1, <2>2, <3>1, <1>3 DEF Good, Nested
  <2>3. CASE d = Len(t) + 1
    <3>1. u[d - 1] = t[Len(t)]
      BY <2>1, <2>3, <1>1, <1>3
    <3> QED
      BY <2>3, <3>1, <1>1, <1>2, <1>3 DEF GetCurrent
  <2> QED
    BY <2>1, <2>2, <2>3
<1>7. u # << >> /\ u[1] = t[1]
  BY <1>1, <1>3
<1> QED
  BY <1>1, <1>3, <1>5, <1>6, <1>7 DEF Good

-----------------------------------------------------------------------------
(* A potential match that takes over another traversal below its root.     *)
LEMMA LevelsChanged ==
  ASSUME NEW pot, NEW n, InStep(pot, n),
         NEW u, Good(u), u # << >> => u[1].sibs = pot.root
  PROVE  InStep([pot EXCEPT !.levels = u], Len(u))
<1>1. pot \in PotentialMatches /\ u \in Seq(Level)
  BY DEF InStep, Good
<1> DEFINE q == [pot EXCEPT !.levels = u]
<1>2. q \in PotentialMatches /\ q.levels = u /\ q.root = pot.root
  BY <1>1 DEF PotentialMatches
<1> HIDE DEF q
<1>3. InStep(q, Len(u))
  BY <1>2 DEF InStep
<1> QED
  BY <1>3 DEF q

(* While the template is not at its end, no potential match in step with   *)
(* it is.                                                                  *)
LEMMA NotEmpty ==
  ASSUME NEW pot, NEW n \in Nat \ {0}, InStep(pot, n)
  PROVE  /\ Good(pot.levels) /\ Len(pot.levels) = n /\ pot.levels # << >>
         /\ pot.levels[1].sibs = pot.root
<1>1. pot.levels \in Seq(Level) /\ Len(pot.levels) = n /\ Good(pot.levels)
  BY DEF InStep, Good
<1>2. pot.levels # << >>
  BY <1>1
<1> QED
  BY <1>1, <1>2 DEF InStep

(* Dropping potential matches leaves the others in step.                   *)
LEMMA FilterInStep ==
  ASSUME NEW pots, NEW n, AllInStep(pots, n)
  PROVE  /\ AllInStep(Filter(pots, IsLastChild), n)
         /\ AllInStep(Filter(pots, HasChildren), n)
         /\ AllInStep(Filter(pots, LAMBDA l : ~ IsLastChild(l)), n)
         /\ AllInStep(Filter(pots, LAMBDA l : ~ HasChildren(l)), n)
  BY DEF AllInStep, Filter

(* backtrackToParent after the filter for last children.                   *)
LEMMA AllUp ==
  ASSUME NEW pots, NEW n \in Nat \ {0}, AllInStep(pots, n)
  PROVE  AllInStep(ForEach(Filter(pots, IsLastChild), BacktrackToParent), n - 1)
<1> SUFFICES ASSUME NEW pot \in pots
             PROVE  InStep([pot EXCEPT !.levels = BacktrackToParent(pot.levels)],
                           n - 1)
  BY DEF AllInStep, ForEach, Filter
<1>1. /\ InStep(pot, n) /\ Good(pot.levels) /\ Len(pot.levels) = n
      /\ pot.levels # << >> /\ pot.levels[1].sibs = pot.root
  BY NotEmpty DEF AllInStep
<1> DEFINE u == BacktrackToParent(pot.levels)
<1>2. Good(u) /\ Len(u) = n - 1 /\ (u # << >> => u[1].sibs = pot.root)
  BY <1>1, BacktrackGood
<1> HIDE DEF u
<1>3. InStep([pot EXCEPT !.levels = u], n - 1)
  BY <1>1, <1>2, LevelsChanged
<1> QED
  BY <1>3 DEF u

(* nextSibling after the filter for nodes that are no last children.       *)
LEMMA AllOn ==
  ASSUME NEW pots, NEW n \in Nat \ {0}, AllInStep(pots, n)
  PROVE  AllInStep(ForEach(Filter(pots, LAMBDA l : ~ IsLastChild(l)),
                           NextSibling), n)
<1> SUFFICES ASSUME NEW pot \in pots, ~ IsLastChild(pot.levels)
             PROVE  InStep([pot EXCEPT !.levels = NextSibling(pot.levels)], n)
  BY DEF AllInStep, ForEach, Filter
<1>1. /\ InStep(pot, n) /\ Good(pot.levels) /\ Len(pot.levels) = n
      /\ pot.levels # << >> /\ pot.levels[1].sibs = pot.root
  BY NotEmpty DEF AllInStep
<1> DEFINE u == NextSibling(pot.levels)
<1>2. Good(u) /\ Len(u) = n /\ (u # << >> => u[1].sibs = pot.root)
  BY <1>1, NextSiblingGood
<1> HIDE DEF u
<1>3. InStep([pot EXCEPT !.levels = u], n)
  BY <1>1, <1>2, LevelsChanged
<1> QED
  BY <1>3 DEF u

(* descendToChild after the filter for nodes with children.                *)
LEMMA AllDown ==
  ASSUME input \in Input, NEW pots, NEW n \in Nat \ {0}, AllInStep(pots, n)
  PROVE  AllInStep(ForEach(Filter(pots, HasChildren), DescendToChild), n + 1)
<1> SUFFICES ASSUME NEW pot \in pots, HasChildren(pot.levels)
             PROVE  InStep([pot EXCEPT !.levels = DescendToChild(pot.levels)],
                           n + 1)
  BY DEF AllInStep, ForEach, Filter
<1>1. /\ InStep(pot, n) /\ Good(pot.levels) /\ Len(pot.levels) = n
      /\ pot.levels # << >> /\ pot.levels[1].sibs = pot.root
  BY NotEmpty DEF AllInStep
<1> DEFINE u == DescendToChild(pot.levels)
<1>2. Good(u) /\ Len(u) = n + 1 /\ (u # << >> => u[1].sibs = pot.root)
  BY <1>1, DescendGood
<1> HIDE DEF u
<1>3. InStep([pot EXCEPT !.levels = u], n + 1)
  BY <1>1, <1>2, LevelsChanged
<1> QED
  BY <1>3 DEF u

(* Binding a metavariable leaves the traversal alone, and a binding that   *)
(* is there as it is.                                                      *)
LEMMA InsertBinding ==
  ASSUME NEW binds \in Bindings, NEW id \in Identifier, NEW nodes \in Seq(Node)
  PROVE  Insert(binds, id, nodes) \in Bindings
<1>1. PICK ids \in SUBSET Identifier : binds \in [ids -> Seq(Node)]
  BY DEF Bindings
<1>2. CASE id \in ids
  BY <1>1, <1>2 DEF Insert
<1>3. CASE id \notin ids
  <2>1. Insert(binds, id, nodes) \in [ids \cup {id} -> Seq(Node)]
    BY <1>1, <1>3 DEF Insert
  <2> QED
    BY <2>1 DEF Bindings
<1> QED
  BY <1>2, <1>3

(* A potential match with other bindings is in step as it was.             *)
LEMMA Bound ==
  ASSUME NEW pot, NEW n, InStep(pot, n), NEW b \in Bindings
  PROVE  InStep([pot EXCEPT !.binds = b], n)
<1>1. pot \in PotentialMatches
  BY DEF InStep
<1> DEFINE q == [pot EXCEPT !.binds = b]
<1>2. q \in PotentialMatches /\ q.levels = pot.levels /\ q.root = pot.root
  BY <1>1 DEF PotentialMatches
<1> HIDE DEF q
<1>3. InStep(q, n)
  BY <1>2 DEF InStep
<1> QED
  BY <1>3 DEF q

(* instantiateMetavar binds the current node and stays where it is.        *)
LEMMA InstantiateInStep ==
  ASSUME NEW pot, NEW n \in Nat \ {0}, InStep(pot, n), NEW meta \in Metavariable
  PROVE  InStep(Instantiate(pot, meta), n)
<1>1. GetCurrent(pot.levels) \in Node
  BY NotEmpty, GoodTop
<1>2. pot \in PotentialMatches
  BY DEF InStep
<1>3. pot.binds \in Bindings /\ meta.identifier \in Identifier
      /\ <<GetCurrent(pot.levels)>> \in Seq(Node)
  BY <1>1, <1>2 DEF PotentialMatches, Metavariable
<1> DEFINE b == Insert(pot.binds, meta.identifier, <<GetCurrent(pot.levels)>>)
<1>4. b \in Bindings
  BY <1>3, InsertBinding
<1> HIDE DEF b
<1>5. InStep([pot EXCEPT !.binds = b], n)
  BY <1>4, Bound
<1> QED
  BY <1>5 DEF b, Instantiate

(* Each copy that extendForMetavar makes is in step with the template.     *)
LEMMA ExtendInStep ==
  ASSUME NEW pot, NEW n \in Nat \ {0}, InStep(pot, n), NEW meta \in Metavariable
  PROVE  AllInStep(ExtendForMetavariable(pot, meta), n)
<1> DEFINE t == pot.levels
           run(i) == SubSeq(Top(t).sibs, Top(t).at, i)
           ext(i) == [pot EXCEPT !.levels = MoveTo(t, i),
                                 !.binds = Insert(pot.binds, meta.identifier, run(i))]
<1> SUFFICES ASSUME NEW i \in Top(t).at .. Len(Top(t).sibs)
             PROVE  InStep(ext(i), n)
  BY DEF AllInStep, ExtendForMetavariable
<1>1. Good(t) /\ Len(t) = n /\ t # << >> /\ t[1].sibs = pot.root
  BY NotEmpty
<1>2. /\ Top(t).sibs \in Seq(Node) /\ Top(t).at \in Nat \ {0}
      /\ Top(t).at \in 1 .. Len(Top(t).sibs)
  <2>1. Len(t) \in 1 .. Len(t) /\ Top(t) = t[Len(t)]
    BY <1>1, GoodTop
  <2> QED
    BY <1>1, <2>1, GoodTop
<1>3. i \in 1 .. Len(Top(t).sibs)
  BY <1>2
<1>4. run(i) \in Seq(Node)
  BY <1>2, <1>3
<1>5. pot \in PotentialMatches /\ pot.binds \in Bindings
      /\ meta.identifier \in Identifier
  BY DEF InStep, PotentialMatches, Metavariable
<1> DEFINE u == MoveTo(t, i)
           b == Insert(pot.binds, meta.identifier, run(i))
<1>6. Good(u) /\ Len(u) = n /\ u[1].sibs = pot.root
  BY <1>1, <1>3, MoveGood
<1>7. b \in Bindings
  BY <1>4, <1>5, InsertBinding
<1>8. ext(i) = [[pot EXCEPT !.levels = u] EXCEPT !.binds = b]
  OBVIOUS
<1> HIDE DEF u, b
<1>9. InStep([pot EXCEPT !.levels = u], n)
  BY <1>1, <1>6, LevelsChanged
<1>10. InStep([[pot EXCEPT !.levels = u] EXCEPT !.binds = b], n)
  BY <1>7, <1>9, Bound
<1> QED
  BY <1>8, <1>10

-----------------------------------------------------------------------------
(* The three ways on take a template traversal that is on a node, with the *)
(* potential matches in step with it, to another such state.               *)

InStepNext == Good(trav') /\ AllInStep(potentials', Len(trav'))

(* Up, on and down: the template's own move is the one that every          *)
(* potential match makes.                                                  *)
LEMMA UpInStep ==
  ASSUME Good(trav), trav # << >>, NEW pots, AllInStep(pots, Len(trav)), GoUp(pots)
  PROVE  InStepNext
<1>1. Len(trav) \in Nat \ {0}
  BY GoodTop
<1>2. Good(trav') /\ Len(trav') = Len(trav) - 1
  BY BacktrackGood DEF GoUp
<1>3. AllInStep(potentials', Len(trav) - 1)
  BY <1>1, AllUp DEF GoUp
<1> QED
  BY <1>2, <1>3 DEF InStepNext

LEMMA OnInStep ==
  ASSUME Good(trav), trav # << >>, ~ IsLastChild(trav),
         NEW pots, AllInStep(pots, Len(trav)), GoOn(pots)
  PROVE  InStepNext
<1>1. Len(trav) \in Nat \ {0}
  BY GoodTop
<1>2. Good(trav') /\ Len(trav') = Len(trav)
  BY NextSiblingGood DEF GoOn
<1>3. AllInStep(potentials', Len(trav))
  BY <1>1, AllOn DEF GoOn
<1> QED
  BY <1>2, <1>3 DEF InStepNext

LEMMA DownInStep ==
  ASSUME input \in Input, Good(trav), trav # << >>, HasChildren(trav),
         NEW pots, AllInStep(pots, Len(trav)), GoDown(pots)
  PROVE  InStepNext
<1>1. Len(trav) \in Nat \ {0}
  BY GoodTop
<1>2. Good(trav') /\ Len(trav') = Len(trav) + 1
  BY DescendGood DEF GoDown
<1>3. AllInStep(potentials', Len(trav) + 1)
  BY <1>1, AllDown DEF GoDown
<1> QED
  BY <1>2, <1>3 DEF InStepNext

LEMMA FromInStep ==
  ASSUME input \in Input, Good(trav), trav # << >>,
         NEW pots, AllInStep(pots, Len(trav)), GoOnFrom(pots)
  PROVE  InStepNext
<1> DEFINE childless == Filter(pots, LAMBDA l : ~ HasChildren(l))
<1>1. AllInStep(childless, Len(trav))
  BY FilterInStep
<1>2. \/ HasChildren(trav) /\ GoDown(pots)
      \/ IsLastChild(trav) /\ GoUp(childless)
      \/ ~ IsLastChild(trav) /\ GoOn(childless)
  BY DEF GoOnFrom
<1> HIDE DEF childless
<1> QED
  BY <1>1, <1>2, UpInStep, OnInStep, DownInStep

(* Each way on sets backtracked to a Boolean.                              *)
LEMMA MovesSetFlag ==
  ASSUME NEW pots, GoUp(pots) \/ GoOn(pots) \/ GoDown(pots)
  PROVE  FlagOK'
<1>1. backtracked' = TRUE \/ backtracked' = FALSE
  BY DEF GoUp, GoOn, GoDown
<1> QED
  BY <1>1, Zenon DEF FlagOK

LEMMA FromSetsFlag ==
  ASSUME NEW pots, GoOnFrom(pots)
  PROVE  FlagOK'
<1> DEFINE childless == Filter(pots, LAMBDA l : ~ HasChildren(l))
<1>1. GoDown(pots) \/ GoUp(childless) \/ GoOn(childless)
  BY DEF GoOnFrom
<1> HIDE DEF childless
<1> QED
  BY <1>1, MovesSetFlag

(* The invariant after a step that ends in step.                           *)
LEMMA Established ==
  ASSUME IInv, input' = input, phase' = "match", FlagOK', InStepNext
  PROVE  IInv'
<1>1. (Good(trav) /\ AllInStep(potentials, Len(trav)))'
  BY DEF InStepNext, Good, AllInStep, InStep, OnANode, Nested, Kids, KindOf
<1>2. trav' \in Seq(Level)
  BY DEF InStepNext, Good
<1>3. Traversals'
  BY <1>1, <1>2 DEF Traversals
<1> QED
  BY <1>3 DEF IInv

(* In the loop, everything is in step and the template has a current node. *)
LEMMA InMatch ==
  ASSUME IInv, Matching
  PROVE  /\ input \in Input /\ phase = "match" /\ trav # << >>
         /\ Good(trav) /\ AllInStep(potentials, Len(trav))
         /\ Len(trav) \in Nat \ {0} /\ curr \in Node
<1>1. /\ input \in Input /\ phase = "match" /\ trav # << >>
      /\ Good(trav) /\ AllInStep(potentials, Len(trav))
  BY DEF IInv, Matching, Traversals
<1> QED
  BY <1>1, GoodTop DEF curr

(* A node that maps to a metavariable maps to one.                         *)
LEMMA MapsToOne ==
  ASSUME input \in Input, NEW n \in Node
  PROVE  /\ input.metas[n] \in SUBSET Metavariable
         /\ \A m, k \in input.metas[n] : m = k
<1>1. input.metas[n] \in {{}} \cup {{m} : m \in Metavariable}
  BY DEF Input
<1> QED
  BY <1>1

LEMMA MetaIsOne ==
  ASSUME IInv, Matching, input.metas[curr] # {}
  PROVE  Meta \in Metavariable
<1>1. input.metas[curr] \in SUBSET Metavariable
  BY InMatch, MapsToOne
<1>2. Meta \in input.metas[curr]
  BY DEF Meta
<1> QED
  BY <1>1, <1>2

(* The potential matches extended for the metavariable, and those of them  *)
(* that go on to the next sibling.                                         *)
LEMMA ExtendedInStep ==
  ASSUME IInv, AtMetavariable
  PROVE  AllInStep(Extended, Len(trav))
<1>1. Matching /\ Meta \in Metavariable
  BY MetaIsOne DEF AtMetavariable
<1>2. \A pot \in potentials : InStep(pot, Len(trav))
  BY <1>1, InMatch DEF AllInStep
<1>3. Len(trav) \in Nat \ {0}
  BY <1>1, InMatch
<1>4. \A pot \in potentials :
        AllInStep(ExtendForMetavariable(pot, Meta), Len(trav))
  BY <1>1, <1>2, <1>3, ExtendInStep
<1> QED
  BY <1>4 DEF AllInStep, Extended

LEMMA ProceededInStep ==
  ASSUME IInv, AtMetavariable
  PROVE  AllInStep(Proceeded, Len(trav))
<1>1. Len(trav) \in Nat \ {0}
  BY InMatch DEF AtMetavariable
<1> QED
  BY <1>1, ExtendedInStep, AllOn DEF Proceeded

-----------------------------------------------------------------------------

(* Before anything is gathered there is nothing out of step.               *)
LEMMA InitIInv ==
  ASSUME Init
  PROVE  IInv
<1>1. input \in Input
  BY InputsAssumption DEF Init
<1>2. FlagOK
  <2>1. backtracked = FALSE
    BY DEF Init
  <2> QED
    BY <2>1, Zenon DEF FlagOK
<1>3. Traversals
  BY DEF Init, Traversals
<1> QED
  BY <1>1, <1>2, <1>3 DEF Init, IInv

(* Every list of siblings that the finder returns is one to begin with.    *)
LEMMA RootsAreSiblings ==
  ASSUME input \in Input, NEW r \in PotentialRoots
  PROVE  r \in Seq(Node) /\ r # << >>
<1> DEFINE from(p, i) == \E j \in DOMAIN Kids(p) :
                            r = SubSeq(Kids(p), i, j)
<1>1. PICK p \in Node : \E i \in DOMAIN Kids(p) : from(p, i)
  BY DEF PotentialRoots
<1>2. Kids(p) \in Seq(Node)
  BY KidsType
<1>3. PICK i \in DOMAIN Kids(p) : from(p, i)
  BY <1>1
<1>4. PICK j \in DOMAIN Kids(p) : r = SubSeq(Kids(p), i, j)
  BY <1>3
<1>5. i \in 1 .. Len(Kids(p)) /\ j \in 1 .. Len(Kids(p))
  BY <1>2
<1>6. r \in Seq(Node)
  BY <1>2, <1>4, <1>5
<1> QED
  BY <1>6 DEF PotentialRoots

(* A traversal begins on the first of a list of siblings, and so does a    *)
(* potential match.                                                        *)
LEMMA OneLevelGood ==
  ASSUME NEW s \in Seq(Node), s # << >>
  PROVE  /\ Good(<<LevelOf(s)>>) /\ Len(<<LevelOf(s)>>) = 1
         /\ <<LevelOf(s)>>[1].sibs = s
<1> DEFINE l == LevelOf(s)
<1>1. l \in Level /\ l.at \in DOMAIN l.sibs /\ l.sibs = s
  BY LevelOfGood
<1> HIDE DEF l
<1>2. Good(<<l>>)
  BY <1>1 DEF Good, OnANode, Nested
<1> QED
  BY <1>1, <1>2 DEF l

LEMMA PotentialMatchInStep ==
  ASSUME NEW s \in Seq(Node), s # << >>
  PROVE  InStep(PotentialMatch(s), 1)
<1> DEFINE t == <<LevelOf(s)>>
<1>1. Good(t) /\ Len(t) = 1 /\ t[1].sibs = s
  BY OneLevelGood
<1> HIDE DEF t
<1>2. << >> \in Bindings
  <2>1. << >> \in [{} -> Seq(Node)]
    OBVIOUS
  <2> QED
    BY <2>1 DEF Bindings
<1>3. [root |-> s, levels |-> t, binds |-> << >>] \in PotentialMatches
  BY <1>1, <1>2 DEF Good, PotentialMatches
<1>4. InStep([root |-> s, levels |-> t, binds |-> << >>], 1)
  BY <1>1, <1>3 DEF InStep
<1> QED
  BY <1>4 DEF t, PotentialMatch

(* One lemma for each action: it leaves all in step.                       *)
LEMMA GatherIInv ==
  ASSUME IInv, GatherPotentialMatches
  PROVE  IInv'
<1>1. input \in Input
  BY DEF IInv
<1>2. input.subtrees \in Seq(Node) /\ input.subtrees # << >>
  BY <1>1 DEF Input
<1>3. Good(trav') /\ Len(trav') = 1
  BY <1>2, OneLevelGood DEF GatherPotentialMatches
<1>4. AllInStep(potentials', 1)
  <2> SUFFICES ASSUME NEW r \in PotentialRoots
               PROVE  InStep(PotentialMatch(r), 1)
    BY DEF AllInStep, GatherPotentialMatches
  <2> QED
    BY <1>1, RootsAreSiblings, PotentialMatchInStep
<1>5. FlagOK'
  BY Zenon DEF IInv, FlagOK, GatherPotentialMatches
<1>6. InStepNext
  BY <1>3, <1>4 DEF InStepNext
<1> QED
  BY <1>5, <1>6, Established DEF GatherPotentialMatches

LEMMA AfterChildrenIInv ==
  ASSUME IInv, AfterChildren
  PROVE  IInv'
<1>1. /\ Good(trav) /\ trav # << >> /\ AllInStep(potentials, Len(trav))
      /\ phase = "match"
  BY InMatch DEF AfterChildren
<1>2. \/ GoUp(potentials)
      \/ ~ IsLastChild(trav) /\ GoOn(potentials)
  BY DEF AfterChildren
<1>3. InStepNext
  BY <1>1, <1>2, UpInStep, OnInStep
<1>4. FlagOK'
  BY <1>2, MovesSetFlag
<1> QED
  BY <1>1, <1>3, <1>4, Established DEF AfterChildren

LEMMA ComparePlainIInv ==
  ASSUME IInv, ComparePlain
  PROVE  IInv'
<1>1. /\ input \in Input /\ Good(trav) /\ trav # << >>
      /\ AllInStep(potentials, Len(trav)) /\ phase = "match"
  BY InMatch DEF ComparePlain, Comparing
<1> DEFINE same == {pot \in potentials : Alike(pot, FALSE)}
<1>2. AllInStep(same, Len(trav))
  BY <1>1 DEF AllInStep
<1>3. GoOnFrom(same) /\ input' = input /\ phase' = phase
  BY DEF ComparePlain
<1> HIDE DEF same
<1>4. InStepNext
  BY <1>1, <1>2, <1>3, FromInStep
<1>5. FlagOK'
  BY <1>3, FromSetsFlag
<1> QED
  BY <1>1, <1>3, <1>4, <1>5, Established

LEMMA CompareNameOnlyIInv ==
  ASSUME IInv, CompareNameOnly
  PROVE  IInv'
<1>1. /\ input \in Input /\ Good(trav) /\ trav # << >>
      /\ AllInStep(potentials, Len(trav)) /\ phase = "match"
      /\ Len(trav) \in Nat \ {0}
  BY InMatch DEF CompareNameOnly, Comparing
<1>2. Meta \in Metavariable
  BY MetaIsOne DEF CompareNameOnly, Comparing
<1> DEFINE bound == {Instantiate(pot, Meta) :
                       pot \in {p \in potentials : Alike(p, TRUE)}}
<1>3. AllInStep(bound, Len(trav))
  BY <1>1, <1>2, InstantiateInStep DEF AllInStep
<1>4. GoOnFrom(bound) /\ input' = input /\ phase' = phase
  BY DEF CompareNameOnly
<1> HIDE DEF bound
<1>5. InStepNext
  BY <1>1, <1>3, <1>4, FromInStep
<1>6. FlagOK'
  BY <1>4, FromSetsFlag
<1> QED
  BY <1>1, <1>4, <1>5, <1>6, Established

LEMMA MetavariableLastIInv ==
  ASSUME IInv, MetavariableLast
  PROVE  IInv'
<1>1. Good(trav) /\ trav # << >> /\ phase = "match"
  BY InMatch DEF MetavariableLast, AtMetavariable
<1>2. AllInStep(Extended, Len(trav)) /\ GoUp(Extended)
  BY ExtendedInStep DEF MetavariableLast
<1>3. InStepNext
  BY <1>1, <1>2, UpInStep
<1>4. FlagOK'
  BY <1>2, MovesSetFlag
<1> QED
  BY <1>1, <1>3, <1>4, Established DEF MetavariableLast

LEMMA MetavariableThenOtherIInv ==
  ASSUME IInv, MetavariableThenOther
  PROVE  IInv'
<1>1. /\ Good(trav) /\ trav # << >> /\ phase = "match"
      /\ Len(trav) \in Nat \ {0}
  BY InMatch DEF MetavariableThenOther, AtMetavariable
<1>2. AllInStep(Proceeded, Len(trav)) /\ potentials' = Proceeded
  BY ProceededInStep DEF MetavariableThenOther
<1>3. PICK i \in NextOther : trav' = MoveTo(trav, i)
  BY DEF MetavariableThenOther
<1>4. i \in 1 .. Len(Top(trav).sibs)
  <2>1. Len(trav) \in 1 .. Len(trav) /\ Top(trav) = trav[Len(trav)]
    BY <1>1, GoodTop
  <2>2. Top(trav).at \in Nat \ {0} /\ Len(Top(trav).sibs) \in Nat
    <3>1. Top(trav).at \in Nat \ {0} /\ Top(trav).sibs \in Seq(Node)
      BY <1>1, <2>1, GoodTop
    <3> QED
      BY <3>1
  <2>3. i \in Top(trav).at + 1 .. Len(Top(trav).sibs)
    BY DEF NextOther
  <2> QED
    BY <2>2, <2>3
<1>5. Good(trav') /\ Len(trav') = Len(trav)
  BY <1>1, <1>3, <1>4, MoveGood
<1>6. InStepNext
  BY <1>2, <1>5 DEF InStepNext
<1>7. FlagOK'
  <2>1. backtracked' = FALSE
    BY DEF MetavariableThenOther
  <2> QED
    BY <2>1, Zenon DEF FlagOK
<1> QED
  BY <1>1, <1>6, <1>7, Established DEF MetavariableThenOther

LEMMA MetavariableToTheEndIInv ==
  ASSUME IInv, MetavariableToTheEnd
  PROVE  IInv'
<1>1. Good(trav) /\ trav # << >> /\ phase = "match"
  BY InMatch DEF MetavariableToTheEnd, AtMetavariable
<1>2. AllInStep(Proceeded, Len(trav)) /\ GoUp(Proceeded)
  BY ProceededInStep DEF MetavariableToTheEnd
<1>3. InStepNext
  BY <1>1, <1>2, UpInStep
<1>4. FlagOK'
  BY <1>2, MovesSetFlag
<1> QED
  BY <1>1, <1>3, <1>4, Established DEF MetavariableToTheEnd

(* The steps that end the loop, or nothing.                                *)
LEMMA EndIInv ==
  ASSUME IInv, CompareCrashes \/ Processed \/ Finished \/ UNCHANGED vars
  PROVE  IInv'
<1>1. /\ input' = input /\ trav' = trav /\ backtracked' = backtracked
      /\ potentials' = potentials
      /\ phase' \in {"crashed", "matched", phase}
      /\ phase = "gather" => phase' = "gather"
  BY DEF CompareCrashes, Comparing, Matching, Processed, Finished, vars
<1>2. FlagOK'
  BY <1>1, Zenon DEF IInv, FlagOK
<1>3. phase = "gather" \/ (phase' # "gather" /\ phase # "gather")
  BY <1>1
<1>4. Traversals'
  BY <1>1, <1>3 DEF IInv, Traversals, Good, AllInStep, InStep, OnANode, Nested,
                   Kids, KindOf
<1> QED
  BY <1>1, <1>2, <1>4 DEF IInv

(* Every step keeps the invariant.                                         *)
LEMMA NextIInv ==
  ASSUME IInv, [Next]_vars
  PROVE  IInv'
  BY GatherIInv, AfterChildrenIInv, ComparePlainIInv, CompareNameOnlyIInv,
     MetavariableLastIInv, MetavariableThenOtherIInv, MetavariableToTheEndIInv,
     EndIInv DEF Next

(* Template and potential matches are in step for any template, any files  *)
(* and any number of potential matches.                                    *)
THEOREM Invariance == Spec => []IInv
<1> QED
  BY InitIInv, NextIInv, PTL DEF Spec

(* What the invariant says of types and of steps.                          *)
LEMMA IInvTypes ==
  ASSUME IInv
  PROVE  TypeOK
<1>1. backtracked \in BOOLEAN
  BY Zenon DEF IInv, FlagOK
<1>2. /\ input \in Input /\ phase \in {"gather", "match", "matched", "crashed"}
      /\ trav \in Seq(Level)
  BY DEF IInv, Traversals
<1>3. ASSUME NEW pot \in potentials
      PROVE  /\ pot.root \in Seq(Node) /\ pot.levels \in Seq(Level)
             /\ DOMAIN pot.binds \subseteq Identifier
             /\ \A id \in DOMAIN pot.binds : pot.binds[id] \in Seq(Node)
  <2>1. pot \in PotentialMatches
    BY <1>3 DEF IInv, Traversals, AllInStep, InStep
  <2>2. pot.root \in Seq(Node) /\ pot.levels \in Seq(Level)
        /\ pot.binds \in Bindings
    BY <2>1 DEF PotentialMatches
  <2>3. PICK ids \in SUBSET Identifier : pot.binds \in [ids -> Seq(Node)]
    BY <2>2 DEF Bindings
  <2> QED
    BY <2>2, <2>3
<1> QED
  BY <1>1, <1>2, <1>3, Zenon DEF TypeOK

(* The traversals are stacks of sibling lists and the bindings lists of    *)
(* nodes throughout the matching, for all templates and files.             *)
THEOREM TypeCorrect == Spec => []TypeOK
<1> QED
  BY Invariance, IInvTypes, PTL

LEMMA IInvLockStep ==
  ASSUME IInv
  PROVE  LockStep
<1> SUFFICES ASSUME phase # "gather"
             PROVE  /\ OnANode(trav) /\ Nested(trav)
                    /\ \A pot \in potentials :
                         /\ Len(pot.levels) = Len(trav)
                         /\ OnANode(pot.levels) /\ Nested(pot.levels)
                         /\ pot.levels # << >> => pot.levels[1].sibs = pot.root
  BY DEF LockStep
<1>1. Good(trav) /\ AllInStep(potentials, Len(trav))
  BY DEF IInv, Traversals
<1> QED
  BY <1>1 DEF Good, AllInStep, InStep

(* nextSibling, descendToChild and backtrackToParent are never asked for a *)
(* node that is not there, neither in the template nor in any potential    *)
(* match, whatever the template, the files and the metavariables.          *)
THEOREM StaysInStep == Spec => []LockStep
<1> QED
  BY Invariance, IInvLockStep, PTL
-----------------------------------------------------------------------------
(* compare(), question by question.                                        *)

LEMMA LayersEquivalence ==
  ASSUME NEW b \in BOOLEAN, NEW k, NEW l, NEW m
  PROVE  /\ CompareLayers(k, k, b)
         /\ CompareLayers(k, l, b) => CompareLayers(l, k, b)
         /\ CompareLayers(k, l, b) /\ CompareLayers(l, m, b) => CompareLayers(k, m, b)
  BY DEF CompareLayers

LEMMA TypesEquivalence ==
  ASSUME NEW b \in BOOLEAN, NEW k, NEW l, NEW m
  PROVE  /\ CompareTypes(k, k, b)
         /\ CompareTypes(k, l, b) => CompareTypes(l, k, b)
         /\ CompareTypes(k, l, b) /\ CompareTypes(l, m, b) => CompareTypes(k, m, b)
<1>1. \A i : (b /\ i = 1) \in BOOLEAN
  OBVIOUS
<1> QED
  BY <1>1, LayersEquivalence DEF CompareTypes

LEMMA QualTypesEquivalence ==
  ASSUME NEW k, NEW l, NEW m
  PROVE  /\ CompareQualTypes(k, k)
         /\ CompareQualTypes(k, l) => CompareQualTypes(l, k)
         /\ CompareQualTypes(k, l) /\ CompareQualTypes(l, m) => CompareQualTypes(k, m)
  BY TypesEquivalence DEF CompareQualTypes

LEMMA DeclEquivalence ==
  ASSUME NEW b \in BOOLEAN, NEW k, NEW l, NEW m
  PROVE  /\ CompareDecl(k, k, b)
         /\ CompareDecl(k, l, b) => CompareDecl(l, k, b)
         /\ CompareDecl(k, l, b) /\ CompareDecl(l, m, b) => CompareDecl(k, m, b)
  BY TypesEquivalence, QualTypesEquivalence DEF CompareDecl

LEMMA CompareEquivalence ==
  ASSUME NEW b \in BOOLEAN, NEW k, NEW l, NEW m,
         k.kind # NoKind, l.kind # NoKind, m.kind # NoKind
  PROVE  /\ Compare(k, k, b)
         /\ Compare(k, l, b) => Compare(l, k, b)
         /\ Compare(k, l, b) /\ Compare(l, m, b) => Compare(k, m, b)
  BY DeclEquivalence DEF Compare

(* compare() is an equivalence on the nodes that are there, for any files. *)
THEOREM ComparesBothWays == Spec => []AlikeIsEquivalence
<1>1. AlikeIsEquivalence
  BY CompareEquivalence DEF AlikeIsEquivalence, Contents, KindOf
<1> QED
  BY <1>1, PTL

(* A type that is compared without regard to its own name, of two that     *)
(* have the same one.                                                      *)
LEMMA TypesForgive ==
  ASSUME NEW k, NEW l,
         CompareTypes(k, l, TRUE), 1 \in DOMAIN k => k[1].name = l[1].name
  PROVE  CompareTypes(k, l, FALSE)
<1>1. DOMAIN k = DOMAIN l
  BY DEF CompareTypes
<1>2. ASSUME NEW i \in DOMAIN k
      PROVE  /\ CompareLayers(k[i], l[i], FALSE)
             /\ i # 1 => k[i].quals = l[i].quals
  <2>1. /\ CompareLayers(k[i], l[i], TRUE /\ i = 1)
        /\ i # 1 => k[i].quals = l[i].quals
    BY DEF CompareTypes
  <2>2. CASE i = 1
    BY <2>1, <2>2, <1>2 DEF CompareLayers
  <2>3. CASE i # 1
    <3>1. (TRUE /\ i = 1) = FALSE
      BY <2>3
    <3> QED
      BY <2>1, <3>1
  <2> QED
    BY <2>2, <2>3
<1> QED
  BY <1>1, <1>2 DEF CompareTypes

LEMMA TypesStricter ==
  ASSUME NEW k, NEW l, CompareTypes(k, l, FALSE)
  PROVE  CompareTypes(k, l, TRUE)
  BY DEF CompareTypes, CompareLayers

LEMMA DeclForgives ==
  ASSUME NEW k \in Declaration, NEW l \in Declaration
  PROVE  CompareDecl(k, l, FALSE)
           <=> /\ CompareDecl(k, l, TRUE)
               /\ k.kind \in NamedDecls => k.name = l.name
<1>1. ASSUME k.kind \in TypeDecls, k.kind = l.kind, k.name = l.name,
             CompareTypes(k.type, l.type, TRUE)
      PROVE  CompareTypes(k.type, l.type, FALSE)
  <2>1. CASE k.kind \in TagDecls
    <3>1. \A i \in DOMAIN k.type : k.type[i].name = k.name
      BY <2>1 DEF Declaration
    <3>2. \A i \in DOMAIN l.type : l.type[i].name = l.name
      BY <2>1, <1>1 DEF Declaration
    <3>3. DOMAIN k.type = DOMAIN l.type
      BY <1>1 DEF CompareTypes
    <3> QED
      BY <3>1, <3>2, <3>3, <1>1, TypesForgive
  <2>2. CASE k.kind = "Typedef"
    <3>1. \A i \in DOMAIN k.type : k.type[i].class = "Other"
      BY <2>2 DEF Declaration
    <3> QED
      BY <3>1, <1>1 DEF CompareTypes, CompareLayers, TagClasses
  <2> QED
    BY <2>1, <2>2, <1>1 DEF TypeDecls
<1>2. k.kind \in TypeDecls => k.kind \in NamedDecls
  BY DEF NamedDecls
<1>3. CompareTypes(k.type, l.type, FALSE) => CompareTypes(k.type, l.type, TRUE)
  BY TypesStricter
<1> QED
  BY <1>1, <1>2, <1>3 DEF CompareDecl

(* The kinds of a node: which of its contents are compared.                *)
LEMMA CompareForgives ==
  ASSUME NEW k \in Content, NEW l \in Content,
         k.kind # NoKind, l.kind # NoKind
  PROVE  Compare(k, l, FALSE) <=> Compare(k, l, TRUE) /\ Named(k) = Named(l)
<1>1. CASE k.kind # l.kind
  BY <1>1 DEF Compare
<1>2. CASE k.kind = l.kind /\ k.kind \in ReferringStmts
  <2>1. k.kind \notin Decls /\ k.kind \notin PlainStmts /\ k.kind \notin ValuedStmts
    BY <1>2 DEF ReferringStmts, PlainStmts, ValuedStmts, Decls, NamedDecls,
                TypeDecls, TagDecls, ValueDecls, FunctionDecls, VarDecls
  <2>2. k \in Reference /\ l \in Reference
    BY <1>2, <2>1 DEF Content, Declaration, Statement
  <2>3. /\ k.decl \in Declaration /\ k.decl.kind \in NamedDecls
        /\ l.decl \in Declaration
    BY <2>2 DEF Reference, NamedDecls
  <2>4. Named(k) = {k.decl.name} /\ Named(l) = {l.decl.name}
    BY <1>2 DEF Named
  <2>5. CompareDecl(k.decl, l.decl, FALSE)
          <=> CompareDecl(k.decl, l.decl, TRUE) /\ Named(k) = Named(l)
    BY <2>3, <2>4, DeclForgives
  <2> QED
    BY <1>2, <2>1, <2>5 DEF Compare
<1>3. CASE k.kind = l.kind /\ k.kind \in Decls
  <2>1. /\ k.kind \notin ReferringStmts /\ k.kind \notin PlainStmts
        /\ k.kind \notin ValuedStmts /\ k.kind # "MemberExpr"
    BY <1>3 DEF ReferringStmts, PlainStmts, ValuedStmts, Decls, NamedDecls,
                TypeDecls, TagDecls, ValueDecls, FunctionDecls, VarDecls
  <2>2. k \in Declaration /\ l \in Declaration
    BY <1>3, <2>1 DEF Content, Reference, Statement
  <2>3. Named(k) = Named(l) <=> (k.kind \in NamedDecls => k.name = l.name)
    BY <1>3, <2>1 DEF Named
  <2>4. CompareDecl(k, l, FALSE) <=> CompareDecl(k, l, TRUE) /\ Named(k) = Named(l)
    BY <2>2, <2>3, DeclForgives
  <2> QED
    BY <1>3, <2>1, <2>4 DEF Compare
<1>4. CASE k.kind = l.kind /\ k.kind \notin Decls /\ k.kind \notin ReferringStmts
  <2>1. Named(k) = {} /\ Named(l) = {}
    BY <1>4 DEF Named, Decls
  <2> QED
    BY <1>4, <2>1 DEF Compare
<1> QED
  BY <1>1, <1>2, <1>3, <1>4

(* For any two nodes of any files, what a name-only comparison forgives is *)
(* exactly a difference of their own names.                                *)
THEOREM ForgivesNamesOnly == Spec => []NameOnlyForgivesName
<1>1. IInv => NameOnlyForgivesName
  <2> SUFFICES ASSUME IInv, NEW k \in Contents, NEW l \in Contents
               PROVE  Compare(k, l, FALSE)
                        <=> Compare(k, l, TRUE) /\ Named(k) = Named(l)
    BY DEF NameOnlyForgivesName
  <2>1. \A c \in Contents : c \in Content /\ c.kind # NoKind
    BY DEF IInv, Contents, KindOf, Input
  <2> QED
    BY <2>1, CompareForgives
<1> QED
  BY <1>1, Invariance, PTL
-----------------------------------------------------------------------------
(* The text the template was made from stays among the potential matches:  *)
(* one of them is always where the template traversal is, and in it every  *)
(* metavariable is either bound to its own nodes or still to come.         *)

MapsIn(in, n, id) == \E m \in in.metas[n] : m.identifier = id

Bearers(in, id) == {n \in Node : MapsIn(in, n, id)}

(* Where the traversal t has been, b telling whether it comes back to its  *)
(* current node: siblings before the current one, and the nodes that it is *)
(* inside.                                                                 *)
Past(t, b, d, k) == k < t[d].at \/ (k = t[d].at /\ (d < Len(t) \/ b))

Unmet(in, t, b, id) ==
  \A d \in 1 .. Len(t) : \A k \in 1 .. Len(t[d].sibs) :
    Past(t, b, d, k) => ~ MapsIn(in, t[d].sibs[k], id)

(* V has all that the traversal will come to.                              *)
Holds(in, t, b, V) ==
  /\ ClosedIn(in, V)
  /\ \A d \in 1 .. Len(t) : \A k \in 1 .. Len(t[d].sibs) :
       ~ Past(t, b, d, k) => t[d].sibs[k] \in V

Ahead(in, t, b, id) ==
  \A V \in SUBSET Node : Holds(in, t, b, V) => Bearers(in, id) \subseteq V

Pending(in, t, b, id) == Unmet(in, t, b, id) /\ Ahead(in, t, b, id)

(* The bindings give id its nodes.                                         *)
Stands(in, binds, id) ==
  id \in DOMAIN binds /\ Bearers(in, id) = {binds[id][i] : i \in DOMAIN binds[id]}

(* OnOneRun, of an input.                                                  *)
OneRun(in, id) ==
  \E sibs \in {in.subtrees} \cup {KidsIn(in, n) : n \in Node} :
    \E i, j \in DOMAIN sibs :
      /\ i <= j
      /\ Bearers(in, id) = {sibs[k] : k \in i .. j}
      /\ i = j \/ \A n \in Bearers(in, id) : \A m \in in.metas[n] : ~ m.nameOnly

Settled(in, binds, t, b) ==
  \A id \in Identifier : OneRun(in, id) =>
    \/ Stands(in, binds, id)
    \/ id \notin DOMAIN binds /\ Pending(in, t, b, id)

OwnAmong(in, pots, t, b) ==
  \E pot \in pots :
    pot.root = in.subtrees /\ pot.levels = t /\ Settled(in, pot.binds, t, b)

Searched ==
  /\ IsTemplate(input) /\ UsesAgree(input) /\ ~ RunToTheEnd
  /\ input.subtrees \in PotentialRoots

OwnInv ==
  /\ phase = "gather" => backtracked = FALSE
  /\ phase = "matched" => trav = << >>
  /\ (phase # "gather" /\ Searched) => OwnAmong(input, potentials, trav, backtracked)

(* What a move leaves as it was.                                           *)
LEMMA MoveShape ==
  ASSUME NEW t, Good(t), t # << >>, NEW e \in 1 .. Len(Top(t).sibs)
  PROVE  LET u == MoveTo(t, e)
         IN  /\ Len(u) = Len(t)
             /\ u[Len(t)].sibs = t[Len(t)].sibs /\ u[Len(t)].at = e
             /\ \A d \in 1 .. Len(t) : d # Len(t) => u[d] = t[d]
<1>1. /\ t \in Seq(Level) /\ Len(t) \in Nat \ {0} /\ Top(t) = t[Len(t)]
      /\ Len(t) \in 1 .. Len(t)
  BY GoodTop DEF Good
<1> QED
  BY <1>1 DEF MoveTo

LEMMA BacktrackShape ==
  ASSUME NEW t, Good(t), t # << >>
  PROVE  LET u == BacktrackToParent(t)
         IN  /\ Len(u) = Len(t) - 1
             /\ \A d \in 1 .. Len(t) - 1 : u[d] = t[d]
<1>1. t \in Seq(Level) /\ Len(t) \in Nat \ {0} /\ DOMAIN t = 1 .. Len(t)
  BY GoodTop DEF Good
<1> QED
  BY <1>1 DEF BacktrackToParent

LEMMA DescendShape ==
  ASSUME NEW t, Good(t), t # << >>
  PROVE  LET u == DescendToChild(t)
         IN  /\ Len(u) = Len(t) + 1
             /\ u[Len(t) + 1].sibs = Kids(GetCurrent(t)) /\ u[Len(t) + 1].at = 1
             /\ \A d \in 1 .. Len(t) : u[d] = t[d]
<1> DEFINE l == LevelOf(Kids(GetCurrent(t)))
<1>1. t \in Seq(Level) /\ Len(t) \in Nat \ {0} /\ DOMAIN t = 1 .. Len(t)
  BY GoodTop DEF Good
<1>2. l.sibs = Kids(GetCurrent(t)) /\ l.at = 1
  BY DEF LevelOf
<1>3. DescendToChild(t) = Append(t, l)
  BY DEF DescendToChild
<1> HIDE DEF l
<1> QED
  BY <1>1, <1>2, <1>3

(* Siblings that the traversal passes over or has explored, and that do    *)
(* not map to id, can be counted as visited.                               *)
Explored(in, n) ==
  KidsIn(in, n) = << >> \/ \E m \in in.metas[n] : ~ m.nameOnly

LEMMA PendingAfter ==
  ASSUME NEW in, NEW t, Good(t), t # << >>, NEW id, Pending(in, t, FALSE, id),
         NEW e \in Top(t).at .. Len(Top(t).sibs),
         \A k \in Top(t).at .. e :
           ~ MapsIn(in, Top(t).sibs[k], id) /\ Explored(in, Top(t).sibs[k])
  PROVE  Pending(in, MoveTo(t, e), TRUE, id)
<1> DEFINE u == MoveTo(t, e)
           s == t[Len(t)].sibs
           at == t[Len(t)].at
<1>1. /\ Len(t) \in Nat \ {0} /\ Len(t) \in 1 .. Len(t) /\ Top(t) = t[Len(t)]
      /\ s \in Seq(Node) /\ at \in Nat \ {0} /\ at \in 1 .. Len(s)
      /\ \A d \in 1 .. Len(t) : t[d].sibs \in Seq(Node) /\ t[d].at \in Nat
  <2>1. Len(t) \in Nat \ {0} /\ Top(t) = t[Len(t)] /\ Len(t) \in 1 .. Len(t)
    BY GoodTop
  <2> QED
    BY <2>1, GoodTop
<1>2. e \in 1 .. Len(s) /\ Len(s) \in Nat /\ e \in at .. Len(s)
  BY <1>1
<1>3. /\ Len(u) = Len(t) /\ u[Len(t)].sibs = s /\ u[Len(t)].at = e
      /\ \A d \in 1 .. Len(t) : d # Len(t) => u[d] = t[d]
  BY <1>1, <1>2, MoveShape
<1>4. \A k \in at .. e : ~ MapsIn(in, s[k], id) /\ Explored(in, s[k])
  BY <1>1
<1> HIDE DEF u, s, at
<1>5. Unmet(in, u, TRUE, id)
  <2> SUFFICES ASSUME NEW d \in 1 .. Len(t), NEW k \in 1 .. Len(u[d].sibs),
                      Past(u, TRUE, d, k)
               PROVE  ~ MapsIn(in, u[d].sibs[k], id)
    BY <1>3 DEF Unmet
  <2>1. CASE d # Len(t)
    <3>1. u[d] = t[d] /\ d < Len(t)
      BY <2>1, <1>1, <1>3
    <3>2. Past(t, FALSE, d, k)
      BY <3>1 DEF Past
    <3> QED
      BY <3>1, <3>2 DEF Pending, Unmet
  <2>2. CASE d = Len(t)
    <3>1. u[d].sibs = s /\ k \in 1 .. Len(s) /\ k <= e
      BY <2>2, <1>2, <1>3 DEF Past
    <3>2. CASE k < at
      <4>1. Past(t, FALSE, d, k)
        BY <3>2, <2>2 DEF Past, at
      <4> QED
        BY <4>1, <3>1, <2>2 DEF Pending, Unmet, s
    <3>3. CASE ~ (k < at)
      <4>1. k \in at .. e
        BY <3>1, <3>3, <1>1, <1>2
      <4> QED
        BY <4>1, <3>1, <1>4
    <3> QED
      BY <3>2, <3>3
  <2> QED
    BY <2>1, <2>2
<1>6. Ahead(in, u, TRUE, id)
  <2> SUFFICES ASSUME NEW V \in SUBSET Node, Holds(in, u, TRUE, V),
                      NEW n \in Bearers(in, id), n \notin V
               PROVE  FALSE
    BY DEF Ahead
  <2> DEFINE W == V \cup {s[k] : k \in at .. e}
  <2>1. W \in SUBSET Node
    BY <1>1, <1>2
  <2>2. ClosedIn(in, W)
    <3> SUFFICES ASSUME NEW p \in W, \A m \in in.metas[p] : m.nameOnly,
                        NEW i \in DOMAIN KidsIn(in, p)
                 PROVE  KidsIn(in, p)[i] \in W
      BY DEF ClosedIn
    <3>1. CASE p \in V
      BY <3>1 DEF Holds, ClosedIn
    <3>2. CASE p \notin V
      <4>1. Explored(in, p)
        BY <3>2, <1>4
      <4>2. KidsIn(in, p) = << >>
        BY <4>1 DEF Explored
      <4> QED
        BY <4>2
    <3> QED
      BY <3>1, <3>2
  <2>3. ASSUME NEW d \in 1 .. Len(t), NEW k \in 1 .. Len(t[d].sibs),
               ~ Past(t, FALSE, d, k)
        PROVE  t[d].sibs[k] \in W
    <3>1. CASE d # Len(t)
      <4>1. u[d] = t[d]
        BY <3>1, <1>3
      <4>2. ~ Past(u, TRUE, d, k)
        BY <4>1, <3>1, <2>3, <1>1 DEF Past
      <4> QED
        BY <4>1, <4>2, <1>3 DEF Holds
    <3>2. CASE d = Len(t)
      <4>1. t[d].sibs = s /\ k \in 1 .. Len(s) /\ ~ (k < at)
        BY <3>2, <2>3 DEF Past, s, at
      <4>2. CASE k <= e
        <5>1. k \in at .. e
          BY <4>1, <4>2, <1>1, <1>2
        <5> QED
          BY <4>1, <5>1
      <4>3. CASE ~ (k <= e)
        <5>1. ~ Past(u, TRUE, d, k)
          BY <4>1, <4>3, <3>2, <1>2, <1>3 DEF Past
        <5>2. u[d].sibs[k] \in V
          BY <5>1, <4>1, <3>2, <1>3 DEF Holds
        <5> QED
          BY <5>2, <4>1, <3>2, <1>3
      <4> QED
        BY <4>2, <4>3
    <3> QED
      BY <3>1, <3>2
  <2>4. Holds(in, t, FALSE, W)
    BY <2>2, <2>3 DEF Holds
  <2>5. n \in W
    BY <2>1, <2>4 DEF Pending, Ahead
  <2>6. \E k \in at .. e : n = s[k]
    BY <2>5
  <2> QED
    BY <2>6, <1>4 DEF Bearers
<1> QED
  BY <1>5, <1>6 DEF Pending, u

(* On to the next sibling of a node that is done with.                     *)
LEMMA PendingOn ==
  ASSUME NEW in, NEW t, Good(t), t # << >>, ~ IsLastChild(t),
         NEW id, Pending(in, t, TRUE, id)
  PROVE  Pending(in, NextSibling(t), FALSE, id)
<1> DEFINE u == NextSibling(t)
<1>1. /\ Len(t) \in Nat \ {0} /\ Len(t) \in 1 .. Len(t) /\ Top(t) = t[Len(t)]
      /\ \A d \in 1 .. Len(t) :
           /\ t[d].sibs \in Seq(Node) /\ Len(t[d].sibs) \in Nat
           /\ t[d].at \in Nat /\ t[d].at \in 1 .. Len(t[d].sibs)
  <2>1. Len(t) \in Nat \ {0} /\ Top(t) = t[Len(t)] /\ Len(t) \in 1 .. Len(t)
    BY GoodTop
  <2>2. \A d \in 1 .. Len(t) : t[d].sibs \in Seq(Node) /\ t[d].at \in Nat
                               /\ t[d].at \in 1 .. Len(t[d].sibs)
    BY GoodTop
  <2> QED
    BY <2>1, <2>2
<1>2. Top(t).at + 1 \in 1 .. Len(Top(t).sibs)
  BY <1>1 DEF IsLastChild
<1>3. /\ Len(u) = Len(t)
      /\ u[Len(t)].sibs = t[Len(t)].sibs /\ u[Len(t)].at = t[Len(t)].at + 1
      /\ \A d \in 1 .. Len(t) : d # Len(t) => u[d] = t[d]
  BY <1>1, <1>2, MoveShape DEF NextSibling
<1> HIDE DEF u
<1>4. \A d \in 1 .. Len(t) : u[d].sibs = t[d].sibs
  BY <1>3
<1>5. \A d \in 1 .. Len(t) : \A k \in 1 .. Len(t[d].sibs) :
        Past(u, FALSE, d, k) <=> Past(t, TRUE, d, k)
  BY <1>1, <1>3 DEF Past
<1>6. Unmet(in, u, FALSE, id)
  BY <1>3, <1>4, <1>5 DEF Unmet, Pending
<1>7. \A V : Holds(in, u, FALSE, V) => Holds(in, t, TRUE, V)
  BY <1>3, <1>4, <1>5 DEF Holds
<1> QED
  BY <1>6, <1>7 DEF Pending, Ahead, u

(* Up from a last sibling that is done with.                               *)
LEMMA PendingUp ==
  ASSUME NEW in, NEW t, Good(t), t # << >>, IsLastChild(t),
         NEW id, Pending(in, t, TRUE, id)
  PROVE  Pending(in, BacktrackToParent(t), TRUE, id)
<1> DEFINE u == BacktrackToParent(t)
<1>1. /\ Len(t) \in Nat \ {0} /\ Len(t) \in 1 .. Len(t) /\ Top(t) = t[Len(t)]
      /\ t \in Seq(Level)
      /\ \A d \in 1 .. Len(t) : t[d].sibs \in Seq(Node) /\ t[d].at \in Nat
  <2>1. Len(t) \in Nat \ {0} /\ Top(t) = t[Len(t)] /\ Len(t) \in 1 .. Len(t)
    BY GoodTop
  <2> QED
    BY <2>1, GoodTop DEF Good
<1>2. /\ Len(u) = Len(t) - 1
      /\ \A d \in 1 .. Len(t) - 1 : u[d] = t[d]
  BY BacktrackShape
<1> HIDE DEF u
<1>3. \A d \in 1 .. Len(t) : d \in 1 .. Len(t) - 1 \/ d = Len(t)
  BY <1>1
<1>4. \A d \in 1 .. Len(t) - 1 :
        d \in 1 .. Len(t) /\ \A k : Past(u, TRUE, d, k) <=> Past(t, TRUE, d, k)
  BY <1>1, <1>2 DEF Past
<1>5. \A k \in 1 .. Len(t[Len(t)].sibs) : Past(t, TRUE, Len(t), k)
  BY <1>1 DEF Past, IsLastChild
<1>6. Unmet(in, u, TRUE, id)
  BY <1>2, <1>4 DEF Unmet, Pending
<1>7. ASSUME NEW V, Holds(in, u, TRUE, V)
      PROVE  Holds(in, t, TRUE, V)
  BY <1>2, <1>3, <1>4, <1>5, <1>7 DEF Holds
<1> QED
  BY <1>6, <1>7 DEF Pending, Ahead, u

LEMMA KidsOfInput ==
  ASSUME NEW n
  PROVE  Kids(n) = KidsIn(input, n)
  BY DEF Kids, KindOf, KidsIn

(* Down to the children of a node that does not map to id.                 *)
LEMMA PendingDown ==
  ASSUME input \in Input, NEW t, Good(t), t # << >>,
         NEW id, Pending(input, t, FALSE, id),
         ~ MapsIn(input, GetCurrent(t), id)
  PROVE  Pending(input, DescendToChild(t), FALSE, id)
<1> DEFINE u == DescendToChild(t)
           c == GetCurrent(t)
           l == Len(t)
<1>1. /\ l \in Nat \ {0} /\ l \in 1 .. l /\ c \in Node
      /\ c = t[l].sibs[t[l].at] /\ t[l].at \in 1 .. Len(t[l].sibs)
      /\ \A d \in 1 .. l : t[d].sibs \in Seq(Node) /\ t[d].at \in Nat
  <2>1. Len(t) \in Nat \ {0} /\ Top(t) = t[Len(t)] /\ Len(t) \in 1 .. Len(t)
        /\ GetCurrent(t) \in Node
    BY GoodTop
  <2>2. \A d \in 1 .. Len(t) : t[d].sibs \in Seq(Node) /\ t[d].at \in Nat
                               /\ t[d].at \in 1 .. Len(t[d].sibs)
    BY GoodTop
  <2> QED
    BY <2>1, <2>2 DEF GetCurrent
<1>2. /\ Len(u) = l + 1 /\ u[l + 1].sibs = KidsIn(input, c) /\ u[l + 1].at = 1
      /\ \A d \in 1 .. l : u[d] = t[d]
  BY DescendShape, KidsOfInput
<1>3. KidsIn(input, c) \in Seq(Node)
  BY <1>1, KidsType, KidsOfInput
<1> HIDE DEF u, c, l
<1>4. \A d \in 1 .. l + 1 : d \in 1 .. l \/ d = l + 1
  BY <1>1
<1>5. \A k \in 1 .. Len(KidsIn(input, c)) : ~ Past(u, FALSE, l + 1, k)
  BY <1>1, <1>2, <1>3 DEF Past
<1>6. \A d \in 1 .. l : \A k :
        Past(u, FALSE, d, k) <=> Past(t, FALSE, d, k) \/ (d = l /\ k = t[l].at)
  BY <1>1, <1>2 DEF Past, l
<1>7. ~ MapsIn(input, c, id)
  BY DEF c
<1>8. Unmet(input, u, FALSE, id)
  <2> SUFFICES ASSUME NEW d \in 1 .. l + 1, NEW k \in 1 .. Len(u[d].sibs),
                      Past(u, FALSE, d, k)
               PROVE  ~ MapsIn(input, u[d].sibs[k], id)
    BY <1>2 DEF Unmet
  <2>1. d \in 1 .. l
    BY <1>2, <1>4, <1>5
  <2>2. CASE Past(t, FALSE, d, k)
    BY <2>1, <2>2, <1>2 DEF Pending, Unmet, l
  <2>3. CASE d = l /\ k = t[l].at
    BY <2>1, <2>3, <1>1, <1>2, <1>7
  <2> QED
    BY <2>1, <2>2, <2>3, <1>6
<1>9. Ahead(input, u, FALSE, id)
  <2> SUFFICES ASSUME NEW V \in SUBSET Node, Holds(input, u, FALSE, V),
                      NEW n \in Bearers(input, id), n \notin V
               PROVE  FALSE
    BY DEF Ahead
  <2> DEFINE W == V \cup {c}
  <2>1. W \in SUBSET Node
    BY <1>1
  <2>2. ClosedIn(input, W)
    <3> SUFFICES ASSUME NEW p \in W, \A m \in input.metas[p] : m.nameOnly,
                        NEW i \in DOMAIN KidsIn(input, p)
                 PROVE  KidsIn(input, p)[i] \in W
      BY DEF ClosedIn
    <3>1. CASE p \in V
      BY <3>1 DEF Holds, ClosedIn
    <3>2. CASE p = c
      <4>1. i \in 1 .. Len(KidsIn(input, c))
        BY <3>2, <1>3
      <4>2. l + 1 \in 1 .. Len(u)
        BY <1>1, <1>2
      <4> QED
        BY <4>1, <4>2, <3>2, <1>2, <1>5 DEF Holds
    <3> QED
      BY <3>1, <3>2
  <2>3. ASSUME NEW d \in 1 .. l, NEW k \in 1 .. Len(t[d].sibs),
               ~ Past(t, FALSE, d, k)
        PROVE  t[d].sibs[k] \in W
    <3>1. CASE d = l /\ k = t[l].at
      BY <3>1, <1>1
    <3>2. CASE ~ (d = l /\ k = t[l].at)
      <4>1. d \in 1 .. Len(u)
        BY <1>1, <1>2
      <4>2. ~ Past(u, FALSE, d, k)
        BY <3>2, <2>3, <1>6, Zenon
      <4> QED
        BY <4>1, <4>2, <1>2 DEF Holds
    <3> QED
      BY <3>1, <3>2
  <2>4. Holds(input, t, FALSE, W)
    BY <2>2, <2>3 DEF Holds, l
  <2>5. n \in W
    BY <2>1, <2>4 DEF Pending, Ahead
  <2> QED
    BY <2>5, <1>7 DEF Bearers
<1> QED
  BY <1>8, <1>9 DEF Pending, u

(* At the end of the traversal nothing is to come.                         *)
LEMMA NothingPending ==
  ASSUME NEW in, NEW b, NEW id, Pending(in, << >>, b, id)
  PROVE  Bearers(in, id) = {}
<1>1. Holds(in, << >>, b, {})
  BY DEF Holds, ClosedIn
<1> QED
  BY <1>1 DEF Pending, Ahead

-----------------------------------------------------------------------------
(* The potential match that is the template's own text takes each move.    *)

LEMMA SettledMove ==
  ASSUME NEW in, NEW binds, NEW t, NEW b, NEW u, NEW c, Settled(in, binds, t, b),
         \A id \in Identifier : Pending(in, t, b, id) => Pending(in, u, c, id)
  PROVE  Settled(in, binds, u, c)
  BY DEF Settled

(* Other levels of a potential match, the same root and bindings.          *)
LEMMA OwnMoved ==
  ASSUME NEW in, NEW pots, NEW n, AllInStep(pots, n),
         NEW t, NEW b, OwnAmong(in, pots, t, b),
         NEW moved, NEW u, NEW c,
         \A pot \in pots : pot.levels = t => [pot EXCEPT !.levels = u] \in moved,
         \A id \in Identifier : Pending(in, t, b, id) => Pending(in, u, c, id)
  PROVE  OwnAmong(in, moved, u, c)
<1>1. PICK pot \in pots : /\ pot.root = in.subtrees /\ pot.levels = t
                          /\ Settled(in, pot.binds, t, b)
  BY DEF OwnAmong
<1>2. pot \in PotentialMatches
  BY DEF AllInStep, InStep
<1> DEFINE q == [pot EXCEPT !.levels = u]
<1>3. q.root = pot.root /\ q.levels = u /\ q.binds = pot.binds
  BY <1>1, <1>2 DEF PotentialMatches
<1>4. q \in moved
  BY <1>1
<1>5. Settled(in, q.binds, u, c)
  BY <1>1, <1>3, SettledMove
<1> HIDE DEF q
<1> QED
  BY <1>1, <1>3, <1>4, <1>5 DEF OwnAmong

LEMMA OwnUp ==
  ASSUME NEW in, NEW pots, NEW n, AllInStep(pots, n),
         NEW t, Good(t), t # << >>, IsLastChild(t), OwnAmong(in, pots, t, TRUE)
  PROVE  OwnAmong(in, ForEach(Filter(pots, IsLastChild), BacktrackToParent),
                  BacktrackToParent(t), TRUE)
<1> DEFINE moved == ForEach(Filter(pots, IsLastChild), BacktrackToParent)
           u == BacktrackToParent(t)
<1>1. \A id \in Identifier : Pending(in, t, TRUE, id) => Pending(in, u, TRUE, id)
  BY PendingUp
<1>2. \A pot \in pots : pot.levels = t => [pot EXCEPT !.levels = u] \in moved
  BY DEF ForEach, Filter
<1> HIDE DEF moved, u
<1>3. OwnAmong(in, moved, u, TRUE)
  BY <1>1, <1>2, OwnMoved
<1> QED
  BY <1>3 DEF moved, u

LEMMA OwnOn ==
  ASSUME NEW in, NEW pots, NEW n, AllInStep(pots, n),
         NEW t, Good(t), t # << >>, ~ IsLastChild(t), OwnAmong(in, pots, t, TRUE)
  PROVE  OwnAmong(in, ForEach(Filter(pots, LAMBDA l : ~ IsLastChild(l)), NextSibling),
                  NextSibling(t), FALSE)
<1> DEFINE moved == ForEach(Filter(pots, LAMBDA l : ~ IsLastChild(l)), NextSibling)
           u == NextSibling(t)
<1>1. \A id \in Identifier : Pending(in, t, TRUE, id) => Pending(in, u, FALSE, id)
  BY PendingOn
<1>2. \A pot \in pots : pot.levels = t => [pot EXCEPT !.levels = u] \in moved
  BY DEF ForEach, Filter
<1> HIDE DEF moved, u
<1>3. OwnAmong(in, moved, u, FALSE)
  BY <1>1, <1>2, OwnMoved
<1> QED
  BY <1>3 DEF moved, u

(* What has been done at the current node: a metavariable on it is bound.  *)
OwnAt(in, pots, t) ==
  \E pot \in pots :
    /\ pot.root = in.subtrees /\ pot.levels = t
    /\ Settled(in, pot.binds, t, FALSE)
    /\ \A id \in Identifier : MapsIn(in, GetCurrent(t), id) => id \in DOMAIN pot.binds

LEMMA OwnDown ==
  ASSUME input \in Input, NEW pots, NEW n, AllInStep(pots, n),
         NEW t, Good(t), t # << >>, HasChildren(t), OwnAt(input, pots, t)
  PROVE  OwnAmong(input, ForEach(Filter(pots, HasChildren), DescendToChild),
                  DescendToChild(t), FALSE)
<1> DEFINE moved == ForEach(Filter(pots, HasChildren), DescendToChild)
           u == DescendToChild(t)
<1>1. PICK pot \in pots :
        /\ pot.root = input.subtrees /\ pot.levels = t
        /\ Settled(input, pot.binds, t, FALSE)
        /\ \A id \in Identifier :
             MapsIn(input, GetCurrent(t), id) => id \in DOMAIN pot.binds
  BY DEF OwnAt
<1>2. pot \in PotentialMatches
  BY DEF AllInStep, InStep
<1> DEFINE q == [pot EXCEPT !.levels = u]
<1>3. q.root = pot.root /\ q.levels = u /\ q.binds = pot.binds
  BY <1>1, <1>2 DEF PotentialMatches
<1>4. q \in moved
  BY <1>1 DEF ForEach, Filter
<1>5. \A id \in Identifier :
        Pending(input, t, FALSE, id) /\ ~ MapsIn(input, GetCurrent(t), id)
          => Pending(input, u, FALSE, id)
  BY PendingDown
<1> HIDE DEF q, u, moved
<1>6. Settled(input, q.binds, u, FALSE)
  BY <1>1, <1>3, <1>5 DEF Settled
<1>7. OwnAmong(input, moved, u, FALSE)
  BY <1>1, <1>3, <1>4, <1>6 DEF OwnAmong
<1> QED
  BY <1>7 DEF u, moved

(* A node without children is done with.                                   *)
LEMMA OwnDone ==
  ASSUME input \in Input, NEW pots, NEW t, Good(t), t # << >>,
         ~ HasChildren(t), OwnAt(input, pots, t)
  PROVE  OwnAmong(input, pots, t, TRUE)
<1>1. PICK pot \in pots :
        /\ pot.root = input.subtrees /\ pot.levels = t
        /\ Settled(input, pot.binds, t, FALSE)
        /\ \A id \in Identifier :
             MapsIn(input, GetCurrent(t), id) => id \in DOMAIN pot.binds
  BY DEF OwnAt
<1> DEFINE e == Top(t).at
<1>2. /\ e \in e .. Len(Top(t).sibs) /\ e .. e = {e}
      /\ GetCurrent(t) = Top(t).sibs[e]
  BY GoodTop DEF GetCurrent
<1>3. MoveTo(t, e) = t
  <2>1. Good(t) /\ t \in Seq(Level) /\ Len(t) \in 1 .. Len(t) /\ Top(t) = t[Len(t)]
        /\ t[Len(t)] \in Level
    BY GoodTop DEF Good
  <2>2. [sibs |-> Top(t).sibs, at |-> e] = t[Len(t)]
    BY <2>1 DEF Level
  <2> QED
    BY <2>1, <2>2 DEF MoveTo
<1>4. KidsIn(input, GetCurrent(t)) = << >>
  BY KidsOfInput DEF HasChildren
<1> HIDE DEF e
<1>5. \A id \in Identifier :
        Pending(input, t, FALSE, id) /\ ~ MapsIn(input, GetCurrent(t), id)
          => Pending(input, t, TRUE, id)
  <2> SUFFICES ASSUME NEW id \in Identifier, Pending(input, t, FALSE, id),
                      ~ MapsIn(input, GetCurrent(t), id)
               PROVE  Pending(input, MoveTo(t, e), TRUE, id)
    BY <1>3
  <2>1. \A k \in Top(t).at .. e :
          ~ MapsIn(input, Top(t).sibs[k], id) /\ Explored(input, Top(t).sibs[k])
    BY <1>2, <1>4 DEF Explored, e
  <2>2. e \in Top(t).at .. Len(Top(t).sibs)
    BY <1>2 DEF e
  <2> QED
    BY <2>1, <2>2, PendingAfter
<1>6. Settled(input, pot.binds, t, TRUE)
  BY <1>1, <1>5 DEF Settled
<1> QED
  BY <1>1, <1>6 DEF OwnAmong

-----------------------------------------------------------------------------
(* The siblings from the current one on that map to its identifier are all *)
(* the nodes that do, if these are a run of siblings and none was met.     *)

LEMMA KidsInType ==
  ASSUME input \in Input, NEW n \in Node
  PROVE  KidsIn(input, n) \in Seq(Node)
  BY KidsType, KidsOfInput

LEMMA TemplateFacts ==
  ASSUME NEW in, IsTemplate(in)
  PROVE  /\ \A n \in Node : in.metas[n] # {} => n \in Reached(in)
         /\ \A n \in Reached(in) :
              \A i \in DOMAIN KidsIn(in, n), j \in DOMAIN in.subtrees :
                KidsIn(in, n)[i] # in.subtrees[j]
         /\ \A n, p \in Node : \A i \in DOMAIN KidsIn(in, n), j \in DOMAIN KidsIn(in, p) :
              (KidsIn(in, n)[i] = KidsIn(in, p)[j] /\ in.metas[KidsIn(in, n)[i]] # {})
                => n = p /\ i = j
  BY DEF IsTemplate

(* What the traversal comes to is closed, and the least such set.          *)
LEMMA ReachedClosed ==
  ASSUME input \in Input
  PROVE  /\ Reached(input) \subseteq Node
         /\ \A i \in DOMAIN input.subtrees : input.subtrees[i] \in Reached(input)
         /\ ClosedIn(input, Reached(input))
         /\ \A V \in SUBSET Node :
              ((\A i \in DOMAIN input.subtrees : input.subtrees[i] \in V)
                 /\ ClosedIn(input, V)) => Reached(input) \subseteq V
<1> DEFINE closed == {V \in SUBSET Node :
                        /\ \A i \in DOMAIN input.subtrees : input.subtrees[i] \in V
                        /\ ClosedIn(input, V)}
<1>1. Reached(input) = {n \in Node : \A V \in closed : n \in V}
  BY DEF Reached
<1>2. \A i \in DOMAIN input.subtrees : input.subtrees[i] \in Node
  BY DEF Input
<1>3. \A i \in DOMAIN input.subtrees : input.subtrees[i] \in Reached(input)
  BY <1>1, <1>2
<1>4. ASSUME NEW n \in Reached(input), \A m \in input.metas[n] : m.nameOnly,
             NEW i \in DOMAIN KidsIn(input, n)
      PROVE  KidsIn(input, n)[i] \in Reached(input)
  <2>1. n \in Node
    BY <1>1
  <2>2. KidsIn(input, n)[i] \in Node
    BY <2>1, KidsInType
  <2>3. \A V \in closed : KidsIn(input, n)[i] \in V
    BY <1>1, <1>4 DEF ClosedIn
  <2> QED
    BY <2>2, <2>3, <1>1
<1>5. ClosedIn(input, Reached(input))
  BY <1>4 DEF ClosedIn
<1> QED
  BY <1>1, <1>3, <1>5

(* The nodes s are children of p, from the (o + 1)-th on.                  *)
Piece(in, s, p, o) ==
  \A k \in DOMAIN s : o + k \in DOMAIN KidsIn(in, p) /\ s[k] = KidsIn(in, p)[o + k]

LEMMA SubtreesPiece ==
  ASSUME input \in Input, input.subtrees \in PotentialRoots
  PROVE  \E p \in Node, o \in Nat : Piece(input, input.subtrees, p, o)
<1> DEFINE r == input.subtrees
           from(p, i) == \E j \in DOMAIN Kids(p) : r = SubSeq(Kids(p), i, j)
<1>1. PICK p \in Node : \E i \in DOMAIN Kids(p) : from(p, i)
  BY DEF PotentialRoots
<1>2. Kids(p) \in Seq(Node) /\ Kids(p) = KidsIn(input, p)
  BY KidsType, KidsOfInput
<1>3. PICK i \in DOMAIN Kids(p) : from(p, i)
  BY <1>1
<1>4. PICK j \in DOMAIN Kids(p) : r = SubSeq(Kids(p), i, j)
  BY <1>3
<1>5. i \in 1 .. Len(Kids(p)) /\ j \in 1 .. Len(Kids(p))
  BY <1>2
<1> HIDE DEF r
<1>6. ASSUME NEW k \in DOMAIN r
      PROVE  i - 1 + k \in DOMAIN Kids(p) /\ r[k] = Kids(p)[i - 1 + k]
  <2>1. k \in 1 .. j - i + 1
    BY <1>2, <1>4, <1>5
  <2> QED
    BY <2>1, <1>2, <1>4, <1>5
<1>7. i - 1 \in Nat
  BY <1>5
<1>8. Piece(input, r, p, i - 1)
  BY <1>2, <1>6 DEF Piece
<1> QED
  BY <1>7, <1>8 DEF r

LEMMA SiblingsPiece ==
  ASSUME input \in Input, input.subtrees \in PotentialRoots,
         NEW s \in {input.subtrees} \cup {KidsIn(input, n) : n \in Node}
  PROVE  \E p \in Node, o \in Nat : Piece(input, s, p, o)
<1>1. ASSUME NEW n \in Node
      PROVE  Piece(input, KidsIn(input, n), n, 0)
  <2>1. \A k \in DOMAIN KidsIn(input, n) : 0 + k = k
    BY KidsInType
  <2> QED
    BY <2>1 DEF Piece
<1> QED
  BY <1>1, SubtreesPiece

(* A child with a metavariable beside the subtrees is one of them.         *)
LEMMA InsideSubtrees ==
  ASSUME input \in Input, IsTemplate(input),
         NEW p \in Node, NEW o \in Nat, Piece(input, input.subtrees, p, o),
         NEW z \in DOMAIN KidsIn(input, p), input.metas[KidsIn(input, p)[z]] # {}
  PROVE  z - o \in DOMAIN input.subtrees
<1> SUFFICES ASSUME z - o \notin DOMAIN input.subtrees
             PROVE  FALSE
  OBVIOUS
<1> DEFINE r == input.subtrees
           x == KidsIn(input, p)[z]
           V == Reached(input) \ {x}
<1>1. KidsIn(input, p) \in Seq(Node) /\ r \in Seq(Node) /\ r # << >> /\ x \in Node
      /\ z \in Nat /\ 1 \in DOMAIN r
  <2>1. KidsIn(input, p) \in Seq(Node) /\ r \in Seq(Node) /\ r # << >>
    BY KidsInType DEF Input
  <2> QED
    BY <2>1
<1>2. \A k \in DOMAIN r : r[k] # x
  <2> SUFFICES ASSUME NEW k \in DOMAIN r, r[k] = x
               PROVE  FALSE
    OBVIOUS
  <2>1. o + k \in DOMAIN KidsIn(input, p) /\ KidsIn(input, p)[o + k] = x
    BY DEF Piece
  <2>2. o + k = z
    BY <2>1, TemplateFacts
  <2>3. k = z - o
    BY <2>2, <1>1
  <2> QED
    BY <2>3
<1>3. p \notin Reached(input)
  <2>1. o + 1 \in DOMAIN KidsIn(input, p) /\ KidsIn(input, p)[o + 1] = r[1]
    BY <1>1 DEF Piece
  <2> QED
    BY <2>1, <1>1, TemplateFacts
<1>4. V \in SUBSET Node /\ \A i \in DOMAIN r : r[i] \in V
  BY <1>2, ReachedClosed
<1>5. ClosedIn(input, V)
  <2> SUFFICES ASSUME NEW n \in V, \A m \in input.metas[n] : m.nameOnly,
                      NEW i \in DOMAIN KidsIn(input, n), KidsIn(input, n)[i] = x
               PROVE  FALSE
    BY ReachedClosed DEF ClosedIn
  <2>1. n \in Node
    BY <1>4
  <2>2. n = p
    BY <2>1, TemplateFacts
  <2> QED
    BY <2>2, <1>3
<1>6. x \notin Reached(input)
  BY <1>4, <1>5, ReachedClosed
<1> QED
  BY <1>1, <1>6, TemplateFacts

LEMMA RunOfCurrent ==
  ASSUME input \in Input, IsTemplate(input), input.subtrees \in PotentialRoots,
         NEW t, Good(t), t # << >>, t[1].sibs = input.subtrees,
         NEW id, OneRun(input, id), Unmet(input, t, FALSE, id),
         NEW e \in Top(t).at .. Len(Top(t).sibs),
         \A k \in Top(t).at .. e : MapsIn(input, Top(t).sibs[k], id),
         e # Len(Top(t).sibs) => ~ MapsIn(input, Top(t).sibs[e + 1], id)
  PROVE  Bearers(input, id) = {Top(t).sibs[k] : k \in Top(t).at .. e}
<1> DEFINE s == Top(t).sibs
           at == Top(t).at
           l == Len(t)
<1>1. /\ l \in Nat \ {0} /\ l \in 1 .. l /\ Top(t) = t[l]
      /\ s \in Seq(Node) /\ at \in Nat \ {0} /\ at \in 1 .. Len(s)
      /\ GetCurrent(t) = s[at] /\ \A k \in 1 .. Len(s) : s[k] \in Node
  <2>1. Len(t) \in Nat \ {0} /\ Top(t) = t[Len(t)] /\ Len(t) \in 1 .. Len(t)
    BY GoodTop
  <2>2. Top(t).sibs \in Seq(Node)
    BY <2>1, GoodTop
  <2> QED
    BY <2>1, <2>2, GoodTop DEF GetCurrent
<1>2. e \in 1 .. Len(s) /\ Len(s) \in Nat /\ e \in Nat /\ e >= at
  BY <1>1
(* The siblings are children of some p.                                    *)
<1>3. PICK p \in Node, o \in Nat :
        /\ Piece(input, s, p, o)
        /\ \A z \in DOMAIN KidsIn(input, p) :
             input.metas[KidsIn(input, p)[z]] # {} => z - o \in DOMAIN s
  <2>1. CASE l = 1
    <3>1. s = input.subtrees
      BY <2>1, <1>1
    <3> QED
      BY <3>1, SubtreesPiece, InsideSubtrees
  <2>2. CASE l # 1
    <3> DEFINE q == t[l - 1].sibs[t[l - 1].at]
    <3> HIDE DEF l
    <3>1. l \in 2 .. l /\ l - 1 \in 1 .. l
      BY <2>2, <1>1
    <3> USE DEF l
    <3>2. s = Kids(q) /\ q \in Node
      BY <3>1, <1>1, GoodTop DEF Good, Nested
    <3>3. s = KidsIn(input, q)
      BY <3>2, KidsOfInput
    <3>4. \A k \in DOMAIN s : 0 + k = k /\ k - 0 = k
      BY <1>1
    <3>5. Piece(input, s, q, 0)
      BY <3>3, <3>4 DEF Piece
    <3> QED
      BY <3>2, <3>3, <3>4, <3>5
  <2> QED
    BY <2>1, <2>2
<1>4. PICK sibs \in {input.subtrees} \cup {KidsIn(input, n) : n \in Node} :
        \E i, j \in DOMAIN sibs :
          i <= j /\ Bearers(input, id) = {sibs[k] : k \in i .. j}
  BY DEF OneRun
<1>5. PICK i \in DOMAIN sibs, j \in DOMAIN sibs :
        i <= j /\ Bearers(input, id) = {sibs[k] : k \in i .. j}
  BY <1>4
<1>6. sibs \in Seq(Node)
  BY KidsInType DEF Input
<1>7. PICK p2 \in Node, o2 \in Nat : Piece(input, sibs, p2, o2)
  BY SiblingsPiece
<1>8. i \in Nat /\ j \in Nat /\ \A k \in i .. j : k \in DOMAIN sibs
  BY <1>5, <1>6
<1> HIDE DEF s, at, l
(* Both are children of the same node.                                     *)
<1>9. ASSUME NEW k \in DOMAIN s, NEW y \in i .. j, s[k] = sibs[y]
      PROVE  p = p2 /\ o + k = o2 + y
  <2>1. o + k \in DOMAIN KidsIn(input, p) /\ s[k] = KidsIn(input, p)[o + k]
    BY <1>3, <1>9 DEF Piece
  <2>2. o2 + y \in DOMAIN KidsIn(input, p2) /\ sibs[y] = KidsIn(input, p2)[o2 + y]
    BY <1>7, <1>8, <1>9 DEF Piece
  <2>3. input.metas[sibs[y]] # {}
    BY <1>5, <1>9 DEF Bearers, MapsIn
  <2>4. \A x, y2 \in Node : \A z \in DOMAIN KidsIn(input, x),
                               z2 \in DOMAIN KidsIn(input, y2) :
          (KidsIn(input, x)[z] = KidsIn(input, y2)[z2]
            /\ input.metas[KidsIn(input, x)[z]] # {}) => x = y2 /\ z = z2
    BY TemplateFacts
  <2>5. /\ KidsIn(input, p)[o + k] = KidsIn(input, p2)[o2 + y]
        /\ input.metas[KidsIn(input, p)[o + k]] # {}
    BY <2>1, <2>2, <2>3, <1>9
  <2> QED
    BY <2>1, <2>2, <2>4, <2>5
<1>10. s[at] \in Bearers(input, id)
  <2>1. at \in at .. e
    BY <1>1, <1>2
  <2> QED
    BY <2>1, <1>1 DEF Bearers, s, at
<1>11. PICK c \in i .. j : s[at] = sibs[c]
  BY <1>5, <1>10
<1>12. p = p2 /\ o + at = o2 + c /\ at \in DOMAIN s
  BY <1>1, <1>9, <1>11
(* A node that maps to id is among the siblings, and all between it and    *)
(* the current one map to id.                                              *)
<1>13. ASSUME NEW y \in i .. j
       PROVE  o2 + y - o \in DOMAIN s /\ s[o2 + y - o] = sibs[y]
  <2>1. o2 + y \in DOMAIN KidsIn(input, p) /\ sibs[y] = KidsIn(input, p)[o2 + y]
    BY <1>7, <1>8, <1>12, <1>13 DEF Piece
  <2>2. input.metas[sibs[y]] # {}
    BY <1>5, <1>13 DEF Bearers, MapsIn
  <2>3. o2 + y - o \in DOMAIN s
    BY <2>1, <2>2, <1>3
  <2>4. o + (o2 + y - o) = o2 + y
    BY <1>8, <1>13
  <2> QED
    BY <2>1, <2>3, <2>4, <1>3 DEF Piece
<1>14. ASSUME NEW k \in 1 .. Len(s), MapsIn(input, s[k], id)
       PROVE  k \in at .. e
  <2>1. k >= at
    <3> SUFFICES ASSUME k < at
                 PROVE  FALSE
      BY <1>1, <1>14
    <3>1. Past(t, FALSE, l, k)
      BY <1>1 DEF Past, at, l
    <3> QED
      BY <3>1, <1>1, <1>14 DEF Unmet, s, l
  <2>2. k <= e
    <3> SUFFICES ASSUME k > e
                 PROVE  FALSE
      BY <1>2, <1>14
    <3>1. s[k] \in Bearers(input, id)
      BY <1>1, <1>14 DEF Bearers
    <3>2. PICK y \in i .. j : s[k] = sibs[y]
      BY <3>1, <1>5
    <3>3. o + k = o2 + y
      BY <3>2, <1>1, <1>9
    <3> DEFINE f == e + 1 + o - o2
    <3>4. f \in i .. j /\ o2 + f - o = e + 1
      BY <3>3, <1>2, <1>8, <1>12, <1>1
    <3>5. s[e + 1] = sibs[f] /\ e + 1 \in DOMAIN s
      BY <3>4, <1>13
    <3>6. MapsIn(input, s[e + 1], id)
      BY <3>4, <3>5, <1>5 DEF Bearers
    <3>7. e # Len(s)
      BY <1>2, <1>14
    <3> QED
      BY <3>6, <3>7 DEF s
  <2> QED
    BY <2>1, <2>2, <1>2, <1>14
<1>15. ASSUME NEW n \in Bearers(input, id)
       PROVE  \E k \in at .. e : n = s[k]
  <2>1. PICK y \in i .. j : n = sibs[y]
    BY <1>5, <1>15
  <2>2. o2 + y - o \in 1 .. Len(s) /\ s[o2 + y - o] = n
    BY <2>1, <1>13, <1>1
  <2>3. MapsIn(input, n, id)
    BY <1>15 DEF Bearers
  <2> QED
    BY <2>2, <2>3, <1>14
<1>16. ASSUME NEW k \in at .. e
       PROVE  s[k] \in Bearers(input, id)
  <2>1. s[k] \in Node
    BY <1>1, <1>2, <1>16
  <2> QED
    BY <2>1, <1>16 DEF Bearers, s, at
<1>17. Bearers(input, id) = {s[k] : k \in at .. e}
  BY <1>15, <1>16
<1> QED
  BY <1>17 DEF s, at

-----------------------------------------------------------------------------
(* A metavariable for whole subtrees: one of the copies takes its own run. *)

LEMMA Inserted ==
  ASSUME NEW binds, NEW id, NEW nodes
  PROVE  /\ DOMAIN Insert(binds, id, nodes) = DOMAIN binds \cup {id}
         /\ \A k \in DOMAIN binds : Insert(binds, id, nodes)[k] = binds[k]
         /\ id \notin DOMAIN binds => Insert(binds, id, nodes)[id] = nodes
<1>1. CASE id \in DOMAIN binds
  BY <1>1 DEF Insert
<1>2. CASE id \notin DOMAIN binds
  BY <1>2 DEF Insert
<1> QED
  BY <1>1, <1>2

LEMMA MoveStays ==
  ASSUME NEW t, Good(t), t # << >>
  PROVE  MoveTo(t, Top(t).at) = t
<1>1. t \in Seq(Level) /\ Len(t) \in 1 .. Len(t) /\ Top(t) = t[Len(t)]
      /\ t[Len(t)] \in Level
  BY GoodTop DEF Good
<1>2. [sibs |-> Top(t).sibs, at |-> Top(t).at] = t[Len(t)]
  BY <1>1 DEF Level
<1> QED
  BY <1>1, <1>2 DEF MoveTo

LEMMA MoveTwice ==
  ASSUME NEW t, Good(t), t # << >>, NEW e \in 1 .. Len(Top(t).sibs), NEW i
  PROVE  MoveTo(MoveTo(t, e), i) = MoveTo(t, i)
<1> DEFINE u == MoveTo(t, e)
           l == [sibs |-> Top(t).sibs, at |-> e]
           m == [sibs |-> Top(t).sibs, at |-> i]
<1>1. t \in Seq(Level) /\ Len(t) \in 1 .. Len(t) /\ DOMAIN t = 1 .. Len(t)
  BY GoodTop DEF Good
<1>2. u = [t EXCEPT ![Len(t)] = l] /\ Top(u) = l /\ Len(u) = Len(t)
  BY <1>1 DEF MoveTo, Top
<1>3. l.sibs = Top(t).sibs
  OBVIOUS
<1>4. MoveTo(u, i) = [u EXCEPT ![Len(u)] = [sibs |-> Top(u).sibs, at |-> i]]
  BY DEF MoveTo
<1> HIDE DEF u, l
<1>5. MoveTo(u, i) = [[t EXCEPT ![Len(t)] = l] EXCEPT ![Len(t)] = m]
  BY <1>2, <1>3, <1>4
<1>6. MoveTo(t, i) = [t EXCEPT ![Len(t)] = m]
  BY DEF MoveTo
<1> HIDE DEF m
<1> QED
  BY <1>5, <1>6 DEF u

LEMMA RunNodes ==
  ASSUME NEW s \in Seq(Node), NEW a \in 1 .. Len(s), NEW e \in a .. Len(s)
  PROVE  {SubSeq(s, a, e)[i] : i \in DOMAIN SubSeq(s, a, e)} = {s[k] : k \in a .. e}
<1> DEFINE r == SubSeq(s, a, e)
<1>1. DOMAIN r = 1 .. e - a + 1 /\ \A i \in 1 .. e - a + 1 : r[i] = s[a + i - 1]
  OBVIOUS
<1> HIDE DEF r
<1>2. ASSUME NEW i \in DOMAIN r
      PROVE  \E k \in a .. e : r[i] = s[k]
  <2>1. a + i - 1 \in a .. e
    BY <1>1
  <2> QED
    BY <1>1, <2>1
<1>3. ASSUME NEW k \in a .. e
      PROVE  \E i \in DOMAIN r : r[i] = s[k]
  <2>1. k - a + 1 \in DOMAIN r /\ a + (k - a + 1) - 1 = k
    BY <1>1
  <2> QED
    BY <1>1, <2>1
<1>4. {r[i] : i \in DOMAIN r} = {s[k] : k \in a .. e}
  BY <1>2, <1>3
<1> QED
  BY <1>4 DEF r

LEMMA OwnExtended ==
  ASSUME IInv, AtMetavariable, Searched, OwnAmong(input, potentials, trav, FALSE),
         NEW e \in Top(trav).at .. Len(Top(trav).sibs),
         \A k \in Top(trav).at .. e : SameMetavariable(Top(trav).sibs[k]),
         e # Len(Top(trav).sibs) => ~ SameMetavariable(Top(trav).sibs[e + 1])
  PROVE  OwnAmong(input, Extended, MoveTo(trav, e), TRUE)
<1> DEFINE s == Top(trav).sibs
           at == Top(trav).at
           id0 == Meta.identifier
           u == MoveTo(trav, e)
           run == SubSeq(s, at, e)
<1>1. /\ input \in Input /\ Good(trav) /\ trav # << >> /\ curr \in Node
      /\ AllInStep(potentials, Len(trav)) /\ Len(trav) \in Nat \ {0}
      /\ IsTemplate(input) /\ UsesAgree(input) /\ input.subtrees \in PotentialRoots
  BY InMatch DEF AtMetavariable, Searched
<1>2. /\ s \in Seq(Node) /\ at \in Nat \ {0} /\ at \in 1 .. Len(s) /\ Len(s) \in Nat
      /\ curr = s[at] /\ \A k \in 1 .. Len(s) : s[k] \in Node
  <2>1. Len(trav) \in 1 .. Len(trav) /\ Top(trav) = trav[Len(trav)]
    BY <1>1, GoodTop
  <2>2. s \in Seq(Node) /\ at \in Nat \ {0} /\ at \in 1 .. Len(s)
    BY <1>1, <2>1, GoodTop
  <2> QED
    BY <2>2 DEF curr, GetCurrent
<1>3. e \in 1 .. Len(s) /\ e \in at .. Len(s)
  BY <1>2
<1>4. Meta \in input.metas[curr] /\ ~ Meta.nameOnly
  <2>1. PICK m \in input.metas[curr] : ~ m.nameOnly
    BY DEF AtMetavariable
  <2>2. Meta \in input.metas[curr]
    BY <2>1 DEF Meta
  <2>3. Meta = m
    BY <1>1, <2>1, <2>2, MapsToOne
  <2> QED
    BY <2>1, <2>2, <2>3
<1>5. PICK pot \in potentials : /\ pot.root = input.subtrees /\ pot.levels = trav
                                /\ Settled(input, pot.binds, trav, FALSE)
  BY DEF OwnAmong
<1>6. pot \in PotentialMatches /\ trav[1].sibs = input.subtrees
  BY <1>1, <1>5 DEF AllInStep, InStep
<1> DEFINE q == [pot EXCEPT !.levels = MoveTo(@, e), !.binds = Insert(@, id0, run)]
<1>7. q \in Extended
  <2>1. q \in ExtendForMetavariable(pot, Meta)
    BY <1>5 DEF ExtendForMetavariable
  <2> QED
    BY <2>1, <1>5 DEF Extended
<1>8. q.root = pot.root /\ q.levels = u /\ q.binds = Insert(pot.binds, id0, run)
  BY <1>5, <1>6 DEF PotentialMatches
<1>9. \A k \in at .. e : MapsIn(input, s[k], id0)
  BY DEF SameMetavariable, MapsIn
<1>10. e # Len(s) => ~ MapsIn(input, s[e + 1], id0)
  BY DEF SameMetavariable, MapsIn
<1>11. \A k \in at .. e : k \in 1 .. Len(s)
  BY <1>2, <1>3
<1>12. {run[i] : i \in DOMAIN run} = {s[k] : k \in at .. e}
  BY <1>2, <1>3, RunNodes
<1> HIDE DEF q, u, run, id0
<1> DEFINE b == q.binds
<1> HIDE DEF b
<1>13. /\ DOMAIN b = DOMAIN pot.binds \cup {id0}
       /\ \A k \in DOMAIN pot.binds : b[k] = pot.binds[k]
       /\ id0 \notin DOMAIN pot.binds => b[id0] = run
  <2>1. b = Insert(pot.binds, id0, run)
    BY <1>8 DEF b
  <2>2. /\ DOMAIN Insert(pot.binds, id0, run) = DOMAIN pot.binds \cup {id0}
        /\ \A k \in DOMAIN pot.binds : Insert(pot.binds, id0, run)[k] = pot.binds[k]
        /\ id0 \notin DOMAIN pot.binds => Insert(pot.binds, id0, run)[id0] = run
    BY Inserted, Zenon
  <2> QED
    BY <2>1, <2>2, Zenon
<1>14. ASSUME NEW id \in Identifier, OneRun(input, id),
              ~ Stands(input, b, id)
       PROVE  id \notin DOMAIN b /\ Pending(input, u, TRUE, id)
  <2>1. id \notin DOMAIN pot.binds /\ Pending(input, trav, FALSE, id)
    <3>1. CASE Stands(input, pot.binds, id)
      <4>1. id \in DOMAIN pot.binds
        BY <3>1 DEF Stands
      <4>2. b[id] = pot.binds[id] /\ id \in DOMAIN b
        BY <4>1, <1>13, Zenon
      <4> QED
        BY <3>1, <4>2, <1>14 DEF Stands
    <3> QED
      BY <3>1, <1>5, <1>14 DEF Settled
  <2>2. CASE id = id0
    <3>1. b[id] = run /\ id \in DOMAIN b
      BY <2>1, <2>2, <1>13, Zenon
    <3>2. Unmet(input, trav, FALSE, id)
      BY <2>1 DEF Pending
    <3>3. Bearers(input, id) = {s[k] : k \in at .. e}
      BY <1>1, <1>6, <1>9, <1>10, <1>14, <2>2, <3>2, RunOfCurrent
    <3> QED
      BY <3>1, <3>3, <1>12, <1>14 DEF Stands
  <2>3. CASE id # id0
    <3>1. id \notin DOMAIN b
      BY <2>1, <2>3, <1>13
    <3>2. ASSUME NEW k \in at .. e
          PROVE  ~ MapsIn(input, s[k], id) /\ Explored(input, s[k])
      <4>1. PICK m \in input.metas[s[k]] : m.identifier = id0
        BY <1>9, <3>2 DEF MapsIn
      <4>2. s[k] \in Node
        BY <1>2, <1>11, <3>2
      <4>3. \A j \in input.metas[s[k]] : j = m
        BY <1>1, <4>1, <4>2, MapsToOne
      <4>4. ~ MapsIn(input, s[k], id)
        BY <4>1, <4>3, <2>3 DEF MapsIn
      <4>5. m.nameOnly = Meta.nameOnly
        BY <1>1, <1>4, <4>1, <4>2 DEF UsesAgree, id0
      <4>6. ~ m.nameOnly
        BY <4>5, <1>4, Zenon
      <4> QED
        BY <4>1, <4>4, <4>6 DEF Explored
    <3> QED
      BY <1>1, <2>1, <3>1, <3>2, PendingAfter DEF u
  <2> QED
    BY <2>2, <2>3
<1>15. Settled(input, b, u, TRUE)
  BY <1>14 DEF Settled
<1>16. OwnAmong(input, Extended, u, TRUE)
  BY <1>5, <1>7, <1>8, <1>15 DEF OwnAmong, b
<1> QED
  BY <1>16 DEF u

-----------------------------------------------------------------------------
(* Every step keeps the template's own text among the potential matches.   *)

OwnNext ==
  \/ backtracked' = TRUE /\ OwnAmong(input, potentials', trav', TRUE)
  \/ backtracked' = FALSE /\ OwnAmong(input, potentials', trav', FALSE)

LEMMA FromOwn ==
  ASSUME input \in Input, Good(trav), trav # << >>,
         NEW pots, AllInStep(pots, Len(trav)), OwnAt(input, pots, trav),
         GoOnFrom(pots)
  PROVE  OwnNext
<1> DEFINE childless == Filter(pots, LAMBDA l : ~ HasChildren(l))
<1>1. CASE HasChildren(trav)
  <2>1. GoDown(pots)
    BY <1>1 DEF GoOnFrom
  <2> QED
    BY <1>1, <2>1, OwnDown DEF GoDown, OwnNext
<1>2. CASE ~ HasChildren(trav)
  <2>1. AllInStep(childless, Len(trav))
    BY FilterInStep
  <2>2. OwnAt(input, childless, trav)
    BY <1>2 DEF OwnAt, Filter
  <2>3. \/ IsLastChild(trav) /\ GoUp(childless)
        \/ ~ IsLastChild(trav) /\ GoOn(childless)
    BY <1>2 DEF GoOnFrom
  <2> HIDE DEF childless
  <2>4. OwnAmong(input, childless, trav, TRUE)
    BY <1>2, <2>2, OwnDone
  <2>5. CASE IsLastChild(trav) /\ GoUp(childless)
    BY <2>1, <2>4, <2>5, OwnUp DEF GoUp, OwnNext
  <2>6. CASE ~ IsLastChild(trav) /\ GoOn(childless)
    BY <2>1, <2>4, <2>6, OwnOn DEF GoOn, OwnNext
  <2> QED
    BY <2>3, <2>5, <2>6
<1> QED
  BY <1>1, <1>2

LEMMA SearchedStays ==
  ASSUME input' = input
  PROVE  Searched' <=> Searched
  BY DEF Searched, RunToTheEnd, MapsTo, PotentialRoots, Kids, KindOf

LEMMA OwnEstablished ==
  ASSUME input' = input, phase' = "match", Searched => OwnNext
  PROVE  OwnInv'
<1>1. ASSUME Searched'
      PROVE  OwnAmong(input, potentials', trav', backtracked')
  <2>1. OwnNext
    BY <1>1, SearchedStays
  <2> QED
    BY <2>1, Zenon DEF OwnNext
<1>2. ASSUME Searched'
      PROVE  OwnAmong(input', potentials', trav', backtracked')
  BY <1>1, <1>2, Zenon
<1> QED
  BY <1>2, Zenon DEF OwnInv

(* What is known in the loop.                                              *)
LEMMA OwnInMatch ==
  ASSUME IInv, OwnInv, Matching, Searched, ~ backtracked
  PROVE  OwnAmong(input, potentials, trav, FALSE)
<1>1. backtracked = FALSE
  BY Zenon DEF IInv, FlagOK
<1>2. OwnAmong(input, potentials, trav, backtracked)
  BY Zenon DEF OwnInv, Matching
<1> QED
  BY <1>1, <1>2, Zenon

(* The finder brings the text, and all metavariables are to come.          *)
LEMMA GatherOwn ==
  ASSUME IInv, OwnInv, GatherPotentialMatches
  PROVE  OwnInv'
<1> SUFFICES ASSUME Searched
             PROVE  OwnNext
  BY OwnEstablished DEF GatherPotentialMatches
<1> DEFINE pot == PotentialMatch(input.subtrees)
           t == <<LevelOf(input.subtrees)>>
<1>1. input \in Input /\ IsTemplate(input) /\ input.subtrees \in PotentialRoots
  BY DEF IInv, Searched
<1>2. input.subtrees \in Seq(Node) /\ input.subtrees # << >>
  BY <1>1 DEF Input
<1>3. pot \in potentials' /\ trav' = t /\ pot.levels = t
      /\ pot.root = input.subtrees /\ DOMAIN pot.binds = {}
  BY <1>1 DEF GatherPotentialMatches, PotentialMatch
<1>4. Len(t) = 1 /\ t[1].sibs = input.subtrees /\ t[1].at = 1
  BY DEF LevelOf
<1> HIDE DEF t, pot
<1>5. \A k \in 1 .. Len(input.subtrees) : ~ Past(t, FALSE, 1, k)
  BY <1>2, <1>4 DEF Past
<1>6. \A d \in 1 .. Len(t) : d = 1
  BY <1>4
<1>7. ASSUME NEW id \in Identifier
      PROVE  Pending(input, t, FALSE, id)
  <2>1. Unmet(input, t, FALSE, id)
    BY <1>4, <1>5, <1>6 DEF Unmet
  <2>2. ASSUME NEW V \in SUBSET Node, Holds(input, t, FALSE, V)
        PROVE  Bearers(input, id) \subseteq V
    <3>1. ClosedIn(input, V) /\ \A k \in DOMAIN input.subtrees : input.subtrees[k] \in V
      <4>1. 1 \in 1 .. Len(t) /\ DOMAIN input.subtrees = 1 .. Len(input.subtrees)
        BY <1>2, <1>4
      <4>2. /\ ClosedIn(input, V)
            /\ \A k \in 1 .. Len(t[1].sibs) : ~ Past(t, FALSE, 1, k) => t[1].sibs[k] \in V
        BY <2>2, <4>1 DEF Holds
      <4> QED
        BY <1>4, <1>5, <4>1, <4>2
    <3>2. Reached(input) \subseteq V
      BY <1>1, <3>1, ReachedClosed
    <3>3. \A n \in Bearers(input, id) : n \in Reached(input)
      BY <1>1, TemplateFacts DEF Bearers, MapsIn
    <3> QED
      BY <3>2, <3>3
  <2> QED
    BY <2>1, <2>2 DEF Pending, Ahead
<1>8. Settled(input, pot.binds, t, FALSE)
  BY <1>3, <1>7 DEF Settled
<1>9. OwnAmong(input, potentials', trav', FALSE)
  BY <1>3, <1>8 DEF OwnAmong
<1>10. backtracked' = FALSE
  <2>1. backtracked = FALSE
    BY Zenon DEF OwnInv, GatherPotentialMatches
  <2> QED
    BY <2>1, Zenon DEF GatherPotentialMatches
<1> QED
  BY <1>9, <1>10, Zenon DEF OwnNext

LEMMA AfterChildrenOwn ==
  ASSUME IInv, OwnInv, AfterChildren
  PROVE  OwnInv'
<1>1. Matching /\ backtracked /\ input' = input /\ phase' = phase
      /\ IF IsLastChild(trav) THEN GoUp(potentials) ELSE GoOn(potentials)
  BY DEF AfterChildren
<1>2. /\ Good(trav) /\ trav # << >> /\ AllInStep(potentials, Len(trav))
      /\ phase = "match"
  BY <1>1, InMatch
<1> SUFFICES ASSUME Searched
             PROVE  OwnNext
  BY <1>1, <1>2, OwnEstablished
<1>3. backtracked = TRUE
  BY <1>1, Zenon DEF IInv, FlagOK
<1>4. OwnAmong(input, potentials, trav, backtracked)
  BY <1>1, Zenon DEF OwnInv, Matching
<1>5. OwnAmong(input, potentials, trav, TRUE)
  BY <1>3, <1>4, Zenon
<1>6. CASE IsLastChild(trav)
  <2>1. GoUp(potentials)
    BY <1>1, <1>6
  <2> QED
    BY <1>2, <1>5, <1>6, <2>1, OwnUp DEF GoUp, OwnNext
<1>7. CASE ~ IsLastChild(trav)
  <2>1. GoOn(potentials)
    BY <1>1, <1>7
  <2> QED
    BY <1>2, <1>5, <1>7, <2>1, OwnOn DEF GoOn, OwnNext
<1> QED
  BY <1>6, <1>7

(* A node is like itself, whether or not names count.                      *)
LEMMA ComparesWithItself ==
  ASSUME NEW b \in BOOLEAN, NEW k
  PROVE  Compare(k, k, b)
  BY DeclEquivalence DEF Compare

LEMMA ComparePlainOwn ==
  ASSUME IInv, OwnInv, ComparePlain
  PROVE  OwnInv'
<1> DEFINE same == {pot \in potentials : Alike(pot, FALSE)}
<1>1. /\ Matching /\ ~ backtracked /\ input.metas[curr] = {}
      /\ GoOnFrom(same) /\ input' = input /\ phase' = phase
  BY DEF ComparePlain, Comparing
<1>2. /\ input \in Input /\ Good(trav) /\ trav # << >>
      /\ AllInStep(potentials, Len(trav)) /\ phase = "match"
  BY <1>1, InMatch
<1> SUFFICES ASSUME Searched
             PROVE  OwnNext
  BY <1>1, <1>2, OwnEstablished
<1>3. AllInStep(same, Len(trav))
  BY <1>2 DEF AllInStep
<1>4. PICK pot \in potentials : /\ pot.root = input.subtrees /\ pot.levels = trav
                                /\ Settled(input, pot.binds, trav, FALSE)
  BY <1>1, OwnInMatch DEF OwnAmong
<1>5. pot \in same
  BY <1>4, ComparesWithItself DEF Alike, curr
<1>6. \A id \in Identifier : ~ MapsIn(input, GetCurrent(trav), id)
  BY <1>1 DEF MapsIn, curr
<1> HIDE DEF same
<1>7. OwnAt(input, same, trav)
  BY <1>4, <1>5, <1>6 DEF OwnAt
<1> QED
  BY <1>1, <1>2, <1>3, <1>7, FromOwn

LEMMA CompareNameOnlyOwn ==
  ASSUME IInv, OwnInv, CompareNameOnly
  PROVE  OwnInv'
<1> DEFINE bound == {Instantiate(pot, Meta) :
                       pot \in {p \in potentials : Alike(p, TRUE)}}
<1>1. /\ Matching /\ ~ backtracked /\ input.metas[curr] # {}
      /\ \A m \in input.metas[curr] : m.nameOnly
      /\ GoOnFrom(bound) /\ input' = input /\ phase' = phase
  BY DEF CompareNameOnly, Comparing
<1>2. /\ input \in Input /\ Good(trav) /\ trav # << >> /\ curr \in Node
      /\ AllInStep(potentials, Len(trav)) /\ phase = "match"
      /\ Len(trav) \in Nat \ {0}
  BY <1>1, InMatch
<1> SUFFICES ASSUME Searched
             PROVE  OwnNext
  BY <1>1, <1>2, OwnEstablished
<1>3. AllInStep(bound, Len(trav))
  <2>1. Meta \in Metavariable
    BY <1>1, MetaIsOne
  <2> QED
    BY <1>2, <2>1, InstantiateInStep DEF AllInStep
<1>4. PICK pot \in potentials : /\ pot.root = input.subtrees /\ pot.levels = trav
                                /\ Settled(input, pot.binds, trav, FALSE)
  BY <1>1, OwnInMatch DEF OwnAmong
<1>5. pot \in PotentialMatches
  BY <1>2, <1>4 DEF AllInStep, InStep
<1> DEFINE q == Instantiate(pot, Meta)
           id0 == Meta.identifier
<1>6. Alike(pot, TRUE)
  BY <1>4, ComparesWithItself DEF Alike, curr
<1>7. q \in bound
  BY <1>6
<1>8. /\ q.root = pot.root /\ q.levels = trav
      /\ q.binds = Insert(pot.binds, id0, <<curr>>)
  BY <1>4, <1>5 DEF Instantiate, PotentialMatches, curr
<1>9. \A id : MapsIn(input, curr, id) <=> id = id0
  <2>1. Meta \in input.metas[curr]
    BY <1>1 DEF Meta
  <2>2. \A m \in input.metas[curr] : m = Meta
    BY <1>1, <1>2, <2>1, MapsToOne, InMatch
  <2> QED
    BY <2>1, <2>2 DEF MapsIn
<1> HIDE DEF q, id0, bound
<1> DEFINE b == q.binds
<1> HIDE DEF b
<1>10. /\ DOMAIN b = DOMAIN pot.binds \cup {id0}
       /\ \A k \in DOMAIN pot.binds : b[k] = pot.binds[k]
       /\ id0 \notin DOMAIN pot.binds => b[id0] = <<curr>>
  <2>1. b = Insert(pot.binds, id0, <<curr>>)
    BY <1>8 DEF b
  <2>2. /\ DOMAIN Insert(pot.binds, id0, <<curr>>) = DOMAIN pot.binds \cup {id0}
        /\ \A k \in DOMAIN pot.binds : Insert(pot.binds, id0, <<curr>>)[k] = pot.binds[k]
        /\ id0 \notin DOMAIN pot.binds => Insert(pot.binds, id0, <<curr>>)[id0] = <<curr>>
    BY Inserted, Zenon
  <2> QED
    BY <2>1, <2>2, Zenon
<1>11. ASSUME NEW id \in Identifier, OneRun(input, id), ~ Stands(input, b, id)
       PROVE  id \notin DOMAIN b /\ Pending(input, trav, FALSE, id)
  <2>1. id \notin DOMAIN pot.binds /\ Pending(input, trav, FALSE, id)
    <3>1. CASE Stands(input, pot.binds, id)
      <4>1. id \in DOMAIN pot.binds
        BY <3>1 DEF Stands
      <4>2. b[id] = pot.binds[id] /\ id \in DOMAIN b
        BY <4>1, <1>10, Zenon
      <4> QED
        BY <3>1, <4>2, <1>11 DEF Stands
    <3> QED
      BY <3>1, <1>4, <1>11 DEF Settled
  <2>2. id # id0
    <3> SUFFICES ASSUME id = id0
                 PROVE  FALSE
      OBVIOUS
    <3>1. b[id] = <<curr>> /\ id \in DOMAIN b
      BY <2>1, <1>10, Zenon
    <3>2. curr \in Bearers(input, id) /\ ~ \A m \in input.metas[curr] : ~ m.nameOnly
      BY <1>1, <1>2, <1>9 DEF Bearers
    <3>3. PICK sibs \in {input.subtrees} \cup {KidsIn(input, n) : n \in Node} :
            \E i, j \in DOMAIN sibs :
              /\ i <= j
              /\ Bearers(input, id) = {sibs[k] : k \in i .. j}
              /\ i = j \/ \A n \in Bearers(input, id) : \A m \in input.metas[n] : ~ m.nameOnly
      BY <1>11 DEF OneRun
    <3>4. PICK i \in DOMAIN sibs : Bearers(input, id) = {sibs[k] : k \in i .. i}
      BY <3>2, <3>3
    <3>5. i .. i = {i}
      <4>1. sibs \in Seq(Node)
        BY <1>2, KidsInType DEF Input
      <4>2. i \in Nat
        BY <4>1
      <4> QED
        BY <4>2
    <3>6. Bearers(input, id) = {curr}
      BY <3>2, <3>4, <3>5
    <3>7. {<<curr>>[k] : k \in DOMAIN <<curr>>} = {curr}
      OBVIOUS
    <3> QED
      BY <3>1, <3>6, <3>7, <1>11 DEF Stands
  <2> QED
    BY <2>1, <2>2, <1>10
<1>12. Settled(input, q.binds, trav, FALSE)
  BY <1>11 DEF Settled, b
<1>13. \A id \in Identifier : MapsIn(input, GetCurrent(trav), id) => id \in DOMAIN q.binds
  BY <1>9, <1>10 DEF curr, b
<1>14. OwnAt(input, bound, trav)
  BY <1>4, <1>7, <1>8, <1>12, <1>13 DEF OwnAt
<1> QED
  BY <1>1, <1>2, <1>3, <1>14, FromOwn

(* What is known at a metavariable that stands for whole subtrees.         *)
LEMMA AtMetavariableFacts ==
  ASSUME IInv, AtMetavariable
  PROVE  /\ Matching /\ ~ backtracked /\ phase = "match"
         /\ input \in Input /\ Good(trav) /\ trav # << >>
         /\ Top(trav).sibs \in Seq(Node) /\ Len(Top(trav).sibs) \in Nat
         /\ Top(trav).at \in Nat \ {0} /\ Top(trav).at \in 1 .. Len(Top(trav).sibs)
         /\ curr = Top(trav).sibs[Top(trav).at] /\ curr \in Node
         /\ Meta \in input.metas[curr]
<1>1. /\ Matching /\ ~ backtracked /\ phase = "match"
      /\ input \in Input /\ Good(trav) /\ trav # << >> /\ curr \in Node
  BY InMatch DEF AtMetavariable
<1>2. Len(trav) \in 1 .. Len(trav) /\ Top(trav) = trav[Len(trav)]
  BY <1>1, GoodTop
<1>3. /\ Top(trav).sibs \in Seq(Node) /\ Top(trav).at \in Nat \ {0}
      /\ Top(trav).at \in 1 .. Len(Top(trav).sibs)
  BY <1>1, <1>2, GoodTop
<1>4. Meta \in input.metas[curr]
  BY DEF AtMetavariable, Meta
<1> QED
  BY <1>1, <1>3, <1>4 DEF curr, GetCurrent

LEMMA MetavariableLastOwn ==
  ASSUME IInv, OwnInv, MetavariableLast
  PROVE  OwnInv'
<1> DEFINE e == Top(trav).at
<1>1. AtMetavariable /\ IsLastChild(trav) /\ GoUp(Extended)
      /\ input' = input /\ phase' = phase
  BY DEF MetavariableLast
<1>2. /\ Good(trav) /\ trav # << >> /\ phase = "match"
      /\ e \in e .. Len(Top(trav).sibs) /\ e .. e = {e}
      /\ SameMetavariable(Top(trav).sibs[e]) /\ e = Len(Top(trav).sibs)
  BY <1>1, AtMetavariableFacts DEF SameMetavariable, IsLastChild
<1> SUFFICES ASSUME Searched
             PROVE  OwnNext
  BY <1>1, <1>2, OwnEstablished
<1>3. OwnAmong(input, potentials, trav, FALSE)
  BY <1>1, AtMetavariableFacts, OwnInMatch
<1>4. \A k \in e .. e : SameMetavariable(Top(trav).sibs[k])
  BY <1>2
<1>5. OwnAmong(input, Extended, MoveTo(trav, e), TRUE)
  BY <1>1, <1>2, <1>3, <1>4, OwnExtended
<1>6. OwnAmong(input, Extended, trav, TRUE)
  BY <1>2, <1>5, MoveStays
<1> QED
  BY <1>1, <1>2, <1>6, ExtendedInStep, OwnUp DEF GoUp, OwnNext

LEMMA MetavariableThenOtherOwn ==
  ASSUME IInv, OwnInv, MetavariableThenOther
  PROVE  OwnInv'
<1> DEFINE s == Top(trav).sibs
           at == Top(trav).at
<1>1. /\ AtMetavariable /\ ~ IsLastChild(trav)
      /\ potentials' = Proceeded /\ backtracked' = FALSE
      /\ input' = input /\ phase' = phase
  BY DEF MetavariableThenOther
<1>2. PICK i \in NextOther : trav' = MoveTo(trav, i)
  BY DEF MetavariableThenOther
<1>3. /\ Good(trav) /\ trav # << >> /\ phase = "match"
      /\ s \in Seq(Node) /\ Len(s) \in Nat /\ at \in Nat \ {0} /\ at \in 1 .. Len(s)
      /\ SameMetavariable(s[at])
  BY <1>1, AtMetavariableFacts DEF SameMetavariable
<1> SUFFICES ASSUME Searched
             PROVE  OwnNext
  BY <1>1, <1>3, OwnEstablished
<1>4. OwnAmong(input, potentials, trav, FALSE)
  BY <1>1, AtMetavariableFacts, OwnInMatch
<1> DEFINE others == {j \in at + 1 .. Len(s) : ~ SameMetavariable(s[j])}
<1>5. i \in others /\ \A j \in others : i <= j
  BY <1>2 DEF NextOther
<1>6. i \in at + 1 .. Len(s) /\ ~ SameMetavariable(s[i])
  BY <1>5
<1> DEFINE e == i - 1
<1>7. e \in at .. Len(s) /\ e \in 1 .. Len(s) /\ e + 1 = i /\ i \in 1 .. Len(s)
      /\ e < Len(s)
  BY <1>3, <1>6
<1>8. ASSUME NEW k \in at .. e
      PROVE  SameMetavariable(s[k])
  <2>1. CASE k = at
    BY <1>3, <2>1
  <2>2. CASE k # at
    <3>1. k \in at + 1 .. Len(s) /\ ~ (i <= k)
      BY <1>3, <1>6, <1>7, <2>2
    <3> QED
      BY <1>5, <3>1
  <2> QED
    BY <2>1, <2>2
<1> HIDE DEF e, others
<1> DEFINE t == MoveTo(trav, e)
<1>9. OwnAmong(input, Extended, t, TRUE)
  BY <1>1, <1>4, <1>6, <1>7, <1>8, OwnExtended
<1>10. Good(t) /\ t # << >>
  BY <1>3, <1>7, MoveGood
<1>11. Top(t).at = e /\ Top(t).sibs = s
  <2>1. Len(trav) \in Nat /\ Top(trav) = trav[Len(trav)]
    BY <1>3, GoodTop
  <2> QED
    BY <2>1, <1>3, <1>7, MoveShape DEF Top
<1>12. ~ IsLastChild(t)
  BY <1>3, <1>7, <1>11 DEF IsLastChild
<1>13. NextSibling(t) = MoveTo(trav, i)
  BY <1>3, <1>7, <1>11, MoveTwice DEF NextSibling
<1> HIDE DEF t
<1>14. OwnAmong(input, Proceeded, NextSibling(t), FALSE)
  BY <1>1, <1>9, <1>10, <1>12, ExtendedInStep, OwnOn DEF Proceeded
<1> QED
  BY <1>1, <1>2, <1>13, <1>14 DEF OwnNext

(* A set of numbers has a least one.                                       *)
LEMMA LeastOf ==
  ASSUME NEW S \in SUBSET Nat, S # {}
  PROVE  \E i \in S : \A j \in S : i <= j
<1> DEFINE R == OpToRel(<, Nat)
<1>1. IsWellFoundedOn(R, Nat)
  BY NatLessThanWellFounded
<1>2. \A x, y \in Nat : x < y => <<x, y>> \in R
  BY DEF OpToRel
<1> HIDE DEF R
<1>3. PICK i \in S : \A j \in S : <<j, i>> \notin R
  BY <1>1, WFMin
<1>4. ASSUME NEW j \in S
      PROVE  ~ (j < i)
  <2>1. i \in Nat /\ j \in Nat /\ <<j, i>> \notin R
    BY <1>3
  <2> QED
    BY <1>2, <2>1
<1>5. \A j \in S : i <= j
  BY <1>4
<1> QED
  BY <1>5

(* The loop goes up behind a metavariable for several siblings only if it  *)
(* runs to the end of them.                                                *)
LEMMA OnlyRunToTheEnd ==
  ASSUME IInv, MetavariableToTheEnd, trav[1].sibs = input.subtrees
  PROVE  RunToTheEnd
<1> DEFINE s == Top(trav).sibs
           at == Top(trav).at
<1>1. AtMetavariable /\ ~ IsLastChild(trav) /\ NextOther = {}
  BY DEF MetavariableToTheEnd
<1>2. /\ input \in Input /\ Good(trav) /\ trav # << >>
      /\ s \in Seq(Node) /\ Len(s) \in Nat /\ at \in Nat \ {0} /\ at \in 1 .. Len(s)
      /\ curr = s[at] /\ curr \in Node /\ Meta \in input.metas[curr]
      /\ at # Len(s)
  BY <1>1, AtMetavariableFacts DEF IsLastChild
<1>3. ~ Meta.nameOnly
  <2>1. PICK m \in input.metas[curr] : ~ m.nameOnly
    BY <1>1 DEF AtMetavariable
  <2>2. m = Meta
    BY <1>2, <2>1, MapsToOne
  <2> QED
    BY <2>1, <2>2, Zenon
<1>4. \A k \in at + 1 .. Len(s) : MapsTo(s[k], Meta.identifier)
  <2> DEFINE others == {j \in at + 1 .. Len(s) : ~ SameMetavariable(s[j])}
  <2>1. others \in SUBSET Nat
    BY <1>2
  <2>2. ~ \E i \in others : \A j \in others : i <= j
    BY <1>1 DEF NextOther
  <2> HIDE DEF others
  <2>3. others = {}
    BY <2>1, <2>2, LeastOf
  <2> QED
    BY <2>3 DEF others, SameMetavariable, MapsTo
<1>5. s \in {input.subtrees} \cup {Kids(n) : n \in Node}
  <2>1. /\ Len(trav) \in Nat \ {0} /\ s = trav[Len(trav)].sibs
        /\ Len(trav) \in 1 .. Len(trav)
    BY <1>2, GoodTop
  <2>2. CASE Len(trav) = 1
    BY <2>1, <2>2
  <2>3. CASE Len(trav) # 1
    <3> DEFINE l == Len(trav)
    <3>1. l \in Nat \ {0} /\ l # 1
      BY <2>1, <2>3
    <3> HIDE DEF l
    <3>2. l \in 2 .. l /\ l - 1 \in 1 .. l
      BY <3>1
    <3> USE DEF l
    <3> DEFINE q == trav[l - 1].sibs[trav[l - 1].at]
    <3>3. s = Kids(q) /\ q \in Node
      BY <2>1, <3>2, <1>2, GoodTop DEF Good, Nested
    <3> QED
      BY <3>3
  <2> QED
    BY <2>2, <2>3
<1>6. at \in 1 .. Len(s) - 1 /\ Meta \in input.metas[s[at]]
  BY <1>2
<1> HIDE DEF s, at
<1> QED
  BY <1>3, <1>4, <1>5, <1>6 DEF RunToTheEnd

(* No metavariable runs to the end of its siblings.                        *)
LEMMA MetavariableToTheEndOwn ==
  ASSUME IInv, OwnInv, MetavariableToTheEnd
  PROVE  OwnInv'
<1>1. /\ AtMetavariable /\ GoUp(Proceeded) /\ input' = input /\ phase' = phase
      /\ phase = "match"
  BY AtMetavariableFacts DEF MetavariableToTheEnd
<1>2. CASE Searched
  <2>1. ~ RunToTheEnd
    BY <1>2 DEF Searched
  <2>2. OwnAmong(input, potentials, trav, FALSE)
    BY <1>1, <1>2, AtMetavariableFacts, OwnInMatch
  <2>3. PICK pot \in potentials : pot.root = input.subtrees /\ pot.levels = trav
    BY <2>2 DEF OwnAmong
  <2>4. AllInStep(potentials, Len(trav)) /\ trav # << >>
    BY <1>1, InMatch, AtMetavariableFacts DEF AtMetavariable
  <2>5. trav[1].sibs = input.subtrees
    BY <2>3, <2>4 DEF AllInStep, InStep
  <2> QED
    BY <2>1, <2>5, OnlyRunToTheEnd
<1> QED
  BY <1>1, <1>2, OwnEstablished

LEMMA EndOwn ==
  ASSUME IInv, OwnInv, CompareCrashes \/ Processed \/ Finished \/ UNCHANGED vars
  PROVE  OwnInv'
<1>1. /\ input' = input /\ trav' = trav /\ backtracked' = backtracked
      /\ potentials' = potentials
      /\ (phase' = phase \/ (phase = "match" /\ phase' = "crashed")
          \/ (phase = "match" /\ trav = << >> /\ phase' = "matched"))
  BY DEF CompareCrashes, Comparing, Matching, Processed, Finished, vars
<1>2. Searched' <=> Searched
  BY <1>1, SearchedStays
<1>3. (phase' = "gather" => phase = "gather") /\ (phase' # "gather" => phase # "gather")
      /\ (phase' = "matched" => phase = "matched" \/ trav = << >>)
  BY <1>1
<1>4. phase' # "gather" /\ Searched'
        => OwnAmong(input, potentials, trav, backtracked)
  BY <1>2, <1>3, Zenon DEF OwnInv
<1>5. phase' # "gather" /\ Searched'
        => OwnAmong(input', potentials', trav', backtracked')
  BY <1>1, <1>4, Zenon
<1>6. phase' = "gather" => backtracked' = FALSE
  BY <1>1, <1>3, Zenon DEF OwnInv
<1>7. phase' = "matched" => trav' = << >>
  BY <1>1, <1>3, Zenon DEF OwnInv
<1> QED
  BY <1>5, <1>6, <1>7, Zenon DEF OwnInv

LEMMA NextOwn ==
  ASSUME IInv, OwnInv, [Next]_vars
  PROVE  OwnInv'
  BY GatherOwn, AfterChildrenOwn, ComparePlainOwn, CompareNameOnlyOwn,
     MetavariableLastOwn, MetavariableThenOtherOwn, MetavariableToTheEndOwn,
     EndOwn DEF Next

LEMMA InitOwn ==
  ASSUME Init
  PROVE  OwnInv
<1>1. phase = "gather" /\ backtracked = FALSE
  BY Zenon DEF Init
<1> QED
  BY <1>1, Zenon DEF OwnInv

(* At the end nothing is to come: every metavariable is bound.             *)
LEMMA OwnIsFound ==
  ASSUME IInv, OwnInv, IsTemplate(input), UsesAgree(input)
  PROVE  MatchesItselfElsewhere
<1> SUFFICES ASSUME ~ RunToTheEnd, phase = "matched",
                    input.subtrees \in PotentialRoots
             PROVE  \E pot \in potentials :
                      /\ pot.root = input.subtrees
                      /\ \A id \in Identifier : OnOneRun(id) =>
                           /\ id \in DOMAIN pot.binds
                           /\ {n \in Node : MapsTo(n, id)}
                                = {pot.binds[id][i] : i \in DOMAIN pot.binds[id]}
  BY DEF MatchesItselfElsewhere, MatchesItself
<1>1. trav = << >> /\ OwnAmong(input, potentials, trav, backtracked)
  BY Zenon DEF OwnInv, Searched
<1>2. PICK pot \in potentials : /\ pot.root = input.subtrees
                                /\ Settled(input, pot.binds, << >>, backtracked)
  BY <1>1 DEF OwnAmong
<1>3. ASSUME NEW id
      PROVE  {n \in Node : MapsTo(n, id)} = Bearers(input, id)
  BY DEF MapsTo, Bearers, MapsIn
<1>4. ASSUME NEW id, OnOneRun(id)
      PROVE  OneRun(input, id) /\ Bearers(input, id) # {}
  <2>1. \A n : Kids(n) = KidsIn(input, n)
    BY KidsOfInput
  <2>2. PICK sibs \in {input.subtrees} \cup {KidsIn(input, n) : n \in Node} :
          \E i, j \in DOMAIN sibs :
            /\ i <= j
            /\ Bearers(input, id) = {sibs[k] : k \in i .. j}
            /\ i = j \/ \A n \in Bearers(input, id) : \A m \in input.metas[n] : ~ m.nameOnly
    BY <1>3, <1>4, <2>1 DEF OnOneRun
  <2>3. OneRun(input, id)
    BY <2>2 DEF OneRun
  <2>4. PICK i \in DOMAIN sibs, j \in DOMAIN sibs :
          i <= j /\ Bearers(input, id) = {sibs[k] : k \in i .. j}
    BY <2>2
  <2>5. i \in i .. j
    <3>1. sibs \in Seq(Node)
      BY KidsInType DEF IInv, Input
    <3>2. i \in Nat /\ j \in Nat
      BY <3>1
    <3> QED
      BY <2>4, <3>2
  <2> QED
    BY <2>3, <2>4, <2>5
<1>5. ASSUME NEW id \in Identifier, OnOneRun(id)
      PROVE  Stands(input, pot.binds, id)
  <2>1. \/ Stands(input, pot.binds, id)
        \/ Pending(input, << >>, backtracked, id)
    BY <1>2, <1>4, <1>5, Zenon DEF Settled
  <2>2. Bearers(input, id) # {}
    BY <1>4, <1>5
  <2> QED
    BY <2>1, <2>2, NothingPending
<1> QED
  BY <1>2, <1>3, <1>5 DEF Stands

(* The text that the template was made from is found, each metavariable on *)
(* its own nodes: for every template that is a tree, all files around it   *)
(* and any number of metavariables, if none runs to the end of a list of   *)
(* siblings and no identifier is used for names and for subtrees.          *)
THEOREM FindsItself ==
  Spec => [](IsTemplate(input) /\ UsesAgree(input) => MatchesItselfElsewhere)
<1>1. Init => IInv /\ OwnInv
  BY InitIInv, InitOwn
<1>2. (IInv /\ OwnInv) /\ [Next]_vars => (IInv /\ OwnInv)'
  BY NextIInv, NextOwn
<1>3. IInv /\ OwnInv => (IsTemplate(input) /\ UsesAgree(input) => MatchesItselfElsewhere)
  BY OwnIsFound
<1> QED
  BY <1>1, <1>2, <1>3, PTL DEF Spec

-----------------------------------------------------------------------------
(* A match is no accident of the moves: it is the template again, node for *)
(* node, but for what its metavariables stand for.                         *)

(* The i-th of the siblings ts is not of the metavariable for subtrees     *)
(* that the one before it is of.                                           *)
Starts(in, ts, i) ==
  i = 1 \/ \A m \in in.metas[ts[i - 1]] : m.nameOnly \/ ~ MapsIn(in, ts[i], m.identifier)

(* The i-th of the template's siblings ts takes the source's siblings ns   *)
(* from the w[i - 1]-th on, up to the w[i]-th: F says what each template   *)
(* node stands for.                                                        *)
Takes(in, F, ts, ns, w, i) ==
  /\ Starts(in, ts, i) /\ w[i - 1] < w[i] /\ ts[i] \in DOMAIN F
  /\ F[ts[i]] = SubSeq(ns, w[i - 1] + 1, w[i])

(* It takes none, as it is of the same metavariable as the one before.     *)
Shares(in, ts, w, i) ==
  \E h \in 1 .. i - 1 : \E m \in in.metas[ts[h]] :
    ~ m.nameOnly /\ \A k \in h .. i : w[k] = w[i] /\ MapsIn(in, ts[k], m.identifier)

(* The first a of ts stand for the first b of ns, one behind the other.    *)
Fit(in, F, ts, a, ns, b) ==
  \E w \in [0 .. a -> 0 .. b] :
    /\ w[0] = 0 /\ w[a] = b
    /\ \A i \in 1 .. a : Takes(in, F, ts, ns, w, i) \/ Shares(in, ts, w, i)

Like(in, F, n, k) ==
  /\ F[n] = <<k>> /\ \A m \in in.metas[n] : m.nameOnly
  /\ Compare(in.content[n], in.content[k], in.metas[n] # {})

(* A template node stands for any nodes, if it maps to a metavariable for  *)
(* subtrees, else for one that compare() takes for it, and whose children  *)
(* its children stand for.                                                 *)
Explained(in, F, n) ==
  \/ \E m \in in.metas[n] : ~ m.nameOnly
  \/ \E k \in Node :
       /\ Like(in, F, n, k)
       /\ LET ts == KidsIn(in, n)  ns == KidsIn(in, k)
          IN  Fit(in, F, ts, Len(ts), ns, Len(ns))

(* A metavariable is bound to what the first of its nodes stands for.      *)
BindsWhat(in, first, F, binds) ==
  /\ \A id \in DOMAIN binds : \E n \in DOMAIN F :
       /\ MapsIn(in, n, id) /\ binds[id] = F[n]
       /\ \A k \in DOMAIN F : MapsIn(in, k, id) => first[n] <= first[k]
  /\ \A n \in DOMAIN F : \A m \in in.metas[n] : m.identifier \in DOMAIN binds

Genuine(in, first, root, binds) ==
  \E T \in SUBSET Node : \E F \in [T -> Seq(Node)] :
    /\ Fit(in, F, in.subtrees, Len(in.subtrees), root, Len(root))
    /\ \A n \in T : Explained(in, F, n)
    /\ BindsWhat(in, first, F, binds)

-----------------------------------------------------------------------------
(* Lists that fit.                                                         *)

Extends(F, G) == DOMAIN F \subseteq DOMAIN G /\ \A n \in DOMAIN F : G[n] = F[n]

LEMMA FitMore ==
  ASSUME NEW in, NEW F, NEW G, Extends(F, G), NEW ts, NEW a, NEW ns, NEW b,
         Fit(in, F, ts, a, ns, b)
  PROVE  Fit(in, G, ts, a, ns, b)
<1>1. PICK w \in [0 .. a -> 0 .. b] :
        /\ w[0] = 0 /\ w[a] = b
        /\ \A i \in 1 .. a : Takes(in, F, ts, ns, w, i) \/ Shares(in, ts, w, i)
  BY DEF Fit
<1>2. \A i \in 1 .. a : Takes(in, F, ts, ns, w, i) => Takes(in, G, ts, ns, w, i)
  BY DEF Takes, Extends
<1> QED
  BY <1>1, <1>2 DEF Fit

LEMMA FitNone ==
  ASSUME NEW in, NEW F, NEW ts, NEW ns
  PROVE  Fit(in, F, ts, 0, ns, 0)
<1> DEFINE w == [i \in 0 .. 0 |-> 0]
<1>1. w \in [0 .. 0 -> 0 .. 0] /\ w[0] = 0 /\ 1 .. 0 = {}
  OBVIOUS
<1> HIDE DEF w
<1> QED
  BY <1>1 DEF Fit

(* One more takes its nodes, and those behind it share them, if any.       *)
LEMMA FitNext ==
  ASSUME NEW in, NEW F, NEW ts, NEW a \in Nat, NEW ns, NEW b \in Nat,
         Fit(in, F, ts, a, ns, b),
         NEW e \in Nat, NEW c \in Nat, a < e, b < c, Starts(in, ts, a + 1),
         ts[a + 1] \in DOMAIN F, F[ts[a + 1]] = SubSeq(ns, b + 1, c),
         e # a + 1 => \E m \in in.metas[ts[a + 1]] :
           ~ m.nameOnly /\ \A k \in a + 1 .. e : MapsIn(in, ts[k], m.identifier)
  PROVE  Fit(in, F, ts, e, ns, c)
<1>1. PICK w \in [0 .. a -> 0 .. b] :
        /\ w[0] = 0 /\ w[a] = b
        /\ \A i \in 1 .. a : Takes(in, F, ts, ns, w, i) \/ Shares(in, ts, w, i)
  BY DEF Fit
<1> DEFINE v == [i \in 0 .. e |-> IF i <= a THEN w[i] ELSE c]
<1>2. \A i \in 0 .. a : w[i] \in 0 .. b
  BY <1>1
<1>3. /\ v \in [0 .. e -> 0 .. c]
      /\ \A i \in 0 .. a : v[i] = w[i]
      /\ \A i \in a + 1 .. e : v[i] = c
  BY <1>2
<1>4. v[0] = 0 /\ v[e] = c /\ v[a] = b
  BY <1>1, <1>3
<1> HIDE DEF v
<1>5. ASSUME NEW i \in 1 .. a
      PROVE  Takes(in, F, ts, ns, v, i) \/ Shares(in, ts, v, i)
  <2>1. i \in 0 .. a /\ i - 1 \in 0 .. a
    OBVIOUS
  <2>2. v[i] = w[i] /\ v[i - 1] = w[i - 1]
    BY <1>3, <2>1
  <2>3. ASSUME Shares(in, ts, w, i)
        PROVE  Shares(in, ts, v, i)
    <3>1. PICK h \in 1 .. i - 1 : \E m \in in.metas[ts[h]] :
            ~ m.nameOnly /\ \A k \in h .. i : w[k] = w[i] /\ MapsIn(in, ts[k], m.identifier)
      BY <2>3 DEF Shares
    <3>2. \A k \in h .. i : v[k] = w[k]
      <4>1. \A k \in h .. i : k \in 0 .. a
        OBVIOUS
      <4> QED
        BY <1>3, <4>1
    <3> QED
      BY <2>2, <3>1, <3>2 DEF Shares
  <2> QED
    BY <1>1, <2>2, <2>3 DEF Takes
<1>6. Takes(in, F, ts, ns, v, a + 1)
  <2>1. a + 1 \in a + 1 .. e /\ (a + 1) - 1 = a
    OBVIOUS
  <2>2. v[a + 1] = c /\ v[(a + 1) - 1] = b
    BY <1>3, <1>4, <2>1
  <2> QED
    BY <2>2 DEF Takes
<1>7. ASSUME NEW i \in a + 2 .. e
      PROVE  Shares(in, ts, v, i)
  <2>1. e # a + 1 /\ a + 1 \in 1 .. i - 1
    OBVIOUS
  <2>2. PICK m \in in.metas[ts[a + 1]] :
          ~ m.nameOnly /\ \A k \in a + 1 .. e : MapsIn(in, ts[k], m.identifier)
    BY <2>1
  <2>3. \A k \in a + 1 .. i : k \in a + 1 .. e
    OBVIOUS
  <2>4. i \in a + 1 .. i
    OBVIOUS
  <2>5. \A k \in a + 1 .. i : v[k] = v[i] /\ MapsIn(in, ts[k], m.identifier)
    BY <1>3, <2>2, <2>3, <2>4
  <2> QED
    BY <2>1, <2>2, <2>5 DEF Shares
<1>8. \A i \in 1 .. e : i \in 1 .. a \/ i = a + 1 \/ i \in a + 2 .. e
  OBVIOUS
<1>9. \A i \in 1 .. e : Takes(in, F, ts, ns, v, i) \/ Shares(in, ts, v, i)
  BY <1>5, <1>6, <1>7, <1>8
<1> QED
  BY <1>3, <1>4, <1>9 DEF Fit

LEMMA ExplainedMore ==
  ASSUME NEW in, NEW F, NEW G, Extends(F, G), NEW n \in DOMAIN F, Explained(in, F, n)
  PROVE  Explained(in, G, n)
<1>1. \A k : Like(in, F, n, k) => Like(in, G, n, k)
  BY DEF Like, Extends
<1> QED
  BY <1>1, FitMore DEF Explained

(* One more node is given what it stands for, and its metavariable is      *)
(* bound to that, unless it is bound already.                              *)
Given(F, n, run) == [k \in DOMAIN F \cup {n} |-> IF k = n THEN run ELSE F[k]]

LEMMA BindsMore ==
  ASSUME NEW in, NEW first, NEW F, NEW binds, BindsWhat(in, first, F, binds),
         NEW n, n \notin DOMAIN F, \A k \in DOMAIN F \cup {n} : first[k] <= first[n],
         NEW run, NEW m, in.metas[n] = {m}
  PROVE  BindsWhat(in, first, Given(F, n, run), Insert(binds, m.identifier, run))
<1> DEFINE G == Given(F, n, run)
           b == Insert(binds, m.identifier, run)
<1>1. Extends(F, G) /\ DOMAIN G = DOMAIN F \cup {n} /\ G[n] = run
  BY DEF Extends, Given
<1>2. /\ DOMAIN b = DOMAIN binds \cup {m.identifier}
      /\ \A k \in DOMAIN binds : b[k] = binds[k]
      /\ m.identifier \notin DOMAIN binds => b[m.identifier] = run
  BY Inserted
<1> HIDE DEF G, b
<1>3. ASSUME NEW id \in DOMAIN b
      PROVE  \E k \in DOMAIN G :
               /\ MapsIn(in, k, id) /\ b[id] = G[k]
               /\ \A j \in DOMAIN G : MapsIn(in, j, id) => first[k] <= first[j]
  <2>1. CASE id \in DOMAIN binds
    <3>1. PICK k \in DOMAIN F :
            /\ MapsIn(in, k, id) /\ binds[id] = F[k]
            /\ \A j \in DOMAIN F : MapsIn(in, j, id) => first[k] <= first[j]
      BY <2>1 DEF BindsWhat
    <3>2. \A j \in DOMAIN G : MapsIn(in, j, id) => first[k] <= first[j]
      BY <1>1, <3>1
    <3> QED
      BY <1>1, <1>2, <2>1, <3>1, <3>2 DEF Extends
  <2>2. CASE id \notin DOMAIN binds
    <3>1. id = m.identifier /\ b[id] = run
      BY <1>2, <2>2
    <3>2. MapsIn(in, n, id)
      BY <3>1 DEF MapsIn
    <3>3. \A j \in DOMAIN F : ~ MapsIn(in, j, id)
      BY <2>2 DEF BindsWhat, MapsIn
    <3>4. \A j \in DOMAIN G : MapsIn(in, j, id) => j = n
      BY <1>1, <3>3
    <3> QED
      BY <1>1, <3>1, <3>2, <3>4
  <2> QED
    BY <2>1, <2>2
<1>4. ASSUME NEW k \in DOMAIN G, NEW l \in in.metas[k]
      PROVE  l.identifier \in DOMAIN b
  BY <1>1, <1>2 DEF BindsWhat
<1> QED
  BY <1>3, <1>4 DEF BindsWhat, G, b

LEMMA BindsPlain ==
  ASSUME NEW in, NEW first, NEW F, NEW binds, BindsWhat(in, first, F, binds),
         NEW n, n \notin DOMAIN F, NEW run, in.metas[n] = {}
  PROVE  BindsWhat(in, first, Given(F, n, run), binds)
<1> DEFINE G == Given(F, n, run)
<1>1. Extends(F, G) /\ DOMAIN G = DOMAIN F \cup {n}
  BY DEF Extends, Given
<1>2. \A id : ~ MapsIn(in, n, id)
  BY DEF MapsIn
<1> HIDE DEF G
<1>3. ASSUME NEW id \in DOMAIN binds
      PROVE  \E k \in DOMAIN G :
               /\ MapsIn(in, k, id) /\ binds[id] = G[k]
               /\ \A j \in DOMAIN G : MapsIn(in, j, id) => first[k] <= first[j]
  <2>1. PICK k \in DOMAIN F :
          /\ MapsIn(in, k, id) /\ binds[id] = F[k]
          /\ \A j \in DOMAIN F : MapsIn(in, j, id) => first[k] <= first[j]
    BY DEF BindsWhat
  <2> QED
    BY <1>1, <1>2, <2>1 DEF Extends
<1>4. \A k \in DOMAIN G : \A m \in in.metas[k] : m.identifier \in DOMAIN binds
  BY <1>1 DEF BindsWhat
<1> QED
  BY <1>3, <1>4 DEF BindsWhat, G

-----------------------------------------------------------------------------
(* While the template is traversed, there is such an F for the part that   *)
(* has been gone through, and the nodes that the traversal is inside stand *)
(* for those that the potential match is inside.                           *)

On(t, d) == t[d].sibs[t[d].at]

Opened(in, F, t, l, d) ==
  /\ Fit(in, F, t[d].sibs, t[d].at - 1, l[d].sibs, l[d].at - 1)
  /\ Starts(in, t[d].sibs, t[d].at)
  /\ On(t, d) \in DOMAIN F /\ Like(in, F, On(t, d), On(l, d))

SoFar(in, F, t, l, o) ==
  /\ \A d \in 1 .. o : Opened(in, F, t, l, d)
  /\ \A n \in DOMAIN F : Explained(in, F, n) \/ \E d \in 1 .. o : n = On(t, d)

Reaching(in, F, t, b, l, root) ==
  /\ t = << >> => Fit(in, F, in.subtrees, Len(in.subtrees), root, Len(root))
  /\ (t # << >> /\ b) =>
       /\ Fit(in, F, t[Len(t)].sibs, t[Len(t)].at, l[Len(t)].sibs, l[Len(t)].at)
       /\ t[Len(t)].at # Len(t[Len(t)].sibs) =>
            Starts(in, t[Len(t)].sibs, t[Len(t)].at + 1)
  /\ (t # << >> /\ ~ b) =>
       /\ Fit(in, F, t[Len(t)].sibs, t[Len(t)].at - 1, l[Len(t)].sibs, l[Len(t)].at - 1)
       /\ Starts(in, t[Len(t)].sibs, t[Len(t)].at)

(* What F has is numbered before what is to come.                          *)
Behindhand(first, last, F, t, b) ==
  t # << >> => \A n \in DOMAIN F :
    /\ b => first[n] <= last[On(t, Len(t))]
    /\ ~ b => first[n] < first[On(t, Len(t))]

Along(in, first, last, t, b, l, root, binds) ==
  \E T \in SUBSET Node : \E F \in [T -> Seq(Node)] :
    /\ SoFar(in, F, t, l, Len(t) - 1)
    /\ Reaching(in, F, t, b, l, root)
    /\ Behindhand(first, last, F, t, b)
    /\ BindsWhat(in, first, F, binds)

(* The current nodes have been compared.                                   *)
AlongAt(in, first, last, t, l, binds) ==
  \E T \in SUBSET Node : \E F \in [T -> Seq(Node)] :
    /\ SoFar(in, F, t, l, Len(t))
    /\ \A n \in T : first[n] <= first[On(t, Len(t))]
    /\ BindsWhat(in, first, F, binds)

(* The traversal of the template is inside the template.                   *)
Inside(in, t) ==
  /\ t # << >> => t[1].sibs = in.subtrees
  /\ \A d \in 1 .. Len(t) : \A k \in DOMAIN t[d].sibs : t[d].sibs[k] \in Reached(in)

LEMMA SoFarSame ==
  ASSUME NEW in, NEW F, NEW t, NEW l, NEW o, SoFar(in, F, t, l, o), NEW u, NEW m,
         \A d \in 1 .. o : u[d] = t[d] /\ m[d] = l[d]
  PROVE  SoFar(in, F, u, m, o)
<1>1. \A d \in 1 .. o : On(u, d) = On(t, d) /\ On(m, d) = On(l, d)
  BY DEF On
<1>2. \A d \in 1 .. o : Opened(in, F, u, m, d) <=> Opened(in, F, t, l, d)
  BY <1>1 DEF Opened
<1> QED
  BY <1>1, <1>2 DEF SoFar

LEMMA InsideUp ==
  ASSUME NEW in, NEW t, Good(t), t # << >>, Inside(in, t)
  PROVE  Inside(in, BacktrackToParent(t))
<1> DEFINE u == BacktrackToParent(t)
<1>1. Len(u) = Len(t) - 1 /\ \A d \in 1 .. Len(t) - 1 : u[d] = t[d]
  BY BacktrackShape
<1>2. u # << >> => u[1] = t[1]
  BY BacktrackGood
<1>3. Len(t) \in Nat \ {0}
  BY GoodTop
<1> HIDE DEF u
<1>4. \A d \in 1 .. Len(u) : d \in 1 .. Len(t) - 1 /\ d \in 1 .. Len(t)
  BY <1>1, <1>3
<1>5. Inside(in, u)
  BY <1>1, <1>2, <1>4 DEF Inside
<1> QED
  BY <1>5 DEF u

LEMMA InsideMove ==
  ASSUME NEW in, NEW t, Good(t), t # << >>, Inside(in, t),
         NEW e \in 1 .. Len(Top(t).sibs)
  PROVE  Inside(in, MoveTo(t, e))
<1> DEFINE u == MoveTo(t, e)
<1>1. /\ Len(u) = Len(t) /\ u[Len(t)].sibs = t[Len(t)].sibs
      /\ \A d \in 1 .. Len(t) : d # Len(t) => u[d] = t[d]
  BY MoveShape
<1>2. Len(t) \in Nat \ {0} /\ 1 \in 1 .. Len(t)
  BY GoodTop
<1> HIDE DEF u
<1>3. \A d \in 1 .. Len(t) : u[d].sibs = t[d].sibs
  BY <1>1
<1>4. Inside(in, u)
  BY <1>1, <1>2, <1>3 DEF Inside
<1> QED
  BY <1>4 DEF u

LEMMA InsideDown ==
  ASSUME input \in Input, NEW t, Good(t), t # << >>, Inside(input, t),
         \A m \in input.metas[GetCurrent(t)] : m.nameOnly
  PROVE  Inside(input, DescendToChild(t))
<1> DEFINE u == DescendToChild(t)
           n == GetCurrent(t)
<1>1. /\ Len(u) = Len(t) + 1 /\ u[Len(t) + 1].sibs = Kids(n)
      /\ \A d \in 1 .. Len(t) : u[d] = t[d]
  BY DescendShape
<1>2. /\ Len(t) \in Nat \ {0} /\ 1 \in 1 .. Len(t) /\ Len(t) \in 1 .. Len(t)
      /\ n = t[Len(t)].sibs[t[Len(t)].at]
      /\ t[Len(t)].at \in DOMAIN t[Len(t)].sibs
  <2>1. Len(t) \in Nat \ {0} /\ 1 \in 1 .. Len(t) /\ Len(t) \in 1 .. Len(t)
    BY GoodTop
  <2>2. t[Len(t)].sibs \in Seq(Node) /\ t[Len(t)].at \in 1 .. Len(t[Len(t)].sibs)
    BY <2>1, GoodTop
  <2> QED
    BY <2>1, <2>2 DEF GetCurrent, Top
<1>3. n \in Reached(input)
  BY <1>2 DEF Inside
<1>4. \A k \in DOMAIN Kids(n) : Kids(n)[k] \in Reached(input)
  BY <1>3, KidsOfInput, ReachedClosed DEF ClosedIn
<1> HIDE DEF u, n
<1>5. \A d \in 1 .. Len(u) : d \in 1 .. Len(t) \/ d = Len(t) + 1
  BY <1>1, <1>2
<1>6. \A d \in 1 .. Len(u) : \A k \in DOMAIN u[d].sibs : u[d].sibs[k] \in Reached(input)
  BY <1>1, <1>4, <1>5 DEF Inside
<1>7. u[1].sibs = input.subtrees
  BY <1>1, <1>2 DEF Inside
<1> QED
  BY <1>6, <1>7 DEF u, Inside

(* The siblings of a level are numbered one behind the other.              *)
LEMMA LevelFollows ==
  ASSUME NEW first, NEW last, NumberedBy(input, first, last),
         NEW t, Good(t), t # << >>, Inside(input, t), NEW d \in 1 .. Len(t)
  PROVE  /\ Follow(first, last, t[d].sibs)
         /\ \A k \in DOMAIN t[d].sibs : first[t[d].sibs[k]] <= last[t[d].sibs[k]]
         /\ d # 1 => /\ first[On(t, d - 1)] < first[On(t, d)]
                     /\ last[On(t, d)] <= last[On(t, d - 1)]
<1>1. /\ Len(t) \in Nat \ {0} /\ d \in Nat \ {0}
      /\ t[d].at \in DOMAIN t[d].sibs
  <2>1. t[d].sibs \in Seq(Node) /\ t[d].at \in 1 .. Len(t[d].sibs)
    BY GoodTop
  <2> QED
    BY <2>1, GoodTop
<1>2. \A k \in DOMAIN t[d].sibs : first[t[d].sibs[k]] <= last[t[d].sibs[k]]
  BY DEF Inside, NumberedBy
<1>3. CASE d = 1
  BY <1>2, <1>3 DEF Inside, NumberedBy
<1>4. CASE d # 1
  <2> DEFINE p == t[d - 1].sibs[t[d - 1].at]
  <2>1. d \in 2 .. Len(t) /\ d - 1 \in 1 .. Len(t)
    BY <1>1, <1>4
  <2>2. t[d - 1].at \in DOMAIN t[d - 1].sibs
    <3>1. t[d - 1].sibs \in Seq(Node) /\ t[d - 1].at \in 1 .. Len(t[d - 1].sibs)
      BY <2>1, GoodTop
    <3> QED
      BY <3>1
  <2>3. t[d].sibs = KidsIn(input, p)
    BY <2>1, KidsOfInput DEF Good, Nested
  <2>4. p \in Reached(input)
    BY <2>1, <2>2 DEF Inside
  <2>5. p = On(t, d - 1) /\ On(t, d) = KidsIn(input, p)[t[d].at]
        /\ t[d].at \in DOMAIN KidsIn(input, p)
    BY <1>1, <2>3 DEF On
  <2> HIDE DEF p
  <2>6. Follow(first, last, KidsIn(input, p))
        /\ \A i \in DOMAIN KidsIn(input, p) :
             first[p] < first[KidsIn(input, p)[i]] /\ last[KidsIn(input, p)[i]] <= last[p]
    BY <2>4 DEF NumberedBy
  <2> QED
    BY <1>2, <2>3, <2>5, <2>6
<1> QED
  BY <1>3, <1>4

LEMMA NextIndex ==
  ASSUME NEW n \in Nat, NEW i \in 1 .. n, i # n
  PROVE  i + 1 \in 1 .. n /\ (i + 1) - 1 = i /\ i < i + 1
  OBVIOUS

LEMMA OneLong ==
  ASSUME NEW s \in Seq(Node), NEW i \in 1 .. Len(s)
  PROVE  SubSeq(s, i, i) = <<s[i]>>
<1>1. Len(SubSeq(s, i, i)) = 1 /\ SubSeq(s, i, i)[1] = s[i]
  OBVIOUS
<1> DEFINE r == SubSeq(s, i, i)
<1>2. r \in Seq(Node) /\ Len(r) = 1 /\ r[1] = s[i]
  BY <1>1
<1> HIDE DEF r
<1>3. r = <<r[1]>>
  BY <1>2
<1> QED
  BY <1>2, <1>3 DEF r

(* A node behind its children stands for one behind its children.          *)
LEMMA ParentExplained ==
  ASSUME input \in Input, NEW F, NEW t, Good(t), t # << >>, IsLastChild(t),
         NEW l, Good(l), l # << >>, Len(l) = Len(t), IsLastChild(l), Len(t) # 1,
         Opened(input, F, t, l, Len(t) - 1),
         Fit(input, F, t[Len(t)].sibs, t[Len(t)].at, l[Len(t)].sibs, l[Len(t)].at)
  PROVE  Explained(input, F, On(t, Len(t) - 1))
<1> DEFINE z == Len(t)
           p == t[z - 1].sibs[t[z - 1].at]
           q == l[z - 1].sibs[l[z - 1].at]
<1>1. z \in Nat \ {0} /\ z # 1 /\ Len(l) = z
  BY GoodTop
<1>2. z \in 2 .. z /\ z \in 1 .. z /\ z - 1 \in 1 .. z
  BY <1>1
<1>3. t[z].sibs = KidsIn(input, p) /\ l[z].sibs = KidsIn(input, q)
  BY <1>1, <1>2, KidsOfInput DEF Good, Nested
<1>4. q \in Node
  BY <1>1, <1>2, GoodTop
<1>5. t[z].at = Len(t[z].sibs) /\ l[z].at = Len(l[z].sibs)
  BY <1>1 DEF IsLastChild, Top
<1>6. p = On(t, z - 1) /\ q = On(l, z - 1)
  BY DEF On
<1> HIDE DEF p, q
<1>7. Like(input, F, p, q)
  BY <1>6 DEF Opened, z
<1>8. Fit(input, F, KidsIn(input, p), Len(KidsIn(input, p)),
          KidsIn(input, q), Len(KidsIn(input, q)))
  BY <1>3, <1>5 DEF z
<1>9. Explained(input, F, p)
  BY <1>4, <1>7, <1>8 DEF Explained
<1> QED
  BY <1>6, <1>9 DEF z

(* The parents fit as far as the nodes that are done.                      *)
LEMMA ParentFits ==
  ASSUME NEW in, NEW F, NEW t, NEW l, NEW d, Opened(in, F, t, l, d),
         t[d].at \in Nat \ {0}, l[d].at \in Nat \ {0}, l[d].sibs \in Seq(Node),
         l[d].at \in 1 .. Len(l[d].sibs)
  PROVE  Fit(in, F, t[d].sibs, t[d].at, l[d].sibs, l[d].at)
<1> DEFINE ts == t[d].sibs  a == t[d].at - 1
           ns == l[d].sibs  b == l[d].at - 1
<1>1. /\ a \in Nat /\ b \in Nat /\ t[d].at = a + 1 /\ l[d].at = b + 1
      /\ a + 1 \in Nat /\ b + 1 \in Nat /\ a < a + 1 /\ b < b + 1
  OBVIOUS
<1>2. Fit(in, F, ts, a, ns, b) /\ Starts(in, ts, a + 1)
  BY <1>1 DEF Opened
<1>3. ts[a + 1] \in DOMAIN F /\ F[ts[a + 1]] = <<ns[b + 1]>>
  BY <1>1 DEF Opened, Like, On
<1>4. SubSeq(ns, b + 1, b + 1) = <<ns[b + 1]>>
  <2>1. ns \in Seq(Node) /\ b + 1 \in 1 .. Len(ns)
    BY <1>1
  <2> QED
    BY <2>1, OneLong
<1>5. F[ts[a + 1]] = SubSeq(ns, b + 1, b + 1)
  BY <1>3, <1>4
<1> HIDE DEF a, b, ts, ns
<1>6. Fit(in, F, ts, a + 1, ns, b + 1)
  BY <1>1, <1>2, <1>3, <1>5, FitNext
<1> QED
  BY <1>1, <1>6 DEF ts, ns

LEMMA OpenedThenStarts ==
  ASSUME NEW in, NEW F, NEW t, NEW l, NEW d, Opened(in, F, t, l, d),
         t[d].at \in Nat \ {0}
  PROVE  Starts(in, t[d].sibs, t[d].at + 1)
<1>1. \A m \in in.metas[t[d].sibs[t[d].at]] : m.nameOnly
  BY DEF Opened, Like, On
<1>2. (t[d].at + 1) - 1 = t[d].at
  OBVIOUS
<1> QED
  BY <1>1, <1>2 DEF Starts

LEMMA AlongUp ==
  ASSUME input \in Input, NEW first \in [Node -> Nat], NEW last \in [Node -> Nat],
         NumberedBy(input, first, last),
         NEW t, Good(t), t # << >>, Inside(input, t), IsLastChild(t),
         NEW l, Good(l), l # << >>, Len(l) = Len(t), IsLastChild(l),
         NEW root, l[1].sibs = root, NEW binds,
         Along(input, first, last, t, TRUE, l, root, binds)
  PROVE  Along(input, first, last, BacktrackToParent(t), TRUE,
               BacktrackToParent(l), root, binds)
<1> DEFINE u == BacktrackToParent(t)
           m == BacktrackToParent(l)
           z == Len(t)
<1>1. PICK T \in SUBSET Node : \E F \in [T -> Seq(Node)] :
        /\ SoFar(input, F, t, l, z - 1)
        /\ Reaching(input, F, t, TRUE, l, root)
        /\ Behindhand(first, last, F, t, TRUE)
        /\ BindsWhat(input, first, F, binds)
  BY DEF Along
<1>2. PICK F \in [T -> Seq(Node)] :
        /\ SoFar(input, F, t, l, z - 1)
        /\ Reaching(input, F, t, TRUE, l, root)
        /\ Behindhand(first, last, F, t, TRUE)
        /\ BindsWhat(input, first, F, binds)
  BY <1>1
<1>3. Fit(input, F, t[z].sibs, t[z].at, l[z].sibs, l[z].at)
  BY <1>2 DEF Reaching
<1>4. /\ z \in Nat \ {0} /\ Len(l) = z /\ Len(u) = z - 1 /\ Len(m) = z - 1
      /\ \A d \in 1 .. z - 1 : u[d] = t[d] /\ m[d] = l[d]
      /\ u \in Seq(Level)
  BY GoodTop, BacktrackShape, BacktrackGood DEF Good
<1>5. t[z].at = Len(t[z].sibs) /\ l[z].at = Len(l[z].sibs)
  BY <1>4 DEF IsLastChild, Top
<1> HIDE DEF u, m, z
<1>6. CASE z = 1
  <2>1. u = << >>
    BY <1>4, <1>6
  <2>2. Reaching(input, F, u, TRUE, m, root)
    BY <1>3, <1>5, <1>6, <2>1 DEF Inside, Reaching, z
  <2>3. 1 .. z - 1 = {} /\ 1 .. Len(u) - 1 = {}
    BY <1>4, <1>6
  <2>4. SoFar(input, F, u, m, Len(u) - 1)
    BY <1>2, <2>3 DEF SoFar
  <2> QED
    BY <1>2, <2>1, <2>2, <2>4 DEF Along, Behindhand, u, m
<1>7. CASE z # 1
  <2>1. z - 1 \in 1 .. z - 1 /\ z - 1 \in 1 .. z /\ z \in 1 .. z /\ u # << >>
        /\ Len(u) - 1 = z - 2 /\ Len(u) = z - 1 /\ z - 1 \in Nat
    BY <1>4, <1>7
  <2>2. Opened(input, F, t, l, z - 1)
    BY <1>2, <2>1 DEF SoFar
  <2>3. Explained(input, F, On(t, z - 1))
    BY <1>3, <1>7, <2>2, ParentExplained DEF z
  <2>4. \A d \in 1 .. z - 1 : d \in 1 .. z - 2 \/ d = z - 1
    BY <1>4
  <2>5. \A d \in 1 .. z - 2 : d \in 1 .. z - 1
    BY <1>4
  <2>6. SoFar(input, F, t, l, z - 2)
    BY <1>2, <2>3, <2>4, <2>5 DEF SoFar
  <2>7. SoFar(input, F, u, m, Len(u) - 1)
    BY <1>4, <2>1, <2>5, <2>6, SoFarSame
  <2>8. /\ t[z - 1].at \in Nat \ {0} /\ l[z - 1].at \in Nat \ {0}
        /\ l[z - 1].sibs \in Seq(Node) /\ l[z - 1].at \in 1 .. Len(l[z - 1].sibs)
    BY <1>4, <2>1, GoodTop DEF z
  <2>9. Fit(input, F, t[z - 1].sibs, t[z - 1].at, l[z - 1].sibs, l[z - 1].at)
    BY <2>2, <2>8, ParentFits
  <2>10. Reaching(input, F, u, TRUE, m, root)
    <3>1. Starts(input, t[z - 1].sibs, t[z - 1].at + 1)
      BY <2>2, <2>8, OpenedThenStarts
    <3> QED
      BY <1>4, <2>1, <2>9, <3>1 DEF Reaching
  <2>11. On(u, Len(u)) = On(t, z - 1)
    BY <1>4, <2>1 DEF On
  <2>12. /\ last[On(t, z)] <= last[On(t, z - 1)]
         /\ On(t, z) \in Node /\ On(t, z - 1) \in Node
    BY <1>7, <2>1, LevelFollows, GoodTop DEF z, On
  <2>13. ASSUME NEW n \in T
         PROVE  first[n] <= last[On(t, z - 1)]
    <3>1. first[n] <= last[On(t, z)]
      BY <1>2, <2>13 DEF Behindhand, z
    <3>2. first[n] \in Nat /\ last[On(t, z)] \in Nat /\ last[On(t, z - 1)] \in Nat
      BY <2>12
    <3> QED
      BY <3>1, <3>2, <2>12
  <2>14. Behindhand(first, last, F, u, TRUE)
    BY <2>11, <2>13 DEF Behindhand
  <2> QED
    BY <1>2, <2>7, <2>10, <2>14 DEF Along, u, m
<1> QED
  BY <1>6, <1>7

LEMMA AlongOn ==
  ASSUME input \in Input, NEW first \in [Node -> Nat], NEW last \in [Node -> Nat],
         NumberedBy(input, first, last),
         NEW t, Good(t), t # << >>, Inside(input, t), ~ IsLastChild(t),
         NEW l, Good(l), l # << >>, Len(l) = Len(t), ~ IsLastChild(l),
         NEW root, NEW binds,
         Along(input, first, last, t, TRUE, l, root, binds)
  PROVE  Along(input, first, last, NextSibling(t), FALSE, NextSibling(l), root, binds)
<1> DEFINE u == NextSibling(t)
           m == NextSibling(l)
           z == Len(t)
<1>1. PICK T \in SUBSET Node : \E F \in [T -> Seq(Node)] :
        /\ SoFar(input, F, t, l, z - 1)
        /\ Reaching(input, F, t, TRUE, l, root)
        /\ Behindhand(first, last, F, t, TRUE)
        /\ BindsWhat(input, first, F, binds)
  BY DEF Along
<1>2. PICK F \in [T -> Seq(Node)] :
        /\ SoFar(input, F, t, l, z - 1)
        /\ Reaching(input, F, t, TRUE, l, root)
        /\ Behindhand(first, last, F, t, TRUE)
        /\ BindsWhat(input, first, F, binds)
  BY <1>1
<1>3. /\ Fit(input, F, t[z].sibs, t[z].at, l[z].sibs, l[z].at)
      /\ t[z].at # Len(t[z].sibs) => Starts(input, t[z].sibs, t[z].at + 1)
  BY <1>2 DEF Reaching
<1>4. /\ z \in Nat \ {0} /\ Len(l) = z /\ z \in 1 .. z
      /\ Top(t) = t[z] /\ Top(l) = l[z]
  BY GoodTop
<1>5. /\ t[z].sibs \in Seq(Node) /\ t[z].at \in Nat \ {0} /\ t[z].at \in 1 .. Len(t[z].sibs)
      /\ l[z].sibs \in Seq(Node) /\ l[z].at \in Nat \ {0} /\ l[z].at \in 1 .. Len(l[z].sibs)
      /\ t[z].at # Len(t[z].sibs) /\ l[z].at # Len(l[z].sibs)
  BY <1>4, GoodTop DEF IsLastChild, z
<1>6. /\ t[z].at + 1 \in 1 .. Len(t[z].sibs) /\ l[z].at + 1 \in 1 .. Len(l[z].sibs)
      /\ (t[z].at + 1) - 1 = t[z].at /\ (l[z].at + 1) - 1 = l[z].at
      /\ t[z].at < t[z].at + 1
  <2>1. Len(t[z].sibs) \in Nat /\ Len(l[z].sibs) \in Nat
    BY <1>5
  <2> QED
    BY <1>5, <2>1, NextIndex
<1>7. /\ Len(u) = z /\ u[z].sibs = t[z].sibs /\ u[z].at = t[z].at + 1
      /\ \A d \in 1 .. z : d # z => u[d] = t[d]
  BY <1>4, <1>6, MoveShape DEF NextSibling
<1>8. /\ Len(m) = z /\ m[z].sibs = l[z].sibs /\ m[z].at = l[z].at + 1
      /\ \A d \in 1 .. z : d # z => m[d] = l[d]
  BY <1>4, <1>6, MoveShape DEF NextSibling
<1> HIDE DEF u, m, z
<1>9. \A d \in 1 .. z - 1 : d \in 1 .. z /\ d # z
  BY <1>4
<1>10. SoFar(input, F, u, m, Len(u) - 1)
  BY <1>2, <1>7, <1>8, <1>9, SoFarSame
<1>11. u # << >>
  BY <1>4, <1>7
<1>12. Reaching(input, F, u, FALSE, m, root)
  BY <1>3, <1>5, <1>6, <1>7, <1>8, <1>11 DEF Reaching
<1>13. last[On(t, z)] < first[On(u, z)] /\ On(t, z) \in Node /\ On(u, z) \in Node
  <2>1. Follow(first, last, t[z].sibs)
    BY <1>4, LevelFollows DEF z
  <2>2. t[z].at \in DOMAIN t[z].sibs /\ t[z].at + 1 \in DOMAIN t[z].sibs
    <3>1. DOMAIN t[z].sibs = 1 .. Len(t[z].sibs)
      BY <1>5
    <3> QED
      BY <1>5, <1>6, <3>1
  <2>3. last[t[z].sibs[t[z].at]] < first[t[z].sibs[t[z].at + 1]]
    BY <1>6, <2>1, <2>2 DEF Follow
  <2>4. On(t, z) = t[z].sibs[t[z].at] /\ On(u, z) = t[z].sibs[t[z].at + 1]
    BY <1>7 DEF On
  <2>5. t[z].sibs[t[z].at] \in Node /\ t[z].sibs[t[z].at + 1] \in Node
    <3> DEFINE s == t[z].sibs
    <3>1. s \in Seq(Node)
      BY <1>5
    <3> HIDE DEF s
    <3>2. \A i \in 1 .. Len(s) : s[i] \in Node
      BY <3>1
    <3> QED
      BY <1>5, <1>6, <3>2 DEF s
  <2> QED
    BY <2>3, <2>4, <2>5
<1>14. ASSUME NEW n \in T
       PROVE  first[n] < first[On(u, z)]
  <2>1. first[n] <= last[On(t, z)]
    BY <1>2, <1>14 DEF Behindhand, z
  <2>2. first[n] \in Nat /\ last[On(t, z)] \in Nat /\ first[On(u, z)] \in Nat
    BY <1>13
  <2> QED
    BY <2>1, <2>2, <1>13
<1>15. Behindhand(first, last, F, u, FALSE)
  BY <1>7, <1>14 DEF Behindhand
<1> QED
  BY <1>2, <1>10, <1>12, <1>15 DEF Along, u, m

LEMMA SeqFacts ==
  ASSUME NEW s \in Seq(Node)
  PROVE  Len(s) \in Nat /\ DOMAIN s = 1 .. Len(s) /\ \A i \in 1 .. Len(s) : s[i] \in Node
  OBVIOUS

LEMMA IndexFacts ==
  ASSUME NEW n \in Nat, NEW a \in 1 .. n, NEW e \in a .. n
  PROVE  /\ e \in 1 .. n /\ e \in Nat /\ a - 1 \in Nat /\ (a - 1) + 1 = a
         /\ a - 1 < e /\ (a = e \/ a < e)
  OBVIOUS

LEMMA RunType ==
  ASSUME NEW s \in Seq(Node), NEW a \in 1 .. Len(s), NEW e \in a .. Len(s)
  PROVE  SubSeq(s, a, e) \in Seq(Node)
  OBVIOUS

LEMMA GivenType ==
  ASSUME NEW T \in SUBSET Node, NEW F \in [T -> Seq(Node)],
         NEW n \in Node, NEW run \in Seq(Node)
  PROVE  /\ T \cup {n} \in SUBSET Node
         /\ Given(F, n, run) \in [T \cup {n} -> Seq(Node)]
  BY DEF Given

LEMMA OpenedMore ==
  ASSUME NEW in, NEW F, NEW G, Extends(F, G), NEW t, NEW l, NEW o, SoFar(in, F, t, l, o),
         NEW d \in 1 .. o
  PROVE  Opened(in, G, t, l, d)
<1>1. Opened(in, F, t, l, d)
  BY DEF SoFar
<1> QED
  BY <1>1, FitMore DEF Opened, Like, Extends

LEMMA ExplainedStays ==
  ASSUME NEW in, NEW F, NEW G, Extends(F, G), NEW t, NEW l, NEW o, SoFar(in, F, t, l, o),
         NEW n \in DOMAIN F
  PROVE  Explained(in, G, n) \/ \E d \in 1 .. o : n = On(t, d)
<1>1. CASE Explained(in, F, n)
  BY <1>1, ExplainedMore
<1>2. CASE \E d \in 1 .. o : n = On(t, d)
  BY <1>2
<1> QED
  BY <1>1, <1>2 DEF SoFar

(* What is current was not met, and stands for nothing yet.                *)
LEMMA CurrentIsNew ==
  ASSUME NEW first \in [Node -> Nat], NEW last, NEW T \in SUBSET Node,
         NEW F \in [T -> Seq(Node)],
         NEW t, Good(t), t # << >>, Behindhand(first, last, F, t, FALSE)
  PROVE  /\ GetCurrent(t) = On(t, Len(t)) /\ GetCurrent(t) \in Node
         /\ GetCurrent(t) \notin T
         /\ \A n \in T : first[n] <= first[GetCurrent(t)]
<1>1. GetCurrent(t) = On(t, Len(t)) /\ GetCurrent(t) \in Node
  BY GoodTop DEF GetCurrent, Top, On
<1> DEFINE c == GetCurrent(t)
<1> HIDE DEF c
<1>2. \A n \in T : first[n] < first[c]
  BY <1>1 DEF Behindhand, c
<1>3. c \in Node /\ first[c] \in Nat /\ \A n \in T : first[n] \in Nat
  BY <1>1 DEF c
<1>4. ~ (first[c] < first[c]) /\ \A n \in T : first[n] <= first[c]
  BY <1>2, <1>3
<1> QED
  BY <1>1, <1>2, <1>4 DEF c

LEMMA AlongExtended ==
  ASSUME input \in Input, NEW first \in [Node -> Nat], NEW last \in [Node -> Nat],
         NumberedBy(input, first, last),
         NEW t, Good(t), t # << >>, Inside(input, t),
         NEW l, Good(l), l # << >>, Len(l) = Len(t), NEW root, NEW binds,
         Along(input, first, last, t, FALSE, l, root, binds),
         NEW meta, input.metas[GetCurrent(t)] = {meta}, ~ meta.nameOnly,
         NEW e \in Top(t).at .. Len(Top(t).sibs),
         \A k \in Top(t).at .. e : MapsIn(input, Top(t).sibs[k], meta.identifier),
         e # Len(Top(t).sibs) => Starts(input, Top(t).sibs, e + 1),
         NEW c \in Top(l).at .. Len(Top(l).sibs)
  PROVE  Along(input, first, last, MoveTo(t, e), TRUE, MoveTo(l, c), root,
               Insert(binds, meta.identifier, SubSeq(Top(l).sibs, Top(l).at, c)))
<1> DEFINE u == MoveTo(t, e)
           m == MoveTo(l, c)
           z == Len(t)
           n == GetCurrent(t)
           ts == t[z].sibs  a == t[z].at
           ns == l[z].sibs  b == l[z].at
           run == SubSeq(ns, b, c)
<1>1. PICK T \in SUBSET Node : \E F \in [T -> Seq(Node)] :
        /\ SoFar(input, F, t, l, z - 1)
        /\ Reaching(input, F, t, FALSE, l, root)
        /\ Behindhand(first, last, F, t, FALSE)
        /\ BindsWhat(input, first, F, binds)
  BY DEF Along
<1>2. PICK F \in [T -> Seq(Node)] :
        /\ SoFar(input, F, t, l, z - 1)
        /\ Reaching(input, F, t, FALSE, l, root)
        /\ Behindhand(first, last, F, t, FALSE)
        /\ BindsWhat(input, first, F, binds)
  BY <1>1
<1>3. /\ z \in Nat \ {0} /\ Len(l) = z /\ z \in 1 .. z
      /\ Top(t) = t[z] /\ Top(l) = l[z]
  BY GoodTop
<1>4. /\ ts \in Seq(Node) /\ a \in Nat \ {0} /\ a \in 1 .. Len(ts) /\ Len(ts) \in Nat
      /\ ns \in Seq(Node) /\ b \in Nat \ {0} /\ b \in 1 .. Len(ns) /\ Len(ns) \in Nat
  <2>1. /\ ts \in Seq(Node) /\ a \in Nat \ {0} /\ a \in 1 .. Len(ts)
        /\ ns \in Seq(Node) /\ b \in Nat \ {0} /\ b \in 1 .. Len(ns)
    BY <1>3, GoodTop
  <2> QED
    BY <2>1, SeqFacts
<1>5. Fit(input, F, ts, a - 1, ns, b - 1) /\ Starts(input, ts, a)
  BY <1>2 DEF Reaching
<1>6. /\ n = On(t, z) /\ n \in Node /\ n \notin T /\ n = ts[a]
      /\ \A k \in T : first[k] <= first[n]
  <2>1. /\ n = On(t, z) /\ n \in Node /\ n \notin T
        /\ \A k \in T : first[k] <= first[n]
    BY <1>2, CurrentIsNew
  <2> QED
    BY <2>1 DEF On
<1>7. /\ e \in a .. Len(ts) /\ c \in b .. Len(ns)
      /\ \A k \in a .. e : MapsIn(input, ts[k], meta.identifier)
      /\ e # Len(ts) => Starts(input, ts, e + 1)
  BY <1>3
<1> HIDE DEF ts, ns, a, b, n, z
<1>8. /\ e \in 1 .. Len(ts) /\ e \in Nat /\ a - 1 \in Nat /\ (a - 1) + 1 = a
      /\ a - 1 < e /\ (a = e \/ a < e)
      /\ c \in 1 .. Len(ns) /\ c \in Nat /\ b - 1 \in Nat /\ (b - 1) + 1 = b
      /\ b - 1 < c /\ run \in Seq(Node)
  BY <1>4, <1>7, IndexFacts, RunType
<1> HIDE DEF run
<1> DEFINE G == Given(F, n, run)
           bs == Insert(binds, meta.identifier, run)
<1>9. T \cup {n} \in SUBSET Node /\ G \in [T \cup {n} -> Seq(Node)]
  BY <1>6, <1>8, GivenType
<1>10. n \notin DOMAIN F
  BY <1>6
<1>11. Extends(F, G) /\ DOMAIN G = DOMAIN F \cup {n} /\ G[n] = run
  BY <1>10 DEF Given, Extends
<1>12. BindsWhat(input, first, G, bs)
  <2>1. input.metas[n] = {meta} /\ BindsWhat(input, first, F, binds)
    BY <1>2 DEF n
  <2>2. first[n] <= first[n]
    <3>1. first[n] \in Nat
      BY <1>6
    <3> QED
      BY <3>1
  <2> QED
    BY <1>6, <1>10, <2>1, <2>2, BindsMore
<1> HIDE DEF G, bs
<1>13. Explained(input, G, n)
  BY DEF Explained, n
<1>14. SoFar(input, G, t, l, z - 1)
  <2>1. SoFar(input, F, t, l, z - 1) /\ Extends(F, G)
    BY <1>2, <1>11
  <2>2. \A d \in 1 .. z - 1 : Opened(input, G, t, l, d)
    BY <2>1, OpenedMore
  <2>3. ASSUME NEW k \in DOMAIN F
        PROVE  Explained(input, G, k) \/ \E d \in 1 .. z - 1 : k = On(t, d)
    BY <2>1, ExplainedStays
  <2> QED
    BY <1>11, <1>13, <2>2, <2>3 DEF SoFar
<1>15. Fit(input, G, ts, e, ns, c)
  <2>1. Fit(input, G, ts, a - 1, ns, b - 1)
    BY <1>5, <1>11, FitMore
  <2>2. ts[(a - 1) + 1] \in DOMAIN G
        /\ G[ts[(a - 1) + 1]] = SubSeq(ns, (b - 1) + 1, c)
    BY <1>6, <1>8, <1>11 DEF run
  <2>3. \E y \in input.metas[ts[(a - 1) + 1]] :
          ~ y.nameOnly /\ \A k \in (a - 1) + 1 .. e : MapsIn(input, ts[k], y.identifier)
    <3>1. ts[(a - 1) + 1] = n /\ meta \in input.metas[n]
      BY <1>6, <1>8 DEF n
    <3>2. \A k \in (a - 1) + 1 .. e : MapsIn(input, ts[k], meta.identifier)
      BY <1>7, <1>8
    <3> QED
      BY <3>1, <3>2
  <2> QED
    BY <1>5, <1>8, <2>1, <2>2, <2>3, FitNext
<1>16. /\ Len(u) = z /\ u[z].sibs = ts /\ u[z].at = e
       /\ \A d \in 1 .. z : d # z => u[d] = t[d]
  BY <1>3, <1>8, MoveShape DEF z, ts
<1>17. /\ Len(m) = z /\ m[z].sibs = ns /\ m[z].at = c
       /\ \A d \in 1 .. z : d # z => m[d] = l[d]
  BY <1>3, <1>8, MoveShape DEF z, ns
<1> HIDE DEF u, m
<1>18. \A d \in 1 .. z - 1 : d \in 1 .. z /\ d # z
  BY <1>3
<1>19. SoFar(input, G, u, m, Len(u) - 1)
  <2>1. \A d \in 1 .. z - 1 : u[d] = t[d] /\ m[d] = l[d]
    BY <1>16, <1>17, <1>18
  <2>2. SoFar(input, G, u, m, z - 1)
    BY <1>14, <2>1, SoFarSame
  <2> QED
    BY <1>16, <2>2
<1>20. u # << >>
  BY <1>3, <1>16
<1>21. Reaching(input, G, u, TRUE, m, root)
  <2>1. Fit(input, G, u[z].sibs, u[z].at, m[z].sibs, m[z].at)
    BY <1>15, <1>16, <1>17
  <2>2. u[z].at # Len(u[z].sibs) => Starts(input, u[z].sibs, u[z].at + 1)
    BY <1>7, <1>16
  <2> QED
    BY <1>16, <1>20, <2>1, <2>2 DEF Reaching
<1>22. first[n] <= last[On(u, z)] /\ On(u, z) \in Node
  <2>1. On(u, z) = ts[e]
    BY <1>16 DEF On
  <2>2. /\ Follow(first, last, ts)
        /\ \A k \in DOMAIN ts : first[ts[k]] <= last[ts[k]]
    BY <1>3, LevelFollows DEF ts, z
  <2>3. a \in DOMAIN ts /\ e \in DOMAIN ts /\ \A i \in DOMAIN ts : ts[i] \in Node
    BY <1>4, <1>8, SeqFacts
  <2>4. a = e \/ a < e
    BY <1>8
  <2>5. first[n] <= last[n] /\ first[ts[e]] <= last[ts[e]]
        /\ (a < e => last[n] < first[ts[e]])
    BY <1>6, <2>2, <2>3 DEF Follow
  <2>6. first[n] \in Nat /\ last[n] \in Nat /\ first[ts[e]] \in Nat /\ last[ts[e]] \in Nat
    BY <1>6, <2>3
  <2>7. CASE a = e
    BY <1>6, <2>1, <2>3, <2>5, <2>7
  <2>8. CASE a < e
    <3>1. first[n] <= last[ts[e]]
      BY <2>5, <2>6, <2>8
    <3> QED
      BY <2>1, <2>3, <3>1
  <2> QED
    BY <2>4, <2>7, <2>8
<1>23. ASSUME NEW k \in T \cup {n}
       PROVE  first[k] <= last[On(u, z)]
  <2>1. first[k] <= first[n]
    <3>1. CASE k = n
      <4>1. first[n] \in Nat
        BY <1>6
      <4> QED
        BY <3>1, <4>1
    <3> QED
      BY <1>6, <1>23, <3>1
  <2>2. first[k] \in Nat /\ first[n] \in Nat /\ last[On(u, z)] \in Nat
    BY <1>6, <1>22
  <2> QED
    BY <1>22, <2>1, <2>2
<1>24. Behindhand(first, last, G, u, TRUE)
  BY <1>9, <1>16, <1>23 DEF Behindhand
<1>25. Along(input, first, last, u, TRUE, m, root, bs)
  BY <1>9, <1>12, <1>19, <1>21, <1>24 DEF Along
<1> QED
  BY <1>3, <1>25 DEF u, m, bs, run, ns, b

(* compare() has taken the current nodes for each other, and bound them.   *)
LEMMA AlongCompared ==
  ASSUME NEW first \in [Node -> Nat], NEW last \in [Node -> Nat],
         NEW t, Good(t), t # << >>,
         NEW l, Good(l), l # << >>, Len(l) = Len(t), NEW root, NEW binds,
         Along(input, first, last, t, FALSE, l, root, binds),
         \A m \in input.metas[GetCurrent(t)] : m.nameOnly,
         Compare(input.content[GetCurrent(t)], input.content[GetCurrent(l)],
                 input.metas[GetCurrent(t)] # {}),
         NEW bs,
         \/ input.metas[GetCurrent(t)] = {} /\ bs = binds
         \/ \E m : /\ input.metas[GetCurrent(t)] = {m}
                   /\ bs = Insert(binds, m.identifier, <<GetCurrent(l)>>)
  PROVE  AlongAt(input, first, last, t, l, bs)
<1> DEFINE z == Len(t)
           n == GetCurrent(t)
           k == GetCurrent(l)
<1>1. PICK T \in SUBSET Node : \E F \in [T -> Seq(Node)] :
        /\ SoFar(input, F, t, l, z - 1)
        /\ Reaching(input, F, t, FALSE, l, root)
        /\ Behindhand(first, last, F, t, FALSE)
        /\ BindsWhat(input, first, F, binds)
  BY DEF Along
<1>2. PICK F \in [T -> Seq(Node)] :
        /\ SoFar(input, F, t, l, z - 1)
        /\ Reaching(input, F, t, FALSE, l, root)
        /\ Behindhand(first, last, F, t, FALSE)
        /\ BindsWhat(input, first, F, binds)
  BY <1>1
<1>3. /\ z \in Nat \ {0} /\ k \in Node /\ k = On(l, z)
  BY GoodTop DEF GetCurrent, Top, On
<1>4. /\ Fit(input, F, t[z].sibs, t[z].at - 1, l[z].sibs, l[z].at - 1)
      /\ Starts(input, t[z].sibs, t[z].at)
  BY <1>2 DEF Reaching
<1>5. /\ n = On(t, z) /\ n \in Node /\ n \notin T
      /\ \A j \in T : first[j] <= first[n]
  BY <1>2, CurrentIsNew
<1>6. /\ \A m \in input.metas[n] : m.nameOnly
      /\ Compare(input.content[n], input.content[k], input.metas[n] # {})
      /\ \/ input.metas[n] = {} /\ bs = binds
         \/ \E m : input.metas[n] = {m} /\ bs = Insert(binds, m.identifier, <<k>>)
  OBVIOUS
<1> HIDE DEF n, k, z
<1>7. <<k>> \in Seq(Node)
  BY <1>3
<1> DEFINE G == Given(F, n, <<k>>)
<1>8. T \cup {n} \in SUBSET Node /\ G \in [T \cup {n} -> Seq(Node)]
  BY <1>5, <1>7, GivenType
<1>9. n \notin DOMAIN F
  BY <1>5
<1>10. Extends(F, G) /\ DOMAIN G = DOMAIN F \cup {n} /\ G[n] = <<k>>
  BY <1>9 DEF Given, Extends
<1>11. BindsWhat(input, first, G, bs)
  <2>1. first[n] <= first[n]
    <3>1. first[n] \in Nat
      BY <1>5
    <3> QED
      BY <3>1
  <2>2. \A j \in DOMAIN F \cup {n} : first[j] <= first[n]
    BY <1>5, <2>1
  <2>3. BindsWhat(input, first, F, binds)
    BY <1>2
  <2>4. CASE input.metas[n] = {} /\ bs = binds
    BY <1>9, <2>3, <2>4, BindsPlain
  <2>5. ASSUME NEW m, input.metas[n] = {m}, bs = Insert(binds, m.identifier, <<k>>)
        PROVE  BindsWhat(input, first, G, bs)
    BY <1>9, <2>2, <2>3, <2>5, BindsMore
  <2> QED
    BY <1>6, <2>4, <2>5
<1> HIDE DEF G
<1>12. Like(input, G, n, k)
  BY <1>6, <1>10 DEF Like
<1>13. /\ \A d \in 1 .. z - 1 : Opened(input, G, t, l, d)
       /\ \A j \in DOMAIN F : Explained(input, G, j) \/ \E d \in 1 .. z - 1 : j = On(t, d)
  <2>1. SoFar(input, F, t, l, z - 1) /\ Extends(F, G)
    BY <1>2, <1>10
  <2>2. \A d \in 1 .. z - 1 : Opened(input, G, t, l, d)
    BY <2>1, OpenedMore
  <2>3. ASSUME NEW j \in DOMAIN F
        PROVE  Explained(input, G, j) \/ \E d \in 1 .. z - 1 : j = On(t, d)
    BY <2>1, ExplainedStays
  <2> QED
    BY <2>2, <2>3
<1>14. Opened(input, G, t, l, z)
  <2>1. Fit(input, G, t[z].sibs, t[z].at - 1, l[z].sibs, l[z].at - 1)
    BY <1>4, <1>10, FitMore
  <2> QED
    BY <1>3, <1>4, <1>5, <1>10, <1>12, <2>1 DEF Opened
<1>15. /\ \A d \in 1 .. z : d \in 1 .. z - 1 \/ d = z
       /\ \A d \in 1 .. z - 1 : d \in 1 .. z
       /\ z \in 1 .. z
  BY <1>3
<1>16. SoFar(input, G, t, l, z)
  <2>1. \A d \in 1 .. z : Opened(input, G, t, l, d)
    BY <1>13, <1>14, <1>15
  <2>2. \A j \in DOMAIN G : Explained(input, G, j) \/ \E d \in 1 .. z : j = On(t, d)
    BY <1>5, <1>10, <1>13, <1>15
  <2> QED
    BY <2>1, <2>2 DEF SoFar
<1>17. \A j \in T \cup {n} : first[j] <= first[On(t, z)]
  <2>1. first[n] <= first[n]
    <3>1. first[n] \in Nat
      BY <1>5
    <3> QED
      BY <3>1
  <2> QED
    BY <1>5, <2>1
<1> QED
  BY <1>8, <1>11, <1>16, <1>17 DEF AlongAt, z

LEMMA AlongDown ==
  ASSUME input \in Input, NEW first \in [Node -> Nat], NEW last \in [Node -> Nat],
         NumberedBy(input, first, last),
         NEW t, Good(t), t # << >>, Inside(input, t), HasChildren(t),
         \A m \in input.metas[GetCurrent(t)] : m.nameOnly,
         NEW l, Good(l), l # << >>, Len(l) = Len(t), HasChildren(l),
         NEW root, NEW binds, AlongAt(input, first, last, t, l, binds)
  PROVE  Along(input, first, last, DescendToChild(t), FALSE, DescendToChild(l),
               root, binds)
<1> DEFINE z == Len(t)
           u == DescendToChild(t)
           m == DescendToChild(l)
<1>1. PICK T \in SUBSET Node : \E F \in [T -> Seq(Node)] :
        /\ SoFar(input, F, t, l, z)
        /\ \A n \in T : first[n] <= first[On(t, z)]
        /\ BindsWhat(input, first, F, binds)
  BY DEF AlongAt
<1>2. PICK F \in [T -> Seq(Node)] :
        /\ SoFar(input, F, t, l, z)
        /\ \A n \in T : first[n] <= first[On(t, z)]
        /\ BindsWhat(input, first, F, binds)
  BY <1>1
<1>3. /\ Good(u) /\ Len(u) = z + 1 /\ u # << >> /\ Inside(input, u)
      /\ u[z + 1].at = 1 /\ \A d \in 1 .. z : u[d] = t[d]
  BY DescendGood, DescendShape, InsideDown
<1>4. m[z + 1].at = 1 /\ \A d \in 1 .. z : m[d] = l[d]
  BY DescendShape
<1>5. z \in Nat \ {0} /\ GetCurrent(t) \in Node
  BY GoodTop
<1> HIDE DEF u, m, z
<1>6. Len(u) - 1 = z /\ z + 1 \in 1 .. Len(u) /\ z \in 1 .. Len(u) /\ z + 1 # 1
      /\ (z + 1) - 1 = z /\ 1 - 1 = 0
  BY <1>3, <1>5
<1>7. SoFar(input, F, u, m, Len(u) - 1)
  <2>1. SoFar(input, F, u, m, z)
    BY <1>2, <1>3, <1>4, SoFarSame
  <2> QED
    BY <1>6, <2>1
<1>8. Reaching(input, F, u, FALSE, m, root)
  <2>1. Fit(input, F, u[z + 1].sibs, 0, m[z + 1].sibs, 0)
    BY FitNone
  <2> QED
    BY <1>3, <1>4, <1>6, <2>1 DEF Reaching, Starts
<1>9. Behindhand(first, last, F, u, FALSE)
  <2>1. first[On(u, z)] < first[On(u, z + 1)]
    BY <1>3, <1>6, LevelFollows
  <2>2. z \in 1 .. z /\ On(u, z) = On(t, z)
    BY <1>3, <1>5 DEF On
  <2>3. On(u, z) \in Node /\ On(u, z + 1) \in Node
    BY <1>3, <1>6, GoodTop DEF On
  <2>4. ASSUME NEW n \in T
        PROVE  first[n] < first[On(u, z + 1)]
    <3>1. first[n] \in Nat /\ first[On(u, z)] \in Nat /\ first[On(u, z + 1)] \in Nat
      BY <2>3
    <3>2. first[n] <= first[On(u, z)]
      BY <1>2, <2>2
    <3> QED
      BY <2>1, <3>1, <3>2
  <2> QED
    BY <1>3, <2>4 DEF Behindhand
<1> QED
  BY <1>2, <1>7, <1>8, <1>9 DEF Along, u, m

LEMMA AlongDone ==
  ASSUME input \in Input, NEW first \in [Node -> Nat], NEW last \in [Node -> Nat],
         NumberedBy(input, first, last),
         NEW t, Good(t), t # << >>, Inside(input, t), ~ HasChildren(t),
         NEW l, Good(l), l # << >>, Len(l) = Len(t), ~ HasChildren(l),
         NEW root, NEW binds, AlongAt(input, first, last, t, l, binds)
  PROVE  Along(input, first, last, t, TRUE, l, root, binds)
<1> DEFINE z == Len(t)
<1>1. PICK T \in SUBSET Node : \E F \in [T -> Seq(Node)] :
        /\ SoFar(input, F, t, l, z)
        /\ \A n \in T : first[n] <= first[On(t, z)]
        /\ BindsWhat(input, first, F, binds)
  BY DEF AlongAt
<1>2. PICK F \in [T -> Seq(Node)] :
        /\ SoFar(input, F, t, l, z)
        /\ \A n \in T : first[n] <= first[On(t, z)]
        /\ BindsWhat(input, first, F, binds)
  BY <1>1
<1>3. /\ z \in Nat \ {0} /\ z \in 1 .. z /\ Len(l) = z
      /\ GetCurrent(t) = On(t, z) /\ GetCurrent(l) = On(l, z)
      /\ On(t, z) \in Node /\ On(l, z) \in Node
  BY GoodTop DEF GetCurrent, Top, On
<1>4. Opened(input, F, t, l, z)
  BY <1>2, <1>3 DEF SoFar
<1>5. /\ t[z].at \in Nat \ {0} /\ l[z].at \in Nat \ {0} /\ l[z].sibs \in Seq(Node)
      /\ l[z].at \in 1 .. Len(l[z].sibs) /\ t[z].at \in DOMAIN t[z].sibs
  <2>1. /\ t[z].at \in Nat \ {0} /\ l[z].at \in Nat \ {0} /\ l[z].sibs \in Seq(Node)
        /\ l[z].at \in 1 .. Len(l[z].sibs) /\ t[z].at \in 1 .. Len(t[z].sibs)
        /\ t[z].sibs \in Seq(Node)
    BY <1>3, GoodTop
  <2> QED
    BY <2>1, SeqFacts
<1>6. Explained(input, F, On(t, z))
  <2>1. KidsIn(input, On(t, z)) = << >> /\ KidsIn(input, On(l, z)) = << >>
    BY <1>3, KidsOfInput DEF HasChildren
  <2>2. Fit(input, F, << >>, 0, << >>, 0) /\ Len(<< >>) = 0
    BY FitNone
  <2>3. Like(input, F, On(t, z), On(l, z))
    BY <1>4 DEF Opened
  <2> QED
    BY <1>3, <2>1, <2>2, <2>3 DEF Explained
<1> HIDE DEF z
<1>7. /\ \A d \in 1 .. z : d \in 1 .. z - 1 \/ d = z
      /\ \A d \in 1 .. z - 1 : d \in 1 .. z
  BY <1>3
<1>8. SoFar(input, F, t, l, z - 1)
  BY <1>2, <1>6, <1>7 DEF SoFar
<1>9. Fit(input, F, t[z].sibs, t[z].at, l[z].sibs, l[z].at)
  BY <1>4, <1>5, ParentFits
<1>12. Starts(input, t[z].sibs, t[z].at + 1)
  BY <1>4, <1>5, OpenedThenStarts
<1>10. Reaching(input, F, t, TRUE, l, root)
  BY <1>9, <1>12 DEF Reaching, z
<1>11. Behindhand(first, last, F, t, TRUE)
  <2>1. first[On(t, z)] <= last[On(t, z)]
    BY <1>3, <1>5, LevelFollows DEF z, On
  <2>2. ASSUME NEW n \in T
        PROVE  first[n] <= last[On(t, z)]
    <3>1. first[n] \in Nat /\ first[On(t, z)] \in Nat /\ last[On(t, z)] \in Nat
      BY <1>3
    <3>2. first[n] <= first[On(t, z)]
      BY <1>2
    <3> QED
      BY <2>1, <3>1, <3>2
  <2> QED
    BY <2>2 DEF Behindhand, z
<1> QED
  BY <1>2, <1>8, <1>10, <1>11 DEF Along, z

-----------------------------------------------------------------------------
(* All potential matches follow in this way, from step to step.            *)

AllAlong(in, first, last, pots, t, b) ==
  \A pot \in pots : Along(in, first, last, t, b, pot.levels, pot.root, pot.binds)

AllAlongAt(in, first, last, pots, t) ==
  \A pot \in pots : AlongAt(in, first, last, t, pot.levels, pot.binds)

RootsIn(pots) == \A pot \in pots : pot.root \in PotentialRoots

(* A template whose metavariables the loop takes for what they are.        *)
GenuineInv ==
  /\ RootsIn(potentials)
  /\ phase # "gather" => Inside(input, trav)
  /\ (phase # "gather" /\ ~ RunToTheEnd) =>
       \A first, last \in [Node -> Nat] : NumberedBy(input, first, last) =>
         AllAlong(input, first, last, potentials, trav, backtracked)

AlongNext(first, last) ==
  \/ backtracked' = TRUE /\ AllAlong(input, first, last, potentials', trav', TRUE)
  \/ backtracked' = FALSE /\ AllAlong(input, first, last, potentials', trav', FALSE)

FollowsOn ==
  /\ RootsIn(potentials')
  /\ Inside(input, trav')
  /\ ~ RunToTheEnd => \A first, last \in [Node -> Nat] :
                NumberedBy(input, first, last) => AlongNext(first, last)

LEMMA GenuineEstablished ==
  ASSUME input' = input, phase' = "match", FollowsOn
  PROVE  GenuineInv'
<1>1. RunToTheEnd' <=> RunToTheEnd
  BY DEF RunToTheEnd, MapsTo, Kids, KindOf
<1>2. RootsIn(potentials)'
  BY DEF FollowsOn, RootsIn, PotentialRoots, Kids, KindOf
<1>3. Inside(input', trav')
  BY DEF FollowsOn
<1>4. ASSUME ~ RunToTheEnd', NEW first \in [Node -> Nat], NEW last \in [Node -> Nat],
             NumberedBy(input', first, last)
      PROVE  AllAlong(input', first, last, potentials', trav', backtracked')
  <2>1. AlongNext(first, last)
    BY <1>1, <1>4 DEF FollowsOn
  <2>2. AllAlong(input, first, last, potentials', trav', backtracked')
    BY <2>1, Zenon DEF AlongNext
  <2> QED
    BY <2>2, Zenon
<1> QED
  BY <1>2, <1>3, <1>4, Zenon DEF GenuineInv

(* What a move does to a potential match.                                  *)
LEMMA MovedUp ==
  ASSUME NEW pots, NEW n, AllInStep(pots, n),
         NEW q \in ForEach(Filter(pots, IsLastChild), BacktrackToParent)
  PROVE  \E pot \in pots : /\ IsLastChild(pot.levels)
                           /\ q.levels = BacktrackToParent(pot.levels)
                           /\ q.root = pot.root /\ q.binds = pot.binds
<1>1. PICK pot \in pots : /\ IsLastChild(pot.levels)
                         /\ q = [pot EXCEPT !.levels = BacktrackToParent(@)]
  BY DEF ForEach, Filter
<1>2. pot \in PotentialMatches
  BY DEF AllInStep, InStep
<1>3. q.levels = BacktrackToParent(pot.levels) /\ q.root = pot.root /\ q.binds = pot.binds
  BY <1>1, <1>2 DEF PotentialMatches
<1> QED
  BY <1>1, <1>3

LEMMA MovedOn ==
  ASSUME NEW pots, NEW n, AllInStep(pots, n),
         NEW q \in ForEach(Filter(pots, LAMBDA l : ~ IsLastChild(l)), NextSibling)
  PROVE  \E pot \in pots : /\ ~ IsLastChild(pot.levels)
                           /\ q.levels = NextSibling(pot.levels)
                           /\ q.root = pot.root /\ q.binds = pot.binds
<1>1. PICK pot \in pots : /\ ~ IsLastChild(pot.levels)
                         /\ q = [pot EXCEPT !.levels = NextSibling(@)]
  BY DEF ForEach, Filter
<1>2. pot \in PotentialMatches
  BY DEF AllInStep, InStep
<1>3. q.levels = NextSibling(pot.levels) /\ q.root = pot.root /\ q.binds = pot.binds
  BY <1>1, <1>2 DEF PotentialMatches
<1> QED
  BY <1>1, <1>3

LEMMA MovedDown ==
  ASSUME NEW pots, NEW n, AllInStep(pots, n),
         NEW q \in ForEach(Filter(pots, HasChildren), DescendToChild)
  PROVE  \E pot \in pots : /\ HasChildren(pot.levels)
                           /\ q.levels = DescendToChild(pot.levels)
                           /\ q.root = pot.root /\ q.binds = pot.binds
<1>1. PICK pot \in pots : /\ HasChildren(pot.levels)
                         /\ q = [pot EXCEPT !.levels = DescendToChild(@)]
  BY DEF ForEach, Filter
<1>2. pot \in PotentialMatches
  BY DEF AllInStep, InStep
<1>3. q.levels = DescendToChild(pot.levels) /\ q.root = pot.root /\ q.binds = pot.binds
  BY <1>1, <1>2 DEF PotentialMatches
<1> QED
  BY <1>1, <1>3

(* The template and what is known of it and of the potential matches.      *)
Follows(first, last, t, pots) ==
  /\ input \in Input
  /\ first \in [Node -> Nat] /\ last \in [Node -> Nat] /\ NumberedBy(input, first, last)
  /\ Good(t) /\ t # << >> /\ Inside(input, t) /\ AllInStep(pots, Len(t))

LEMMA LevelsOf ==
  ASSUME NEW first, NEW last, NEW t, NEW pots, Follows(first, last, t, pots),
         NEW pot \in pots
  PROVE  /\ Good(pot.levels) /\ pot.levels # << >> /\ Len(pot.levels) = Len(t)
         /\ pot.levels[1].sibs = pot.root
<1>1. Len(t) \in Nat \ {0}
  BY GoodTop DEF Follows
<1>2. InStep(pot, Len(t))
  BY DEF Follows, AllInStep
<1> QED
  BY <1>1, <1>2, NotEmpty

LEMMA AllAlongUp ==
  ASSUME NEW first, NEW last, NEW t, NEW pots, Follows(first, last, t, pots),
         IsLastChild(t), AllAlong(input, first, last, pots, t, TRUE)
  PROVE  AllAlong(input, first, last,
                  ForEach(Filter(pots, IsLastChild), BacktrackToParent),
                  BacktrackToParent(t), TRUE)
<1> DEFINE moved == ForEach(Filter(pots, IsLastChild), BacktrackToParent)
<1>1. \A q \in moved : \E pot \in pots :
        /\ IsLastChild(pot.levels) /\ q.levels = BacktrackToParent(pot.levels)
        /\ q.root = pot.root /\ q.binds = pot.binds
  <2>1. AllInStep(pots, Len(t))
    BY DEF Follows
  <2> QED
    BY <2>1, MovedUp
<1> HIDE DEF moved
<1>2. ASSUME NEW pot \in pots, IsLastChild(pot.levels)
      PROVE  Along(input, first, last, BacktrackToParent(t), TRUE,
                   BacktrackToParent(pot.levels), pot.root, pot.binds)
  <2>1. /\ Good(pot.levels) /\ pot.levels # << >> /\ Len(pot.levels) = Len(t)
        /\ pot.levels[1].sibs = pot.root
    BY LevelsOf
  <2>2. Along(input, first, last, t, TRUE, pot.levels, pot.root, pot.binds)
    BY DEF AllAlong
  <2> QED
    BY <1>2, <2>1, <2>2, AlongUp DEF Follows
<1>3. AllAlong(input, first, last, moved, BacktrackToParent(t), TRUE)
  BY <1>1, <1>2 DEF AllAlong
<1> QED
  BY <1>3 DEF moved

LEMMA AllAlongOn ==
  ASSUME NEW first, NEW last, NEW t, NEW pots, Follows(first, last, t, pots),
         ~ IsLastChild(t), AllAlong(input, first, last, pots, t, TRUE)
  PROVE  AllAlong(input, first, last,
                  ForEach(Filter(pots, LAMBDA l : ~ IsLastChild(l)), NextSibling),
                  NextSibling(t), FALSE)
<1> DEFINE moved == ForEach(Filter(pots, LAMBDA l : ~ IsLastChild(l)), NextSibling)
<1>1. \A q \in moved : \E pot \in pots :
        /\ ~ IsLastChild(pot.levels) /\ q.levels = NextSibling(pot.levels)
        /\ q.root = pot.root /\ q.binds = pot.binds
  <2>1. AllInStep(pots, Len(t))
    BY DEF Follows
  <2> QED
    BY <2>1, MovedOn
<1> HIDE DEF moved
<1>2. ASSUME NEW pot \in pots, ~ IsLastChild(pot.levels)
      PROVE  Along(input, first, last, NextSibling(t), FALSE,
                   NextSibling(pot.levels), pot.root, pot.binds)
  <2>1. /\ Good(pot.levels) /\ pot.levels # << >> /\ Len(pot.levels) = Len(t)
        /\ pot.levels[1].sibs = pot.root
    BY LevelsOf
  <2>2. Along(input, first, last, t, TRUE, pot.levels, pot.root, pot.binds)
    BY DEF AllAlong
  <2> QED
    BY <1>2, <2>1, <2>2, AlongOn DEF Follows
<1>3. AllAlong(input, first, last, moved, NextSibling(t), FALSE)
  BY <1>1, <1>2 DEF AllAlong
<1> QED
  BY <1>3 DEF moved

LEMMA AllAlongDown ==
  ASSUME NEW first, NEW last, NEW t, NEW pots, Follows(first, last, t, pots),
         HasChildren(t), \A m \in input.metas[GetCurrent(t)] : m.nameOnly,
         AllAlongAt(input, first, last, pots, t)
  PROVE  AllAlong(input, first, last,
                  ForEach(Filter(pots, HasChildren), DescendToChild),
                  DescendToChild(t), FALSE)
<1> DEFINE moved == ForEach(Filter(pots, HasChildren), DescendToChild)
<1>1. \A q \in moved : \E pot \in pots :
        /\ HasChildren(pot.levels) /\ q.levels = DescendToChild(pot.levels)
        /\ q.root = pot.root /\ q.binds = pot.binds
  <2>1. AllInStep(pots, Len(t))
    BY DEF Follows
  <2> QED
    BY <2>1, MovedDown
<1> HIDE DEF moved
<1>2. ASSUME NEW pot \in pots, HasChildren(pot.levels)
      PROVE  Along(input, first, last, DescendToChild(t), FALSE,
                   DescendToChild(pot.levels), pot.root, pot.binds)
  <2>1. /\ Good(pot.levels) /\ pot.levels # << >> /\ Len(pot.levels) = Len(t)
        /\ pot.levels[1].sibs = pot.root
    BY LevelsOf
  <2>2. AlongAt(input, first, last, t, pot.levels, pot.binds)
    BY DEF AllAlongAt
  <2> QED
    BY <1>2, <2>1, <2>2, AlongDown DEF Follows
<1>3. AllAlong(input, first, last, moved, DescendToChild(t), FALSE)
  BY <1>1, <1>2 DEF AllAlong
<1> QED
  BY <1>3 DEF moved

LEMMA AllAlongDone ==
  ASSUME NEW first, NEW last, NEW t, NEW pots, Follows(first, last, t, pots),
         ~ HasChildren(t), AllAlongAt(input, first, last, pots, t),
         \A pot \in pots : ~ HasChildren(pot.levels)
  PROVE  AllAlong(input, first, last, pots, t, TRUE)
<1> SUFFICES ASSUME NEW pot \in pots
             PROVE  Along(input, first, last, t, TRUE, pot.levels, pot.root, pot.binds)
  BY DEF AllAlong
<1>1. Along(input, first, last, t, TRUE, pot.levels, pot.root, pot.binds)
  <2>1. /\ Good(pot.levels) /\ pot.levels # << >> /\ Len(pot.levels) = Len(t)
    BY LevelsOf
  <2>2. AlongAt(input, first, last, t, pot.levels, pot.binds)
    BY DEF AllAlongAt
  <2> QED
    BY <2>1, <2>2, AlongDone DEF Follows
<1> QED
  BY <1>1

LEMMA RootsMoved ==
  ASSUME NEW pots, NEW n, AllInStep(pots, n), RootsIn(pots)
  PROVE  /\ RootsIn(ForEach(Filter(pots, IsLastChild), BacktrackToParent))
         /\ RootsIn(ForEach(Filter(pots, LAMBDA l : ~ IsLastChild(l)), NextSibling))
         /\ RootsIn(ForEach(Filter(pots, HasChildren), DescendToChild))
<1>1. ASSUME NEW q \in ForEach(Filter(pots, IsLastChild), BacktrackToParent)
      PROVE  q.root \in PotentialRoots
  BY MovedUp DEF RootsIn
<1>2. ASSUME NEW q \in ForEach(Filter(pots, LAMBDA l : ~ IsLastChild(l)), NextSibling)
      PROVE  q.root \in PotentialRoots
  BY MovedOn DEF RootsIn
<1>3. ASSUME NEW q \in ForEach(Filter(pots, HasChildren), DescendToChild)
      PROVE  q.root \in PotentialRoots
  BY MovedDown DEF RootsIn
<1> QED
  BY <1>1, <1>2, <1>3, Zenon DEF RootsIn

(* Potential matches that are on their way to pots.                        *)
Accompany(pots, t, b) ==
  /\ AllInStep(pots, Len(t)) /\ RootsIn(pots)
  /\ ~ RunToTheEnd => \A first, last \in [Node -> Nat] :
                NumberedBy(input, first, last) => AllAlong(input, first, last, pots, t, b)

LEMMA UpFollows ==
  ASSUME input \in Input, Good(trav), trav # << >>, Inside(input, trav),
         IsLastChild(trav), NEW pots, Accompany(pots, trav, TRUE), GoUp(pots)
  PROVE  FollowsOn
<1> DEFINE moved == ForEach(Filter(pots, IsLastChild), BacktrackToParent)
           u == BacktrackToParent(trav)
<1>1. potentials' = moved /\ trav' = u
  BY DEF GoUp
<1>2. backtracked' = TRUE
  BY Zenon DEF GoUp
<1>3. RootsIn(moved) /\ Inside(input, u)
  BY RootsMoved, InsideUp DEF Accompany
<1>4. ASSUME ~ RunToTheEnd, NEW first \in [Node -> Nat], NEW last \in [Node -> Nat],
             NumberedBy(input, first, last)
      PROVE  AllAlong(input, first, last, moved, u, TRUE)
  <2>1. AllAlong(input, first, last, pots, trav, TRUE) /\ AllInStep(pots, Len(trav))
    BY <1>4 DEF Accompany
  <2>2. Follows(first, last, trav, pots)
    BY <1>4, <2>1 DEF Follows
  <2> QED
    BY <2>1, <2>2, AllAlongUp
<1> HIDE DEF moved, u
<1> QED
  BY <1>1, <1>2, <1>3, <1>4, Zenon DEF FollowsOn, AlongNext

LEMMA OnFollows ==
  ASSUME input \in Input, Good(trav), trav # << >>, Inside(input, trav),
         ~ IsLastChild(trav), NEW pots, Accompany(pots, trav, TRUE), GoOn(pots)
  PROVE  FollowsOn
<1> DEFINE moved == ForEach(Filter(pots, LAMBDA l : ~ IsLastChild(l)), NextSibling)
           u == NextSibling(trav)
<1>1. potentials' = moved /\ trav' = u
  BY DEF GoOn
<1>2. backtracked' = FALSE
  BY Zenon DEF GoOn
<1>3. RootsIn(moved) /\ Inside(input, u)
  <2>1. Top(trav).at + 1 \in 1 .. Len(Top(trav).sibs)
    <3>1. /\ Len(trav) \in 1 .. Len(trav) /\ Top(trav) = trav[Len(trav)]
      BY GoodTop
    <3>2. Top(trav).sibs \in Seq(Node) /\ Top(trav).at \in 1 .. Len(Top(trav).sibs)
      BY <3>1, GoodTop
    <3>3. Len(Top(trav).sibs) \in Nat /\ Top(trav).at # Len(Top(trav).sibs)
      BY <3>2, SeqFacts DEF IsLastChild
    <3> QED
      BY <3>2, <3>3, NextIndex
  <2> QED
    BY <2>1, RootsMoved, InsideMove DEF Accompany, NextSibling
<1>4. ASSUME ~ RunToTheEnd, NEW first \in [Node -> Nat], NEW last \in [Node -> Nat],
             NumberedBy(input, first, last)
      PROVE  AllAlong(input, first, last, moved, u, FALSE)
  <2>1. AllAlong(input, first, last, pots, trav, TRUE) /\ AllInStep(pots, Len(trav))
    BY <1>4 DEF Accompany
  <2>2. Follows(first, last, trav, pots)
    BY <1>4, <2>1 DEF Follows
  <2> QED
    BY <2>1, <2>2, AllAlongOn
<1> HIDE DEF moved, u
<1> QED
  BY <1>1, <1>2, <1>3, <1>4, Zenon DEF FollowsOn, AlongNext

(* Behind compare().                                                       *)
AccompanyAt(pots, t) ==
  /\ AllInStep(pots, Len(t)) /\ RootsIn(pots)
  /\ ~ RunToTheEnd => \A first, last \in [Node -> Nat] :
                NumberedBy(input, first, last) => AllAlongAt(input, first, last, pots, t)

LEMMA DownFollows ==
  ASSUME input \in Input, Good(trav), trav # << >>, Inside(input, trav),
         HasChildren(trav), \A m \in input.metas[curr] : m.nameOnly,
         NEW pots, AccompanyAt(pots, trav), GoDown(pots)
  PROVE  FollowsOn
<1> DEFINE moved == ForEach(Filter(pots, HasChildren), DescendToChild)
           u == DescendToChild(trav)
<1>1. potentials' = moved /\ trav' = u
  BY DEF GoDown
<1>2. backtracked' = FALSE
  BY Zenon DEF GoDown
<1>3. RootsIn(moved) /\ Inside(input, u)
  BY RootsMoved, InsideDown DEF AccompanyAt, curr
<1>4. ASSUME ~ RunToTheEnd, NEW first \in [Node -> Nat], NEW last \in [Node -> Nat],
             NumberedBy(input, first, last)
      PROVE  AllAlong(input, first, last, moved, u, FALSE)
  <2>1. AllAlongAt(input, first, last, pots, trav) /\ AllInStep(pots, Len(trav))
    BY <1>4 DEF AccompanyAt
  <2>2. Follows(first, last, trav, pots)
    BY <1>4, <2>1 DEF Follows
  <2> QED
    BY <2>1, <2>2, AllAlongDown DEF curr
<1> HIDE DEF moved, u
<1> QED
  BY <1>1, <1>2, <1>3, <1>4, Zenon DEF FollowsOn, AlongNext

LEMMA FromFollows ==
  ASSUME input \in Input, Good(trav), trav # << >>, Inside(input, trav),
         \A m \in input.metas[curr] : m.nameOnly,
         NEW pots, AccompanyAt(pots, trav), GoOnFrom(pots)
  PROVE  FollowsOn
<1> DEFINE childless == Filter(pots, LAMBDA l : ~ HasChildren(l))
<1>1. CASE HasChildren(trav)
  <2>1. GoDown(pots)
    BY <1>1 DEF GoOnFrom
  <2> QED
    BY <1>1, <2>1, DownFollows
<1>2. CASE ~ HasChildren(trav)
  <2>1. \A pot \in childless : pot \in pots /\ ~ HasChildren(pot.levels)
    BY DEF Filter
  <2>2. \/ IsLastChild(trav) /\ GoUp(childless)
        \/ ~ IsLastChild(trav) /\ GoOn(childless)
    BY <1>2 DEF GoOnFrom
  <2> HIDE DEF childless
  <2>3. AllInStep(childless, Len(trav)) /\ RootsIn(childless)
    BY <2>1 DEF AccompanyAt, AllInStep, RootsIn
  <2>4. ASSUME ~ RunToTheEnd, NEW first \in [Node -> Nat], NEW last \in [Node -> Nat],
               NumberedBy(input, first, last)
        PROVE  AllAlong(input, first, last, childless, trav, TRUE)
    <3>1. AllAlongAt(input, first, last, pots, trav)
      BY <2>4 DEF AccompanyAt
    <3>2. AllAlongAt(input, first, last, childless, trav)
      BY <2>1, <3>1 DEF AllAlongAt
    <3>3. Follows(first, last, trav, childless)
      BY <2>3, <2>4 DEF Follows
    <3> QED
      BY <1>2, <2>1, <3>2, <3>3, AllAlongDone
  <2>5. Accompany(childless, trav, TRUE)
    BY <2>3, <2>4 DEF Accompany
  <2> QED
    BY <2>2, <2>5, UpFollows, OnFollows
<1> QED
  BY <1>1, <1>2

(* What is known in the loop.                                              *)
LEMMA GenuineInMatch ==
  ASSUME IInv, GenuineInv, Matching
  PROVE  /\ input \in Input /\ Good(trav) /\ trav # << >> /\ Inside(input, trav)
         /\ phase = "match" /\ AllInStep(potentials, Len(trav))
         /\ backtracked => Accompany(potentials, trav, TRUE)
         /\ ~ backtracked => Accompany(potentials, trav, FALSE)
<1>1. /\ input \in Input /\ Good(trav) /\ trav # << >> /\ phase = "match"
      /\ AllInStep(potentials, Len(trav))
  BY InMatch
<1>2. Inside(input, trav) /\ RootsIn(potentials)
  BY <1>1 DEF GenuineInv
<1>3. ASSUME ~ RunToTheEnd, NEW first \in [Node -> Nat], NEW last \in [Node -> Nat],
             NumberedBy(input, first, last)
      PROVE  AllAlong(input, first, last, potentials, trav, backtracked)
  BY <1>1, <1>3, Zenon DEF GenuineInv
<1>4. Accompany(potentials, trav, backtracked)
  BY <1>1, <1>2, <1>3, Zenon DEF Accompany
<1>5. (backtracked => backtracked = TRUE) /\ (~ backtracked => backtracked = FALSE)
  BY Zenon DEF IInv, FlagOK
<1> QED
  BY <1>1, <1>2, <1>4, <1>5, Zenon

LEMMA AfterChildrenGenuine ==
  ASSUME IInv, GenuineInv, AfterChildren
  PROVE  GenuineInv'
<1>1. /\ Matching /\ backtracked /\ input' = input /\ phase' = phase
      /\ \/ IsLastChild(trav) /\ GoUp(potentials)
         \/ ~ IsLastChild(trav) /\ GoOn(potentials)
  BY DEF AfterChildren
<1>2. /\ input \in Input /\ Good(trav) /\ trav # << >> /\ Inside(input, trav)
      /\ phase = "match" /\ Accompany(potentials, trav, TRUE)
  BY <1>1, GenuineInMatch
<1>3. FollowsOn
  BY <1>1, <1>2, UpFollows, OnFollows
<1> QED
  BY <1>1, <1>2, <1>3, GenuineEstablished

LEMMA ComparePlainGenuine ==
  ASSUME IInv, GenuineInv, ComparePlain
  PROVE  GenuineInv'
<1> DEFINE same == {pot \in potentials : Alike(pot, FALSE)}
<1>1. /\ Matching /\ ~ backtracked /\ input.metas[curr] = {}
      /\ GoOnFrom(same) /\ input' = input /\ phase' = phase
  BY DEF ComparePlain, Comparing
<1>2. /\ input \in Input /\ Good(trav) /\ trav # << >> /\ Inside(input, trav)
      /\ phase = "match" /\ AllInStep(potentials, Len(trav))
      /\ Accompany(potentials, trav, FALSE)
  BY <1>1, GenuineInMatch
<1>3. \A pot \in same : pot \in potentials /\ Alike(pot, FALSE)
  OBVIOUS
<1> HIDE DEF same
<1>4. AllInStep(same, Len(trav)) /\ RootsIn(same)
  BY <1>2, <1>3 DEF Accompany, AllInStep, RootsIn
<1>5. ASSUME ~ RunToTheEnd, NEW first \in [Node -> Nat], NEW last \in [Node -> Nat],
             NumberedBy(input, first, last), NEW pot \in same
      PROVE  AlongAt(input, first, last, trav, pot.levels, pot.binds)
  <2>1. Along(input, first, last, trav, FALSE, pot.levels, pot.root, pot.binds)
    BY <1>2, <1>3, <1>5 DEF Accompany, AllAlong
  <2>2. Follows(first, last, trav, same)
    BY <1>2, <1>4, <1>5 DEF Follows
  <2>3. Good(pot.levels) /\ pot.levels # << >> /\ Len(pot.levels) = Len(trav)
    BY <2>2, LevelsOf
  <2>4. (input.metas[curr] # {}) = FALSE
    BY <1>1
  <2>5. Compare(input.content[curr], input.content[GetCurrent(pot.levels)], FALSE)
    BY <1>3 DEF Alike
  <2>6. Compare(input.content[curr], input.content[GetCurrent(pot.levels)],
                input.metas[curr] # {})
    BY <2>4, <2>5, Zenon
  <2> QED
    BY <1>1, <1>2, <1>5, <2>1, <2>3, <2>6, AlongCompared DEF curr
<1>6. AccompanyAt(same, trav)
  BY <1>4, <1>5 DEF AccompanyAt, AllAlongAt
<1>7. \A m \in input.metas[curr] : m.nameOnly
  BY <1>1
<1>8. FollowsOn
  BY <1>1, <1>2, <1>6, <1>7, FromFollows
<1> QED
  BY <1>1, <1>2, <1>8, GenuineEstablished

LEMMA CompareNameOnlyGenuine ==
  ASSUME IInv, GenuineInv, CompareNameOnly
  PROVE  GenuineInv'
<1> DEFINE same == {pot \in potentials : Alike(pot, TRUE)}
           bound == {Instantiate(pot, Meta) : pot \in same}
<1>1. /\ Matching /\ ~ backtracked /\ input.metas[curr] # {}
      /\ \A m \in input.metas[curr] : m.nameOnly
      /\ GoOnFrom(bound) /\ input' = input /\ phase' = phase
  BY DEF CompareNameOnly, Comparing
<1>2. /\ input \in Input /\ Good(trav) /\ trav # << >> /\ Inside(input, trav)
      /\ phase = "match" /\ AllInStep(potentials, Len(trav))
      /\ Accompany(potentials, trav, FALSE) /\ curr \in Node /\ Len(trav) \in Nat \ {0}
  BY <1>1, GenuineInMatch, InMatch
<1>3. Meta \in input.metas[curr] /\ Meta \in Metavariable
  BY <1>1, MetaIsOne DEF Meta
<1>4. \A pot \in same : pot \in potentials /\ Alike(pot, TRUE)
  OBVIOUS
<1>5. ASSUME NEW q \in bound
      PROVE  \E pot \in same :
               /\ InStep(q, Len(trav)) /\ q.levels = pot.levels /\ q.root = pot.root
               /\ q.binds = Insert(pot.binds, Meta.identifier, <<GetCurrent(pot.levels)>>)
  <2>1. PICK pot \in same : q = Instantiate(pot, Meta)
    OBVIOUS
  <2>2. InStep(pot, Len(trav))
    BY <1>2, <1>4 DEF AllInStep
  <2>3. InStep(q, Len(trav))
    BY <1>2, <1>3, <2>1, <2>2, InstantiateInStep
  <2>4. pot \in PotentialMatches
    BY <2>2 DEF InStep
  <2>5. /\ q.levels = pot.levels /\ q.root = pot.root
        /\ q.binds = Insert(pot.binds, Meta.identifier, <<GetCurrent(pot.levels)>>)
    BY <2>1, <2>4 DEF Instantiate, PotentialMatches
  <2> QED
    BY <2>3, <2>5
<1> HIDE DEF same, bound
<1>6. AllInStep(bound, Len(trav))
  BY <1>5 DEF AllInStep
<1>7. RootsIn(bound)
  BY <1>2, <1>4, <1>5 DEF Accompany, RootsIn
<1>8. ASSUME ~ RunToTheEnd, NEW first \in [Node -> Nat], NEW last \in [Node -> Nat],
             NumberedBy(input, first, last), NEW q \in bound
      PROVE  AlongAt(input, first, last, trav, q.levels, q.binds)
  <2>1. PICK pot \in same :
          /\ q.levels = pot.levels /\ q.root = pot.root
          /\ q.binds = Insert(pot.binds, Meta.identifier, <<GetCurrent(pot.levels)>>)
    BY <1>5
  <2>2. Along(input, first, last, trav, FALSE, pot.levels, pot.root, pot.binds)
    BY <1>2, <1>4, <1>8 DEF Accompany, AllAlong
  <2>3. Follows(first, last, trav, potentials)
    BY <1>2, <1>8 DEF Follows
  <2>4. Good(pot.levels) /\ pot.levels # << >> /\ Len(pot.levels) = Len(trav)
    <3>1. pot \in potentials
      BY <1>4
    <3> QED
      BY <2>3, <3>1, LevelsOf
  <2>5. (input.metas[curr] # {}) = TRUE
    BY <1>1
  <2>6. Compare(input.content[curr], input.content[GetCurrent(pot.levels)], TRUE)
    BY <1>4 DEF Alike
  <2>7. Compare(input.content[curr], input.content[GetCurrent(pot.levels)],
                input.metas[curr] # {})
    BY <2>5, <2>6, Zenon
  <2>8. input.metas[curr] = {Meta}
    BY <1>1, <1>3, MapsToOne, InMatch
  <2>9. AlongAt(input, first, last, trav, pot.levels, q.binds)
    BY <1>1, <1>2, <1>8, <2>1, <2>2, <2>4, <2>7, <2>8, AlongCompared DEF curr
  <2> QED
    BY <2>1, <2>9
<1>9. AccompanyAt(bound, trav)
  BY <1>6, <1>7, <1>8 DEF AccompanyAt, AllAlongAt
<1>10. FollowsOn
  BY <1>1, <1>2, <1>9, FromFollows
<1> QED
  BY <1>1, <1>2, <1>10, GenuineEstablished

(* Every copy made for a metavariable takes a run of siblings for it.      *)
LEMMA ExtendedParts ==
  ASSUME AllInStep(potentials, Len(trav)), NEW q \in Extended
  PROVE  \E pot \in potentials : \E c \in Top(pot.levels).at .. Len(Top(pot.levels).sibs) :
           /\ q.root = pot.root /\ q.levels = MoveTo(pot.levels, c)
           /\ q.binds = Insert(pot.binds, Meta.identifier,
                               SubSeq(Top(pot.levels).sibs, Top(pot.levels).at, c))
<1>1. PICK pot \in potentials : q \in ExtendForMetavariable(pot, Meta)
  BY DEF Extended
<1>2. PICK c \in Top(pot.levels).at .. Len(Top(pot.levels).sibs) :
        q = [pot EXCEPT !.levels = MoveTo(@, c),
                        !.binds = Insert(@, Meta.identifier,
                                    SubSeq(Top(pot.levels).sibs, Top(pot.levels).at, c))]
  BY <1>1 DEF ExtendForMetavariable
<1>3. pot \in PotentialMatches
  BY DEF AllInStep, InStep
<1>4. /\ q.root = pot.root /\ q.levels = MoveTo(pot.levels, c)
      /\ q.binds = Insert(pot.binds, Meta.identifier,
                          SubSeq(Top(pot.levels).sibs, Top(pot.levels).at, c))
  BY <1>2, <1>3 DEF PotentialMatches
<1> QED
  BY <1>4

LEMMA RootsExtended ==
  ASSUME IInv, GenuineInv, AtMetavariable
  PROVE  RootsIn(Extended)
<1>1. AllInStep(potentials, Len(trav)) /\ RootsIn(potentials)
  BY GenuineInMatch DEF AtMetavariable, Accompany
<1> QED
  BY <1>1, ExtendedParts DEF RootsIn

LEMMA ExtendedGenuine ==
  ASSUME IInv, GenuineInv, AtMetavariable,
         NEW e \in Top(trav).at .. Len(Top(trav).sibs),
         \A k \in Top(trav).at .. e : SameMetavariable(Top(trav).sibs[k]),
         e # Len(Top(trav).sibs) => ~ SameMetavariable(Top(trav).sibs[e + 1])
  PROVE  /\ RootsIn(Extended)
         /\ ~ RunToTheEnd => \A first, last \in [Node -> Nat] :
              NumberedBy(input, first, last) =>
                AllAlong(input, first, last, Extended, MoveTo(trav, e), TRUE)
<1>1. /\ Matching /\ ~ backtracked /\ Meta \in input.metas[curr] /\ curr \in Node
      /\ input \in Input /\ Good(trav) /\ trav # << >>
  BY AtMetavariableFacts
<1>2. /\ Inside(input, trav) /\ AllInStep(potentials, Len(trav))
      /\ Accompany(potentials, trav, FALSE)
  BY <1>1, GenuineInMatch
<1>3. ASSUME NEW q \in Extended
      PROVE  \E pot \in potentials : \E c \in Top(pot.levels).at .. Len(Top(pot.levels).sibs) :
               /\ q.root = pot.root /\ q.levels = MoveTo(pot.levels, c)
               /\ q.binds = Insert(pot.binds, Meta.identifier,
                                   SubSeq(Top(pot.levels).sibs, Top(pot.levels).at, c))
  BY <1>2, ExtendedParts
<1>4. RootsIn(Extended)
  BY RootsExtended
<1>5. ASSUME ~ RunToTheEnd, NEW first \in [Node -> Nat], NEW last \in [Node -> Nat],
             NumberedBy(input, first, last), NEW q \in Extended
      PROVE  Along(input, first, last, MoveTo(trav, e), TRUE, q.levels, q.root, q.binds)
  <2>1. PICK pot \in potentials : \E c \in Top(pot.levels).at .. Len(Top(pot.levels).sibs) :
          /\ q.root = pot.root /\ q.levels = MoveTo(pot.levels, c)
          /\ q.binds = Insert(pot.binds, Meta.identifier,
                              SubSeq(Top(pot.levels).sibs, Top(pot.levels).at, c))
    BY <1>3
  <2>2. PICK c \in Top(pot.levels).at .. Len(Top(pot.levels).sibs) :
          /\ q.root = pot.root /\ q.levels = MoveTo(pot.levels, c)
          /\ q.binds = Insert(pot.binds, Meta.identifier,
                              SubSeq(Top(pot.levels).sibs, Top(pot.levels).at, c))
    BY <2>1
  <2>3. Along(input, first, last, trav, FALSE, pot.levels, pot.root, pot.binds)
    BY <1>2, <1>5 DEF Accompany, AllAlong
  <2>4. Follows(first, last, trav, potentials)
    BY <1>1, <1>2, <1>5 DEF Follows
  <2>5. Good(pot.levels) /\ pot.levels # << >> /\ Len(pot.levels) = Len(trav)
    BY <2>4, LevelsOf
  <2>6. \A m, k \in input.metas[curr] : m = k
    BY <1>1, MapsToOne, AtMetavariableFacts
  <2>7. input.metas[curr] = {Meta}
    BY <1>1, <2>6
  <2>8. ~ Meta.nameOnly
    <3>1. PICK m \in input.metas[curr] : ~ m.nameOnly
      BY DEF AtMetavariable
    <3>2. m = Meta
      BY <1>1, <2>6, <3>1
    <3> QED
      BY <3>1, <3>2, Zenon
  <2>11. e # Len(Top(trav).sibs) => Starts(input, Top(trav).sibs, e + 1)
    <3> SUFFICES ASSUME e # Len(Top(trav).sibs)
                 PROVE  Starts(input, Top(trav).sibs, e + 1)
      OBVIOUS
    <3> DEFINE s == Top(trav).sibs
    <3>1. s \in Seq(Node) /\ Len(s) \in Nat /\ Top(trav).at \in 1 .. Len(s)
      BY AtMetavariableFacts
    <3>2. e \in Top(trav).at .. e /\ e \in 1 .. Len(s) /\ (e + 1) - 1 = e
      BY <3>1
    <3>3. s[e] \in Node /\ SameMetavariable(s[e]) /\ ~ SameMetavariable(s[e + 1])
      BY <3>1, <3>2
    <3> HIDE DEF s
    <3>4. PICK y \in input.metas[s[e]] : y.identifier = Meta.identifier
      BY <3>3 DEF SameMetavariable
    <3>5. \A m \in input.metas[s[e]] : m = y
      BY <3>3, <3>4, MapsToOne, AtMetavariableFacts
    <3>6. ~ MapsIn(input, s[e + 1], Meta.identifier)
      BY <3>3 DEF SameMetavariable, MapsIn
    <3>7. \A m \in input.metas[s[e]] : ~ MapsIn(input, s[e + 1], m.identifier)
      BY <3>4, <3>5, <3>6
    <3> QED
      BY <3>2, <3>7 DEF Starts, s
  <2>9. \A k \in Top(trav).at .. e : MapsIn(input, Top(trav).sibs[k], Meta.identifier)
    BY DEF SameMetavariable, MapsIn
  <2> DEFINE run == SubSeq(Top(pot.levels).sibs, Top(pot.levels).at, c)
  <2>10. Along(input, first, last, MoveTo(trav, e), TRUE, MoveTo(pot.levels, c), pot.root,
               Insert(pot.binds, Meta.identifier, run))
    BY <1>1, <1>2, <1>5, <2>3, <2>5, <2>7, <2>8, <2>9, <2>11, AlongExtended DEF curr
  <2> HIDE DEF run
  <2> QED
    BY <2>2, <2>10 DEF run
<1> QED
  BY <1>4, <1>5 DEF AllAlong

LEMMA MetavariableLastGenuine ==
  ASSUME IInv, GenuineInv, MetavariableLast
  PROVE  GenuineInv'
<1> DEFINE e == Top(trav).at
<1>1. AtMetavariable /\ IsLastChild(trav) /\ GoUp(Extended)
      /\ input' = input /\ phase' = phase
  BY DEF MetavariableLast
<1>2. /\ Good(trav) /\ trav # << >> /\ phase = "match" /\ Matching /\ input \in Input
      /\ e \in e .. Len(Top(trav).sibs) /\ e .. e = {e}
      /\ SameMetavariable(Top(trav).sibs[e]) /\ e = Len(Top(trav).sibs)
  BY <1>1, AtMetavariableFacts DEF SameMetavariable, IsLastChild
<1>3. \A k \in e .. e : SameMetavariable(Top(trav).sibs[k])
  BY <1>2
<1>4. /\ RootsIn(Extended)
      /\ ~ RunToTheEnd => \A first, last \in [Node -> Nat] :
           NumberedBy(input, first, last) =>
             AllAlong(input, first, last, Extended, MoveTo(trav, e), TRUE)
  BY <1>1, <1>2, <1>3, ExtendedGenuine
<1>5. MoveTo(trav, e) = trav
  BY <1>2, MoveStays
<1>6. AllInStep(Extended, Len(trav)) /\ Inside(input, trav)
  BY <1>1, <1>2, ExtendedInStep, GenuineInMatch
<1>7. Accompany(Extended, trav, TRUE)
  BY <1>4, <1>5, <1>6 DEF Accompany
<1>8. FollowsOn
  BY <1>1, <1>2, <1>6, <1>7, UpFollows
<1> QED
  BY <1>1, <1>2, <1>8, GenuineEstablished

LEMMA MetavariableThenOtherGenuine ==
  ASSUME IInv, GenuineInv, MetavariableThenOther
  PROVE  GenuineInv'
<1> DEFINE s == Top(trav).sibs
           at == Top(trav).at
<1>1. /\ AtMetavariable /\ ~ IsLastChild(trav) /\ potentials' = Proceeded
      /\ input' = input /\ phase' = phase
  BY DEF MetavariableThenOther
<1>2. backtracked' = FALSE
  BY Zenon DEF MetavariableThenOther
<1>3. PICK i \in NextOther : trav' = MoveTo(trav, i)
  BY DEF MetavariableThenOther
<1>4. /\ Good(trav) /\ trav # << >> /\ phase = "match" /\ Matching /\ input \in Input
      /\ s \in Seq(Node) /\ Len(s) \in Nat /\ at \in Nat \ {0} /\ at \in 1 .. Len(s)
      /\ SameMetavariable(s[at])
  BY <1>1, AtMetavariableFacts DEF SameMetavariable
<1> DEFINE others == {j \in at + 1 .. Len(s) : ~ SameMetavariable(s[j])}
<1>5. i \in others /\ \A j \in others : i <= j
  BY <1>3 DEF NextOther
<1>6. i \in at + 1 .. Len(s) /\ ~ SameMetavariable(s[i])
  BY <1>5
<1> DEFINE e == i - 1
<1>7. e \in at .. Len(s) /\ e \in 1 .. Len(s) /\ e + 1 = i /\ i \in 1 .. Len(s)
      /\ e < Len(s)
  BY <1>4, <1>6
<1>8. ASSUME NEW k \in at .. e
      PROVE  SameMetavariable(s[k])
  <2>1. CASE k = at
    BY <1>4, <2>1
  <2>2. CASE k # at
    <3>1. k \in at + 1 .. Len(s) /\ ~ (i <= k)
      BY <1>4, <1>6, <1>7, <2>2
    <3> QED
      BY <1>5, <3>1
  <2> QED
    BY <2>1, <2>2
<1> HIDE DEF e, others
<1> DEFINE t == MoveTo(trav, e)
<1>9. /\ RootsIn(Extended)
      /\ ~ RunToTheEnd => \A first, last \in [Node -> Nat] :
           NumberedBy(input, first, last) => AllAlong(input, first, last, Extended, t, TRUE)
  BY <1>1, <1>6, <1>7, <1>8, ExtendedGenuine
<1>10. Inside(input, trav) /\ AllInStep(Extended, Len(trav))
  BY <1>1, <1>4, GenuineInMatch, ExtendedInStep
<1>11. Good(t) /\ t # << >> /\ Inside(input, t) /\ Len(t) = Len(trav)
  BY <1>4, <1>7, <1>10, MoveGood, InsideMove
<1>12. Top(t).at = e /\ Top(t).sibs = s
  <2>1. Len(trav) \in Nat /\ Top(trav) = trav[Len(trav)]
    BY <1>4, GoodTop
  <2> QED
    BY <2>1, <1>4, <1>7, MoveShape DEF Top
<1>13. ~ IsLastChild(t)
  BY <1>4, <1>7, <1>12 DEF IsLastChild
<1>14. NextSibling(t) = MoveTo(trav, i)
  BY <1>4, <1>7, <1>12, MoveTwice DEF NextSibling
<1>15. Inside(input, trav')
  BY <1>3, <1>4, <1>7, <1>10, InsideMove
<1> HIDE DEF t
<1>16. RootsIn(Proceeded)
  BY <1>9, <1>10, RootsMoved DEF Proceeded
<1>17. ASSUME ~ RunToTheEnd, NEW first \in [Node -> Nat], NEW last \in [Node -> Nat],
              NumberedBy(input, first, last)
       PROVE  AllAlong(input, first, last, Proceeded, NextSibling(t), FALSE)
  <2>1. AllAlong(input, first, last, Extended, t, TRUE)
    BY <1>9, <1>17
  <2>2. Follows(first, last, t, Extended)
    BY <1>4, <1>10, <1>11, <1>17 DEF Follows
  <2> QED
    BY <1>13, <2>1, <2>2, AllAlongOn DEF Proceeded
<1>18. trav' = NextSibling(t)
  BY <1>3, <1>14
<1>19. FollowsOn
  BY <1>1, <1>2, <1>15, <1>16, <1>17, <1>18, Zenon DEF FollowsOn, AlongNext
<1> QED
  BY <1>1, <1>4, <1>19, GenuineEstablished

LEMMA MetavariableToTheEndGenuine ==
  ASSUME IInv, GenuineInv, MetavariableToTheEnd
  PROVE  GenuineInv'
<1>1. /\ AtMetavariable /\ GoUp(Proceeded) /\ input' = input /\ phase' = phase
  BY DEF MetavariableToTheEnd
<1>2. /\ input \in Input /\ Good(trav) /\ trav # << >> /\ phase = "match" /\ Matching
  BY <1>1, AtMetavariableFacts
<1>3. Inside(input, trav)
  BY <1>2, GenuineInMatch
<1>4. RootsIn(Extended)
  BY <1>1, RootsExtended
<1>5. AllInStep(Extended, Len(trav)) /\ AllInStep(Proceeded, Len(trav))
  BY <1>1, ExtendedInStep, ProceededInStep
<1>6. RootsIn(Proceeded)
  BY <1>4, <1>5, RootsMoved DEF Proceeded
<1>7. RootsIn(potentials') /\ Inside(input, trav')
  BY <1>1, <1>2, <1>3, <1>5, <1>6, RootsMoved, InsideUp DEF GoUp
<1>8. RunToTheEnd
  BY <1>2, <1>3, OnlyRunToTheEnd DEF Inside
<1>9. FollowsOn
  BY <1>7, <1>8 DEF FollowsOn
<1> QED
  BY <1>1, <1>2, <1>9, GenuineEstablished

LEMMA GatherGenuine ==
  ASSUME IInv, OwnInv, GenuineInv, GatherPotentialMatches
  PROVE  GenuineInv'
<1> DEFINE t == <<LevelOf(input.subtrees)>>
<1>1. /\ input \in Input /\ trav' = t /\ input' = input /\ phase' = "match"
      /\ potentials' = {PotentialMatch(r) : r \in PotentialRoots}
  BY DEF GatherPotentialMatches, IInv
<1>2. backtracked' = FALSE
  <2>1. backtracked = FALSE
    BY Zenon DEF OwnInv, GatherPotentialMatches
  <2> QED
    BY <2>1, Zenon DEF GatherPotentialMatches
<1>3. /\ input.subtrees \in Seq(Node) /\ input.subtrees # << >>
      /\ \A i \in DOMAIN input.subtrees : input.subtrees[i] \in Reached(input)
  BY <1>1, ReachedClosed DEF Input
<1>4. Len(t) = 1 /\ t[1].sibs = input.subtrees /\ t[1].at = 1 /\ t # << >>
  BY DEF LevelOf
<1> HIDE DEF t
<1>5. ASSUME NEW q \in potentials'
      PROVE  /\ q.root \in PotentialRoots /\ DOMAIN q.binds = {}
             /\ q.levels[1].at = 1
  <2>1. PICK r \in PotentialRoots : q = PotentialMatch(r)
    BY <1>1
  <2> QED
    BY <2>1 DEF PotentialMatch, LevelOf
<1>6. RootsIn(potentials')
  BY <1>5 DEF RootsIn
<1>7. \A d \in 1 .. Len(t) : d = 1
  BY <1>4
<1>8. Inside(input, t)
  BY <1>3, <1>4, <1>7 DEF Inside
<1>9. ASSUME NEW first \in [Node -> Nat], NEW last \in [Node -> Nat], NEW q \in potentials'
      PROVE  Along(input, first, last, t, FALSE, q.levels, q.root, q.binds)
  <2> DEFINE F == [n \in {} |-> << >>]
  <2>1. F \in [{} -> Seq(Node)] /\ DOMAIN F = {} /\ {} \in SUBSET Node
    OBVIOUS
  <2> HIDE DEF F
  <2>2. 1 .. Len(t) - 1 = {} /\ 1 - 1 = 0
    BY <1>4
  <2>3. SoFar(input, F, t, q.levels, Len(t) - 1)
    BY <2>1, <2>2 DEF SoFar
  <2>4. Fit(input, F, t[1].sibs, 0, q.levels[1].sibs, 0)
    BY FitNone
  <2>5. Reaching(input, F, t, FALSE, q.levels, q.root)
    BY <1>4, <1>5, <2>2, <2>4 DEF Reaching, Starts
  <2>6. Behindhand(first, last, F, t, FALSE)
    BY <2>1 DEF Behindhand
  <2>7. BindsWhat(input, first, F, q.binds)
    BY <1>5, <2>1 DEF BindsWhat
  <2> QED
    BY <2>1, <2>3, <2>5, <2>6, <2>7 DEF Along
<1>10. FollowsOn
  <2>1. \A first, last \in [Node -> Nat] :
          AllAlong(input, first, last, potentials', t, FALSE)
    BY <1>9 DEF AllAlong
  <2> QED
    BY <1>1, <1>2, <1>6, <1>8, <2>1, Zenon DEF FollowsOn, AlongNext
<1> QED
  BY <1>1, <1>10, GenuineEstablished

LEMMA EndGenuine ==
  ASSUME GenuineInv, CompareCrashes \/ Processed \/ Finished \/ UNCHANGED vars
  PROVE  GenuineInv'
<1>1. /\ input' = input /\ trav' = trav /\ backtracked' = backtracked
      /\ potentials' = potentials
      /\ (phase' = phase \/ (phase = "match" /\ phase' = "crashed")
          \/ (phase = "match" /\ phase' = "matched"))
  BY DEF CompareCrashes, Comparing, Matching, Processed, Finished, vars
<1>2. phase' # "gather" => phase # "gather"
  BY <1>1
<1>3. RunToTheEnd' <=> RunToTheEnd
  BY <1>1 DEF RunToTheEnd, MapsTo, Kids, KindOf
<1>4. RootsIn(potentials)'
  BY <1>1 DEF GenuineInv, RootsIn, PotentialRoots, Kids, KindOf
<1>5. phase' # "gather" => Inside(input', trav')
  BY <1>1, <1>2 DEF GenuineInv
<1>6. ASSUME phase' # "gather", ~ RunToTheEnd', NEW first \in [Node -> Nat], NEW last \in [Node -> Nat],
             NumberedBy(input', first, last)
      PROVE  AllAlong(input', first, last, potentials', trav', backtracked')
  <2>1. NumberedBy(input, first, last) /\ ~ RunToTheEnd /\ phase # "gather"
    BY <1>1, <1>2, <1>3, <1>6
  <2>2. AllAlong(input, first, last, potentials, trav, backtracked)
    BY <2>1, Zenon DEF GenuineInv
  <2> QED
    BY <1>1, <2>2, Zenon
<1> QED
  BY <1>4, <1>5, <1>6, Zenon DEF GenuineInv

LEMMA NextGenuine ==
  ASSUME IInv, OwnInv, GenuineInv, [Next]_vars
  PROVE  GenuineInv'
  BY GatherGenuine, AfterChildrenGenuine, ComparePlainGenuine, CompareNameOnlyGenuine,
     MetavariableLastGenuine, MetavariableThenOtherGenuine, MetavariableToTheEndGenuine,
     EndGenuine DEF Next

LEMMA InitGenuine ==
  ASSUME Init
  PROVE  GenuineInv
  BY DEF Init, GenuineInv, RootsIn

(* At the end all of the template stands for all of the root.              *)
MatchesGenuine ==
  (phase = "matched" /\ ~ RunToTheEnd) =>
    \A first, last \in [Node -> Nat] : NumberedBy(input, first, last) =>
      \A pot \in potentials :
        pot.root \in PotentialRoots /\ Genuine(input, first, pot.root, pot.binds)

LEMMA AlongToTheEnd ==
  ASSUME OwnInv, GenuineInv
  PROVE  MatchesGenuine
<1> SUFFICES ASSUME phase = "matched", ~ RunToTheEnd,
                    NEW first \in [Node -> Nat], NEW last \in [Node -> Nat],
                    NumberedBy(input, first, last), NEW pot \in potentials
             PROVE  pot.root \in PotentialRoots /\ Genuine(input, first, pot.root, pot.binds)
  BY DEF MatchesGenuine
<1>1. trav = << >>
  BY Zenon DEF OwnInv
<1>4. AllAlong(input, first, last, potentials, << >>, backtracked)
  <2>1. phase # "gather"
    OBVIOUS
  <2>2. AllAlong(input, first, last, potentials, trav, backtracked)
    BY <2>1, Zenon DEF GenuineInv
  <2> QED
    BY <1>1, <2>2, Zenon
<1>5. Along(input, first, last, << >>, backtracked, pot.levels, pot.root, pot.binds)
  BY <1>4, Zenon DEF AllAlong
<1>6. PICK T \in SUBSET Node : \E F \in [T -> Seq(Node)] :
        /\ SoFar(input, F, << >>, pot.levels, Len(<< >>) - 1)
        /\ Reaching(input, F, << >>, backtracked, pot.levels, pot.root)
        /\ BindsWhat(input, first, F, pot.binds)
  BY <1>5, Zenon DEF Along
<1>7. PICK F \in [T -> Seq(Node)] :
        /\ SoFar(input, F, << >>, pot.levels, Len(<< >>) - 1)
        /\ Reaching(input, F, << >>, backtracked, pot.levels, pot.root)
        /\ BindsWhat(input, first, F, pot.binds)
  BY <1>6
<1>8. 1 .. Len(<< >>) - 1 = {}
  OBVIOUS
<1>9. \A n \in T : Explained(input, F, n)
  BY <1>7, <1>8 DEF SoFar
<1>10. Fit(input, F, input.subtrees, Len(input.subtrees), pot.root, Len(pot.root))
  BY <1>7, Zenon DEF Reaching
<1>11. pot.root \in PotentialRoots
  BY DEF GenuineInv, RootsIn
<1> QED
  BY <1>7, <1>9, <1>10, <1>11 DEF Genuine

(* Whatever the loop drops, copies and moves on the way: each match that   *)
(* is left is the template again but for what its metavariables stand for, *)
(* and binds each metavariable to what its first node stands for.          *)
THEOREM MatchesAreGenuine == Spec => []MatchesGenuine
<1>1. Init => IInv /\ OwnInv /\ GenuineInv
  BY InitIInv, InitOwn, InitGenuine
<1>2. (IInv /\ OwnInv /\ GenuineInv) /\ [Next]_vars => (IInv /\ OwnInv /\ GenuineInv)'
  BY NextIInv, NextOwn, NextGenuine
<1>3. IInv /\ OwnInv /\ GenuineInv => MatchesGenuine
  BY AlongToTheEnd
<1> QED
  BY <1>1, <1>2, <1>3, PTL DEF Spec

-----------------------------------------------------------------------------
(* The matches of MatchReference.                                          *)
(*                                                                         *)
(* Its recursion has a solution, for any template: more matches of what is *)
(* left make more matches, and so there is a least solution.               *)

Pairs == Seq(Node) \X Seq(Node)

(* Sets of bindings for each pair of lists; M has no more than L.          *)
Tables == [Pairs -> SUBSET Bindings]

Within(M, L) == \A p \in Pairs : M[p] \subseteq L[p]

LEMMA BehindThoseType ==
  ASSUME NEW in, NEW ts \in Seq(Node), NEW id
  PROVE  BehindThose(in, ts, id) \in Seq(Node)
<1> DEFINE others == {i \in DOMAIN ts : \A m \in in.metas[ts[i]] : m.identifier # id}
           i == CHOOSE i \in others : \A j \in others : i <= j
<1>1. CASE others = {}
  BY <1>1 DEF BehindThose
<1>2. CASE others # {}
  <2>1. others \in SUBSET Nat /\ others \subseteq 1 .. Len(ts)
    OBVIOUS
  <2>2. i \in others
    <3> HIDE DEF others
    <3> QED
      BY <1>2, <2>1, LeastOf
  <2>3. BehindThose(in, ts, id) = SubSeq(ts, i, Len(ts))
    BY <1>2 DEF BehindThose
  <2> HIDE DEF others, i
  <2> QED
    BY <2>1, <2>2, <2>3
<1> QED
  BY <1>1, <1>2

LEMMA MergeType ==
  ASSUME NEW b \in Bindings, NEW c \in Bindings
  PROVE  Merge(b, c) \in Bindings
<1>1. PICK B \in SUBSET Identifier : b \in [B -> Seq(Node)]
  BY DEF Bindings
<1>2. PICK C \in SUBSET Identifier : c \in [C -> Seq(Node)]
  BY DEF Bindings
<1>3. Merge(b, c) \in [B \cup C -> Seq(Node)]
  BY <1>1, <1>2 DEF Merge
<1> QED
  BY <1>3 DEF Bindings

LEMMA BindType ==
  ASSUME NEW id \in Identifier, NEW nodes \in Seq(Node)
  PROVE  Bind(id, nodes) \in Bindings
<1>1. Bind(id, nodes) \in [{id} -> Seq(Node)] /\ {id} \in SUBSET Identifier
  BY DEF Bind
<1> QED
  BY <1>1 DEF Bindings

LEMMA NothingBound == << >> \in Bindings
<1>1. << >> \in [{} -> Seq(Node)] /\ {} \in SUBSET Identifier
  OBVIOUS
<1> QED
  BY <1>1 DEF Bindings

(* What it is to be among the matches.                                     *)
HasWholly(in, M, id, ts, ns, b) ==
  \E i \in DOMAIN ns :
    \E after \in M[<<BehindThose(in, ts, id), SubSeq(ns, i + 1, Len(ns))>>] :
      b = Merge(Bind(id, SubSeq(ns, 1, i)), after)

LEMMA InWholly ==
  ASSUME NEW in, NEW M, NEW id, NEW ts, NEW ns, NEW b
  PROVE  b \in Wholly(in, M, id, ts, ns) <=> HasWholly(in, M, id, ts, ns, b)
<1> DEFINE A(i) == M[<<BehindThose(in, ts, id), SubSeq(ns, i + 1, Len(ns))>>]
           S(i) == {Merge(Bind(id, SubSeq(ns, 1, i)), after) : after \in A(i)}
<1>1. \A i : b \in S(i) <=> \E after \in A(i) : b = Merge(Bind(id, SubSeq(ns, 1, i)), after)
  <2> HIDE DEF A
  <2> QED
    OBVIOUS
<1>2. Wholly(in, M, id, ts, ns) = UNION {S(i) : i \in DOMAIN ns}
  BY Zenon DEF Wholly
<1>3. b \in UNION {S(i) : i \in DOMAIN ns} <=> \E i \in DOMAIN ns : b \in S(i)
  <2> HIDE DEF S
  <2> QED
    OBVIOUS
<1> QED
  BY <1>1, <1>2, <1>3 DEF HasWholly

HasNodes(in, M, ts, ns, b) ==
  /\ Compare(in.content[Head(ts)], in.content[Head(ns)], in.metas[Head(ts)] # {})
  /\ \E below \in M[<<KidsIn(in, Head(ts)), KidsIn(in, Head(ns))>>] :
       \E after \in M[<<Tail(ts), Tail(ns)>>] :
         b = Merge(Own(in, Head(ts), Head(ns)), Merge(below, after))

LEMMA InNodeByNode ==
  ASSUME NEW in, NEW M, NEW ts, NEW ns, NEW b
  PROVE  b \in NodeByNode(in, M, ts, ns) <=> HasNodes(in, M, ts, ns, b)
<1> DEFINE own == Own(in, Head(ts), Head(ns))
           B == M[<<KidsIn(in, Head(ts)), KidsIn(in, Head(ns))>>]
           A == M[<<Tail(ts), Tail(ns)>>]
           S == {Merge(own, Merge(below, after)) : below \in B, after \in A}
           like == Compare(in.content[Head(ts)], in.content[Head(ns)], in.metas[Head(ts)] # {})
<1>1. NodeByNode(in, M, ts, ns) = IF like THEN S ELSE {}
  BY DEF NodeByNode
<1>2. b \in S <=> \E below \in B : \E after \in A : b = Merge(own, Merge(below, after))
  <2> HIDE DEF own, A, B
  <2> QED
    OBVIOUS
<1>3. HasNodes(in, M, ts, ns, b) <=>
        like /\ \E below \in B : \E after \in A : b = Merge(own, Merge(below, after))
  BY Zenon DEF HasNodes
<1> HIDE DEF S, like, own, A, B
<1>4. CASE like
  <2>1. NodeByNode(in, M, ts, ns) = S
    BY <1>1, <1>4
  <2> QED
    BY <1>2, <1>3, <1>4, <2>1, Zenon
<1>5. CASE ~ like
  <2>1. NodeByNode(in, M, ts, ns) = {}
    BY <1>1, <1>5
  <2> QED
    BY <1>3, <1>5, <2>1, Zenon
<1> QED
  BY <1>4, <1>5

LEMMA OwnType ==
  ASSUME NEW in \in Input, NEW t \in Node, NEW n \in Node
  PROVE  Own(in, t, n) \in Bindings
<1>1. CASE in.metas[t] = {}
  BY <1>1, NothingBound DEF Own
<1>2. CASE in.metas[t] # {}
  <2>1. in.metas[t] \in {{}} \cup {{m} : m \in Metavariable}
    BY DEF Input
  <2>2. MetaOf(in, t) \in in.metas[t]
    BY <1>2 DEF MetaOf
  <2>3. MetaOf(in, t) \in Metavariable
    BY <2>1, <2>2
  <2>4. MetaOf(in, t).identifier \in Identifier
    BY <2>3 DEF Metavariable
  <2>5. <<n>> \in Seq(Node)
    OBVIOUS
  <2> QED
    BY <1>2, <2>4, <2>5, BindType DEF Own
<1> QED
  BY <1>1, <1>2

LEMMA NonemptyFacts ==
  ASSUME NEW s \in Seq(Node), s # << >>
  PROVE  Head(s) \in Node /\ Tail(s) \in Seq(Node) /\ Head(s) = s[1]
         /\ Tail(s) = SubSeq(s, 2, Len(s))
  OBVIOUS

LEMMA KidsOfAnInput ==
  ASSUME NEW in \in Input, NEW n \in Node
  PROVE  KidsIn(in, n) \in Seq(Node)
<1> DEFINE parts == in.parts[n]
<1>1. parts \in Parts
  BY DEF Input
<1>2. /\ parts.children \in Seq(Node) /\ parts.decls \in Seq(Node)
      /\ parts.params \in Seq(Node) /\ parts.body \in Seq(Node)
      /\ parts.init \in Seq(Node)
  BY <1>1 DEF Parts
<1> HIDE DEF parts
<1>3. parts.params \o parts.body \in Seq(Node) /\ << >> \in Seq(Node)
  BY <1>2
<1>4. GetChildren(in.content[n].kind, parts) \in Seq(Node)
  BY <1>2, <1>3 DEF GetChildren
<1> QED
  BY <1>4 DEF KidsIn, parts

LEMMA MatchesByType ==
  ASSUME NEW in \in Input, NEW M \in Tables, NEW ts \in Seq(Node), NEW ns \in Seq(Node)
  PROVE  MatchesBy(in, M, ts, ns) \subseteq Bindings
<1>1. ASSUME NEW s \in Seq(Node), NEW r \in Seq(Node), NEW b \in M[<<s, r>>]
      PROVE  b \in Bindings
  <2>1. <<s, r>> \in Pairs
    BY DEF Pairs
  <2> QED
    BY <1>1, <2>1 DEF Tables
<1>2. CASE ts = << >> \/ ns = << >>
  BY <1>2, NothingBound DEF MatchesBy
<1> SUFFICES ASSUME ts # << >>, ns # << >>
             PROVE  MatchesBy(in, M, ts, ns) \subseteq Bindings
  BY <1>2
<1>3. Head(ts) \in Node /\ Head(ns) \in Node /\ Tail(ts) \in Seq(Node) /\ Tail(ns) \in Seq(Node)
  BY NonemptyFacts
<1>4. ASSUME NEW m \in in.metas[Head(ts)]
      PROVE  Wholly(in, M, MetaOf(in, Head(ts)).identifier, ts, ns) \subseteq Bindings
  <2> DEFINE id == MetaOf(in, Head(ts)).identifier
  <2>1. id \in Identifier
    <3>1. in.metas[Head(ts)] \in {{}} \cup {{k} : k \in Metavariable}
      BY <1>3 DEF Input
    <3>2. MetaOf(in, Head(ts)) \in in.metas[Head(ts)]
      BY <1>4 DEF MetaOf
    <3> QED
      BY <3>1, <3>2 DEF Metavariable
  <2> HIDE DEF id
  <2> SUFFICES ASSUME NEW b \in Wholly(in, M, id, ts, ns)
               PROVE  b \in Bindings
    BY DEF id
  <2>0. HasWholly(in, M, id, ts, ns, b)
    BY InWholly, Zenon
  <2>2. PICK i \in DOMAIN ns :
          \E after \in M[<<BehindThose(in, ts, id), SubSeq(ns, i + 1, Len(ns))>>] :
            b = Merge(Bind(id, SubSeq(ns, 1, i)), after)
    BY <2>0, Zenon DEF HasWholly
  <2>3. PICK after \in M[<<BehindThose(in, ts, id), SubSeq(ns, i + 1, Len(ns))>>] :
          b = Merge(Bind(id, SubSeq(ns, 1, i)), after)
    BY <2>2
  <2>4. SubSeq(ns, 1, i) \in Seq(Node) /\ SubSeq(ns, i + 1, Len(ns)) \in Seq(Node)
    OBVIOUS
  <2>5. after \in Bindings
    BY <1>1, <2>4, BehindThoseType
  <2>6. Bind(id, SubSeq(ns, 1, i)) \in Bindings
    BY <2>1, <2>4, BindType
  <2> QED
    BY <2>3, <2>5, <2>6, MergeType
<1>5. NodeByNode(in, M, ts, ns) \subseteq Bindings
  <2> SUFFICES ASSUME NEW b \in NodeByNode(in, M, ts, ns)
               PROVE  b \in Bindings
    OBVIOUS
  <2> DEFINE own == Own(in, Head(ts), Head(ns))
  <2>0. HasNodes(in, M, ts, ns, b)
    BY InNodeByNode, Zenon
  <2>1. PICK below \in M[<<KidsIn(in, Head(ts)), KidsIn(in, Head(ns))>>] :
          \E after \in M[<<Tail(ts), Tail(ns)>>] : b = Merge(own, Merge(below, after))
    BY <2>0, Zenon DEF HasNodes
  <2>2. PICK after \in M[<<Tail(ts), Tail(ns)>>] : b = Merge(own, Merge(below, after))
    BY <2>1
  <2>3. own \in Bindings /\ below \in Bindings /\ after \in Bindings
    BY <1>1, <1>3, OwnType, KidsOfAnInput
  <2> HIDE DEF own
  <2> QED
    BY <2>2, <2>3, MergeType
<1> QED
  BY <1>4, <1>5 DEF MatchesBy

LEMMA MatchesByMore ==
  ASSUME NEW in \in Input, NEW M, NEW L, Within(M, L), NEW ts \in Seq(Node), NEW ns \in Seq(Node)
  PROVE  MatchesBy(in, M, ts, ns) \subseteq MatchesBy(in, L, ts, ns)
<1>1. ASSUME NEW s \in Seq(Node), NEW r \in Seq(Node), NEW b \in M[<<s, r>>]
      PROVE  b \in L[<<s, r>>]
  <2>1. <<s, r>> \in Pairs
    BY DEF Pairs
  <2> QED
    BY <1>1, <2>1 DEF Within
<1>2. CASE ts = << >> \/ ns = << >>
  BY <1>2 DEF MatchesBy
<1> SUFFICES ASSUME ts # << >>, ns # << >>
             PROVE  MatchesBy(in, M, ts, ns) \subseteq MatchesBy(in, L, ts, ns)
  BY <1>2
<1>3. Head(ts) \in Node /\ Head(ns) \in Node /\ Tail(ts) \in Seq(Node) /\ Tail(ns) \in Seq(Node)
  BY NonemptyFacts
<1>4. ASSUME NEW id
      PROVE  Wholly(in, M, id, ts, ns) \subseteq Wholly(in, L, id, ts, ns)
  <2> SUFFICES ASSUME NEW b \in Wholly(in, M, id, ts, ns)
               PROVE  b \in Wholly(in, L, id, ts, ns)
    OBVIOUS
  <2>0. HasWholly(in, M, id, ts, ns, b)
    BY InWholly, Zenon
  <2>1. PICK i \in DOMAIN ns :
          \E after \in M[<<BehindThose(in, ts, id), SubSeq(ns, i + 1, Len(ns))>>] :
            b = Merge(Bind(id, SubSeq(ns, 1, i)), after)
    BY <2>0, Zenon DEF HasWholly
  <2>2. SubSeq(ns, i + 1, Len(ns)) \in Seq(Node) /\ BehindThose(in, ts, id) \in Seq(Node)
    BY BehindThoseType
  <2>3. \E after \in L[<<BehindThose(in, ts, id), SubSeq(ns, i + 1, Len(ns))>>] :
          b = Merge(Bind(id, SubSeq(ns, 1, i)), after)
    BY <1>1, <2>1, <2>2
  <2>4. HasWholly(in, L, id, ts, ns, b)
    BY <2>3, Zenon DEF HasWholly
  <2> QED
    BY <2>4, InWholly, Zenon
<1>5. NodeByNode(in, M, ts, ns) \subseteq NodeByNode(in, L, ts, ns)
  <2> SUFFICES ASSUME NEW b \in NodeByNode(in, M, ts, ns)
               PROVE  b \in NodeByNode(in, L, ts, ns)
    OBVIOUS
  <2> DEFINE own == Own(in, Head(ts), Head(ns))
  <2>0. HasNodes(in, M, ts, ns, b)
    BY InNodeByNode, Zenon
  <2>1. /\ Compare(in.content[Head(ts)], in.content[Head(ns)], in.metas[Head(ts)] # {})
        /\ \E below \in M[<<KidsIn(in, Head(ts)), KidsIn(in, Head(ns))>>] :
             \E after \in M[<<Tail(ts), Tail(ns)>>] : b = Merge(own, Merge(below, after))
    BY <2>0, Zenon DEF HasNodes
  <2>2. KidsIn(in, Head(ts)) \in Seq(Node) /\ KidsIn(in, Head(ns)) \in Seq(Node)
    BY <1>3, KidsOfAnInput
  <2>3. \E below \in L[<<KidsIn(in, Head(ts)), KidsIn(in, Head(ns))>>] :
          \E after \in L[<<Tail(ts), Tail(ns)>>] : b = Merge(own, Merge(below, after))
    <3> HIDE DEF own
    <3> QED
      BY <1>1, <1>3, <2>1, <2>2
  <2>4. HasNodes(in, L, ts, ns, b)
    BY <2>1, <2>3, Zenon DEF HasNodes
  <2> QED
    BY <2>4, InNodeByNode, Zenon
<1> QED
  BY <1>4, <1>5 DEF MatchesBy

LEMMA TableExists ==
  ASSUME NEW in \in Input
  PROVE  \E M : M = [p \in Pairs |-> MatchesBy(in, M, p[1], p[2])]
<1> DEFINE Turn(M) == [p \in Pairs |-> MatchesBy(in, M, p[1], p[2])]
           Enough == {L \in Tables : Within(Turn(L), L)}
           least == [p \in Pairs |-> {b \in Bindings : \A L \in Enough : b \in L[p]}]
<1>1. \A p \in Pairs : p[1] \in Seq(Node) /\ p[2] \in Seq(Node)
  BY DEF Pairs
<1>2. ASSUME NEW M \in Tables
      PROVE  Turn(M) \in Tables
  <2>1. \A p \in Pairs : MatchesBy(in, M, p[1], p[2]) \in SUBSET Bindings
    BY <1>1, MatchesByType
  <2> QED
    BY <2>1 DEF Tables
<1>3. ASSUME NEW M, NEW L, Within(M, L)
      PROVE  Within(Turn(M), Turn(L))
  <2>1. \A p \in Pairs : MatchesBy(in, M, p[1], p[2]) \subseteq MatchesBy(in, L, p[1], p[2])
    BY <1>1, <1>3, MatchesByMore
  <2> QED
    BY <2>1 DEF Within
<1>4. least \in Tables
  BY DEF Tables
<1> HIDE DEF Turn
<1>5. ASSUME NEW L \in Enough
      PROVE  Within(least, L)
  BY <1>5 DEF Within
<1> HIDE DEF least
<1>6. ASSUME NEW L \in Enough
      PROVE  Within(Turn(least), L)
  <2>1. Within(Turn(least), Turn(L))
    BY <1>3, <1>5, <1>6
  <2>2. Within(Turn(L), L)
    BY <1>6
  <2> QED
    BY <2>1, <2>2 DEF Within
<1>7. Within(Turn(least), least)
  <2>1. Turn(least) \in Tables
    BY <1>2, <1>4
  <2>2. ASSUME NEW p \in Pairs, NEW b \in Turn(least)[p]
        PROVE  b \in least[p]
    <3>1. b \in Bindings
      BY <2>1, <2>2 DEF Tables
    <3>2. \A L \in Enough : b \in L[p]
      BY <1>6, <2>2 DEF Within
    <3> HIDE DEF Enough
    <3> QED
      BY <3>1, <3>2 DEF least
  <2> QED
    BY <2>2 DEF Within
<1>8. Within(least, Turn(least))
  <2>1. Turn(least) \in Enough
    BY <1>2, <1>3, <1>4, <1>7
  <2> QED
    BY <1>5, <2>1
<1>9. least = Turn(least)
  <2>1. Turn(least) \in Tables /\ least \in Tables
    BY <1>2, <1>4
  <2>2. \A p \in Pairs : least[p] = Turn(least)[p]
    BY <1>7, <1>8 DEF Within
  <2> QED
    BY <2>1, <2>2 DEF Tables
<1> QED
  BY <1>9 DEF Turn

(* Matches is such a solution.                                             *)
LEMMA MatchesIsTable ==
  ASSUME NEW in \in Input
  PROVE  Matches(in) = [p \in Pairs |-> MatchesBy(in, Matches(in), p[1], p[2])]
<1> DEFINE Q == CHOOSE M : M = [p \in Pairs |-> MatchesBy(in, M, p[1], p[2])]
<1>1. Q = [p \in Pairs |-> MatchesBy(in, Q, p[1], p[2])]
  BY TableExists
<1>2. Matches(in) = Q
  BY DEF Matches, Pairs
<1> HIDE DEF Q
<1> QED
  BY <1>1, <1>2

LEMMA MatchesAgain ==
  ASSUME NEW in \in Input, NEW ts \in Seq(Node), NEW ns \in Seq(Node)
  PROVE  Matches(in)[<<ts, ns>>] = MatchesBy(in, Matches(in), ts, ns)
<1> DEFINE p == <<ts, ns>>
<1>1. p \in Pairs /\ p[1] = ts /\ p[2] = ns
  BY DEF Pairs
<1> HIDE DEF p
<1>2. Matches(in)[p] = MatchesBy(in, Matches(in), p[1], p[2])
  BY <1>1, MatchesIsTable
<1> QED
  BY <1>1, <1>2 DEF p

(* The first binding of an identifier counts, in whatever order the        *)
(* bindings of parts of the template are put together.                     *)
LEMMA MergeThree ==
  ASSUME NEW a, NEW b, NEW c
  PROVE  Merge(a, Merge(b, c)) = Merge(Merge(a, b), c)
<1>1. DOMAIN Merge(b, c) = DOMAIN b \cup DOMAIN c
      /\ \A id \in DOMAIN Merge(b, c) :
           Merge(b, c)[id] = IF id \in DOMAIN b THEN b[id] ELSE c[id]
  BY DEF Merge
<1>2. DOMAIN Merge(a, b) = DOMAIN a \cup DOMAIN b
      /\ \A id \in DOMAIN Merge(a, b) :
           Merge(a, b)[id] = IF id \in DOMAIN a THEN a[id] ELSE b[id]
  BY DEF Merge
<1> DEFINE bc == Merge(b, c)
           ab == Merge(a, b)
           ids == DOMAIN a \cup DOMAIN b \cup DOMAIN c
           all(id) == IF id \in DOMAIN a THEN a[id]
                      ELSE IF id \in DOMAIN b THEN b[id] ELSE c[id]
<1> HIDE DEF bc, ab
<1>3. Merge(a, bc) = [id \in ids |-> all(id)]
  BY <1>1 DEF Merge, bc
<1>4. Merge(ab, c) = [id \in ids |-> all(id)]
  BY <1>2 DEF Merge, ab
<1> QED
  BY <1>3, <1>4 DEF bc, ab

LEMMA MergeNone ==
  ASSUME NEW b \in Bindings
  PROVE  Merge(b, << >>) = b
<1>1. PICK B \in SUBSET Identifier : b \in [B -> Seq(Node)]
  BY DEF Bindings
<1>2. Merge(b, << >>) = [id \in B |-> b[id]]
  BY <1>1 DEF Merge
<1> QED
  BY <1>1, <1>2

LEMMA NoneMerged ==
  ASSUME NEW b, NEW c
  PROVE  Merge(<< >>, << >>) = << >> /\ Merge(<< >>, Merge(b, c)) = Merge(b, c)
<1>1. Merge(<< >>, << >>) = << >>
  BY MergeNone, NothingBound
<1>2. Merge(<< >>, b) = [id \in DOMAIN b |-> b[id]]
  BY DEF Merge
<1>3. Merge(Merge(<< >>, b), c) = Merge(b, c)
  BY <1>2 DEF Merge
<1> QED
  BY <1>1, <1>3, MergeThree

LEMMA InsertMerges ==
  ASSUME NEW b \in Bindings, NEW id, NEW nodes
  PROVE  Insert(b, id, nodes) = Merge(b, Bind(id, nodes))
<1>1. PICK B \in SUBSET Identifier : b \in [B -> Seq(Node)]
  BY DEF Bindings
<1>2. DOMAIN b = B
  BY <1>1
<1>3. CASE id \in B
  <2>1. Merge(b, Bind(id, nodes)) = [k \in B |-> b[k]]
    BY <1>2, <1>3 DEF Merge, Bind
  <2>2. Insert(b, id, nodes) = b
    BY <1>2, <1>3 DEF Insert
  <2> QED
    BY <1>1, <2>1, <2>2
<1>4. CASE id \notin B
  <2>1. Merge(b, Bind(id, nodes)) = [k \in B \cup {id} |-> IF k = id THEN nodes ELSE b[k]]
    BY <1>2, <1>4 DEF Merge, Bind
  <2>2. Insert(b, id, nodes) = [k \in B \cup {id} |-> IF k = id THEN nodes ELSE b[k]]
    BY <1>2, <1>4 DEF Insert
  <2> QED
    BY <2>1, <2>2
<1> QED
  BY <1>3, <1>4

-----------------------------------------------------------------------------
(* What a potential match can still come to.  The siblings of a level from *)
(* the current one on, and those behind it; the matches of the lists that  *)
(* are left behind the lowest n levels, up from bindings a, end with c.    *)
FromHere(level) == SubSeq(level.sibs, level.at, Len(level.sibs))

Behind(level) == SubSeq(level.sibs, level.at + 1, Len(level.sibs))

Left(in, level, other) == Matches(in)[<<Behind(level), Behind(other)>>]

Beneath(in, t, l, n, a, c) ==
  \E cs : /\ cs[n] = a /\ cs[0] = c
          /\ \A d \in 1 .. n : \E x \in Left(in, t[d], l[d]) : cs[d - 1] = Merge(cs[d], x)

After(in, t, l, binds, c) == Beneath(in, t, l, Len(t), binds, c)

At(in, t, l, binds, c) ==
  \E x \in Matches(in)[<<FromHere(Top(t)), FromHere(Top(l))>>] :
    Beneath(in, t, l, Len(t) - 1, Merge(binds, x), c)

LEMMA BeneathNothing ==
  ASSUME NEW in, NEW t, NEW l, NEW a, NEW c
  PROVE  Beneath(in, t, l, 0, a, c) <=> a = c
<1>1. 1 .. 0 = {}
  OBVIOUS
<1>2. ASSUME a = c
      PROVE  Beneath(in, t, l, 0, a, c)
  <2> DEFINE cs == [d \in {0} |-> a]
  <2>1. cs[0] = a /\ cs[0] = c
    BY <1>2
  <2> HIDE DEF cs
  <2> QED
    BY <1>1, <2>1 DEF Beneath
<1> QED
  BY <1>2 DEF Beneath

LEMMA BeneathSame ==
  ASSUME NEW in, NEW t, NEW l, NEW u, NEW v, NEW n, NEW a, NEW c,
         \A d \in 1 .. n : t[d] = u[d] /\ l[d] = v[d],
         Beneath(in, t, l, n, a, c)
  PROVE  Beneath(in, u, v, n, a, c)
<1>1. PICK cs : /\ cs[n] = a /\ cs[0] = c
                /\ \A d \in 1 .. n : \E x \in Left(in, t[d], l[d]) : cs[d - 1] = Merge(cs[d], x)
  BY DEF Beneath
<1>2. ASSUME NEW d \in 1 .. n
      PROVE  \E x \in Left(in, u[d], v[d]) : cs[d - 1] = Merge(cs[d], x)
  <2>1. t[d] = u[d] /\ l[d] = v[d]
    OBVIOUS
  <2>2. \E x \in Left(in, t[d], l[d]) : cs[d - 1] = Merge(cs[d], x)
    BY <1>1
  <2> QED
    BY <2>1, <2>2
<1> QED
  BY <1>1, <1>2 DEF Beneath

LEMMA BeneathStep ==
  ASSUME NEW in, NEW t, NEW l, NEW n \in Nat \ {0}, NEW a, NEW c
  PROVE  Beneath(in, t, l, n, a, c) <=>
           \E x \in Left(in, t[n], l[n]) : Beneath(in, t, l, n - 1, Merge(a, x), c)
<1>1. n \in 1 .. n /\ n - 1 \in Nat /\ n # n - 1 /\ 0 # n
      /\ \A d \in 1 .. n - 1 : d \in 1 .. n /\ d # n /\ d - 1 \in 0 .. n - 1 /\ d \in 0 .. n - 1
  OBVIOUS
<1>2. ASSUME Beneath(in, t, l, n, a, c)
      PROVE  \E x \in Left(in, t[n], l[n]) : Beneath(in, t, l, n - 1, Merge(a, x), c)
  <2>1. PICK cs : /\ cs[n] = a /\ cs[0] = c
                  /\ \A d \in 1 .. n :
                       \E x \in Left(in, t[d], l[d]) : cs[d - 1] = Merge(cs[d], x)
    BY <1>2 DEF Beneath
  <2>2. PICK x \in Left(in, t[n], l[n]) : cs[n - 1] = Merge(a, x)
    BY <1>1, <2>1
  <2>3. Beneath(in, t, l, n - 1, Merge(a, x), c)
    BY <1>1, <2>1, <2>2 DEF Beneath
  <2> QED
    BY <2>3
<1>3. ASSUME NEW x \in Left(in, t[n], l[n]), Beneath(in, t, l, n - 1, Merge(a, x), c)
      PROVE  Beneath(in, t, l, n, a, c)
  <2>1. PICK cs : /\ cs[n - 1] = Merge(a, x) /\ cs[0] = c
                  /\ \A d \in 1 .. n - 1 :
                       \E y \in Left(in, t[d], l[d]) : cs[d - 1] = Merge(cs[d], y)
    BY <1>3 DEF Beneath
  <2> DEFINE ds == [d \in 0 .. n |-> IF d = n THEN a ELSE cs[d]]
  <2>2. ds[n] = a /\ \A d \in 0 .. n - 1 : ds[d] = cs[d]
    BY <1>1
  <2> HIDE DEF ds
  <2>3. ds[0] = c /\ ds[n - 1] = Merge(ds[n], x)
    BY <1>1, <2>1, <2>2
  <2>4. ASSUME NEW d \in 1 .. n
        PROVE  \E y \in Left(in, t[d], l[d]) : ds[d - 1] = Merge(ds[d], y)
    <3>1. CASE d = n
      BY <2>3, <3>1
    <3>2. CASE d # n
      <4>1. d \in 1 .. n - 1
        BY <3>2
      <4>2. ds[d] = cs[d] /\ ds[d - 1] = cs[d - 1]
        BY <1>1, <2>2, <4>1
      <4> QED
        BY <2>1, <4>1, <4>2
    <3> QED
      BY <3>1, <3>2
  <2> QED
    BY <2>2, <2>3, <2>4 DEF Beneath
<1> QED
  BY <1>2, <1>3

LEMMA AlikeLists ==
  ASSUME NEW p \in Seq(Node), NEW q \in Seq(Node), Len(p) = Len(q),
         \A k \in 1 .. Len(p) : p[k] = q[k]
  PROVE  p = q
  OBVIOUS

LEMMA FromIndex ==
  ASSUME NEW s \in Seq(Node), NEW a \in 1 .. Len(s)
  PROVE  LET f == SubSeq(s, a, Len(s))
             g == SubSeq(s, a + 1, Len(s))
         IN  /\ f \in Seq(Node) /\ f # << >> /\ Head(f) = s[a] /\ Tail(f) = g
             /\ g \in Seq(Node) /\ (g = << >> <=> a = Len(s))
<1> DEFINE f == SubSeq(s, a, Len(s))
           g == SubSeq(s, a + 1, Len(s))
<1>1. Len(s) \in Nat /\ a \in Nat /\ 1 <= a /\ a <= Len(s)
  OBVIOUS
<1>2. /\ f \in Seq(Node) /\ Len(f) = Len(s) - a + 1
      /\ \A k \in 1 .. Len(s) - a + 1 : f[k] = s[a + k - 1]
  BY <1>1
<1>3. /\ g \in Seq(Node) /\ Len(g) = Len(s) - a
      /\ \A k \in 1 .. Len(s) - a : g[k] = s[a + k]
  BY <1>1
<1> HIDE DEF f, g
<1>4. f # << >> /\ Head(f) = s[a]
  BY <1>1, <1>2
<1>5. /\ Tail(f) \in Seq(Node) /\ Len(Tail(f)) = Len(s) - a
      /\ \A k \in 1 .. Len(s) - a : Tail(f)[k] = s[a + k]
  BY <1>1, <1>2, <1>4
<1>6. Tail(f) = g
  <2> DEFINE h == Tail(f)
  <2>1. h \in Seq(Node) /\ Len(h) = Len(g) /\ \A k \in 1 .. Len(h) : h[k] = g[k]
    BY <1>3, <1>5
  <2> HIDE DEF h
  <2>2. h = g
    BY <1>3, <2>1, AlikeLists
  <2> QED
    BY <2>2 DEF h
<1>7. g = << >> <=> a = Len(s)
  BY <1>1, <1>3
<1> QED
  BY <1>2, <1>3, <1>4, <1>6, <1>7 DEF f, g

(* The lists at the top of a traversal.                                    *)
LEMMA TopLists ==
  ASSUME NEW t, Good(t), t # << >>
  PROVE  /\ FromHere(Top(t)) \in Seq(Node) /\ FromHere(Top(t)) # << >>
         /\ Head(FromHere(Top(t))) = GetCurrent(t)
         /\ Tail(FromHere(Top(t))) = Behind(Top(t))
         /\ Behind(Top(t)) \in Seq(Node)
         /\ Behind(Top(t)) = << >> <=> IsLastChild(t)
<1>1. /\ Len(t) \in 1 .. Len(t) /\ Top(t) = t[Len(t)]
  BY GoodTop
<1>2. Top(t).sibs \in Seq(Node) /\ Top(t).at \in 1 .. Len(Top(t).sibs)
  BY <1>1, GoodTop
<1> QED
  BY <1>2, FromIndex DEF FromHere, Behind, GetCurrent, IsLastChild

LEMMA MatchesNothing ==
  ASSUME NEW in \in Input
  PROVE  Matches(in)[<< << >>, << >> >>] = {<< >>}
<1> DEFINE none == << >>
<1>1. none \in Seq(Node)
  OBVIOUS
<1> HIDE DEF none
<1>2. Matches(in)[<<none, none>>] = MatchesBy(in, Matches(in), none, none)
  BY <1>1, MatchesAgain
<1> QED
  BY <1>2 DEF MatchesBy, none

LEMMA MatchesOneSided ==
  ASSUME NEW in \in Input, NEW ts \in Seq(Node), NEW ns \in Seq(Node),
         ~ (ts = << >> <=> ns = << >>)
  PROVE  Matches(in)[<<ts, ns>>] = {}
<1>1. Matches(in)[<<ts, ns>>] = MatchesBy(in, Matches(in), ts, ns)
  BY MatchesAgain
<1> QED
  BY <1>1 DEF MatchesBy

LEMMA MatchesMerged ==
  ASSUME NEW in \in Input, NEW ts \in Seq(Node), NEW ns \in Seq(Node),
         NEW x \in Matches(in)[<<ts, ns>>]
  PROVE  Merge(<< >>, x) = x
<1>1. x \in MatchesBy(in, Matches(in), ts, ns)
  BY MatchesAgain
<1>2. x = << >> \/ \E b, c : x = Merge(b, c)
  <2>1. CASE ts = << >> \/ ns = << >>
    BY <1>1, <2>1 DEF MatchesBy
  <2>2. CASE x \in Wholly(in, Matches(in), MetaOf(in, Head(ts)).identifier, ts, ns)
    <3>1. HasWholly(in, Matches(in), MetaOf(in, Head(ts)).identifier, ts, ns, x)
      BY <2>2, InWholly, Zenon
    <3> QED
      BY <3>1, Zenon DEF HasWholly
  <2>3. CASE x \in NodeByNode(in, Matches(in), ts, ns)
    <3>1. HasNodes(in, Matches(in), ts, ns, x)
      BY <2>3, InNodeByNode, Zenon
    <3> QED
      BY <3>1, Zenon DEF HasNodes
  <2> QED
    BY <1>1, <2>1, <2>2, <2>3 DEF MatchesBy
<1> QED
  BY <1>2, NoneMerged

(* Two traversals in step.                                                 *)
Pair(t, l) == Good(t) /\ t # << >> /\ Good(l) /\ Len(l) = Len(t)

LEMMA PairFacts ==
  ASSUME NEW t, NEW l, Pair(t, l)
  PROVE  /\ Len(t) \in Nat \ {0} /\ l # << >>
         /\ Top(t) = t[Len(t)] /\ Top(l) = l[Len(t)]
         /\ Len(t) - 1 \in Nat
<1>1. Len(t) \in Nat \ {0} /\ Top(t) = t[Len(t)]
  BY GoodTop DEF Pair
<1>2. l # << >>
  BY <1>1 DEF Pair
<1>3. Top(l) = l[Len(t)]
  BY <1>2, GoodTop DEF Pair
<1> QED
  BY <1>1, <1>2, <1>3

LEMMA AfterStep ==
  ASSUME NEW in, NEW t, NEW l, Pair(t, l), NEW b, NEW c
  PROVE  After(in, t, l, b, c) <=>
           \E x \in Matches(in)[<<Behind(Top(t)), Behind(Top(l))>>] :
             Beneath(in, t, l, Len(t) - 1, Merge(b, x), c)
<1>1. Len(t) \in Nat \ {0} /\ Top(t) = t[Len(t)] /\ Top(l) = l[Len(t)]
  BY PairFacts
<1>2. Beneath(in, t, l, Len(t), b, c) <=>
        \E x \in Left(in, t[Len(t)], l[Len(t)]) : Beneath(in, t, l, Len(t) - 1, Merge(b, x), c)
  BY <1>1, BeneathStep
<1> QED
  BY <1>1, <1>2 DEF After, Left

(* Siblings left over on one side only do not match.                       *)
LEMMA AfterLost ==
  ASSUME NEW in \in Input, NEW t, NEW l, Pair(t, l), NEW b, NEW c,
         After(in, t, l, b, c)
  PROVE  IsLastChild(t) <=> IsLastChild(l)
<1>1. l # << >> /\ Good(t) /\ t # << >> /\ Good(l)
  BY PairFacts DEF Pair
<1>2. /\ Behind(Top(t)) \in Seq(Node) /\ Behind(Top(l)) \in Seq(Node)
      /\ Behind(Top(t)) = << >> <=> IsLastChild(t)
      /\ Behind(Top(l)) = << >> <=> IsLastChild(l)
  BY <1>1, TopLists
<1>3. Matches(in)[<<Behind(Top(t)), Behind(Top(l))>>] # {}
  BY AfterStep
<1> QED
  BY <1>2, <1>3, MatchesOneSided

LEMMA AfterUp ==
  ASSUME NEW in \in Input, NEW t, NEW l, Pair(t, l), NEW b \in Bindings, NEW c,
         IsLastChild(t), IsLastChild(l)
  PROVE  After(in, t, l, b, c) <=>
           After(in, BacktrackToParent(t), BacktrackToParent(l), b, c)
<1> DEFINE u == BacktrackToParent(t)
           v == BacktrackToParent(l)
           n == Len(t) - 1
<1>1. l # << >> /\ Good(t) /\ t # << >> /\ Good(l) /\ Len(l) = Len(t) /\ n \in Nat
  BY PairFacts DEF Pair
<1>2. Behind(Top(t)) = << >> /\ Behind(Top(l)) = << >>
  BY <1>1, TopLists
<1>3. After(in, t, l, b, c) <=> Beneath(in, t, l, n, b, c)
  <2>1. Matches(in)[<<Behind(Top(t)), Behind(Top(l))>>] = {<< >>}
    BY <1>2, MatchesNothing
  <2>2. Merge(b, << >>) = b
    BY MergeNone
  <2>3. After(in, t, l, b, c) <=> \E x \in {<< >>} : Beneath(in, t, l, n, Merge(b, x), c)
    BY <2>1, AfterStep
  <2> QED
    BY <2>2, <2>3, Zenon
<1>4. Len(u) = n /\ (\A d \in 1 .. n : t[d] = u[d]) /\ (\A d \in 1 .. n : l[d] = v[d])
  BY <1>1, BacktrackShape
<1> HIDE DEF u, v, n
<1>5. Beneath(in, t, l, n, b, c) => Beneath(in, u, v, n, b, c)
  BY <1>4, BeneathSame
<1>6. Beneath(in, u, v, n, b, c) => Beneath(in, t, l, n, b, c)
  BY <1>4, BeneathSame
<1>7. After(in, u, v, b, c) <=> Beneath(in, u, v, n, b, c)
  BY <1>4 DEF After
<1> QED
  BY <1>3, <1>5, <1>6, <1>7 DEF u, v

LEMMA AfterOn ==
  ASSUME NEW in \in Input, NEW t, NEW l, Pair(t, l), NEW b, NEW c,
         ~ IsLastChild(t), ~ IsLastChild(l)
  PROVE  After(in, t, l, b, c) <=> At(in, NextSibling(t), NextSibling(l), b, c)
<1> DEFINE u == NextSibling(t)
           v == NextSibling(l)
           n == Len(t) - 1
<1>1. l # << >> /\ Good(t) /\ t # << >> /\ Good(l) /\ Len(l) = Len(t) /\ n \in Nat
      /\ Len(t) \in Nat \ {0}
  BY PairFacts DEF Pair
<1>2. ASSUME NEW s, Good(s), s # << >>, ~ IsLastChild(s)
      PROVE  /\ Len(NextSibling(s)) = Len(s)
             /\ FromHere(Top(NextSibling(s))) = Behind(Top(s))
             /\ \A d \in 1 .. Len(s) - 1 : s[d] = NextSibling(s)[d]
  <2>1. /\ Len(s) \in Nat \ {0} /\ Len(s) \in 1 .. Len(s) /\ Top(s) = s[Len(s)]
    BY <1>2, GoodTop
  <2>2. Top(s).sibs \in Seq(Node) /\ Top(s).at \in 1 .. Len(Top(s).sibs)
    BY <1>2, <2>1, GoodTop
  <2>3. Len(Top(s).sibs) \in Nat /\ Top(s).at # Len(Top(s).sibs)
    BY <1>2, <2>2 DEF IsLastChild
  <2>4. Top(s).at + 1 \in 1 .. Len(Top(s).sibs)
    BY <2>2, <2>3, NextIndex
  <2> DEFINE w == NextSibling(s)
  <2>5. /\ Len(w) = Len(s) /\ w[Len(s)].sibs = s[Len(s)].sibs
        /\ w[Len(s)].at = Top(s).at + 1
        /\ \A d \in 1 .. Len(s) : d # Len(s) => w[d] = s[d]
    BY <1>2, <2>4, MoveShape DEF NextSibling
  <2> HIDE DEF w
  <2>6. FromHere(Top(w)) = Behind(Top(s))
    BY <2>1, <2>5 DEF FromHere, Behind, Top
  <2>7. \A d \in 1 .. Len(s) - 1 : d \in 1 .. Len(s) /\ d # Len(s)
    BY <2>1
  <2> QED
    BY <2>5, <2>6, <2>7 DEF w
<1>3. /\ Len(u) = Len(t) /\ FromHere(Top(u)) = Behind(Top(t))
      /\ FromHere(Top(v)) = Behind(Top(l))
      /\ (\A d \in 1 .. n : t[d] = u[d]) /\ (\A d \in 1 .. n : l[d] = v[d])
  BY <1>1, <1>2
<1> HIDE DEF u, v, n
<1>4. \A x : Beneath(in, t, l, n, Merge(b, x), c) <=> Beneath(in, u, v, n, Merge(b, x), c)
  BY <1>3, BeneathSame
<1>5. At(in, u, v, b, c) <=>
        \E x \in Matches(in)[<<Behind(Top(t)), Behind(Top(l))>>] :
          Beneath(in, u, v, n, Merge(b, x), c)
  BY <1>3 DEF At, n
<1> QED
  BY <1>4, <1>5, AfterStep DEF u, v, n

LEMMA WholeList ==
  ASSUME NEW s \in Seq(Node)
  PROVE  SubSeq(s, 1, Len(s)) = s
<1> DEFINE h == SubSeq(s, 1, Len(s))
<1>1. h \in Seq(Node) /\ Len(h) = Len(s) /\ \A k \in 1 .. Len(h) : h[k] = s[k]
  OBVIOUS
<1> HIDE DEF h
<1>2. h = s
  BY <1>1, AlikeLists
<1> QED
  BY <1>2 DEF h

(* A node for a node, its children and what is behind it.                  *)
Likes(t, l) ==
  Compare(input.content[GetCurrent(t)], input.content[GetCurrent(l)],
          input.metas[GetCurrent(t)] # {})

BoundAt(t, l, b) == Merge(b, Own(input, GetCurrent(t), GetCurrent(l)))

AtKids(t, l, b, c) ==
  \E below \in Matches(input)[<<Kids(GetCurrent(t)), Kids(GetCurrent(l))>>] :
    After(input, t, l, Merge(b, below), c)

LEMMA AtNode ==
  ASSUME input \in Input, NEW t, NEW l, Pair(t, l), NEW b, NEW c,
         \A m \in input.metas[GetCurrent(t)] : m.nameOnly
  PROVE  At(input, t, l, b, c) <=> Likes(t, l) /\ AtKids(t, l, BoundAt(t, l, b), c)
<1> DEFINE M == Matches(input)
           ts == FromHere(Top(t))
           ns == FromHere(Top(l))
           n == Len(t) - 1
           own == Own(input, GetCurrent(t), GetCurrent(l))
           K == M[<<KidsIn(input, Head(ts)), KidsIn(input, Head(ns))>>]
           A == M[<<Tail(ts), Tail(ns)>>]
           End(a) == Beneath(input, t, l, n, a, c)
<1>1. l # << >> /\ Good(t) /\ t # << >> /\ Good(l) /\ Len(l) = Len(t)
  BY PairFacts DEF Pair
<1>2. /\ ts \in Seq(Node) /\ ts # << >> /\ ns \in Seq(Node) /\ ns # << >>
      /\ Head(ts) = GetCurrent(t) /\ Head(ns) = GetCurrent(l)
      /\ Tail(ts) = Behind(Top(t)) /\ Tail(ns) = Behind(Top(l))
  BY <1>1, TopLists
<1>3. M[<<ts, ns>>] = NodeByNode(input, M, ts, ns)
  <2>1. M[<<ts, ns>>] = MatchesBy(input, M, ts, ns)
    BY <1>2, MatchesAgain
  <2>2. ~ \E m \in input.metas[Head(ts)] : ~ m.nameOnly
    BY <1>2
  <2> HIDE DEF M, ts, ns
  <2> QED
    BY <1>2, <2>1, <2>2 DEF MatchesBy
<1>4. \A x : x \in M[<<ts, ns>>] <=> HasNodes(input, M, ts, ns, x)
  BY <1>3, InNodeByNode, Zenon
<1> HIDE DEF M
<1>5. At(input, t, l, b, c) <=> \E x \in M[<<ts, ns>>] : End(Merge(b, x))
  BY Zenon DEF At, M
<1>6. \A x : HasNodes(input, M, ts, ns, x) <=>
        Likes(t, l) /\ \E below \in K : \E after \in A : x = Merge(own, Merge(below, after))
  BY <1>2 DEF HasNodes, Likes
<1>7. \A below, after :
        Merge(b, Merge(own, Merge(below, after))) = Merge(Merge(Merge(b, own), below), after)
  BY MergeThree
<1> HIDE DEF K, A, End, own, ts, ns
<1>8. (\E x \in M[<<ts, ns>>] : End(Merge(b, x))) <=>
        Likes(t, l) /\ \E below \in K : \E after \in A :
          End(Merge(b, Merge(own, Merge(below, after))))
  BY <1>4, <1>6, Zenon
<1>9. (\E x \in M[<<ts, ns>>] : End(Merge(b, x))) <=>
        Likes(t, l) /\ \E below \in K : \E after \in A :
          End(Merge(Merge(Merge(b, own), below), after))
  <2>1. \A below, after :
          End(Merge(b, Merge(own, Merge(below, after))))
            <=> End(Merge(Merge(Merge(b, own), below), after))
    BY <1>7
  <2> QED
    BY <1>8, <2>1, Zenon
<1>10. \A below : After(input, t, l, Merge(Merge(b, own), below), c) <=>
         \E after \in A : End(Merge(Merge(Merge(b, own), below), after))
  BY <1>2, AfterStep, Zenon DEF A, M, End
<1>11. AtKids(t, l, Merge(b, own), c) <=>
         \E below \in K : After(input, t, l, Merge(Merge(b, own), below), c)
  BY <1>2, KidsOfInput DEF AtKids, K, M
<1>12. BoundAt(t, l, b) = Merge(b, own)
  BY DEF BoundAt, own
<1> QED
  BY <1>5, <1>9, <1>10, <1>11, <1>12, Zenon

LEMMA AtLost ==
  ASSUME input \in Input, NEW t, NEW l, Pair(t, l), NEW b, NEW c,
         \A m \in input.metas[GetCurrent(t)] : m.nameOnly,
         At(input, t, l, b, c)
  PROVE  Likes(t, l) /\ (HasChildren(t) <=> HasChildren(l))
<1>1. Likes(t, l) /\ AtKids(t, l, BoundAt(t, l, b), c)
  BY AtNode
<1>2. Matches(input)[<<Kids(GetCurrent(t)), Kids(GetCurrent(l))>>] # {}
  BY <1>1 DEF AtKids
<1>3. Kids(GetCurrent(t)) \in Seq(Node) /\ Kids(GetCurrent(l)) \in Seq(Node)
  <2>1. GetCurrent(t) \in Node /\ GetCurrent(l) \in Node
    BY PairFacts, GoodTop DEF Pair
  <2> QED
    BY <2>1, KidsType
<1> QED
  BY <1>1, <1>2, <1>3, MatchesOneSided DEF HasChildren

LEMMA AtDone ==
  ASSUME input \in Input, NEW t, NEW l, Pair(t, l), NEW b \in Bindings, NEW c,
         \A m \in input.metas[GetCurrent(t)] : m.nameOnly,
         Likes(t, l), ~ HasChildren(t), ~ HasChildren(l)
  PROVE  At(input, t, l, b, c) <=> After(input, t, l, BoundAt(t, l, b), c)
<1> DEFINE a == BoundAt(t, l, b)
<1>1. a \in Bindings
  <2>1. GetCurrent(t) \in Node /\ GetCurrent(l) \in Node
    BY PairFacts, GoodTop DEF Pair
  <2> QED
    BY <2>1, OwnType, MergeType DEF BoundAt
<1>2. Merge(a, << >>) = a
  BY <1>1, MergeNone
<1> HIDE DEF a
<1>3. AtKids(t, l, a, c) <=> \E below \in {<< >>} : After(input, t, l, Merge(a, below), c)
  BY MatchesNothing DEF AtKids, HasChildren
<1>4. AtKids(t, l, a, c) <=> After(input, t, l, a, c)
  BY <1>2, <1>3, Zenon
<1> QED
  BY <1>4, AtNode DEF a

LEMMA AtDown ==
  ASSUME input \in Input, NEW t, NEW l, Pair(t, l), NEW b, NEW c,
         \A m \in input.metas[GetCurrent(t)] : m.nameOnly, Likes(t, l)
  PROVE  At(input, t, l, b, c) <=>
           At(input, DescendToChild(t), DescendToChild(l), BoundAt(t, l, b), c)
<1> DEFINE u == DescendToChild(t)
           v == DescendToChild(l)
           a == BoundAt(t, l, b)
<1>1. l # << >> /\ Good(t) /\ t # << >> /\ Good(l) /\ Len(l) = Len(t)
      /\ Len(t) \in Nat \ {0}
  BY PairFacts DEF Pair
<1>2. ASSUME NEW s, Good(s), s # << >>
      PROVE  /\ Len(DescendToChild(s)) = Len(s) + 1
             /\ FromHere(Top(DescendToChild(s))) = Kids(GetCurrent(s))
             /\ \A d \in 1 .. Len(s) : s[d] = DescendToChild(s)[d]
  <2>1. Kids(GetCurrent(s)) \in Seq(Node)
    BY <1>2, GoodTop, KidsType
  <2> DEFINE w == DescendToChild(s)
  <2>2. /\ Len(w) = Len(s) + 1
        /\ w[Len(s) + 1].sibs = Kids(GetCurrent(s)) /\ w[Len(s) + 1].at = 1
        /\ \A d \in 1 .. Len(s) : w[d] = s[d]
    BY <1>2, DescendShape
  <2> HIDE DEF w
  <2>3. FromHere(Top(w)) = SubSeq(Kids(GetCurrent(s)), 1, Len(Kids(GetCurrent(s))))
    BY <2>2 DEF FromHere, Top
  <2> QED
    BY <2>1, <2>2, <2>3, WholeList DEF w
<1>3. /\ Len(u) - 1 = Len(t) /\ FromHere(Top(u)) = Kids(GetCurrent(t))
      /\ FromHere(Top(v)) = Kids(GetCurrent(l))
      /\ (\A d \in 1 .. Len(t) : t[d] = u[d]) /\ (\A d \in 1 .. Len(t) : l[d] = v[d])
  BY <1>1, <1>2
<1> HIDE DEF u, v, a
<1>4. \A x : Beneath(input, t, l, Len(t), Merge(a, x), c)
               <=> Beneath(input, u, v, Len(t), Merge(a, x), c)
  BY <1>3, BeneathSame
<1>5. At(input, u, v, a, c) <=>
        \E x \in Matches(input)[<<Kids(GetCurrent(t)), Kids(GetCurrent(l))>>] :
          Beneath(input, u, v, Len(t), Merge(a, x), c)
  BY <1>3 DEF At
<1>6. At(input, u, v, a, c) <=> AtKids(t, l, a, c)
  BY <1>4, <1>5, Zenon DEF AtKids, After
<1> QED
  BY <1>6, AtNode DEF u, v, a

LEMMA SubOfSub ==
  ASSUME NEW s \in Seq(Node), NEW a \in 1 .. Len(s), NEW i \in 1 .. Len(s) - a + 1
  PROVE  LET f == SubSeq(s, a, Len(s))
         IN  /\ Len(f) = Len(s) - a + 1
             /\ f[i] = s[a + i - 1]
             /\ SubSeq(f, 1, i) = SubSeq(s, a, a + i - 1)
             /\ SubSeq(f, i, Len(f)) = SubSeq(s, a + i - 1, Len(s))
             /\ SubSeq(f, i + 1, Len(f)) = SubSeq(s, a + i, Len(s))
<1> DEFINE f == SubSeq(s, a, Len(s))
           n == Len(s) - a + 1
<1>1. Len(s) \in Nat /\ a \in Nat /\ 1 <= a /\ a <= Len(s) /\ i \in Nat /\ 1 <= i
      /\ i <= n /\ n \in Nat
  OBVIOUS
<1>2. /\ f \in Seq(Node) /\ Len(f) = n
      /\ \A k \in 1 .. n : f[k] = s[a + k - 1]
  BY <1>1
<1>3. /\ SubSeq(s, a, a + i - 1) \in Seq(Node) /\ Len(SubSeq(s, a, a + i - 1)) = i
      /\ \A k \in 1 .. i : SubSeq(s, a, a + i - 1)[k] = s[a + k - 1]
  BY <1>1
<1>4. /\ SubSeq(s, a + i - 1, Len(s)) \in Seq(Node)
      /\ Len(SubSeq(s, a + i - 1, Len(s))) = n - i + 1
      /\ \A k \in 1 .. n - i + 1 : SubSeq(s, a + i - 1, Len(s))[k] = s[a + i + k - 2]
  BY <1>1
<1>5. /\ SubSeq(s, a + i, Len(s)) \in Seq(Node)
      /\ Len(SubSeq(s, a + i, Len(s))) = n - i
      /\ \A k \in 1 .. n - i : SubSeq(s, a + i, Len(s))[k] = s[a + i + k - 1]
  BY <1>1
<1> HIDE DEF f
<1>6. /\ SubSeq(f, 1, i) \in Seq(Node) /\ Len(SubSeq(f, 1, i)) = i
      /\ \A k \in 1 .. i : SubSeq(f, 1, i)[k] = s[a + k - 1]
  BY <1>1, <1>2
<1>7. /\ SubSeq(f, i, Len(f)) \in Seq(Node) /\ Len(SubSeq(f, i, Len(f))) = n - i + 1
      /\ \A k \in 1 .. n - i + 1 : SubSeq(f, i, Len(f))[k] = s[a + i + k - 2]
  BY <1>1, <1>2
<1>8. /\ SubSeq(f, i + 1, Len(f)) \in Seq(Node) /\ Len(SubSeq(f, i + 1, Len(f))) = n - i
      /\ \A k \in 1 .. n - i : SubSeq(f, i + 1, Len(f))[k] = s[a + i + k - 1]
  <2>1. i + 1 \in Nat /\ n - i \in Nat /\ n - (i + 1) + 1 = n - i
    BY <1>1
  <2>2. /\ SubSeq(f, i + 1, Len(f)) \in Seq(Node) /\ Len(SubSeq(f, i + 1, Len(f))) = n - i
        /\ \A k \in 1 .. n - i : SubSeq(f, i + 1, Len(f))[k] = f[i + k]
    <3> HIDE DEF n
    <3> QED
      BY <1>1, <1>2, <2>1
  <2>3. ASSUME NEW k \in 1 .. n - i
        PROVE  f[i + k] = s[a + i + k - 1]
    <3>1. i + k \in 1 .. n /\ a + (i + k) - 1 = a + i + k - 1
      BY <1>1
    <3> QED
      BY <1>2, <3>1
  <2> QED
    BY <2>2, <2>3
<1> HIDE DEF n
<1> DEFINE p == SubSeq(f, 1, i)
           q == SubSeq(f, i, Len(f))
           r == SubSeq(f, i + 1, Len(f))
           u == SubSeq(s, a, a + i - 1)
           v == SubSeq(s, a + i - 1, Len(s))
           w == SubSeq(s, a + i, Len(s))
<1> HIDE DEF p, q, r, u, v, w
<1>9. p = u
  BY <1>3, <1>6, AlikeLists DEF p, u
<1>10. q = v
  BY <1>4, <1>7, AlikeLists DEF q, v
<1>11. r = w
  BY <1>5, <1>8, AlikeLists DEF r, w
<1>12. f[i] = s[a + i - 1]
  BY <1>1, <1>2
<1> QED
  BY <1>2, <1>9, <1>10, <1>11, <1>12 DEF f, n, p, q, r, u, v, w

(* What is behind a run of siblings that all map to id.                    *)
LEMMA BehindRun ==
  ASSUME NEW in, NEW s \in Seq(Node), NEW a \in 1 .. Len(s), NEW e \in a .. Len(s), NEW id,
         \A k \in a .. e : MapsIn(in, s[k], id),
         e # Len(s) => ~ MapsIn(in, s[e + 1], id)
  PROVE  BehindThose(in, SubSeq(s, a, Len(s)), id) = SubSeq(s, e + 1, Len(s))
<1> DEFINE f == SubSeq(s, a, Len(s))
           n == Len(s) - a + 1
           others == {i \in DOMAIN f : \A m \in in.metas[f[i]] : m.identifier # id}
<1>1. /\ Len(s) \in Nat /\ a \in Nat /\ 1 <= a /\ a <= Len(s) /\ n \in Nat
      /\ e \in Nat /\ a <= e /\ e <= Len(s)
  OBVIOUS
<1>2. f \in Seq(Node) /\ DOMAIN f = 1 .. n
  BY <1>1
<1>3. \A i \in 1 .. n : f[i] = s[a + i - 1]
  BY <1>1
<1> HIDE DEF f
<1>4. \A i : i \in others <=> i \in 1 .. n /\ ~ MapsIn(in, s[a + i - 1], id)
  BY <1>2, <1>3 DEF MapsIn
<1> HIDE DEF others
<1>5. CASE e = Len(s)
  <2>1. \A i \in 1 .. n : a + i - 1 \in a .. e
    BY <1>1, <1>5
  <2>2. others = {}
    BY <1>4, <2>1
  <2>3. SubSeq(s, e + 1, Len(s)) = << >>
    BY <1>1, <1>5
  <2> QED
    BY <2>2, <2>3 DEF BehindThose, others, f
<1>6. CASE e # Len(s)
  <2> DEFINE i == e - a + 2
  <2>1. i \in 1 .. n /\ a + i - 1 = e + 1
    BY <1>1, <1>6
  <2>2. i \in others
    BY <1>4, <1>6, <2>1
  <2>3. ASSUME NEW j \in others
        PROVE  i <= j
    <3>1. j \in 1 .. n /\ ~ MapsIn(in, s[a + j - 1], id)
      BY <1>4
    <3>2. ~ (a + j - 1 \in a .. e)
      BY <3>1
    <3> QED
      BY <1>1, <3>1, <3>2
  <2>4. \A j \in others : j \in 1 .. n
    BY <1>4
  <2> HIDE DEF i
  <2>5. (CHOOSE k \in others : \A j \in others : k <= j) = i
    <3> DEFINE k == CHOOSE k \in others : \A j \in others : k <= j
    <3>1. k \in others /\ \A j \in others : k <= j
      BY <2>2, <2>3
    <3> HIDE DEF k
    <3>2. k <= i /\ i <= k /\ k \in Nat /\ i \in Nat
      BY <1>1, <2>2, <2>3, <2>4, <3>1
    <3>3. k = i
      BY <3>2
    <3> QED
      BY <3>3 DEF k
  <2>6. BehindThose(in, f, id) = SubSeq(f, i, Len(f))
    <3>1. others # {}
      BY <2>2
    <3>2. BehindThose(in, f, id) = SubSeq(f, CHOOSE k \in others : \A j \in others : k <= j, Len(f))
      BY <3>1 DEF BehindThose, others
    <3> QED
      BY <2>5, <3>2
  <2>7. SubSeq(f, i, Len(f)) = SubSeq(s, e + 1, Len(s))
    BY <2>1, SubOfSub DEF f
  <2> QED
    BY <2>6, <2>7 DEF f
<1> QED
  BY <1>5, <1>6

LEMMA MovedLists ==
  ASSUME NEW t, Good(t), t # << >>, NEW e \in 1 .. Len(Top(t).sibs)
  PROVE  /\ Len(MoveTo(t, e)) = Len(t)
         /\ Behind(Top(MoveTo(t, e))) = SubSeq(Top(t).sibs, e + 1, Len(Top(t).sibs))
         /\ \A d \in 1 .. Len(t) - 1 : MoveTo(t, e)[d] = t[d]
<1> DEFINE u == MoveTo(t, e)
<1>1. Len(t) \in Nat \ {0} /\ Top(t) = t[Len(t)]
  BY GoodTop
<1>2. /\ Len(u) = Len(t)
      /\ u[Len(t)].sibs = t[Len(t)].sibs /\ u[Len(t)].at = e
      /\ \A d \in 1 .. Len(t) : d # Len(t) => u[d] = t[d]
  BY MoveShape
<1> HIDE DEF u
<1>3. Behind(Top(u)) = SubSeq(Top(t).sibs, e + 1, Len(Top(t).sibs))
  BY <1>1, <1>2 DEF Behind, Top
<1>4. \A d \in 1 .. Len(t) - 1 : d \in 1 .. Len(t) /\ d # Len(t)
  BY <1>1
<1> QED
  BY <1>2, <1>3, <1>4 DEF u

(* A run of siblings for a metavariable.                                   *)
LEMMA AtWhole ==
  ASSUME input \in Input, NEW t, NEW l, Pair(t, l), NEW b \in Bindings, NEW c,
         NEW m \in input.metas[GetCurrent(t)], ~ m.nameOnly,
         NEW e \in Top(t).at .. Len(Top(t).sibs),
         \A k \in Top(t).at .. e : MapsIn(input, Top(t).sibs[k], m.identifier),
         e # Len(Top(t).sibs) => ~ MapsIn(input, Top(t).sibs[e + 1], m.identifier)
  PROVE  At(input, t, l, b, c) <=>
           \E i \in Top(l).at .. Len(Top(l).sibs) :
             After(input, MoveTo(t, e), MoveTo(l, i),
                   Insert(b, m.identifier, SubSeq(Top(l).sibs, Top(l).at, i)), c)
<1> DEFINE M == Matches(input)
           ts == FromHere(Top(t))
           ns == FromHere(Top(l))
           n == Len(t) - 1
           id == m.identifier
           s == Top(t).sibs
           r == Top(l).sibs
           a == Top(l).at
           A(k) == M[<<SubSeq(s, e + 1, Len(s)), SubSeq(r, k + 1, Len(r))>>]
           B(k) == Bind(id, SubSeq(r, a, k))
           End(x) == Beneath(input, t, l, n, x, c)
<1>1. l # << >> /\ Good(t) /\ t # << >> /\ Good(l) /\ Len(l) = Len(t)
      /\ Len(t) \in Nat \ {0}
  BY PairFacts DEF Pair
<1>2. /\ ts \in Seq(Node) /\ ts # << >> /\ ns \in Seq(Node) /\ ns # << >>
      /\ Head(ts) = GetCurrent(t) /\ GetCurrent(t) \in Node
  BY <1>1, TopLists, GoodTop
<1>3. /\ s \in Seq(Node) /\ r \in Seq(Node) /\ a \in 1 .. Len(r) /\ Top(t).at \in 1 .. Len(s)
  <2>1. Len(t) \in 1 .. Len(t) /\ Top(t) = t[Len(t)] /\ Top(l) = l[Len(l)] /\ Len(l) \in 1 .. Len(l)
    BY <1>1, GoodTop
  <2> QED
    BY <1>1, <2>1, GoodTop
<1>4. /\ Len(r) \in Nat /\ a \in Nat /\ 1 <= a /\ a <= Len(r) /\ Len(s) \in Nat
      /\ e \in 1 .. Len(s)
  BY <1>3
<1>5. M[<<ts, ns>>] = Wholly(input, M, id, ts, ns)
  <2>1. M[<<ts, ns>>] = MatchesBy(input, M, ts, ns)
    BY <1>2, MatchesAgain
  <2>2. \E k \in input.metas[Head(ts)] : ~ k.nameOnly
    BY <1>2
  <2>3. MetaOf(input, Head(ts)) = m
    <3>1. MetaOf(input, Head(ts)) \in input.metas[GetCurrent(t)]
      BY <1>2 DEF MetaOf
    <3> QED
      BY <1>2, <3>1, MapsToOne
  <2> HIDE DEF M, ts, ns
  <2> QED
    BY <1>2, <2>1, <2>2, <2>3 DEF MatchesBy
<1>6. BehindThose(input, ts, id) = SubSeq(s, e + 1, Len(s))
  BY <1>3, BehindRun DEF FromHere
<1>7. ASSUME NEW i \in 1 .. Len(r) - a + 1
      PROVE  /\ SubSeq(ns, i + 1, Len(ns)) = SubSeq(r, (a + i - 1) + 1, Len(r))
             /\ SubSeq(ns, 1, i) = SubSeq(r, a, a + i - 1)
             /\ a + i - 1 \in a .. Len(r)
  <2>1. (a + i - 1) + 1 = a + i /\ a + i - 1 \in a .. Len(r)
    BY <1>4
  <2> DEFINE f == SubSeq(r, a, Len(r))
  <2>2. /\ SubSeq(f, 1, i) = SubSeq(r, a, a + i - 1)
        /\ SubSeq(f, i + 1, Len(f)) = SubSeq(r, a + i, Len(r))
    BY <1>3, SubOfSub
  <2>3. ns = f
    BY DEF FromHere
  <2> HIDE DEF f, ns, r, a
  <2> QED
    BY <2>1, <2>2, <2>3
<1>8. DOMAIN ns = 1 .. Len(r) - a + 1
  <2>1. Len(ns) = Len(r) - a + 1
    BY <1>4 DEF FromHere
  <2> HIDE DEF ns
  <2> QED
    BY <1>2, <2>1
<1>9. \A k \in a .. Len(r) : k - a + 1 \in 1 .. Len(r) - a + 1 /\ a + (k - a + 1) - 1 = k
  BY <1>4
<1> HIDE DEF M, ts, ns
<1>10. \A x : x \in M[<<ts, ns>>] <=>
         \E i \in DOMAIN ns : \E after \in M[<<BehindThose(input, ts, id), SubSeq(ns, i + 1, Len(ns))>>] :
           x = Merge(Bind(id, SubSeq(ns, 1, i)), after)
  <2>1. \A x : x \in M[<<ts, ns>>] <=> HasWholly(input, M, id, ts, ns, x)
    BY <1>5, InWholly, Zenon
  <2> QED
    BY <2>1, Zenon DEF HasWholly
<1>11. \A x : x \in M[<<ts, ns>>] <=>
         \E k \in a .. Len(r) : \E after \in A(k) : x = Merge(B(k), after)
  <2> HIDE DEF s, r, a, id, n
  <2>1. ASSUME NEW x \in M[<<ts, ns>>]
        PROVE  \E k \in a .. Len(r) : \E y \in A(k) : x = Merge(B(k), y)
    <3>1. PICK i \in DOMAIN ns :
            \E after \in M[<<BehindThose(input, ts, id), SubSeq(ns, i + 1, Len(ns))>>] :
              x = Merge(Bind(id, SubSeq(ns, 1, i)), after)
      BY <1>10, Zenon
    <3>2. PICK after \in M[<<BehindThose(input, ts, id), SubSeq(ns, i + 1, Len(ns))>>] :
            x = Merge(Bind(id, SubSeq(ns, 1, i)), after)
      BY <3>1
    <3> DEFINE k == a + i - 1
    <3>3. k \in a .. Len(r) /\ after \in A(k) /\ x = Merge(B(k), after)
      BY <1>6, <1>7, <1>8, <3>2
    <3> HIDE DEF k, A, B
    <3> QED
      BY <3>3
  <2>2. ASSUME NEW x, NEW k \in a .. Len(r), NEW after \in A(k), x = Merge(B(k), after)
        PROVE  x \in M[<<ts, ns>>]
    <3> DEFINE i == k - a + 1
    <3>1. i \in DOMAIN ns /\ a + i - 1 = k
      BY <1>8, <1>9
    <3> HIDE DEF i
    <3>2. /\ after \in M[<<BehindThose(input, ts, id), SubSeq(ns, i + 1, Len(ns))>>]
          /\ x = Merge(Bind(id, SubSeq(ns, 1, i)), after)
      BY <1>6, <1>7, <1>8, <2>2, <3>1
    <3> QED
      BY <1>10, <3>1, <3>2, Zenon
  <2> HIDE DEF A, B
  <2> QED
    BY <2>1, <2>2
<1>12. At(input, t, l, b, c) <=> \E x \in M[<<ts, ns>>] : End(Merge(b, x))
  BY Zenon DEF At, M, ts, ns
<1>13. ASSUME NEW k \in a .. Len(r)
       PROVE  After(input, MoveTo(t, e), MoveTo(l, k), Insert(b, id, SubSeq(r, a, k)), c)
                <=> \E after \in A(k) : End(Merge(b, Merge(B(k), after)))
  <2> DEFINE u == MoveTo(t, e)
             v == MoveTo(l, k)
             bound == Insert(b, id, SubSeq(r, a, k))
  <2>1. k \in 1 .. Len(r)
    BY <1>4
  <2>2. Good(u) /\ u # << >> /\ Good(v)
    BY <1>1, <1>4, <2>1, MoveGood
  <2>3. /\ Len(u) = Len(t) /\ Len(v) = Len(t)
        /\ Behind(Top(u)) = SubSeq(s, e + 1, Len(s))
        /\ Behind(Top(v)) = SubSeq(r, k + 1, Len(r))
        /\ (\A d \in 1 .. n : u[d] = t[d]) /\ (\A d \in 1 .. n : v[d] = l[d])
    BY <1>1, <1>4, <2>1, MovedLists
  <2>4. bound = Merge(b, B(k))
    BY InsertMerges
  <2> HIDE DEF u, v, bound
  <2>5. Pair(u, v)
    BY <2>2, <2>3 DEF Pair
  <2>6. After(input, u, v, bound, c) <=>
          \E x \in A(k) : Beneath(input, u, v, n, Merge(bound, x), c)
    BY <2>3, <2>5, AfterStep DEF M
  <2>7. \A x : Beneath(input, u, v, n, x, c) <=> End(x)
    BY <2>3, BeneathSame
  <2>8. \A x : Merge(bound, x) = Merge(b, Merge(B(k), x))
    BY <2>4, MergeThree
  <2> HIDE DEF End, A, B
  <2>9. \A x : Beneath(input, u, v, n, Merge(bound, x), c) <=> End(Merge(b, Merge(B(k), x)))
    BY <2>7, <2>8
  <2> QED
    BY <2>6, <2>9, Zenon DEF u, v, bound
<1> HIDE DEF A, B, End
<1>14. (\E x \in M[<<ts, ns>>] : End(Merge(b, x))) <=>
         \E k \in a .. Len(r) : \E after \in A(k) : End(Merge(b, Merge(B(k), after)))
  <2>1. ASSUME NEW x \in M[<<ts, ns>>], End(Merge(b, x))
        PROVE  \E k \in a .. Len(r) : \E after \in A(k) : End(Merge(b, Merge(B(k), after)))
    <3>1. PICK k \in a .. Len(r) : \E after \in A(k) : x = Merge(B(k), after)
      BY <1>11, Zenon
    <3>2. PICK after \in A(k) : x = Merge(B(k), after)
      BY <3>1
    <3>3. End(Merge(b, Merge(B(k), after)))
      BY <2>1, <3>2
    <3> QED
      BY <3>3
  <2>2. ASSUME NEW k \in a .. Len(r), NEW after \in A(k), End(Merge(b, Merge(B(k), after)))
        PROVE  \E x \in M[<<ts, ns>>] : End(Merge(b, x))
    <3>1. Merge(B(k), after) \in M[<<ts, ns>>]
      BY <1>11, Zenon
    <3> QED
      BY <2>2, <3>1
  <2> QED
    BY <2>1, <2>2
<1> QED
  BY <1>12, <1>13, <1>14, Zenon

-----------------------------------------------------------------------------
(* The matches that the potential matches in pots can still become: before *)
(* and behind the current nodes.                                           *)
ReportsAt(pots, t, r, c) ==
  \E pot \in pots : pot.root = r /\ At(input, t, pot.levels, pot.binds, c)

ReportsAfter(pots, t, r, c) ==
  \E pot \in pots : pot.root = r /\ After(input, t, pot.levels, pot.binds, c)

(* Those that the template has.                                            *)
Promised(r, c) == r \in PotentialRoots /\ c \in Matches(input)[<<input.subtrees, r>>]

ExactInv ==
  (phase # "gather" /\ ~ RunToTheEnd) =>
    /\ backtracked => \A r, c : ReportsAfter(potentials, trav, r, c) <=> Promised(r, c)
    /\ ~ backtracked =>
         /\ trav # << >>
         /\ \A r, c : ReportsAt(potentials, trav, r, c) <=> Promised(r, c)

Foreseen ==
  \/ /\ backtracked' = TRUE
     /\ \A r, c : ReportsAfter(potentials', trav', r, c) <=> Promised(r, c)
  \/ /\ backtracked' = FALSE /\ trav' # << >>
     /\ \A r, c : ReportsAt(potentials', trav', r, c) <=> Promised(r, c)

(* No potential match that a move applies to is lost in it.                *)
LEMMA KeptUp ==
  ASSUME NEW pots, NEW n, AllInStep(pots, n), NEW pot \in pots, IsLastChild(pot.levels)
  PROVE  \E q \in ForEach(Filter(pots, IsLastChild), BacktrackToParent) :
           /\ q.levels = BacktrackToParent(pot.levels)
           /\ q.root = pot.root /\ q.binds = pot.binds
<1> DEFINE q == [pot EXCEPT !.levels = BacktrackToParent(@)]
<1>1. pot \in PotentialMatches
  BY DEF AllInStep, InStep
<1>2. q.levels = BacktrackToParent(pot.levels) /\ q.root = pot.root /\ q.binds = pot.binds
  BY <1>1 DEF PotentialMatches
<1>3. q \in ForEach(Filter(pots, IsLastChild), BacktrackToParent)
  BY DEF ForEach, Filter
<1> QED
  BY <1>2, <1>3

LEMMA KeptOn ==
  ASSUME NEW pots, NEW n, AllInStep(pots, n), NEW pot \in pots, ~ IsLastChild(pot.levels)
  PROVE  \E q \in ForEach(Filter(pots, LAMBDA l : ~ IsLastChild(l)), NextSibling) :
           /\ q.levels = NextSibling(pot.levels)
           /\ q.root = pot.root /\ q.binds = pot.binds
<1> DEFINE q == [pot EXCEPT !.levels = NextSibling(@)]
<1>1. pot \in PotentialMatches
  BY DEF AllInStep, InStep
<1>2. q.levels = NextSibling(pot.levels) /\ q.root = pot.root /\ q.binds = pot.binds
  BY <1>1 DEF PotentialMatches
<1>3. q \in ForEach(Filter(pots, LAMBDA l : ~ IsLastChild(l)), NextSibling)
  BY DEF ForEach, Filter
<1> QED
  BY <1>2, <1>3

LEMMA KeptDown ==
  ASSUME NEW pots, NEW n, AllInStep(pots, n), NEW pot \in pots, HasChildren(pot.levels)
  PROVE  \E q \in ForEach(Filter(pots, HasChildren), DescendToChild) :
           /\ q.levels = DescendToChild(pot.levels)
           /\ q.root = pot.root /\ q.binds = pot.binds
<1> DEFINE q == [pot EXCEPT !.levels = DescendToChild(@)]
<1>1. pot \in PotentialMatches
  BY DEF AllInStep, InStep
<1>2. q.levels = DescendToChild(pot.levels) /\ q.root = pot.root /\ q.binds = pot.binds
  BY <1>1 DEF PotentialMatches
<1>3. q \in ForEach(Filter(pots, HasChildren), DescendToChild)
  BY DEF ForEach, Filter
<1> QED
  BY <1>2, <1>3

LEMMA KeptExtended ==
  ASSUME AllInStep(potentials, Len(trav)), NEW pot \in potentials,
         NEW i \in Top(pot.levels).at .. Len(Top(pot.levels).sibs)
  PROVE  \E q \in Extended :
           /\ q.root = pot.root /\ q.levels = MoveTo(pot.levels, i)
           /\ q.binds = Insert(pot.binds, Meta.identifier,
                               SubSeq(Top(pot.levels).sibs, Top(pot.levels).at, i))
<1> DEFINE q == [pot EXCEPT !.levels = MoveTo(@, i),
                            !.binds = Insert(@, Meta.identifier,
                                SubSeq(Top(pot.levels).sibs, Top(pot.levels).at, i))]
<1>1. pot \in PotentialMatches
  BY DEF AllInStep, InStep
<1>2. /\ q.root = pot.root /\ q.levels = MoveTo(pot.levels, i)
      /\ q.binds = Insert(pot.binds, Meta.identifier,
                          SubSeq(Top(pot.levels).sibs, Top(pot.levels).at, i))
  BY <1>1 DEF PotentialMatches
<1>3. q \in ExtendForMetavariable(pot, Meta)
  BY DEF ExtendForMetavariable
<1>4. q \in Extended
  BY <1>3 DEF Extended
<1> QED
  BY <1>2, <1>4

LEMMA InStepPair ==
  ASSUME NEW t, Good(t), t # << >>, NEW pots, AllInStep(pots, Len(t)), NEW pot \in pots
  PROVE  Pair(t, pot.levels) /\ pot.binds \in Bindings
<1>1. InStep(pot, Len(t))
  BY DEF AllInStep
<1> QED
  BY <1>1 DEF InStep, PotentialMatches, Pair

LEMMA UpReports ==
  ASSUME input \in Input, NEW t, Good(t), t # << >>, IsLastChild(t),
         NEW pots, AllInStep(pots, Len(t)), NEW r, NEW c
  PROVE  ReportsAfter(pots, t, r, c) <=>
           ReportsAfter(ForEach(Filter(pots, IsLastChild), BacktrackToParent),
                        BacktrackToParent(t), r, c)
<1> DEFINE moved == ForEach(Filter(pots, IsLastChild), BacktrackToParent)
           u == BacktrackToParent(t)
<1>1. ASSUME NEW q \in moved
      PROVE  \E pot \in pots : /\ IsLastChild(pot.levels)
                               /\ q.levels = BacktrackToParent(pot.levels)
                               /\ q.root = pot.root /\ q.binds = pot.binds
  BY MovedUp
<1>2. ASSUME NEW pot \in pots, IsLastChild(pot.levels)
      PROVE  \E q \in moved : /\ q.levels = BacktrackToParent(pot.levels)
                              /\ q.root = pot.root /\ q.binds = pot.binds
  BY <1>2, KeptUp
<1>3. \A pot \in pots : Pair(t, pot.levels) /\ pot.binds \in Bindings
  BY InStepPair
<1> HIDE DEF moved
<1>4. ASSUME NEW pot \in pots, pot.root = r, After(input, t, pot.levels, pot.binds, c)
      PROVE  ReportsAfter(moved, u, r, c)
  <2>1. IsLastChild(pot.levels)
    BY <1>3, <1>4, AfterLost
  <2>2. After(input, u, BacktrackToParent(pot.levels), pot.binds, c)
    BY <1>3, <1>4, <2>1, AfterUp
  <2> QED
    BY <1>2, <1>4, <2>1, <2>2 DEF ReportsAfter
<1>5. ASSUME NEW q \in moved, q.root = r, After(input, u, q.levels, q.binds, c)
      PROVE  ReportsAfter(pots, t, r, c)
  <2>1. PICK pot \in pots : /\ IsLastChild(pot.levels)
                            /\ q.levels = BacktrackToParent(pot.levels)
                            /\ q.root = pot.root /\ q.binds = pot.binds
    BY <1>1
  <2>2. After(input, t, pot.levels, pot.binds, c)
    BY <1>3, <1>5, <2>1, AfterUp
  <2> QED
    BY <1>5, <2>1, <2>2 DEF ReportsAfter
<1> QED
  BY <1>4, <1>5 DEF ReportsAfter, moved

LEMMA OnReports ==
  ASSUME input \in Input, NEW t, Good(t), t # << >>, ~ IsLastChild(t),
         NEW pots, AllInStep(pots, Len(t)), NEW r, NEW c
  PROVE  ReportsAfter(pots, t, r, c) <=>
           ReportsAt(ForEach(Filter(pots, LAMBDA l : ~ IsLastChild(l)), NextSibling),
                     NextSibling(t), r, c)
<1> DEFINE moved == ForEach(Filter(pots, LAMBDA l : ~ IsLastChild(l)), NextSibling)
           u == NextSibling(t)
<1>1. ASSUME NEW q \in moved
      PROVE  \E pot \in pots : /\ ~ IsLastChild(pot.levels)
                               /\ q.levels = NextSibling(pot.levels)
                               /\ q.root = pot.root /\ q.binds = pot.binds
  BY MovedOn
<1>2. ASSUME NEW pot \in pots, ~ IsLastChild(pot.levels)
      PROVE  \E q \in moved : /\ q.levels = NextSibling(pot.levels)
                              /\ q.root = pot.root /\ q.binds = pot.binds
  BY <1>2, KeptOn
<1>3. \A pot \in pots : Pair(t, pot.levels)
  BY InStepPair
<1> HIDE DEF moved
<1>4. ASSUME NEW pot \in pots, pot.root = r, After(input, t, pot.levels, pot.binds, c)
      PROVE  ReportsAt(moved, u, r, c)
  <2>1. ~ IsLastChild(pot.levels)
    BY <1>3, <1>4, AfterLost
  <2>2. At(input, u, NextSibling(pot.levels), pot.binds, c)
    BY <1>3, <1>4, <2>1, AfterOn
  <2> QED
    BY <1>2, <1>4, <2>1, <2>2 DEF ReportsAt
<1>5. ASSUME NEW q \in moved, q.root = r, At(input, u, q.levels, q.binds, c)
      PROVE  ReportsAfter(pots, t, r, c)
  <2>1. PICK pot \in pots : /\ ~ IsLastChild(pot.levels)
                            /\ q.levels = NextSibling(pot.levels)
                            /\ q.root = pot.root /\ q.binds = pot.binds
    BY <1>1
  <2>2. After(input, t, pot.levels, pot.binds, c)
    BY <1>3, <1>5, <2>1, AfterOn
  <2> QED
    BY <1>5, <2>1, <2>2 DEF ReportsAfter
<1> QED
  BY <1>4, <1>5 DEF ReportsAfter, ReportsAt, moved

(* Behind compare(): kept are those of pots that are like the template,    *)
(* with the name of the node bound if it is a metavariable.                *)
Compared(pots, t, kept) ==
  /\ \A q \in kept : \E pot \in pots :
       /\ Likes(t, pot.levels) /\ q.root = pot.root /\ q.levels = pot.levels
       /\ q.binds = BoundAt(t, pot.levels, pot.binds)
  /\ \A pot \in pots : Likes(t, pot.levels) => \E q \in kept :
       /\ q.root = pot.root /\ q.levels = pot.levels
       /\ q.binds = BoundAt(t, pot.levels, pot.binds)

LEMMA DownReports ==
  ASSUME input \in Input, NEW t, Good(t), t # << >>, HasChildren(t),
         \A m \in input.metas[GetCurrent(t)] : m.nameOnly,
         NEW pots, AllInStep(pots, Len(t)), NEW kept, AllInStep(kept, Len(t)),
         Compared(pots, t, kept), NEW r, NEW c
  PROVE  ReportsAt(pots, t, r, c) <=>
           ReportsAt(ForEach(Filter(kept, HasChildren), DescendToChild),
                     DescendToChild(t), r, c)
<1> DEFINE moved == ForEach(Filter(kept, HasChildren), DescendToChild)
           u == DescendToChild(t)
<1>1. ASSUME NEW q \in moved
      PROVE  \E pot \in kept : /\ HasChildren(pot.levels)
                               /\ q.levels = DescendToChild(pot.levels)
                               /\ q.root = pot.root /\ q.binds = pot.binds
  BY MovedDown
<1>2. ASSUME NEW pot \in kept, HasChildren(pot.levels)
      PROVE  \E q \in moved : /\ q.levels = DescendToChild(pot.levels)
                              /\ q.root = pot.root /\ q.binds = pot.binds
  BY <1>2, KeptDown
<1>3. \A pot \in pots : Pair(t, pot.levels)
  BY InStepPair
<1> HIDE DEF moved
<1>4. ASSUME NEW pot \in pots, pot.root = r, At(input, t, pot.levels, pot.binds, c)
      PROVE  ReportsAt(moved, u, r, c)
  <2>1. Likes(t, pot.levels) /\ HasChildren(pot.levels)
    BY <1>3, <1>4, AtLost
  <2>2. At(input, u, DescendToChild(pot.levels), BoundAt(t, pot.levels, pot.binds), c)
    BY <1>3, <1>4, <2>1, AtDown
  <2>3. PICK k \in kept : /\ k.root = pot.root /\ k.levels = pot.levels
                          /\ k.binds = BoundAt(t, pot.levels, pot.binds)
    BY <2>1, Zenon DEF Compared
  <2>4. PICK q \in moved : /\ q.levels = DescendToChild(k.levels)
                           /\ q.root = k.root /\ q.binds = k.binds
    BY <1>2, <2>1, <2>3
  <2>5. q.root = r /\ At(input, u, q.levels, q.binds, c)
    BY <1>4, <2>2, <2>3, <2>4
  <2> QED
    BY <2>5 DEF ReportsAt
<1>5. ASSUME NEW q \in moved, q.root = r, At(input, u, q.levels, q.binds, c)
      PROVE  ReportsAt(pots, t, r, c)
  <2>1. PICK k \in kept : /\ q.levels = DescendToChild(k.levels)
                          /\ q.root = k.root /\ q.binds = k.binds
    BY <1>1
  <2>2. PICK pot \in pots : /\ Likes(t, pot.levels) /\ k.root = pot.root
                            /\ k.levels = pot.levels
                            /\ k.binds = BoundAt(t, pot.levels, pot.binds)
    BY Zenon DEF Compared
  <2>3. At(input, u, DescendToChild(pot.levels), BoundAt(t, pot.levels, pot.binds), c)
    BY <1>5, <2>1, <2>2
  <2>4. At(input, t, pot.levels, pot.binds, c)
    BY <1>3, <2>2, <2>3, AtDown
  <2>5. pot.root = r
    BY <1>5, <2>1, <2>2
  <2> QED
    BY <2>4, <2>5 DEF ReportsAt
<1> QED
  BY <1>4, <1>5 DEF ReportsAt, moved

LEMMA DoneReports ==
  ASSUME input \in Input, NEW t, Good(t), t # << >>, ~ HasChildren(t),
         \A m \in input.metas[GetCurrent(t)] : m.nameOnly,
         NEW pots, AllInStep(pots, Len(t)), NEW kept, Compared(pots, t, kept),
         NEW r, NEW c
  PROVE  ReportsAt(pots, t, r, c) <=>
           ReportsAfter(Filter(kept, LAMBDA l : ~ HasChildren(l)), t, r, c)
<1> DEFINE childless == Filter(kept, LAMBDA l : ~ HasChildren(l))
<1>1. \A q : q \in childless <=> q \in kept /\ ~ HasChildren(q.levels)
  BY DEF Filter
<1>2. \A pot \in pots : Pair(t, pot.levels) /\ pot.binds \in Bindings
  BY InStepPair
<1> HIDE DEF childless
<1>3. ASSUME NEW pot \in pots, pot.root = r, At(input, t, pot.levels, pot.binds, c)
      PROVE  ReportsAfter(childless, t, r, c)
  <2>1. Likes(t, pot.levels) /\ ~ HasChildren(pot.levels)
    BY <1>2, <1>3, AtLost
  <2>2. After(input, t, pot.levels, BoundAt(t, pot.levels, pot.binds), c)
    BY <1>2, <1>3, <2>1, AtDone
  <2>3. PICK k \in kept : /\ k.root = pot.root /\ k.levels = pot.levels
                          /\ k.binds = BoundAt(t, pot.levels, pot.binds)
    BY <2>1, Zenon DEF Compared
  <2>4. k \in childless /\ k.root = r /\ After(input, t, k.levels, k.binds, c)
    BY <1>1, <1>3, <2>1, <2>2, <2>3
  <2> QED
    BY <2>4 DEF ReportsAfter
<1>4. ASSUME NEW q \in childless, q.root = r, After(input, t, q.levels, q.binds, c)
      PROVE  ReportsAt(pots, t, r, c)
  <2>1. q \in kept /\ ~ HasChildren(q.levels)
    BY <1>1
  <2>2. PICK pot \in pots : /\ Likes(t, pot.levels) /\ q.root = pot.root
                            /\ q.levels = pot.levels
                            /\ q.binds = BoundAt(t, pot.levels, pot.binds)
    BY <2>1, Zenon DEF Compared
  <2>3. After(input, t, pot.levels, BoundAt(t, pot.levels, pot.binds), c)
    BY <1>4, <2>2
  <2>4. At(input, t, pot.levels, pot.binds, c)
    BY <1>2, <2>1, <2>2, <2>3, AtDone
  <2>5. pot.root = r
    BY <1>4, <2>2
  <2> QED
    BY <2>4, <2>5 DEF ReportsAt
<1> QED
  BY <1>3, <1>4 DEF ReportsAt, ReportsAfter, childless

(* Behind a metavariable that stands for the siblings up to e.             *)
LEMMA ExtendedReports ==
  ASSUME IInv, AtMetavariable,
         NEW e \in Top(trav).at .. Len(Top(trav).sibs),
         \A k \in Top(trav).at .. e : SameMetavariable(Top(trav).sibs[k]),
         e # Len(Top(trav).sibs) => ~ SameMetavariable(Top(trav).sibs[e + 1]),
         NEW r, NEW c
  PROVE  ReportsAt(potentials, trav, r, c) <=>
           ReportsAfter(Extended, MoveTo(trav, e), r, c)
<1> DEFINE t == MoveTo(trav, e)
           Run(pot, i) == SubSeq(Top(pot.levels).sibs, Top(pot.levels).at, i)
<1>1. /\ Matching /\ Meta \in input.metas[curr] /\ curr \in Node
      /\ input \in Input /\ Good(trav) /\ trav # << >>
  BY AtMetavariableFacts
<1>2. AllInStep(potentials, Len(trav))
  BY <1>1, InMatch
<1>3. ~ Meta.nameOnly
  <2>1. \A m, k \in input.metas[curr] : m = k
    BY <1>1, MapsToOne
  <2>2. PICK m \in input.metas[curr] : ~ m.nameOnly
    BY DEF AtMetavariable
  <2>3. m = Meta
    BY <1>1, <2>1, <2>2
  <2> QED
    BY <2>2, <2>3, Zenon
<1>4. \A pot \in potentials : Pair(trav, pot.levels) /\ pot.binds \in Bindings
  BY <1>1, <1>2, InStepPair
<1>5. /\ \A k \in Top(trav).at .. e : MapsIn(input, Top(trav).sibs[k], Meta.identifier)
      /\ e # Len(Top(trav).sibs) => ~ MapsIn(input, Top(trav).sibs[e + 1], Meta.identifier)
  BY DEF SameMetavariable, MapsIn
<1>6. ASSUME NEW pot \in potentials
      PROVE  At(input, trav, pot.levels, pot.binds, c) <=>
               \E i \in Top(pot.levels).at .. Len(Top(pot.levels).sibs) :
                 After(input, t, MoveTo(pot.levels, i),
                       Insert(pot.binds, Meta.identifier, Run(pot, i)), c)
  BY <1>1, <1>3, <1>4, <1>5, AtWhole DEF curr
<1>7. ASSUME NEW q \in Extended
      PROVE  \E pot \in potentials : \E i \in Top(pot.levels).at .. Len(Top(pot.levels).sibs) :
               /\ q.root = pot.root /\ q.levels = MoveTo(pot.levels, i)
               /\ q.binds = Insert(pot.binds, Meta.identifier, Run(pot, i))
  BY <1>2, ExtendedParts
<1>8. ASSUME NEW pot \in potentials,
             NEW i \in Top(pot.levels).at .. Len(Top(pot.levels).sibs)
      PROVE  \E q \in Extended :
               /\ q.root = pot.root /\ q.levels = MoveTo(pot.levels, i)
               /\ q.binds = Insert(pot.binds, Meta.identifier, Run(pot, i))
  BY <1>2, KeptExtended
<1> HIDE DEF t, Run
<1>9. ASSUME NEW pot \in potentials, pot.root = r, At(input, trav, pot.levels, pot.binds, c)
      PROVE  ReportsAfter(Extended, t, r, c)
  <2>1. PICK i \in Top(pot.levels).at .. Len(Top(pot.levels).sibs) :
          After(input, t, MoveTo(pot.levels, i),
                Insert(pot.binds, Meta.identifier, Run(pot, i)), c)
    BY <1>6, <1>9
  <2>2. PICK q \in Extended :
          /\ q.root = pot.root /\ q.levels = MoveTo(pot.levels, i)
          /\ q.binds = Insert(pot.binds, Meta.identifier, Run(pot, i))
    BY <1>8
  <2>3. q.root = r /\ After(input, t, q.levels, q.binds, c)
    BY <1>9, <2>1, <2>2
  <2> QED
    BY <2>3 DEF ReportsAfter
<1>10. ASSUME NEW q \in Extended, q.root = r, After(input, t, q.levels, q.binds, c)
       PROVE  ReportsAt(potentials, trav, r, c)
  <2>1. PICK pot \in potentials : \E i \in Top(pot.levels).at .. Len(Top(pot.levels).sibs) :
          /\ q.root = pot.root /\ q.levels = MoveTo(pot.levels, i)
          /\ q.binds = Insert(pot.binds, Meta.identifier, Run(pot, i))
    BY <1>7
  <2>2. PICK i \in Top(pot.levels).at .. Len(Top(pot.levels).sibs) :
          /\ q.root = pot.root /\ q.levels = MoveTo(pot.levels, i)
          /\ q.binds = Insert(pot.binds, Meta.identifier, Run(pot, i))
    BY <2>1
  <2>3. After(input, t, MoveTo(pot.levels, i),
              Insert(pot.binds, Meta.identifier, Run(pot, i)), c)
    BY <1>10, <2>2
  <2>4. At(input, trav, pot.levels, pot.binds, c)
    BY <1>6, <2>3
  <2>5. pot.root = r
    BY <1>10, <2>2
  <2> QED
    BY <2>4, <2>5 DEF ReportsAt
<1> QED
  BY <1>9, <1>10 DEF ReportsAt, ReportsAfter, t

(* The three ways in which the template traversal goes on.                 *)
LEMMA UpForeseen ==
  ASSUME input \in Input, Good(trav), trav # << >>, IsLastChild(trav),
         NEW pots, AllInStep(pots, Len(trav)), GoUp(pots),
         \A r, c : ReportsAfter(pots, trav, r, c) <=> Promised(r, c)
  PROVE  Foreseen
<1> DEFINE moved == ForEach(Filter(pots, IsLastChild), BacktrackToParent)
           u == BacktrackToParent(trav)
<1>1. potentials' = moved /\ trav' = u
  BY DEF GoUp
<1>2. backtracked' = TRUE
  BY Zenon DEF GoUp
<1>3. \A r, c : ReportsAfter(pots, trav, r, c) <=> ReportsAfter(moved, u, r, c)
  BY UpReports
<1> HIDE DEF moved, u
<1>4. \A r, c : ReportsAfter(moved, u, r, c) <=> Promised(r, c)
  BY <1>3, Zenon
<1> QED
  BY <1>1, <1>2, <1>4, Zenon DEF Foreseen

LEMMA OnForeseen ==
  ASSUME input \in Input, Good(trav), trav # << >>, ~ IsLastChild(trav),
         NEW pots, AllInStep(pots, Len(trav)), GoOn(pots),
         \A r, c : ReportsAfter(pots, trav, r, c) <=> Promised(r, c)
  PROVE  Foreseen
<1> DEFINE moved == ForEach(Filter(pots, LAMBDA l : ~ IsLastChild(l)), NextSibling)
           u == NextSibling(trav)
<1>1. potentials' = moved /\ trav' = u
  BY DEF GoOn
<1>2. backtracked' = FALSE
  BY Zenon DEF GoOn
<1>3. \A r, c : ReportsAfter(pots, trav, r, c) <=> ReportsAt(moved, u, r, c)
  BY OnReports
<1>4. u # << >>
  BY NextSiblingGood
<1> HIDE DEF moved, u
<1>5. \A r, c : ReportsAt(moved, u, r, c) <=> Promised(r, c)
  BY <1>3, Zenon
<1> QED
  BY <1>1, <1>2, <1>4, <1>5, Zenon DEF Foreseen

LEMMA FromForeseen ==
  ASSUME IInv, Matching, \A m \in input.metas[curr] : m.nameOnly,
         NEW kept, AllInStep(kept, Len(trav)), Compared(potentials, trav, kept),
         GoOnFrom(kept),
         \A r, c : ReportsAt(potentials, trav, r, c) <=> Promised(r, c)
  PROVE  Foreseen
<1> DEFINE childless == Filter(kept, LAMBDA l : ~ HasChildren(l))
           moved == ForEach(Filter(kept, HasChildren), DescendToChild)
           u == DescendToChild(trav)
<1>1. /\ input \in Input /\ Good(trav) /\ trav # << >> /\ AllInStep(potentials, Len(trav))
      /\ \A m \in input.metas[GetCurrent(trav)] : m.nameOnly
  BY InMatch DEF curr
<1>2. CASE HasChildren(trav)
  <2>1. GoDown(kept)
    BY <1>2 DEF GoOnFrom
  <2>2. potentials' = moved /\ trav' = u
    BY <2>1 DEF GoDown
  <2>3. backtracked' = FALSE
    BY <2>1, Zenon DEF GoDown
  <2>4. \A r, c : ReportsAt(potentials, trav, r, c) <=> ReportsAt(moved, u, r, c)
    BY <1>1, <1>2, DownReports
  <2>5. u # << >>
    BY <1>1, <1>2, DescendGood
  <2> HIDE DEF moved, u
  <2>6. \A r, c : ReportsAt(moved, u, r, c) <=> Promised(r, c)
    BY <2>4, Zenon
  <2> QED
    BY <2>2, <2>3, <2>5, <2>6, Zenon DEF Foreseen
<1>3. CASE ~ HasChildren(trav)
  <2>1. \A r, c : ReportsAt(potentials, trav, r, c) <=> ReportsAfter(childless, trav, r, c)
    BY <1>1, <1>3, DoneReports
  <2>2. AllInStep(childless, Len(trav))
    BY FilterInStep
  <2>3. \/ IsLastChild(trav) /\ GoUp(childless)
        \/ ~ IsLastChild(trav) /\ GoOn(childless)
    BY <1>3 DEF GoOnFrom
  <2> HIDE DEF childless
  <2>4. \A r, c : ReportsAfter(childless, trav, r, c) <=> Promised(r, c)
    BY <2>1, Zenon
  <2> QED
    BY <1>1, <2>2, <2>3, <2>4, UpForeseen, OnForeseen
<1> QED
  BY <1>2, <1>3

LEMMA ExactEstablished ==
  ASSUME input' = input, ~ RunToTheEnd => Foreseen
  PROVE  ExactInv'
<1>1. RunToTheEnd' <=> RunToTheEnd
  BY DEF RunToTheEnd, MapsTo, Kids, KindOf
<1>2. \A r, c : Promised(r, c)' <=> Promised(r, c)
  BY DEF Promised, PotentialRoots, Kids, KindOf
<1>3. \A r, c : ReportsAfter(potentials, trav, r, c)' <=> ReportsAfter(potentials', trav', r, c)
  BY DEF ReportsAfter
<1>4. \A r, c : ReportsAt(potentials, trav, r, c)' <=> ReportsAt(potentials', trav', r, c)
  BY DEF ReportsAt
<1> SUFFICES ASSUME Foreseen
             PROVE  /\ backtracked' => \A r, c : ReportsAfter(potentials, trav, r, c)'
                                                   <=> Promised(r, c)'
                    /\ ~ backtracked' =>
                         /\ trav' # << >>
                         /\ \A r, c : ReportsAt(potentials, trav, r, c)'
                                        <=> Promised(r, c)'
  BY <1>1, Zenon DEF ExactInv
<1> QED
  BY <1>2, <1>3, <1>4, Zenon DEF Foreseen

LEMMA ExactInMatch ==
  ASSUME IInv, ExactInv, Matching, ~ RunToTheEnd
  PROVE  /\ backtracked => \A r, c : ReportsAfter(potentials, trav, r, c) <=> Promised(r, c)
         /\ ~ backtracked => \A r, c : ReportsAt(potentials, trav, r, c) <=> Promised(r, c)
<1>1. phase # "gather"
  BY DEF Matching
<1> QED
  BY <1>1, Zenon DEF ExactInv

LEMMA AfterChildrenExact ==
  ASSUME IInv, ExactInv, AfterChildren
  PROVE  ExactInv'
<1>1. /\ Matching /\ backtracked /\ input' = input
      /\ \/ IsLastChild(trav) /\ GoUp(potentials)
         \/ ~ IsLastChild(trav) /\ GoOn(potentials)
  BY DEF AfterChildren
<1>2. /\ input \in Input /\ Good(trav) /\ trav # << >> /\ AllInStep(potentials, Len(trav))
  BY <1>1, InMatch
<1>3. ASSUME ~ RunToTheEnd
      PROVE  Foreseen
  <2>1. \A r, c : ReportsAfter(potentials, trav, r, c) <=> Promised(r, c)
    BY <1>1, <1>3, ExactInMatch, Zenon
  <2> QED
    BY <1>1, <1>2, <2>1, UpForeseen, OnForeseen
<1> QED
  BY <1>1, <1>3, ExactEstablished

LEMMA ComparePlainExact ==
  ASSUME IInv, ExactInv, ComparePlain
  PROVE  ExactInv'
<1> DEFINE same == {pot \in potentials : Alike(pot, FALSE)}
<1>1. /\ Matching /\ ~ backtracked /\ input.metas[curr] = {}
      /\ GoOnFrom(same) /\ input' = input
  BY DEF ComparePlain, Comparing
<1>2. AllInStep(potentials, Len(trav)) /\ Good(trav) /\ trav # << >>
  BY <1>1, InMatch
<1>3. \A pot : pot \in same <=> pot \in potentials /\ Alike(pot, FALSE)
  OBVIOUS
<1> HIDE DEF same
<1>4. AllInStep(same, Len(trav))
  BY <1>2, <1>3 DEF AllInStep
<1>5. ASSUME NEW pot \in potentials
      PROVE  /\ Likes(trav, pot.levels) <=> Alike(pot, FALSE)
             /\ BoundAt(trav, pot.levels, pot.binds) = pot.binds
  <2>1. (input.metas[curr] # {}) = FALSE
    BY <1>1
  <2>2. Likes(trav, pot.levels) <=> Alike(pot, FALSE)
    BY <2>1, Zenon DEF Likes, Alike, curr
  <2>3. pot.binds \in Bindings
    BY <1>2, InStepPair
  <2>4. Own(input, GetCurrent(trav), GetCurrent(pot.levels)) = << >>
    BY <1>1 DEF Own, curr
  <2>5. BoundAt(trav, pot.levels, pot.binds) = pot.binds
    BY <2>3, <2>4, MergeNone DEF BoundAt
  <2> QED
    BY <2>2, <2>5
<1>6. Compared(potentials, trav, same)
  BY <1>3, <1>5 DEF Compared
<1>7. \A m \in input.metas[curr] : m.nameOnly
  BY <1>1
<1>8. ASSUME ~ RunToTheEnd
      PROVE  Foreseen
  <2>1. \A r, c : ReportsAt(potentials, trav, r, c) <=> Promised(r, c)
    BY <1>1, <1>8, ExactInMatch, Zenon
  <2> QED
    BY <1>1, <1>4, <1>6, <1>7, <2>1, FromForeseen
<1> QED
  BY <1>1, <1>8, ExactEstablished

LEMMA CompareNameOnlyExact ==
  ASSUME IInv, ExactInv, CompareNameOnly
  PROVE  ExactInv'
<1> DEFINE same == {pot \in potentials : Alike(pot, TRUE)}
           bound == {Instantiate(pot, Meta) : pot \in same}
<1>1. /\ Matching /\ ~ backtracked /\ input.metas[curr] # {}
      /\ \A m \in input.metas[curr] : m.nameOnly
      /\ GoOnFrom(bound) /\ input' = input
  BY DEF CompareNameOnly, Comparing
<1>2. AllInStep(potentials, Len(trav)) /\ Good(trav) /\ trav # << >>
      /\ Len(trav) \in Nat \ {0}
  BY <1>1, InMatch
<1>3. Meta \in Metavariable
  BY <1>1, MetaIsOne
<1>4. \A pot : pot \in same <=> pot \in potentials /\ Alike(pot, TRUE)
  OBVIOUS
<1>5. ASSUME NEW pot \in potentials
      PROVE  /\ Likes(trav, pot.levels) <=> Alike(pot, TRUE)
             /\ InStep(Instantiate(pot, Meta), Len(trav))
             /\ Instantiate(pot, Meta).root = pot.root
             /\ Instantiate(pot, Meta).levels = pot.levels
             /\ Instantiate(pot, Meta).binds = BoundAt(trav, pot.levels, pot.binds)
  <2>1. (input.metas[curr] # {}) = TRUE
    BY <1>1
  <2>2. Likes(trav, pot.levels) <=> Alike(pot, TRUE)
    BY <2>1, Zenon DEF Likes, Alike, curr
  <2>3. InStep(pot, Len(trav)) /\ pot.binds \in Bindings
    BY <1>2, InStepPair DEF AllInStep
  <2>4. InStep(Instantiate(pot, Meta), Len(trav))
    BY <1>2, <1>3, <2>3, InstantiateInStep
  <2>5. pot \in PotentialMatches
    BY <2>3 DEF InStep
  <2>6. /\ Instantiate(pot, Meta).root = pot.root
        /\ Instantiate(pot, Meta).levels = pot.levels
        /\ Instantiate(pot, Meta).binds
             = Insert(pot.binds, Meta.identifier, <<GetCurrent(pot.levels)>>)
    BY <2>5 DEF Instantiate, PotentialMatches
  <2>7. Own(input, GetCurrent(trav), GetCurrent(pot.levels))
          = Bind(Meta.identifier, <<GetCurrent(pot.levels)>>)
    BY <1>1 DEF Own, curr, MetaOf, Meta
  <2>8. BoundAt(trav, pot.levels, pot.binds)
          = Insert(pot.binds, Meta.identifier, <<GetCurrent(pot.levels)>>)
    BY <2>3, <2>7, InsertMerges DEF BoundAt
  <2> QED
    BY <2>2, <2>4, <2>6, <2>8
<1>6. \A q : q \in bound <=> \E pot \in same : q = Instantiate(pot, Meta)
  OBVIOUS
<1> HIDE DEF same, bound
<1>7. AllInStep(bound, Len(trav))
  BY <1>4, <1>5, <1>6 DEF AllInStep
<1>8. Compared(potentials, trav, bound)
  <2>1. ASSUME NEW q \in bound
        PROVE  \E pot \in potentials :
                 /\ Likes(trav, pot.levels) /\ q.root = pot.root /\ q.levels = pot.levels
                 /\ q.binds = BoundAt(trav, pot.levels, pot.binds)
    <3>1. PICK pot \in same : q = Instantiate(pot, Meta)
      BY <1>6
    <3>2. pot \in potentials /\ Likes(trav, pot.levels)
      BY <1>4, <1>5
    <3>3. /\ q.root = pot.root /\ q.levels = pot.levels
          /\ q.binds = BoundAt(trav, pot.levels, pot.binds)
      BY <1>5, <3>1, <3>2
    <3> QED
      BY <3>2, <3>3
  <2>2. ASSUME NEW pot \in potentials, Likes(trav, pot.levels)
        PROVE  \E q \in bound :
                 /\ q.root = pot.root /\ q.levels = pot.levels
                 /\ q.binds = BoundAt(trav, pot.levels, pot.binds)
    <3>1. Instantiate(pot, Meta) \in bound
      BY <1>4, <1>5, <1>6, <2>2
    <3> QED
      BY <1>5, <3>1
  <2> QED
    BY <2>1, <2>2 DEF Compared
<1>9. ASSUME ~ RunToTheEnd
      PROVE  Foreseen
  <2>1. \A r, c : ReportsAt(potentials, trav, r, c) <=> Promised(r, c)
    BY <1>1, <1>9, ExactInMatch, Zenon
  <2> QED
    BY <1>1, <1>7, <1>8, <2>1, FromForeseen
<1> QED
  BY <1>1, <1>9, ExactEstablished

LEMMA MetavariableLastExact ==
  ASSUME IInv, ExactInv, MetavariableLast
  PROVE  ExactInv'
<1> DEFINE e == Top(trav).at
<1>1. AtMetavariable /\ IsLastChild(trav) /\ GoUp(Extended) /\ input' = input
  BY DEF MetavariableLast
<1>2. /\ Good(trav) /\ trav # << >> /\ Matching /\ ~ backtracked /\ input \in Input
      /\ e \in e .. Len(Top(trav).sibs) /\ e .. e = {e}
      /\ SameMetavariable(Top(trav).sibs[e]) /\ e = Len(Top(trav).sibs)
  BY <1>1, AtMetavariableFacts DEF SameMetavariable, IsLastChild
<1>3. \A k \in e .. e : SameMetavariable(Top(trav).sibs[k])
  BY <1>2
<1>4. MoveTo(trav, e) = trav
  BY <1>2, MoveStays
<1>5. \A r, c : ReportsAt(potentials, trav, r, c) <=> ReportsAfter(Extended, trav, r, c)
  <2>1. \A r, c : ReportsAt(potentials, trav, r, c)
                    <=> ReportsAfter(Extended, MoveTo(trav, e), r, c)
    BY <1>1, <1>2, <1>3, ExtendedReports
  <2> QED
    BY <1>4, <2>1
<1>6. AllInStep(Extended, Len(trav))
  BY <1>1, ExtendedInStep
<1>7. ASSUME ~ RunToTheEnd
      PROVE  Foreseen
  <2>1. \A r, c : ReportsAt(potentials, trav, r, c) <=> Promised(r, c)
    BY <1>2, <1>7, ExactInMatch, Zenon
  <2>2. \A r, c : ReportsAfter(Extended, trav, r, c) <=> Promised(r, c)
    BY <1>5, <2>1, Zenon
  <2> QED
    BY <1>1, <1>2, <1>6, <2>2, UpForeseen
<1> QED
  BY <1>1, <1>7, ExactEstablished

LEMMA MetavariableThenOtherExact ==
  ASSUME IInv, ExactInv, MetavariableThenOther
  PROVE  ExactInv'
<1> DEFINE s == Top(trav).sibs
           at == Top(trav).at
<1>1. /\ AtMetavariable /\ ~ IsLastChild(trav) /\ potentials' = Proceeded
      /\ input' = input
  BY DEF MetavariableThenOther
<1>2. backtracked' = FALSE
  BY Zenon DEF MetavariableThenOther
<1>3. PICK i \in NextOther : trav' = MoveTo(trav, i)
  BY DEF MetavariableThenOther
<1>4. /\ Good(trav) /\ trav # << >> /\ Matching /\ ~ backtracked /\ input \in Input
      /\ s \in Seq(Node) /\ Len(s) \in Nat /\ at \in Nat \ {0} /\ at \in 1 .. Len(s)
      /\ SameMetavariable(s[at])
  BY <1>1, AtMetavariableFacts DEF SameMetavariable
<1> DEFINE others == {j \in at + 1 .. Len(s) : ~ SameMetavariable(s[j])}
<1>5. i \in others /\ \A j \in others : i <= j
  BY <1>3 DEF NextOther
<1>6. i \in at + 1 .. Len(s) /\ ~ SameMetavariable(s[i])
  BY <1>5
<1> DEFINE e == i - 1
<1>7. e \in at .. Len(s) /\ e \in 1 .. Len(s) /\ e + 1 = i /\ i \in 1 .. Len(s)
      /\ e < Len(s)
  BY <1>4, <1>6
<1>8. ASSUME NEW k \in at .. e
      PROVE  SameMetavariable(s[k])
  <2>1. CASE k = at
    BY <1>4, <2>1
  <2>2. CASE k # at
    <3>1. k \in at + 1 .. Len(s) /\ ~ (i <= k)
      BY <1>4, <1>6, <1>7, <2>2
    <3> QED
      BY <1>5, <3>1
  <2> QED
    BY <2>1, <2>2
<1> HIDE DEF e, others
<1> DEFINE t == MoveTo(trav, e)
<1>9. \A r, c : ReportsAt(potentials, trav, r, c) <=> ReportsAfter(Extended, t, r, c)
  BY <1>1, <1>6, <1>7, <1>8, ExtendedReports
<1>10. AllInStep(Extended, Len(trav))
  BY <1>1, <1>4, ExtendedInStep
<1>11. Good(t) /\ t # << >> /\ Len(t) = Len(trav)
  BY <1>4, <1>7, MoveGood
<1>12. Top(t).at = e /\ Top(t).sibs = s
  <2>1. Len(trav) \in Nat /\ Top(trav) = trav[Len(trav)]
    BY <1>4, GoodTop
  <2> QED
    BY <2>1, <1>4, <1>7, MoveShape DEF Top
<1>13. ~ IsLastChild(t)
  BY <1>4, <1>7, <1>12 DEF IsLastChild
<1>14. NextSibling(t) = MoveTo(trav, i)
  BY <1>4, <1>7, <1>12, MoveTwice DEF NextSibling
<1>15. NextSibling(t) # << >>
  BY <1>11, <1>13, NextSiblingGood
<1> HIDE DEF t
<1>16. \A r, c : ReportsAfter(Extended, t, r, c) <=> ReportsAt(Proceeded, NextSibling(t), r, c)
  BY <1>4, <1>10, <1>11, <1>13, OnReports DEF Proceeded
<1>17. trav' = NextSibling(t)
  BY <1>3, <1>14
<1>18. ASSUME ~ RunToTheEnd
       PROVE  Foreseen
  <2>1. \A r, c : ReportsAt(potentials, trav, r, c) <=> Promised(r, c)
    BY <1>4, <1>18, ExactInMatch, Zenon
  <2>2. \A r, c : ReportsAt(Proceeded, NextSibling(t), r, c) <=> Promised(r, c)
    BY <1>9, <1>16, <2>1, Zenon
  <2> QED
    BY <1>1, <1>2, <1>15, <1>17, <2>2, Zenon DEF Foreseen
<1> QED
  BY <1>1, <1>18, ExactEstablished

LEMMA MetavariableToTheEndExact ==
  ASSUME IInv, GenuineInv, MetavariableToTheEnd
  PROVE  ExactInv'
<1>1. AtMetavariable /\ input' = input
  BY DEF MetavariableToTheEnd
<1>2. trav # << >> /\ Matching
  BY <1>1, AtMetavariableFacts
<1>3. Inside(input, trav)
  BY <1>2, GenuineInMatch
<1>4. RunToTheEnd
  BY <1>2, <1>3, OnlyRunToTheEnd DEF Inside
<1> QED
  BY <1>1, <1>4, ExactEstablished

LEMMA GatherExact ==
  ASSUME IInv, OwnInv, GatherPotentialMatches
  PROVE  ExactInv'
<1> DEFINE t == <<LevelOf(input.subtrees)>>
<1>1. /\ input \in Input /\ trav' = t /\ input' = input
      /\ potentials' = {PotentialMatch(r) : r \in PotentialRoots}
  BY DEF GatherPotentialMatches, IInv
<1>2. backtracked' = FALSE
  <2>1. backtracked = FALSE
    BY Zenon DEF OwnInv, GatherPotentialMatches
  <2> QED
    BY <2>1, Zenon DEF GatherPotentialMatches
<1>3. input.subtrees \in Seq(Node) /\ input.subtrees # << >> /\ t # << >>
  BY <1>1 DEF Input
<1>4. ASSUME NEW s \in Seq(Node)
      PROVE  Len(<<LevelOf(s)>>) - 1 = 0 /\ FromHere(Top(<<LevelOf(s)>>)) = s
  <2>1. Top(<<LevelOf(s)>>) = LevelOf(s) /\ Len(<<LevelOf(s)>>) = 1
    BY DEF Top
  <2>2. FromHere(LevelOf(s)) = SubSeq(s, 1, Len(s))
    BY DEF FromHere, LevelOf
  <2> QED
    BY <2>1, <2>2, WholeList
<1>5. ASSUME NEW r \in PotentialRoots, NEW c
      PROVE  At(input, t, <<LevelOf(r)>>, << >>, c)
               <=> c \in Matches(input)[<<input.subtrees, r>>]
  <2> DEFINE l == <<LevelOf(r)>>
  <2>1. r \in Seq(Node)
    BY <1>1, RootsAreSiblings
  <2>2. /\ Len(t) - 1 = 0 /\ FromHere(Top(t)) = input.subtrees
        /\ FromHere(Top(l)) = r
    BY <1>3, <1>4, <2>1
  <2> HIDE DEF t, l
  <2>3. At(input, t, l, << >>, c) <=>
          \E x \in Matches(input)[<<input.subtrees, r>>] : Beneath(input, t, l, 0, Merge(<< >>, x), c)
    BY <2>2 DEF At
  <2>4. \A x \in Matches(input)[<<input.subtrees, r>>] : Merge(<< >>, x) = x
    BY <1>1, <1>3, <2>1, MatchesMerged
  <2>5. At(input, t, l, << >>, c) <=>
          \E x \in Matches(input)[<<input.subtrees, r>>] : x = c
    BY <2>3, <2>4, BeneathNothing
  <2> QED
    BY <2>5 DEF l
<1>6. \A r : PotentialMatch(r).root = r /\ PotentialMatch(r).levels = <<LevelOf(r)>>
             /\ PotentialMatch(r).binds = << >>
  BY DEF PotentialMatch
<1> HIDE DEF t
<1>7. ASSUME NEW r, NEW c
      PROVE  ReportsAt(potentials', t, r, c) <=> Promised(r, c)
  <2>1. ASSUME NEW pot \in potentials', pot.root = r,
               At(input, t, pot.levels, pot.binds, c)
        PROVE  Promised(r, c)
    <3>1. PICK k \in PotentialRoots : pot = PotentialMatch(k)
      BY <1>1
    <3>2. k = r /\ At(input, t, <<LevelOf(r)>>, << >>, c)
      BY <1>6, <2>1, <3>1
    <3> QED
      BY <1>5, <3>1, <3>2 DEF Promised
  <2>2. ASSUME Promised(r, c)
        PROVE  ReportsAt(potentials', t, r, c)
    <3>1. r \in PotentialRoots /\ PotentialMatch(r) \in potentials'
      BY <1>1, <2>2 DEF Promised
    <3>2. At(input, t, <<LevelOf(r)>>, << >>, c)
      BY <1>5, <2>2, <3>1 DEF Promised
    <3> QED
      BY <1>6, <3>1, <3>2 DEF ReportsAt
  <2> QED
    BY <2>1, <2>2 DEF ReportsAt
<1>8. Foreseen
  BY <1>1, <1>2, <1>3, <1>7, Zenon DEF Foreseen
<1> QED
  BY <1>1, <1>8, ExactEstablished

LEMMA EndExact ==
  ASSUME ExactInv, CompareCrashes \/ Processed \/ Finished \/ UNCHANGED vars
  PROVE  ExactInv'
<1>1. /\ input' = input /\ trav' = trav /\ backtracked' = backtracked
      /\ potentials' = potentials
      /\ (phase' = phase \/ (phase = "match" /\ phase' = "crashed")
          \/ (phase = "match" /\ phase' = "matched"))
  BY DEF CompareCrashes, Comparing, Matching, Processed, Finished, vars
<1>2. phase' # "gather" => phase # "gather"
  BY <1>1
<1>3. RunToTheEnd' <=> RunToTheEnd
  BY <1>1 DEF RunToTheEnd, MapsTo, Kids, KindOf
<1>4. \A r, c : Promised(r, c)' <=> Promised(r, c)
  BY <1>1 DEF Promised, PotentialRoots, Kids, KindOf
<1>5. \A r, c : ReportsAfter(potentials, trav, r, c)' <=> ReportsAfter(potentials, trav, r, c)
  BY <1>1 DEF ReportsAfter
<1>6. \A r, c : ReportsAt(potentials, trav, r, c)' <=> ReportsAt(potentials, trav, r, c)
  BY <1>1 DEF ReportsAt
<1>7. (backtracked' <=> backtracked) /\ (trav' = << >> <=> trav = << >>)
  BY <1>1, Zenon
<1> QED
  BY <1>2, <1>3, <1>4, <1>5, <1>6, <1>7, Zenon DEF ExactInv

LEMMA NextExact ==
  ASSUME IInv, OwnInv, GenuineInv, ExactInv, [Next]_vars
  PROVE  ExactInv'
  BY GatherExact, AfterChildrenExact, ComparePlainExact, CompareNameOnlyExact,
     MetavariableLastExact, MetavariableThenOtherExact, MetavariableToTheEndExact,
     EndExact DEF Next

LEMMA ExactAtTheEnd ==
  ASSUME IInv, OwnInv, ExactInv
  PROVE  MatchesExact
<1> SUFFICES ASSUME phase = "matched", ~ RunToTheEnd
             PROVE  Found = UNION {{<<r, b>> : b \in Matches(input)[<<input.subtrees, r>>]} :
                                     r \in PotentialRoots}
  BY DEF MatchesExact
<1> DEFINE B(r) == Matches(input)[<<input.subtrees, r>>]
           S(r) == {<<r, b>> : b \in B(r)}
           all == UNION {S(r) : r \in PotentialRoots}
<1>1. trav = << >> /\ phase # "gather"
  BY Zenon DEF OwnInv
<1>2. \A r, c : ReportsAfter(potentials, << >>, r, c) <=> Promised(r, c)
  <2>1. backtracked
    BY <1>1, Zenon DEF ExactInv
  <2> QED
    BY <1>1, <2>1, Zenon DEF ExactInv
<1>3. ASSUME NEW r, NEW c
      PROVE  ReportsAfter(potentials, << >>, r, c) <=>
               \E pot \in potentials : pot.root = r /\ pot.binds = c
  <2>1. Len(<< >>) = 0
    OBVIOUS
  <2>2. ASSUME NEW pot
        PROVE  After(input, << >>, pot.levels, pot.binds, c) <=> pot.binds = c
    BY <2>1, BeneathNothing DEF After
  <2> QED
    BY <2>2, Zenon DEF ReportsAfter
<1>4. \A p : p \in Found <=> \E pot \in potentials : p = <<pot.root, pot.binds>>
  BY DEF Found
<1>5. \A p : p \in all <=> \E r \in PotentialRoots : \E b \in B(r) : p = <<r, b>>
  <2>1. \A r, p : p \in S(r) <=> \E b \in B(r) : p = <<r, b>>
    <3> HIDE DEF B
    <3> QED
      OBVIOUS
  <2>2. \A p : p \in all <=> \E r \in PotentialRoots : p \in S(r)
    <3> HIDE DEF S
    <3> QED
      OBVIOUS
  <2> HIDE DEF S, all
  <2> QED
    BY <2>1, <2>2
<1> HIDE DEF B, S, all
<1>6. ASSUME NEW p \in Found
      PROVE  p \in all
  <2>1. PICK pot \in potentials : p = <<pot.root, pot.binds>>
    BY <1>4
  <2>2. Promised(pot.root, pot.binds)
    BY <1>2, <1>3, <2>1
  <2> QED
    BY <1>5, <2>1, <2>2 DEF Promised, B
<1>7. ASSUME NEW p \in all
      PROVE  p \in Found
  <2>1. PICK r \in PotentialRoots : \E b \in B(r) : p = <<r, b>>
    BY <1>5
  <2>2. PICK b \in B(r) : p = <<r, b>>
    BY <2>1
  <2>3. Promised(r, b)
    BY <2>2 DEF Promised, B
  <2>4. PICK pot \in potentials : pot.root = r /\ pot.binds = b
    BY <1>2, <1>3, <2>3
  <2> QED
    BY <1>4, <2>2, <2>4
<1>8. Found = all
  BY <1>6, <1>7
<1> QED
  BY <1>8 DEF all, S, B

(* The loop never looks at two potential matches together and drops one    *)
(* for good whenever it falls out of step; yet it finds every potential    *)
(* root with every binding under which the template matches it, and        *)
(* nothing else, for any template, any files and any number of             *)
(* metavariables, unless one runs to the end of a list of siblings.        *)
THEOREM FindsExactly == Spec => []MatchesExact
<1>1. Init => IInv /\ OwnInv /\ GenuineInv /\ ExactInv
  <2>1. Init => ExactInv
    BY DEF Init, ExactInv
  <2> QED
    BY <2>1, InitIInv, InitOwn, InitGenuine
<1>2. (IInv /\ OwnInv /\ GenuineInv /\ ExactInv) /\ [Next]_vars
        => (IInv /\ OwnInv /\ GenuineInv /\ ExactInv)'
  BY NextIInv, NextOwn, NextGenuine, NextExact
<1>3. IInv /\ OwnInv /\ ExactInv => MatchesExact
  BY ExactAtTheEnd
<1> QED
  BY <1>1, <1>2, <1>3, PTL DEF Spec
=============================================================================
