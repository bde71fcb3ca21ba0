------------------------ MODULE LHSTemplateTreeProofs ------------------------
(***************************************************************************)
(* What follows from the shape of the tree: no node is searched twice, so  *)
(* that each has one metavariable and none has one below a whole subtree;  *)
(* a template is a run of siblings; parsed metavariables do not overlap;   *)
(* templates and metavariables that are runs of siblings are all found;    *)
(* and what the parser makes is a template as the theorems about the       *)
(* matching loop suppose it.                                               *)
(***************************************************************************)
EXTENDS LHSTemplateParserProofs, TemplateRangeTheorems, FiniteSetTheorems

(* All nodes of the subtrees of a list of nodes.                           *)
Reach(t, s) == UNION {Subtree(t, s[i]) : i \in DOMAIN s}

(* The subtrees of a list have no node in common.                          *)
Apart(t, s) ==
  \A i, j \in DOMAIN s : i # j => Subtree(t, s[i]) \cap Subtree(t, s[j]) = {}

Ahead == Reach(tree, pending) \cup Reach(tree, subtreeQueue)

TraversalInv ==
  /\ Apart(tree, pending)
  /\ Apart(tree, subtreeQueue)
  /\ Reach(tree, pending) \cap Reach(tree, subtreeQueue) = {}

Untouched ==
  phase = "start" =>
    /\ subtreeQueue = << >>
    /\ \A m \in input.metavars : subtreesOf[m] = << >>

(* The nodes given to a metavariable are in the template's map and lie     *)
(* behind, and if it is a full one so does all that is below them.         *)
BehindInv ==
  \A m \in input.metavars : \A n \in Bound(subtreesOf[m]) :
    /\ n \in DOMAIN metavariables /\ n \notin Ahead
    /\ ~ m.nameOnly => Subtree(tree, n) \cap Ahead = {}

TreeInv ==
  /\ TraversalInv /\ Untouched /\ BehindInv
  /\ ExplicitWins

-----------------------------------------------------------------------------
(* Subtrees.                                                               *)

LEMMA SubtreeFacts ==
  ASSUME NEW t \in Tree, NEW n \in Node
  PROVE  /\ n \in Subtree(t, n)
         /\ Subtree(t, n) \subseteq Node
         /\ Closed(t, Subtree(t, n))
         /\ \A S \in SUBSET Node :
              n \in S /\ Closed(t, S) => Subtree(t, n) \subseteq S
<1>1. n \in Subtree(t, n) /\ Subtree(t, n) \subseteq Node
  BY DEF Subtree
<1>2. ASSUME NEW x \in Subtree(t, n), NEW i \in DOMAIN t.kids[x]
      PROVE  t.kids[x][i] \in Subtree(t, n)
  <2>1. x \in Node /\ t.kids[x] \in Seq(Node)
    BY DEF Subtree, Tree
  <2>2. t.kids[x][i] \in Node
    BY <2>1
  <2>3. ASSUME NEW S \in SUBSET Node, n \in S, Closed(t, S)
        PROVE  t.kids[x][i] \in S
    BY <2>3 DEF Subtree, Closed
  <2> QED
    BY <2>2, <2>3 DEF Subtree
<1>3. Closed(t, Subtree(t, n))
  BY <1>2 DEF Closed
<1>4. ASSUME NEW S \in SUBSET Node, n \in S, Closed(t, S)
      PROVE  Subtree(t, n) \subseteq S
  BY <1>4 DEF Subtree
<1> QED
  BY <1>1, <1>3, <1>4

LEMMA SubtreeOfChild ==
  ASSUME NEW t \in Tree, NEW n \in Node, NEW i \in DOMAIN t.kids[n]
  PROVE  /\ t.kids[n][i] \in Node
         /\ Subtree(t, t.kids[n][i]) \subseteq Subtree(t, n)
<1>1. t.kids[n] \in Seq(Node)
  BY DEF Tree
<1>2. t.kids[n][i] \in Node
  BY <1>1
<1>3. t.kids[n][i] \in Subtree(t, n)
  BY SubtreeFacts DEF Closed
<1> QED
  BY <1>2, <1>3, SubtreeFacts

(* A node of a subtree is its root or has its parent there.                *)
LEMMA ParentInSubtree ==
  ASSUME NEW t \in Tree, IsTree(t), NEW n \in Node, NEW p \in Node,
         NEW i \in DOMAIN t.kids[p], t.kids[p][i] \in Subtree(t, n),
         t.kids[p][i] # n
  PROVE  p \in Subtree(t, n)
<1> DEFINE k == t.kids[p][i]
           S == Subtree(t, n) \ {k}
<1> SUFFICES ASSUME p \notin Subtree(t, n)
             PROVE  FALSE
  OBVIOUS
<1>1. n \in S /\ S \in SUBSET Node
  BY SubtreeFacts
<1>2. ASSUME NEW x \in S, NEW j \in DOMAIN t.kids[x]
      PROVE  t.kids[x][j] \in S
  <2>1. x \in Subtree(t, n) /\ x \in Node
    BY SubtreeFacts
  <2>2. t.kids[x][j] \in Subtree(t, n)
    BY <2>1, SubtreeFacts DEF Closed
  <2>3. t.kids[x][j] # k
    BY <2>1 DEF IsTree
  <2> QED
    BY <2>2, <2>3
<1>3. Closed(t, S)
  BY <1>2 DEF Closed
<1>4. Subtree(t, n) \subseteq S
  BY <1>1, <1>3, SubtreeFacts
<1> QED
  BY <1>4

LEMMA NotBelowItself ==
  ASSUME NEW t \in Tree, IsTree(t), NEW n \in Node, NEW i \in DOMAIN t.kids[n]
  PROVE  n \notin Subtree(t, t.kids[n][i])
  BY DEF IsTree

(* The subtrees of two siblings have nothing in common.                    *)
LEMMA SiblingsApart ==
  ASSUME NEW t \in Tree, IsTree(t), NEW n \in Node,
         NEW i \in DOMAIN t.kids[n], NEW j \in DOMAIN t.kids[n], i # j
  PROVE  Subtree(t, t.kids[n][i]) \cap Subtree(t, t.kids[n][j]) = {}
<1> DEFINE a == t.kids[n][i]
           b == t.kids[n][j]
           S == Subtree(t, a) \ Subtree(t, b)
<1>1. a \in Node /\ b \in Node
  BY SubtreeOfChild
<1>2. a # b
  BY DEF IsTree
<1>3. n \notin Subtree(t, a) /\ n \notin Subtree(t, b)
  BY NotBelowItself
<1>4. a \in Subtree(t, a) /\ S \in SUBSET Node
  BY <1>1, SubtreeFacts
<1>5. a \notin Subtree(t, b)
  BY <1>1, <1>2, <1>3, ParentInSubtree
<1>6. ASSUME NEW x \in S, NEW l \in DOMAIN t.kids[x]
      PROVE  t.kids[x][l] \in S
  <2>1. x \in Subtree(t, a) /\ x \in Node /\ x \notin Subtree(t, b)
    BY <1>4
  <2>2. t.kids[x][l] \in Subtree(t, a)
    BY <1>1, <2>1, SubtreeFacts DEF Closed
  <2>3. t.kids[x][l] # b
    <3>1. t.kids[x][l] = t.kids[n][j] => x = n
      BY <2>1 DEF IsTree
    <3> QED
      BY <3>1, <2>1, <1>3
  <2>4. t.kids[x][l] \notin Subtree(t, b)
    BY <1>1, <2>1, <2>3, ParentInSubtree
  <2> QED
    BY <2>2, <2>4
<1>7. Closed(t, S)
  BY <1>6 DEF Closed
<1>8. Subtree(t, a) \subseteq S
  BY <1>1, <1>4, <1>5, <1>7, SubtreeFacts
<1> QED
  BY <1>8
-----------------------------------------------------------------------------
(* Lists of nodes.                                                         *)

LEMMA ReachOf ==
  ASSUME NEW t, NEW s, NEW i \in DOMAIN s, NEW k \in Subtree(t, s[i])
  PROVE  k \in Reach(t, s)
  BY DEF Reach

LEMMA ReachEmpty ==
  ASSUME NEW t
  PROVE  Reach(t, << >>) = {} /\ Apart(t, << >>)
  BY DEF Reach, Apart

(* The rest of a list is apart from its first node.                        *)
LEMMA ReachTail ==
  ASSUME NEW t, NEW s \in Seq(Node), s # << >>, Apart(t, s)
  PROVE  /\ Apart(t, Tail(s))
         /\ Reach(t, Tail(s)) \subseteq Reach(t, s)
         /\ Subtree(t, Head(s)) \subseteq Reach(t, s)
         /\ Subtree(t, Head(s)) \cap Reach(t, Tail(s)) = {}
<1>1. /\ Len(s) \in Nat /\ Len(s) >= 1 /\ DOMAIN s = 1 .. Len(s)
      /\ Head(s) = s[1] /\ 1 \in DOMAIN s
      /\ DOMAIN Tail(s) = 1 .. Len(s) - 1
  OBVIOUS
<1>2. \A i \in DOMAIN Tail(s) : i + 1 \in DOMAIN s /\ Tail(s)[i] = s[i + 1]
                               /\ i + 1 # 1
  BY <1>1
<1>3. Apart(t, Tail(s))
  BY <1>1, <1>2 DEF Apart
<1>4. Reach(t, Tail(s)) \subseteq Reach(t, s)
  BY <1>2 DEF Reach
<1>5. Subtree(t, Head(s)) \subseteq Reach(t, s)
  BY <1>1 DEF Reach
<1>6. Subtree(t, Head(s)) \cap Reach(t, Tail(s)) = {}
  BY <1>1, <1>2 DEF Reach, Apart
<1> QED
  BY <1>3, <1>4, <1>5, <1>6

LEMMA ReachConcat ==
  ASSUME NEW t, NEW r \in Seq(Node), NEW s \in Seq(Node),
         Apart(t, r), Apart(t, s), Reach(t, r) \cap Reach(t, s) = {}
  PROVE  /\ Apart(t, r \o s)
         /\ Reach(t, r \o s) = Reach(t, r) \cup Reach(t, s)
<1> DEFINE u == r \o s
<1>1. /\ Len(r) \in Nat /\ Len(s) \in Nat /\ DOMAIN r = 1 .. Len(r)
      /\ DOMAIN s = 1 .. Len(s) /\ DOMAIN u = 1 .. Len(r) + Len(s)
  OBVIOUS
<1>2. /\ \A i \in DOMAIN r : i \in DOMAIN u /\ u[i] = r[i]
      /\ \A i \in DOMAIN s : Len(r) + i \in DOMAIN u /\ u[Len(r) + i] = s[i]
  BY <1>1
<1>3. \A i \in DOMAIN u : i \in DOMAIN r
                          \/ (i - Len(r) \in DOMAIN s /\ u[i] = s[i - Len(r)])
  BY <1>1
<1> HIDE DEF u
<1>4. Reach(t, u) = Reach(t, r) \cup Reach(t, s)
  <2>1. Reach(t, u) \subseteq Reach(t, r) \cup Reach(t, s)
    BY <1>2, <1>3 DEF Reach
  <2>2. Reach(t, r) \subseteq Reach(t, u)
    BY <1>2 DEF Reach
  <2>3. Reach(t, s) \subseteq Reach(t, u)
    BY <1>2 DEF Reach
  <2> QED
    BY <2>1, <2>2, <2>3
<1>5. ASSUME NEW i \in DOMAIN u, NEW j \in DOMAIN u, i # j
      PROVE  Subtree(t, u[i]) \cap Subtree(t, u[j]) = {}
  <2>1. CASE i \in DOMAIN r /\ j \in DOMAIN r
    BY <2>1, <1>2, <1>5 DEF Apart
  <2>2. CASE i \in DOMAIN r /\ j \notin DOMAIN r
    BY <2>2, <1>2, <1>3, <1>5 DEF Reach
  <2>3. CASE i \notin DOMAIN r /\ j \in DOMAIN r
    BY <2>3, <1>2, <1>3, <1>5 DEF Reach
  <2>4. CASE i \notin DOMAIN r /\ j \notin DOMAIN r
    <3>1. /\ i - Len(r) \in DOMAIN s /\ u[i] = s[i - Len(r)]
          /\ j - Len(r) \in DOMAIN s /\ u[j] = s[j - Len(r)]
      BY <2>4, <1>3
    <3>2. i - Len(r) # j - Len(r)
      BY <1>1, <1>5
    <3> QED
      BY <3>1, <3>2 DEF Apart
  <2> QED
    BY <2>1, <2>2, <2>3, <2>4
<1>6. Apart(t, u)
  BY <1>5 DEF Apart
<1> QED
  BY <1>4, <1>6 DEF u

LEMMA ReachOne ==
  ASSUME NEW t, NEW n \in Node
  PROVE  /\ <<n>> \in Seq(Node) /\ Apart(t, <<n>>)
         /\ Reach(t, <<n>>) = Subtree(t, n)
  BY DEF Reach, Apart

LEMMA ReachKids ==
  ASSUME NEW t \in Tree, IsTree(t), NEW n \in Node
  PROVE  /\ t.kids[n] \in Seq(Node) /\ Apart(t, t.kids[n])
         /\ Reach(t, t.kids[n]) \subseteq Subtree(t, n) \ {n}
<1>1. t.kids[n] \in Seq(Node)
  BY DEF Tree
<1>2. Apart(t, t.kids[n])
  BY SiblingsApart DEF Apart
<1>3. Reach(t, t.kids[n]) \subseteq Subtree(t, n) \ {n}
  BY SubtreeOfChild, NotBelowItself DEF Reach
<1> QED
  BY <1>1, <1>2, <1>3

(* When the traversal goes on behind a node, or below it and then behind   *)
(* it, everything it comes to was ahead before, except the node.           *)
LEMMA Expand ==
  ASSUME NEW t \in Tree, IsTree(t), NEW s \in Seq(Node), s # << >>, Apart(t, s),
         NEW b \in {<< >>, t.kids[Head(s)]}
  PROVE  /\ Apart(t, b \o Tail(s)) /\ b \o Tail(s) \in Seq(Node)
         /\ Reach(t, b \o Tail(s)) \subseteq Reach(t, s) \ {Head(s)}
         /\ b = << >> =>
              Reach(t, b \o Tail(s)) \cap Subtree(t, Head(s)) = {}
<1> DEFINE n == Head(s)
           r == Tail(s)
<1>1. n \in Node /\ r \in Seq(Node)
  OBVIOUS
<1>2. /\ Apart(t, r) /\ Reach(t, r) \subseteq Reach(t, s)
      /\ Subtree(t, n) \subseteq Reach(t, s)
      /\ Subtree(t, n) \cap Reach(t, r) = {}
  BY ReachTail
<1>3. n \in Subtree(t, n)
  BY <1>1, SubtreeFacts
<1>4. /\ b \in Seq(Node) /\ Apart(t, b)
      /\ Reach(t, b) \subseteq Subtree(t, n) \ {n}
      /\ b = << >> => Reach(t, b) = {}
  <2>1. CASE b = << >>
    <3>1. b \in Seq(Node)
      BY <2>1
    <3> QED
      BY <3>1, <2>1, ReachEmpty
  <2>2. CASE b # << >>
    <3>1. b = t.kids[n]
      BY <2>2
    <3> QED
      BY <3>1, <2>2, <1>1, ReachKids
  <2> QED
    BY <2>1, <2>2
<1> HIDE DEF n, r
<1>5. /\ Apart(t, b \o r)
      /\ Reach(t, b \o r) = Reach(t, b) \cup Reach(t, r)
  BY <1>1, <1>2, <1>4, ReachConcat
<1>6. b \o r \in Seq(Node)
  BY <1>1, <1>4
<1> QED
  BY <1>2, <1>3, <1>4, <1>5, <1>6 DEF n, r
-----------------------------------------------------------------------------
(* The steps.                                                              *)

LEMMA SameTree ==
  ASSUME input' = input
  PROVE  tree' = tree
  BY DEF tree

(* A step that binds nothing and goes on with what was ahead.              *)
LEMMA GoOnTree ==
  ASSUME TreeInv, input' = input, UNCHANGED binding, phase' # "start",
         Apart(tree, pending'), Apart(tree, subtreeQueue'),
         Reach(tree, pending') \cap Reach(tree, subtreeQueue') = {},
         Reach(tree, pending') \cup Reach(tree, subtreeQueue') \subseteq Ahead
  PROVE  TreeInv'
<1>1. tree' = tree /\ metavariables' = metavariables /\ subtreesOf' = subtreesOf
  BY SameTree DEF binding
<1>2. TraversalInv'
  BY <1>1 DEF TraversalInv
<1>3. Ahead' \subseteq Ahead
  BY <1>1 DEF Ahead
<1>4. BehindInv'
  <2> SUFFICES ASSUME NEW m \in input.metavars, NEW n \in Bound(subtreesOf[m])
               PROVE  /\ n \in DOMAIN metavariables /\ n \notin Ahead'
                      /\ ~ m.nameOnly => Subtree(tree, n) \cap Ahead' = {}
    BY <1>1 DEF BehindInv, Bound
  <2> QED
    BY <1>3 DEF TreeInv, BehindInv
<1>5. ExplicitWins'
  <2>1. \A m \in input.metavars : Bound(subtreesOf[m])' = Bound(subtreesOf[m])
    BY <1>1 DEF Bound
  <2> QED
    BY <2>1, <1>1 DEF TreeInv, ExplicitWins
<1>6. Untouched'
  BY DEF Untouched
<1> QED
  BY <1>2, <1>4, <1>5, <1>6 DEF TreeInv

LEMMA StandTree ==
  ASSUME TreeInv, input' = input, UNCHANGED binding, pending' = pending,
         subtreeQueue' = subtreeQueue, phase' # "start"
  PROVE  TreeInv'
  BY GoOnTree DEF TreeInv, TraversalInv, Ahead

LEMMA ThrowTree ==
  ASSUME TreeInv, NEW why, Throw(why)
  PROVE  TreeInv'
<1>1. /\ input' = input /\ UNCHANGED binding /\ pending' = pending
      /\ subtreeQueue' = subtreeQueue /\ phase' = "rejected"
  BY DEF Throw, template
<1> QED
  BY <1>1, StandTree

LEMMA CheckFileRangeTree ==
  ASSUME IInv, IsTree(tree), TreeInv, CheckFileRange
  PROVE  TreeInv'
<1>1. CASE EnclosedIn(templ, tree.fileRange)
  <2>1. /\ input' = input /\ UNCHANGED binding /\ phase = "start"
        /\ phase' = "template" /\ subtreeQueue' = subtreeQueue
        /\ pending' = tree.kids[tree.root]
    BY <1>1 DEF CheckFileRange, GoOn, template
  <2>2. /\ subtreeQueue = << >>
        /\ \A m \in input.metavars : subtreesOf[m] = << >>
    BY <2>1 DEF TreeInv, Untouched
  <2>3. tree' = tree /\ metavariables' = metavariables /\ subtreesOf' = subtreesOf
    BY <2>1, SameTree DEF binding
  <2>4. tree \in Tree /\ tree.root \in Node
    BY InputTypes DEF IInv
  <2>5. Apart(tree, pending') /\ Apart(tree, subtreeQueue')
        /\ Reach(tree, subtreeQueue') = {}
    BY <2>1, <2>2, <2>4, ReachKids, ReachEmpty
  <2>6. TraversalInv'
    BY <2>3, <2>5 DEF TraversalInv
  <2>7. \A m \in input'.metavars : Bound(subtreesOf'[m]) = {}
    BY <2>1, <2>2, <2>3 DEF Bound
  <2>8. BehindInv' /\ ExplicitWins'
    BY <2>7 DEF BehindInv, ExplicitWins, Bound
  <2>9. Untouched'
    BY <2>1 DEF Untouched
  <2> QED
    BY <2>6, <2>8, <2>9 DEF TreeInv
<1>2. CASE ~ EnclosedIn(templ, tree.fileRange)
  BY <1>2, ThrowTree DEF CheckFileRange
<1> QED
  BY <1>1, <1>2

(* A step of a traversal that passes its node or goes below it.            *)
LEMMA WalkTree ==
  ASSUME IInv, IsTree(tree), TreeInv, pending # << >>, input' = input,
         UNCHANGED binding, subtreeQueue' = subtreeQueue, phase' # "start",
         NEW b \in {<< >>, tree.kids[Head(pending)]},
         pending' = b \o Tail(pending)
  PROVE  TreeInv'
<1>1. tree \in Tree /\ pending \in Seq(Node)
  BY InputTypes DEF IInv, StateInv
<1>2. /\ Apart(tree, pending) /\ Apart(tree, subtreeQueue)
      /\ Reach(tree, pending) \cap Reach(tree, subtreeQueue) = {}
  BY DEF TreeInv, TraversalInv
<1>3. Apart(tree, pending') /\ Reach(tree, pending') \subseteq Reach(tree, pending)
  BY <1>1, <1>2, Expand
<1> QED
  BY <1>2, <1>3, GoOnTree DEF Ahead

LEMMA TemplateWalkTree ==
  ASSUME IInv, IsTree(tree), TreeInv, NEW n \in Node, SkipSubtree(n) \/ Descend(n)
  PROVE  TreeInv'
<1>1. /\ pending # << >> /\ input' = input /\ UNCHANGED binding
      /\ subtreeQueue' = subtreeQueue /\ phase' # "start" /\ n = Head(pending)
  BY DEF SkipSubtree, Descend, Visiting, GoOn, template
<1>2. pending \in Seq(Node) /\ Tail(pending) \in Seq(Node)
  BY <1>1, SequenceFacts DEF IInv, StateInv
<1>3. << >> \o Tail(pending) = Tail(pending)
  BY <1>2
<1>4. \E b \in {<< >>, tree.kids[Head(pending)]} : pending' = b \o Tail(pending)
  BY <1>1, <1>3 DEF SkipSubtree, Descend
<1> QED
  BY <1>1, <1>4, WalkTree

LEMMA AddTemplateSubtreeTree ==
  ASSUME IInv, IsTree(tree), TreeInv, NEW n \in Node, AddTemplateSubtree(n)
  PROVE  TreeInv'
<1>1. /\ pending # << >> /\ input' = input /\ UNCHANGED binding
      /\ phase' # "start" /\ n = Head(pending)
      /\ subtreeQueue' = Append(subtreeQueue, n)
      /\ pending' \in {<< >>, Tail(pending)}
  BY DEF AddTemplateSubtree, Visiting, GoOn
<1>2. /\ tree \in Tree /\ pending \in Seq(Node) /\ subtreeQueue \in Seq(Node)
      /\ Tail(pending) \in Seq(Node)
  BY <1>1, InputTypes, SequenceFacts DEF IInv, StateInv
<1>3. /\ Apart(tree, pending) /\ Apart(tree, subtreeQueue)
      /\ Reach(tree, pending) \cap Reach(tree, subtreeQueue) = {}
  BY DEF TreeInv, TraversalInv
<1>4. /\ Apart(tree, Tail(pending))
      /\ Reach(tree, Tail(pending)) \subseteq Reach(tree, pending)
      /\ Subtree(tree, n) \subseteq Reach(tree, pending)
      /\ Subtree(tree, n) \cap Reach(tree, Tail(pending)) = {}
  BY <1>1, <1>2, <1>3, ReachTail
<1>5. subtreeQueue' = subtreeQueue \o <<n>>
  BY <1>1, <1>2
<1>6. /\ Apart(tree, subtreeQueue')
      /\ Reach(tree, subtreeQueue') = Reach(tree, subtreeQueue) \cup Subtree(tree, n)
  <2>1. /\ <<n>> \in Seq(Node) /\ Apart(tree, <<n>>)
        /\ Reach(tree, <<n>>) = Subtree(tree, n)
    BY ReachOne
  <2>2. Reach(tree, subtreeQueue) \cap Reach(tree, <<n>>) = {}
    BY <2>1, <1>3, <1>4
  <2>3. /\ Apart(tree, subtreeQueue \o <<n>>)
        /\ Reach(tree, subtreeQueue \o <<n>>)
             = Reach(tree, subtreeQueue) \cup Reach(tree, <<n>>)
    BY <2>1, <2>2, <1>2, <1>3, ReachConcat
  <2> QED
    BY <2>1, <2>3, <1>5
<1>7. /\ Apart(tree, pending')
      /\ Reach(tree, pending') \subseteq Reach(tree, Tail(pending))
  BY <1>1, <1>4, ReachEmpty
<1>8. /\ Reach(tree, pending') \cap Reach(tree, subtreeQueue') = {}
      /\ Reach(tree, pending') \cup Reach(tree, subtreeQueue') \subseteq Ahead
  BY <1>3, <1>4, <1>6, <1>7 DEF Ahead
<1> QED
  BY <1>1, <1>6, <1>7, <1>8, GoOnTree

LEMMA QueueTree ==
  ASSUME IInv, IsTree(tree), TreeInv, TakeSubtree \/ SubtreeDone
  PROVE  TreeInv'
<1>1. CASE TakeSubtree
  <2>1. /\ input' = input /\ UNCHANGED binding /\ phase' # "start"
        /\ subtreeQueue # << >> /\ pending' = <<Head(subtreeQueue)>>
        /\ subtreeQueue' = Tail(subtreeQueue)
    BY <1>1 DEF TakeSubtree, GoOn
  <2>2. subtreeQueue \in Seq(Node) /\ Head(subtreeQueue) \in Node
    BY <2>1, SequenceFacts DEF IInv, StateInv
  <2>3. Apart(tree, subtreeQueue)
    BY DEF TreeInv, TraversalInv
  <2>4. /\ Apart(tree, pending')
        /\ Reach(tree, pending') = Subtree(tree, Head(subtreeQueue))
    BY <2>1, <2>2, ReachOne
  <2>5. /\ Apart(tree, subtreeQueue')
        /\ Reach(tree, pending') \cap Reach(tree, subtreeQueue') = {}
        /\ Reach(tree, pending') \cup Reach(tree, subtreeQueue')
             \subseteq Reach(tree, subtreeQueue)
    BY <2>1, <2>2, <2>3, <2>4, ReachTail
  <2> QED
    BY <2>1, <2>4, <2>5, GoOnTree DEF Ahead
<1>2. CASE SubtreeDone
  BY <1>2, StandTree DEF SubtreeDone, GoOn, template
<1> QED
  BY <1>1, <1>2

LEMMA FinishTree ==
  ASSUME TreeInv, Finish
  PROVE  TreeInv'
<1>1. CASE remainingMetavariables = {}
  BY <1>1, StandTree DEF Finish, GoOn, template
<1>2. CASE remainingMetavariables # {}
  BY <1>2, ThrowTree DEF Finish
<1> QED
  BY <1>1, <1>2

LEMMA SearchSubtreesTree ==
  ASSUME IInv, IsTree(tree), TreeInv, NEW n \in Node, SearchSubtrees(n)
  PROVE  TreeInv'
<1>1. /\ pending # << >> /\ input' = input /\ UNCHANGED binding
      /\ subtreeQueue' = subtreeQueue /\ phase' # "start" /\ n = Head(pending)
      /\ pending' = SubtreesToSearch(n) \o Tail(pending)
  BY DEF SearchSubtrees, Searching, GoOn, template
<1>2. SubtreesToSearch(n) \in {<< >>, tree.kids[n]}
  BY DEF SubtreesToSearch
<1> QED
  BY <1>1, <1>2, WalkTree

(* The node that is bound was ahead, so it was not bound before, and it    *)
(* lies neither below a full metavariable nor above a bound node.          *)
LEMMA AddToMetavariableTree ==
  ASSUME IInv, IsTree(tree), TreeInv, NEW n \in Node, AddToMetavariable(n)
  PROVE  TreeInv'
<1>1. PICK m \in Current(n) :
        /\ metavariables' = AddMetavariable(m, n)
        /\ subtreesOf' = [subtreesOf EXCEPT ![m] = Append(@, n)]
        /\ pending' = SubtreesBelow(m, n) \o Tail(pending)
  BY DEF AddToMetavariable
<1>2. /\ pending # << >> /\ input' = input /\ tree' = tree
      /\ subtreeQueue' = subtreeQueue /\ phase' # "start" /\ n = Head(pending)
  BY SameTree DEF AddToMetavariable, Searching, GoOn, template
<1>3. m \in input.metavars
  BY CurrentIsBegun
<1>4. /\ tree \in Tree /\ pending \in Seq(Node)
      /\ subtreesOf \in [input.metavars -> Seq(Node)]
  BY InputTypes DEF IInv, StateInv, BindingInv, BindingTypes
<1>5. /\ Apart(tree, pending) /\ Apart(tree, subtreeQueue)
      /\ Reach(tree, pending) \cap Reach(tree, subtreeQueue) = {}
      /\ BehindInv /\ ExplicitWins
  BY DEF TreeInv, TraversalInv
<1> DEFINE b == SubtreesBelow(m, n)
<1>6. b \in {<< >>, tree.kids[n]} /\ (~ m.nameOnly => b = << >>)
  BY DEF SubtreesBelow, SubtreesToSearch
<1>7. /\ Apart(tree, pending')
      /\ Reach(tree, pending') \subseteq Reach(tree, pending) \ {n}
      /\ ~ m.nameOnly => Reach(tree, pending') \cap Subtree(tree, n) = {}
  BY <1>1, <1>2, <1>4, <1>5, <1>6, Expand
<1>8. /\ Subtree(tree, n) \subseteq Reach(tree, pending)
      /\ n \in Subtree(tree, n)
  BY <1>2, <1>4, <1>5, ReachTail, SubtreeFacts
<1>9. TraversalInv'
  BY <1>2, <1>5, <1>7 DEF TraversalInv
<1>10. /\ Ahead' \subseteq Ahead \ {n} /\ Subtree(tree, n) \subseteq Ahead
       /\ ~ m.nameOnly => Subtree(tree, n) \cap Ahead' = {}
  BY <1>2, <1>5, <1>7, <1>8 DEF Ahead
<1>11. /\ DOMAIN subtreesOf' = input.metavars
       /\ \A o \in input.metavars :
            /\ o # m => subtreesOf'[o] = subtreesOf[o]
            /\ \A k \in Bound(subtreesOf'[o]) :
                 k \in Bound(subtreesOf[o]) \/ (o = m /\ k = n)
  <2>1. subtreesOf[m] \in Seq(Node) /\ subtreesOf'[m] = Append(subtreesOf[m], n)
    BY <1>1, <1>3, <1>4
  <2>2. \A k \in Bound(Append(subtreesOf[m], n)) : k \in Bound(subtreesOf[m]) \/ k = n
    BY <2>1 DEF Bound
  <2> QED
    BY <2>1, <2>2, <1>1, <1>3, <1>4
<1>12. BehindInv'
  <2> SUFFICES ASSUME NEW o \in input.metavars, NEW k \in Bound(subtreesOf'[o])
               PROVE  /\ k \in DOMAIN metavariables' /\ k \notin Ahead'
                      /\ ~ o.nameOnly => Subtree(tree, k) \cap Ahead' = {}
    BY <1>2 DEF BehindInv, Bound
  <2>1. CASE k \in Bound(subtreesOf[o])
    BY <2>1, <1>1, <1>5, <1>10 DEF BehindInv, AddMetavariable
  <2>2. CASE o = m /\ k = n
    BY <2>2, <1>1, <1>10 DEF AddMetavariable
  <2> QED
    BY <2>1, <2>2, <1>11
<1>13. ExplicitWins'
  <2> SUFFICES ASSUME NEW o \in input.metavars, NEW k \in Bound(subtreesOf'[o])
               PROVE  metavariables'[k]
                        = [identifier |-> o.identifier, nameOnly |-> o.nameOnly]
    BY <1>2 DEF ExplicitWins, Bound
  <2>1. CASE k \in Bound(subtreesOf[o])
    <3>1. k # n
      BY <2>1, <1>5, <1>8, <1>10 DEF BehindInv
    <3>2. metavariables[k]
            = [identifier |-> o.identifier, nameOnly |-> o.nameOnly]
      BY <2>1, <1>5 DEF ExplicitWins
    <3>3. k \in DOMAIN metavariables
      BY <2>1, <1>5 DEF BehindInv
    <3> QED
      BY <3>1, <3>2, <3>3, <1>1 DEF AddMetavariable
  <2>2. CASE o = m /\ k = n
    BY <2>2, <1>1 DEF AddMetavariable
  <2> QED
    BY <2>1, <2>2, <1>11
<1>14. Untouched'
  BY <1>2 DEF Untouched
<1> QED
  BY <1>9, <1>12, <1>13, <1>14 DEF TreeInv

LEMMA InitTree ==
  ASSUME Init
  PROVE  TreeInv
<1>1. /\ pending = << >> /\ subtreeQueue = << >>
      /\ \A m \in input.metavars : subtreesOf[m] = << >>
  BY DEF Init
<1>2. TraversalInv
  BY <1>1, ReachEmpty DEF TraversalInv
<1>3. Untouched
  BY <1>1 DEF Untouched
<1>4. \A m \in input.metavars : Bound(subtreesOf[m]) = {}
  BY <1>1 DEF Bound
<1> QED
  BY <1>2, <1>3, <1>4 DEF TreeInv, BehindInv, ExplicitWins

(* No step changes the input, and a step that gives up does nothing else.  *)
LEMMA InputKept ==
  ASSUME [Next]_vars
  PROVE  input' = input /\ tree' = tree
<1>1. input' = input
  BY DEF Next, CheckFileRange, NoTemplate, TakeSubtree, SubtreeDone, Finish,
         SkipSubtree, Overshot, PartialSpan, AddTemplateSubtree, NoSubtreeForStart,
         WillPartiallySpan, Descend, RejectNameOnly, RejectPartial,
         AddToMetavariable, SearchSubtrees, Finished, Throw, GoOn, vars
<1> QED
  BY <1>1, SameTree

GivesUp(n) ==
  \/ NoTemplate \/ Overshot(n) \/ PartialSpan(n) \/ NoSubtreeForStart(n)
  \/ WillPartiallySpan(n) \/ RejectNameOnly(n) \/ RejectPartial(n)

LEMMA GivesUpThrows ==
  ASSUME NEW n \in Node, GivesUp(n)
  PROVE  \E why \in TemplateErrors \cup MetavariableErrors : Throw(why)
  BY DEF GivesUp, NoTemplate, Overshot, PartialSpan, NoSubtreeForStart,
         WillPartiallySpan, RejectNameOnly, RejectPartial, TemplateErrors,
         MetavariableErrors

LEMMA NextTree ==
  ASSUME IInv, IsTree(tree) => TreeInv, [Next]_vars
  PROVE  (IsTree(tree) => TreeInv)'
<1>1. tree' = tree
  BY InputKept
<1>2. ASSUME NEW n \in Node, GivesUp(n)
      PROVE  (IsTree(tree) => TreeInv)'
  BY <1>1, <1>2, GivesUpThrows, ThrowTree
<1>3. CASE Finished \/ UNCHANGED vars
  <2>1. /\ input' = input /\ UNCHANGED binding /\ pending' = pending
        /\ subtreeQueue' = subtreeQueue /\ phase' = phase
    BY <1>3 DEF Finished, vars, template
  <2>2. metavariables' = metavariables /\ subtreesOf' = subtreesOf /\ tree' = tree
    BY <2>1, SameTree DEF binding
  <2>3. TreeInv => TreeInv'
    BY <2>1, <2>2 DEF TreeInv, TraversalInv, Untouched, BehindInv, Ahead,
                      ExplicitWins
  <2> QED
    BY <2>2, <2>3
<1>4. CASE NoTemplate
  <2>1. tree.root \in Node /\ GivesUp(tree.root)
    BY <1>4, InputTypes DEF GivesUp, IInv
  <2> QED
    BY <2>1, <1>2
<1> QED
  BY <1>1, <1>2, <1>3, <1>4, CheckFileRangeTree, QueueTree, FinishTree,
     TemplateWalkTree, AddTemplateSubtreeTree, AddToMetavariableTree,
     SearchSubtreesTree DEF Next, GivesUp

(* In a tree, what the traversals have still ahead has nothing in common   *)
(* with what is bound, nor with what is below a full metavariable.         *)
THEOREM TreeInvariance == Spec => [](IInv /\ (IsTree(tree) => TreeInv))
<1>1. Init => IInv /\ (IsTree(tree) => TreeInv)
  BY InitIInv, InitTree
<1>2. IInv /\ (IsTree(tree) => TreeInv) /\ [Next]_vars
        => (IInv /\ (IsTree(tree) => TreeInv))'
  BY NextIInv, NextTree
<1> QED
  BY <1>1, <1>2, PTL DEF Spec

(* In a tree, a node that was added for a metavariable keeps it: neither a *)
(* second visit nor an implicit binding of a class takes it away.          *)
THEOREM ExplicitBindingsWin == Spec => [](IsTree(tree) => ExplicitWins)
<1>1. TreeInv => ExplicitWins
  BY DEF TreeInv
<1> QED
  BY <1>1, TreeInvariance, PTL

-----------------------------------------------------------------------------
(* The template: a run of siblings.                                        *)

(* The first search has d children of p behind it, the others before it,   *)
(* and behind them only nodes beyond the end of the template.  The nodes   *)
(* in s, if any, are a run of p's children up to the d-th.                 *)
Walk(t, end, q, s, p, d) ==
  /\ d \in Nat /\ d <= Len(t.kids[p]) /\ Len(t.kids[p]) - d <= Len(q)
  /\ \A x \in 1 .. Len(t.kids[p]) - d : q[x] = t.kids[p][d + x]
  /\ \A x \in DOMAIN q : x > Len(t.kids[p]) - d /\ q[x] \in t.main =>
       LocGreater(t.range[q[x]].begin, end)
  /\ s # << >> => \E i \in 1 .. d : MainRun(t, s, p, i, d)

SiblingInv ==
  /\ ~ templateConstructionBegan => templateSubtrees = << >>
  /\ phase = "start" => ~ templateConstructionBegan
  /\ phase = "template" => \E p \in Node : \E d \in Nat :
       Walk(tree, templ.end, pending, templateSubtrees, p, d)
  /\ TemplateIsSiblingRun

(* A run goes on behind a child that is not of the main file...            *)
LEMMA RunSkips ==
  ASSUME NEW t, NEW s, NEW p, NEW i \in Nat, NEW d \in Nat,
         MainRun(t, s, p, i, d), t.kids[p][d + 1] \notin t.main
  PROVE  MainRun(t, s, p, i, d + 1)
<1>1. PICK at \in [DOMAIN s -> i .. d] :
        /\ \A x \in DOMAIN s : s[x] = t.kids[p][at[x]] /\ s[x] \in t.main
        /\ \A x, y \in DOMAIN s : x < y => at[x] < at[y]
        /\ \A k \in i .. d : t.kids[p][k] \in t.main => \E x \in DOMAIN s : at[x] = k
  BY DEF MainRun
<1>2. at \in [DOMAIN s -> i .. d + 1]
  <2>1. i .. d \subseteq i .. d + 1
    OBVIOUS
  <2> QED
    BY <2>1
<1>3. \A k \in i .. d + 1 : k \in i .. d \/ k = d + 1
  OBVIOUS
<1> QED
  BY <1>1, <1>2, <1>3 DEF MainRun

(* ... with one that is ...                                                *)
LEMMA RunGrows ==
  ASSUME NEW t, NEW s \in Seq(Node), NEW p, NEW i \in Nat, NEW d \in Nat,
         MainRun(t, s, p, i, d), i <= d,
         NEW n \in Node, n = t.kids[p][d + 1], n \in t.main
  PROVE  MainRun(t, Append(s, n), p, i, d + 1)
<1>1. PICK at \in [DOMAIN s -> i .. d] :
        /\ \A x \in DOMAIN s : s[x] = t.kids[p][at[x]] /\ s[x] \in t.main
        /\ \A x, y \in DOMAIN s : x < y => at[x] < at[y]
        /\ \A k \in i .. d : t.kids[p][k] \in t.main => \E x \in DOMAIN s : at[x] = k
  BY DEF MainRun
<1> DEFINE u == Append(s, n)
           bt == [x \in DOMAIN u |-> IF x \in DOMAIN s THEN at[x] ELSE d + 1]
<1>2. /\ DOMAIN s = 1 .. Len(s) /\ DOMAIN u = 1 .. Len(s) + 1 /\ Len(s) \in Nat
      /\ \A x \in DOMAIN s : u[x] = s[x]
      /\ u[Len(s) + 1] = n
  OBVIOUS
<1>3. /\ \A x \in DOMAIN s : x \in DOMAIN u /\ bt[x] = at[x]
      /\ Len(s) + 1 \in DOMAIN u /\ bt[Len(s) + 1] = d + 1
      /\ \A x \in DOMAIN u : x \in DOMAIN s \/ x = Len(s) + 1
  BY <1>2
<1>4. bt \in [DOMAIN u -> i .. d + 1]
  <2>1. \A x \in DOMAIN s : at[x] \in i .. d + 1
    OBVIOUS
  <2> QED
    BY <2>1
<1> HIDE DEF u, bt
<1>5. \A x \in DOMAIN u : u[x] = t.kids[p][bt[x]] /\ u[x] \in t.main
  BY <1>1, <1>2, <1>3
<1>6. \A x, y \in DOMAIN u : x < y => bt[x] < bt[y]
  <2>1. \A x \in DOMAIN s : at[x] < d + 1
    OBVIOUS
  <2>2. \A x, y \in DOMAIN u : x < y => x \in DOMAIN s
    BY <1>2
  <2>3. ASSUME NEW x \in DOMAIN u, NEW y \in DOMAIN u, x < y
        PROVE  bt[x] < bt[y]
    <3>1. CASE y \in DOMAIN s
      BY <3>1, <2>2, <2>3, <1>1, <1>3
    <3>2. CASE y = Len(s) + 1
      BY <3>2, <2>1, <2>2, <2>3, <1>3
    <3> QED
      BY <3>1, <3>2, <1>3
  <2> QED
    BY <2>3
<1>7. ASSUME NEW k \in i .. d + 1, t.kids[p][k] \in t.main
      PROVE  \E x \in DOMAIN u : bt[x] = k
  <2>1. CASE k = d + 1
    BY <2>1, <1>3
  <2>2. CASE k # d + 1
    <3>1. k \in i .. d
      BY <2>2
    <3>2. PICK x \in DOMAIN s : at[x] = k
      BY <3>1, <1>1, <1>7
    <3> QED
      BY <3>2, <1>3
  <2> QED
    BY <2>1, <2>2
<1>8. MainRun(t, u, p, i, d + 1)
  BY <1>4, <1>5, <1>6, <1>7 DEF MainRun
<1> QED
  BY <1>8 DEF u

(* ... and begins with one.                                                *)
LEMMA RunBegins ==
  ASSUME NEW t, NEW p, NEW d \in Nat,
         NEW n \in Node, n = t.kids[p][d], n \in t.main
  PROVE  MainRun(t, <<n>>, p, d, d)
<1> DEFINE at == [x \in DOMAIN <<n>> |-> d]
<1>1. DOMAIN <<n>> = {1} /\ <<n>>[1] = n
  OBVIOUS
<1>2. at \in [DOMAIN <<n>> -> d .. d] /\ \A x \in DOMAIN <<n>> : at[x] = d
  OBVIOUS
<1> HIDE DEF at
<1>3. \A x, y \in DOMAIN <<n>> : ~ x < y
  BY <1>1
<1>4. \A k \in d .. d : k = d
  OBVIOUS
<1> QED
  BY <1>1, <1>2, <1>3, <1>4 DEF MainRun

(* The head of what is ahead is the next child of p, or beyond the end.    *)
LEMMA WalkHead ==
  ASSUME NEW t \in Tree, NEW end, NEW q \in Seq(Node), q # << >>,
         NEW s, NEW p \in Node, NEW d \in Nat, Walk(t, end, q, s, p, d)
  PROVE  /\ (d = Len(t.kids[p]) /\ Head(q) \in t.main) =>
              LocGreater(t.range[Head(q)].begin, end)
         /\ d # Len(t.kids[p]) =>
              d + 1 \in DOMAIN t.kids[p] /\ Head(q) = t.kids[p][d + 1]
<1>1. /\ t.kids[p] \in Seq(Node) /\ DOMAIN t.kids[p] = 1 .. Len(t.kids[p])
      /\ Len(t.kids[p]) \in Nat
  BY DEF Tree
<1>2. /\ Len(q) \in Nat /\ Len(q) >= 1 /\ DOMAIN q = 1 .. Len(q) /\ Head(q) = q[1]
  OBVIOUS
<1> QED
  BY <1>1, <1>2 DEF Walk

(* Passing the head of what is ahead.                                      *)
LEMMA WalkSteps ==
  ASSUME NEW t \in Tree, NEW end, NEW q \in Seq(Node), q # << >>,
         NEW s, NEW r, NEW p \in Node, NEW d \in Nat, Walk(t, end, q, s, p, d)
  PROVE  /\ d = Len(t.kids[p]) => Walk(t, end, Tail(q), s, p, d)
         /\ (d # Len(t.kids[p])
               /\ (r # << >> => \E i \in 1 .. d + 1 : MainRun(t, r, p, i, d + 1)))
              => Walk(t, end, Tail(q), r, p, d + 1)
<1>1. /\ t.kids[p] \in Seq(Node) /\ DOMAIN t.kids[p] = 1 .. Len(t.kids[p])
      /\ Len(t.kids[p]) \in Nat
  BY DEF Tree
<1>2. /\ Len(q) \in Nat /\ Len(q) >= 1 /\ DOMAIN q = 1 .. Len(q)
      /\ Head(q) = q[1] /\ Len(Tail(q)) = Len(q) - 1
      /\ DOMAIN Tail(q) = 1 .. Len(q) - 1
      /\ \A x \in 1 .. Len(q) - 1 : Tail(q)[x] = q[x + 1]
  OBVIOUS
<1>3. CASE d = Len(t.kids[p])
  <2>2. ASSUME NEW x \in DOMAIN Tail(q), Tail(q)[x] \in t.main
        PROVE  LocGreater(t.range[Tail(q)[x]].begin, end)
    <3>1. x + 1 \in DOMAIN q /\ x + 1 > Len(t.kids[p]) - d /\ Tail(q)[x] = q[x + 1]
      BY <1>1, <1>2, <1>3
    <3> QED
      BY <3>1, <2>2 DEF Walk
  <2>3. 1 .. Len(t.kids[p]) - d = {} /\ Len(t.kids[p]) - d <= Len(Tail(q))
    BY <1>1, <1>2, <1>3
  <2>4. Walk(t, end, Tail(q), s, p, d)
    BY <2>2, <2>3 DEF Walk
  <2> QED
    BY <1>3, <2>4
<1>4. CASE d # Len(t.kids[p])
  <2>1. d + 1 \in DOMAIN t.kids[p] /\ d + 1 <= Len(t.kids[p])
    BY <1>1, <1>4 DEF Walk
  <2>3. ASSUME r # << >> => \E i \in 1 .. d + 1 : MainRun(t, r, p, i, d + 1)
        PROVE  Walk(t, end, Tail(q), r, p, d + 1)
    <3>1. Len(t.kids[p]) - (d + 1) <= Len(Tail(q))
      BY <1>1, <1>2, <2>1 DEF Walk
    <3>2. ASSUME NEW x \in 1 .. Len(t.kids[p]) - (d + 1)
          PROVE  Tail(q)[x] = t.kids[p][d + 1 + x]
      <4>1. x + 1 \in 1 .. Len(t.kids[p]) - d /\ x \in 1 .. Len(q) - 1
        BY <1>1, <1>2, <2>1, <3>1
      <4>2. q[x + 1] = t.kids[p][d + (x + 1)] /\ d + (x + 1) = d + 1 + x
        BY <4>1 DEF Walk
      <4> QED
        BY <4>1, <4>2, <1>2
    <3>3. ASSUME NEW x \in DOMAIN Tail(q), x > Len(t.kids[p]) - (d + 1),
                 Tail(q)[x] \in t.main
          PROVE  LocGreater(t.range[Tail(q)[x]].begin, end)
      <4>1. x + 1 \in DOMAIN q /\ x + 1 > Len(t.kids[p]) - d
            /\ Tail(q)[x] = q[x + 1]
        BY <1>1, <1>2, <3>3
      <4> QED
        BY <4>1, <3>3 DEF Walk
    <3> QED
      BY <2>1, <2>3, <3>1, <3>2, <3>3 DEF Walk
  <2> QED
    BY <1>4, <2>3
<1> QED
  BY <1>3, <1>4

(* Going below the head.                                                   *)
LEMMA WalkDescends ==
  ASSUME NEW t \in Tree, InOrder(t), NEW end \in Location,
         NEW q \in Seq(Node), q # << >>, NEW p \in Node, NEW d \in Nat,
         Walk(t, end, q, << >>, p, d), d # Len(t.kids[p]),
         Head(q) \in t.main, LocLeq(end, t.endSemi[Head(q)])
  PROVE  Walk(t, end, t.kids[Head(q)] \o Tail(q), << >>, Head(q), 0)
<1> DEFINE n == Head(q)
           u == t.kids[n] \o Tail(q)
<1>1. n \in Node
  OBVIOUS
<1>2. /\ t.kids[p] \in Seq(Node) /\ DOMAIN t.kids[p] = 1 .. Len(t.kids[p])
      /\ Len(t.kids[p]) \in Nat
      /\ t.kids[n] \in Seq(Node) /\ DOMAIN t.kids[n] = 1 .. Len(t.kids[n])
      /\ Len(t.kids[n]) \in Nat
  BY <1>1 DEF Tree
<1>3. /\ Len(q) \in Nat /\ Len(q) >= 1 /\ DOMAIN q = 1 .. Len(q)
      /\ n = q[1] /\ Tail(q) \in Seq(Node)
      /\ Len(Tail(q)) = Len(q) - 1
      /\ \A x \in 1 .. Len(q) - 1 : Tail(q)[x] = q[x + 1]
  OBVIOUS
<1>4. /\ DOMAIN u = 1 .. Len(t.kids[n]) + (Len(q) - 1)
      /\ Len(u) = Len(t.kids[n]) + (Len(q) - 1)
      /\ \A x \in 1 .. Len(t.kids[n]) : u[x] = t.kids[n][x]
  BY <1>2, <1>3
<1>5. \A x \in DOMAIN u : x > Len(t.kids[n]) =>
        /\ x - Len(t.kids[n]) + 1 \in DOMAIN q
        /\ x - Len(t.kids[n]) + 1 > 1
        /\ u[x] = q[x - Len(t.kids[n]) + 1]
  <2> SUFFICES ASSUME NEW x \in DOMAIN u, x > Len(t.kids[n])
               PROVE  /\ x - Len(t.kids[n]) + 1 \in DOMAIN q
                      /\ x - Len(t.kids[n]) + 1 > 1
                      /\ u[x] = q[x - Len(t.kids[n]) + 1]
    OBVIOUS
  <2>1. x - Len(t.kids[n]) \in 1 .. Len(q) - 1
    BY <1>2, <1>3, <1>4
  <2>2. u[x] = Tail(q)[x - Len(t.kids[n])]
    BY <1>2, <1>3, <1>4
  <2> QED
    BY <2>1, <2>2, <1>2, <1>3
<1>6. n = t.kids[p][d + 1] /\ d + 1 \in DOMAIN t.kids[p]
  BY WalkHead
<1>0. n \in t.main /\ LocLeq(end, t.endSemi[n])
  OBVIOUS
<1> HIDE DEF n, u
<1>7. ASSUME NEW y \in DOMAIN q, y > 1, q[y] \in t.main
      PROVE  LocGreater(t.range[q[y]].begin, end)
  <2>1. CASE y > Len(t.kids[p]) - d
    BY <1>7, <2>1 DEF Walk
  <2>2. CASE ~ y > Len(t.kids[p]) - d
    <3>1. y \in 1 .. Len(t.kids[p]) - d /\ d + y \in DOMAIN t.kids[p] /\ d + 1 < d + y
      BY <1>2, <1>3, <1>7, <2>2
    <3>2. q[y] = t.kids[p][d + y]
      BY <3>1 DEF Walk
    <3>3. LocLess(t.endSemi[n], t.range[q[y]].begin)
      BY <1>0, <1>6, <1>7, <3>1, <3>2 DEF InOrder
    <3>4. q[y] \in Node
      BY <1>7
    <3>5. /\ t.endSemi[n] \in Location /\ t.range[q[y]].begin \in Location
      BY <1>1, <3>4 DEF Tree, TemplateRanges
    <3> QED
      BY <1>0, <3>3, <3>5, LocTransitive, LocTotal DEF LocGreater
  <2> QED
    BY <2>1, <2>2
<1>8. ASSUME NEW x \in DOMAIN u, x > Len(t.kids[n]) - 0, u[x] \in t.main
      PROVE  LocGreater(t.range[u[x]].begin, end)
  <2>1. x > Len(t.kids[n])
    BY <1>2, <1>8
  <2> QED
    BY <2>1, <1>5, <1>7, <1>8
<1>9. /\ 0 \in Nat /\ 0 <= Len(t.kids[n]) /\ Len(t.kids[n]) - 0 <= Len(u)
      /\ \A x \in 1 .. Len(t.kids[n]) - 0 : u[x] = t.kids[n][0 + x]
  BY <1>2, <1>3, <1>4
<1>10. Walk(t, end, u, << >>, n, 0)
  BY <1>8, <1>9 DEF Walk
<1> QED
  BY <1>10 DEF n, u
(* A step that leaves the template alone.                                  *)
LEMMA SiblingKept ==
  ASSUME SiblingInv, input' = input, phase' \notin {"start", "template"},
         templateConstructionBegan' = templateConstructionBegan,
         templateSubtrees' = templateSubtrees,
         TemplateParsed' => TemplateParsed
  PROVE  SiblingInv'
<1>1. tree' = tree
  BY SameTree
<1>2. SiblingRun(templateSubtrees) => SiblingRun(templateSubtrees)'
  BY <1>1 DEF SiblingRun
<1>3. TemplateIsSiblingRun'
  BY <1>2, Zenon DEF SiblingInv, TemplateIsSiblingRun
<1>4. (~ templateConstructionBegan => templateSubtrees = << >>)'
  BY Zenon DEF SiblingInv
<1> QED
  BY <1>3, <1>4, Zenon DEF SiblingInv

LEMMA ThrowSibling ==
  ASSUME SiblingInv, NEW why, Throw(why)
  PROVE  SiblingInv'
<1>1. /\ input' = input /\ phase' = "rejected"
      /\ templateConstructionBegan' = templateConstructionBegan
      /\ templateSubtrees' = templateSubtrees
  BY DEF Throw, template
<1>2. ~ TemplateParsed' /\ phase' \notin {"start", "template"}
  BY <1>1 DEF TemplateParsed
<1> QED
  BY <1>1, <1>2, SiblingKept

(* A step of the first search that goes on with it.                        *)
LEMMA WalkSibling ==
  ASSUME SiblingInv, input' = input, phase' = "template",
         ~ templateConstructionBegan' => templateSubtrees' = << >>,
         NEW p \in Node, NEW d \in Nat,
         Walk(tree, templ.end, pending', templateSubtrees', p, d)
  PROVE  SiblingInv'
<1>1. tree' = tree /\ templ' = templ
  BY SameTree DEF templ
<1>2. (\E x \in Node : \E y \in Nat :
         Walk(tree, templ.end, pending, templateSubtrees, x, y))'
  BY <1>1
<1>3. TemplateIsSiblingRun' /\ (phase = "start" => ~ templateConstructionBegan)'
  BY DEF TemplateIsSiblingRun, TemplateParsed
<1> QED
  BY <1>2, <1>3, Zenon DEF SiblingInv

LEMMA CheckFileRangeSibling ==
  ASSUME IInv, SiblingInv, CheckFileRange
  PROVE  SiblingInv'
<1>1. CASE EnclosedIn(templ, tree.fileRange)
  <2>1. /\ input' = input /\ phase = "start" /\ phase' = "template"
        /\ pending' = tree.kids[tree.root]
        /\ templateConstructionBegan' = templateConstructionBegan
        /\ templateSubtrees' = templateSubtrees
    BY <1>1 DEF CheckFileRange, GoOn, template
  <2>2. templateSubtrees = << >>
    BY <2>1, Zenon DEF SiblingInv
  <2>3. tree.root \in Node /\ tree.kids[tree.root] \in Seq(Node)
    BY InputTypes DEF IInv
  <2>4. Walk(tree, templ.end, pending', templateSubtrees', tree.root, 0)
    BY <2>1, <2>2, <2>3 DEF Walk
  <2>5. ~ templateConstructionBegan' => templateSubtrees' = << >>
    BY <2>1, <2>2
  <2> QED
    BY <2>1, <2>3, <2>4, <2>5, WalkSibling
<1>2. CASE ~ EnclosedIn(templ, tree.fileRange)
  BY <1>2, ThrowSibling DEF CheckFileRange
<1> QED
  BY <1>1, <1>2

(* A main-file child behind one that starts with the template is not       *)
(* passed.                                                                 *)
LEMMA LaterNotPassed ==
  ASSUME NEW t \in Tree, InOrder(t), NEW begin \in Location,
         NEW s, s # << >>, s \in Seq(Node), t.range[First(s)].begin = begin,
         NEW p \in Node, NEW d \in Nat, NEW i \in 1 .. d,
         MainRun(t, s, p, i, d), d + 1 \in DOMAIN t.kids[p],
         t.kids[p][d + 1] \in t.main
  PROVE  ~ LocLess(t.range[t.kids[p][d + 1]].end, begin)
<1> DEFINE n == t.kids[p][d + 1]
           f == First(s)
<1>1. t.kids[p] \in Seq(Node) /\ DOMAIN t.kids[p] = 1 .. Len(t.kids[p])
      /\ Len(t.kids[p]) \in Nat
  BY DEF Tree
<1>2. PICK at \in [DOMAIN s -> i .. d] :
        \A x \in DOMAIN s : s[x] = t.kids[p][at[x]] /\ s[x] \in t.main
  BY DEF MainRun
<1>3. 1 \in DOMAIN s
  <2>1. DOMAIN s = 1 .. Len(s) /\ Len(s) \in Nat /\ Len(s) # 0
    OBVIOUS
  <2> QED
    BY <2>1
<1>4. at[1] \in 1 .. d /\ at[1] \in DOMAIN t.kids[p] /\ at[1] < d + 1
  BY <1>1, <1>3
<1>5. f = t.kids[p][at[1]] /\ f \in t.main /\ f \in Node /\ n \in Node
  BY <1>1, <1>2, <1>3, <1>4 DEF First
<1>6. n \in t.main
  OBVIOUS
<1> HIDE DEF n, f
<1>7. LocLess(t.endSemi[f], t.range[n].begin)
  BY <1>4, <1>5, <1>6 DEF InOrder, n
<1>8. /\ LocLeq(t.range[f].begin, t.range[f].end) /\ LocLeq(t.range[f].end, t.endLit[f])
      /\ LocLeq(t.endLit[f], t.endSemi[f]) /\ LocLeq(t.range[n].begin, t.range[n].end)
  BY <1>5, <1>6 DEF InOrder, Valid
<1>9. /\ t.range[f].begin \in Location /\ t.range[f].end \in Location
      /\ t.endLit[f] \in Location /\ t.endSemi[f] \in Location
      /\ t.range[n].begin \in Location /\ t.range[n].end \in Location
  BY <1>5 DEF Tree, TemplateRanges
<1>10. LocLeq(t.range[f].begin, t.endSemi[f])
  BY <1>8, <1>9, LocTransitive
<1>11. LocLess(t.range[f].begin, t.range[n].end)
  BY <1>7, <1>8, <1>9, <1>10, LocTransitive, LocTransitiveLess
<1>12. t.range[f].begin = begin
  BY DEF f
<1> QED
  BY <1>9, <1>11, <1>12, LocTotal DEF n, LocLess

LEMMA SkipSubtreeSibling ==
  ASSUME IInv, InOrder(tree), SiblingInv, NEW n \in Node, SkipSubtree(n)
  PROVE  SiblingInv'
<1>1. /\ phase = "template" /\ pending # << >> /\ n = Head(pending)
      /\ n \notin tree.main \/ LocLess(End(n), templ.begin)
      /\ input' = input /\ phase' = "template" /\ pending' = Tail(pending)
      /\ templateConstructionBegan' = templateConstructionBegan
      /\ templateSubtrees' = templateSubtrees
  BY DEF SkipSubtree, Visiting, Passed, GoOn, template
<1>2. tree \in Tree /\ pending \in Seq(Node) /\ templ \in TemplateRanges
  BY InputTypes DEF IInv, StateInv, Input, templ
<1>3. /\ templateSubtrees \in Seq(Node)
      /\ templateSubtrees # << >> => Start(First(templateSubtrees)) = templ.begin
  BY DEF IInv, TemplateInv, Begun
<1>4. PICK p \in Node, d \in Nat :
        Walk(tree, templ.end, pending, templateSubtrees, p, d)
  BY <1>1 DEF SiblingInv
<1>5. ~ templateConstructionBegan' => templateSubtrees' = << >>
  BY <1>1, Zenon DEF SiblingInv
<1>6. CASE d = Len(tree.kids[p])
  <2>1. Walk(tree, templ.end, pending', templateSubtrees', p, d)
    BY <1>1, <1>2, <1>4, <1>6, WalkSteps
  <2> QED
    BY <2>1, <1>1, <1>5, WalkSibling
<1>7. CASE d # Len(tree.kids[p])
  <2>1. d + 1 \in DOMAIN tree.kids[p] /\ n = tree.kids[p][d + 1]
    BY <1>1, <1>2, <1>4, <1>7, WalkHead
  <2>2. ASSUME templateSubtrees # << >>
        PROVE  \E i \in 1 .. d + 1 : MainRun(tree, templateSubtrees, p, i, d + 1)
    <3>1. PICK i \in 1 .. d : MainRun(tree, templateSubtrees, p, i, d)
      BY <2>2, <1>4 DEF Walk
    <3>2. n \notin tree.main
      <4>1. templ.begin \in Location
        BY <1>2 DEF TemplateRanges
      <4>2. n \in tree.main => ~ LocLess(End(n), templ.begin)
        BY <4>1, <3>1, <2>1, <2>2, <1>2, <1>3, LaterNotPassed DEF Start, End
      <4> QED
        BY <4>2, <1>1
    <3>3. MainRun(tree, templateSubtrees, p, i, d + 1)
      BY <3>1, <3>2, <2>1, RunSkips
    <3> QED
      BY <3>3
  <2>3. Walk(tree, templ.end, pending', templateSubtrees', p, d + 1)
    BY <1>1, <1>2, <1>4, <1>7, <2>2, WalkSteps
  <2>4. d + 1 \in Nat
    OBVIOUS
  <2> QED
    BY <2>3, <2>4, <1>1, <1>5, WalkSibling
<1> QED
  BY <1>6, <1>7

(* The search goes on below a node only while there is no template, and    *)
(* what it has beyond the node lies behind the end of the template.        *)
LEMMA DescendSibling ==
  ASSUME IInv, InOrder(tree), SiblingInv, NEW n \in Node, Descend(n)
  PROVE  SiblingInv'
<1>1. /\ phase = "template" /\ pending # << >> /\ n = Head(pending)
      /\ n \in tree.main /\ ~ LocGreater(Start(n), templ.end)
      /\ ~ LocGreater(templ.end, tree.endSemi[n])
      /\ input' = input /\ phase' = "template"
      /\ pending' = tree.kids[n] \o Tail(pending)
      /\ templateConstructionBegan' = templateConstructionBegan
      /\ templateSubtrees' = templateSubtrees
  BY DEF Descend, Visiting, Passed, Overshoots, SpansMore, GoOn, template
<1>2. ~ templateConstructionBegan
  BY Zenon DEF Descend, Constructing
<1>3. templateSubtrees = << >>
  BY <1>2, Zenon DEF SiblingInv
<1>4. tree \in Tree /\ pending \in Seq(Node) /\ templ.end \in Location
  BY InputTypes DEF IInv, StateInv, Input, templ, TemplateRanges
<1>5. PICK p \in Node, d \in Nat :
        Walk(tree, templ.end, pending, templateSubtrees, p, d)
  BY <1>1 DEF SiblingInv
<1>6. d # Len(tree.kids[p])
  BY <1>1, <1>4, <1>5, WalkHead DEF Start
<1>7. LocLeq(templ.end, tree.endSemi[n])
  BY <1>1 DEF LocGreater
<1>8. Walk(tree, templ.end, pending', templateSubtrees', n, 0)
  BY <1>1, <1>3, <1>4, <1>5, <1>6, <1>7, WalkDescends
<1> QED
  BY <1>1, <1>3, <1>8, WalkSibling

(* A node is added behind its sibling, with no main-file node between.     *)
LEMMA AddTemplateSubtreeSibling ==
  ASSUME IInv, InOrder(tree), SiblingInv, NEW n \in Node, AddTemplateSubtree(n)
  PROVE  SiblingInv'
<1>1. /\ phase = "template" /\ pending # << >> /\ n = Head(pending)
      /\ n \in tree.main /\ ~ LocGreater(Start(n), templ.end)
      /\ input' = input /\ templateConstructionBegan'
      /\ templateSubtrees' = Append(templateSubtrees, n)
      /\ \/ phase' = "template" /\ pending' = Tail(pending)
         \/ phase' = "queue"
  BY DEF AddTemplateSubtree, Visiting, Passed, Overshoots, GoOn
<1>2. tree \in Tree /\ pending \in Seq(Node) /\ templateSubtrees \in Seq(Node)
  BY InputTypes DEF IInv, StateInv, TemplateInv, Begun
<1>3. PICK p \in Node, d \in Nat :
        Walk(tree, templ.end, pending, templateSubtrees, p, d)
  BY <1>1 DEF SiblingInv
<1>4. d # Len(tree.kids[p])
  BY <1>1, <1>2, <1>3, WalkHead DEF Start
<1>5. d + 1 \in DOMAIN tree.kids[p] /\ n = tree.kids[p][d + 1] /\ d + 1 \in Nat
  BY <1>1, <1>2, <1>3, <1>4, WalkHead
<1>6. \E i \in 1 .. d + 1 : MainRun(tree, templateSubtrees', p, i, d + 1)
  <2>1. CASE templateSubtrees = << >>
    <3>1. templateSubtrees' = <<n>>
      BY <2>1, <1>1
    <3>2. MainRun(tree, templateSubtrees', p, d + 1, d + 1)
      BY <3>1, <1>1, <1>5, RunBegins
    <3>3. d + 1 \in 1 .. d + 1
      OBVIOUS
    <3> QED
      BY <3>2, <3>3
  <2>2. CASE templateSubtrees # << >>
    <3>1. PICK i \in 1 .. d : MainRun(tree, templateSubtrees, p, i, d)
      BY <2>2, <1>3 DEF Walk
    <3>2. i \in Nat /\ i <= d /\ i \in 1 .. d + 1
      OBVIOUS
    <3>3. MainRun(tree, templateSubtrees', p, i, d + 1)
      BY <3>1, <3>2, <1>1, <1>2, <1>5, RunGrows
    <3> QED
      BY <3>2, <3>3
  <2> QED
    BY <2>1, <2>2
<1>7. CASE phase' = "template" /\ pending' = Tail(pending)
  <2>1. Walk(tree, templ.end, pending', templateSubtrees', p, d + 1)
    BY <1>2, <1>1, <1>3, <1>4, <1>6, <1>7, WalkSteps
  <2> QED
    BY <2>1, <1>1, <1>5, <1>7, WalkSibling
<1>8. CASE phase' = "queue"
  <2>1. tree' = tree
    BY <1>1, SameTree
  <2>2. \E i \in DOMAIN tree.kids[p] : MainRun(tree, templateSubtrees', p, i, d + 1)
    <3>1. 1 .. d + 1 \subseteq DOMAIN tree.kids[p]
      <4>1. DOMAIN tree.kids[p] = 1 .. Len(tree.kids[p])
        BY <1>2 DEF Tree
      <4> QED
        BY <4>1, <1>5
    <3> QED
      BY <3>1, <1>6
  <2>3. TemplateIsSiblingRun'
    BY <2>1, <2>2, <1>5 DEF TemplateIsSiblingRun, SiblingRun
  <2> QED
    BY <2>3, <1>1, <1>8, Zenon DEF SiblingInv
<1> QED
  BY <1>1, <1>7, <1>8
(* The steps of the search for metavariables leave the template alone.     *)
LEMMA MetavariableStepsSibling ==
  ASSUME SiblingInv, NEW n \in Node,
         \/ TakeSubtree \/ SubtreeDone \/ Finish \/ AddToMetavariable(n)
         \/ SearchSubtrees(n)
  PROVE  SiblingInv'
<1>1. CASE ~ Finish \/ remainingMetavariables = {}
  <2>1. /\ input' = input /\ phase \in {"queue", "metavariables"}
        /\ phase' \in {"queue", "metavariables", "parsed"}
        /\ templateConstructionBegan' = templateConstructionBegan
        /\ templateSubtrees' = templateSubtrees
    BY <1>1 DEF TakeSubtree, SubtreeDone, Finish, AddToMetavariable,
                SearchSubtrees, Searching, GoOn, template
  <2>2. TemplateParsed /\ phase' \notin {"start", "template"}
    BY <2>1 DEF TemplateParsed
  <2> QED
    BY <2>1, <2>2, SiblingKept
<1>2. CASE Finish /\ remainingMetavariables # {}
  BY <1>2, ThrowSibling DEF Finish
<1> QED
  BY <1>1, <1>2

LEMMA InitSibling ==
  ASSUME Init
  PROVE  SiblingInv
<1>1. /\ phase = "start" /\ templateSubtrees = << >>
      /\ templateConstructionBegan = FALSE
  BY DEF Init
<1>2. TemplateIsSiblingRun
  BY <1>1 DEF TemplateIsSiblingRun, TemplateParsed
<1> QED
  BY <1>1, <1>2, Zenon DEF SiblingInv

LEMMA NextSibling ==
  ASSUME IInv, InOrder(tree) => SiblingInv, [Next]_vars
  PROVE  (InOrder(tree) => SiblingInv)'
<1>1. tree' = tree /\ input' = input
  BY InputKept
<1>2. ASSUME NEW n \in Node, GivesUp(n)
      PROVE  (InOrder(tree) => SiblingInv)'
  BY <1>1, <1>2, GivesUpThrows, ThrowSibling
<1>3. CASE Finished \/ UNCHANGED vars
  <2>1. /\ pending' = pending /\ phase' = phase
        /\ templateConstructionBegan' = templateConstructionBegan
        /\ templateSubtrees' = templateSubtrees
    BY <1>3 DEF Finished, vars, template
  <2>2. templ' = templ
    BY <1>1 DEF templ
  <2>3. TemplateIsSiblingRun => TemplateIsSiblingRun'
    BY <2>1, <1>1 DEF TemplateIsSiblingRun, TemplateParsed, SiblingRun
  <2>4. (\E p \in Node : \E d \in Nat :
           Walk(tree, templ.end, pending, templateSubtrees, p, d))
          => (\E p \in Node : \E d \in Nat :
                Walk(tree, templ.end, pending, templateSubtrees, p, d))'
    BY <2>1, <2>2, <1>1
  <2>5. SiblingInv => SiblingInv'
    BY <2>1, <2>3, <2>4, Zenon DEF SiblingInv
  <2> QED
    BY <2>5, <1>1
<1>4. tree.root \in Node
  BY InputTypes DEF IInv
<1>5. CASE NoTemplate
  BY <1>2, <1>4, <1>5 DEF GivesUp
<1>6. CASE TakeSubtree \/ SubtreeDone \/ Finish
  BY <1>1, <1>4, <1>6, MetavariableStepsSibling
<1> QED
  BY <1>1, <1>2, <1>3, <1>5, <1>6, CheckFileRangeSibling, SkipSubtreeSibling,
     DescendSibling, AddTemplateSubtreeSibling, MetavariableStepsSibling
     DEF Next, GivesUp

(* The template is a run of whole siblings, never pieces of neighbouring   *)
(* subtrees, in any file whose siblings follow one another.                *)
THEOREM TemplatesAreSiblingRuns == Spec => [](InOrder(tree) => TemplateIsSiblingRun)
<1>1. Init => IInv /\ (InOrder(tree) => SiblingInv)
  BY InitIInv, InitSibling
<1>2. IInv /\ (InOrder(tree) => SiblingInv) /\ [Next]_vars
        => (IInv /\ (InOrder(tree) => SiblingInv))'
  BY NextIInv, NextSibling
<1>3. SiblingInv => TemplateIsSiblingRun
  BY Zenon DEF SiblingInv
<1> QED
  BY <1>1, <1>2, <1>3, PTL DEF Spec
-----------------------------------------------------------------------------
(* Metavariables: one after the other.                                     *)

(* Of the nodes in A and B, all main-file nodes of A, with the semicolons  *)
(* behind them, come before all those of B.                                *)
Before(t, A, B) ==
  \A a \in A, b \in B : a \in t.main /\ b \in t.main =>
    LocLess(t.endSemi[a], t.range[b].begin)

Ordered(t, s) ==
  \A i, j \in DOMAIN s : i < j => Before(t, {s[i]}, {s[j]})

Searches == phase \in {"queue", "metavariables"}

(* The traversals go through the file from its start to its end.           *)
OrderInv ==
  /\ phase = "start" => subtreeQueue = << >>
  /\ phase = "queue" => pending = << >>
  /\ Ordered(tree, pending) /\ Ordered(tree, subtreeQueue)
  /\ phase = "template" => Before(tree, Bound(subtreeQueue), Bound(pending))
  /\ Searches => /\ Before(tree, Bound(pending), Bound(subtreeQueue))
                 /\ Bound(pending) \subseteq tree.main
  /\ Bound(subtreeQueue) \subseteq tree.main

Full == {m \in input.metavars : ~ m.nameOnly}

(* What was given to full metavariables lies before what is ahead; of two  *)
(* that are parsed one lies before the other; and one that is being parsed *)
(* lies behind those that are.                                             *)
GapInv ==
  /\ phase \in {"start", "template"} =>
       \A m \in input.metavars : subtreesOf[m] = << >>
  /\ \A m \in input.metavars : Bound(subtreesOf[m]) \subseteq tree.main
  /\ Searches => \A m \in Full :
       /\ Before(tree, Bound(subtreesOf[m]), Bound(pending))
       /\ Before(tree, Bound(subtreesOf[m]), Bound(subtreeQueue))
  /\ \A m, k \in Full \ remainingMetavariables : m # k =>
       \/ Before(tree, Bound(subtreesOf[m]), Bound(subtreesOf[k]))
       \/ Before(tree, Bound(subtreesOf[k]), Bound(subtreesOf[m]))
  /\ \A m \in Full \cap parsingMetavariable, k \in Full \ remainingMetavariables :
       Before(tree, Bound(subtreesOf[k]), Bound(subtreesOf[m]))
  /\ phase = "parsed" => remainingMetavariables = {}

OneFile == InOrder(tree) /\ Nested(tree)

LEMMA BoundFacts ==
  /\ Bound(<< >>) = {}
  /\ \A n \in Node : Bound(<<n>>) = {n}
  /\ \A s \in Seq(Node) : Bound(s) \subseteq Node
  /\ \A s \in Seq(Node), n \in Node : Bound(Append(s, n)) = Bound(s) \cup {n}
  /\ \A s \in Seq(Node) : s # << >> => Bound(s) = {Head(s)} \cup Bound(Tail(s))
<1>1. Bound(<< >>) = {} /\ \A n \in Node : Bound(<<n>>) = {n}
  BY DEF Bound
<1>2. ASSUME NEW s \in Seq(Node)
      PROVE  Bound(s) \subseteq Node
  BY DEF Bound
<1>3. ASSUME NEW s \in Seq(Node), NEW n \in Node
      PROVE  Bound(Append(s, n)) = Bound(s) \cup {n}
  <2>1. /\ DOMAIN s = 1 .. Len(s) /\ Len(s) \in Nat
        /\ DOMAIN Append(s, n) = 1 .. Len(s) + 1
        /\ \A i \in 1 .. Len(s) : Append(s, n)[i] = s[i]
        /\ Append(s, n)[Len(s) + 1] = n
    OBVIOUS
  <2>2. \A i \in 1 .. Len(s) + 1 : i \in 1 .. Len(s) \/ i = Len(s) + 1
    BY <2>1
  <2>3. 1 .. Len(s) \subseteq 1 .. Len(s) + 1 /\ Len(s) + 1 \in 1 .. Len(s) + 1
    BY <2>1
  <2>4. Bound(Append(s, n)) \subseteq Bound(s) \cup {n}
    BY <2>1, <2>2 DEF Bound
  <2>5. Bound(s) \cup {n} \subseteq Bound(Append(s, n))
    BY <2>1, <2>3 DEF Bound
  <2> QED
    BY <2>4, <2>5
<1>4. ASSUME NEW s \in Seq(Node), s # << >>
      PROVE  Bound(s) = {Head(s)} \cup Bound(Tail(s))
  <2>1. /\ DOMAIN s = 1 .. Len(s) /\ Len(s) \in Nat /\ Len(s) >= 1
        /\ Head(s) = s[1]
        /\ DOMAIN Tail(s) = 1 .. Len(s) - 1
        /\ \A i \in 1 .. Len(s) - 1 : Tail(s)[i] = s[i + 1]
    BY <1>4
  <2>2. \A i \in 1 .. Len(s) : i = 1 \/ (i - 1 \in 1 .. Len(s) - 1 /\ (i - 1) + 1 = i)
    BY <2>1
  <2>3. \A i \in 1 .. Len(s) - 1 : i + 1 \in 1 .. Len(s)
    BY <2>1
  <2>4. Bound(s) \subseteq {Head(s)} \cup Bound(Tail(s))
    <3>1. ASSUME NEW i \in 1 .. Len(s)
          PROVE  s[i] \in {Head(s)} \cup Bound(Tail(s))
      BY <2>1, <2>2 DEF Bound
    <3> QED
      BY <3>1, <2>1 DEF Bound
  <2>5. {Head(s)} \cup Bound(Tail(s)) \subseteq Bound(s)
    BY <2>1, <2>3 DEF Bound
  <2> QED
    BY <2>4, <2>5
<1> QED
  BY <1>1, <1>2, <1>3, <1>4

LEMMA BoundConcat ==
  ASSUME NEW r \in Seq(Node), NEW s \in Seq(Node)
  PROVE  Bound(r \o s) = Bound(r) \cup Bound(s)
<1>1. /\ Len(r) \in Nat /\ Len(s) \in Nat /\ DOMAIN r = 1 .. Len(r)
      /\ DOMAIN s = 1 .. Len(s) /\ DOMAIN (r \o s) = 1 .. Len(r) + Len(s)
  OBVIOUS
<1>2. /\ \A i \in DOMAIN r : i \in DOMAIN (r \o s) /\ (r \o s)[i] = r[i]
      /\ \A i \in DOMAIN s : Len(r) + i \in DOMAIN (r \o s)
                             /\ (r \o s)[Len(r) + i] = s[i]
  BY <1>1
<1>3. \A i \in DOMAIN (r \o s) :
        \/ i \in DOMAIN r
        \/ i - Len(r) \in DOMAIN s /\ (r \o s)[i] = s[i - Len(r)]
  BY <1>1
<1>4. Bound(r \o s) \subseteq Bound(r) \cup Bound(s)
  BY <1>2, <1>3 DEF Bound
<1>5. Bound(r) \subseteq Bound(r \o s)
  BY <1>2 DEF Bound
<1>6. Bound(s) \subseteq Bound(r \o s)
  BY <1>2 DEF Bound
<1> QED
  BY <1>4, <1>5, <1>6

LEMMA BeforeFacts ==
  ASSUME NEW t
  PROVE  /\ \A A, B : Before(t, {}, B) /\ Before(t, A, {})
         /\ \A A, B, C, D : Before(t, A, B) /\ C \subseteq A /\ D \subseteq B
                              => Before(t, C, D)
         /\ \A A, B, C : Before(t, A, C) /\ Before(t, B, C) => Before(t, A \cup B, C)
         /\ \A A, B, C : Before(t, A, B) /\ Before(t, A, C) => Before(t, A, B \cup C)
  BY DEF Before

LEMMA OrderedTail ==
  ASSUME NEW t, NEW s \in Seq(Node), s # << >>, Ordered(t, s)
  PROVE  Ordered(t, Tail(s)) /\ Before(t, {Head(s)}, Bound(Tail(s)))
<1>1. /\ DOMAIN s = 1 .. Len(s) /\ Len(s) \in Nat /\ Len(s) >= 1
      /\ Head(s) = s[1]
      /\ DOMAIN Tail(s) = 1 .. Len(s) - 1
      /\ \A i \in 1 .. Len(s) - 1 : Tail(s)[i] = s[i + 1]
  OBVIOUS
<1>2. \A i \in 1 .. Len(s) - 1 : i + 1 \in DOMAIN s /\ 1 < i + 1 /\ 1 \in DOMAIN s
  BY <1>1
<1>3. \A i, j \in 1 .. Len(s) - 1 : i < j => i + 1 < j + 1
  BY <1>1
<1>4. Ordered(t, Tail(s))
  BY <1>1, <1>2, <1>3 DEF Ordered
<1>5. ASSUME NEW b \in Bound(Tail(s))
      PROVE  Before(t, {Head(s)}, {b})
  <2>1. PICK i \in 1 .. Len(s) - 1 : b = s[i + 1]
    BY <1>1 DEF Bound
  <2> QED
    BY <2>1, <1>1, <1>2 DEF Ordered
<1>6. Before(t, {Head(s)}, Bound(Tail(s)))
  BY <1>5 DEF Before
<1> QED
  BY <1>4, <1>6

LEMMA OrderedConcat ==
  ASSUME NEW t, NEW r \in Seq(Node), NEW s \in Seq(Node),
         Ordered(t, r), Ordered(t, s), Before(t, Bound(r), Bound(s))
  PROVE  Ordered(t, r \o s)
<1> DEFINE u == r \o s
<1>1. /\ Len(r) \in Nat /\ Len(s) \in Nat /\ DOMAIN r = 1 .. Len(r)
      /\ DOMAIN s = 1 .. Len(s) /\ DOMAIN u = 1 .. Len(r) + Len(s)
  OBVIOUS
<1>2. \A i \in DOMAIN r : u[i] = r[i]
  BY <1>1
<1>3. \A i \in DOMAIN u : \/ i \in DOMAIN r
                          \/ /\ i > Len(r) /\ i - Len(r) \in DOMAIN s
                             /\ u[i] = s[i - Len(r)]
  BY <1>1
<1> HIDE DEF u
<1>4. ASSUME NEW i \in DOMAIN u, NEW j \in DOMAIN u, i < j
      PROVE  Before(t, {u[i]}, {u[j]})
  <2>1. CASE j \in DOMAIN r
    <3>1. i \in DOMAIN r
      BY <2>1, <1>1, <1>4
    <3> QED
      BY <2>1, <3>1, <1>2, <1>4 DEF Ordered
  <2>2. CASE i \in DOMAIN r /\ j \notin DOMAIN r
    <3>1. u[i] \in Bound(r) /\ u[j] \in Bound(s)
      BY <2>2, <1>2, <1>3 DEF Bound
    <3> QED
      BY <3>1 DEF Before
  <2>3. CASE i \notin DOMAIN r /\ j \notin DOMAIN r
    <3>1. /\ i - Len(r) \in DOMAIN s /\ u[i] = s[i - Len(r)]
          /\ j - Len(r) \in DOMAIN s /\ u[j] = s[j - Len(r)]
          /\ i - Len(r) < j - Len(r)
      BY <2>3, <1>1, <1>3, <1>4
    <3> QED
      BY <3>1 DEF Ordered
  <2> QED
    BY <2>1, <2>2, <2>3
<1>5. Ordered(t, u)
  BY <1>4 DEF Ordered
<1> QED
  BY <1>5 DEF u

LEMMA OrderedShort ==
  ASSUME NEW t, NEW n \in Node
  PROVE  Ordered(t, << >>) /\ Ordered(t, <<n>>)
<1>1. DOMAIN <<n>> = {1}
  OBVIOUS
<1> QED
  BY <1>1 DEF Ordered

LEMMA OrderedKids ==
  ASSUME NEW t, InOrder(t), NEW n \in Node
  PROVE  Ordered(t, t.kids[n])
  BY DEF InOrder, Ordered, Before

(* What a search passes to, at a node and below, keeps the order.          *)
LEMMA OrderedExpand ==
  ASSUME NEW t \in Tree, InOrder(t), Nested(t), NEW s \in Seq(Node), s # << >>,
         Ordered(t, s), NEW b \in {<< >>, t.kids[Head(s)]},
         b = << >> \/ Head(s) \in t.main
  PROVE  /\ Ordered(t, b \o Tail(s))
         /\ \A A \in SUBSET Node :
              /\ A \subseteq t.main /\ Before(t, A, Bound(s))
                   => Before(t, A, Bound(b \o Tail(s)))
              /\ A \subseteq t.main /\ Before(t, Bound(s), A)
                   => Before(t, Bound(b \o Tail(s)), A)
         /\ Bound(s) \subseteq t.main => Bound(b \o Tail(s)) \subseteq t.main
<1> DEFINE n == Head(s)
           r == Tail(s)
<1>1. n \in Node /\ r \in Seq(Node) /\ t.kids[n] \in Seq(Node) /\ << >> \in Seq(Node)
  BY DEF Tree
<1>2. b \in Seq(Node)
  BY <1>1
<1>3. /\ Bound(s) = {n} \cup Bound(r) /\ Bound(b \o r) = Bound(b) \cup Bound(r)
      /\ Bound(r) \subseteq Node /\ Bound(b) \subseteq Node
  BY <1>1, <1>2, BoundFacts, BoundConcat
<1>4. Ordered(t, r) /\ Before(t, {n}, Bound(r)) /\ Ordered(t, b)
  <2>1. Ordered(t, << >>) /\ Ordered(t, t.kids[n])
    BY <1>1, OrderedShort, OrderedKids
  <2> QED
    BY <2>1, OrderedTail
<1>5. \A k \in Bound(b) :
        /\ k \in t.main /\ n \in t.main
        /\ LocLeq(t.range[n].begin, t.range[k].begin)
        /\ LocLeq(t.endSemi[k], t.endSemi[n])
  <2>1. CASE b = << >>
    BY <2>1, BoundFacts
  <2>2. CASE b # << >>
    <3>1. b = t.kids[n] /\ n \in t.main
      BY <2>2
    <3> QED
      BY <3>1 DEF Nested, Bound
  <2> QED
    BY <2>1, <2>2
<1>6. \A k \in Node : /\ t.endSemi[k] \in Location
                      /\ t.range[k].begin \in Location
  BY DEF Tree, TemplateRanges
<1> HIDE DEF n, r
<1>7. ASSUME NEW A \in SUBSET Node, A \subseteq t.main, Before(t, A, {n})
      PROVE  Before(t, A, Bound(b))
  <2> SUFFICES ASSUME NEW a \in A, NEW k \in Bound(b)
               PROVE  LocLess(t.endSemi[a], t.range[k].begin)
    BY DEF Before
  <2>1. LocLess(t.endSemi[a], t.range[n].begin)
    BY <1>5, <1>7 DEF Before
  <2>2. k \in Node /\ LocLeq(t.range[n].begin, t.range[k].begin)
    BY <1>3, <1>5
  <2> QED
    BY <2>1, <2>2, <1>1, <1>6, LocTransitiveLess
<1>8. ASSUME NEW A \in SUBSET Node, Before(t, {n}, A)
      PROVE  Before(t, Bound(b), A)
  <2> SUFFICES ASSUME NEW a \in A, NEW k \in Bound(b), a \in t.main
               PROVE  LocLess(t.endSemi[k], t.range[a].begin)
    BY DEF Before
  <2>1. LocLess(t.endSemi[n], t.range[a].begin)
    BY <1>5, <1>8 DEF Before
  <2>2. k \in Node /\ LocLeq(t.endSemi[k], t.endSemi[n])
    BY <1>3, <1>5
  <2> QED
    BY <2>1, <2>2, <1>1, <1>6, LocTransitive
<1>9. Ordered(t, b \o r)
  BY <1>1, <1>2, <1>3, <1>4, <1>8, OrderedConcat
<1>10. ASSUME NEW A \in SUBSET Node, A \subseteq t.main, Before(t, A, Bound(s))
       PROVE  Before(t, A, Bound(b \o r))
  <2>1. Before(t, A, {n}) /\ Before(t, A, Bound(r))
    BY <1>3, <1>10 DEF Before
  <2> QED
    BY <2>1, <1>3, <1>7, <1>10 DEF Before
<1>11. ASSUME NEW A \in SUBSET Node, Before(t, Bound(s), A)
       PROVE  Before(t, Bound(b \o r), A)
  <2>1. Before(t, {n}, A) /\ Before(t, Bound(r), A)
    BY <1>3, <1>11 DEF Before
  <2> QED
    BY <2>1, <1>3, <1>8 DEF Before
<1>12. Bound(s) \subseteq t.main => Bound(b \o r) \subseteq t.main
  BY <1>3, <1>5
<1> QED
  BY <1>9, <1>10, <1>11, <1>12 DEF n, r
LEMMA GapKept ==
  ASSUME GapInv, input' = input, UNCHANGED binding,
         phase' \in {"start", "template"} => phase \in {"start", "template"},
         Searches' => \A m \in Full :
           /\ Before(tree, Bound(subtreesOf[m]), Bound(pending'))
           /\ Before(tree, Bound(subtreesOf[m]), Bound(subtreeQueue')),
         phase' = "parsed" => remainingMetavariables = {}
  PROVE  GapInv'
<1>1. /\ tree' = tree /\ subtreesOf' = subtreesOf /\ Full' = Full
      /\ remainingMetavariables' = remainingMetavariables
      /\ parsingMetavariable' = parsingMetavariable
  BY SameTree DEF binding, Full
<1>2. /\ \A m \in input.metavars : Bound(subtreesOf[m]) \subseteq tree.main
      /\ \A m, k \in Full \ remainingMetavariables : m # k =>
           \/ Before(tree, Bound(subtreesOf[m]), Bound(subtreesOf[k]))
           \/ Before(tree, Bound(subtreesOf[k]), Bound(subtreesOf[m]))
      /\ \A m \in Full \cap parsingMetavariable,
            k \in Full \ remainingMetavariables :
           Before(tree, Bound(subtreesOf[k]), Bound(subtreesOf[m]))
  BY DEF GapInv
<1>3. \A m : Bound(subtreesOf[m])' = Bound(subtreesOf[m])
  BY <1>1 DEF Bound
<1>4. Bound(pending)' = Bound(pending') /\ Bound(subtreeQueue)' = Bound(subtreeQueue')
  BY DEF Bound
<1>5. (\A m \in input.metavars : Bound(subtreesOf[m]) \subseteq tree.main)'
  BY <1>1, <1>2, <1>3
<1>6. (\A m, k \in Full \ remainingMetavariables : m # k =>
         \/ Before(tree, Bound(subtreesOf[m]), Bound(subtreesOf[k]))
         \/ Before(tree, Bound(subtreesOf[k]), Bound(subtreesOf[m])))'
  BY <1>1, <1>2, <1>3
<1>7. (\A m \in Full \cap parsingMetavariable, k \in Full \ remainingMetavariables :
         Before(tree, Bound(subtreesOf[k]), Bound(subtreesOf[m])))'
  BY <1>1, <1>2, <1>3
<1>8. (Searches => \A m \in Full :
         /\ Before(tree, Bound(subtreesOf[m]), Bound(pending))
         /\ Before(tree, Bound(subtreesOf[m]), Bound(subtreeQueue)))'
  BY <1>1, <1>3, <1>4
<1>9. (phase \in {"start", "template"} =>
         \A m \in input.metavars : subtreesOf[m] = << >>)'
  BY <1>1 DEF GapInv
<1>10. (phase = "parsed" => remainingMetavariables = {})'
  BY <1>1
<1> QED
  BY <1>5, <1>6, <1>7, <1>8, <1>9, <1>10, Zenon DEF GapInv

(* A step that stops the searches.                                         *)
LEMMA StopGap ==
  ASSUME OrderInv, GapInv, input' = input, UNCHANGED binding,
         pending' = pending, subtreeQueue' = subtreeQueue,
         phase' \in {"parsed", "rejected"},
         phase' = "parsed" => remainingMetavariables = {}
  PROVE  OrderInv' /\ GapInv'
<1>1. tree' = tree
  BY SameTree
<1>2. ~ Searches' /\ phase' \notin {"start", "template", "queue"}
  BY DEF Searches
<1>3. GapInv'
  BY <1>2, GapKept
<1>4. OrderInv'
  BY <1>1, <1>2, Zenon DEF OrderInv, Bound
<1> QED
  BY <1>3, <1>4

LEMMA ThrowGap ==
  ASSUME OrderInv, GapInv, NEW why, Throw(why)
  PROVE  OrderInv' /\ GapInv'
<1>1. /\ input' = input /\ UNCHANGED binding /\ pending' = pending
      /\ subtreeQueue' = subtreeQueue /\ phase' = "rejected"
  BY DEF Throw, template
<1> QED
  BY <1>1, StopGap

(* While the template is searched nothing is bound.                        *)
LEMMA NothingBoundGap ==
  ASSUME GapInv, phase \in {"start", "template"}, input' = input,
         UNCHANGED binding, phase' # "parsed"
  PROVE  GapInv'
<1>1. \A m \in Full : Bound(subtreesOf[m]) = {}
  BY DEF GapInv, Full, Bound
<1>2. \A m \in Full :
        /\ Before(tree, Bound(subtreesOf[m]), Bound(pending'))
        /\ Before(tree, Bound(subtreesOf[m]), Bound(subtreeQueue'))
  BY <1>1, BeforeFacts
<1> QED
  BY <1>2, GapKept

LEMMA CheckFileRangeGap ==
  ASSUME IInv, OneFile, OrderInv, GapInv, CheckFileRange
  PROVE  OrderInv' /\ GapInv'
<1>1. CASE EnclosedIn(templ, tree.fileRange)
  <2>1. /\ input' = input /\ UNCHANGED binding /\ phase = "start"
        /\ phase' = "template" /\ subtreeQueue' = subtreeQueue
        /\ pending' = tree.kids[tree.root]
    BY <1>1 DEF CheckFileRange, GoOn, template
  <2>2. GapInv'
    BY <2>1, NothingBoundGap
  <2>3. tree' = tree /\ tree.root \in Node /\ subtreeQueue' = << >>
    BY <2>1, SameTree, InputTypes DEF IInv, OrderInv
  <2>4. /\ Ordered(tree', pending')
        /\ Ordered(tree', subtreeQueue')
        /\ Bound(subtreeQueue)' = {}
    <3>1. Ordered(tree, tree.kids[tree.root])
      BY <2>3, OrderedKids DEF OneFile
    <3>2. Ordered(tree, << >>)
      BY <2>3, OrderedShort
    <3> QED
      BY <3>1, <3>2, <2>1, <2>3 DEF Bound
  <2>5. Before(tree', {}, Bound(pending)')
    BY BeforeFacts
  <2>6. ~ Searches' /\ phase' \notin {"start", "queue"}
    BY <2>1 DEF Searches
  <2>7. OrderInv'
    BY <2>4, <2>5, <2>6 DEF OrderInv
  <2> QED
    BY <2>2, <2>7
<1>2. CASE ~ EnclosedIn(templ, tree.fileRange)
  BY <1>2, ThrowGap DEF CheckFileRange
<1> QED
  BY <1>1, <1>2

LEMMA TemplateWalkGap ==
  ASSUME IInv, OneFile, OrderInv, GapInv, NEW n \in Node,
         SkipSubtree(n) \/ Descend(n)
  PROVE  OrderInv' /\ GapInv'
<1>1. /\ pending # << >> /\ input' = input /\ UNCHANGED binding
      /\ subtreeQueue' = subtreeQueue /\ phase = "template" /\ phase' = "template"
      /\ n = Head(pending)
  BY DEF SkipSubtree, Descend, Visiting, GoOn, template
<1>2. /\ tree' = tree /\ tree \in Tree /\ pending \in Seq(Node)
      /\ Tail(pending) \in Seq(Node) /\ subtreeQueue \in Seq(Node)
  BY <1>1, SameTree, InputTypes, SequenceFacts DEF IInv, StateInv
<1>3. << >> \o Tail(pending) = Tail(pending)
  BY <1>2
<1>4. PICK b \in {<< >>, tree.kids[Head(pending)]} :
        /\ pending' = b \o Tail(pending)
        /\ b = << >> \/ Head(pending) \in tree.main
  BY <1>1, <1>3 DEF SkipSubtree, Descend, Passed
<1>5. /\ Ordered(tree, pending) /\ Ordered(tree, subtreeQueue)
      /\ Before(tree, Bound(subtreeQueue), Bound(pending))
      /\ Bound(subtreeQueue) \subseteq tree.main
      /\ Bound(subtreeQueue) \subseteq Node
  BY <1>1, <1>2, BoundFacts DEF OrderInv
<1>6. Ordered(tree, pending') /\ Before(tree, Bound(subtreeQueue), Bound(pending'))
  BY <1>1, <1>2, <1>4, <1>5, OrderedExpand DEF OneFile
<1>7. ~ Searches' /\ phase' \notin {"start", "queue"}
  BY <1>1 DEF Searches
<1>8. OrderInv'
  BY <1>1, <1>2, <1>5, <1>6, <1>7 DEF OrderInv, Bound
<1>9. GapInv'
  BY <1>1, NothingBoundGap
<1> QED
  BY <1>8, <1>9

LEMMA AddTemplateSubtreeGap ==
  ASSUME IInv, OneFile, OrderInv, GapInv, NEW n \in Node, AddTemplateSubtree(n)
  PROVE  OrderInv' /\ GapInv'
<1>1. /\ pending # << >> /\ input' = input /\ UNCHANGED binding
      /\ phase = "template" /\ n = Head(pending) /\ n \in tree.main
      /\ subtreeQueue' = Append(subtreeQueue, n)
      /\ \/ phase' = "template" /\ pending' = Tail(pending)
         \/ phase' = "queue" /\ pending' = << >>
  BY DEF AddTemplateSubtree, Visiting, Passed, GoOn
<1>2. /\ tree' = tree /\ tree \in Tree /\ pending \in Seq(Node)
      /\ Tail(pending) \in Seq(Node) /\ subtreeQueue \in Seq(Node)
      /\ <<n>> \in Seq(Node)
  BY <1>1, SameTree, InputTypes, SequenceFacts DEF IInv, StateInv
<1>3. /\ Ordered(tree, pending) /\ Ordered(tree, subtreeQueue)
      /\ Before(tree, Bound(subtreeQueue), Bound(pending))
      /\ Bound(subtreeQueue) \subseteq tree.main
  BY <1>1 DEF OrderInv
<1>4. /\ Bound(pending) = {n} \cup Bound(Tail(pending))
      /\ Bound(subtreeQueue') = Bound(subtreeQueue) \cup {n}
      /\ Bound(<<n>>) = {n} /\ Bound(<< >>) = {}
  BY <1>1, <1>2, BoundFacts
<1>5. Ordered(tree, Tail(pending)) /\ Before(tree, {n}, Bound(Tail(pending)))
  BY <1>1, <1>2, <1>3, OrderedTail
<1>6. /\ Before(tree, Bound(subtreeQueue), {n})
      /\ Before(tree, Bound(subtreeQueue), Bound(Tail(pending)))
  BY <1>3, <1>4 DEF Before
<1>7. Ordered(tree, subtreeQueue')
  <2>1. subtreeQueue' = subtreeQueue \o <<n>>
    BY <1>1, <1>2
  <2> QED
    BY <2>1, <1>2, <1>3, <1>4, <1>6, OrderedShort, OrderedConcat
<1>8. Before(tree, Bound(subtreeQueue'), Bound(Tail(pending)))
  BY <1>4, <1>5, <1>6 DEF Before
<1>9. Bound(subtreeQueue') \subseteq tree.main
  BY <1>1, <1>3, <1>4
<1>10. GapInv'
  BY <1>1, NothingBoundGap
<1>11. CASE phase' = "template" /\ pending' = Tail(pending)
  <2>1. ~ Searches' /\ phase' \notin {"start", "queue"}
    BY <1>11 DEF Searches
  <2>2. OrderInv'
    BY <2>1, <1>2, <1>5, <1>7, <1>8, <1>9, <1>11 DEF OrderInv, Bound
  <2> QED
    BY <2>2, <1>10
<1>12. CASE phase' = "queue" /\ pending' = << >>
  <2>1. Ordered(tree, << >>) /\ Before(tree, {}, Bound(subtreeQueue'))
    BY OrderedShort, BeforeFacts
  <2>2. Bound(pending)' = {} /\ Bound(subtreeQueue)' = Bound(subtreeQueue')
    BY <1>12 DEF Bound
  <2>3. OrderInv'
    BY <2>1, <2>2, <1>2, <1>7, <1>9, <1>12 DEF OrderInv
  <2> QED
    BY <2>3, <1>10
<1> QED
  BY <1>1, <1>11, <1>12

LEMMA QueueGap ==
  ASSUME IInv, OneFile, OrderInv, GapInv, TakeSubtree \/ SubtreeDone
  PROVE  OrderInv' /\ GapInv'
<1>1. CASE TakeSubtree
  <2>1. /\ input' = input /\ UNCHANGED binding /\ phase = "queue"
        /\ phase' = "metavariables" /\ Searches
        /\ subtreeQueue # << >> /\ pending' = <<Head(subtreeQueue)>>
        /\ subtreeQueue' = Tail(subtreeQueue)
    BY <1>1 DEF TakeSubtree, GoOn, Searches
  <2>2. subtreeQueue \in Seq(Node) /\ Head(subtreeQueue) \in Node /\ tree' = tree
    BY <2>1, SequenceFacts, SameTree DEF IInv, StateInv
  <2>3. Ordered(tree, subtreeQueue) /\ Bound(subtreeQueue) \subseteq tree.main
    BY DEF OrderInv
  <2>4. /\ Bound(pending') = {Head(subtreeQueue)}
        /\ Bound(subtreeQueue) = {Head(subtreeQueue)} \cup Bound(subtreeQueue')
    BY <2>1, <2>2, BoundFacts
  <2>5. /\ Ordered(tree, pending') /\ Ordered(tree, subtreeQueue')
        /\ Before(tree, Bound(pending'), Bound(subtreeQueue'))
    BY <2>1, <2>2, <2>3, <2>4, OrderedShort, OrderedTail
  <2>6. OrderInv'
    <3>1. Bound(pending)' = Bound(pending') /\ Bound(subtreeQueue)' = Bound(subtreeQueue')
      BY DEF Bound
    <3>2. Bound(pending') \subseteq tree.main /\ Bound(subtreeQueue') \subseteq tree.main
      BY <2>3, <2>4
    <3> QED
      BY <3>1, <3>2, <2>1, <2>2, <2>5 DEF OrderInv
  <2>7. \A m \in Full :
          /\ Before(tree, Bound(subtreesOf[m]), Bound(pending'))
          /\ Before(tree, Bound(subtreesOf[m]), Bound(subtreeQueue'))
    <3>1. \A m \in Full : Before(tree, Bound(subtreesOf[m]), Bound(subtreeQueue))
      BY <2>1 DEF GapInv
    <3>2. Bound(pending') \subseteq Bound(subtreeQueue)
          /\ Bound(subtreeQueue') \subseteq Bound(subtreeQueue)
      BY <2>4
    <3> QED
      BY <3>1, <3>2, BeforeFacts
  <2> QED
    BY <2>1, <2>6, <2>7, GapKept
<1>2. CASE SubtreeDone
  <2>1. /\ input' = input /\ UNCHANGED binding /\ phase = "metavariables"
        /\ phase' = "queue" /\ Searches /\ pending = << >> /\ pending' = pending
        /\ subtreeQueue' = subtreeQueue /\ tree' = tree
    BY <1>2, SameTree DEF SubtreeDone, GoOn, Searches, template
  <2>2. OrderInv'
    BY <2>1 DEF OrderInv, Bound
  <2>3. GapInv'
    BY <2>1, GapKept DEF GapInv
  <2> QED
    BY <2>2, <2>3
<1> QED
  BY <1>1, <1>2

LEMMA FinishGap ==
  ASSUME OrderInv, GapInv, Finish
  PROVE  OrderInv' /\ GapInv'
<1>1. CASE remainingMetavariables = {}
  BY <1>1, StopGap DEF Finish, GoOn, template
<1>2. CASE remainingMetavariables # {}
  BY <1>2, ThrowGap DEF Finish
<1> QED
  BY <1>1, <1>2

(* A step of a search below a subtree of the template.                     *)
LEMMA SearchOrder ==
  ASSUME IInv, OneFile, OrderInv, phase = "metavariables",
         phase' = "metavariables", input' = input, pending # << >>,
         subtreeQueue' = subtreeQueue,
         NEW b \in {<< >>, tree.kids[Head(pending)]},
         pending' = b \o Tail(pending)
  PROVE  /\ OrderInv'
         /\ \A A \in SUBSET Node :
              A \subseteq tree.main /\ Before(tree, A, Bound(pending))
                => Before(tree, A, Bound(pending'))
<1>1. /\ tree' = tree /\ tree \in Tree /\ pending \in Seq(Node)
      /\ subtreeQueue \in Seq(Node) /\ Searches /\ Searches'
  BY SameTree, InputTypes DEF IInv, StateInv, Searches
<1>2. /\ Ordered(tree, pending) /\ Ordered(tree, subtreeQueue)
      /\ Before(tree, Bound(pending), Bound(subtreeQueue))
      /\ Bound(subtreeQueue) \subseteq tree.main
      /\ Bound(pending) \subseteq tree.main
      /\ Bound(subtreeQueue) \subseteq Node
  BY <1>1, BoundFacts DEF OrderInv
<1>3. Head(pending) \in tree.main
  BY <1>1, <1>2, BoundFacts
<1>4. /\ Ordered(tree, pending')
      /\ \A A \in SUBSET Node :
           /\ A \subseteq tree.main /\ Before(tree, A, Bound(pending))
                => Before(tree, A, Bound(pending'))
           /\ A \subseteq tree.main /\ Before(tree, Bound(pending), A)
                => Before(tree, Bound(pending'), A)
      /\ Bound(pending') \subseteq tree.main
  BY <1>1, <1>2, <1>3, OrderedExpand DEF OneFile
<1>5. Before(tree, Bound(pending'), Bound(subtreeQueue'))
  BY <1>2, <1>4
<1>6. Bound(pending)' = Bound(pending') /\ Bound(subtreeQueue)' = Bound(subtreeQueue')
  BY DEF Bound
<1>7. OrderInv'
  BY <1>1, <1>2, <1>4, <1>5, <1>6 DEF OrderInv
<1> QED
  BY <1>4, <1>7

LEMMA SearchSubtreesGap ==
  ASSUME IInv, OneFile, OrderInv, GapInv, NEW n \in Node, SearchSubtrees(n)
  PROVE  OrderInv' /\ GapInv'
<1>1. /\ pending # << >> /\ input' = input /\ UNCHANGED binding
      /\ subtreeQueue' = subtreeQueue /\ phase = "metavariables"
      /\ phase' = "metavariables" /\ n = Head(pending) /\ Searches
      /\ pending' = SubtreesToSearch(n) \o Tail(pending)
  BY DEF SearchSubtrees, Searching, GoOn, template, Searches
<1>2. SubtreesToSearch(n) \in {<< >>, tree.kids[n]}
  BY DEF SubtreesToSearch
<1>3. /\ OrderInv'
      /\ \A A \in SUBSET Node :
           A \subseteq tree.main /\ Before(tree, A, Bound(pending))
             => Before(tree, A, Bound(pending'))
  BY <1>1, <1>2, SearchOrder
<1>4. \A m \in Full : /\ Bound(subtreesOf[m]) \subseteq tree.main
                      /\ Bound(subtreesOf[m]) \subseteq Node
  <2>1. \A m \in Full : subtreesOf[m] \in Seq(Node)
    BY DEF IInv, BindingInv, BindingTypes, Full
  <2> QED
    BY <2>1, BoundFacts DEF GapInv, Full
<1>5. \A m \in Full :
        /\ Before(tree, Bound(subtreesOf[m]), Bound(pending'))
        /\ Before(tree, Bound(subtreesOf[m]), Bound(subtreeQueue'))
  BY <1>1, <1>3, <1>4 DEF GapInv
<1> QED
  BY <1>1, <1>3, <1>5, GapKept
(* A full metavariable that was given nodes does not begin again: what is  *)
(* ahead lies behind them.  So a node goes to one that is being parsed, or *)
(* that had none before.                                                   *)
LEMMA NotBegunTwice ==
  ASSUME IInv, OneFile, OrderInv, GapInv, phase = "metavariables",
         pending # << >>, NEW m \in Full, m \in Current(Head(pending))
  PROVE  m \in parsingMetavariable \/ subtreesOf[m] = << >>
<1> DEFINE n == Head(pending)
           f == First(subtreesOf[m])
<1> SUFFICES ASSUME m \notin parsingMetavariable, subtreesOf[m] # << >>
             PROVE  FALSE
  OBVIOUS
<1>1. Begins(m, n)
  BY DEF Current
<1>2. m \in input.metavars /\ subtreesOf[m] \in Seq(Node)
      /\ Start(f) = m.range.begin
  BY DEF Full, IInv, BindingInv, BindingTypes, Followed, Begun
<1>3. f \in Bound(subtreesOf[m]) /\ f \in Node
  <2>1. DOMAIN subtreesOf[m] = 1 .. Len(subtreesOf[m]) /\ Len(subtreesOf[m]) \in Nat
        /\ Len(subtreesOf[m]) # 0
    BY <1>2
  <2>2. 1 \in DOMAIN subtreesOf[m]
    BY <2>1
  <2> QED
    BY <2>2, <1>2 DEF Bound, First
<1>4. /\ tree \in Tree /\ pending \in Seq(Node) /\ n \in Node
      /\ n \in Bound(pending)
  BY InputTypes, SequenceFacts, BoundFacts DEF IInv, StateInv
<1>5. Before(tree, Bound(subtreesOf[m]), Bound(pending)) /\ n \in tree.main
      /\ f \in tree.main
  BY <1>2, <1>3, <1>4 DEF GapInv, OrderInv, Searches
<1> HIDE DEF n, f
<1>6. LocLess(tree.endSemi[f], tree.range[n].begin)
  BY <1>3, <1>4, <1>5 DEF Before
<1>7. /\ LocLeq(tree.range[f].begin, tree.range[f].end)
      /\ LocLeq(tree.range[f].end, tree.endLit[f])
      /\ LocLeq(tree.endLit[f], tree.endSemi[f])
  BY <1>5 DEF OneFile, InOrder, Valid
<1>8. /\ tree.range[f].begin \in Location /\ tree.range[f].end \in Location
      /\ tree.endLit[f] \in Location /\ tree.endSemi[f] \in Location
      /\ tree.range[n].begin \in Location
  BY <1>3, <1>4 DEF Tree, TemplateRanges
<1>9. LocLeq(tree.range[f].begin, tree.endSemi[f])
  BY <1>7, <1>8, LocTransitive
<1>10. LocLess(tree.range[f].begin, tree.range[n].begin)
  BY <1>6, <1>8, <1>9, LocTransitive
<1>11. tree.range[n].begin = tree.range[f].begin
  BY <1>1, <1>2 DEF Begins, Start
<1> QED
  BY <1>10, <1>11 DEF LocLess

LEMMA AddToMetavariableGap ==
  ASSUME IInv, OneFile, OrderInv, GapInv, NEW n \in Node, AddToMetavariable(n)
  PROVE  OrderInv' /\ GapInv'
<1>1. PICK m \in Current(n) :
        /\ subtreesOf' = [subtreesOf EXCEPT ![m] = Append(@, n)]
        /\ \/ /\ remainingMetavariables' = remainingMetavariables \ {m}
              /\ parsingMetavariable' = {}
           \/ /\ remainingMetavariables' = remainingMetavariables
              /\ parsingMetavariable' = {m}
        /\ pending' = SubtreesBelow(m, n) \o Tail(pending)
  BY DEF AddToMetavariable
<1>2. /\ pending # << >> /\ input' = input /\ tree' = tree
      /\ subtreeQueue' = subtreeQueue /\ phase = "metavariables"
      /\ phase' = "metavariables" /\ n = Head(pending)
  BY SameTree DEF AddToMetavariable, Searching, GoOn, template
<1>3. m \in remainingMetavariables /\ m \in input.metavars
  BY CurrentIsBegun
<1>4. /\ subtreesOf \in [input.metavars -> Seq(Node)]
      /\ pending \in Seq(Node) /\ subtreeQueue \in Seq(Node)
  BY DEF IInv, StateInv, BindingInv, BindingTypes
<1>5. /\ SubtreesBelow(m, n) \in {<< >>, tree.kids[Head(pending)]}
      /\ ~ m.nameOnly => pending' = << >> \o Tail(pending)
  BY <1>1, <1>2 DEF SubtreesBelow, SubtreesToSearch
<1>6. /\ OrderInv'
      /\ \A A \in SUBSET Node :
           A \subseteq tree.main /\ Before(tree, A, Bound(pending))
             => Before(tree, A, Bound(pending'))
  BY <1>1, <1>2, <1>5, SearchOrder
<1>7. Full' = Full /\ Searches
  BY <1>2 DEF Full, Searches
<1>8. /\ \A o \in input.metavars :
           /\ Bound(subtreesOf[o]) \subseteq tree.main
           /\ Bound(subtreesOf[o]) \subseteq Node
      /\ \A o \in Full :
           /\ Before(tree, Bound(subtreesOf[o]), Bound(pending))
           /\ Before(tree, Bound(subtreesOf[o]), Bound(subtreeQueue))
      /\ \A o, k \in Full \ remainingMetavariables : o # k =>
           \/ Before(tree, Bound(subtreesOf[o]), Bound(subtreesOf[k]))
           \/ Before(tree, Bound(subtreesOf[k]), Bound(subtreesOf[o]))
      /\ \A o \in Full \cap parsingMetavariable, k \in Full \ remainingMetavariables :
           Before(tree, Bound(subtreesOf[k]), Bound(subtreesOf[o]))
  BY <1>4, <1>7, BoundFacts DEF GapInv
<1>9. /\ Ordered(tree, pending) /\ Bound(pending) \subseteq tree.main
      /\ Before(tree, Bound(pending), Bound(subtreeQueue))
  BY <1>7 DEF OrderInv
<1>10. Bound(pending) = {n} \cup Bound(Tail(pending)) /\ n \in tree.main
  BY <1>2, <1>4, <1>9, BoundFacts
<1> DEFINE after(o) == Bound(subtreesOf[o])'
<1>11. /\ after(m) = Bound(subtreesOf[m]) \cup {n}
       /\ \A o \in input.metavars : o # m => after(o) = Bound(subtreesOf[o])
  <2>1. subtreesOf'[m] = Append(subtreesOf[m], n) /\ subtreesOf[m] \in Seq(Node)
    BY <1>1, <1>3, <1>4
  <2>2. Bound(Append(subtreesOf[m], n)) = Bound(subtreesOf[m]) \cup {n}
    BY <2>1, BoundFacts
  <2>3. \A o \in input.metavars : o # m => subtreesOf'[o] = subtreesOf[o]
    BY <1>1, <1>3, <1>4
  <2> QED
    BY <2>1, <2>2, <2>3 DEF Bound
<1>12. m \in Full => Bound(subtreesOf[m]) = {} \/ m \in parsingMetavariable
  BY <1>1, <1>2, NotBegunTwice, BoundFacts
<1>13. Bound(pending)' = Bound(pending') /\ Bound(subtreeQueue)' = Bound(subtreeQueue)
  BY <1>2 DEF Bound
<1> HIDE DEF after
<1>14. \A o \in input.metavars : after(o) \subseteq tree.main
  BY <1>8, <1>10, <1>11
(* Those parsed before lie before what m has now.                          *)
<1>15. ASSUME m \in Full, NEW o \in Full \ remainingMetavariables
       PROVE  Before(tree, after(o), after(m))
  <2>1. o # m /\ o \in input.metavars /\ after(o) = Bound(subtreesOf[o])
    BY <1>3, <1>11, <1>15 DEF Full
  <2>2. Before(tree, Bound(subtreesOf[o]), {n})
    BY <1>8, <1>10 DEF Before
  <2>3. Before(tree, Bound(subtreesOf[o]), Bound(subtreesOf[m]))
    BY <1>8, <1>12, <1>15, BeforeFacts
  <2> QED
    BY <2>1, <2>2, <2>3, <1>11, BeforeFacts
<1>16. \A o \in Full \ remainingMetavariables' :
         o \in Full \ remainingMetavariables \/ (o = m /\ m \in Full)
  BY <1>1
<1>17. ASSUME NEW o \in Full \ remainingMetavariables',
              NEW k \in Full \ remainingMetavariables', o # k
       PROVE  Before(tree, after(o), after(k)) \/ Before(tree, after(k), after(o))
  <2>1. CASE o = m \/ k = m
    BY <2>1, <1>15, <1>16, <1>17
  <2>2. CASE o # m /\ k # m
    <3>1. /\ after(o) = Bound(subtreesOf[o]) /\ after(k) = Bound(subtreesOf[k])
          /\ o \in Full \ remainingMetavariables
          /\ k \in Full \ remainingMetavariables
      BY <2>2, <1>11, <1>16 DEF Full
    <3> QED
      BY <3>1, <1>8, <1>17
  <2> QED
    BY <2>1, <2>2
<1>18. ASSUME NEW o \in Full \cap parsingMetavariable',
              NEW k \in Full \ remainingMetavariables'
       PROVE  Before(tree, after(k), after(o))
  <2>1. o = m /\ k \in Full \ remainingMetavariables
    BY <1>1, <1>18
  <2> QED
    BY <2>1, <1>15
<1>19. ASSUME NEW o \in Full
       PROVE  /\ Before(tree, after(o), Bound(pending'))
              /\ Before(tree, after(o), Bound(subtreeQueue))
  <2>1. /\ Before(tree, Bound(subtreesOf[o]), Bound(pending'))
        /\ Before(tree, Bound(subtreesOf[o]), Bound(subtreeQueue))
    BY <1>6, <1>8 DEF Full
  <2>2. CASE o # m
    BY <2>1, <2>2, <1>11 DEF Full
  <2>3. CASE o = m
    <3>1. pending' = Tail(pending)
      <4>1. Tail(pending) \in Seq(Node)
        BY <1>2, <1>4, SequenceFacts
      <4>2. << >> \o Tail(pending) = Tail(pending)
        BY <4>1
      <4> QED
        BY <4>2, <2>3, <1>5 DEF Full
    <3>2. Before(tree, {n}, Bound(pending'))
      BY <3>1, <1>2, <1>4, <1>9, OrderedTail
    <3>3. Before(tree, {n}, Bound(subtreeQueue))
      BY <1>9, <1>10 DEF Before
    <3> QED
      BY <3>2, <3>3, <2>1, <2>3, <1>11, BeforeFacts
  <2> QED
    BY <2>2, <2>3
<1>20. GapInv'
  <2>1. (\A o \in input.metavars : Bound(subtreesOf[o]) \subseteq tree.main)'
    BY <1>2, <1>14 DEF after
  <2>2. (\A o, k \in Full \ remainingMetavariables : o # k =>
           \/ Before(tree, Bound(subtreesOf[o]), Bound(subtreesOf[k]))
           \/ Before(tree, Bound(subtreesOf[k]), Bound(subtreesOf[o])))'
    BY <1>2, <1>7, <1>17 DEF after
  <2>3. (\A o \in Full \cap parsingMetavariable, k \in Full \ remainingMetavariables :
           Before(tree, Bound(subtreesOf[k]), Bound(subtreesOf[o])))'
    BY <1>2, <1>7, <1>18 DEF after
  <2>4. (\A o \in Full : /\ Before(tree, Bound(subtreesOf[o]), Bound(pending))
                         /\ Before(tree, Bound(subtreesOf[o]), Bound(subtreeQueue)))'
    BY <1>2, <1>7, <1>13, <1>19 DEF after
  <2>5. phase' \notin {"start", "template", "parsed"}
    BY <1>2
  <2> QED
    BY <2>1, <2>2, <2>3, <2>4, <2>5, Zenon DEF GapInv
<1> QED
  BY <1>6, <1>20

LEMMA InitGap ==
  ASSUME Init
  PROVE  OrderInv /\ GapInv
<1>1. /\ phase = "start" /\ pending = << >> /\ subtreeQueue = << >>
      /\ parsingMetavariable = {} /\ remainingMetavariables = input.metavars
      /\ \A m \in input.metavars : subtreesOf[m] = << >>
  BY DEF Init
<1>2. ~ Searches /\ Bound(<< >>) = {} /\ Ordered(tree, << >>)
  BY <1>1 DEF Searches, Bound, Ordered
<1>3. OrderInv
  BY <1>1, <1>2 DEF OrderInv
<1>4. Full \ remainingMetavariables = {}
  BY <1>1 DEF Full
<1> QED
  BY <1>1, <1>2, <1>3, <1>4 DEF GapInv

LEMMA NextGap ==
  ASSUME IInv, OneFile => OrderInv /\ GapInv, [Next]_vars
  PROVE  (OneFile => OrderInv /\ GapInv)'
<1>1. tree' = tree /\ input' = input
  BY InputKept
<1>2. OneFile' <=> OneFile
  BY <1>1 DEF OneFile
<1> SUFFICES ASSUME OneFile
             PROVE  OrderInv' /\ GapInv'
  BY <1>2
<1>3. ASSUME NEW n \in Node, GivesUp(n)
      PROVE  OrderInv' /\ GapInv'
  BY <1>3, GivesUpThrows, ThrowGap
<1>4. CASE Finished \/ UNCHANGED vars
  <2>1. /\ pending' = pending /\ phase' = phase /\ subtreeQueue' = subtreeQueue
        /\ UNCHANGED binding
    BY <1>4 DEF Finished, vars, template
  <2>2. /\ Searches' <=> Searches
        /\ Bound(pending)' = Bound(pending)
        /\ Bound(subtreeQueue)' = Bound(subtreeQueue)
    BY <2>1 DEF Searches, Bound
  <2>3. OrderInv /\ GapInv
    OBVIOUS
  <2>4. OrderInv'
    BY <2>1, <2>2, <2>3, <1>1 DEF OrderInv
  <2>5. GapInv'
    <3>1. Searches' => \A m \in Full :
            /\ Before(tree, Bound(subtreesOf[m]), Bound(pending'))
            /\ Before(tree, Bound(subtreesOf[m]), Bound(subtreeQueue'))
      BY <2>1, <2>2, <2>3 DEF GapInv
    <3>2. phase' = "parsed" => remainingMetavariables = {}
      BY <2>1, <2>3 DEF GapInv
    <3> QED
      BY <3>1, <3>2, <2>1, <2>3, <1>1, GapKept
  <2> QED
    BY <2>4, <2>5
<1>5. CASE NoTemplate
  <2>1. tree.root \in Node
    BY InputTypes DEF IInv
  <2> QED
    BY <2>1, <1>3, <1>5 DEF GivesUp
<1> QED
  BY <1>3, <1>4, <1>5, CheckFileRangeGap, TemplateWalkGap, AddTemplateSubtreeGap,
     QueueGap, FinishGap, SearchSubtreesGap, AddToMetavariableGap DEF Next, GivesUp

(* What full metavariables have been given lies before what is ahead, and  *)
(* of two that are parsed one lies before the other.                       *)
THEOREM GapInvariance == Spec => [](IInv /\ (OneFile => OrderInv /\ GapInv))
<1>1. Init => IInv /\ (OneFile => OrderInv /\ GapInv)
  BY InitIInv, InitGap
<1>2. IInv /\ (OneFile => OrderInv /\ GapInv) /\ [Next]_vars
        => (IInv /\ (OneFile => OrderInv /\ GapInv))'
  BY NextIInv, NextGap
<1> QED
  BY <1>1, <1>2, PTL DEF Spec

(* A list of nodes that spans a range and lies before another one: then    *)
(* the one range ends before the other begins.                             *)
LEMMA SpansApart ==
  ASSUME IInv, OneFile, NEW r \in TemplateRanges, NEW q \in TemplateRanges,
         NEW s \in Seq(Node), NEW u \in Seq(Node), Spans(r, s), Spans(q, u),
         Bound(s) \subseteq tree.main, Bound(u) \subseteq tree.main,
         Before(tree, Bound(s), Bound(u))
  PROVE  ~ Intersect(r, q)
<1> DEFINE l == Final(s)
           f == First(u)
<1>1. /\ DOMAIN s = 1 .. Len(s) /\ Len(s) \in Nat /\ Len(s) # 0
      /\ DOMAIN u = 1 .. Len(u) /\ Len(u) \in Nat /\ Len(u) # 0
  BY DEF Spans
<1>2. Len(s) \in DOMAIN s /\ 1 \in DOMAIN u
  BY <1>1
<1>3. /\ l \in Bound(s) /\ f \in Bound(u) /\ l \in Node /\ f \in Node
      /\ l \in tree.main /\ f \in tree.main
  BY <1>1, <1>2 DEF Bound, First, Final
<1>4. /\ r.end \in {tree.range[l].end, tree.endLit[l], tree.endSemi[l]}
      /\ q.begin = tree.range[f].begin
  BY DEF Spans, EndsAt, End, Start
<1> HIDE DEF l, f
<1>5. LocLess(tree.endSemi[l], tree.range[f].begin)
  BY <1>3 DEF Before
<1>6. /\ LocLeq(tree.range[l].end, tree.endLit[l])
      /\ LocLeq(tree.endLit[l], tree.endSemi[l])
  BY <1>3 DEF OneFile, InOrder
<1>7. /\ tree.range[l].end \in Location /\ tree.endLit[l] \in Location
      /\ tree.endSemi[l] \in Location /\ tree.range[f].begin \in Location
  <2>1. tree \in Tree
    BY InputTypes DEF IInv
  <2> QED
    BY <2>1, <1>3 DEF Tree, TemplateRanges
<1>8. LocLess(tree.range[l].end, tree.range[f].begin)
      /\ LocLess(tree.endLit[l], tree.range[f].begin)
  BY <1>5, <1>6, <1>7, LocTransitive
<1>9. LocLess(r.end, q.begin) /\ r.end \in Location /\ q.begin \in Location
  BY <1>4, <1>5, <1>7, <1>8
<1> QED
  BY <1>9, LocTotal DEF Intersect

(* In a file whose nodes follow one another or lie in one another, no two  *)
(* full metavariables of a template that is parsed share a location: the   *)
(* configurations that overlap, although they were accepted, are rejected  *)
(* here at the latest.                                                     *)
THEOREM ParsedAreDisjoint == Spec => [](OneFile => ParsedDisjoint)
<1>1. IInv /\ OneFile /\ GapInv => ParsedDisjoint
  <2> SUFFICES ASSUME IInv, OneFile, GapInv, phase = "parsed",
                      NEW m \in input.metavars, NEW k \in input.metavars,
                      m # k, ~ m.nameOnly, ~ k.nameOnly
               PROVE  ~ Intersect(m.range, k.range)
    BY DEF ParsedDisjoint
  <2>1. /\ m \in Full \ remainingMetavariables /\ k \in Full \ remainingMetavariables
    BY DEF GapInv, Full
  <2>2. /\ m.range \in TemplateRanges /\ k.range \in TemplateRanges
        /\ subtreesOf[m] \in Seq(Node) /\ subtreesOf[k] \in Seq(Node)
        /\ Bound(subtreesOf[m]) \subseteq tree.main
        /\ Bound(subtreesOf[k]) \subseteq tree.main
    BY DEF IInv, Input, MetavarLoc, BindingInv, BindingTypes, GapInv
  <2>3. Spans(m.range, subtreesOf[m]) /\ Spans(k.range, subtreesOf[k])
    BY <2>1 DEF IInv, BindingInv, Followed, Spans, Begun, Ended
  <2>4. \/ Before(tree, Bound(subtreesOf[m]), Bound(subtreesOf[k]))
        \/ Before(tree, Bound(subtreesOf[k]), Bound(subtreesOf[m]))
    BY <2>1 DEF GapInv
  <2>5. ~ Intersect(m.range, k.range) \/ ~ Intersect(k.range, m.range)
    BY <2>2, <2>3, <2>4, SpansApart
  <2> QED
    BY <2>5 DEF Intersect
<1> QED
  BY <1>1, GapInvariance, PTL
-----------------------------------------------------------------------------
(* The template: found if there is one.                                    *)

(* A node passed by a traversal that looks for what begins there.          *)
Behind(t, n, begin) == n \notin t.main \/ LocLess(t.range[n].end, begin)

(* The i-th to the j-th child of p stand in the list, from the x-th on.    *)
Slice(t, s, x, p, i, j) ==
  \A k \in i .. j : x + k - i \in DOMAIN s /\ s[x + k - i] = t.kids[p][k]

(* The traversal comes to p's children i to j, having passed what is       *)
(* before them.                                                            *)
LeadsAt(t, begin, s, x, p, i, j) ==
  /\ \A y \in 1 .. x - 1 : Behind(t, s[y], begin)
  /\ \/ p \in Subtree(t, s[x]) /\ t.root \notin Subtree(t, s[x])
     \/ Slice(t, s, x, p, i, j)

Leads(t, begin, s, p, i, j) ==
  \E x \in DOMAIN s : LeadsAt(t, begin, s, x, p, i, j)

(* Node k of the main file lies in n or is n.                              *)
Inner(t, k, n) ==
  n \in t.main /\ LocLeq(t.range[n].begin, t.range[k].begin) /\ EndsIn(t, k, n)

InOneFile == IsTree(tree) /\ InOrder(tree) /\ Enclosing(tree)

LEMMA LocReflexive ==
  ASSUME NEW a \in Location
  PROVE  LocLeq(a, a)
  BY DEF Location, LocLeq

(* What is known of the locations of a node of the main file.              *)
LEMMA MainLocations ==
  ASSUME NEW t \in Tree, InOrder(t), NEW n \in Node, n \in t.main
  PROVE  /\ t.range[n].begin \in Location /\ t.range[n].end \in Location
         /\ t.endLit[n] \in Location /\ t.endSemi[n] \in Location
         /\ LocLeq(t.range[n].begin, t.range[n].end)
         /\ LocLeq(t.range[n].end, t.endLit[n]) /\ LocLeq(t.endLit[n], t.endSemi[n])
         /\ LocLeq(t.range[n].end, t.endSemi[n])
         /\ LocLeq(t.range[n].begin, t.endSemi[n])
<1>1. /\ t.range[n].begin \in Location /\ t.range[n].end \in Location
      /\ t.endLit[n] \in Location /\ t.endSemi[n] \in Location
  BY DEF Tree, TemplateRanges
<1>2. /\ LocLeq(t.range[n].begin, t.range[n].end)
      /\ LocLeq(t.range[n].end, t.endLit[n]) /\ LocLeq(t.endLit[n], t.endSemi[n])
  BY DEF InOrder, Valid
<1> QED
  BY <1>1, <1>2, LocTransitive

LEMMA InnerTransitive ==
  ASSUME NEW t \in Tree, InOrder(t), NEW k \in Node, NEW m \in Node, NEW n \in Node,
         k \in t.main, Inner(t, k, m), Inner(t, m, n)
  PROVE  Inner(t, k, n)
<1>1. m \in t.main /\ n \in t.main
  BY DEF Inner
<1>2. /\ t.range[k].begin \in Location /\ t.range[k].end \in Location
      /\ t.endLit[k] \in Location /\ t.endSemi[k] \in Location
  BY MainLocations
<1>3. /\ t.range[m].begin \in Location /\ t.range[m].end \in Location
      /\ t.endLit[m] \in Location /\ t.endSemi[m] \in Location
      /\ LocLeq(t.range[m].end, t.endLit[m]) /\ LocLeq(t.range[m].end, t.endSemi[m])
  BY <1>1, MainLocations
<1>4. /\ t.range[n].begin \in Location /\ t.range[n].end \in Location
      /\ t.endLit[n] \in Location /\ t.endSemi[n] \in Location
  BY <1>1, MainLocations
<1>5. LocLeq(t.range[n].begin, t.range[k].begin)
  BY <1>2, <1>3, <1>4, LocTransitive DEF Inner
<1>6. EndsIn(t, k, m) /\ EndsIn(t, m, n)
  BY DEF Inner
<1>7. CASE LocLess(t.endLit[k], t.range[m].end) /\ LocLeq(t.endSemi[k], t.range[m].end)
  <2>1. CASE t.range[m].end = t.range[n].end
    BY <2>1, <1>1, <1>5, <1>7 DEF EndsIn, Inner
  <2>2. CASE LocLess(t.endLit[m], t.range[n].end) /\ LocLeq(t.endSemi[m], t.range[n].end)
    <3>1. LocLess(t.endLit[k], t.endLit[m]) /\ LocLeq(t.endSemi[k], t.endSemi[m])
      BY <1>2, <1>3, <1>7, LocTransitive, LocTransitiveLess
    <3>2. LocLeq(t.endLit[m], t.range[n].end)
      BY <2>2 DEF LocLess
    <3>3. LocLess(t.endLit[k], t.range[n].end) /\ LocLeq(t.endSemi[k], t.range[n].end)
      BY <1>2, <1>3, <1>4, <2>2, <3>1, <3>2, LocTransitive, LocTransitiveLess
    <3> QED
      BY <1>1, <1>5, <3>3 DEF EndsIn, Inner
  <2> QED
    BY <2>1, <2>2, <1>6 DEF EndsIn
<1>8. CASE /\ t.range[k].end = t.range[m].end
           /\ t.endLit[k] = t.endLit[m] /\ t.endSemi[k] = t.endSemi[m]
  BY <1>1, <1>5, <1>6, <1>8 DEF EndsIn, Inner
<1> QED
  BY <1>6, <1>7, <1>8 DEF EndsIn

LEMMA InnerReflexive ==
  ASSUME NEW t \in Tree, NEW n \in Node, n \in t.main
  PROVE  Inner(t, n, n)
<1>1. t.range[n].begin \in Location
  BY DEF Tree, TemplateRanges
<1> QED
  BY <1>1, LocReflexive DEF Inner, EndsIn

(* Of the subtree of a node below the translation unit, the nodes of the   *)
(* main file lie inside that node.                                         *)
LEMMA SubtreeInside ==
  ASSUME NEW t \in Tree, InOrder(t), Enclosing(t), NEW n \in Node,
         t.root \notin Subtree(t, n), NEW k \in Subtree(t, n), k \in t.main
  PROVE  Inner(t, k, n)
<1> DEFINE S == {x \in Subtree(t, n) : x \in t.main => Inner(t, x, n)}
<1>1. Subtree(t, n) \subseteq Node /\ n \in Subtree(t, n) /\ Closed(t, Subtree(t, n))
  BY SubtreeFacts
<1>2. S \in SUBSET Node /\ n \in S
  BY <1>1, InnerReflexive
<1>3. ASSUME NEW x \in S, NEW i \in DOMAIN t.kids[x]
      PROVE  t.kids[x][i] \in S
  <2> DEFINE c == t.kids[x][i]
  <2>1. x \in Node /\ x # t.root /\ c \in Subtree(t, n) /\ c \in Node
    BY <1>1 DEF Closed
  <2>2. ASSUME c \in t.main
        PROVE  Inner(t, c, n)
    <3>1. Inner(t, c, x) /\ x \in t.main
      BY <2>1, <2>2 DEF Enclosing, Inner
    <3>2. Inner(t, x, n)
      BY <3>1
    <3> HIDE DEF c
    <3> QED
      BY <2>1, <2>2, <3>1, <3>2, InnerTransitive
  <2> QED
    BY <2>1, <2>2
<1>4. Subtree(t, n) \subseteq S
  <2>1. Closed(t, S)
    BY <1>3 DEF Closed
  <2> QED
    BY <2>1, <1>2, SubtreeFacts
<1> QED
  BY <1>4

(* A node below n that is not n is below a child of n.                     *)
LEMMA SubtreeSplits ==
  ASSUME NEW t \in Tree, NEW n \in Node, NEW p \in Subtree(t, n), p # n
  PROVE  \E c \in DOMAIN t.kids[n] : p \in Subtree(t, t.kids[n][c])
<1> DEFINE S == {n} \cup Reach(t, t.kids[n])
<1>1. /\ \A c \in DOMAIN t.kids[n] :
           /\ t.kids[n][c] \in Node
           /\ t.kids[n][c] \in Subtree(t, t.kids[n][c])
           /\ Subtree(t, t.kids[n][c]) \subseteq Node
           /\ Closed(t, Subtree(t, t.kids[n][c]))
  BY SubtreeOfChild, SubtreeFacts
<1>2. S \in SUBSET Node /\ n \in S
  BY <1>1 DEF Reach
<1>3. Closed(t, S)
  BY <1>1 DEF Closed, Reach
<1>4. p \in S
  BY <1>2, <1>3, SubtreeFacts
<1> QED
  BY <1>4 DEF Reach

(* The children i to j of p, all of the main file, span the range r.       *)
RunOf(t, r, p, i, j) ==
  /\ i \in DOMAIN t.kids[p] /\ j \in DOMAIN t.kids[p] /\ i <= j
  /\ \A k \in i .. j : /\ t.kids[p][k] \in t.main
                       /\ LocLeq(t.range[t.kids[p][k]].end, r.end)
  /\ t.range[t.kids[p][i]].begin = r.begin
  /\ r.end \in {t.range[t.kids[p][j]].end, t.endLit[t.kids[p][j]],
                t.endSemi[t.kids[p][j]]}

LEMMA SubSequence ==
  ASSUME NEW s \in Seq(Node), NEW i \in DOMAIN s, NEW j \in DOMAIN s, i <= j
  PROVE  /\ DOMAIN SubSeq(s, i, j) = 1 .. j - i + 1 /\ Len(SubSeq(s, i, j)) = j - i + 1
         /\ \A x \in 1 .. j - i + 1 : SubSeq(s, i, j)[x] = s[i + x - 1]
  OBVIOUS

LEMMA SpannedRun ==
  ASSUME input \in Input, NEW r, NEW p \in Node, NEW i \in DOMAIN tree.kids[p],
         NEW j \in DOMAIN tree.kids[p], SpannedBy(r, p, i, j)
  PROVE  RunOf(tree, r, p, i, j)
<1> DEFINE s == tree.kids[p]
           u == SubSeq(s, i, j)
<1>1. s \in Seq(Node) /\ i \in Int /\ j \in Int /\ i <= j
  <2>1. tree.kids[p] \in Seq(Node)
    BY InputTypes
  <2> QED
    BY <2>1 DEF SpannedBy
<1>2. /\ DOMAIN u = 1 .. j - i + 1 /\ Len(u) = j - i + 1
      /\ \A x \in 1 .. j - i + 1 : u[x] = s[i + x - 1]
  <2> HIDE DEF s
  <2> QED
    BY <1>1, SubSequence DEF s
<1>3. /\ \A k \in i .. j : s[k] \in tree.main
      /\ Start(First(u)) = r.begin /\ EndsAt(Final(u), r.end)
      /\ \A x \in DOMAIN u : LocLeq(End(u[x]), r.end)
  BY DEF SpannedBy, Spans
<1> HIDE DEF s, u
<1>4. First(u) = s[i] /\ Final(u) = s[j]
  <2>1. 1 \in 1 .. j - i + 1 /\ j - i + 1 \in 1 .. j - i + 1
        /\ i + 1 - 1 = i /\ i + (j - i + 1) - 1 = j
    BY <1>1
  <2> QED
    BY <1>2, <2>1 DEF First, Final
<1>5. ASSUME NEW k \in i .. j
      PROVE  LocLeq(End(s[k]), r.end)
  <2>1. k - i + 1 \in 1 .. j - i + 1 /\ i + (k - i + 1) - 1 = k
    BY <1>1
  <2>2. u[k - i + 1] = s[k]
    BY <1>2, <2>1
  <2> QED
    BY <1>2, <1>3, <2>1, <2>2
<1> QED
  BY <1>1, <1>3, <1>4, <1>5 DEF RunOf, s, Start, End, EndsAt

(* A node above p's children i to j starts no later than they do, ends no  *)
(* earlier, and the traversal does not pass it.                            *)
LEMMA Above ==
  ASSUME NEW t \in Tree, InOrder(t), Enclosing(t), NEW r \in TemplateRanges,
         NEW p \in Node, NEW i, NEW j, RunOf(t, r, p, i, j), NEW n \in Node,
         t.root \notin Subtree(t, n), p \in Subtree(t, n)
  PROVE  /\ n \in t.main /\ LocLeq(t.range[n].begin, r.begin)
         /\ ~ Behind(t, n, r.begin)
         /\ EndsIn(t, t.kids[p][j], n)
<1> DEFINE a == t.kids[p][i]
           b == t.kids[p][j]
<1>1. a \in Subtree(t, n) /\ b \in Subtree(t, n)
  BY SubtreeFacts DEF RunOf, Closed
<1>2. /\ a \in t.main /\ b \in t.main /\ t.range[a].begin = r.begin
  <2>1. t.kids[p] \in Seq(Node)
    BY DEF Tree
  <2>2. i \in i .. j /\ j \in i .. j
    BY <2>1 DEF RunOf
  <2> QED
    BY <2>2 DEF RunOf
<1> HIDE DEF a, b
<1>3. a \in Node /\ b \in Node
  BY <1>1, SubtreeFacts
<1>4. Inner(t, a, n) /\ Inner(t, b, n)
  BY <1>1, <1>2, SubtreeInside
<1>5. /\ t.range[a].begin \in Location /\ t.range[a].end \in Location
      /\ t.endLit[a] \in Location
      /\ LocLeq(t.range[a].begin, t.range[a].end) /\ LocLeq(t.range[a].end, t.endLit[a])
  BY <1>2, <1>3, MainLocations
<1>6. n \in t.main /\ t.range[n].end \in Location
  BY <1>4, MainLocations DEF Inner
<1>7. LocLeq(t.range[a].end, t.range[n].end)
  <2>1. CASE t.range[a].end = t.range[n].end
    BY <2>1, <1>5, LocReflexive
  <2>2. CASE LocLess(t.endLit[a], t.range[n].end)
    BY <2>2, <1>5, <1>6, LocTransitive DEF LocLess
  <2> QED
    BY <2>1, <2>2, <1>4 DEF Inner, EndsIn
<1>8. LocLeq(r.begin, t.range[n].end)
  BY <1>2, <1>5, <1>6, <1>7, LocTransitive
<1>9. ~ LocLess(t.range[n].end, r.begin)
  BY <1>2, <1>5, <1>6, <1>8, LocTotal
<1> QED
  BY <1>2, <1>4, <1>6, <1>9 DEF Inner, Behind, b

(* So are its siblings before it.                                          *)
LEMMA BehindAbove ==
  ASSUME NEW t \in Tree, InOrder(t), NEW begin \in Location, NEW n \in Node,
         NEW c \in DOMAIN t.kids[n], NEW y \in DOMAIN t.kids[n], y < c,
         t.kids[n][c] \in t.main, LocLeq(t.range[t.kids[n][c]].begin, begin)
  PROVE  Behind(t, t.kids[n][y], begin)
<1> DEFINE a == t.kids[n][y]
           b == t.kids[n][c]
<1> SUFFICES ASSUME a \in t.main
             PROVE  LocLess(t.range[a].end, begin)
  BY DEF Behind
<1>1. LocLess(t.endSemi[a], t.range[b].begin)
  BY DEF InOrder
<1>2. a \in Node /\ b \in Node
  BY SubtreeOfChild
<1> HIDE DEF a, b
<1>3. /\ t.range[b].begin \in Location
  BY <1>2 DEF Tree, TemplateRanges
<1>4. t.range[a].end \in Location /\ t.endSemi[a] \in Location
      /\ LocLeq(t.range[a].end, t.endSemi[a])
  BY <1>2, MainLocations
<1>5. LocLess(t.range[a].end, t.range[b].begin)
  BY <1>1, <1>3, <1>4, LocTransitive
<1> QED
  BY <1>3, <1>4, <1>5, LocTransitiveLess DEF b

(* Below the translation unit, or below a node above p, the traversal      *)
(* still comes to p's children.                                            *)
LEMMA LeadsBelow ==
  ASSUME NEW t \in Tree, IsTree(t), InOrder(t), Enclosing(t), NEW r \in TemplateRanges,
         NEW p \in Node, NEW i, NEW j, RunOf(t, r, p, i, j), NEW n \in Node,
         n = t.root \/ t.root \notin Subtree(t, n), p \in Subtree(t, n),
         NEW q \in Seq(Node)
  PROVE  Leads(t, r.begin, t.kids[n] \o q, p, i, j)
<1> DEFINE s == t.kids[n]
           u == s \o q
<1>1. s \in Seq(Node) /\ r.begin \in Location
  BY DEF Tree, TemplateRanges
<1>2. \A c \in DOMAIN s : c \in DOMAIN u /\ u[c] = s[c]
  BY <1>1
<1>3. SUFFICES ASSUME NEW c \in DOMAIN s, s[c] \in t.main,
                      LocLeq(t.range[s[c]].begin, r.begin),
                      \/ p \in Subtree(t, s[c]) /\ t.root \notin Subtree(t, s[c])
                      \/ p = n /\ c = i
               PROVE  Leads(t, r.begin, u, p, i, j)
  <2>1. CASE p = n
    <3>1. i \in Int /\ j \in Int /\ i \in DOMAIN s /\ i <= j
      BY <2>1, <1>1 DEF RunOf
    <3>2. i \in i .. j
      BY <3>1
    <3>3. s[i] \in t.main /\ t.range[s[i]].begin = r.begin
      BY <2>1, <3>2 DEF RunOf
    <3>4. LocLeq(t.range[s[i]].begin, r.begin)
      BY <3>3, <1>1, LocReflexive
    <3> QED
      BY <1>3, <2>1, <3>1, <3>3, <3>4
  <2>2. CASE p # n
    <3>1. PICK c \in DOMAIN s : p \in Subtree(t, s[c])
      BY <2>2, SubtreeSplits
    <3>2. s[c] \in Node /\ Subtree(t, s[c]) \subseteq Subtree(t, n)
      BY SubtreeOfChild
    <3>3. t.root \notin Subtree(t, s[c])
      BY <3>2, NotBelowItself
    <3>4. s[c] \in t.main /\ LocLeq(t.range[s[c]].begin, r.begin)
      <4> HIDE DEF s
      <4> QED
        BY <3>1, <3>2, <3>3, Above
    <3> QED
      BY <1>3, <3>1, <3>3, <3>4
  <2> QED
    BY <2>1, <2>2
<1>4. ASSUME NEW y \in 1 .. c - 1
      PROVE  Behind(t, u[y], r.begin)
  <2>1. y \in DOMAIN s /\ y < c
    BY <1>1
  <2>2. Behind(t, s[y], r.begin)
    BY <1>1, <1>3, <2>1, BehindAbove
  <2> QED
    BY <2>1, <2>2, <1>2
<1>5. ASSUME p = n, c = i
      PROVE  Slice(t, u, c, p, i, j)
  <2> SUFFICES ASSUME NEW k \in i .. j
               PROVE  c + k - i \in DOMAIN u /\ u[c + k - i] = s[k]
    BY <1>5 DEF Slice
  <2>1. i \in DOMAIN s /\ j \in DOMAIN s
    BY <1>5 DEF RunOf
  <2>2. k \in DOMAIN s /\ c + k - i = k
    BY <1>1, <1>5, <2>1
  <2> QED
    BY <2>2, <1>2
<1>6. c \in DOMAIN u /\ LeadsAt(t, r.begin, u, c, p, i, j)
  BY <1>2, <1>3, <1>4, <1>5 DEF LeadsAt
<1> QED
  BY <1>6 DEF Leads

(* Passing a node, the traversal passes nothing that it looks for.         *)
LEMMA LeadsBehind ==
  ASSUME NEW t \in Tree, InOrder(t), Enclosing(t), NEW r \in TemplateRanges,
         NEW p \in Node, NEW i, NEW j, RunOf(t, r, p, i, j),
         NEW s \in Seq(Node), s # << >>, Leads(t, r.begin, s, p, i, j)
  PROVE  /\ Behind(t, Head(s), r.begin) => Leads(t, r.begin, Tail(s), p, i, j)
         /\ ~ Behind(t, Head(s), r.begin) => LeadsAt(t, r.begin, s, 1, p, i, j)
<1>1. PICK x \in DOMAIN s : LeadsAt(t, r.begin, s, x, p, i, j)
  BY DEF Leads
<1>2. /\ Len(s) \in Nat /\ DOMAIN s = 1 .. Len(s) /\ Head(s) = s[1]
      /\ 1 \in DOMAIN s
      /\ DOMAIN Tail(s) = 1 .. Len(s) - 1
      /\ \A y \in 1 .. Len(s) - 1 : Tail(s)[y] = s[y + 1]
  OBVIOUS
<1>3. CASE x = 1
  <2>1. ~ Behind(t, s[1], r.begin)
    <3>1. CASE p \in Subtree(t, s[1]) /\ t.root \notin Subtree(t, s[1])
      BY <3>1, Above
    <3>2. CASE Slice(t, s, 1, p, i, j)
      <4>1. /\ t.kids[p] \in Seq(Node) /\ r.begin \in Location
        BY DEF Tree, TemplateRanges
      <4>2. i \in i .. j /\ 1 + i - i = 1 /\ i \in DOMAIN t.kids[p]
        BY <4>1 DEF RunOf
      <4>3. s[1] = t.kids[p][i] /\ s[1] \in Node
        BY <3>2, <4>2, <1>2 DEF Slice
      <4>4. s[1] \in t.main /\ t.range[s[1]].begin = r.begin
        BY <4>2, <4>3 DEF RunOf
      <4>5. t.range[s[1]].end \in Location /\ LocLeq(r.begin, t.range[s[1]].end)
        BY <4>3, <4>4, MainLocations
      <4> QED
        BY <4>1, <4>4, <4>5, LocTotal DEF Behind
    <3> QED
      BY <3>1, <3>2, <1>1, <1>3 DEF LeadsAt
  <2> QED
    BY <2>1, <1>1, <1>2, <1>3
<1>4. CASE x # 1
  <2>1. /\ x \in 1 .. Len(s) /\ 1 \in 1 .. x - 1 /\ x - 1 \in DOMAIN Tail(s)
        /\ (x - 1) + 1 = x
    BY <1>2, <1>4
  <2>2. Behind(t, s[1], r.begin)
    BY <1>1, <2>1 DEF LeadsAt
  <2>3. Tail(s)[x - 1] = s[x]
    BY <1>2, <2>1
  <2>4. ASSUME NEW y \in 1 .. (x - 1) - 1
        PROVE  Behind(t, Tail(s)[y], r.begin)
    <3>1. y + 1 \in 1 .. x - 1 /\ y \in 1 .. Len(s) - 1
      BY <2>1
    <3> QED
      BY <3>1, <1>1, <1>2 DEF LeadsAt
  <2>5. ASSUME Slice(t, s, x, p, i, j)
        PROVE  Slice(t, Tail(s), x - 1, p, i, j)
    <3> SUFFICES ASSUME NEW k \in i .. j
                 PROVE  /\ (x - 1) + k - i \in DOMAIN Tail(s)
                        /\ Tail(s)[(x - 1) + k - i] = t.kids[p][k]
      BY DEF Slice
    <3>1. x + k - i \in DOMAIN s /\ s[x + k - i] = t.kids[p][k]
      BY <2>5 DEF Slice
    <3>2. i \in Int /\ k >= i
      <4>1. t.kids[p] \in Seq(Node)
        BY DEF Tree
      <4> QED
        BY <4>1 DEF RunOf
    <3>3. (x - 1) + k - i \in 1 .. Len(s) - 1 /\ ((x - 1) + k - i) + 1 = x + k - i
      BY <1>2, <2>1, <3>1, <3>2
    <3> QED
      BY <1>2, <3>1, <3>3
  <2>6. LeadsAt(t, r.begin, Tail(s), x - 1, p, i, j)
    BY <1>1, <2>3, <2>4, <2>5 DEF LeadsAt
  <2> QED
    BY <1>2, <2>1, <2>2, <2>6 DEF Leads
<1> QED
  BY <1>3, <1>4

(* The template range is spanned by p's children i to j, and the search    *)
(* comes to them: all of them while there is no template, then the rest.   *)
OnTheWay(p, i, j) ==
  /\ rejectedFor \notin TemplateErrors
  /\ phase = "start" => ~ templateConstructionBegan
  /\ phase = "template" /\ ~ templateConstructionBegan =>
       Leads(tree, templ.begin, pending, p, i, j)
  /\ phase = "template" /\ templateConstructionBegan =>
       \E c \in i .. j : Slice(tree, pending, 1, p, c, j)

NoCaseFive == \A n \in Node : ~ CaseFive(n)

FoundInv ==
  \A p \in Node : \A i, j \in DOMAIN tree.kids[p] :
    RunOf(tree, templ, p, i, j) => OnTheWay(p, i, j)

(* The first child begins the range, and no other one is passed.           *)
LEMMA RunLocations ==
  ASSUME NEW t \in Tree, InOrder(t), NEW r \in TemplateRanges, NEW p \in Node,
         NEW i, NEW j, RunOf(t, r, p, i, j), NEW c \in i .. j
  PROVE  /\ i \in Int /\ j \in Int /\ i \in i .. j /\ j \in i .. j
         /\ t.kids[p][c] \in Node /\ t.kids[p][c] \in t.main
         /\ c \in DOMAIN t.kids[p]
         /\ LocLeq(r.begin, t.range[t.kids[p][c]].begin)
         /\ ~ Behind(t, t.kids[p][c], r.begin)
         /\ LocLeq(t.range[t.kids[p][c]].begin, r.end)
         /\ LocLeq(r.begin, r.end)
<1> DEFINE a == t.kids[p][i]
           n == t.kids[p][c]
<1>1. t.kids[p] \in Seq(Node) /\ r.begin \in Location /\ r.end \in Location
  BY DEF Tree, TemplateRanges
<1>2. /\ i \in Int /\ j \in Int /\ i <= j /\ i \in DOMAIN t.kids[p]
      /\ c \in DOMAIN t.kids[p] /\ i \in i .. j /\ j \in i .. j
  BY <1>1 DEF RunOf
<1>3. /\ a \in Node /\ n \in Node /\ a \in t.main /\ n \in t.main
      /\ t.range[a].begin = r.begin /\ LocLeq(t.range[n].end, r.end)
  BY <1>1, <1>2 DEF RunOf
<1>4. /\ t.range[n].begin \in Location /\ t.range[n].end \in Location
      /\ LocLeq(t.range[n].begin, t.range[n].end)
  <2> HIDE DEF n
  <2> QED
    BY <1>3, MainLocations
<1>5. LocLeq(r.begin, t.range[n].begin)
  <2>1. CASE c = i
    BY <2>1, <1>1, <1>3, LocReflexive
  <2>2. CASE c # i
    <3>1. LocLess(t.endSemi[a], t.range[n].begin)
      BY <2>2, <1>2, <1>3 DEF InOrder
    <3>2. t.endSemi[a] \in Location /\ LocLeq(r.begin, t.endSemi[a])
      <4> HIDE DEF a
      <4> QED
        BY <1>3, MainLocations
    <3> QED
      BY <3>1, <3>2, <1>1, <1>4, LocTransitive DEF LocLess
  <2> QED
    BY <2>1, <2>2
<1>6. LocLeq(r.begin, t.range[n].end) /\ LocLeq(t.range[n].begin, r.end)
      /\ LocLeq(r.begin, r.end)
  BY <1>1, <1>3, <1>4, <1>5, LocTransitive
<1>7. ~ LocLess(t.range[n].end, r.begin)
  BY <1>1, <1>4, <1>6, LocTotal
<1> QED
  BY <1>2, <1>3, <1>5, <1>6, <1>7 DEF Behind

LEMMA SliceHead ==
  ASSUME NEW t, NEW s \in Seq(Node), s # << >>, NEW p, NEW c \in Int, NEW j \in Int,
         c <= j, Slice(t, s, 1, p, c, j)
  PROVE  Head(s) = t.kids[p][c]
<1>1. c \in c .. j /\ 1 + c - c = 1 /\ Head(s) = s[1]
  OBVIOUS
<1> QED
  BY <1>1 DEF Slice

LEMMA SliceTail ==
  ASSUME NEW t, NEW s \in Seq(Node), s # << >>, NEW p, NEW c \in Int, NEW j \in Int,
         Slice(t, s, 1, p, c, j)
  PROVE  Slice(t, Tail(s), 1, p, c + 1, j)
<1>1. /\ Len(s) \in Nat /\ DOMAIN s = 1 .. Len(s)
      /\ DOMAIN Tail(s) = 1 .. Len(s) - 1
      /\ \A y \in 1 .. Len(s) - 1 : Tail(s)[y] = s[y + 1]
  OBVIOUS
<1>2. ASSUME NEW k \in c + 1 .. j
      PROVE  1 + k - (c + 1) \in DOMAIN Tail(s)
             /\ Tail(s)[1 + k - (c + 1)] = t.kids[p][k]
  <2>1. k \in c .. j /\ (1 + k - (c + 1)) + 1 = 1 + k - c /\ 1 + k - (c + 1) >= 1
    OBVIOUS
  <2>2. 1 + k - c \in DOMAIN s /\ s[1 + k - c] = t.kids[p][k]
    BY <2>1 DEF Slice
  <2>3. 1 + k - (c + 1) \in 1 .. Len(s) - 1
    BY <1>1, <2>1, <2>2
  <2> QED
    BY <1>1, <2>1, <2>2, <2>3
<1> QED
  BY <1>2 DEF Slice

(* The node at which the first search decides: it is above the run, or it  *)
(* is the next child of it.                                                *)
LEMMA AtHead ==
  ASSUME IInv, InOneFile, NEW p \in Node, NEW i, NEW j,
         RunOf(tree, templ, p, i, j), OnTheWay(p, i, j),
         NEW n \in Node, Visiting(n), ~ Passed(n) \/ templateConstructionBegan
  PROVE  \/ /\ ~ templateConstructionBegan
            /\ p \in Subtree(tree, n) /\ tree.root \notin Subtree(tree, n)
         \/ \E c \in i .. j : /\ n = tree.kids[p][c]
                              /\ Slice(tree, pending, 1, p, c, j)
                              /\ ~ templateConstructionBegan => c = i
<1>1. /\ tree \in Tree /\ pending \in Seq(Node) /\ templ \in TemplateRanges
      /\ phase = "template" /\ pending # << >> /\ n = Head(pending)
      /\ InOrder(tree) /\ Enclosing(tree)
  BY InputTypes DEF IInv, StateInv, Input, templ, Visiting, InOneFile
<1>2. i \in Int /\ j \in Int /\ i <= j /\ i \in i .. j
  <2>1. tree.kids[p] \in Seq(Node)
    BY <1>1 DEF Tree
  <2> QED
    BY <2>1 DEF RunOf
<1>3. CASE templateConstructionBegan
  <2>1. PICK c \in i .. j : Slice(tree, pending, 1, p, c, j)
    BY <1>1, <1>3 DEF OnTheWay
  <2>2. c \in Int /\ j \in Int /\ c <= j
    BY <1>2
  <2>3. pending \in Seq(Node) /\ pending # << >>
    BY <1>1
  <2>4. Head(pending) = tree.kids[p][c]
    BY <2>1, <2>2, <2>3, SliceHead
  <2> QED
    BY <1>1, <1>3, <2>1, <2>4
<1>4. CASE ~ templateConstructionBegan
  <2>1. ~ Behind(tree, n, templ.begin)
    BY <1>4 DEF Passed, Behind, End
  <2>2. LeadsAt(tree, templ.begin, pending, 1, p, i, j)
    <3>1. Leads(tree, templ.begin, pending, p, i, j)
      BY <1>1, <1>4 DEF OnTheWay
    <3> QED
      BY <3>1, <1>1, <2>1, LeadsBehind
  <2>3. pending[1] = n
    BY <1>1
  <2>4. CASE Slice(tree, pending, 1, p, i, j)
    <3>1. Head(pending) = tree.kids[p][i]
      BY <1>1, <1>2, <2>4, SliceHead
    <3> QED
      BY <1>1, <1>2, <2>4, <3>1
  <2> QED
    BY <1>4, <2>2, <2>3, <2>4 DEF LeadsAt
<1> QED
  BY <1>3, <1>4

(* None of the ways to give up is taken.                                   *)
LEMMA NotGivenUp ==
  ASSUME IInv, InOneFile, NoCaseFive, NEW p \in Node, NEW i, NEW j,
         RunOf(tree, templ, p, i, j), OnTheWay(p, i, j), NEW n \in Node
  PROVE  /\ ~ Overshot(n) /\ ~ PartialSpan(n) /\ ~ NoSubtreeForStart(n)
         /\ ~ WillPartiallySpan(n) /\ ~ NoTemplate
<1>1. /\ tree \in Tree /\ pending \in Seq(Node) /\ templ \in TemplateRanges
      /\ InOrder(tree) /\ Enclosing(tree) /\ IsTree(tree)
      /\ templ.begin \in Location /\ templ.end \in Location
  BY InputTypes DEF IInv, StateInv, Input, templ, InOneFile, TemplateRanges
<1>2. i \in Int /\ j \in Int /\ i <= j /\ i \in i .. j /\ j \in i .. j
  <2>1. tree.kids[p] \in Seq(Node)
    BY <1>1 DEF Tree
  <2> QED
    BY <2>1 DEF RunOf
<1>3. ~ NoTemplate
  <2> SUFFICES ASSUME NoTemplate PROVE FALSE
    OBVIOUS
  <2>1. phase = "template" /\ pending = << >>
    BY DEF NoTemplate
  <2>2. ~ Leads(tree, templ.begin, pending, p, i, j)
    BY <2>1 DEF Leads
  <2>3. \A c \in i .. j : ~ Slice(tree, pending, 1, p, c, j)
    BY <1>2, <2>1 DEF Slice
  <2> QED
    BY <2>1, <2>2, <2>3 DEF OnTheWay
<1>4. ASSUME Visiting(n), ~ Passed(n), ~ templateConstructionBegan,
             p \in Subtree(tree, n), tree.root \notin Subtree(tree, n)
      PROVE  /\ ~ Overshoots(n) /\ ~ LocLess(templ.begin, Start(n))
             /\ Constructing(n) => ~ LocGreater(End(n), templ.end)
             /\ ~ SpansMore(n)
  <2>1. /\ n \in tree.main /\ LocLeq(Start(n), templ.begin)
        /\ EndsIn(tree, tree.kids[p][j], n)
    BY <1>1, <1>4, Above DEF Start
  <2>2. /\ Start(n) \in Location /\ tree.endSemi[n] \in Location
        /\ End(n) \in Location /\ LocLeq(End(n), tree.endSemi[n])
    BY <1>1, <2>1, MainLocations DEF Start, End
  <2>3. LocLeq(templ.begin, templ.end)
    BY <1>1, <1>2, RunLocations
  <2>4. LocLeq(Start(n), templ.end)
    BY <1>1, <2>1, <2>2, <2>3, LocTransitive
  <2>5. ~ LocLess(templ.begin, Start(n))
    BY <1>1, <2>1, <2>2, LocTotal
  <2>6. Constructing(n) => ~ LocGreater(End(n), templ.end)
    BY <1>4, <2>1 DEF Constructing, NoCaseFive, CaseFive
  <2>7. LocLeq(templ.end, tree.endSemi[n])
    <3> DEFINE b == tree.kids[p][j]
    <3>1. b \in Node /\ b \in tree.main
      BY <1>1, <1>2, RunLocations
    <3>2. templ.end \in {tree.range[b].end, tree.endLit[b], tree.endSemi[b]}
      BY DEF RunOf
    <3>3. EndsIn(tree, b, n)
      BY <2>1
    <3> HIDE DEF b
    <3>4. /\ tree.range[b].end \in Location /\ tree.endLit[b] \in Location
          /\ tree.endSemi[b] \in Location
          /\ LocLeq(tree.range[b].end, tree.endSemi[b])
          /\ LocLeq(tree.endLit[b], tree.endSemi[b])
      BY <1>1, <3>1, MainLocations
    <3>5. LocLeq(templ.end, tree.endSemi[b])
      BY <3>2, <3>4, LocReflexive
    <3>6. LocLeq(tree.endSemi[b], tree.endSemi[n])
      <4>1. CASE tree.endSemi[b] = tree.endSemi[n]
        BY <4>1, <3>4, LocReflexive
      <4>2. CASE LocLeq(tree.endSemi[b], tree.range[n].end)
        BY <4>2, <3>4, <2>2, LocTransitive DEF End
      <4> QED
        BY <4>1, <4>2, <3>3 DEF EndsIn
    <3> QED
      BY <1>1, <2>2, <3>4, <3>5, <3>6, LocTransitive
  <2> QED
    BY <2>4, <2>5, <2>6, <2>7 DEF Overshoots, SpansMore, LocGreater
<1>5. ASSUME Visiting(n), ~ Passed(n), NEW c \in i .. j, n = tree.kids[p][c],
             ~ templateConstructionBegan => c = i
      PROVE  /\ ~ Overshoots(n) /\ Constructing(n)
             /\ ~ LocGreater(End(n), templ.end)
  <2>1. LocLeq(Start(n), templ.end) /\ LocLeq(End(n), templ.end)
    BY <1>1, <1>5, RunLocations DEF RunOf, Start, End
  <2>2. Constructing(n)
    BY <1>5 DEF RunOf, Constructing, Start
  <2> QED
    BY <2>1, <2>2 DEF Overshoots, LocGreater
<1>6. ASSUME Visiting(n), ~ Passed(n)
      PROVE  /\ ~ Overshoots(n)
             /\ Constructing(n) => ~ LocGreater(End(n), templ.end)
             /\ ~ Constructing(n) => ~ LocLess(templ.begin, Start(n)) /\ ~ SpansMore(n)
  BY <1>4, <1>5, <1>6, AtHead
<1> QED
  BY <1>3, <1>6 DEF Overshot, PartialSpan, NoSubtreeForStart, WillPartiallySpan

(* Once there is a template, it stays found.                               *)
LEMMA StaysFound ==
  ASSUME NEW p, NEW i, NEW j, OnTheWay(p, i, j),
         phase' \notin {"start", "template"},
         rejectedFor' = rejectedFor \/ rejectedFor' \in MetavariableErrors
  PROVE  OnTheWay(p, i, j)'
<1>1. rejectedFor' \notin TemplateErrors
  BY DEF OnTheWay, TemplateErrors, MetavariableErrors
<1> QED
  BY <1>1 DEF OnTheWay

LEMMA CheckFileRangeFound ==
  ASSUME IInv, InOneFile, NEW p \in Node, NEW i, NEW j,
         RunOf(tree, templ, p, i, j), OnTheWay(p, i, j), CheckFileRange
  PROVE  OnTheWay(p, i, j)'
<1>1. /\ tree \in Tree /\ templ \in TemplateRanges /\ tree.root \in Node
      /\ InOrder(tree) /\ Enclosing(tree) /\ IsTree(tree)
      /\ templ.begin \in Location /\ templ.end \in Location
      /\ tree.fileRange.begin \in Location /\ tree.fileRange.end \in Location
  BY InputTypes DEF IInv, Input, templ, InOneFile, TemplateRanges, Tree
<1>2. i \in i .. j /\ j \in i .. j /\ p \in Subtree(tree, tree.root)
      /\ tree.kids[p] \in Seq(Node) /\ i \in DOMAIN tree.kids[p]
  <2>1. tree.kids[p] \in Seq(Node)
    BY <1>1 DEF Tree
  <2>2. i \in i .. j /\ j \in i .. j /\ i \in DOMAIN tree.kids[p]
    BY <2>1 DEF RunOf
  <2>3. tree.kids[p][i] \in tree.main
    BY <2>2 DEF RunOf
  <2>4. tree.kids[p][i] \in Subtree(tree, tree.root) \ {tree.root}
    BY <1>1, <2>3 DEF Enclosing
  <2>5. p \in Subtree(tree, tree.root)
    BY <1>1, <2>2, <2>4, ParentInSubtree
  <2> QED
    BY <2>1, <2>2, <2>5
<1>3. EnclosedIn(templ, tree.fileRange)
  <2> DEFINE a == tree.kids[p][i]
             b == tree.kids[p][j]
  <2>1. a \in Node /\ b \in Node /\ a \in tree.main /\ b \in tree.main
    BY <1>1, <1>2, RunLocations
  <2>2. /\ templ.end \in {tree.range[b].end, tree.endLit[b], tree.endSemi[b]}
        /\ templ.begin = tree.range[a].begin
    BY DEF RunOf
  <2> HIDE DEF a, b
  <2>3. /\ LocLeq(tree.fileRange.begin, tree.range[a].begin)
        /\ LocGeq(tree.fileRange.end, tree.endSemi[b])
    BY <1>1, <2>1 DEF Enclosing, EnclosedIn, RangeFrom
  <2>4. /\ tree.range[b].end \in Location /\ tree.endLit[b] \in Location
        /\ tree.endSemi[b] \in Location
        /\ LocLeq(tree.range[b].end, tree.endSemi[b])
        /\ LocLeq(tree.endLit[b], tree.endSemi[b])
    BY <1>1, <2>1, MainLocations
  <2>5. LocLeq(templ.end, tree.endSemi[b])
    BY <2>2, <2>4, LocReflexive
  <2>6. LocLeq(tree.endSemi[b], tree.fileRange.end)
    BY <1>1, <2>3, <2>4, LocTotal DEF LocGeq
  <2>7. LocLeq(templ.end, tree.fileRange.end)
    BY <1>1, <2>4, <2>5, <2>6, LocTransitive
  <2>8. LocGeq(tree.fileRange.end, templ.end)
    BY <1>1, <2>7, LocTotal DEF LocGeq
  <2> QED
    BY <2>2, <2>3, <2>8 DEF EnclosedIn
<1>4. /\ phase = "start" /\ phase' = "template" /\ input' = input
      /\ pending' = tree.kids[tree.root] /\ rejectedFor' = rejectedFor
      /\ templateConstructionBegan' = templateConstructionBegan
  BY <1>3 DEF CheckFileRange, GoOn, template
<1>5. tree' = tree /\ templ' = templ
  BY <1>4 DEF tree, templ
<1>6. Leads(tree, templ.begin, pending', p, i, j)
  <2>1. tree.kids[tree.root] \in Seq(Node) /\ << >> \in Seq(Node)
    BY <1>1 DEF Tree
  <2>2. tree.kids[tree.root] \o << >> = tree.kids[tree.root]
    BY <2>1
  <2>3. Leads(tree, templ.begin, tree.kids[tree.root] \o << >>, p, i, j)
    BY <1>1, <1>2, <2>1, LeadsBelow
  <2> QED
    BY <1>4, <2>2, <2>3
<1>7. ~ templateConstructionBegan'
  BY <1>4, Zenon DEF OnTheWay
<1>8. rejectedFor' \notin TemplateErrors
  BY <1>4 DEF OnTheWay
<1> QED
  BY <1>4, <1>5, <1>6, <1>7, <1>8, Zenon DEF OnTheWay

LEMMA SkipSubtreeFound ==
  ASSUME IInv, InOneFile, NEW p \in Node, NEW i, NEW j,
         RunOf(tree, templ, p, i, j), OnTheWay(p, i, j),
         NEW n \in Node, SkipSubtree(n)
  PROVE  OnTheWay(p, i, j)'
<1>1. /\ tree \in Tree /\ pending \in Seq(Node) /\ templ \in TemplateRanges
      /\ InOrder(tree) /\ Enclosing(tree)
  BY InputTypes DEF IInv, StateInv, Input, templ, InOneFile
<1>2. /\ Visiting(n) /\ phase = "template" /\ pending # << >> /\ n = Head(pending)
      /\ Behind(tree, n, templ.begin)
      /\ input' = input /\ rejectedFor' = rejectedFor /\ pending' = Tail(pending)
      /\ templateConstructionBegan' = templateConstructionBegan /\ phase' = phase
  BY DEF SkipSubtree, Visiting, Passed, Behind, End, GoOn, template
<1>3. tree' = tree /\ templ' = templ
  BY <1>2 DEF tree, templ
<1>4. ~ templateConstructionBegan
  <2> SUFFICES ASSUME templateConstructionBegan
               PROVE  FALSE
    OBVIOUS
  <2>1. PICK c \in i .. j : n = tree.kids[p][c]
    BY <1>2, AtHead
  <2> QED
    BY <1>1, <1>2, <2>1, RunLocations
<1>5. Leads(tree, templ.begin, pending', p, i, j)
  <2>1. Leads(tree, templ.begin, pending, p, i, j)
    BY <1>2, <1>4 DEF OnTheWay
  <2> QED
    BY <2>1, <1>1, <1>2, LeadsBehind
<1>6. rejectedFor' \notin TemplateErrors /\ phase' # "start"
  BY <1>2 DEF OnTheWay
<1>7. ~ templateConstructionBegan'
  BY <1>2, <1>4, Zenon
<1> QED
  BY <1>3, <1>5, <1>6, <1>7, Zenon DEF OnTheWay

LEMMA DescendFound ==
  ASSUME IInv, InOneFile, NEW p \in Node, NEW i, NEW j,
         RunOf(tree, templ, p, i, j), OnTheWay(p, i, j),
         NEW n \in Node, Descend(n)
  PROVE  OnTheWay(p, i, j)'
<1>1. /\ tree \in Tree /\ pending \in Seq(Node) /\ templ \in TemplateRanges
      /\ InOrder(tree) /\ Enclosing(tree) /\ IsTree(tree)
  BY InputTypes DEF IInv, StateInv, Input, templ, InOneFile
<1>2. /\ Visiting(n) /\ phase = "template" /\ pending # << >>
      /\ ~ Passed(n) /\ ~ Constructing(n)
      /\ input' = input /\ rejectedFor' = rejectedFor
      /\ pending' = tree.kids[n] \o Tail(pending)
      /\ templateConstructionBegan' = templateConstructionBegan /\ phase' = phase
  BY DEF Descend, Visiting, GoOn, template
<1>3. tree' = tree /\ templ' = templ
  BY <1>2 DEF tree, templ
<1>4. ~ templateConstructionBegan
  BY <1>2, Zenon DEF Constructing
<1>5. p \in Subtree(tree, n) /\ tree.root \notin Subtree(tree, n)
  <2>1. n # tree.kids[p][i]
    BY <1>2 DEF Constructing, RunOf, Start
  <2> QED
    BY <2>1, <1>2, <1>4, AtHead
<1>6. Leads(tree, templ.begin, pending', p, i, j)
  BY <1>1, <1>2, <1>5, LeadsBelow, SequenceFacts
<1>7. rejectedFor' \notin TemplateErrors /\ phase' # "start"
  BY <1>2 DEF OnTheWay
<1>8. ~ templateConstructionBegan'
  BY <1>2, <1>4, Zenon
<1> QED
  BY <1>3, <1>6, <1>7, <1>8, Zenon DEF OnTheWay

(* A node above the run that becomes the template ends where the run does. *)
LEMMA AboveEnds ==
  ASSUME IInv, InOneFile, NEW p \in Node, NEW i, NEW j,
         RunOf(tree, templ, p, i, j), NEW n \in Node, LocLeq(End(n), templ.end),
         p \in Subtree(tree, n), tree.root \notin Subtree(tree, n)
  PROVE  EndsAt(n, templ.end)
<1> DEFINE b == tree.kids[p][j]
<1>1. /\ tree \in Tree /\ templ \in TemplateRanges /\ templ.end \in Location
      /\ InOrder(tree) /\ Enclosing(tree)
  BY InputTypes DEF IInv, Input, templ, InOneFile, TemplateRanges
<1>2. b \in Node /\ b \in tree.main
  <2>1. tree.kids[p] \in Seq(Node)
    BY <1>1 DEF Tree
  <2>2. j \in i .. j
    BY <2>1 DEF RunOf
  <2> QED
    BY <1>1, <2>2, RunLocations
<1>3. EndsIn(tree, b, n) /\ n \in tree.main
  BY <1>1, Above
<1>4. templ.end \in {tree.range[b].end, tree.endLit[b], tree.endSemi[b]}
  BY DEF RunOf
<1> HIDE DEF b
<1>5. /\ tree.range[b].end \in Location /\ tree.endLit[b] \in Location
      /\ tree.endSemi[b] \in Location /\ End(n) \in Location
      /\ LocLeq(tree.range[b].end, tree.endLit[b])
  BY <1>1, <1>2, <1>3, MainLocations DEF End
<1>6. CASE /\ tree.range[b].end = End(n) /\ tree.endLit[b] = tree.endLit[n]
           /\ tree.endSemi[b] = tree.endSemi[n]
  BY <1>4, <1>6 DEF EndsAt
<1>7. CASE LocLess(tree.endLit[b], End(n)) /\ LocLeq(tree.endSemi[b], End(n))
  <2>1. LocLess(tree.endLit[b], templ.end)
    BY <1>1, <1>5, <1>7, LocTransitiveLess
  <2>2. templ.end # tree.endLit[b]
    BY <2>1 DEF LocLess
  <2>3. templ.end # tree.range[b].end
    BY <1>1, <1>5, <2>1, LocTotal
  <2>4. LocLeq(templ.end, End(n))
    BY <1>4, <1>7, <2>2, <2>3
  <2>5. templ.end = End(n)
    BY <1>1, <1>5, <2>4, LocTotal DEF LocLess
  <2> QED
    BY <2>5 DEF EndsAt
<1> QED
  BY <1>3, <1>6, <1>7 DEF EndsIn, End

LEMMA AddTemplateSubtreeFound ==
  ASSUME IInv, InOneFile, NEW p \in Node, NEW i, NEW j,
         RunOf(tree, templ, p, i, j), OnTheWay(p, i, j),
         NEW n \in Node, AddTemplateSubtree(n)
  PROVE  OnTheWay(p, i, j)'
<1>1. /\ tree \in Tree /\ pending \in Seq(Node) /\ templ \in TemplateRanges
      /\ InOrder(tree) /\ Enclosing(tree) /\ templ.end \in Location
  BY InputTypes DEF IInv, StateInv, Input, templ, InOneFile, TemplateRanges
<1>2. /\ Visiting(n) /\ phase = "template" /\ pending # << >>
      /\ ~ Passed(n) /\ LocLeq(End(n), templ.end)
      /\ input' = input /\ rejectedFor' = rejectedFor
      /\ templateConstructionBegan' = TRUE
  BY DEF AddTemplateSubtree, Visiting, GoOn, LocGreater
<1>3. CASE EndsAt(n, templ.end)
  <2>1. phase' = "queue"
    BY <1>3 DEF AddTemplateSubtree
  <2> QED
    BY <2>1, <1>2, StaysFound
<1>4. CASE ~ EndsAt(n, templ.end)
  <2>1. pending' = Tail(pending) /\ phase' = phase
    BY <1>4 DEF AddTemplateSubtree
  <2>2. ~ (p \in Subtree(tree, n) /\ tree.root \notin Subtree(tree, n))
    BY <1>2, <1>4, AboveEnds
  <2>3. PICK c \in i .. j : /\ n = tree.kids[p][c]
                            /\ Slice(tree, pending, 1, p, c, j)
    BY <1>2, <2>2, AtHead
  <2>4. i \in Int /\ j \in Int
    BY <1>1, <2>3, RunLocations
  <2>5. c # j
    BY <1>4, <2>3 DEF RunOf, EndsAt, End
  <2>6. c \in Int /\ c + 1 \in i .. j
    BY <2>4, <2>5
  <2>7. Slice(tree, Tail(pending), 1, p, c + 1, j)
    BY <1>1, <1>2, <2>3, <2>4, <2>6, SliceTail
  <2>8. tree' = tree /\ templ' = templ
    BY <1>2 DEF tree, templ
  <2>9. \E k \in i .. j : Slice(tree', pending', 1, p, k, j)
    BY <2>1, <2>6, <2>7, <2>8
  <2>10. rejectedFor' \notin TemplateErrors /\ phase' # "start"
    BY <1>2, <2>1 DEF OnTheWay
  <2>11. templateConstructionBegan'
    BY <1>2, Zenon
  <2> QED
    BY <2>9, <2>10, <2>11, Zenon DEF OnTheWay
<1> QED
  BY <1>3, <1>4

LEMMA InitFound ==
  ASSUME Init
  PROVE  FoundInv
<1>1. /\ phase = "start" /\ rejectedFor = "none"
      /\ templateConstructionBegan = FALSE
  BY DEF Init
<1>2. rejectedFor \notin TemplateErrors /\ phase # "template"
  BY <1>1 DEF TemplateErrors
<1>3. ~ templateConstructionBegan
  BY <1>1, Zenon
<1> QED
  BY <1>2, <1>3, Zenon DEF FoundInv, OnTheWay

LEMMA NextFound ==
  ASSUME IInv, InOneFile /\ NoCaseFive => FoundInv, [Next]_vars
  PROVE  (InOneFile /\ NoCaseFive => FoundInv)'
<1>1. tree' = tree /\ input' = input /\ templ' = templ
  BY InputKept DEF templ
<1>2. (InOneFile /\ NoCaseFive)' <=> InOneFile /\ NoCaseFive
  BY <1>1 DEF InOneFile, NoCaseFive, CaseFive, Start, End
<1> SUFFICES ASSUME InOneFile, NoCaseFive, FoundInv, NEW p \in Node,
                    NEW i \in DOMAIN tree.kids[p], NEW j \in DOMAIN tree.kids[p],
                    RunOf(tree, templ, p, i, j)
             PROVE  OnTheWay(p, i, j)'
  BY <1>1, <1>2 DEF FoundInv
<1>3. OnTheWay(p, i, j)
  BY DEF FoundInv
<1>4. ASSUME NEW n \in Node,
             \/ Overshot(n) \/ PartialSpan(n) \/ NoSubtreeForStart(n)
             \/ WillPartiallySpan(n) \/ NoTemplate
      PROVE  FALSE
  BY <1>3, <1>4, NotGivenUp
<1>5. ASSUME NEW n \in Node, \/ RejectNameOnly(n) \/ RejectPartial(n)
      PROVE  OnTheWay(p, i, j)'
  <2>1. phase' = "rejected" /\ rejectedFor' \in MetavariableErrors
    BY <1>5 DEF RejectNameOnly, RejectPartial, Throw, MetavariableErrors
  <2> QED
    BY <2>1, <1>3, StaysFound
<1>6. ASSUME NEW n \in Node,
             TakeSubtree \/ SubtreeDone \/ AddToMetavariable(n) \/ SearchSubtrees(n)
      PROVE  OnTheWay(p, i, j)'
  <2>1. phase' \in {"queue", "metavariables"} /\ rejectedFor' = rejectedFor
    BY <1>6 DEF TakeSubtree, SubtreeDone, AddToMetavariable, SearchSubtrees,
                Searching, GoOn
  <2> QED
    BY <2>1, <1>3, StaysFound
<1>7. CASE Finish
  <2>1. /\ phase' \in {"parsed", "rejected"}
        /\ rejectedFor' = rejectedFor \/ rejectedFor' \in MetavariableErrors
    BY <1>7 DEF Finish, Throw, GoOn, MetavariableErrors
  <2> QED
    BY <2>1, <1>3, StaysFound
<1>8. CASE Finished \/ UNCHANGED vars
  <2>1. /\ phase' = phase /\ rejectedFor' = rejectedFor /\ pending' = pending
        /\ templateConstructionBegan' = templateConstructionBegan
    BY <1>8 DEF Finished, vars, template
  <2> QED
    BY <2>1, <1>1, <1>3, Zenon DEF OnTheWay
<1>9. tree.root \in Node
  BY InputTypes DEF IInv
<1> QED
  BY <1>3, <1>4, <1>5, <1>6, <1>7, <1>8, <1>9, CheckFileRangeFound,
     SkipSubtreeFound, DescendFound, AddTemplateSubtreeFound DEF Next

(* In a file whose nodes follow one another or lie in one another, a       *)
(* template range that a run of siblings spans is always found, if no      *)
(* longer subtree starts where it does: on the way the search neither      *)
(* passes the run, nor gives up at a node before it or around it.          *)
THEOREM AllowedTemplatesAreParsed ==
  Spec => [](IsTree(tree) /\ InOrder(tree) /\ Enclosing(tree) => AllowedTemplateParsed)
<1>1. Init => IInv /\ (InOneFile /\ NoCaseFive => FoundInv)
  BY InitIInv, InitFound
<1>2. IInv /\ (InOneFile /\ NoCaseFive => FoundInv) /\ [Next]_vars
        => (IInv /\ (InOneFile /\ NoCaseFive => FoundInv))'
  BY NextIInv, NextFound
<1>3. IInv /\ (InOneFile /\ NoCaseFive => FoundInv)
        => (IsTree(tree) /\ InOrder(tree) /\ Enclosing(tree) => AllowedTemplateParsed)
  <2> SUFFICES ASSUME IInv, InOneFile /\ NoCaseFive => FoundInv, InOneFile,
                      Spanned, \A n \in Node : ~ CaseFive(n)
               PROVE  rejectedFor \notin TemplateErrors
    BY DEF AllowedTemplateParsed, InOneFile
  <2>1. PICK p \in Node : \E i, j \in DOMAIN tree.kids[p] : SpannedBy(templ, p, i, j)
    BY DEF Spanned
  <2>2. PICK i \in DOMAIN tree.kids[p], j \in DOMAIN tree.kids[p] :
          SpannedBy(templ, p, i, j)
    BY <2>1
  <2>3. RunOf(tree, templ, p, i, j)
    BY <2>2, SpannedRun DEF IInv
  <2>4. OnTheWay(p, i, j)
    BY <2>3 DEF FoundInv, NoCaseFive
  <2> QED
    BY <2>4 DEF OnTheWay
<1> QED
  BY <1>1, <1>2, <1>3, PTL DEF Spec
-----------------------------------------------------------------------------
(* Metavariables: found if they are disjoint.                              *)

LEMMA ListFacts ==
  ASSUME NEW u \in Seq(Node), NEW v \in Seq(Node), NEW w \in Seq(Node)
  PROVE  /\ u \o v \in Seq(Node)
         /\ (u \o v) \o w = u \o (v \o w)
         /\ << >> \in Seq(Node) /\ u \o << >> = u /\ << >> \o u = u
         /\ \A n \in Node : <<n>> \in Seq(Node)
         /\ u # << >> => /\ u \o v # << >> /\ Head(u \o v) = Head(u)
                         /\ Tail(u \o v) = Tail(u) \o v
                         /\ <<Head(u)>> \o Tail(u) = u
                         /\ Append(v, Head(u)) \o Tail(u) = v \o u
<1>1. u \o v \in Seq(Node) /\ << >> \in Seq(Node) /\ \A n \in Node : <<n>> \in Seq(Node)
  OBVIOUS
<1>2. (u \o v) \o w = u \o (v \o w)
  OBVIOUS
<1>3. u \o << >> = u /\ << >> \o u = u
  OBVIOUS
<1>4. ASSUME u # << >>
      PROVE  u \o v # << >> /\ Head(u \o v) = Head(u)
  BY <1>4
<1>5. ASSUME u # << >>
      PROVE  Tail(u \o v) = Tail(u) \o v
  BY <1>5
<1>6. ASSUME u # << >>
      PROVE  <<Head(u)>> \o Tail(u) = u
  BY <1>6
<1>7. ASSUME u # << >>
      PROVE  Append(v, Head(u)) \o Tail(u) = v \o u
  BY <1>7
<1> QED
  BY <1>1, <1>2, <1>3, <1>4, <1>5, <1>6, <1>7

(* What a traversal comes to, it still comes to if it first passes nodes   *)
(* that end before it ...                                                  *)
LEMMA LeadsPrepend ==
  ASSUME NEW t, NEW begin, NEW p, NEW i, NEW j, i \in Int,
         NEW b \in Seq(Node), NEW s \in Seq(Node), Leads(t, begin, s, p, i, j),
         \A k \in Bound(b) : Behind(t, k, begin)
  PROVE  Leads(t, begin, b \o s, p, i, j)
<1> DEFINE u == b \o s
           l == Len(b)
<1>1. PICK x \in DOMAIN s : LeadsAt(t, begin, s, x, p, i, j)
  BY DEF Leads
<1>2. /\ l \in Nat /\ Len(s) \in Nat /\ DOMAIN b = 1 .. l /\ DOMAIN s = 1 .. Len(s)
      /\ DOMAIN u = 1 .. l + Len(s)
      /\ \A y \in 1 .. l : u[y] = b[y]
      /\ \A y \in 1 .. Len(s) : u[l + y] = s[y]
  OBVIOUS
<1> HIDE DEF u, l
<1>3. \A y \in DOMAIN s : l + y \in DOMAIN u /\ u[l + y] = s[y]
  BY <1>2
<1>4. ASSUME NEW y \in 1 .. (l + x) - 1
      PROVE  Behind(t, u[y], begin)
  <2>1. CASE y <= l
    <3>1. y \in 1 .. l
      BY <2>1, <1>2
    <3>2. u[y] \in Bound(b)
      BY <3>1, <1>2 DEF Bound
    <3> QED
      BY <3>2
  <2>2. CASE y > l
    <3>1. y - l \in 1 .. x - 1 /\ y - l \in DOMAIN s /\ l + (y - l) = y
      BY <2>2, <1>2
    <3> QED
      BY <3>1, <1>1, <1>3 DEF LeadsAt
  <2> QED
    BY <2>1, <2>2, <1>2
<1>5. ASSUME Slice(t, s, x, p, i, j)
      PROVE  Slice(t, u, l + x, p, i, j)
  <2> SUFFICES ASSUME NEW k \in i .. j
               PROVE  (l + x) + k - i \in DOMAIN u /\ u[(l + x) + k - i] = t.kids[p][k]
    BY DEF Slice
  <2>1. x + k - i \in DOMAIN s /\ s[x + k - i] = t.kids[p][k]
    BY <1>5 DEF Slice
  <2>2. (l + x) + k - i = l + (x + k - i)
    BY <1>2
  <2> QED
    BY <2>1, <2>2, <1>3
<1>6. l + x \in DOMAIN u /\ u[l + x] = s[x]
  BY <1>3
<1>7. LeadsAt(t, begin, u, l + x, p, i, j)
  BY <1>1, <1>4, <1>5, <1>6 DEF LeadsAt
<1> QED
  BY <1>6, <1>7 DEF Leads, u

(* ... or drops nodes that lie behind it ...                               *)
LEMMA LeadsCut ==
  ASSUME NEW t \in Tree, InOrder(t), Enclosing(t), NEW r \in TemplateRanges,
         NEW p \in Node, NEW i, NEW j, RunOf(t, r, p, i, j),
         NEW u \in Seq(Node), NEW v \in Seq(Node),
         Leads(t, r.begin, u \o v, p, i, j),
         \A k \in Bound(v) : k \in t.main => LocLess(r.end, t.range[k].begin)
  PROVE  Leads(t, r.begin, u, p, i, j)
<1> DEFINE s == u \o v
           l == Len(u)
<1>1. PICK x \in DOMAIN s : LeadsAt(t, r.begin, s, x, p, i, j)
  BY DEF Leads
<1>2. /\ l \in Nat /\ Len(v) \in Nat /\ DOMAIN u = 1 .. l /\ DOMAIN v = 1 .. Len(v)
      /\ DOMAIN s = 1 .. l + Len(v)
      /\ \A y \in 1 .. l : s[y] = u[y]
      /\ \A y \in 1 .. Len(v) : s[l + y] = v[y]
  OBVIOUS
<1> HIDE DEF s, l
<1>3. /\ r.begin \in Location /\ r.end \in Location
      /\ i \in Int /\ j \in Int /\ i \in i .. j
      /\ \A y \in DOMAIN s : s[y] \in Node
  <2>1. t.kids[p] \in Seq(Node)
    BY DEF Tree
  <2>2. i \in i .. j /\ i \in Int /\ j \in Int
    BY <2>1 DEF RunOf
  <2>3. s \in Seq(Node)
    BY DEF s
  <2> QED
    BY <2>2, <2>3 DEF TemplateRanges
<1>4. ASSUME NEW y \in DOMAIN s, s[y] \in t.main, LocLeq(t.range[s[y]].begin, r.end)
      PROVE  y \in 1 .. l
  <2> SUFFICES ASSUME y \notin 1 .. l
               PROVE  FALSE
    OBVIOUS
  <2>1. y - l \in 1 .. Len(v) /\ l + (y - l) = y
    BY <1>2
  <2>2. s[y] \in Bound(v)
    BY <2>1, <1>2 DEF Bound
  <2>3. t.range[s[y]].begin \in Location
    BY <1>3 DEF Tree, TemplateRanges
  <2>4. LocLess(r.end, t.range[s[y]].begin)
    BY <2>2, <1>4
  <2> QED
    BY <2>3, <2>4, <1>3, <1>4, LocTotal
<1>5. CASE p \in Subtree(t, s[x]) /\ t.root \notin Subtree(t, s[x])
  <2>1. s[x] \in t.main /\ LocLeq(t.range[s[x]].begin, r.begin)
    BY <1>3, <1>5, Above
  <2>2. LocLeq(t.range[s[x]].begin, r.end)
    <3>1. LocLeq(r.begin, r.end)
      BY <1>3, RunLocations
    <3>2. t.range[s[x]].begin \in Location
      BY <1>3 DEF Tree, TemplateRanges
    <3> QED
      BY <2>1, <3>1, <3>2, <1>3, LocTransitive
  <2>3. x \in 1 .. l
    BY <2>1, <2>2, <1>4
  <2>4. \A y \in 1 .. x - 1 : y \in 1 .. l
    BY <2>3, <1>2
  <2>5. LeadsAt(t, r.begin, u, x, p, i, j)
    BY <1>1, <1>2, <1>5, <2>3, <2>4 DEF LeadsAt
  <2> QED
    BY <1>2, <2>3, <2>5 DEF Leads
<1>6. CASE Slice(t, s, x, p, i, j)
  <2>1. ASSUME NEW k \in i .. j
        PROVE  x + k - i \in 1 .. l /\ s[x + k - i] = t.kids[p][k]
    <3>1. x + k - i \in DOMAIN s /\ s[x + k - i] = t.kids[p][k]
      BY <1>6 DEF Slice
    <3>2. /\ t.kids[p][k] \in t.main
          /\ LocLeq(t.range[t.kids[p][k]].begin, r.end)
      BY RunLocations
    <3> QED
      BY <3>1, <3>2, <1>4
  <2>2. x \in 1 .. l
    <3>1. x + i - i = x
      BY <1>2, <1>3
    <3> QED
      BY <3>1, <2>1, <1>3
  <2>3. \A y \in 1 .. x - 1 : y \in 1 .. l
    BY <2>2, <1>2
  <2>4. Slice(t, u, x, p, i, j)
    BY <2>1, <1>2 DEF Slice
  <2>5. LeadsAt(t, r.begin, u, x, p, i, j)
    BY <1>1, <1>2, <2>3, <2>4 DEF LeadsAt
  <2> QED
    BY <1>2, <2>2, <2>5 DEF Leads
<1> QED
  BY <1>1, <1>5, <1>6 DEF LeadsAt

(* ... or leaves out a node between that is not of the main file or ends   *)
(* before it.                                                              *)
LEMMA LeadsWithout ==
  ASSUME NEW t \in Tree, InOrder(t), Enclosing(t), NEW r \in TemplateRanges,
         NEW p \in Node, NEW i, NEW j, RunOf(t, r, p, i, j),
         NEW u \in Seq(Node), NEW v \in Seq(Node), v # << >>,
         Leads(t, r.begin, u \o v, p, i, j), Behind(t, Head(v), r.begin)
  PROVE  Leads(t, r.begin, u \o Tail(v), p, i, j)
<1> DEFINE s == u \o v
           w == u \o Tail(v)
           l == Len(u)
<1>1. PICK x \in DOMAIN s : LeadsAt(t, r.begin, s, x, p, i, j)
  BY DEF Leads
<1>2. /\ l \in Nat /\ Len(v) \in Nat /\ Len(v) >= 1
      /\ DOMAIN s = 1 .. l + Len(v) /\ DOMAIN w = 1 .. l + Len(v) - 1
      /\ s[l + 1] = Head(v)
      /\ \A y \in 1 .. l : w[y] = s[y]
      /\ \A y \in 1 .. l + Len(v) - 1 : y > l => w[y] = s[y + 1]
  OBVIOUS
<1> HIDE DEF s, w, l
<1>3. /\ i \in Int /\ j \in Int /\ i \in i .. j
      /\ \A y \in DOMAIN s : s[y] \in Node
  <2>1. t.kids[p] \in Seq(Node)
    BY DEF Tree
  <2>2. i \in i .. j /\ i \in Int /\ j \in Int
    BY <2>1 DEF RunOf
  <2>3. s \in Seq(Node)
    BY DEF s
  <2> QED
    BY <2>2, <2>3
<1>4. ASSUME Slice(t, s, x, p, i, j), NEW k \in i .. j
      PROVE  x + k - i # l + 1
  BY <1>2, <1>4, RunLocations DEF Slice
<1>5. x # l + 1
  <2>1. ASSUME p \in Subtree(t, s[x]), t.root \notin Subtree(t, s[x])
        PROVE  ~ Behind(t, s[x], r.begin)
    BY <1>3, <2>1, Above
  <2>2. ASSUME Slice(t, s, x, p, i, j)
        PROVE  x # l + 1
    <3>1. x + i - i = x
      BY <1>2, <1>3
    <3> QED
      BY <3>1, <2>2, <1>3, <1>4
  <2> QED
    BY <2>1, <2>2, <1>1, <1>2 DEF LeadsAt
<1>6. CASE x <= l
  <2>1. x \in DOMAIN w /\ w[x] = s[x]
    BY <1>2, <1>6
  <2>2. \A y \in 1 .. x - 1 : w[y] = s[y]
    BY <1>2, <1>6
  <2>3. ASSUME Slice(t, s, x, p, i, j)
        PROVE  Slice(t, w, x, p, i, j)
    <3> SUFFICES ASSUME NEW k \in i .. j
                 PROVE  x + k - i \in DOMAIN w /\ w[x + k - i] = t.kids[p][k]
      BY DEF Slice
    <3>1. x + k - i \in DOMAIN s /\ s[x + k - i] = t.kids[p][k]
      BY <2>3 DEF Slice
    <3>2. x + k - i <= l
      <4> SUFFICES ASSUME x + k - i > l
                   PROVE  FALSE
        BY <1>2, <1>3
      <4>1. i + (l + 1) - x \in i .. j /\ x + (i + (l + 1) - x) - i = l + 1
        BY <1>2, <1>3, <1>6
      <4> QED
        BY <4>1, <1>4, <2>3
    <3>3. x + k - i \in 1 .. l
      BY <1>2, <3>1, <3>2
    <3> QED
      BY <3>1, <3>3, <1>2
  <2>4. LeadsAt(t, r.begin, w, x, p, i, j)
    BY <1>1, <2>1, <2>2, <2>3 DEF LeadsAt
  <2> QED
    BY <2>1, <2>4 DEF Leads, w
<1>7. CASE x > l
  <2>1. x - 1 \in DOMAIN w /\ x - 1 > l /\ (x - 1) + 1 = x
    BY <1>2, <1>5, <1>7
  <2>2. w[x - 1] = s[x]
    BY <1>2, <2>1
  <2>3. ASSUME NEW y \in 1 .. (x - 1) - 1
        PROVE  Behind(t, w[y], r.begin)
    <3>1. y \in 1 .. x - 1 /\ y + 1 \in 1 .. x - 1 /\ y \in 1 .. l + Len(v) - 1
      <4>1. /\ l \in Nat /\ Len(v) \in Nat /\ x - 1 \in 1 .. l + Len(v) - 1
            /\ x \in Int
        BY <1>2, <2>1
      <4> QED
        BY <4>1
    <3>2. CASE y <= l
      BY <3>1, <3>2, <1>1, <1>2 DEF LeadsAt
    <3>3. CASE y > l
      BY <3>1, <3>3, <1>1, <1>2 DEF LeadsAt
    <3> QED
      BY <3>2, <3>3, <1>2
  <2>4. ASSUME Slice(t, s, x, p, i, j)
        PROVE  Slice(t, w, x - 1, p, i, j)
    <3> SUFFICES ASSUME NEW k \in i .. j
                 PROVE  /\ (x - 1) + k - i \in DOMAIN w
                        /\ w[(x - 1) + k - i] = t.kids[p][k]
      BY DEF Slice
    <3>1. x + k - i \in DOMAIN s /\ s[x + k - i] = t.kids[p][k]
      BY <2>4 DEF Slice
    <3>2. /\ x \in Int /\ k \in Int /\ i \in Int /\ l \in Nat /\ Len(v) \in Nat
          /\ k >= i /\ x - 1 > l /\ x + k - i <= l + Len(v)
      BY <1>2, <1>3, <2>1, <3>1
    <3>3. /\ (x - 1) + k - i \in 1 .. l + Len(v) - 1 /\ (x - 1) + k - i > l
          /\ ((x - 1) + k - i) + 1 = x + k - i
      BY <3>2
    <3> QED
      BY <3>1, <3>3, <1>2
  <2>5. LeadsAt(t, r.begin, w, x - 1, p, i, j)
    BY <1>1, <2>2, <2>3, <2>4 DEF LeadsAt
  <2> QED
    BY <2>1, <2>5 DEF Leads, w
<1> QED
  BY <1>2, <1>6, <1>7

(* What the searches have before them, in order.                           *)
Line == IF phase = "template" THEN subtreeQueue \o pending ELSE pending \o subtreeQueue

(* Metavariable m stands for p's children i to j.                          *)
CleanRun(m, p, i, j) ==
  RunOf(tree, m.range, p, i, j) /\ m.range.end = End(tree.kids[p][j])

(* The search comes to all nodes of m or, if it has begun m, to the rest.  *)
OnItsWay(m, p, i, j) ==
  IF m \in parsingMetavariable
    THEN \E c \in i .. j : Slice(tree, Line, 1, p, c, j)
    ELSE Leads(tree, m.range.begin, Line, p, i, j)

Hunted(m) ==
  \E p \in Node : \E i, j \in DOMAIN tree.kids[p] :
    CleanRun(m, p, i, j) /\ OnItsWay(m, p, i, j)

Hunts == phase \in {"template", "queue", "metavariables"}

HuntInv ==
  /\ rejectedFor \notin MetavariableErrors
  /\ phase \in {"start", "template"} => parsingMetavariable = {}
  /\ phase = "start" => ~ templateConstructionBegan
  /\ phase = "template" /\ ~ templateConstructionBegan => subtreeQueue = << >>
  /\ Hunts => \A m \in remainingMetavariables : Hunted(m)

(* What the configuration check has seen to: AcceptedAreNested says so.    *)
WithinTemplate ==
  IsFiniteSet(input.metavars) /\ \A m \in input.metavars : EnclosedIn(m.range, templ)

Clean ==
  /\ \A m \in input.metavars :
       /\ m.range \in TemplateRanges /\ ~ m.nameOnly
       /\ LocLeq(templ.begin, m.range.begin) /\ LocLeq(m.range.end, templ.end)
       /\ \E p \in Node : \E i, j \in DOMAIN tree.kids[p] : CleanRun(m, p, i, j)
  /\ \A m, k \in input.metavars : m # k => ~ Intersect(m.range, k.range)
  /\ IsFiniteSet(input.metavars)

Given == InOneFile /\ OneFile /\ Clean

LEMMA CleanFacts ==
  ASSUME input \in Input, WithinTemplate, CleanMetavariables(End)
  PROVE  Clean
<1>1. ASSUME NEW m \in input.metavars
      PROVE  /\ m.range \in TemplateRanges /\ ~ m.nameOnly
             /\ LocLeq(templ.begin, m.range.begin) /\ LocLeq(m.range.end, templ.end)
  <2>1. m \in MetavarLoc /\ templ \in TemplateRanges
    BY DEF Input, templ
  <2>2. m.range \in TemplateRanges
    BY <2>1 DEF MetavarLoc
  <2>3. ~ m.nameOnly
    BY DEF CleanMetavariables
  <2>4. LocLeq(templ.begin, m.range.begin) /\ LocGeq(templ.end, m.range.end)
    BY DEF WithinTemplate, EnclosedIn
  <2>5. LocLeq(m.range.end, templ.end)
    BY <2>1, <2>2, <2>4, LocTotal DEF LocGeq, TemplateRanges
  <2> QED
    BY <2>2, <2>3, <2>4, <2>5
<1>2. ASSUME NEW m \in input.metavars
      PROVE  \E p \in Node : \E i, j \in DOMAIN tree.kids[p] : CleanRun(m, p, i, j)
  <2>1. PICK p \in Node : \E i, j \in DOMAIN tree.kids[p] :
          SpannedBy(m.range, p, i, j) /\ m.range.end = End(tree.kids[p][j])
    BY DEF CleanMetavariables
  <2>2. PICK i \in DOMAIN tree.kids[p], j \in DOMAIN tree.kids[p] :
          SpannedBy(m.range, p, i, j) /\ m.range.end = End(tree.kids[p][j])
    BY <2>1
  <2>3. RunOf(tree, m.range, p, i, j)
    BY <2>2, SpannedRun
  <2> QED
    BY <2>2, <2>3 DEF CleanRun
<1>3. \A m, k \in input.metavars : m # k => ~ Intersect(m.range, k.range)
  BY DEF CleanMetavariables
<1> QED
  BY <1>1, <1>2, <1>3 DEF Clean, WithinTemplate

LEMMA GivenTypes ==
  ASSUME IInv, Given
  PROVE  /\ tree \in Tree /\ pending \in Seq(Node) /\ subtreeQueue \in Seq(Node)
         /\ templ \in TemplateRanges /\ templ.begin \in Location /\ templ.end \in Location
         /\ InOrder(tree) /\ Enclosing(tree) /\ IsTree(tree) /\ Nested(tree)
         /\ remainingMetavariables \subseteq input.metavars
         /\ parsingMetavariable \subseteq remainingMetavariables
         /\ Line \in Seq(Node)
         /\ \A m \in input.metavars : /\ m.range \in TemplateRanges
                                      /\ m.range.begin \in Location
                                      /\ m.range.end \in Location
<1>1. pending \in Seq(Node) /\ subtreeQueue \in Seq(Node)
  BY DEF IInv, StateInv
<1>2. Line \in Seq(Node)
  BY <1>1 DEF Line
<1>3. tree \in Tree /\ templ \in TemplateRanges
  BY InputTypes DEF IInv, Input, templ
<1>4. templ.begin \in Location /\ templ.end \in Location
  BY <1>3 DEF TemplateRanges
<1>5. \A m \in input.metavars : /\ m.range \in TemplateRanges
                                /\ m.range.begin \in Location
                                /\ m.range.end \in Location
  BY DEF Given, Clean, TemplateRanges
<1>6. /\ remainingMetavariables \subseteq input.metavars
      /\ parsingMetavariable \subseteq remainingMetavariables
  BY DEF IInv, BindingInv, BindingTypes
<1> QED
  BY <1>1, <1>2, <1>3, <1>4, <1>5, <1>6 DEF Given, InOneFile, OneFile

-----------------------------------------------------------------------------
(* While the template is searched.                                         *)

LEMMA TemplateHunt ==
  ASSUME IInv, HuntInv, input' = input, UNCHANGED binding, rejectedFor' = rejectedFor,
         phase \in {"start", "template"}, phase' \in {"template", "queue"},
         phase' = "template" /\ ~ templateConstructionBegan' => subtreeQueue' = << >>,
         \A m \in remainingMetavariables : \E p \in Node :
           \E i, j \in DOMAIN tree.kids[p] :
             CleanRun(m, p, i, j) /\ Leads(tree, m.range.begin, Line', p, i, j)
  PROVE  HuntInv'
<1>1. /\ tree' = tree /\ parsingMetavariable' = {}
      /\ remainingMetavariables' = remainingMetavariables
  BY SameTree DEF HuntInv, binding
<1>2. ASSUME NEW m \in remainingMetavariables
      PROVE  Hunted(m)'
  <2>1. PICK p \in Node : \E i, j \in DOMAIN tree.kids[p] :
          CleanRun(m, p, i, j) /\ Leads(tree, m.range.begin, Line', p, i, j)
    OBVIOUS
  <2>2. PICK i \in DOMAIN tree.kids[p], j \in DOMAIN tree.kids[p] :
          CleanRun(m, p, i, j) /\ Leads(tree, m.range.begin, Line', p, i, j)
    BY <2>1
  <2>3. CleanRun(m, p, i, j)'
    BY <2>2, <1>1 DEF CleanRun, End
  <2>4. OnItsWay(m, p, i, j)'
    BY <2>2, <1>1 DEF OnItsWay
  <2> QED
    BY <2>3, <2>4, <1>1 DEF Hunted
<1>3. rejectedFor' \notin MetavariableErrors /\ phase' # "start"
  BY DEF HuntInv
<1> QED
  BY <1>1, <1>2, <1>3 DEF HuntInv

LEMMA HuntedInTemplate ==
  ASSUME HuntInv, phase = "template", NEW m \in remainingMetavariables
  PROVE  \E p \in Node : \E i, j \in DOMAIN tree.kids[p] :
           CleanRun(m, p, i, j)
           /\ Leads(tree, m.range.begin, subtreeQueue \o pending, p, i, j)
<1>1. Hunted(m) /\ m \notin parsingMetavariable
  BY DEF HuntInv, Hunts
<1>2. Line = subtreeQueue \o pending
  BY DEF Line
<1> QED
  BY <1>1, <1>2 DEF Hunted, OnItsWay

LEMMA CheckFileRangeHunt ==
  ASSUME IInv, Given, OrderInv, HuntInv, CheckFileRange, phase' # "rejected"
  PROVE  HuntInv'
<1>1. /\ phase = "start" /\ phase' = "template" /\ input' = input
      /\ UNCHANGED binding /\ rejectedFor' = rejectedFor
      /\ pending' = tree.kids[tree.root] /\ subtreeQueue' = subtreeQueue
      /\ templateConstructionBegan' = templateConstructionBegan
  BY DEF CheckFileRange, GoOn, Throw, template
<1>2. subtreeQueue = << >>
  BY <1>1 DEF OrderInv
<1>3. /\ tree \in Tree /\ InOrder(tree) /\ Enclosing(tree) /\ IsTree(tree)
      /\ tree.root \in Node /\ tree.kids[tree.root] \in Seq(Node)
  BY GivenTypes, InputTypes DEF IInv
<1>4. Line' = tree.kids[tree.root] \o << >>
  <2>1. << >> \o tree.kids[tree.root] = tree.kids[tree.root] \o << >>
    BY <1>3
  <2> QED
    BY <2>1, <1>1, <1>2 DEF Line
<1>5. ASSUME NEW m \in remainingMetavariables
      PROVE  \E p \in Node : \E i, j \in DOMAIN tree.kids[p] :
               CleanRun(m, p, i, j) /\ Leads(tree, m.range.begin, Line', p, i, j)
  <2>1. m \in input.metavars /\ m.range \in TemplateRanges
    BY GivenTypes
  <2>2. PICK p \in Node : \E i, j \in DOMAIN tree.kids[p] : CleanRun(m, p, i, j)
    BY <2>1 DEF Given, Clean
  <2>3. PICK i \in DOMAIN tree.kids[p], j \in DOMAIN tree.kids[p] : CleanRun(m, p, i, j)
    BY <2>2
  <2>4. RunOf(tree, m.range, p, i, j) /\ i \in i .. j
    <3>1. tree.kids[p] \in Seq(Node)
      BY <1>3 DEF Tree
    <3> QED
      BY <3>1, <2>3 DEF CleanRun, RunOf
  <2>5. tree.kids[p][i] \in Subtree(tree, tree.root) \ {tree.root}
    BY <1>3, <2>4 DEF RunOf, Enclosing
  <2>6. p \in Subtree(tree, tree.root)
    BY <1>3, <2>5, ParentInSubtree
  <2>7. << >> \in Seq(Node)
    OBVIOUS
  <2>8. Leads(tree, m.range.begin, tree.kids[tree.root] \o << >>, p, i, j)
    BY <1>3, <2>1, <2>4, <2>6, <2>7, LeadsBelow
  <2> QED
    BY <2>3, <2>8, <1>4
<1> QED
  BY <1>1, <1>2, <1>5, TemplateHunt

(* A node that the search for the template passes is behind a metavariable.*)
LEMMA PassedBehind ==
  ASSUME IInv, Given, NEW n \in Node, Passed(n), NEW m \in input.metavars
  PROVE  Behind(tree, n, m.range.begin)
<1>1. tree.range[n].end \in Location
  BY GivenTypes DEF Tree, TemplateRanges
<1>2. LocLeq(templ.begin, m.range.begin)
  BY DEF Given, Clean
<1> QED
  BY <1>1, <1>2, GivenTypes, LocTransitiveLess DEF Passed, Behind, End

LEMMA SkipSubtreeHunt ==
  ASSUME IInv, Given, HuntInv, NEW n \in Node, SkipSubtree(n)
  PROVE  HuntInv'
<1>1. /\ phase = "template" /\ phase' = "template" /\ input' = input
      /\ UNCHANGED binding /\ rejectedFor' = rejectedFor /\ subtreeQueue' = subtreeQueue
      /\ templateConstructionBegan' = templateConstructionBegan
      /\ pending # << >> /\ pending' = Tail(pending) /\ n = Head(pending) /\ Passed(n)
  BY DEF SkipSubtree, Visiting, GoOn, template
<1>2. Line' = subtreeQueue \o Tail(pending)
  BY <1>1 DEF Line
<1>3. ASSUME NEW m \in remainingMetavariables
      PROVE  \E p \in Node : \E i, j \in DOMAIN tree.kids[p] :
               CleanRun(m, p, i, j) /\ Leads(tree, m.range.begin, Line', p, i, j)
  <2>1. m \in input.metavars /\ m.range \in TemplateRanges
    BY GivenTypes
  <2>2. PICK p \in Node : \E i, j \in DOMAIN tree.kids[p] :
          CleanRun(m, p, i, j)
          /\ Leads(tree, m.range.begin, subtreeQueue \o pending, p, i, j)
    BY <1>1, HuntedInTemplate
  <2>3. PICK i \in DOMAIN tree.kids[p], j \in DOMAIN tree.kids[p] :
          CleanRun(m, p, i, j)
          /\ Leads(tree, m.range.begin, subtreeQueue \o pending, p, i, j)
    BY <2>2
  <2>4. Behind(tree, n, m.range.begin)
    BY <1>1, <2>1, PassedBehind
  <2>5. Leads(tree, m.range.begin, subtreeQueue \o Tail(pending), p, i, j)
    BY <1>1, <2>1, <2>3, <2>4, GivenTypes, LeadsWithout DEF CleanRun
  <2> QED
    BY <2>3, <2>5, <1>2
<1>4. ~ templateConstructionBegan' => subtreeQueue' = << >>
  BY <1>1, Zenon DEF HuntInv
<1> QED
  BY <1>1, <1>3, <1>4, TemplateHunt

(* What is below a node that ends before a location ends before it.        *)
LEMMA BehindBelow ==
  ASSUME NEW t \in Tree, InOrder(t), Enclosing(t), NEW n \in Node, n \in t.main,
         NEW begin \in Location, Behind(t, n, begin), NEW k \in Bound(t.kids[n])
  PROVE  Behind(t, k, begin)
<1> SUFFICES ASSUME k \in t.main
             PROVE  LocLess(t.range[k].end, begin)
  BY DEF Behind
<1>1. k \in Node
  <2>1. t.kids[n] \in Seq(Node)
    BY DEF Tree
  <2> QED
    BY <2>1 DEF Bound
<1>2. EndsIn(t, k, n)
  <2>1. n # t.root
    BY DEF Enclosing
  <2> QED
    BY <2>1 DEF Enclosing, Bound
<1>3. /\ t.range[k].end \in Location /\ t.endLit[k] \in Location
      /\ LocLeq(t.range[k].end, t.endLit[k]) /\ t.range[n].end \in Location
  BY <1>1, MainLocations
<1>4. LocLeq(t.range[k].end, t.range[n].end)
  <2>1. CASE t.range[k].end = t.range[n].end
    BY <2>1, <1>3, LocReflexive
  <2>2. CASE LocLess(t.endLit[k], t.range[n].end)
    BY <2>2, <1>3, LocTransitive DEF LocLess
  <2> QED
    BY <2>1, <2>2, <1>2 DEF EndsIn
<1>5. LocLess(t.range[n].end, begin)
  BY DEF Behind
<1> QED
  BY <1>3, <1>4, <1>5, LocTransitive

(* A step below a node that the search passes loses no metavariable.       *)
LEMMA LeadsThrough ==
  ASSUME NEW t \in Tree, InOrder(t), Enclosing(t), NEW r \in TemplateRanges,
         NEW p \in Node, NEW i, NEW j, RunOf(t, r, p, i, j),
         NEW s \in Seq(Node), s # << >>, Leads(t, r.begin, s, p, i, j),
         Head(s) \in t.main, Behind(t, Head(s), r.begin),
         NEW b \in {<< >>, t.kids[Head(s)]}
  PROVE  Leads(t, r.begin, b \o Tail(s), p, i, j)
<1>1. /\ Head(s) \in Node /\ Tail(s) \in Seq(Node) /\ t.kids[Head(s)] \in Seq(Node)
      /\ << >> \in Seq(Node) /\ r.begin \in Location
  BY DEF Tree, TemplateRanges
<1>2. i \in Int
  <2>1. t.kids[p] \in Seq(Node)
    BY DEF Tree
  <2> QED
    BY <2>1 DEF RunOf
<1>3. Leads(t, r.begin, Tail(s), p, i, j)
  BY LeadsBehind
<1>4. b \in Seq(Node) /\ \A k \in Bound(b) : Behind(t, k, r.begin)
  BY <1>1, BehindBelow, BoundFacts
<1> QED
  BY <1>1, <1>2, <1>3, <1>4, LeadsPrepend

LEMMA DescendHunt ==
  ASSUME IInv, Given, HuntInv, NEW n \in Node, Descend(n)
  PROVE  HuntInv'
<1>1. /\ phase = "template" /\ phase' = "template" /\ input' = input
      /\ UNCHANGED binding /\ rejectedFor' = rejectedFor /\ subtreeQueue' = subtreeQueue
      /\ templateConstructionBegan' = templateConstructionBegan
      /\ pending # << >> /\ pending' = tree.kids[n] \o Tail(pending)
      /\ n = Head(pending) /\ ~ Passed(n) /\ ~ Constructing(n)
      /\ ~ LocLess(templ.begin, Start(n))
  BY DEF Descend, Visiting, GoOn, template
<1>2. n \in tree.main
  BY <1>1 DEF Passed
<1>3. ~ templateConstructionBegan
  BY <1>1, Zenon DEF Constructing
<1>4. subtreeQueue = << >>
  BY <1>1, <1>3 DEF HuntInv
<1>5. /\ tree \in Tree /\ pending \in Seq(Node) /\ Tail(pending) \in Seq(Node)
      /\ tree.kids[n] \in Seq(Node)
      /\ subtreeQueue \o pending = pending /\ Line' = tree.kids[n] \o Tail(pending)
  <2>1. /\ tree \in Tree /\ pending \in Seq(Node) /\ Tail(pending) \in Seq(Node)
        /\ tree.kids[n] \in Seq(Node)
    BY <1>1, GivenTypes DEF Tree
  <2>2. tree.kids[n] \o Tail(pending) \in Seq(Node)
    BY <2>1
  <2>3. /\ << >> \o pending = pending
        /\ << >> \o (tree.kids[n] \o Tail(pending)) = tree.kids[n] \o Tail(pending)
    BY <2>1, <2>2, ListFacts
  <2> QED
    BY <2>1, <2>3, <1>1, <1>4 DEF Line
<1>6. ASSUME NEW m \in remainingMetavariables
      PROVE  \E p \in Node : \E i, j \in DOMAIN tree.kids[p] :
               CleanRun(m, p, i, j) /\ Leads(tree, m.range.begin, Line', p, i, j)
  <2>1. m \in input.metavars /\ m.range \in TemplateRanges /\ m.range.begin \in Location
    BY GivenTypes
  <2>2. PICK p \in Node : \E i, j \in DOMAIN tree.kids[p] :
          CleanRun(m, p, i, j)
          /\ Leads(tree, m.range.begin, subtreeQueue \o pending, p, i, j)
    BY <1>1, HuntedInTemplate
  <2>3. PICK i \in DOMAIN tree.kids[p], j \in DOMAIN tree.kids[p] :
          CleanRun(m, p, i, j)
          /\ Leads(tree, m.range.begin, subtreeQueue \o pending, p, i, j)
    BY <2>2
  <2>4. RunOf(tree, m.range, p, i, j) /\ Leads(tree, m.range.begin, pending, p, i, j)
    BY <2>3, <1>5 DEF CleanRun
  <2>5. CASE Behind(tree, n, m.range.begin)
    <3>1. Leads(tree, m.range.begin, tree.kids[n] \o Tail(pending), p, i, j)
      BY <2>1, <2>4, <2>5, <1>1, <1>2, <1>5, GivenTypes, LeadsThrough
    <3> QED
      BY <3>1, <2>3, <1>5
  <2>6. CASE ~ Behind(tree, n, m.range.begin)
    <3>1. LeadsAt(tree, m.range.begin, pending, 1, p, i, j)
      BY <2>1, <2>4, <2>6, <1>1, <1>5, GivenTypes, LeadsBehind
    <3>2. pending[1] = n
      BY <1>1, <1>5
    <3>3. ~ Slice(tree, pending, 1, p, i, j)
      <4> SUFFICES ASSUME Slice(tree, pending, 1, p, i, j)
                   PROVE  FALSE
        OBVIOUS
      <4>1. tree.kids[p] \in Seq(Node) /\ pending \in Seq(Node) /\ pending # << >>
        BY <1>1, <1>5 DEF Tree
      <4>2. i \in Int /\ j \in Int /\ i <= j
        BY <4>1, <2>4 DEF RunOf
      <4>3. Head(pending) = tree.kids[p][i]
        BY <4>1, <4>2, SliceHead
      <4>4. Start(n) = m.range.begin
        BY <4>3, <2>4, <1>1 DEF RunOf, Start
      <4>5. LocLeq(templ.begin, Start(n)) /\ Start(n) # templ.begin
        BY <4>4, <2>1, <1>1 DEF Given, Clean, Constructing
      <4> QED
        BY <4>5, <1>1 DEF LocLess
    <3>4. p \in Subtree(tree, n) /\ tree.root \notin Subtree(tree, n)
      BY <3>1, <3>2, <3>3 DEF LeadsAt
    <3>5. Leads(tree, m.range.begin, tree.kids[n] \o Tail(pending), p, i, j)
      BY <3>4, <2>1, <2>4, <1>5, GivenTypes, LeadsBelow
    <3> QED
      BY <3>5, <2>3, <1>5
  <2> QED
    BY <2>5, <2>6
<1>7. ~ templateConstructionBegan' => subtreeQueue' = << >>
  BY <1>1, <1>4
<1> QED
  BY <1>1, <1>6, <1>7, TemplateHunt

LEMMA AddTemplateSubtreeHunt ==
  ASSUME IInv, Given, OrderInv, HuntInv, NEW n \in Node, AddTemplateSubtree(n)
  PROVE  HuntInv'
<1>1. /\ phase = "template" /\ input' = input
      /\ UNCHANGED binding /\ rejectedFor' = rejectedFor
      /\ subtreeQueue' = Append(subtreeQueue, n)
      /\ templateConstructionBegan' = TRUE
      /\ pending # << >> /\ n = Head(pending) /\ ~ Passed(n)
  BY DEF AddTemplateSubtree, Visiting, GoOn
<1>2. /\ tree \in Tree /\ pending \in Seq(Node) /\ Tail(pending) \in Seq(Node)
      /\ subtreeQueue \in Seq(Node) /\ Append(subtreeQueue, n) \in Seq(Node)
      /\ Append(subtreeQueue, n) \o Tail(pending) = subtreeQueue \o pending
  <2>1. tree \in Tree /\ pending \in Seq(Node) /\ subtreeQueue \in Seq(Node)
    BY GivenTypes
  <2>2. Tail(pending) \in Seq(Node) /\ Append(subtreeQueue, n) \in Seq(Node)
    BY <2>1, <1>1
  <2> QED
    BY <2>1, <2>2, <1>1, ListFacts
<1>3. templateConstructionBegan'
  BY <1>1, Zenon
<1>4. CASE ~ EndsAt(n, templ.end)
  <2>1. phase' = "template" /\ pending' = Tail(pending)
    BY <1>1, <1>4 DEF AddTemplateSubtree
  <2>2. Line' = subtreeQueue \o pending
    BY <2>1, <1>1, <1>2 DEF Line
  <2>3. ASSUME NEW m \in remainingMetavariables
        PROVE  \E p \in Node : \E i, j \in DOMAIN tree.kids[p] :
                 CleanRun(m, p, i, j) /\ Leads(tree, m.range.begin, Line', p, i, j)
    BY <2>2, <1>1, HuntedInTemplate
  <2> QED
    BY <2>1, <2>3, <1>1, <1>3, TemplateHunt
<1>5. CASE EndsAt(n, templ.end)
  <2>1. phase' = "queue" /\ pending' = << >>
    BY <1>5 DEF AddTemplateSubtree
  <2>2. Line' = Append(subtreeQueue, n)
    <3>1. << >> \o Append(subtreeQueue, n) = Append(subtreeQueue, n)
      BY <1>2, ListFacts
    <3> QED
      BY <3>1, <2>1, <1>1 DEF Line
  <2>3. LocLeq(templ.end, tree.endSemi[n]) /\ tree.endSemi[n] \in Location
        /\ n \in tree.main
    <3>1. n \in tree.main
      BY <1>1 DEF Passed
    <3>2. /\ tree.range[n].end \in Location /\ tree.endSemi[n] \in Location
          /\ LocLeq(tree.range[n].end, tree.endSemi[n])
          /\ LocLeq(tree.endLit[n], tree.endSemi[n])
      BY <3>1, GivenTypes, MainLocations
    <3> QED
      BY <3>1, <3>2, <1>5, LocReflexive DEF EndsAt, End
  <2>4. ASSUME NEW k \in Bound(Tail(pending)), k \in tree.main
        PROVE  LocLess(templ.end, tree.range[k].begin)
    <3>1. Before(tree, {n}, Bound(Tail(pending)))
      BY <1>1, <1>2, OrderedTail DEF OrderInv
    <3>2. LocLess(tree.endSemi[n], tree.range[k].begin)
      BY <3>1, <2>3, <2>4 DEF Before
    <3>3. k \in Node
      BY <1>2, BoundFacts
    <3>4. tree.range[k].begin \in Location
      BY <3>3, <1>2 DEF Tree, TemplateRanges
    <3> QED
      BY <3>2, <3>4, <2>3, GivenTypes, LocTransitive
  <2>5. ASSUME NEW m \in remainingMetavariables
        PROVE  \E p \in Node : \E i, j \in DOMAIN tree.kids[p] :
                 CleanRun(m, p, i, j) /\ Leads(tree, m.range.begin, Line', p, i, j)
    <3>1. /\ m \in input.metavars /\ m.range \in TemplateRanges
          /\ m.range.end \in Location /\ LocLeq(m.range.end, templ.end)
      BY GivenTypes DEF Given, Clean
    <3>2. PICK p \in Node : \E i, j \in DOMAIN tree.kids[p] :
            CleanRun(m, p, i, j)
            /\ Leads(tree, m.range.begin, subtreeQueue \o pending, p, i, j)
      BY <1>1, HuntedInTemplate
    <3>3. PICK i \in DOMAIN tree.kids[p], j \in DOMAIN tree.kids[p] :
            CleanRun(m, p, i, j)
            /\ Leads(tree, m.range.begin, subtreeQueue \o pending, p, i, j)
      BY <3>2
    <3>4. RunOf(tree, m.range, p, i, j)
          /\ Leads(tree, m.range.begin, Append(subtreeQueue, n) \o Tail(pending), p, i, j)
      BY <3>3, <1>2 DEF CleanRun
    <3>5. ASSUME NEW k \in Bound(Tail(pending)), k \in tree.main
          PROVE  LocLess(m.range.end, tree.range[k].begin)
      <4>1. LocLess(templ.end, tree.range[k].begin) /\ k \in Node
        BY <2>4, <3>5, <1>2, BoundFacts
      <4>2. tree.range[k].begin \in Location
        BY <4>1, <1>2 DEF Tree, TemplateRanges
      <4> QED
        BY <4>1, <4>2, <3>1, GivenTypes, LocTransitive
    <3>6. Leads(tree, m.range.begin, Append(subtreeQueue, n), p, i, j)
      BY <3>1, <3>4, <3>5, <1>2, GivenTypes, LeadsCut
    <3> QED
      BY <3>3, <3>6, <2>2
  <2> QED
    BY <2>1, <2>5, <1>1, <1>3, TemplateHunt
<1> QED
  BY <1>4, <1>5

-----------------------------------------------------------------------------
(* While metavariables are searched.                                       *)

LEMMA LeastNumber ==
  ASSUME NEW S \in SUBSET Nat, S # {}
  PROVE  \E i \in S : \A j \in S : i <= j
<1> DEFINE R == OpToRel(<, Nat)
<1>1. IsWellFoundedOn(R, Nat)
  BY NatLessThanWellFounded
<1>2. \A x, y \in Nat : x < y => <<x, y>> \in R
  BY DEF OpToRel
<1> HIDE DEF R
<1>3. PICK i \in S : \A j \in S : <<j, i>> \notin R
  BY <1>1, WFMin
<1>4. ASSUME NEW j \in S
      PROVE  ~ (j < i)
  <2>1. i \in Nat /\ j \in Nat /\ <<j, i>> \notin R
    BY <1>3
  <2> QED
    BY <1>2, <2>1
<1>5. \A j \in S : i <= j
  BY <1>4
<1> QED
  BY <1>5

(* Of finitely many metavariables one begins first.                        *)
LEMMA FirstMetavariable ==
  ASSUME NEW S, IsFiniteSet(S), S # {}, \A m \in S : m.range.begin \in Location
  PROVE  \E a \in S : \A b \in S : ~ LocLess(b.range.begin, a.range.begin)
<1> DEFINE Earlier(a) == {b \in S : LocLess(b.range.begin, a.range.begin)}
           Counts == {Cardinality(Earlier(a)) : a \in S}
<1>1. \A a \in S : IsFiniteSet(Earlier(a)) /\ Cardinality(Earlier(a)) \in Nat
  <2> SUFFICES ASSUME NEW a \in S
               PROVE  IsFiniteSet(Earlier(a)) /\ Cardinality(Earlier(a)) \in Nat
    OBVIOUS
  <2>1. Earlier(a) \in SUBSET S
    OBVIOUS
  <2> HIDE DEF Earlier
  <2>2. IsFiniteSet(Earlier(a))
    BY <2>1, FS_Subset
  <2> QED
    BY <2>2, FS_CardinalityType
<1>2. Counts \in SUBSET Nat /\ Counts # {}
  <2> HIDE DEF Earlier
  <2> QED
    BY <1>1
<1>3. PICK least \in Counts : \A x \in Counts : least <= x
  <2> HIDE DEF Counts
  <2> QED
    BY <1>2, LeastNumber
<1>4. PICK a \in S : least = Cardinality(Earlier(a))
  OBVIOUS
<1>5. ASSUME NEW b \in S, LocLess(b.range.begin, a.range.begin)
      PROVE  FALSE
  <2>1. Earlier(b) \in SUBSET Earlier(a)
    <3> SUFFICES ASSUME NEW c \in S, LocLess(c.range.begin, b.range.begin)
                 PROVE  LocLess(c.range.begin, a.range.begin)
      OBVIOUS
    <3> QED
      BY <1>5, LocTransitiveLess DEF LocLess
  <2>2. b \in Earlier(a) /\ b \notin Earlier(b)
    BY <1>5 DEF LocLess
  <2>3. Cardinality(Earlier(a)) <= Cardinality(Earlier(b))
    <3>1. Cardinality(Earlier(b)) \in Counts
      OBVIOUS
    <3> HIDE DEF Counts, Earlier
    <3> QED
      BY <3>1, <1>3, <1>4
  <2> HIDE DEF Earlier, Counts
  <2>4. /\ IsFiniteSet(Earlier(a)) /\ Cardinality(Earlier(a)) \in Nat
        /\ Cardinality(Earlier(b)) \in Nat
    BY <1>1
  <2>5. /\ Cardinality(Earlier(b)) <= Cardinality(Earlier(a))
        /\ Cardinality(Earlier(a)) = Cardinality(Earlier(b)) => Earlier(a) = Earlier(b)
    BY <2>1, <2>4, FS_Subset
  <2>6. Cardinality(Earlier(a)) = Cardinality(Earlier(b))
    BY <2>3, <2>4, <2>5
  <2> QED
    BY <2>2, <2>5, <2>6
<1> QED
  BY <1>5

LEMMA CleanValid ==
  ASSUME IInv, Given, NEW m \in input.metavars
  PROVE  LocLeq(m.range.begin, m.range.end)
<1>1. PICK p \in Node : \E i, j \in DOMAIN tree.kids[p] : CleanRun(m, p, i, j)
  BY DEF Given, Clean
<1>2. PICK i \in DOMAIN tree.kids[p], j \in DOMAIN tree.kids[p] : CleanRun(m, p, i, j)
  BY <1>1
<1>3. RunOf(tree, m.range, p, i, j) /\ i \in i .. j
  <2>1. tree.kids[p] \in Seq(Node)
    BY GivenTypes DEF Tree
  <2> QED
    BY <2>1, <1>2 DEF CleanRun, RunOf
<1> QED
  BY <1>3, GivenTypes, RunLocations

(* Metavariables that have no location in common are tried in the order of *)
(* their begins.                                                           *)
LEMMA PrecedesBegin ==
  ASSUME IInv, Given, NEW x \in input.metavars, NEW y \in input.metavars,
         MetavarPrecedes(x, y)
  PROVE  x # y /\ LocLess(x.range.begin, y.range.begin)
<1>1. x \in MetavarLoc /\ y \in MetavarLoc
  BY DEF IInv, Input
<1>2. x.identifier \in Nat /\ y.identifier \in Nat
  BY <1>1, IdentifierAssumption DEF MetavarLoc
<1>3. x # y
  BY <1>2 DEF MetavarPrecedes, LocLess
<1>4. ~ Intersect(x.range, y.range)
  BY <1>3 DEF Given, Clean
<1>5. /\ x.range.begin \in Location /\ x.range.end \in Location
      /\ y.range.begin \in Location /\ y.range.end \in Location
  BY GivenTypes
<1>6. LocLeq(x.range.begin, x.range.end) /\ LocLeq(y.range.begin, y.range.end)
  BY CleanValid
<1>7. x.range.begin # y.range.begin
  BY <1>4, <1>6 DEF Intersect
<1> QED
  BY <1>3, <1>7 DEF MetavarPrecedes

(* Where a metavariable can be when node n is searched: behind n, below n, *)
(* or n is the next of its nodes.                                          *)
Later(k, n) ==
  /\ k \notin parsingMetavariable /\ Behind(tree, n, k.range.begin)
  /\ \E p \in Node : \E i, j \in DOMAIN tree.kids[p] :
       CleanRun(k, p, i, j) /\ Leads(tree, k.range.begin, Line, p, i, j)

Within(k, n) ==
  /\ k \notin parsingMetavariable
  /\ \E p \in Node : \E i, j \in DOMAIN tree.kids[p] :
       /\ CleanRun(k, p, i, j)
       /\ p \in Subtree(tree, n) /\ tree.root \notin Subtree(tree, n)

OnRun(k, n) ==
  \E p \in Node : \E i, j \in DOMAIN tree.kids[p] : \E c \in i .. j :
    /\ CleanRun(k, p, i, j) /\ n = tree.kids[p][c]
    /\ Slice(tree, Line, 1, p, c, j)
    /\ k \in parsingMetavariable \/ c = i

Covers(k, n) == LocLeq(k.range.begin, Start(n)) /\ LocLeq(End(n), k.range.end)

LEMMA SearchTypes ==
  ASSUME IInv, Given, OrderInv, NEW n \in Node, Searching(n)
  PROVE  /\ phase = "metavariables" /\ pending # << >> /\ n = Head(pending)
         /\ n \in tree.main
         /\ Start(n) \in Location /\ End(n) \in Location
         /\ LocLeq(Start(n), End(n))
         /\ Line = pending \o subtreeQueue /\ Line \in Seq(Node) /\ Line # << >>
         /\ Head(Line) = n /\ Line[1] = n
         /\ Tail(Line) = Tail(pending) \o subtreeQueue
<1>1. phase = "metavariables" /\ pending # << >> /\ n = Head(pending)
  BY DEF Searching
<1>2. n \in tree.main
  <2>1. Bound(pending) \subseteq tree.main
    BY <1>1 DEF OrderInv, Searches
  <2>2. Head(pending) \in Bound(pending)
    BY <1>1, GivenTypes, BoundFacts
  <2> QED
    BY <2>1, <2>2, <1>1
<1>3. /\ Start(n) \in Location /\ End(n) \in Location /\ LocLeq(Start(n), End(n))
  BY <1>2, GivenTypes, MainLocations DEF Start, End
<1>4. Line = pending \o subtreeQueue /\ Line \in Seq(Node)
  BY <1>1, GivenTypes DEF Line
<1>5. /\ Line # << >> /\ Head(Line) = n /\ Tail(Line) = Tail(pending) \o subtreeQueue
  BY <1>1, <1>4, GivenTypes, ListFacts
<1>6. Line[1] = n
  BY <1>4, <1>5
<1> QED
  BY <1>1, <1>2, <1>3, <1>4, <1>5, <1>6

LEMMA Places ==
  ASSUME IInv, Given, OrderInv, HuntInv, NEW n \in Node, Searching(n),
         NEW k \in remainingMetavariables
  PROVE  Later(k, n) \/ Within(k, n) \/ OnRun(k, n)
<1>1. k \in input.metavars /\ k.range \in TemplateRanges
  BY GivenTypes
<1>2. /\ tree \in Tree /\ InOrder(tree) /\ Enclosing(tree)
      /\ Line \in Seq(Node) /\ Line # << >> /\ Head(Line) = n /\ Line[1] = n
  BY GivenTypes, SearchTypes
<1>3. Hunted(k)
  BY SearchTypes DEF HuntInv, Hunts
<1>4. PICK p \in Node : \E i, j \in DOMAIN tree.kids[p] :
        CleanRun(k, p, i, j) /\ OnItsWay(k, p, i, j)
  BY <1>3 DEF Hunted
<1>5. PICK i \in DOMAIN tree.kids[p], j \in DOMAIN tree.kids[p] :
        CleanRun(k, p, i, j) /\ OnItsWay(k, p, i, j)
  BY <1>4
<1>6. RunOf(tree, k.range, p, i, j) /\ i \in Int /\ j \in Int /\ i <= j
  <2>1. tree.kids[p] \in Seq(Node)
    BY <1>2 DEF Tree
  <2> QED
    BY <2>1, <1>5 DEF CleanRun, RunOf
<1>7. CASE k \in parsingMetavariable
  <2>1. PICK c \in i .. j : Slice(tree, Line, 1, p, c, j)
    BY <1>5, <1>7 DEF OnItsWay
  <2>2. c \in Int /\ j \in Int /\ c <= j
    BY <1>6
  <2>3. Line \in Seq(Node) /\ Line # << >>
    BY <1>2
  <2>4. Head(Line) = tree.kids[p][c]
    BY <2>1, <2>2, <2>3, SliceHead
  <2> QED
    BY <2>1, <2>4, <1>2, <1>5, <1>7 DEF OnRun
<1>8. CASE k \notin parsingMetavariable
  <2>1. Leads(tree, k.range.begin, Line, p, i, j)
    BY <1>5, <1>8 DEF OnItsWay
  <2>2. CASE Behind(tree, n, k.range.begin)
    BY <2>1, <2>2, <1>5, <1>8 DEF Later
  <2>3. CASE ~ Behind(tree, n, k.range.begin)
    <3>1. LeadsAt(tree, k.range.begin, Line, 1, p, i, j)
      BY <2>1, <2>3, <1>1, <1>2, <1>6, LeadsBehind
    <3>2. CASE Slice(tree, Line, 1, p, i, j)
      <4>1. Head(Line) = tree.kids[p][i]
        BY <3>2, <1>2, <1>6, SliceHead
      <4>2. i \in i .. j
        BY <1>6
      <4> QED
        BY <4>1, <4>2, <3>2, <1>2, <1>5 DEF OnRun
    <3>3. CASE p \in Subtree(tree, Line[1]) /\ tree.root \notin Subtree(tree, Line[1])
      BY <3>3, <1>2, <1>5, <1>8 DEF Within
    <3> QED
      BY <3>1, <3>2, <3>3 DEF LeadsAt
  <2> QED
    BY <2>2, <2>3
<1> QED
  BY <1>7, <1>8

(* A node that lies around a metavariable.                                 *)
LEMMA WithinLocations ==
  ASSUME IInv, Given, OrderInv, NEW n \in Node, Searching(n),
         NEW k \in remainingMetavariables, Within(k, n)
  PROVE  LocLeq(Start(n), k.range.begin) /\ LocLeq(k.range.end, End(n))
<1>1. /\ k.range \in TemplateRanges /\ tree \in Tree /\ InOrder(tree)
      /\ Enclosing(tree) /\ k.range.end \in Location
      /\ Start(n) \in Location /\ End(n) \in Location
  BY GivenTypes, SearchTypes
<1>2. PICK p \in Node : \E i, j \in DOMAIN tree.kids[p] :
        /\ CleanRun(k, p, i, j)
        /\ p \in Subtree(tree, n) /\ tree.root \notin Subtree(tree, n)
  BY DEF Within
<1>3. PICK i \in DOMAIN tree.kids[p], j \in DOMAIN tree.kids[p] :
        /\ CleanRun(k, p, i, j)
        /\ p \in Subtree(tree, n) /\ tree.root \notin Subtree(tree, n)
  BY <1>2
<1>4. RunOf(tree, k.range, p, i, j) /\ j \in i .. j
  <2>1. tree.kids[p] \in Seq(Node)
    BY <1>1 DEF Tree
  <2> QED
    BY <2>1, <1>3 DEF CleanRun, RunOf
<1> DEFINE b == tree.kids[p][j]
<1>5. LocLeq(Start(n), k.range.begin) /\ EndsIn(tree, b, n)
  BY <1>1, <1>3, <1>4, Above DEF Start
<1>6. b \in Node /\ b \in tree.main
  BY <1>1, <1>4, RunLocations
<1>7. k.range.end = tree.range[b].end
  BY <1>3 DEF CleanRun, End
<1> HIDE DEF b
<1>8. /\ tree.endLit[b] \in Location /\ LocLeq(tree.range[b].end, tree.endLit[b])
  BY <1>1, <1>6, MainLocations
<1>9. LocLeq(k.range.end, End(n))
  <2>1. CASE tree.range[b].end = tree.range[n].end
    BY <2>1, <1>1, <1>7, LocReflexive DEF End
  <2>2. CASE LocLess(tree.endLit[b], tree.range[n].end)
    BY <2>2, <1>1, <1>7, <1>8, LocTransitive DEF LocLess, End
  <2> QED
    BY <2>1, <2>2, <1>5 DEF EndsIn
<1> QED
  BY <1>5, <1>9

LEMMA OnRunCovers ==
  ASSUME IInv, Given, OrderInv, NEW n \in Node, Searching(n),
         NEW k \in remainingMetavariables, OnRun(k, n)
  PROVE  /\ Covers(k, n)
         /\ k \in parsingMetavariable \/ Start(n) = k.range.begin
<1>1. /\ k.range \in TemplateRanges /\ tree \in Tree /\ InOrder(tree)
  BY GivenTypes
<1>2. PICK p \in Node : \E i, j \in DOMAIN tree.kids[p] : \E c \in i .. j :
        /\ CleanRun(k, p, i, j) /\ n = tree.kids[p][c]
        /\ k \in parsingMetavariable \/ c = i
  BY DEF OnRun
<1>3. PICK i \in DOMAIN tree.kids[p], j \in DOMAIN tree.kids[p] : \E c \in i .. j :
        /\ CleanRun(k, p, i, j) /\ n = tree.kids[p][c]
        /\ k \in parsingMetavariable \/ c = i
  BY <1>2
<1>4. PICK c \in i .. j : /\ CleanRun(k, p, i, j) /\ n = tree.kids[p][c]
                          /\ k \in parsingMetavariable \/ c = i
  BY <1>3
<1>5. RunOf(tree, k.range, p, i, j)
  BY <1>4 DEF CleanRun
<1>6. LocLeq(k.range.begin, Start(n))
  BY <1>1, <1>4, <1>5, RunLocations DEF Start
<1>7. LocLeq(End(n), k.range.end)
  BY <1>4, <1>5 DEF RunOf, End
<1>8. c = i => Start(n) = k.range.begin
  BY <1>4, <1>5 DEF RunOf, Start
<1> QED
  BY <1>4, <1>6, <1>7, <1>8 DEF Covers

(* If n lies in the range of a metavariable, the others come later.        *)
LEMMA OthersLater ==
  ASSUME IInv, Given, OrderInv, HuntInv, NEW n \in Node, Searching(n),
         NEW m \in remainingMetavariables, Covers(m, n),
         NEW k \in remainingMetavariables, k # m
  PROVE  Later(k, n)
<1>1. /\ m \in input.metavars /\ k \in input.metavars
      /\ m.range.begin \in Location /\ m.range.end \in Location
      /\ k.range.begin \in Location /\ k.range.end \in Location
      /\ Start(n) \in Location /\ End(n) \in Location /\ LocLeq(Start(n), End(n))
  BY GivenTypes, SearchTypes
<1>2. ~ Intersect(m.range, k.range)
  BY <1>1 DEF Given, Clean
<1>3. LocLeq(m.range.begin, Start(n)) /\ LocLeq(End(n), m.range.end)
  BY DEF Covers
<1>4. ~ Within(k, n)
  <2> SUFFICES ASSUME Within(k, n)
               PROVE  FALSE
    OBVIOUS
  <2>1. LocLeq(Start(n), k.range.begin) /\ LocLeq(k.range.end, End(n))
    BY WithinLocations
  <2>2. LocLeq(k.range.begin, k.range.end)
    BY <1>1, CleanValid
  <2>3. LocLeq(m.range.begin, k.range.begin) /\ LocLeq(k.range.end, m.range.end)
    BY <1>1, <1>3, <2>1, LocTransitive
  <2>4. LocLeq(m.range.begin, k.range.end) /\ LocLeq(k.range.begin, m.range.end)
    BY <1>1, <2>2, <2>3, LocTransitive
  <2> QED
    BY <1>2, <2>4 DEF Intersect
<1>5. ~ OnRun(k, n)
  <2> SUFFICES ASSUME OnRun(k, n)
               PROVE  FALSE
    OBVIOUS
  <2>1. LocLeq(k.range.begin, Start(n)) /\ LocLeq(End(n), k.range.end)
    BY OnRunCovers DEF Covers
  <2>2. LocLeq(m.range.begin, End(n)) /\ LocLeq(k.range.begin, End(n))
    BY <1>1, <1>3, <2>1, LocTransitive
  <2>3. LocLeq(m.range.begin, k.range.end) /\ LocLeq(k.range.begin, m.range.end)
    BY <1>1, <1>3, <2>1, <2>2, LocTransitive
  <2> QED
    BY <1>2, <2>3 DEF Intersect
<1> QED
  BY <1>4, <1>5, Places

(* The metavariable that n is the next node of, or all nodes.              *)
Takes(m, n) == OnRun(m, n) \/ (Within(m, n) /\ Begins(m, n))

LEMMA TakesCovers ==
  ASSUME IInv, Given, OrderInv, HuntInv, NEW n \in Node, Searching(n),
         NEW m \in remainingMetavariables, Takes(m, n)
  PROVE  /\ Covers(m, n) /\ (m \in parsingMetavariable \/ Start(n) = m.range.begin)
         /\ ~ OnRun(m, n) => EndsAt(n, m.range.end)
<1>1. CASE OnRun(m, n)
  BY <1>1, OnRunCovers
<1>2. CASE Within(m, n) /\ Begins(m, n)
  <2>1. /\ m.range.begin = Start(n) /\ LocLeq(End(n), m.range.end)
        /\ LocLeq(m.range.end, End(n))
    BY <1>2, WithinLocations DEF Begins
  <2>2. /\ m.range.end \in Location /\ Start(n) \in Location /\ End(n) \in Location
    BY GivenTypes, SearchTypes
  <2>3. End(n) = m.range.end
    BY <2>1, <2>2, LocTotal DEF LocLess
  <2> QED
    BY <2>1, <2>2, <2>3, LocReflexive DEF Covers, EndsAt
<1> QED
  BY <1>1, <1>2 DEF Takes

LEMMA LaterNotBegun ==
  ASSUME IInv, Given, OrderInv, NEW n \in Node, Searching(n),
         NEW k \in remainingMetavariables, Later(k, n)
  PROVE  ~ Begins(k, n) /\ k \notin parsingMetavariable
<1>1. LocLess(End(n), k.range.begin) /\ k \notin parsingMetavariable
  BY SearchTypes DEF Later, Behind, End
<1>2. /\ Start(n) \in Location /\ End(n) \in Location /\ LocLeq(Start(n), End(n))
  BY SearchTypes
<1>3. Start(n) # k.range.begin
  BY <1>1, <1>2, LocTotal
<1> QED
  BY <1>1, <1>3 DEF Begins

LEMMA NoNameOnly ==
  ASSUME IInv, Given, NEW n \in Node
  PROVE  ~ IllegalNameOnly(n)
<1>1. Considered(n) \subseteq input.metavars
  BY GivenTypes DEF Considered
<1> QED
  BY <1>1 DEF IllegalNameOnly, Given, Clean

LEMMA CurrentTaken ==
  ASSUME IInv, Given, OrderInv, HuntInv, NEW n \in Node, Searching(n),
         NEW m \in remainingMetavariables, Takes(m, n)
  PROVE  Current(n) = {m}
<1>1. /\ m \in input.metavars /\ remainingMetavariables \subseteq input.metavars
      /\ parsingMetavariable \subseteq remainingMetavariables
      /\ m.range.end \in Location /\ m.range.begin \in Location
      /\ Start(n) \in Location /\ End(n) \in Location /\ LocLeq(Start(n), End(n))
  BY GivenTypes, SearchTypes
<1>2. /\ Covers(m, n)
      /\ m \in parsingMetavariable \/ Start(n) = m.range.begin
  BY TakesCovers
<1>3. \A k \in remainingMetavariables : k # m =>
        ~ Begins(k, n) /\ k \notin parsingMetavariable
  BY <1>2, OthersLater, LaterNotBegun
<1>4. Considered(n) \subseteq remainingMetavariables
  BY DEF Considered
<1>5. CASE Start(n) = m.range.begin
  <2>1. Begins(m, n)
    BY <1>2, <1>5 DEF Begins, Covers
  <2>2. OverlapsWith(m.range, tree.range[n])
    <3>1. LocLeq(Start(n), m.range.end)
      BY <1>1, <1>2, LocTransitive DEF Covers
    <3>2. ~ LocLess(m.range.end, Start(n))
      BY <1>1, <3>1, LocTotal
    <3> QED
      BY <3>2 DEF OverlapsWith, LocGeq, Start
  <2>3. ASSUME NEW b \in remainingMetavariables, OverlapsWith(b.range, tree.range[n]),
               MetavarPrecedes(b, m)
        PROVE  FALSE
    <3>1. b \in input.metavars /\ b.range.begin \in Location /\ b.range.end \in Location
      BY GivenTypes
    <3>2. b # m /\ LocLess(b.range.begin, m.range.begin)
      BY <1>1, <2>3, <3>1, PrecedesBegin
    <3>3. LocLeq(m.range.begin, b.range.end)
      <4>1. ~ LocLess(b.range.end, Start(n))
        BY <2>3 DEF OverlapsWith, LocGeq, Start
      <4> QED
        BY <4>1, <3>1, <1>1, <1>5, LocTotal
    <3>4. LocLeq(b.range.begin, m.range.end)
      <4>1. LocLeq(m.range.begin, m.range.end)
        BY <1>1, CleanValid
      <4> QED
        BY <4>1, <3>1, <3>2, <1>1, LocTransitive DEF LocLess
    <3> QED
      BY <1>1, <3>1, <3>2, <3>3, <3>4 DEF Intersect, Given, Clean
  <2>4. m \in Considered(n)
    BY <2>2, <2>3 DEF Considered
  <2>5. {k \in Considered(n) : Begins(k, n)} = {m}
    BY <2>1, <2>4, <1>3, <1>4
  <2>6. ~ MetavarPrecedes(m, m)
    BY <1>1, PrecedesBegin
  <2> QED
    BY <2>5, <2>6 DEF Current
<1>6. CASE Start(n) # m.range.begin
  <2>1. ~ Begins(m, n)
    BY <1>6 DEF Begins
  <2>2. {k \in Considered(n) : Begins(k, n)} = {}
    BY <2>1, <1>3, <1>4
  <2>3. parsingMetavariable = {m}
    BY <1>1, <1>2, <1>3, <1>6
  <2> QED
    BY <2>2, <2>3 DEF Current
<1> QED
  BY <1>5, <1>6

LEMMA CurrentNone ==
  ASSUME IInv, Given, OrderInv, HuntInv, NEW n \in Node, Searching(n),
         \A m \in remainingMetavariables : ~ Takes(m, n)
  PROVE  /\ Current(n) = {} /\ parsingMetavariable = {}
         /\ (\E k \in remainingMetavariables : Within(k, n))
              => SubtreesToSearch(n) = tree.kids[n]
<1>1. /\ remainingMetavariables \subseteq input.metavars
      /\ parsingMetavariable \subseteq remainingMetavariables
      /\ Start(n) \in Location /\ End(n) \in Location
      /\ \A m \in remainingMetavariables :
           m.range.begin \in Location /\ m.range.end \in Location
  BY GivenTypes, SearchTypes
<1>2. \A k \in remainingMetavariables :
        ~ Begins(k, n) /\ k \notin parsingMetavariable
  <2> SUFFICES ASSUME NEW k \in remainingMetavariables
               PROVE  ~ Begins(k, n) /\ k \notin parsingMetavariable
    OBVIOUS
  <2>1. Later(k, n) \/ (Within(k, n) /\ ~ Begins(k, n))
    BY Places DEF Takes
  <2> QED
    BY <2>1, LaterNotBegun DEF Within
<1>3. Considered(n) \subseteq remainingMetavariables
  BY DEF Considered
<1>4. parsingMetavariable = {} /\ Current(n) = {}
  <2>1. parsingMetavariable = {}
    BY <1>1, <1>2
  <2>2. {k \in Considered(n) : Begins(k, n)} = {}
    BY <1>2, <1>3
  <2> QED
    BY <2>1, <2>2 DEF Current
<1>5. ASSUME NEW k \in remainingMetavariables, Within(k, n)
      PROVE  SubtreesToSearch(n) = tree.kids[n]
  <2> DEFINE C == {b \in remainingMetavariables :
                     OverlapsWith(b.range, tree.range[n]) /\ Contains(n, b)}
  <2>1. k \in C
    <3>1. LocLeq(Start(n), k.range.begin) /\ LocLeq(k.range.end, End(n))
      BY <1>5, WithinLocations
    <3>2. LocLeq(Start(n), k.range.end)
      BY <1>1, <3>1, CleanValid, LocTransitive
    <3>3. ~ LocLess(k.range.end, Start(n)) /\ ~ LocLess(End(n), k.range.end)
      BY <1>1, <3>1, <3>2, LocTotal
    <3>4. OverlapsWith(k.range, tree.range[n]) /\ EnclosedIn(k.range, tree.range[n])
      BY <3>1, <3>3 DEF OverlapsWith, EnclosedIn, LocGeq, Start, End
    <3>5. Contains(n, k)
      BY <3>4, <1>2 DEF Contains
    <3> QED
      BY <3>4, <3>5
  <2>2. IsFiniteSet(C)
    <3>1. C \in SUBSET input.metavars /\ IsFiniteSet(input.metavars)
      BY <1>1 DEF Given, Clean
    <3> HIDE DEF C
    <3> QED
      BY <3>1, FS_Subset
  <2>3. PICK a \in C : \A b \in C : ~ LocLess(b.range.begin, a.range.begin)
    <3>1. \A m \in C : m.range.begin \in Location
      BY <1>1
    <3> HIDE DEF C
    <3> QED
      BY <3>1, <2>1, <2>2, FirstMetavariable
  <2>4. ASSUME NEW b \in remainingMetavariables, OverlapsWith(b.range, tree.range[n]),
               Contains(n, b) \/ Begins(b, n)
        PROVE  ~ MetavarPrecedes(b, a)
    <3>1. b \in C
      BY <2>4, <1>2
    <3>2. ~ LocLess(b.range.begin, a.range.begin)
      BY <3>1, <2>3
    <3>3. a \in input.metavars /\ b \in input.metavars
      BY <1>1
    <3> QED
      BY <3>2, <3>3, PrecedesBegin
  <2>5. /\ a \in remainingMetavariables
        /\ OverlapsWith(a.range, tree.range[n]) /\ Contains(n, a)
    BY <2>3
  <2> HIDE DEF C
  <2>6. a \in Considered(n)
    BY <2>4, <2>5 DEF Considered
  <2> QED
    BY <2>5, <2>6 DEF SubtreesToSearch
<1> QED
  BY <1>4, <1>5

(* A step of the second search that leads on to every metavariable left.   *)
LEMMA SearchHunt ==
  ASSUME HuntInv, rejectedFor' = rejectedFor, phase' \in {"queue", "metavariables"},
         \A m \in remainingMetavariables' : Hunted(m)'
  PROVE  HuntInv'
<1>1. rejectedFor' \notin MetavariableErrors
  BY DEF HuntInv
<1>2. phase' \notin {"start", "template"}
  OBVIOUS
<1> QED
  BY <1>1, <1>2 DEF HuntInv

LEMMA SearchesOn ==
  ASSUME IInv, Given, OrderInv, NEW n \in Node, Searching(n),
         NEW b \in Seq(Node), pending' = b \o Tail(pending), subtreeQueue' = subtreeQueue,
         phase' = phase
  PROVE  Line' = b \o Tail(Line)
<1>1. /\ phase = "metavariables" /\ pending # << >>
      /\ Tail(Line) = Tail(pending) \o subtreeQueue
  BY SearchTypes
<1>2. Tail(pending) \in Seq(Node) /\ subtreeQueue \in Seq(Node)
  BY <1>1, GivenTypes
<1>3. Line' = (b \o Tail(pending)) \o subtreeQueue
  BY <1>1 DEF Line
<1>4. (b \o Tail(pending)) \o subtreeQueue = b \o (Tail(pending) \o subtreeQueue)
  BY <1>2, ListFacts
<1> QED
  BY <1>1, <1>3, <1>4

LEMMA AddToMetavariableHunt ==
  ASSUME IInv, Given, OrderInv, HuntInv, NEW n \in Node, AddToMetavariable(n)
  PROVE  HuntInv'
<1>1. /\ Searching(n) /\ rejectedFor' = rejectedFor /\ phase' = phase
      /\ subtreeQueue' = subtreeQueue /\ tree' = tree
  BY SameTree DEF AddToMetavariable, GoOn, template
<1>2. PICK m \in Current(n) :
        /\ pending' = SubtreesBelow(m, n) \o Tail(pending)
        /\ IF Completes(m, n)
             THEN /\ remainingMetavariables' = remainingMetavariables \ {m}
                  /\ parsingMetavariable' = {}
             ELSE /\ parsingMetavariable' = {m}
                  /\ remainingMetavariables' = remainingMetavariables
  BY DEF AddToMetavariable
<1>3. m \in remainingMetavariables /\ Takes(m, n)
  <2>1. Current(n) # {}
    BY <1>2
  <2>2. PICK k \in remainingMetavariables : Takes(k, n)
    BY <1>1, <2>1, CurrentNone
  <2>3. Current(n) = {k}
    BY <1>1, <2>2, CurrentTaken
  <2> QED
    BY <1>2, <2>2, <2>3
<1>4. /\ tree \in Tree /\ InOrder(tree) /\ Enclosing(tree) /\ Line \in Seq(Node)
      /\ Line # << >> /\ Head(Line) = n /\ phase = "metavariables"
      /\ m \in input.metavars /\ remainingMetavariables \subseteq input.metavars
  BY <1>1, <1>3, GivenTypes, SearchTypes
<1>5. Line' = Tail(Line)
  <2>1. ~ m.nameOnly
    BY <1>4 DEF Given, Clean
  <2>2. pending' = << >> \o Tail(pending) /\ << >> \in Seq(Node)
    BY <1>2, <2>1 DEF SubtreesBelow
  <2>3. Line' = << >> \o Tail(Line)
    BY <1>1, <2>2, SearchesOn
  <2>4. Tail(Line) \in Seq(Node)
    BY <1>4
  <2> QED
    BY <2>3, <2>4, ListFacts
<1>6. Covers(m, n) /\ (~ OnRun(m, n) => EndsAt(n, m.range.end))
  BY <1>1, <1>3, TakesCovers
<1>7. ASSUME NEW k \in remainingMetavariables, k # m
      PROVE  Hunted(k)'
  <2>1. Later(k, n)
    BY <1>1, <1>3, <1>6, <1>7, OthersLater
  <2>2. PICK p \in Node : \E i, j \in DOMAIN tree.kids[p] :
          CleanRun(k, p, i, j) /\ Leads(tree, k.range.begin, Line, p, i, j)
    BY <2>1 DEF Later
  <2>3. PICK i \in DOMAIN tree.kids[p], j \in DOMAIN tree.kids[p] :
          CleanRun(k, p, i, j) /\ Leads(tree, k.range.begin, Line, p, i, j)
    BY <2>2
  <2>4. k.range \in TemplateRanges
    BY <1>4, GivenTypes
  <2>5. Leads(tree, k.range.begin, Tail(Line), p, i, j)
    BY <1>4, <2>1, <2>3, <2>4, LeadsBehind DEF Later, CleanRun
  <2>6. k \notin parsingMetavariable'
    BY <1>2, <1>7
  <2>7. OnItsWay(k, p, i, j)'
    BY <1>1, <1>5, <2>5, <2>6 DEF OnItsWay
  <2> QED
    BY <1>1, <2>3, <2>7 DEF Hunted, CleanRun, End
<1>8. ASSUME ~ EndsAt(n, m.range.end)
      PROVE  Hunted(m)'
  <2>1. parsingMetavariable' = {m}
    BY <1>2, <1>8 DEF Completes
  <2>2. PICK p \in Node : \E i, j \in DOMAIN tree.kids[p] : \E c \in i .. j :
          /\ CleanRun(m, p, i, j) /\ n = tree.kids[p][c]
          /\ Slice(tree, Line, 1, p, c, j)
    BY <1>6, <1>8 DEF OnRun
  <2>3. PICK i \in DOMAIN tree.kids[p], j \in DOMAIN tree.kids[p] : \E c \in i .. j :
          /\ CleanRun(m, p, i, j) /\ n = tree.kids[p][c]
          /\ Slice(tree, Line, 1, p, c, j)
    BY <2>2
  <2>4. PICK c \in i .. j : /\ CleanRun(m, p, i, j) /\ n = tree.kids[p][c]
                            /\ Slice(tree, Line, 1, p, c, j)
    BY <2>3
  <2>5. i \in Int /\ j \in Int
    BY <1>4 DEF Tree
  <2>6. c # j
    BY <1>8, <2>4 DEF CleanRun, EndsAt
  <2>7. c \in Int /\ c + 1 \in i .. j
    BY <2>5, <2>6
  <2>8. Slice(tree, Tail(Line), 1, p, c + 1, j)
    BY <1>4, <2>4, <2>5, <2>7, SliceTail
  <2>9. OnItsWay(m, p, i, j)'
    BY <1>1, <1>5, <2>1, <2>7, <2>8 DEF OnItsWay
  <2> QED
    BY <1>1, <2>4, <2>9 DEF Hunted, CleanRun, End
<1>9. \A k \in remainingMetavariables' : Hunted(k)'
  BY <1>2, <1>7, <1>8 DEF Completes
<1> QED
  BY <1>1, <1>4, <1>9, SearchHunt

LEMMA SearchSubtreesHunt ==
  ASSUME IInv, Given, OrderInv, HuntInv, NEW n \in Node, SearchSubtrees(n)
  PROVE  HuntInv'
<1>1. /\ Searching(n) /\ rejectedFor' = rejectedFor /\ phase' = phase
      /\ subtreeQueue' = subtreeQueue /\ tree' = tree
      /\ remainingMetavariables' = remainingMetavariables
      /\ parsingMetavariable' = parsingMetavariable
      /\ Current(n) = {} /\ pending' = SubtreesToSearch(n) \o Tail(pending)
  BY SameTree DEF SearchSubtrees, GoOn, template, binding
<1>2. \A m \in remainingMetavariables : ~ Takes(m, n)
  BY <1>1, CurrentTaken
<1>3. /\ parsingMetavariable = {}
      /\ (\E k \in remainingMetavariables : Within(k, n))
           => SubtreesToSearch(n) = tree.kids[n]
  BY <1>1, <1>2, CurrentNone
<1>4. /\ tree \in Tree /\ InOrder(tree) /\ Enclosing(tree) /\ IsTree(tree)
      /\ Line \in Seq(Node) /\ Line # << >> /\ Head(Line) = n
      /\ phase = "metavariables" /\ n \in tree.main
      /\ remainingMetavariables \subseteq input.metavars
  BY <1>1, GivenTypes, SearchTypes
<1>5. /\ SubtreesToSearch(n) \in {<< >>, tree.kids[n]}
      /\ SubtreesToSearch(n) \in Seq(Node) /\ Tail(Line) \in Seq(Node)
  BY <1>4 DEF SubtreesToSearch, Tree
<1>6. Line' = SubtreesToSearch(n) \o Tail(Line)
  BY <1>1, <1>5, SearchesOn
<1>7. ASSUME NEW k \in remainingMetavariables
      PROVE  Hunted(k)'
  <2>1. k.range \in TemplateRanges
    BY <1>4, GivenTypes
  <2>2. \E p \in Node : \E i, j \in DOMAIN tree.kids[p] :
          CleanRun(k, p, i, j) /\ Leads(tree, k.range.begin, Line', p, i, j)
    <3>1. CASE Later(k, n)
      <4>1. PICK p \in Node : \E i, j \in DOMAIN tree.kids[p] :
              CleanRun(k, p, i, j) /\ Leads(tree, k.range.begin, Line, p, i, j)
        BY <3>1 DEF Later
      <4>2. PICK i \in DOMAIN tree.kids[p], j \in DOMAIN tree.kids[p] :
              CleanRun(k, p, i, j) /\ Leads(tree, k.range.begin, Line, p, i, j)
        BY <4>1
      <4>3. RunOf(tree, k.range, p, i, j)
        BY <4>2 DEF CleanRun
      <4>4. Head(Line) \in tree.main /\ Behind(tree, Head(Line), k.range.begin)
        BY <1>4, <3>1 DEF Later
      <4>5. SubtreesToSearch(n) \in {<< >>, tree.kids[Head(Line)]}
        BY <1>4, <1>5
      <4>6. Leads(tree, k.range.begin, Line', p, i, j)
        BY <1>4, <1>6, <2>1, <4>2, <4>3, <4>4, <4>5, LeadsThrough
      <4> QED
        BY <4>2, <4>6
    <3>2. CASE Within(k, n)
      <4>1. PICK p \in Node : \E i, j \in DOMAIN tree.kids[p] :
              /\ CleanRun(k, p, i, j)
              /\ p \in Subtree(tree, n) /\ tree.root \notin Subtree(tree, n)
        BY <3>2 DEF Within
      <4>2. PICK i \in DOMAIN tree.kids[p], j \in DOMAIN tree.kids[p] :
              /\ CleanRun(k, p, i, j)
              /\ p \in Subtree(tree, n) /\ tree.root \notin Subtree(tree, n)
        BY <4>1
      <4>3. Line' = tree.kids[n] \o Tail(Line)
        BY <1>3, <1>6, <3>2
      <4>4. Leads(tree, k.range.begin, Line', p, i, j)
        BY <1>4, <1>5, <2>1, <4>2, <4>3, LeadsBelow DEF CleanRun
      <4> QED
        BY <4>2, <4>4
    <3> QED
      BY <1>1, <1>2, <3>1, <3>2, Places DEF Takes
  <2> QED
    BY <1>1, <1>3, <2>2 DEF Hunted, OnItsWay, CleanRun, End
<1> QED
  BY <1>1, <1>4, <1>7, SearchHunt

(* Nothing the search gives up for concerns such metavariables, and at its *)
(* end none of them is left.                                               *)
LEMMA TemplateThrowHunt ==
  ASSUME HuntInv, NEW why \in TemplateErrors, Throw(why)
  PROVE  HuntInv'
<1>1. /\ phase' = "rejected" /\ rejectedFor' = why
  BY DEF Throw
<1>2. rejectedFor' \notin MetavariableErrors
  BY <1>1 DEF TemplateErrors, MetavariableErrors
<1>3. phase' \notin {"start", "template"} /\ ~ Hunts'
  BY <1>1 DEF Hunts
<1> QED
  BY <1>1, <1>2, <1>3 DEF HuntInv

LEMMA NotRejected ==
  ASSUME IInv, Given, OrderInv, HuntInv, NEW n \in Node,
         RejectNameOnly(n) \/ RejectPartial(n)
  PROVE  FALSE
<1>1. RejectPartial(n)
  BY NoNameOnly DEF RejectNameOnly
<1>2. Searching(n)
  BY <1>1 DEF RejectPartial
<1>3. PICK m \in Current(n) : LocGreater(End(n), m.range.end)
  BY <1>1 DEF RejectPartial
<1>4. PICK k \in remainingMetavariables : Takes(k, n)
  BY <1>2, <1>3, CurrentNone
<1>5. m = k
  BY <1>2, <1>3, <1>4, CurrentTaken
<1>6. LocLeq(End(n), k.range.end)
  BY <1>2, <1>4, TakesCovers DEF Covers
<1> QED
  BY <1>3, <1>5, <1>6 DEF LocGreater

LEMMA QueueHunt ==
  ASSUME IInv, Given, OrderInv, HuntInv, TakeSubtree \/ SubtreeDone
  PROVE  HuntInv'
<1>1. /\ rejectedFor' = rejectedFor /\ tree' = tree /\ UNCHANGED binding
      /\ phase' \in {"queue", "metavariables"} /\ phase \in {"queue", "metavariables"}
  BY SameTree DEF TakeSubtree, SubtreeDone, GoOn
<1>2. subtreeQueue \in Seq(Node)
  BY GivenTypes
<1>3. Line' = Line
  <2>1. CASE TakeSubtree
    <3>1. /\ pending = << >> /\ subtreeQueue # << >>
          /\ pending' = <<Head(subtreeQueue)>> /\ subtreeQueue' = Tail(subtreeQueue)
      BY <2>1 DEF TakeSubtree, OrderInv
    <3>2. /\ Line = << >> \o subtreeQueue
          /\ Line' = <<Head(subtreeQueue)>> \o Tail(subtreeQueue)
      BY <1>1, <3>1 DEF Line
    <3> QED
      BY <1>2, <3>1, <3>2, ListFacts
  <2>2. CASE SubtreeDone
    BY <1>1, <2>2 DEF SubtreeDone, Line, template
  <2> QED
    BY <2>1, <2>2
<1>4. /\ remainingMetavariables' = remainingMetavariables
      /\ parsingMetavariable' = parsingMetavariable
  BY <1>1 DEF binding
<1>5. \A m \in remainingMetavariables : Hunted(m)
  BY <1>1 DEF HuntInv, Hunts
<1>6. \A m \in remainingMetavariables' : Hunted(m)'
  BY <1>1, <1>3, <1>4, <1>5 DEF Hunted, OnItsWay, CleanRun, End
<1> QED
  BY <1>1, <1>6, SearchHunt

LEMMA FinishHunt ==
  ASSUME IInv, Given, OrderInv, HuntInv, Finish
  PROVE  HuntInv'
<1>1. phase = "queue" /\ subtreeQueue = << >> /\ pending = << >>
  BY DEF Finish, OrderInv
<1>2. DOMAIN Line = {}
  <2>1. Line = << >> \o << >>
    BY <1>1 DEF Line
  <2> QED
    BY <2>1
<1>3. ASSUME NEW m \in remainingMetavariables
      PROVE  FALSE
  <2>1. Hunted(m)
    BY <1>1 DEF HuntInv, Hunts
  <2>2. PICK p \in Node : \E i, j \in DOMAIN tree.kids[p] : OnItsWay(m, p, i, j)
    BY <2>1 DEF Hunted
  <2>3. PICK i \in DOMAIN tree.kids[p], j \in DOMAIN tree.kids[p] : OnItsWay(m, p, i, j)
    BY <2>2
  <2>4. m \in parsingMetavariable /\ \E c \in i .. j : Slice(tree, Line, 1, p, c, j)
    BY <1>2, <2>3 DEF OnItsWay, Leads
  <2>5. PICK c \in i .. j : Slice(tree, Line, 1, p, c, j)
    BY <2>4
  <2>6. j \in Int /\ i \in Int
    BY GivenTypes DEF Tree
  <2>7. c \in c .. j
    BY <2>6
  <2> QED
    BY <1>2, <2>5, <2>7 DEF Slice
<1>4. phase' = "parsed" /\ rejectedFor' = rejectedFor
  BY <1>3 DEF Finish, GoOn
<1>5. phase' \notin {"start", "template"} /\ ~ Hunts'
  BY <1>4 DEF Hunts
<1> QED
  BY <1>4, <1>5 DEF HuntInv

LEMMA InitHunt ==
  ASSUME Init
  PROVE  HuntInv
<1>1. /\ phase = "start" /\ rejectedFor = "none" /\ parsingMetavariable = {}
      /\ templateConstructionBegan = FALSE
  BY DEF Init
<1>2. ~ templateConstructionBegan
  BY <1>1, Zenon
<1>3. rejectedFor \notin MetavariableErrors /\ ~ Hunts /\ phase # "template"
  BY <1>1 DEF MetavariableErrors, Hunts
<1> QED
  BY <1>1, <1>2, <1>3 DEF HuntInv

LEMMA NextHunt ==
  ASSUME IInv, OneFile => OrderInv /\ GapInv, Given => HuntInv, [Next]_vars
  PROVE  (Given => HuntInv)'
<1>1. tree' = tree /\ input' = input /\ templ' = templ
  BY InputKept DEF templ
<1>2. Given' <=> Given
  BY <1>1 DEF Given, InOneFile, OneFile, Clean, CleanRun, End
<1> SUFFICES ASSUME Given
             PROVE  HuntInv'
  BY <1>2
<1>3. HuntInv /\ OrderInv
  BY DEF Given
<1>4. ASSUME NEW n \in Node,
             \/ NoTemplate \/ Overshot(n) \/ PartialSpan(n) \/ NoSubtreeForStart(n)
             \/ WillPartiallySpan(n)
      PROVE  HuntInv'
  <2>1. \E why \in TemplateErrors : Throw(why)
    BY <1>4 DEF NoTemplate, Overshot, PartialSpan, NoSubtreeForStart,
                WillPartiallySpan, TemplateErrors
  <2> QED
    BY <2>1, <1>3, TemplateThrowHunt
<1>5. CASE CheckFileRange
  <2>1. CASE phase' = "rejected"
    <3>1. "file range" \in TemplateErrors /\ Throw("file range")
      BY <1>5, <2>1 DEF CheckFileRange, TemplateErrors
    <3> QED
      BY <3>1, <1>3, TemplateThrowHunt
  <2> QED
    BY <2>1, <1>3, <1>5, CheckFileRangeHunt
<1>6. CASE Finished \/ UNCHANGED vars
  <2>1. UNCHANGED vars
    BY <1>6 DEF Finished
  <2>2. /\ phase' = phase /\ rejectedFor' = rejectedFor /\ pending' = pending
        /\ templateConstructionBegan' = templateConstructionBegan
        /\ subtreeQueue' = subtreeQueue
        /\ remainingMetavariables' = remainingMetavariables
        /\ parsingMetavariable' = parsingMetavariable
    BY <2>1 DEF vars, template, binding
  <2>3. Line' = Line
    BY <2>2 DEF Line
  <2>4. ASSUME NEW m
        PROVE  Hunted(m)' <=> Hunted(m)
    BY <1>1, <2>2, <2>3 DEF Hunted, OnItsWay, CleanRun, End
  <2>5. ~ templateConstructionBegan' <=> ~ templateConstructionBegan
    BY <2>2, Zenon
  <2> QED
    BY <1>3, <2>2, <2>4, <2>5 DEF HuntInv, Hunts
<1>7. tree.root \in Node
  BY InputTypes DEF IInv
<1> QED
  BY <1>3, <1>4, <1>5, <1>6, <1>7, NotRejected, QueueHunt, FinishHunt,
     SkipSubtreeHunt, DescendHunt, AddTemplateSubtreeHunt, AddToMetavariableHunt,
     SearchSubtreesHunt DEF Next

(* In a file whose nodes follow one another or lie in one another,         *)
(* disjoint metavariables within the template, each standing for a run of  *)
(* whole siblings, are all parsed: the first search puts no node of theirs *)
(* out of the template, and the second, though it looks below a node only  *)
(* for one of those it finds there and has room for one it has begun,      *)
(* comes to the nodes of each of them in turn.                             *)
THEOREM CleanMetavariablesAreParsed ==
  Spec => [](IsTree(tree) /\ OneFile /\ Enclosing(tree) /\ WithinTemplate
               => CleanMetavariablesParsed)
<1>1. Init => /\ IInv /\ (OneFile => OrderInv /\ GapInv)
              /\ (Given => HuntInv)
  BY InitIInv, InitGap, InitHunt
<1>2. IInv /\ (OneFile => OrderInv /\ GapInv) /\ (Given => HuntInv) /\ [Next]_vars
        => (/\ IInv /\ (OneFile => OrderInv /\ GapInv)
            /\ (Given => HuntInv))'
  BY NextIInv, NextGap, NextHunt
<1>3. IInv /\ (Given => HuntInv)
        => (IsTree(tree) /\ OneFile /\ Enclosing(tree) /\ WithinTemplate
              => CleanMetavariablesParsed)
  <2> SUFFICES ASSUME IInv, Given => HuntInv, IsTree(tree), OneFile, Enclosing(tree),
                      WithinTemplate, CleanMetavariables(End)
               PROVE  rejectedFor \notin MetavariableErrors
    BY DEF CleanMetavariablesParsed
  <2>1. input \in Input
    BY DEF IInv
  <2>2. Clean
    BY <2>1, CleanFacts
  <2>3. Given
    BY <2>2 DEF Given, InOneFile, OneFile
  <2> QED
    BY <2>3 DEF HuntInv
<1> QED
  BY <1>1, <1>2, <1>3, PTL DEF Spec
-----------------------------------------------------------------------------
(* Where the matcher comes to.                                            *)

(* The nodes that were added for some metavariable.                        *)
IsGiven(n) == \E m \in input.metavars : n \in Bound(subtreesOf[m])

(* What the map holds: the nodes that were given to a metavariable, and    *)
(* special members of classes among these.                                 *)
MapInv ==
  \A k \in DOMAIN metavariables :
    \/ IsGiven(k)
    \/ metavariables[k] = Implicit /\ \E n \in Node : IsGiven(n) /\ k \in tree.special[n]

Known == Bound(pending) \cup Bound(subtreeQueue) \cup {n \in Node : IsGiven(n)}

ReachInv ==
  /\ MapInv
  /\ InTemplatePhase =>
       /\ subtreeQueue = templateSubtrees
       /\ \A m \in input.metavars : subtreesOf[m] = << >>
  /\ TemplateParsed => Known \subseteq Reachable

LEMMA ReachableFacts ==
  ASSUME IInv
  PROVE  /\ Reachable \subseteq Node
         /\ Bound(templateSubtrees) \subseteq Reachable
         /\ \A n \in Reachable : ~ Whole(n) => Bound(tree.kids[n]) \subseteq Reachable
         /\ \A V \in SUBSET Node : Opened(V) => Reachable \subseteq V
<1>1. /\ tree \in Tree /\ templateSubtrees \in Seq(Node)
      /\ \A n \in Node : tree.kids[n] \in Seq(Node)
  BY InputTypes DEF IInv, TemplateInv, Begun
<1>2. Reachable \subseteq Node
  BY DEF Reachable
<1>3. \A V \in SUBSET Node : Opened(V) => Reachable \subseteq V
  BY DEF Reachable
<1>4. ASSUME NEW k \in Node, \A V \in SUBSET Node : Opened(V) => k \in V
      PROVE  k \in Reachable
  BY <1>4 DEF Reachable
<1>5. Bound(templateSubtrees) \subseteq Reachable
  <2> SUFFICES ASSUME NEW i \in DOMAIN templateSubtrees
               PROVE  templateSubtrees[i] \in Reachable
    BY DEF Bound
  <2>1. templateSubtrees[i] \in Node
    BY <1>1
  <2>2. \A V \in SUBSET Node : Opened(V) => templateSubtrees[i] \in V
    BY DEF Opened
  <2> QED
    BY <2>1, <2>2, <1>4
<1>6. ASSUME NEW n \in Reachable, ~ Whole(n), NEW i \in DOMAIN tree.kids[n]
      PROVE  tree.kids[n][i] \in Reachable
  <2>1. tree.kids[n][i] \in Node
    BY <1>1, <1>2
  <2>2. \A V \in SUBSET Node : Opened(V) => tree.kids[n][i] \in V
    BY <1>3, <1>6 DEF Opened
  <2> QED
    BY <2>1, <2>2, <1>4
<1> QED
  BY <1>2, <1>3, <1>5, <1>6 DEF Bound

(* A step that binds nothing: all it has ahead must be reachable.          *)
LEMMA GoOnReach ==
  ASSUME ReachInv, input' = input, UNCHANGED binding,
         templateSubtrees' = templateSubtrees, ~ InTemplatePhase',
         TemplateParsed' => TemplateParsed,
         TemplateParsed => Bound(pending') \cup Bound(subtreeQueue') \subseteq Reachable
  PROVE  ReachInv'
<1>1. /\ tree' = tree /\ metavariables' = metavariables
      /\ subtreesOf' = subtreesOf
  BY SameTree DEF binding
<1>2. \A n : IsGiven(n)' <=> IsGiven(n)
  BY <1>1 DEF IsGiven, Bound
<1>3. MapInv'
  BY <1>1, <1>2 DEF ReachInv, MapInv
<1>4. Reachable' = Reachable
  BY <1>1 DEF Reachable, Opened, Whole
<1>5. TemplateParsed' => Known' \subseteq Reachable'
  <2>1. {n \in Node : IsGiven(n)}' = {n \in Node : IsGiven(n)}
    BY <1>2
  <2>2. /\ Bound(pending)' = Bound(pending')
        /\ Bound(subtreeQueue)' = Bound(subtreeQueue')
    BY DEF Bound
  <2> QED
    BY <2>1, <2>2, <1>4 DEF ReachInv, Known
<1> QED
  BY <1>3, <1>5 DEF ReachInv

LEMMA ThrowReach ==
  ASSUME ReachInv, NEW why, Throw(why)
  PROVE  ReachInv'
<1>1. /\ input' = input /\ UNCHANGED binding
      /\ templateSubtrees' = templateSubtrees /\ phase' = "rejected"
  BY DEF Throw, template
<1>2. ~ InTemplatePhase' /\ ~ TemplateParsed'
  BY <1>1 DEF InTemplatePhase, TemplateParsed
<1>3. MapInv' /\ ReachInv'
  <2>1. /\ tree' = tree /\ metavariables' = metavariables
        /\ subtreesOf' = subtreesOf
    BY <1>1, SameTree DEF binding
  <2>2. \A n : IsGiven(n)' <=> IsGiven(n)
    BY <1>1, <2>1 DEF IsGiven, Bound
  <2>3. MapInv'
    BY <2>1, <2>2 DEF ReachInv, MapInv
  <2> QED
    BY <2>3, <1>2 DEF ReachInv
<1> QED
  BY <1>3

(* While the template is searched for, nothing is bound.                   *)
LEMMA NothingGiven ==
  ASSUME ReachInv, InTemplatePhase
  PROVE  /\ \A n : ~ IsGiven(n)
         /\ DOMAIN metavariables = {}
<1>1. \A m \in input.metavars : Bound(subtreesOf[m]) = {}
  BY DEF ReachInv, Bound
<1>2. \A n : ~ IsGiven(n)
  BY <1>1 DEF IsGiven
<1> QED
  BY <1>2 DEF ReachInv, MapInv

LEMMA TemplatePhaseReach ==
  ASSUME ReachInv, InTemplatePhase, input' = input, UNCHANGED <<template, binding>>,
         phase' = "template"
  PROVE  ReachInv'
<1>1. /\ metavariables' = metavariables /\ subtreesOf' = subtreesOf
      /\ templateSubtrees' = templateSubtrees /\ subtreeQueue' = subtreeQueue
  BY DEF binding, template
<1>2. MapInv'
  BY <1>1, NothingGiven DEF MapInv
<1>3. ~ TemplateParsed'
  BY DEF TemplateParsed
<1> QED
  BY <1>1, <1>2, <1>3 DEF ReachInv

LEMMA AddTemplateSubtreeReach ==
  ASSUME IInv, IInv', ReachInv, NEW n \in Node, AddTemplateSubtree(n)
  PROVE  ReachInv'
<1>1. /\ input' = input /\ UNCHANGED binding /\ phase = "template"
      /\ templateSubtrees' = Append(templateSubtrees, n)
      /\ subtreeQueue' = Append(subtreeQueue, n)
      /\ \/ phase' = "queue" /\ pending' = << >>
         \/ phase' = "template"
  BY DEF AddTemplateSubtree, Visiting, GoOn
<1>2. InTemplatePhase
  BY <1>1 DEF InTemplatePhase
<1>3. metavariables' = metavariables /\ subtreesOf' = subtreesOf
  BY <1>1 DEF binding
<1>4. MapInv'
  BY <1>2, <1>3, NothingGiven DEF MapInv
<1>5. /\ subtreeQueue' = templateSubtrees'
      /\ \A m \in input'.metavars : subtreesOf'[m] = << >>
  BY <1>1, <1>2, <1>3 DEF ReachInv
<1>6. CASE phase' = "queue" /\ pending' = << >>
  <2>1. ~ InTemplatePhase'
    BY <1>6 DEF InTemplatePhase
  <2>2. Known' \subseteq Bound(subtreeQueue)'
    <3>1. \A n_1 : ~ IsGiven(n_1)'
      BY <1>5 DEF IsGiven, Bound
    <3>2. Bound(pending)' = {}
      BY <1>6 DEF Bound
    <3> QED
      BY <3>1, <3>2 DEF Known
  <2>3. Bound(templateSubtrees)' \subseteq Reachable'
    <3>1. templateSubtrees' \in Seq(Node)
      BY DEF IInv, TemplateInv, Begun
    <3>2. \A i \in DOMAIN templateSubtrees' : templateSubtrees'[i] \in Node
      BY <3>1
    <3> QED
      BY <3>2 DEF Bound, Reachable, Opened
  <2> QED
    BY <1>4, <1>5, <2>1, <2>2, <2>3 DEF ReachInv, Bound
<1>7. CASE phase' = "template"
  <2>1. ~ TemplateParsed'
    BY <1>7 DEF TemplateParsed
  <2> QED
    BY <1>4, <1>5, <2>1 DEF ReachInv
<1> QED
  BY <1>1, <1>6, <1>7

LEMMA QueueReach ==
  ASSUME IInv, ReachInv, \/ TakeSubtree \/ SubtreeDone
                         \/ Finish /\ remainingMetavariables = {}
  PROVE  ReachInv'
<1>1. /\ input' = input /\ UNCHANGED binding
      /\ templateSubtrees' = templateSubtrees
      /\ phase \in {"queue", "metavariables"}
      /\ phase' \in {"queue", "metavariables", "parsed"}
  BY DEF TakeSubtree, SubtreeDone, Finish, GoOn, template
<1>2. TemplateParsed /\ TemplateParsed' /\ ~ InTemplatePhase'
  BY <1>1 DEF TemplateParsed, InTemplatePhase
<1>3. Bound(pending) \cup Bound(subtreeQueue) \subseteq Reachable
  BY <1>2 DEF ReachInv, Known
<1>4. Bound(pending') \cup Bound(subtreeQueue') \subseteq Reachable
  <2>1. CASE TakeSubtree
    <3>1. /\ subtreeQueue \in Seq(Node) /\ subtreeQueue # << >>
          /\ pending' = <<Head(subtreeQueue)>> /\ subtreeQueue' = Tail(subtreeQueue)
      BY <2>1 DEF TakeSubtree, IInv, StateInv
    <3>2. Head(subtreeQueue) \in Node
      BY <3>1, SequenceFacts
    <3> QED
      BY <3>1, <3>2, <1>3, BoundFacts
  <2>2. CASE ~ TakeSubtree
    <3>1. pending' = pending /\ subtreeQueue' = subtreeQueue
      BY <2>2 DEF SubtreeDone, Finish, GoOn, template
    <3> QED
      BY <3>1, <1>3
  <2> QED
    BY <2>1, <2>2
<1> QED
  BY <1>1, <1>2, <1>4, GoOnReach

(* A node that is ahead does not map to a metavariable for whole subtrees. *)
LEMMA AheadNotWhole ==
  ASSUME IInv, TreeInv, ReachInv, pending # << >>
  PROVE  ~ Whole(Head(pending)) /\ ~ IsGiven(Head(pending))
<1> DEFINE n == Head(pending)
<1>1. tree \in Tree /\ pending \in Seq(Node) /\ n \in Node
  BY InputTypes, SequenceFacts DEF IInv, StateInv
<1>2. n \in Ahead
  <2>1. n \in Subtree(tree, n)
    BY <1>1, SubtreeFacts
  <2>2. Subtree(tree, n) \subseteq Reach(tree, pending)
    BY <1>1, ReachTail DEF TreeInv, TraversalInv
  <2> QED
    BY <2>1, <2>2 DEF Ahead
<1>3. ~ IsGiven(n)
  BY <1>2 DEF TreeInv, BehindInv, IsGiven
<1>4. n \in DOMAIN metavariables => metavariables[n] = Implicit
  BY <1>3 DEF ReachInv, MapInv
<1> QED
  BY <1>3, <1>4 DEF Whole, Implicit

LEMMA SearchSubtreesReach ==
  ASSUME IInv, TreeInv, ReachInv, NEW n \in Node, SearchSubtrees(n)
  PROVE  ReachInv'
<1>1. /\ input' = input /\ UNCHANGED binding /\ phase' = phase
      /\ templateSubtrees' = templateSubtrees /\ subtreeQueue' = subtreeQueue
      /\ phase = "metavariables" /\ pending # << >> /\ n = Head(pending)
      /\ pending' = SubtreesToSearch(n) \o Tail(pending)
  BY DEF SearchSubtrees, Searching, GoOn, template
<1>2. TemplateParsed /\ ~ InTemplatePhase'
  BY <1>1 DEF TemplateParsed, InTemplatePhase
<1>3. Bound(pending) \cup Bound(subtreeQueue) \subseteq Reachable
  BY <1>2 DEF ReachInv, Known
<1>4. /\ pending \in Seq(Node) /\ Tail(pending) \in Seq(Node)
      /\ SubtreesToSearch(n) \in Seq(Node)
      /\ SubtreesToSearch(n) \in {<< >>, tree.kids[n]}
  <2>1. /\ pending \in Seq(Node) /\ Tail(pending) \in Seq(Node)
    BY <1>1, SequenceFacts DEF IInv, StateInv
  <2>2. SubtreesToSearch(n) \in Seq(Node)
    BY SubtreesToSearchType DEF IInv
  <2>3. SubtreesToSearch(n) \in {<< >>, tree.kids[n]}
    BY DEF SubtreesToSearch
  <2> QED
    BY <2>1, <2>2, <2>3
<1>5. Bound(pending) = {n} \cup Bound(Tail(pending))
  BY <1>1, <1>4, BoundFacts
<1>6. Bound(SubtreesToSearch(n)) \subseteq Reachable
  BY <1>1, <1>3, <1>4, <1>5, AheadNotWhole, ReachableFacts, BoundFacts
<1>7. Bound(pending') \subseteq Reachable
  BY <1>1, <1>3, <1>4, <1>5, <1>6, BoundConcat
<1> QED
  BY <1>1, <1>2, <1>3, <1>7, GoOnReach

(* What is known lies in no subtree of a child of the node to be searched. *)
LEMMA KnownApart ==
  ASSUME IInv, IsTree(tree), TreeInv, pending # << >>
  PROVE  Known \cap Reach(tree, tree.kids[Head(pending)]) = {}
<1> DEFINE n == Head(pending)
           B == Reach(tree, tree.kids[n])
<1>1. /\ tree \in Tree /\ pending \in Seq(Node) /\ n \in Node
      /\ subtreeQueue \in Seq(Node) /\ Tail(pending) \in Seq(Node)
  BY InputTypes, SequenceFacts DEF IInv, StateInv
<1>2. /\ Subtree(tree, n) \subseteq Reach(tree, pending)
      /\ Subtree(tree, n) \cap Reach(tree, Tail(pending)) = {}
      /\ Reach(tree, pending) \cap Reach(tree, subtreeQueue) = {}
  BY <1>1, ReachTail DEF TreeInv, TraversalInv
<1>3. B \subseteq Subtree(tree, n) \ {n}
  BY <1>1, ReachKids
<1> HIDE DEF B, n
<1>4. \A s \in Seq(Node) : Bound(s) \subseteq Reach(tree, s)
  <2> SUFFICES ASSUME NEW s \in Seq(Node), NEW i \in DOMAIN s
               PROVE  s[i] \in Reach(tree, s)
    BY DEF Bound
  <2>1. s[i] \in Node
    OBVIOUS
  <2> QED
    BY <2>1, <1>1, SubtreeFacts, ReachOf
<1>5. Bound(pending) = {n} \cup Bound(Tail(pending))
  BY <1>1, BoundFacts DEF n
<1>6. Bound(pending) \cap B = {}
  BY <1>1, <1>2, <1>3, <1>4, <1>5
<1>7. Bound(subtreeQueue) \cap B = {}
  BY <1>1, <1>2, <1>3, <1>4
<1>8. \A k : IsGiven(k) => k \notin B
  BY <1>2, <1>3 DEF TreeInv, BehindInv, IsGiven, Ahead
<1> QED
  BY <1>6, <1>7, <1>8 DEF Known, B, n

LEMMA AddToMetavariableReach ==
  ASSUME IInv, IsTree(tree), TreeInv, ReachInv, NEW n \in Node, AddToMetavariable(n)
  PROVE  ReachInv'
<1>1. PICK m \in Current(n) :
        /\ metavariables' = AddMetavariable(m, n)
        /\ subtreesOf' = [subtreesOf EXCEPT ![m] = Append(@, n)]
        /\ pending' = SubtreesBelow(m, n) \o Tail(pending)
  BY DEF AddToMetavariable
<1>2. /\ pending # << >> /\ input' = input /\ tree' = tree
      /\ subtreeQueue' = subtreeQueue /\ templateSubtrees' = templateSubtrees
      /\ phase = "metavariables" /\ phase' = phase /\ n = Head(pending)
  BY SameTree DEF AddToMetavariable, Searching, GoOn, template
<1>3. m \in input.metavars
  BY CurrentIsBegun
<1>4. /\ tree \in Tree /\ pending \in Seq(Node) /\ Tail(pending) \in Seq(Node)
      /\ subtreesOf \in [input.metavars -> Seq(Node)]
      /\ DOMAIN metavariables \subseteq Node /\ tree.special[n] \subseteq Node
      /\ tree.kids[n] \in Seq(Node)
  BY <1>2, InputTypes, SequenceFacts DEF IInv, StateInv, BindingInv, BindingTypes
<1>5. ~ Whole(n) /\ ~ IsGiven(n)
  BY <1>2, AheadNotWhole
<1>6. TemplateParsed /\ ~ InTemplatePhase'
  BY <1>2 DEF TemplateParsed, InTemplatePhase
<1>7. Known \subseteq Reachable
  BY <1>6 DEF ReachInv
<1>8. \A k : IsGiven(k)' <=> IsGiven(k) \/ k = n
  <2>1. /\ subtreesOf'[m] = Append(subtreesOf[m], n) /\ subtreesOf[m] \in Seq(Node)
        /\ \A o \in input.metavars : o # m => subtreesOf'[o] = subtreesOf[o]
    BY <1>1, <1>3, <1>4
  <2>2. Bound(subtreesOf'[m]) = Bound(subtreesOf[m]) \cup {n}
    BY <2>1, BoundFacts
  <2>3. ASSUME NEW k, IsGiven(k)'
        PROVE  IsGiven(k) \/ k = n
    <3>1. PICK o \in input.metavars : k \in Bound(subtreesOf'[o])
      BY <2>3, <1>2 DEF IsGiven, Bound
    <3> QED
      BY <3>1, <2>1, <2>2 DEF IsGiven
  <2>4. ASSUME NEW k, IsGiven(k) \/ k = n
        PROVE  IsGiven(k)'
    <3>1. \E o \in input.metavars : k \in Bound(subtreesOf'[o])
      BY <2>4, <2>1, <2>2, <1>3 DEF IsGiven
    <3> QED
      BY <3>1, <1>2 DEF IsGiven, Bound
  <2> QED
    BY <2>3, <2>4
<1>9. /\ DOMAIN metavariables' = DOMAIN metavariables \cup {n} \cup tree.special[n]
      /\ metavariables'[n] = [identifier |-> m.identifier, nameOnly |-> m.nameOnly]
      /\ \A k \in DOMAIN metavariables : k # n => metavariables'[k] = metavariables[k]
      /\ \A k \in tree.special[n] :
           (k # n /\ k \notin DOMAIN metavariables) => metavariables'[k] = Implicit
  BY <1>1 DEF AddMetavariable
<1>10. MapInv'
  <2> SUFFICES ASSUME NEW k \in DOMAIN metavariables'
               PROVE  \/ IsGiven(k)'
                      \/ /\ metavariables'[k] = Implicit
                         /\ \E l \in Node : IsGiven(l)' /\ k \in tree.special[l]
    BY <1>2 DEF MapInv
  <2>1. CASE k = n
    BY <2>1, <1>8
  <2>2. CASE k # n /\ k \in DOMAIN metavariables
    BY <2>2, <1>8, <1>9 DEF ReachInv, MapInv
  <2>3. CASE k # n /\ k \notin DOMAIN metavariables
    <3>1. k \in tree.special[n]
      BY <2>3, <1>9
    <3> QED
      BY <3>1, <2>3, <1>8, <1>9
  <2> QED
    BY <2>1, <2>2, <2>3
<1>11. /\ \A k \in Node : k # n => (Whole(k)' => Whole(k))
       /\ \A k \in Node : k # n => (Whole(k) => Whole(k)')
       /\ m.nameOnly => ~ Whole(n)'
  <2>1. ASSUME NEW k \in Node, k # n, Whole(k)'
        PROVE  Whole(k)
    <3>1. k \in DOMAIN metavariables' /\ ~ metavariables'[k].nameOnly
      BY <2>1 DEF Whole
    <3>2. k \in DOMAIN metavariables
      <4> SUFFICES ASSUME k \notin DOMAIN metavariables
                   PROVE  FALSE
        OBVIOUS
      <4>1. metavariables'[k] = Implicit
        BY <3>1, <2>1, <1>9
      <4> QED
        BY <3>1, <4>1 DEF Implicit
    <3>3. metavariables'[k] = metavariables[k]
      BY <3>2, <2>1, <1>9
    <3> QED
      BY <3>1, <3>2, <3>3, Zenon DEF Whole
  <2>2. ASSUME NEW k \in Node, k # n, Whole(k)
        PROVE  Whole(k)'
    <3>1. k \in DOMAIN metavariables /\ ~ metavariables[k].nameOnly
      BY <2>2 DEF Whole
    <3>2. metavariables'[k] = metavariables[k] /\ k \in DOMAIN metavariables'
      BY <3>1, <2>2, <1>9
    <3> QED
      BY <3>1, <3>2, Zenon DEF Whole
  <2>3. ASSUME m.nameOnly
        PROVE  ~ Whole(n)'
    <3>1. metavariables'[n].nameOnly = m.nameOnly
      BY <1>9
    <3> QED
      BY <3>1, <2>3, Zenon DEF Whole
  <2> QED
    BY <2>1, <2>2, <2>3
<1>12. /\ Bound(pending) = {n} \cup Bound(Tail(pending))
       /\ m.nameOnly => SubtreesBelow(m, n) \in {<< >>, tree.kids[n]}
       /\ ~ m.nameOnly => SubtreesBelow(m, n) = << >>
  BY <1>2, <1>4, BoundFacts DEF SubtreesBelow, SubtreesToSearch
<1>13. /\ Bound(pending') \subseteq Bound(Tail(pending)) \cup Bound(tree.kids[n])
       /\ ~ m.nameOnly => Bound(pending') \subseteq Bound(Tail(pending))
  <2>1. SubtreesBelow(m, n) \in {<< >>, tree.kids[n]}
    BY <1>12
  <2>2. SubtreesBelow(m, n) \in Seq(Node)
    <3>1. << >> \in Seq(Node)
      OBVIOUS
    <3> QED
      BY <3>1, <2>1, <1>4
  <2>3. Bound(pending') = Bound(SubtreesBelow(m, n)) \cup Bound(Tail(pending))
    BY <2>2, <1>1, <1>4, BoundConcat
  <2> QED
    BY <2>1, <2>3, <1>12, BoundFacts
<1> DEFINE B == Reach(tree, tree.kids[n])
<1>14. ASSUME NEW V \in SUBSET Node, Opened(V)'
       PROVE  /\ Known \subseteq V
              /\ m.nameOnly => Bound(tree.kids[n]) \subseteq V
  <2>1. /\ \A i \in DOMAIN templateSubtrees : templateSubtrees[i] \in V
        /\ \A k \in V : ~ Whole(k)' =>
             \A i \in DOMAIN tree.kids[k] : tree.kids[k][i] \in V
    BY <1>14, <1>2 DEF Opened
  <2>2. CASE m.nameOnly
    <3>1. \A k \in V : ~ Whole(k) => ~ Whole(k)'
      BY <2>2, <1>11
    <3>2. Opened(V)
      BY <2>1, <3>1 DEF Opened
    <3>3. Known \subseteq V
      BY <3>2, <1>7, ReachableFacts
    <3>4. n \in V
      BY <3>3, <1>12 DEF Known
    <3> QED
      BY <3>3, <3>4, <2>1, <2>2, <1>11 DEF Bound
  <2>3. CASE ~ m.nameOnly
    <3> DEFINE U == V \cup B
    <3>1. /\ B \subseteq Node /\ Closed(tree, B)
          /\ \A i \in DOMAIN tree.kids[n] : tree.kids[n][i] \in B
      <4>1. \A i \in DOMAIN tree.kids[n] : tree.kids[n][i] \in Node
        BY <1>4
      <4> QED
        BY <4>1, <1>4, SubtreeFacts DEF Reach, Closed
    <3> HIDE DEF B
    <3>2. ASSUME NEW k \in U, ~ Whole(k), NEW i \in DOMAIN tree.kids[k]
          PROVE  tree.kids[k][i] \in U
      <4>1. CASE k \in B
        BY <4>1, <3>1 DEF Closed
      <4>2. CASE k = n
        BY <4>2, <3>1
      <4>3. CASE k \in V /\ k # n
        <5>1. ~ Whole(k)'
          BY <4>3, <3>2, <1>11
        <5> QED
          BY <5>1, <4>3, <2>1
      <4> QED
        BY <4>1, <4>2, <4>3
    <3>3. Opened(U) /\ U \in SUBSET Node
      BY <2>1, <3>1, <3>2 DEF Opened
    <3>4. Known \subseteq U
      BY <3>3, <1>7, ReachableFacts
    <3>5. Known \cap B = {}
      BY <1>2, KnownApart DEF B
    <3> QED
      BY <3>4, <3>5, <2>3
  <2> QED
    BY <2>2, <2>3
<1> HIDE DEF B
<1>15. Known' \subseteq Node
  <2>1. Bound(pending') \subseteq Node
    BY <1>4, <1>13, BoundFacts
  <2>2. Bound(subtreeQueue) \subseteq Node
    BY BoundFacts DEF IInv, StateInv
  <2> QED
    BY <2>1, <2>2, <1>2 DEF Known, Bound
<1>16. \A k \in Known' : \/ k \in Known
                         \/ m.nameOnly /\ k \in Bound(tree.kids[n])
  <2>1. n \in Known
    BY <1>12 DEF Known
  <2>2. ASSUME NEW k \in Node, IsGiven(k)'
        PROVE  k \in Known
    BY <2>1, <2>2, <1>8 DEF Known
  <2>3. Known' = Bound(pending') \cup Bound(subtreeQueue) \cup {k \in Node : IsGiven(k)'}
    BY <1>2 DEF Known, Bound
  <2>4. Bound(Tail(pending)) \cup Bound(subtreeQueue) \subseteq Known
    BY <1>12 DEF Known
  <2> QED
    BY <2>2, <2>3, <2>4, <1>13
<1>17. Known' \subseteq Reachable'
  <2> SUFFICES ASSUME NEW k \in Known'
               PROVE  k \in Reachable'
    OBVIOUS
  <2>1. \A V \in SUBSET Node : Opened(V)' => k \in V
    BY <1>14, <1>16
  <2>2. k \in Node
    BY <1>15
  <2> QED
    BY <2>1, <2>2 DEF Reachable
<1> QED
  BY <1>6, <1>10, <1>17 DEF ReachInv

LEMMA InitReach ==
  ASSUME Init
  PROVE  ReachInv
<1>1. /\ phase = "start" /\ templateSubtrees = << >> /\ subtreeQueue = << >>
      /\ \A m \in input.metavars : subtreesOf[m] = << >>
      /\ DOMAIN metavariables = {}
  BY DEF Init
<1> QED
  BY <1>1 DEF ReachInv, MapInv, TemplateParsed

LEMMA NextReach ==
  ASSUME IInv, IInv', IsTree(tree) => TreeInv /\ ReachInv, [Next]_vars
  PROVE  (IsTree(tree) => ReachInv)'
<1>1. tree' = tree /\ input' = input
  BY InputKept
<1> SUFFICES ASSUME IsTree(tree), TreeInv, ReachInv
             PROVE  ReachInv'
  BY <1>1
<1>2. ASSUME NEW n \in Node, GivesUp(n)
      PROVE  ReachInv'
  BY <1>2, GivesUpThrows, ThrowReach
<1>3. CASE NoTemplate
  <2>1. tree.root \in Node /\ GivesUp(tree.root)
    BY <1>3, InputTypes DEF GivesUp, IInv
  <2> QED
    BY <2>1, <1>2
<1>4. CASE Finished \/ UNCHANGED vars
  <2>1. /\ phase' = phase /\ pending' = pending /\ subtreeQueue' = subtreeQueue
        /\ templateSubtrees' = templateSubtrees
        /\ metavariables' = metavariables /\ subtreesOf' = subtreesOf
    BY <1>4 DEF Finished, vars, template, binding
  <2>2. \A k : IsGiven(k)' <=> IsGiven(k)
    BY <2>1, <1>1 DEF IsGiven, Bound
  <2>3. Reachable' = Reachable
    BY <2>1, <1>1 DEF Reachable, Opened, Whole
  <2>4. Known' = Known
    BY <2>1, <2>2 DEF Known, Bound
  <2>5. MapInv'
    BY <2>1, <2>2, <1>1 DEF ReachInv, MapInv
  <2> QED
    BY <2>1, <2>3, <2>4, <2>5, <1>1 DEF ReachInv, InTemplatePhase, TemplateParsed
<1>5. CASE CheckFileRange
  <2>1. CASE EnclosedIn(templ, tree.fileRange)
    <3>1. /\ input' = input /\ UNCHANGED <<template, binding>>
          /\ phase = "start" /\ phase' = "template"
      BY <1>5, <2>1 DEF CheckFileRange, GoOn
    <3> QED
      BY <3>1, TemplatePhaseReach DEF InTemplatePhase
  <2>2. CASE ~ EnclosedIn(templ, tree.fileRange)
    BY <1>5, <2>2, ThrowReach DEF CheckFileRange
  <2> QED
    BY <2>1, <2>2
<1>6. ASSUME NEW n \in Node, SkipSubtree(n) \/ Descend(n)
      PROVE  ReachInv'
  <2>1. /\ input' = input /\ UNCHANGED <<template, binding>>
        /\ phase = "template" /\ phase' = "template"
    BY <1>6 DEF SkipSubtree, Descend, Visiting, GoOn
  <2> QED
    BY <2>1, TemplatePhaseReach DEF InTemplatePhase
<1>7. CASE Finish
  BY <1>7, QueueReach, ThrowReach DEF Finish
<1> QED
  BY <1>2, <1>3, <1>4, <1>5, <1>6, <1>7, AddTemplateSubtreeReach, QueueReach,
     AddToMetavariableReach, SearchSubtreesReach DEF Next, GivesUp

(* In a tree, every node that is given to a metavariable is one the matcher*)
(* comes to: each closed set of nodes contains what is ahead and what is   *)
(* given.                                                                  *)
THEOREM ReachInvariance == Spec => [](IInv /\ (IsTree(tree) => TreeInv /\ ReachInv))
<1>1. Init => IInv /\ (IsTree(tree) => TreeInv /\ ReachInv)
  BY InitIInv, InitTree, InitReach
<1>2. IInv /\ (IsTree(tree) => TreeInv /\ ReachInv) /\ [Next]_vars
        => (IInv /\ (IsTree(tree) => TreeInv /\ ReachInv))'
  <2> SUFFICES ASSUME IInv, IsTree(tree) => TreeInv /\ ReachInv, [Next]_vars
               PROVE  (IInv /\ (IsTree(tree) => TreeInv /\ ReachInv))'
    OBVIOUS
  <2>1. IInv'
    BY NextIInv
  <2>2. (IsTree(tree) => TreeInv)'
    BY NextTree
  <2>3. (IsTree(tree) => ReachInv)'
    BY <2>1, NextReach
  <2> QED
    BY <2>1, <2>2, <2>3
<1> QED
  BY <1>1, <1>2, PTL DEF Spec

(* In a tree, every node that is given to a metavariable is one that the   *)
(* matcher comes to: the second search never goes below what stands for a  *)
(* whole subtree, be that nested in name-only ones, begun before or after. *)
THEOREM BoundAreMet == Spec => [](IsTree(tree) => BoundAreReachable)
<1>1. IInv /\ (IsTree(tree) => TreeInv /\ ReachInv)
        => (IsTree(tree) => BoundAreReachable)
  <2> SUFFICES ASSUME IInv, ReachInv, phase = "parsed", NEW m \in input.metavars
               PROVE  Bound(subtreesOf[m]) \subseteq Reachable
    BY DEF BoundAreReachable
  <2>1. Known \subseteq Reachable
    BY DEF ReachInv, TemplateParsed
  <2>2. Bound(subtreesOf[m]) \subseteq Node
    BY BoundFacts DEF IInv, BindingInv, BindingTypes
  <2> QED
    BY <2>1, <2>2 DEF Known, IsGiven
<1> QED
  BY <1>1, ReachInvariance, PTL
-----------------------------------------------------------------------------
(* The parser's template in the hands of the matcher.                      *)

(* What the matcher compares nodes by.                                     *)
CONSTANTS Name, Detail

Matcher == INSTANCE MatchAST WITH
  Identifier <- Identifier \cup {Implicit.identifier}, Inputs <- {},
  trav <- << >>, backtracked <- FALSE, potentials <- {}

(* The matcher is given the parser's subtrees and map.                     *)
HandedOver(in) ==
  /\ in.subtrees = templateSubtrees
  /\ \A n \in Node :
       in.metas[n] = IF n \in DOMAIN metavariables THEN {metavariables[n]} ELSE {}

ChildIn(in, k, p) ==
  \E i \in DOMAIN Matcher!KidsIn(in, p) : Matcher!KidsIn(in, p)[i] = k

TreeOf(in) == [tree EXCEPT !.kids = [n \in Node |-> Matcher!KidsIn(in, n)]]

(* Both walk the same file: a child that the visitor gives a node is one   *)
(* for getChildren too, or a child of the virtual node that this puts      *)
(* between a function and its parameters; the special members of a class   *)
(* are among its children.                                                 *)
SameFile(in, virtual) ==
  /\ IsTree(TreeOf(in))
  /\ \A p \in Node :
       /\ \A i \in DOMAIN tree.kids[p] :
            LET k == tree.kids[p][i]
            IN  /\ k \notin virtual
                /\ \/ ChildIn(in, k, p)
                   \/ \E v \in virtual : ChildIn(in, v, p) /\ ChildIn(in, k, v)
       /\ \A k \in tree.special[p] : k \notin virtual /\ ChildIn(in, k, p)

(* No metavariable stands for a whole class that has special members.      *)
NoWholeClass == \A n \in Node : Whole(n) => tree.special[n] = {}

LEMMA KidsAreNodes ==
  ASSUME NEW in \in Matcher!Input, NEW n \in Node
  PROVE  Matcher!KidsIn(in, n) \in Seq(Node)
<1>1. in.parts[n] \in Matcher!Parts
  BY DEF Matcher!Input
<1> DEFINE parts == in.parts[n]
<1>2. /\ parts.children \in Seq(Node) /\ parts.decls \in Seq(Node)
      /\ parts.params \in Seq(Node) /\ parts.body \in Seq(Node)
      /\ parts.init \in Seq(Node) /\ << >> \in Seq(Node)
  BY <1>1 DEF Matcher!Parts
<1>3. parts.params \o parts.body \in Seq(Node)
  BY <1>2
<1> HIDE DEF parts
<1>4. \A kind : Matcher!GetChildren(kind, parts) \in Seq(Node)
  BY <1>2, <1>3 DEF Matcher!GetChildren
<1> QED
  BY <1>4 DEF Matcher!KidsIn, parts

LEMMA TreeOfFacts ==
  ASSUME input \in Input, NEW in \in Matcher!Input
  PROVE  /\ TreeOf(in) \in Tree
         /\ \A n \in Node : TreeOf(in).kids[n] = Matcher!KidsIn(in, n)
<1>1. tree \in Tree
  BY InputTypes
<1>2. [n \in Node |-> Matcher!KidsIn(in, n)] \in [Node -> Seq(Node)]
  BY KidsAreNodes
<1>3. TreeOf(in) \in Tree
  BY <1>1, <1>2 DEF TreeOf, Tree
<1>4. TreeOf(in).kids = [n \in Node |-> Matcher!KidsIn(in, n)]
  BY <1>1 DEF TreeOf, Tree
<1> QED
  BY <1>3, <1>4

LEMMA MatcherReached ==
  ASSUME input \in Input, NEW in \in Matcher!Input
  PROVE  /\ Matcher!Reached(in) \subseteq Node
         /\ \A n \in Matcher!Reached(in) :
              (\A m \in in.metas[n] : m.nameOnly) =>
                \A k \in Node : ChildIn(in, k, n) => k \in Matcher!Reached(in)
         /\ \A V \in SUBSET Node :
              (/\ \A i \in DOMAIN in.subtrees : in.subtrees[i] \in V
               /\ Matcher!ClosedIn(in, V)) => Matcher!Reached(in) \subseteq V
         /\ \A k \in Node :
              (\A V \in SUBSET Node :
                 (/\ \A i \in DOMAIN in.subtrees : in.subtrees[i] \in V
                  /\ Matcher!ClosedIn(in, V)) => k \in V)
              => k \in Matcher!Reached(in)
<1>1. Matcher!Reached(in) \subseteq Node
  BY DEF Matcher!Reached
<1>2. \A V \in SUBSET Node :
        (/\ \A i \in DOMAIN in.subtrees : in.subtrees[i] \in V
         /\ Matcher!ClosedIn(in, V)) => Matcher!Reached(in) \subseteq V
  BY DEF Matcher!Reached
<1>3. \A k \in Node :
        (\A V \in SUBSET Node :
           (/\ \A i \in DOMAIN in.subtrees : in.subtrees[i] \in V
            /\ Matcher!ClosedIn(in, V)) => k \in V)
        => k \in Matcher!Reached(in)
  BY DEF Matcher!Reached
<1>4. ASSUME NEW n \in Matcher!Reached(in), \A m \in in.metas[n] : m.nameOnly,
             NEW k \in Node, ChildIn(in, k, n)
      PROVE  k \in Matcher!Reached(in)
  <2>1. ASSUME NEW V \in SUBSET Node,
               \A i \in DOMAIN in.subtrees : in.subtrees[i] \in V,
               Matcher!ClosedIn(in, V)
        PROVE  k \in V
    <3>1. n \in V
      BY <2>1, <1>2
    <3> QED
      BY <3>1, <2>1, <1>4 DEF Matcher!ClosedIn, ChildIn
  <2> QED
    BY <2>1, <1>3
<1> QED
  BY <1>1, <1>2, <1>3, <1>4

(* The visitor goes no further than the matcher.                           *)
LEMMA ReachableReached ==
  ASSUME IInv, ReachInv, TemplateIsSiblingRun, phase = "parsed",
         NEW in \in Matcher!Input, NEW virtual \in SUBSET Node,
         HandedOver(in), SameFile(in, virtual)
  PROVE  /\ Reachable \subseteq Matcher!Reached(in)
         /\ \A k \in DOMAIN metavariables : k \notin virtual
         /\ \A n \in Node : ~ Whole(n) <=> \A m \in in.metas[n] : m.nameOnly
<1>1. /\ tree \in Tree /\ templateSubtrees \in Seq(Node)
      /\ \A n \in Node : tree.kids[n] \in Seq(Node)
  BY InputTypes DEF IInv, TemplateInv, Begun
<1>2. \A i \in DOMAIN templateSubtrees : templateSubtrees[i] \in Node \ virtual
  <2>1. \A i \in DOMAIN templateSubtrees :
          \E p \in Node : \E j \in DOMAIN tree.kids[p] :
            templateSubtrees[i] = tree.kids[p][j]
    BY <1>1 DEF TemplateIsSiblingRun, TemplateParsed, SiblingRun, MainRun
  <2> QED
    BY <2>1, <1>1 DEF SameFile
<1>3. Opened(Node \ virtual)
  BY <1>1, <1>2 DEF Opened, SameFile
<1>4. Reachable \subseteq Node \ virtual
  BY <1>3, ReachableFacts
<1>5. \A k \in DOMAIN metavariables : k \notin virtual
  <2>1. \A k \in Node : IsGiven(k) => k \in Reachable
    BY DEF ReachInv, TemplateParsed, Known
  <2>2. DOMAIN metavariables \subseteq Node
    BY DEF IInv, BindingInv, BindingTypes
  <2> QED
    BY <2>1, <2>2, <1>4 DEF ReachInv, MapInv, SameFile
<1>6. \A n \in Node : ~ Whole(n) <=> \A m \in in.metas[n] : m.nameOnly
  <2> SUFFICES ASSUME NEW n \in Node
               PROVE  ~ Whole(n) <=> \A m \in in.metas[n] : m.nameOnly
    OBVIOUS
  <2>1. CASE n \in DOMAIN metavariables
    <3>1. in.metas[n] = {metavariables[n]}
      BY <2>1 DEF HandedOver
    <3> QED
      BY <3>1, <2>1, Zenon DEF Whole
  <2>2. CASE n \notin DOMAIN metavariables
    <3>1. in.metas[n] = {}
      BY <2>2 DEF HandedOver
    <3> QED
      BY <3>1, <2>2, Zenon DEF Whole
  <2> QED
    BY <2>1, <2>2
<1>7. ASSUME NEW V \in SUBSET Node,
             \A i \in DOMAIN in.subtrees : in.subtrees[i] \in V,
             Matcher!ClosedIn(in, V)
      PROVE  Reachable \subseteq V
  <2>1. ASSUME NEW n \in V, \A m \in in.metas[n] : m.nameOnly, NEW k, ChildIn(in, k, n)
        PROVE  k \in V
    BY <2>1, <1>7 DEF Matcher!ClosedIn, ChildIn
  <2>2. ASSUME NEW n \in V, ~ Whole(n), NEW i \in DOMAIN tree.kids[n]
        PROVE  tree.kids[n][i] \in V
    <3> DEFINE k == tree.kids[n][i]
    <3>1. \A m \in in.metas[n] : m.nameOnly
      BY <2>2, <1>6
    <3>2. CASE ChildIn(in, k, n)
      BY <3>1, <3>2, <2>1
    <3>3. CASE \E v \in virtual : ChildIn(in, v, n) /\ ChildIn(in, k, v)
      <4>1. PICK v \in virtual : ChildIn(in, v, n) /\ ChildIn(in, k, v)
        BY <3>3
      <4>2. v \in V
        BY <4>1, <3>1, <2>1
      <4>3. in.metas[v] = {}
        BY <1>5 DEF HandedOver
      <4> QED
        BY <4>1, <4>2, <4>3, <2>1
    <3> QED
      BY <3>2, <3>3 DEF SameFile
  <2>3. Opened(V)
    BY <2>2, <1>7 DEF Opened, HandedOver
  <2> QED
    BY <2>3, ReachableFacts
<1>8. Reachable \subseteq Matcher!Reached(in)
  <2>1. input \in Input
    BY DEF IInv
  <2> QED
    BY <2>1, <1>4, <1>7, MatcherReached
<1> QED
  BY <1>5, <1>6, <1>8

(* No node that the matcher comes to has a subtree of the template as one  *)
(* of its children: the subtrees are siblings, so it would be below itself.*)
LEMMA SubtreesAreRoots ==
  ASSUME IInv, TemplateIsSiblingRun, phase = "parsed",
         NEW in \in Matcher!Input, NEW virtual \in SUBSET Node,
         HandedOver(in), SameFile(in, virtual),
         NEW n \in Matcher!Reached(in), NEW j \in DOMAIN in.subtrees
  PROVE  ~ ChildIn(in, in.subtrees[j], n)
<1> SUFFICES ASSUME ChildIn(in, in.subtrees[j], n)
             PROVE  FALSE
  OBVIOUS
<1> DEFINE u == TreeOf(in)
           s == in.subtrees
<1>1. /\ u \in Tree /\ IsTree(u) /\ n \in Node
      /\ \A k \in Node : u.kids[k] = Matcher!KidsIn(in, k)
  <2>1. input \in Input
    BY DEF IInv
  <2> QED
    BY <2>1, TreeOfFacts, MatcherReached DEF SameFile
<1>2. s \in Seq(Node) /\ s = templateSubtrees
  BY DEF HandedOver, IInv, TemplateInv, Begun
<1>3. PICK p \in Node : \A i \in DOMAIN s :
        \E l \in DOMAIN tree.kids[p] : s[i] = tree.kids[p][l]
  <2>1. SiblingRun(s)
    BY <1>2 DEF TemplateIsSiblingRun, TemplateParsed
  <2> HIDE DEF s
  <2>2. PICK p \in Node : \E a, b \in DOMAIN tree.kids[p] : MainRun(tree, s, p, a, b)
    BY <2>1 DEF SiblingRun
  <2>3. PICK a \in DOMAIN tree.kids[p], b \in DOMAIN tree.kids[p] :
          MainRun(tree, s, p, a, b)
    BY <2>2
  <2>4. PICK at \in [DOMAIN s -> a .. b] : \A i \in DOMAIN s : s[i] = tree.kids[p][at[i]]
    BY <2>3 DEF MainRun
  <2>5. a .. b \subseteq DOMAIN tree.kids[p]
    <3>1. tree.kids[p] \in Seq(Node)
      BY InputTypes DEF IInv
    <3> QED
      BY <3>1
  <2>6. \A i \in DOMAIN s : at[i] \in DOMAIN tree.kids[p]
    BY <2>5
  <2> QED
    BY <2>4, <2>6
<1>4. \A i \in DOMAIN s :
        /\ s[i] \notin virtual
        /\ \/ ChildIn(in, s[i], p)
           \/ \E v \in virtual : ChildIn(in, v, p) /\ ChildIn(in, s[i], v)
  BY <1>3 DEF SameFile
<1> HIDE DEF u, s
<1>5. \A k \in Node : \A l : ChildIn(in, l, k) <=>
        \E i \in DOMAIN u.kids[k] : u.kids[k][i] = l
  BY <1>1 DEF ChildIn
<1>6. PICK i \in DOMAIN s : n \in Subtree(u, s[i])
  <2> DEFINE R == Reach(u, s)
  <2>1. /\ \A i \in DOMAIN s : s[i] \in R
        /\ R \subseteq Node
        /\ \A k \in R : k \in Node /\ \A i \in DOMAIN u.kids[k] : u.kids[k][i] \in R
    <3>1. \A i \in DOMAIN s : s[i] \in Node
      BY <1>2
    <3> QED
      BY <3>1, <1>1, SubtreeFacts DEF Reach, Closed
  <2> HIDE DEF R
  <2>2. Matcher!ClosedIn(in, R)
    BY <2>1, <1>1 DEF Matcher!ClosedIn
  <2>3. input \in Input
    BY DEF IInv
  <2>4. n \in R
    BY <2>1, <2>2, <2>3, MatcherReached DEF s
  <2> QED
    BY <2>4 DEF R, Reach
<1>7. s[i] \in Node /\ s[j] \in Node /\ j \in DOMAIN s
  BY <1>2 DEF s
<1>8. PICK x \in DOMAIN u.kids[n] : u.kids[n][x] = s[j]
  BY <1>1, <1>5 DEF s
<1>9. p \in Subtree(u, s[i])
  <2>1. CASE ChildIn(in, s[j], p)
    <3>1. n = p
      BY <2>1, <1>1, <1>5, <1>8 DEF IsTree
    <3> QED
      BY <3>1, <1>6
  <2>2. CASE \E v \in virtual : ChildIn(in, v, p) /\ ChildIn(in, s[j], v)
    <3>1. PICK v \in virtual : ChildIn(in, v, p) /\ ChildIn(in, s[j], v)
      BY <2>2
    <3>2. n = v
      BY <3>1, <1>1, <1>5, <1>8 DEF IsTree
    <3>3. PICK y \in DOMAIN u.kids[p] : u.kids[p][y] = v
      BY <3>1, <1>5
    <3>4. v # s[i]
      BY <1>4
    <3> QED
      BY <3>2, <3>3, <3>4, <1>1, <1>6, <1>7, ParentInSubtree
  <2> QED
    BY <2>1, <2>2, <1>4, <1>7
<1>10. CASE ChildIn(in, s[i], p)
  <2>1. PICK y \in DOMAIN u.kids[p] : u.kids[p][y] = s[i]
    BY <1>10, <1>5
  <2> QED
    BY <2>1, <1>1, <1>9, NotBelowItself
<1>11. CASE \E v \in virtual : ChildIn(in, v, p) /\ ChildIn(in, s[i], v)
  <2>1. PICK v \in virtual : ChildIn(in, v, p) /\ ChildIn(in, s[i], v)
    BY <1>11
  <2>2. PICK y \in DOMAIN u.kids[p] : u.kids[p][y] = v
    BY <2>1, <1>5
  <2>3. PICK z \in DOMAIN u.kids[v] : u.kids[v][z] = s[i]
    BY <2>1, <1>5
  <2>4. Subtree(u, s[i]) \subseteq Subtree(u, v)
    BY <2>3, <1>1, SubtreeOfChild
  <2> QED
    BY <2>2, <2>4, <1>1, <1>9, NotBelowItself
<1> QED
  BY <1>4, <1>10, <1>11

(* The configuration uses no identifier both for a name and for subtrees.  *)
OneUse ==
  \A m, k \in input.metavars : m.identifier = k.identifier => m.nameOnly = k.nameOnly

(* Then neither does the map, implicit metavariables included.             *)
LEMMA MapAgrees ==
  ASSUME IInv, TreeInv, ReachInv, OneUse,
         NEW in \in Matcher!Input, HandedOver(in)
  PROVE  Matcher!UsesAgree(in)
<1> DEFINE Meta(m) == [identifier |-> m.identifier, nameOnly |-> m.nameOnly]
<1>1. ASSUME NEW n \in Node, NEW k \in in.metas[n]
      PROVE  k = Implicit \/ \E m \in input.metavars : k = Meta(m)
  <2>1. n \in DOMAIN metavariables /\ k = metavariables[n]
    BY <1>1 DEF HandedOver
  <2>2. CASE IsGiven(n)
    BY <2>1, <2>2 DEF IsGiven, TreeInv, ExplicitWins
  <2> QED
    BY <2>1, <2>2 DEF ReachInv, MapInv
<1>2. \A m \in input.metavars : m.identifier \in Nat
  <2>1. input.metavars \subseteq MetavarLoc
    BY DEF IInv, Input
  <2> QED
    BY <2>1, IdentifierAssumption DEF MetavarLoc
<1>3. ASSUME NEW n \in Node, NEW p \in Node, NEW m \in in.metas[n], NEW k \in in.metas[p],
             m.identifier = k.identifier
      PROVE  m.nameOnly = k.nameOnly
  <2>1. CASE m = Implicit /\ k = Implicit
    BY <2>1
  <2>2. CASE \E o \in input.metavars : m = Meta(o) /\ k = Implicit
    BY <2>2, <1>2, <1>3 DEF Implicit
  <2>3. CASE \E o \in input.metavars : m = Implicit /\ k = Meta(o)
    BY <2>3, <1>2, <1>3 DEF Implicit
  <2>4. CASE \E o, q \in input.metavars : m = Meta(o) /\ k = Meta(q)
    BY <2>4, <1>3 DEF OneUse
  <2> QED
    BY <1>1, <2>1, <2>2, <2>3, <2>4
<1> QED
  BY <1>3 DEF Matcher!UsesAgree

(* A template that the parser accepts is what the theorems about the       *)
(* matching loop ask for: the matcher, handed the parser's subtrees and    *)
(* map, comes to every node that maps to a metavariable, to each in one    *)
(* way only, and never from below into a subtree of the template.          *)
THEOREM ParsedIsTemplate ==
  Spec =>
    [](phase = "parsed" /\ IsTree(tree) /\ InOrder(tree) /\ NoWholeClass =>
         \A in \in Matcher!Input : \A virtual \in SUBSET Node :
           HandedOver(in) /\ SameFile(in, virtual) =>
             Matcher!IsTemplate(in) /\ (OneUse => Matcher!UsesAgree(in)))
<1> DEFINE Parsed ==
             phase = "parsed" /\ IsTree(tree) /\ InOrder(tree) /\ NoWholeClass =>
               \A in \in Matcher!Input : \A virtual \in SUBSET Node :
                 HandedOver(in) /\ SameFile(in, virtual) =>
                   Matcher!IsTemplate(in) /\ (OneUse => Matcher!UsesAgree(in))
<1>1. IInv /\ (IsTree(tree) => TreeInv /\ ReachInv)
        /\ (InOrder(tree) => TemplateIsSiblingRun) => Parsed
  <2> SUFFICES ASSUME IInv, TreeInv, ReachInv, TemplateIsSiblingRun, phase = "parsed",
                      NoWholeClass,
                      NEW in \in Matcher!Input, NEW virtual \in SUBSET Node,
                      HandedOver(in), SameFile(in, virtual)
               PROVE  Matcher!IsTemplate(in) /\ (OneUse => Matcher!UsesAgree(in))
    OBVIOUS
  <2>1. /\ Reachable \subseteq Matcher!Reached(in)
        /\ \A n \in Node : ~ Whole(n) <=> \A m \in in.metas[n] : m.nameOnly
    BY ReachableReached
  <2>2. input \in Input
    BY DEF IInv
  <2>3. ASSUME NEW n \in Node, in.metas[n] # {}
        PROVE  n \in Matcher!Reached(in)
    <3>1. n \in DOMAIN metavariables
      BY <2>3 DEF HandedOver
    <3>2. \A k \in Node : IsGiven(k) => k \in Matcher!Reached(in)
      BY <2>1 DEF ReachInv, TemplateParsed, Known
    <3>3. CASE IsGiven(n)
      BY <3>2, <3>3
    <3>4. CASE \E l \in Node : IsGiven(l) /\ n \in tree.special[l]
      <4>1. PICK l \in Node : IsGiven(l) /\ n \in tree.special[l]
        BY <3>4
      <4>2. l \in Matcher!Reached(in) /\ \A m \in in.metas[l] : m.nameOnly
        BY <4>1, <3>2, <2>1 DEF NoWholeClass
      <4>3. ChildIn(in, n, l)
        BY <4>1 DEF SameFile
      <4> QED
        BY <4>2, <4>3, <2>2, MatcherReached
    <3> QED
      BY <3>1, <3>3, <3>4 DEF ReachInv, MapInv
  <2>4. ASSUME NEW n \in Matcher!Reached(in), NEW i \in DOMAIN Matcher!KidsIn(in, n),
               NEW j \in DOMAIN in.subtrees
        PROVE  Matcher!KidsIn(in, n)[i] # in.subtrees[j]
    BY SubtreesAreRoots DEF ChildIn
  <2>5. ASSUME NEW n \in Node, NEW p \in Node, NEW i \in DOMAIN Matcher!KidsIn(in, n),
               NEW j \in DOMAIN Matcher!KidsIn(in, p),
               Matcher!KidsIn(in, n)[i] = Matcher!KidsIn(in, p)[j]
        PROVE  n = p /\ i = j
    <3>1. \A k \in Node : TreeOf(in).kids[k] = Matcher!KidsIn(in, k)
      BY <2>2, TreeOfFacts
    <3> QED
      BY <3>1, <2>5 DEF SameFile, IsTree
  <2>6. Matcher!IsTemplate(in)
    BY <2>3, <2>4, <2>5 DEF Matcher!IsTemplate
  <2> QED
    BY <2>6, MapAgrees
<1> HIDE DEF Parsed
<1>2. Spec => [](IInv /\ (IsTree(tree) => TreeInv /\ ReachInv))
  BY ReachInvariance
<1>3. Spec => []Parsed
  BY <1>1, <1>2, TemplatesAreSiblingRuns, PTL
<1> QED
  BY <1>3 DEF Parsed
-----------------------------------------------------------------------------
(* The searches come to an end. *)

(* What a search has before it loses the node it looks at.                 *)
MovesPast(n) ==
  /\ phase = "template" =>
       Reach(tree, pending') \subseteq Reach(tree, pending) \ {n}
  /\ phase = "metavariables" => Ahead' \subseteq Ahead \ {n}

LEMMA WalkMovesPast ==
  ASSUME IInv, IsTree(tree), TreeInv, pending # << >>, tree' = tree,
         phase = "metavariables" => subtreeQueue' = subtreeQueue,
         NEW b \in {<< >>, tree.kids[Head(pending)]},
         pending' = b \o Tail(pending)
  PROVE  MovesPast(Head(pending))
<1>1. tree \in Tree /\ pending \in Seq(Node) /\ Head(pending) \in Node
  BY InputTypes, SequenceFacts DEF IInv, StateInv
<1>2. /\ Apart(tree, pending)
      /\ Reach(tree, pending) \cap Reach(tree, subtreeQueue) = {}
  BY DEF TreeInv, TraversalInv
<1>3. Reach(tree, pending') \subseteq Reach(tree, pending) \ {Head(pending)}
  BY <1>1, <1>2, Expand
<1>4. Head(pending) \in Reach(tree, pending)
  <2>1. Head(pending) \in Subtree(tree, Head(pending))
    BY <1>1, SubtreeFacts
  <2> QED
    BY <2>1, <1>1, <1>2, ReachTail
<1>5. Head(pending) \notin Reach(tree, subtreeQueue)
  BY <1>2, <1>4
<1> QED
  BY <1>3, <1>5 DEF MovesPast, Ahead

LEMMA NextMovesPast ==
  ASSUME IInv, IsTree(tree), TreeInv, Next, pending # << >>,
         phase \in {"template", "metavariables"}, phase' # "rejected"
  PROVE  MovesPast(Head(pending))
<1>1. tree' = tree
  BY InputKept
<1>2. pending \in Seq(Node) /\ Tail(pending) \in Seq(Node)
  BY SequenceFacts DEF IInv, StateInv
<1>3. << >> \o Tail(pending) = Tail(pending)
  BY <1>2
<1>4. ASSUME NEW n \in Node, SkipSubtree(n)
      PROVE  MovesPast(Head(pending))
  <2>1. pending' = << >> \o Tail(pending) /\ phase = "template"
    BY <1>3, <1>4 DEF SkipSubtree, Visiting
  <2> QED
    BY <2>1, <1>1, WalkMovesPast
<1>5. ASSUME NEW n \in Node, Descend(n)
      PROVE  MovesPast(Head(pending))
  <2>1. /\ pending' = tree.kids[Head(pending)] \o Tail(pending)
        /\ phase = "template"
    BY <1>5 DEF Descend, Visiting
  <2> QED
    BY <2>1, <1>1, WalkMovesPast
<1>6. ASSUME NEW n \in Node, AddTemplateSubtree(n)
      PROVE  MovesPast(Head(pending))
  <2>1. phase = "template" /\ pending' \in {<< >>, Tail(pending)}
    BY <1>6 DEF AddTemplateSubtree, Visiting
  <2>2. CASE pending' = Tail(pending)
    <3>1. pending' = << >> \o Tail(pending)
      BY <2>2, <1>3
    <3> QED
      BY <3>1, <2>1, <1>1, WalkMovesPast
  <2>3. CASE pending' = << >>
    BY <2>1, <2>3, ReachEmpty DEF MovesPast
  <2> QED
    BY <2>1, <2>2, <2>3
<1>7. ASSUME NEW n \in Node, SearchSubtrees(n)
      PROVE  MovesPast(Head(pending))
  <2>1. /\ n = Head(pending) /\ subtreeQueue' = subtreeQueue
        /\ pending' = SubtreesToSearch(n) \o Tail(pending)
    BY <1>7 DEF SearchSubtrees, Searching, template
  <2>2. SubtreesToSearch(n) \in {<< >>, tree.kids[n]}
    BY DEF SubtreesToSearch
  <2> QED
    BY <2>1, <2>2, <1>1, WalkMovesPast
<1>8. ASSUME NEW n \in Node, AddToMetavariable(n)
      PROVE  MovesPast(Head(pending))
  <2>1. PICK m \in Current(n) : pending' = SubtreesBelow(m, n) \o Tail(pending)
    BY <1>8 DEF AddToMetavariable
  <2>2. n = Head(pending) /\ subtreeQueue' = subtreeQueue
    BY <1>8 DEF AddToMetavariable, Searching, template
  <2>3. SubtreesBelow(m, n) \in {<< >>, tree.kids[n]}
    BY DEF SubtreesBelow, SubtreesToSearch
  <2> QED
    BY <2>1, <2>2, <2>3, <1>1, WalkMovesPast
<1>9. ASSUME NEW n \in Node
      PROVE  ~ GivesUp(n)
  BY <1>9, GivesUpThrows DEF Throw
<1>10. ~ (CheckFileRange \/ NoTemplate \/ TakeSubtree \/ SubtreeDone \/ Finish \/ Finished)
  BY DEF CheckFileRange, NoTemplate, TakeSubtree, SubtreeDone, Finish, Finished
<1> QED
  BY <1>4, <1>5, <1>6, <1>7, <1>8, <1>9, <1>10 DEF Next, GivesUp

(* Why both searches come to an end: in a tree, the node that is looked at *)
(* is never ahead again, and nothing new comes to be ahead.                *)
THEOREM NothingIsSearchedTwice ==
  Spec => [][(/\ IsTree(tree) /\ pending # << >>
              /\ phase \in {"template", "metavariables"} /\ phase' # "rejected")
               => MovesPast(Head(pending))]_vars
<1>1. IInv /\ (IsTree(tree) => TreeInv) /\ [Next]_vars
        => [(/\ IsTree(tree) /\ pending # << >>
             /\ phase \in {"template", "metavariables"} /\ phase' # "rejected")
              => MovesPast(Head(pending))]_vars
  BY NextMovesPast
<1> QED
  BY <1>1, TreeInvariance, PTL DEF Spec
=============================================================================
