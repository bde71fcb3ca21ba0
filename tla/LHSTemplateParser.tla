------------------------- MODULE LHSTemplateParser -------------------------
(***************************************************************************)
(* LHSParserConsumer::HandleTranslationUnit and the LHSParserVisitor it    *)
(* drives: one preorder traversal of the translation unit finds the        *)
(* subtrees the template range spans, then each of them is traversed again *)
(* to bind metavariables to nodes.  The visitor overrides Traverse*, so it *)
(* decides at every node whether to descend; `pending' is the traversal's  *)
(* call stack flattened into the nodes it has still to visit, in order.    *)
(***************************************************************************)
EXTENDS Metavariables, Sequences

CONSTANTS
  Node,      \* Stmts and Decls
  Inputs     \* what the consumer is given: a parsed file, a configuration

(* What the code asks clang about a translation unit.                      *)
Tree ==
  [ root      : Node,                     \* the TranslationUnitDecl
    kids      : [Node -> Seq(Node)],      \* in the order of the visitor
    range     : [Node -> TemplateRanges], \* getLocStart, getLocEnd
    endLit    : [Node -> Location],       \* end of the last token
    endSemi   : [Node -> Location],       \* the semicolon after it, if any,
                                          \* endLit otherwise
    named     : SUBSET Node,              \* NamedDecls
    main      : SUBSET Node,              \* written in the main file
    special   : [Node -> SUBSET Node],    \* of a CXXRecordDecl, its con- and
                                          \* destructors, conversions and
                                          \* injected class name
    fileRange : TemplateRanges ]

Input ==
  [tree : Tree, templateRange : TemplateRanges, metavars : SUBSET MetavarLoc]

ASSUME InputsAssumption == Inputs \subseteq Input

VARIABLES
  input,                   \* never changes
  phase,
  rejectedFor,             \* what the exception says, "none" if none is thrown
  pending,                 \* nodes the traversal has still to visit
  templateConstructionBegan,
  templateSubtrees,        \* the template's list of subtrees
  subtreeQueue,            \* those still to be searched for metavariables
  remainingMetavariables,
  parsingMetavariable,     \* the set of it, or {}
  metavariables,           \* the template's map from nodes to metavariables
  subtreesOf               \* history: the nodes added for each metavariable

template == <<templateConstructionBegan, templateSubtrees, subtreeQueue>>
binding == <<remainingMetavariables, parsingMetavariable, metavariables,
             subtreesOf>>
vars == <<input, phase, rejectedFor, pending, template, binding>>

tree == input.tree
templ == input.templateRange

Start(n) == tree.range[n].begin
End(n) == tree.range[n].end
EndsAt(n, loc) == loc \in {End(n), tree.endLit[n], tree.endSemi[n]}

Init ==
  /\ input \in Inputs
  /\ phase = "start"
  /\ rejectedFor = "none"
  /\ pending = << >>
  /\ templateConstructionBegan = FALSE
  /\ templateSubtrees = << >>
  /\ subtreeQueue = << >>
  /\ remainingMetavariables = input.metavars
  /\ parsingMetavariable = {}
  /\ metavariables = << >>
  /\ subtreesOf = [m \in input.metavars |-> << >>]

Throw(why) ==
  /\ phase' = "rejected"
  /\ rejectedFor' = why
  /\ UNCHANGED <<input, pending, template, binding>>

GoOn == UNCHANGED <<input, rejectedFor>>

-----------------------------------------------------------------------------
(* The template: parseSubtreeToTemplate                                    *)

CheckFileRange ==
  /\ phase = "start"
  /\ IF EnclosedIn(templ, tree.fileRange)
       THEN /\ phase' = "template"
            /\ pending' = tree.kids[tree.root]
            /\ UNCHANGED <<template, binding>> /\ GoOn
       ELSE Throw("file range")

Visiting(n) == phase = "template" /\ pending # << >> /\ n = Head(pending)

Passed(n) == n \notin tree.main \/ LocLess(End(n), templ.begin)

Overshoots(n) == LocGreater(Start(n), templ.end)

Constructing_FromBehind(n) ==
  templateConstructionBegan \/ LocLeq(templ.begin, Start(n))

Constructing(n) == templateConstructionBegan \/ Start(n) = templ.begin

(* The template range goes on behind n and the semicolon after n.          *)
SpansMore_OneOff(n) == LocGeq(templ.end, tree.endSemi[n])

SpansMore_AtStart(n) == LocGreater(Start(n), templ.end)

SpansMore(n) == LocGreater(templ.end, tree.endSemi[n])

SkipSubtree_Stays(n) ==
  /\ Visiting(n) /\ Passed(n)
  /\ UNCHANGED vars

SkipSubtree(n) ==
  /\ Visiting(n) /\ Passed(n)
  /\ pending' = Tail(pending)
  /\ UNCHANGED <<phase, template, binding>> /\ GoOn

Overshot(n) ==
  /\ Visiting(n) /\ ~ Passed(n) /\ Overshoots(n)
  /\ Throw("overshot")

PartialSpan(n) ==
  /\ Visiting(n) /\ ~ Passed(n) /\ ~ Overshoots(n) /\ Constructing(n)
  /\ LocGreater(End(n), templ.end)
  /\ Throw("partially spans")

AddTemplateSubtree(n) ==
  /\ Visiting(n) /\ ~ Passed(n) /\ ~ Overshoots(n) /\ Constructing(n)
  /\ ~ LocGreater(End(n), templ.end)
  /\ templateConstructionBegan' = TRUE
  /\ templateSubtrees' = Append(templateSubtrees, n)
  /\ subtreeQueue' = Append(subtreeQueue, n)
  /\ IF EndsAt(n, templ.end)
       THEN phase' = "queue" /\ pending' = << >>
       ELSE phase' = phase /\ pending' = Tail(pending)
  /\ UNCHANGED binding /\ GoOn

NoSubtreeForStart(n) ==
  /\ Visiting(n) /\ ~ Passed(n) /\ ~ Overshoots(n) /\ ~ Constructing(n)
  /\ LocLess(templ.begin, Start(n))
  /\ Throw("no subtree for start")

WillPartiallySpan(n) ==
  /\ Visiting(n) /\ ~ Passed(n) /\ ~ Overshoots(n) /\ ~ Constructing(n)
  /\ ~ LocLess(templ.begin, Start(n))
  /\ SpansMore(n)
  /\ Throw("will partially span")

Descend(n) ==
  /\ Visiting(n) /\ ~ Passed(n) /\ ~ Overshoots(n) /\ ~ Constructing(n)
  /\ ~ LocLess(templ.begin, Start(n))
  /\ ~ SpansMore(n)
  /\ pending' = tree.kids[n] \o Tail(pending)
  /\ UNCHANGED <<phase, template, binding>> /\ GoOn

NoTemplate ==
  /\ phase = "template" /\ pending = << >>
  /\ Throw("no template")

-----------------------------------------------------------------------------
(* The metavariables: the loop of HandleTranslationUnit, parseMetavariables *)

TakeSubtree ==
  /\ phase = "queue" /\ subtreeQueue # << >>
  /\ phase' = "metavariables"
  /\ pending' = <<Head(subtreeQueue)>>
  /\ subtreeQueue' = Tail(subtreeQueue)
  /\ UNCHANGED <<templateConstructionBegan, templateSubtrees, binding>> /\ GoOn

SubtreeDone ==
  /\ phase = "metavariables" /\ pending = << >>
  /\ phase' = "queue"
  /\ UNCHANGED <<pending, template, binding>> /\ GoOn

Finish_Unchecked ==
  /\ phase = "queue" /\ subtreeQueue = << >>
  /\ phase' = "parsed"
  /\ UNCHANGED <<pending, template, binding>> /\ GoOn

Finish ==
  /\ phase = "queue" /\ subtreeQueue = << >>
  /\ IF remainingMetavariables = {}
       THEN /\ phase' = "parsed"
            /\ UNCHANGED <<pending, template, binding>> /\ GoOn
       ELSE Throw("unparsed metavariables")

Begins(m, n) == m.range.begin = Start(n) /\ LocLeq(End(n), m.range.end)

Contains(n, m) == ~ Begins(m, n) /\ EnclosedIn(m.range, tree.range[n])

(* The loop over the remaining metavariables passes over those that end    *)
(* before n and breaks at a full one that begins at n, and at one inside n.*)
Considered(n) ==
  LET overlapping == {m \in remainingMetavariables :
                        OverlapsWith(m.range, tree.range[n])}
      breaks(m) == Contains(n, m) \/ (Begins(m, n) /\ ~ m.nameOnly)
  IN  {m \in overlapping :
         \A b \in overlapping : breaks(b) => ~ MetavarPrecedes(b, m)}

(* Each one that begins at n takes over parsingMetavariable: the last one  *)
(* keeps it, and none changes it if there is none.                         *)
Current(n) ==
  LET beginning == {m \in Considered(n) : Begins(m, n)}
  IN  IF beginning = {} THEN parsingMetavariable
      ELSE {m \in beginning : \A b \in beginning : ~ MetavarPrecedes(m, b)}

IllegalNameOnly(n) ==
  \E m \in Considered(n) :
    /\ Begins(m, n) /\ m.nameOnly
    /\ ~ (n \in tree.named /\ EndsAt(n, m.range.end))

(* The code descends into n's children for a metavariable inside n.        *)
SubtreesToSearch(n) ==
  IF \E m \in Considered(n) : Contains(n, m) THEN tree.kids[n] ELSE << >>

Searching(n) ==
  phase = "metavariables" /\ pending # << >> /\ n = Head(pending)

RejectNameOnly(n) ==
  /\ Searching(n) /\ IllegalNameOnly(n)
  /\ Throw("name-only metavariable")

RejectPartial(n) ==
  /\ Searching(n) /\ ~ IllegalNameOnly(n)
  /\ \E m \in Current(n) : LocGreater(End(n), m.range.end)
  /\ Throw("metavariable partially spans")

(* LHSTemplate::addMetavariable: n maps to m whatever it mapped to; the    *)
(* special members of a class map to the implicit metavariable unless they *)
(* map to something already.                                               *)
Implicit == [identifier |-> -1, nameOnly |-> TRUE]

AddMetavariable_KeepsOld(m, n) ==
  LET meta == [identifier |-> m.identifier, nameOnly |-> m.nameOnly]
  IN  [k \in DOMAIN metavariables \cup {n} \cup tree.special[n] |->
         IF k \in DOMAIN metavariables THEN metavariables[k]
         ELSE IF k = n THEN meta ELSE Implicit]

AddMetavariable(m, n) ==
  LET meta == [identifier |-> m.identifier, nameOnly |-> m.nameOnly]
  IN  [k \in DOMAIN metavariables \cup {n} \cup tree.special[n] |->
         IF k = n THEN meta
         ELSE IF k \in DOMAIN metavariables THEN metavariables[k]
         ELSE Implicit]

Completes_AtOnce(m, n) == TRUE

Completes(m, n) == EndsAt(n, m.range.end)

(* A full metavariable parameterises all that is below its nodes.          *)
SubtreesBelow_OfFull(m, n) == tree.kids[n]

SubtreesBelow(m, n) == IF m.nameOnly THEN SubtreesToSearch(n) ELSE << >>

AddToMetavariable_NotReset(n) ==
  /\ Searching(n) /\ ~ IllegalNameOnly(n)
  /\ \E m \in Current(n) :
       /\ ~ LocGreater(End(n), m.range.end)
       /\ metavariables' = AddMetavariable(m, n)
       /\ subtreesOf' = [subtreesOf EXCEPT ![m] = Append(@, n)]
       /\ remainingMetavariables' =
            IF Completes(m, n) THEN remainingMetavariables \ {m}
            ELSE remainingMetavariables
       /\ parsingMetavariable' = {m}
       /\ pending' = SubtreesBelow(m, n) \o Tail(pending)
  /\ UNCHANGED <<phase, template>> /\ GoOn

AddToMetavariable(n) ==
  /\ Searching(n) /\ ~ IllegalNameOnly(n)
  /\ \E m \in Current(n) :
       /\ ~ LocGreater(End(n), m.range.end)
       /\ metavariables' = AddMetavariable(m, n)
       /\ subtreesOf' = [subtreesOf EXCEPT ![m] = Append(@, n)]
       /\ IF Completes(m, n)
            THEN /\ remainingMetavariables' = remainingMetavariables \ {m}
                 /\ parsingMetavariable' = {}
            ELSE /\ parsingMetavariable' = {m}
                 /\ UNCHANGED remainingMetavariables
       /\ pending' = SubtreesBelow(m, n) \o Tail(pending)
  /\ UNCHANGED <<phase, template>> /\ GoOn

SearchSubtrees_Stays(n) ==
  /\ Searching(n) /\ ~ IllegalNameOnly(n)
  /\ Current(n) = {}
  /\ pending' = SubtreesToSearch(n) \o pending
  /\ UNCHANGED <<phase, template, binding>> /\ GoOn

SearchSubtrees(n) ==
  /\ Searching(n) /\ ~ IllegalNameOnly(n)
  /\ Current(n) = {}
  /\ pending' = SubtreesToSearch(n) \o Tail(pending)
  /\ UNCHANGED <<phase, template, binding>> /\ GoOn

-----------------------------------------------------------------------------

Finished == phase \in {"parsed", "rejected"} /\ UNCHANGED vars

Next ==
  \/ CheckFileRange \/ NoTemplate \/ TakeSubtree \/ SubtreeDone \/ Finish
  \/ \E n \in Node :
       \/ SkipSubtree(n) \/ Overshot(n) \/ PartialSpan(n)
       \/ AddTemplateSubtree(n) \/ NoSubtreeForStart(n)
       \/ WillPartiallySpan(n) \/ Descend(n)
       \/ RejectNameOnly(n) \/ RejectPartial(n) \/ AddToMetavariable(n)
       \/ SearchSubtrees(n)
  \/ Finished

(* One thread runs the consumer, and nothing in it waits.                  *)
Spec == Init /\ [][Next]_vars /\ WF_vars(Next)

-----------------------------------------------------------------------------
(* Properties                                                              *)

TemplateErrors ==
  {"file range", "overshot", "partially spans", "no subtree for start",
   "will partially span", "no template"}

MetavariableErrors ==
  {"name-only metavariable", "metavariable partially spans",
   "unparsed metavariables"}

(* The parser's fields have the types LHSTemplateParser.hpp gives them,    *)
(* and the map of the template binds nodes.                                *)
TypeOK ==
  /\ input \in Input
  /\ phase \in {"start", "template", "queue", "metavariables", "parsed",
               "rejected"}
  /\ rejectedFor \in {"none"} \cup TemplateErrors \cup MetavariableErrors
  /\ pending \in Seq(Node)
  /\ templateConstructionBegan \in BOOLEAN
  /\ templateSubtrees \in Seq(Node)
  /\ subtreeQueue \in Seq(Node)
  /\ remainingMetavariables \subseteq input.metavars
  /\ parsingMetavariable \subseteq remainingMetavariables
  /\ DOMAIN metavariables \subseteq Node
  /\ subtreesOf \in [input.metavars -> Seq(Node)]

InTemplatePhase == phase \in {"start", "template"}

TemplateParsed == phase \in {"queue", "metavariables", "parsed"}

First(s) == s[1]

Final(s) == s[Len(s)]

(* Nodes s are what the range r spans: the first one starts where r does,  *)
(* no one ends behind r, and the last one, with its last token and its     *)
(* semicolon or without them, ends where r does.                           *)
Spans(r, s) ==
  /\ s # << >>
  /\ Start(First(s)) = r.begin
  /\ \A i \in DOMAIN s : LocLeq(End(s[i]), r.end)
  /\ EndsAt(Final(s), r.end)

(* parseSubtreeToTemplate: the template it ends with spans the template    *)
(* range, neither more nor less.                                           *)
TemplateSpansRange == TemplateParsed => Spans(templ, templateSubtrees)

(* The nodes s are all the main-file children of p from the i-th to the    *)
(* j-th: at[x] is the place of s[x] among the children.                    *)
MainRun(t, s, p, i, j) ==
  \E at \in [DOMAIN s -> i .. j] :
    /\ \A x \in DOMAIN s : s[x] = t.kids[p][at[x]] /\ s[x] \in t.main
    /\ \A x, y \in DOMAIN s : x < y => at[x] < at[y]
    /\ \A k \in i .. j : t.kids[p][k] \in t.main => \E x \in DOMAIN s : at[x] = k

SiblingRun(s) ==
  \E p \in Node : \E i, j \in DOMAIN tree.kids[p] : MainRun(tree, s, p, i, j)

(* The drawings before parseSubtreeToTemplate: a template is a run of      *)
(* whole siblings, never pieces of neighbouring subtrees, although the     *)
(* visitor only compares locations and never looks at parents.             *)
TemplateIsSiblingRun == TemplateParsed => SiblingRun(templateSubtrees)

(* The range r is exactly that of a run of siblings.                       *)
SpannedBy(r, p, i, j) ==
  /\ i <= j
  /\ \A k \in i .. j : tree.kids[p][k] \in tree.main
  /\ Spans(r, SubSeq(tree.kids[p], i, j))

Spanned ==
  \E p \in Node : \E i, j \in DOMAIN tree.kids[p] : SpannedBy(templ, p, i, j)

(* Case 5 of the comments: n starts with the template and is longer.       *)
CaseFive(n) ==
  n \in tree.main /\ Start(n) = templ.begin /\ LocGreater(End(n), templ.end)

(* The traversal stops at the first thing that does not fit, yet it throws *)
(* away no template it could have had: a range that a run of siblings      *)
(* spans is found, if no subtree around the run starts where it does.      *)
AllowedTemplateParsed ==
  (Spanned /\ \A n \in Node : ~ CaseFive(n)) => rejectedFor \notin TemplateErrors

(* The comment "Case 1, case 5: Simply descend into the subtree": a range  *)
(* that a run of siblings spans is found, be there a longer subtree with   *)
(* the same start or not.                                                  *)
CaseFiveDescended == Spanned => rejectedFor \notin TemplateErrors

(* parseMetavariables: a metavariable that is no longer to be parsed has   *)
(* been given nodes that span its range.                                   *)
MetavariableSpansRange ==
  \A m \in input.metavars \ remainingMetavariables : Spans(m.range, subtreesOf[m])

Bound(s) == {s[i] : i \in DOMAIN s}

(* Every metavariable stands for whole subtrees, its range is that of a    *)
(* run of siblings, and no two of them share a location.                   *)
CleanMetavariables(endOf(_)) ==
  \A m \in input.metavars :
    /\ ~ m.nameOnly
    /\ \E p \in Node : \E i, j \in DOMAIN tree.kids[p] :
         SpannedBy(m.range, p, i, j) /\ m.range.end = endOf(tree.kids[p][j])
    /\ \A k \in input.metavars : m # k => ~ Intersect(m.range, k.range)

(* The visitor looks below a node only for the first metavariable it finds *)
(* inside, and gives a metavariable up to the next one that begins, yet it *)
(* leaves none out: disjoint metavariables, each spanning a run of whole   *)
(* siblings up to the start of its last token, are all parsed.             *)
CleanMetavariablesParsed ==
  CleanMetavariables(End) => rejectedFor \notin MetavariableErrors

(* The comment "Expand the range to include the full trailing literal":    *)
(* the same holds when the range goes to the end of the last token.        *)
TrailingLiteralParsed ==
  CleanMetavariables(LAMBDA n : tree.endLit[n]) =>
    rejectedFor \notin MetavariableErrors

(* The overlaps that the configuration check lets through do no harm: in a *)
(* template that is parsed, no two metavariables that parameterise whole   *)
(* subtrees share a location.                                              *)
ParsedDisjoint ==
  phase = "parsed" =>
    \A m, k \in input.metavars :
      (m # k /\ ~ m.nameOnly /\ ~ k.nameOnly) => ~ Intersect(m.range, k.range)

(* The map of the template gives a node the metavariable it was added for, *)
(* even if it was bound implicitly before, as a member of a class.         *)
ExplicitWins ==
  \A m \in input.metavars : \A n \in Bound(subtreesOf[m]) :
    metavariables[n] = [identifier |-> m.identifier, nameOnly |-> m.nameOnly]

(* The nodes that the matcher comes to: the subtrees of the template, and  *)
(* what is below one it comes to, unless that maps to a metavariable which *)
(* stands for the whole of it.                                             *)
Whole(n) == n \in DOMAIN metavariables /\ ~ metavariables[n].nameOnly

Opened(V) ==
  /\ \A i \in DOMAIN templateSubtrees : templateSubtrees[i] \in V
  /\ \A n \in V : ~ Whole(n) => \A i \in DOMAIN tree.kids[n] : tree.kids[n][i] \in V

Reachable ==
  LET opened == {V \in SUBSET Node : Opened(V)}
  IN  {n \in Node : \A V \in opened : n \in V}

(* The comment "Don't descend further down the subtree [...] unless we're  *)
(* parsing a name-only metavar": the matcher does not either, so every     *)
(* node given to a metavariable must be one that the matcher comes to,     *)
(* whatever is nested in whatever else.  A metavariable that is bound      *)
(* elsewhere never gets a value.                                           *)
BoundAreReachable ==
  phase = "parsed" => \A m \in input.metavars : Bound(subtreesOf[m]) \subseteq Reachable

(* What the visitor relies on without saying so: the children that clang   *)
(* gives a node are its own, and nothing lies below itself.                *)
Closed(t, S) == \A n \in S : \A i \in DOMAIN t.kids[n] : t.kids[n][i] \in S

Subtree(t, n) ==
  {k \in Node : \A S \in SUBSET Node : (n \in S /\ Closed(t, S)) => k \in S}

IsTree(t) ==
  /\ \A n, p \in Node : \A i \in DOMAIN t.kids[n], j \in DOMAIN t.kids[p] :
       t.kids[n][i] = t.kids[p][j] => n = p /\ i = j
  /\ \A n \in Node : \A i \in DOMAIN t.kids[n] : n \notin Subtree(t, t.kids[n][i])

(* A node of the main file ends behind its start, and the node behind it   *)
(* starts behind the semicolon: not true of the declarators of int a, b;   *)
(* which all start with int.                                               *)
InOrder(t) ==
  /\ \A n \in t.main :
       /\ Valid(t.range[n])
       /\ LocLeq(t.range[n].end, t.endLit[n]) /\ LocLeq(t.endLit[n], t.endSemi[n])
  /\ \A p \in Node : \A i, j \in DOMAIN t.kids[p] :
       LET n == t.kids[p][i]  k == t.kids[p][j]
       IN  n \in t.main /\ k \in t.main /\ i < j =>
             LocLess(t.endSemi[n], t.range[k].begin)

(* What is below a node of the main file is written in it, and inside it.  *)
Nested(t) ==
  \A n \in t.main : \A i \in DOMAIN t.kids[n] :
    LET k == t.kids[n][i]
    IN  /\ k \in t.main
        /\ LocLeq(t.range[n].begin, t.range[k].begin)
        /\ LocLeq(t.endSemi[k], t.endSemi[n])

(* Node k ends where n does, or n has a token behind k and its semicolon.  *)
EndsIn(t, k, n) ==
  \/ /\ t.range[k].end = t.range[n].end
     /\ t.endLit[k] = t.endLit[n] /\ t.endSemi[k] = t.endSemi[n]
  \/ /\ LocLess(t.endLit[k], t.range[n].end)
     /\ LocLeq(t.endSemi[k], t.range[n].end)

(* What the main file has lies in it and below the translation unit, and   *)
(* each of its nodes inside one of it or directly below the translation    *)
(* unit, which is of no file.                                              *)
Enclosing(t) ==
  /\ t.main \subseteq Subtree(t, t.root) \ {t.root}
  /\ \A n \in t.main : EnclosedIn(RangeFrom(t.range[n].begin, t.endSemi[n]), t.fileRange)
  /\ \A n \in Node \ {t.root} : \A i \in DOMAIN t.kids[n] :
       LET k == t.kids[n][i]
       IN  k \in t.main =>
             n \in t.main /\ LocLeq(t.range[n].begin, t.range[k].begin) /\ EndsIn(t, k, n)

(* Both traversals come to an end.                                         *)
Terminates == <>(phase \in {"parsed", "rejected"})
=============================================================================
