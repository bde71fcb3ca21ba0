---------------------- MODULE LHSTemplateParserProofs ----------------------
(***************************************************************************)
(* What the parser finds has the ranges it was given, for any tree of any  *)
(* size, any locations in it and any metavariables.                        *)
(***************************************************************************)
EXTENDS LHSTemplateParser, TLAPS

(* A list of nodes on its way to spanning the range r.                     *)
Begun(s, r) ==
  /\ s \in Seq(Node)
  /\ s # << >> => Start(First(s)) = r.begin
  /\ \A i \in DOMAIN s : LocLeq(End(s[i]), r.end)

Ended(s, r) == s # << >> /\ EndsAt(Final(s), r.end)

FlagOK == templateConstructionBegan \in BOOLEAN

TemplateInv ==
  /\ Begun(templateSubtrees, templ)
  /\ templateConstructionBegan => templateSubtrees # << >>
  /\ TemplateParsed => Ended(templateSubtrees, templ)

BindingTypes ==
  /\ remainingMetavariables \subseteq input.metavars
  /\ parsingMetavariable \subseteq remainingMetavariables
  /\ DOMAIN metavariables \subseteq Node
  /\ DOMAIN subtreesOf = input.metavars
  /\ subtreesOf \in [input.metavars -> Seq(Node)]

(* A metavariable is taken up at the node it begins with, and laid down    *)
(* for good at one that ends where it does.                                *)
Followed(m) ==
  /\ Begun(subtreesOf[m], m.range)
  /\ m \in parsingMetavariable => subtreesOf[m] # << >>
  /\ m \notin remainingMetavariables => Ended(subtreesOf[m], m.range)

BindingInv == BindingTypes /\ \A m \in input.metavars : Followed(m)

StateInv ==
  /\ phase \in {"start", "template", "queue", "metavariables", "parsed",
               "rejected"}
  /\ rejectedFor \in {"none"} \cup TemplateErrors \cup MetavariableErrors
  /\ pending \in Seq(Node)
  /\ subtreeQueue \in Seq(Node)

IInv == input \in Input /\ FlagOK /\ StateInv /\ TemplateInv /\ BindingInv

-----------------------------------------------------------------------------

LEMMA InputTypes ==
  ASSUME input \in Input
  PROVE  /\ tree \in Tree /\ tree.root \in Node
         /\ \A n \in Node : tree.kids[n] \in Seq(Node)
         /\ \A n \in Node : tree.special[n] \subseteq Node
  BY DEF Input, Tree, tree

(* A list that is begun with the right node goes on with any that does not *)
(* reach beyond the range.                                                 *)
LEMMA AppendBegun ==
  ASSUME NEW s, NEW r, Begun(s, r), NEW n \in Node,
         LocLeq(End(n), r.end), s # << >> \/ Start(n) = r.begin
  PROVE  /\ Begun(Append(s, n), r) /\ Append(s, n) # << >>
         /\ Final(Append(s, n)) = n
<1> DEFINE u == Append(s, n)
<1>1. s \in Seq(Node) /\ Len(s) \in Nat /\ DOMAIN s = 1 .. Len(s)
  BY DEF Begun
<1>2. /\ u \in Seq(Node) /\ Len(u) = Len(s) + 1 /\ DOMAIN u = 1 .. Len(s) + 1
      /\ u[Len(s) + 1] = n /\ \A i \in 1 .. Len(s) : u[i] = s[i]
  BY <1>1
<1>3. u # << >>
  BY <1>1, <1>2
<1> HIDE DEF u
<1>4. \A i \in DOMAIN u : i \in DOMAIN s \/ i = Len(s) + 1
  BY <1>1, <1>2
<1>5. \A i \in DOMAIN u : LocLeq(End(u[i]), r.end)
  BY <1>1, <1>2, <1>4 DEF Begun
<1>6. Start(First(u)) = r.begin
  <2>1. CASE s = << >>
    <3>1. Len(s) = 0
      BY <2>1
    <3>2. First(u) = n
      BY <3>1, <1>2 DEF First
    <3> QED
      BY <3>2, <2>1
  <2>2. CASE s # << >>
    <3>1. 1 \in 1 .. Len(s)
      BY <2>2, <1>1
    <3>2. First(u) = First(s)
      BY <3>1, <1>2 DEF First
    <3> QED
      BY <3>2, <2>2 DEF Begun
  <2> QED
    BY <2>1, <2>2
<1>7. Final(u) = n
  BY <1>1, <1>2 DEF Final
<1>8. Begun(u, r)
  BY <1>2, <1>5, <1>6 DEF Begun
<1> QED
  BY <1>3, <1>7, <1>8 DEF u

(* What only looks at the input means the same in the next state.          *)
LEMMA SameMeaning ==
  ASSUME input' = input, NEW s, NEW r
  PROVE  /\ Begun(s, r) => Begun(s, r)'
         /\ Ended(s, r) => Ended(s, r)'
  BY DEF Begun, Ended, Start, End, EndsAt, tree

LEMMA TemplateKept ==
  ASSUME IInv, input' = input, UNCHANGED template,
         TemplateParsed' => TemplateParsed
  PROVE  TemplateInv' /\ FlagOK'
<1>1. /\ templateSubtrees' = templateSubtrees
      /\ templateConstructionBegan' = templateConstructionBegan
      /\ templ' = templ
  BY DEF template, templ
<1>2. FlagOK'
  BY <1>1, Zenon DEF IInv, FlagOK
<1>3. Begun(templateSubtrees, templ)'
  BY <1>1 DEF IInv, TemplateInv, Begun, Start, End, EndsAt, tree
<1>4. Ended(templateSubtrees, templ) => Ended(templateSubtrees, templ)'
  BY <1>1 DEF Ended, EndsAt, End, tree
<1>5. (templateConstructionBegan => templateSubtrees # << >>)'
  BY <1>1, Zenon DEF IInv, TemplateInv
<1>6. (TemplateParsed => Ended(templateSubtrees, templ))'
  BY <1>4 DEF IInv, TemplateInv
<1> QED
  BY <1>2, <1>3, <1>5, <1>6, Zenon DEF TemplateInv

LEMMA BindingKept ==
  ASSUME IInv, input' = input, UNCHANGED binding
  PROVE  BindingInv'
<1>1. /\ remainingMetavariables' = remainingMetavariables
      /\ parsingMetavariable' = parsingMetavariable
      /\ metavariables' = metavariables /\ subtreesOf' = subtreesOf
  BY DEF binding
<1>2. BindingTypes'
  BY <1>1 DEF IInv, BindingInv, BindingTypes
<1>3. ASSUME NEW m \in input.metavars
      PROVE  Followed(m)'
  BY <1>1, <1>3 DEF IInv, BindingInv, Followed, Begun, Ended, Start, End, EndsAt,
                    tree
<1> QED
  BY <1>2, <1>3 DEF BindingInv

LEMMA ThrowIInv ==
  ASSUME IInv, NEW why \in TemplateErrors \cup MetavariableErrors, Throw(why)
  PROVE  IInv'
<1>1. /\ input' = input /\ UNCHANGED template /\ UNCHANGED binding
      /\ pending' = pending /\ subtreeQueue' = subtreeQueue
      /\ phase' = "rejected" /\ rejectedFor' = why
  BY DEF Throw, template
<1>2. ~ TemplateParsed'
  BY <1>1 DEF TemplateParsed
<1>3. StateInv'
  BY <1>1 DEF IInv, StateInv
<1> QED
  BY <1>1, <1>2, <1>3, TemplateKept, BindingKept DEF IInv

(* A step that moves the traversal only.                                   *)
LEMMA MoveIInv ==
  ASSUME IInv, GoOn, UNCHANGED templateConstructionBegan,
         UNCHANGED templateSubtrees, UNCHANGED binding,
         subtreeQueue' \in Seq(Node), pending' \in Seq(Node),
         phase' \in {"template", "queue", "metavariables", "parsed"},
         TemplateParsed' => TemplateParsed
  PROVE  IInv'
<1>1. input' = input /\ rejectedFor' = rejectedFor
  BY DEF GoOn
<1>2. StateInv'
  BY <1>1 DEF IInv, StateInv
<1>3. templ' = templ
  BY <1>1 DEF templ
<1>4. FlagOK'
  BY Zenon DEF IInv, FlagOK
<1>5. TemplateInv'
  <2>1. Begun(templateSubtrees, templ)'
    BY <1>1, <1>3 DEF IInv, TemplateInv, Begun, Start, End, EndsAt, tree
  <2>2. Ended(templateSubtrees, templ) => Ended(templateSubtrees, templ)'
    BY <1>1, <1>3 DEF Ended, EndsAt, End, tree
  <2>3. (templateConstructionBegan => templateSubtrees # << >>)'
    BY Zenon DEF IInv, TemplateInv
  <2>4. (TemplateParsed => Ended(templateSubtrees, templ))'
    BY <2>2 DEF IInv, TemplateInv
  <2> QED
    BY <2>1, <2>3, <2>4, Zenon DEF TemplateInv
<1> QED
  BY <1>1, <1>2, <1>4, <1>5, BindingKept DEF IInv

LEMMA InitIInv ==
  ASSUME Init
  PROVE  IInv
<1>1. input \in Input
  BY InputsAssumption DEF Init
<1>2. FlagOK
  BY DEF Init, FlagOK
<1>3. StateInv
  BY DEF Init, StateInv
<1>4. TemplateInv
  BY DEF Init, TemplateInv, Begun, TemplateParsed
<1>5. BindingTypes
  BY DEF Init, BindingTypes
<1>6. ASSUME NEW m \in input.metavars
      PROVE  Followed(m)
  <2>1. subtreesOf[m] = << >> /\ m \in remainingMetavariables
        /\ m \notin parsingMetavariable
    BY <1>6 DEF Init
  <2> QED
    BY <2>1 DEF Followed, Begun
<1> QED
  BY <1>1, <1>2, <1>3, <1>4, <1>5, <1>6 DEF IInv, BindingInv

LEMMA SequenceFacts ==
  ASSUME NEW s \in Seq(Node)
  PROVE  /\ s # << >> => Head(s) \in Node /\ Tail(s) \in Seq(Node)
         /\ \A t \in Seq(Node) : t \o s \in Seq(Node)
  OBVIOUS

-----------------------------------------------------------------------------
(* The steps of the search for the template.                               *)

LEMMA CheckFileRangeIInv ==
  ASSUME IInv, CheckFileRange
  PROVE  IInv'
<1>1. CASE EnclosedIn(templ, tree.fileRange)
  <2>1. /\ GoOn /\ UNCHANGED template /\ UNCHANGED binding
        /\ phase' = "template" /\ pending' = tree.kids[tree.root]
    BY <1>1 DEF CheckFileRange
  <2>2. pending' \in Seq(Node)
    BY <2>1, InputTypes DEF IInv
  <2>3. subtreeQueue' \in Seq(Node)
    BY <2>1 DEF IInv, StateInv, template
  <2>4. ~ TemplateParsed'
    BY <2>1 DEF TemplateParsed
  <2> QED
    BY <2>1, <2>2, <2>3, <2>4, MoveIInv DEF template
<1>2. CASE ~ EnclosedIn(templ, tree.fileRange)
  <2>1. Throw("file range")
    BY <1>2 DEF CheckFileRange
  <2> QED
    BY <2>1, ThrowIInv DEF TemplateErrors
<1> QED
  BY <1>1, <1>2

LEMMA TemplateThrowsIInv ==
  ASSUME IInv, NEW n \in Node,
         \/ Overshot(n) \/ PartialSpan(n) \/ NoSubtreeForStart(n)
         \/ WillPartiallySpan(n) \/ NoTemplate
  PROVE  IInv'
<1>1. \E why \in TemplateErrors : Throw(why)
  BY DEF Overshot, PartialSpan, NoSubtreeForStart, WillPartiallySpan, NoTemplate,
         TemplateErrors
<1> QED
  BY <1>1, ThrowIInv

LEMMA WalkIInv ==
  ASSUME IInv, NEW n \in Node, SkipSubtree(n) \/ Descend(n)
  PROVE  IInv'
<1>1. pending \in Seq(Node) /\ pending # << >> /\ phase = "template"
  BY DEF IInv, StateInv, SkipSubtree, Descend, Visiting
<1>2. Tail(pending) \in Seq(Node) /\ tree.kids[n] \in Seq(Node)
  BY <1>1, SequenceFacts, InputTypes DEF IInv
<1>3. pending' \in Seq(Node)
  BY <1>2, SequenceFacts DEF SkipSubtree, Descend
<1>4. phase' = phase /\ UNCHANGED template /\ UNCHANGED binding /\ GoOn
  BY DEF SkipSubtree, Descend
<1>5. subtreeQueue' \in Seq(Node)
  BY <1>4 DEF IInv, StateInv, template
<1>6. TemplateParsed' => TemplateParsed
  BY <1>4 DEF TemplateParsed
<1>7. /\ UNCHANGED templateConstructionBegan /\ UNCHANGED templateSubtrees
      /\ phase' \in {"template", "queue", "metavariables", "parsed"}
  BY <1>1, <1>4 DEF template
<1> QED
  BY <1>3, <1>4, <1>5, <1>6, <1>7, MoveIInv

(* The template grows by a node that starts it or follows others, and is   *)
(* parsed when that node ends where the range does.                        *)
LEMMA AddTemplateSubtreeIInv ==
  ASSUME IInv, NEW n \in Node, AddTemplateSubtree(n)
  PROVE  IInv'
<1>1. /\ input' = input /\ rejectedFor' = rejectedFor
      /\ templateSubtrees' = Append(templateSubtrees, n)
      /\ templ' = templ /\ UNCHANGED binding
      /\ subtreeQueue' = Append(subtreeQueue, n)
  BY DEF AddTemplateSubtree, GoOn, templ
<1>2. templateConstructionBegan'
  BY DEF AddTemplateSubtree
<1>3. FlagOK'
  BY DEF AddTemplateSubtree, FlagOK
<1>4. StateInv'
  <2>1. pending \in Seq(Node) /\ pending # << >> /\ phase = "template"
        /\ subtreeQueue \in Seq(Node)
    BY DEF IInv, StateInv, AddTemplateSubtree, Visiting
  <2>2. Tail(pending) \in Seq(Node) /\ << >> \in Seq(Node)
    BY <2>1
  <2>3. pending' \in Seq(Node)
    BY <2>2 DEF AddTemplateSubtree
  <2>4. phase' \in {"queue", "template"}
    BY <2>1 DEF AddTemplateSubtree
  <2>5. subtreeQueue' \in Seq(Node)
    BY <2>1, <1>1
  <2> QED
    BY <1>1, <2>3, <2>4, <2>5 DEF IInv, StateInv
<1>5. templateSubtrees # << >> \/ Start(n) = templ.begin
  <2>1. templateConstructionBegan \/ Start(n) = templ.begin
    BY DEF AddTemplateSubtree, Constructing
  <2> QED
    BY <2>1, Zenon DEF IInv, TemplateInv
<1>6. LocLeq(End(n), templ.end)
  BY DEF AddTemplateSubtree, LocGreater
<1>7. /\ Begun(templateSubtrees', templ) /\ templateSubtrees' # << >>
      /\ Final(templateSubtrees') = n
  BY <1>1, <1>5, <1>6, AppendBegun DEF IInv, TemplateInv
<1>8. Begun(templateSubtrees, templ)'
  BY <1>1, <1>7 DEF Begun, Start, End, tree
<1>9. (TemplateParsed => Ended(templateSubtrees, templ))'
  <2> SUFFICES ASSUME TemplateParsed'
               PROVE  Ended(templateSubtrees, templ)'
    OBVIOUS
  <2>1. EndsAt(n, templ.end)
    BY DEF AddTemplateSubtree, Visiting, TemplateParsed
  <2> QED
    BY <2>1, <1>1, <1>7 DEF Ended, EndsAt, End, tree
<1>10. TemplateInv'
  BY <1>7, <1>8, <1>9, Zenon DEF TemplateInv
<1> QED
  BY <1>1, <1>3, <1>4, <1>10, BindingKept DEF IInv

-----------------------------------------------------------------------------
(* The steps of the search for metavariables.                              *)

LEMMA QueueIInv ==
  ASSUME IInv, TakeSubtree \/ SubtreeDone
  PROVE  IInv'
<1>1. /\ GoOn /\ UNCHANGED templateConstructionBegan
      /\ UNCHANGED templateSubtrees /\ UNCHANGED binding
      /\ phase \in {"queue", "metavariables"}
      /\ phase' \in {"queue", "metavariables"}
  BY DEF TakeSubtree, SubtreeDone, template
<1>2. pending \in Seq(Node) /\ subtreeQueue \in Seq(Node)
  BY DEF IInv, StateInv
<1>3. subtreeQueue' \in Seq(Node) /\ pending' \in Seq(Node)
  <2>1. CASE TakeSubtree
    <3>1. /\ subtreeQueue # << >> /\ pending' = <<Head(subtreeQueue)>>
          /\ subtreeQueue' = Tail(subtreeQueue)
      BY <2>1 DEF TakeSubtree
    <3>2. Head(subtreeQueue) \in Node /\ Tail(subtreeQueue) \in Seq(Node)
      BY <1>2, <3>1
    <3>3. <<Head(subtreeQueue)>> \in Seq(Node)
      BY <3>2
    <3> QED
      BY <3>1, <3>2, <3>3
  <2>2. CASE SubtreeDone
    BY <2>2, <1>2 DEF SubtreeDone, template
  <2> QED
    BY <2>1, <2>2
<1>4. TemplateParsed' => TemplateParsed
  BY <1>1 DEF TemplateParsed
<1> QED
  BY <1>1, <1>3, <1>4, MoveIInv

LEMMA FinishIInv ==
  ASSUME IInv, Finish
  PROVE  IInv'
<1>1. CASE remainingMetavariables = {}
  <2>1. /\ GoOn /\ UNCHANGED template /\ UNCHANGED binding
        /\ pending' = pending /\ phase = "queue" /\ phase' = "parsed"
    BY <1>1 DEF Finish
  <2>2. TemplateParsed
    BY <2>1 DEF TemplateParsed
  <2>3. subtreeQueue' \in Seq(Node) /\ pending' \in Seq(Node)
    BY <2>1 DEF IInv, StateInv, template
  <2> QED
    BY <2>1, <2>2, <2>3, MoveIInv DEF template
<1>2. CASE remainingMetavariables # {}
  <2>1. Throw("unparsed metavariables")
    BY <1>2 DEF Finish
  <2> QED
    BY <2>1, ThrowIInv DEF MetavariableErrors
<1> QED
  BY <1>1, <1>2

LEMMA MetavariableThrowsIInv ==
  ASSUME IInv, NEW n \in Node, RejectNameOnly(n) \/ RejectPartial(n)
  PROVE  IInv'
<1>1. \E why \in MetavariableErrors : Throw(why)
  BY DEF RejectNameOnly, RejectPartial, MetavariableErrors
<1> QED
  BY <1>1, ThrowIInv

LEMMA SubtreesToSearchType ==
  ASSUME IInv, NEW n \in Node
  PROVE  SubtreesToSearch(n) \in Seq(Node)
<1>1. tree.kids[n] \in Seq(Node)
  BY InputTypes DEF IInv
<1> QED
  BY <1>1 DEF SubtreesToSearch

LEMMA SearchSubtreesIInv ==
  ASSUME IInv, NEW n \in Node, SearchSubtrees(n)
  PROVE  IInv'
<1>1. pending \in Seq(Node) /\ pending # << >> /\ phase = "metavariables"
  BY DEF IInv, StateInv, SearchSubtrees, Searching
<1>2. Tail(pending) \in Seq(Node) /\ SubtreesToSearch(n) \in Seq(Node)
  BY <1>1, SequenceFacts, SubtreesToSearchType
<1>3. /\ pending' = SubtreesToSearch(n) \o Tail(pending)
      /\ phase' = phase /\ UNCHANGED template /\ UNCHANGED binding /\ GoOn
  BY DEF SearchSubtrees
<1>4. pending' \in Seq(Node)
  BY <1>2, <1>3, SequenceFacts
<1>5. subtreeQueue' \in Seq(Node)
  BY <1>3 DEF IInv, StateInv, template
<1>6. TemplateParsed' => TemplateParsed
  BY <1>3 DEF TemplateParsed
<1>7. /\ UNCHANGED templateConstructionBegan /\ UNCHANGED templateSubtrees
      /\ phase' \in {"template", "queue", "metavariables", "parsed"}
  BY <1>1, <1>3 DEF template
<1> QED
  BY <1>3, <1>4, <1>5, <1>6, <1>7, MoveIInv

(* A node goes to a metavariable that begins with it, or that has nodes    *)
(* before it.                                                              *)
LEMMA CurrentIsBegun ==
  ASSUME IInv, NEW n \in Node, NEW m \in Current(n)
  PROVE  /\ m \in remainingMetavariables /\ m \in input.metavars
         /\ subtreesOf[m] # << >> \/ Start(n) = m.range.begin
<1>1. CASE m \in parsingMetavariable
  BY <1>1 DEF IInv, BindingInv, BindingTypes, Followed
<1>2. CASE m \in Considered(n) /\ Begins(m, n)
  BY <1>2 DEF Considered, Begins, IInv, BindingInv, BindingTypes
<1>3. m \in parsingMetavariable \/ (m \in Considered(n) /\ Begins(m, n))
  BY DEF Current
<1> QED
  BY <1>1, <1>2, <1>3

LEMMA AddToMetavariableIInv ==
  ASSUME IInv, NEW n \in Node, AddToMetavariable(n)
  PROVE  IInv'
<1>1. PICK m \in Current(n) :
        /\ ~ LocGreater(End(n), m.range.end)
        /\ metavariables' = AddMetavariable(m, n)
        /\ subtreesOf' = [subtreesOf EXCEPT ![m] = Append(@, n)]
        /\ IF Completes(m, n)
             THEN /\ remainingMetavariables' = remainingMetavariables \ {m}
                  /\ parsingMetavariable' = {}
             ELSE /\ parsingMetavariable' = {m}
                  /\ UNCHANGED remainingMetavariables
        /\ pending' = SubtreesBelow(m, n) \o Tail(pending)
  BY DEF AddToMetavariable
<1>2. /\ input' = input /\ rejectedFor' = rejectedFor /\ phase' = phase
      /\ UNCHANGED template /\ phase = "metavariables" /\ pending # << >>
  BY DEF AddToMetavariable, GoOn, Searching
<1>3. /\ m \in remainingMetavariables /\ m \in input.metavars
      /\ subtreesOf[m] # << >> \/ Start(n) = m.range.begin
  BY CurrentIsBegun
<1>4. /\ BindingTypes /\ \A k \in input.metavars : Followed(k)
  BY DEF IInv, BindingInv
<1>5. StateInv'
  <2>1. Tail(pending) \in Seq(Node) /\ SubtreesBelow(m, n) \in Seq(Node)
    BY <1>2, SequenceFacts, SubtreesToSearchType DEF IInv, StateInv, SubtreesBelow
  <2>2. pending' \in Seq(Node)
    BY <1>1, <2>1, SequenceFacts
  <2>3. subtreeQueue' = subtreeQueue
    BY <1>2 DEF template
  <2> QED
    BY <1>2, <2>2, <2>3 DEF IInv, StateInv
<1>6. TemplateInv' /\ FlagOK'
  <2>1. TemplateParsed' => TemplateParsed
    BY <1>2 DEF TemplateParsed
  <2> QED
    BY <1>2, <2>1, TemplateKept
<1> DEFINE s == subtreesOf[m]
           u == Append(s, n)
<1>7. /\ Begun(u, m.range) /\ u # << >> /\ Final(u) = n
  <2>1. Begun(s, m.range)
    BY <1>3, <1>4 DEF Followed
  <2>2. LocLeq(End(n), m.range.end)
    BY <1>1 DEF LocGreater
  <2> QED
    BY <2>1, <2>2, <1>3, AppendBegun
<1>8. u \in Seq(Node)
  BY <1>7 DEF Begun
<1>9. /\ subtreesOf' \in [input.metavars -> Seq(Node)]
      /\ DOMAIN subtreesOf' = input.metavars
      /\ subtreesOf'[m] = u
      /\ \A k \in input.metavars : k # m => subtreesOf'[k] = subtreesOf[k]
  BY <1>1, <1>3, <1>4, <1>8 DEF BindingTypes
<1> HIDE DEF u, s
<1>10. BindingTypes'
  <2>1. remainingMetavariables' \subseteq input.metavars
        /\ parsingMetavariable' \subseteq remainingMetavariables'
    BY <1>1, <1>3, <1>4 DEF BindingTypes
  <2>2. DOMAIN metavariables' \subseteq Node
    <3>1. tree.special[n] \subseteq Node
      BY InputTypes DEF IInv
    <3>2. DOMAIN AddMetavariable(m, n)
            = DOMAIN metavariables \cup {n} \cup tree.special[n]
      BY DEF AddMetavariable
    <3> QED
      BY <1>1, <1>4, <3>1, <3>2 DEF BindingTypes
  <2> QED
    BY <2>1, <2>2, <1>2, <1>9 DEF BindingTypes
<1>11. ASSUME NEW k \in input.metavars
       PROVE  Followed(k)'
  <2>1. CASE k = m
    <3>1. Begun(subtreesOf[k], k.range)'
      BY <2>1, <1>2, <1>7, <1>9 DEF Begun, Start, End, tree
    <3>2. (k \notin remainingMetavariables => Ended(subtreesOf[k], k.range))'
      <4> SUFFICES ASSUME k \notin remainingMetavariables'
                   PROVE  Ended(subtreesOf[k], k.range)'
        OBVIOUS
      <4>1. EndsAt(n, m.range.end)
        BY <2>1, <1>1, <1>3 DEF Completes
      <4> QED
        BY <4>1, <2>1, <1>2, <1>7, <1>9 DEF Ended, EndsAt, End, tree
    <3> QED
      BY <3>1, <3>2, <2>1, <1>7, <1>9 DEF Followed
  <2>2. CASE k # m
    <3>1. subtreesOf'[k] = subtreesOf[k]
      BY <2>2, <1>9
    <3>2. k \notin parsingMetavariable'
      BY <2>2, <1>1
    <3>3. k \in remainingMetavariables' <=> k \in remainingMetavariables
      BY <2>2, <1>1
    <3>4. Followed(k)
      BY <1>4
    <3>5. Begun(subtreesOf[k], k.range)'
      BY <3>1, <3>4, <1>2 DEF Followed, Begun, Start, End, tree
    <3>6. (k \notin remainingMetavariables => Ended(subtreesOf[k], k.range))'
      BY <3>1, <3>3, <3>4, <1>2 DEF Followed, Ended, EndsAt, End, tree
    <3> QED
      BY <3>2, <3>5, <3>6 DEF Followed
  <2> QED
    BY <2>1, <2>2
<1> QED
  BY <1>2, <1>5, <1>6, <1>10, <1>11 DEF IInv, BindingInv

LEMMA StutterIInv ==
  ASSUME IInv, Finished \/ UNCHANGED vars
  PROVE  IInv'
<1>1. /\ input' = input /\ UNCHANGED template /\ UNCHANGED binding
      /\ phase' = phase /\ rejectedFor' = rejectedFor /\ pending' = pending
      /\ subtreeQueue' = subtreeQueue
  BY DEF Finished, vars, template
<1>2. TemplateParsed' => TemplateParsed
  BY <1>1 DEF TemplateParsed
<1>3. StateInv'
  BY <1>1 DEF IInv, StateInv
<1> QED
  BY <1>1, <1>2, <1>3, TemplateKept, BindingKept DEF IInv

-----------------------------------------------------------------------------

LEMMA NextIInv ==
  ASSUME IInv, [Next]_vars
  PROVE  IInv'
<1>1. CASE NoTemplate
  <2>1. Throw("no template")
    BY <1>1 DEF NoTemplate
  <2> QED
    BY <2>1, ThrowIInv DEF TemplateErrors
<1> QED
  BY <1>1, CheckFileRangeIInv, QueueIInv, FinishIInv, TemplateThrowsIInv, WalkIInv,
     AddTemplateSubtreeIInv, MetavariableThrowsIInv, AddToMetavariableIInv,
     SearchSubtreesIInv, StutterIInv DEF Next

(* The template and the lists of nodes of all metavariables are on their   *)
(* way to spanning their ranges, or have arrived, in every state.          *)
THEOREM Invariance == Spec => []IInv
<1> QED
  BY InitIInv, NextIInv, PTL DEF Spec

(* The parser's fields have their types, whatever the file.                *)
THEOREM TypeCorrect == Spec => []TypeOK
<1>1. IInv => TypeOK
  <2> SUFFICES ASSUME IInv
               PROVE  TypeOK
    OBVIOUS
  <2>1. templateConstructionBegan \in BOOLEAN
    BY Zenon DEF IInv, FlagOK
  <2>2. /\ input \in Input /\ templateSubtrees \in Seq(Node)
        /\ remainingMetavariables \subseteq input.metavars
        /\ parsingMetavariable \subseteq remainingMetavariables
        /\ DOMAIN metavariables \subseteq Node
        /\ subtreesOf \in [input.metavars -> Seq(Node)]
    BY DEF IInv, TemplateInv, Begun, BindingInv, BindingTypes
  <2>3. /\ phase \in {"start", "template", "queue", "metavariables", "parsed",
                      "rejected"}
        /\ rejectedFor \in {"none"} \cup TemplateErrors \cup MetavariableErrors
        /\ pending \in Seq(Node) /\ subtreeQueue \in Seq(Node)
    BY DEF IInv, StateInv
  <2> QED
    BY <2>1, <2>2, <2>3, Zenon DEF TypeOK
<1> QED
  BY <1>1, Invariance, PTL

(* A template that is parsed spans the range of the configuration exactly, *)
(* in trees of any shape, although the walk looks at locations only.       *)
THEOREM TemplatesSpanTheirRange == Spec => []TemplateSpansRange
<1>1. IInv => TemplateSpansRange
  BY DEF IInv, TemplateInv, TemplateSpansRange, Spans, Begun, Ended
<1> QED
  BY <1>1, Invariance, PTL

(* A metavariable that counts as parsed has nodes that span its range, for *)
(* any metavariables, even overlapping ones, in any tree.                  *)
THEOREM MetavariablesSpanTheirRange == Spec => []MetavariableSpansRange
<1>1. IInv => MetavariableSpansRange
  BY DEF IInv, BindingInv, Followed, MetavariableSpansRange, Spans, Begun, Ended
<1> QED
  BY <1>1, Invariance, PTL
=============================================================================
