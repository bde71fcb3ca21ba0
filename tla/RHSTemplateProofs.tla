------------------------- MODULE RHSTemplateProofs -------------------------
(***************************************************************************)
(* What is read of a right-hand side template, for any list of tokens and  *)
(* whatever uninitialised memory holds.                                    *)
(***************************************************************************)
EXTENDS RHSTemplate, WellFoundedInduction, TLAPS

(* The literal being read begins no later than behind the last token, and  *)
(* no later than a question mark that may turn out to be a metavariable's. *)
LiteralInv ==
  /\ lexed = 0 => literalRange.begin = 1
  /\ lexed # 0 =>
       /\ prev = input.tokens[lexed]
       /\ literalRange.begin <= prev.last + 1
       /\ prev.kind = "question" => literalRange.begin <= prev.begin

IInv == TypeOK /\ input \in Inputs /\ LiteralInv

-----------------------------------------------------------------------------

LEMMA InputTypes ==
  ASSUME input \in Inputs
  PROVE  /\ input \in Input /\ input.tokens \in Seq(Token) /\ input.ofMatcher \in BOOLEAN
         /\ input.matches \in Seq([Word -> SUBSET Binding])
         /\ AreTokens(input.tokens)
<1>1. input \in Input /\ AreTokens(input.tokens)
  BY InputsAssumption
<1> QED
  BY <1>1, Zenon DEF Input

LEMMA InitIInv == Init => IInv
<1> SUFFICES ASSUME Init PROVE IInv
  OBVIOUS
<1>1. input \in Input /\ prev \in Token
  BY InputsAssumption DEF Init
<1>2. input.tokens \in Seq(Token) /\ input.matches \in Seq([Word -> SUBSET Binding])
  BY InputTypes DEF Init
<1>3. lexed \in 0 .. Len(input.tokens) /\ Len(instances) <= Len(input.matches)
  BY <1>2 DEF Init
<1>4. TypeOK
  BY <1>1, <1>3 DEF Init, TypeOK
<1> QED
  BY <1>4 DEF Init, IInv, LiteralInv

(* The next token begins behind the last one, and behind white space if it *)
(* is the first one: what memory prev started with does not matter.        *)
LEMMA NextToken ==
  ASSUME IInv, Lex
  PROVE  /\ curr \in Token /\ lexed' \in 1 .. Len(input.tokens) /\ lexed' = lexed + 1
         /\ prev' = curr /\ curr = input.tokens[lexed'] /\ curr.begin <= curr.last
         /\ literalRange.begin <= curr.begin
         /\ lexed = 0 => curr.apart
<1>1. input.tokens \in Seq(Token) /\ AreTokens(input.tokens)
  BY InputTypes DEF IInv
<1>2. lexed \in Nat /\ lexed < Len(input.tokens) /\ lexed' = lexed + 1 /\ prev' = curr
      /\ Len(input.tokens) \in Nat
  BY <1>1 DEF IInv, TypeOK, Lex
<1>3. lexed + 1 \in 1 .. Len(input.tokens) /\ DOMAIN input.tokens = 1 .. Len(input.tokens)
  BY <1>1, <1>2
<1>4. curr \in Token /\ curr = input.tokens[lexed + 1]
  BY <1>1, <1>3 DEF curr
<1>5. curr.begin <= curr.last /\ (lexed = 0 => curr.apart)
  BY <1>1, <1>2, <1>3, <1>4 DEF AreTokens
<1>6. literalRange.begin <= curr.begin
  <2>1. CASE lexed = 0
    BY <2>1, <1>4 DEF IInv, LiteralInv, Token
  <2>2. CASE lexed # 0
    <3>1. lexed \in DOMAIN input.tokens /\ lexed + 1 \in DOMAIN input.tokens \ {1}
      BY <2>2, <1>2, <1>3
    <3>2. /\ input.tokens[lexed + 1].apart =>
               input.tokens[lexed].last + 1 < input.tokens[lexed + 1].begin
          /\ ~ input.tokens[lexed + 1].apart =>
               input.tokens[lexed].last + 1 = input.tokens[lexed + 1].begin
      <4>1. (lexed + 1) - 1 = lexed
        BY <1>2
      <4>2. IF input.tokens[lexed + 1].apart
              THEN input.tokens[(lexed + 1) - 1].last + 1 < input.tokens[lexed + 1].begin
              ELSE input.tokens[(lexed + 1) - 1].last + 1 = input.tokens[lexed + 1].begin
        BY <1>1, <3>1, Zenon DEF AreTokens
      <4> QED
        BY <4>1, <4>2
    <3>3. prev.last + 1 <= curr.begin /\ prev \in Token
      <4>1. prev = input.tokens[lexed] /\ prev \in Token
        BY <2>2 DEF IInv, LiteralInv, TypeOK
      <4>2. prev.last \in Nat /\ curr.begin \in Nat /\ curr.apart \in BOOLEAN
        BY <4>1, <1>4 DEF Token
      <4>3. CASE curr.apart
        BY <4>1, <4>2, <4>3, <3>2, <1>4
      <4>4. CASE ~ curr.apart
        BY <4>1, <4>2, <4>4, <3>2, <1>4
      <4> QED
        BY <4>1, <4>3, <4>4, <4>2
    <3>4. literalRange.begin \in Nat /\ literalRange.begin <= prev.last + 1
      BY <2>2 DEF IInv, LiteralInv, TypeOK
    <3> QED
      BY <3>3, <3>4, <1>4 DEF Token
  <2> QED
    BY <2>1, <2>2
<1> QED
  BY <1>2, <1>3, <1>4, <1>5, <1>6

-----------------------------------------------------------------------------
(* Reading.                                                                *)

LEMMA PartTypes ==
  /\ \A b, e \in Nat \ {0} : Literal(b, e) \in Part
  /\ \A w \in Word : Metavariable(w) \in Part
  BY DEF Literal, Metavariable, Part

LEMMA LexIInv == ASSUME IInv, LexMetaparameter \/ LexLiteral PROVE IInv'
<1>1. Lex /\ UNCHANGED <<input, phase, instances, instantiated, used>>
  BY DEF LexMetaparameter, LexLiteral
<1>2. /\ curr \in Token /\ lexed' \in 1 .. Len(input.tokens) /\ lexed' = lexed + 1
      /\ prev' = curr /\ curr = input.tokens[lexed'] /\ curr.begin <= curr.last
      /\ literalRange.begin <= curr.begin
      /\ lexed = 0 => curr.apart
  BY <1>1, NextToken
<1>3. /\ curr.begin \in Nat \ {0} /\ curr.last \in Nat \ {0} /\ curr.word \in Word
      /\ EndLoc(curr) \in Nat \ {0}
  BY <1>2 DEF Token, EndLoc
<1>4. /\ parts \in Seq(Part) /\ literalRange \in [begin : Nat \ {0}, end : Nat \ {0}]
      /\ used \in 0 .. Len(parts) /\ lexed \in 0 .. Len(input.tokens)
  BY DEF IInv, TypeOK
<1>5. /\ parts' \in Seq(Part) /\ Len(parts) <= Len(parts')
      /\ literalRange' \in [begin : Nat \ {0}, end : Nat \ {0}]
      /\ literalRange'.begin <= curr.last + 1
      /\ curr.kind = "question" => literalRange'.begin <= curr.begin
  <2>1. CASE LexMetaparameter
    <3>1. IsMetaparameter(curr, prev)
      BY <2>1 DEF LexMetaparameter
    <3>2. curr.kind = "identifier" /\ prev.kind = "question" /\ lexed # 0
      BY <3>1, <1>2 DEF IsMetaparameter
    <3>3. literalRange.begin <= prev.begin /\ prev.begin \in Nat \ {0}
      BY <3>2 DEF IInv, LiteralInv, TypeOK, Token
    <3>4. LiteralBefore(prev) \in Seq(Part)
      <4>1. CASE prev.begin = literalRange.begin
        BY <4>1 DEF LiteralBefore
      <4>2. CASE prev.begin # literalRange.begin
        <5>1. Literal(literalRange.begin, prev.begin - 1) \in Part
          BY <4>2, <3>3, <1>4, PartTypes
        <5> QED
          BY <5>1, <4>2 DEF LiteralBefore
      <4> QED
        BY <4>1, <4>2
    <3>5. <<Metavariable(curr.word)>> \in Seq(Part)
      BY <1>3, PartTypes
    <3>6. parts' = parts \o LiteralBefore(prev) \o <<Metavariable(curr.word)>>
      BY <2>1 DEF LexMetaparameter
    <3>7. /\ parts' \in Seq(Part)
          /\ Len(parts') = Len(parts) + Len(LiteralBefore(prev)) + 1
      BY <3>4, <3>5, <3>6, <1>4
    <3>8. Len(LiteralBefore(prev)) \in Nat /\ Len(parts) \in Nat
      BY <3>4, <1>4
    <3>9. literalRange' = [begin |-> EndLoc(curr), end |-> EndLoc(curr)]
      BY <2>1 DEF LexMetaparameter
    <3> QED
      BY <3>2, <3>7, <3>8, <3>9, <1>3 DEF EndLoc
  <2>2. CASE LexLiteral
    <3>1. literalRange' = [literalRange EXCEPT !.end = EndLoc(curr)] /\ parts' = parts
      BY <2>2 DEF LexLiteral
    <3>2. literalRange'.begin = literalRange.begin
      BY <3>1, <1>4
    <3> QED
      BY <3>1, <3>2, <1>2, <1>3, <1>4
  <2> QED
    BY <2>1, <2>2
<1>6. used' \in 0 .. Len(parts')
  BY <1>1, <1>4, <1>5
<1>7. lexed' \in 0 .. Len(input.tokens)
  BY <1>2
<1>8. TypeOK'
  BY <1>1, <1>2, <1>5, <1>6, <1>7 DEF IInv, TypeOK
<1>9. LiteralInv'
  BY <1>1, <1>2, <1>4, <1>5 DEF LiteralInv
<1> QED
  BY <1>1, <1>8, <1>9 DEF IInv

LEMMA EndLexingIInv == ASSUME IInv, EndLexing PROVE IInv'
<1>1. /\ UNCHANGED <<input, lexed, prev, literalRange, instances, instantiated, used>>
      /\ parts' = parts \o FinalLiteral /\ phase' = "instantiate"
  BY DEF EndLexing
<1>2. parts \in Seq(Part) /\ used \in 0 .. Len(parts)
  BY DEF IInv, TypeOK
<1>3. FinalLiteral \in Seq(Part)
  <2>1. Literal(literalRange.begin, literalRange.end) \in Part
    BY PartTypes DEF IInv, TypeOK
  <2> QED
    BY <2>1 DEF FinalLiteral
<1>4. parts' \in Seq(Part) /\ used' \in 0 .. Len(parts')
  <2>1. Len(parts \o FinalLiteral) = Len(parts) + Len(FinalLiteral)
    BY <1>2, <1>3
  <2> QED
    BY <2>1, <1>1, <1>2, <1>3
<1>5. TypeOK'
  BY <1>1, <1>4 DEF IInv, TypeOK
<1> QED
  BY <1>1, <1>5 DEF IInv, LiteralInv

-----------------------------------------------------------------------------
(* Instantiating.                                                          *)

LEMMA CharactersType ==
  ASSUME NEW of \in {"template", "source"}, NEW from \in Nat \ {0}, NEW to \in Nat
  PROVE  Characters(of, from, to) \in Seq(Character)
<1> DEFINE n == IF to - from + 1 < 0 THEN 0 ELSE to - from + 1
<1>1. n \in Nat /\ 1 .. to - from + 1 = 1 .. n
  OBVIOUS
<1>2. \A k \in 1 .. n : <<of, from + k - 1>> \in Character
  <2> SUFFICES ASSUME NEW k \in 1 .. n PROVE <<of, from + k - 1>> \in Character
    OBVIOUS
  <2>1. from + k - 1 \in Nat \ {0}
    BY <1>1
  <2> QED
    BY <2>1 DEF Character
<1> HIDE DEF n
<1>3. Characters(of, from, to) \in [1 .. n -> Character]
  BY <1>1, <1>2 DEF Characters
<1> QED
  BY <1>1, <1>3

LEMMA RangeTypes ==
  ASSUME NEW nodes \in Seq(Span), nodes # << >>
  PROVE  /\ RangeIncludingSemi(nodes).from \in Nat \ {0}
         /\ RangeIncludingSemi(nodes).to \in Nat
<1>1. nodes[1] \in Span /\ nodes[Len(nodes)] \in Span
  BY Len(nodes) >= 1
<1> QED
  BY <1>1 DEF Span, RangeIncludingSemi

LEMMA BoundTypes ==
  ASSUME IInv, AtMetavariable, NEW b \in bindings[part.content]
  PROVE  b.name \in Word /\ b.nodes \in Seq(Span) /\ b.nodes # << >>
<1>1. /\ parts \in Seq(Part) /\ used \in 0 .. Len(parts) /\ used < Len(parts)
      /\ part.type = "metavariable" /\ Len(instances) < Len(input.matches)
      /\ instances \in Seq(Seq(Character))
  BY DEF IInv, TypeOK, AtMetavariable, Instantiating
<1>2. part \in Part
  BY <1>1 DEF part
<1>3. part.content \in Word
  BY <1>1, <1>2 DEF Part
<1>4. input.matches \in Seq([Word -> SUBSET Binding])
  BY InputTypes DEF IInv
<1>5. Len(instances) + 1 \in DOMAIN input.matches
  BY <1>1, <1>4
<1>6. bindings \in [Word -> SUBSET Binding]
  BY <1>4, <1>5 DEF bindings
<1>7. b \in Binding
  BY <1>3, <1>6
<1>8. b.nodes # << >>
  BY <1>3, <1>5, InputsAssumption DEF IInv, bindings
<1> QED
  BY <1>7, <1>8 DEF Binding

LEMMA EmitIInv ==
  ASSUME IInv, NEW text \in Seq(Character), Emit(text), used < Len(parts)
  PROVE  IInv'
<1>1. instantiated \in Seq(Character) /\ used \in 0 .. Len(parts) /\ parts \in Seq(Part)
  BY DEF IInv, TypeOK
<1>2. instantiated' \in Seq(Character) /\ used' \in 0 .. Len(parts)
  BY <1>1 DEF Emit
<1>3. UNCHANGED <<reading, phase, instances>>
  BY DEF Emit
<1>4. TypeOK'
  BY <1>2, <1>3 DEF IInv, TypeOK, reading
<1> QED
  BY <1>3, <1>4 DEF IInv, LiteralInv, reading

LEMMA InstantiateLiteralIInv == ASSUME IInv, InstantiateLiteral PROVE IInv'
<1>1. /\ parts \in Seq(Part) /\ used \in 0 .. Len(parts) /\ used < Len(parts)
      /\ part.type = "literal"
      /\ Emit(Characters("template", part.from, part.to))
  BY DEF IInv, TypeOK, InstantiateLiteral
<1>2. part \in Part
  BY <1>1 DEF part
<1>3. part.from \in Nat \ {0} /\ part.to \in Nat
  BY <1>1, <1>2 DEF Part
<1>4. Characters("template", part.from, part.to) \in Seq(Character)
  BY <1>3, CharactersType
<1> QED
  BY <1>1, <1>4, EmitIInv

LEMMA InstantiateMetavariableIInv ==
  ASSUME IInv, InstantiateUnbound \/ InstantiateName \/ InstantiateNode \/ InstantiateNodes
  PROVE  IInv'
<1>1. AtMetavariable /\ used < Len(parts)
  BY DEF InstantiateUnbound, InstantiateName, InstantiateNode, InstantiateNodes,
         AtMetavariable
<1>2. \E text \in Seq(Character) : Emit(text)
  <2>1. CASE InstantiateUnbound
    <3>1. << >> \in Seq(Character)
      OBVIOUS
    <3> QED
      BY <2>1, <3>1, Zenon DEF InstantiateUnbound
  <2>2. CASE InstantiateName
    <3>1. PICK b \in bindings[part.content] : Emit(<< <<"name", b.name>> >>)
      BY <2>2 DEF InstantiateName
    <3>2. <<"name", b.name>> \in Character
      BY <1>1, BoundTypes DEF Character
    <3>3. << <<"name", b.name>> >> \in Seq(Character)
      BY <3>2
    <3> QED
      BY <3>1, <3>3, Zenon
  <2>3. CASE InstantiateNode
    <3>1. PICK b \in bindings[part.content] :
            Emit(Characters("source", RangeOfNode(b.nodes[1]).from,
                                      RangeOfNode(b.nodes[1]).to))
      BY <2>3 DEF InstantiateNode
    <3>2. b.nodes \in Seq(Span) /\ b.nodes # << >>
      BY <1>1, BoundTypes
    <3>3. b.nodes[1] \in Span
      BY <3>2, Len(b.nodes) >= 1
    <3>4. <<b.nodes[1]>> \in Seq(Span) /\ <<b.nodes[1]>> # << >>
      BY <3>3
    <3>5. /\ RangeOfNode(b.nodes[1]).from \in Nat \ {0}
          /\ RangeOfNode(b.nodes[1]).to \in Nat
      BY <3>4, RangeTypes DEF RangeOfNode
    <3>6. Characters("source", RangeOfNode(b.nodes[1]).from,
                               RangeOfNode(b.nodes[1]).to) \in Seq(Character)
      BY <3>5, CharactersType
    <3> QED
      BY <3>1, <3>6, Zenon
  <2>4. CASE InstantiateNodes
    <3>1. PICK b \in bindings[part.content] :
            Emit(Characters("source", RangeIncludingSemi(b.nodes).from,
                                      RangeIncludingSemi(b.nodes).to))
      BY <2>4 DEF InstantiateNodes
    <3>2. b.nodes \in Seq(Span) /\ b.nodes # << >>
      BY <1>1, BoundTypes
    <3>3. /\ RangeIncludingSemi(b.nodes).from \in Nat \ {0}
          /\ RangeIncludingSemi(b.nodes).to \in Nat
      BY <3>2, RangeTypes
    <3>4. Characters("source", RangeIncludingSemi(b.nodes).from,
                               RangeIncludingSemi(b.nodes).to) \in Seq(Character)
      BY <3>3, CharactersType
    <3> QED
      BY <3>1, <3>4, Zenon
  <2> QED
    BY <2>1, <2>2, <2>3, <2>4
<1> QED
  BY <1>1, <1>2, EmitIInv

LEMMA OtherStepsIInv ==
  ASSUME IInv, InstantiateCrashes \/ End \/ UNCHANGED vars
  PROVE  IInv'
<1>1. /\ UNCHANGED <<reading, instances, instantiated, used>>
      /\ phase' = phase \/ phase' \in {"crashed", "end"}
  BY DEF InstantiateCrashes, End, vars, reading
<1>2. TypeOK'
  BY <1>1 DEF IInv, TypeOK, reading
<1> QED
  BY <1>1, <1>2 DEF IInv, LiteralInv, reading

LEMMA ReturnIInv == ASSUME IInv, ReturnInstance PROVE IInv'
<1>1. /\ instances \in Seq(Seq(Character)) /\ instantiated \in Seq(Character)
      /\ Len(instances) < Len(input.matches) /\ parts \in Seq(Part)
      /\ instances' = Append(instances, instantiated) /\ instantiated' = << >>
      /\ used' = 0 /\ UNCHANGED <<reading, phase>>
  BY DEF IInv, TypeOK, ReturnInstance, Instantiating
<1>2. input.matches \in Seq([Word -> SUBSET Binding])
  BY InputTypes DEF IInv
<1>3. instances' \in Seq(Seq(Character)) /\ Len(instances') <= Len(input.matches)
  BY <1>1, <1>2
<1>4. instantiated' \in Seq(Character) /\ used' \in 0 .. Len(parts)
  BY <1>1
<1>5. TypeOK'
  BY <1>1, <1>3, <1>4 DEF IInv, TypeOK, reading
<1> QED
  BY <1>1, <1>5 DEF IInv, LiteralInv, reading

LEMMA NextIInv == IInv /\ [Next]_vars => IInv'
<1> SUFFICES ASSUME IInv, [Next]_vars PROVE IInv'
  OBVIOUS
<1>1. CASE Finished
  BY <1>1, OtherStepsIInv DEF Finished
<1> QED
  BY <1>1, LexIInv, EndLexingIInv, InstantiateLiteralIInv, InstantiateMetavariableIInv,
     OtherStepsIInv, ReturnIInv DEF Next

(* The reader's fields have their types, whatever the template and the     *)
(* matches: a literal never starts behind the question mark that ends it,  *)
(* and what prev held before the first token makes no difference.          *)
THEOREM TypeCorrect == Spec => []TypeOK
<1>1. IInv => TypeOK
  BY DEF IInv
<1> QED
  BY <1>1, InitIInv, NextIInv, PTL DEF Spec
-----------------------------------------------------------------------------
(* Texts made of pieces.                                                   *)

(* Induction for sets of numbers, from their least elements.               *)
LEMMA Induction ==
  ASSUME NEW S, 0 \in S, \A n \in Nat : n \in S => n + 1 \in S
  PROVE  Nat \subseteq S
<1> DEFINE R == OpToRel(<, Nat)
           T == Nat \ S
<1>1. IsWellFoundedOn(R, Nat)
  BY NatLessThanWellFounded
<1>2. \A x, y \in Nat : x < y => <<x, y>> \in R
  BY DEF OpToRel
<1> SUFFICES ASSUME T # {} PROVE FALSE
  OBVIOUS
<1> HIDE DEF R
<1>3. PICK x \in T : \A y \in T : <<y, x>> \notin R
  BY <1>1, WFMin, T \subseteq Nat
<1>4. x # 0 /\ x - 1 \in Nat
  BY <1>3
<1>5. x - 1 \in S
  <2>1. x \in Nat /\ x - 1 < x
    BY <1>3
  <2>2. <<x - 1, x>> \in R
    BY <1>2, <1>4, <2>1
  <2> QED
    BY <1>3, <1>4, <2>2
<1> QED
  BY <1>3, <1>4, <1>5

(* The texts of the first pieces of s: none, one, ..., n.                  *)
IsBuilt(G, s, n) ==
  G[0] = << >> /\ \A i \in 1 .. n : G[i] = G[i - 1] \o s[i]

LEMMA Building ==
  ASSUME NEW A, NEW s \in Seq(Seq(A))
  PROVE  \E G \in [0 .. Len(s) -> Seq(A)] : IsBuilt(G, s, Len(s))
<1> DEFINE Builds(n) == \E G \in [0 .. n -> Seq(A)] : IsBuilt(G, s, n)
           S == {n \in Nat : n <= Len(s) => Builds(n)}
<1>1. Len(s) \in Nat /\ \A i \in 1 .. Len(s) : s[i] \in Seq(A)
  OBVIOUS
<1>2. Builds(0)
  <2> DEFINE G == [i \in 0 .. 0 |-> << >>]
  <2>1. G \in [0 .. 0 -> Seq(A)] /\ IsBuilt(G, s, 0)
    BY DEF IsBuilt
  <2> QED
    BY <2>1
<1>3. ASSUME NEW n \in Nat, n + 1 <= Len(s), Builds(n)
      PROVE  Builds(n + 1)
  <2>1. n + 1 \in 1 .. Len(s)
    BY <1>1, <1>3
  <2>2. PICK G \in [0 .. n -> Seq(A)] : IsBuilt(G, s, n)
    BY <1>3
  <2> DEFINE H == [i \in 0 .. n + 1 |-> IF i <= n THEN G[i] ELSE G[n] \o s[n + 1]]
  <2>3. s[n + 1] \in Seq(A) /\ G[n] \in Seq(A)
    BY <1>1, <2>1
  <2>4. G[n] \o s[n + 1] \in Seq(A)
    BY <2>3
  <2>5. H \in [0 .. n + 1 -> Seq(A)]
    BY <2>4
  <2>6. H[0] = << >>
    BY <2>2 DEF IsBuilt
  <2>7. ASSUME NEW i \in 1 .. n + 1
        PROVE  H[i] = H[i - 1] \o s[i]
    <3>1. CASE i = n + 1
      <4>1. H[n + 1] = G[n] \o s[n + 1] /\ H[n] = G[n] /\ i - 1 = n
        BY <3>1
      <4> HIDE DEF H
      <4> QED
        BY <4>1, <3>1
    <3>2. CASE i # n + 1
      <4>1. i \in 1 .. n /\ i - 1 \in 0 .. n + 1 /\ i \in 0 .. n + 1
        BY <3>2
      <4>2. H[i] = G[i] /\ H[i - 1] = G[i - 1]
        BY <4>1
      <4> QED
        BY <2>2, <4>1, <4>2 DEF IsBuilt
    <3> QED
      BY <3>1, <3>2
  <2> HIDE DEF H
  <2>8. IsBuilt(H, s, n + 1)
    BY <2>6, <2>7, Zenon DEF IsBuilt
  <2> QED
    BY <2>5, <2>8, Zenon
<1> HIDE DEF Builds
<1>4. 0 \in S
  BY <1>2
<1>5. ASSUME NEW n \in Nat, n \in S
      PROVE  n + 1 \in S
  <2>1. n + 1 <= Len(s) => n <= Len(s)
    BY <1>1
  <2> QED
    BY <1>3, <1>5, <2>1
<1>6. Len(s) \in S
  <2> HIDE DEF S
  <2> QED
    BY <1>1, <1>4, <1>5, Induction
<1>7. Builds(Len(s))
  BY <1>1, <1>6
<1> QED
  BY <1>7, Zenon DEF Builds

(* FlattenSeq finds the last one of these texts.                           *)
LEMMA Flattening ==
  ASSUME NEW A, NEW s \in Seq(Seq(A)),
         NEW G \in [0 .. Len(s) -> Seq(A)], IsBuilt(G, s, Len(s))
  PROVE  FlattenSeq(s) = G[Len(s)]
<1> DEFINE N == Len(s)
<1>1. N \in Nat /\ (\A i \in 1 .. N : s[i] \in Seq(A)) /\ G[0] = << >>
  BY DEF IsBuilt
<1>2. \A k \in Nat : \A i \in 1 .. N : i = k + 1 => G[i] = G[k] \o s[i]
  <2>1. ASSUME NEW k \in Nat, NEW i \in 1 .. N, i = k + 1
        PROVE  G[i] = G[k] \o s[i]
    <3>1. i - 1 = k
      BY <2>1
    <3> QED
      BY <3>1, Zenon DEF IsBuilt
  <2> QED
    BY <2>1
<1>3. CASE N = 0
  <2>1. s = << >>
    BY <1>3
  <2> QED
    BY <1>1, <1>3, <2>1 DEF FlattenSeq
<1>4. CASE N # 0
  <2>0. 1 \in 1 .. N /\ G[1] = G[0] \o s[1]
    <3>1. 0 \in Nat /\ 1 \in 1 .. N /\ 1 = 0 + 1
      BY <1>1, <1>4
    <3> QED
      BY <1>2, <3>1, Zenon
  <2> DEFINE f == CHOOSE f : f = [i \in 1 .. Len(s) |-> IF i = 1 THEN s[i]
                                                        ELSE f[i - 1] \o s[i]]
             F == [i \in 1 .. N |-> G[i]]
             U == {n \in Nat : n + 1 <= N => f[n + 1] = G[n + 1]}
  <2>1. FlattenSeq(s) = f[N]
    BY <1>4 DEF FlattenSeq
  <2>2. ASSUME NEW i \in 1 .. N
        PROVE  G[i] = IF i = 1 THEN s[i] ELSE F[i - 1] \o s[i]
    <3>1. CASE i = 1
      <4>1. G[1] = G[0] \o s[1]
        BY <2>0
      <4>2. s[1] \in Seq(A)
        BY <1>1, <3>1
      <4> QED
        BY <1>1, <3>1, <4>1, <4>2
    <3>2. CASE i # 1
      <4>1. i - 1 \in 1 .. N
        BY <3>2
      <4>2. F[i - 1] = G[i - 1] /\ i - 1 \in Nat /\ i = i - 1 + 1
        BY <4>1
      <4>3. G[i] = G[i - 1] \o s[i]
        BY <1>2, <4>2
      <4> HIDE DEF F
      <4> QED
        BY <3>2, <4>2, <4>3
    <3> QED
      BY <3>1, <3>2
  <2>3. F = [i \in 1 .. Len(s) |-> IF i = 1 THEN s[i] ELSE F[i - 1] \o s[i]]
    BY <2>2
  <2>4. f = [i \in 1 .. Len(s) |-> IF i = 1 THEN s[i] ELSE f[i - 1] \o s[i]]
    <3> HIDE DEF F
    <3> QED
      BY <2>3, Zenon
  <2> HIDE DEF f, F
  <2>5. 0 \in U
    <3>1. 1 \in 1 .. N
      BY <1>1, <1>4
    <3>2. f[1] = s[1]
      BY <2>4, <3>1
    <3>3. G[1] = G[0] \o s[1] /\ s[1] \in Seq(A)
      BY <1>1, <2>0
    <3>4. f[1] = G[1]
      BY <1>1, <3>2, <3>3
    <3> QED
      BY <3>4
  <2>6. ASSUME NEW n \in Nat, n \in U
        PROVE  n + 1 \in U
    <3>1. ASSUME n + 1 + 1 <= N
          PROVE  f[n + 1 + 1] = G[n + 1 + 1]
      <4>1. /\ n + 1 + 1 \in 1 .. N /\ n + 1 + 1 # 1 /\ n + 1 + 1 - 1 = n + 1
            /\ n + 1 <= N
        BY <1>1, <3>1
      <4>2. f[n + 1 + 1] = f[n + 1] \o s[n + 1 + 1]
        <5> DEFINE i == n + 1 + 1
        <5>1. i \in 1 .. N /\ i # 1 /\ i - 1 = n + 1
          BY <4>1
        <5> HIDE DEF i
        <5>2. f[i] = f[i - 1] \o s[i]
          BY <2>4, <5>1
        <5>3. f[i] = f[n + 1] \o s[i]
          BY <5>1, <5>2, Zenon
        <5> QED
          BY <5>3 DEF i
      <4>3. G[n + 1 + 1] = G[n + 1] \o s[n + 1 + 1]
        <5>1. n + 1 \in Nat
          OBVIOUS
        <5> QED
          BY <1>2, <4>1, <5>1, Zenon
      <4>4. f[n + 1] = G[n + 1]
        BY <2>6, <4>1
      <4> QED
        BY <4>1, <4>2, <4>3, <4>4, Zenon
    <3> QED
      BY <3>1
  <2>7. N - 1 \in Nat /\ N - 1 + 1 = N
    BY <1>1, <1>4
  <2>8. N - 1 \in U
    <3> HIDE DEF U
    <3> QED
      BY <2>5, <2>6, <2>7, Induction
  <2>9. f[N] = G[N]
    BY <1>1, <2>7, <2>8
  <2> QED
    BY <2>1, <2>9
<1> QED
  BY <1>3, <1>4

-----------------------------------------------------------------------------
(* What a template says.                                                   *)

LEMMA TokenTypes ==
  ASSUME NEW tokens \in Seq(Token), AreTokens(tokens)
  PROVE  /\ Len(tokens) \in Nat /\ DOMAIN tokens = 1 .. Len(tokens)
         /\ \A i \in 1 .. Len(tokens) :
              /\ tokens[i] \in Token
              /\ tokens[i].begin \in Nat \ {0} /\ tokens[i].last \in Nat \ {0}
              /\ tokens[i].begin <= tokens[i].last /\ tokens[i].word \in Word
<1>1. Len(tokens) \in Nat /\ DOMAIN tokens = 1 .. Len(tokens)
  OBVIOUS
<1>2. ASSUME NEW i \in 1 .. Len(tokens)
      PROVE  /\ tokens[i] \in Token
             /\ tokens[i].begin \in Nat \ {0} /\ tokens[i].last \in Nat \ {0}
             /\ tokens[i].begin <= tokens[i].last /\ tokens[i].word \in Word
  <2>1. tokens[i] \in Token
    OBVIOUS
  <2> QED
    BY <1>1, <2>1 DEF Token, AreTokens
<1> QED
  BY <1>1, <1>2

LEMMA TokensInOrder ==
  ASSUME NEW tokens \in Seq(Token), AreTokens(tokens)
  PROVE  \A i, j \in 1 .. Len(tokens) : i < j => tokens[i].last < tokens[j].begin
<1> DEFINE InOrderTo(n) ==
             \A i, j \in 1 .. Len(tokens) :
               i < j /\ j <= n => tokens[i].last < tokens[j].begin
           S == {n \in Nat : InOrderTo(n)}
<1>1. Len(tokens) \in Nat
  BY TokenTypes
<1>2. 0 \in S
  OBVIOUS
<1>3. ASSUME NEW n \in Nat, n \in S
      PROVE  n + 1 \in S
  <2>1. ASSUME NEW i \in 1 .. Len(tokens), NEW j \in 1 .. Len(tokens), i < j, j = n + 1
        PROVE  tokens[i].last < tokens[j].begin
    <3>1. n \in 1 .. Len(tokens) /\ j - 1 = n /\ j \in DOMAIN tokens \ {1} /\ i <= n
      BY <2>1, <1>1, TokenTypes
    <3>2. IF tokens[j].apart THEN tokens[j - 1].last + 1 < tokens[j].begin
                             ELSE tokens[j - 1].last + 1 = tokens[j].begin
      BY <3>1, Zenon DEF AreTokens
    <3>3. /\ tokens[n].last \in Nat /\ tokens[j].begin \in Nat /\ tokens[n].begin \in Nat
          /\ tokens[n].begin <= tokens[n].last /\ tokens[i].last \in Nat
      BY <3>1, TokenTypes
    <3>4. tokens[n].last + 1 <= tokens[j].begin
      BY <3>1, <3>2, <3>3
    <3>5. i = n \/ tokens[i].last < tokens[n].begin
      BY <1>3, <3>1
    <3> QED
      BY <3>3, <3>4, <3>5
  <2>2. InOrderTo(n + 1)
    BY <1>1, <1>3, <2>1
  <2> QED
    BY <2>2
<1>4. Len(tokens) \in S
  <2> HIDE DEF S
  <2> QED
    BY <1>1, <1>2, <1>3, Induction
<1> QED
  BY <1>1, <1>4

LEMMA MetaparameterTypes ==
  ASSUME NEW tokens \in Seq(Token), AreTokens(tokens),
         NEW i \in Metaparameters(tokens)
  PROVE  /\ i \in 1 .. Len(tokens) /\ i - 1 \in 1 .. Len(tokens)
         /\ tokens[i - 1].begin \in Nat \ {0} /\ tokens[i].last \in Nat \ {0}
         /\ tokens[i - 1].begin < tokens[i].last /\ tokens[i].word \in Word
<1>1. i \in 1 .. Len(tokens) /\ i - 1 \in 1 .. Len(tokens)
  BY TokenTypes DEF Metaparameters
<1>2. tokens[i - 1].last + 1 = tokens[i].begin
  BY DEF Metaparameters
<1> QED
  BY <1>1, <1>2, TokenTypes

(* No two metavariables have a character in common.                        *)
LEMMA OneAround ==
  ASSUME NEW tokens \in Seq(Token), AreTokens(tokens), NEW p \in Nat,
         NEW i \in Around(tokens, p), NEW j \in Around(tokens, p)
  PROVE  i = j
<1> SUFFICES ASSUME NEW k \in Around(tokens, p), NEW l \in Around(tokens, p), k < l
             PROVE  FALSE
  <2>1. i \in Nat /\ j \in Nat
    BY MetaparameterTypes DEF Around
  <2> QED
    BY <2>1
<1>1. k \in Metaparameters(tokens) /\ l \in Metaparameters(tokens)
  BY DEF Around
<1>2. k \in 1 .. Len(tokens) /\ l - 1 \in 1 .. Len(tokens) /\ l \in Nat
  BY <1>1, MetaparameterTypes
<1>3. k # l - 1
  BY <1>1 DEF Metaparameters
<1>4. tokens[k].last < tokens[l - 1].begin
  BY <1>2, <1>3, TokensInOrder
<1>5. p <= tokens[k].last /\ tokens[l - 1].begin <= p
  BY DEF Around
<1>6. tokens[k].last \in Nat /\ tokens[l - 1].begin \in Nat
  BY <1>2, TokenTypes
<1> QED
  BY <1>4, <1>5, <1>6

LEMMA InsteadOfLiteral ==
  ASSUME NEW tokens, NEW p, NEW match, Around(tokens, p) = {}
  PROVE  InsteadOf(tokens, p, match) = << <<"template", p>> >>
  BY DEF InsteadOf

LEMMA InsteadOfMetavariable ==
  ASSUME NEW tokens \in Seq(Token), AreTokens(tokens), NEW match,
         NEW i \in Metaparameters(tokens),
         NEW p \in tokens[i - 1].begin .. tokens[i].last
  PROVE  InsteadOf(tokens, p, match) =
           IF p = tokens[i - 1].begin THEN Substitute(tokens[i].word, match) ELSE << >>
<1>1. p \in Nat /\ i \in Around(tokens, p)
  BY MetaparameterTypes DEF Around
<1> DEFINE j == CHOOSE j \in Around(tokens, p) : TRUE
<1>2. j \in Around(tokens, p)
  BY <1>1
<1>3. j = i
  BY <1>1, <1>2, OneAround
<1> QED
  BY <1>1, <1>3 DEF InsteadOf

LEMMA EndType ==
  ASSUME NEW tokens \in Seq(Token), AreTokens(tokens)
  PROVE  /\ EndOfParts(tokens) \in Nat
         /\ \A i \in 1 .. Len(tokens) : tokens[i].last <= EndOfParts(tokens)
<1>1. CASE tokens = << >>
  BY <1>1 DEF EndOfParts, EndOfTokens
<1>2. CASE tokens # << >>
  <2>1. Len(tokens) \in 1 .. Len(tokens)
    BY <1>2
  <2>2. EndOfTokens(tokens) = tokens[Len(tokens)].last /\ EndOfTokens(tokens) \in Nat
    BY <1>2, <2>1, TokenTypes DEF EndOfTokens
  <2>3. EndOfParts(tokens) \in Nat /\ EndOfTokens(tokens) <= EndOfParts(tokens)
    BY <2>2 DEF EndOfParts
  <2>4. ASSUME NEW i \in 1 .. Len(tokens)
        PROVE  tokens[i].last <= tokens[Len(tokens)].last
    <3>1. /\ tokens[i].last \in Nat /\ tokens[Len(tokens)].last \in Nat
          /\ tokens[Len(tokens)].begin \in Nat
          /\ tokens[Len(tokens)].begin <= tokens[Len(tokens)].last
      BY <2>1, TokenTypes
    <3>2. i = Len(tokens) \/ tokens[i].last < tokens[Len(tokens)].begin
      BY <2>1, TokensInOrder
    <3> QED
      BY <3>1, <3>2
  <2>5. ASSUME NEW i \in 1 .. Len(tokens)
        PROVE  tokens[i].last <= EndOfParts(tokens)
    <3>1. tokens[i].last \in Nat
      BY TokenTypes
    <3> QED
      BY <3>1, <2>2, <2>3, <2>4
  <2> QED
    BY <2>3, <2>5
<1> QED
  BY <1>1, <1>2

(* What a match can bind.                                                  *)
IsMatch(match) ==
  /\ match \in [Word -> SUBSET Binding]
  /\ \A w \in Word : \A b, c \in match[w] : b.nodes # << >> /\ b = c

LEMMA SubstituteOf ==
  ASSUME NEW match, IsMatch(match), NEW w \in Word
  PROVE  /\ Substitute(w, match) \in Seq(Character)
         /\ match[w] = {} => Substitute(w, match) = << >>
         /\ \A b \in match[w] : Substitute(w, match) = TextOf(b)
<1>1. CASE match[w] = {}
  BY <1>1 DEF Substitute
<1>2. ASSUME NEW b \in match[w]
      PROVE  Substitute(w, match) = TextOf(b) /\ TextOf(b) \in Seq(Character)
  <2>1. (CHOOSE c \in match[w] : TRUE) = b
    BY <1>2 DEF IsMatch
  <2>2. Substitute(w, match) = TextOf(b)
    BY <1>2, <2>1 DEF Substitute
  <2>3. b \in Binding /\ b.nodes # << >>
    BY <1>2 DEF IsMatch
  <2>4. b.nodes \in Seq(Span) /\ b.name \in Word
    BY <2>3 DEF Binding
  <2>5. CASE b.nameOnly
    <3>1. <<"name", b.name>> \in Character
      BY <2>4 DEF Character
    <3>2. << <<"name", b.name>> >> \in Seq(Character)
      BY <3>1
    <3> QED
      BY <2>2, <2>5, <3>2 DEF TextOf
  <2>6. CASE ~ b.nameOnly
    <3>1. b.nodes[1] \in Span /\ b.nodes[Len(b.nodes)] \in Span
      BY <2>3, <2>4, Len(b.nodes) >= 1
    <3> DEFINE end == b.nodes[Len(b.nodes)]
               to == IF end.semi # NoSemi THEN end.semi ELSE end.last
    <3>2. b.nodes[1].begin \in Nat \ {0} /\ to \in Nat
      BY <3>1 DEF Span
    <3>3. Characters("source", b.nodes[1].begin, to) \in Seq(Character)
      BY <3>2, CharactersType
    <3>4. TextOf(b) = Characters("source", b.nodes[1].begin, to)
      BY <2>6 DEF TextOf
    <3> QED
      BY <2>2, <3>3, <3>4
  <2> QED
    BY <2>5, <2>6
<1> QED
  BY <1>1, <1>2

LEMMA PiecesType ==
  ASSUME NEW tokens \in Seq(Token), AreTokens(tokens), NEW match, IsMatch(match)
  PROVE  /\ Pieces(tokens, match) \in Seq(Seq(Character))
         /\ Len(Pieces(tokens, match)) = EndOfParts(tokens)
         /\ \A p \in 1 .. EndOfParts(tokens) :
              Pieces(tokens, match)[p] = InsteadOf(tokens, p, match)
<1>1. EndOfParts(tokens) \in Nat
  BY EndType
<1>2. ASSUME NEW p \in 1 .. EndOfParts(tokens)
      PROVE  InsteadOf(tokens, p, match) \in Seq(Character)
  <2>1. CASE Around(tokens, p) = {}
    <3>1. <<"template", p>> \in Character
      BY DEF Character
    <3>2. << <<"template", p>> >> \in Seq(Character)
      BY <3>1
    <3> QED
      BY <2>1, <3>2, InsteadOfLiteral
  <2>2. CASE Around(tokens, p) # {}
    <3>1. PICK i \in Around(tokens, p) : TRUE
      BY <2>2
    <3>2. i \in Metaparameters(tokens) /\ tokens[i - 1].begin <= p /\ p <= tokens[i].last
      BY DEF Around
    <3>3. p \in tokens[i - 1].begin .. tokens[i].last /\ tokens[i].word \in Word
      BY <3>2, MetaparameterTypes
    <3>4. InsteadOf(tokens, p, match) =
            IF p = tokens[i - 1].begin THEN Substitute(tokens[i].word, match) ELSE << >>
      BY <3>2, <3>3, InsteadOfMetavariable
    <3>5. Substitute(tokens[i].word, match) \in Seq(Character)
      BY <3>3, SubstituteOf
    <3> QED
      BY <3>4, <3>5
  <2> QED
    BY <2>1, <2>2
<1>3. Pieces(tokens, match) \in [1 .. EndOfParts(tokens) -> Seq(Character)]
  BY <1>2 DEF Pieces
<1>4. \A p \in 1 .. EndOfParts(tokens) :
        Pieces(tokens, match)[p] = InsteadOf(tokens, p, match)
  BY DEF Pieces
<1> QED
  BY <1>1, <1>3, <1>4

(* The text instead of the first p characters of a template.               *)
Texts(tokens, match) ==
  CHOOSE G \in [0 .. EndOfParts(tokens) -> Seq(Character)] :
    IsBuilt(G, Pieces(tokens, match), EndOfParts(tokens))

LEMMA TextsBuilt ==
  ASSUME NEW tokens \in Seq(Token), AreTokens(tokens), NEW match, IsMatch(match)
  PROVE  /\ Texts(tokens, match) \in [0 .. EndOfParts(tokens) -> Seq(Character)]
         /\ Texts(tokens, match)[0] = << >>
         /\ \A q \in Nat : \A p \in 1 .. EndOfParts(tokens) : p = q + 1 =>
              Texts(tokens, match)[p] = Texts(tokens, match)[q] \o InsteadOf(tokens, p, match)
         /\ Texts(tokens, match)[EndOfParts(tokens)] = Substituted(tokens, match)
<1> DEFINE G == Texts(tokens, match)
           s == Pieces(tokens, match)
           N == EndOfParts(tokens)
<1>1. s \in Seq(Seq(Character)) /\ Len(s) = N
  BY PiecesType
<1>2. \A p \in 1 .. N : s[p] = InsteadOf(tokens, p, match)
  BY PiecesType
<1>3. \E H \in [0 .. N -> Seq(Character)] : IsBuilt(H, s, N)
  <2> HIDE DEF s, N
  <2> QED
    BY <1>1, Building
<1>4. G \in [0 .. N -> Seq(Character)] /\ IsBuilt(G, s, N)
  BY <1>3, Zenon DEF Texts
<1> HIDE DEF G, s, N
<1>5. G[0] = << >>
  BY <1>4 DEF IsBuilt
<1>6. ASSUME NEW q \in Nat, NEW p \in 1 .. N, p = q + 1
      PROVE  G[p] = G[q] \o InsteadOf(tokens, p, match)
  <2>1. p - 1 = q
    BY <1>6
  <2> QED
    BY <1>2, <1>4, <2>1, Zenon DEF IsBuilt
<1>7. G[N] = FlattenSeq(s)
  BY <1>1, <1>4, Flattening
<1> QED
  BY <1>4, <1>5, <1>6, <1>7 DEF G, s, N, Substituted

LEMMA CharactersGrow ==
  ASSUME NEW of \in {"template", "source"}, NEW from \in Nat \ {0}, NEW n \in Nat
  PROVE  /\ Characters(of, from, from + n - 1) \in Seq(Character)
         /\ Characters(of, from, from - 1) = << >>
         /\ Characters(of, from, from + n) =
              Characters(of, from, from + n - 1) \o << <<of, from + n>> >>
         /\ <<of, from + n>> \in Character
<1>1. \A m \in Nat : (from + m - 1) - from + 1 = m
  OBVIOUS
<1>2. \A m \in Nat : Characters(of, from, from + m - 1) =
                       [k \in 1 .. m |-> <<of, from + k - 1>>]
  BY <1>1 DEF Characters
<1>3. from + 0 - 1 = from - 1 /\ from + (n + 1) - 1 = from + n
  OBVIOUS
<1>4. /\ Characters(of, from, from + n - 1) = [k \in 1 .. n |-> <<of, from + k - 1>>]
      /\ Characters(of, from, from + n) = [k \in 1 .. n + 1 |-> <<of, from + k - 1>>]
  BY <1>2, <1>3
<1>5. Characters(of, from, from - 1) = << >>
  <2>1. Characters(of, from, from - 1) = [k \in 1 .. 0 |-> <<of, from + k - 1>>]
    BY <1>2, <1>3
  <2> QED
    BY <2>1
<1>6. Characters(of, from, from + n - 1) \in Seq(Character) /\ <<of, from + n>> \in Character
  <2>1. from + n - 1 \in Nat
    OBVIOUS
  <2>2. from + n \in Nat \ {0}
    OBVIOUS
  <2>3. <<of, from + n>> \in Character
    BY <2>2 DEF Character
  <2> QED
    BY <2>1, <2>3, CharactersType
<1> DEFINE s == Characters(of, from, from + n - 1)
           t == Characters(of, from, from + n)
           c == <<of, from + n>>
<1>7. /\ Len(s) = n /\ Len(t) = n + 1 /\ t[n + 1] = c
      /\ \A k \in 1 .. n : s[k] = t[k]
  <2>1. from + (n + 1) - 1 = from + n /\ n + 1 \in 1 .. n + 1
    OBVIOUS
  <2> QED
    BY <1>4, <2>1
<1>8. t \in Seq(Character)
  BY <1>6, CharactersType, from + n \in Nat
<1> HIDE DEF s, t, c
<1>9. t = s \o <<c>>
  <2>1. s \in Seq(Character) /\ c \in Character
    BY <1>6 DEF s, c
  <2>2. Len(s \o <<c>>) = n + 1 /\ s \o <<c>> \in Seq(Character)
    BY <2>1, <1>7
  <2>3. \A k \in 1 .. n + 1 : (s \o <<c>>)[k] = t[k]
    BY <2>1, <1>7
  <2> QED
    BY <1>7, <1>8, <2>2, <2>3
<1> QED
  BY <1>5, <1>6, <1>9 DEF s, t, c

LEMMA AppendTexts ==
  ASSUME NEW s \in Seq(Character), NEW t \in Seq(Character), NEW c \in Character
  PROVE  (s \o t) \o <<c>> = s \o (t \o <<c>>)
  OBVIOUS

(* Over a stretch without metavariables the text is the template's.        *)
LEMMA TextsOverLiteral ==
  ASSUME NEW tokens \in Seq(Token), AreTokens(tokens), NEW match, IsMatch(match),
         NEW a \in 0 .. EndOfParts(tokens), NEW b \in a .. EndOfParts(tokens),
         \A p \in a + 1 .. b : Around(tokens, p) = {}
  PROVE  Texts(tokens, match)[b] =
           Texts(tokens, match)[a] \o Characters("template", a + 1, b)
<1> DEFINE G == Texts(tokens, match)
           N == EndOfParts(tokens)
           C(n) == Characters("template", a + 1, a + n)
           Holds(n) == a + n <= b => G[a + n] = G[a] \o C(n)
           S == {n \in Nat : Holds(n)}
<1>1. /\ N \in Nat /\ G \in [0 .. N -> Seq(Character)]
      /\ a \in Nat /\ a + 1 \in Nat \ {0} /\ a \in 0 .. N /\ b \in a .. N
  BY EndType, TextsBuilt
<1>0. /\ \A q \in Nat : \A p \in 1 .. N : p = q + 1 =>
           G[p] = G[q] \o InsteadOf(tokens, p, match)
      /\ \A p \in a + 1 .. b : InsteadOf(tokens, p, match) = << <<"template", p>> >>
  BY TextsBuilt, InsteadOfLiteral
<1>2. ASSUME NEW n \in Nat
      PROVE  /\ C(n) \in Seq(Character) /\ C(0) = << >>
             /\ C(n + 1) = C(n) \o << <<"template", a + (n + 1)>> >>
             /\ <<"template", a + (n + 1)>> \in Character
  <2>1. /\ (a + 1) + n - 1 = a + n /\ (a + 1) - 1 = a + 0 /\ (a + 1) + n = a + (n + 1)
    BY <1>1
  <2>2. /\ Characters("template", a + 1, (a + 1) + n - 1) \in Seq(Character)
        /\ Characters("template", a + 1, (a + 1) - 1) = << >>
        /\ Characters("template", a + 1, (a + 1) + n) =
             Characters("template", a + 1, (a + 1) + n - 1)
               \o << <<"template", (a + 1) + n>> >>
        /\ <<"template", (a + 1) + n>> \in Character
    BY <1>1, CharactersGrow
  <2> QED
    BY <2>1, <2>2
<1> HIDE DEF C, G, N
<1>3. 0 \in S
  <2>1. C(0) = << >>
    BY <1>2
  <2>2. G[a] \in Seq(Character) /\ a + 0 = a
    BY <1>1
  <2>3. Holds(0)
    BY <2>1, <2>2
  <2> HIDE DEF Holds
  <2> QED
    BY <2>3
<1>4. ASSUME NEW n \in Nat, n \in S
      PROVE  n + 1 \in S
  <2>0. Holds(n)
    <3> HIDE DEF Holds
    <3> QED
      BY <1>4
  <2> SUFFICES ASSUME a + (n + 1) <= b
               PROVE  G[a + (n + 1)] = G[a] \o C(n + 1)
    <3>1. Holds(n + 1) => n + 1 \in S
      <4> HIDE DEF Holds
      <4> QED
        OBVIOUS
    <3> QED
      BY <3>1, Zenon
  <2>1. /\ a + n \in Nat /\ a + (n + 1) \in 1 .. N /\ a + (n + 1) = (a + n) + 1
        /\ a + (n + 1) \in a + 1 .. b /\ a + n <= b
    BY <1>1
  <2>2. G[a + (n + 1)] = G[a + n] \o InsteadOf(tokens, a + (n + 1), match)
    BY <1>0, <2>1
  <2>3. InsteadOf(tokens, a + (n + 1), match) = << <<"template", a + (n + 1)>> >>
    BY <1>0, <2>1
  <2>4. G[a + n] = G[a] \o C(n)
    BY <2>0, <2>1
  <2> DEFINE c == <<"template", a + (n + 1)>>
  <2>5. C(n + 1) = C(n) \o <<c>> /\ c \in Character /\ C(n) \in Seq(Character)
    BY <1>2
  <2>6. G[a] \in Seq(Character)
    BY <1>1
  <2>7. G[a + (n + 1)] = (G[a] \o C(n)) \o <<c>>
    BY <2>2, <2>3, <2>4
  <2> HIDE DEF c
  <2>8. (G[a] \o C(n)) \o <<c>> = G[a] \o (C(n) \o <<c>>)
    BY <2>5, <2>6, AppendTexts
  <2> QED
    BY <2>5, <2>7, <2>8
<1>6. b - a \in S
  <2> HIDE DEF S
  <2>1. b - a \in Nat
    BY <1>1
  <2> QED
    BY <2>1, <1>3, <1>4, Induction
<1>7. a + (b - a) = b /\ a + (b - a) <= b
  BY <1>1
<1>8. Holds(b - a)
  <2> HIDE DEF Holds
  <2> QED
    BY <1>6
<1>9. G[b] = G[a] \o C(b - a)
  BY <1>7, <1>8
<1> QED
  BY <1>7, <1>9 DEF C, G

(* Over a metavariable it is what the match binds.                         *)
LEMMA TextsOverMetavariable ==
  ASSUME NEW tokens \in Seq(Token), AreTokens(tokens), NEW match, IsMatch(match),
         NEW i \in Metaparameters(tokens)
  PROVE  Texts(tokens, match)[tokens[i].last] =
           Texts(tokens, match)[tokens[i - 1].begin - 1]
             \o Substitute(tokens[i].word, match)
<1> DEFINE G == Texts(tokens, match)
           N == EndOfParts(tokens)
           a == tokens[i - 1].begin
           b == tokens[i].last
           T == Substitute(tokens[i].word, match)
           S == {n \in Nat : a + n <= b => G[a + n] = G[a - 1] \o T}
<1>1. /\ a \in Nat \ {0} /\ b \in Nat /\ a < b /\ b <= N /\ N \in Nat
      /\ G \in [0 .. N -> Seq(Character)] /\ T \in Seq(Character)
  BY MetaparameterTypes, EndType, TextsBuilt, SubstituteOf
<1>2. \A p \in a .. b : InsteadOf(tokens, p, match) = IF p = a THEN T ELSE << >>
  BY InsteadOfMetavariable
<1>3. \A q \in Nat : \A p \in 1 .. N : p = q + 1 =>
        G[p] = G[q] \o InsteadOf(tokens, p, match)
  BY TextsBuilt
<1> HIDE DEF G, N, a, b, T
<1>4. 0 \in S
  <2>1. a - 1 \in Nat /\ a \in 1 .. N /\ a = (a - 1) + 1 /\ a \in a .. b /\ a + 0 = a
    BY <1>1
  <2>2. G[a] = G[a - 1] \o T
    BY <1>2, <1>3, <2>1
  <2> QED
    BY <2>1, <2>2
<1>5. ASSUME NEW n \in Nat, n \in S
      PROVE  n + 1 \in S
  <2> SUFFICES ASSUME a + (n + 1) <= b
               PROVE  G[a + (n + 1)] = G[a - 1] \o T
    OBVIOUS
  <2>1. /\ a + n \in Nat /\ a + (n + 1) \in 1 .. N /\ a + (n + 1) = (a + n) + 1
        /\ a + (n + 1) \in a .. b /\ a + (n + 1) # a /\ a + n <= b /\ a + n \in 0 .. N
    BY <1>1
  <2>2. InsteadOf(tokens, a + (n + 1), match) = << >>
    BY <1>2, <2>1
  <2>3. G[a + (n + 1)] = G[a + n] \o << >>
    BY <1>3, <2>1, <2>2
  <2>4. G[a + n] \in Seq(Character)
    BY <1>1, <2>1
  <2>5. G[a + n] = G[a - 1] \o T
    BY <1>5, <2>1
  <2> QED
    BY <2>3, <2>4, <2>5
<1>6. b - a \in S
  <2> HIDE DEF S
  <2>1. b - a \in Nat
    BY <1>1
  <2> QED
    BY <2>1, <1>4, <1>5, Induction
<1>7. a + (b - a) = b /\ a + (b - a) <= b
  BY <1>1
<1>8. G[b] = G[a - 1] \o T
  BY <1>6, <1>7
<1> QED
  BY <1>8 DEF G, a, b, T

-----------------------------------------------------------------------------
(* The parts stand for the template from its start on, without gaps.       *)

(* The part p stands for the characters behind the first from, up to to.   *)
Means(tokens, p, from, to) ==
  \/ /\ p.type = "literal" /\ p.from = from + 1 /\ p.to = to /\ from <= to
     /\ \A q \in from + 1 .. to : Around(tokens, q) = {}
  \/ /\ p.type = "metavariable"
     /\ \E i \in Metaparameters(tokens) :
          /\ p.content = tokens[i].word
          /\ from + 1 = tokens[i - 1].begin /\ to = tokens[i].last

Covers(tokens, ps, ends, end) ==
  /\ ends[0] = 0 /\ ends[Len(ps)] = end
  /\ \A q \in Nat : \A i \in DOMAIN ps : i = q + 1 =>
       Means(tokens, ps[i], ends[q], ends[i])

Covered(tokens, ps, end) ==
  \E ends \in [0 .. Len(ps) -> 0 .. EndOfParts(tokens)] : Covers(tokens, ps, ends, end)

LEMMA CoverMore ==
  ASSUME NEW tokens, NEW ps \in Seq(Part), NEW p \in Part,
         NEW a, NEW b \in 0 .. EndOfParts(tokens),
         Covered(tokens, ps, a), Means(tokens, p, a, b)
  PROVE  Covered(tokens, Append(ps, p), b)
<1> DEFINE N == Len(ps)
           qs == Append(ps, p)
<1>1. /\ N \in Nat /\ Len(qs) = N + 1 /\ DOMAIN ps = 1 .. N /\ DOMAIN qs = 1 .. N + 1
      /\ qs[N + 1] = p /\ \A i \in 1 .. N : qs[i] = ps[i]
  OBVIOUS
<1>2. PICK ends \in [0 .. N -> 0 .. EndOfParts(tokens)] : Covers(tokens, ps, ends, a)
  BY DEF Covered
<1> DEFINE more == [i \in 0 .. N + 1 |-> IF i <= N THEN ends[i] ELSE b]
<1> HIDE DEF qs, N
<1>3. more \in [0 .. N + 1 -> 0 .. EndOfParts(tokens)]
  BY <1>1
<1>4. more[N + 1] = b /\ \A i \in 0 .. N : more[i] = ends[i]
  BY <1>1
<1> HIDE DEF more
<1>5. more[0] = 0 /\ more[N] = a
  BY <1>1, <1>2, <1>4 DEF Covers, N
<1>6. ASSUME NEW q \in Nat, NEW i \in 1 .. N + 1, i = q + 1
      PROVE  Means(tokens, qs[i], more[q], more[i])
  <2>1. CASE i = N + 1
    <3>1. q = N
      BY <1>1, <1>6, <2>1
    <3> QED
      BY <1>1, <1>4, <1>5, <2>1, <3>1
  <2>2. CASE i # N + 1
    <3>1. i \in 1 .. N /\ q \in 0 .. N /\ i \in 0 .. N
      BY <1>1, <1>6, <2>2
    <3>2. Means(tokens, ps[i], ends[q], ends[i])
      BY <1>1, <1>2, <1>6, <3>1 DEF Covers
    <3> QED
      BY <1>1, <1>4, <3>1, <3>2
  <2> QED
    BY <2>1, <2>2
<1>7. Covers(tokens, qs, more, b)
  BY <1>1, <1>4, <1>5, <1>6 DEF Covers
<1>8. Covered(tokens, qs, b)
  BY <1>1, <1>3, <1>7 DEF Covered
<1> QED
  BY <1>8 DEF qs

(* While it is read: the parts go up to the literal under way, behind all  *)
(* metavariables read so far; and the literal goes up to the last token.   *)
ReadInv ==
  /\ lexed = 0 => literalRange.end = 1
  /\ lexed # 0 => literalRange.end = prev.last + 1
  /\ lexed # 0 /\ lexed \notin Metaparameters(input.tokens) =>
       literalRange.begin <= prev.begin
  /\ \A i \in Metaparameters(input.tokens) :
       i <= lexed => input.tokens[i].last < literalRange.begin
  /\ phase = "parse" =>
       /\ instances = << >> /\ instantiated = << >> /\ used = 0
       /\ Covered(input.tokens, parts, literalRange.begin - 1)

(* Afterwards: what is instantiated so far is the text instead of what the *)
(* parts used so far stand for.                                            *)
SoFar(ends) ==
  Len(instances) < Len(input.matches) /\ Readable(bindings) =>
    instantiated = Texts(input.tokens, bindings)[ends[used]]

TextInv ==
  /\ ReadInv
  /\ phase # "parse" =>
       \E ends \in [0 .. Len(parts) -> 0 .. EndOfParts(input.tokens)] :
         Covers(input.tokens, parts, ends, EndOfParts(input.tokens)) /\ SoFar(ends)
  /\ InstanceIsSubstitution

LEMMA InitText == Init => TextInv
<1> SUFFICES ASSUME Init PROVE TextInv
  OBVIOUS
<1>1. input.tokens \in Seq(Token) /\ AreTokens(input.tokens)
  BY InputTypes DEF Init
<1> DEFINE tokens == input.tokens
           ends == [i \in 0 .. 0 |-> 0]
<1>2. EndOfParts(tokens) \in Nat
  BY <1>1, EndType
<1>3. ends \in [0 .. Len(<< >>) -> 0 .. EndOfParts(tokens)] /\ ends[0] = 0
  BY <1>2
<1>4. Covers(tokens, << >>, ends, 0)
  BY <1>3 DEF Covers
<1>5. Covered(tokens, << >>, 0)
  BY <1>3, <1>4, Zenon DEF Covered
<1>6. Covered(tokens, parts, literalRange.begin - 1)
  <2>1. parts = << >> /\ literalRange.begin - 1 = 0
    BY DEF Init
  <2> HIDE DEF tokens
  <2> QED
    BY <1>5, <2>1
<1>7. \A i \in Metaparameters(tokens) : ~ (i <= 0)
  BY DEF Metaparameters
<1>8. ReadInv
  BY <1>6, <1>7 DEF Init, ReadInv
<1>9. InstanceIsSubstitution /\ phase = "parse"
  BY DEF Init, InstanceIsSubstitution
<1> QED
  BY <1>8, <1>9 DEF TextInv

(* The reader finds ?name where the template says it.                      *)
LEMMA MetaparameterFound ==
  ASSUME IInv, Lex
  PROVE  IsMetaparameter(curr, prev) <=> lexed + 1 \in Metaparameters(input.tokens)
<1> DEFINE tokens == input.tokens
<1>1. tokens \in Seq(Token) /\ AreTokens(tokens)
  BY InputTypes DEF IInv
<1>2. /\ curr \in Token /\ curr = tokens[lexed + 1] /\ lexed + 1 \in 1 .. Len(tokens)
      /\ lexed = 0 => curr.apart
  BY NextToken
<1>3. lexed \in Nat
  BY DEF IInv, TypeOK
<1>4. CASE lexed = 0
  BY <1>2, <1>4 DEF IsMetaparameter, Metaparameters
<1>5. CASE lexed # 0
  <2>1. /\ prev = tokens[lexed] /\ prev \in Token
        /\ lexed + 1 \in DOMAIN tokens \ {1} /\ lexed + 1 \in 2 .. Len(tokens)
        /\ (lexed + 1) - 1 = lexed
    BY <1>1, <1>2, <1>3, <1>5 DEF IInv, LiteralInv, TypeOK
  <2>2. IF tokens[lexed + 1].apart
          THEN tokens[(lexed + 1) - 1].last + 1 < tokens[lexed + 1].begin
          ELSE tokens[(lexed + 1) - 1].last + 1 = tokens[lexed + 1].begin
    BY <1>1, <2>1, Zenon DEF AreTokens
  <2>3. IF curr.apart THEN prev.last + 1 < curr.begin ELSE prev.last + 1 = curr.begin
    BY <1>2, <2>1, <2>2, Zenon
  <2>4. prev.last \in Nat /\ curr.begin \in Nat
    BY <1>2, <2>1 DEF Token
  <2>5. ~ curr.apart <=> prev.last + 1 = curr.begin
    BY <2>3, <2>4
  <2>6. lexed + 1 \in Metaparameters(tokens) <=>
          /\ prev.kind = "question" /\ curr.kind = "identifier"
          /\ prev.last + 1 = curr.begin
    BY <1>2, <2>1 DEF Metaparameters
  <2> QED
    BY <2>5, <2>6 DEF IsMetaparameter
<1> QED
  BY <1>4, <1>5

(* A metavariable around a character behind the parts is yet to be read.   *)
LEMMA AroundAhead ==
  ASSUME IInv, ReadInv, NEW q \in Nat, literalRange.begin <= q,
         NEW i \in Around(input.tokens, q)
  PROVE  lexed < i
<1>1. i \in Metaparameters(input.tokens) /\ q <= input.tokens[i].last
  BY DEF Around
<1>2. i \in Nat /\ input.tokens[i].last \in Nat
  BY <1>1, InputTypes, MetaparameterTypes DEF IInv
<1>3. lexed \in Nat /\ literalRange.begin \in Nat
  BY DEF IInv, TypeOK
<1>4. i <= lexed => input.tokens[i].last < literalRange.begin
  BY <1>1 DEF ReadInv
<1> QED
  BY <1>1, <1>2, <1>3, <1>4

LEMMA MatchTypes ==
  ASSUME IInv
  PROVE  \A m \in DOMAIN input.matches : IsMatch(input.matches[m])
<1>1. input.matches \in Seq([Word -> SUBSET Binding])
  BY InputTypes DEF IInv
<1> QED
  BY <1>1, InputsAssumption DEF IInv, IsMatch

LEMMA NothingInstantiated ==
  ASSUME InstanceIsSubstitution, instances' = instances, input' = input
  PROVE  InstanceIsSubstitution'
  BY DEF InstanceIsSubstitution, Readable

LEMMA LexMetaparameterText ==
  ASSUME IInv, TextInv, LexMetaparameter
  PROVE  TextInv'
<1> DEFINE tokens == input.tokens
           N == EndOfParts(tokens)
<1>1. /\ Lex /\ IsMetaparameter(curr, prev)
      /\ parts' = parts \o LiteralBefore(prev) \o <<Metavariable(curr.word)>>
      /\ literalRange' = [begin |-> EndLoc(curr), end |-> EndLoc(curr)]
      /\ UNCHANGED <<input, phase, instances, instantiated, used>> /\ phase = "parse"
  BY DEF LexMetaparameter, Lex
<1>2. tokens \in Seq(Token) /\ AreTokens(tokens)
  BY InputTypes DEF IInv
<1>3. /\ lexed' = lexed + 1 /\ prev' = curr /\ curr = tokens[lexed + 1] /\ curr \in Token
      /\ lexed + 1 \in 1 .. Len(tokens) /\ curr.begin <= curr.last
      /\ literalRange.begin <= curr.begin /\ (lexed = 0 => curr.apart)
  BY <1>1, NextToken
<1>4. /\ parts \in Seq(Part) /\ literalRange.begin \in Nat \ {0} /\ lexed \in Nat
      /\ prev \in Token
  BY DEF IInv, TypeOK
<1>5. lexed + 1 \in Metaparameters(tokens)
  BY <1>1, MetaparameterFound
<1>6. lexed # 0 /\ prev = tokens[lexed] /\ prev.kind = "question"
  BY <1>1, <1>3 DEF IsMetaparameter, IInv, LiteralInv
<1>7. literalRange.begin <= prev.begin
  BY <1>6 DEF IInv, LiteralInv
<1>8. /\ prev.begin \in Nat \ {0} /\ curr.last \in Nat \ {0} /\ curr.begin \in Nat
      /\ curr.word \in Word /\ prev.begin < curr.last /\ curr.last <= N /\ N \in Nat
      /\ (lexed + 1) - 1 = lexed
  <2>1. (lexed + 1) - 1 = lexed
    BY <1>4
  <2>2. /\ prev.begin \in Nat \ {0} /\ curr.last \in Nat \ {0} /\ curr.begin \in Nat
        /\ curr.word \in Word
    BY <1>3, <1>4 DEF Token
  <2>3. tokens[(lexed + 1) - 1].begin < tokens[lexed + 1].last
    BY <1>2, <1>5, MetaparameterTypes
  <2>4. curr.last <= N /\ N \in Nat
    BY <1>2, <1>3, EndType
  <2> QED
    BY <1>3, <1>6, <2>1, <2>2, <2>3, <2>4, Zenon
<1>9. Covered(tokens, parts, literalRange.begin - 1)
  BY <1>1 DEF TextInv, ReadInv
<1>10. ASSUME NEW q \in literalRange.begin .. prev.begin - 1
       PROVE  Around(tokens, q) = {}
  <2> SUFFICES ASSUME NEW i \in Around(tokens, q) PROVE FALSE
    OBVIOUS
  <2>1. q \in Nat /\ literalRange.begin <= q /\ q < prev.begin
    BY <1>4, <1>8
  <2>2. lexed < i
    BY <2>1, AroundAhead DEF TextInv
  <2>3. i \in Metaparameters(tokens) /\ tokens[i - 1].begin <= q
    BY DEF Around
  <2>4. i - 1 \in 1 .. Len(tokens) /\ lexed \in 1 .. Len(tokens) /\ i \in Nat
    BY <1>2, <1>3, <1>4, <1>6, <2>3, MetaparameterTypes
  <2>5. lexed = i - 1 \/ tokens[lexed].last < tokens[i - 1].begin
    BY <1>2, <1>4, <2>2, <2>4, TokensInOrder
  <2>6. /\ tokens[lexed].begin <= tokens[lexed].last /\ tokens[lexed].begin \in Nat
        /\ tokens[lexed].last \in Nat /\ tokens[i - 1].begin \in Nat
    BY <1>2, <2>4, TokenTypes
  <2> QED
    BY <1>6, <2>1, <2>3, <2>5, <2>6
<1> DEFINE a == prev.begin - 1
<1>11. /\ parts \o LiteralBefore(prev) \in Seq(Part)
       /\ Covered(tokens, parts \o LiteralBefore(prev), a)
  <2>1. CASE prev.begin = literalRange.begin
    <3>1. LiteralBefore(prev) = << >>
      BY <2>1 DEF LiteralBefore
    <3>2. parts \o LiteralBefore(prev) = parts
      BY <1>4, <3>1
    <3> QED
      BY <1>4, <1>9, <2>1, <3>2
  <2>2. CASE prev.begin # literalRange.begin
    <3> DEFINE p == Literal(literalRange.begin, prev.begin - 1)
    <3>1. prev.begin - 1 \in Nat \ {0}
      BY <1>4, <1>7, <1>8, <2>2
    <3>2. p \in Part
      BY <1>4, <3>1, PartTypes
    <3>3. (literalRange.begin - 1) + 1 = literalRange.begin /\ literalRange.begin - 1 <= a
      BY <1>4, <1>7, <1>8
    <3>4. \A q \in (literalRange.begin - 1) + 1 .. a : Around(tokens, q) = {}
      BY <1>10, <3>3
    <3>5. Means(tokens, p, literalRange.begin - 1, a)
      BY <3>3, <3>4 DEF Means, Literal
    <3>6. a \in 0 .. N
      BY <1>8
    <3>7. LiteralBefore(prev) = <<p>>
      BY <2>2 DEF LiteralBefore
    <3> HIDE DEF p, a, N
    <3>8. parts \o LiteralBefore(prev) = Append(parts, p)
      BY <1>4, <3>2, <3>7
    <3>9. Append(parts, p) \in Seq(Part)
      BY <1>4, <3>2
    <3>10. Covered(tokens, Append(parts, p), a)
      BY <1>4, <1>9, <3>2, <3>5, <3>6, CoverMore DEF N
    <3> QED
      BY <3>8, <3>9, <3>10
  <2> QED
    BY <2>1, <2>2
<1>12. Covered(tokens, parts', curr.last)
  <2> DEFINE v == Metavariable(curr.word)
             ps == parts \o LiteralBefore(prev)
  <2>1. v \in Part
    BY <1>8, PartTypes
  <2>2. Means(tokens, v, a, curr.last)
    <3>1. /\ v.type = "metavariable" /\ v.content = tokens[lexed + 1].word
          /\ a + 1 = tokens[(lexed + 1) - 1].begin /\ curr.last = tokens[lexed + 1].last
      BY <1>3, <1>6, <1>8 DEF Metavariable
    <3> HIDE DEF v, a
    <3> QED
      BY <1>5, <3>1 DEF Means
  <2>3. curr.last \in 0 .. N
    BY <1>8
  <2> HIDE DEF v, ps, a
  <2>4. ps \in Seq(Part) /\ Covered(tokens, ps, a)
    BY <1>11 DEF ps
  <2>5. parts' = Append(ps, v)
    <3>1. parts' = ps \o <<v>>
      BY <1>1 DEF ps, v
    <3> QED
      BY <2>1, <2>4, <3>1
  <2> QED
    BY <2>1, <2>2, <2>3, <2>4, <2>5, CoverMore
<1>13. literalRange'.begin = curr.last + 1 /\ literalRange'.end = curr.last + 1
  BY <1>1 DEF EndLoc
<1>14. literalRange'.begin - 1 = curr.last
  BY <1>8, <1>13
<1>15. ASSUME NEW i \in Metaparameters(tokens), i <= lexed + 1
       PROVE  tokens[i].last < curr.last + 1
  <2>1. i \in 1 .. Len(tokens) /\ tokens[i].last \in Nat
    BY <1>2, MetaparameterTypes
  <2>2. i = lexed + 1 \/ i <= lexed
    BY <1>4, <1>15, <2>1
  <2>3. i <= lexed => tokens[i].last < literalRange.begin
    BY DEF TextInv, ReadInv
  <2> QED
    BY <1>3, <1>4, <1>8, <2>1, <2>2, <2>3
<1> HIDE DEF N
<1>16. ReadInv'
  BY <1>1, <1>3, <1>4, <1>5, <1>12, <1>13, <1>14, <1>15 DEF ReadInv, TextInv
<1>17. InstanceIsSubstitution'
  BY <1>1, NothingInstantiated DEF TextInv
<1> QED
  BY <1>1, <1>16, <1>17 DEF TextInv

LEMMA LexLiteralText ==
  ASSUME IInv, TextInv, LexLiteral
  PROVE  TextInv'
<1> DEFINE tokens == input.tokens
<1>1. /\ Lex /\ ~ IsMetaparameter(curr, prev)
      /\ literalRange' = [literalRange EXCEPT !.end = EndLoc(curr)]
      /\ UNCHANGED <<input, phase, parts, instances, instantiated, used>>
      /\ phase = "parse"
  BY DEF LexLiteral, Lex
<1>2. tokens \in Seq(Token) /\ AreTokens(tokens)
  BY InputTypes DEF IInv
<1>3. /\ lexed' = lexed + 1 /\ prev' = curr /\ curr \in Token
      /\ literalRange.begin <= curr.begin
  BY <1>1, NextToken
<1>4. /\ literalRange \in [begin : Nat \ {0}, end : Nat \ {0}] /\ lexed \in Nat
  BY DEF IInv, TypeOK
<1>5. lexed + 1 \notin Metaparameters(tokens)
  BY <1>1, MetaparameterFound
<1>6. literalRange'.begin = literalRange.begin /\ literalRange'.end = curr.last + 1
  BY <1>1, <1>4 DEF EndLoc
<1>7. ASSUME NEW i \in Metaparameters(tokens), i <= lexed + 1
      PROVE  tokens[i].last < literalRange.begin
  <2>1. i \in Nat /\ i # lexed + 1
    BY <1>2, <1>5, MetaparameterTypes
  <2> QED
    BY <1>4, <1>7, <2>1 DEF TextInv, ReadInv
<1>8. ReadInv'
  BY <1>1, <1>3, <1>4, <1>6, <1>7 DEF ReadInv, TextInv
<1>9. InstanceIsSubstitution'
  BY <1>1, NothingInstantiated DEF TextInv
<1> QED
  BY <1>1, <1>8, <1>9 DEF TextInv

LEMMA EndLexingText ==
  ASSUME IInv, TextInv, EndLexing
  PROVE  TextInv'
<1> DEFINE tokens == input.tokens
           N == EndOfParts(tokens)
           begin == literalRange.begin
<1>1. /\ phase = "parse" /\ lexed = Len(tokens) /\ parts' = parts \o FinalLiteral
      /\ phase' = "instantiate"
      /\ UNCHANGED <<input, lexed, prev, literalRange, instances, instantiated, used>>
  BY DEF EndLexing
<1>2. tokens \in Seq(Token) /\ AreTokens(tokens) /\ N \in Nat
  BY InputTypes, EndType DEF IInv
<1>3. /\ parts \in Seq(Part) /\ begin \in Nat \ {0} /\ literalRange.end \in Nat \ {0}
      /\ lexed \in Nat /\ prev \in Token
  BY DEF IInv, TypeOK
<1>4. Covered(tokens, parts, begin - 1)
  BY <1>1 DEF TextInv, ReadInv
<1>5. ASSUME begin = literalRange.end
      PROVE  Covered(tokens, parts', N)
  <2>1. parts' = parts
    BY <1>1, <1>3, <1>5 DEF FinalLiteral
  <2>2. begin - 1 = N
    <3>1. CASE lexed = 0
      <4>1. tokens = << >>
        <5>1. Len(tokens) = 0 /\ tokens \in Seq(Token)
          BY <1>1, <1>2, <3>1
        <5> HIDE DEF tokens
        <5> QED
          BY <5>1
      <4>2. begin = 1
        BY <3>1 DEF IInv, LiteralInv
      <4> QED
        BY <4>1, <4>2 DEF EndOfParts, EndOfTokens
    <3>2. CASE lexed # 0
      <4>1. tokens # << >> /\ prev = tokens[lexed] /\ begin = prev.last + 1
        BY <1>1, <1>2, <1>5, <3>2 DEF TextInv, ReadInv, IInv, LiteralInv
      <4>2. prev.begin <= prev.last /\ prev.begin \in Nat /\ prev.last \in Nat
        BY <1>1, <1>2, <1>3, <3>2, <4>1, TokenTypes
      <4>3. lexed \in Metaparameters(tokens)
        BY <3>2, <4>1, <4>2 DEF TextInv, ReadInv
      <4>4. N = prev.last
        BY <1>1, <4>1, <4>3 DEF EndOfParts, EndOfTokens
      <4> QED
        BY <4>1, <4>2, <4>4
    <3> QED
      BY <3>1, <3>2
  <2> HIDE DEF N, begin
  <2> QED
    BY <1>4, <2>1, <2>2
<1>6. ASSUME begin # literalRange.end
      PROVE  Covered(tokens, parts', N)
  <2>1. lexed # 0
    BY <1>6 DEF TextInv, ReadInv, IInv, LiteralInv
  <2>2. tokens # << >> /\ prev = tokens[lexed] /\ literalRange.end = prev.last + 1
    BY <1>1, <1>2, <2>1 DEF TextInv, ReadInv, IInv, LiteralInv
  <2>3. begin <= prev.last + 1 /\ prev.last \in Nat
    BY <1>3, <2>1 DEF IInv, LiteralInv, Token
  <2>4. lexed \notin Metaparameters(tokens)
    <3>1. lexed \in Metaparameters(tokens) => prev.last < begin
      BY <1>3, <2>2 DEF TextInv, ReadInv
    <3> QED
      BY <1>3, <1>6, <2>2, <2>3, <3>1
  <2>5. N = prev.last + 1
    BY <1>1, <2>2, <2>4 DEF EndOfParts, EndOfTokens
  <2> DEFINE p == Literal(begin, literalRange.end)
  <2>6. p \in Part
    BY <1>3, PartTypes
  <2>7. ASSUME NEW q \in begin .. N
        PROVE  Around(tokens, q) = {}
    <3> SUFFICES ASSUME NEW i \in Around(tokens, q) PROVE FALSE
      OBVIOUS
    <3>1. q \in Nat /\ begin <= q
      BY <1>3
    <3>2. lexed < i
      BY <3>1, AroundAhead DEF TextInv
    <3>3. i \in 1 .. Len(tokens)
      BY <1>2, MetaparameterTypes DEF Around
    <3> QED
      BY <1>1, <1>2, <3>2, <3>3
  <2>8. Means(tokens, p, begin - 1, N)
    <3>1. (begin - 1) + 1 = begin /\ begin - 1 <= N /\ literalRange.end = N
      BY <1>3, <2>2, <2>3, <2>5
    <3> HIDE DEF begin, N
    <3> QED
      BY <2>7, <3>1 DEF Means, Literal
  <2>9. FinalLiteral = <<p>>
    BY <1>6 DEF FinalLiteral
  <2>10. N \in 0 .. N
    BY <1>2
  <2> HIDE DEF p, begin
  <2>11. parts' = Append(parts, p)
    BY <1>1, <1>3, <2>6, <2>9
  <2> QED
    BY <1>3, <1>4, <2>6, <2>8, <2>10, <2>11, CoverMore
<1>7. Covered(tokens, parts', N)
  BY <1>5, <1>6, Zenon
<1>8. PICK ends \in [0 .. Len(parts') -> 0 .. N] : Covers(tokens, parts', ends, N)
  BY <1>7 DEF Covered
<1>9. ends[0] = 0 /\ used = 0 /\ instantiated = << >> /\ instances = << >>
  BY <1>1, <1>8 DEF Covers, TextInv, ReadInv
<1>10. SoFar(ends)'
  <2>1. ASSUME Len(instances) < Len(input.matches)
        PROVE  Texts(tokens, bindings)[0] = << >>
    <3>1. Len(instances) + 1 \in DOMAIN input.matches
      BY <1>9, <2>1, InputTypes DEF IInv
    <3>2. IsMatch(bindings)
      BY <3>1, MatchTypes DEF bindings
    <3> QED
      BY <1>2, <3>2, TextsBuilt
  <2> QED
    BY <1>1, <1>9, <2>1 DEF SoFar, bindings
<1>11. ReadInv'
  BY <1>1 DEF TextInv, ReadInv
<1>12. InstanceIsSubstitution'
  BY <1>1, NothingInstantiated DEF TextInv
<1> HIDE DEF N
<1>13. (\E e \in [0 .. Len(parts) -> 0 .. EndOfParts(input.tokens)] :
          Covers(input.tokens, parts, e, EndOfParts(input.tokens)) /\ SoFar(e))'
  BY <1>1, <1>8, <1>10 DEF N
<1> QED
  BY <1>11, <1>12, <1>13 DEF TextInv

(* One part more: the text grows by what the part means.                   *)
LEMMA EmitText ==
  ASSUME IInv, TextInv, Instantiating, used < Len(parts),
         NEW text \in Seq(Character), Emit(text),
         \A from, to \in 0 .. EndOfParts(input.tokens) :
           Means(input.tokens, part, from, to) /\ Readable(bindings) =>
             Texts(input.tokens, bindings)[to] =
               Texts(input.tokens, bindings)[from] \o text
  PROVE  TextInv'
<1> DEFINE N == EndOfParts(input.tokens)
<1>1. /\ instantiated' = instantiated \o text /\ used' = used + 1
      /\ UNCHANGED <<input, lexed, prev, literalRange, parts, phase, instances>>
  BY DEF Emit, reading
<1>2. parts \in Seq(Part) /\ used \in 0 .. Len(parts) /\ used + 1 \in 1 .. Len(parts)
  BY DEF IInv, TypeOK
<1>3. phase # "parse" /\ Len(instances) < Len(input.matches)
  BY DEF Instantiating
<1>4. PICK ends \in [0 .. Len(parts) -> 0 .. N] : Covers(input.tokens, parts, ends, N) /\ SoFar(ends)
  BY <1>3 DEF TextInv
<1>5. Means(input.tokens, part, ends[used], ends[used + 1])
  BY <1>2, <1>4 DEF Covers, part
<1>6. ends[used] \in 0 .. N /\ ends[used + 1] \in 0 .. N
  BY <1>2, <1>4
<1>7. SoFar(ends)'
  <2>1. bindings' = bindings
    BY <1>1 DEF bindings
  <2>2. Readable(bindings) =>
          instantiated \o text = Texts(input.tokens, bindings)[ends[used + 1]]
    BY <1>3, <1>4, <1>5, <1>6 DEF SoFar
  <2> QED
    BY <1>1, <2>1, <2>2 DEF SoFar, Readable
<1>8. ReadInv'
  BY <1>1, <1>3 DEF ReadInv, TextInv
<1>9. InstanceIsSubstitution'
  BY <1>1, NothingInstantiated DEF TextInv
<1> HIDE DEF N
<1>10. (\E e \in [0 .. Len(parts) -> 0 .. EndOfParts(input.tokens)] :
          Covers(input.tokens, parts, e, EndOfParts(input.tokens)) /\ SoFar(e))'
  BY <1>1, <1>4, <1>7 DEF N
<1> QED
  BY <1>8, <1>9, <1>10 DEF TextInv

LEMMA InstantiateLiteralText ==
  ASSUME IInv, TextInv, InstantiateLiteral
  PROVE  TextInv'
<1>1. /\ Instantiating /\ used < Len(parts) /\ part.type = "literal"
      /\ Emit(Characters("template", part.from, part.to))
      /\ Len(instances) < Len(input.matches)
  BY DEF InstantiateLiteral, Instantiating
<1>2. parts \in Seq(Part) /\ used \in 0 .. Len(parts) /\ instances \in Seq(Seq(Character))
  BY DEF IInv, TypeOK
<1>3. part \in Part
  BY <1>1, <1>2 DEF part
<1>4. part.from \in Nat \ {0} /\ part.to \in Nat
  BY <1>1, <1>3 DEF Part
<1>5. Characters("template", part.from, part.to) \in Seq(Character)
  BY <1>4, CharactersType
<1>6. Len(instances) + 1 \in DOMAIN input.matches
  BY <1>1, <1>2, InputTypes DEF IInv
<1>7. IsMatch(bindings)
  BY <1>6, MatchTypes DEF bindings
<1>8. input.tokens \in Seq(Token) /\ AreTokens(input.tokens)
  BY InputTypes DEF IInv
<1>9. ASSUME NEW from \in 0 .. EndOfParts(input.tokens),
             NEW to \in 0 .. EndOfParts(input.tokens),
             Means(input.tokens, part, from, to)
      PROVE  Texts(input.tokens, bindings)[to] =
               Texts(input.tokens, bindings)[from]
                 \o Characters("template", part.from, part.to)
  <2>1. /\ part.from = from + 1 /\ part.to = to /\ from <= to
        /\ \A q \in from + 1 .. to : Around(input.tokens, q) = {}
    BY <1>1, <1>9 DEF Means
  <2>2. to \in from .. EndOfParts(input.tokens)
    BY <1>8, <2>1, EndType
  <2>3. Texts(input.tokens, bindings)[to] =
          Texts(input.tokens, bindings)[from] \o Characters("template", from + 1, to)
    BY <1>7, <1>8, <2>1, <2>2, TextsOverLiteral
  <2> QED
    BY <2>1, <2>3
<1> QED
  BY <1>1, <1>5, <1>9, EmitText

LEMMA AtMetavariableFacts ==
  ASSUME IInv, AtMetavariable
  PROVE  /\ Instantiating /\ used < Len(parts) /\ part.content \in Word
         /\ Len(instances) + 1 \in DOMAIN input.matches /\ IsMatch(bindings)
<1>1. /\ Instantiating /\ used < Len(parts) /\ part.type = "metavariable"
      /\ Len(instances) < Len(input.matches)
  BY DEF AtMetavariable, Instantiating
<1>2. parts \in Seq(Part) /\ used \in 0 .. Len(parts) /\ instances \in Seq(Seq(Character))
  BY DEF IInv, TypeOK
<1>3. part \in Part
  BY <1>1, <1>2 DEF part
<1>4. part.content \in Word
  BY <1>1, <1>3 DEF Part
<1>5. Len(instances) + 1 \in DOMAIN input.matches
  BY <1>1, <1>2, InputTypes DEF IInv
<1>6. IsMatch(bindings)
  BY <1>5, MatchTypes DEF bindings
<1> QED
  BY <1>1, <1>4, <1>5, <1>6

(* What is emitted at a metavariable is what its match binds to it.        *)
LEMMA EmitSubstitute ==
  ASSUME IInv, TextInv, AtMetavariable, NEW text \in Seq(Character), Emit(text),
         Readable(bindings) => text = Substitute(part.content, bindings)
  PROVE  TextInv'
<1>1. /\ Instantiating /\ used < Len(parts) /\ IsMatch(bindings)
      /\ part.type = "metavariable"
  BY AtMetavariableFacts DEF AtMetavariable
<1>2. input.tokens \in Seq(Token) /\ AreTokens(input.tokens)
  BY InputTypes DEF IInv
<1>3. ASSUME NEW from \in 0 .. EndOfParts(input.tokens),
             NEW to \in 0 .. EndOfParts(input.tokens),
             Means(input.tokens, part, from, to), Readable(bindings)
      PROVE  Texts(input.tokens, bindings)[to] =
               Texts(input.tokens, bindings)[from] \o text
  <2>1. PICK i \in Metaparameters(input.tokens) :
          /\ part.content = input.tokens[i].word
          /\ from + 1 = input.tokens[i - 1].begin /\ to = input.tokens[i].last
    BY <1>1, <1>3 DEF Means
  <2>2. Texts(input.tokens, bindings)[input.tokens[i].last] =
          Texts(input.tokens, bindings)[input.tokens[i - 1].begin - 1]
            \o Substitute(input.tokens[i].word, bindings)
    BY <1>1, <1>2, TextsOverMetavariable
  <2>3. input.tokens[i - 1].begin - 1 = from
    BY <2>1
  <2> QED
    BY <1>3, <2>1, <2>2, <2>3, Zenon
<1> QED
  BY <1>1, <1>3, EmitText

LEMMA InstantiateMetavariableText ==
  ASSUME IInv, TextInv,
         InstantiateUnbound \/ InstantiateName \/ InstantiateNode \/ InstantiateNodes
  PROVE  TextInv'
<1>1. /\ AtMetavariable /\ part.content \in Word /\ IsMatch(bindings)
      /\ Len(instances) + 1 \in DOMAIN input.matches
  <2>1. AtMetavariable
    BY DEF InstantiateUnbound, InstantiateName, InstantiateNode, InstantiateNodes
  <2> QED
    BY <2>1, AtMetavariableFacts
<1>2. /\ bindings[part.content] = {} => Substitute(part.content, bindings) = << >>
      /\ \A b \in bindings[part.content] :
           /\ Substitute(part.content, bindings) = TextOf(b)
           /\ Substitute(part.content, bindings) \in Seq(Character)
  BY <1>1, SubstituteOf
<1>3. CASE InstantiateUnbound
  <2>1. Emit(<< >>) /\ Substitute(part.content, bindings) = << >>
    BY <1>2, <1>3 DEF InstantiateUnbound
  <2>2. << >> \in Seq(Character)
    OBVIOUS
  <2> QED
    BY <1>1, <2>1, <2>2, EmitSubstitute
<1>4. CASE InstantiateName
  <2>1. PICK b \in bindings[part.content] : b.nameOnly /\ Emit(<< <<"name", b.name>> >>)
    BY <1>4 DEF InstantiateName
  <2>2. TextOf(b) = << <<"name", b.name>> >>
    BY <2>1 DEF TextOf
  <2> QED
    BY <1>1, <1>2, <2>1, <2>2, EmitSubstitute
<1>5. ASSUME NEW b \in bindings[part.content], ~ b.nameOnly,
             NEW range, range = RangeIncludingSemi(b.nodes),
             Emit(Characters("source", range.from, range.to))
      PROVE  TextInv'
  <2>1. b.nodes \in Seq(Span) /\ b.nodes # << >>
    BY <1>1, BoundTypes
  <2>2. range.from \in Nat \ {0} /\ range.to \in Nat
    BY <1>5, <2>1, RangeTypes
  <2>3. Characters("source", range.from, range.to) \in Seq(Character)
    BY <2>2, CharactersType
  <2>4. ASSUME Readable(bindings)
        PROVE  Characters("source", range.from, range.to) = TextOf(b)
    <3> DEFINE end == b.nodes[Len(b.nodes)]
    <3>1. LexesAgain(b.nodes)
      BY <1>1, <1>5, <2>4 DEF Readable
    <3>2. end.semi # NoSemi \/ end.relexed = end.last
      BY <3>1 DEF LexesAgain
    <3>3. /\ range.from = b.nodes[1].begin
          /\ range.to = IF end.semi # NoSemi THEN end.semi ELSE end.last
      BY <1>5, <3>2 DEF RangeIncludingSemi
    <3>4. TextOf(b) = Characters("source", b.nodes[1].begin,
                                 IF end.semi # NoSemi THEN end.semi ELSE end.last)
      BY <1>5 DEF TextOf
    <3> QED
      BY <3>3, <3>4, Zenon
  <2>5. Readable(bindings) =>
          Characters("source", range.from, range.to) = Substitute(part.content, bindings)
    BY <1>2, <1>5, <2>4
  <2> QED
    BY <1>1, <1>5, <2>3, <2>5, EmitSubstitute
<1>6. CASE InstantiateNode
  <2>1. /\ input.ofMatcher
        /\ \E b \in bindings[part.content] :
             Emit(Characters("source", RangeOfNode(b.nodes[1]).from,
                                       RangeOfNode(b.nodes[1]).to))
    BY <1>6 DEF InstantiateNode
  <2>2. PICK b \in bindings[part.content] :
          Emit(Characters("source", RangeOfNode(b.nodes[1]).from,
                                    RangeOfNode(b.nodes[1]).to))
    BY <2>1
  <2>3. Len(b.nodes) = 1 /\ ~ b.nameOnly
    BY <1>1, <2>1, InputsAssumption DEF IInv, bindings
  <2>4. RangeOfNode(b.nodes[1]) = RangeIncludingSemi(b.nodes)
    BY <2>3 DEF RangeOfNode, RangeIncludingSemi
  <2> QED
    BY <1>5, <2>2, <2>3, <2>4
<1>7. CASE InstantiateNodes
  <2>1. PICK b \in bindings[part.content] :
          /\ ~ b.nameOnly
          /\ Emit(Characters("source", RangeIncludingSemi(b.nodes).from,
                                       RangeIncludingSemi(b.nodes).to))
    BY <1>7 DEF InstantiateNodes
  <2> QED
    BY <1>5, <2>1
<1> QED
  BY <1>3, <1>4, <1>6, <1>7

LEMMA OtherStepsText ==
  ASSUME IInv, TextInv, InstantiateCrashes \/ End \/ UNCHANGED vars
  PROVE  TextInv'
<1>1. /\ UNCHANGED <<input, lexed, prev, literalRange, parts, instances, instantiated, used>>
      /\ phase' = phase \/ (phase # "parse" /\ phase' # "parse")
  BY DEF InstantiateCrashes, AtMetavariable, Instantiating, End, vars, reading
<1>2. ReadInv'
  BY <1>1 DEF TextInv, ReadInv
<1>3. InstanceIsSubstitution'
  BY <1>1, NothingInstantiated DEF TextInv
<1>4. \A ends : SoFar(ends)' <=> SoFar(ends)
  BY <1>1 DEF SoFar, bindings, Readable
<1>5. phase # "parse" =>
        (\E e \in [0 .. Len(parts) -> 0 .. EndOfParts(input.tokens)] :
          Covers(input.tokens, parts, e, EndOfParts(input.tokens)) /\ SoFar(e))'
  BY <1>1, <1>4 DEF TextInv
<1> QED
  BY <1>1, <1>2, <1>3, <1>5 DEF TextInv

(* The last part ends with the template, so the instance is complete.      *)
LEMMA ReturnText ==
  ASSUME IInv, TextInv, ReturnInstance
  PROVE  TextInv'
<1> DEFINE N == EndOfParts(input.tokens)
<1>1. /\ phase # "parse" /\ Len(instances) < Len(input.matches) /\ used = Len(parts)
      /\ instances' = Append(instances, instantiated) /\ instantiated' = << >>
      /\ used' = 0 /\ UNCHANGED <<input, lexed, prev, literalRange, parts, phase>>
  BY DEF ReturnInstance, Instantiating, reading
<1>2. /\ instances \in Seq(Seq(Character)) /\ instantiated \in Seq(Character)
      /\ input.matches \in Seq([Word -> SUBSET Binding])
      /\ input.tokens \in Seq(Token) /\ AreTokens(input.tokens)
  BY InputTypes DEF IInv, TypeOK
<1>3. PICK ends \in [0 .. Len(parts) -> 0 .. N] : Covers(input.tokens, parts, ends, N) /\ SoFar(ends)
  BY <1>1 DEF TextInv
<1>4. ends[0] = 0 /\ ends[used] = N
  BY <1>1, <1>3 DEF Covers
<1>5. Len(instances) + 1 \in DOMAIN input.matches /\ IsMatch(bindings)
  <2>1. Len(instances) + 1 \in DOMAIN input.matches
    BY <1>1, <1>2
  <2> QED
    BY <2>1, MatchTypes DEF bindings
<1>6. Readable(bindings) => instantiated = Substituted(input.tokens, bindings)
  <2>1. Texts(input.tokens, bindings)[N] = Substituted(input.tokens, bindings)
    BY <1>2, <1>5, TextsBuilt
  <2> QED
    BY <1>1, <1>3, <1>4, <2>1 DEF SoFar
<1>7. InstanceIsSubstitution'
  <2> SUFFICES ASSUME NEW m \in DOMAIN Append(instances, instantiated),
                      Readable(input.matches[m])
               PROVE  Append(instances, instantiated)[m] =
                        Substituted(input.tokens, input.matches[m])
    BY <1>1 DEF InstanceIsSubstitution, Readable
  <2>1. CASE m \in DOMAIN instances
    <3>1. Append(instances, instantiated)[m] = instances[m]
      BY <1>2, <2>1
    <3> QED
      BY <2>1, <3>1 DEF TextInv, InstanceIsSubstitution
  <2>2. CASE m \notin DOMAIN instances
    <3>1. m = Len(instances) + 1 /\ Append(instances, instantiated)[m] = instantiated
      BY <1>2, <2>2
    <3> QED
      BY <1>6, <3>1 DEF bindings
  <2> QED
    BY <2>1, <2>2
<1>8. SoFar(ends)'
  <2>1. ASSUME Len(instances') < Len(input.matches)
        PROVE  Texts(input.tokens, bindings')[0] = << >>
    <3>1. Len(instances') = Len(instances) + 1
      BY <1>1, <1>2
    <3>2. Len(instances') + 1 \in DOMAIN input.matches
      BY <1>1, <1>2, <2>1, <3>1
    <3>3. bindings' = input.matches[Len(instances') + 1]
      BY <1>1 DEF bindings
    <3>4. IsMatch(bindings')
      BY <3>2, <3>3, MatchTypes
    <3> QED
      BY <1>2, <3>4, TextsBuilt
  <2> QED
    BY <1>1, <1>4, <2>1 DEF SoFar
<1>9. ReadInv'
  BY <1>1 DEF ReadInv, TextInv
<1> HIDE DEF N
<1>10. (\E e \in [0 .. Len(parts) -> 0 .. EndOfParts(input.tokens)] :
          Covers(input.tokens, parts, e, EndOfParts(input.tokens)) /\ SoFar(e))'
  BY <1>1, <1>3, <1>8 DEF N
<1> QED
  BY <1>7, <1>9, <1>10 DEF TextInv

LEMMA NextText == IInv /\ TextInv /\ [Next]_vars => TextInv'
<1> SUFFICES ASSUME IInv, TextInv, [Next]_vars PROVE TextInv'
  OBVIOUS
<1>1. CASE Finished
  BY <1>1, OtherStepsText DEF Finished
<1> QED
  BY <1>1, LexMetaparameterText, LexLiteralText, EndLexingText, InstantiateLiteralText,
     InstantiateMetavariableText, OtherStepsText, ReturnText DEF Next

(* Each instance is the template with the text that its match binds in the *)
(* place of each ?name, for templates and matches of any length and        *)
(* whatever memory the reader starts with.                                 *)
THEOREM Substitutes == Spec => []InstanceIsSubstitution
<1>1. Init => IInv /\ TextInv
  BY InitIInv, InitText
<1>2. IInv /\ TextInv /\ [Next]_vars => IInv' /\ TextInv'
  BY NextIInv, NextText
<1>3. TextInv => InstanceIsSubstitution
  BY DEF TextInv
<1> QED
  BY <1>1, <1>2, <1>3, PTL DEF Spec
=============================================================================
