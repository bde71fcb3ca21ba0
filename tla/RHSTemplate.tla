---------------------------- MODULE RHSTemplate ----------------------------
(***************************************************************************)
(* A right-hand side template: split into literals and metavariables when  *)
(* it is read, and instantiated for one match after the other.  Parts and  *)
(* instances are made of characters, which are named for what they are:    *)
(* the p-th one of the template or of the matched source, or a whole name. *)
(***************************************************************************)
EXTENDS SequencesExt, SourceReader

CONSTANTS
  Word,          \* identifiers, of metavariables among them
  Inputs,
  Garbage        \* tokens that uninitialised memory may look like

Token ==
  [ kind  : {"question", "identifier", "other"},
    word  : Word,            \* of identifiers
    begin : Nat \ {0},       \* the first character
    last  : Nat \ {0},       \* the last character
    apart : BOOLEAN ]        \* behind white space or the start of a line

Binding == [nameOnly : BOOLEAN, isNamed : BOOLEAN, name : Word, nodes : Seq(Span)]

(* What the lexer finds in a file: tokens one behind the other, and white  *)
(* space only where it says so.                                            *)
AreTokens(tokens) ==
  /\ \A i \in DOMAIN tokens :
       /\ tokens[i].begin <= tokens[i].last
       /\ i = 1 => tokens[i].apart
  /\ \A i \in DOMAIN tokens \ {1} :
       IF tokens[i].apart THEN tokens[i - 1].last + 1 < tokens[i].begin
                          ELSE tokens[i - 1].last + 1 = tokens[i].begin

(* Matches of a left-hand side template, or of one of clang's matchers:    *)
(* these bind a single node each.                                          *)
Input ==
  [ tokens    : Seq(Token),
    ofMatcher : BOOLEAN,
    matches   : Seq([Word -> SUBSET Binding]) ]  \* each word to at most one

ASSUME InputsAssumption ==
  /\ Inputs \subseteq Input /\ Garbage \subseteq Token
  /\ \A i \in Inputs : AreTokens(i.tokens)
  /\ \A i \in Inputs : \A m \in DOMAIN i.matches :
       \A w \in Word : \A b, c \in i.matches[m][w] :
         /\ b.nodes # << >> /\ b = c
         /\ i.ofMatcher => Len(b.nodes) = 1 /\ ~ b.nameOnly

VARIABLES
  input,           \* never changes
  phase,           \* "parse", "instantiate", "end" or "crashed"
  lexed,           \* the number of tokens lexed
  prev,            \* the token lexed last, or uninitialised
  literalRange,
  parts,           \* _templateParts
  instances,       \* of the matches so far
  instantiated,    \* the instance of the next match, up to
  used             \* so many parts

vars == <<input, phase, lexed, prev, literalRange, parts, instances,
          instantiated, used>>

reading == <<input, lexed, prev, literalRange, parts>>

-----------------------------------------------------------------------------
(* RHSTemplate::parse                                                      *)

Init ==
  /\ input \in Inputs
  /\ phase = "parse"
  /\ lexed = 0
  /\ prev \in Garbage
  /\ literalRange = [begin |-> 1, end |-> 1]
  /\ parts = << >> /\ instances = << >>
  /\ instantiated = << >> /\ used = 0

EndLoc(token) == token.last + 1

IsMetaparameter_Anywhere(curr, before) ==
  curr.kind = "identifier" /\ before.kind = "question"

IsMetaparameter(curr, before) ==
  curr.kind = "identifier" /\ before.kind = "question" /\ ~ curr.apart

(* readSourceRange: the end is the last character that is read.            *)
Literal(begin, end) == [type |-> "literal", from |-> begin, to |-> end]

Metavariable(word) == [type |-> "metavariable", content |-> word]

LiteralBefore_Always(question) ==
  <<Literal(literalRange.begin, question.begin - 1)>>

LiteralBefore(question) ==
  IF question.begin # literalRange.begin
  THEN <<Literal(literalRange.begin, question.begin - 1)>>
  ELSE << >>

curr == input.tokens[lexed + 1]

Lex ==
  /\ phase = "parse" /\ lexed < Len(input.tokens)
  /\ lexed' = lexed + 1
  /\ prev' = curr

LexMetaparameter ==
  /\ Lex /\ IsMetaparameter(curr, prev)
  /\ parts' = parts \o LiteralBefore(prev) \o <<Metavariable(curr.word)>>
  /\ literalRange' = [begin |-> EndLoc(curr), end |-> EndLoc(curr)]
  /\ UNCHANGED <<input, phase, instances, instantiated, used>>

LexLiteral ==
  /\ Lex /\ ~ IsMetaparameter(curr, prev)
  /\ literalRange' = [literalRange EXCEPT !.end = EndLoc(curr)]
  /\ UNCHANGED <<input, phase, parts, instances, instantiated, used>>

(* The end of the final literal is behind its last character already.      *)
FinalLiteral ==
  IF literalRange.begin # literalRange.end
  THEN <<Literal(literalRange.begin, literalRange.end)>>
  ELSE << >>

EndLexing ==
  /\ phase = "parse" /\ lexed = Len(input.tokens)
  /\ parts' = parts \o FinalLiteral
  /\ phase' = "instantiate"
  /\ UNCHANGED <<input, lexed, prev, literalRange, instances, instantiated, used>>

-----------------------------------------------------------------------------
(* RHSTemplate::instantiate, once for each match                           *)

Characters(of, from, to) == [k \in 1 .. to - from + 1 |-> <<of, from + k - 1>>]

bindings == input.matches[Len(instances) + 1]

Instantiating == phase = "instantiate" /\ Len(instances) < Len(input.matches)

part == parts[used + 1]

Emit(text) ==
  /\ instantiated' = instantiated \o text
  /\ used' = used + 1
  /\ UNCHANGED <<reading, phase, instances>>

InstantiateLiteral ==
  /\ Instantiating /\ used < Len(parts) /\ part.type = "literal"
  /\ Emit(Characters("template", part.from, part.to))

AtMetavariable ==
  Instantiating /\ used < Len(parts) /\ part.type = "metavariable"

InstantiateUnbound_Again ==
  /\ AtMetavariable /\ bindings[part.content] = {}
  /\ UNCHANGED vars

(* "No binding for" the metavariable is printed, and nothing added.        *)
InstantiateUnbound ==
  /\ AtMetavariable /\ bindings[part.content] = {}
  /\ Emit(<< >>)

InstantiateName ==
  /\ AtMetavariable
  /\ \E b \in bindings[part.content] :
       b.nameOnly /\ b.isNamed /\ Emit(<< <<"name", b.name>> >>)

(* The node is no NamedDecl, and a null pointer is dereferenced.           *)
InstantiateCrashes ==
  /\ AtMetavariable
  /\ \E b \in bindings[part.content] : b.nameOnly /\ ~ b.isNamed
  /\ phase' = "crashed"
  /\ UNCHANGED <<reading, instances, instantiated, used>>

InstantiateNode ==
  /\ AtMetavariable /\ input.ofMatcher
  /\ \E b \in bindings[part.content] :
       LET range == RangeOfNode(b.nodes[1])
       IN  Emit(Characters("source", range.from, range.to))

InstantiateNodes ==
  /\ AtMetavariable /\ ~ input.ofMatcher
  /\ \E b \in bindings[part.content] :
       /\ ~ b.nameOnly
       /\ LET range == RangeIncludingSemi(b.nodes)
          IN  Emit(Characters("source", range.from, range.to))

ReturnInstance ==
  /\ Instantiating /\ used = Len(parts)
  /\ instances' = Append(instances, instantiated)
  /\ instantiated' = << >>
  /\ used' = 0
  /\ UNCHANGED <<reading, phase>>

(* No match is left to be replaced.                                        *)
End ==
  /\ phase = "instantiate" /\ Len(instances) = Len(input.matches)
  /\ phase' = "end"
  /\ UNCHANGED <<reading, instances, instantiated, used>>

Finished == phase \in {"end", "crashed"} /\ UNCHANGED vars

Next ==
  \/ LexMetaparameter \/ LexLiteral \/ EndLexing
  \/ InstantiateLiteral \/ InstantiateUnbound \/ InstantiateName
  \/ InstantiateCrashes \/ InstantiateNode \/ InstantiateNodes
  \/ ReturnInstance \/ End \/ Finished

(* One thread, which waits for nothing.                                    *)
Spec == Init /\ [][Next]_vars /\ WF_vars(Next)

-----------------------------------------------------------------------------
(* Properties                                                              *)

Character ==
  ({"template", "source"} \X (Nat \ {0})) \cup ({"name"} \X Word)

Part ==
  [type : {"literal"}, from : Nat \ {0}, to : Nat \ {0}]
    \cup [type : {"metavariable"}, content : Word]

(* The lexer's position, the literal being read, the parts and what is     *)
(* instantiated of them have their types.                                  *)
TypeOK ==
  /\ input \in Input
  /\ phase \in {"parse", "instantiate", "end", "crashed"}
  /\ lexed \in 0 .. Len(input.tokens)
  /\ prev \in Token
  /\ literalRange \in [begin : Nat \ {0}, end : Nat \ {0}]
  /\ parts \in Seq(Part)
  /\ instances \in Seq(Seq(Character)) /\ Len(instances) <= Len(input.matches)
  /\ instantiated \in Seq(Character)
  /\ used \in 0 .. Len(parts)

(* Where a template says ?name.                                            *)
Metaparameters(tokens) ==
  { i \in 2 .. Len(tokens) :
      /\ tokens[i - 1].kind = "question" /\ tokens[i].kind = "identifier"
      /\ tokens[i - 1].last + 1 = tokens[i].begin }

TextOf(b) ==
  LET end == b.nodes[Len(b.nodes)]
  IN  IF b.nameOnly THEN << <<"name", b.name>> >>
      ELSE Characters("source", b.nodes[1].begin,
                      IF end.semi # NoSemi THEN end.semi ELSE end.last)

Substitute(word, match) ==
  IF match[word] = {} THEN << >> ELSE TextOf(CHOOSE b \in match[word] : TRUE)

(* Which ?name the p-th character of a template belongs to.                *)
Around(tokens, p) ==
  {i \in Metaparameters(tokens) : tokens[i - 1].begin <= p /\ p <= tokens[i].last}

(* What stands for the p-th character of the template in an instance.      *)
InsteadOf(tokens, p, match) ==
  IF Around(tokens, p) = {} THEN << <<"template", p>> >>
  ELSE LET i == CHOOSE i \in Around(tokens, p) : TRUE
       IN  IF p = tokens[i - 1].begin THEN Substitute(tokens[i].word, match)
           ELSE << >>

EndOfTokens(tokens) == IF tokens = << >> THEN 0 ELSE tokens[Len(tokens)].last

(* The character behind the last token is read with it, unless that is a   *)
(* metavariable.                                                           *)
EndOfParts(tokens) ==
  IF tokens = << >> \/ Len(tokens) \in Metaparameters(tokens)
  THEN EndOfTokens(tokens) ELSE EndOfTokens(tokens) + 1

Pieces(tokens, match) ==
  [p \in 1 .. EndOfParts(tokens) |-> InsteadOf(tokens, p, match)]

Substituted(tokens, match) == FlattenSeq(Pieces(tokens, match))

Readable(match) ==
  \A w \in Word : \A b \in match[w] : b.nameOnly \/ LexesAgain(b.nodes)

(* Each instance is the text of the template with every ?name replaced by  *)
(* the text that its match binds to it, whatever memory prev started with, *)
(* however many matches came before, and wherever white space is.  Nodes   *)
(* that end with a string literal are excepted.                            *)
InstanceIsSubstitution ==
  \A m \in DOMAIN instances :
    Readable(input.matches[m]) =>
      instances[m] = Substituted(input.tokens, input.matches[m])

(* Reading and instantiating come to an end.                               *)
Terminates == <>(phase \in {"end", "crashed"})
=============================================================================
