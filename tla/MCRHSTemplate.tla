--------------------------- MODULE MCRHSTemplate ---------------------------
EXTENDS RHSTemplate

CONSTANTS a, b

MCWord == {a, b}

(* Kinds of tokens: their length is that of what they stand for.           *)
Shapes ==
  { [kind |-> "question", word |-> a, length |-> 1],
    [kind |-> "identifier", word |-> a, length |-> 2],
    [kind |-> "identifier", word |-> b, length |-> 1],
    [kind |-> "other", word |-> a, length |-> 2] }

(* A layout says for each token what it is and whether a space precedes.   *)
Layouts == UNION {[1 .. n -> Shapes \X {0, 1}] : n \in 0 .. 4}

(* Two identifiers without a space between them are one.                   *)
IsLexed(layout) ==
  \A i \in 2 .. Len(layout) :
    ~ ( /\ layout[i][2] = 0
        /\ {layout[i - 1][1].kind, layout[i][1].kind} = {"identifier"} )

LastOf(layout, i) ==
  FoldFunctionOnSet(LAMBDA t, n : t[1].length + t[2] + n, 0, layout, 1 .. i)

Tokens(layout) ==
  [ i \in DOMAIN layout |->
      LET t == layout[i][1]
      IN  [ kind |-> t.kind, word |-> t.word,
            begin |-> LastOf(layout, i) - t.length + 1, last |-> LastOf(layout, i),
            apart |-> i = 1 \/ layout[i][2] = 1 ] ]

Nodes(nodes) == [nameOnly |-> FALSE, isNamed |-> FALSE, name |-> a, nodes |-> nodes]

NameOf(named) ==
  [ nameOnly |-> TRUE, isNamed |-> named, name |-> b,
    nodes |-> <<[begin |-> 1, end |-> 1, last |-> 3, relexed |-> 3, semi |-> NoSemi]>> ]

Statement == [begin |-> 1, end |-> 2, last |-> 2, relexed |-> 2, semi |-> 4]
Expression == [begin |-> 6, end |-> 6, last |-> 7, relexed |-> 7, semi |-> NoSemi]
StringLiteral == [begin |-> 6, end |-> 6, last |-> 7, relexed |-> 9, semi |-> NoSemi]

(* Two matches one after the other, the second one without b; a binding of *)
(* a name; and one of a node that has none.  A match of clang's matchers.  *)
Matched ==
  { << (a :> {Nodes(<<Expression>>)} @@ b :> {}),
       (a :> {Nodes(<<Statement>>)} @@ b :> {Nodes(<<Expression>>)}) >> }

Matches ==
  { << (a :> {Nodes(<<Statement, Expression>>)} @@ b :> {Nodes(<<Statement>>)}),
       (a :> {Nodes(<<Expression>>)} @@ b :> {}) >>,
    << (a :> {NameOf(TRUE)} @@ b :> {Nodes(<<StringLiteral>>)}),
       (a :> {} @@ b :> {NameOf(TRUE)}) >>,
    << (a :> {NameOf(FALSE)} @@ b :> {}) >> }

MCInputs ==
  { [tokens |-> Tokens(l), ofMatcher |-> m \in Matched, matches |-> m] :
      l \in {k \in Layouts : IsLexed(k)}, m \in Matches \cup Matched }

MCGarbage ==
  { [kind |-> k, word |-> a, begin |-> 1, last |-> 1, apart |-> FALSE] :
      k \in {"question", "other"} }
=============================================================================
