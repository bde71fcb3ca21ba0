---------------------------- MODULE MCTransform ----------------------------
(***************************************************************************)
(* Two files with up to three and two matches, the second one called what  *)
(* the first one's output is called; and a header, which is in no list.    *)
(***************************************************************************)
EXTENDS Transform, TLC

CONSTANTS f1, f2, header, x

MCFile == {f1, f2, header}
MCName == {f1, f2, header, x}
MCMatch == 1 .. 5

Node(b, e, l, semi) == [begin |-> b, end |-> e, last |-> l, relexed |-> l, semi |-> semi]

(* A string literal of two characters, from the second of which lexing     *)
(* finds all up to p.                                                      *)
Literal(b, p) == [begin |-> b, end |-> b, last |-> b + 1, relexed |-> p, semi |-> NoSemi]

(* The matches of f1.  Apart, with a semicolon at once or after a space;   *)
(* two that overlap; three of which the first meets the others; two with   *)
(* the same start; a null statement before another; a literal.             *)
Shapes ==
  { << <<Node(2, 2, 2, NoSemi)>>, <<Node(3, 4, 4, 6)>> >>,
    << <<Node(2, 2, 2, 3), Node(4, 4, 4, NoSemi)>>, <<Node(5, 5, 6, NoSemi)>> >>,
    << <<Node(1, 4, 4, NoSemi)>>, <<Node(3, 6, 6, NoSemi)>> >>,
    << <<Node(1, 5, 5, NoSemi)>>, <<Node(2, 2, 2, NoSemi)>>, <<Node(4, 7, 7, NoSemi)>> >>,
    << <<Node(2, 2, 2, NoSemi)>>, <<Node(2, 5, 6, NoSemi)>>, <<Node(7, 7, 7, NoSemi)>> >>,
    << <<Node(3, 3, 3, 4)>>, <<Node(4, 4, 4, NoSemi)>> >>,
    << <<Literal(1, 5)>>, <<Literal(4, 5)>> >> }

Lengths == {0, 1, 4}

(* f2 has the fourth and the fifth match or none.                          *)
Second == << <<Node(2, 2, 2, NoSemi)>>, <<Node(3, 4, 4, 6)>> >>

With(shape, lengths, n, crash) ==
  LET k == Len(shape)
  IN  [ owner    |-> [m \in MCMatch |-> IF m <= k THEN f1
                                        ELSE IF m <= 3 \/ n < m - 3 THEN header ELSE f2],
        nodes    |-> [m \in MCMatch |-> IF m <= k THEN shape[m] ELSE Second[IF m = 5 THEN 2 ELSE 1]],
        instance |-> [m \in MCMatch |-> IF m <= 3 THEN lengths[m] ELSE m - 2],
        crashing |-> crash ]

Matchings ==
  { With(s, l, n, c) : s \in Shapes, l \in [1 .. 3 -> Lengths], n \in {0, 2}, c \in {{}} }
  \cup { With(<< >>, <<1, 1, 1>>, n, {}) : n \in 0 .. 2 }
  \cup { With(<<<<Node(2, 2, 2, NoSemi)>>>>, <<1, 1, 1>>, n, c) :
           n \in 0 .. 1, c \in {{1}, {4}} }

Lists_ == {<<f1>>, <<f1, f2>>, <<f2, f1, f1>>}

Settings ==
  { [ units |-> u, templateSource |-> t, transformTemplateSource |-> tt,
      overwriteSourceFiles |-> o ] :
      u \in Lists_, t \in {f1, f2}, tt \in BOOLEAN, o \in BOOLEAN }

Given(s, g, byTemplate, sources, wellFormed, found, crashes) ==
  [ byTemplate |-> byTemplate, sources |-> sources,
    known |-> {s.units[i] : i \in DOMAIN s.units}, units |-> s.units,
    wellFormed |-> wellFormed, templateSource |-> s.templateSource,
    transformTemplateSource |-> s.transformTemplateSource,
    overwriteSourceFiles |-> s.overwriteSourceFiles,
    templateFound |-> found, matchingCrashes |-> crashes,
    owner |-> g.owner, nodes |-> g.nodes, instance |-> g.instance, crashing |-> g.crashing,
    length |-> (f1 :> 7) @@ (f2 :> 6) @@ (header :> 7),
    transformed |-> (f1 :> f2) @@ (f2 :> x) @@ (header :> f1) ]

MCInputs ==
  { Given(s, g, b, {f1}, TRUE, TRUE, FALSE) : s \in Settings, g \in Matchings, b \in BOOLEAN }
  \cup
  { Given(s, With(<< >>, <<1, 1, 1>>, 1, {}), TRUE, sources, w, f, c) :
      s \in Settings, sources \in {{}, {f1}, {f1, f2}}, w \in BOOLEAN, f \in BOOLEAN,
      c \in BOOLEAN }
=============================================================================
