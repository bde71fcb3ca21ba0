------------------------ MODULE MCLHSTemplateParser ------------------------
(***************************************************************************)
(* Files and configurations for TLC.  The files are small and their nodes  *)
(* stand for constructs in which the parser's decisions differ: statements *)
(* with semicolons, expressions that start together, a class with special  *)
(* members, declarations and a statement of included files between those   *)
(* of the main one.  Node 1 is the translation unit.                       *)
(***************************************************************************)
EXTENDS LHSTemplateParser, FiniteSets

MCNode == 1 .. 10

At(c) == <<1, c>>
On(b, e) == RangeFrom(At(b), At(e))

(* A file has one token per column (and the last of its tokens may be two  *)
(* characters).  It is given by the children, the first and the last token *)
(* of each node, the last character of that token, and the semicolon after *)
(* it.                                                                     *)
Get(s, n, default) == IF n \in DOMAIN s THEN s[n] ELSE default

MCTree(kids, first, last, lit, semi, named, included, special, eof) ==
  [ root |-> 1,
    kids |-> [n \in MCNode |-> Get(kids, n, << >>)],
    range |-> [n \in MCNode |-> On(Get(first, n, 0), Get(last, n, 0))],
    endLit |-> [n \in MCNode |-> At(Get(lit, n, 0))],
    endSemi |-> [n \in MCNode |-> At(Get(semi, n, 0))],
    named |-> named,
    main |-> DOMAIN first \ ({1} \cup included),
    special |-> [n \in MCNode |-> Get(special, n, {})],
    fileRange |-> On(1, eof) ]

(*  g { a ; b + cc ; d ; }       a function g and its body, nodes 2 and 3; *)
(*  1 2 3 4 5 6 7  9 10 .. 12    cc has columns 7 and 8                    *)
Statements ==
  MCTree( << <<2>>, <<3>>, <<4, 5, 8>>, << >>, <<6, 7>> >>,
          <<0, 1, 2, 3, 5, 5, 7, 10>>,
          <<0, 12, 12, 3, 7, 5, 7, 10>>,
          <<0, 12, 12, 3, 8, 5, 8, 10>>,
          <<0, 12, 12, 4, 9, 5, 9, 11>>,
          {2}, {}, << >>, 13 )

(*  class K { K ( ) ; int m = f ; } ;    the injected class name, the      *)
(*  1     2 3 4 5 6 7 8   9 10 11..14    constructor and m are nodes 3..5  *)
Class ==
  MCTree( << <<2>>, <<3, 4, 5>>, << >>, << >>, <<6>> >>,
          <<0, 1, 1, 4, 8, 11>>,
          <<0, 13, 2, 6, 11, 11>>,
          <<0, 13, 2, 6, 11, 11>>,
          <<0, 14, 2, 7, 12, 12>>,
          {2, 3, 4, 5}, {}, <<{}, {3, 4}>>, 15 )

(*  g { f ( x ) = y , z ; }      the comma, the assignment and the call,   *)
(*  1 2 3 4 5 6 7 8 9 10 .. 12   nodes 4, 5 and 6, start together          *)
Expressions ==
  MCTree( << <<2>>, <<3>>, <<4>>, <<5, 10>>, <<6, 9>>, <<7, 8>> >>,
          <<0, 1, 2, 3, 3, 3, 3, 5, 8, 10>>,
          <<0, 12, 12, 10, 8, 6, 3, 5, 8, 10>>,
          <<0, 12, 12, 10, 8, 6, 3, 5, 8, 10>>,
          <<0, 12, 12, 11, 8, 6, 3, 5, 8, 11>>,
          {2}, {}, << >>, 13 )

(*  g ; h ( x ) { s ; }   with declarations 2 and 4 and a statement 8 from *)
(*  1 2 3 4 5 6 7 8 9 10  included files, at positions of those files      *)
Includes ==
  MCTree( << <<2, 3, 4, 5>>, << >>, << >>, << >>, <<6, 7>>, << >>, <<8, 9>> >>,
          <<0, 2, 1, 5, 3, 5, 7, 8, 8>>,
          <<0, 3, 1, 9, 10, 5, 10, 8, 8>>,
          <<0, 3, 1, 9, 10, 5, 10, 8, 8>>,
          <<0, 3, 2, 9, 10, 5, 10, 9, 9>>,
          {2, 3, 4, 5, 6}, {2, 4, 8}, << >>, 11 )

MCTrees == {Statements, Class, Expressions, Includes}

(* They are what the theorems about such files suppose of them.            *)
ASSUME TreesAssumption ==
  /\ \A t \in MCTrees : IsTree(t) /\ InOrder(t) /\ Enclosing(t)
  /\ \A t \in MCTrees \ {Includes} : Nested(t)

MCIdentifier == 1 .. 3

MCInput(t, range, metavars) ==
  [tree |-> t, templateRange |-> range, metavars |-> metavars]

(* Every template range, with no metavariable.                             *)
TemplatesOnly ==
  {MCInput(t, r, {}) :
     t \in MCTrees, r \in {On(b, e) : b \in 1 .. 12, e \in 1 .. 15}}

MCTemplateInputs == {i \in TemplatesOnly : Valid(i.templateRange)}

-----------------------------------------------------------------------------

(* The configurations that validateRangeConstraints accepts, in one of the *)
(* orders in which the sort may leave their metavariables.                 *)
Accepted(range, metavars) ==
  /\ \A m \in metavars : Valid(m.range) /\ EnclosedIn(m.range, range)
  /\ LET index == 1 .. Cardinality(metavars)
     IN  \E s \in [index -> metavars] :
           /\ {s[i] : i \in index} = metavars
           /\ \A i \in index : i > 1 =>
                /\ LocLeq(s[i - 1].range.begin, s[i].range.begin)
                /\ \/ s[i - 1].nameOnly \/ s[i].nameOnly
                   \/ ~ OverlapsWith(s[i - 1].range, s[i].range)

Metavar(i, nameOnly, r) == [identifier |-> i, nameOnly |-> nameOnly, range |-> r]

(* A range begins where a node does or in column 6, and ends where a node  *)
(* does, with its last token and semicolon or without.                     *)
Starts(t) == {t.range[n].begin : n \in t.main} \cup {At(6)}
Ends(t) == UNION {{t.range[n].end, t.endLit[n], t.endSemi[n]} : n \in t.main}

MCRanges(t, within) ==
  {r \in [begin : Starts(t), end : Ends(t)] : Valid(r) /\ EnclosedIn(r, within)}

(* One metavariable or two; which of two has which name is told apart only *)
(* where both have the same range.                                         *)
UpToTwo(t, within) ==
  LET ranges == MCRanges(t, within)
      pairs == {p \in ranges \X ranges : LocLeq(p[1].begin, p[2].begin)}
  IN  {{Metavar(1, o, r)} : o \in BOOLEAN, r \in ranges}
      \cup {{Metavar(1, o1, p[1]), Metavar(2, o2, p[2])} :
              o1, o2 \in BOOLEAN, p \in pairs}

(* Two whole ones that overlap, and a name-only one that starts between.   *)
Leaks(t, within) ==
  LET ranges == MCRanges(t, within)
      triples == {p \in ranges \X ranges \X ranges :
                    /\ LocLeq(p[1].begin, p[2].begin)
                    /\ LocLeq(p[2].begin, p[3].begin)
                    /\ Intersect(p[1], p[3]) }
  IN  {{Metavar(1, FALSE, p[1]), Metavar(2, TRUE, p[2]), Metavar(3, FALSE, p[3])} :
         p \in triples}

MCTemplates ==
  { <<Statements, On(3, 9)>>, <<Statements, On(1, 12)>>, <<Class, On(1, 14)>>,
    <<Expressions, On(3, 11)>>, <<Includes, On(3, 10)>>, <<Includes, On(1, 10)>> }

MCMetavarInputs ==
  UNION { {MCInput(f[1], f[2], ms) :
            ms \in {s \in UpToTwo(f[1], f[2]) : Accepted(f[2], s)}} :
          f \in MCTemplates }
  \cup {MCInput(Class, On(4, 11), ms) : ms \in Leaks(Class, On(4, 11))}

(* So does the configuration check for all that the parser is given.       *)
ASSUME MetavarsAssumption ==
  \A i \in MCMetavarInputs : \A m \in i.metavars : EnclosedIn(m.range, i.templateRange)

(* The same without the nodes of included files.                           *)
MCMainFileInputs == {i \in MCMetavarInputs : i.tree # Includes}
=============================================================================
