----------------------------- MODULE Rewriting -----------------------------
(***************************************************************************)
(* What a run of the tool is given, and the text that it is to make of a   *)
(* source file.  The configuration, parsing and matching are represented   *)
(* by their outcomes, each of which has a module of its own.               *)
(***************************************************************************)
EXTENDS Elimination, SourceReader

CONSTANTS
  File,          \* names of source files
  Name,          \* of all files
  Match,         \* complete matches, before overlaps are eliminated
  Source,        \* what is no match: the text of the file itself
  Inputs

Input ==
  [ byTemplate       : BOOLEAN,         \* or by a matcher of clang's
    sources          : SUBSET File,     \* as they are written in the list
    known            : SUBSET File,     \* to the compilation database
    units            : Seq(File),       \* one for each command that parses
    wellFormed       : BOOLEAN,         \* the configuration
    templateSource   : File,
    transformTemplateSource : BOOLEAN,
    overwriteSourceFiles    : BOOLEAN,
    templateFound    : BOOLEAN,         \* by the parser, with metavariables
    matchingCrashes  : BOOLEAN,
    owner            : [Match -> File],
    nodes            : [Match -> Seq(Span)],
    instance         : [Match -> Nat],  \* the length of the template's instance
    crashing         : SUBSET Match,    \* cannot be instantiated
    length           : [File -> Nat],
    transformed      : [File -> Name] ] \* ".transformed" in the name

VARIABLE input     \* never changes

Replaced(m) == RangeIncludingSemi(input.nodes[m])

From(m) == Replaced(m).from
To(m) == Replaced(m).to

(* What the elimination compares: from the first node to where the last    *)
(* token of the last one starts.                                           *)
RangeOf(m) ==
  LET spans == input.nodes[m]
  IN  RangeFrom(<<1, spans[1].begin>>, <<1, spans[Len(spans)].end>>)

Of(f) == {m \in Match : input.owner[m] = f}

Units == {input.units[i] : i \in DOMAIN input.units}

Permitted_All(f) == TRUE

Permitted(f) == f # input.templateSource \/ input.transformTemplateSource

OutputName(f) ==
  IF input.overwriteSourceFiles THEN f ELSE input.transformed[f]

(* The user's part: the configuration is sound, and the template can be    *)
(* found in a source that is parsed along with the others.                 *)
Prepared ==
  input.byTemplate =>
    /\ input.wellFormed
    /\ input.templateSource \in Units
    /\ input.templateFound

(* The files that are rewritten: by a template, those that are permitted   *)
(* and have matches; by a matcher, all.                                    *)
Outputs == { f \in Units : input.byTemplate => Permitted(f) /\ Of(f) # {} }

Ranges == [m \in Match |-> RangeOf(m)]

(* What may be replaced in f: without overlaps, or each match there is.    *)
Choices(f) ==
  IF input.byTemplate THEN Reports(Of(f), Ranges) ELSE Orders(Of(f), Ranges)

-----------------------------------------------------------------------------
(* Text.  A character is named for where it comes from.                    *)

Character == [file : File, of : Match \cup {Source}, at : Nat \ {0}]

Original(f) ==
  [p \in 1 .. input.length[f] |-> [file |-> f, of |-> Source, at |-> p]]

Instance(f, m) ==
  [p \in 1 .. input.instance[m] |-> [file |-> f, of |-> m, at |-> p]]

(* Where a character of f's rewritten text belongs: that of an instance    *)
(* between the characters of the file before and behind the match.         *)
Place(c) == IF c.of = Source THEN <<c.at, 0>> ELSE <<From(c.of), c.at>>

CharactersOf(text) == {text[i] : i \in DOMAIN text}

InNone(p, ms) == \A i \in DOMAIN ms : p < From(ms[i]) \/ To(ms[i]) < p

(* What is left of f without the matches ms, and what replaces them.       *)
Expected(f, ms) ==
  { c \in CharactersOf(Original(f)) : InNone(c.at, ms) }
    \cup UNION { CharactersOf(Instance(f, ms[i])) : i \in DOMAIN ms }

(* The text is f with each of the matches replaced, and nothing else.      *)
IsRewritten(text, f, ms) ==
  /\ CharactersOf(text) = Expected(f, ms)
  /\ \A i, j \in DOMAIN text : i < j => LocLess(Place(text[i]), Place(text[j]))

(* Each one ends, with what is replaced along with it, before the next.    *)
Apart(ms) == \A i, j \in DOMAIN ms : i < j => To(ms[i]) < From(ms[j])

-----------------------------------------------------------------------------
(* Clang gives an AST for a file that is in the compilation database only, *)
(* nodes have their text in their file, and no two outputs have one name.  *)
ASSUME InputsAssumption ==
  /\ File \subseteq Name /\ Source \notin Match /\ IsFiniteSet(Match)
  /\ Inputs \subseteq Input
  /\ \A i \in Inputs :
       /\ \A k \in DOMAIN i.units : i.units[k] \in i.known
       /\ \A m \in Match :
            /\ i.nodes[m] # << >>
            /\ i.nodes[m][1].begin <= i.nodes[m][Len(i.nodes[m])].end
            /\ RangeIncludingSemi(i.nodes[m]).to <= i.length[i.owner[m]]
       /\ \A f, g \in File : i.transformed[f] = i.transformed[g] => f = g
       /\ \A f \in File : i.transformed[f] # f

=============================================================================
