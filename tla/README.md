# Framework X: a TLA+ model

Framework X transforms C++ sources by example. A *left-hand side template* is a
piece of an ordinary C++ file; a JSON configuration says where it lies and
which parts of it are *metavariables*. The tool finds every piece of the given
sources that looks like the template, binds the metavariables, and replaces the
piece by an instance of a *right-hand side template*. It is a sequential
command-line program (clang tooling); what makes it hard is neither threads nor
messages but four algorithms that advance over trees and lists by comparing
locations, drop what does not fit, and never go back. This directory holds a
model of them, what TLC checks of it and what TLAPS proves.

Paths below are relative to `src/Framework X/`.

## 1. Inventory

| Component | State | Operations | Hard part |
|---|---|---|---|
| `LHS/LHSConfiguration.hpp` locations and ranges | none | comparisons, `overlapsWith`, `enclosedIn`, the order of `MetavarLoc` | `overlapsWith` is one-sided: right only if its receiver starts first |
| `LHS/LHSConfiguration.cpp` | fields of the configuration; in the check, the chasing pointer `prevMetavar` | read and validate JSON, resolve paths, read fields, sort, `validateRangeConstraints` | overlaps are looked for between neighbours only |
| `LHS/LHSTemplateParser` | `templateParsed`, `templateConstructionBegan`, queue of template subtrees, `remainingMetavariables`, `parsingMetavariable` | `parseSubtreeToTemplate`, `parseMetavariables`, `continueTraversal`, `HandleTranslationUnit` | a preorder walk that compares locations and never looks at parents; `parsingMetavariable` is carried from node to node |
| `LHS/LHSTemplate` (template) | template subtrees, map from nodes to metavariables | `addTemplateSubtree`, `addMetavariable` (which also binds special members of classes implicitly) | explicit and implicit bindings of one node |
| `LHS/LHSTemplate::matchAST`, `ASTTraversalState` | the template's traversal, a vector of potential matches with traversals of their own | gather, compare, descend, go on, go back, extend for a metavariable | all traversals move in lock step; there is no backtracking over choices |
| `matchAST`, second part | results per file with their ranges | group, sort, eliminate overlaps | neighbours are compared, dropped or not |
| `LHS/LHSComparators` | none | `compare` of two nodes | what counts as the same node; absent nodes |
| `common/Lexer` | none | end of a token, semicolon after a location | three different ends of a node |
| `RHS/RHSTemplate`, `SourceReader` | list of parts | `parse`, `instantiate` | off-by-one at literals, the first token |
| `common/X.cpp`, `main.cpp` | ASTs, rewriter, output files | `transform`, `fileProcessed`, `run` | early returns, partial failure, what is written where |
| `3rd/json`, `3rd/json-schema-validator` | - | vendored | numbers are narrowed to `int` without a test |

Interaction: `main` calls `transform`, which constructs the configuration,
builds the ASTs, hands the configuration and the AST of the template source to
the parser, calls `matchAST` on the template the parser returns, and rewrites
the files of the results with the right-hand side. The accepted configuration
is the parser's precondition; the parser's map of metavariables (one per node,
none below a whole one) is the matcher's; disjoint results are what the
rewriter needs. A `MalformedConfigException` from the first two ends the run.

What each component must get right is stated as properties, see section 3; the
hazards they are aimed at are listed, with their lines, in `PROJECT.json`.

## 2. Modules

| Module | Models | How |
|---|---|---|
| `TemplateRange` | `TemplateLocation`, `TemplateRange` | pure operators; a location is a pair of line and column |
| `Metavariables` | `MetavarLoc` and its order | an identifier is its rank in the order of strings |
| `ConfigurationFile` | what is read of the JSON file, the narrowing of its numbers, sorting | pure operators |
| `LHSConfiguration` | the constructor of `LHSConfiguration` | one action per stage; the check of constraints takes one metavariable per step, one action per outcome |
| `ConfigurationGate` | what the constructor promises | abstract: one step from the file to a configuration or an exception |
| `LHSTemplateParser` | `LHSParserConsumer` and `LHSParserVisitor` | the recursion of the visitor is the list `pending` of nodes still to be visited; one action per branch of `parseSubtreeToTemplate` and of `parseMetavariables` |
| `LHSComparators` | `compare` and all it calls | pure operators on the contents of two nodes; a type is the list of layers that `compareTypes` takes off |
| `ASTNode` | `ASTNode::getChildren` | which of the parts that clang has for a node are its children |
| `MatchAST` | the loop of `matchAST`, `ASTTraversalState`, `PotentialMatch`, `PotentialMatchFinder` | one action per way through the loop's body; a traversal is a stack of lists of siblings with a position |
| `MatchReference` | what a match is, as a recursive function (a definition, not code) | the specification that `MatchAST` is compared with |
| `Elimination` | the sorting and the elimination of results of a file | pure operators |
| `MatchResults` | the rest of `matchAST` | one action per iteration of the loop over files and of the pass over results |
| `FileReports` | what that part promises | abstract: one step per file |
| `SourceReader` | which text of a run of nodes is read or replaced | pure operators on character positions |
| `RHSTemplate` | `RHSTemplate` | one action per kind of token in `parse`, one per kind of part in `instantiate`, one for `instantiate` with a result of clang's; a text is a sequence of characters named for where they come from |
| `Rewriting` | what a run is given, and what a rewritten file should be | pure operators |
| `Transform` | both overloads of `X::transform`, `InternalCallback`, `XCallback`, `main` | one action per step of the run; configuration and parsing are represented by their outcomes, matching by `FileReports`; clang's `Rewriter` is modelled from how it is used |
| `OutputFiles` | what a run promises of the files on disk | abstract: each output appears at once and complete |
| `TemplateRangeTheorems`, `LHSConfigurationProofs`, `LHSTemplateParserProofs`, `LHSTemplateTreeProofs`, `MatchASTProofs`, `MatchResultsProofs`, `RHSTemplateProofs`, `TransformProofs` | proofs | |
| `MC...` | inputs for TLC | |

```
 LHSConfiguration ..implements..> ConfigurationGate      (AnswersAsPromised)
   | ranges, metavariables
 LHSTemplateParser
   | template subtrees, map of metavariables
 MatchAST  ..equals..> MatchReference                    (MatchesExact)
   | potential matches with their ranges
 MatchResults  ..implements..> FileReports               (ReportsFileByFile)
   | results per file, from FileReports itself
 Transform  ..implements..> OutputFiles                  (WritesWholeOutputs)
   ^ instances of the right-hand side
 RHSTemplate
```

`Transform` is composed with the elimination: it takes its matching step from
`FileReports`, which `MatchResults` is proved to implement, so that the results
the rewriter gets are those that the elimination can leave, overlapping ones
among them.

Every module takes what it works on as a constant set of inputs (`Files`,
`Inputs`) and chooses one in `Init`. So the specifications are parameterised by
all that the program may be given, and the theorems hold for every such set.

Abstractions:

* Node contents. A node has a kind (of those classes that `compare` or
  `getChildren` ask for, and a few of the others), and what is compared of that
  kind: name, access, type, the declaration it refers to; operator, literal
  value, modifiers and flags are one label, `detail` or `value`, as `compare`
  does nothing but compare them. A type is the sequence of its layers, from the
  outside to the inside, each with class, qualifiers and label. The type a tag or
  typedef declares may be absent: clang makes it when it is first needed.
* Children. The parser takes any tree. The matcher's nodes have the lists that
  clang keeps for them, of which `GetChildren` makes the list of children.
* The lexer. For each node the input has the location of the end of its last
  token and of the semicolon behind it: what `getEndOfLiteral` and
  `getSemiAfterLocation` return.
* JSON and schema: a file is well-formed or not; optional fields may be absent.
  Its numbers have 64 bits and become `int` by dropping the upper ones
  (`ToInt`, with `IntSize` values for 2^32 of them), so that a large number may
  become negative, and a range of such numbers look like the dummy range
  (-1, -1) of a missing one. An identifier that is not a string passes the
  schema, which has no type for it, and then throws an exception nobody
  catches (`named`).
* `std::sort` with `<=` leaves the vector sorted with equal elements in any
  order, which is what the libraries do up to 16 elements. On longer ones the
  comparison is undefined behaviour, which the model leaves out.
* The vector of potential matches is a set: equal ones cannot be told apart.
  A metavariable's entry in the map is a set of at most one metavariable.
* Text. A character is named for its origin (the p-th of a source file, of the
  template, of an instance), so that it can be told where each one ended up.
  Tokens have their first and last character and whether white space precedes.

The mutated forms of operators (`ClashesWithPrev_OneOff` and the like) that
stand before some definitions are errors somebody might make there; each
property is shown to fail with one of them.

## 3. Runs

Each passing run covers every input in its bounds; none has a state constraint.
Deadlock is checked in all: the end of an algorithm is a `Finished` step.

### `configuration` (`MCLHSConfiguration`)

Lists of up to three metavariables, with any of the nine ranges over three
locations on two lines (ill-formed ones too), whole or name-only, in any order,
in three template ranges; numbers too large for an `int`, which has 8 values
here (`IntSize`), enough to make both a negative number and a wrong positive
one; and the files that are unusable in each way, each with a metavariable, so
that there is an identifier that may be no string. Three metavariables are the
fewest for which two are no neighbours, three locations the fewest for which
ranges nest, touch and lie apart.

* `AcceptedNested`: what is accepted is well-formed and inside the template.
* `DisjointBetween`: what comparing neighbours really establishes.
* `OverlapJustified`: nothing is rejected that does not overlap.
* `AnswersAsPromised`: the constructor implements `ConfigurationGate`: it answers
  with what was read, in an order that sorting can leave, or rejects for a
  reason that holds of the file.
* `Terminates`.

`configuration_overlap` shows that `AcceptedDisjoint`, which the comments of
`validateRangeConstraints` claim, is false: A, N, B with N name-only. The run
takes the files without narrowed numbers (`MCExactFiles`), so that no range is
taken for the dummy and the trace shows this and nothing else: three ranges with
the same start, in the order whole, name-only, whole.

### `parse_template` (`MCLHSTemplateParser`)

Every template range over four small files in which the parser's decisions
differ: statements with semicolons and a token of two characters, a class with
special members, expressions that start together, nodes of included files.

* `TemplateSpansRange`, `TemplateIsSiblingRun`: what is parsed has the given
  range, and is a run of whole siblings, although the visitor looks at
  locations only (the drawings before `parseSubtreeToTemplate`).
* `AllowedTemplateParsed`: the walk aborts at the first misfit, but loses no
  range that siblings span, unless a longer subtree starts there.
* `Terminates`.

`parse_template_case5` shows why the exception is needed: `CaseFiveDescended`,
what the comments on "case 5" say, is false.

### `parse_metavariables` (`MCLHSTemplateParser`)

In six templates of these files, one or two metavariables with any ranges
between node boundaries that the configuration check accepts, and triples that
it accepts although they overlap.

* `MetavariableSpansRange`: a metavariable that counts as parsed has nodes that
  span its range.
* `CleanMetavariablesParsed`: disjoint metavariables on runs of siblings are
  all found, whatever order the set gives them.
* `ParsedDisjoint`: the overlaps the configuration check lets through never
  survive parsing, so the finding above ends in an exception.
* `ExplicitWins`: implicit bindings of class members never replace explicit ones.
* `BoundAreReachable`: every node that is given to a metavariable is one that the
  matcher comes to (`Reachable`): no metavariable is bound where it never looks.
* `Terminates`.

`parse_metavariables_literal`: `TrailingLiteralParsed`, the same as
`CleanMetavariablesParsed` for ranges that go to the end of the last token, is
false: `enclosedIn` is given the range without the trailing literal.

### `match` (`MCMatchReference`)

Every run of siblings of a file of six nodes as a template, with up to two
metavariables on runs of siblings in it, matched with the file itself and with
another one of six nodes. There are four families of files: blocks with
references and operators; classes with members whose types refer to the class;
blocks with declarations; conditions of which a part is absent. In each the
second file varies in up to three nodes, by an operator, a name, a qualifier, a
flag, a type or an absent node. Two metavariables are combined with a part of
the second files only, to keep the run short.

* `LockStep`: the potential matches, which are never asked where they are, stay
  at the depth of the template, on nodes, until the end. It is why
  `nextSibling` and `descendToChild` never throw.
* `MatchesExact`: the matches left are those of the recursive definition, with
  the same bindings: nothing lost by pruning, nothing wrong kept. Templates in
  which a metavariable runs over several siblings to the end of their list are
  excepted. The definition is a recursive function on pairs of lists of nodes, so
  that it can be proved about as well.
* `MatchesItselfElsewhere`: a template with the same exception matches its own
  source, each metavariable standing for the nodes it was written over. TLC also
  evaluates what the proofs assume of templates (`IsTemplate`, `NumberedBy`, for each shape
  of file, each run of siblings and each pair of metavariables).
* `AlikeIsEquivalence`: `compare` asks the template's node what to compare, yet
  the answer does not depend on which of two nodes is the template's, and is
  transitive; so a template matches what its matches match.
* `NameOnlyForgivesName`: a name-only metavariable forgives exactly a difference
  of the names of the two nodes, not one of the names in their types, though the
  flag is handed on to the comparison of types.
* `Terminates`.

`match_trailing` shows what happens with the exception: `MatchesItself` is false.

### `results` (`MCMatchResults`)

Four matches with any valid ranges over four locations, in one file or two.

* `DroppedMeetsAnother`: the one-sided test drops no match without a reason.
* `OverlapBehindDropped`: kept matches that overlap have a dropped one between.
* `NestedDroppedCovered`: with nested matches the text of a dropped one is inside
  a kept one, or inside one with the same start as a kept one: of matches that
  start together any may come first in the sorted vector, so that the longest
  may be the one that is lost, but no place in the file is.
* `ReportsFileByFile`: the pass over all files implements `FileReports`: each
  file with matches is reported once, with a list that the elimination may leave.

`results_disjoint`: the guarantee in the doc of `matchAST`, "match results do
not overlap", is false (`ResultsDisjoint`).

### `rhs_template` (`MCRHSTemplate`)

Every template of up to four tokens of four kinds, with and without a space
before each, and for each three lists of matches: two in a row with whole
nodes, bindings that are missing or names, one that is no name; and two in a row
of clang's own matchers, for the other overload of `instantiate`. Four tokens are
two metavariables next to each other or apart, or one with text on both sides.

* `InstanceIsSubstitution`: an instance is the template's text with every
  `?name` replaced by what is bound to it, whatever the uninitialised `prev`
  held, whichever literals are empty, and for the second match as for the first.
* `Terminates`.

### `transform` (`MCTransform`)

Two source files in any order, one or both of them, with zero to two compile
commands, run with a configuration or with a matcher; all settings and all ways
to fail; up to three matches in the first file and two in the second, apart,
next to each other with a semicolon at once or after a space, overlapping, three
that meet, with the same start, or ending with a literal; replacements that are
empty, shorter and longer. The second file has the name of the first one's
output. Three matches are the fewest of which the elimination leaves two that
overlap.

* `WholeFiles`: whatever happens, each file on disk but the one being written is
  what it was, and then no output, or is an output with all matches last chosen
  for it replaced and nothing else (`IsTransformed`). The matches are those the
  run has in `results`, not any that might have been chosen. If their replaced
  texts are not `Apart`, nothing is said of the file's text: replacing one in
  another has no meaning.
* `AllTransformed`: after a complete run nothing was left out, in the same sense.
* `FailsBeforeWriting`: errors of the user's are found before the first write.
* `KeptSources`: only what the settings allow is written.
* `RewriterHasText`: the rewriter is asked for text that is gone only if a match
  meets two others, or reaches the next one by its semicolon: two matches that
  overlap do not suffice. With a matcher of clang's, where nothing is eliminated,
  it is asked so only if two matches are not apart.
* `WritesWholeOutputs`: the run implements `OutputFiles`. A file that is being
  written is mapped to the complete one, the loops to stuttering. `OutputFiles`
  keeps a history, `made`, of the outputs there are with the matches chosen for
  each; it is mapped to the results that are done, so that what is promised of a
  text is promised for the matches the run has chosen.
* `Terminates`.

The disk does what it is asked: output streams are assumed to open and to take all
that is written to them (`X.cpp:36-38` tests neither), and a crash stops the run
between two steps, one of which truncates a file and the next of which fills it.
A matcher's matches are assumed to be those of the main file, once each and in the
order in which they start, as clang's `MatchFinder` visits it; what it finds in
headers and in instantiations of templates is left out.

### Fairness

All specifications have `WF_vars(Next)`: each component is one thread that runs
from the first to the last statement of a function and waits for nothing, so a
step that is possible is taken. Nothing stronger is assumed.

### Met on the way, without a run

* A metavariable whose range goes on behind the children of the node it began
  in binds nodes of different parents (`LHSTemplateParser.cpp:242-264`; line 56
  says metavariables are runs of siblings too).
* `parseMetavariables` does not ask whether a node is in the main file
  (`LHSTemplateParser.cpp:181`), as `parseSubtreeToTemplate` does.
* `compare` with an absent node on the side of the source dereferences null
  (`LHSComparators.cpp:168`), and so does the comparison of two typedefs of
  which nothing makes use, as clang has made no type for them
  (`LHSComparators.cpp:83`): `NullDereference`, `CompareCrashes`.
* All types of a class that `compareTypes` does not name compare equal, typedefs
  and types written with their tag among them (`LHSComparators.cpp:73`).
* Functions are compared by their names and result types only, so that a call of
  one overload matches that of another (`LHSComparators.cpp:53-55`).
* Two integers are compared by `APInt ==`, which asserts that they have the same
  width (`LHSComparators.cpp:149`).
* The body of a function that is a definition without a body (deleted or
  defaulted) is dereferenced, though it is null (`ASTTraversalState.cpp:59-60`).
* `getParents` of a node may be empty; its first element is taken unchecked
  (`LHSTemplate.cpp:96`).
* Lines and columns that do not fit an `int` are narrowed without a word
  (`LHSConfiguration.cpp:132`); a metavariable whose range then begins with -1 is
  taken for the dummy, and overlaps with it are not looked for (`Hidden`).
* The elimination compares ranges up to the start of the last token; what is
  replaced goes on to the end of that token and a semicolon behind it
  (`X.cpp:71-79`): matches that are disjoint for the one may not be for the other.
* The doc of the overload for matchers says that changed files are written
  (`X.hpp:70`); it writes each file it is given, with matches or not.
* The last literal of a right-hand side ends behind its last token and is read up
  to there, one character too many (`RHSTemplate.cpp:81,89`): the line's end, or
  what is behind the file's text.
* The end of a range is moved to the last character of its last token and then
  taken for the start of a token (`SourceReader.cpp:43-51`, `X.cpp:71-79`).
  Lexing from the closing quote of a string literal finds the rest of the line,
  which is then read or replaced as well, unless a semicolon follows.
* The template's source is missed before parsing only if it is in the list of
  sources and not in the compilation database (`X.cpp:147`); `X.hpp:91` demands
  both. The other cases end after parsing, without a write.
* An output's name may be that of another source, which is then overwritten even
  if sources are not to be (`X.cpp:30`); `KeptSources` excepts it.
* Overlapping matches may ask the rewriter for text that is gone: `ReplaceFails`.
* Of two nested matches with the same start the smaller may be kept, and a match
  may be dropped for its overlap with a dropped one (`LHSTemplate.cpp:295-301`);
  `NestedDroppedCovered` says how far that goes.

## 4. Proofs

`TemplateRangeTheorems`: locations are totally ordered; `OverlapIsIntersection`
(the one-sided test is intersection if the receiver starts first and the
argument is well-formed); `DisjointCarriesOver` (a range disjoint from one that
starts no later than a third is disjoint from the third).

`LHSConfigurationProofs`, for every set of files and lists of any length:
`TypeCorrect`, `AcceptedAreNested`, `NeighboursSuffice` (`DisjointBetween`) and
`OverlapsAreReal` (`OverlapJustified`). The invariant `IInv` adds to these what
the check relies on without saying so: from the sort on, the vector is sorted
by starts, and the chasing pointer is the last metavariable that passed (or the
dummy, exactly when none has). With it a new metavariable that does not clash
with its neighbour is disjoint, by `DisjointCarriesOver`, from all those the
neighbour is disjoint from, which is the induction step of `NeighboursSuffice`.
`IInv` without the order of the vector is not inductive, and `DisjointBetween`
is false of an unsorted vector. `ImplementsGate` proves `AnswersAsPromised`: each
step of the constructor is a stutter of `ConfigurationGate` or its one answer;
that a rejection for an overlap is justified there too is `OverlapsAreReal`.

`LHSTemplateParserProofs`, for trees of any shape with any locations and any
metavariables: `TypeCorrect`, `TemplatesSpanTheirRange` (`TemplateSpansRange`) and
`MetavariablesSpanTheirRange` (`MetavariableSpansRange`). The invariant has the
same form for the template and for each metavariable: the list of nodes is
empty, or it begins where the range does and goes no further than it (`Begun`);
and it ends there if it is complete (`Ended`). A node is appended by one of two
lemmas, to an empty list or behind others; all other steps keep the lists.

`LHSTemplateTreeProofs`, for any metavariables and trees of any size, under
hypotheses on the tree that each theorem names. `IsTree`: no node is a child
twice or below itself. `InOrder`: a node of the main file does not end before it
starts, and the next sibling starts behind its semicolon. `Nested`: what is below
a node of the main file is written inside it. `Enclosing`: what is in the main
file is below the translation unit, and inside the node it is a child of, with
which it ends, or behind which that node has another token. Clang's trees are
trees; the other three hold of ordinary code, but the declarators of `int a, b;`
all start with `int`, and a class may include a file for its members, so they are
hypotheses of the theorems and not assumptions of the model.
`MCLHSTemplateParser` lets TLC evaluate them: all its trees are trees in order
and enclosing, and all but the one with included nodes are nested.

* `ExplicitBindingsWin` (`ExplicitWins`) needs `IsTree` alone. The invariant,
  `TreeInv`: the subtrees of the nodes still to be searched have no node in
  common, and none with what has been given to a metavariable, or with what is
  below a full one. So a node is visited once, wherever it is written.
* `BoundAreMet` (`BoundAreReachable`) needs `IsTree` alone, too. The matcher comes
  to a node if every set with the template's subtrees that is closed (`Opened`)
  has it, so a node given to a full metavariable closes the way to all that is
  below it. `ReachInv` says that what is ahead and what was given can be come to;
  when a node is given to a full metavariable, a set closed afterwards is closed
  before if what is below the node is added to it, and by `TreeInv` nothing that
  is ahead or given is among that (`KnownApart`).
* `ParsedIsTemplate` composes parser and matcher. The theorems about the matching
  loop suppose a template as in `IsTemplate`, and some of them `UsesAgree`: both
  are proved of whatever the matcher is handed when the parser has succeeded.
  `IsTree` and `InOrder` are needed; and as the visitor and `getChildren` ask
  clang for children separately, that they walk the same file (`SameFile`: what
  the visitor finds below a node, `getChildren` does, maybe below the virtual
  node of the parameters). Initializers of constructors and expressions in types
  are not: a metavariable there is bound and never gets a value. Neither do the
  special members of a class that a metavariable stands for as a whole:
  `addMetavariable` puts them into the map although the matcher does not look
  at them (`NoWholeClass` excludes it, as `IsTemplate` does).
* `NothingIsSearchedTwice` needs `IsTree` alone. It is the safety half of
  termination, for trees of any size: a step that looks at a node takes the node
  from what is ahead (`MovesPast`) and puts nothing there that was not ahead
  before. So a search takes at most one such step for each node. That it
  does take them, under weak fairness, is liveness and stays with TLC.
* `TemplatesAreSiblingRuns` (`TemplateIsSiblingRun`) needs `InOrder`. The walk is
  in preorder, so what it visits after the first node of a template is first
  that node's later siblings; these are taken or abort it, and by the order of
  siblings the range ends before anything else is met (`SiblingInv`).
* `ParsedAreDisjoint` (`ParsedDisjoint`) needs `InOrder` and `Nested`. The
  traversals go through the file from its start to its end (`OrderInv`), so what
  was given to whole metavariables lies before everything ahead, and a
  metavariable that is being parsed lies behind those that are parsed (`GapInv`).
* `AllowedTemplatesAreParsed` (`AllowedTemplateParsed`) needs `IsTree`, `InOrder`
  and `Enclosing`. What the walk has still to visit leads to the run
  (`OnTheWay`): somewhere in the list is a node with the run below it, or the run
  itself, and all before it ends before the template begins. So a node the walk
  looks at either is passed, or has the run below it and is descended into, or
  begins the run; from then on the rest of the run is what comes next. "Below"
  is a least fixed point (`Subtree`), so no step counts the depth of the tree.
* `CleanMetavariablesAreParsed` (`CleanMetavariablesParsed`) needs all four and
  that the metavariables are finitely many and within the template, of which the
  configuration check sees to the latter (`AcceptedAreNested`; TLC evaluates it for
  the inputs of the runs). `HuntInv` says of every metavariable not parsed yet what
  `OnTheWay` says of the template, for the list of all nodes still to be searched
  (`Line`), already while the template is parsed; of the one that has begun, that
  the rest of its run is next. At a node, one metavariable `Takes` it, and then it
  is `Current` and the others are `Later`; or none does, the one that has begun is
  done, and if any is `Within` the node, the loop over the metavariables gets to
  the first of these and descends.

`MatchASTProofs`, for every template, all files and any number of potential
matches: `TypeCorrect` and `StaysInStep` (`LockStep`). The lemmas follow the
code: each move of `ASTTraversalState`, behind the test that guards it, keeps a
traversal on nodes; the same move keeps a set of potential matches in step; the
three ways on (`GoUp`, `GoOn`, `GoDown`) make the template's move and the
potential matches' alike. `LockStep` is inductive once the types of the
traversals are added. `ComparesBothWays` (`AlikeIsEquivalence`) and
`ForgivesNamesOnly` (`NameOnlyForgivesName`) hold of `compare` for all nodes with
types of any depth; they go up from layers over types and declarations to nodes.
`FindsItself` (`MatchesItselfElsewhere`) is proved for templates as the parser
makes them (`IsTemplate`: a node that maps to a metavariable is a child in at most
one place and one the traversal comes to; the subtrees are not below themselves)
and configurations that use no identifier
both for a name and for subtrees (`UsesAgree`; with both, the code skips a name-only
node behind a whole metavariable of the same name, and whatever is bound below
it). The invariant `OwnInv`: one potential match is always where the template
traversal is, and each metavariable is either bound there to its own nodes, or
unbound and entirely to come. "To come" is said without a count of steps: every
set of nodes that has the rest of the traversal's lists and is closed under the
children the traversal descends to contains the metavariable's nodes (`Ahead`).
With the exception of runs to the end of a list, one of the copies made for a
metavariable always takes exactly its own run (`RunOfCurrent`).
`MatchesAreGenuine` (`MatchesGenuine`) is the other direction, of all matches and
not of one: each match reported is the template again but for what its
metavariables stand for (`Genuine`). There is a function `F` from template nodes to
what they stand for; the template's siblings take the source's one behind the
other and leave none out, siblings of one metavariable as one (`Fit`), at the root
and below each pair of nodes that `compare` takes for each other (`Explained`); and
a metavariable is bound to what the first of its nodes stands for (`BindsWhat`).
It is proved for templates that are trees, said as numbers of the nodes in the
order of the traversal (`NumberedBy`; TLC evaluates it for the templates of the
runs), if no metavariable runs to the end of its siblings: there the code leaves
the siblings behind (the finding at `MatchesItself`). The invariant, `GenuineInv`, says of every potential match at
every moment that there is such an `F` for the part of the template behind the
traversal (`Along`): for closed siblings as at the end, for each list the traversal
is inside up to where it is (`SoFar`), where a node that it is below of stands for
the one the potential match is below of; and the numbers of what `F` explains are
less than those of what is to come, without which a later node could be the first
of a metavariable bound long ago.

`FindsExactly` (`MatchesExact`) is the whole of it: what is left at the end is
every potential root with every binding that the recursion of `MatchReference` has,
and nothing else. It needs neither a tree nor `UsesAgree`; it excepts only
`RunToTheEnd`. There is no induction over the template in its proof. First, the
recursion has a solution (`TableExists`): it is monotone in the matches of what is
left, so that the least table with at least the matches that one more turn gives is
a solution, on templates of any shape, even one below itself. All that is used of
the function TLC evaluates is that it is a solution (`MatchesAgain`). Second, the
invariant `ExactInv` says what each potential match can still come to: the matches
of what is left behind the current nodes, then those behind the nodes one level up,
and so on to the root, each merged into the bindings so far (`After`; `At` before the
current nodes are compared). All potential matches together can come to exactly the
matches promised at the beginning. Each action is then one turn of the recursion on
one pair of lists: comparing two nodes and going down is `AtDown`, a metavariable
over a run of siblings `AtWhole`, going on and up `AfterOn` and `AfterUp`; and what a
filter drops could not come to anything (`AtLost`, `AfterLost`). That bindings are
put together in the order of the traversal and the first one of an identifier stays
is why `Merge` need only be associative (`MergeThree`).

`MatchResultsProofs`, for any number of matches with any ranges: `TypeCorrect`,
`DropsAreJustified` (`DroppedMeetsAnother`), `OverlapsHideBehindDrops`
(`OverlapBehindDropped`) and `NestedDropsAreCovered`
(`NestedDroppedCovered`). The invariant of the pass says that the vector has
each match of the file once, sorted, that the first one is kept and each later
one exactly if it is apart from its neighbour, and that among nested matches
each one looked at is inside one with the start of one that is kept
(`CoveredBy`). The last part cannot be stated of dropped matches alone: the
neighbour a match is compared with may have been dropped itself, and what contains
it must then be carried along. `NextCovered` is the step: a match that overlaps a
covered one before it lies inside that one, or contains it and starts with it, and
then meets what covers that one, so that one of these two contains the other.
`ImplementsFileReports` proves `ReportsFileByFile`: while a file is under way,
`FileReports` stutters, and what is left at its end is one of the lists it may
report.

`RHSTemplateProofs`, for any tokens and matches: `TypeCorrect` and `Substitutes`
(`InstanceIsSubstitution`). That a literal has a first and a last character is not
evident: the invariant says that it begins no later than the question mark that
may end it, and that `prev`, uninitialised at first, is the token before from the
second one on. `TextInv` adds that the parts stand for the template from its start
on without gaps, metavariables exactly where it says `?name` (`Covers`), and that
what is instantiated so far is the text instead of what the parts used so far
stand for. The text is a recursion over characters (`FlattenSeq`): that it exists
and what it is over a literal or a metavariable is proved by `Induction`, which
takes a set instead of a predicate and follows from the least element of its
complement.

`TransformProofs`, for any sources, settings and matches: `TypeCorrect`,
`WritesWholeFiles` (`WholeFiles`), `TransformsAll` (`AllTransformed`), `FailsFirst`
(`FailsBeforeWriting`), `KeepsSources` (`KeptSources`), `RewriterIsSafe`
(`RewriterHasText`) and `ImplementsOutputFiles` (`WritesWholeOutputs`). The
invariant describes the buffer after `replaced` of the matches: the instances of
those, and the characters of the file in none of them, in their order; and
where each original position is by now, from the last replaced match on. That is
all that the next replacement needs, as matches come in the order of the file;
replacing from the front to the back at positions of the original text is right
for that reason alone. All of this, for matches whose replaced texts are apart,
is one invariant, `Texts`. Its part `Disk` says of each name on disk which result
it has its text from: the last one that is done and has this name (`IsLast`), so
that the theorems speak of the matches that were chosen. `RewriterIsSafe` adds what the elimination leaves:
reported matches overlap only around a dropped one that meets both
(`HarmlessApart`), so that without such a match the texts are apart.

Assumed: identifiers are natural numbers (ranks), `Files` are files the schema
admits, inputs have the shape that their modules name in an `ASSUME`, which TLC
evaluates on the inputs of the runs: for `Transform`, that nodes lie in their
file, that clang gives ASTs of known files only and that no two outputs have one
name; and that output streams open and take what is written. Left to TLC: all liveness; and of the theorems about
trees, what their hypotheses leave out: nodes of included files at the positions
of others, and siblings that start together.

## 5. Not modelled

* `3rd/json` and `3rd/json-schema-validator` are vendored libraries, the first of
  which has 13003 of the 15939 lines of the implementation: they are used through
  `parse` and `validate`, of which the model has the outcome, and through the
  conversion of numbers, which is modelled (`ToInt`). Of the tool's own
  code, most of what is left is declarations, iterators and strings.
* The examples and the build files: no behaviour of the tool.
* `common/Lexer` as such: it re-lexes with clang's lexer; its results are in the
  input (ends of tokens, semicolons), what the callers do with them is modelled.
* A custom `XCallback`: what it does is up to its author.
* Failing output streams, and what clang's `MatchFinder` finds outside the main
  file; a right-hand side that cannot be read in the overload for matchers
  (`X.cpp:123`), which is not tested for and crashes before anything is written.
* Preprocessor directives and macros in sources and in right-hand sides: the
  tokens and positions then belong to several files.
* Functions that are definitions without a body: see "Met on the way" for what
  happens with them in `getChildren`.
* Kinds of nodes that neither `compare` nor `getChildren` asks for: a few of them
  stand for all.
* A second configuration in one process: the schema is read from a stream that
  is then at its end (`LHSConfiguration.cpp:13`). The tool reads one.
* Sorting more than 16 elements with `<=` (undefined behaviour of `std::sort`).

## 6. Plan

Done: all components from the configuration to the files on disk, in the order
in which each one's output is the next one's input; the three abstract
specifications and the proofs that they are implemented; the compositions of
elimination and rewriting and, by a theorem, of parser and matcher.

Left, most important first:

1. An abstract specification of matching in which all matches appear at once:
   `MatchesExact` says so of the last state.
2. `IsTemplate` with implicit metavariables below a class that a metavariable
   stands for, which do no harm: the theorems about the loop would have to do
   without its first part for them.
