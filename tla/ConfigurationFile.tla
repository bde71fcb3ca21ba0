------------------------- MODULE ConfigurationFile -------------------------
(***************************************************************************)
(* The JSON file that LHSConfiguration is made from, what is read from it, *)
(* and what it means for the ranges in it to be as they should.            *)
(***************************************************************************)
EXTENDS Metavariables, Sequences

CONSTANTS
  Files,      \* the files that the constructor may be given
  IntSize     \* how many values an int has: 2^32

(* A field that the file leaves out is {}, one that it sets a singleton.   *)
Optional == {{}, {FALSE}, {TRUE}}

(* The schema admits no negative numbers.                                  *)
JsonRanges == [begin : Nat \X Nat, end : Nat \X Nat]

JsonMetavar ==
  [identifier : Identifier, nameOnly : Optional, range : JsonRanges]

JsonFile ==
  [ wellFormed      : BOOLEAN,     \* it parses, and the schema accepts it
    sourceExists    : BOOLEAN,     \* the file named by templateSource exists
    rhsExists       : BOOLEAN,     \* the file named by rhsTemplate exists
    named           : BOOLEAN,     \* all identifiers are strings: the schema
                                   \* has no type for them
    transform       : Optional,    \* transformTemplateSource
    overwrite       : Optional,    \* overwriteSourceFiles
    templateRange   : JsonRanges,
    metaVariables   : Seq(JsonMetavar) ]

ASSUME FilesAssumption == Files \subseteq JsonFile

ASSUME IntSizeAssumption == IntSize \in Nat \ {0}

Given(field, default) == IF field = {} THEN default ELSE TRUE \in field

(* JSON numbers have 64 bits; those that are too large for an int become   *)
(* another number, which may be negative.                                  *)
ToInt(n) == ((n + IntSize \div 2) % IntSize) - IntSize \div 2

ReadLocation(l) == <<ToInt(l[1]), ToInt(l[2])>>

ReadRange(r) == RangeFrom(ReadLocation(r.begin), ReadLocation(r.end))

ReadMetavar(m) ==
  [identifier |-> m.identifier, nameOnly |-> Given(m.nameOnly, FALSE),
   range |-> ReadRange(m.range)]

(* The comparison handed to std::sort is <=, which is no strict weak       *)
(* order; on vectors of up to 16 elements the libraries still leave the    *)
(* vector sorted, with ranges of equal start in any order.                 *)
StartsInOrder(m, n) == LocLeq(m.range.begin, n.range.begin)

(* The lists in which sorting may leave a list of metavariables.           *)
SortedLists(list) ==
  { [i \in DOMAIN list |-> list[from[i]]] :
      from \in { f \in [DOMAIN list -> DOMAIN list] :
                   \A i, j \in DOMAIN list :
                     i < j => f[i] # f[j] /\ StartsInOrder(list[f[i]], list[f[j]]) } }

(* Overlaps with such a metavariable are not looked for: only its name is  *)
(* a parameter, or its range starts with -1 and is taken for the dummy.    *)
Hidden(m) == m.nameOnly \/ IsDummy(m.range)

(* The requirements on ranges: they are well-formed, inside the template's *)
(* range, and do not overlap.                                              *)
Nested(list, outer) ==
  /\ Valid(outer)
  /\ \A i \in DOMAIN list : Valid(list[i].range) /\ EnclosedIn(list[i].range, outer)

Overlap(list, i, j) ==
  /\ i < j /\ ~ list[i].nameOnly /\ ~ list[j].nameOnly
  /\ Intersect(list[i].range, list[j].range)
=============================================================================
