--------------------------- MODULE MCMatchResults ---------------------------
(***************************************************************************)
(* Two files and four matches.  The first file has three or four of the    *)
(* matches, with any ranges over four locations; the second has the        *)
(* others, or none.                                                        *)
(***************************************************************************)
EXTENDS MatchResults

MCMatch == 1 .. 4
MCAst == {"f", "g"}

MCLocations == {<<1, 2>>, <<1, 4>>, <<2, 1>>, <<2, 3>>}

MCRanges == {r \in [begin : MCLocations, end : MCLocations] : Valid(r)}

MCOwners == {<<"f", "f", "f", "f">>, <<"f", "f", "f", "g">>, <<"g", "g", "g", "g">>}

(* Which match is which does not matter to the pass.                       *)
MCRangesOf ==
  {s \in [MCMatch -> MCRanges] : \A i \in 1 .. 3 : LocLeq(s[i].begin, s[i + 1].begin)}

MCInputs ==
  {[asts |-> <<"g", "f">>, owner |-> o, range |-> s] : o \in MCOwners, s \in MCRangesOf}
=============================================================================
