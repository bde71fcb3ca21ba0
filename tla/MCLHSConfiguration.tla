------------------------- MODULE MCLHSConfiguration -------------------------
(***************************************************************************)
(* Files for TLC: three locations on two lines, every list of at most      *)
(* three metavariables over every range of them (the ill-formed ranges     *)
(* too), in every order; lines that are too large for an int, which has    *)
(* eight values; and the ways in which a file can be unusable.             *)
(***************************************************************************)
EXTENDS LHSConfiguration

(* The second location has a larger line but a smaller column than the     *)
(* first.                                                                  *)
MCLocations == {<<1, 2>>, <<2, 1>>, <<2, 3>>}

MCRanges == [begin : MCLocations, end : MCLocations]

(* 4 is read as -4, 7 as -1.                                               *)
MCLarge == [begin : {<<4, 1>>, <<7, 1>>, <<2, 1>>}, end : {<<7, 2>>, <<2, 3>>}]

MCTemplateRanges ==
  {RangeFrom(<<1, 2>>, <<2, 3>>), RangeFrom(<<2, 1>>, <<2, 3>>), RangeFrom(<<2, 1>>, <<1, 2>>)}

MCMetavars(i, flags) == [identifier : {i}, nameOnly : flags, range : MCRanges]

MCLists ==
  {<< >>}
  \cup {<<m>> : m \in MCMetavars(1, Optional)}
  \cup (MCMetavars(1, {{FALSE}, {TRUE}}) \X MCMetavars(2, {{}, {TRUE}}))
  \cup (MCMetavars(1, {{}, {TRUE}}) \X MCMetavars(2, {{}, {TRUE}})
          \X MCMetavars(3, {{}, {TRUE}}))

MCLargeLists ==
  [1 .. 2 -> [identifier : {1}, nameOnly : {{}, {TRUE}}, range : MCLarge]]
  \cup [1 .. 3 -> [identifier : {1}, nameOnly : {{}}, range : MCLarge]]

MCFile(templ, metavars) ==
  [wellFormed |-> TRUE, sourceExists |-> TRUE, rhsExists |-> TRUE, named |-> TRUE,
   transform |-> {}, overwrite |-> {TRUE},
   templateRange |-> templ, metaVariables |-> metavars]

(* With a metavariable, whose identifier may be no string.                 *)
MCUnusable ==
  [wellFormed : BOOLEAN, sourceExists : BOOLEAN, rhsExists : BOOLEAN, named : BOOLEAN,
   transform : Optional, overwrite : Optional,
   templateRange : {RangeFrom(<<1, 2>>, <<2, 3>>)},
   metaVariables :
     {<<[identifier |-> 1, nameOnly |-> {}, range |-> RangeFrom(<<2, 1>>, <<2, 3>>)]>>}]

MCIdentifier == 1 .. 3

(* All numbers in these are read as they are written.                      *)
MCExactFiles == {MCFile(t, l) : t \in MCTemplateRanges, l \in MCLists}

MCFiles ==
  MCExactFiles
  \cup {MCFile(RangeFrom(<<4, 1>>, <<2, 3>>), l) : l \in MCLargeLists}
  \cup MCUnusable
=============================================================================
