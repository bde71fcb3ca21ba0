---------------------------- MODULE Metavariables ----------------------------
(***************************************************************************)
(* Metavariables with the range they are written over, and the order in    *)
(* which the parser keeps and tries them.                                  *)
(***************************************************************************)
EXTENDS TemplateRange

CONSTANT Identifier    \* names of metavariables: a name stands for its rank
                       \* among all names in the order of std::string

ASSUME IdentifierAssumption == Identifier \subseteq Nat

MetavarLoc ==
  [identifier : Identifier, nameOnly : BOOLEAN, range : TemplateRanges]

(* operator< of MetavarLoc: the order of set<MetavarLoc>, in which the     *)
(* parser tries metavariables.                                             *)
MetavarPrecedes(m, n) ==
  \/ /\ m.range = n.range
     /\ m.nameOnly = n.nameOnly
     /\ m.identifier < n.identifier
  \/ /\ m.range = n.range
     /\ m.nameOnly /\ ~ n.nameOnly
  \/ /\ m.range # n.range
     /\ m.range.begin = n.range.begin
     /\ LocGreater(m.range.end, n.range.end)
  \/ LocLess(m.range.begin, n.range.begin)
=============================================================================
