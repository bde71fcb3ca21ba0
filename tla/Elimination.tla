---------------------------- MODULE Elimination ----------------------------
(***************************************************************************)
(* What LHSTemplate::matchAST makes of the complete matches of one file,   *)
(* without the loop that does it: they are ordered by the start of their   *)
(* ranges, and those stay that the match just before does not overlap.     *)
(***************************************************************************)
EXTENDS TemplateRange, Sequences, FiniteSets

(* The orders in which sorting may leave the matches ms: those with the    *)
(* same start come in any order.                                           *)
Orders(ms, rangeOf) ==
  { s \in [1 .. Cardinality(ms) -> ms] :
      /\ \A m \in ms : \E i \in DOMAIN s : s[i] = m
      /\ \A i, j \in DOMAIN s :
           i < j => s[i] # s[j] /\ LocLeq(rangeOf[s[i]].begin, rangeOf[s[j]].begin) }

(* The positions in s that have no overlap with the one before, which may  *)
(* itself be dropped.                                                      *)
Staying_ByEnd(s, rangeOf) ==
  { i \in DOMAIN s :
      i = 1 \/ LocGreater(rangeOf[s[i]].end, rangeOf[s[i - 1]].end) }

Staying(s, rangeOf) ==
  { i \in DOMAIN s :
      i = 1 \/ ~ OverlapsWith(rangeOf[s[i - 1]], rangeOf[s[i]]) }

(* The elements of a set of positions up to n, one behind the other.       *)
Listings(positions, n) ==
  { at \in UNION {[1 .. k -> positions] : k \in 0 .. n} :
      /\ \A i, j \in DOMAIN at : i < j => at[i] < at[j]
      /\ \A p \in positions : \E i \in DOMAIN at : at[i] = p }

(* What may be reported of matches ms with ranges rangeOf.                 *)
Reports(ms, rangeOf) ==
  UNION { {[i \in DOMAIN at |-> s[at[i]]] : at \in Listings(Staying(s, rangeOf), Len(s))} :
          s \in Orders(ms, rangeOf) }
=============================================================================
