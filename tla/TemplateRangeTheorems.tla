----------------------- MODULE TemplateRangeTheorems -----------------------
(***************************************************************************)
(* The comparisons of locations form a total order, and what that makes of *)
(* the one-sided overlap test.                                             *)
(***************************************************************************)
EXTENDS TemplateRange, TLAPS

(* Of two locations, one is before the other or they are the same.         *)
LEMMA LocTotal ==
  ASSUME NEW a \in Location, NEW b \in Location
  PROVE  /\ LocLeq(a, b) \/ LocLess(b, a)
         /\ LocLess(b, a) <=> ~ LocLeq(a, b)
  BY DEF Location, LocLeq, LocLess

(* The order on locations is transitive, in all mixtures of its forms.     *)
LEMMA LocTransitive ==
  ASSUME NEW a \in Location, NEW b \in Location, NEW c \in Location,
         LocLeq(a, b)
  PROVE  /\ LocLeq(b, c) => LocLeq(a, c)
         /\ LocLess(b, c) => LocLess(a, c)
  BY DEF Location, LocLeq, LocLess

LEMMA LocTransitiveLess ==
  ASSUME NEW a \in Location, NEW b \in Location, NEW c \in Location,
         LocLess(a, b), LocLeq(b, c)
  PROVE  LocLess(a, c)
  BY DEF Location, LocLeq, LocLess

(* Of two well-formed ranges of which the first starts no later, the       *)
(* one-sided test tells whether they share a location.                     *)
LEMMA OverlapIsIntersection ==
  ASSUME NEW r \in TemplateRanges, NEW s \in TemplateRanges,
         LocLeq(r.begin, s.begin), Valid(s)
  PROVE  OverlapsWith(r, s) <=> Intersect(r, s)
<1>1. /\ r.begin \in Location /\ r.end \in Location
      /\ s.begin \in Location /\ s.end \in Location
  BY DEF TemplateRanges
<1>2. LocLeq(r.begin, s.end)
  BY <1>1, LocTransitive DEF Valid
<1>3. OverlapsWith(r, s) <=> LocLeq(s.begin, r.end)
  BY <1>1, LocTotal DEF OverlapsWith, LocGeq
<1> QED
  BY <1>2, <1>3 DEF Intersect

(* A range that the one-sided test finds disjoint from one that starts no  *)
(* later than a third is disjoint from the third as well.                  *)
LEMMA DisjointCarriesOver ==
  ASSUME NEW r \in TemplateRanges, NEW s \in TemplateRanges,
         NEW t \in TemplateRanges,
         ~ OverlapsWith(r, s), LocLeq(s.begin, t.begin)
  PROVE  ~ OverlapsWith(r, t)
<1>1. /\ r.end \in Location /\ s.begin \in Location /\ t.begin \in Location
  BY DEF TemplateRanges
<1>2. LocLess(r.end, s.begin)
  BY DEF OverlapsWith, LocGeq
<1> QED
  BY <1>1, <1>2, LocTransitiveLess DEF OverlapsWith, LocGeq
=============================================================================
