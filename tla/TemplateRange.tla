---------------------------- MODULE TemplateRange ----------------------------
(***************************************************************************)
(* Source locations and ranges as LHS/LHSConfiguration.hpp defines them,   *)
(* with the comparison operators every other part of the tool is written   *)
(* in.  A location is a pair <<line, column>>; locations are ordered       *)
(* lexicographically.                                                      *)
(***************************************************************************)
EXTENDS Integers

(* Two ints.  Clang numbers lines and columns from 1, but numbers in a     *)
(* configuration may be any (see ConfigurationFile).                       *)
Location == Int \X Int

DummyLocation == <<-1, 0>>

LocLeq(a, b) == a[1] < b[1] \/ (a[1] = b[1] /\ a[2] <= b[2])

LocLess(a, b) == LocLeq(a, b) /\ a # b

LocGeq(a, b) == ~ LocLess(a, b)

LocGreater(a, b) == ~ LocLeq(a, b)

-----------------------------------------------------------------------------

RangeFrom(b, e) == [begin |-> b, end |-> e]

TemplateRanges == [begin : Location, end : Location]

DummyRange == RangeFrom(DummyLocation, DummyLocation)

IsDummy(r) == r.begin[1] = -1

Valid(r) == LocLeq(r.begin, r.end)

(* One-sided: only right when r starts no later than other.                *)
OverlapsWith(r, other) == LocGeq(r.end, other.begin)

EnclosedIn(r, outer) ==
  LocLeq(outer.begin, r.begin) /\ LocGeq(outer.end, r.end)

(* What "overlap" means, whichever of the two ranges starts first.  Used   *)
(* by properties only: the code has no such test.                          *)
Intersect(r, s) == LocLeq(r.begin, s.end) /\ LocLeq(s.begin, r.end)
=============================================================================
