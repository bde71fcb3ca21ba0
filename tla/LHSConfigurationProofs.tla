----------------------- MODULE LHSConfigurationProofs -----------------------
(***************************************************************************)
(* What the constructor of LHSConfiguration establishes, for every set of  *)
(* files it may be given.                                                  *)
(***************************************************************************)
EXTENDS LHSConfiguration, TemplateRangeTheorems

Reading == {"parse", "paths", "read", "sort", "template"}

(* The check has not begun before the vector is sorted.                    *)
NothingChecked == phase \in Reading => checked = 0 /\ prevMetavar = NoMetavar

ReadType == phase \in {"sort", "template", "check", "accepted"} =>
              templateRange \in TemplateRanges

Sorted ==
  phase \in {"template", "check", "accepted"} =>
    \A i, j \in DOMAIN metavariableRanges :
      i < j => StartsInOrder(metavariableRanges[i], metavariableRanges[j])

PrevIsLastChecked ==
  IF checked = 0 THEN prevMetavar = NoMetavar
  ELSE prevMetavar = metavariableRanges[checked]

CheckedNested ==
  \A i \in 1 .. checked :
    /\ Valid(metavariableRanges[i].range)
    /\ EnclosedIn(metavariableRanges[i].range, templateRange)

AllChecked == phase = "accepted" => checked = Len(metavariableRanges)

ThrownOnce == rejectedFor # "none" => phase = "rejected"

TypeInv == TypeOK /\ ReadType

IInv ==
  /\ TypeInv
  /\ NothingChecked
  /\ Sorted
  /\ PrevIsLastChecked
  /\ CheckedNested
  /\ AllChecked
  /\ ThrownOnce
  /\ DisjointBetween
  /\ OverlapJustified

(* What a field that may be left out is read as.                           *)
LEMMA GivenType ==
  ASSUME NEW field \in Optional, NEW default \in BOOLEAN
  PROVE  Given(field, default) \in BOOLEAN
<1>1. CASE field = {}
  BY <1>1, Zenon DEF Given
<1>2. CASE field # {}
  <2>1. Given(field, default) = (TRUE \in field)
    BY <1>2, Zenon DEF Given
  <2>2. (TRUE \in field) \in BOOLEAN
    OBVIOUS
  <2> QED
    BY <2>1, <2>2, Zenon
<1> QED
  BY <1>1, <1>2, Zenon

(* Whatever number is given, it becomes an int.                            *)
LEMMA ReadRangeType ==
  ASSUME NEW r \in JsonRanges
  PROVE  ReadRange(r) \in TemplateRanges
<1>1. \A n \in Nat : ToInt(n) \in Int
  BY IntSizeAssumption DEF ToInt
<1>2. r.begin \in Nat \X Nat /\ r.end \in Nat \X Nat
  BY Zenon DEF JsonRanges
<1>3. \A l \in Nat \X Nat : ReadLocation(l) \in Location
  <2> SUFFICES ASSUME NEW l \in Nat \X Nat PROVE ReadLocation(l) \in Location
    OBVIOUS
  <2>1. l[1] \in Nat /\ l[2] \in Nat
    OBVIOUS
  <2>2. ToInt(l[1]) \in Int /\ ToInt(l[2]) \in Int
    BY <1>1, <2>1
  <2> QED
    BY <2>2 DEF ReadLocation, Location
<1>4. ReadLocation(r.begin) \in Location /\ ReadLocation(r.end) \in Location
  BY <1>2, <1>3
<1> QED
  BY <1>4 DEF ReadRange, RangeFrom, TemplateRanges

(* A metavariable as the constructor reads it has the type of MetavarLoc.  *)
LEMMA ReadMetavarType ==
  ASSUME NEW m \in JsonMetavar
  PROVE  ReadMetavar(m) \in MetavarLoc
<1>1. m.nameOnly \in Optional /\ m.identifier \in Identifier
      /\ ReadRange(m.range) \in TemplateRanges
  BY ReadRangeType DEF JsonMetavar
<1>2. Given(m.nameOnly, FALSE) \in BOOLEAN
  BY <1>1, GivenType, Zenon
<1> QED
  BY <1>1, <1>2, Zenon DEF ReadMetavar, MetavarLoc

LEMMA InitIInv == Init => IInv
<1> SUFFICES ASSUME Init PROVE IInv
  OBVIOUS
<1>0. phase = "parse" /\ checked = 0 /\ prevMetavar = NoMetavar /\ rejectedFor = "none"
  BY Zenon DEF Init
<1>1. file \in JsonFile /\ templateRange = DummyRange
      /\ metavariableRanges \in Seq(MetavarLoc)
      /\ checked \in 0 .. Len(metavariableRanges)
  <2>1. metavariableRanges = << >> /\ file \in JsonFile /\ templateRange = DummyRange
    BY FilesAssumption, Zenon DEF Init
  <2> QED
    BY <1>0, <2>1
<1>2. FlagsOK
  BY Zenon DEF Init, FlagsOK
<1>3. TypeInv
  BY <1>0, <1>1, <1>2 DEF TypeInv, TypeOK, ReadType, Phase
<1>4. NothingChecked /\ Sorted /\ PrevIsLastChecked /\ CheckedNested
  BY <1>0 DEF NothingChecked, Sorted, PrevIsLastChecked, CheckedNested
<1>5. AllChecked /\ ThrownOnce /\ DisjointBetween /\ OverlapJustified
  BY <1>0 DEF AllChecked, ThrownOnce, DisjointBetween, OverlapJustified
<1> QED
  BY <1>3, <1>4, <1>5 DEF IInv

(* A step that changes no field keeps the flags.                           *)
LEMMA SameFlags == ASSUME FlagsOK, UNCHANGED fields PROVE FlagsOK'
  BY Zenon DEF FlagsOK, fields

(* A step that throws leaves the vector and the check where they are.      *)
LEMMA ThrowIInv ==
  ASSUME IInv, NEW why \in {"json", "path", "template range", "range", "outside"},
         phase \in Phase, Throw(why)
  PROVE  IInv'
<1>0. FlagsOK'
  BY SameFlags DEF IInv, TypeInv, TypeOK, Throw
<1> USE DEF Throw, fields
<1>1. TypeInv'
  BY <1>0 DEF IInv, TypeInv, TypeOK, ReadType, Phase
<1>2. (NothingChecked /\ Sorted /\ PrevIsLastChecked /\ CheckedNested)'
  BY DEF IInv, NothingChecked, Sorted, PrevIsLastChecked, CheckedNested, Reading
<1>3. (AllChecked /\ ThrownOnce)'
  BY DEF IInv, AllChecked, ThrownOnce
<1>4. DisjointBetween'
  BY DEF IInv, DisjointBetween
<1>5. OverlapJustified'
  BY DEF OverlapJustified
<1> QED
  BY <1>1, <1>2, <1>3, <1>4, <1>5 DEF IInv

(* A step that only goes on to the next part of the constructor.           *)
LEMMA MoveOnIInv ==
  ASSUME IInv, NEW next \in {"paths", "read", "check", "crashed"},
         phase \in Reading, next = "check" => phase = "template",
         next # "check" => phase \in {"parse", "paths", "read"},
         MoveOnTo(next), UNCHANGED <<fields, checked, prevMetavar>>
  PROVE  IInv'
<1>0. FlagsOK'
  BY SameFlags DEF IInv, TypeInv, TypeOK
<1> USE DEF MoveOnTo, fields
<1>1. TypeInv'
  BY <1>0 DEF IInv, TypeInv, TypeOK, ReadType, Phase
<1>2. (NothingChecked /\ Sorted /\ PrevIsLastChecked /\ CheckedNested)'
  BY DEF IInv, NothingChecked, Sorted, PrevIsLastChecked, CheckedNested, Reading
<1>3. (AllChecked /\ ThrownOnce)'
  BY DEF IInv, AllChecked, ThrownOnce, Reading
<1>4. DisjointBetween'
  BY DEF IInv, DisjointBetween
<1>5. OverlapJustified'
  BY DEF IInv, OverlapJustified
<1> QED
  BY <1>1, <1>2, <1>3, <1>4, <1>5 DEF IInv

LEMMA ReadIInv == ASSUME IInv, ReadFields PROVE IInv'
<1>0. /\ phase = "read" /\ phase' = "sort" /\ file' = file
      /\ rejectedFor' = rejectedFor /\ templateRange' = ReadRange(file.templateRange)
      /\ checked' = checked /\ prevMetavar' = prevMetavar
  BY Zenon DEF ReadFields, MoveOnTo
<1>1. checked = 0 /\ prevMetavar = NoMetavar /\ rejectedFor = "none"
  BY <1>0 DEF IInv, NothingChecked, Reading, ThrownOnce
<1>2. /\ file \in JsonFile
      /\ file.metaVariables \in Seq(JsonMetavar)
      /\ ReadRange(file.templateRange) \in TemplateRanges
      /\ file.transform \in Optional /\ file.overwrite \in Optional
  <2>1. file \in JsonFile
    BY DEF IInv, TypeInv, TypeOK
  <2>2. file.templateRange \in JsonRanges /\ file.metaVariables \in Seq(JsonMetavar)
        /\ file.transform \in Optional /\ file.overwrite \in Optional
    BY <2>1, Zenon DEF JsonFile
  <2> QED
    BY <2>1, <2>2, ReadRangeType
<1>3. FlagsOK'
  BY <1>2, GivenType, Zenon DEF FlagsOK, ReadFields
<1>4. metavariableRanges' \in Seq(MetavarLoc)
  <2>1. \A i \in 1 .. Len(file.metaVariables) :
          ReadMetavar(file.metaVariables[i]) \in MetavarLoc
    <3> TAKE i \in 1 .. Len(file.metaVariables)
    <3>1. file.metaVariables[i] \in JsonMetavar
      BY <1>2
    <3> QED
      BY <3>1, ReadMetavarType
  <2>2. Len(file.metaVariables) \in Nat
    BY <1>2
  <2>3. metavariableRanges' = [i \in 1 .. Len(file.metaVariables) |->
                                 ReadMetavar(file.metaVariables[i])]
    BY Zenon DEF ReadFields
  <2> QED
    BY <2>1, <2>2, <2>3
<1>5. checked' \in 0 .. Len(metavariableRanges')
  BY <1>0, <1>1, <1>4
<1>6. TypeInv'
  BY <1>0, <1>1, <1>2, <1>3, <1>4, <1>5 DEF TypeInv, TypeOK, ReadType, Phase
<1>7. (NothingChecked /\ Sorted /\ PrevIsLastChecked)'
  BY <1>0, <1>1 DEF NothingChecked, Sorted, PrevIsLastChecked
<1>8. (AllChecked /\ ThrownOnce)'
  BY <1>0, <1>1 DEF AllChecked, ThrownOnce
<1>9. (DisjointBetween /\ OverlapJustified /\ CheckedNested)'
  BY <1>0, <1>1 DEF DisjointBetween, OverlapJustified, CheckedNested
<1> QED
  BY <1>6, <1>7, <1>8, <1>9 DEF IInv

(* Sorting makes a list of metavariables of one, which is in order.        *)
LEMMA SortedListsType ==
  ASSUME NEW list \in Seq(MetavarLoc), NEW s \in SortedLists(list)
  PROVE  /\ s \in Seq(MetavarLoc) /\ Len(s) = Len(list)
         /\ \A i, j \in DOMAIN s : i < j => StartsInOrder(s[i], s[j])
<1> DEFINE index == 1 .. Len(list)
<1>1. DOMAIN list = index /\ Len(list) \in Nat
  OBVIOUS
<1>2. PICK from \in [index -> index] :
        /\ \A i, j \in index : i < j => StartsInOrder(list[from[i]], list[from[j]])
        /\ s = [i \in index |-> list[from[i]]]
  BY <1>1, Zenon DEF SortedLists
<1>3. \A i \in index : list[from[i]] \in MetavarLoc
  BY <1>2
<1>4. s \in Seq(MetavarLoc) /\ Len(s) = Len(list) /\ DOMAIN s = index
  BY <1>1, <1>2, <1>3
<1> QED
  BY <1>2, <1>4

LEMMA SortIInv == ASSUME IInv, SortMetavariables PROVE IInv'
<1>0. phase = "sort" /\ phase' = "template" /\ file' = file
      /\ rejectedFor' = rejectedFor
      /\ UNCHANGED <<templateRange, checked, prevMetavar>>
  BY Zenon DEF SortMetavariables, MoveOnTo
<1>1. checked = 0 /\ prevMetavar = NoMetavar /\ rejectedFor = "none"
  BY <1>0 DEF IInv, NothingChecked, Reading, ThrownOnce
<1>2. FlagsOK'
  BY Zenon DEF IInv, TypeInv, TypeOK, FlagsOK, SortMetavariables
<1>3. metavariableRanges \in Seq(MetavarLoc)
  BY DEF IInv, TypeInv, TypeOK
<1>4. metavariableRanges' \in SortedLists(metavariableRanges)
  BY Zenon DEF SortMetavariables
<1>5. metavariableRanges' \in Seq(MetavarLoc)
      /\ \A i, j \in DOMAIN metavariableRanges' :
           i < j => StartsInOrder(metavariableRanges'[i], metavariableRanges'[j])
  BY <1>3, <1>4, SortedListsType
<1>6. Sorted'
  BY <1>5 DEF Sorted
<1>7. checked' \in 0 .. Len(metavariableRanges')
  BY <1>0, <1>1, <1>5
<1>8. TypeInv'
  BY <1>0, <1>1, <1>2, <1>5, <1>7 DEF IInv, TypeInv, TypeOK, ReadType, Phase
<1>9. (NothingChecked /\ PrevIsLastChecked /\ AllChecked /\ ThrownOnce)'
  BY <1>0, <1>1 DEF NothingChecked, PrevIsLastChecked, AllChecked, ThrownOnce
<1>10. (DisjointBetween /\ OverlapJustified /\ CheckedNested)'
  BY <1>0, <1>1 DEF DisjointBetween, OverlapJustified, CheckedNested
<1> QED
  BY <1>6, <1>8, <1>9, <1>10 DEF IInv

(* The check of one metavariable: what is known when it looks at meta.     *)
LEMMA Looking ==
  ASSUME IInv, CheckingMetavariable
  PROVE  /\ checked \in Nat /\ checked + 1 \in DOMAIN metavariableRanges
         /\ metavariableRanges \in Seq(MetavarLoc)
         /\ meta \in MetavarLoc /\ meta = metavariableRanges[checked + 1]
         /\ \A i \in 1 .. checked :
              /\ i \in DOMAIN metavariableRanges
              /\ metavariableRanges[i] \in MetavarLoc
              /\ StartsInOrder(metavariableRanges[i], meta)
         /\ checked > 0 => prevMetavar = metavariableRanges[checked]
<1>1. metavariableRanges \in Seq(MetavarLoc)
      /\ checked \in 0 .. Len(metavariableRanges)
  BY DEF IInv, TypeInv, TypeOK
<1>2. Len(metavariableRanges) \in Nat /\ checked \in Nat
      /\ checked + 1 \in DOMAIN metavariableRanges
  BY <1>1 DEF CheckingMetavariable
<1>3. \A i \in 1 .. checked + 1 : i \in DOMAIN metavariableRanges
                                  /\ metavariableRanges[i] \in MetavarLoc
  BY <1>1, <1>2
<1>4. \A i \in 1 .. checked : StartsInOrder(metavariableRanges[i], meta)
  BY <1>1, <1>2, <1>3 DEF IInv, Sorted, CheckingMetavariable, meta
<1>5. checked > 0 => prevMetavar = metavariableRanges[checked]
  BY <1>2 DEF IInv, PrevIsLastChecked
<1> QED
  BY <1>1, <1>2, <1>3, <1>4, <1>5 DEF meta

LEMMA OverlapIInv == ASSUME IInv, RejectOverlap PROVE IInv'
<1> USE DEF RejectOverlap, Throw, fields
<1>1. CheckingMetavariable /\ ClashesWithPrev /\ Valid(meta.range)
  OBVIOUS
<1>2. checked > 0
  BY <1>1, Looking DEF IInv, PrevIsLastChecked, ClashesWithPrev, IsDummy,
     NoMetavar, DummyRange, RangeFrom, DummyLocation
<1>3. /\ prevMetavar = metavariableRanges[checked]
      /\ prevMetavar \in MetavarLoc /\ meta \in MetavarLoc
      /\ LocLeq(prevMetavar.range.begin, meta.range.begin)
  BY <1>1, <1>2, Looking DEF StartsInOrder
<1>4. Intersect(prevMetavar.range, meta.range)
  BY <1>1, <1>3, OverlapIsIntersection DEF ClashesWithPrev, MetavarLoc
<1>5. OverlapJustified'
  <2>1. checked \in DOMAIN metavariableRanges /\ checked + 1 \in DOMAIN metavariableRanges
        /\ checked < checked + 1
    BY <1>1, <1>2, Looking
  <2>2. Overlap(metavariableRanges, checked, checked + 1)
    BY <1>1, <1>3, <1>4, <2>1, Looking DEF Overlap, ClashesWithPrev
  <2> QED
    BY <2>1, <2>2, Zenon DEF OverlapJustified
<1>6. TypeInv'
  <2>1. FlagsOK'
    BY SameFlags DEF IInv, TypeInv, TypeOK
  <2> QED
    BY <2>1 DEF IInv, TypeInv, TypeOK, ReadType, Phase
<1>7. (NothingChecked /\ Sorted /\ PrevIsLastChecked /\ CheckedNested)'
  BY DEF IInv, NothingChecked, Sorted, PrevIsLastChecked, CheckedNested, Reading
<1>8. (AllChecked /\ ThrownOnce)'
  BY DEF IInv, AllChecked, ThrownOnce
<1>9. DisjointBetween'
  BY DEF IInv, DisjointBetween
<1> QED
  BY <1>5, <1>6, <1>7, <1>8, <1>9 DEF IInv

(* The neighbour test is enough while no name-only metavariable is near:   *)
(* what starts behind the previous range starts behind those before it.    *)
LEMMA PassDisjoint == ASSUME IInv, PassMetavariable PROVE DisjointBetween'
<1> USE DEF PassMetavariable, Passes, fields
<1>1. CheckingMetavariable /\ Valid(meta.range) /\ ~ ClashesWithPrev
      /\ checked' = checked + 1 /\ metavariableRanges' = metavariableRanges
  OBVIOUS
<1>2. SUFFICES ASSUME NEW i \in 1 .. checked,
                      \A k \in i .. checked + 1 : ~ Hidden(metavariableRanges[k])
               PROVE  ~ Intersect(metavariableRanges[i].range, meta.range)
  <2>1. checked \in Nat /\ meta = metavariableRanges[checked + 1]
    BY <1>1, Looking
  <2> QED
    BY <1>1, <1>2, <2>1 DEF DisjointBetween, IInv
<1>3. checked > 0 /\ prevMetavar = metavariableRanges[checked]
  BY <1>1, Looking
<1>4. /\ metavariableRanges[i] \in MetavarLoc /\ prevMetavar \in MetavarLoc
      /\ meta \in MetavarLoc
      /\ StartsInOrder(metavariableRanges[i], meta)
      /\ StartsInOrder(prevMetavar, meta)
  BY <1>1, <1>3, Looking
<1>5. ~ prevMetavar.nameOnly /\ ~ meta.nameOnly /\ ~ IsDummy(prevMetavar.range)
  BY <1>1, <1>2, <1>3, Looking DEF Hidden
<1>6. ~ OverlapsWith(prevMetavar.range, meta.range)
  BY <1>1, <1>3, <1>5 DEF ClashesWithPrev
<1>7. CASE i = checked
  BY <1>1, <1>3, <1>4, <1>6, <1>7, OverlapIsIntersection DEF MetavarLoc, StartsInOrder
<1>8. CASE i < checked
  <2>1. ~ Intersect(metavariableRanges[i].range, prevMetavar.range)
    BY <1>1, <1>2, <1>3, <1>8, Looking DEF IInv, DisjointBetween
  <2>2. StartsInOrder(metavariableRanges[i], prevMetavar) /\ Valid(prevMetavar.range)
    BY <1>1, <1>3, <1>8, Looking DEF IInv, Sorted, CheckingMetavariable, CheckedNested
  <2>3. ~ OverlapsWith(metavariableRanges[i].range, prevMetavar.range)
    BY <2>1, <2>2, <1>4, OverlapIsIntersection DEF MetavarLoc, StartsInOrder
  <2>4. ~ OverlapsWith(metavariableRanges[i].range, meta.range)
    BY <2>3, <1>4, DisjointCarriesOver DEF MetavarLoc, StartsInOrder
  <2> QED
    BY <1>1, <1>4, <2>4, OverlapIsIntersection DEF MetavarLoc, StartsInOrder
<1> QED
  BY <1>1, <1>7, <1>8, Looking

LEMMA PassIInv == ASSUME IInv, PassMetavariable PROVE IInv'
<1>1. DisjointBetween'
  BY PassDisjoint
<1> USE DEF PassMetavariable, Passes, MoveOnTo, fields
<1>2. CheckingMetavariable /\ checked \in Nat /\ meta \in MetavarLoc
      /\ checked + 1 \in 1 .. Len(metavariableRanges)
      /\ meta = metavariableRanges[checked + 1]
  BY Looking
<1>3. TypeInv'
  <2>1. FlagsOK'
    BY SameFlags DEF IInv, TypeInv, TypeOK
  <2>2. checked' \in 0 .. Len(metavariableRanges')
    BY <1>2
  <2> QED
    BY <1>2, <2>1, <2>2
    DEF IInv, TypeInv, TypeOK, ReadType, Phase, CheckingMetavariable
<1>4. CheckedNested' /\ PrevIsLastChecked'
  BY <1>2 DEF IInv, CheckedNested, PrevIsLastChecked
<1>5. (NothingChecked /\ Sorted)'
  BY <1>2 DEF IInv, NothingChecked, Sorted, Reading, CheckingMetavariable
<1>6. (AllChecked /\ ThrownOnce /\ OverlapJustified)'
  BY <1>2 DEF IInv, AllChecked, ThrownOnce, OverlapJustified, CheckingMetavariable
<1> QED
  BY <1>1, <1>3, <1>4, <1>5, <1>6 DEF IInv

LEMMA AcceptIInv == ASSUME IInv, Accept PROVE IInv'
<1> USE DEF Accept, MoveOnTo, fields
<1>0. FlagsOK'
  BY SameFlags DEF IInv, TypeInv, TypeOK
<1>1. TypeInv'
  BY <1>0 DEF IInv, TypeInv, TypeOK, ReadType, Phase
<1>2. (NothingChecked /\ Sorted /\ PrevIsLastChecked /\ CheckedNested)'
  BY DEF IInv, NothingChecked, Sorted, PrevIsLastChecked, CheckedNested, Reading
<1>3. (AllChecked /\ ThrownOnce)'
  BY DEF IInv, AllChecked, ThrownOnce
<1>4. (DisjointBetween /\ OverlapJustified)'
  BY DEF IInv, DisjointBetween, OverlapJustified
<1> QED
  BY <1>1, <1>2, <1>3, <1>4 DEF IInv

LEMMA StutterIInv == ASSUME IInv, UNCHANGED vars PROVE IInv'
<1> USE DEF vars, fields
<1>0. FlagsOK'
  BY SameFlags DEF IInv, TypeInv, TypeOK
<1>1. TypeInv'
  BY <1>0 DEF IInv, TypeInv, TypeOK, ReadType
<1>2. (NothingChecked /\ Sorted /\ PrevIsLastChecked /\ CheckedNested)'
  BY DEF IInv, NothingChecked, Sorted, PrevIsLastChecked, CheckedNested
<1>3. (AllChecked /\ ThrownOnce)'
  BY DEF IInv, AllChecked, ThrownOnce
<1>4. (DisjointBetween /\ OverlapJustified)'
  BY DEF IInv, DisjointBetween, OverlapJustified
<1> QED
  BY <1>1, <1>2, <1>3, <1>4 DEF IInv

LEMMA NextIInv == IInv /\ [Next]_vars => IInv'
<1> SUFFICES ASSUME IInv, [Next]_vars PROVE IInv'
  OBVIOUS
<1>0. phase \in Phase
  BY DEF IInv, TypeInv, TypeOK
<1>1. CASE ParseAndValidate
  BY <1>0, <1>1, ThrowIInv, MoveOnIInv DEF ParseAndValidate, Reading
<1>2. CASE GetAbsolutePaths
  BY <1>0, <1>2, ThrowIInv, MoveOnIInv DEF GetAbsolutePaths, Reading
<1>3. CASE ReadFields
  BY <1>3, ReadIInv
<1>11. CASE IdentifierIsNoString
  BY <1>0, <1>11, MoveOnIInv DEF IdentifierIsNoString, Reading
<1>4. CASE SortMetavariables
  BY <1>4, SortIInv
<1>5. CASE CheckTemplateRange
  BY <1>0, <1>5, ThrowIInv, MoveOnIInv DEF CheckTemplateRange, Reading
<1>6. CASE RejectInvalid \/ RejectOutside
  BY <1>0, <1>6, ThrowIInv DEF RejectInvalid, RejectOutside
<1>7. CASE RejectOverlap
  BY <1>7, OverlapIInv
<1>8. CASE PassMetavariable
  BY <1>8, PassIInv
<1>9. CASE Accept
  BY <1>9, AcceptIInv
<1>10. CASE Finished \/ UNCHANGED vars
  BY <1>10, StutterIInv DEF Finished
<1> QED
  BY <1>1, <1>2, <1>3, <1>4, <1>5, <1>6, <1>7, <1>8, <1>9, <1>10, <1>11 DEF Next

THEOREM Invariance == Spec => []IInv
  BY InitIInv, NextIInv, PTL DEF Spec

(* Type correctness of the constructor.                                    *)
THEOREM TypeCorrect == Spec => []TypeOK
<1>1. IInv => TypeOK
  BY DEF IInv, TypeInv
<1> QED
  BY <1>1, Invariance, PTL

(* An accepted configuration has well-formed ranges inside the template's. *)
THEOREM AcceptedAreNested == Spec => []AcceptedNested
<1>1. IInv => AcceptedNested
  <2> SUFFICES ASSUME IInv, phase = "accepted",
                      NEW i \in DOMAIN metavariableRanges
               PROVE  /\ Valid(metavariableRanges[i].range)
                      /\ EnclosedIn(metavariableRanges[i].range, templateRange)
    BY DEF AcceptedNested
  <2>1. metavariableRanges \in Seq(MetavarLoc)
    BY DEF IInv, TypeInv, TypeOK
  <2>2. checked = Len(metavariableRanges)
    BY DEF IInv, AllChecked
  <2> QED
    BY <2>1, <2>2 DEF IInv, CheckedNested
<1> QED
  BY <1>1, Invariance, PTL

(* What looking at neighbours only establishes, for any number of          *)
(* metavariables: those with no hidden one between them are disjoint.      *)
THEOREM NeighboursSuffice == Spec => []DisjointBetween
<1>1. IInv => DisjointBetween
  BY DEF IInv
<1> QED
  BY <1>1, Invariance, PTL

(* Nothing is refused for an overlap that is not there.                    *)
THEOREM OverlapsAreReal == Spec => []OverlapJustified
<1>1. IInv => OverlapJustified
  BY DEF IInv
<1> QED
  BY <1>1, Invariance, PTL

-----------------------------------------------------------------------------
(* The constructor implements ConfigurationGate.                           *)

Usable == file.wellFormed /\ file.sourceExists /\ file.rhsExists

Listed == [i \in DOMAIN file.metaVariables |-> ReadMetavar(file.metaVariables[i])]

FlagsRead ==
  /\ transformTemplateSource = Given(file.transform, TRUE)
  /\ overwriteSourceFiles = Given(file.overwrite, FALSE)

(* What the fields have to do with the file.                               *)
AsInFile ==
  /\ phase = "paths" => file.wellFormed
  /\ phase \in {"read", "sort", "template", "check", "accepted"} => Usable
  /\ phase \in {"sort", "template", "check", "accepted"} =>
       file.named /\ FlagsRead /\ templateRange = ReadRange(file.templateRange)
  /\ phase = "sort" => metavariableRanges = Listed
  /\ phase \in {"template", "check", "accepted"} =>
       metavariableRanges \in SortedLists(Listed)
  /\ phase = "check" => Valid(templateRange)

(* The file stays what it is.                                              *)
LEMMA SameFile == ASSUME [Next]_vars PROVE file' = file
  BY Zenon DEF Next, ParseAndValidate, GetAbsolutePaths, IdentifierIsNoString, ReadFields,
     SortMetavariables, CheckTemplateRange, RejectInvalid, RejectOutside, RejectOverlap,
     PassMetavariable, Accept, Finished, Throw, MoveOnTo, vars

LEMMA InitAsInFile == Init => AsInFile
  BY DEF Init, AsInFile

LEMMA SameAsInFile ==
  ASSUME AsInFile, UNCHANGED <<file, fields>>,
         \/ phase' = phase
         \/ phase' = "rejected"
         \/ phase' = "crashed"
         \/ phase = "parse" /\ phase' = "paths" /\ file.wellFormed
         \/ phase = "paths" /\ phase' = "read" /\ Usable
         \/ phase = "template" /\ phase' = "check" /\ Valid(templateRange)
         \/ phase = "check" /\ phase' = "accepted"
  PROVE  AsInFile'
<1>1. /\ file' = file /\ templateRange' = templateRange
      /\ metavariableRanges' = metavariableRanges
      /\ transformTemplateSource' = transformTemplateSource
      /\ overwriteSourceFiles' = overwriteSourceFiles
  BY Zenon DEF fields
<1>2. Listed' = Listed /\ (Usable' <=> Usable) /\ (FlagsRead' <=> FlagsRead)
  BY <1>1, Zenon DEF Listed, Usable, FlagsRead
<1> QED
  BY <1>1, <1>2 DEF AsInFile

LEMMA NextAsInFile == IInv /\ AsInFile /\ [Next]_vars => AsInFile'
<1> SUFFICES ASSUME IInv, AsInFile, [Next]_vars PROVE AsInFile'
  OBVIOUS
<1>1. CASE ParseAndValidate
  BY <1>1, SameAsInFile DEF ParseAndValidate, MoveOnTo, Throw
<1>2. CASE GetAbsolutePaths
  BY <1>2, SameAsInFile DEF GetAbsolutePaths, MoveOnTo, Throw, AsInFile, Usable
<1>3. CASE ReadFields
  <2>1. /\ phase = "read" /\ phase' = "sort" /\ file' = file /\ file.named
        /\ templateRange' = ReadRange(file.templateRange)
    BY <1>3, Zenon DEF ReadFields, MoveOnTo
  <2>2. FlagsRead'
    BY <1>3, <2>1, Zenon DEF FlagsRead, ReadFields
  <2>3. file.metaVariables \in Seq(JsonMetavar)
    BY Zenon DEF IInv, TypeInv, TypeOK, JsonFile
  <2>4. metavariableRanges' = Listed'
    <3>1. DOMAIN file.metaVariables = 1 .. Len(file.metaVariables)
      BY <2>3
    <3> QED
      BY <1>3, <2>1, <3>1, Zenon DEF ReadFields, Listed
  <2>5. Usable'
    BY <2>1, Zenon DEF AsInFile, Usable
  <2> QED
    BY <2>1, <2>2, <2>4, <2>5 DEF AsInFile
<1>4. CASE SortMetavariables
  <2>1. /\ phase = "sort" /\ phase' = "template" /\ file' = file
        /\ templateRange' = templateRange
        /\ transformTemplateSource' = transformTemplateSource
        /\ overwriteSourceFiles' = overwriteSourceFiles
        /\ metavariableRanges' \in SortedLists(metavariableRanges)
    BY <1>4, Zenon DEF SortMetavariables, MoveOnTo
  <2>2. Listed' = Listed /\ (Usable' <=> Usable) /\ (FlagsRead' <=> FlagsRead)
    BY <2>1, Zenon DEF Listed, Usable, FlagsRead
  <2> QED
    BY <2>1, <2>2 DEF AsInFile
<1>5. CASE CheckTemplateRange
  BY <1>5, SameAsInFile DEF CheckTemplateRange, MoveOnTo, Throw
<1>6. CASE RejectInvalid \/ RejectOutside \/ RejectOverlap
  BY <1>6, SameAsInFile DEF RejectInvalid, RejectOutside, RejectOverlap, Throw
<1>7. CASE PassMetavariable
  BY <1>7, SameAsInFile DEF PassMetavariable, MoveOnTo, CheckingMetavariable
<1>8. CASE Accept
  BY <1>8, SameAsInFile DEF Accept, MoveOnTo
<1>9. CASE IdentifierIsNoString
  BY <1>9, SameAsInFile DEF IdentifierIsNoString, MoveOnTo
<1>10. CASE Finished \/ UNCHANGED vars
  BY <1>10, SameAsInFile DEF Finished, vars
<1> QED
  BY <1>1, <1>2, <1>3, <1>4, <1>5, <1>6, <1>7, <1>8, <1>9, <1>10 DEF Next

(* The promise speaks of the same things.                                  *)
LEMMA SameGate ==
  /\ Gate!Usable <=> Usable
  /\ Gate!Read = Listed
  /\ Gate!range = ReadRange(file.templateRange)
  /\ \A list : Gate!SortedLists(list) = SortedLists(list)
  /\ \A list, outer : Gate!Nested(list, outer) <=> Nested(list, outer)
  /\ \A list, i, j : Gate!Overlap(list, i, j) <=> Overlap(list, i, j)
  /\ \A m : Gate!Hidden(m) <=> Hidden(m)
  /\ \A field, default : Gate!Given(field, default) = Given(field, default)
<1>1. \A a, b : Gate!LocLeq(a, b) <=> LocLeq(a, b)
  BY DEF LocLeq, Gate!LocLeq
<1>2. \A a, b : Gate!LocGeq(a, b) <=> LocGeq(a, b)
  BY <1>1 DEF LocGeq, Gate!LocGeq, LocLess, Gate!LocLess
<1>3. \A r, s : /\ Gate!Valid(r) <=> Valid(r)
                /\ Gate!EnclosedIn(r, s) <=> EnclosedIn(r, s)
                /\ Gate!Intersect(r, s) <=> Intersect(r, s)
                /\ Gate!IsDummy(r) <=> IsDummy(r)
  BY <1>1, <1>2 DEF Valid, Gate!Valid, EnclosedIn, Gate!EnclosedIn, Intersect, Gate!Intersect,
     IsDummy, Gate!IsDummy
<1>4. \A r : Gate!ReadRange(r) = ReadRange(r)
  BY DEF ReadRange, Gate!ReadRange, RangeFrom, Gate!RangeFrom, ReadLocation, Gate!ReadLocation,
     ToInt, Gate!ToInt
<1>5. \A field, default : Gate!Given(field, default) = Given(field, default)
  BY Zenon DEF Given, Gate!Given
<1>6. \A m : Gate!ReadMetavar(m) = ReadMetavar(m)
  BY <1>4, <1>5, Zenon DEF ReadMetavar, Gate!ReadMetavar
<1>7. Gate!Read = Listed
  BY <1>6, Zenon DEF Gate!Read, Listed
<1>8. \A m, n : Gate!StartsInOrder(m, n) <=> StartsInOrder(m, n)
  BY <1>1 DEF StartsInOrder, Gate!StartsInOrder
<1>9. \A list : Gate!SortedLists(list) = SortedLists(list)
  BY <1>8 DEF SortedLists, Gate!SortedLists
<1>10. \A list, outer : Gate!Nested(list, outer) <=> Nested(list, outer)
  BY <1>3 DEF Nested, Gate!Nested
<1>11. \A list, i, j : Gate!Overlap(list, i, j) <=> Overlap(list, i, j)
  BY <1>3 DEF Overlap, Gate!Overlap
<1>12. \A m : Gate!Hidden(m) <=> Hidden(m)
  BY <1>3 DEF Hidden, Gate!Hidden
<1>13. (Gate!Usable <=> Usable) /\ Gate!range = ReadRange(file.templateRange)
  BY <1>4 DEF Gate!Usable, Usable, Gate!range
<1> QED
  BY <1>5, <1>7, <1>9, <1>10, <1>11, <1>12, <1>13

LEMMA InitGate == Init => Gate!Init
  BY DEF Init, Gate!Init, Answer, Configuration

Unanswered == UNCHANGED <<file, Answer, Configuration>>

LEMMA AcceptGate == ASSUME IInv, AsInFile, Accept PROVE Gate!Accept
<1>1. /\ phase = "check" /\ phase' = "accepted" /\ file' = file
      /\ checked = Len(metavariableRanges)
      /\ transformTemplateSource' = transformTemplateSource
      /\ overwriteSourceFiles' = overwriteSourceFiles
      /\ templateRange' = templateRange /\ metavariableRanges' = metavariableRanges
  BY Zenon DEF Accept, MoveOnTo, fields
<1>2. /\ Usable /\ file.named /\ FlagsRead
      /\ templateRange = ReadRange(file.templateRange) /\ Valid(templateRange)
      /\ metavariableRanges \in SortedLists(Listed)
  BY <1>1 DEF AsInFile
<1>3. metavariableRanges \in Seq(MetavarLoc) /\ DOMAIN metavariableRanges = 1 .. checked
  <2>1. metavariableRanges \in Seq(MetavarLoc)
    BY Zenon DEF IInv, TypeInv, TypeOK
  <2> QED
    BY <1>1, <2>1
<1>4. Nested(metavariableRanges, templateRange)
  BY <1>2, <1>3 DEF Nested, IInv, CheckedNested
<1>5. ASSUME NEW i \in DOMAIN metavariableRanges, NEW j \in DOMAIN metavariableRanges,
             Overlap(metavariableRanges, i, j)
      PROVE  \E k \in i .. j : Hidden(metavariableRanges[k])
  BY <1>3, <1>5 DEF Overlap, IInv, DisjointBetween
<1>6. Answer = "pending" /\ Answer' = "accepted"
  BY <1>1 DEF Answer
<1>7. Configuration' =
        [ transformTemplateSource |-> Given(file.transform, TRUE),
          overwriteSourceFiles    |-> Given(file.overwrite, FALSE),
          templateRange           |-> ReadRange(file.templateRange),
          metavariableRanges      |-> metavariableRanges ]
  <2>1. phase' = "accepted"
    BY <1>1
  <2> QED
    BY <1>1, <1>2, <2>1, Zenon DEF Configuration, FlagsRead
<1> QED
  BY <1>1, <1>2, <1>4, <1>5, <1>6, <1>7, SameGate DEF Gate!Accept

LEMMA RejectGate ==
  ASSUME IInv, AsInFile, NEW why, Throw(why), phase \in Phase,
         phase \notin {"accepted", "rejected", "crashed"},
         Usable => /\ phase \in {"template", "check"}
                   /\ \/ ~ Nested(metavariableRanges, templateRange)
                      \/ \E i, j \in DOMAIN metavariableRanges : Overlap(metavariableRanges, i, j)
  PROVE  Gate!Reject
<1>1. phase' = "rejected" /\ file' = file
  BY Zenon DEF Throw
<1>2. Answer = "pending" /\ Answer' = "rejected" /\ Configuration' = Configuration
  BY <1>1 DEF Answer, Configuration
<1>3. Usable => /\ file.named
                /\ metavariableRanges \in SortedLists(Listed)
                /\ templateRange = ReadRange(file.templateRange)
  BY DEF AsInFile
<1> QED
  BY <1>1, <1>2, <1>3, SameGate DEF Gate!Reject

LEMMA StepGate ==
  IInv /\ AsInFile /\ [Next]_vars => [Gate!Next]_<<file, Answer, Configuration>>
<1> SUFFICES ASSUME IInv, AsInFile, [Next]_vars PROVE Gate!Next \/ Unanswered
  BY DEF Unanswered
<1>0. phase \in Phase /\ file' = file
  BY SameFile DEF IInv, TypeInv, TypeOK
<1>1. CASE ParseAndValidate
  <2>1. CASE file.wellFormed
    BY <1>1, <2>1 DEF ParseAndValidate, MoveOnTo, Unanswered, Answer, Configuration
  <2>2. CASE ~ file.wellFormed
    <3>1. phase = "parse" /\ Throw("json") /\ ~ Usable
      BY <1>1, <2>2, Zenon DEF ParseAndValidate, Usable
    <3>2. Gate!Reject
      BY <1>0, <3>1, RejectGate
    <3> QED
      BY <3>2, Zenon DEF Gate!Next
  <2> QED
    BY <2>1, <2>2
<1>2. CASE GetAbsolutePaths
  <2>1. CASE file.sourceExists /\ file.rhsExists
    BY <1>2, <2>1 DEF GetAbsolutePaths, MoveOnTo, Unanswered, Answer, Configuration
  <2>2. CASE ~ (file.sourceExists /\ file.rhsExists)
    <3>1. phase = "paths" /\ Throw("path") /\ ~ Usable
      BY <1>2, <2>2, Zenon DEF GetAbsolutePaths, Usable
    <3>2. Gate!Reject
      BY <1>0, <3>1, RejectGate
    <3> QED
      BY <3>2, Zenon DEF Gate!Next
  <2> QED
    BY <2>1, <2>2
<1>3. CASE IdentifierIsNoString
  <2>1. phase = "read" /\ phase' = "crashed" /\ ~ file.named
    BY <1>3, Zenon DEF IdentifierIsNoString, MoveOnTo
  <2>2. Usable
    BY <2>1 DEF AsInFile
  <2>3. Answer = "pending" /\ Answer' = "crashed" /\ Configuration' = Configuration
    BY <2>1 DEF Answer, Configuration
  <2> QED
    BY <1>0, <2>1, <2>2, <2>3, SameGate DEF Gate!Crash, Gate!Next
<1>4. CASE ReadFields \/ SortMetavariables \/ PassMetavariable
  <2>1. phase \in {"read", "sort", "check"} /\ phase' \in {"sort", "template", "check"}
    BY <1>4, Zenon DEF ReadFields, SortMetavariables, PassMetavariable, CheckingMetavariable, MoveOnTo
  <2> QED
    BY <1>0, <2>1 DEF Unanswered, Answer, Configuration
<1>5. CASE CheckTemplateRange
  <2>1. CASE Valid(templateRange)
    BY <1>5, <2>1 DEF CheckTemplateRange, MoveOnTo, Unanswered, Answer, Configuration
  <2>2. CASE ~ Valid(templateRange)
    <3>1. phase = "template" /\ Throw("template range")
      BY <1>5, <2>2, Zenon DEF CheckTemplateRange
    <3>2. ~ Nested(metavariableRanges, templateRange)
      BY <2>2, Zenon DEF Nested
    <3>3. Gate!Reject
      BY <1>0, <3>1, <3>2, RejectGate
    <3> QED
      BY <3>3, Zenon DEF Gate!Next
  <2> QED
    BY <2>1, <2>2
<1>6. CASE RejectInvalid \/ RejectOutside
  <2>1. /\ CheckingMetavariable /\ phase = "check"
        /\ ~ Valid(meta.range) \/ ~ EnclosedIn(meta.range, templateRange)
    BY <1>6, Zenon DEF RejectInvalid, RejectOutside, CheckingMetavariable
  <2>2. checked + 1 \in DOMAIN metavariableRanges /\ meta = metavariableRanges[checked + 1]
    BY <2>1, Looking
  <2>3. ~ Nested(metavariableRanges, templateRange)
    BY <2>1, <2>2 DEF Nested
  <2> QED
    <3>1. PICK why \in {"range", "outside"} : Throw(why)
      BY <1>6, Zenon DEF RejectInvalid, RejectOutside
    <3>2. Gate!Reject
      BY <1>0, <2>1, <2>3, <3>1, RejectGate
    <3> QED
      BY <3>2, Zenon DEF Gate!Next
<1>7. CASE RejectOverlap
  <2>1. phase = "check" /\ Throw("overlap") /\ metavariableRanges' = metavariableRanges
    BY <1>7, Zenon DEF RejectOverlap, CheckingMetavariable, Throw, fields
  <2>2. OverlapJustified' /\ rejectedFor' = "overlap"
    BY <1>7, <2>1, OverlapIInv DEF IInv, Throw
  <2>3. \E i, j \in DOMAIN metavariableRanges : Overlap(metavariableRanges, i, j)
    BY <2>1, <2>2 DEF OverlapJustified, Overlap
  <2> QED
    <3>1. Gate!Reject
      BY <1>0, <2>1, <2>3, RejectGate
    <3> QED
      BY <3>1, Zenon DEF Gate!Next
<1>8. CASE Accept
  BY <1>8, AcceptGate DEF Gate!Next
<1>9. CASE Finished \/ UNCHANGED vars
  BY <1>9 DEF Finished, vars, fields, Unanswered, Answer, Configuration
<1> QED
  BY <1>1, <1>2, <1>3, <1>4, <1>5, <1>6, <1>7, <1>8, <1>9 DEF Next

(* For all files: what comes out is the file's configuration, none is      *)
(* refused that is as it should be, and none accepted that is not but for  *)
(* overlaps with a hidden metavariable in between.                         *)
THEOREM ImplementsGate == Spec => AnswersAsPromised
<1>1. Spec => []AsInFile
  BY InitAsInFile, NextAsInFile, Invariance, PTL DEF Spec
<1> QED
  BY <1>1, InitGate, StepGate, Invariance, PTL DEF Spec, AnswersAsPromised, Gate!Spec
=============================================================================
