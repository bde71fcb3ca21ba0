-------------------------- MODULE LHSConfiguration --------------------------
(***************************************************************************)
(* The constructor of LHSConfiguration: it reads a JSON file, resolves the *)
(* two paths, converts the flags and the ranges, sorts the metavariables   *)
(* on the start of their ranges and checks the range constraints with one  *)
(* pass over neighbours ("chasing pointers").  It ends with a usable       *)
(* configuration or with a MalformedConfigException; or, for a file that   *)
(* neither the schema nor the constructor takes exception to, with one of  *)
(* the JSON library's that no one catches.                                 *)
(***************************************************************************)
EXTENDS ConfigurationFile

VARIABLES
  phase,                      \* what the constructor does next
  file,                       \* its argument
  transformTemplateSource,    \* the fields of the object
  overwriteSourceFiles,
  templateRange,
  metavariableRanges,
  checked,                    \* how many metavariables the check has passed
  prevMetavar,                \* the chasing pointer of the check
  rejectedFor                 \* what the exception says, "none" if none is thrown

fields == <<transformTemplateSource, overwriteSourceFiles, templateRange,
            metavariableRanges>>
vars == <<phase, file, fields, checked, prevMetavar, rejectedFor>>

(* The default-constructed MetavarLoc, whose range is the dummy range.     *)
NoMetavar == [identifier |-> -1, nameOnly |-> FALSE, range |-> DummyRange]

Init ==
  /\ phase = "parse"
  /\ file \in Files
  /\ transformTemplateSource = FALSE
  /\ overwriteSourceFiles = FALSE
  /\ templateRange = DummyRange
  /\ metavariableRanges = << >>
  /\ checked = 0
  /\ prevMetavar = NoMetavar
  /\ rejectedFor = "none"

-----------------------------------------------------------------------------

Throw(why) ==
  /\ phase' = "rejected"
  /\ rejectedFor' = why
  /\ UNCHANGED <<file, fields, checked, prevMetavar>>

MoveOnTo(next) ==
  /\ phase' = next
  /\ UNCHANGED <<file, rejectedFor>>

ParseAndValidate ==
  /\ phase = "parse"
  /\ IF file.wellFormed
       THEN MoveOnTo("paths") /\ UNCHANGED <<fields, checked, prevMetavar>>
       ELSE Throw("json")

GetAbsolutePaths ==
  /\ phase = "paths"
  /\ IF file.sourceExists /\ file.rhsExists
       THEN MoveOnTo("read") /\ UNCHANGED <<fields, checked, prevMetavar>>
       ELSE Throw("path")

(* The conversion of an identifier throws.                                 *)
IdentifierIsNoString ==
  /\ phase = "read" /\ ~ file.named
  /\ MoveOnTo("crashed")
  /\ UNCHANGED <<fields, checked, prevMetavar>>

ReadFields_SkipsFlags ==
  /\ phase = "read" /\ file.named
  /\ templateRange' = ReadRange(file.templateRange)
  /\ metavariableRanges' =
       [i \in 1 .. Len(file.metaVariables) |-> ReadMetavar(file.metaVariables[i])]
  /\ MoveOnTo("sort")
  /\ UNCHANGED <<transformTemplateSource, overwriteSourceFiles, checked, prevMetavar>>

ReadFields ==
  /\ phase = "read" /\ file.named
  /\ transformTemplateSource' = Given(file.transform, TRUE)
  /\ overwriteSourceFiles' = Given(file.overwrite, FALSE)
  /\ templateRange' = ReadRange(file.templateRange)
  /\ metavariableRanges' =
       [i \in 1 .. Len(file.metaVariables) |-> ReadMetavar(file.metaVariables[i])]
  /\ MoveOnTo("sort")
  /\ UNCHANGED <<checked, prevMetavar>>

SortMetavariables ==
  /\ phase = "sort"
  /\ metavariableRanges' \in SortedLists(metavariableRanges)
  /\ MoveOnTo("template")
  /\ UNCHANGED <<transformTemplateSource, overwriteSourceFiles, templateRange,
                 checked, prevMetavar>>

CheckTemplateRange ==
  /\ phase = "template"
  /\ IF Valid(templateRange)
       THEN MoveOnTo("check") /\ UNCHANGED <<fields, checked, prevMetavar>>
       ELSE Throw("template range")

-----------------------------------------------------------------------------

meta == metavariableRanges[checked + 1]

ClashesWithPrev_IgnoresNameOnly ==
  ~ IsDummy(prevMetavar.range) /\ OverlapsWith(prevMetavar.range, meta.range)

ClashesWithPrev_OneOff ==
  /\ ~ IsDummy(prevMetavar.range)
  /\ ~ prevMetavar.nameOnly
  /\ ~ meta.nameOnly
  /\ LocGreater(prevMetavar.range.end, meta.range.begin)

ClashesWithPrev ==
  /\ ~ IsDummy(prevMetavar.range)
  /\ ~ prevMetavar.nameOnly
  /\ ~ meta.nameOnly
  /\ OverlapsWith(prevMetavar.range, meta.range)

CheckingMetavariable ==
  phase = "check" /\ checked < Len(metavariableRanges)

RejectInvalid ==
  /\ CheckingMetavariable
  /\ ~ Valid(meta.range)
  /\ Throw("range")

RejectOutside ==
  /\ CheckingMetavariable
  /\ Valid(meta.range)
  /\ ~ EnclosedIn(meta.range, templateRange)
  /\ Throw("outside")

RejectOverlap ==
  /\ CheckingMetavariable
  /\ Valid(meta.range)
  /\ EnclosedIn(meta.range, templateRange)
  /\ ClashesWithPrev
  /\ Throw("overlap")

Passes ==
  /\ Valid(meta.range)
  /\ EnclosedIn(meta.range, templateRange)
  /\ ~ ClashesWithPrev

PassMetavariable_ByTwo ==
  /\ CheckingMetavariable /\ Passes
  /\ prevMetavar' = meta
  /\ checked' = checked + 2
  /\ MoveOnTo("check")
  /\ UNCHANGED fields

PassMetavariable_Stuck ==
  /\ CheckingMetavariable /\ Passes
  /\ prevMetavar' = meta
  /\ MoveOnTo("check")
  /\ UNCHANGED <<fields, checked>>

PassMetavariable ==
  /\ CheckingMetavariable /\ Passes
  /\ prevMetavar' = meta
  /\ checked' = checked + 1
  /\ MoveOnTo("check")
  /\ UNCHANGED fields

Accept_TooEarly ==
  /\ phase = "check"
  /\ checked + 1 >= Len(metavariableRanges)
  /\ MoveOnTo("accepted")
  /\ UNCHANGED <<fields, checked, prevMetavar>>

Accept ==
  /\ phase = "check"
  /\ checked = Len(metavariableRanges)
  /\ MoveOnTo("accepted")
  /\ UNCHANGED <<fields, checked, prevMetavar>>

Finished == phase \in {"accepted", "rejected", "crashed"} /\ UNCHANGED vars

Next ==
  \/ ParseAndValidate \/ GetAbsolutePaths \/ IdentifierIsNoString \/ ReadFields
  \/ SortMetavariables
  \/ CheckTemplateRange \/ RejectInvalid \/ RejectOutside \/ RejectOverlap
  \/ PassMetavariable \/ Accept \/ Finished

(* One thread runs the constructor from its first to its last statement.   *)
Spec == Init /\ [][Next]_vars /\ WF_vars(Next)

-----------------------------------------------------------------------------
(* Properties                                                              *)

Phase == {"parse", "paths", "read", "sort", "template", "check", "accepted",
          "rejected", "crashed"}

FlagsOK == transformTemplateSource \in BOOLEAN /\ overwriteSourceFiles \in BOOLEAN

(* Every field has the type the class declares, the check never runs past  *)
(* the vector, and the chasing pointer is the dummy or a metavariable.     *)
TypeOK ==
  /\ phase \in Phase
  /\ file \in JsonFile
  /\ FlagsOK
  /\ templateRange \in TemplateRanges \cup {DummyRange}
  /\ metavariableRanges \in Seq(MetavarLoc)
  /\ checked \in 0 .. Len(metavariableRanges)
  /\ prevMetavar \in MetavarLoc \cup {NoMetavar}
  /\ rejectedFor \in {"none", "json", "path", "template range", "range",
                      "outside", "overlap"}

(* validateRangeConstraints: in an accepted configuration every            *)
(* metavariable range is well-formed and inside the template range.        *)
AcceptedNested ==
  phase = "accepted" =>
    \A i \in DOMAIN metavariableRanges :
      /\ Valid(metavariableRanges[i].range)
      /\ EnclosedIn(metavariableRanges[i].range, templateRange)

(* What comparing neighbours does establish: among the metavariables that  *)
(* passed, two that follow each other with none among or between them that *)
(* is name-only, or looks like the dummy, are disjoint, however far apart  *)
(* they stand.                                                             *)
DisjointBetween ==
  \A i, j \in 1 .. checked :
    (i < j /\ \A k \in i .. j : ~ Hidden(metavariableRanges[k])) =>
      ~ Intersect(metavariableRanges[i].range, metavariableRanges[j].range)

(* The overlap test is one-sided, yet it rejects no good configuration: a  *)
(* configuration refused for an overlap has two metavariables, neither of  *)
(* them name-only, that really share a location.                           *)
OverlapJustified ==
  rejectedFor = "overlap" =>
    \E i, j \in DOMAIN metavariableRanges : Overlap(metavariableRanges, i, j)

Answer == IF phase \in {"accepted", "rejected", "crashed"} THEN phase ELSE "pending"

Configuration ==
  IF phase # "accepted" THEN << >>
  ELSE [ transformTemplateSource |-> transformTemplateSource,
         overwriteSourceFiles    |-> overwriteSourceFiles,
         templateRange           |-> templateRange,
         metavariableRanges      |-> metavariableRanges ]

Gate ==
  INSTANCE ConfigurationGate WITH answer <- Answer, configuration <- Configuration

(* The constructor answers as it promises: with all that the file has in   *)
(* it, nothing lost in the sorting; never refusing a file that is as it    *)
(* should be, never accepting one that is not but for hidden overlaps.     *)
AnswersAsPromised == Gate!Spec

(* The constructor ends, with a configuration or with an exception.        *)
Terminates == <>(phase \in {"accepted", "rejected", "crashed"})

(* The comments in validateRangeConstraints: metavariable ranges do not    *)
(* overlap (unless one is name-only), and no range but the previous one    *)
(* has to be looked at to know it.                                         *)
AcceptedDisjoint ==
  phase = "accepted" =>
    \A i, j \in DOMAIN metavariableRanges : ~ Overlap(metavariableRanges, i, j)
=============================================================================
