------------------------- MODULE ConfigurationGate -------------------------
(***************************************************************************)
(* What the constructor of LHSConfiguration promises its caller: one       *)
(* answer, which is the configuration in the file or an exception.  A file *)
(* without overlaps whose ranges are nested is never refused; one that is  *)
(* not nested is never accepted, and one with overlaps only if there is a  *)
(* metavariable in between that hides them.                                *)
(***************************************************************************)
EXTENDS ConfigurationFile

VARIABLES
  file,             \* any, and always the same
  answer,           \* "pending", "accepted", "rejected" or "crashed"
  configuration     \* the fields of the object, << >> while there is none

Init ==
  /\ answer = "pending"
  /\ configuration = << >>

Usable == file.wellFormed /\ file.sourceExists /\ file.rhsExists

Read == [i \in DOMAIN file.metaVariables |-> ReadMetavar(file.metaVariables[i])]

range == ReadRange(file.templateRange)

Accept ==
  /\ answer = "pending" /\ Usable /\ file.named
  /\ answer' = "accepted"
  /\ \E list \in SortedLists(Read) :
       /\ Nested(list, range)
       /\ \A i, j \in DOMAIN list :
            Overlap(list, i, j) => \E k \in i .. j : Hidden(list[k])
       /\ configuration' =
            [ transformTemplateSource |-> Given(file.transform, TRUE),
              overwriteSourceFiles    |-> Given(file.overwrite, FALSE),
              templateRange           |-> range,
              metavariableRanges      |-> list ]
  /\ UNCHANGED file

Reject ==
  /\ answer = "pending"
  /\ Usable =>
       /\ file.named
       /\ \E list \in SortedLists(Read) :
            \/ ~ Nested(list, range)
            \/ \E i, j \in DOMAIN list : Overlap(list, i, j)
  /\ answer' = "rejected"
  /\ UNCHANGED <<file, configuration>>

(* An exception of the JSON library's, which no one catches.               *)
Crash ==
  /\ answer = "pending" /\ Usable /\ ~ file.named
  /\ answer' = "crashed"
  /\ UNCHANGED <<file, configuration>>

Next == Accept \/ Reject \/ Crash

Spec == Init /\ [][Next]_<<file, answer, configuration>>
=============================================================================
