---------------------------- MODULE OutputFiles ----------------------------
(***************************************************************************)
(* What a run promises of the files on disk: it begins to write only when  *)
(* nothing of the user's can be wrong any more, and each output appears at *)
(* once, complete, with the text that it is to have.                       *)
(***************************************************************************)
EXTENDS Rewriting

VARIABLES
  state,     \* "preparing", "writing", "done", "failed" or "crashed"
  todo,      \* the files whose outputs are still to come
  made,      \* the outputs there are, each with the matches that were chosen
  disk

Init ==
  /\ state = "preparing"
  /\ todo = << >> /\ made = << >>
  /\ disk = [f \in File |-> Original(f)]

Fail ==
  /\ state = "preparing" /\ ~ Prepared
  /\ state' = "failed"
  /\ UNCHANGED <<input, todo, made, disk>>

Begin ==
  /\ state = "preparing" /\ Prepared
  /\ state' = "writing"
  /\ todo' \in Seq(File)
  /\ {todo'[i] : i \in DOMAIN todo'} = Outputs
  /\ UNCHANGED <<input, made, disk>>

(* With matches of which one begins before another has ended, nothing is   *)
(* promised of the text.                                                   *)
Write ==
  /\ state = "writing" /\ todo # << >>
  /\ LET f == Head(todo)
     IN  /\ DOMAIN disk' = DOMAIN disk \cup {OutputName(f)}
         /\ \A n \in DOMAIN disk \ {OutputName(f)} : disk'[n] = disk[n]
         /\ \E ms \in Choices(f) :
              /\ made' = Append(made, [ast |-> f, matches |-> ms])
              /\ Apart(ms) => IsRewritten(disk'[OutputName(f)], f, ms)
  /\ todo' = Tail(todo)
  /\ UNCHANGED <<input, state>>

Crash ==
  /\ \/ state = "preparing" /\ input.matchingCrashes
     \/ state = "writing"
  /\ state' = "crashed"
  /\ UNCHANGED <<input, todo, made, disk>>

End ==
  /\ state = "writing" /\ todo = << >>
  /\ state' = "done"
  /\ UNCHANGED <<input, todo, made, disk>>

Next == Fail \/ Begin \/ Write \/ Crash \/ End

Spec == Init /\ [][Next]_<<input, state, todo, made, disk>>
=============================================================================
