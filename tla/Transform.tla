----------------------------- MODULE Transform -----------------------------
(***************************************************************************)
(* A run of the tool: transform with a configuration file, as main calls   *)
(* it, or with a matcher of clang's.  What it may do to the files on disk  *)
(* is what matters here.  The matching's last part is taken from its       *)
(* abstract specification, FileReports.                                    *)
(***************************************************************************)
EXTENDS Rewriting

VARIABLES
  phase,           \* where the run is
  done,            \* how far the phase's loop is
  asts,            \* the main files of the ASTs that are matched
  templateSourceParsed,
  results,         \* the files that are rewritten, with their matches
  replaced,        \* how many matches of the current one are replaced
  buffer,          \* the rewriter's text of it
  moved,           \* where its original characters, or what replaced them, are
  disk             \* the contents of the files that exist

rewriting == <<replaced, buffer, moved, disk>>

vars == <<input, phase, done, asts, templateSourceParsed, results, rewriting>>

Init ==
  /\ input \in Inputs
  /\ phase = "configure"
  /\ done = 0 /\ replaced = 0
  /\ asts = << >> /\ results = << >> /\ buffer = << >> /\ moved = << >>
  /\ templateSourceParsed = FALSE
  /\ disk = [f \in File |-> Original(f)]

-----------------------------------------------------------------------------
(* transform with a configuration file                                     *)

Configuring == phase = "configure" /\ input.byTemplate

(* Of any kind, also what main does not catch, an identifier that is no    *)
(* string: LHSConfiguration tells the two apart, the files on disk do not. *)
MalformedConfig ==
  /\ Configuring /\ ~ input.wellFormed
  /\ phase' = "failed"
  /\ UNCHANGED <<input, done, asts, templateSourceParsed, results, rewriting>>

(* Meant to be that one of the two is missing.                             *)
IsTemplateSourceMissing ==
  input.templateSource \in input.sources /\ input.templateSource \notin input.known

TemplateSourceMissing ==
  /\ Configuring /\ input.wellFormed /\ IsTemplateSourceMissing
  /\ phase' = "failed"
  /\ UNCHANGED <<input, done, asts, templateSourceParsed, results, rewriting>>

BuildASTs ==
  /\ Configuring /\ input.wellFormed /\ ~ IsTemplateSourceMissing
  /\ phase' = "collect"
  /\ UNCHANGED <<input, done, asts, templateSourceParsed, results, rewriting>>

Collecting == phase = "collect" /\ done < Len(input.units)

unit == input.units[done + 1]

CollectAST_Last ==
  /\ Collecting
  /\ templateSourceParsed' = (unit = input.templateSource)
  /\ asts' = IF Permitted(unit) THEN Append(asts, unit) ELSE asts
  /\ done' = done + 1
  /\ UNCHANGED <<input, phase, results, rewriting>>

CollectAST ==
  /\ Collecting
  /\ templateSourceParsed' = (templateSourceParsed \/ unit = input.templateSource)
  /\ asts' = IF Permitted(unit) THEN Append(asts, unit) ELSE asts
  /\ done' = done + 1
  /\ UNCHANGED <<input, phase, results, rewriting>>

(* Nor does a run go on if the template or a metavariable is not found:    *)
(* the parser throws.                                                      *)
ParseTemplate ==
  /\ phase = "collect" /\ done = Len(input.units)
  /\ phase' = IF templateSourceParsed /\ input.templateFound THEN "match"
              ELSE "failed"
  /\ done' = 0
  /\ UNCHANGED <<input, asts, templateSourceParsed, results, rewriting>>

MatchingCrashes ==
  /\ phase = "match" /\ input.matchingCrashes /\ done < Len(asts)
  /\ phase' = "crashed"
  /\ UNCHANGED <<input, done, asts, templateSourceParsed, results, rewriting>>

Matching ==
  INSTANCE FileReports WITH
    input <- [ asts  |-> asts, owner |-> input.owner,
               range |-> Ranges ],
    reported <- results

MatchAST ==
  /\ phase = "match" /\ ~ input.matchingCrashes
  /\ UNCHANGED <<input, phase, asts, templateSourceParsed, rewriting>>
  /\ Matching!PassOver \/ Matching!Report

Rewrite_OneOff ==
  /\ phase = "match" /\ done + 1 >= Len(asts)
  /\ phase' = "result"
  /\ done' = 0
  /\ UNCHANGED <<input, asts, templateSourceParsed, results, rewriting>>

Rewrite ==
  /\ phase = "match" /\ done = Len(asts)
  /\ phase' = "result"
  /\ done' = 0
  /\ UNCHANGED <<input, asts, templateSourceParsed, results, rewriting>>

-----------------------------------------------------------------------------
(* transform with a matcher                                                *)

ConsumeASTs ==
  /\ phase = "configure" /\ ~ input.byTemplate
  /\ phase' = "result"
  /\ UNCHANGED <<input, done, asts, templateSourceParsed, results, rewriting>>

AreConsumed == input.byTemplate \/ done = Len(input.units)

(* HandleTranslationUnit calls run for each match, and no match is         *)
(* eliminated.  The matches are those of the main file, as MatchFinder is  *)
(* assumed to report them: in the order in which they start, once each.    *)
(* Headers and instantiations of templates are left out, and so is a       *)
(* right-hand side that cannot be read: the run crashes before this then.  *)
ConsumeAST ==
  /\ phase = "result" /\ done = Len(results) /\ ~ AreConsumed
  /\ \E ms \in Choices(unit) :
       results' = Append(results, [ast |-> unit, matches |-> ms])
  /\ UNCHANGED <<input, phase, done, asts, templateSourceParsed, rewriting>>

-----------------------------------------------------------------------------
(* InternalCallback                                                        *)

file == results[done + 1].ast

matches == results[done + 1].matches

SetRewriter_KeepsMoved ==
  /\ phase = "result" /\ done < Len(results)
  /\ buffer' = Original(file)
  /\ moved' = [p \in 1 .. input.length[file] |->
                 IF p \in DOMAIN moved THEN moved[p] ELSE p]
  /\ replaced' = 0
  /\ phase' = "rewrite"
  /\ UNCHANGED <<input, done, asts, templateSourceParsed, results, disk>>

SetRewriter_GoesOn ==
  /\ phase = "result" /\ done < Len(results)
  /\ buffer' = Original(file)
  /\ moved' = [p \in 1 .. input.length[file] |-> p]
  /\ phase' = "rewrite"
  /\ UNCHANGED <<input, done, asts, templateSourceParsed, results, replaced, disk>>

SetRewriter ==
  /\ phase = "result" /\ done < Len(results)
  /\ buffer' = Original(file)
  /\ moved' = [p \in 1 .. input.length[file] |-> p]
  /\ replaced' = 0
  /\ phase' = "rewrite"
  /\ UNCHANGED <<input, done, asts, templateSourceParsed, results, disk>>

Replacing == phase = "rewrite" /\ replaced < Len(matches)

match == matches[replaced + 1]

InstantiateCrashes_AsFailure ==
  /\ Replacing /\ match \in input.crashing
  /\ phase' = "failed"
  /\ UNCHANGED <<input, done, asts, templateSourceParsed, results, rewriting>>

(* No root node, or a name-only metavariable that has no name.             *)
InstantiateCrashes ==
  /\ Replacing /\ match \in input.crashing
  /\ phase' = "crashed"
  /\ UNCHANGED <<input, done, asts, templateSourceParsed, results, rewriting>>

(* Where the text to be replaced is by now: from begin on, and as long as  *)
(* it is from there to where its last token ends.                          *)
begin == moved[From(match)]

size ==
  moved[Replaced(match).end] + (To(match) - Replaced(match).end) + 1 - begin

IsInBuffer == 1 <= begin /\ 0 <= size /\ begin + size <= Len(buffer) + 1

ReplaceMatch_Unmoved ==
  /\ Replacing /\ match \notin input.crashing /\ IsInBuffer
  /\ buffer' = SubSeq(buffer, 1, begin - 1) \o Instance(file, match)
                 \o SubSeq(buffer, begin + size, Len(buffer))
  /\ replaced' = replaced + 1
  /\ UNCHANGED <<input, phase, done, asts, templateSourceParsed, results, moved, disk>>

ReplaceMatch ==
  /\ Replacing /\ match \notin input.crashing /\ IsInBuffer
  /\ buffer' = SubSeq(buffer, 1, begin - 1) \o Instance(file, match)
                 \o SubSeq(buffer, begin + size, Len(buffer))
  /\ moved' = [p \in DOMAIN moved |->
                 IF p > From(match) THEN moved[p] + input.instance[match] - size
                 ELSE moved[p]]
  /\ replaced' = replaced + 1
  /\ UNCHANGED <<input, phase, done, asts, templateSourceParsed, results, disk>>

(* The rope of the buffer asserts that there is such text: overlapping     *)
(* matches may have removed it.                                            *)
ReplaceFails ==
  /\ Replacing /\ match \notin input.crashing /\ ~ IsInBuffer
  /\ phase' = "crashed"
  /\ UNCHANGED <<input, done, asts, templateSourceParsed, results, rewriting>>

WriteTo(n, text) == [k \in DOMAIN disk \cup {n} |-> IF k = n THEN text ELSE disk[k]]

(* The stream is assumed to open, and to take all that is written to it:   *)
(* there is no test for either.                                            *)
OpenOutput ==
  /\ phase = "rewrite" /\ replaced = Len(matches)
  /\ disk' = WriteTo(OutputName(file), << >>)
  /\ phase' = "write"
  /\ UNCHANGED <<input, done, asts, templateSourceParsed, results, replaced, buffer, moved>>

WriteBuffer_Again ==
  /\ phase = "write"
  /\ disk' = WriteTo(OutputName(file), buffer)
  /\ phase' = "result"
  /\ UNCHANGED <<input, done, asts, templateSourceParsed, results, replaced, buffer, moved>>

WriteBuffer ==
  /\ phase = "write"
  /\ disk' = WriteTo(OutputName(file), buffer)
  /\ done' = done + 1
  /\ phase' = "result"
  /\ UNCHANGED <<input, asts, templateSourceParsed, results, replaced, buffer, moved>>

Return ==
  /\ phase = "result" /\ done = Len(results) /\ AreConsumed
  /\ phase' = "done"
  /\ UNCHANGED <<input, done, asts, templateSourceParsed, results, rewriting>>

Finished == phase \in {"done", "failed", "crashed"} /\ UNCHANGED vars

Next ==
  \/ MalformedConfig \/ TemplateSourceMissing \/ BuildASTs \/ CollectAST \/ ParseTemplate
  \/ MatchAST \/ MatchingCrashes \/ Rewrite \/ ConsumeASTs \/ ConsumeAST
  \/ SetRewriter \/ InstantiateCrashes \/ ReplaceMatch \/ ReplaceFails
  \/ OpenOutput \/ WriteBuffer \/ Return \/ Finished

(* One thread, which waits for nothing.                                    *)
Spec == Init /\ [][Next]_vars /\ WF_vars(Next)

-----------------------------------------------------------------------------
(* Properties                                                              *)

(* Loops stay inside their lists, what is on disk is text, and the         *)
(* original positions keep a place in the buffer or before or behind it.   *)
TypeOK ==
  /\ phase \in {"configure", "collect", "match", "result", "rewrite", "write",
                "done", "failed", "crashed"}
  /\ done \in Nat /\ replaced \in Nat
  /\ asts \in Seq(File) /\ templateSourceParsed \in BOOLEAN
  /\ results \in Seq([ast : File, matches : Seq(Match)])
  /\ phase \in {"rewrite", "write"} =>
       /\ done < Len(results) /\ replaced <= Len(matches)
       /\ moved \in [1 .. input.length[file] -> Int]
  /\ buffer \in Seq(Character)
  /\ DOMAIN disk \subseteq Name
  /\ \A n \in DOMAIN disk : disk[n] \in Seq(Character)

BeingWritten == IF phase = "write" THEN {OutputName(file)} ELSE {}

State ==
  IF phase \in {"configure", "collect", "match"} THEN "preparing"
  ELSE IF phase \in {"result", "rewrite", "write"} THEN "writing"
  ELSE phase

(* A file that is being written is read as complete.                       *)
ToCome ==
  LET at == IF phase = "write" THEN done + 1 ELSE done
  IN  IF phase \in {"configure", "collect", "match", "failed"} THEN << >>
      ELSE IF input.byTemplate
           THEN [i \in 1 .. Len(results) - at |-> results[at + i].ast]
           ELSE SubSeq(input.units, at + 1, Len(input.units))

AsRead == IF phase = "write" THEN WriteTo(OutputName(file), buffer) ELSE disk

Made ==
  IF phase \in {"configure", "collect", "match", "failed"} \/ results = << >> THEN << >>
  ELSE SubSeq(results, 1, IF phase = "write" THEN done + 1 ELSE done)

Promise ==
  INSTANCE OutputFiles WITH
    state <- State, todo <- ToCome, made <- Made, disk <- AsRead

(* But for the time a file is being written, the run is one in which each  *)
(* output appears at once, with all of the matches that the run has chosen *)
(* replaced and nothing else, if these are apart, and with any text if     *)
(* not; and which fails if and only if something is wrong with what the    *)
(* user gave, before the first output: with several commands for the       *)
(* template's source too, and although the first test for it lets sources  *)
(* through that are in no list or unknown.                                 *)
WritesWholeOutputs == Promise!Spec

(* The results whose outputs are complete.                                 *)
Written ==
  IF phase \in {"configure", "collect", "match", "failed"} THEN {}
  ELSE {i \in DOMAIN results : i <= done}

(* The output of f is that of its last result, which is one that f may     *)
(* have.  Nothing is said of the text if matches of that result are not    *)
(* apart: rewriting them has no meaning.                                   *)
IsTransformed(f) ==
  \E i \in Written :
    /\ results[i].ast = f /\ \A k \in Written : results[k].ast = f => k <= i
    /\ results[i].matches \in Choices(f)
    /\ OutputName(f) \in DOMAIN disk
    /\ Apart(results[i].matches) =>
         IsRewritten(disk[OutputName(f)], f, results[i].matches)

(* At any time, a file on disk is what it was or the complete              *)
(* transformation of a source file by the matches last chosen for it, if   *)
(* those are apart, except for the one that is being written; what is no   *)
(* output yet is what it was, and all this whatever the run crashes of.    *)
WholeFiles ==
  \A n \in DOMAIN disk \ BeingWritten :
    \/ /\ n \in File /\ disk[n] = Original(n)
       /\ \A i \in Written : OutputName(results[i].ast) # n
    \/ \E f \in Units : OutputName(f) = n /\ IsTransformed(f)

(* After a complete run all sources with matches have been transformed,    *)
(* with several commands or several times in the list as well, each by the *)
(* matches last chosen for it if these are apart.                          *)
AllTransformed == phase = "done" => \A f \in Outputs : IsTransformed(f)

(* A run that ends for an error of the user's, or in the matching, has     *)
(* written nothing, although files are written one by one.                 *)
FailsBeforeWriting ==
  phase = "failed" \/ (phase = "crashed" /\ results = << >>) =>
    disk = [f \in File |-> Original(f)]

(* Only what the configuration allows is written: a source keeps its text  *)
(* if sources are not to be overwritten, and the template's source if it   *)
(* is not to be transformed, unless its name is that of another's output.  *)
KeptSources ==
  \A f \in File :
    /\ \/ ~ input.overwriteSourceFiles
       \/ /\ input.byTemplate /\ f = input.templateSource
          /\ ~ input.transformTemplateSource
       \/ f \notin Units
    /\ \A g \in Units \ {f} : OutputName(g) # f
    => disk[f] = Original(f)

(* No match meets two others, and none reaches the next one by what is     *)
(* replaced along with it.                                                 *)
Harmless(f) ==
  /\ \A m \in Of(f) : \A n, o \in Of(f) \ {m} :
       Intersect(RangeOf(m), RangeOf(n)) /\ Intersect(RangeOf(m), RangeOf(o)) => n = o
  /\ \A m, n \in Of(f) : LocLess(RangeOf(m).end, RangeOf(n).begin) => To(m) < From(n)

(* The elimination does not leave matches disjoint.  But it takes three    *)
(* that meet, or one that swallows the start of the next, for the rewriter *)
(* to be asked for text that is gone; with a matcher of clang's, where     *)
(* nothing is eliminated, two that are not apart.                          *)
RewriterHasText ==
  /\ phase = "crashed" /\ results # << >>
  /\ Apart(matches) \/ (input.byTemplate /\ Harmless(file))
  => match \in input.crashing

(* The run comes to an end.                                                *)
Terminates == <>(phase \in {"done", "failed", "crashed"})
=============================================================================
