-------------------------- MODULE TransformProofs --------------------------
(***************************************************************************)
(* What a run may do to the files on disk, for any number of files,        *)
(* commands and matches, with texts of any length.                         *)
(***************************************************************************)
EXTENDS Transform, TemplateRangeTheorems, FiniteSetTheorems, SequenceTheorems

Elements(s) == {s[i] : i \in DOMAIN s}

(* What the inputs are, one fact at a time.                                *)
LEMMA InputTypes ==
  ASSUME input \in Inputs
  PROVE  /\ input \in Input
         /\ input.units \in Seq(File) /\ input.templateSource \in File
         /\ input.owner \in [Match -> File] /\ input.instance \in [Match -> Nat]
         /\ input.nodes \in [Match -> Seq(Span)]
         /\ input.length \in [File -> Nat] /\ input.transformed \in [File -> Name]
<1>1. input \in Input
  BY InputsAssumption
<1> QED
  BY <1>1 DEF Input

LEMMA SpanTypes ==
  ASSUME NEW spans \in Seq(Span), spans # << >>, spans[1].begin <= spans[Len(spans)].end
  PROVE  LET range == RangeIncludingSemi(spans)
         IN  range.from \in Nat \ {0} /\ range.end \in Nat /\ range.to \in Nat
             /\ range.from <= range.end /\ range.end <= range.to
<1>1. spans[1] \in Span /\ spans[Len(spans)] \in Span
  BY Len(spans) >= 1
<1> QED
  BY <1>1 DEF Span, RangeIncludingSemi, NoSemi

LEMMA MatchTypes ==
  ASSUME input \in Inputs, NEW m \in Match
  PROVE  /\ From(m) \in Nat \ {0} /\ To(m) \in Nat /\ Replaced(m).end \in Nat
         /\ From(m) <= Replaced(m).end /\ Replaced(m).end <= To(m)
         /\ To(m) <= input.length[input.owner[m]]
<1>1. input.nodes[m] \in Seq(Span) /\ input.nodes[m] # << >>
      /\ input.nodes[m][1].begin <= input.nodes[m][Len(input.nodes[m])].end
  BY InputTypes, InputsAssumption
<1>2. To(m) <= input.length[input.owner[m]]
  BY InputsAssumption DEF To, Replaced
<1> QED
  BY <1>1, <1>2, SpanTypes DEF From, To, Replaced

LEMMA OutputNames ==
  ASSUME input \in Inputs, NEW f \in File
  PROVE  /\ OutputName(f) \in Name
         /\ \A g \in File : OutputName(g) = OutputName(f) => g = f
<1>1. \A g, h \in File : input.transformed[g] = input.transformed[h] => g = h
  BY InputsAssumption
<1> QED
  BY <1>1, InputTypes, InputsAssumption DEF OutputName

LEMMA TextTypes ==
  ASSUME input \in Inputs, NEW f \in File
  PROVE  /\ Original(f) \in Seq(Character) /\ Len(Original(f)) = input.length[f]
         /\ input.length[f] \in Nat
         /\ \A m \in Match : /\ Instance(f, m) \in Seq(Character)
                           /\ Len(Instance(f, m)) = input.instance[m]
                           /\ input.instance[m] \in Nat
<1>1. input.length[f] \in Nat /\ \A m \in Match : input.instance[m] \in Nat
  BY InputTypes
<1>2. \A p \in 1 .. input.length[f] : [file |-> f, of |-> Source, at |-> p] \in Character
  BY <1>1 DEF Character
<1>3. Original(f) \in [1 .. input.length[f] -> Character]
  BY <1>2 DEF Original
<1>4. ASSUME NEW m \in Match
      PROVE  Instance(f, m) \in [1 .. input.instance[m] -> Character]
  <2>1. \A p \in 1 .. input.instance[m] : [file |-> f, of |-> m, at |-> p] \in Character
    BY <1>1 DEF Character
  <2> QED
    BY <2>1 DEF Instance
<1> QED
  BY <1>1, <1>3, <1>4

(* The choices for a file are lists of its matches.                        *)
LEMMA OrdersType ==
  ASSUME NEW ms \in SUBSET Match, NEW r, NEW s \in Orders(ms, r)
  PROVE  s \in Seq(ms)
<1>1. Cardinality(ms) \in Nat
  BY InputsAssumption, FS_Subset, FS_CardinalityType
<1> QED
  BY <1>1 DEF Orders

LEMMA ReportsType ==
  ASSUME NEW ms \in SUBSET Match, NEW r, NEW k \in Reports(ms, r)
  PROVE  k \in Seq(ms)
<1>1. PICK s \in Orders(ms, r) :
        k \in {[i \in DOMAIN at |-> s[at[i]]] : at \in Listings(Staying(s, r), Len(s))}
  BY DEF Reports
<1>2. PICK at \in Listings(Staying(s, r), Len(s)) : k = [i \in DOMAIN at |-> s[at[i]]]
  BY <1>1
<1>3. s \in Seq(ms)
  BY OrdersType
<1>4. PICK n \in 0 .. Len(s) : at \in [1 .. n -> Staying(s, r)]
  BY <1>2 DEF Listings
<1>5. \A i \in 1 .. n : at[i] \in DOMAIN s
  BY <1>4 DEF Staying
<1> QED
  BY <1>2, <1>3, <1>4, <1>5

LEMMA ChoicesType ==
  ASSUME NEW f, NEW ms \in Choices(f)
  PROVE  ms \in Seq(Of(f)) /\ Of(f) \subseteq Match
<1>1. Of(f) \subseteq Match
  BY DEF Of
<1> QED
  BY <1>1, OrdersType, ReportsType DEF Choices

-----------------------------------------------------------------------------
(* The loops: what has been collected of the units, matched of the ASTs,   *)
(* and is to be rewritten.                                                 *)

Seen == {input.units[i] : i \in 1 .. done}

Asts == {results[i].ast : i \in DOMAIN results}

Collected ==
  /\ input.byTemplate /\ input.wellFormed /\ done <= Len(input.units)
  /\ results = << >>
  /\ templateSourceParsed <=> input.templateSource \in Seen
  /\ Elements(asts) = {f \in Seen : Permitted(f)}

Matched ==
  /\ input.byTemplate /\ Prepared /\ done <= Len(asts)
  /\ input.matchingCrashes => results = << >>
  /\ Elements(asts) = {f \in Units : Permitted(f)}
  /\ Asts = {f \in {asts[i] : i \in 1 .. done} : Of(f) # {}}

ToRewrite ==
  /\ Prepared /\ done <= Len(results)
  /\ input.byTemplate => Asts = Outputs
  /\ ~ input.byTemplate =>
       /\ Len(results) <= Len(input.units)
       /\ \A i \in DOMAIN results : results[i].ast = input.units[i]

Loops ==
  /\ phase = "configure" =>
       done = 0 /\ asts = << >> /\ results = << >> /\ ~ templateSourceParsed
  /\ phase = "collect" => Collected
  /\ phase = "match" => Matched
  /\ phase \in {"result", "rewrite", "write", "done"} => ToRewrite
  /\ phase = "done" => done = Len(results) /\ AreConsumed
  /\ phase = "failed" => results = << >> /\ ~ Prepared
  /\ phase = "crashed" => (Prepared /\ done <= Len(results)) \/ results = << >>

Chosen ==
  \A i \in DOMAIN results :
    results[i].ast \in Outputs /\ results[i].matches \in Choices(results[i].ast)

IInv == TypeOK /\ input \in Inputs /\ Loops /\ Chosen

LEMMA InitIInv == Init => IInv
<1> SUFFICES ASSUME Init PROVE IInv
  OBVIOUS
<1>1. TypeOK
  <2>1. DOMAIN disk \subseteq Name /\ \A n \in DOMAIN disk : disk[n] \in Seq(Character)
    <3>1. disk = [f \in File |-> Original(f)] /\ File \subseteq Name
      BY InputsAssumption DEF Init
    <3>2. \A f \in File : Original(f) \in Seq(Character)
      BY TextTypes DEF Init
    <3> QED
      BY <3>1, <3>2
  <2>2. templateSourceParsed \in BOOLEAN
    BY Zenon DEF Init
  <2> QED
    BY <2>1, <2>2 DEF Init, TypeOK
<1> QED
  BY <1>1 DEF Init, IInv, Loops, Chosen

(* Steps that change no more than the phase.                               *)
LEMMA FirstSteps ==
  ASSUME IInv, MalformedConfig \/ TemplateSourceMissing \/ BuildASTs \/ ConsumeASTs
  PROVE  IInv'
<1>1. UNCHANGED <<input, done, asts, templateSourceParsed, results, rewriting>>
      /\ phase = "configure" /\ phase' \in {"failed", "collect", "result"}
  BY DEF MalformedConfig, TemplateSourceMissing, BuildASTs, ConsumeASTs, Configuring
<1>2. TypeOK' /\ input' \in Inputs
  BY <1>1 DEF IInv, TypeOK, rewriting
<1>3. Chosen'
  BY <1>1 DEF IInv, Loops, Chosen
<1>4. Loops'
  <2>1. CASE MalformedConfig
    BY <2>1, <1>1 DEF MalformedConfig, Configuring, IInv, Loops, Prepared, Units
  <2>2. CASE TemplateSourceMissing
    <3>1. ~ Prepared
      BY <2>2, InputsAssumption, InputTypes DEF TemplateSourceMissing, Configuring, IsTemplateSourceMissing,
         IInv, Prepared, Units
    <3> QED
      BY <2>2, <3>1, <1>1 DEF TemplateSourceMissing, IInv, Loops, Prepared, Units
  <2>3. CASE BuildASTs
    <3>1. Len(input.units) \in Nat /\ Seen' = {} /\ Elements(asts') = {}
      BY <1>1, InputTypes DEF IInv, Loops, Seen, Elements
    <3>2. Collected'
      BY <1>1, <2>3, <3>1 DEF IInv, Loops, Collected, BuildASTs, Configuring, Permitted
    <3> QED
      BY <2>3, <3>2, <1>1 DEF BuildASTs, Loops
  <2>4. CASE ConsumeASTs
    <3>1. ToRewrite'
      BY <1>1, <2>4, InputTypes DEF IInv, Loops, ToRewrite, ConsumeASTs, Prepared
    <3> QED
      BY <2>4, <3>1, <1>1 DEF ConsumeASTs, Loops
  <2> QED
    BY <2>1, <2>2, <2>3, <2>4
<1> QED
  BY <1>2, <1>3, <1>4 DEF IInv

LEMMA CollectIInv == ASSUME IInv, CollectAST PROVE IInv'
<1>1. /\ phase = "collect" /\ phase' = "collect" /\ done < Len(input.units) /\ done' = done + 1
      /\ UNCHANGED <<input, results, rewriting>>
      /\ asts' = IF Permitted(unit) THEN Append(asts, unit) ELSE asts
  BY DEF CollectAST, Collecting
<1>2. templateSourceParsed' <=> (templateSourceParsed \/ unit = input.templateSource)
  BY Zenon DEF CollectAST
<1>3. templateSourceParsed' \in BOOLEAN
  BY Zenon DEF CollectAST
<1>4. input.units \in Seq(File) /\ done \in Nat /\ asts \in Seq(File) /\ Collected
  BY <1>1, InputTypes DEF IInv, TypeOK, Loops
<1>5. unit \in File /\ asts' \in Seq(File)
  BY <1>1, <1>4 DEF unit
<1>6. Seen' = Seen \cup {unit}
  BY <1>1, <1>4 DEF Seen, unit
<1>7. Elements(asts') = IF Permitted(unit) THEN Elements(asts) \cup {unit} ELSE Elements(asts)
  BY <1>1, <1>4, <1>5 DEF Elements
<1>8. Collected'
  <2>1. \A f : Permitted(f)' <=> Permitted(f)
    BY <1>1 DEF Permitted
  <2>2. Elements(asts)' = {f \in Seen' : Permitted(f)'}
    BY <1>4, <1>6, <1>7, <2>1 DEF Collected, Elements
  <2> QED
    BY <1>1, <1>2, <1>4, <1>6, <2>2 DEF Collected
<1>9. TypeOK'
  BY <1>1, <1>3, <1>4, <1>5 DEF IInv, TypeOK, rewriting
<1>10. Chosen'
  BY <1>1, <1>4 DEF Chosen, Collected
<1> QED
  BY <1>1, <1>8, <1>9, <1>10 DEF IInv, Loops

LEMMA ParseIInv == ASSUME IInv, ParseTemplate PROVE IInv'
<1>1. /\ phase = "collect" /\ done = Len(input.units) /\ done' = 0
      /\ UNCHANGED <<input, asts, templateSourceParsed, results, rewriting>>
      /\ phase' = IF templateSourceParsed /\ input.templateFound THEN "match" ELSE "failed"
  BY DEF ParseTemplate
<1>2. input.units \in Seq(File) /\ asts \in Seq(File) /\ Collected
  BY <1>1, InputTypes DEF IInv, TypeOK, Loops
<1>3. Seen = Units /\ results = << >>
  BY <1>1, <1>2 DEF Seen, Units, Collected
<1>4. TypeOK'
  BY <1>1 DEF IInv, TypeOK, rewriting
<1>5. Chosen'
  BY <1>1, <1>3 DEF Chosen
<1>6. (templateSourceParsed /\ input.templateFound) <=> Prepared
  BY <1>2, <1>3 DEF Collected, Prepared
<1>7. Units' = Units /\ Prepared' = Prepared /\ \A f : Permitted(f)' = Permitted(f) /\ Of(f)' = Of(f)
  BY <1>1 DEF Units, Prepared, Permitted, Of
<1>8. CASE templateSourceParsed /\ input.templateFound
  <2>1. Asts' = {} /\ {asts[i] : i \in 1 .. 0}' = {} /\ Elements(asts)' = Elements(asts)
    BY <1>1, <1>3 DEF Asts, Elements
  <2>2. {asts[i] : i \in 1 .. done}' = {}
    BY <1>1
  <2>3. Matched'
    BY <1>1, <1>2, <1>3, <1>6, <1>7, <1>8, <2>1, <2>2 DEF Matched, Collected
  <2> QED
    BY <1>1, <1>4, <1>5, <1>8, <2>3 DEF IInv, Loops
<1>9. CASE ~ (templateSourceParsed /\ input.templateFound)
  BY <1>1, <1>3, <1>4, <1>5, <1>6, <1>7, <1>9 DEF IInv, Loops
<1> QED
  BY <1>8, <1>9

LEMMA SameSets == \A s, t : Matching!Staying(s, t) = Staying(s, t)
  BY DEF Matching!Staying, Staying, OverlapsWith, Matching!OverlapsWith, LocGeq, Matching!LocGeq,
     LocLess, Matching!LocLess, LocLeq, Matching!LocLeq

LEMMA SameOrders == \A ms, r : Matching!Orders(ms, r) = Orders(ms, r)
<1>1. \A S : Matching!Cardinality(S) = Cardinality(S)
  BY DEF Cardinality, Matching!Cardinality
<1> QED
  BY <1>1 DEF Matching!Orders, Orders, LocLeq, Matching!LocLeq

LEMMA SameReports == \A ms, r : Matching!Reports(ms, r) = Reports(ms, r)
<1>1. \A p, n : Matching!Listings(p, n) = Listings(p, n)
  BY DEF Matching!Listings, Listings
<1> QED
  BY <1>1, SameSets, SameOrders DEF Matching!Reports, Reports

LEMMA MatchIInv == ASSUME IInv, MatchAST PROVE IInv'
<1>1. phase = "match" /\ ~ input.matchingCrashes
      /\ UNCHANGED <<input, phase, asts, templateSourceParsed, rewriting>>
  BY DEF MatchAST
<1>2. asts \in Seq(File) /\ done \in Nat /\ Matched
  BY <1>1 DEF IInv, TypeOK, Loops
<1> DEFINE ast == asts[done + 1]
<1>3. done < Len(asts) /\ done' = done + 1
  BY DEF MatchAST, Matching!PassOver, Matching!Report
<1>4. ast \in File /\ ast \in Units /\ Permitted(ast)
  BY <1>2, <1>3 DEF Matched, Elements
<1>5. Matching!Of(ast) = Of(ast) /\ Matching!next = ast
  <2>1. DOMAIN input.owner = Match
    BY InputTypes DEF IInv
  <2> QED
    BY <2>1 DEF Matching!Of, Of, Matching!next
<1>6. {asts[i] : i \in 1 .. done}' = {asts[i] : i \in 1 .. done} \cup {ast}
  BY <1>1, <1>2, <1>3
<1>7. Units' = Units /\ Prepared' = Prepared /\ Elements(asts)' = Elements(asts)
      /\ Ranges' = Ranges /\ (\A f : Permitted(f)' = Permitted(f) /\ Of(f)' = Of(f))
  BY <1>1 DEF Units, Prepared, Permitted, Of, Elements, Ranges, RangeOf
<1>8. Outputs' = Outputs /\ \A f : Choices(f)' = Choices(f)
  BY <1>1, <1>7 DEF Outputs, Choices
<1>9. CASE Matching!PassOver
  <2>1. results' = results /\ Of(ast) = {}
    BY <1>5, <1>9 DEF Matching!PassOver
  <2>2. Asts' = Asts
    BY <2>1 DEF Asts
  <2>3. Matched'
    BY <1>1, <1>2, <1>3, <1>6, <1>7, <2>1, <2>2 DEF Matched
  <2> QED
    BY <1>1, <1>2, <1>3, <1>8, <2>1, <2>3 DEF IInv, TypeOK, rewriting, Loops, Chosen
<1>10. CASE Matching!Report
  <2>1. PICK k \in Reports(Of(ast), Ranges) :
          results' = Append(results, [ast |-> ast, matches |-> k])
    BY <1>5, <1>10, SameReports DEF Matching!Report
  <2>2. Of(ast) # {} /\ ast \in Outputs /\ k \in Choices(ast)
    BY <1>2, <1>4, <1>5, <1>10, <2>1 DEF Matching!Report, Outputs, Choices, Matched
  <2>3. k \in Seq(Match)
    BY <2>2, ChoicesType
  <2>4. results \in Seq([ast : File, matches : Seq(Match)])
        /\ [ast |-> ast, matches |-> k] \in [ast : File, matches : Seq(Match)]
    BY <1>4, <2>3 DEF IInv, TypeOK
  <2>5. /\ Len(results') = Len(results) + 1
        /\ \A i \in 1 .. Len(results) : results'[i] = results[i]
        /\ results'[Len(results) + 1] = [ast |-> ast, matches |-> k]
    BY <2>1, <2>4
  <2>6. Asts' = Asts \cup {ast}
    <3>1. DOMAIN results' = DOMAIN results \cup {Len(results) + 1}
          /\ DOMAIN results = 1 .. Len(results) /\ Len(results) \in Nat
      BY <2>1, <2>4
    <3>2. \A i \in DOMAIN results : results'[i].ast = results[i].ast
      BY <2>5, <3>1
    <3>3. results'[Len(results) + 1].ast = ast
      BY <2>5
    <3> QED
      BY <3>1, <3>2, <3>3 DEF Asts
  <2>7. Matched'
    BY <1>1, <1>2, <1>3, <1>6, <1>7, <2>2, <2>6 DEF Matched
  <2>8. Chosen'
    BY <1>8, <2>1, <2>2, <2>4, <2>5 DEF IInv, Chosen
  <2>9. TypeOK'
    BY <1>1, <1>2, <1>3, <2>1, <2>4 DEF IInv, TypeOK, rewriting
  <2> QED
    BY <1>1, <2>7, <2>8, <2>9 DEF IInv, Loops
<1> QED
  BY <1>9, <1>10 DEF MatchAST

LEMMA RewriteIInv == ASSUME IInv, Rewrite PROVE IInv'
<1>1. phase = "match" /\ phase' = "result" /\ done = Len(asts) /\ done' = 0
      /\ UNCHANGED <<input, asts, templateSourceParsed, results, rewriting>>
  BY DEF Rewrite
<1>2. asts \in Seq(File) /\ Matched
  BY <1>1 DEF IInv, TypeOK, Loops
<1>3. Asts = Outputs
  BY <1>1, <1>2 DEF Matched, Outputs, Elements
<1>4. ToRewrite'
  <2>1. results \in Seq([ast : File, matches : Seq(Match)])
    BY DEF IInv, TypeOK
  <2>2. Prepared' = Prepared /\ Asts' = Asts /\ Outputs' = Outputs
    BY <1>1 DEF Prepared, Asts, Outputs, Units, Permitted, Of
  <2>3. 0 <= Len(results)
    BY <2>1
  <2> QED
    BY <1>1, <1>2, <1>3, <2>2, <2>3 DEF ToRewrite, Matched
<1>5. Chosen'
  BY <1>1 DEF IInv, Chosen, Outputs, Choices, Units, Permitted, Of, Ranges, RangeOf
<1> QED
  BY <1>1, <1>4, <1>5 DEF IInv, TypeOK, Loops, rewriting

LEMMA ConsumeIInv == ASSUME IInv, ConsumeAST PROVE IInv'
<1>1. phase = "result" /\ done = Len(results) /\ ~ input.byTemplate /\ done # Len(input.units)
      /\ UNCHANGED <<input, phase, done, asts, templateSourceParsed, rewriting>>
  BY DEF ConsumeAST, AreConsumed
<1>2. PICK k \in Choices(unit) : results' = Append(results, [ast |-> unit, matches |-> k])
  BY DEF ConsumeAST
<1>3. ToRewrite /\ input.units \in Seq(File)
  BY <1>1, InputTypes DEF IInv, Loops
<1>4. results \in Seq([ast : File, matches : Seq(Match)])
  BY DEF IInv, TypeOK
<1>5. Len(results) < Len(input.units) /\ Len(results) \in Nat /\ done = Len(results)
  BY <1>1, <1>3, <1>4 DEF ToRewrite
<1>6. unit \in File /\ unit \in Outputs /\ k \in Seq(Match)
  BY <1>1, <1>2, <1>3, <1>5, ChoicesType DEF unit, Outputs, Units
<1>7. [ast |-> unit, matches |-> k] \in [ast : File, matches : Seq(Match)]
  BY <1>6
<1>8. /\ results' \in Seq([ast : File, matches : Seq(Match)])
      /\ Len(results') = Len(results) + 1
      /\ \A i \in 1 .. Len(results) : results'[i] = results[i]
      /\ results'[Len(results) + 1] = [ast |-> unit, matches |-> k]
  BY <1>2, <1>4, <1>7
<1>9. ToRewrite'
  BY <1>1, <1>3, <1>5, <1>8 DEF ToRewrite, Prepared, Units, unit
<1>10. Outputs' = Outputs /\ \A f : Choices(f)' = Choices(f)
  BY <1>1 DEF Outputs, Choices, Units, Permitted, Of, Ranges, RangeOf
<1>11. Chosen'
  BY <1>2, <1>4, <1>6, <1>8, <1>10 DEF IInv, Chosen
<1> QED
  BY <1>1, <1>8, <1>9, <1>11 DEF IInv, TypeOK, Loops, rewriting

LEMMA SameToRewrite ==
  ASSUME ToRewrite, UNCHANGED <<input, results>>, done' <= Len(results)
  PROVE  ToRewrite'
<1>1. Prepared' = Prepared /\ Asts' = Asts /\ Outputs' = Outputs
  BY DEF Prepared, Asts, Outputs, Units, Permitted, Of
<1> QED
  BY <1>1 DEF ToRewrite

(* In the rewriting of a file, what is known of the file and its matches.  *)
LEMMA Current ==
  ASSUME IInv, phase \in {"result", "rewrite", "write"}, done < Len(results)
  PROVE  /\ file \in File /\ file \in Outputs /\ matches \in Choices(file)
         /\ matches \in Seq(Match)
         /\ \A i \in DOMAIN matches : matches[i] \in Match /\ input.owner[matches[i]] = file
<1>1. results \in Seq([ast : File, matches : Seq(Match)]) /\ done \in Nat
  BY DEF IInv, TypeOK
<1>2. results[done + 1] \in [ast : File, matches : Seq(Match)]
  <2> DEFINE R == [ast : File, matches : Seq(Match)]
  <2> HIDE DEF R
  <2>1. results \in Seq(R)
    BY <1>1 DEF R
  <2>2. results[done + 1] \in R
    BY <1>1, <2>1
  <2> QED
    BY <2>2 DEF R
<1>3. file \in Outputs /\ matches \in Choices(file)
  BY <1>1 DEF IInv, Chosen, file, matches
<1>4. matches \in Seq(Of(file))
  BY <1>3, ChoicesType
<1> QED
  BY <1>2, <1>3, <1>4 DEF file, matches, Of

LEMMA SetIInv == ASSUME IInv, SetRewriter PROVE IInv'
<1>1. phase = "result" /\ phase' = "rewrite" /\ done < Len(results) /\ replaced' = 0
      /\ UNCHANGED <<input, done, asts, templateSourceParsed, results, disk>>
      /\ buffer' = Original(file) /\ moved' = [p \in 1 .. input.length[file] |-> p]
  BY DEF SetRewriter
<1>2. file \in File /\ matches \in Seq(Match) /\ file' = file /\ matches' = matches
  BY <1>1, Current DEF file, matches
<1>3. buffer' \in Seq(Character) /\ moved' \in [1 .. input.length[file] -> Int]
  BY <1>1, <1>2, TextTypes DEF IInv
<1>4. TypeOK'
  BY <1>1, <1>2, <1>3 DEF IInv, TypeOK
<1>5. ToRewrite'
  BY <1>1, SameToRewrite DEF IInv, Loops, ToRewrite
<1>6. Chosen'
  BY <1>1 DEF IInv, Chosen, Outputs, Choices, Units, Permitted, Of, Ranges, RangeOf
<1> QED
  BY <1>1, <1>4, <1>5, <1>6 DEF IInv, Loops

LEMMA MatchAt ==
  ASSUME IInv, Replacing
  PROVE  /\ phase = "rewrite" /\ done < Len(results) /\ replaced \in Nat
         /\ file \in File /\ match \in Match /\ input.owner[match] = file
         /\ moved \in [1 .. input.length[file] -> Int] /\ buffer \in Seq(Character)
         /\ From(match) \in Nat \ {0} /\ To(match) \in Nat /\ Replaced(match).end \in Nat
         /\ From(match) <= Replaced(match).end /\ Replaced(match).end <= To(match)
         /\ To(match) <= input.length[file] /\ input.length[file] \in Nat
         /\ begin \in Int /\ size \in Int
<1>1. phase = "rewrite" /\ done < Len(results) /\ replaced \in Nat /\ replaced < Len(matches)
      /\ moved \in [1 .. input.length[file] -> Int] /\ buffer \in Seq(Character)
  BY DEF IInv, TypeOK, Replacing
<1>2. file \in File /\ matches \in Seq(Match) /\ match \in Match /\ input.owner[match] = file
  BY <1>1, Current DEF match
<1>3. /\ From(match) \in Nat \ {0} /\ To(match) \in Nat /\ Replaced(match).end \in Nat
      /\ From(match) <= Replaced(match).end /\ Replaced(match).end <= To(match)
      /\ To(match) <= input.length[file] /\ input.length[file] \in Nat
  BY <1>2, MatchTypes, TextTypes DEF IInv
<1>4. begin \in Int
  BY <1>1, <1>3 DEF begin
<1>5. moved[Replaced(match).end] \in Int
  BY <1>1, <1>3
<1>6. size \in Int
  BY <1>3, <1>4, <1>5 DEF size
<1> QED
  BY <1>1, <1>2, <1>3, <1>4, <1>6

LEMMA ReplaceIInv == ASSUME IInv, ReplaceMatch PROVE IInv'
<1>1. Replacing /\ IsInBuffer /\ phase' = "rewrite" /\ phase = "rewrite" /\ replaced' = replaced + 1
      /\ UNCHANGED <<input, done, asts, templateSourceParsed, results, disk>>
      /\ replaced < Len(matches)
  BY DEF ReplaceMatch, Replacing
<1>2. Instance(file, match) \in Seq(Character) /\ input.instance[match] \in Int
  BY <1>1, MatchAt, TextTypes DEF IInv
<1>3. buffer' \in Seq(Character)
  <2>1. 1 <= begin /\ begin - 1 <= Len(buffer) /\ begin + size >= 1
        /\ begin \in Int /\ size \in Int /\ buffer \in Seq(Character)
    BY <1>1, MatchAt DEF IsInBuffer
  <2>2. SubSeq(buffer, 1, begin - 1) \in Seq(Character)
    BY <2>1
  <2>3. SubSeq(buffer, begin + size, Len(buffer)) \in Seq(Character)
    BY <2>1
  <2> QED
    BY <1>2, <2>2, <2>3 DEF ReplaceMatch
<1>4. file' = file /\ matches' = matches
  BY <1>1 DEF file, matches
<1>5. moved' \in [1 .. input.length[file] -> Int]
  <2>1. size \in Int /\ moved \in [1 .. input.length[file] -> Int]
    BY <1>1, MatchAt
  <2>2. DOMAIN moved = 1 .. input.length[file]
    BY <2>1
  <2>3. \A p \in DOMAIN moved :
          moved[p] \in Int /\ moved[p] + input.instance[match] - size \in Int
    BY <1>2, <2>1
  <2> QED
    BY <2>2, <2>3 DEF ReplaceMatch
<1>6. matches \in Seq(Match)
  BY <1>1, MatchAt, Current
<1>7. TypeOK'
  BY <1>1, <1>3, <1>4, <1>5, <1>6, MatchAt DEF IInv, TypeOK
<1>8. ToRewrite'
  BY <1>1, SameToRewrite DEF IInv, Loops, ToRewrite
<1>9. Chosen'
  BY <1>1 DEF IInv, Chosen, Outputs, Choices, Units, Permitted, Of, Ranges, RangeOf
<1> QED
  BY <1>1, <1>7, <1>8, <1>9 DEF IInv, Loops

(* A crash leaves everything as it is.                                     *)
LEMMA CrashIInv ==
  ASSUME IInv, MatchingCrashes \/ InstantiateCrashes \/ ReplaceFails
  PROVE  IInv'
<1>1. /\ phase' = "crashed" /\ phase \in {"match", "rewrite"}
      /\ phase = "match" => input.matchingCrashes
      /\ UNCHANGED <<input, done, asts, templateSourceParsed, results, rewriting>>
  BY DEF MatchingCrashes, InstantiateCrashes, ReplaceFails, Replacing
<1>2. Prepared' = Prepared /\ (phase = "match" => Matched) /\ (phase = "rewrite" => ToRewrite)
  BY <1>1 DEF IInv, Loops, Prepared, Units
<1>3. Chosen'
  BY <1>1 DEF IInv, Chosen, Outputs, Choices, Units, Permitted, Of, Ranges, RangeOf
<1> QED
  BY <1>1, <1>2, <1>3 DEF IInv, TypeOK, Loops, rewriting, Matched, ToRewrite

LEMMA WrittenText ==
  ASSUME IInv, phase \in {"rewrite", "write"}, NEW text \in Seq(Character),
         disk' = WriteTo(OutputName(file), text)
  PROVE  /\ DOMAIN disk' \subseteq Name
         /\ \A n \in DOMAIN disk' : disk'[n] \in Seq(Character)
<1>1. OutputName(file) \in Name
  BY Current, OutputNames DEF IInv, TypeOK
<1> QED
  BY <1>1 DEF IInv, TypeOK, WriteTo

LEMMA WriteIInv == ASSUME IInv, OpenOutput \/ WriteBuffer PROVE IInv'
<1>1. /\ phase \in {"rewrite", "write"} /\ phase' \in {"write", "result"}
      /\ phase' = "write" => done' = done
      /\ phase' = "result" => done' = done + 1
      /\ UNCHANGED <<input, asts, templateSourceParsed, results, replaced, buffer, moved>>
  BY DEF OpenOutput, WriteBuffer
<1>2. DOMAIN disk' \subseteq Name /\ \A n \in DOMAIN disk' : disk'[n] \in Seq(Character)
  <2>1. << >> \in Seq(Character) /\ buffer \in Seq(Character)
    BY DEF IInv, TypeOK
  <2> QED
    BY <1>1, <2>1, WrittenText DEF OpenOutput, WriteBuffer
<1>3. done \in Nat /\ done < Len(results) /\ ToRewrite
  BY <1>1 DEF IInv, TypeOK, Loops
<1>4. TypeOK'
  BY <1>1, <1>2, <1>3 DEF IInv, TypeOK, file, matches
<1>5. ToRewrite'
  <2>1. results \in Seq([ast : File, matches : Seq(Match)])
    BY DEF IInv, TypeOK
  <2>2. done' <= Len(results)
    BY <1>1, <1>3, <2>1
  <2> QED
    BY <1>1, <1>3, <2>2, SameToRewrite
<1>6. Chosen'
  BY <1>1 DEF IInv, Chosen, Outputs, Choices, Units, Permitted, Of, Ranges, RangeOf
<1> QED
  BY <1>1, <1>4, <1>5, <1>6 DEF IInv, Loops

LEMMA ReturnIInv == ASSUME IInv, Return PROVE IInv'
<1>1. /\ phase = "result" /\ phase' = "done" /\ done = Len(results) /\ AreConsumed
      /\ UNCHANGED <<input, done, asts, templateSourceParsed, results, rewriting>>
  BY DEF Return
<1>2. ToRewrite' /\ AreConsumed'
  BY <1>1, SameToRewrite DEF IInv, Loops, ToRewrite, AreConsumed
<1>3. Chosen'
  BY <1>1 DEF IInv, Chosen, Outputs, Choices, Units, Permitted, Of, Ranges, RangeOf
<1> QED
  BY <1>1, <1>2, <1>3 DEF IInv, TypeOK, Loops, rewriting

LEMMA StutterIInv == ASSUME IInv, UNCHANGED vars PROVE IInv'
<1>1. UNCHANGED <<input, phase, done, asts, templateSourceParsed, results, replaced, buffer, moved, disk>>
  BY DEF vars, rewriting
<1>2. Prepared' = Prepared /\ Units' = Units /\ Outputs' = Outputs /\ Asts' = Asts /\ Seen' = Seen
      /\ AreConsumed' = AreConsumed /\ \A f : Choices(f)' = Choices(f) /\ Permitted(f)' = Permitted(f)
                                              /\ Of(f)' = Of(f)
  BY <1>1 DEF Prepared, Units, Outputs, Asts, Seen, AreConsumed, Choices, Permitted, Of, Ranges, RangeOf
<1>3. Loops'
  BY <1>1, <1>2 DEF IInv, Loops, Collected, Matched, ToRewrite, Elements
<1> QED
  BY <1>1, <1>2, <1>3 DEF IInv, TypeOK, Chosen, file, matches

LEMMA NextIInv == IInv /\ [Next]_vars => IInv'
<1> SUFFICES ASSUME IInv, [Next]_vars PROVE IInv'
  OBVIOUS
<1>1. CASE MalformedConfig \/ TemplateSourceMissing \/ BuildASTs \/ ConsumeASTs
  BY <1>1, FirstSteps
<1>2. CASE CollectAST \/ ParseTemplate \/ MatchAST \/ Rewrite
  BY <1>2, CollectIInv, ParseIInv, MatchIInv, RewriteIInv
<1>3. CASE MatchingCrashes \/ InstantiateCrashes \/ ReplaceFails
  BY <1>3, CrashIInv
<1>4. CASE ConsumeAST \/ SetRewriter \/ ReplaceMatch
  BY <1>4, ConsumeIInv, SetIInv, ReplaceIInv
<1>5. CASE OpenOutput \/ WriteBuffer \/ Return
  BY <1>5, WriteIInv, ReturnIInv
<1>6. CASE UNCHANGED vars
  BY <1>6, StutterIInv
<1> QED
  BY <1>1, <1>2, <1>3, <1>4, <1>5, <1>6 DEF Next, Finished

THEOREM Invariance == Spec => []IInv
<1> QED
  BY InitIInv, NextIInv, PTL DEF Spec

(* Every loop stays inside its list, and texts are texts, for any number   *)
(* of files and matches.                                                   *)
THEOREM TypeCorrect == Spec => []TypeOK
<1>1. IInv => TypeOK
  BY DEF IInv
<1> QED
  BY <1>1, Invariance, PTL

-----------------------------------------------------------------------------
(* The text of a file whose matches are apart.                             *)

(* A part of a text is replaced.                                           *)
Splice(text, first, n, part) ==
  SubSeq(text, 1, first - 1) \o part \o SubSeq(text, first + n, Len(text))

IsSpliced(S, new, text, part, b, d) ==
  /\ new \in Seq(S) /\ Len(new) = Len(text) + Len(part) - d
  /\ \A q \in 1 .. b : new[q] = text[q]
  /\ \A q \in 1 .. Len(part) : new[b + q] = part[q]
  /\ \A q \in b + Len(part) + 1 .. Len(new) : new[q] = text[q - Len(part) + d]

LEMMA Spliced ==
  ASSUME NEW S, NEW text \in Seq(S), NEW part \in Seq(S), NEW b \in Nat, NEW d \in Nat,
         b + d <= Len(text), NEW new, new = Splice(text, b + 1, d, part)
  PROVE  IsSpliced(S, new, text, part, b, d)
<1> DEFINE head == SubSeq(text, 1, b)
           tail == SubSeq(text, b + d + 1, Len(text))
<1>1. /\ head \in Seq(S) /\ Len(head) = b
      /\ \A q \in 1 .. b : head[q] = text[q]
  OBVIOUS
<1>2. /\ tail \in Seq(S) /\ Len(tail) = Len(text) - b - d
      /\ \A q \in 1 .. Len(text) - b - d : tail[q] = text[b + d + q]
  OBVIOUS
<1>3. new = head \o part \o tail
  <2>1. (b + 1) - 1 = b /\ (b + 1) + d = b + d + 1
    OBVIOUS
  <2> QED
    BY <2>1, Zenon DEF Splice
<1> HIDE DEF head, tail
<1>4. PICK l \in Nat, n \in Nat : l = Len(part) /\ n = Len(text)
  OBVIOUS
<1>5. PICK front \in Seq(S) : front = head \o part
  BY <1>1, ConcatProperties
<1>6. /\ new \in Seq(S) /\ Len(new) = n + l - d
      /\ \A q \in 1 .. b : new[q] = head[q]
      /\ \A q \in 1 .. l : new[b + q] = part[q]
      /\ \A q \in 1 .. n - b - d : new[b + l + q] = tail[q]
  <2>1. /\ Len(front) = b + l
        /\ \A q \in 1 .. b + l : front[q] = IF q <= b THEN head[q] ELSE part[q - b]
    BY <1>1, <1>4, <1>5, ConcatProperties
  <2>2. /\ new \in Seq(S) /\ Len(new) = n + l - d
        /\ \A q \in 1 .. n + l - d :
             new[q] = IF q <= b + l THEN front[q] ELSE tail[q - (b + l)]
    <3>1. new = front \o tail
      BY <1>3, <1>5, Zenon
    <3>2. Len(front) + Len(tail) = n + l - d
      BY <1>2, <1>4, <2>1
    <3>3. /\ front \o tail \in Seq(S) /\ Len(front \o tail) = Len(front) + Len(tail)
          /\ \A q \in 1 .. Len(front) + Len(tail) :
               (front \o tail)[q] = IF q <= Len(front) THEN front[q] ELSE tail[q - Len(front)]
      BY <1>2, ConcatProperties, Zenon
    <3> QED
      BY <2>1, <3>1, <3>2, <3>3
  <2>3. b <= n - d
    BY <1>4
  <2>4. \A q \in 1 .. b : new[q] = head[q]
    <3>1. \A q \in 1 .. b : q \in 1 .. b + l /\ q <= b + l /\ q <= b /\ q \in 1 .. n + l - d
      BY <1>4, <2>3
    <3> QED
      BY <2>1, <2>2, <3>1
  <2>5. ASSUME NEW q \in 1 .. l PROVE new[b + q] = part[q]
    <3>1. b + q \in 1 .. b + l /\ ~ b + q <= b /\ (b + q) - b = q /\ b + q <= b + l
          /\ b + q \in 1 .. n + l - d
      BY <1>4, <2>3
    <3> QED
      BY <2>1, <2>2, <3>1
  <2>6. ASSUME NEW q \in 1 .. n - b - d PROVE new[b + l + q] = tail[q]
    <3>1. b + l + q \in 1 .. n + l - d /\ ~ b + l + q <= b + l /\ (b + l + q) - (b + l) = q
      BY <1>4, <2>3
    <3> QED
      BY <2>2, <3>1
  <2> QED
    BY <2>2, <2>4, <2>5, <2>6
<1>7. ASSUME NEW q \in b + l + 1 .. n + l - d
      PROVE  new[q] = text[q - l + d]
  <2>1. q - (b + l) \in 1 .. n - b - d /\ b + l + (q - (b + l)) = q
        /\ b + d + (q - (b + l)) = q - l + d
    BY <1>4
  <2>2. new[b + l + (q - (b + l))] = tail[q - (b + l)]
    BY <1>6, <2>1
  <2>3. tail[q - (b + l)] = text[b + d + (q - (b + l))]
    BY <1>2, <1>4, <2>1
  <2> QED
    BY <2>1, <2>2, <2>3
<1>8. /\ \A q \in 1 .. b : new[q] = text[q]
      /\ \A q \in 1 .. Len(part) : new[b + q] = part[q]
  BY <1>1, <1>4, <1>6
<1>9. \A q \in b + Len(part) + 1 .. Len(new) : new[q] = text[q - Len(part) + d]
  BY <1>4, <1>6, <1>7, Zenon
<1> QED
  BY <1>4, <1>6, <1>8, <1>9 DEF IsSpliced

SourceChar(f, p) == [file |-> f, of |-> Source, at |-> p]

LEMMA OriginalCharacters ==
  ASSUME NEW f, input.length[f] \in Nat
  PROVE  /\ \A p \in 1 .. input.length[f] : Original(f)[p] = SourceChar(f, p)
         /\ CharactersOf(Original(f)) = {SourceChar(f, p) : p \in 1 .. input.length[f]}
         /\ \A p : SourceChar(f, p).of = Source /\ SourceChar(f, p).at = p
                  /\ Place(SourceChar(f, p)) = <<p, 0>>
  BY DEF Original, CharactersOf, SourceChar, Place

LEMMA InstanceCharacters ==
  ASSUME input \in Inputs, NEW f, NEW m \in Match
  PROVE  /\ \A p \in 1 .. input.instance[m] :
              /\ Instance(f, m)[p].of = m /\ Instance(f, m)[p].at = p
              /\ Place(Instance(f, m)[p]) = <<From(m), p>>
         /\ CharactersOf(Instance(f, m)) = {Instance(f, m)[p] : p \in 1 .. input.instance[m]}
         /\ \A c \in CharactersOf(Instance(f, m)) : c.of # Source
<1>1. Source # m /\ input.instance[m] \in Nat
  BY InputsAssumption, InputTypes
<1>2. DOMAIN Instance(f, m) = 1 .. input.instance[m]
  BY <1>1 DEF Instance
<1>3. ASSUME NEW p \in 1 .. input.instance[m]
      PROVE  /\ Instance(f, m)[p].of = m /\ Instance(f, m)[p].at = p
             /\ Place(Instance(f, m)[p]) = <<From(m), p>>
  <2>1. Instance(f, m)[p] = [file |-> f, of |-> m, at |-> p]
    BY <1>1 DEF Instance
  <2>2. Instance(f, m)[p].of = m /\ Instance(f, m)[p].at = p
    BY <2>1
  <2> QED
    BY <1>1, <2>2 DEF Place
<1>4. CharactersOf(Instance(f, m)) = {Instance(f, m)[p] : p \in 1 .. input.instance[m]}
  BY <1>2 DEF CharactersOf
<1>5. \A c \in CharactersOf(Instance(f, m)) : c.of # Source
  BY <1>1, <1>3, <1>4
<1> QED
  BY <1>3, <1>4, <1>5

(* What is expected after one more match.                                  *)
LEMMA ExpectedNext ==
  ASSUME input \in Inputs, NEW f \in File, NEW ms \in Seq(Match), NEW k \in Nat, k < Len(ms)
  PROVE  LET m == ms[k + 1]
         IN  Expected(f, SubSeq(ms, 1, k + 1)) =
               { c \in Expected(f, SubSeq(ms, 1, k)) :
                   c.of = Source => c.at < From(m) \/ To(m) < c.at }
                 \cup CharactersOf(Instance(f, m))
<1> DEFINE m == ms[k + 1]
           old == SubSeq(ms, 1, k)
           new == SubSeq(ms, 1, k + 1)
<1>1. /\ DOMAIN old = 1 .. k /\ DOMAIN new = 1 .. k + 1
      /\ \A i \in 1 .. k : old[i] = ms[i] /\ ms[i] \in Match
      /\ \A i \in 1 .. k + 1 : new[i] = ms[i]
      /\ m \in Match
  OBVIOUS
<1>2. 1 .. k + 1 = (1 .. k) \cup {k + 1}
  OBVIOUS
<1> HIDE DEF m, old, new
<1>3. \A p : InNone(p, new) <=> InNone(p, old) /\ (p < From(m) \/ To(m) < p)
  BY <1>1, <1>2 DEF InNone, m
<1>4. UNION {CharactersOf(Instance(f, new[i])) : i \in DOMAIN new}
        = (UNION {CharactersOf(Instance(f, old[i])) : i \in DOMAIN old})
            \cup CharactersOf(Instance(f, m))
  BY <1>1, <1>2 DEF m
<1>5. \A c \in UNION {CharactersOf(Instance(f, old[i])) : i \in DOMAIN old} : c.of # Source
  BY <1>1, InstanceCharacters
<1>6. \A c \in CharactersOf(Original(f)) : c.of = Source
  BY TextTypes, OriginalCharacters
<1> DEFINE kept == {c \in CharactersOf(Original(f)) : InNone(c.at, old)}
           put  == UNION {CharactersOf(Instance(f, old[i])) : i \in DOMAIN old}
<1>7. Expected(f, old) = kept \cup put
  BY DEF Expected
<1>8. Expected(f, new) =
        {c \in CharactersOf(Original(f)) : InNone(c.at, new)} \cup (put \cup CharactersOf(Instance(f, m)))
  BY <1>4 DEF Expected
<1>9. {c \in CharactersOf(Original(f)) : InNone(c.at, new)}
        = {c \in kept : c.of = Source => c.at < From(m) \/ To(m) < c.at}
  BY <1>3, <1>6
<1>10. put = {c \in put : c.of = Source => c.at < From(m) \/ To(m) < c.at}
  BY <1>5
<1> HIDE DEF kept, put
<1>11. Expected(f, new) =
         {c \in Expected(f, old) : c.of = Source => c.at < From(m) \/ To(m) < c.at}
           \cup CharactersOf(Instance(f, m))
  BY <1>7, <1>8, <1>9, <1>10
<1> QED
  BY <1>11 DEF m, old, new
(* From its first-th character on, the file's text is moved by shift.       *)
IsMoved(text, f, first, shift) ==
  /\ text \in Seq(Character) /\ Len(text) = input.length[f] + shift /\ 1 <= first + shift
  /\ \A p \in first .. input.length[f] : text[p + shift] = SourceChar(f, p)

(* The next match can be replaced, as those before it end before it.       *)
Ready(text, f, ms, k, shift) ==
  /\ ms \in Seq(Match) /\ k < Len(ms) /\ input.owner[ms[k + 1]] = f
  /\ IsRewritten(text, f, SubSeq(ms, 1, k))
  /\ IsMoved(text, f, From(ms[k + 1]), shift)

SizeOf(m) == To(m) - From(m) + 1

LEMMA ReplacedText ==
  ASSUME input \in Inputs, NEW f \in File, NEW ms, NEW k \in Nat, NEW text, NEW shift \in Int,
         Ready(text, f, ms, k, shift)
  PROVE  LET m   == ms[k + 1]
             new == Splice(text, From(m) + shift, SizeOf(m), Instance(f, m))
         IN  /\ IsRewritten(new, f, SubSeq(ms, 1, k + 1))
             /\ IsMoved(new, f, To(m) + 1, shift + input.instance[m] - SizeOf(m))
<1> DEFINE m == ms[k + 1]
<1>1. m \in Match /\ input.owner[m] = f
  BY DEF Ready
<1>2. PICK a \in Nat \ {0}, z \in Nat, l \in Nat, n \in Nat :
        a = From(m) /\ z = To(m) /\ l = input.length[f] /\ n = input.instance[m] /\ z <= l /\ a <= z
  BY <1>1, MatchTypes, TextTypes
<1> DEFINE new == Splice(text, From(m) + shift, SizeOf(m), Instance(f, m))
<1>3. /\ IsRewritten(text, f, SubSeq(ms, 1, k)) /\ text \in Seq(Character) /\ Len(text) = l + shift
      /\ \A p \in a .. l : text[p + shift] = SourceChar(f, p)
      /\ 1 <= a + shift
  BY <1>2 DEF Ready, IsMoved
<1> HIDE DEF m
<1>4. PICK b \in Nat, d \in Nat : b = a + shift - 1 /\ d = z - a + 1
  <2>1. 1 <= a + shift
    BY <1>3
  <2>2. a + shift - 1 \in Nat /\ z - a + 1 \in Nat
    BY <2>1, <1>2
  <2> QED
    BY <2>2
<1>5. b + d <= l + shift /\ b + 1 = a + shift /\ b + d = z + shift
  BY <1>2, <1>4
<1>6. SizeOf(m) = d /\ From(m) + shift = b + 1 /\ From(m) + shift + SizeOf(m) = b + d + 1
  BY <1>2, <1>4, <1>5 DEF SizeOf
<1>7. PICK part \in Seq(Character) :
        /\ part = Instance(f, m) /\ Len(part) = n
        /\ \A p \in 1 .. n : Place(part[p]) = <<a, p>>
        /\ CharactersOf(part) = {part[p] : p \in 1 .. n} /\ \A c \in CharactersOf(part) : c.of # Source
  BY <1>1, <1>2, TextTypes, InstanceCharacters
<1>8. new = Splice(text, b + 1, d, part)
  BY <1>6, <1>7
<1> HIDE DEF new
<1>9. /\ new \in Seq(Character) /\ Len(new) = l + shift + n - d
      /\ \A q \in 1 .. b : new[q] = text[q]
      /\ \A q \in 1 .. n : new[b + q] = part[q]
      /\ \A q \in b + n + 1 .. l + shift + n - d : new[q] = text[q - n + d]
  <2>1. b + d <= Len(text) /\ text \in Seq(Character)
    BY <1>3, <1>5
  <2>2. /\ new \in Seq(Character) /\ Len(new) = Len(text) + Len(part) - d
        /\ \A q \in 1 .. b : new[q] = text[q]
        /\ \A q \in 1 .. Len(part) : new[b + q] = part[q]
        /\ \A q \in b + Len(part) + 1 .. Len(new) : new[q] = text[q - Len(part) + d]
    <3>1. IsSpliced(Character, new, text, part, b, d)
      BY <1>8, <2>1, Spliced
    <3> QED
      BY <3>1 DEF IsSpliced
  <2> QED
    BY <1>3, <1>7, <2>2, Zenon
<1>10. PICK o \in Nat, e \in Nat :
         /\ o = l + shift /\ e = o + n - d /\ b + d <= o /\ b + n <= e
         /\ DOMAIN text = 1 .. o /\ DOMAIN new = 1 .. e
  <2>1. l + shift \in Nat /\ b + d <= l + shift
    BY <1>3, <1>5
  <2>2. l + shift + n - d \in Nat /\ b + n <= l + shift + n - d
    BY <2>1
  <2>3. DOMAIN text = 1 .. (l + shift) /\ DOMAIN new = 1 .. (l + shift + n - d)
    BY <1>3, <1>9
  <2> QED
    BY <2>1, <2>2, <2>3
<1>11. /\ \A p : Place(SourceChar(f, p)) = <<p, 0>> /\ SourceChar(f, p).of = Source
                 /\ SourceChar(f, p).at = p
  BY TextTypes, OriginalCharacters
<1> DEFINE Numbers ==
      /\ a <= z /\ z <= l /\ d = z - a + 1 /\ b = a + shift - 1
      /\ o = l + shift /\ e = o + n - d /\ b + d <= o /\ b + n <= e
<1>n. Numbers
  BY <1>2, <1>4, <1>10
(* Where the characters of the new text belong, in each of its parts.      *)
<1>12. ASSUME NEW q \in 1 .. o
       PROVE  /\ text[q].of \in Match \cup {Source} /\ text[q].at \in Nat
              /\ Place(text[q]) \in Nat \X Nat
              /\ text[q].of = Source => Place(text[q])[1] = text[q].at
  <2>1. text[q] \in Character
    BY <1>3, <1>10
  <2>2. text[q].of \in Match \cup {Source} /\ text[q].at \in Nat
    BY <2>1 DEF Character
  <2>3. text[q].of # Source => From(text[q].of) \in Nat
    BY <2>2, MatchTypes
  <2> QED
    BY <2>2, <2>3 DEF Place
<1>13. ASSUME NEW q \in 1 .. b PROVE q \in 1 .. o /\ Place(text[q])[1] < a
  <2>1. b + 1 \in 1 .. o /\ b + 1 = a + shift /\ a \in a .. l /\ q \in 1 .. o /\ q < b + 1
    BY <1>n
  <2>2. Place(text[b + 1]) = <<a, 0>>
    BY <1>3, <1>11, <2>1
  <2>3. LocLess(Place(text[q]), Place(text[b + 1]))
    BY <1>3, <1>10, <2>1 DEF IsRewritten
  <2>4. PICK x \in Nat, y \in Nat : Place(text[q]) = <<x, y>>
    BY <1>12, <2>1
  <2>5. LocLess(<<x, y>>, <<a, 0>>)
    BY <2>2, <2>3, <2>4
  <2>6. x < a
    BY <2>5 DEF LocLess, LocLeq
  <2> QED
    BY <2>1, <2>4, <2>6
<1>14. ASSUME NEW q \in b + 1 .. b + n
       PROVE  q - b \in 1 .. n /\ new[q] = part[q - b] /\ Place(new[q]) = <<a, q - b>>
  <2>1. q - b \in 1 .. n /\ b + (q - b) = q
    OBVIOUS
  <2>2. new[b + (q - b)] = part[q - b] /\ Place(part[q - b]) = <<a, q - b>>
    BY <1>7, <1>9, <2>1
  <2>3. new[q] = part[q - b]
    BY <2>1, <2>2
  <2> QED
    BY <2>1, <2>2, <2>3
<1>15. ASSUME NEW q \in b + n + 1 .. e
       PROVE  LET p == q - n + d - shift
              IN  /\ p \in z + 1 .. l /\ new[q] = SourceChar(f, p) /\ Place(new[q]) = <<p, 0>>
                  /\ q - n + d \in 1 .. o /\ new[q] = text[q - n + d] /\ p > a
  <2> DEFINE p == q - n + d - shift
  <2>1. p \in z + 1 .. l /\ p \in a .. l /\ p > a /\ p + shift = q - n + d /\ q - n + d \in 1 .. o
        /\ q \in b + n + 1 .. l + shift + n - d
    BY <1>n
  <2>2. new[q] = text[q - n + d] /\ text[p + shift] = SourceChar(f, p)
    BY <1>3, <1>9, <2>1
  <2> QED
    BY <1>11, <2>1, <2>2
<1>16. ASSUME NEW i \in 1 .. e, NEW j \in 1 .. e, i < j
       PROVE  LocLess(Place(new[i]), Place(new[j]))
  <2>1. CASE j <= b
    <3>1. i \in 1 .. b /\ j \in 1 .. b
      BY <1>16, <2>1
    <3> QED
      BY <1>3, <1>9, <1>10, <1>13, <1>16, <3>1 DEF IsRewritten
  <2>2. CASE i <= b /\ b < j
    <3>1. i \in 1 .. b
      BY <2>2
    <3>2. new[i] = text[i] /\ Place(text[i])[1] < a /\ Place(text[i])[1] \in Nat
      BY <1>9, <1>12, <1>13, <3>1
    <3>3. CASE j <= b + n
      <4>1. j \in b + 1 .. b + n
        BY <2>2, <3>3
      <4>2. Place(new[j])[1] = a
        BY <1>14, <4>1
      <4> QED
        BY <3>2, <4>2 DEF LocLess, LocLeq
    <3>4. CASE j > b + n
      <4>1. j \in b + n + 1 .. e
        BY <3>4
      <4>2. Place(new[j])[1] = j - n + d - shift /\ j - n + d - shift > a
        BY <1>15, <4>1
      <4> QED
        BY <3>2, <4>2 DEF LocLess, LocLeq
    <3> QED
      BY <3>3, <3>4
  <2>3. CASE b < i /\ i <= b + n
    <3>1. i \in b + 1 .. b + n
      BY <2>3
    <3>2. Place(new[i]) = <<a, i - b>>
      BY <1>14, <3>1
    <3>3. CASE j <= b + n
      <4>1. j \in b + 1 .. b + n /\ i - b < j - b
        BY <1>16, <2>3, <3>3
      <4>2. Place(new[j]) = <<a, j - b>>
        BY <1>14, <4>1
      <4> QED
        BY <3>2, <4>1, <4>2 DEF LocLess, LocLeq
    <3>4. CASE j > b + n
      <4>1. j \in b + n + 1 .. e
        BY <3>4
      <4>2. Place(new[j])[1] = j - n + d - shift /\ j - n + d - shift > a
        BY <1>15, <4>1
      <4> QED
        BY <3>2, <4>2 DEF LocLess, LocLeq
    <3> QED
      BY <3>3, <3>4
  <2>4. CASE b + n < i
    <3>1. i \in b + n + 1 .. e /\ j \in b + n + 1 .. e
          /\ i - n + d - shift < j - n + d - shift
      BY <1>16, <2>4
    <3>2. Place(new[i]) = <<i - n + d - shift, 0>> /\ Place(new[j]) = <<j - n + d - shift, 0>>
      BY <1>15, <3>1
    <3> QED
      BY <3>1, <3>2 DEF LocLess, LocLeq
  <2> QED
    BY <2>1, <2>2, <2>3, <2>4
<1> DEFINE kept == { c \in CharactersOf(text) : c.of = Source => c.at < a \/ z < c.at }
<1>17. Expected(f, SubSeq(ms, 1, k + 1)) = kept \cup CharactersOf(part)
  <2>1. CharactersOf(text) = Expected(f, SubSeq(ms, 1, k))
    BY <1>3 DEF IsRewritten
  <2>2. ms \in Seq(Match) /\ k < Len(ms)
    BY DEF Ready
  <2>3. Expected(f, SubSeq(ms, 1, k + 1)) =
          { c \in Expected(f, SubSeq(ms, 1, k)) :
              c.of = Source => c.at < From(m) \/ To(m) < c.at }
            \cup CharactersOf(Instance(f, m))
    BY <2>2, ExpectedNext DEF m
  <2> QED
    BY <1>2, <1>7, <2>1, <2>3
<1>18. ASSUME NEW q \in 1 .. e PROVE new[q] \in kept \cup CharactersOf(part)
  <2>1. CASE q <= b
    <3>1. q \in 1 .. b
      BY <2>1
    <3>2. q \in 1 .. o /\ new[q] = text[q] /\ (text[q].of = Source => text[q].at < a)
      BY <1>9, <1>12, <1>13, <3>1
    <3> QED
      BY <1>10, <3>2 DEF CharactersOf
  <2>2. CASE b < q /\ q <= b + n
    <3>1. q \in b + 1 .. b + n
      BY <2>2
    <3> QED
      BY <1>7, <1>14, <3>1
  <2>3. CASE b + n < q
    <3>1. q \in b + n + 1 .. e
      BY <2>3
    <3>2. q - n + d \in 1 .. o /\ new[q] = text[q - n + d] /\ q - n + d - shift > z
          /\ new[q] = SourceChar(f, q - n + d - shift)
      BY <1>15, <3>1
    <3>3. new[q].at > z
      BY <1>11, <3>2
    <3> QED
      BY <1>10, <3>2, <3>3 DEF CharactersOf
  <2> QED
    BY <2>1, <2>2, <2>3
<1>19. ASSUME NEW c \in kept \cup CharactersOf(part) PROVE \E q \in 1 .. e : c = new[q]
  <2>1. CASE c \in CharactersOf(part)
    <3>1. PICK r \in 1 .. n : c = part[r]
      BY <1>7, <2>1
    <3>2. b + r \in 1 .. e
      BY <1>10
    <3> QED
      BY <1>9, <3>1, <3>2
  <2>2. CASE c \in kept
    <3>1. PICK q \in 1 .. o : c = text[q]
      BY <1>10, <2>2 DEF CharactersOf
    <3>2. CASE q <= b
      <4>1. q \in 1 .. b /\ q \in 1 .. e
        BY <1>10, <3>2
      <4> QED
        BY <1>9, <3>1, <4>1
    <3>3. CASE b < q
      <4>1. q - shift \in a .. l /\ (q - shift) + shift = q
        BY <1>4, <1>10, <3>3
      <4>2. c.of = Source /\ c.at = q - shift
        BY <1>3, <1>11, <3>1, <4>1
      <4>3. q - shift > z
        BY <1>2, <2>2, <4>1, <4>2
      <4>4. q + n - d \in b + n + 1 .. l + shift + n - d /\ (q + n - d) - n + d = q /\ q + n - d \in 1 .. e
        BY <1>4, <1>5, <1>10, <4>3
      <4>5. new[q + n - d] = text[q]
        BY <1>9, <4>4
      <4> QED
        BY <3>1, <4>4, <4>5
    <3> QED
      BY <3>2, <3>3
  <2> QED
    BY <2>1, <2>2
<1>20. CharactersOf(new) = Expected(f, SubSeq(ms, 1, k + 1))
  <2>1. CharactersOf(new) = {new[q] : q \in 1 .. e}
    BY <1>10 DEF CharactersOf
  <2> HIDE DEF kept
  <2> QED
    BY <1>17, <1>18, <1>19, <2>1
<1>21. IsRewritten(new, f, SubSeq(ms, 1, k + 1))
  BY <1>10, <1>16, <1>20 DEF IsRewritten
<1>22. IsMoved(new, f, z + 1, shift + n - d)
  <2>1. ASSUME NEW p \in z + 1 .. l PROVE new[p + (shift + n - d)] = SourceChar(f, p)
    <3>1. /\ p + (shift + n - d) \in b + n + 1 .. e
          /\ (p + (shift + n - d)) - n + d - shift = p
      BY <1>4, <1>5, <1>10
    <3> QED
      BY <1>15, <3>1
  <2>2. Len(new) = l + (shift + n - d) /\ 1 <= (z + 1) + (shift + n - d)
    BY <1>9, <1>n
  <2> QED
    BY <1>2, <1>9, <2>1, <2>2 DEF IsMoved
<1> QED
  BY <1>2, <1>6, <1>21, <1>22 DEF m, new

-----------------------------------------------------------------------------
(* The buffer of the file that is rewritten, and the disk.                 *)

NextPosition == IF replaced = 0 THEN 1 ELSE To(matches[replaced]) + 1

Buffered ==
  phase \in {"rewrite", "write"} =>
    /\ phase = "write" => replaced = Len(matches)
    /\ Apart(matches) =>
         /\ IsRewritten(buffer, file, SubSeq(matches, 1, replaced))
         /\ \E shift \in Int :
              /\ IsMoved(buffer, file, NextPosition, shift)
              /\ \A p \in NextPosition .. input.length[file] : moved[p] = p + shift

NothingWritten == phase \in {"configure", "collect", "match"} \/ results = << >>

IsOutput(text, i) ==
  Apart(results[i].matches) => IsRewritten(text, results[i].ast, results[i].matches)

IsLast(j, n) ==
  /\ OutputName(results[j].ast) = n
  /\ \A k \in Written : OutputName(results[k].ast) = n => k <= j

Disk ==
  /\ NothingWritten => disk = [f \in File |-> Original(f)]
  /\ File \subseteq DOMAIN disk
  /\ \A n \in DOMAIN disk \ BeingWritten :
       (\A i \in Written : OutputName(results[i].ast) # n) => n \in File /\ disk[n] = Original(n)
  /\ \A i \in Written :
       OutputName(results[i].ast) \notin BeingWritten =>
         /\ OutputName(results[i].ast) \in DOMAIN disk
         /\ \E j \in Written :
              /\ IsLast(j, OutputName(results[i].ast))
              /\ IsOutput(disk[OutputName(results[i].ast)], j)

Stopped ==
  phase = "crashed" /\ results # << >> =>
    /\ done < Len(results) /\ replaced < Len(matches)
    /\ Apart(matches) => match \in input.crashing

(* Whatever the matches, where the next one is in the buffer.              *)
LEMMA NextInBuffer ==
  ASSUME IInv, Buffered, Replacing, Apart(matches)
  PROVE  /\ IsInBuffer /\ size = SizeOf(match)
         /\ \E shift \in Int :
              /\ begin = From(match) + shift /\ Ready(buffer, file, matches, replaced, shift)
              /\ \A p \in From(match) .. input.length[file] : moved[p] = p + shift
<1>1. PICK shift \in Int :
        /\ IsMoved(buffer, file, NextPosition, shift)
        /\ \A p \in NextPosition .. input.length[file] : moved[p] = p + shift
  BY DEF Buffered, Replacing
<1>2. IsRewritten(buffer, file, SubSeq(matches, 1, replaced))
  BY DEF Buffered, Replacing
<1>3. replaced \in Nat /\ replaced < Len(matches) /\ matches \in Seq(Match) /\ file \in File
      /\ \A i \in DOMAIN matches : matches[i] \in Match /\ input.owner[matches[i]] = file
  BY MatchAt, Current DEF Replacing
<1>4. NextPosition <= From(match) /\ NextPosition \in Nat
  <2>1. From(match) \in Nat \ {0}
    BY MatchAt
  <2>2. CASE replaced = 0
    BY <2>1, <2>2 DEF NextPosition
  <2>3. CASE replaced # 0
    <3>1. replaced \in DOMAIN matches /\ replaced + 1 \in DOMAIN matches /\ replaced < replaced + 1
      BY <1>3, <2>3
    <3>2. To(matches[replaced]) < From(match) /\ To(matches[replaced]) \in Nat
      BY <1>3, <3>1, MatchTypes DEF Apart, match, IInv
    <3> QED
      BY <2>1, <2>3, <3>2 DEF NextPosition
  <2> QED
    BY <2>2, <2>3
<1>5. PICK a \in Nat \ {0}, v \in Nat, z \in Nat, l \in Nat, h \in Nat :
        /\ a = From(match) /\ v = Replaced(match).end /\ z = To(match) /\ l = input.length[file]
        /\ h = NextPosition /\ a <= v /\ v <= z /\ z <= l /\ h <= a
  BY <1>4, MatchAt
<1>6. /\ buffer \in Seq(Character) /\ Len(buffer) = l + shift /\ 1 <= h + shift
      /\ \A p \in h .. l : buffer[p + shift] = SourceChar(file, p) /\ moved[p] = p + shift
  BY <1>1, <1>5 DEF IsMoved
<1>7. a \in h .. l /\ v \in h .. l /\ \A p \in a .. l : p \in h .. l
  BY <1>5
<1>8. begin = a + shift /\ moved[v] = v + shift
  BY <1>5, <1>6, <1>7 DEF begin
<1>9. size = z - a + 1
  <2>1. size = (v + shift) + (z - v) + 1 - (a + shift)
    BY <1>5, <1>8 DEF size
  <2> QED
    BY <2>1
<1>10. 1 <= a + shift /\ a + shift + (z - a + 1) <= l + shift + 1 /\ 0 <= z - a + 1
  <2>1. 1 <= h + shift
    BY <1>6
  <2> QED
    BY <1>5, <2>1
<1>11. IsInBuffer
  BY <1>6, <1>8, <1>9, <1>10 DEF IsInBuffer
<1>12. size = SizeOf(match)
  BY <1>5, <1>9 DEF SizeOf
<1>13. \A p \in a .. l : buffer[p + shift] = SourceChar(file, p) /\ moved[p] = p + shift
  BY <1>6, <1>7
<1>14. IsMoved(buffer, file, a, shift)
  BY <1>5, <1>6, <1>10, <1>13 DEF IsMoved
<1>15. input.owner[matches[replaced + 1]] = file
  BY MatchAt DEF match
<1>16. Ready(buffer, file, matches, replaced, shift)
  BY <1>2, <1>3, <1>5, <1>14, <1>15 DEF Ready, match
<1> QED
  BY <1>5, <1>8, <1>11, <1>12, <1>13, <1>16

(* The inputs do not change, nor does what is computed from them.          *)
LEMMA SameInput ==
  ASSUME input' = input
  PROVE  /\ \A m : From(m)' = From(m) /\ To(m)' = To(m)
         /\ \A f : OutputName(f)' = OutputName(f) /\ Original(f)' = Original(f)
         /\ \A ms : Apart(ms)' <=> Apart(ms)
         /\ \A t, f, ms : IsRewritten(t, f, ms)' <=> IsRewritten(t, f, ms)
         /\ \A t, f, p, k : IsMoved(t, f, p, k)' <=> IsMoved(t, f, p, k)
<1>1. \A m : From(m)' = From(m) /\ To(m)' = To(m)
  BY DEF From, To, Replaced
<1>2. \A f : OutputName(f)' = OutputName(f) /\ Original(f)' = Original(f)
             /\ \A m : Instance(f, m)' = Instance(f, m)
  BY DEF OutputName, Original, Instance
<1>3. \A c : Place(c)' = Place(c)
  BY <1>1 DEF Place
<1>4. \A p, ms : InNone(p, ms)' <=> InNone(p, ms)
  BY <1>1 DEF InNone
<1>5. \A f, ms : Expected(f, ms)' = Expected(f, ms)
  BY <1>2, <1>4 DEF Expected
<1> QED
  BY <1>1, <1>2, <1>3, <1>5 DEF Apart, IsRewritten, IsMoved

LEMMA SetBuffered == ASSUME IInv, SetRewriter PROVE Buffered'
<1>1. phase' = "rewrite" /\ replaced' = 0 /\ buffer' = Original(file) /\ input' = input
      /\ moved' = [p \in 1 .. input.length[file] |-> p] /\ file' = file /\ matches' = matches
      /\ phase = "result" /\ done < Len(results)
  BY DEF SetRewriter, file, matches
<1>2. file \in File /\ matches \in Seq(Match)
  BY <1>1, Current
<1>3. PICK l \in Nat : l = input.length[file] /\ Len(Original(file)) = l
  BY <1>2, TextTypes DEF IInv
<1>4. /\ Original(file) \in Seq(Character)
      /\ \A p \in 1 .. l : Original(file)[p] = SourceChar(file, p) /\ moved'[p] = p
      /\ \A p : Place(SourceChar(file, p)) = <<p, 0>>
  BY <1>1, <1>2, <1>3, TextTypes, OriginalCharacters DEF IInv
<1>5. SubSeq(matches, 1, 0) = << >>
  BY <1>2
<1>6. IsRewritten(Original(file), file, << >>)
  <2>1. DOMAIN Original(file) = 1 .. l
    BY <1>3 DEF Original
  <2>2. ASSUME NEW i \in 1 .. l, NEW j \in 1 .. l, i < j
        PROVE  LocLess(Place(Original(file)[i]), Place(Original(file)[j]))
    <3>1. Place(Original(file)[i]) = <<i, 0>> /\ Place(Original(file)[j]) = <<j, 0>>
      BY <1>4
    <3> QED
      BY <2>2, <3>1 DEF LocLess, LocLeq
  <2>3. CharactersOf(Original(file)) = Expected(file, << >>)
    BY DEF Expected, InNone
  <2> QED
    BY <2>1, <2>2, <2>3 DEF IsRewritten
<1>7. IsMoved(Original(file), file, 1, 0)
  BY <1>3, <1>4 DEF IsMoved
<1>8. IsRewritten(buffer, file, SubSeq(matches, 1, replaced))'
  BY <1>1, <1>5, <1>6, SameInput
<1>9. NextPosition' = 1
  BY <1>1 DEF NextPosition
<1>10. /\ IsMoved(buffer, file, NextPosition, 0)'
       /\ \A p \in 1 .. input'.length[file'] : moved'[p] = p + 0
  BY <1>1, <1>3, <1>4, <1>7, <1>9, SameInput
<1> QED
  BY <1>1, <1>8, <1>9, <1>10 DEF Buffered

LEMMA ReplaceBuffered == ASSUME IInv, Buffered, ReplaceMatch PROVE Buffered'
<1>1. /\ Replacing /\ phase' = "rewrite" /\ replaced' = replaced + 1 /\ input' = input
      /\ file' = file /\ matches' = matches
      /\ buffer' = Splice(buffer, begin, size, Instance(file, match))
      /\ moved' = [p \in DOMAIN moved |->
                     IF p > From(match) THEN moved[p] + input.instance[match] - size
                     ELSE moved[p]]
  BY DEF ReplaceMatch, Replacing, file, matches, Splice
<1> SUFFICES ASSUME Apart(matches)
             PROVE  /\ IsRewritten(buffer, file, SubSeq(matches, 1, replaced))'
                    /\ \E shift \in Int :
                         /\ IsMoved(buffer, file, NextPosition, shift)'
                         /\ \A p \in NextPosition' .. input'.length[file'] : moved'[p] = p + shift
  BY <1>1, SameInput DEF Buffered
<1>2. PICK shift \in Int :
        /\ begin = From(match) + shift /\ size = SizeOf(match)
        /\ Ready(buffer, file, matches, replaced, shift)
        /\ \A p \in From(match) .. input.length[file] : moved[p] = p + shift
  BY <1>1, NextInBuffer
<1>3. PICK a \in Nat \ {0}, z \in Nat, l \in Nat, n \in Nat, d \in Int :
        /\ a = From(match) /\ z = To(match) /\ l = input.length[file] /\ n = input.instance[match]
        /\ d = SizeOf(match) /\ a <= z /\ z <= l
  <2>1. From(match) <= To(match) /\ input.instance[match] \in Nat /\ SizeOf(match) \in Int
    BY <1>1, MatchAt, InputTypes DEF SizeOf, IInv
  <2> QED
    BY <1>1, <2>1, MatchAt
<1>4. replaced \in Nat /\ file \in File /\ match = matches[replaced + 1] /\ input \in Inputs
  BY <1>1, MatchAt DEF match, IInv
<1>5. /\ IsRewritten(buffer', file, SubSeq(matches, 1, replaced + 1))
      /\ IsMoved(buffer', file, z + 1, shift + n - d)
  BY <1>1, <1>2, <1>3, <1>4, ReplacedText
<1>6. NextPosition' = z + 1
  <2>1. replaced + 1 # 0
    BY <1>4
  <2>2. To(matches[replaced])' = To(matches[replaced + 1])
    BY <1>1 DEF To, Replaced
  <2> QED
    BY <1>1, <1>3, <1>4, <2>1, <2>2 DEF NextPosition
<1>7. ASSUME NEW p \in z + 1 .. l PROVE moved'[p] = p + (shift + n - d)
  <2>1. p \in a .. l /\ p > a /\ p \in 1 .. l
    BY <1>3
  <2>2. DOMAIN moved = 1 .. l
    BY <1>1, <1>3, MatchAt
  <2>3. moved[p] = p + shift
    BY <1>2, <1>3, <2>1
  <2>4. moved'[p] = moved[p] + n - d
    BY <1>1, <1>2, <1>3, <2>1, <2>2
  <2> QED
    BY <2>3, <2>4
<1>8. shift + n - d \in Int
  OBVIOUS
<1>9. IsRewritten(buffer, file, SubSeq(matches, 1, replaced))'
  BY <1>1, <1>5, SameInput
<1>10. IsMoved(buffer, file, NextPosition, shift + n - d)'
  BY <1>1, <1>5, <1>6, SameInput
<1> QED
  BY <1>1, <1>3, <1>6, <1>7, <1>8, <1>9, <1>10

(* Steps that leave the disk alone, and what has been written.             *)
LEMMA DiskKept ==
  ASSUME Disk, UNCHANGED <<input, disk>>, BeingWritten = {}, BeingWritten' = {},
         Written' = Written, \A i \in Written : results'[i] = results[i],
         NothingWritten' => NothingWritten
  PROVE  Disk'
<1>1. \A f : OutputName(f)' = OutputName(f) /\ Original(f)' = Original(f)
  BY SameInput
<1>2. \A i \in Written : OutputName(results[i].ast)' = OutputName(results[i].ast)
  BY DEF OutputName
<1>3. ASSUME NEW i \in Written, NEW t PROVE IsOutput(t, i)' <=> IsOutput(t, i)
  <2>1. PICK ms, f : ms = results[i].matches /\ f = results[i].ast
    OBVIOUS
  <2>2. results'[i].matches = ms /\ results'[i].ast = f
    BY <2>1
  <2>3. (Apart(ms)' <=> Apart(ms)) /\ (IsRewritten(t, f, ms)' <=> IsRewritten(t, f, ms))
    BY SameInput
  <2> QED
    BY <2>1, <2>2, <2>3 DEF IsOutput
<1>4. (NothingWritten => disk = [f \in File |-> Original(f)])'
  BY <1>1 DEF Disk
<1>5. \A n : \A j \in Written : IsLast(j, n)' <=> IsLast(j, n)
  BY <1>2 DEF IsLast
<1> QED
  BY <1>1, <1>2, <1>3, <1>4, <1>5 DEF Disk

LEMMA OpenDisk == ASSUME IInv, Disk, OpenOutput PROVE Disk'
<1>1. /\ phase = "rewrite" /\ phase' = "write" /\ disk' = WriteTo(OutputName(file), << >>)
      /\ UNCHANGED <<input, done, results>> /\ file' = file
  BY DEF OpenOutput, file
<1>2. BeingWritten = {} /\ BeingWritten' = {OutputName(file)} /\ Written' = Written
      /\ \A f : OutputName(f)' = OutputName(f) /\ Original(f)' = Original(f)
  BY <1>1, SameInput DEF BeingWritten, Written, OutputName
<1>3. done < Len(results) /\ results # << >> /\ ~ NothingWritten'
  BY <1>1 DEF IInv, TypeOK, NothingWritten
<1>4. DOMAIN disk' = DOMAIN disk \cup {OutputName(file)}
      /\ \A n \in DOMAIN disk \ {OutputName(file)} : disk'[n] = disk[n]
  BY <1>1 DEF WriteTo
<1>5. \A i \in Written : OutputName(results[i].ast)' = OutputName(results[i].ast)
  BY <1>1 DEF OutputName
<1>6. \A t, i : IsOutput(t, i)' <=> IsOutput(t, i)
  BY <1>1, SameInput DEF IsOutput
<1>7. /\ (File \subseteq DOMAIN disk)'
      /\ (\A n \in DOMAIN disk \ BeingWritten :
            (\A i \in Written : OutputName(results[i].ast) # n)
              => n \in File /\ disk[n] = Original(n))'
  BY <1>1, <1>2, <1>4, <1>5 DEF Disk
<1>8. (\A i \in Written :
         OutputName(results[i].ast) \notin BeingWritten =>
           /\ OutputName(results[i].ast) \in DOMAIN disk
           /\ \E j \in Written :
                /\ IsLast(j, OutputName(results[i].ast))
                /\ IsOutput(disk[OutputName(results[i].ast)], j))'
  <2>1. \A n : \A j \in Written : IsLast(j, n)' <=> IsLast(j, n)
    BY <1>2, <1>5 DEF IsLast
  <2> QED
    BY <1>1, <1>2, <1>4, <1>5, <1>6, <2>1 DEF Disk
<1> QED
  BY <1>3, <1>7, <1>8 DEF Disk

LEMMA WriteDisk == ASSUME IInv, Disk, Buffered, WriteBuffer PROVE Disk'
<1>1. /\ phase = "write" /\ phase' = "result" /\ disk' = WriteTo(OutputName(file), buffer)
      /\ UNCHANGED <<input, results>> /\ done' = done + 1
  BY DEF WriteBuffer
<1>2. results \in Seq([ast : File, matches : Seq(Match)]) /\ done \in Nat /\ done < Len(results)
      /\ results # << >>
  BY <1>1 DEF IInv, TypeOK
<1>3. /\ BeingWritten = {OutputName(file)} /\ BeingWritten' = {}
      /\ Written' = Written \cup {done + 1} /\ ~ NothingWritten'
      /\ file = results[done + 1].ast /\ matches = results[done + 1].matches
  BY <1>1, <1>2 DEF BeingWritten, Written, NothingWritten, file, matches
<1>4. /\ DOMAIN disk' = DOMAIN disk \cup {OutputName(file)} /\ disk'[OutputName(file)] = buffer
      /\ \A n \in DOMAIN disk \ {OutputName(file)} : disk'[n] = disk[n]
  BY <1>1 DEF WriteTo
<1>5. IsOutput(buffer, done + 1)
  <2>1. matches \in Seq(Match) /\ replaced = Len(matches)
    BY <1>1, <1>2, Current DEF Buffered
  <2>2. SubSeq(matches, 1, replaced) = matches
    BY <2>1
  <2> QED
    BY <1>1, <1>3, <2>2 DEF Buffered, IsOutput
<1>6. \A i : OutputName(results[i].ast)' = OutputName(results[i].ast)
  BY <1>1 DEF OutputName
<1>7. \A t, i : IsOutput(t, i)' <=> IsOutput(t, i)
  BY <1>1, SameInput DEF IsOutput
<1>8. /\ (File \subseteq DOMAIN disk)'
      /\ (\A n \in DOMAIN disk \ BeingWritten :
            (\A i \in Written : OutputName(results[i].ast) # n)
              => n \in File /\ disk[n] = Original(n))'
  <2>1. \A f : Original(f)' = Original(f)
    BY <1>1, SameInput
  <2> QED
    BY <1>3, <1>4, <1>6, <2>1 DEF Disk
<1>9. ASSUME NEW i \in Written'
      PROVE  /\ OutputName(results[i].ast) \in DOMAIN disk'
             /\ \E j \in Written' :
                  /\ IsLast(j, OutputName(results[i].ast))'
                  /\ IsOutput(disk'[OutputName(results[i].ast)], j)
  <2>1. CASE OutputName(results[i].ast) = OutputName(file)
    <3>1. \A k \in Written' : k <= done + 1
      BY <1>2, <1>3 DEF Written
    <3>2. PICK j, n : j = done + 1 /\ n = OutputName(file)
      OBVIOUS
    <3>3. IsLast(j, n)' /\ j \in Written'
      BY <1>3, <1>6, <3>1, <3>2 DEF IsLast
    <3>4. OutputName(results[i].ast)' = n
      BY <1>6, <2>1, <3>2
    <3>5. IsLast(j, OutputName(results[i].ast))'
      BY <3>3, <3>4
    <3> QED
      BY <1>4, <1>5, <2>1, <3>2, <3>3, <3>5
  <2>2. CASE OutputName(results[i].ast) # OutputName(file)
    <3>1. i \in Written
      BY <1>3, <2>2
    <3>2. PICK j \in Written :
            /\ IsLast(j, OutputName(results[i].ast))
            /\ IsOutput(disk[OutputName(results[i].ast)], j)
      BY <1>3, <2>2, <3>1 DEF Disk
    <3>3. IsLast(j, OutputName(results[i].ast))'
      BY <1>3, <1>6, <2>2, <3>2 DEF IsLast
    <3> QED
      BY <1>3, <1>4, <2>2, <3>1, <3>2, <3>3 DEF Disk
  <2> QED
    BY <2>1, <2>2
<1> QED
  BY <1>3, <1>6, <1>7, <1>8, <1>9 DEF Disk

(* The inductive invariant of the texts.                                   *)
Texts == IInv /\ Buffered /\ Disk /\ Stopped

LEMMA InitTexts == Init => Texts
<1> SUFFICES ASSUME Init PROVE Texts
  OBVIOUS
<1>1. Disk
  BY DEF Init, Disk, Written
<1> QED
  BY <1>1, InitIInv DEF Init, Texts, Buffered, Stopped

Early ==
  \/ MalformedConfig \/ TemplateSourceMissing \/ BuildASTs \/ ConsumeASTs \/ CollectAST
  \/ ParseTemplate \/ MatchAST \/ MatchingCrashes \/ Rewrite

LEMMA EarlyTexts == ASSUME Texts, Early, IInv' PROVE Texts'
<1>1. /\ phase \in {"configure", "collect", "match"}
      /\ phase' \in {"configure", "collect", "match", "failed", "crashed", "result"}
      /\ UNCHANGED <<input, disk>>
  BY DEF Early, MalformedConfig, TemplateSourceMissing, BuildASTs, ConsumeASTs, CollectAST,
     ParseTemplate, MatchAST, MatchingCrashes, Rewrite, Configuring, Collecting, rewriting
<1>2. phase' = "crashed" => results' = << >>
  BY DEF Early, MalformedConfig, TemplateSourceMissing, BuildASTs, ConsumeASTs, CollectAST,
     ParseTemplate, MatchAST, MatchingCrashes, Rewrite, Configuring, Collecting, Texts, IInv, Loops,
     Matched
<1>3. phase' = "result" => done' = 0
  BY DEF Early, MalformedConfig, TemplateSourceMissing, BuildASTs, ConsumeASTs, CollectAST,
     ParseTemplate, MatchAST, MatchingCrashes, Rewrite, Configuring, Collecting, Texts, IInv, Loops
<1>4. Written = {}
  BY <1>1 DEF Written
<1>5. Written' = {}
  <2>1. results' \in Seq([ast : File, matches : Seq(Match)])
    BY DEF IInv, TypeOK
  <2> QED
    BY <1>1, <1>2, <1>3, <2>1 DEF Written
<1>6. Disk'
  BY <1>1, <1>4, <1>5, DiskKept DEF Texts, BeingWritten, NothingWritten
<1> QED
  BY <1>1, <1>2, <1>6 DEF Texts, Buffered, Stopped

LEMMA ConsumeTexts == ASSUME Texts, ConsumeAST, IInv' PROVE Texts'
<1>1. /\ phase = "result" /\ done = Len(results) /\ UNCHANGED <<input, phase, done, disk>>
      /\ \E r : results' = Append(results, r)
  BY DEF ConsumeAST, rewriting
<1>2. results \in Seq([ast : File, matches : Seq(Match)])
      /\ results' \in Seq([ast : File, matches : Seq(Match)])
  BY DEF Texts, IInv, TypeOK
<1>3. Len(results') = Len(results) + 1 /\ \A i \in 1 .. Len(results) : results'[i] = results[i]
  BY <1>1, <1>2
<1>4. Written' = Written /\ Written = 1 .. Len(results)
  BY <1>1, <1>2, <1>3 DEF Written
<1>5. NothingWritten' => NothingWritten
  BY <1>1, <1>2, <1>3 DEF NothingWritten
<1>6. Disk'
  BY <1>1, <1>3, <1>4, <1>5, DiskKept DEF Texts, BeingWritten
<1> QED
  BY <1>1, <1>6 DEF Texts, Buffered, Stopped

LEMMA KeptTexts ==
  ASSUME Texts, SetRewriter \/ ReplaceMatch \/ Return, IInv'
  PROVE  Texts'
<1>1. /\ phase \in {"result", "rewrite"} /\ phase' \in {"result", "rewrite", "done"}
      /\ UNCHANGED <<input, done, results, disk>>
  BY DEF SetRewriter, ReplaceMatch, Return, Replacing, rewriting
<1>2. Disk'
  BY <1>1, DiskKept DEF Texts, BeingWritten, Written, NothingWritten
<1>3. Buffered'
  <2>1. CASE Return
    BY <2>1 DEF Return, Buffered
  <2> QED
    BY <2>1, SetBuffered, ReplaceBuffered DEF Texts
<1> QED
  BY <1>1, <1>2, <1>3 DEF Texts, Stopped

LEMMA CrashTexts == ASSUME Texts, InstantiateCrashes \/ ReplaceFails, IInv' PROVE Texts'
<1>1. /\ Replacing /\ phase = "rewrite" /\ phase' = "crashed"
      /\ UNCHANGED <<input, done, results, disk, replaced>>
  BY DEF InstantiateCrashes, ReplaceFails, Replacing, rewriting
<1>2. Disk'
  BY <1>1, DiskKept DEF Texts, BeingWritten, Written, NothingWritten
<1>3. Apart(matches) => match \in input.crashing
  BY <1>1, NextInBuffer DEF Texts, InstantiateCrashes, ReplaceFails
<1>4. done < Len(results) /\ replaced < Len(matches)
  BY <1>1, MatchAt DEF Texts, Replacing
<1>5. file' = file /\ matches' = matches /\ match' = match
  BY <1>1 DEF file, matches, match
<1>6. Stopped'
  BY <1>1, <1>3, <1>4, <1>5, SameInput DEF Stopped
<1> QED
  BY <1>1, <1>2, <1>6 DEF Texts, Buffered

LEMMA OutputTexts == ASSUME Texts, OpenOutput \/ WriteBuffer, IInv' PROVE Texts'
<1>1. Disk'
  BY OpenDisk, WriteDisk DEF Texts
<1>2. CASE OpenOutput
  <2>1. /\ phase = "rewrite" /\ phase' = "write" /\ replaced = Len(matches)
        /\ UNCHANGED <<input, done, results, replaced, buffer, moved>>
    BY <1>2 DEF OpenOutput
  <2>2. file' = file /\ matches' = matches /\ NextPosition' = NextPosition
    BY <2>1 DEF file, matches, NextPosition, To, Replaced
  <2>3. Apart(matches)' = Apart(matches)
        /\ IsRewritten(buffer, file, SubSeq(matches, 1, replaced))'
             = IsRewritten(buffer, file, SubSeq(matches, 1, replaced))
        /\ \A shift \in Int : IsMoved(buffer, file, NextPosition, shift)'
                              = IsMoved(buffer, file, NextPosition, shift)
    BY <2>1, <2>2 DEF Apart, IsRewritten, IsMoved, Expected, InNone, Place, From, To, Replaced,
       Original, Instance
  <2>4. Buffered'
    BY <2>1, <2>2, <2>3 DEF Buffered, Texts
  <2> QED
    BY <1>1, <2>1, <2>4 DEF Texts, Stopped
<1>3. CASE WriteBuffer
  BY <1>1, <1>3 DEF WriteBuffer, Texts, Stopped, Buffered
<1> QED
  BY <1>2, <1>3

LEMMA StutterTexts == ASSUME Texts, UNCHANGED vars, IInv' PROVE Texts'
<1>1. UNCHANGED <<input, phase, done, asts, templateSourceParsed, results, replaced, buffer, moved, disk>>
  BY DEF vars, rewriting
<1>2. /\ file' = file /\ matches' = matches /\ NextPosition' = NextPosition /\ match' = match
      /\ BeingWritten' = BeingWritten /\ Written' = Written /\ NothingWritten' = NothingWritten
      /\ \A f : OutputName(f)' = OutputName(f) /\ Original(f)' = Original(f)
  BY <1>1 DEF file, matches, match, NextPosition, To, Replaced, BeingWritten, Written,
     NothingWritten, OutputName, Original
<1>3. /\ Apart(matches)' = Apart(matches)
      /\ IsRewritten(buffer, file, SubSeq(matches, 1, replaced))'
           = IsRewritten(buffer, file, SubSeq(matches, 1, replaced))
      /\ \A shift \in Int : IsMoved(buffer, file, NextPosition, shift)'
                            = IsMoved(buffer, file, NextPosition, shift)
      /\ \A t, i : IsOutput(t, i)' = IsOutput(t, i)
  BY <1>1, <1>2 DEF Apart, IsRewritten, IsMoved, IsOutput, Expected, InNone, Place, From, To, Replaced,
     Original, Instance
<1>4. Buffered'
  BY <1>1, <1>2, <1>3 DEF Buffered, Texts
<1>5. Disk'
  BY <1>1, <1>2, <1>3 DEF Disk, IsLast, Texts
<1> QED
  BY <1>1, <1>2, <1>3, <1>4, <1>5 DEF Texts, Stopped

LEMMA NextTexts == Texts /\ [Next]_vars => Texts'
<1> SUFFICES ASSUME Texts, [Next]_vars PROVE Texts'
  OBVIOUS
<1>1. IInv'
  BY NextIInv DEF Texts
<1>2. CASE Early
  BY <1>1, <1>2, EarlyTexts
<1>3. CASE ConsumeAST \/ SetRewriter \/ ReplaceMatch \/ Return
  BY <1>1, <1>3, ConsumeTexts, KeptTexts
<1>4. CASE InstantiateCrashes \/ ReplaceFails \/ OpenOutput \/ WriteBuffer
  BY <1>1, <1>4, CrashTexts, OutputTexts
<1>5. CASE UNCHANGED vars
  BY <1>1, <1>5, StutterTexts
<1> QED
  BY <1>2, <1>3, <1>4, <1>5 DEF Next, Finished, Early

THEOREM TextsInvariant == Spec => []Texts
<1> QED
  BY InitTexts, NextTexts, PTL DEF Spec

-----------------------------------------------------------------------------
(* The theorems.                                                           *)

(* What is written under the name of a file has been made of its last      *)
(* result.                                                                 *)
LEMMA LastResult ==
  ASSUME Texts, NEW i \in Written, OutputName(results[i].ast) \notin BeingWritten
  PROVE  IsTransformed(results[i].ast)
<1> DEFINE f == results[i].ast
<1>1. PICK j \in Written : IsLast(j, OutputName(f)) /\ IsOutput(disk[OutputName(f)], j)
  BY DEF Texts, Disk
<1>2. i \in DOMAIN results /\ j \in DOMAIN results
  BY DEF Written
<1>3. /\ f \in File /\ results[j].ast \in File
      /\ results[j].matches \in Choices(results[j].ast)
  BY <1>2, InputTypes DEF Texts, IInv, Chosen, Outputs, Units
<1>4. results[j].ast = f
  BY <1>1, <1>3, OutputNames DEF IsLast, Texts, IInv
<1>5. OutputName(f) \in DOMAIN disk
  BY DEF Texts, Disk
<1> QED
  BY <1>1, <1>3, <1>4, <1>5 DEF IsTransformed, IsLast, IsOutput

(* At any time, whatever the run crashes of, a file is untouched or a      *)
(* complete transformation by the matches last chosen for it, for any      *)
(* texts and for any matches that are apart.                               *)
THEOREM WritesWholeFiles == Spec => []WholeFiles
<1>1. ASSUME Texts PROVE WholeFiles
  <2> SUFFICES ASSUME NEW n \in DOMAIN disk \ BeingWritten,
                      NEW i \in Written, OutputName(results[i].ast) = n
               PROVE  \E f \in Units : OutputName(f) = n /\ IsTransformed(f)
    BY <1>1 DEF WholeFiles, Texts, Disk
  <2>1. results[i].ast \in Units
    BY <1>1 DEF Written, Texts, IInv, Chosen, Outputs
  <2> QED
    BY <1>1, <2>1, LastResult
<1> QED
  BY <1>1, TextsInvariant, PTL

(* When a run is done, every source that is to be transformed is, if the   *)
(* matches last chosen for it are apart.                                   *)
THEOREM TransformsAll == Spec => []AllTransformed
<1>1. ASSUME Texts PROVE AllTransformed
  <2> SUFFICES ASSUME phase = "done", NEW f \in Outputs
               PROVE  IsTransformed(f)
    BY DEF AllTransformed
  <2>1. results \in Seq([ast : File, matches : Seq(Match)]) /\ input \in Inputs
    BY <1>1 DEF Texts, IInv, TypeOK
  <2>2. ToRewrite /\ done = Len(results) /\ AreConsumed
    BY <1>1 DEF Texts, IInv, Loops
  <2>3. Written = DOMAIN results /\ BeingWritten = {}
    BY <2>1, <2>2 DEF Written, BeingWritten
  <2>4. PICK i \in DOMAIN results : results[i].ast = f
    <3>1. CASE input.byTemplate
      BY <2>2, <3>1 DEF ToRewrite, Asts
    <3>2. CASE ~ input.byTemplate
      <4>1. PICK k \in DOMAIN input.units : input.units[k] = f
        BY DEF Outputs, Units
      <4>2. Len(results) = Len(input.units) /\ input.units \in Seq(File)
        BY <2>1, <2>2, <3>2, InputTypes DEF AreConsumed
      <4>3. k \in DOMAIN results
        BY <2>1, <4>1, <4>2
      <4> QED
        BY <2>2, <3>2, <4>1, <4>3 DEF ToRewrite
    <3> QED
      BY <3>1, <3>2
  <2> QED
    BY <1>1, <2>3, <2>4, LastResult
<1> QED
  BY <1>1, TextsInvariant, PTL

(* A run that fails, or crashes in the matching, has written nothing.      *)
THEOREM FailsFirst == Spec => []FailsBeforeWriting
<1>1. ASSUME Texts PROVE FailsBeforeWriting
  BY <1>1 DEF Texts, IInv, Loops, Disk, NothingWritten, FailsBeforeWriting
<1> QED
  BY <1>1, TextsInvariant, PTL

(* Sources that the configuration protects keep their text.                *)
THEOREM KeepsSources == Spec => []KeptSources
<1>1. ASSUME Texts PROVE KeptSources
  <2> SUFFICES ASSUME NEW f \in File,
                      \/ ~ input.overwriteSourceFiles
                      \/ /\ input.byTemplate /\ f = input.templateSource
                         /\ ~ input.transformTemplateSource
                      \/ f \notin Units,
                      \A g \in Units \ {f} : OutputName(g) # f
               PROVE  disk[f] = Original(f)
    BY DEF KeptSources
  <2>1. input \in Inputs
    BY <1>1 DEF Texts, IInv
  <2>2. \A g \in Outputs : OutputName(g) # f
    <3>1. f \in Outputs => OutputName(f) # f
      <4>1. input.transformed[f] # f
        BY <2>1, InputsAssumption
      <4> QED
        BY <4>1 DEF Outputs, Permitted, OutputName
    <3> QED
      BY <3>1 DEF Outputs
  <2>3. \A i \in Written : OutputName(results[i].ast) # f
    BY <1>1, <2>2 DEF Texts, IInv, Chosen, Written
  <2>4. f \notin BeingWritten
    <3>1. CASE phase = "write"
      <4>1. file \in Outputs
        BY <1>1, <3>1, Current DEF Texts, IInv, TypeOK
      <4> QED
        BY <2>2, <3>1, <4>1 DEF BeingWritten
    <3> QED
      BY <3>1 DEF BeingWritten
  <2> QED
    BY <1>1, <2>3, <2>4 DEF Texts, Disk
<1> QED
  BY <1>1, TextsInvariant, PTL

-----------------------------------------------------------------------------
(* Matches of which none meets two others are apart when the elimination   *)
(* is done with them: were the start of one that stays behind an earlier   *)
(* one's, the neighbour between them would meet that one too.              *)

LEMMA RangeColumns ==
  ASSUME input \in Inputs, NEW m \in Match
  PROVE  /\ RangeOf(m).begin = <<1, From(m)>> /\ From(m) \in Nat
         /\ \E e \in Nat : RangeOf(m).end = <<1, e>> /\ From(m) <= e
         /\ Ranges[m] = RangeOf(m)
<1>1. input.nodes[m] \in Seq(Span) /\ input.nodes[m] # << >>
      /\ input.nodes[m][1].begin <= input.nodes[m][Len(input.nodes[m])].end
  BY InputTypes, InputsAssumption
<1>2. PICK spans \in Seq(Span) :
        spans = input.nodes[m] /\ spans # << >> /\ spans[1].begin <= spans[Len(spans)].end
  BY <1>1
<1>3. spans[1] \in Span /\ spans[Len(spans)] \in Span
  BY <1>2, Len(spans) >= 1
<1>4. From(m) = spans[1].begin /\ From(m) \in Nat
  BY <1>2, <1>3 DEF From, Replaced, RangeIncludingSemi, Span
<1>5. spans[Len(spans)].end \in Nat /\ From(m) <= spans[Len(spans)].end
  BY <1>2, <1>3, <1>4 DEF Span
<1>6. RangeOf(m) = [begin |-> <<1, From(m)>>, end |-> <<1, spans[Len(spans)].end>>]
  BY <1>2, <1>4 DEF RangeOf, RangeFrom
<1> QED
  BY <1>4, <1>5, <1>6 DEF Ranges

(* Where a match begins and where, for the elimination, it ends.           *)
Column(m) == RangeOf(m).end[2]

LEMMA Columns ==
  ASSUME input \in Inputs
  PROVE  \A m, n \in Match :
           /\ Column(m) \in Nat /\ From(m) \in Nat /\ From(m) <= Column(m)
           /\ Intersect(RangeOf(m), RangeOf(n)) <=> From(m) <= Column(n) /\ From(n) <= Column(m)
           /\ LocLess(RangeOf(m).end, RangeOf(n).begin) <=> Column(m) < From(n)
           /\ LocLeq(Ranges[m].begin, Ranges[n].begin) <=> From(m) <= From(n)
           /\ OverlapsWith(Ranges[m], Ranges[n]) <=> From(n) <= Column(m)
<1> SUFFICES ASSUME NEW m \in Match, NEW n \in Match
             PROVE  /\ Column(m) \in Nat /\ From(m) \in Nat /\ From(m) <= Column(m)
                    /\ Intersect(RangeOf(m), RangeOf(n)) <=>
                         From(m) <= Column(n) /\ From(n) <= Column(m)
                    /\ LocLess(RangeOf(m).end, RangeOf(n).begin) <=> Column(m) < From(n)
                    /\ LocLeq(Ranges[m].begin, Ranges[n].begin) <=> From(m) <= From(n)
                    /\ OverlapsWith(Ranges[m], Ranges[n]) <=> From(n) <= Column(m)
  OBVIOUS
<1>1. PICK a \in Nat, b \in Nat : /\ a = From(m) /\ b = Column(m) /\ a <= b
                                 /\ RangeOf(m).begin = <<1, a>> /\ RangeOf(m).end = <<1, b>>
                                 /\ Ranges[m] = RangeOf(m)
  BY RangeColumns DEF Column
<1>2. PICK c \in Nat, d \in Nat : /\ c = From(n) /\ d = Column(n) /\ c <= d
                                 /\ RangeOf(n).begin = <<1, c>> /\ RangeOf(n).end = <<1, d>>
                                 /\ Ranges[n] = RangeOf(n)
  BY RangeColumns DEF Column
<1>3. \A x, y \in Nat : (LocLeq(<<1, x>>, <<1, y>>) <=> x <= y) /\ (LocLess(<<1, x>>, <<1, y>>) <=> x < y)
  BY DEF LocLeq, LocLess
<1>4. Intersect(RangeOf(m), RangeOf(n)) <=> a <= d /\ c <= b
  BY <1>1, <1>2, <1>3 DEF Intersect
<1>5. LocLess(RangeOf(m).end, RangeOf(n).begin) <=> b < c
  BY <1>1, <1>2, <1>3
<1>6. LocLeq(Ranges[m].begin, Ranges[n].begin) <=> a <= c
  BY <1>1, <1>2, <1>3
<1>7. OverlapsWith(Ranges[m], Ranges[n]) <=> c <= b
  BY <1>1, <1>2, <1>3 DEF OverlapsWith, LocGeq
<1> QED
  BY <1>1, <1>2, <1>4, <1>5, <1>6, <1>7

LEMMA HarmlessApart ==
  ASSUME input \in Inputs, input.byTemplate, NEW f, Harmless(f), NEW ms \in Choices(f)
  PROVE  Apart(ms)
<1>1. Of(f) \subseteq Match
  BY DEF Of
<1>2. PICK s \in Orders(Of(f), Ranges) :
        ms \in {[i \in DOMAIN at |-> s[at[i]]] : at \in Listings(Staying(s, Ranges), Len(s))}
  BY DEF Choices, Reports
<1>3. PICK at \in Listings(Staying(s, Ranges), Len(s)) : ms = [i \in DOMAIN at |-> s[at[i]]]
  BY <1>2
<1>4. s \in Seq(Of(f))
  BY <1>1, OrdersType
<1>5. \A i, j \in DOMAIN s :
        i < j => s[i] # s[j] /\ LocLeq(Ranges[s[i]].begin, Ranges[s[j]].begin)
  BY DEF Orders
<1>6. /\ \A i \in DOMAIN at : at[i] \in Staying(s, Ranges)
      /\ \A i, j \in DOMAIN at : i < j => at[i] < at[j]
  BY <1>3 DEF Listings
<1> SUFFICES ASSUME NEW i \in DOMAIN at, NEW j \in DOMAIN at, i < j
             PROVE  To(s[at[i]]) < From(s[at[j]])
  BY <1>3 DEF Apart
<1>7. PICK p \in DOMAIN s, q \in DOMAIN s : p = at[i] /\ q = at[j] /\ p < q /\ q \in Staying(s, Ranges)
  BY <1>6 DEF Staying
<1>8. PICK r \in DOMAIN s : r = q - 1 /\ p <= r /\ r < q
  <2>1. DOMAIN s = 1 .. Len(s) /\ Len(s) \in Nat
    BY <1>4
  <2>2. q - 1 \in DOMAIN s /\ p <= q - 1 /\ q - 1 < q
    BY <1>7, <2>1
  <2> QED
    BY <2>2
<1>9. ~ OverlapsWith(Ranges[s[r]], Ranges[s[q]])
  <2>1. DOMAIN s = 1 .. Len(s)
    BY <1>4
  <2> QED
    BY <1>7, <1>8, <2>1 DEF Staying
<1>10. s[p] \in Of(f) /\ s[q] \in Of(f) /\ s[r] \in Of(f)
       /\ s[p] \in Match /\ s[q] \in Match /\ s[r] \in Match
  BY <1>1, <1>4
<1>11. From(s[r]) <= From(s[q]) /\ From(s[p]) <= From(s[r]) /\ s[r] # s[q]
       /\ Column(s[r]) < From(s[q]) /\ (p # r => s[p] # s[r]) /\ s[p] # s[q]
  <2>1. From(s[r]) <= From(s[q]) /\ s[r] # s[q] /\ s[p] # s[q]
    BY <1>5, <1>7, <1>8, <1>10, Columns
  <2>2. p # r => s[p] # s[r] /\ From(s[p]) <= From(s[r])
    <3>1. p # r => p < r
      BY <1>4, <1>8
    <3> QED
      BY <1>5, <1>10, <3>1, Columns
  <2>3. Column(s[r]) < From(s[q])
    BY <1>9, <1>10, Columns
  <2>4. From(s[p]) <= From(s[p])
    BY <1>10, Columns
  <2> QED
    BY <2>1, <2>2, <2>3, <2>4
<1>12. Column(s[p]) < From(s[q])
  <2> SUFFICES ASSUME From(s[q]) <= Column(s[p]) PROVE FALSE
    BY <1>10, Columns
  <2>1. p # r
    BY <1>10, <1>11, Columns
  <2>2. Intersect(RangeOf(s[p]), RangeOf(s[q])) /\ Intersect(RangeOf(s[p]), RangeOf(s[r]))
    <3>1. /\ From(s[p]) <= Column(s[q]) /\ From(s[p]) <= Column(s[r])
          /\ From(s[r]) <= Column(s[p])
      <4>1. /\ From(s[p]) \in Nat /\ From(s[q]) \in Nat /\ From(s[r]) \in Nat
            /\ Column(s[p]) \in Nat /\ Column(s[q]) \in Nat /\ Column(s[r]) \in Nat
            /\ From(s[q]) <= Column(s[q]) /\ From(s[r]) <= Column(s[r])
        BY <1>10, Columns
      <4> QED
        BY <1>11, <4>1
    <3> QED
      BY <1>10, <3>1, Columns
  <2> QED
    BY <1>10, <1>11, <2>1, <2>2 DEF Harmless
<1> QED
  BY <1>7, <1>10, <1>12, Columns DEF Harmless

(* The rewriter is asked for text that is gone only if three matches meet, *)
(* or what is replaced along with one reaches the next; with a matcher of  *)
(* clang's, only if two matches are not apart.                             *)
THEOREM RewriterIsSafe == Spec => []RewriterHasText
<1>1. ASSUME Texts PROVE RewriterHasText
  <2> SUFFICES ASSUME phase = "crashed", results # << >>,
                      Apart(matches) \/ (input.byTemplate /\ Harmless(file))
               PROVE  match \in input.crashing
    BY DEF RewriterHasText
  <2>1. done < Len(results) /\ (Apart(matches) => match \in input.crashing)
    BY <1>1 DEF Texts, Stopped
  <2>2. done + 1 \in DOMAIN results
    <3>1. results \in Seq([ast : File, matches : Seq(Match)]) /\ done \in Nat
      BY <1>1 DEF Texts, IInv, TypeOK
    <3> QED
      BY <2>1, <3>1
  <2>3. matches \in Choices(file)
    BY <1>1, <2>2 DEF Texts, IInv, Chosen, file, matches
  <2>4. Apart(matches)
    BY <1>1, <2>3, HarmlessApart DEF Texts, IInv
  <2> QED
    BY <2>1, <2>4
<1> QED
  BY <1>1, TextsInvariant, PTL

-----------------------------------------------------------------------------
(* The run implements the promise of its outputs.                          *)

LEMMA SamePromise ==
  /\ Promise!Prepared <=> Prepared
  /\ Promise!Outputs = Outputs
  /\ \A f : Promise!OutputName(f) = OutputName(f) /\ Promise!Original(f) = Original(f)
            /\ Promise!Choices(f) = Choices(f)
  /\ \A ms : Promise!Apart(ms) <=> Apart(ms)
  /\ \A t, f, ms : Promise!IsRewritten(t, f, ms) <=> IsRewritten(t, f, ms)
<1>1. /\ Promise!Units = Units
      /\ \A f : Promise!Permitted(f) = Permitted(f) /\ Promise!Of(f) = Of(f)
      /\ \A spans : Promise!RangeIncludingSemi(spans) = RangeIncludingSemi(spans)
  BY DEF Promise!Units, Units, Promise!Permitted, Permitted, Promise!Of, Of,
     Promise!RangeIncludingSemi, RangeIncludingSemi, Promise!NoSemi, NoSemi
<1>2. \A m : Promise!From(m) = From(m) /\ Promise!To(m) = To(m)
  BY <1>1 DEF Promise!From, From, Promise!To, To, Promise!Replaced, Replaced
<1>3. Promise!Ranges = Ranges
  BY DEF Promise!Ranges, Ranges, Promise!RangeOf, RangeOf, Promise!RangeFrom, RangeFrom
<1>4. \A ms, r : Promise!Orders(ms, r) = Orders(ms, r)
  <2>1. \A S : Promise!Cardinality(S) = Cardinality(S)
    BY DEF Cardinality, Promise!Cardinality
  <2> QED
    BY <2>1 DEF Promise!Orders, Orders, LocLeq, Promise!LocLeq
<1>5. \A ms, r : Promise!Reports(ms, r) = Reports(ms, r)
  <2>1. \A s, r : Promise!Staying(s, r) = Staying(s, r)
    BY DEF Promise!Staying, Staying, OverlapsWith, Promise!OverlapsWith, LocGeq, Promise!LocGeq,
       LocLess, Promise!LocLess, LocLeq, Promise!LocLeq
  <2>2. \A p, n : Promise!Listings(p, n) = Listings(p, n)
    BY DEF Promise!Listings, Listings
  <2> QED
    BY <1>4, <2>1, <2>2 DEF Promise!Reports, Reports
<1>6. \A f : Promise!Choices(f) = Choices(f)
  BY <1>1, <1>3, <1>4, <1>5 DEF Promise!Choices, Choices
<1>7. \A f : Promise!OutputName(f) = OutputName(f) /\ Promise!Original(f) = Original(f)
             /\ \A m : Promise!Instance(f, m) = Instance(f, m)
  BY DEF Promise!OutputName, OutputName, Promise!Original, Original, Promise!Instance, Instance
<1>8. \A t : Promise!CharactersOf(t) = CharactersOf(t)
  BY DEF Promise!CharactersOf, CharactersOf
<1>9. \A f, ms : Promise!Expected(f, ms) = Expected(f, ms)
  BY <1>2, <1>7, <1>8 DEF Promise!Expected, Expected, Promise!InNone, InNone
<1>10. \A c : Promise!Place(c) = Place(c)
  BY <1>2 DEF Promise!Place, Place
<1>11. \A a, b : Promise!LocLess(a, b) <=> LocLess(a, b)
  BY DEF LocLess, Promise!LocLess, LocLeq, Promise!LocLeq
<1>12. \A t, f, ms : Promise!IsRewritten(t, f, ms) <=> IsRewritten(t, f, ms)
  BY <1>8, <1>9, <1>10, <1>11 DEF Promise!IsRewritten, IsRewritten
<1>13. \A ms : Promise!Apart(ms) <=> Apart(ms)
  BY <1>2 DEF Promise!Apart, Apart
<1>14. (Promise!Prepared <=> Prepared) /\ Promise!Outputs = Outputs
  BY <1>1 DEF Promise!Prepared, Prepared, Promise!Outputs, Outputs
<1> QED
  BY <1>6, <1>7, <1>12, <1>13, <1>14

LEMMA InitPromise == Init => Promise!Init
<1> SUFFICES ASSUME Init PROVE Promise!Init
  OBVIOUS
<1>1. State = "preparing" /\ ToCome = << >> /\ AsRead = [f \in File |-> Original(f)]
      /\ Made = << >>
  BY DEF Init, State, ToCome, AsRead, Made
<1> QED
  BY <1>1, SamePromise DEF Promise!Init

(* What is still to come, while files are rewritten.                       *)
LEMMA Coming ==
  ASSUME IInv, phase \in {"result", "rewrite"}
  PROVE  /\ ToCome \in Seq(File)
         /\ input.byTemplate =>
              ToCome = [i \in 1 .. Len(results) - done |-> results[done + i].ast]
         /\ ~ input.byTemplate => ToCome = SubSeq(input.units, done + 1, Len(input.units))
<1>1. results \in Seq([ast : File, matches : Seq(Match)]) /\ done \in Nat /\ input.units \in Seq(File)
      /\ done <= Len(results) /\ input \in Inputs
  BY InputTypes DEF IInv, TypeOK, Loops, ToRewrite
<1>2. ToCome = IF input.byTemplate
               THEN [i \in 1 .. Len(results) - done |-> results[done + i].ast]
               ELSE SubSeq(input.units, done + 1, Len(input.units))
  BY DEF ToCome
<1>3. CASE input.byTemplate
  <2>1. \A i \in DOMAIN results : results[i].ast \in File
    BY <1>1, InputTypes DEF IInv, Chosen, Outputs, Units
  <2>2. \A i \in 1 .. Len(results) - done : done + i \in DOMAIN results
    BY <1>1
  <2>3. [i \in 1 .. Len(results) - done |-> results[done + i].ast]
          \in [1 .. Len(results) - done -> File]
    BY <2>1, <2>2
  <2>4. Len(results) - done \in Nat
    BY <1>1
  <2>5. [i \in 1 .. Len(results) - done |-> results[done + i].ast] \in Seq(File)
    BY <2>3, <2>4
  <2> QED
    BY <1>2, <1>3, <2>5
<1>4. CASE ~ input.byTemplate
  <2>1. SubSeq(input.units, done + 1, Len(input.units)) \in Seq(File)
    BY <1>1
  <2> QED
    BY <1>2, <1>4, <2>1
<1> QED
  BY <1>3, <1>4

(* The outputs that are there are those of the first results.              *)
LEMMA MadeSoFar ==
  ASSUME IInv, phase \in {"result", "rewrite", "done"} \/ (phase = "crashed" /\ results # << >>),
         done <= Len(results)
  PROVE  Made = SubSeq(results, 1, done)
<1>1. results \in Seq([ast : File, matches : Seq(Match)]) /\ done \in Nat
  BY DEF IInv, TypeOK
<1>2. results = << >> => done = 0
  BY <1>1
<1>3. SubSeq(results, 1, 0) = << >>
  BY <1>1
<1> QED
  BY <1>2, <1>3 DEF Made

Unseen == UNCHANGED <<input, State, ToCome, Made, AsRead>>

LEMMA EarlyPromise ==
  ASSUME Texts, IInv', MalformedConfig \/ TemplateSourceMissing \/ BuildASTs \/ CollectAST
                       \/ ParseTemplate \/ MatchAST
  PROVE  Promise!Next \/ Unseen
<1>1. /\ phase \in {"configure", "collect", "match"} /\ phase' \in {"collect", "match", "failed"}
      /\ UNCHANGED <<input, disk>>
  BY DEF MalformedConfig, TemplateSourceMissing, BuildASTs, CollectAST, ParseTemplate, MatchAST,
     Configuring, Collecting, rewriting
<1>2. State = "preparing" /\ ToCome = << >> /\ ToCome' = << >> /\ AsRead' = AsRead
      /\ Made = << >> /\ Made' = << >>
  BY <1>1 DEF State, ToCome, AsRead, Made
<1>3. CASE phase' = "failed"
  <2>1. ~ Prepared /\ State' = "failed"
    BY <1>1, <1>3 DEF IInv, Loops, Prepared, Units, State
  <2> QED
    BY <1>1, <1>2, <2>1, SamePromise DEF Promise!Next, Promise!Fail
<1>4. CASE phase' # "failed"
  BY <1>1, <1>2, <1>4 DEF State, Unseen
<1> QED
  BY <1>3, <1>4

LEMMA BeginPromise ==
  ASSUME Texts, IInv', ConsumeASTs \/ Rewrite
  PROVE  Promise!Begin
<1>1. /\ phase \in {"configure", "match"} /\ phase' = "result" /\ UNCHANGED <<input, results, disk>>
      /\ done' = 0
  BY DEF ConsumeASTs, Rewrite, rewriting, Texts, IInv, Loops
<1>2. State = "preparing" /\ State' = "writing" /\ AsRead' = AsRead /\ Made' = Made
  <2>1. results \in Seq([ast : File, matches : Seq(Match)])
    BY DEF Texts, IInv, TypeOK
  <2>2. SubSeq(results, 1, 0) = << >>
    BY <2>1
  <2>3. Made = << >> /\ Made' = << >>
    BY <1>1, <2>2 DEF Made
  <2> QED
    BY <1>1, <2>3 DEF State, AsRead
<1>3. Prepared
  BY <1>1 DEF IInv, Loops, ToRewrite, Prepared, Units
<1>4. /\ ToCome' \in Seq(File)
      /\ input.byTemplate => ToCome' = [i \in 1 .. Len(results) - 0 |-> results[0 + i].ast]
      /\ ~ input.byTemplate => ToCome' = SubSeq(input.units, 0 + 1, Len(input.units))
  <2>1. ToCome' = IF input.byTemplate
                  THEN [i \in 1 .. Len(results) - 0 |-> results[0 + i].ast]
                  ELSE SubSeq(input.units, 0 + 1, Len(input.units))
    BY <1>1 DEF ToCome
  <2>2. CASE input.byTemplate
    <3>1. results \in Seq([ast : File, matches : Seq(Match)]) /\ input \in Inputs
      BY DEF Texts, IInv, TypeOK
    <3>2. \A i \in 1 .. Len(results) - 0 : 0 + i \in DOMAIN results
      BY <3>1
    <3>3. \A i \in DOMAIN results : results[i].ast \in File
      BY <3>1, InputTypes DEF Texts, IInv, Chosen, Outputs, Units
    <3>4. [i \in 1 .. Len(results) - 0 |-> results[0 + i].ast] \in [1 .. Len(results) - 0 -> File]
      BY <3>2, <3>3
    <3>5. Len(results) - 0 \in Nat
      BY <3>1
    <3>6. [i \in 1 .. Len(results) - 0 |-> results[0 + i].ast] \in Seq(File)
      BY <3>4, <3>5
    <3> QED
      BY <2>1, <2>2, <3>6
  <2>3. CASE ~ input.byTemplate
    <3>1. SubSeq(input.units, 0 + 1, Len(input.units)) \in Seq(File)
      BY InputTypes DEF Texts, IInv
    <3> QED
      BY <2>1, <2>3, <3>1
  <2> QED
    BY <2>2, <2>3
<1>5. results \in Seq([ast : File, matches : Seq(Match)]) /\ input.units \in Seq(File)
  BY InputTypes DEF Texts, IInv, TypeOK
<1>6. {ToCome'[i] : i \in DOMAIN ToCome'} = Outputs
  <2>1. CASE input.byTemplate
    <3>1. DOMAIN results = 1 .. Len(results) - 0 /\ \A i \in DOMAIN results : 0 + i = i
      BY <1>5
    <3>2. ToCome' = [i \in DOMAIN results |-> results[i].ast]
      BY <1>4, <2>1, <3>1
    <3>3. {ToCome'[i] : i \in DOMAIN ToCome'} = Asts
      BY <3>2 DEF Asts
    <3>4. Asts' = Asts /\ Outputs' = Outputs
      BY <1>1 DEF Asts, Outputs, Units, Permitted, Of
    <3>5. Asts' = Outputs'
      BY <1>1, <2>1 DEF IInv, Loops, ToRewrite
    <3> QED
      BY <3>3, <3>4, <3>5
  <2>2. CASE ~ input.byTemplate
    <3>1. ToCome' = input.units
      <4>1. 0 + 1 = 1
        OBVIOUS
      <4>2. SubSeq(input.units, 1, Len(input.units)) = input.units
        BY <1>5, SubSeqFull
      <4> QED
        BY <1>4, <2>2, <4>1, <4>2, Zenon
    <3>2. Outputs = Units
      BY <2>2 DEF Outputs
    <3> QED
      BY <3>1, <3>2 DEF Units
  <2> QED
    BY <2>1, <2>2
<1> QED
  BY <1>1, <1>2, <1>3, <1>4, <1>6, SamePromise DEF Promise!Begin

LEMMA CrashPromise ==
  ASSUME Texts, MatchingCrashes \/ InstantiateCrashes \/ ReplaceFails
  PROVE  Promise!Crash
<1>1. /\ phase \in {"match", "rewrite"} /\ phase' = "crashed"
      /\ phase = "match" => input.matchingCrashes
      /\ UNCHANGED <<input, done, asts, templateSourceParsed, results, rewriting>>
  BY DEF MatchingCrashes, InstantiateCrashes, ReplaceFails, Replacing
<1>2. /\ State' = "crashed" /\ AsRead' = AsRead /\ Made' = Made
      /\ \/ State = "preparing" /\ input.matchingCrashes
         \/ State = "writing"
  <2>1. phase = "match" => results = << >>
    BY <1>1 DEF Texts, IInv, Loops, Matched
  <2> QED
    BY <1>1, <2>1 DEF State, AsRead, Made, rewriting
<1>3. ToCome' = ToCome
  <2>1. CASE phase = "match"
    <3>1. input.byTemplate /\ results = << >> /\ done \in Nat
      BY <1>1, <2>1 DEF Texts, IInv, TypeOK, Loops, Matched
    <3>2. ToCome' = [i \in 1 .. 0 - done |-> results[done + i].ast]
      BY <1>1, <3>1 DEF ToCome
    <3>3. 1 .. 0 - done = {}
      BY <3>1
    <3>4. ToCome' = << >>
      BY <3>2, <3>3
    <3> QED
      BY <2>1, <3>4 DEF ToCome
  <2>2. CASE phase = "rewrite"
    BY <1>1, <2>2 DEF ToCome
  <2> QED
    BY <1>1, <2>1, <2>2
<1> QED
  BY <1>1, <1>2, <1>3 DEF Promise!Crash

LEMMA UnseenSteps ==
  ASSUME Texts, ConsumeAST \/ SetRewriter \/ ReplaceMatch \/ WriteBuffer \/ Finished \/ UNCHANGED vars
  PROVE  Unseen
<1>1. CASE ConsumeAST
  <2>1. results \in Seq([ast : File, matches : Seq(Match)]) /\ done \in Nat
    BY DEF Texts, IInv, TypeOK
  <2>2. /\ phase = "result" /\ done = Len(results) /\ UNCHANGED <<phase, done>>
        /\ \E r : results' = Append(results, r)
    BY <1>1 DEF ConsumeAST
  <2>3. SubSeq(results', 1, done) = results /\ SubSeq(results, 1, done) = results
        /\ results' # << >>
    BY <2>1, <2>2
  <2>4. Made' = Made
    BY <2>2, <2>3 DEF Made
  <2> QED
    BY <1>1, <2>4 DEF ConsumeAST, AreConsumed, Unseen, State, ToCome, AsRead, rewriting
<1>2. CASE SetRewriter \/ ReplaceMatch
  BY <1>2 DEF SetRewriter, ReplaceMatch, Replacing, Unseen, State, ToCome, Made, AsRead
<1>3. CASE WriteBuffer
  BY <1>3 DEF WriteBuffer, Unseen, State, ToCome, Made, AsRead
<1>4. CASE UNCHANGED vars
  BY <1>4 DEF vars, rewriting, Unseen, State, ToCome, Made, AsRead, WriteTo, OutputName, file
<1> QED
  BY <1>1, <1>2, <1>3, <1>4 DEF Finished

LEMMA WritePromise == ASSUME Texts, OpenOutput PROVE Promise!Write
<1>1. /\ phase = "rewrite" /\ phase' = "write" /\ replaced = Len(matches)
      /\ disk' = WriteTo(OutputName(file), << >>)
      /\ UNCHANGED <<input, done, results, replaced, buffer, moved>> /\ file' = file
  BY DEF OpenOutput, file
<1>2. /\ results \in Seq([ast : File, matches : Seq(Match)]) /\ done \in Nat /\ done < Len(results)
      /\ matches \in Seq(Match) /\ matches \in Choices(file) /\ input.units \in Seq(File) /\ ToRewrite
  BY <1>1, Current, InputTypes DEF Texts, IInv, TypeOK, Loops
<1>3. State = "writing" /\ State' = "writing" /\ AsRead = disk
  BY <1>1 DEF State, AsRead
<1>4. /\ DOMAIN AsRead' = DOMAIN disk \cup {OutputName(file)} /\ AsRead'[OutputName(file)] = buffer
      /\ \A n \in DOMAIN disk \ {OutputName(file)} : AsRead'[n] = disk[n]
  BY <1>1 DEF AsRead, WriteTo, OutputName
<1>5. Apart(matches) => IsRewritten(buffer, file, matches)
  <2>1. SubSeq(matches, 1, replaced) = matches
    BY <1>1, <1>2
  <2> QED
    BY <1>1, <2>1 DEF Texts, Buffered
<1>6. Made' = Append(Made, [ast |-> file, matches |-> matches])
  <2>1. Made = SubSeq(results, 1, done)
    BY <1>1, <1>2, MadeSoFar DEF Texts
  <2>2. Made' = SubSeq(results, 1, done + 1)
    BY <1>1, <1>2 DEF Made
  <2>3. results[done + 1] = [ast |-> file, matches |-> matches]
    <3>1. results[done + 1] \in [ast : File, matches : Seq(Match)]
      <4>1. results \in Seq([ast : File, matches : Seq(Match)]) /\ done + 1 \in 1 .. Len(results)
        BY <1>2
      <4> QED
        BY <4>1, ElementOfSeq
    <3>2. PICK r \in [ast : File, matches : Seq(Match)] : r = results[done + 1]
      BY <3>1
    <3>3. r = [ast |-> r.ast, matches |-> r.matches]
      OBVIOUS
    <3> QED
      BY <3>2, <3>3 DEF file, matches
  <2>4. SubSeq(results, 1, done + 1) = Append(SubSeq(results, 1, done), results[done + 1])
    BY <1>2
  <2> QED
    BY <2>1, <2>2, <2>3, <2>4
<1>7. ToCome # << >> /\ Head(ToCome) = file /\ ToCome' = Tail(ToCome)
  <2>1. CASE input.byTemplate
    <3>1. /\ ToCome = [i \in 1 .. Len(results) - done |-> results[done + i].ast]
          /\ ToCome' = [i \in 1 .. Len(results) - (done + 1) |-> results[done + 1 + i].ast]
      BY <1>1, <2>1 DEF ToCome
    <3>2. Len(results) - done \in Nat \ {0} /\ Len(results) - (done + 1) = (Len(results) - done) - 1
      BY <1>2
    <3>3. PICK c \in Seq(File) : c = ToCome
      BY <1>1, Coming DEF Texts
    <3>4. Len(c) = Len(results) - done /\ \A i \in 1 .. Len(results) - done : c[i] = results[done + i].ast
      BY <3>1, <3>2, <3>3
    <3>5. c # << >> /\ Head(c) = file
      BY <3>2, <3>3, <3>4 DEF file
    <3>6. Tail(c) = ToCome'
      <4>1. /\ Tail(c) \in Seq(File) /\ Len(Tail(c)) = Len(c) - 1
            /\ \A i \in 1 .. Len(Tail(c)) : Tail(c)[i] = c[i + 1]
        BY <3>3, <3>5, HeadTailProperties
      <4>2. Len(c) - 1 = Len(results) - (done + 1) /\ Len(c) - 1 \in Nat
        BY <3>2, <3>4
      <4>3. DOMAIN Tail(c) = 1 .. Len(results) - (done + 1)
        BY <4>1, <4>2
      <4>4. ASSUME NEW i \in 1 .. Len(results) - (done + 1)
            PROVE  Tail(c)[i] = results[done + 1 + i].ast
        <5>1. i + 1 \in 1 .. Len(results) - done /\ done + (i + 1) = done + 1 + i
          <6>1. Len(results) \in Nat /\ done \in Nat
            BY <1>2
          <6> QED
            BY <6>1
        <5>2. Tail(c)[i] = c[i + 1]
          BY <4>1, <4>2
        <5> QED
          BY <3>4, <5>1, <5>2
      <4>5. Tail(c) = [i \in 1 .. Len(results) - (done + 1) |-> results[done + 1 + i].ast]
        <5>1. PICK t \in Seq(File) : t = Tail(c)
          BY <4>1
        <5>2. t = [i \in DOMAIN t |-> t[i]]
          OBVIOUS
        <5>3. t = [i \in 1 .. Len(results) - (done + 1) |-> t[i]]
          BY <4>3, <5>1, <5>2
        <5> QED
          BY <4>4, <5>1, <5>3, Zenon
      <4> QED
        BY <3>1, <4>5
    <3> QED
      BY <3>3, <3>5, <3>6
  <2>2. CASE ~ input.byTemplate
    <3>1. /\ ToCome = SubSeq(input.units, done + 1, Len(input.units))
          /\ ToCome' = SubSeq(input.units, (done + 1) + 1, Len(input.units))
      BY <1>1, <2>2 DEF ToCome
    <3>2. file = input.units[done + 1] /\ done < Len(input.units)
      BY <1>2, <2>2 DEF ToRewrite, file
    <3>3. done + 1 \in 1 .. Len(input.units) /\ Len(input.units) \in done + 1 .. Len(input.units)
      BY <1>2, <3>2
    <3>4. Head(ToCome) = file /\ Tail(ToCome) = ToCome'
      BY <1>2, <3>1, <3>2, <3>3, HeadTailOfSubSeq
    <3>5. ToCome # << >>
      <4>1. PICK c \in Seq(File) : c = ToCome
        BY <1>1, Coming DEF Texts
      <4>2. Len(c) # 0
        BY <1>2, <3>1, <3>3, <4>1
      <4> QED
        BY <4>1, <4>2
    <3> QED
      BY <3>4, <3>5
  <2> QED
    BY <2>1, <2>2
<1> QED
  BY <1>1, <1>2, <1>3, <1>4, <1>5, <1>6, <1>7, SamePromise DEF Promise!Write

LEMMA ReturnPromise == ASSUME Texts, Return PROVE Promise!End
<1>1. /\ phase = "result" /\ phase' = "done" /\ done = Len(results) /\ AreConsumed
      /\ UNCHANGED <<input, done, asts, templateSourceParsed, results, rewriting>>
  BY DEF Return
<1>2. State = "writing" /\ State' = "done" /\ AsRead' = AsRead /\ ToCome' = ToCome
      /\ Made' = Made
  BY <1>1 DEF State, AsRead, ToCome, Made, rewriting
<1>3. results \in Seq([ast : File, matches : Seq(Match)]) /\ input.units \in Seq(File) /\ done \in Nat
  BY InputTypes DEF Texts, IInv, TypeOK
<1>4. ToCome = << >>
  <2>1. CASE input.byTemplate
    <3>1. ToCome = [i \in 1 .. Len(results) - done |-> results[done + i].ast]
      BY <1>1, <2>1 DEF ToCome
    <3>2. 1 .. Len(results) - done = {}
      BY <1>1, <1>3
    <3> QED
      BY <3>1, <3>2
  <2>2. CASE ~ input.byTemplate
    <3>1. ToCome = SubSeq(input.units, done + 1, Len(input.units)) /\ done = Len(input.units)
      BY <1>1, <2>2 DEF ToCome, AreConsumed
    <3> QED
      BY <1>3, <3>1
  <2> QED
    BY <2>1, <2>2
<1> QED
  BY <1>1, <1>2, <1>4 DEF Promise!End

LEMMA StepPromise ==
  Texts /\ IInv' /\ [Next]_vars => [Promise!Next]_<<input, State, ToCome, Made, AsRead>>
<1> SUFFICES ASSUME Texts, IInv', [Next]_vars PROVE Promise!Next \/ Unseen
  BY DEF Unseen
<1>1. CASE MalformedConfig \/ TemplateSourceMissing \/ BuildASTs \/ CollectAST \/ ParseTemplate \/ MatchAST
  BY <1>1, EarlyPromise
<1>2. CASE ConsumeASTs \/ Rewrite \/ OpenOutput \/ Return
  BY <1>2, BeginPromise, WritePromise, ReturnPromise DEF Promise!Next
<1>3. CASE MatchingCrashes \/ InstantiateCrashes \/ ReplaceFails
  BY <1>3, CrashPromise DEF Promise!Next
<1>4. CASE ConsumeAST \/ SetRewriter \/ ReplaceMatch \/ WriteBuffer \/ Finished \/ UNCHANGED vars
  BY <1>4, UnseenSteps
<1> QED
  BY <1>1, <1>2, <1>3, <1>4 DEF Next

(* Seen from the outside, a run is one of OutputFiles, for any inputs:     *)
(* outputs appear one by one, each at once with the text it is to have,    *)
(* and nothing fails after the first.                                      *)
THEOREM ImplementsOutputFiles == Spec => WritesWholeOutputs
<1> QED
  BY InitPromise, StepPromise, Invariance, TextsInvariant, PTL
     DEF Spec, WritesWholeOutputs, Promise!Spec
=============================================================================
