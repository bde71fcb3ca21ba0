--------------------------- MODULE MatchReference ---------------------------
(***************************************************************************)
(* What a match is, by recursion on the template, and the statement that   *)
(* the loop of MatchAST finds all the matches and no others.  The loop     *)
(* never looks at two potential matches together and never backtracks to   *)
(* an earlier choice; the definition below knows of no order of steps.     *)
(***************************************************************************)
EXTENDS MatchAST

Merge(b, c) ==
  [id \in DOMAIN b \cup DOMAIN c |-> IF id \in DOMAIN b THEN b[id] ELSE c[id]]

Bind(id, nodes) == [k \in {id} |-> nodes]

MetaOf(in, t) == CHOOSE m \in in.metas[t] : TRUE

(* The template nodes ts without those at the front that map to id.        *)
BehindThose(in, ts, id) ==
  LET others == {i \in DOMAIN ts : \A m \in in.metas[ts[i]] : m.identifier # id}
  IN  IF others = {} THEN << >>
      ELSE SubSeq(ts, CHOOSE i \in others : \A j \in others : i <= j, Len(ts))

(* A whole metavariable stands for one node or more.                       *)
Wholly(in, M, id, ts, ns) ==
  UNION { {Merge(Bind(id, SubSeq(ns, 1, i)), after) :
             after \in M[<<BehindThose(in, ts, id), SubSeq(ns, i + 1, Len(ns))>>]} :
          i \in DOMAIN ns }

(* What a node binds of its own: a metavariable that stands for its name.  *)
Own(in, t, n) ==
  IF in.metas[t] = {} THEN << >> ELSE Bind(MetaOf(in, t).identifier, <<n>>)

(* The first nodes are alike, up to the name if a metavariable stands for  *)
(* it, and so are their children and the nodes behind them.                *)
NodeByNode(in, M, ts, ns) ==
  IF Compare(in.content[Head(ts)], in.content[Head(ns)], in.metas[Head(ts)] # {})
    THEN {Merge(Own(in, Head(ts), Head(ns)), Merge(below, after)) :
            below \in M[<<KidsIn(in, Head(ts)), KidsIn(in, Head(ns))>>],
            after \in M[<<Tail(ts), Tail(ns)>>]}
    ELSE {}

(* The bindings under which the template nodes ts match the nodes ns, all  *)
(* of them, if M has those of the lists that are left.  Where an           *)
(* identifier occurs again its first binding counts.                       *)
MatchesBy(in, M, ts, ns) ==
  IF ts = << >> \/ ns = << >> THEN {b \in {<< >>} : ts = ns}
  ELSE IF \E m \in in.metas[Head(ts)] : ~ m.nameOnly
    THEN Wholly(in, M, MetaOf(in, Head(ts)).identifier, ts, ns)
  ELSE NodeByNode(in, M, ts, ns)

Matches(in) ==
  LET M[p \in Seq(Node) \X Seq(Node)] == MatchesBy(in, M, p[1], p[2])
  IN  M

Found == {<<pot.root, pot.binds>> : pot \in potentials}

(* matchAST finds every potential root with every binding under which the  *)
(* template matches it, and nothing else, if no metavariable runs to the   *)
(* end of a list of siblings.                                              *)
MatchesExact ==
  (phase = "matched" /\ ~ RunToTheEnd) =>
    Found = UNION {{<<r, b>> : b \in Matches(input)[<<input.subtrees, r>>]} :
                     r \in PotentialRoots}
=============================================================================
