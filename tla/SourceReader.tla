---------------------------- MODULE SourceReader ----------------------------
(***************************************************************************)
(* Which characters of a source file are read or replaced for a run of     *)
(* sibling nodes.  Characters are numbered from 1 on.                      *)
(***************************************************************************)
EXTENDS Integers, Sequences

NoSemi == 0

(* A node, as far as its text goes: its first character, the first and    *)
(* the last one of its last token, the last one of the token that lexing   *)
(* from there finds, and the semicolon behind it, if that comes next.      *)
Span ==
  { s \in [begin : Nat \ {0}, end : Nat, last : Nat, relexed : Nat, semi : Nat] :
      /\ s.begin <= s.end /\ s.end <= s.last /\ s.last <= s.relexed
      /\ s.semi # NoSemi => s.last < s.semi }

(* The range from the first node to the last one, with the semicolon.  Its *)
(* end is taken for the start of a token, and all of that token is meant.  *)
RangeIncludingSemi(spans) ==
  LET end == spans[Len(spans)]
  IN  IF end.semi # NoSemi
      THEN [from |-> spans[1].begin, end |-> end.semi, to |-> end.semi]
      ELSE [from |-> spans[1].begin, end |-> end.last, to |-> end.relexed]

(* readSourceRange does the same for a single node.                        *)
RangeOfNode(span) == RangeIncludingSemi(<<span>>)

(* The last token is one character, or ends with a character that is a     *)
(* token when lexed alone.  A string literal does neither: lexing from its *)
(* closing quote runs on to the end of the line or the next quote.         *)
LexesAgain(spans) ==
  LET end == spans[Len(spans)] IN end.semi # NoSemi \/ end.relexed = end.last
=============================================================================
