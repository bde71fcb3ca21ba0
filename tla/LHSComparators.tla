--------------------------- MODULE LHSComparators ---------------------------
(***************************************************************************)
(* When a node of the template and a node of a source file match: the      *)
(* function compare of LHSComparators.cpp.  A node has a kind of clang's   *)
(* class hierarchy, and contents that depend on it.  A type is the list of *)
(* layers that compareTypes takes off, one after the other: its own class, *)
(* then those of what it points to, refers to, returns or is an array of.  *)
(***************************************************************************)
EXTENDS Integers, Sequences

CONSTANTS
  Name,       \* of declarations
  Detail      \* what else is compared: operators, literals, modifiers, flags

-----------------------------------------------------------------------------
(* Kinds: of the classes that no check is about, some that have children.  *)

NoKind == "None"                    \* of virtual nodes and absent children

PlainStmts == {"CompoundStmt", "DeclStmt", "IfStmt", "CallExpr"}

ValuedStmts ==
  {"BinaryOperator", "CharacterLiteral", "CXXBoolLiteralExpr", "FloatingLiteral",
   "IntegerLiteral", "StringLiteral", "UnaryOperator"}

ReferringStmts == {"DeclRefExpr", "MemberExpr"}

TagDecls == {"CXXRecord", "Enum"}

TypeDecls == TagDecls \cup {"Typedef"}

FunctionDecls == {"Function", "CXXMethod"}

VarDecls == {"Var", "ParmVar"}

ValueDecls == FunctionDecls \cup VarDecls \cup {"Field", "EnumConstant"}

NamedDecls == TypeDecls \cup ValueDecls \cup {"Namespace", "UsingDirective"}

Decls == NamedDecls \cup {"AccessSpec", "TranslationUnit"}

Inspected == ValuedStmts \cup ReferringStmts \cup Decls

-----------------------------------------------------------------------------
(* Types                                                                   *)

ArrayClasses ==
  {"ConstantArray", "VariableArray", "DependentSizedArray", "IncompleteArray"}

OuterClasses ==
  ArrayClasses \cup {"FunctionProto", "FunctionNoProto", "MemberPointer", "Paren",
                     "Pointer", "RValueReference", "LValueReference"}

TagClasses == {"Enum", "Record"}

Layer ==
  [ class  : OuterClasses \cup TagClasses \cup {"Builtin", "Other"},
    quals  : SUBSET {"const", "volatile", "restrict"},
    detail : Detail,
    name   : Name ]

(* << >> is the type of a declared type that clang has not needed yet.     *)
Type == {t \in Seq(Layer) : \A i \in DOMAIN t :
                              t[i].class \in OuterClasses <=> i < Len(t)}

CompareLayers(left, right, nameOnly) ==
  /\ left.class = right.class
  /\ left.class \in ArrayClasses \cup {"Builtin", "MemberPointer"} =>
       left.detail = right.detail
  /\ left.class \in TagClasses => nameOnly \/ left.name = right.name

(* The class says whether there is a layer below.                          *)
CompareTypes(left, right, nameOnly) ==
  /\ DOMAIN left = DOMAIN right
  /\ \A i \in DOMAIN left :
       /\ CompareLayers(left[i], right[i], nameOnly /\ i = 1)
       /\ i # 1 => left[i].quals = right[i].quals

CompareQualTypes_AtLeast(left, right) ==
  left[1].quals \subseteq right[1].quals /\ CompareTypes(left, right, FALSE)

CompareQualTypes(left, right) ==
  left[1].quals = right[1].quals /\ CompareTypes(left, right, FALSE)

-----------------------------------------------------------------------------
(* Nodes                                                                   *)

(* Values have types; the type a tag declares has its name, and what a     *)
(* typedef declares is a type of its own class.                            *)
Declaration ==
  { d \in [ kind   : Decls,
            access : {"public", "protected", "private", "none"},
            name   : Name,
            type   : Type,
            detail : Detail ] :
      /\ d.kind \in ValueDecls => d.type # << >>
      /\ d.kind \in TagDecls => \A i \in DOMAIN d.type : d.type[i].name = d.name
      /\ d.kind = "Typedef" => \A i \in DOMAIN d.type : d.type[i].class = "Other" }

Statement == [kind : PlainStmts \cup ValuedStmts, value : Detail]

Reference ==
  [ kind  : ReferringStmts,
    value : Detail,
    decl  : {d \in Declaration : d.kind \in ValueDecls} ]

Content == Declaration \cup Statement \cup Reference \cup [kind : {NoKind}]

CompareDecl_NameOnlyStops(left, right, nameOnly) ==
  /\ left.kind = right.kind /\ left.access = right.access
  /\ \/ nameOnly
     \/ /\ left.kind \in NamedDecls => left.name = right.name
        /\ left.kind \in TypeDecls => CompareTypes(left.type, right.type, nameOnly)
        /\ left.kind \in ValueDecls => CompareQualTypes(left.type, right.type)

CompareDecl(left, right, nameOnly) ==
  /\ left.kind = right.kind /\ left.access = right.access
  /\ left.kind \in NamedDecls => nameOnly \/ left.name = right.name
  /\ left.kind \in TypeDecls => CompareTypes(left.type, right.type, nameOnly)
  /\ left.kind \in ValueDecls => CompareQualTypes(left.type, right.type)
  /\ left.kind \in TagDecls \cup {"CXXMethod", "UsingDirective"} =>
       left.detail = right.detail

(* compare().  Kinds must agree unless one of them is NoKind.              *)
Compare(templ, potMatch, nameOnly) ==
  \/ NoKind \in {templ.kind, potMatch.kind}
  \/ /\ templ.kind = potMatch.kind
     /\ templ.kind \in ValuedStmts \cup {"MemberExpr"} =>
          templ.value = potMatch.value
     /\ templ.kind \in ReferringStmts =>
          CompareDecl(templ.decl, potMatch.decl, nameOnly)
     /\ templ.kind \in Decls => CompareDecl(templ, potMatch, nameOnly)

(* A node is inspected that is not there, or a declared type that is not.  *)
NullDereference(templ, potMatch, nameOnly) ==
  \/ templ.kind \in Inspected /\ potMatch.kind = NoKind
  \/ /\ templ.kind \in TypeDecls /\ potMatch.kind = templ.kind
     /\ templ.access = potMatch.access
     /\ nameOnly \/ templ.name = potMatch.name
     /\ << >> \in {templ.type, potMatch.type}
=============================================================================
