------------------------------ MODULE ASTNode ------------------------------
(***************************************************************************)
(* The children of a node, in the one order that all traversals use:       *)
(* ASTNode::getChildren makes a single list of what clang keeps in         *)
(* different places for different kinds.                                   *)
(***************************************************************************)
EXTENDS LHSComparators

CONSTANT Node          \* nodes, virtual ones and absent children included

(* What clang has for a node.  The parameters of a function are below one  *)
(* virtual node, whose children they are; a body or an initializer is a    *)
(* list of at most one node.                                               *)
Parts ==
  [ children : Seq(Node), decls : Seq(Node), params : Seq(Node),
    body : Seq(Node), init : Seq(Node) ]

Contexts == {"Namespace", "CXXRecord", "Enum", "TranslationUnit"}

GetChildren(kind, parts) ==
  CASE kind = "DeclStmt" -> parts.decls
    [] kind \in PlainStmts \ {"DeclStmt"} -> parts.children
    [] kind \in ValuedStmts \cup ReferringStmts \cup {NoKind} -> parts.children
    [] kind \in FunctionDecls -> parts.params \o parts.body
    [] kind \in VarDecls \cup {"Field"} -> parts.init
    [] kind \in Contexts -> parts.decls
    [] OTHER -> << >>
=============================================================================
