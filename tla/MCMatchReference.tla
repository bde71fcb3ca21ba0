-------------------------- MODULE MCMatchReference --------------------------
(***************************************************************************)
(* Files and templates for TLC.  Nodes 1 .. 6 are the file the template is *)
(* taken from, which is searched too; nodes 7 .. 12 are another file.  A   *)
(* template is any run of siblings in the first file, with up to two       *)
(* metavariables on runs of siblings in it.                                *)
(***************************************************************************)
EXTENDS MatchReference

MCNode == 1 .. 12
MCName == {"no name", "x", "y", "get"}
MCDetail == {"none", "==", "!=", "int", "const", "struct"}
MCIdentifier == 1 .. 2

Forest(first) ==
  [n \in MCNode |->
     IF n = 7 THEN <<8, 9, 10>> ELSE IF n = 9 THEN <<11, 12>>
     ELSE IF n \in DOMAIN first THEN first[n] ELSE << >>]

Bushy == Forest(<< <<2, 3, 4>>, << >>, <<5, 6>> >>)
Chain == Forest(<< <<2, 3>>, <<4, 5>>, << >>, << >>, <<6>> >>)

Of(class, quals, detail, name) ==
  [class |-> class, quals |-> quals, detail |-> detail, name |-> name]

IntType == <<Of("Builtin", {}, "int", "no name")>>
ConstInt == <<Of("Builtin", {"const"}, "int", "no name")>>
PointerTo(name) ==
  <<Of("Pointer", {}, "none", "no name"), Of("Record", {}, "none", name)>>
Returning(type) == <<Of("FunctionProto", {}, "none", "no name")>> \o type

Decl(kind, name, type, detail) ==
  [kind |-> kind, access |-> "public", name |-> name, type |-> type,
   detail |-> detail]

Refer(kind, name, type) ==
  [kind |-> kind, value |-> "none", decl |-> Decl("Var", name, type, "none")]

Stmt(kind, value) == [kind |-> kind, value |-> value]

(* The nodes of the files: statements, references to variables x and y,    *)
(* declarations of them, methods, a class, and "-" for no node.            *)
ContentOf(code) ==
  CASE code = "-" -> [kind |-> NoKind]
    [] code = "{}" -> Stmt("CompoundStmt", "none")
    [] code = "decl" -> Stmt("DeclStmt", "none")
    [] code = "if" -> Stmt("IfStmt", "none")
    [] code = "()" -> Stmt("CallExpr", "none")
    [] code = "1" -> Stmt("IntegerLiteral", "int")
    [] code = "==" -> Stmt("BinaryOperator", "==")
    [] code = "!=" -> Stmt("BinaryOperator", "!=")
    [] code = "x" -> Refer("DeclRefExpr", "x", IntType)
    [] code = "y" -> Refer("DeclRefExpr", "y", IntType)
    [] code = "const x" -> Refer("DeclRefExpr", "x", ConstInt)
    [] code = "int x" -> Decl("Var", "x", IntType, "none")
    [] code = "int y" -> Decl("Var", "y", IntType, "none")
    [] code = "const int x" -> Decl("Var", "x", ConstInt, "none")
    [] code = "x *x" -> Decl("Var", "x", PointerTo("x"), "none")
    [] code = "y *x" -> Decl("Var", "x", PointerTo("y"), "none")
    [] code = "x *y" -> Decl("Var", "y", PointerTo("x"), "none")
    [] code = "get" -> Decl("CXXMethod", "get", Returning(IntType), "none")
    [] code = "get const" -> Decl("CXXMethod", "get", Returning(IntType), "const")
    [] code = "y get" -> Decl("CXXMethod", "y", Returning(ConstInt), "none")
    [] code = "struct x" -> Decl("CXXRecord", "x", <<Of("Record", {}, "none", "x")>>, "struct")
    [] code = "struct y" -> Decl("CXXRecord", "y", <<Of("Record", {}, "none", "y")>>, "struct")
    [] code = "using x" -> Decl("Typedef", "x", << >>, "none")
    [] code = "using y" -> Decl("Typedef", "y", <<Of("Other", {}, "none", "y")>>, "none")

(* Where clang keeps the children of a node of a kind.                     *)
PartsOf(kind, kids) ==
  LET If(is, what) == IF is THEN what ELSE << >>
      function == kind = "CXXMethod"
  IN  [ children |-> If(kind \notin Decls \cup {"DeclStmt"}, kids),
        decls    |-> If(kind \in {"DeclStmt", "CXXRecord"}, kids),
        params   |-> If(function, SubSeq(kids, 1, 1)),
        body     |-> If(function, SubSeq(kids, 2, 2)),
        init     |-> If(kind = "Var", kids) ]

(* A block, a class, and a block with declarations; and others in which    *)
(* up to three nodes are different.                                        *)
Files ==
  { << Bushy, <<"{}", "x", "==", "{}", "x", "y">>, <<"{}", a, b, "{}", c, d>> >> :
      a \in {"x", "{}"}, b \in {"==", "!="}, c \in {"x", "y", "const x"},
      d \in {"x", "y", "()"} }
  \cup
  { << Bushy, <<"struct x", "int x", "get", "x *x", "-", "{}">>,
              <<"struct y", a, b, c, "-", "{}">> >> :
      a \in {"int x", "int y"}, b \in {"get", "get const", "y get"},
      c \in {"x *x", "y *x", "x *y"} }
  \cup
  { << Chain, <<"{}", "decl", "()", a, "int x", "1">>,
              <<"{}", "()", "decl", "()", b, c>> >> :
      a \in {"int y", "struct x", "using x", "using y"},
      b \in {"int y", "struct y", "using x", "using y"},
      c \in {"int x", "const int x"} }
  \cup
  { << Chain, <<"{}", "if", "{}", a, "()", "x">>, <<"{}", "{}", "if", "{}", a, b>> >> :
      a \in {"()", "x", "-"}, b \in {"()", "x", "-"} }

Runs(kids, p) == {<<p, i, j>> : i, j \in DOMAIN kids[p]}

RunsOf(kids, ps) == {r \in UNION {Runs(kids, p) : p \in ps} : r[2] <= r[3]}

NodesOf(kids, r) == {kids[r[1]][i] : i \in r[2] .. r[3]}

Children(kids, ns) == UNION {{kids[n][i] : i \in DOMAIN kids[n]} : n \in ns}

Under(kids, ns) ==
  Children(kids, ns) \cup Children(kids, Children(kids, ns))
    \cup Children(kids, Children(kids, Children(kids, ns)))

(* A metavariable on a run of siblings r: <<r, metavariable>>.             *)
On(r, id, nameOnly) == <<r, [identifier |-> id, nameOnly |-> nameOnly]>>

(* The runs inside template t, and the metavariables the parser can put    *)
(* there: a name-only one is on a single declaration.                      *)
Inside(kids, t) ==
  {r \in RunsOf(kids, {t[1]} \cup NodesOf(kids, t) \cup Under(kids, NodesOf(kids, t))) :
     NodesOf(kids, r) \subseteq NodesOf(kids, t) \cup Under(kids, NodesOf(kids, t))}

Singles(kids, codes, t, id) ==
  {On(r, id, FALSE) : r \in Inside(kids, t)}
  \cup {On(r, id, TRUE) :
          r \in {q \in Inside(kids, t) :
                   /\ q[2] = q[3]
                   /\ ContentOf(codes[kids[q[1]][q[2]]]).kind \in NamedDecls}}

(* Two metavariables have no node in common, and nothing is below a whole  *)
(* one.                                                                    *)
Compatible(kids, a, b) ==
  LET na == NodesOf(kids, a[1])
      nb == NodesOf(kids, b[1])
  IN  /\ na \cap nb = {}
      /\ ~ a[2].nameOnly => nb \cap Under(kids, na) = {}
      /\ ~ b[2].nameOnly => na \cap Under(kids, nb) = {}

MCMetas(kids, codes, t) ==
  {{}} \cup {{a} : a \in Singles(kids, codes, t, 1)}
  \cup {{p[1], p[2]} :
          p \in {q \in Singles(kids, codes, t, 1)
                         \X (Singles(kids, codes, t, 1) \cup Singles(kids, codes, t, 2)) :
                   Compatible(kids, q[1], q[2])}}

MCInput(kids, codes, t, metas) ==
  [ subtrees |-> SubSeq(kids[t[1]], t[2], t[3]),
    metas    |-> [n \in MCNode |->
                    {a[2] : a \in {b \in metas : n \in NodesOf(kids, b[1])}}],
    content  |-> [n \in MCNode |-> ContentOf(codes[n])],
    parts    |-> [n \in MCNode |-> PartsOf(ContentOf(codes[n]).kind, kids[n])],
    main     |-> MCNode \ {1, 7} ]

(* Two metavariables are combined with some of the second files only.      *)
Metas(f, t) ==
  {ms \in MCMetas(f[1], f[2] \o f[3], t) :
     \/ f[3][6] = "()" \/ f[3][4] = "x *y" \/ f[3][5] = "int y"
     \/ \A a, b \in ms : a = b}

MCInputs ==
  UNION { {MCInput(c[1][1], c[1][2] \o c[1][3], c[2], ms) : ms \in Metas(c[1], c[2])} :
          c \in UNION { {f} \X RunsOf(f[1], {1, 2, 3, 5}) : f \in Files } }

(* One pair of files for each shape of the first one: others differ in     *)
(* leaves only.                                                            *)
OneOfEach ==
  {CHOOSE f \in Files : f[1] = g[1] /\ f[2][2] = g[2][2] : g \in Files}

(* The first file's nodes in the order of a traversal: the number of each, *)
(* and the last number below it.                                           *)
Numbers(kids) ==
  IF kids = Bushy THEN << <<1, 2, 3, 6, 4, 5>>, <<6, 2, 5, 6, 4, 5>> >>
  ELSE << <<1, 2, 6, 3, 4, 5>>, <<6, 5, 6, 3, 5, 5>> >>

(* The templates are as the parser makes them; in some, an identifier is   *)
(* used for a name and for subtrees.  They are trees: of a template with   *)
(* metavariables no more is traversed than of one with none.               *)
ASSUME TemplatesAssumption ==
  \A f \in OneOfEach : \A t \in RunsOf(f[1], {1, 2, 3, 5}) :
    LET Template(ms) == MCInput(f[1], f[2] \o f[3], t, ms)
    IN  /\ \A ms \in MCMetas(f[1], f[2] \o f[3], t) : IsTemplate(Template(ms))
        /\ NumberedBy(Template({}), Numbers(f[1])[1], Numbers(f[1])[2])
=============================================================================
