------------------------------- MODULE Syntax -------------------------------
(* The syntax tree of ast.hpp.  A node is a kind and its parts, a list is the *)
(* node List, a token of the tree is a leaf with its characters, and a null   *)
(* pointer is Absent.                                                         *)

Leaf(type, text) == [kind |-> type, text |-> text]
Node(kind, parts) == [kind |-> kind, parts |-> parts]
List(parts) == Node("List", parts)
Absent == [kind |-> "Absent"]
IsLeaf(node) == "text" \in DOMAIN node
IsNode(node) == "parts" \in DOMAIN node

\* Expressions.
LiteralExpr(value) == Node("Literal", <<value>>)
VariableExpr(name) == Node("Variable", <<name>>)
BinaryExpr(left, op, right) == Node("Binary", <<left, op, right>>)
UnaryExpr(op, right) == Node("Unary", <<op, right>>)
GroupingExpr(expression) == Node("Grouping", <<expression>>)
VectorLiteralExpr(elements) == Node("Vector", <<elements>>)
CallExpr(callee, arguments) == Node("Call", <<callee, arguments>>)
FieldAccessExpr(object, field) == Node("FieldAccess", <<object, field>>)
RecordLiteralExpr(typeName, fields) == Node("RecordLiteral", <<typeName, fields>>)
\* The one token "Enum.Variant" names both.
EnumLiteralExpr(name, payload) == Node("EnumLiteral", <<name, payload>>)
AssignExpr(name, value) == Node("Assign", <<name, value>>)
MatchExpr(scrutinee, arms) == Node("Match", <<scrutinee, arms>>)
MatchArm(keyword, pattern, guard, expression) ==
    Node("Arm", <<keyword, pattern, guard, expression>>)

\* The kinds of MatchPattern.
NoPattern == Node("NoPattern", <<>>)
BindingPattern(name) == Node("Binding", <<name>>)
TuplePattern(names) == Node("Tuple", <<names>>)
RecordPattern(bindings) == Node("RecordPattern", <<bindings>>)
VariantPattern(name, payload) == Node("Variant", <<name, payload>>)

\* Types.
SimpleTypeExpr(name) == Node("SimpleType", <<name>>)
GenericTypeExpr(name, params) == Node("GenericType", <<name, params>>)

\* Statements.  Parameters, fields and variants are pairs of a name and a type.
Pair(name, value) == Node("Pair", <<name, value>>)
ExpressionStmt(expression) == Node("Expression", <<expression>>)
VarStmt(name, type, initializer) == Node("Var", <<name, type, initializer>>)
LetStmt(name, type, initializer) == Node("Let", <<name, type, initializer>>)
BlockStmt(statements) == Node("Block", <<statements>>)
IfStmt(condition, thenBranch, elseBranch) ==
    Node("If", <<condition, thenBranch, elseBranch>>)
WhileStmt(condition, body) == Node("While", <<condition, body>>)
ReturnStmt(value) == Node("Return", <<value>>)
BreakStmt == Node("Break", <<>>)
ContinueStmt == Node("Continue", <<>>)
NoBound == Node("NoBound", <<>>)
InfiniteBound == Node("Infinite", <<>>)
StaticBound(value) == Node("Static", <<value>>)
GuardedBound(guard) == Node("Guarded", <<guard>>)
LoopStmt(bound, body) == Node("Loop", <<bound, body>>)

\* Declarations.
FunctionAttributes(isEffectful, tier) == Node("Attributes", <<isEffectful, tier>>)
FunctionStmt(attributes, name, params, returnType, body) ==
    Node("Function", <<attributes, name, params, returnType, body>>)
ModuleDecl(path) == Node("Module", <<path>>)
ImportDecl(path) == Node("Import", <<path>>)
TypeDecl(name, params, alias) == Node("Type", <<name, params, alias>>)
StructuralAttributes(schemaVersion, modulePath) ==
    Node("Structural", <<schemaVersion, modulePath>>)
RecordDecl(attributes, name, fields) == Node("Record", <<attributes, name, fields>>)
EnumDecl(attributes, name, variants) == Node("Enum", <<attributes, name, variants>>)
=============================================================================
