----------------------------- MODULE TreeShapes -----------------------------
(* What the pointers of ast.hpp lead to: a set of statements, one of          *)
(* expressions and one of types that are closed under taking parts.           *)
EXTENDS Syntax, Integers, Lists

CONSTANTS Stmts, Exprs, TypeExprs    \* the nodes there are

StmtKinds ==
    {"Expression", "Var", "Let", "Block", "If", "While", "Return", "Break", "Continue",
     "Loop", "Function", "Module", "Import", "Type", "Record", "Enum"}
ExprKinds ==
    {"Literal", "Variable", "Binary", "Unary", "Grouping", "Vector", "Call", "FieldAccess",
     "RecordLiteral", "EnumLiteral", "Assign", "Match"}
TypeKinds == {"SimpleType", "GenericType"}

\* A pointer that may be null, lists, and lists of pairs of a name and a node.
OrAbsent(nodes) == nodes \cup {Absent}
ListOf(list, nodes) == list.parts \in Seq(nodes)
IsList(list) == IsSeq(list.parts)
Pairs(list, nodes) ==
    IsList(list) /\ \A i \in DOMAIN list.parts : list.parts[i].parts[2] \in nodes

IsStmt(s) ==
    /\ s.kind \in StmtKinds
    /\ s.kind = "Expression" => s.parts[1] \in Exprs
    /\ s.kind \in {"Var", "Let"} => /\ s.parts[2] \in OrAbsent(TypeExprs)
                                    /\ s.parts[3] \in OrAbsent(Exprs)
    /\ s.kind = "Block" => ListOf(s.parts[1], Stmts)
    /\ s.kind = "If" => /\ s.parts[1] \in Exprs /\ s.parts[2] \in Stmts
                        /\ s.parts[3] \in OrAbsent(Stmts)
    /\ s.kind = "While" => s.parts[1] \in Exprs /\ s.parts[2] \in Stmts
    /\ s.kind = "Loop" => /\ s.parts[1].kind = "Guarded" => s.parts[1].parts[1] \in Exprs
                          /\ ListOf(s.parts[2], Stmts)
    /\ s.kind = "Return" => s.parts[1] \in OrAbsent(Exprs)
    /\ s.kind = "Function" => /\ Pairs(s.parts[3], TypeExprs)
                              /\ s.parts[4] \in OrAbsent(TypeExprs)
                              /\ ListOf(s.parts[5], Stmts)
    /\ s.kind = "Type" => s.parts[3] \in TypeExprs
    /\ s.kind = "Record" => Pairs(s.parts[3], TypeExprs)
    /\ s.kind = "Enum" => Pairs(s.parts[3], OrAbsent(TypeExprs))

\* MatchPattern: names, names of fields, or a variant around one of them.
IsPattern(p) ==
    /\ p.kind \in {"NoPattern", "Binding", "Tuple", "RecordPattern", "Variant"}
    /\ p.kind \in {"Tuple", "RecordPattern"} => IsList(p.parts[1])
IsArm(arm) ==
    /\ arm.kind = "Arm"
    /\ IsPattern(arm.parts[2])
    /\ arm.parts[2].kind = "Variant" => IsPattern(arm.parts[2].parts[2])
    /\ arm.parts[3] \in OrAbsent(Exprs)
    /\ arm.parts[4] \in Exprs

IsExpr(e) ==
    /\ e.kind \in ExprKinds
    /\ e.kind = "Binary" => e.parts[1] \in Exprs /\ e.parts[3] \in Exprs
    /\ e.kind \in {"Unary", "Assign"} => e.parts[2] \in Exprs
    /\ e.kind \in {"Grouping", "FieldAccess"} => e.parts[1] \in Exprs
    /\ e.kind = "Vector" => ListOf(e.parts[1], Exprs)
    /\ e.kind = "Call" => ListOf(e.parts[2], Exprs)
    /\ e.kind = "RecordLiteral" => Pairs(e.parts[2], Exprs)
    /\ e.kind = "EnumLiteral" => e.parts[2] \in OrAbsent(Exprs)
    /\ e.kind = "Match" => /\ e.parts[1] \in Exprs
                           /\ IsList(e.parts[2])
                           /\ \A i \in DOMAIN e.parts[2].parts : IsArm(e.parts[2].parts[i])

\* A parameter of a type may be a constant, and there is one at least.
IsTypeExpr(t) ==
    /\ t.kind \in TypeKinds
    /\ t.kind = "GenericType" => /\ ListOf(t.parts[2], TypeExprs \cup Exprs)
                                 /\ t.parts[2].parts # <<>>

ASSUME TreesAssumption ==
    /\ \A s \in Stmts : IsStmt(s)
    /\ \A e \in Exprs : IsExpr(e)
    /\ \A t \in TypeExprs : IsTypeExpr(t)
=============================================================================
