------------------------------- MODULE Syntax -------------------------------
(* The part of the ExS syntax tree that both code generators of             *)
(* crates/exs-compiler lower: statements, expressions, and the units        *)
(* (functions and lifted closures) of a program.                            *)
(*                                                                          *)
(* Expressions that only evaluate operands in source order and then perform *)
(* one operation (operators, List and Object literals, index and property   *)
(* reads, method calls, host calls, Error construction) are one node,       *)
(* Apply, whose op names the operation.  Types, spans and names resolved at *)
(* compile time are left out.                                               *)
EXTENDS Naturals, Sequences, FiniteSets

(* --- Expressions ------------------------------------------------------- *)
Literal(v) == [is |-> "Literal", value |-> v]
Variable(x) == [is |-> "Variable", name |-> x]
Apply(op, es) == [is |-> "Apply", op |-> op, operands |-> es]
Logical(isOr, l, r) == [is |-> "Logical", isOr |-> isOr, left |-> l, right |-> r]
Propagate(e) == [is |-> "Propagate", operand |-> e]
Formatted(es) == [is |-> "Formatted", parts |-> es]
\* An enum constructor whose payload fields declare `contracts`.
Construct(tag, contracts, es) ==
    [is |-> "Construct", tag |-> tag, contracts |-> contracts, operands |-> es]
\* A nominal Object: `declared` is its fields in order, `properties` the written ones.
Typed(declared, properties) ==
    [is |-> "Typed", declared |-> declared, properties |-> properties]
Match(e, arms) == [is |-> "Match", subject |-> e, arms |-> arms]
Call(f, es) == [is |-> "Call", callee |-> f, operands |-> es]
Closure(key) == [is |-> "Closure", key |-> key]

(* --- Match arms -------------------------------------------------------- *)
Arm(pattern, body) == [pattern |-> pattern, body |-> body]
LiteralPattern(v) == [is |-> "Literal", value |-> v]
VariantPattern(tag, names) == [is |-> "Variant", tag |-> tag, bindings |-> names]
Wildcard == [is |-> "Wildcard"]
ValueBody(e) == [is |-> "Expression", value |-> e]
BlockBody(ss) == [is |-> "Block", block |-> ss]

(* --- Statements -------------------------------------------------------- *)
Let(x, e) == [is |-> "Let", name |-> x, value |-> e]
Assign(x, e) == [is |-> "Assign", name |-> x, value |-> e]
IndexSet(r, i, e) == [is |-> "IndexSet", receiver |-> r, index |-> i, value |-> e]
Return(e) == [is |-> "Return", value |-> e]
Do(e) == [is |-> "Do", value |-> e]
Scope(ss) == [is |-> "Scope", block |-> ss]
If(c, ss, ts) == [is |-> "If", condition |-> c, then |-> ss, else |-> ts]
While(c, ss) == [is |-> "While", condition |-> c, body |-> ss]
For(x, e, ss) == [is |-> "For", name |-> x, iterable |-> e, body |-> ss]
Break == [is |-> "Break"]
Continue == [is |-> "Continue"]

\* A function or lifted closure.  `contract` is its return type; `suspends` says that the
\* analysis made it resumable, so it runs as a frame.
Unit(params, captures, contract, suspends, body) ==
    [params |-> params, captures |-> captures, contract |-> contract,
     suspends |-> suspends, body |-> body]

\* A program: its units by name ("main" is the entry) and whether any unit uses `par`.
Program(units, parallel) == [units |-> units, parallel |-> parallel]

\* The names that live in Cells, in every unit, because some closure captures them.
CellNames(program) ==
    UNION {{program.units[u].captures[i] : i \in DOMAIN program.units[u].captures} :
           u \in DOMAIN program.units}

\* Whether evaluating `e` can run statements of the current function: only `match` block
\* arms embed statements in an expression, and every match and closure counts.
RECURSIVE ContainsStatements(_)
ContainsStatements(e) ==
    LET Any(es) == \E i \in DOMAIN es : ContainsStatements(es[i]) IN
    CASE e.is \in {"Match", "Closure"} -> TRUE
      [] e.is \in {"Literal", "Variable"} -> FALSE
      [] e.is \in {"Apply", "Construct", "Call"} -> Any(e.operands)
      [] e.is = "Formatted" -> Any(e.parts)
      [] e.is = "Typed" -> \E i \in DOMAIN e.properties :
                               ContainsStatements(e.properties[i].value)
      [] e.is = "Logical" -> ContainsStatements(e.left) \/ ContainsStatements(e.right)
      [] e.is = "Propagate" -> ContainsStatements(e.operand)

RunsStatements(es) == \E i \in DOMAIN es : ContainsStatements(es[i])
=============================================================================
