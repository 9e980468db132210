------------------------------ MODULE SourceTree ------------------------------
(* The syntax tree of crates/exs-compiler as the parser leaves it and the   *)
(* passes before code generation walk it: names are not resolved yet.       *)
(*                                                                          *)
(* A name is a sequence of segments: log::info is <<"log", "info">>.  Every *)
(* expression is one record with its name, the type names it spells, its    *)
(* operands in source order and the bodies it holds; operations that only   *)
(* have operands are one node.  A closure is known by its span.             *)
EXTENDS Naturals, Sequences, SequencesExt

\* A block in its own scope, which binds `bindings` (parameters, fields of a variant, or the
\* variable of a loop); `name` is the type of a match arm's variant, `types` annotate the
\* bindings.
Body(name, types, bindings, block) ==
    [name |-> name, types |-> types, bindings |-> bindings, block |-> block]
Block(block) == Body(<<>>, <<>>, <<>>, block)

\* --- Expressions ----------------------------------------------------------------------------
Node(kind, name, operands) ==
    [is |-> kind, name |-> name, types |-> <<>>, operands |-> operands, bodies |-> <<>>, span |-> 0]
Literal(value) == Node("Literal", value, <<>>)
Variable(n) == Node("Variable", n, <<>>)
Call(n, es) == Node("Call", n, es)
\* `type::method(...)`; the method is the last segment of the name.
StaticCall(n, es) == Node("StaticMethodCall", n, es)
\* `es[1].m(...)`
MethodCall(m, es) == Node("MethodCall", m, es)
HostCall(es) == Node("HostCall", <<>>, es)
Formatted(es) == Node("FormattedString", <<>>, es)
Typed(n, es) == Node("TypedObject", n, es)
\* A String literal or the text of a formatted string.
Text(t) == Node("String", <<t>>, <<>>)
ObjectLiteral(keys, es) == Node("Object", keys, es)
HostStream(es) == Node("HostStream", <<>>, es)
\* `e.p`
Property(p, e) == Node("Property", p, <<e>>)
\* Unary and binary operators, List literals and index reads: `op` names the operator.
Operation(op, es) == Node("Operation", <<op>>, es)
IsType(e, types) == [Node("IsType", <<>>, <<e>>) EXCEPT !.types = types]
Closure(span, parameters, types, block) ==
    [Node("Closure", <<>>, <<>>) EXCEPT !.span = span,
                                        !.bodies = <<Body(<<>>, types, parameters, block)>>]
ParallelStatic(es) == Node("ParallelStatic", <<>>, es)
ParallelDynamic(e) == Node("ParallelDynamic", <<>>, <<e>>)
Match(e, arms) == [Node("Match", <<>>, <<e>>) EXCEPT !.bodies = arms]

\* --- Statements, which have the fields of an expression --------------------------------------
Let(x, types, e) == [Node("Let", x, <<e>>) EXCEPT !.types = types]
Assign(x, e) == Node("Assign", x, <<e>>)
\* `receiver.p = e` and `receiver[index] = e`
SetProperty(p, receiver, e) == Node("AssignProperty", p, <<receiver, e>>)
SetIndex(receiver, index, e) == Node("AssignIndex", <<>>, <<receiver, index, e>>)
Return(e) == Node("Return", <<>>, <<e>>)
Do(e) == Node("Expression", <<>>, <<e>>)
Scope(block) == [Node("Block", <<>>, <<>>) EXCEPT !.bodies = <<Block(block)>>]
If(e, then, else) == [Node("If", <<>>, <<e>>) EXCEPT !.bodies = <<Block(then), Block(else)>>]
While(e, block) == [Node("While", <<>>, <<e>>) EXCEPT !.bodies = <<Block(block)>>]
For(span, x, types, e, block) ==
    [Node("For", <<>>, <<e>>) EXCEPT !.span = span, !.bodies = <<Body(<<>>, types, <<x>>, block)>>]

\* --- Walks ----------------------------------------------------------------------------------
\* Every node in a block or below a node, outer nodes first, in source order.
RECURSIVE Nodes(_), NodesOf(_), NodesOfBodies(_)
Nodes(n) == <<n>> \o NodesOf(n.operands) \o NodesOfBodies(n.bodies)
NodesOf(block) == IF block = <<>> THEN <<>> ELSE Nodes(Head(block)) \o NodesOf(Tail(block))
NodesOfBodies(bodies) ==
    IF bodies = <<>> THEN <<>>
    ELSE NodesOf(Head(bodies).block) \o NodesOfBodies(Tail(bodies))
NodeSet(block) == ToSet(NodesOf(block))
===============================================================================
