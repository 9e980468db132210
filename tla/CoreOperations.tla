--------------------------- MODULE CoreOperations ---------------------------
(* Run-time values and the core-library operations generated code calls,    *)
(* as far as the two code generators can be told apart by them.  A value is *)
(* a tuple whose first element is its type; Lists, Objects and Cells live   *)
(* in the heap.  A world is what outlives one expression: the heap and the  *)
(* trace of externally visible effects.                                     *)
EXTENDS Integers, Sequences, FiniteSets

Num(n) == <<"int", n>>
Truth(b) == <<"bool", b>>
None == <<"none">>
UnitValue == <<"unit">>
Error(kind) == <<"error", kind>>
Fatal(kind) == <<"fatal", kind>>

IsInt(v) == v[1] = "int"
IsError(v) == v[1] \in {"error", "fatal"}
IsFatal(v) == v[1] = "fatal"

\* Return and field contracts: "Any", "Int", "Result" (Int | Error), or "Never", which no
\* value satisfies.
Conforms(v, contract) ==
    CASE contract = "Any" -> TRUE
      [] contract = "Int" -> IsInt(v)
      [] contract = "Never" -> FALSE
      [] contract = "Result" -> IsInt(v) \/ IsError(v)
PermitsError(contract) == contract # "Int"

\* The Error a function with this return contract leaves with when a check fails:
\* recoverable when its return type admits Errors, fatal otherwise.
Mismatch(contract) ==
    IF PermitsError(contract) THEN Error("type") ELSE Fatal("type")

\* What `return_error` leaves the function with for the Error `v`.
Escaping(v, contract) ==
    IF PermitsError(contract) THEN v ELSE Mismatch(contract)

World(heap, trace) == [heap |-> heap, trace |-> trace]
EmptyWorld == World(<<>>, <<>>)
Allocate(w, content) == [w EXCEPT !.heap = Append(@, content)]
Newest(w) == Len(w.heap)
IsList(v) == v[1] = "list"

InBounds(w, list, index) ==
    IsList(list) /\ IsInt(index) /\ index[2] + 1 \in DOMAIN w.heap[list[2]]

\* One operation on evaluated operands: the value it yields and the world after it.
\* "record" and "host" stand for any call with a visible effect; "host" may suspend.
Perform(op, vs, w) ==
    CASE op = "add" ->
            [value |-> IF IsInt(vs[1]) /\ IsInt(vs[2])
                       THEN Num(vs[1][2] + vs[2][2])
                       ELSE Error("type"),
             world |-> w]
      [] op = "less" ->
            [value |-> IF IsInt(vs[1]) /\ IsInt(vs[2])
                       THEN Truth(vs[1][2] < vs[2][2])
                       ELSE Error("type"),
             world |-> w]
      [] op = "list" ->
            LET after == Allocate(w, vs) IN
            [value |-> <<"list", Newest(after)>>, world |-> after]
      [] op = "index" ->
            [value |-> IF InBounds(w, vs[1], vs[2])
                       THEN w.heap[vs[1][2]][vs[2][2] + 1]
                       ELSE Error("index"),
             world |-> w]
      [] op = "push" ->
            IF IsList(vs[1])
            THEN [value |-> UnitValue,
                  world |-> [w EXCEPT !.heap[vs[1][2]] = Append(@, vs[2])]]
            ELSE [value |-> Error("type"), world |-> w]
      [] op \in {"record", "host"} ->
            [value |-> vs[1], world |-> [w EXCEPT !.trace = Append(@, <<op, vs[1]>>)]]
      [] op = "error" -> [value |-> Error("raised"), world |-> w]

\* `list[index] = value`; the Error of a failed assignment, else the value itself.
StoreIndex(list, index, value, w) ==
    IF InBounds(w, list, index)
    THEN [value |-> value, world |-> [w EXCEPT !.heap[list[2]][index[2] + 1] = value]]
    ELSE [value |-> Error("index"), world |-> w]

\* What `for` iterates: the items of a List copied before the first iteration, or the Error
\* a value that does not iterate yields.
Snapshot(v, w) ==
    IF IsList(v) THEN [ok |-> TRUE, items |-> w.heap[v[2]]]
    ELSE [ok |-> FALSE, error |-> Error("iterable")]

\* What `value?` does under a return contract: go on with the value, or leave the function.
Propagated(v, contract) ==
    CASE v = None -> [leaves |-> TRUE,
                      value |-> IF contract = "Any" THEN None ELSE Error("missing")]
      [] IsError(v) -> [leaves |-> TRUE, value |-> Escaping(v, contract)]
      [] OTHER -> [leaves |-> FALSE, value |-> v]

\* A value with every heap reference replaced by what it refers to, down to `depth`.
RECURSIVE Rendered(_, _, _)
Rendered(v, w, depth) ==
    CASE depth = 0 -> v[1]
      [] v[1] \in {"list", "text"} ->
            LET items == IF v[1] = "list" THEN w.heap[v[2]] ELSE v[2] IN
            <<v[1], [i \in DOMAIN items |-> Rendered(items[i], w, depth - 1)]>>
      [] v[1] = "object" ->
            <<"object", [k \in DOMAIN w.heap[v[2]] |-> Rendered(w.heap[v[2]][k], w, depth - 1)]>>
      [] v[1] = "enum" ->
            <<v[1], v[2], [i \in DOMAIN v[3] |-> Rendered(v[3][i], w, depth - 1)]>>
      [] v[1] = "closure" -> <<"closure", v[2]>>
      [] OTHER -> v
=============================================================================
