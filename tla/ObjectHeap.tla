----------------------------- MODULE ObjectHeap -----------------------------
(***************************************************************************)
(* What the heap of exs-core promises generated code: every object a root  *)
(* can reach keeps its address and its contents, and a new object is       *)
(* unlike all of those.  Objects nothing reaches may vanish at any time.   *)
(***************************************************************************)
EXTENDS Integers

CONSTANTS
  Address,  \* where objects can be
  Nil,      \* the reference to nothing
  Slot,     \* the root slots
  Field     \* the references one object holds

VARIABLES
  objects,  \* the addresses that hold objects
  fields,   \* the references of each object
  roots     \* the reference in each root slot

Reference == Address \cup {Nil}

Init ==
  /\ objects = {}
  /\ fields = [a \in {} |-> Nil]
  /\ roots = [s \in Slot |-> Nil]

(* A root slot receives a new object without references. *)
Create(s) ==
  \E a \in Address :
    /\ roots' = [roots EXCEPT ![s] = a]
    /\ a \notin objects
    /\ objects' = objects \cup {a}
    /\ fields' = [b \in objects' |-> IF b = a THEN [f \in Field |-> Nil] ELSE fields[b]]

Load(from, f, to) ==
  /\ roots[from] # Nil
  /\ roots' = [roots EXCEPT ![to] = fields[roots[from]][f]]
  /\ UNCHANGED <<objects, fields>>

Store(to, f, from) ==
  /\ roots[to] # Nil
  /\ UNCHANGED <<roots, objects>>
  /\ fields' = [fields EXCEPT ![roots[to]][f] = roots[from]]

Drop(s) ==
  /\ roots' = [roots EXCEPT ![s] = Nil]
  /\ UNCHANGED <<objects, fields>>

(* R holds what the roots refer to, and what its objects refer to. *)
Closed(R) ==
  /\ \A s \in Slot : roots[s] \in R \cup {Nil}
  /\ \A a \in R, f \in Field : fields[a][f] \in R \cup {Nil}

(* Objects that no root reaches are gone. *)
Reclaim ==
  /\ UNCHANGED roots
  /\ objects' \subseteq objects
  /\ fields' = [a \in objects' |-> fields[a]]
  /\ \E R \in SUBSET objects' : Closed(R)

Next ==
  \/ Reclaim
  \/ \E s \in Slot : Create(s) \/ Drop(s)
  \/ \E s, t \in Slot, f \in Field : Load(s, f, t) \/ Store(s, f, t)

Spec == Init /\ [][Next]_<<objects, fields, roots>>
=============================================================================
