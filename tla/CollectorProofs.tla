-------------------------- MODULE CollectorProofs --------------------------
(***************************************************************************)
(* Proofs about Heap: a collection keeps exactly what the roots reach, in  *)
(* whatever way marking runs out of stack, and so the heap implements      *)
(* ObjectHeap.                                                             *)
(***************************************************************************)
EXTENDS HeapProofs

(* How many addresses of the run at p may hold objects. *)
Depth(r, cs, p) ==
  IF r.header[p].kind = "large" THEN 1 ELSE LinkedPart(cs, p, r.header[p].class)

(* The addresses that may hold objects. *)
Room(r, cs, f) ==
  {a \in Address :
     /\ a[1] \in RunsOf(r, {"class", "large"})
     /\ a[1] \notin f.start..f.start + f.pages - 1
     /\ a[2] < Depth(r, cs, a[1])}

(* R holds what the roots refer to and what its objects refer to. *)
Closed(ro, fi, R) ==
  /\ \A s \in Slot : ro[s] \in R \cup {Nil}
  /\ \A a \in R, f \in Field : fi[a][f] \in R \cup {Nil}

Least(ro, fi, R) ==
  Closed(ro, fi, R) /\ \A Q \in SUBSET Address : Closed(ro, fi, Q) => R \subseteq Q

(* What the rescan has not come to. *)
Later(at) == {a \in Address : a[1] > at[1] \/ (a[1] = at[1] /\ a[2] >= at[2])}

(* The marking m of the objects of S, with those of late still to trace:   *)
(* only what is reachable is marked, and what a marked object refers to is *)
(* marked, or the object is on the stack, or the stack has overflowed.     *)
Colored(m, S, X, fi, late) ==
  /\ ToSet(m.stack) \subseteq m.marked \cap S
  /\ m.marked \cap S \subseteq X
  /\ \A a \in m.marked \cap S :
       \/ a \in ToSet(m.stack) \/ m.overflowed \/ a \in late
       \/ \A f \in Field : fi[a][f] \in m.marked \cup {Nil}

MarkingInv ==
  /\ Colored(Marking, Stored, Reachable, fields,
             IF pc = "rescan" THEN Later(marker.at) ELSE {})
  /\ \A s \in Slot : (pc = "roots" => s <= marker.at[2]) => roots[s] \in marked \cup {Nil}

(* Before the sweep objects have marks if reachable; behind it they are    *)
(* reachable and have none.                                                *)
SweepInv ==
  /\ Closed(roots, fields, Reachable) /\ Reachable \subseteq Stored
  /\ \A a \in Stored :
       /\ a[1] < marker.at[1] => a \in Reachable /\ a \notin marked
       /\ a[1] >= marker.at[1] => (a \in marked <=> a \in Reachable)

ReachInv ==
  /\ pc # "sweep" => Closed(roots, fields, Stored)
  /\ pc \in {"mutator", "allocate"} => marked \cap Stored = {}
  /\ pc \in {"roots", "drain", "rescan"} => MarkingInv
  /\ pc = "sweep" => SweepInv

-----------------------------------------------------------------------------
(* Stored, of a heap by name. *)
StoredAs(o, r, cs, f) ==
  {a \in o :
     /\ a[1] \in (RunStarts(r) \ (f.start..f.start + f.pages - 1)) \ {r.end + 1}
     /\ a[2] < (CASE r.header[a[1]].kind = "class" ->
                       LinkedPart(cs, a[1], r.header[a[1]].class)
                  [] r.header[a[1]].kind = "large" -> 1
                  [] OTHER -> 0)}

(* The objects are those where there is room for objects. *)
LEMMA RoomIs ==
  ASSUME NEW r, Layout(r), NEW o \in SUBSET Address, NEW cs, NEW f
  PROVE  StoredAs(o, r, cs, f) = o \cap Room(r, cs, f)
<1>1. /\ r \in RunsSet /\ r.end \in Nat /\ RunStarts(r) \subseteq 1..r.end + 1
      /\ \A p \in RunStarts(r) : p \in Nat /\ (p <= r.end => p \in Page)
  BY LayoutFacts
<1>2. ASSUME NEW a \in o
      PROVE  a[2] \in Nat
  BY HeapAssumption DEF Address, Size
<1>3. ASSUME NEW a \in o, NEW p, p = a[1], p \in RunStarts(r)
      PROVE  /\ a[2] < (CASE r.header[p].kind = "class" -> LinkedPart(cs, p, r.header[p].class)
                          [] r.header[p].kind = "large" -> 1
                          [] OTHER -> 0)
             /\ p # r.end + 1
             <=> p \in RunsOf(r, {"class", "large"}) /\ a[2] < Depth(r, cs, p)
  <2>1. p <= r.end <=> p # r.end + 1
    BY <1>1, <1>3
  <2>2. CASE r.header[p].kind = "class"
    BY <1>3, <2>1, <2>2 DEF RunsOf, Depth
  <2>3. CASE r.header[p].kind = "large"
    BY <1>3, <2>1, <2>3 DEF RunsOf, Depth
  <2>4. CASE r.header[p].kind # "class" /\ r.header[p].kind # "large"
    <3>1. p \notin RunsOf(r, {"class", "large"})
      BY <2>4 DEF RunsOf
    <3>2. ~(a[2] < 0)
      BY <1>2
    <3>3. QED
      BY <2>4, <3>1, <3>2
  <2>5. QED
    BY <2>2, <2>3, <2>4
<1>4. ASSUME NEW a \in o
      PROVE  a \in StoredAs(o, r, cs, f) <=> a \in Room(r, cs, f)
  <2>1. PICK p : p = a[1]
    OBVIOUS
  <2>2. a \in Room(r, cs, f) <=>
          /\ p \in RunsOf(r, {"class", "large"})
          /\ p \notin f.start..f.start + f.pages - 1 /\ a[2] < Depth(r, cs, p)
    BY <2>1 DEF Room
  <2>3. p \in RunsOf(r, {"class", "large"}) => p \in RunStarts(r)
    BY DEF RunsOf
  <2>4. a \in StoredAs(o, r, cs, f) <=>
          /\ p \in RunStarts(r) /\ p \notin f.start..f.start + f.pages - 1 /\ p # r.end + 1
          /\ a[2] < (CASE r.header[p].kind = "class" -> LinkedPart(cs, p, r.header[p].class)
                       [] r.header[p].kind = "large" -> 1
                       [] OTHER -> 0)
    BY <2>1 DEF StoredAs
  <2>5. QED
    BY <1>3, <2>1, <2>2, <2>3, <2>4
<1>5. QED
  BY <1>4 DEF StoredAs

-----------------------------------------------------------------------------
(* Reachable, of references by name: N times a step from what the roots    *)
(* refer to.                                                               *)
Rooted(ro) == {ro[s] : s \in Slot} \ {Nil}

Grow(fi, R) == R \cup ({fi[a][f] : a \in R, f \in Field} \ {Nil})

ReachAs(ro, fi, N) ==
  LET reached[n \in 0..N] == IF n = 0 THEN Rooted(ro) ELSE Grow(fi, reached[n - 1])
  IN  reached[N]

ReachStep(g, ro, fi, N) ==
  [n \in 0..N |-> IF n = 0 THEN Rooted(ro) ELSE Grow(fi, g[n - 1])]

(* ReachAs, with its recursive function as a choice. *)
LEMMA ReachUnfolds ==
  ASSUME NEW ro, NEW fi, NEW N
  PROVE  ReachAs(ro, fi, N) = (CHOOSE g : g = ReachStep(g, ro, fi, N))[N]
  BY DEF ReachAs, ReachStep

(* The steps, one after another. *)
LEMMA ReachExists ==
  ASSUME NEW ro \in [Slot -> Reference], NEW fi \in [Address -> [Field -> Reference]],
         NEW N \in Nat
  PROVE  \E g : /\ ReachAs(ro, fi, N) = g[N] /\ g[0] = Rooted(ro)
                /\ \A n \in 1..N : g[n] = Grow(fi, g[n - 1])
                /\ \A n \in 0..N : g[n] \subseteq Address
<1>1. PICK X : X = SUBSET Address
  OBVIOUS
<1>2. PICK D : D = [Rn \in X \X (1..N) |-> Grow(fi, Rn[1])]
  OBVIOUS
<1>3. ASSUME NEW R \in X
      PROVE  Grow(fi, R) \in X
  BY <1>1 DEF Grow, Reference
<1>4. D \in [X \X (1..N) -> X]
  <2>1. ASSUME NEW Rn \in X \X (1..N)
        PROVE  Grow(fi, Rn[1]) \in X
    <3>1. PICK R \in X : Rn[1] = R
      OBVIOUS
    <3>2. QED
      BY <1>3, <3>1
  <2>2. QED
    BY <1>2, <2>1
<1>5. PICK start \in X : start = Rooted(ro)
  BY <1>1 DEF Rooted, Reference
<1>6. PICK h : Repeats(h, N, X, D, start)
  BY <1>4, <1>5, Repeated
<1>7. h \in [0..N -> X] /\ h[0] = start /\ \A n \in 1..N : h[n] = Grow(fi, h[n - 1])
  <2>1. h \in [0..N -> X] /\ h[0] = start /\ \A n \in 1..N : h[n] = D[<<h[n - 1], n>>]
    BY <1>6 DEF Repeats
  <2>2. ASSUME NEW n \in 1..N
        PROVE  h[n] = Grow(fi, h[n - 1])
    <3>1. n - 1 \in 0..N
      OBVIOUS
    <3>2. PICK R \in X : R = h[n - 1]
      BY <2>1, <3>1
    <3>3. D[<<R, n>>] = Grow(fi, R)
      BY <1>2
    <3>4. QED
      BY <2>1, <3>2, <3>3
  <2>3. QED
    BY <2>1, <2>2
<1>8. h = ReachStep(h, ro, fi, N)
  <2>1. h = [n \in 0..N |-> h[n]]
    BY <1>7
  <2>2. ASSUME NEW n \in 0..N
        PROVE  h[n] = IF n = 0 THEN Rooted(ro) ELSE Grow(fi, h[n - 1])
    BY <1>5, <1>7
  <2>3. h = [n \in 0..N |-> IF n = 0 THEN Rooted(ro) ELSE Grow(fi, h[n - 1])]
    BY <2>1, <2>2
  <2>4. QED
    BY <2>3 DEF ReachStep
<1>9. PICK g : g = (CHOOSE y : y = ReachStep(y, ro, fi, N))
  OBVIOUS
<1>10. g = ReachStep(g, ro, fi, N)
  BY <1>8, <1>9, Zenon
<1>11. \A n \in 0..N : g[n] = IF n = 0 THEN Rooted(ro) ELSE Grow(fi, g[n - 1])
  BY <1>10 DEF ReachStep
<1>12. g[0] = Rooted(ro) /\ \A n \in 1..N : g[n] = Grow(fi, g[n - 1])
  BY <1>11
<1>13. \A n \in 0..N : g[n] \in X
  <2>1. PICK Bad : Bad = {n \in 0..N : g[n] \notin X}
    OBVIOUS
  <2>2. ASSUME Bad # {}
        PROVE  FALSE
    <3>1. PICK n \in Bad : \A k \in Bad : n <= k
      BY <2>1, <2>2, LeastExists, Bad \subseteq Nat
    <3>2. n # 0 /\ n \in 1..N
      BY <1>5, <1>12, <2>1, <3>1
    <3>3. n - 1 \notin Bad /\ n - 1 \in 0..N
      BY <3>1, <3>2
    <3>4. g[n - 1] \in X
      BY <2>1, <3>3
    <3>5. g[n] \in X
      BY <1>3, <1>12, <3>2, <3>4
    <3>6. QED
      BY <2>1, <3>1, <3>5
  <2>3. QED
    BY <2>1, <2>2
<1>14. ReachAs(ro, fi, N) = g[N]
  BY <1>9, ReachUnfolds, Zenon
<1>15. QED
  BY <1>1, <1>12, <1>13, <1>14

(* There are finitely many addresses. *)
LEMMA AddressesFinite == IsFiniteSet(Address)
<1>1. \A c \in Class : CellsPerPage[c] \in Nat
  BY HeapAssumption
<1>2. IsFiniteSet({CellsPerPage[c] : c \in Class})
  <2>1. PICK f : f = [c \in Class |-> CellsPerPage[c]]
    OBVIOUS
  <2>2. PICK T : T = {CellsPerPage[c] : c \in Class}
    OBVIOUS
  <2>3. f \in Surjection(Class, T)
    BY <2>1, <2>2 DEF Surjection
  <2>4. IsFiniteSet(T)
    BY <2>3, HeapAssumption, FS_Surjection
  <2>5. QED
    BY <2>2, <2>4
<1>3. IsFiniteSet(Size)
  BY <1>2, FS_AddElement DEF Size
<1>4. PICK U : U = {0..n - 1 : n \in Size}
  OBVIOUS
<1>5. IsFiniteSet(U)
  <2>1. PICK f : f = [n \in Size |-> 0..n - 1]
    OBVIOUS
  <2>2. f \in Surjection(Size, U)
    BY <1>4, <2>1 DEF Surjection
  <2>3. QED
    BY <1>3, <2>2, FS_Surjection
<1>6. \A T \in U : IsFiniteSet(T)
  <2>1. ASSUME NEW n \in Size
        PROVE  IsFiniteSet(0..n - 1)
    <3>1. n \in Nat
      BY <1>1 DEF Size
    <3>2. QED
      BY <3>1, FS_Interval
  <2>2. QED
    BY <1>4, <2>1
<1>7. IsFiniteSet(UNION U)
  BY <1>5, <1>6, FS_UNION
<1>8. IsFiniteSet(Page)
  BY HeapAssumption, FS_Interval DEF Page
<1>9. QED
  BY <1>4, <1>7, <1>8, FS_Product DEF Address

(* What the references from addresses reach is the least set that they do  *)
(* not leave, and found in as many steps as a set that they do not leave   *)
(* has addresses.                                                          *)
LEMMA LeastReached ==
  ASSUME NEW ro \in [Slot -> Reference], NEW fi \in [Address -> [Field -> Reference]],
         NEW o \in SUBSET Address, NEW Q \in SUBSET o, Closed(ro, fi, Q)
  PROVE  Least(ro, fi, ReachAs(ro, fi, Cardinality(o)))
<1>1. IsFiniteSet(o)
  BY AddressesFinite, FS_Subset
<1>2. PICK N \in Nat : N = Cardinality(o)
  BY <1>1, FS_CardinalityType
<1>3. PICK g : /\ ReachAs(ro, fi, N) = g[N] /\ g[0] = Rooted(ro)
               /\ \A n \in 1..N : g[n] = Grow(fi, g[n - 1])
               /\ \A n \in 0..N : g[n] \subseteq Address
  BY ReachExists
<1>4. ASSUME NEW Z, Closed(ro, fi, Z)
      PROVE  g[N] \subseteq Z
  <2>1. PICK P : P = (SUBSET Z) \X (0..N)
    OBVIOUS
  <2>2. <<g[0], 0>> \in P
    <3>1. Rooted(ro) \subseteq Z
      BY <1>4 DEF Rooted, Closed
    <3>2. QED
      BY <1>3, <2>1, <3>1
  <2>3. ASSUME NEW n \in 1..N, <<g[n - 1], n - 1>> \in P
        PROVE  <<g[n], n>> \in P
    <3>1. PICK R \in SUBSET Z : R = g[n - 1]
      BY <2>1, <2>3
    <3>2. Grow(fi, R) \subseteq Z
      BY <1>4 DEF Grow, Closed
    <3>3. QED
      BY <1>3, <2>1, <3>1, <3>2
  <2>4. <<g[N], N>> \in P
    BY <2>2, <2>3, RepeatedKeeps
  <2>5. QED
    BY <2>1, <2>4
<1>5. PICK P : P = {Rn \in (SUBSET Address) \X (0..N) :
                      /\ Rooted(ro) \subseteq Rn[1] /\ IsFiniteSet(Rn[1])
                      /\ Grow(fi, Rn[1]) = Rn[1] \/ Cardinality(Rn[1]) >= Rn[2]}
  OBVIOUS
<1>6. ASSUME NEW R \in SUBSET Address
      PROVE  IsFiniteSet(R) /\ Cardinality(R) \in Nat
  BY AddressesFinite, FS_Subset, FS_CardinalityType
<1>7. <<g[0], 0>> \in P
  <2>1. PICK R \in SUBSET Address : R = g[0]
    BY <1>3
  <2>2. IsFiniteSet(R) /\ Cardinality(R) >= 0
    BY <1>6
  <2>3. QED
    BY <1>3, <1>5, <2>1, <2>2
<1>8. ASSUME NEW n \in 1..N, <<g[n - 1], n - 1>> \in P
      PROVE  <<g[n], n>> \in P
  <2>1. n - 1 \in 0..N /\ n \in 0..N /\ n \in Nat
    OBVIOUS
  <2>2. PICK R \in SUBSET Address : R = g[n - 1]
    BY <1>3, <2>1
  <2>3. PICK V \in SUBSET Address : V = g[n] /\ V = Grow(fi, R)
    BY <1>3, <2>1, <2>2
  <2>4. Rooted(ro) \subseteq R /\ (Grow(fi, R) = R \/ Cardinality(R) >= n - 1)
    BY <1>5, <1>8, <2>2
  <2>5. R \subseteq V
    BY <2>3 DEF Grow
  <2>6. Grow(fi, V) = V \/ Cardinality(V) >= n
    <3>1. CASE V = R
      BY <2>3, <3>1
    <3>2. CASE V # R
      <4>1. Cardinality(R) <= Cardinality(V) /\ Cardinality(R) # Cardinality(V)
        BY <1>6, <2>5, <3>2, FS_Subset
      <4>2. Cardinality(R) \in Nat /\ Cardinality(V) \in Nat
        BY <1>6
      <4>3. Cardinality(R) >= n - 1
        BY <2>3, <2>4, <3>2
      <4>4. QED
        BY <2>1, <4>1, <4>2, <4>3
    <3>3. QED
      BY <3>1, <3>2
  <2>7. IsFiniteSet(V)
    BY <1>6
  <2>8. QED
    BY <1>5, <2>1, <2>3, <2>4, <2>5, <2>6, <2>7
<1>9. <<g[N], N>> \in P
  BY <1>7, <1>8, RepeatedKeeps
<1>10. PICK X \in SUBSET Address : X = g[N]
  BY <1>3
<1>11. Rooted(ro) \subseteq X /\ (Grow(fi, X) = X \/ Cardinality(X) >= N)
  BY <1>5, <1>9, <1>10
<1>12. X \subseteq Q
  BY <1>4, <1>10
<1>13. Closed(ro, fi, X)
  <2>1. CASE Grow(fi, X) = X
    BY <1>11, <2>1 DEF Closed, Grow, Rooted
  <2>2. CASE Cardinality(X) >= N
    <3>1. Cardinality(X) <= N /\ (Cardinality(o) = Cardinality(X) => o = X)
      BY <1>1, <1>2, <1>12, FS_Subset
    <3>2. o = X
      BY <1>2, <1>6, <2>2, <3>1
    <3>3. Q = X
      BY <1>12, <3>2
    <3>4. QED
      BY <3>3
  <2>3. QED
    BY <1>11, <2>1, <2>2
<1>14. QED
  BY <1>2, <1>3, <1>4, <1>10, <1>13 DEF Least

-----------------------------------------------------------------------------
(* Stored and Reachable, before and after a step. *)
LEMMA StoredNow == Stored = StoredAs(objects, runs, cells, found)
BY DEF Stored, StoredAs, Starts, FoundPages, RunCells, UsedCells, LinkedPart

(* The same of Stored after a step. *)
LEMMA StoredNext == Stored' = StoredAs(objects', runs', cells', found')
BY DEF Stored, StoredAs, Starts, FoundPages, RunCells, UsedCells, LinkedPart

(* Reachable, of references by name. *)
LEMMA ReachableNow == Reachable = ReachAs(roots, fields, Cardinality(objects))
BY DEF Reachable, ReachAs, Rooted, Grow

(* The same of Reachable after a step. *)
LEMMA ReachableNext == Reachable' = ReachAs(roots', fields', Cardinality(objects'))
BY DEF Reachable, ReachAs, Rooted, Grow

(* The pages of objects are laid out in every state. *)
LEMMA InvLayout ==
  ASSUME IInv
  PROVE  Layout(runs) /\ objects \in SUBSET Address /\ marked \subseteq objects
  BY DEF IInv, RunsInv, GoodRuns, Swept, Typed

(* The objects of the heap are those where there is room for objects. *)
LEMMA StoredIs ==
  ASSUME IInv
  PROVE  /\ Stored = objects \cap Room(runs, cells, found)
         /\ Stored \subseteq objects /\ Stored \subseteq Address
  BY ONLY IInv, InvLayout, RoomIs, StoredNow

(* The same after a step. *)
LEMMA StoredIsNext ==
  ASSUME IInv'
  PROVE  /\ Stored' = objects' \cap Room(runs', cells', found')
         /\ Stored' \subseteq objects' /\ Stored' \subseteq Address
<1>1. Layout(runs') /\ objects' \in SUBSET Address
  BY DEF IInv, RunsInv, GoodRuns, Swept, Typed
<1>2. QED
  BY <1>1, RoomIs, StoredNext

(* Reachable is the least set the references do not leave. *)
LEMMA ReachableIs ==
  ASSUME IInv, NEW Q \in SUBSET objects, Closed(roots, fields, Q)
  PROVE  Least(roots, fields, Reachable) /\ Reachable \subseteq Q
<1>1. /\ objects \in SUBSET Address /\ roots \in [Slot -> Reference]
      /\ fields \in [Address -> [Field -> Reference]]
  BY DEF IInv, Typed
<1>2. Least(roots, fields, Reachable)
  BY <1>1, LeastReached, ReachableNow
<1>3. QED
  BY <1>1, <1>2 DEF Least

(* The same after a step. *)
LEMMA ReachableIsNext ==
  ASSUME IInv', NEW Q \in SUBSET objects', Closed(roots', fields', Q)
  PROVE  Least(roots', fields', Reachable') /\ Reachable' \subseteq Q
<1>1. /\ objects' \in SUBSET Address /\ roots' \in [Slot -> Reference]
      /\ fields' \in [Address -> [Field -> Reference]]
  BY DEF IInv, Typed
<1>2. Least(roots', fields', Reachable')
  BY <1>1, LeastReached, ReachableNext
<1>3. QED
  BY <1>1, <1>2 DEF Least

(* Runs that hold objects are the same, and so is the room. *)
LEMMA RoomKept ==
  ASSUME NEW r, NEW w, Kept(r, w), NEW cs, NEW f
  PROVE  Room(w, cs, f) = Room(r, cs, f)
<1>1. ASSUME NEW p \in RunsOf(r, {"class", "large"})
      PROVE  Depth(w, cs, p) = Depth(r, cs, p)
  BY DEF Kept, Depth
<1>2. QED
  BY <1>1 DEF Room, Kept

(* Only the cursors matter. *)
LEMMA RoomCursors ==
  ASSUME NEW r, NEW cs, NEW ds, NEW f, \A c \in Class : ds[c].cursor = cs[c].cursor, Layout(r)
  PROVE  Room(r, ds, f) = Room(r, cs, f)
<1>1. ASSUME NEW p \in RunsOf(r, {"class", "large"})
      PROVE  Depth(r, ds, p) = Depth(r, cs, p)
  <2>1. r.header[p].kind # "large" => r.header[p].class \in Class
    BY DEF RunsOf, Layout
  <2>2. QED
    BY <2>1 DEF Depth, LinkedPart
<1>2. QED
  BY <1>1 DEF Room

-----------------------------------------------------------------------------
(* A step that changes no object, no reference and no place of an object. *)
Quiet == Stored' = Stored /\ UNCHANGED <<roots, fields>>

(* The objects stay where the runs, the cursors and the objects do. *)
LEMMA StoredStays ==
  ASSUME IInv, IInv', objects' = objects, found' = found, Kept(runs, runs'),
         \A c \in Class : cells'[c].cursor = cells[c].cursor
  PROVE  Stored' = Stored
<1>1. Room(runs', cells', found') = Room(runs', cells, found)
  <2>1. Layout(runs')
    BY DEF IInv, RunsInv, GoodRuns, Swept, Typed
  <2>2. QED
    BY <2>1, RoomCursors
<1>2. Room(runs', cells, found) = Room(runs, cells, found)
  BY RoomKept
<1>3. QED
  BY <1>1, <1>2, StoredIs, StoredIsNext

(* A run is where it is. *)
LEMMA KeptSelf ==
  ASSUME NEW r
  PROVE  Kept(r, r)
  BY DEF Kept

(* Nor do they move when nothing of the heap changes. *)
LEMMA StoredSame ==
  ASSUME IInv, IInv', UNCHANGED <<runs, cells, objects, found>>
  PROVE  Stored' = Stored
  BY KeptSelf, StoredStays

(* A step of the mutator or to an allocation. *)
LEMMA QuietReach ==
  ASSUME IInv, IInv', ReachInv, pc \in {"mutator", "allocate"}, pc' \in {"mutator", "allocate"},
         UNCHANGED <<roots, runs, cells, objects, marked, fields, found>>
  PROVE  ReachInv' /\ Quiet
<1>1. Stored' = Stored
  BY StoredSame
<1>2. Closed(roots', fields', Stored') /\ marked' \cap Stored' = {}
  BY <1>1 DEF ReachInv
<1>3. QED
  BY <1>1, <1>2 DEF ReachInv, Quiet

(* A collection begins without marks. *)
LEMMA CollectReach ==
  ASSUME IInv, IInv', ReachInv, pc \in {"mutator", "allocate"}, Collect
  PROVE  ReachInv' /\ Quiet
<1>1. Kept(runs, runs')
  BY OpenedGood DEF IInv, RunsInv, Collect
<1>2. Stored' = Stored
  BY <1>1, StoredStays DEF Collect
<1>3. Closed(roots', fields', Stored') /\ marked' \cap Stored' = {} /\ pc' = "roots"
  BY <1>2 DEF ReachInv, Collect
<1>4. PICK m : m = Marking'
  OBVIOUS
<1>5. m.stack = <<>> /\ m.marked = marked'
  BY <1>4 DEF Collect, Marking
<1>6. ToSet(m.stack) = {}
  BY <1>5 DEF ToSet
<1>7. Colored(m, Stored', Reachable', fields', {})
  BY <1>3, <1>5, <1>6 DEF Colored
<1>8. \A s \in Slot : ~(s <= marker'.at[2])
  BY DEF Collect, Slot
<1>9. MarkingInv'
  BY <1>3, <1>4, <1>7, <1>8 DEF MarkingInv
<1>10. QED
  BY <1>2, <1>3, <1>9 DEF ReachInv, Quiet, Collect

(* The mutator moves references it can reach. *)
LEMMA MutateReach ==
  ASSUME IInv, IInv', ReachInv, Mutate
  PROVE  ReachInv' /\ Stored' = Stored
<1>1. /\ UNCHANGED <<pc, runs, cells, objects, marked, found>> /\ pc = "mutator"
  BY DEF Mutate, Load, Store, Drop
<1>2. Stored' = Stored
  BY <1>1, StoredSame
<1>3. Closed(roots, fields, Stored) /\ marked \cap Stored = {}
  BY <1>1 DEF ReachInv
<1>4. roots \in [Slot -> Reference] /\ fields \in [Address -> [Field -> Reference]]
  BY DEF IInv, Typed
<1>5. Closed(roots', fields', Stored)
  <2>1. ASSUME NEW s \in Slot, Drop(s)
        PROVE  Closed(roots', fields', Stored)
    BY <1>3, <1>4, <2>1 DEF Drop, Closed
  <2>2. ASSUME NEW s \in Slot, NEW t \in Slot, NEW f \in Field, Load(s, f, t)
        PROVE  Closed(roots', fields', Stored)
    <3>1. fields[roots[s]][f] \in Stored \cup {Nil}
      BY <1>3, <2>2 DEF Load, Closed
    <3>2. QED
      BY <1>3, <1>4, <2>2, <3>1 DEF Load, Closed
  <2>3. ASSUME NEW s \in Slot, NEW t \in Slot, NEW f \in Field, Store(s, f, t)
        PROVE  Closed(roots', fields', Stored)
    <3>1. PICK v \in Stored \cup {Nil} : v = roots[t]
      BY <1>3 DEF Closed
    <3>2. fields' = [fields EXCEPT ![roots[s]][f] = v] /\ roots' = roots
      BY <2>3, <3>1 DEF Store
    <3>3. \A a \in Address, e \in Field : fields'[a][e] \in {fields[a][e], v}
      BY <1>4, <3>2
    <3>4. QED
      BY <1>3, <3>2, <3>3, StoredIs DEF Closed
  <2>4. QED
    BY <2>1, <2>2, <2>3 DEF Mutate
<1>6. QED
  BY <1>1, <1>2, <1>3, <1>5 DEF ReachInv

(* A request begins an allocation or a collection. *)
LEMMA RequestReach ==
  ASSUME IInv, IInv', ReachInv, Request
  PROVE  ReachInv' /\ Quiet
<1>1. CASE RequestCollection
  BY <1>1, CollectReach DEF RequestCollection
<1>2. ASSUME NEW s, NEW kind, NEW size, Requested(s, kind, size)
      PROVE  ReachInv' /\ Quiet
  <2>1. CASE Collect
    BY <1>2, <2>1, CollectReach DEF Requested
  <2>2. CASE ~Collect
    BY <1>2, <2>2, QuietReach DEF Requested
  <2>3. QED
    BY <2>1, <2>2
<1>3. QED
  BY <1>1, <1>2 DEF Request, RequestCell, RequestLarge

(* No room for a new object. *)
LEMMA NoRoomReach ==
  ASSUME IInv, IInv', ReachInv, Exhausted \/ OutOfMemory
  PROVE  ReachInv' /\ Quiet
<1>1. CASE Exhausted
  BY <1>1, CollectReach DEF Exhausted, NoRoom
<1>2. CASE OutOfMemory
  BY <1>2, QuietReach DEF OutOfMemory, NoRoom
<1>3. QED
  BY <1>1, <1>2

(* The slot of the request receives a new object. *)
Created(a) ==
  /\ request.slot \in Slot /\ a \in Address /\ a \notin Stored /\ Stored' = Stored \cup {a}
  /\ roots' = [roots EXCEPT ![request.slot] = a]
  /\ fields' = [fields EXCEPT ![a] = NoFields]

(* An allocation at an address with room that holds nothing. *)
LEMMA AllocatedReach ==
  ASSUME IInv, IInv', ReachInv, pc = "allocate", NEW a \in Address, Allocated(a),
         a \notin Stored, Stored' = Stored \cup {a}
  PROVE  ReachInv' /\ Created(a)
<1>1. /\ roots \in [Slot -> Reference] /\ fields \in [Address -> [Field -> Reference]]
      /\ request.slot \in Slot
  <2>1. request \in RequestSet
    BY RequestIs
  <2>2. QED
    BY <2>1 DEF IInv, Typed, RequestSet
<1>2. Closed(roots, fields, Stored) /\ marked \cap Stored = {}
  BY DEF ReachInv
<1>3. /\ roots' = [roots EXCEPT ![request.slot] = a] /\ marked' = marked \ {a}
      /\ fields' = [fields EXCEPT ![a] = NoFields] /\ pc' = "mutator"
  BY DEF Allocated
<1>4. /\ \A s \in Slot : roots'[s] \in {roots[s], a}
      /\ \A b \in Address, f \in Field : fields'[b][f] = IF b = a THEN Nil ELSE fields[b][f]
  BY <1>1, <1>3 DEF NoFields
<1>5. Closed(roots', fields', Stored')
  <2>1. ASSUME NEW s \in Slot
        PROVE  roots'[s] \in Stored' \cup {Nil}
    BY <1>2, <1>4 DEF Closed
  <2>2. ASSUME NEW b \in Stored', NEW f \in Field
        PROVE  fields'[b][f] \in Stored' \cup {Nil}
    <3>1. b \in Address /\ (b # a => b \in Stored)
      BY StoredIs
    <3>2. QED
      BY <1>2, <1>4, <3>1 DEF Closed
  <2>3. QED
    BY <2>1, <2>2 DEF Closed
<1>6. marked' \cap Stored' = {}
  BY <1>2, <1>3
<1>7. QED
  BY <1>1, <1>3, <1>5, <1>6 DEF ReachInv, Created

(* Cells of the linked part of class pages have room for objects. *)
LEMMA CellRoom ==
  ASSUME NEW r, NEW cs, NEW f, f.pages = 0, f.start \in Nat, Layout(r),
         NEW a \in Address, NEW c, ClassPage(r, a[1], c)
  PROVE  a \in Room(r, cs, f) <=> a[2] < LinkedPart(cs, a[1], c)
<1>1. f.start..f.start + f.pages - 1 = {}
  OBVIOUS
<1>2. a[1] \in RunsOf(r, {"class", "large"}) /\ r.header[a[1]].kind = "class"
      /\ r.header[a[1]].class = c
  BY DEF ClassPage, RunsOf
<1>3. QED
  BY <1>1, <1>2 DEF Room, Depth

(* A cell from the list becomes an object. *)
LEMMA PopCellReach ==
  ASSUME IInv, IInv', ReachInv, PopCell
  PROVE  ReachInv' /\ \E a : Created(a)
<1>1. PICK c \in Class, a \in Address, s \in Seq(Address), t \in Seq(Address) : Popped(c, a, s, t)
  BY PopCellIs
<1>2. /\ pc = "allocate" /\ Allocated(a) /\ runs' = runs
      /\ ClassPage(runs, a[1], c) /\ a[2] < LinkedPart(cells, a[1], c) /\ a \notin objects
      /\ \A d \in Class : cells'[d].cursor = cells[d].cursor
  BY <1>1 DEF Popped
<1>3. objects' = objects \cup {a} /\ found' = found
  BY <1>2 DEF Allocated
<1>4. found.pages = 0 /\ found.start \in Nat /\ Layout(runs)
  BY <1>2 DEF IInv, Typed, RunsInv, GoodRuns
<1>5. a \in Room(runs, cells, found)
  BY <1>2, <1>4, CellRoom
<1>6. Room(runs', cells', found') = Room(runs, cells, found)
  BY <1>2, <1>3, <1>4, RoomCursors
<1>7. a \notin Stored /\ Stored' = Stored \cup {a}
  BY <1>2, <1>3, <1>5, <1>6, StoredIs, StoredIsNext
<1>8. QED
  BY <1>2, <1>7, AllocatedReach

(* A run that is taken is the only new place for objects. *)
LEMMA RunsTaken ==
  ASSUME NEW r, NEW w, NEW page, NEW header, Reused(r, w, page, header), header.kind # "system"
  PROVE  /\ page \notin RunsOf(r, {"class", "large"})
         /\ RunsOf(w, {"class", "large"}) = RunsOf(r, {"class", "large"}) \cup {page}
         /\ \A p \in RunsOf(r, {"class", "large"}) : w.header[p] = r.header[p]
         /\ w.header[page] = header
<1>1. /\ page \notin Busy(r) /\ Busy(w) = Busy(r) \cup {page} /\ w.header[page] = header
      /\ \A p \in Busy(r) : w.header[p] = r.header[p]
  BY DEF Reused
<1>2. /\ RunsOf(r, {"class", "large"}) = {p \in Busy(r) : r.header[p].kind # "system"}
      /\ RunsOf(w, {"class", "large"}) = {p \in Busy(w) : w.header[p].kind # "system"}
  BY BusyParts
<1>3. QED
  BY <1>1, <1>2

(* A run taken becomes a large object. *)
LEMMA TakeLargeReach ==
  ASSUME IInv, IInv', ReachInv, TakeLarge
  PROVE  ReachInv' /\ \E a : Created(a)
<1>1. PICK page \in Page : \E header, a : a \in Address /\ LargeTaken(page, header, a)
  BY TakeLargeIs
<1>2. PICK header, a : a \in Address /\ LargeTaken(page, header, a)
  BY <1>1
<1>3. /\ pc = "allocate" /\ cells' = cells /\ a = <<page, 0>> /\ Allocated(a)
      /\ header.kind = "large" /\ Reused(runs, runs', page, header)
  BY <1>2 DEF LargeTaken
<1>4. objects' = objects \cup {a} /\ found' = found
  BY <1>3 DEF Allocated
<1>5. found.pages = 0 /\ found.start \in Nat
  BY <1>3 DEF IInv, Typed, RunsInv
<1>6. /\ page \notin RunsOf(runs, {"class", "large"})
      /\ RunsOf(runs', {"class", "large"}) = RunsOf(runs, {"class", "large"}) \cup {page}
      /\ \A p \in RunsOf(runs, {"class", "large"}) : runs'.header[p] = runs.header[p]
      /\ runs'.header[page] = header
  BY <1>3, RunsTaken
<1>7. ASSUME NEW b \in Address
      PROVE  b \in Room(runs', cells', found') <=> b \in Room(runs, cells, found) \/ b = a
  <2>1. PICK p \in Page, i \in Nat : b = <<p, i>> /\ b[1] = p /\ b[2] = i
    <3>1. \A n \in Size : n \in Nat
      BY HeapAssumption DEF Size
    <3>2. QED
      BY <3>1 DEF Address
  <2>2. found.start..found.start + found.pages - 1 = {}
    BY <1>5
  <2>3. CASE p = page
    <3>1. Depth(runs', cells', p) = 1
      BY <1>3, <1>6, <2>3 DEF Depth
    <3>2. i < 1 <=> i = 0
      OBVIOUS
    <3>3. QED
      BY <1>3, <1>4, <1>6, <2>1, <2>2, <2>3, <3>1, <3>2 DEF Room
  <2>4. CASE p # page
    <3>1. p \in RunsOf(runs, {"class", "large"}) => Depth(runs', cells', p) = Depth(runs, cells, p)
      BY <1>3, <1>6 DEF Depth
    <3>2. b # a
      BY <1>3, <2>1, <2>4
    <3>3. QED
      BY <1>4, <1>6, <2>1, <2>4, <3>1, <3>2 DEF Room
  <2>5. QED
    BY <2>3, <2>4
<1>8. a \notin Room(runs, cells, found)
  BY <1>3, <1>6 DEF Room
<1>9. a \notin Stored /\ Stored' = Stored \cup {a}
  <2>1. ASSUME NEW b
        PROVE  b \in Stored' <=> b \in Stored \/ b = a
    BY <1>2, <1>4, <1>7, StoredIs, StoredIsNext
  <2>2. QED
    BY <1>8, <2>1, StoredIs
<1>10. QED
  BY <1>2, <1>3, <1>9, AllocatedReach

(* The room that refill_class adds: the cells it links. *)
LEMMA RefillRoom ==
  ASSUME IInv, IInv', NEW c \in Class, NEW p \in Page, NEW k \in 0..CellsPerPage[c] - 1,
         Refilled(c, p, k), NEW end \in k + 1..CellsPerPage[c],
         cells'[c].cursor = IF end = CellsPerPage[c] THEN Nil ELSE <<p, end>>,
         \A d \in Class : d # c => cells'[d] = cells[d], NEW b \in Address
  PROVE  /\ b[1] # p => (b \in Room(runs', cells', found') <=> b \in Room(runs, cells, found))
         /\ b[1] = p => /\ b \in Room(runs', cells', found') <=> b[2] < end
                        /\ b \in Room(runs, cells, found) <=> b[2] < k
<1>1. PICK q \in Page, i \in Nat : b = <<q, i>> /\ b[1] = q /\ b[2] = i
  <2>1. \A n \in Size : n \in Nat
    BY HeapAssumption DEF Size
  <2>2. QED
    BY <2>1 DEF Address
<1>2. pc = "allocate" /\ found' = found
  BY DEF Refilled
<1>3. found.pages = 0 /\ found.start \in Nat /\ Layout(runs) /\ GoodCells(runs, cells, objects)
  BY <1>2 DEF IInv, Typed, RunsInv, GoodRuns
<1>4. Layout(runs')
  BY DEF IInv, RunsInv, GoodRuns, Swept
<1>5. found.start..found.start + found.pages - 1 = {}
  BY <1>3
<1>6. CellsPerPage[c] \in Nat /\ k \in Nat /\ end \in Nat
  BY HeapAssumption
<1>7. \A a \in Address : a # Nil
  BY HeapAssumption
<1>8. LinkedPart(cells', p, c) = end
  <2>1. CASE end = CellsPerPage[c]
    BY <2>1 DEF LinkedPart
  <2>2. CASE end # CellsPerPage[c]
    <3>1. end \in 0..CellsPerPage[c] - 1
      BY <1>6, <2>2
    <3>2. <<p, end>> # Nil
      BY <1>7, <3>1, CellAddress
    <3>3. QED
      BY <2>2, <3>2 DEF LinkedPart
  <2>3. QED
    BY <2>1, <2>2
<1>9. CASE k # 0 /\ cells[c].cursor = <<p, k>> /\ ClassPage(runs, p, c) /\ runs' = runs
  <2>1. LinkedPart(cells, p, c) = k
    <3>1. <<p, k>> # Nil
      BY <1>7, CellAddress
    <3>2. QED
      BY <1>9, <3>1 DEF LinkedPart
  <2>2. CASE q = p
    BY <1>1, <1>2, <1>3, <1>8, <1>9, <2>1, <2>2, CellRoom
  <2>3. CASE q # p
    <3>1. q \in RunsOf(runs, {"class", "large"}) => Depth(runs, cells', q) = Depth(runs, cells, q)
      <4>1. ASSUME NEW d \in Class
            PROVE  LinkedPart(cells', q, d) = LinkedPart(cells, q, d)
        <5>1. CASE d = c
          BY <1>9, <2>3, <5>1 DEF LinkedPart
        <5>2. CASE d # c
          BY <5>2 DEF LinkedPart
        <5>3. QED
          BY <5>1, <5>2
      <4>2. q \in RunsOf(runs, {"class", "large"}) /\ runs.header[q].kind # "large" =>
              runs.header[q].class \in Class
        BY <1>3 DEF RunsOf, Layout
      <4>3. QED
        BY <4>1, <4>2 DEF Depth
    <3>2. QED
      BY <1>1, <1>2, <1>9, <2>3, <3>1 DEF Room
  <2>4. QED
    BY <1>1, <2>2, <2>3
<1>10. ASSUME k = 0, cells[c].cursor = Nil, NEW header, header.kind = "class", header.class = c,
              Reused(runs, runs', p, header)
       PROVE  /\ q # p => (b \in Room(runs', cells', found') <=> b \in Room(runs, cells, found))
              /\ q = p => /\ b \in Room(runs', cells', found') <=> i < end
                          /\ b \notin Room(runs, cells, found)
  <2>1. /\ p \notin RunsOf(runs, {"class", "large"})
        /\ RunsOf(runs', {"class", "large"}) = RunsOf(runs, {"class", "large"}) \cup {p}
        /\ \A x \in RunsOf(runs, {"class", "large"}) : runs'.header[x] = runs.header[x]
        /\ runs'.header[p] = header
    BY <1>10, RunsTaken
  <2>2. CASE q = p
    <3>1. Depth(runs', cells', q) = end
      BY <1>8, <1>10, <2>1, <2>2 DEF Depth
    <3>2. QED
      BY <1>1, <1>2, <1>5, <2>1, <2>2, <3>1 DEF Room
  <2>3. CASE q # p
    <3>1. q \in RunsOf(runs, {"class", "large"}) => Depth(runs', cells', q) = Depth(runs, cells, q)
      <4>1. ASSUME NEW d \in Class
            PROVE  LinkedPart(cells', q, d) = LinkedPart(cells, q, d)
        <5>1. CASE d = c
          BY <1>10, <2>3, <5>1 DEF LinkedPart
        <5>2. CASE d # c
          BY <5>2 DEF LinkedPart
        <5>3. QED
          BY <5>1, <5>2
      <4>2. q \in RunsOf(runs, {"class", "large"}) /\ runs.header[q].kind # "large" =>
              runs.header[q].class \in Class
        BY <1>3 DEF RunsOf, Layout
      <4>3. QED
        BY <2>1, <4>1, <4>2 DEF Depth
    <3>2. QED
      BY <1>1, <1>2, <2>1, <2>3, <3>1 DEF Room
  <2>4. QED
    BY <2>2, <2>3
<1>11. CASE k = 0 /\ \E header : /\ header.kind = "class" /\ header.class = c
                                /\ Reused(runs, runs', p, header)
            /\ cells[c].cursor = Nil
  <2>1. ~(i < 0)
    OBVIOUS
  <2>2. QED
    BY <1>1, <1>10, <1>11, <2>1
<1>12. QED
  BY <1>9, <1>11 DEF Refilled

(* refill_class makes and removes no object. *)
LEMMA RefillClassReach ==
  ASSUME IInv, IInv', ReachInv, RefillClass
  PROVE  ReachInv' /\ Quiet
<1>1. PICK c \in Class : \E p \in Page, k \in 0..CellsPerPage[c] - 1 : Refilled(c, p, k)
  BY RefillClassIs
<1>2. PICK p \in Page, k \in 0..CellsPerPage[c] - 1 : Refilled(c, p, k)
  BY <1>1
<1>3. /\ pc = "allocate" /\ cells[c].free = <<>> /\ Linked(c, <<p, k>>)
      /\ UNCHANGED <<pc, request, roots, fields, marker, found>>
  BY <1>2 DEF Refilled
<1>4. PICK end \in k + 1..CellsPerPage[c] : \E linked, unlinked, stale, old :
        CellsLinked(c, p, k, end, linked, unlinked, stale, old)
  BY <1>3, LinkedIs
<1>5. PICK linked, unlinked, stale, old : CellsLinked(c, p, k, end, linked, unlinked, stale, old)
  BY <1>4
<1>6. /\ ToSet(linked) = {<<p, i>> : i \in k..end - 1}
      /\ \A a \in unlinked :
           k = 0 /\ a[1] = p /\ a[2] \in end..CellsPerPage[c] - 1 /\ a \in Address
      /\ stale \subseteq unlinked /\ old \subseteq unlinked
      /\ objects' = (objects \ ToSet(linked)) \cup stale \cup old
      /\ marked' = (marked \ ToSet(linked)) \cup old
      /\ cells'[c].cursor = IF end = CellsPerPage[c] THEN Nil ELSE <<p, end>>
      /\ \A d \in Class : d # c => cells'[d] = cells[d]
  BY <1>5 DEF CellsLinked
<1>7. CellsPerPage[c] \in Nat /\ k \in Nat /\ end \in Nat
  BY HeapAssumption
<1>8. ASSUME NEW b \in Address
      PROVE  /\ b[1] # p => (b \in Room(runs', cells', found') <=> b \in Room(runs, cells, found))
             /\ b[1] = p => /\ b \in Room(runs', cells', found') <=> b[2] < end
                            /\ b \in Room(runs, cells, found) <=> b[2] < k
  BY <1>2, <1>6, RefillRoom
<1>9. ASSUME NEW b \in Address, b \in Room(runs', cells', found')
      PROVE  /\ b \notin unlinked
             /\ b[1] = p => (b \in ToSet(linked) <=> ~(b[2] < k))
             /\ b[1] # p => b \notin ToSet(linked)
  <2>1. PICK q \in Page, i \in Nat : b = <<q, i>> /\ b[1] = q /\ b[2] = i
    <3>1. \A n \in Size : n \in Nat
      BY HeapAssumption DEF Size
    <3>2. QED
      BY <3>1 DEF Address
  <2>2. q = p => i < end
    BY <1>8, <1>9, <2>1
  <2>3. b \notin unlinked
    BY <1>6, <1>7, <2>1, <2>2
  <2>4. b \in ToSet(linked) <=> q = p /\ i \in k..end - 1
    BY <1>6, <2>1
  <2>5. QED
    BY <1>7, <2>1, <2>2, <2>3, <2>4
<1>10. ASSUME NEW b \in Address, b \in Room(runs', cells', found')
       PROVE  /\ b \in objects' <=> b \in objects /\ b \in Room(runs, cells, found)
              /\ b \in marked' => b \in marked
  <2>1. b \in objects' <=> b \in objects /\ b \notin ToSet(linked)
    BY <1>6, <1>9, <1>10
  <2>2. b \notin ToSet(linked) <=> b \in Room(runs, cells, found)
    BY <1>8, <1>9, <1>10
  <2>3. b \in marked' => b \in marked
    BY <1>6, <1>9, <1>10
  <2>4. QED
    BY <2>1, <2>2, <2>3
<1>11. ASSUME NEW b \in Address, b \in Room(runs, cells, found)
       PROVE  b \in Room(runs', cells', found')
  <2>1. PICK q \in Page, i \in Nat : b = <<q, i>> /\ b[1] = q /\ b[2] = i
    <3>1. \A n \in Size : n \in Nat
      BY HeapAssumption DEF Size
    <3>2. QED
      BY <3>1 DEF Address
  <2>2. i < k => i < end
    BY <1>7
  <2>3. QED
    BY <1>8, <1>11, <2>1, <2>2
<1>12. Stored' = Stored
  BY <1>10, <1>11, StoredIs, StoredIsNext
<1>13. marked' \cap Stored' = {}
  <2>1. marked \cap Stored = {}
    BY <1>3 DEF ReachInv
  <2>2. QED
    BY <1>10, <1>12, <2>1, StoredIsNext
<1>14. Closed(roots', fields', Stored')
  BY <1>3, <1>12 DEF ReachInv
<1>15. QED
  BY <1>3, <1>12, <1>13, <1>14 DEF ReachInv, Quiet

-----------------------------------------------------------------------------
(* An object gets its mark, and is pushed or the stack has overflowed.     *)
Pushed(m, n, a) ==
  /\ n.marked = m.marked \cup {a}
  /\ \/ n.stack = m.stack /\ n.overflowed
     \/ n.stack = Append(m.stack, a) /\ n.overflowed = m.overflowed

(* Marker::grow, what it does to the marks and the stack. *)
LEMMA GrownIs ==
  ASSUME NEW r, NEW m, SoundMark(m, r), NEW a, NEW c, c = [m EXCEPT !.marked = @ \cup {a}]
  PROVE  Pushed(m, Grown(c, a), a)
<1>1. m \in [marked: SUBSET objects, runs: RunsSet, stack: Seq(Address), overflowed: BOOLEAN]
  BY DEF SoundMark
<1>2. PICK st : st = Append(m.stack, a)
  OBVIOUS
<1>3. ASSUME Grown(c, a) = [c EXCEPT !.overflowed = TRUE]
      PROVE  Pushed(m, Grown(c, a), a)
  <2>1. PICK n : n = [c EXCEPT !.overflowed = TRUE]
    OBVIOUS
  <2>2. n.marked = m.marked \cup {a} /\ n.stack = m.stack /\ n.overflowed
    BY <1>1, <2>1
  <2>3. QED
    BY <1>3, <2>1, <2>2 DEF Pushed
<1>4. ASSUME NEW w, Grown(c, a) = [c EXCEPT !.runs = w, !.stack = Append(@, a)]
      PROVE  Pushed(m, Grown(c, a), a)
  <2>1. c.stack = m.stack
    BY <1>1
  <2>2. PICK n : n = [c EXCEPT !.runs = w, !.stack = st]
    OBVIOUS
  <2>3. Grown(c, a) = n
    BY <1>1, <1>2, <1>4, <2>1, <2>2
  <2>4. n.marked = m.marked \cup {a} /\ n.stack = st /\ n.overflowed = m.overflowed
    BY <1>1, <2>2
  <2>5. QED
    BY <1>2, <2>3, <2>4 DEF Pushed
<1>5. \/ Grown(c, a) = [c EXCEPT !.overflowed = TRUE]
      \/ \E w : Grown(c, a) = [c EXCEPT !.runs = w, !.stack = Append(@, a)]
  <2>1. PICK q : q = c.runs
    OBVIOUS
  <2>2. PICK old : old = IF q.stack = 0 THEN 0 ELSE q.header[q.stack].pages
    OBVIOUS
  <2>3. PICK count : count = 2 * (IF old = 0 THEN 1 ELSE old)
    OBVIOUS
  <2>4. PICK page : page = Taken(q, count).page
    OBVIOUS
  <2>5. PICK new : new = [Written(Taken(q, count).runs, page, Header("system", count, Nil))
                            EXCEPT !.stack = page]
    OBVIOUS
  <2>6. PICK w : w = IF old = 0 THEN new ELSE Released(new, q.stack, old)
    OBVIOUS
  <2>7. Grown(c, a) = IF page = 0 THEN Refused(c)
                      ELSE [c EXCEPT !.runs = w, !.stack = Append(@, a)]
    BY ONLY <2>1, <2>2, <2>3, <2>4, <2>5, <2>6, Zenon DEF Grown
  <2>8. CASE page = 0
    <3>1. Grown(c, a) = Refused(c)
      BY <2>7, <2>8
    <3>2. Grown(c, a) = [c EXCEPT !.overflowed = TRUE]
      BY <3>1 DEF Refused
    <3>3. QED
      BY <3>2, Zenon
  <2>9. CASE page # 0
    <3>1. Grown(c, a) = [c EXCEPT !.runs = w, !.stack = Append(@, a)]
      BY <2>7, <2>9
    <3>2. QED
      BY <3>1, Zenon
  <2>10. QED
    BY <2>8, <2>9
<1>6. CASE Grown(c, a) = [c EXCEPT !.overflowed = TRUE]
  BY <1>3, <1>6
<1>7. CASE \E w : Grown(c, a) = [c EXCEPT !.runs = w, !.stack = Append(@, a)]
  <2>1. PICK w : Grown(c, a) = [c EXCEPT !.runs = w, !.stack = Append(@, a)]
    BY <1>7
  <2>2. QED
    BY <1>4, <2>1
<1>8. QED
  BY <1>5, <1>6, <1>7, Zenon

(* Marker::mark_address, likewise. *)
LEMMA MarkedIs ==
  ASSUME NEW r, NEW m, SoundMark(m, r), NEW a
  PROVE  \/ /\ MarkedAddress(m, a) = m
            /\ a = Nil \/ a \in m.marked \/ a \notin objects
         \/ a # Nil /\ a \in objects /\ Pushed(m, MarkedAddress(m, a), a)
<1>1. PICK c : c = [m EXCEPT !.marked = @ \cup {a}]
  OBVIOUS
<1>2. m \in [marked: SUBSET objects, runs: RunsSet, stack: Seq(Address), overflowed: BOOLEAN]
  BY DEF SoundMark
<1>3. CASE a = Nil \/ a \in m.marked \/ a \notin objects
  BY <1>3 DEF MarkedAddress
<1>4. CASE ~(a = Nil \/ a \in m.marked \/ a \notin objects)
  <2>1. CASE Len(m.stack) = Capacity(m.runs)
    <3>1. MarkedAddress(m, a) = Grown(c, a)
      BY <1>1, <1>4, <2>1 DEF MarkedAddress
    <3>2. QED
      BY <1>1, <1>4, <3>1, GrownIs
  <2>2. CASE Len(m.stack) # Capacity(m.runs)
    <3>1. MarkedAddress(m, a) = [c EXCEPT !.stack = Append(@, a)]
      BY <1>1, <1>4, <2>2 DEF MarkedAddress
    <3>2. PICK st : st = Append(m.stack, a)
      OBVIOUS
    <3>3. PICK n : n = [c EXCEPT !.stack = st]
      OBVIOUS
    <3>4. n.marked = m.marked \cup {a} /\ n.stack = st /\ n.overflowed = m.overflowed
      BY <1>1, <1>2, <3>3
    <3>5. c.stack = m.stack
      BY <1>1, <1>2
    <3>6. MarkedAddress(m, a) = n
      BY <3>1, <3>2, <3>3, <3>5
    <3>7. QED
      BY <1>4, <3>2, <3>4, <3>6 DEF Pushed
  <2>3. QED
    BY <2>1, <2>2
<1>5. QED
  BY <1>3, <1>4

(* What marking never takes back. *)
Further(m, n) == m.marked \subseteq n.marked /\ (m.overflowed => n.overflowed)

(* The marking of one more reachable object. *)
LEMMA MarkedColors ==
  ASSUME NEW r, NEW m, SoundMark(m, r), NEW S \in SUBSET objects, NEW X, NEW fi, NEW late,
         Colored(m, S, X, fi, late), NEW a \in (S \cap X) \cup {Nil},
         NEW n, n = MarkedAddress(m, a)
  PROVE  Colored(n, S, X, fi, late) /\ a \in n.marked \cup {Nil} /\ Further(m, n)
<1>1. m.stack \in Seq(Address)
  BY DEF SoundMark
<1>2. CASE n = m /\ (a = Nil \/ a \in m.marked \/ a \notin objects)
  BY <1>2 DEF Further
<1>3. CASE a # Nil /\ a \in objects /\ Pushed(m, n, a)
  <2>1. n.marked = m.marked \cup {a} /\ (m.overflowed => n.overflowed)
    BY <1>3 DEF Pushed
  <2>2. a \in S \cap X
    BY <1>3
  <2>3. \/ ToSet(n.stack) = ToSet(m.stack) /\ n.overflowed
        \/ ToSet(n.stack) = ToSet(m.stack) \cup {a} /\ n.overflowed = m.overflowed
    <3>1. ToSet(Append(m.stack, a)) = ToSet(m.stack) \cup {a}
      <4>1. PICK k \in Nat : k = Len(m.stack) /\ DOMAIN m.stack = 1..k
        BY <1>1
      <4>2. PICK st : st = Append(m.stack, a)
        OBVIOUS
      <4>3. DOMAIN st = 1..k + 1 /\ st[k + 1] = a /\ \A i \in 1..k : st[i] = m.stack[i]
        BY <1>1, <4>1, <4>2
      <4>4. ASSUME NEW x
            PROVE  x \in ToSet(st) <=> x \in ToSet(m.stack) \/ x = a
        BY <4>1, <4>3 DEF ToSet
      <4>5. QED
        BY <4>2, <4>4
    <3>2. QED
      BY <1>3, <3>1 DEF Pushed
  <2>4. ToSet(m.stack) \subseteq m.marked \cap S /\ m.marked \cap S \subseteq X
    BY DEF Colored
  <2>5. ASSUME NEW b \in n.marked \cap S
        PROVE  \/ b \in ToSet(n.stack) \/ n.overflowed \/ b \in late
               \/ \A f \in Field : fi[b][f] \in n.marked \cup {Nil}
    <3>1. CASE b = a
      BY <2>3, <3>1
    <3>2. CASE b # a
      <4>1. \/ b \in ToSet(m.stack) \/ m.overflowed \/ b \in late
            \/ \A f \in Field : fi[b][f] \in m.marked \cup {Nil}
        BY <2>1, <3>2 DEF Colored
      <4>2. QED
        BY <2>1, <2>3, <4>1
    <3>3. QED
      BY <3>1, <3>2
  <2>6. Colored(n, S, X, fi, late)
    BY <2>1, <2>2, <2>3, <2>4, <2>5 DEF Colored
  <2>7. QED
    BY <2>1, <2>6 DEF Further
<1>4. QED
  BY <1>2, <1>3, MarkedIs

(* What a object refers to can be marked, and is. *)
ToTrace(r, m, S, X, late, a) ==
  /\ SoundMark(m, r) /\ Colored(m, S, X, fields, late) /\ a \in Address
  /\ \A f \in Field : fields[a][f] \in (S \cap X) \cup {Nil}

WasTraced(r, m, n, S, X, late, a) ==
  /\ SoundMark(n, r) /\ Colored(n, S, X, fields, late) /\ Further(m, n)
  /\ \A f \in Field : fields[a][f] \in n.marked \cup {Nil}

(* The marking of what an object refers to. *)
LEMMA TracedColors ==
  ASSUME objects \subseteq Address, fields \in [Address -> [Field -> Reference]],
         NEW r, NEW m, NEW S \in SUBSET objects, NEW X, NEW late, NEW a,
         ToTrace(r, m, S, X, late, a)
  PROVE  WasTraced(r, m, Traced(m, a), S, X, late, a)
<1>0. /\ SoundMark(m, r) /\ Colored(m, S, X, fields, late) /\ a \in Address
      /\ \A f \in Field : fields[a][f] \in (S \cap X) \cup {Nil}
  BY DEF ToTrace
<1>1. PICK N \in Nat : N = Fields /\ Field = 1..N
  BY HeapAssumption DEF Field
<1>2. PICK g : /\ Traced(m, a) = g[Fields] /\ g[0] = m
               /\ \A f \in Field : g[f] = MarkedAddress(g[f - 1], fields[a][f])
               /\ \A f \in 0..Fields : SoundMark(g[f], r)
  BY <1>0, TracedExists
<1>3. PICK M : M = [marked: SUBSET objects, runs: RunsSet, stack: Seq(Address), overflowed: BOOLEAN]
  OBVIOUS
<1>4. PICK P : P = {xf \in M \X (0..N) :
                      /\ Colored(xf[1], S, X, fields, late) /\ Further(m, xf[1])
                      /\ \A e \in 1..xf[2] : fields[a][e] \in xf[1].marked \cup {Nil}}
  OBVIOUS
<1>5. ASSUME NEW f \in 0..N
      PROVE  <<g[f], f>> \in P <=>
               /\ Colored(g[f], S, X, fields, late) /\ Further(m, g[f])
               /\ \A e \in 1..f : fields[a][e] \in g[f].marked \cup {Nil}
  <2>1. PICK x \in M : x = g[f]
    BY <1>1, <1>2, <1>3 DEF SoundMark
  <2>2. <<x, f>> \in P <=>
          /\ Colored(x, S, X, fields, late) /\ Further(m, x)
          /\ \A e \in 1..f : fields[a][e] \in x.marked \cup {Nil}
    BY <1>4
  <2>3. QED
    BY <2>1, <2>2
<1>6. <<g[0], 0>> \in P
  BY <1>0, <1>2, <1>5 DEF Further
<1>7. ASSUME NEW f \in 1..N, <<g[f - 1], f - 1>> \in P
      PROVE  <<g[f], f>> \in P
  <2>1. f - 1 \in 0..N /\ f \in 0..N /\ f \in Field
    BY <1>1
  <2>2. PICK x : x = g[f - 1] /\ SoundMark(x, r) /\ g[f] = MarkedAddress(x, fields[a][f])
    BY <1>1, <1>2, <2>1
  <2>3. /\ Colored(x, S, X, fields, late) /\ Further(m, x)
        /\ \A e \in 1..f - 1 : fields[a][e] \in x.marked \cup {Nil}
    BY <1>5, <1>7, <2>1, <2>2
  <2>4. PICK b \in (S \cap X) \cup {Nil} : b = fields[a][f]
    BY <1>0, <2>1
  <2>5. PICK y : y = MarkedAddress(x, b)
    OBVIOUS
  <2>6. Colored(y, S, X, fields, late) /\ b \in y.marked \cup {Nil} /\ Further(x, y)
    <3>1. SoundMark(x, r) /\ Colored(x, S, X, fields, late)
      BY <2>2, <2>3
    <3>2. QED
      BY <2>5, <3>1, MarkedColors
  <2>7. Further(m, y)
    BY <2>3, <2>6 DEF Further
  <2>8. \A e \in 1..f : e \in 1..f - 1 \/ e = f
    OBVIOUS
  <2>9. \A e \in 1..f : fields[a][e] \in y.marked \cup {Nil}
    BY <2>3, <2>4, <2>6, <2>8 DEF Further
  <2>10. g[f] = y
    BY <2>2, <2>4, <2>5
  <2>11. QED
    BY <1>5, <2>1, <2>6, <2>7, <2>9, <2>10
<1>8. <<g[N], N>> \in P
  BY <1>6, <1>7, RepeatedKeeps
<1>9. N \in 0..N
  OBVIOUS
<1>10. QED
  BY <1>1, <1>2, <1>5, <1>8, <1>9 DEF WasTraced

(* Fewer objects are still to trace. *)
LEMMA LateFewer ==
  ASSUME NEW m, NEW S, NEW X, NEW fi, NEW late, Colored(m, S, X, fi, late), NEW rest,
         \A b \in m.marked \cap S : b \in late =>
           b \in rest \/ \A f \in Field : fi[b][f] \in m.marked \cup {Nil}
  PROVE  Colored(m, S, X, fi, rest)
  BY DEF Colored

(* Only marks, stack and overflow matter. *)
LEMMA ColoredSame ==
  ASSUME NEW m, NEW n, n.marked = m.marked, n.stack = m.stack, n.overflowed = m.overflowed,
         NEW S, NEW X, NEW fi, NEW late, Colored(m, S, X, fi, late)
  PROVE  Colored(n, S, X, fi, late)
  BY DEF Colored

-----------------------------------------------------------------------------
(* While marking goes on, what is reachable are objects. *)
LEMMA MarkingFacts ==
  ASSUME IInv, ReachInv, pc # "sweep"
  PROVE  /\ Stored \in SUBSET objects /\ Closed(roots, fields, Stored)
         /\ Least(roots, fields, Reachable) /\ Reachable \subseteq Stored
         /\ \A s \in Slot : roots[s] \in (Stored \cap Reachable) \cup {Nil}
         /\ \A a \in Reachable, f \in Field : fields[a][f] \in (Stored \cap Reachable) \cup {Nil}
<1>1. Stored \in SUBSET objects /\ Closed(roots, fields, Stored)
  BY StoredIs DEF ReachInv
<1>2. Least(roots, fields, Reachable) /\ Reachable \subseteq Stored
  BY <1>1, ReachableIs
<1>3. QED
  BY <1>1, <1>2 DEF Least, Closed

(* A step of marking that keeps the colors. *)
LEMMA MarkingReach ==
  ASSUME IInv, IInv', ReachInv, pc \in {"roots", "drain", "rescan"},
         pc' \in {"roots", "drain", "rescan"}, NEW n, SoundMark(n, runs), NEW at,
         MarkingBecomes(n, at),
         Colored(n, Stored, Reachable, fields, IF pc' = "rescan" THEN Later(at) ELSE {}),
         \A s \in Slot : (pc' = "roots" => s <= at[2]) => roots[s] \in n.marked \cup {Nil}
  PROVE  ReachInv' /\ Quiet
<1>1. /\ marked' = n.marked /\ runs' = n.runs
      /\ marker' = [stack |-> n.stack, overflowed |-> n.overflowed, at |-> at]
      /\ UNCHANGED <<roots, cells, objects, fields, found>>
  BY DEF MarkingBecomes
<1>2. Stored' = Stored
  BY <1>1, StoredStays DEF SoundMark
<1>3. Reachable' = Reachable
  BY <1>1, ReachableNow, ReachableNext
<1>4. PICK v : v = Marking'
  OBVIOUS
<1>5. v.marked = n.marked /\ v.stack = n.stack /\ v.overflowed = n.overflowed
  BY <1>1, <1>4 DEF Marking
<1>6. PICK late : late = IF pc' = "rescan" THEN Later(at) ELSE {}
  OBVIOUS
<1>7. Colored(v, Stored, Reachable, fields, late)
  BY <1>5, <1>6, ColoredSame
<1>8. late = IF pc' = "rescan" THEN Later(marker'.at) ELSE {}
  BY <1>1, <1>6
<1>9. MarkingInv'
  <2>1. Colored(Marking', Stored', Reachable', fields',
                IF pc' = "rescan" THEN Later(marker'.at) ELSE {})
    BY <1>1, <1>2, <1>3, <1>4, <1>7, <1>8
  <2>2. \A s \in Slot : (pc' = "roots" => s <= marker'.at[2]) => roots'[s] \in marked' \cup {Nil}
    BY <1>1
  <2>3. QED
    BY <2>1, <2>2 DEF MarkingInv
<1>10. Closed(roots', fields', Stored')
  BY <1>1, <1>2 DEF ReachInv
<1>11. QED
  BY <1>1, <1>2, <1>9, <1>10 DEF ReachInv, Quiet

(* A root is marked. *)
LEMMA MarkRootReach ==
  ASSUME IInv, IInv', ReachInv, MarkRoot
  PROVE  ReachInv' /\ Quiet
<1>1. PICK s : s = marker.at[2] + 1
  OBVIOUS
<1>2. PICK n, at : n = MarkedAddress(Marking, roots[s]) /\ at = <<0, s>>
  OBVIOUS
<1>3. /\ pc = "roots" /\ MarkingBecomes(n, at)
      /\ pc' = IF s = Slots THEN "drain" ELSE "roots"
  BY <1>1, <1>2 DEF MarkRoot
<1>4. s \in Slot /\ marker.at[2] \in Nat /\ at[2] = s
  <2>1. marker.at[2] < Slots /\ marker.at[2] \in Nat
    BY <1>3 DEF IInv, Typed, RunsInv
  <2>2. QED
    BY <1>1, <1>2, <2>1, HeapAssumption DEF Slot
<1>5. /\ Stored \in SUBSET objects
      /\ \A t \in Slot : roots[t] \in (Stored \cap Reachable) \cup {Nil}
  BY <1>3, MarkingFacts
<1>6. Colored(Marking, Stored, Reachable, fields, {}) /\ SoundMark(Marking, runs)
  BY <1>3, MarkingSound DEF ReachInv, MarkingInv
<1>7. Colored(n, Stored, Reachable, fields, {}) /\ roots[s] \in n.marked \cup {Nil} /\ Further(Marking, n)
  BY <1>2, <1>4, <1>5, <1>6, MarkedColors
<1>8. SoundMark(n, runs)
  <2>1. roots[s] \in Reference /\ objects \subseteq Address
    BY <1>4 DEF IInv, Typed
  <2>2. QED
    BY <1>2, <1>6, <2>1, MarkedSound
<1>9. ASSUME NEW t \in Slot, pc' = "roots" => t <= at[2]
      PROVE  roots[t] \in n.marked \cup {Nil}
  <2>1. t <= s
    BY <1>3, <1>4, <1>9 DEF Slot
  <2>2. CASE t = s
    BY <1>7, <2>2
  <2>3. CASE t # s
    <3>1. t <= marker.at[2]
      BY <1>1, <1>4, <2>1, <2>3 DEF Slot
    <3>2. roots[t] \in marked \cup {Nil}
      BY <1>3, <3>1 DEF ReachInv, MarkingInv
    <3>3. QED
      BY <1>7, <3>2 DEF Further, Marking
  <2>4. QED
    BY <2>2, <2>3
<1>10. pc' \in {"roots", "drain", "rescan"} /\ pc' # "rescan"
  BY <1>3
<1>11. Colored(n, Stored, Reachable, fields, IF pc' = "rescan" THEN Later(at) ELSE {})
  BY <1>7, <1>10
<1>12. QED
  BY <1>3, <1>8, <1>9, <1>10, <1>11, MarkingReach

(* The roots after them are marked, and marks stay. *)
LEMMA RootsMarked ==
  ASSUME IInv, ReachInv, pc \in {"drain", "rescan"}, NEW n, Further(Marking, n)
  PROVE  \A s \in Slot : roots[s] \in n.marked \cup {Nil}
<1>1. \A s \in Slot : roots[s] \in marked \cup {Nil}
  BY DEF ReachInv, MarkingInv
<1>2. Marking.marked = marked
  BY DEF Marking
<1>3. QED
  BY <1>1, <1>2 DEF Further

(* An object is taken from the mark stack and what it refers to marked. *)
LEMMA DrainOneReach ==
  ASSUME IInv, IInv', ReachInv, DrainOne
  PROVE  ReachInv' /\ Quiet
<1>1. PICK a, n, at : a = Top /\ n = Traced(Popping, a) /\ at = <<0, 0>>
  OBVIOUS
<1>2. pc = "drain" /\ pc' = pc /\ marker.stack # <<>> /\ MarkingBecomes(n, at)
  BY <1>1 DEF DrainOne, Popping, Top
<1>3. /\ SoundMark(Popping, runs) /\ a \in Address /\ a \in ToSet(marker.stack)
      /\ Popping.marked = marked /\ Popping.overflowed = marker.overflowed
      /\ ToSet(Popping.stack) \subseteq ToSet(marker.stack)
      /\ \A b \in ToSet(marker.stack) : b = a \/ b \in ToSet(Popping.stack)
  BY <1>1, <1>2, PoppingSound
<1>4. /\ Stored \in SUBSET objects
      /\ \A b \in Reachable, f \in Field : fields[b][f] \in (Stored \cap Reachable) \cup {Nil}
  BY <1>2, MarkingFacts
<1>5. Colored(Marking, Stored, Reachable, fields, {})
  BY <1>2 DEF ReachInv, MarkingInv
<1>6. Marking.marked = marked /\ Marking.stack = marker.stack /\ Marking.overflowed = marker.overflowed
  BY DEF Marking
<1>7. Colored(Popping, Stored, Reachable, fields, {a})
  BY <1>3, <1>5, <1>6 DEF Colored
<1>8. a \in Reachable
  BY <1>3, <1>5, <1>6 DEF Colored
<1>9. objects \subseteq Address /\ fields \in [Address -> [Field -> Reference]]
  BY DEF IInv, Typed
<1>10. /\ SoundMark(n, runs) /\ Colored(n, Stored, Reachable, fields, {a}) /\ Further(Popping, n)
       /\ \A f \in Field : fields[a][f] \in n.marked \cup {Nil}
  <2>1. \A f \in Field : fields[a][f] \in (Stored \cap Reachable) \cup {Nil}
    BY <1>4, <1>8
  <2>2. n = Traced(Popping, a) /\ SoundMark(Popping, runs) /\ a \in Address
    BY <1>1, <1>3
  <2>3. PICK S \in SUBSET objects : S = Stored
    BY <1>4
  <2>8. PICK X : X = Reachable
    OBVIOUS
  <2>4. \A f \in Field : fields[a][f] \in (S \cap X) \cup {Nil}
    BY <2>1, <2>3, <2>8
  <2>5. Colored(Popping, S, X, fields, {a})
    BY <1>7, <2>3, <2>8
  <2>6. /\ SoundMark(n, runs) /\ Colored(n, S, X, fields, {a}) /\ Further(Popping, n)
        /\ \A f \in Field : fields[a][f] \in n.marked \cup {Nil}
    <3>1. ToTrace(runs, Popping, S, X, {a}, a)
      BY <2>2, <2>4, <2>5 DEF ToTrace
    <3>2. WasTraced(runs, Popping, Traced(Popping, a), S, X, {a}, a)
      BY <1>9, <3>1, TracedColors, Zenon
    <3>3. QED
      BY <2>2, <3>2, Zenon DEF WasTraced
  <2>7. QED
    BY <2>3, <2>6, <2>8
<1>11. Colored(n, Stored, Reachable, fields, {})
  BY <1>10, LateFewer
<1>12. Further(Marking, n)
  BY <1>3, <1>6, <1>10 DEF Further
<1>13. \A s \in Slot : roots[s] \in n.marked \cup {Nil}
  BY <1>2, <1>12, RootsMarked
<1>14. Colored(n, Stored, Reachable, fields, IF pc' = "rescan" THEN Later(at) ELSE {})
  BY <1>2, <1>11
<1>15. QED
  BY <1>2, <1>10, <1>13, <1>14, MarkingReach

(* An object of the heap is on a run for objects. *)
LEMMA StoredFacts ==
  ASSUME IInv, NEW b \in Stored
  PROVE  /\ b \in objects /\ b \in Address /\ b[1] \in RunStarts(runs) /\ b[1] <= runs.end
         /\ b[1] \in Nat /\ b[2] \in Nat /\ b[2] < RunCells(b[1])
         /\ runs.header[b[1]].kind \in {"class", "large"} /\ b = <<b[1], b[2]>>
<1>1. b \in objects /\ b \in Address /\ b[1] \in RunsOf(runs, {"class", "large"})
  BY StoredIs DEF Room
<1>2. b[2] < RunCells(b[1])
  BY DEF Stored
<1>3. b[1] \in Nat /\ b[2] \in Nat /\ b = <<b[1], b[2]>>
  <2>1. \A n \in Size : n \in Nat
    BY HeapAssumption DEF Size
  <2>2. QED
    BY <1>1, <2>1, HeapAssumption DEF Address, Page
<1>4. QED
  BY <1>1, <1>2, <1>3 DEF RunsOf

(* An object is rescanned, or the next run begun. *)
LEMMA RescanOneReach ==
  ASSUME IInv, IInv', ReachInv, RescanOne
  PROVE  ReachInv' /\ Quiet
<1>1. PICK a : a = marker.at
  OBVIOUS
<1>2. /\ pc = "rescan" /\ pc' = pc /\ a[1] <= runs.end
      /\ IF a[2] < RunCells(a[1])
         THEN MarkingBecomes(IF a \in marked THEN Traced(Marking, a) ELSE Marking,
                             <<a[1], a[2] + 1>>)
         ELSE MarkingBecomes(Marking, <<NextRun(a[1]), 0>>)
  BY <1>1 DEF RescanOne
<1>3. /\ SoundMark(Marking, runs) /\ objects \subseteq Address
      /\ fields \in [Address -> [Field -> Reference]] /\ a \in Nat \X Nat
  BY <1>1, <1>2, MarkingSound
<1>4. a[1] \in RunStarts(runs) /\ Layout(runs) /\ marked \subseteq objects
  BY <1>1, <1>2 DEF IInv, Typed, RunsInv, Starts, GoodRuns
<1>5. Colored(Marking, Stored, Reachable, fields, Later(a))
  BY <1>1, <1>2 DEF ReachInv, MarkingInv
<1>6. /\ Stored \in SUBSET objects
      /\ \A b \in Reachable, f \in Field : fields[b][f] \in (Stored \cap Reachable) \cup {Nil}
  BY <1>2, MarkingFacts
<1>7. Marking.marked = marked
  BY DEF Marking
<1>8. a[1] \in Nat /\ a[2] \in Nat /\ a = <<a[1], a[2]>>
  BY <1>3
<1>9. CASE a[2] < RunCells(a[1])
  <2>1. PICK n, at : /\ n = IF a \in marked THEN Traced(Marking, a) ELSE Marking
                     /\ at = <<a[1], a[2] + 1>>
    OBVIOUS
  <2>2. MarkingBecomes(n, at)
    BY <1>2, <1>9, <2>1
  <2>3. at[1] = a[1] /\ at[2] = a[2] + 1
    BY <2>1
  <2>4. ASSUME NEW b \in Stored, b \in Later(a), b # a
        PROVE  b \in Later(at)
    <3>1. b \in Address /\ b[1] \in Nat /\ b[2] \in Nat /\ b = <<b[1], b[2]>>
      BY StoredFacts
    <3>2. b[1] > a[1] \/ (b[1] = a[1] /\ b[2] >= a[2])
      BY <2>4 DEF Later
    <3>3. b[1] # a[1] \/ b[2] # a[2]
      BY <1>8, <2>4, <3>1
    <3>4. b[1] > at[1] \/ (b[1] = at[1] /\ b[2] >= at[2])
      BY <1>8, <2>3, <3>1, <3>2, <3>3
    <3>5. QED
      BY <3>1, <3>4 DEF Later
  <2>5. CASE a \notin marked
    <3>1. n = Marking
      BY <2>1, <2>5
    <3>2. Colored(n, Stored, Reachable, fields, Later(at))
      BY <1>5, <1>7, <2>4, <2>5, <3>1, LateFewer
    <3>3. Further(Marking, n)
      BY <3>1 DEF Further
    <3>4. Colored(n, Stored, Reachable, fields, IF pc' = "rescan" THEN Later(at) ELSE {})
      BY <1>2, <3>2
    <3>5. \A s \in Slot : roots[s] \in n.marked \cup {Nil}
      BY <1>2, <3>3, RootsMarked
    <3>6. QED
      BY <1>2, <1>3, <2>2, <3>1, <3>4, <3>5, MarkingReach
  <2>6. CASE a \in marked
    <3>1. n = Traced(Marking, a) /\ a \in Address
      BY <1>3, <1>4, <2>1, <2>6
    <3>2. a \in Stored
      <4>1. a[1] # runs.end + 1
        BY <1>2, <1>4, LayoutFacts
      <4>2. found.pages = 0 /\ found.start \in Nat
        BY <1>2 DEF IInv, Typed, RunsInv
      <4>3. found.start..found.start + found.pages - 1 = {}
        BY <4>2
      <4>4. QED
        BY <1>4, <1>9, <2>6, <4>1, <4>3 DEF Stored, Starts, FoundPages
    <3>3. a \in Reachable
      BY <1>5, <1>7, <2>6, <3>2 DEF Colored
    <3>4. /\ SoundMark(n, runs) /\ Colored(n, Stored, Reachable, fields, Later(a))
          /\ Further(Marking, n) /\ \A f \in Field : fields[a][f] \in n.marked \cup {Nil}
      <4>1. PICK S \in SUBSET objects : S = Stored
        BY <1>6
      <4>6. PICK X : X = Reachable
        OBVIOUS
      <4>2. \A f \in Field : fields[a][f] \in (S \cap X) \cup {Nil}
        BY <1>6, <3>3, <4>1, <4>6
      <4>3. Colored(Marking, S, X, fields, Later(a))
        BY <1>5, <4>1, <4>6
      <4>4. /\ SoundMark(n, runs) /\ Colored(n, S, X, fields, Later(a)) /\ Further(Marking, n)
            /\ \A f \in Field : fields[a][f] \in n.marked \cup {Nil}
        <5>1. ToTrace(runs, Marking, S, X, Later(a), a)
          BY <1>3, <3>1, <4>2, <4>3 DEF ToTrace
        <5>2. WasTraced(runs, Marking, Traced(Marking, a), S, X, Later(a), a)
          BY <1>3, <5>1, TracedColors, Zenon
        <5>3. QED
          BY <3>1, <5>2, Zenon DEF WasTraced
      <4>5. QED
        BY <4>1, <4>4, <4>6
    <3>5. Colored(n, Stored, Reachable, fields, Later(at))
      BY <2>4, <3>4, LateFewer
    <3>6. Colored(n, Stored, Reachable, fields, IF pc' = "rescan" THEN Later(at) ELSE {})
      BY <1>2, <3>5
    <3>7. \A s \in Slot : roots[s] \in n.marked \cup {Nil}
      BY <1>2, <3>4, RootsMarked
    <3>8. QED
      BY <1>2, <2>2, <3>4, <3>6, <3>7, MarkingReach
  <2>7. QED
    BY <2>5, <2>6
<1>10. CASE ~(a[2] < RunCells(a[1]))
  <2>1. PICK n, at : n = Marking /\ at = <<NextRun(a[1]), 0>>
    OBVIOUS
  <2>2. MarkingBecomes(n, at)
    BY <1>2, <1>10, <2>1
  <2>3. at[1] = a[1] + runs.header[a[1]].pages /\ at[2] = 0
    BY <2>1 DEF NextRun
  <2>4. ASSUME NEW b \in Stored, b \in Later(a)
        PROVE  b \in Later(at)
    <3>1. /\ b \in Address /\ b[1] \in Nat /\ b[2] \in Nat /\ b[1] \in RunStarts(runs)
          /\ b[2] < RunCells(b[1]) /\ runs.header[b[1]].kind \in {"class", "large"}
      BY StoredFacts
    <3>2. b[1] > a[1] \/ (b[1] = a[1] /\ b[2] >= a[2])
      BY <2>4 DEF Later
    <3>3. b[1] # a[1]
      <4>1. SUFFICES ASSUME b[1] = a[1]
                     PROVE  FALSE
        OBVIOUS
      <4>2. RunCells(b[1]) \in Nat
        <5>1. PICK p : p = b[1] /\ p \in RunsOf(runs, {"class", "large"})
          BY StoredIs DEF Room
        <5>2. CASE runs.header[p].kind = "large"
          BY <5>1, <5>2 DEF RunCells
        <5>3. CASE runs.header[p].kind = "class"
          <6>1. PICK c \in Class : c = runs.header[p].class /\ RunCells(p) = UsedCells(p, c)
            BY <1>4, <5>1, <5>3 DEF RunCells, Layout, RunsOf
          <6>2. GoodCells(runs, cells, objects) /\ CellsPerPage[c] \in Nat
            BY HeapAssumption DEF IInv
          <6>3. cells[c].cursor # Nil => cells[c].cursor[2] \in Nat
            BY <6>2 DEF GoodCells
          <6>4. QED
            BY <5>1, <6>1, <6>2, <6>3 DEF UsedCells
        <5>4. QED
          BY <3>1, <5>1, <5>2, <5>3
      <4>3. b[2] >= a[2] /\ ~(a[2] < RunCells(b[1]))
        BY <1>10, <3>2, <4>1, <1>8
      <4>4. QED
        BY <1>8, <3>1, <4>2, <4>3
    <3>4. a[1] < b[1]
      BY <1>8, <3>1, <3>2, <3>3
    <3>5. a[1] + runs.header[a[1]].pages <= b[1] /\ runs.header[a[1]].pages \in Nat
      BY <1>2, <1>4, <3>1, <3>4, NextStart
    <3>6. b[1] > at[1] \/ (b[1] = at[1] /\ b[2] >= at[2])
      BY <1>8, <2>3, <3>1, <3>5
    <3>7. QED
      BY <3>1, <3>6 DEF Later
  <2>5. Colored(n, Stored, Reachable, fields, Later(at))
    BY <1>5, <1>7, <2>1, <2>4, LateFewer
  <2>6. Further(Marking, n)
    BY <2>1 DEF Further
  <2>7. Colored(n, Stored, Reachable, fields, IF pc' = "rescan" THEN Later(at) ELSE {})
    BY <1>2, <2>5
  <2>8. \A s \in Slot : roots[s] \in n.marked \cup {Nil}
    BY <1>2, <2>6, RootsMarked
  <2>9. QED
    BY <1>2, <1>3, <2>1, <2>2, <2>7, <2>8, MarkingReach
<1>11. QED
  BY <1>9, <1>10

(* The rescan is over: no object lies behind the last run. *)
LEMMA RescanEndReach ==
  ASSUME IInv, IInv', ReachInv, RescanEnd
  PROVE  ReachInv' /\ Quiet
<1>1. PICK n, at : n = Marking /\ at = <<0, 0>>
  OBVIOUS
<1>2. /\ pc = "rescan" /\ pc' = "drain" /\ MarkingBecomes(n, at) /\ marker.at[1] > runs.end
  BY <1>1 DEF RescanEnd
<1>3. SoundMark(n, runs) /\ marker.at[1] \in Nat /\ Layout(runs)
  <2>1. SoundMark(Marking, runs) /\ marker.at \in Nat \X Nat
    BY <1>2, MarkingSound
  <2>2. QED
    BY <1>1, <2>1, InvLayout
<1>4. Colored(n, Stored, Reachable, fields, Later(marker.at))
  BY <1>1, <1>2 DEF ReachInv, MarkingInv
<1>5. ASSUME NEW b \in Stored
      PROVE  b \notin Later(marker.at)
  <2>1. b[1] \in Nat /\ b[1] <= runs.end /\ runs.end \in Nat
    BY <1>3, StoredFacts, LayoutFacts
  <2>2. QED
    BY <1>2, <1>3, <2>1 DEF Later
<1>6. Colored(n, Stored, Reachable, fields, {})
  BY <1>4, <1>5, LateFewer
<1>7. Colored(n, Stored, Reachable, fields, IF pc' = "rescan" THEN Later(at) ELSE {})
  BY <1>2, <1>6
<1>8. Further(Marking, n)
  BY <1>1 DEF Further
<1>9. \A s \in Slot : roots[s] \in n.marked \cup {Nil}
  BY <1>2, <1>8, RootsMarked
<1>10. QED
  BY <1>2, <1>3, <1>7, <1>9, MarkingReach

(* When nothing is left to trace and the stack has not overflowed, exactly *)
(* what is reachable is marked; otherwise every object is traced again.    *)
LEMMA DrainEndReach ==
  ASSUME IInv, IInv', ReachInv, DrainEnd
  PROVE  ReachInv' /\ Quiet
<1>1. /\ pc = "drain" /\ marker.stack = <<>>
      /\ marker' = [marker EXCEPT !.overflowed = FALSE, !.at = <<1, 0>>]
      /\ UNCHANGED <<request, roots, objects, marked, fields, found>>
  BY DEF DrainEnd
<1>2. /\ marker \in [stack: Seq(Address), overflowed: BOOLEAN, at: Nat \X Nat]
      /\ runs \in RunsSet /\ cells \in CellsSet /\ Layout(runs)
  BY <1>1 DEF IInv, Typed, RunsInv, GoodRuns, Layout
<1>14. PICK from : from = <<1, 0>>
  OBVIOUS
<1>3. from \in Nat \X Nat /\ from[1] = 1 /\ from[2] = 0
  BY <1>14
<1>4. marker'.stack = <<>> /\ marker'.overflowed = FALSE /\ marker'.at = from
  BY <1>1, <1>2, <1>14
<1>5. Reachable' = Reachable
  BY <1>1, ReachableNow, ReachableNext
<1>6. /\ Stored \in SUBSET objects /\ Closed(roots, fields, Stored)
      /\ Least(roots, fields, Reachable) /\ Reachable \subseteq Stored
  BY <1>1, MarkingFacts
<1>7. Colored(Marking, Stored, Reachable, fields, {})
  BY <1>1 DEF ReachInv, MarkingInv
<1>8. Marking.marked = marked /\ Marking.stack = <<>> /\ Marking.overflowed = marker.overflowed
  BY <1>1 DEF Marking
<1>9. ToSet(<<>>) = {}
  BY DEF ToSet
<1>10. \A s \in Slot : roots[s] \in marked \cup {Nil}
  BY <1>1 DEF ReachInv, MarkingInv
<1>11. CASE marker.overflowed
  <2>1. pc' = "rescan" /\ runs' = runs /\ cells' = cells
    BY <1>11 DEF DrainEnd
  <2>2. Stored' = Stored
    BY <1>1, <2>1, StoredSame
  <2>3. \A b \in Stored : b \in Later(from)
    <3>1. SUFFICES ASSUME NEW b \in Stored
                   PROVE  b \in Later(from)
      OBVIOUS
    <3>2. b \in Address /\ b[1] \in Nat /\ b[2] \in Nat /\ b[1] \in RunStarts(runs)
      BY StoredFacts
    <3>3. b[1] >= 1
      BY <1>2, <3>2, LayoutFacts
    <3>4. QED
      BY <1>3, <3>2, <3>3 DEF Later
  <2>4. PICK v : v = Marking'
    OBVIOUS
  <2>5. v.marked = marked /\ v.stack = <<>> /\ v.overflowed = FALSE
    BY <1>1, <1>4, <2>4 DEF Marking
  <2>6. Colored(v, Stored, Reachable, fields, Later(from))
    BY <1>7, <1>8, <1>9, <2>3, <2>5 DEF Colored
  <2>7. MarkingInv'
    <3>1. Colored(Marking', Stored', Reachable', fields',
                  IF pc' = "rescan" THEN Later(marker'.at) ELSE {})
      BY <1>1, <1>4, <1>5, <2>1, <2>2, <2>4, <2>6
    <3>2. \A s \in Slot : roots'[s] \in marked' \cup {Nil}
      BY <1>1, <1>10
    <3>3. QED
      BY <3>1, <3>2 DEF MarkingInv
  <2>8. Closed(roots', fields', Stored')
    BY <1>1, <1>6, <2>2
  <2>9. QED
    BY <1>1, <2>1, <2>2, <2>7, <2>8 DEF ReachInv, Quiet
<1>12. CASE ~marker.overflowed
  <2>1. /\ pc' = "sweep" /\ runs' = [runs EXCEPT !.free = <<>>]
        /\ cells' = [c \in Class |-> [cells[c] EXCEPT !.free = <<>>]]
    BY <1>12 DEF DrainEnd
  <2>2. runs'.header = runs.header /\ runs'.end = runs.end
    BY <1>2, <2>1 DEF RunsSet
  <2>3. runs' \in RunsSet
    <3>1. Swept(runs', found', marker'.at[1])
      BY <2>1 DEF IInv, RunsInv
    <3>2. QED
      BY <3>1 DEF Swept, Layout
  <2>4. Kept(runs, runs')
    <3>1. \A kinds : RunsOf(runs', kinds) = RunsOf(runs, kinds)
      BY <1>2, <2>2, <2>3, SameRuns
    <3>2. QED
      BY <2>2, <3>1 DEF Kept
  <2>5. \A c \in Class : cells'[c].cursor = cells[c].cursor
    BY <1>2, <2>1 DEF CellsSet
  <2>6. Stored' = Stored
    BY <1>1, <2>4, <2>5, StoredStays
  <2>7. marked \cap Stored = Reachable
    <3>1. \A b \in marked \cap Stored, f \in Field : fields[b][f] \in marked \cup {Nil}
      BY <1>7, <1>8, <1>9, <1>12 DEF Colored
    <3>2. Closed(roots, fields, marked \cap Stored)
      BY <1>6, <1>10, <3>1 DEF Closed
    <3>3. marked \cap Stored \in SUBSET Address
      BY StoredIs
    <3>4. PICK Q \in SUBSET Address : Q = marked \cap Stored
      BY <3>3
    <3>5. Reachable \subseteq Q
      BY <1>6, <3>2, <3>4 DEF Least
    <3>6. marked \cap Stored \subseteq Reachable
      BY <1>7, <1>8 DEF Colored
    <3>7. QED
      BY <3>4, <3>5, <3>6
  <2>8. ASSUME NEW b \in Stored
        PROVE  b[1] \in Nat /\ ~(b[1] < 1)
    <3>1. b[1] \in Nat /\ b[1] \in RunStarts(runs)
      BY StoredFacts
    <3>2. QED
      BY <1>2, <3>1, LayoutFacts
  <2>9. SweepInv'
    <3>1. Closed(roots', fields', Reachable') /\ Reachable' \subseteq Stored'
      BY <1>1, <1>5, <1>6, <2>6 DEF Least
    <3>2. ASSUME NEW b \in Stored
          PROVE  ~(b[1] < marker'.at[1]) /\ (b \in marked' <=> b \in Reachable')
      BY <1>1, <1>3, <1>4, <1>5, <2>7, <2>8
    <3>3. QED
      BY <2>6, <3>1, <3>2 DEF SweepInv
  <2>10. QED
    BY <1>1, <2>1, <2>6, <2>9 DEF ReachInv, Quiet
<1>13. QED
  BY <1>11, <1>12

-----------------------------------------------------------------------------
(* A step of the sweep: objects that nothing reaches are gone, and the     *)
(* others are as they were.                                                *)
Reclaimed ==
  /\ Closed(roots, fields, Reachable) /\ Reachable \subseteq Stored'
  /\ Stored' \subseteq Stored /\ roots' = roots
  /\ \A b \in Stored' : fields'[b] = fields[b]

(* What is reachable stays so when other objects lose their references.    *)
LEMMA ReachableStays ==
  ASSUME IInv, IInv', roots' = roots, Closed(roots, fields, Reachable),
         Reachable \subseteq Stored, Reachable \subseteq Stored',
         \A b \in Reachable : fields'[b] = fields[b]
  PROVE  Reachable' = Reachable /\ Closed(roots', fields', Reachable)
<1>1. PICK X : X = Reachable
  OBVIOUS
<1>2. /\ X \subseteq objects /\ X \subseteq objects' /\ X \subseteq Address
      /\ Closed(roots, fields, X) /\ \A b \in X : fields'[b] = fields[b]
  BY <1>1, StoredIs, StoredIsNext
<1>3. Least(roots, fields, X)
  BY <1>1, <1>2, ReachableIs
<1>4. Closed(roots', fields', X)
  BY <1>2 DEF Closed
<1>5. PICK Y : Y = Reachable'
  OBVIOUS
<1>6. Least(roots', fields', Y) /\ Y \subseteq X
  BY <1>2, <1>4, <1>5, ReachableIsNext
<1>7. Closed(roots', fields', Y)
  BY <1>6 DEF Least
<1>8. Closed(roots, fields, Y)
  BY <1>2, <1>6, <1>7 DEF Closed
<1>9. X \subseteq Y
  BY <1>2, <1>3, <1>6, <1>8 DEF Least
<1>10. QED
  BY <1>1, <1>4, <1>5, <1>6, <1>9

(* The run at page is swept: of its objects D is gone and the others lose  *)
(* their marks.                                                            *)
RunSwept(page, D) ==
  /\ \A b \in D : b[1] = page /\ ~(b \in Stored /\ b \in marked)
  /\ \A b \in Address \ D : fields'[b] = fields[b]
  /\ Stored' = Stored \ D /\ marked' \subseteq marked
  /\ \A b \in Stored' : IF b[1] = page THEN b \in marked \ marked'
                        ELSE b \in marked => b \in marked'

(* A run swept so keeps the invariant. *)
LEMMA SweptReach ==
  ASSUME IInv, IInv', ReachInv, NEW page, SweepFacts(page), SweepNext, NEW D, RunSwept(page, D)
  PROVE  ReachInv' /\ Reclaimed
<1>1. PICK n : n = runs.header[page].pages
  OBVIOUS
<1>2. /\ pc = "sweep" /\ page = marker.at[1] /\ page \in Nat /\ n \in Nat \ {0}
      /\ \A q \in RunStarts(runs) : page < q => page + n <= q
  BY <1>1 DEF SweepFacts
<1>3. pc' = "sweep" /\ roots' = roots /\ marker'.at[1] = page + n
  <2>1. marker \in [stack: Seq(Address), overflowed: BOOLEAN, at: Nat \X Nat]
    BY DEF IInv, Typed
  <2>2. PICK at : at = <<page + n, 0>>
    OBVIOUS
  <2>3. marker' = [marker EXCEPT !.at = at] /\ at[1] = page + n
    BY <1>1, <1>2, <2>2 DEF SweepNext, NextRun
  <2>4. QED
    BY <1>2, <2>1, <2>3 DEF SweepNext
<1>4. /\ Closed(roots, fields, Reachable) /\ Reachable \subseteq Stored
      /\ \A b \in Stored :
           /\ b[1] < page => b \in Reachable /\ b \notin marked
           /\ b[1] >= page => (b \in marked <=> b \in Reachable)
  BY <1>2 DEF ReachInv, SweepInv
<1>5. /\ \A b \in D : b[1] = page /\ ~(b \in Stored /\ b \in marked)
      /\ \A b \in Address \ D : fields'[b] = fields[b]
      /\ Stored' = Stored \ D /\ marked' \subseteq marked
      /\ \A b \in Stored' : IF b[1] = page THEN b \in marked \ marked'
                            ELSE b \in marked => b \in marked'
  BY DEF RunSwept
<1>6. ASSUME NEW b \in Reachable
      PROVE  b \notin D
  <2>1. b \in Stored /\ (b[1] >= page => b \in marked)
    BY <1>4
  <2>2. b \in D => b[1] >= page
    BY <1>2, <1>5
  <2>3. QED
    BY <1>5, <2>1, <2>2
<1>7. /\ Reachable \subseteq Stored'
      /\ \A b \in Stored' : fields'[b] = fields[b]
  <2>1. Stored' \subseteq Address
    BY StoredIsNext
  <2>2. QED
    BY <1>4, <1>5, <1>6, <2>1
<1>8. Reachable' = Reachable /\ Closed(roots', fields', Reachable)
  <2>1. \A b \in Reachable : fields'[b] = fields[b]
    BY <1>7
  <2>2. QED
    BY <1>3, <1>4, <1>7, <2>1, ReachableStays
<1>9. ASSUME NEW b \in Stored'
      PROVE  /\ b[1] < page + n => b \in Reachable /\ b \notin marked'
             /\ b[1] >= page + n => (b \in marked' <=> b \in Reachable)
  <2>1. b \in Stored /\ b[1] \in Nat /\ (page < b[1] => page + n <= b[1])
    BY <1>2, <1>5, StoredFacts
  <2>2. CASE b[1] = page
    <3>1. b \in marked /\ b \notin marked' /\ b \in Reachable
      BY <1>2, <1>4, <1>5, <2>1, <2>2
    <3>2. QED
      BY <1>2, <2>2, <3>1
  <2>3. CASE b[1] < page
    <3>1. b \in Reachable /\ b \notin marked'
      BY <1>4, <1>5, <2>1, <2>3
    <3>2. QED
      BY <1>2, <2>1, <2>3, <3>1
  <2>4. CASE b[1] > page
    <3>1. (b \in marked <=> b \in Reachable) /\ (b \in marked <=> b \in marked')
      BY <1>2, <1>4, <1>5, <2>1, <2>4
    <3>2. QED
      BY <1>2, <2>1, <2>4, <3>1
  <2>5. QED
    BY <1>2, <2>1, <2>2, <2>3, <2>4
<1>10. SweepInv'
  BY <1>3, <1>7, <1>8, <1>9 DEF SweepInv
<1>11. ReachInv'
  BY <1>3, <1>10 DEF ReachInv
<1>12. QED
  BY <1>3, <1>4, <1>5, <1>7, <1>11 DEF Reclaimed

(* FreePages::flush makes no room for objects and takes none. *)
LEMMA FlushedRoom ==
  ASSUME NEW r, NEW f, NEW at, Swept(r, f, at), NEW cs, NEW w,
         w = IF f.pages > 0 THEN Released(r, f.start, f.pages) ELSE r
  PROVE  Room(w, cs, NoneFound) = Room(r, cs, f)
<1>1. /\ Layout(r) /\ f \in [start: Nat, pages: Nat] /\ \A p \in RunStarts(r) : p \in Nat
  BY LayoutFacts DEF Swept
<1>2. NoneFound.start..NoneFound.start + NoneFound.pages - 1 = {}
  BY DEF NoneFound
<1>3. CASE f.pages > 0
  <2>1. PICK a, n : a = f.start /\ n = f.pages
    OBVIOUS
  <2>2. /\ a \in RunStarts(r) /\ a + n = at /\ at \in RunStarts(r) /\ a \in Nat
        /\ n \in Nat \ {0} /\ Listed(r, {p \in RunsOf(r, {"free"}) : p < a})
    BY <1>1, <1>3, <2>1 DEF Swept, Frontier
  <2>3. PICK F : F = {p \in RunsOf(r, {"free"}) : p < a}
    OBVIOUS
  <2>4. w = Released(r, a, n) /\ a \notin F /\ Listed(r, F)
    BY <1>3, <2>1, <2>2, <2>3
  <2>5. Freed(r, w, a, n, F)
    BY <1>1, <2>2, <2>4, ReleasedFreed
  <2>6. /\ RunStarts(w) = RunStarts(r) \ (a + 1..a + n - 1) /\ w.end = r.end
        /\ w.header[a].kind = "free"
        /\ \A p \in RunStarts(r) : p <= r.end /\ (p < a \/ p >= a + n) => w.header[p] = r.header[p]
    BY <2>5 DEF Freed, Header
  <2>7. ASSUME NEW p, p \in RunStarts(r) => p \in Nat
        PROVE  /\ p \in RunsOf(w, {"class", "large"})
                    <=> p \in RunsOf(r, {"class", "large"}) /\ p \notin a..a + n - 1
               /\ p \in RunsOf(w, {"class", "large"}) => w.header[p] = r.header[p]
    <3>1. CASE p \in a..a + n - 1
      <4>1. p = a \/ p \in a + 1..a + n - 1
        BY <2>2, <3>1
      <4>2. p \notin RunsOf(w, {"class", "large"})
        BY <2>6, <4>1 DEF RunsOf
      <4>3. QED
        BY <3>1, <4>2
    <3>2. CASE p \notin a..a + n - 1 /\ p \in RunStarts(r)
      <4>1. p < a \/ p >= a + n
        BY <2>2, <2>7, <3>2
      <4>2. p \in RunStarts(w)
        BY <2>2, <2>6, <2>7, <3>2, <4>1
      <4>3. p <= r.end => w.header[p] = r.header[p]
        BY <2>6, <3>2, <4>1
      <4>4. QED
        BY <2>6, <3>2, <4>2, <4>3 DEF RunsOf
    <3>3. CASE p \notin RunStarts(r)
      BY <2>6, <3>3 DEF RunsOf
    <3>4. QED
      BY <3>1, <3>2, <3>3
  <2>8. ASSUME NEW b \in Address
        PROVE  b \in Room(w, cs, NoneFound) <=> b \in Room(r, cs, f)
    <3>1. PICK p : p = b[1]
      OBVIOUS
    <3>2. /\ p \in RunsOf(w, {"class", "large"})
               <=> p \in RunsOf(r, {"class", "large"}) /\ p \notin a..a + n - 1
          /\ p \in RunsOf(w, {"class", "large"}) => w.header[p] = r.header[p]
      BY <1>1, <2>7
    <3>3. p \in RunsOf(w, {"class", "large"}) => Depth(w, cs, p) = Depth(r, cs, p)
      BY <3>2 DEF Depth
    <3>4. b \in Room(w, cs, NoneFound)
            <=> p \in RunsOf(w, {"class", "large"}) /\ b[2] < Depth(w, cs, p)
      BY <1>2, <3>1 DEF Room
    <3>5. b \in Room(r, cs, f) <=> /\ p \in RunsOf(r, {"class", "large"})
                                   /\ p \notin a..a + n - 1 /\ b[2] < Depth(r, cs, p)
      BY <2>1, <3>1 DEF Room
    <3>6. QED
      BY <3>2, <3>3, <3>4, <3>5
  <2>9. QED
    BY <2>8 DEF Room
<1>4. CASE ~(f.pages > 0)
  <2>1. f.start..f.start + f.pages - 1 = {} /\ w = r
    BY <1>1, <1>4
  <2>2. QED
    BY <1>2, <2>1 DEF Room
<1>5. QED
  BY <1>3, <1>4

(* A step that releases the pages found leaves the room for objects. *)
LEMMA FlushRoom ==
  ASSUME IInv, pc = "sweep", Flush, NEW cs, \A c \in Class : cs[c].cursor = cells[c].cursor
  PROVE  Room(runs', cs, found') = Room(runs, cells, found)
<1>1. Swept(runs, found, marker.at[1])
  BY DEF IInv, RunsInv
<1>2. found' = NoneFound /\ runs' = Flushed(runs)
  BY DEF Flush, NoneFound
<1>3. Room(runs', cs, found') = Room(runs, cs, found)
  BY <1>1, <1>2, FlushedRoom DEF Flushed
<1>4. Layout(runs)
  BY <1>1 DEF Swept
<1>5. QED
  BY <1>3, <1>4, RoomCursors

(* A step that adds a run to the pages found takes its room. *)
LEMMA AddRoom ==
  ASSUME NEW page, SweepFacts(page), runs.header[page].kind # "system",
         NEW n, n = runs.header[page].pages, Add(page, n), NEW cs,
         \A c \in Class : cs[c].cursor = cells[c].cursor
                          \/ (cs[c].cursor = Nil /\ cells[c].cursor[1] = page),
         NEW b \in Address
  PROVE  b \in Room(runs', cs, found') <=> b \in Room(runs, cells, found) /\ b[1] # page
<1>1. runs' = runs /\ found' = Found(found, page, n)
  BY AddIs
<1>2. /\ Swept(runs, found, page) /\ page \in Nat /\ n \in Nat \ {0}
      /\ \A q \in RunStarts(runs) : page < q => page + n <= q
  BY DEF SweepFacts
<1>3. /\ Layout(runs) /\ found \in [start: Nat, pages: Nat]
      /\ \A p \in RunStarts(runs) : p \in Nat
      /\ found.pages > 0 => found.start + found.pages = page
  BY <1>2, LayoutFacts DEF Swept
<1>4. PICK p : p = b[1]
  OBVIOUS
<1>5. PICK g : g = found'
  OBVIOUS
<1>6. ASSUME p \in RunStarts(runs)
      PROVE  p \in g.start..g.start + g.pages - 1
               <=> p \in found.start..found.start + found.pages - 1 \/ p = page
  <2>1. p \in Nat /\ (page < p => page + n <= p)
    BY <1>2, <1>3, <1>6
  <2>2. CASE found.pages > 0
    <3>1. g.start = found.start /\ g.pages = found.pages + n
      BY <1>1, <1>3, <1>5, <2>2 DEF Found
    <3>2. QED
      BY <1>2, <1>3, <2>1, <2>2, <3>1
  <2>3. CASE ~(found.pages > 0)
    <3>1. g.start = page /\ g.pages = n
      BY <1>1, <1>5, <2>3 DEF Found
    <3>2. QED
      BY <1>2, <1>3, <2>1, <2>3, <3>1
  <2>4. QED
    BY <2>2, <2>3
<1>7. ASSUME p \in RunsOf(runs, {"class", "large"}), p # page
      PROVE  Depth(runs, cs, p) = Depth(runs, cells, p)
  <2>1. PICK c : c = runs.header[p].class
    OBVIOUS
  <2>2. runs.header[p].kind # "large" => c \in Class
    BY <1>3, <1>7, <2>1 DEF RunsOf, Layout
  <2>3. ASSUME c \in Class
        PROVE  LinkedPart(cs, p, c) = LinkedPart(cells, p, c)
    BY <1>7, <2>3 DEF LinkedPart
  <2>4. QED
    BY <2>1, <2>2, <2>3 DEF Depth
<1>8. b \in Room(runs', cs, found')
        <=> /\ p \in RunsOf(runs, {"class", "large"})
            /\ p \notin g.start..g.start + g.pages - 1 /\ b[2] < Depth(runs, cs, p)
  BY <1>1, <1>4, <1>5 DEF Room
<1>9. b \in Room(runs, cells, found)
        <=> /\ p \in RunsOf(runs, {"class", "large"})
            /\ p \notin found.start..found.start + found.pages - 1
            /\ b[2] < Depth(runs, cells, p)
  BY <1>4 DEF Room
<1>10. p \in RunsOf(runs, {"class", "large"}) => p \in RunStarts(runs)
  BY DEF RunsOf
<1>11. QED
  BY <1>4, <1>6, <1>7, <1>8, <1>9, <1>10

(* What a step of the sweep does to the objects of the run at page. *)
Disposed(page, D) ==
  /\ objects' = objects \ D
  /\ \A b \in Address \ D : fields'[b] = fields[b]
  /\ \A b \in D : b[1] = page /\ ~(b \in Stored /\ b \in marked)
  /\ marked' \subseteq marked
  /\ \A b \in Stored \ D : IF b[1] = page THEN b \in marked \ marked'
                           ELSE b \in marked => b \in marked'

(* A run that is kept. *)
LEMMA KeptRunReach ==
  ASSUME IInv, IInv', ReachInv, NEW page, SweepFacts(page), SweepNext, Flush,
         \A c \in Class : cells'[c].cursor = cells[c].cursor, NEW D, Disposed(page, D)
  PROVE  ReachInv' /\ Reclaimed
<1>1. pc = "sweep"
  BY DEF SweepFacts
<1>2. Room(runs', cells', found') = Room(runs, cells, found)
  BY <1>1, FlushRoom
<1>3. Stored' = Stored \ D
  BY <1>2, StoredIs, StoredIsNext DEF Disposed
<1>4. RunSwept(page, D)
  BY <1>3 DEF Disposed, RunSwept
<1>5. QED
  BY <1>4, SweptReach

(* A run that becomes free. *)
LEMMA FreedRunReach ==
  ASSUME IInv, IInv', ReachInv, NEW page, SweepFacts(page), SweepNext,
         runs.header[page].kind # "system", NEW n, n = runs.header[page].pages, Add(page, n),
         \A c \in Class : cells'[c].cursor = cells[c].cursor
                          \/ (cells'[c].cursor = Nil /\ cells[c].cursor[1] = page),
         NEW D, Disposed(page, D), \A b \in Stored : b[1] = page => b \in D
  PROVE  ReachInv' /\ Reclaimed
<1>1. ASSUME NEW b \in Address
      PROVE  b \in Room(runs', cells', found') <=> b \in Room(runs, cells, found) /\ b[1] # page
  BY AddRoom
<1>2. ASSUME NEW b
      PROVE  b \in Stored' <=> b \in Stored \ D
  BY <1>1, StoredIs, StoredIsNext DEF Disposed
<1>3. Stored' = Stored \ D
  BY <1>2
<1>4. RunSwept(page, D)
  BY <1>3 DEF Disposed, RunSwept
<1>5. QED
  BY <1>4, SweptReach

(* A free run has no objects. *)
LEMMA SweepFreeReach ==
  ASSUME IInv, IInv', ReachInv, SweepFree
  PROVE  ReachInv' /\ Reclaimed
<1>1. PICK page, n : page = marker.at[1] /\ n = runs.header[page].pages
  OBVIOUS
<1>2. SweepFacts(page) /\ runs.header[page].kind = "free"
  BY <1>1, SweepAtIs DEF SweepFree
<1>3. Add(page, n) /\ UNCHANGED <<cells, objects, marked, fields>> /\ SweepNext
  BY <1>1 DEF SweepFree
<1>4. \A b \in Stored : b[1] # page
  BY <1>2, StoredFacts
<1>5. Disposed(page, {})
  BY <1>3, <1>4 DEF Disposed
<1>6. QED
  BY <1>1, <1>2, <1>3, <1>4, <1>5, FreedRunReach

(* Nor has the run of the mark stack. *)
LEMMA SweepSystemReach ==
  ASSUME IInv, IInv', ReachInv, SweepSystem
  PROVE  ReachInv' /\ Reclaimed
<1>1. PICK page : page = marker.at[1]
  OBVIOUS
<1>2. SweepFacts(page) /\ runs.header[page].kind = "system"
  BY <1>1, SweepAtIs DEF SweepSystem
<1>3. Flush /\ UNCHANGED <<cells, objects, marked, fields>> /\ SweepNext
  BY DEF SweepSystem
<1>4. \A b \in Stored : b[1] # page
  BY <1>2, StoredFacts
<1>5. Disposed(page, {})
  BY <1>3, <1>4 DEF Disposed
<1>6. QED
  BY <1>2, <1>3, <1>5, KeptRunReach

(* A large object goes unless it is marked. *)
LEMMA SweepLargeReach ==
  ASSUME IInv, IInv', ReachInv, SweepLarge
  PROVE  ReachInv' /\ Reclaimed
<1>1. PICK page, n : page = marker.at[1] /\ n = runs.header[page].pages
  OBVIOUS
<1>2. SweepFacts(page) /\ runs.header[page].kind = "large"
  BY <1>1, SweepAtIs DEF SweepLarge
<1>3. PICK a : a = <<page, 0>>
  OBVIOUS
<1>4. UNCHANGED cells /\ SweepNext
  BY DEF SweepLarge
<1>5. ASSUME NEW b \in Stored, b[1] = page
      PROVE  b = a
  <2>1. b[2] \in Nat /\ b[2] < RunCells(page) /\ b = <<b[1], b[2]>>
    BY <1>5, StoredFacts
  <2>2. RunCells(page) = 1
    BY <1>2 DEF RunCells
  <2>3. b[2] = 0
    BY <2>1, <2>2
  <2>4. QED
    BY <1>3, <1>5, <2>1, <2>3
<1>6. fields \in [Address -> [Field -> Reference]]
  BY DEF IInv, Typed
<1>7. CASE a \in marked
  <2>1. marked' = marked \ {a} /\ Flush /\ Gone({})
    BY <1>1, <1>3, <1>7 DEF SweepLarge
  <2>2. objects' = objects /\ fields' = fields
    BY <1>6, <2>1 DEF Gone
  <2>3. \A b \in Stored : IF b[1] = page THEN b \in marked \ marked' ELSE b \in marked => b \in marked'
    BY <1>3, <1>5, <1>7, <2>1
  <2>4. Disposed(page, {})
    BY <2>1, <2>2, <2>3 DEF Disposed
  <2>5. QED
    BY <1>2, <1>4, <2>1, <2>4, KeptRunReach
<1>8. CASE a \notin marked
  <2>1. Add(page, n) /\ Gone({a}) /\ marked' = marked
    BY <1>1, <1>3, <1>8 DEF SweepLarge
  <2>2. objects' = objects \ {a} /\ \A b \in Address \ {a} : fields'[b] = fields[b]
    BY <2>1 DEF Gone
  <2>3. a[1] = page
    BY <1>3
  <2>4. Disposed(page, {a})
    BY <1>5, <1>8, <2>1, <2>2, <2>3 DEF Disposed
  <2>5. \A b \in Stored : b[1] = page => b \in {a}
    BY <1>5
  <2>6. \A c \in Class : cells'[c].cursor = cells[c].cursor
    BY <1>4
  <2>7. QED
    BY <1>1, <1>2, <1>4, <2>1, <2>4, <2>5, <2>6, FreedRunReach
<1>9. QED
  BY <1>7, <1>8

(* The cells of a class page that hold objects. *)
LEMMA StoredOnPage ==
  ASSUME IInv, NEW page, SweepFacts(page), runs.header[page].kind = "class",
         NEW c, c = runs.header[page].class, NEW b \in Stored, b[1] = page
  PROVE  /\ b \in CellsOf(page, UsedCells(page, c))
         /\ b \in CellsOf(page, CellsPerPage[c])
<1>1. b[2] \in Nat /\ b[2] < RunCells(page) /\ b = <<page, b[2]>>
  BY StoredFacts
<1>2. RunCells(page) = UsedCells(page, c)
  BY DEF RunCells
<1>3. /\ UsedCells(page, c) \in Nat /\ UsedCells(page, c) <= CellsPerPage[c] /\ c \in Class
  BY ClassRun
<1>4. CellsPerPage[c] \in Nat
  BY <1>3, HeapAssumption
<1>5. b[2] \in 0..UsedCells(page, c) - 1 /\ b[2] \in 0..CellsPerPage[c] - 1
  BY <1>1, <1>2, <1>3, <1>4
<1>6. QED
  BY <1>1, <1>5 DEF CellsOf

(* A class page without a marked cell is freed. *)
LEMMA EmptyPageReach ==
  ASSUME IInv, IInv', ReachInv, NEW page, NEW c, AtClassPage(page, c), Live(page, c) = {},
         PageFreed(page, c)
  PROVE  ReachInv' /\ Reclaimed
<1>1. /\ SweepFacts(page) /\ SweepNext
      /\ runs.header[page].kind = "class" /\ runs.header[page].class = c
  BY DEF AtClassPage
<1>2. c \in Class /\ runs.header[page].pages = 1 /\ cells \in CellsSet
  BY AtClassPageIs
<1>3. PICK all : all = CellsOf(page, CellsPerPage[c])
  OBVIOUS
<1>4. Add(page, 1) /\ NoCursorOn(cells, c, page, cells') /\ Gone(all) /\ marked' = marked \ all
  BY <1>3 DEF PageFreed
<1>5. \A d \in Class : cells'[d].cursor = cells[d].cursor
                       \/ (cells'[d].cursor = Nil /\ cells[d].cursor[1] = page)
  BY <1>2, <1>4, CursorDropped
<1>6. \A b \in all : b[1] = page
  BY <1>3 DEF CellsOf
<1>7. ASSUME NEW b \in Stored, b[1] = page
      PROVE  b \in all /\ b \notin marked
  <2>1. b \in CellsOf(page, UsedCells(page, c)) /\ b \in all
    BY <1>1, <1>3, <1>7, StoredOnPage
  <2>2. QED
    BY <2>1 DEF Live
<1>8. objects' = objects \ all /\ \A b \in Address \ all : fields'[b] = fields[b]
  BY <1>4 DEF Gone
<1>9. Disposed(page, all)
  BY <1>4, <1>6, <1>7, <1>8 DEF Disposed
<1>10. QED
  BY <1>1, <1>2, <1>4, <1>5, <1>7, <1>9, FreedRunReach

(* Otherwise the cells without a mark go. *)
LEMMA UsedPageReach ==
  ASSUME IInv, IInv', ReachInv, NEW page, NEW c, AtClassPage(page, c), CellsFreed(page, c)
  PROVE  ReachInv' /\ Reclaimed
<1>1. /\ SweepFacts(page) /\ SweepNext
      /\ runs.header[page].kind = "class" /\ runs.header[page].class = c
  BY DEF AtClassPage
<1>2. c \in Class /\ cells \in CellsSet
  BY AtClassPageIs
<1>3. PICK used, live, dead : used = UsedCells(page, c) /\ live = Live(page, c) /\ dead = DeadCells(page, c)
  OBVIOUS
<1>4. live = CellsOf(page, used) \cap marked /\ dead = Dead(page, used, live)
  BY <1>3 DEF Live, DeadCells
<1>5. used \in Nat /\ CellsOf(page, used) \subseteq Address
  BY <1>1, <1>3, ClassRun
<1>6. PICK gone : gone = ToSet(dead)
  OBVIOUS
<1>7. gone = CellsOf(page, used) \ live
  BY ONLY <1>4, <1>5, <1>6, DeadIs, Zenon
<1>8. /\ Flush /\ MoreFree(cells, c, dead, cells') /\ Gone(gone) /\ marked' = marked \ live
  BY <1>3, <1>6 DEF CellsFreed
<1>9. \A d \in Class : cells'[d].cursor = cells[d].cursor
  BY <1>2, <1>8 DEF MoreFree, CellsSet
<1>10. \A b \in CellsOf(page, used) : b[1] = page
  BY DEF CellsOf
<1>11. \A b \in Stored : b[1] = page => b \in CellsOf(page, used)
  BY <1>1, <1>3, StoredOnPage
<1>12. objects' = objects \ gone /\ \A b \in Address \ gone : fields'[b] = fields[b]
  BY <1>8 DEF Gone
<1>13. \A b \in gone : b[1] = page /\ b \notin marked
  BY <1>4, <1>7, <1>10
<1>14. \A b \in Stored \ gone : IF b[1] = page THEN b \in marked \ marked'
                                ELSE b \in marked => b \in marked'
  BY <1>4, <1>7, <1>8, <1>10, <1>11
<1>15. Disposed(page, gone)
  BY <1>8, <1>12, <1>13, <1>14 DEF Disposed
<1>16. QED
  BY <1>1, <1>8, <1>9, <1>15, KeptRunReach

(* A class page is swept in one of the two ways. *)
LEMMA SweepClassReach ==
  ASSUME IInv, IInv', ReachInv, SweepClass
  PROVE  ReachInv' /\ Reclaimed
  BY SweepClassIs, EmptyPageReach, UsedPageReach

(* The sweep ends when every object of the heap is reachable and has no    *)
(* mark.                                                                   *)
Exact == Stored' = Reachable' /\ marked' \cap Stored' = {}

(* The end of the sweep. *)
LEMMA SweepEndReach ==
  ASSUME IInv, IInv', ReachInv, SweepEnd
  PROVE  ReachInv' /\ Quiet /\ Exact
<1>1. /\ pc = "sweep" /\ marker.at[1] > runs.end /\ Flush
      /\ pc' \in {"mutator", "allocate"}
      /\ UNCHANGED <<request, roots, cells, objects, marked, fields>>
  BY DEF SweepEnd
<1>2. Room(runs', cells', found') = Room(runs, cells, found)
  BY <1>1, FlushRoom
<1>3. Stored' = Stored
  BY <1>1, <1>2, StoredIs, StoredIsNext
<1>4. Reachable' = Reachable
  BY <1>1, ReachableNow, ReachableNext
<1>5. /\ Closed(roots, fields, Reachable) /\ Reachable \subseteq Stored
      /\ \A b \in Stored : b[1] < marker.at[1] => b \in Reachable /\ b \notin marked
  BY <1>1 DEF ReachInv, SweepInv
<1>6. runs.end \in Nat /\ marker.at[1] \in Nat
  <2>1. marker.at \in Nat \X Nat
    BY DEF IInv, Typed
  <2>2. QED
    BY <2>1, InvLayout, LayoutFacts
<1>7. ASSUME NEW b \in Stored
      PROVE  b \in Reachable /\ b \notin marked
  <2>1. b[1] \in Nat /\ b[1] <= runs.end
    BY StoredFacts
  <2>2. QED
    BY <1>1, <1>5, <1>6, <2>1
<1>8. Stored = Reachable /\ marked \cap Stored = {}
  BY <1>5, <1>7
<1>9. Closed(roots', fields', Stored')
  BY <1>1, <1>3, <1>5, <1>8
<1>10. ReachInv'
  BY <1>1, <1>3, <1>8, <1>9 DEF ReachInv
<1>11. QED
  BY <1>1, <1>3, <1>4, <1>8, <1>10 DEF Quiet, Exact

-----------------------------------------------------------------------------
(* An empty heap. *)
LEMMA InitReach ==
  ASSUME Init
  PROVE  ReachInv /\ Stored = {}
<1>1. /\ pc = "mutator" /\ objects = {} /\ marked = {} /\ roots = [s \in Slot |-> Nil]
  BY DEF Init
<1>2. Stored = {}
  BY <1>1 DEF Stored
<1>3. Closed(roots, fields, Stored)
  BY <1>1, <1>2 DEF Closed
<1>4. QED
  BY <1>1, <1>2, <1>3 DEF ReachInv

(* Nothing happens. *)
LEMMA StutterReach ==
  ASSUME IInv, IInv', ReachInv, UNCHANGED vars
  PROVE  ReachInv' /\ Quiet
<1>1. UNCHANGED <<pc, request, roots, runs, cells, objects, marked, fields, marker, found>>
  BY DEF vars
<1>2. Stored' = Stored
  BY <1>1, StoredSame
<1>3. Reachable' = Reachable
  BY <1>1, ReachableNow, ReachableNext
<1>4. ReachInv
  OBVIOUS
<1>5. MarkingInv' <=> MarkingInv
  BY <1>1, <1>2, <1>3 DEF MarkingInv, Marking
<1>6. SweepInv' <=> SweepInv
  BY <1>1, <1>2, <1>3 DEF SweepInv
<1>7. ReachInv'
  BY <1>1, <1>2, <1>4, <1>5, <1>6 DEF ReachInv
<1>8. QED
  BY <1>1, <1>2, <1>7 DEF Quiet

(* What a step does to the objects and the references to them, by the part *)
(* of the system that takes it.                                            *)
Effect ==
  \/ Mutate /\ Stored' = Stored
  \/ \E a : Created(a)
  \/ Reclaimed
  \/ Quiet

(* Every step keeps the invariant, and only the last step of a sweep goes  *)
(* on from it.                                                             *)
LEMMA NextReach ==
  ASSUME IInv, ReachInv, [Next]_vars
  PROVE  /\ IInv' /\ ReachInv' /\ Effect
         /\ pc = "sweep" /\ pc' # "sweep" => Exact
<1>1. IInv'
  BY NextKeeps
<1>2. CASE Mutate
  <2>1. pc = "mutator"
    BY <1>2 DEF Mutate, Load, Store, Drop
  <2>2. QED
    BY <1>1, <1>2, <2>1, MutateReach DEF Effect
<1>3. CASE Request
  <2>1. pc = "mutator"
    BY <1>3 DEF Request, RequestCollection, RequestCell, RequestLarge, Requested
  <2>2. QED
    BY <1>1, <1>3, <2>1, RequestReach DEF Effect
<1>4. CASE Allocate
  <2>1. pc = "allocate"
    BY <1>4 DEF Allocate, PopCell, RefillClass, TakeLarge, Exhausted, OutOfMemory, NoRoom
  <2>2. ReachInv' /\ Effect
    BY <1>1, <1>4, PopCellReach, RefillClassReach, TakeLargeReach, NoRoomReach
       DEF Allocate, Effect
  <2>3. QED
    BY <1>1, <2>1, <2>2
<1>5. CASE Mark
  <2>1. pc # "sweep"
    BY <1>5 DEF Mark, MarkRoot, DrainOne, DrainEnd, RescanOne, RescanEnd
  <2>2. ReachInv' /\ Effect
    BY <1>1, <1>5, MarkRootReach, DrainOneReach, DrainEndReach, RescanOneReach, RescanEndReach
       DEF Mark, Effect
  <2>3. QED
    BY <1>1, <2>1, <2>2
<1>6. CASE SweepClass \/ SweepLarge \/ SweepFree \/ SweepSystem
  <2>1. pc' = pc
    BY <1>6 DEF SweepClass, SweepLarge, SweepFree, SweepSystem, SweepNext
  <2>2. ReachInv' /\ Effect
    BY <1>1, <1>6, SweepClassReach, SweepLargeReach, SweepFreeReach, SweepSystemReach DEF Effect
  <2>3. QED
    BY <1>1, <2>1, <2>2
<1>7. CASE SweepEnd
  BY <1>1, <1>7, SweepEndReach DEF Effect
<1>8. CASE UNCHANGED vars
  <2>1. pc' = pc
    BY <1>8 DEF vars
  <2>2. QED
    BY <1>1, <1>8, <2>1, StutterReach DEF Effect
<1>9. QED
  BY <1>2, <1>3, <1>4, <1>5, <1>6, <1>7, <1>8 DEF Next, Sweep

(* The heap and its objects are sound in every state. *)
THEOREM ReachInvariant == Spec => [](IInv /\ ReachInv)
<1>1. Init => IInv /\ ReachInv
  BY InitGood, InitReach
<1>2. IInv /\ ReachInv /\ [Next]_vars => (IInv /\ ReachInv)'
  BY NextReach
<1>3. QED
  BY <1>1, <1>2, PTL DEF Spec

(* collect keeps exactly what the roots reach and leaves no mark, in       *)
(* whatever order it marks and however often the mark stack overflows.     *)
THEOREM CollectionIsExact == Spec => CollectionExact
<1>1. IInv /\ ReachInv /\ [Next]_vars
        => [pc = "sweep" /\ pc' # "sweep" =>
              Stored' = Reachable' /\ marked' \cap Stored' = {}]_vars
  BY NextReach DEF Exact
<1>2. QED
  BY <1>1, ReachInvariant, PTL DEF Spec, CollectionExact

-----------------------------------------------------------------------------
(* The references of the objects of the heap. *)
Contents == [a \in Stored |-> fields[a]]

(* Contents after a step. *)
LEMMA ContentsNext == Contents' = [a \in Stored' |-> fields'[a]]
BY DEF Contents

(* A new object. *)
LEMMA CreatedCreates ==
  ASSUME IInv, NEW a, Created(a)
  PROVE  \E s \in Slot : Objects!Create(s)
<1>1. /\ request.slot \in Slot /\ a \in Address /\ a \notin Stored /\ Stored' = Stored \cup {a}
      /\ roots' = [roots EXCEPT ![request.slot] = a]
      /\ fields' = [fields EXCEPT ![a] = NoFields]
  BY DEF Created
<1>2. fields \in [Address -> [Field -> Reference]] /\ Stored \subseteq Address
  BY StoredIs DEF IInv, Typed
<1>3. \A b \in Stored' : fields'[b] = IF b = a THEN [f \in Field |-> Nil] ELSE Contents[b]
  BY <1>1, <1>2 DEF Contents, NoFields
<1>4. Contents' = [b \in Stored' |-> IF b = a THEN [f \in Field |-> Nil] ELSE Contents[b]]
  BY <1>3, ContentsNext
<1>5. PICK s \in Slot : s = request.slot
  BY <1>1
<1>6. roots' = [roots EXCEPT ![s] = a]
  BY <1>1, <1>5
<1>7. Objects!Create(s)
  BY <1>1, <1>4, <1>6 DEF Objects!Create, Contents
<1>8. QED
  BY <1>7

(* The mutator. *)
LEMMA MutateMoves ==
  ASSUME IInv, ReachInv, Mutate, Stored' = Stored
  PROVE  Objects!Next
<1>1. pc = "mutator"
  BY DEF Mutate, Load, Store, Drop
<1>2. Closed(roots, fields, Stored)
  BY <1>1 DEF ReachInv
<1>3. /\ roots \in [Slot -> Reference] /\ fields \in [Address -> [Field -> Reference]]
      /\ Stored \subseteq Address
  BY StoredIs DEF IInv, Typed
<1>4. ASSUME fields' = fields
      PROVE  Contents' = Contents
  BY <1>4, ContentsNext DEF Contents
<1>5. ASSUME NEW s \in Slot, Drop(s)
      PROVE  Objects!Next
  <2>1. roots' = [roots EXCEPT ![s] = Nil] /\ fields' = fields
    BY <1>5 DEF Drop
  <2>2. Objects!Drop(s)
    BY <1>4, <2>1 DEF Objects!Drop, Contents
  <2>3. QED
    BY <2>2 DEF Objects!Next
<1>6. ASSUME NEW s \in Slot, NEW t \in Slot, NEW f \in Field, Load(s, f, t)
      PROVE  Objects!Next
  <2>1. roots[s] # Nil /\ roots' = [roots EXCEPT ![t] = fields[roots[s]][f]] /\ fields' = fields
    BY <1>6 DEF Load
  <2>2. roots[s] \in Stored
    BY <1>2, <2>1 DEF Closed
  <2>3. roots' = [roots EXCEPT ![t] = Contents[roots[s]][f]]
    BY <2>1, <2>2 DEF Contents
  <2>4. Objects!Load(s, f, t)
    BY <1>4, <2>1, <2>3 DEF Objects!Load, Contents
  <2>5. QED
    BY <2>4 DEF Objects!Next
<1>7. ASSUME NEW s \in Slot, NEW t \in Slot, NEW f \in Field, Store(s, f, t)
      PROVE  Objects!Next
  <2>1. /\ roots[s] # Nil /\ roots' = roots
        /\ fields' = [fields EXCEPT ![roots[s]][f] = roots[t]]
    BY <1>7 DEF Store
  <2>2. PICK a \in Stored : a = roots[s]
    BY <1>2, <2>1 DEF Closed
  <2>3. fields' = [fields EXCEPT ![a] = [fields[a] EXCEPT ![f] = roots[t]]]
    BY <1>3, <2>1, <2>2
  <2>4. Contents' = [Contents EXCEPT ![a] = [Contents[a] EXCEPT ![f] = roots[t]]]
    <3>1. \A b \in Stored : fields'[b] = IF b = a THEN [fields[a] EXCEPT ![f] = roots[t]] ELSE fields[b]
      BY <1>3, <2>3
    <3>2. QED
      BY <3>1, ContentsNext DEF Contents
  <2>5. Contents' = [Contents EXCEPT ![roots[s]][f] = roots[t]]
    BY <2>2, <2>4
  <2>6. Objects!Store(s, f, t)
    BY <2>1, <2>5 DEF Objects!Store, Contents
  <2>7. QED
    BY <2>6 DEF Objects!Next
<1>8. QED
  BY <1>5, <1>6, <1>7 DEF Mutate

(* The sweep. *)
LEMMA ReclaimedReclaims ==
  ASSUME IInv, Reclaimed
  PROVE  Objects!Reclaim
<1>1. /\ Closed(roots, fields, Reachable) /\ Reachable \subseteq Stored'
      /\ Stored' \subseteq Stored /\ roots' = roots
      /\ \A b \in Stored' : fields'[b] = fields[b]
  BY DEF Reclaimed
<1>2. PICK R : R = Reachable
  OBVIOUS
<1>3. R \in SUBSET Stored' /\ R \subseteq Stored /\ Closed(roots, fields, R)
  BY <1>1, <1>2
<1>4. \A a \in R : Contents[a] = fields[a]
  BY <1>3 DEF Contents
<1>5. Objects!Closed(R)
  BY <1>3, <1>4 DEF Objects!Closed, Closed, Contents
<1>6. Contents' = [a \in Stored' |-> Contents[a]]
  BY <1>1, ContentsNext DEF Contents
<1>7. QED
  BY <1>1, <1>3, <1>5, <1>6 DEF Objects!Reclaim, Contents

(* collect, allocate and the moves of references keep the promise of       *)
(* ObjectHeap: an object that a root reaches keeps its address and its     *)
(* references, through every collection.                                   *)
THEOREM HeapImplementsObjectHeap == Spec => ImplementsObjectHeap
<1>1. Init => Objects!Init
  <2>1. SUFFICES ASSUME Init
                 PROVE  Objects!Init
    OBVIOUS
  <2>2. Stored = {} /\ roots = [s \in Slot |-> Nil]
    BY <2>1, InitReach DEF Init
  <2>3. [a \in Stored |-> fields[a]] = [a \in {} |-> Nil]
    BY <2>2
  <2>4. QED
    BY <2>2, <2>3 DEF Objects!Init
<1>2. IInv /\ ReachInv /\ [Next]_vars => [Objects!Next]_<<Stored, Contents, roots>>
  <2>1. SUFFICES ASSUME IInv, ReachInv, [Next]_vars
                 PROVE  Objects!Next \/ UNCHANGED <<Stored, Contents, roots>>
    OBVIOUS
  <2>2. Effect
    BY <2>1, NextReach
  <2>3. CASE Mutate /\ Stored' = Stored
    BY <2>1, <2>3, MutateMoves
  <2>4. ASSUME NEW a, Created(a)
        PROVE  Objects!Next
    BY <2>1, <2>4, CreatedCreates DEF Objects!Next
  <2>5. CASE Reclaimed
    BY <2>1, <2>5, ReclaimedReclaims DEF Objects!Next
  <2>6. CASE Quiet
    <3>1. Stored' = Stored /\ roots' = roots /\ fields' = fields
      BY <2>6 DEF Quiet
    <3>2. Contents' = Contents
      BY <3>1, ContentsNext DEF Contents
    <3>3. QED
      BY <3>1, <3>2
  <2>7. QED
    BY <2>2, <2>3, <2>4, <2>5, <2>6 DEF Effect
<1>3. IInv /\ ReachInv /\ [Next]_vars
        => [Objects!Next]_<<Stored, [a \in Stored |-> fields[a]], roots>>
  BY <1>2 DEF Contents
<1>4. QED
  BY <1>1, <1>3, ReachInvariant, PTL DEF Spec, ImplementsObjectHeap, Objects!Spec
=============================================================================
