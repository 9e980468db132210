----------------------------- MODULE HeapProofs -----------------------------
(***************************************************************************)
(* Proofs about Heap: the runs tile the heap, the free list holds the free *)
(* runs, and no cell is free twice or free and in use, in every state and  *)
(* for all page counts, classes and objects.                               *)
(***************************************************************************)
EXTENDS Heap, FiniteSetTheorems, SequenceTheorems, WellFoundedInduction, TLAPS

Kinds == {"free", "class", "large", "system"}
HeaderSet == [kind: Kinds, pages: 0..MaxPages, class: Class \cup {Nil}]
RunsSet == [header: [Page -> HeaderSet], free: Seq(Page), end: 0..MaxPages,
            stack: 0..MaxPages]
CellsSet == [Class -> [free: Seq(Address), cursor: Reference]]
RequestSet == [slot: Slot, kind: Class \cup {"large"}, size: Nat,
               stage: {"first", "last"}]

Sizes(r) == [p \in Page |-> r.header[p].pages]

(* S is where the runs of sizes g start that tile the pages 1..end. *)
Tiling(g, end, S) ==
  /\ S \subseteq 1..end + 1 /\ 1 \in S /\ end + 1 \in S
  /\ \A p \in S : p <= end => g[p] >= 1 /\ p + g[p] \in S
  /\ \A p, q \in S : p <= end /\ p < q => p + g[p] <= q

(* The runs tile the heap, and a class page is one page. *)
Layout(r) ==
  /\ r \in RunsSet
  /\ Tiling(Sizes(r), r.end, RunStarts(r))
  /\ \A p \in RunStarts(r) :
       p <= r.end /\ r.header[p].kind = "class" => r.header[p].pages = 1 /\ r.header[p].class \in Class

RunsOf(r, kinds) == {p \in RunStarts(r) : p <= r.end /\ r.header[p].kind \in kinds}
Busy(r) == RunsOf(r, {"class", "large", "system"})

(* The list of free runs holds those of F. *)
Listed(r, F) == IsInjective(r.free) /\ ToSet(r.free) = F

(* The mark stack is the only system run. *)
StackRun(r) == RunsOf(r, {"system"}) = {r.stack} \ {0}

GoodRuns(r) == Layout(r) /\ Listed(r, RunsOf(r, {"free"})) /\ StackRun(r)

ClassPage(r, p, c) == p \in RunsOf(r, {"class"}) /\ r.header[p].class = c

(* Below this page the sweep has listed the free runs. *)
Frontier(f, at) == IF f.pages > 0 THEN f.start ELSE at

(* The runs when the sweep has come to the page at and has found the free  *)
(* pages f before it.                                                      *)
Swept(r, f, at) ==
  /\ Layout(r) /\ StackRun(r)
  /\ at \in RunStarts(r)
  /\ f \in [start: Nat, pages: Nat]
  /\ Listed(r, {p \in RunsOf(r, {"free"}) : p < Frontier(f, at)})
  /\ f.pages > 0 =>
       /\ f.start \in RunStarts(r) /\ f.start + f.pages = at
       /\ \A p \in RunsOf(r, {"system"}) : p < f.start \/ p >= at

(* No cell and no cursor is in the pages found free or, of the lists,      *)
(* beyond them.                                                            *)
SweptCells(cs, f, at) ==
  \A c \in Class :
    /\ \A a \in ToSet(cs[c].free) : a[1] < Frontier(f, at)
    /\ cs[c].cursor # Nil => cs[c].cursor[1] < Frontier(f, at) \/ cs[c].cursor[1] >= at

(* Below the cursor of a class, the cells of a page are linked. *)
LinkedPart(cs, p, c) ==
  IF cs[c].cursor # Nil /\ cs[c].cursor[1] = p THEN cs[c].cursor[2] ELSE CellsPerPage[c]

GoodCells(r, cs, o) ==
  \A c \in Class :
    /\ cs[c].cursor # Nil =>
         ClassPage(r, cs[c].cursor[1], c) /\ cs[c].cursor[2] \in 1..CellsPerPage[c] - 1
    /\ IsInjective(cs[c].free)
    /\ \A a \in ToSet(cs[c].free) :
         ClassPage(r, a[1], c) /\ a[2] < LinkedPart(cs, a[1], c) /\ a \notin o

Typed ==
  /\ pc \in {"mutator", "allocate", "roots", "drain", "rescan", "sweep"}
  /\ request = NoRequest \/ (request \in RequestSet /\ (request.kind = "large" => request.size > 0))
  /\ pc = "allocate" => request # NoRequest
  /\ roots \in [Slot -> Reference]
  /\ cells \in CellsSet
  /\ objects \subseteq Address /\ marked \subseteq objects
  /\ fields \in [Address -> [Field -> Reference]]
  /\ marker \in [stack: Seq(Address), overflowed: BOOLEAN, at: Nat \X Nat]
  /\ found \in [start: Nat, pages: Nat]

RunsInv ==
  /\ pc # "sweep" => GoodRuns(runs) /\ found.pages = 0
  /\ pc = "sweep" => Swept(runs, found, marker.at[1]) /\ SweptCells(cells, found, marker.at[1])
  /\ pc = "roots" => marker.at[2] < Slots
  /\ pc = "rescan" => marker.at[1] \in Starts
  /\ Len(marker.stack) <= Capacity(runs)

IInv == Typed /\ RunsInv /\ GoodCells(runs, cells, objects)
-----------------------------------------------------------------------------
(* A set of numbers that is not empty has a least one. *)
LEMMA LeastExists ==
  ASSUME NEW S, S \subseteq Nat, S # {}
  PROVE  \E x \in S : \A y \in S : x <= y
<1>1. PICK x \in S : \A y \in S : <<y, x>> \notin OpToRel(<, Nat)
  BY NatLessThanWellFounded, WFMin, Zenon
<1>2. \A y \in S : x <= y
  <2> SUFFICES ASSUME NEW y \in S, ~(x <= y)
               PROVE  FALSE
    OBVIOUS
  <2>1. y \in Nat /\ x \in Nat /\ y < x
    OBVIOUS
  <2>2. <<y, x>> \in OpToRel(<, Nat)
    BY <2>1, Zenon DEF OpToRel
  <2>3. QED
    BY <1>1, <2>2
<1>3. QED
  BY <1>2

(* Runs next to each other become one. *)
LEMMA MergeTiling ==
  ASSUME NEW end \in Nat, NEW g \in [Page -> Nat], NEW h \in [Page -> Nat], NEW S,
         end <= MaxPages, Tiling(g, end, S),
         NEW a \in S, NEW n \in Nat \ {0}, a + n \in S,
         h[a] = n, \A p \in S : p <= end /\ (p < a \/ p >= a + n) => h[p] = g[p]
  PROVE  Tiling(h, end, S \ (a + 1..a + n - 1))
<1> DEFINE T == S \ (a + 1..a + n - 1)
<1>1. a \in Nat /\ a >= 1 /\ a + n <= end + 1 /\ S \subseteq 1..end + 1 /\ MaxPages \in Nat
  BY HeapAssumption DEF Tiling
<1>2. T \subseteq 1..end + 1 /\ 1 \in T /\ end + 1 \in T
  BY <1>1 DEF Tiling
<1>3. ASSUME NEW p \in T, p <= end
      PROVE  h[p] >= 1 /\ p + h[p] \in T
  <2>1. p \in S /\ p \in Page /\ p \in Nat
    BY <1>1, <1>3 DEF Page
  <2>2. CASE p = a
    BY <1>1, <2>1, <2>2
  <2>3. CASE p # a
    <3>1. p < a \/ p >= a + n
      BY <1>1, <2>1, <2>3
    <3>2. h[p] = g[p] /\ g[p] >= 1 /\ p + g[p] \in S /\ g[p] \in Nat
      BY <1>3, <2>1, <3>1 DEF Tiling
    <3>3. p < a => p + g[p] <= a
      BY <1>3, <2>1 DEF Tiling
    <3>4. p + g[p] \notin a + 1..a + n - 1
      BY <1>1, <2>1, <3>1, <3>2, <3>3
    <3>5. QED
      BY <3>2, <3>4
  <2>4. QED
    BY <2>2, <2>3
<1>4. ASSUME NEW p \in T, NEW q \in T, p <= end, p < q
      PROVE  p + h[p] <= q
  <2>1. p \in S /\ q \in S /\ p \in Nat /\ q \in Nat /\ p \in Page
    BY <1>1, <1>4 DEF Page
  <2>2. CASE p = a
    BY <1>1, <1>4, <2>1, <2>2
  <2>3. CASE p # a
    <3>1. p < a \/ p >= a + n
      BY <1>1, <2>1, <2>3
    <3>2. h[p] = g[p]
      BY <1>4, <2>1, <3>1
    <3>3. QED
      BY <1>4, <2>1, <3>2 DEF Tiling
  <2>4. QED
    BY <2>2, <2>3
<1> HIDE DEF T
<1>5. QED
  BY <1>2, <1>3, <1>4 DEF Tiling, T

(* The rest of a run becomes a run. *)
LEMMA SplitTiling ==
  ASSUME NEW end \in Nat, NEW g \in [Page -> Nat], NEW h \in [Page -> Nat], NEW S,
         end <= MaxPages, Tiling(g, end, S),
         NEW a \in S, a <= end, NEW n \in Nat \ {0}, NEW k \in Nat \ {0}, g[a] = n + k,
         h[a] = n, h[a + n] = k,
         \A p \in S : p <= end /\ p # a => h[p] = g[p]
  PROVE  Tiling(h, end, S \cup {a + n})
<1> DEFINE T == S \cup {a + n}
<1>1. /\ a \in Nat /\ a >= 1 /\ S \subseteq 1..end + 1 /\ MaxPages \in Nat
      /\ a + n + k \in S /\ a + n + k <= end + 1
  BY HeapAssumption DEF Tiling
<1>2. T \subseteq 1..end + 1 /\ 1 \in T /\ end + 1 \in T
  BY <1>1 DEF Tiling
<1>3. \A p \in S : p < a \/ p = a \/ p >= a + n + k
  BY <1>1 DEF Tiling
<1>4. ASSUME NEW p \in S, p <= end, p # a
      PROVE  p \in Nat /\ p \in Page /\ h[p] = g[p] /\ g[p] \in Nat
  <2>1. p \in Nat /\ p \in Page
    BY <1>1, <1>4 DEF Page
  <2>2. QED
    BY <2>1, <1>4
<1>5. ASSUME NEW p \in T, p <= end
      PROVE  h[p] >= 1 /\ p + h[p] \in T
  <2>1. CASE p = a
    BY <1>1, <2>1
  <2>2. CASE p = a + n
    BY <1>1, <2>2
  <2>3. CASE p \in S /\ p # a
    BY <1>4, <1>5, <2>3 DEF Tiling
  <2>4. QED
    BY <2>1, <2>2, <2>3
<1>6. ASSUME NEW p \in T, NEW q \in T, p <= end, p < q
      PROVE  p + h[p] <= q
  <2>1. p \in Nat /\ q \in Nat
    BY <1>2
  <2>2. CASE p = a
    BY <1>1, <1>3, <1>6, <2>1, <2>2
  <2>3. CASE p = a + n
    BY <1>1, <1>3, <1>6, <2>1, <2>3
  <2>4. CASE p \in S /\ p # a /\ p # a + n
    <3>1. h[p] = g[p] /\ g[p] \in Nat
      BY <1>4, <1>6, <2>4
    <3>2. CASE q \in S
      BY <1>6, <2>4, <3>1, <3>2 DEF Tiling
    <3>3. CASE q = a + n
      <4>1. p < a
        BY <1>1, <1>3, <1>6, <2>1, <2>4, <3>3
      <4>2. p + g[p] <= a
        BY <1>6, <2>4, <4>1 DEF Tiling
      <4>3. QED
        BY <1>1, <2>1, <3>1, <3>3, <4>2
    <3>4. QED
      BY <3>2, <3>3
  <2>5. QED
    BY <2>2, <2>3, <2>4
<1> HIDE DEF T
<1>7. QED
  BY <1>2, <1>5, <1>6 DEF Tiling, T

(* A run is added at the end of the heap. *)
LEMMA CarveTiling ==
  ASSUME NEW end \in Nat, NEW g \in [Page -> Nat], NEW h \in [Page -> Nat], NEW S,
         NEW n \in Nat \ {0}, end + n <= MaxPages, Tiling(g, end, S),
         h[end + 1] = n, \A p \in S : p <= end => h[p] = g[p]
  PROVE  Tiling(h, end + n, S \cup {end + n + 1})
<1> DEFINE T == S \cup {end + n + 1}
<1>1. S \subseteq 1..end + 1 /\ MaxPages \in Nat /\ end + 1 \in S
  BY HeapAssumption DEF Tiling
<1>2. T \subseteq 1..end + n + 1 /\ 1 \in T /\ end + n + 1 \in T
  BY <1>1 DEF Tiling
<1>3. ASSUME NEW p \in S, p <= end
      PROVE  h[p] = g[p] /\ g[p] \in Nat /\ p \in Nat /\ g[p] >= 1 /\ p + g[p] \in S
  BY <1>1, <1>3 DEF Tiling, Page
<1>4. ASSUME NEW p \in T, p <= end + n
      PROVE  h[p] >= 1 /\ p + h[p] \in T
  <2>1. CASE p \in S /\ p <= end
    BY <1>3, <2>1
  <2>2. CASE p = end + 1
    BY <2>2
  <2>3. QED
    BY <1>1, <1>4, <2>1, <2>2
<1>5. ASSUME NEW p \in T, NEW q \in T, p <= end + n, p < q
      PROVE  p + h[p] <= q
  <2>1. p \in Nat /\ q \in Nat /\ p \in S
    BY <1>1, <1>2, <1>5
  <2>2. CASE p = end + 1
    BY <1>1, <1>5, <2>1, <2>2
  <2>3. CASE p <= end /\ q \in S
    BY <1>3, <1>5, <2>1, <2>3 DEF Tiling
  <2>4. CASE p <= end /\ q = end + n + 1
    <3>1. p + g[p] <= end + 1
      BY <1>1, <1>3, <2>1, <2>4
    <3>2. QED
      BY <1>3, <2>1, <2>4, <3>1
  <2>5. QED
    BY <1>1, <1>5, <2>1, <2>2, <2>3, <2>4
<1> HIDE DEF T
<1>6. QED
  BY <1>2, <1>4, <1>5 DEF Tiling, T

(* Where a run starts, another ends, except at the start of the heap. *)
LEMMA StartIs ==
  ASSUME NEW end \in Nat, NEW g \in [Page -> Nat], NEW S, end <= MaxPages,
         Tiling(g, end, S), NEW p \in 1..end + 1
  PROVE  p \in S <=> p = 1 \/ \E q \in 1..p - 1 : q \in S /\ q + g[q] = p
<1>1. /\ S \subseteq 1..end + 1 /\ 1 \in S /\ MaxPages \in Nat /\ p \in Nat
      /\ \A q \in S : q <= end => g[q] >= 1 /\ q + g[q] \in S
      /\ \A q, t \in S : q <= end /\ q < t => q + g[q] <= t
  BY HeapAssumption DEF Tiling
<1>2. ASSUME NEW q \in 1..p - 1, q \in S, q + g[q] = p
      PROVE  p \in S
  BY <1>1, <1>2
<1>3. ASSUME p \in S, p # 1
      PROVE  \E q \in 1..p - 1 : q \in S /\ q + g[q] = p
  <2> DEFINE Below == {d \in Nat : d >= 1 /\ p - d \in S}
  <2>1. p - 1 \in Below
    BY <1>1, <1>3
  <2>2. PICK d \in Below : \A e \in Below : d <= e
    BY <2>1, LeastExists, Below \subseteq Nat
  <2>3. PICK q \in S : q = p - d
    BY <2>2
  <2>4. q \in 1..p - 1 /\ q <= end /\ q \in Page /\ q \in Nat /\ d \in Nat
    BY <1>1, <2>2, <2>3 DEF Page
  <2>5. g[q] \in Nat /\ g[q] >= 1 /\ q + g[q] \in S /\ q + g[q] <= p
    BY <1>1, <1>3, <2>4
  <2>6. q + g[q] = p
    <3>1. SUFFICES ASSUME q + g[q] < p
                   PROVE  FALSE
      BY <2>4, <2>5, <1>1
    <3>2. PICK e \in Nat : e = p - (q + g[q])
      BY <3>1, <2>4, <2>5, <1>1
    <3>3. e >= 1 /\ p - e = q + g[q] /\ e < d
      BY <3>1, <3>2, <2>3, <2>4, <2>5, <1>1
    <3>4. e \in Below
      BY <3>3, <2>5
    <3>5. QED
      BY <2>2, <2>4, <3>2, <3>3, <3>4
  <2>7. QED
    BY <2>4, <2>6
<1>4. QED
  BY <1>1, <1>2, <1>3

StartStep(f, r) ==
  [p \in 1..r.end + 1 |-> p = 1 \/ \E q \in 1..p - 1 : f[q] /\ q + r.header[q].pages = p]

(* RunStarts, with its recursive function as a choice. *)
LEMMA RunStartsUnfolds ==
  ASSUME NEW r
  PROVE  RunStarts(r) = {p \in 1..r.end + 1 : (CHOOSE f : f = StartStep(f, r))[p]}
  BY DEF RunStarts, StartStep

(* The walk of the runs stops exactly where they start. *)
LEMMA RunStartsAre ==
  ASSUME NEW r \in RunsSet, NEW S, Tiling(Sizes(r), r.end, S)
  PROVE  RunStarts(r) = S
<1>1. PICK end \in Nat : end = r.end /\ end <= MaxPages
  BY HeapAssumption DEF RunsSet
<1>2. PICK g \in [Page -> Nat] : g = Sizes(r)
  <2>1. \A p \in Page : r.header[p].pages \in Nat
    BY HeapAssumption DEF RunsSet, HeaderSet
  <2>2. QED
    BY <2>1 DEF Sizes
<1>3. Tiling(g, end, S) /\ MaxPages \in Nat
  BY <1>1, <1>2, HeapAssumption
<1>4. \A q \in Page : g[q] = r.header[q].pages
  BY <1>2 DEF Sizes
<1>5. \A p \in 1..end + 1 : \A q \in 1..p - 1 : q \in Page /\ q \in 1..end + 1 /\ q < p
  BY <1>1, <1>3 DEF Page
<1>6. \A p \in 1..end + 1 :
        p \in S <=> p = 1 \/ \E q \in 1..p - 1 : q \in S /\ q + r.header[q].pages = p
  <2> SUFFICES ASSUME NEW p \in 1..end + 1
               PROVE  p \in S <=> p = 1 \/ \E q \in 1..p - 1 : q \in S /\ q + r.header[q].pages = p
    OBVIOUS
  <2>1. p \in S <=> p = 1 \/ \E q \in 1..p - 1 : q \in S /\ q + g[q] = p
    BY <1>1, <1>3, StartIs
  <2>2. \A q \in 1..p - 1 : g[q] = r.header[q].pages
    BY <1>4, <1>5
  <2>3. QED
    BY <2>1, <2>2, Zenon
<1>7. PICK f0 : f0 = [p \in 1..end + 1 |-> p \in S]
  OBVIOUS
<1>8. f0 = StartStep(f0, r)
  <2>1. ASSUME NEW p \in 1..end + 1
        PROVE  p \in S <=> p = 1 \/ \E q \in 1..p - 1 : f0[q] /\ q + r.header[q].pages = p
    <3>1. ASSUME NEW q \in 1..p - 1
          PROVE  f0[q] <=> q \in S
      <4>1. q \in 1..end + 1
        BY <1>5
      <4>2. QED
        BY <1>7, <4>1, Zenon
    <3>2. QED
      BY <1>6, <3>1, Zenon
  <2>2. f0 = [p \in 1..end + 1 |->
                p = 1 \/ \E q \in 1..p - 1 : f0[q] /\ q + r.header[q].pages = p]
    BY <1>7, <2>1
  <2>3. QED
    BY <1>1, <2>2, Zenon DEF StartStep
<1>9. PICK f : f = (CHOOSE h : h = StartStep(h, r))
  OBVIOUS
<1>10. f = StartStep(f, r)
  BY <1>8, <1>9, Zenon
<1>11. \A p \in 1..end + 1 :
         f[p] <=> p = 1 \/ \E q \in 1..p - 1 : f[q] /\ q + r.header[q].pages = p
  BY <1>1, <1>10 DEF StartStep
<1> DEFINE Bad == {p \in 1..end + 1 : ~(f[p] <=> p \in S)}
<1>12. Bad = {}
  <2>1. SUFFICES ASSUME Bad # {}
                 PROVE  FALSE
    OBVIOUS
  <2>2. PICK p \in Bad : \A q \in Bad : p <= q
    BY <2>1, LeastExists, Bad \subseteq Nat
  <2>3. p \in 1..end + 1 /\ ~(f[p] <=> p \in S)
    BY <2>2
  <2>4. ASSUME NEW q \in 1..p - 1
        PROVE  f[q] <=> q \in S
    <3>1. q \in 1..end + 1 /\ q < p /\ p \in Nat /\ q \in Nat
      BY <1>5, <2>3
    <3>2. q \notin Bad
      BY <2>2, <3>1
    <3>3. QED
      BY <3>1, <3>2, Zenon
  <2>5. QED
    BY <1>6, <1>11, <2>3, <2>4, Zenon
<1>13. RunStarts(r) = {p \in 1..end + 1 : f[p]}
  BY <1>1, <1>9, RunStartsUnfolds, Zenon
<1>14. S \subseteq 1..end + 1
  BY <1>3 DEF Tiling
<1>15. QED
  BY <1>12, <1>13, <1>14

-----------------------------------------------------------------------------
(* What write_run changes. *)
LEMMA WrittenIs ==
  ASSUME NEW r \in RunsSet, NEW page \in Page, NEW header \in HeaderSet
  PROVE  /\ Written(r, page, header) \in RunsSet
         /\ Written(r, page, header).free = r.free
         /\ Written(r, page, header).end = r.end
         /\ Written(r, page, header).stack = r.stack
         /\ Written(r, page, header).header[page] = header
         /\ \A p \in Page : p < page \/ (p > page /\ p >= page + header.pages)
                              => Written(r, page, header).header[p] = r.header[p]
<1>1. PICK h : h = [p \in Page |->
                CASE p = page -> header
                  [] p \in page + 1..page + header.pages - 1 -> NoHeader
                  [] OTHER -> r.header[p]]
  OBVIOUS
<1>2. Written(r, page, header) = [r EXCEPT !.header = h]
  BY <1>1, Zenon DEF Written
<1>3. NoHeader \in HeaderSet /\ header.pages \in Nat /\ MaxPages \in Nat
  BY HeapAssumption DEF NoHeader, Header, HeaderSet, Kinds
<1>4. \A p \in Page : r.header[p] \in HeaderSet
  BY DEF RunsSet
<1>5. h[page] = header
  <2>1. page \notin page + 1..page + header.pages - 1
    BY <1>3 DEF Page
  <2>2. QED
    BY <1>1, <2>1
<1>6. ASSUME NEW p \in Page, p < page \/ (p > page /\ p >= page + header.pages)
      PROVE  h[p] = r.header[p]
  <2>1. p # page /\ p \notin page + 1..page + header.pages - 1
    BY <1>3, <1>6 DEF Page
  <2>2. QED
    BY <1>1, <2>1
<1>7. ASSUME NEW p \in Page
      PROVE  h[p] \in HeaderSet
  <2>1. CASE p = page
    BY <1>5, <2>1
  <2>2. CASE p # page /\ p \in page + 1..page + header.pages - 1
    BY <1>1, <1>3, <2>2
  <2>3. CASE p # page /\ p \notin page + 1..page + header.pages - 1
    BY <1>1, <1>4, <2>3
  <2>4. QED
    BY <2>1, <2>2, <2>3
<1>8. h \in [Page -> HeaderSet]
  BY <1>1, <1>7
<1>9. PICK w : w = [r EXCEPT !.header = h]
  OBVIOUS
<1>10. w \in RunsSet /\ w.free = r.free /\ w.end = r.end /\ w.stack = r.stack /\ w.header = h
  BY <1>8, <1>9 DEF RunsSet
<1>11. QED
  BY <1>2, <1>5, <1>6, <1>9, <1>10

(* The header at page is the only one outside the run that changed. *)
Wrote(r, w, page, header) ==
  /\ w \in RunsSet /\ w.free = r.free /\ w.end = r.end /\ w.stack = r.stack
  /\ w.header[page] = header
  /\ \A p \in Page : p < page \/ (p > page /\ p >= page + header.pages)
                       => w.header[p] = r.header[p]

(* write_run, for a name of the runs after it. *)
LEMMA WrittenSo ==
  ASSUME NEW r \in RunsSet, NEW page \in Page, NEW header \in HeaderSet,
         NEW w, w = Written(r, page, header)
  PROVE  Wrote(r, w, page, header)
  BY WrittenIs DEF Wrote

(* A list without one of its places. *)
LEMMA WithoutIs ==
  ASSUME NEW X, NEW s \in Seq(X), NEW i \in DOMAIN s, IsInjective(s)
  PROVE  /\ RemoveAt(s, i) \in Seq(X) /\ IsInjective(RemoveAt(s, i))
         /\ ToSet(RemoveAt(s, i)) = ToSet(s) \ {s[i]}
<1>1. PICK n \in Nat : n = Len(s) /\ DOMAIN s = 1..n
  BY LenProperties
<1>2. i \in Nat /\ i >= 1 /\ i <= n
  BY <1>1
<1>3. PICK t : t = RemoveAt(s, i)
  OBVIOUS
<1>4. /\ SubSeq(s, 1, i - 1) \in Seq(X) /\ Len(SubSeq(s, 1, i - 1)) = i - 1
      /\ \A j \in 1..i - 1 : SubSeq(s, 1, i - 1)[j] = s[j]
  BY <1>1, <1>2
<1>5. /\ SubSeq(s, i + 1, n) \in Seq(X) /\ Len(SubSeq(s, i + 1, n)) = n - i
      /\ \A j \in 1..n - i : SubSeq(s, i + 1, n)[j] = s[i + j]
  BY <1>1, <1>2
<1>6. PICK a \in Seq(X) : a = SubSeq(s, 1, i - 1)
  BY <1>4
<1>7. PICK b \in Seq(X) : b = SubSeq(s, i + 1, n)
  BY <1>5
<1>8. t = a \o b
  BY <1>1, <1>3, <1>6, <1>7 DEF RemoveAt
<1>9. /\ Len(a) = i - 1 /\ (\A j \in 1..i - 1 : a[j] = s[j])
      /\ Len(b) = n - i /\ (\A j \in 1..n - i : b[j] = s[i + j])
  BY <1>4, <1>5, <1>6, <1>7
<1>10. t \in Seq(X) /\ Len(t) = n - 1 /\ DOMAIN t = 1..n - 1
  <2>1. t \in Seq(X) /\ Len(t) = (i - 1) + (n - i)
    <3>1. (a \o b) \in Seq(X) /\ Len(a \o b) = Len(a) + Len(b)
      BY ConcatProperties
    <3>2. QED
      BY <1>8, <1>9, <3>1, Zenon
  <2>2. Len(t) = n - 1
    BY <1>2, <2>1
  <2>3. QED
    BY <2>1, <2>2, LenProperties
<1>11. \A j \in 1..n - 1 : t[j] = IF j < i THEN s[j] ELSE s[j + 1]
  <2> SUFFICES ASSUME NEW j \in 1..n - 1
               PROVE  t[j] = IF j < i THEN s[j] ELSE s[j + 1]
    OBVIOUS
  <2>1. CASE j < i
    <3>1. t[j] = a[j]
      BY <1>2, <1>8, <1>9, <2>1
    <3>2. QED
      BY <1>2, <1>9, <2>1, <3>1
  <2>2. CASE j >= i
    <3>1. t[j] = b[j - (i - 1)]
      <4>1. j \in 1..Len(a) + Len(b) /\ ~(j <= Len(a))
        BY <1>2, <1>9, <2>2
      <4>2. t[j] = b[j - Len(a)]
        BY <1>8, <4>1, ConcatProperties
      <4>3. QED
        BY <1>9, <4>2, Zenon
    <3>2. PICK k \in 1..n - i : k = j - (i - 1)
      BY <1>2, <2>2
    <3>3. b[k] = s[i + k]
      BY <1>9, Zenon
    <3>5. i + k = j + 1
      BY <1>2, <3>2
    <3>4. QED
      BY <2>2, <3>1, <3>2, <3>3, <3>5
  <2>3. QED
    BY <1>2, <2>1, <2>2
<1>12. \A j, k \in 1..n : s[j] = s[k] => j = k
  BY <1>1 DEF IsInjective
<1>13. IsInjective(t)
  <2> SUFFICES ASSUME NEW j \in 1..n - 1, NEW k \in 1..n - 1, t[j] = t[k]
               PROVE  j = k
    BY <1>10 DEF IsInjective
  <2>1. PICK x \in 1..n : x = IF j < i THEN j ELSE j + 1
    BY <1>2
  <2>2. PICK y \in 1..n : y = IF k < i THEN k ELSE k + 1
    BY <1>2
  <2>3. s[x] = s[y]
    BY <1>11, <2>1, <2>2
  <2>4. x = y
    BY <1>12, <2>3
  <2>5. QED
    BY <1>2, <2>1, <2>2, <2>4
<1>14. ToSet(t) \subseteq ToSet(s) \ {s[i]}
  <2> SUFFICES ASSUME NEW j \in 1..n - 1
               PROVE  t[j] \in ToSet(s) /\ t[j] # s[i]
    BY <1>10 DEF ToSet
  <2>1. PICK x \in 1..n : x = IF j < i THEN j ELSE j + 1
    BY <1>2
  <2>2. t[j] = s[x] /\ x # i
    BY <1>2, <1>11, <2>1
  <2>3. s[x] # s[i]
    BY <1>2, <1>12, <2>2
  <2>4. QED
    BY <1>1, <2>2, <2>3 DEF ToSet
<1>15. ToSet(s) \ {s[i]} \subseteq ToSet(t)
  <2> SUFFICES ASSUME NEW x \in 1..n, s[x] # s[i]
               PROVE  s[x] \in ToSet(t)
    BY <1>1 DEF ToSet
  <2>1. PICK j \in 1..n - 1 : j = IF x < i THEN x ELSE x - 1
    BY <1>2
  <2>2. t[j] = s[x]
    BY <1>2, <1>11, <2>1
  <2>3. QED
    BY <1>10, <2>2 DEF ToSet
<1>16. QED
  BY <1>3, <1>10, <1>13, <1>14, <1>15, Zenon

(* A list with one of its places changed. *)
LEMMA ReplacedIs ==
  ASSUME NEW X, NEW s \in Seq(X), NEW i \in DOMAIN s, IsInjective(s),
         NEW e \in X, e \notin ToSet(s)
  PROVE  /\ [s EXCEPT ![i] = e] \in Seq(X) /\ IsInjective([s EXCEPT ![i] = e])
         /\ ToSet([s EXCEPT ![i] = e]) = (ToSet(s) \ {s[i]}) \cup {e}
<1>1. PICK n \in Nat : n = Len(s) /\ DOMAIN s = 1..n
  BY LenProperties
<1>2. PICK t : t = [s EXCEPT ![i] = e]
  OBVIOUS
<1>3. t \in Seq(X)
  BY <1>1, <1>2, ExceptSeq
<1>4. DOMAIN t = 1..n /\ t[i] = e /\ \A j \in 1..n : j # i => t[j] = s[j]
  BY <1>1, <1>2
<1>5. \A j, k \in 1..n : s[j] = s[k] => j = k
  BY <1>1 DEF IsInjective
<1>6. \A j \in 1..n : s[j] # e
  BY <1>1 DEF ToSet
<1>7. IsInjective(t)
  BY <1>1, <1>4, <1>5, <1>6 DEF IsInjective
<1>8. ToSet(t) = (ToSet(s) \ {s[i]}) \cup {e}
  BY <1>1, <1>4, <1>5 DEF ToSet
<1>9. QED
  BY <1>2, <1>3, <1>7, <1>8, Zenon

(* A list with another before it. *)
LEMMA PrependedIs ==
  ASSUME NEW X, NEW s \in Seq(X), NEW t \in Seq(X), IsInjective(s), IsInjective(t),
         ToSet(s) \cap ToSet(t) = {}
  PROVE  /\ s \o t \in Seq(X) /\ IsInjective(s \o t)
         /\ ToSet(s \o t) = ToSet(s) \cup ToSet(t)
<1>1. PICK n \in Nat, m \in Nat : n = Len(s) /\ DOMAIN s = 1..n /\ m = Len(t) /\ DOMAIN t = 1..m
  BY LenProperties
<1>2. PICK u \in Seq(X) : u = s \o t
  BY ConcatProperties
<1>3. DOMAIN u = 1..n + m
  BY <1>1, <1>2
<1>4. \A j \in 1..n : u[j] = s[j]
  BY <1>1, <1>2
<1>5. \A j \in 1..m : n + j \in 1..n + m /\ u[n + j] = t[j]
  BY <1>1, <1>2
<1>6. \A j \in 1..n + m : j \in 1..n \/ \E k \in 1..m : j = n + k
  <2> SUFFICES ASSUME NEW j \in 1..n + m, j \notin 1..n
               PROVE  \E k \in 1..m : j = n + k
    OBVIOUS
  <2>1. j - n \in 1..m /\ j = n + (j - n)
    OBVIOUS
  <2>2. QED
    BY <2>1
<1>7. \A j \in 1..n : j \in 1..n + m
  OBVIOUS
<1>8. \A j \in 1..n, k \in 1..m : s[j] # t[k]
  BY <1>1 DEF ToSet
<1>9. /\ \A j, k \in 1..n : s[j] = s[k] => j = k
      /\ \A j, k \in 1..m : t[j] = t[k] => j = k
  BY <1>1 DEF IsInjective
<1>10. IsInjective(u)
  <2> SUFFICES ASSUME NEW x \in 1..n + m, NEW y \in 1..n + m, u[x] = u[y]
               PROVE  x = y
    BY <1>3 DEF IsInjective
  <2>1. CASE x \in 1..n /\ y \in 1..n
    BY <1>4, <1>9, <2>1
  <2>2. CASE x \in 1..n /\ y \notin 1..n
    <3>1. PICK k \in 1..m : y = n + k
      BY <1>6, <2>2
    <3>2. u[y] = t[k] /\ u[x] = s[x] /\ s[x] # t[k]
      BY <1>4, <1>5, <1>8, <2>2, <3>1
    <3>3. QED
      BY <3>2
  <2>3. CASE x \notin 1..n /\ y \in 1..n
    <3>1. PICK k \in 1..m : x = n + k
      BY <1>6, <2>3
    <3>2. u[x] = t[k] /\ u[y] = s[y] /\ s[y] # t[k]
      BY <1>4, <1>5, <1>8, <2>3, <3>1
    <3>3. QED
      BY <3>2
  <2>4. CASE x \notin 1..n /\ y \notin 1..n
    <3>1. PICK j \in 1..m : x = n + j
      BY <1>6, <2>4
    <3>2. PICK k \in 1..m : y = n + k
      BY <1>6, <2>4
    <3>3. u[x] = t[j] /\ u[y] = t[k]
      BY <1>5, <3>1, <3>2
    <3>4. t[j] = t[k]
      BY <3>3
    <3>5. j = k
      BY <1>9, <3>4
    <3>6. QED
      BY <3>1, <3>2, <3>5
  <2>5. QED
    BY <2>1, <2>2, <2>3, <2>4
<1>11. ToSet(u) \subseteq ToSet(s) \cup ToSet(t)
  <2> SUFFICES ASSUME NEW x \in 1..n + m
               PROVE  u[x] \in ToSet(s) \cup ToSet(t)
    BY <1>3 DEF ToSet
  <2>1. CASE x \in 1..n
    BY <1>1, <1>4, <2>1 DEF ToSet
  <2>2. CASE x \notin 1..n
    <3>1. PICK k \in 1..m : x = n + k
      BY <1>6, <2>2
    <3>2. u[x] = t[k]
      BY <1>5, <3>1
    <3>3. QED
      BY <1>1, <3>2 DEF ToSet
  <2>3. QED
    BY <2>1, <2>2
<1>12. ToSet(s) \subseteq ToSet(u)
  BY <1>1, <1>3, <1>4, <1>7 DEF ToSet
<1>13. ToSet(t) \subseteq ToSet(u)
  <2> SUFFICES ASSUME NEW k \in 1..m
               PROVE  t[k] \in ToSet(u)
    BY <1>1 DEF ToSet
  <2>1. n + k \in DOMAIN u /\ u[n + k] = t[k]
    BY <1>3, <1>5
  <2>2. QED
    BY <2>1 DEF ToSet
<1>14. QED
  BY <1>2, <1>10, <1>11, <1>12, <1>13

-----------------------------------------------------------------------------
(* There is a first run that is large enough. *)
LEMMA FirstFitExists ==
  ASSUME NEW r \in RunsSet, NEW count \in Nat,
         ~ \A i \in DOMAIN r.free : r.header[r.free[i]].pages < count
  PROVE  FirstFit(r, count) \in DOMAIN r.free /\ r.header[r.free[FirstFit(r, count)]].pages >= count
<1>1. r.free \in Seq(Page) /\ DOMAIN r.free \subseteq Nat
  BY DEF RunsSet
<1>2. \A i \in DOMAIN r.free : r.header[r.free[i]].pages \in Nat
  <2>1. \A i \in DOMAIN r.free : r.free[i] \in Page
    BY <1>1
  <2>2. \A p \in Page : r.header[p].pages \in Nat
    BY HeapAssumption DEF RunsSet, HeaderSet
  <2>3. QED
    BY <2>1, <2>2
<1> DEFINE Fits == {i \in DOMAIN r.free : r.header[r.free[i]].pages >= count}
<1>3. PICK i \in Fits : \A j \in Fits : i <= j
  <2>1. Fits # {}
    BY <1>2
  <2>2. Fits \subseteq Nat
    BY <1>1
  <2>3. QED
    BY <2>1, <2>2, LeastExists
<1>4. \A j \in 1..i - 1 : j \in DOMAIN r.free /\ j < i
  <2>1. i \in 1..Len(r.free) /\ Len(r.free) \in Nat /\ DOMAIN r.free = 1..Len(r.free)
    BY <1>1, <1>3
  <2>2. QED
    BY <2>1
<1>5. \A j \in 1..i - 1 : r.header[r.free[j]].pages < count
  <2> SUFFICES ASSUME NEW j \in 1..i - 1
               PROVE  r.header[r.free[j]].pages < count
    OBVIOUS
  <2>1. j \in DOMAIN r.free /\ j < i /\ j \notin Fits
    BY <1>1, <1>3, <1>4
  <2>2. QED
    BY <1>2, <2>1
<1>6. /\ i \in DOMAIN r.free /\ r.header[r.free[i]].pages >= count
      /\ \A j \in 1..i - 1 : r.header[r.free[j]].pages < count
  BY <1>3, <1>5
<1>7. QED
  BY <1>6, Zenon DEF FirstFit

CarvedRun(r, count, page, left) ==
  /\ r.end + count <= MaxPages /\ page = r.end + 1
  /\ left = [r EXCEPT !.end = @ + count]

WholeRun(r, count, i, page, left) ==
  /\ page = r.free[i] /\ r.header[page].pages = count
  /\ left = [r EXCEPT !.free = RemoveAt(@, i)]

SplitRun(r, count, i, page, left, rest) ==
  /\ page = r.free[i] /\ r.header[page].pages = count + rest
  /\ left = [Written(r, page + count, Header("free", rest, Nil)) EXCEPT !.free[i] = page + count]

(* take_pages takes a run of the list, a part of one, or a new run. *)
LEMMA TakenCases ==
  ASSUME NEW r \in RunsSet, NEW count \in Nat \ {0}, NEW page, NEW left,
         page = Taken(r, count).page, left = Taken(r, count).runs, page # 0
  PROVE  \/ CarvedRun(r, count, page, left)
         \/ \E i \in DOMAIN r.free :
              \/ WholeRun(r, count, i, page, left)
              \/ \E rest \in Nat \ {0} : SplitRun(r, count, i, page, left, rest)
<1>1. CASE \A i \in DOMAIN r.free : r.header[r.free[i]].pages < count
  <2>1. Taken(r, count) = Carved(r, count)
    BY <1>1, Zenon DEF Taken
  <2>2. CASE r.end + count > MaxPages
    BY <2>1, <2>2 DEF Carved
  <2>3. CASE ~(r.end + count > MaxPages)
    <3>1. Carved(r, count) = [page |-> r.end + 1, runs |-> [r EXCEPT !.end = @ + count]]
      BY <2>3, Zenon DEF Carved
    <3>2. page = r.end + 1 /\ left = [r EXCEPT !.end = @ + count]
      BY <2>1, <3>1
    <3>3. r.end + count <= MaxPages
      BY <2>3, HeapAssumption DEF RunsSet
    <3>4. QED
      BY <3>2, <3>3 DEF CarvedRun
  <2>4. QED
    BY <2>2, <2>3
<1>2. CASE ~ \A i \in DOMAIN r.free : r.header[r.free[i]].pages < count
  <2>1. PICK i : i = FirstFit(r, count)
    OBVIOUS
  <2>2. i \in DOMAIN r.free /\ r.header[r.free[i]].pages >= count
    BY <1>2, <2>1, FirstFitExists
  <2>3. PICK p : p = r.free[i]
    OBVIOUS
  <2>4. PICK rest : rest = r.header[p].pages - count
    OBVIOUS
  <2>5. PICK q : q = p + count
    OBVIOUS
  <2>6. r.header[p].pages \in Nat
    <3>1. p \in Page
      BY <2>2, <2>3 DEF RunsSet
    <3>2. QED
      BY <3>1, HeapAssumption DEF RunsSet, HeaderSet
  <2>7. rest \in Nat /\ r.header[p].pages = count + rest
    BY <2>2, <2>3, <2>4, <2>6
  <2>8. Taken(r, count)
          = [page |-> p,
             runs |-> IF rest = 0 THEN [r EXCEPT !.free = RemoveAt(@, i)]
                      ELSE [Written(r, q, Header("free", rest, Nil)) EXCEPT !.free[i] = q]]
    BY <1>2, <2>1, <2>3, <2>4, <2>5, Zenon DEF Taken
  <2>9. page = p
    BY <2>8
  <2>10. CASE rest = 0
    <3>1. left = [r EXCEPT !.free = RemoveAt(@, i)]
      BY <2>8, <2>10
    <3>2. r.header[p].pages = count
      BY <2>7, <2>10
    <3>3. QED
      BY <2>2, <2>3, <2>9, <3>1, <3>2, Zenon DEF WholeRun
  <2>11. CASE rest # 0
    <3>1. left = [Written(r, q, Header("free", rest, Nil)) EXCEPT !.free[i] = q]
      BY <2>8, <2>11
    <3>2. SplitRun(r, count, i, page, left, rest)
      BY <2>3, <2>5, <2>7, <2>9, <3>1, Zenon DEF SplitRun
    <3>3. QED
      BY <2>2, <2>7, <2>11, <3>2
  <2>12. QED
    BY <2>10, <2>11
<1>3. QED
  BY <1>1, <1>2

-----------------------------------------------------------------------------
(* What is known of the runs of a heap. *)
LEMMA LayoutFacts ==
  ASSUME NEW r, Layout(r)
  PROVE  /\ r \in RunsSet /\ r.end \in Nat /\ r.end <= MaxPages /\ MaxPages \in Nat
         /\ Sizes(r) \in [Page -> Nat] /\ \A p \in Page : Sizes(r)[p] = r.header[p].pages
         /\ RunStarts(r) \subseteq 1..r.end + 1
         /\ \A p \in RunStarts(r) : p \in Nat /\ (p <= r.end => p \in Page)
<1>1. r \in RunsSet /\ r.end \in Nat /\ r.end <= MaxPages /\ MaxPages \in Nat
  BY HeapAssumption DEF Layout, RunsSet
<1>2. \A p \in Page : r.header[p].pages \in Nat
  BY <1>1 DEF RunsSet, HeaderSet
<1>3. RunStarts(r) \subseteq 1..r.end + 1
  BY DEF Layout, Tiling
<1>4. \A p \in RunStarts(r) : p \in Nat /\ (p <= r.end => p \in Page)
  BY <1>1, <1>3 DEF Page
<1>5. QED
  BY <1>1, <1>2, <1>3, <1>4 DEF Sizes

SizesFacts(w) == Sizes(w) \in [Page -> Nat] /\ \A p \in Page : Sizes(w)[p] = w.header[p].pages

(* The sizes of runs are numbers. *)
LEMMA SizesAre ==
  ASSUME NEW w \in RunsSet
  PROVE  SizesFacts(w)
<1>1. \A p \in Page : w.header[p].pages \in Nat
  BY HeapAssumption DEF RunsSet, HeaderSet
<1>2. QED
  BY <1>1 DEF Sizes, SizesFacts

(* The run at page now has this header; other runs in use stay. *)
Reused(r, w, page, header) ==
  /\ Layout(w) /\ Listed(w, RunsOf(w, {"free"})) /\ w.stack = r.stack
  /\ page \in Page /\ page \notin Busy(r) /\ Busy(w) = Busy(r) \cup {page}
  /\ w.header[page] = header
  /\ \A p \in Busy(r) : w.header[p] = r.header[p]

(* A tiling in which one run has a new header and only free runs are new. *)
LEMMA ReusedFrom ==
  ASSUME NEW r, Layout(r), NEW w \in RunsSet, NEW T, Tiling(Sizes(w), w.end, T),
         NEW page \in T, page <= w.end, NEW header \in HeaderSet,
         header.kind \in {"class", "large", "system"},
         header.kind = "class" => header.pages = 1 /\ header.class \in Class,
         w.header[page] = header, w.stack = r.stack,
         \A p \in T : p <= w.end /\ p # page =>
           w.header[p].kind = "free"
             \/ (p \in RunStarts(r) /\ p <= r.end /\ w.header[p] = r.header[p]),
         \A p \in Busy(r) : p \in T /\ p # page /\ p <= w.end /\ w.header[p] = r.header[p],
         Listed(w, {p \in T : p <= w.end /\ w.header[p].kind = "free"})
  PROVE  Reused(r, w, page, header)
<1>1. RunStarts(w) = T
  BY RunStartsAre
<1>2. T \subseteq 1..w.end + 1 /\ w.end \in Nat /\ w.end <= MaxPages /\ MaxPages \in Nat
  BY HeapAssumption DEF Tiling, RunsSet
<1>3. \A p \in T : p <= w.end => p \in Page
  BY <1>2 DEF Page
<1>4. Layout(w)
  <2>1. ASSUME NEW p \in T, p <= w.end, w.header[p].kind = "class"
        PROVE  w.header[p].pages = 1 /\ w.header[p].class \in Class
    <3>1. CASE p = page
      BY <2>1, <3>1
    <3>2. CASE p # page
      <4>1. p \in RunStarts(r) /\ p <= r.end /\ w.header[p] = r.header[p]
        BY <2>1, <3>2
      <4>2. QED
        BY <2>1, <4>1 DEF Layout
    <3>3. QED
      BY <3>1, <3>2
  <2>2. QED
    BY <1>1, <2>1 DEF Layout
<1>5. Listed(w, RunsOf(w, {"free"}))
  <2>1. RunsOf(w, {"free"}) = {p \in T : p <= w.end /\ w.header[p].kind = "free"}
    BY <1>1 DEF RunsOf
  <2>2. QED
    BY <2>1
<1>6. page \in Page /\ page \notin Busy(r)
  BY <1>3
<1>7. Busy(w) \subseteq Busy(r) \cup {page}
  BY <1>1 DEF Busy, RunsOf
<1>8. Busy(r) \cup {page} \subseteq Busy(w)
  <2>1. page \in Busy(w)
    BY <1>1 DEF Busy, RunsOf
  <2>2. ASSUME NEW p \in Busy(r)
        PROVE  p \in Busy(w)
    <3>1. r.header[p].kind \in {"class", "large", "system"}
      BY DEF Busy, RunsOf
    <3>2. p \in T /\ p <= w.end /\ w.header[p] = r.header[p]
      OBVIOUS
    <3>3. QED
      BY <1>1, <3>1, <3>2 DEF Busy, RunsOf
  <2>3. QED
    BY <2>1, <2>2
<1>9. QED
  BY <1>4, <1>5, <1>6, <1>7, <1>8 DEF Reused

(* The headers a run can be taken with. *)
Useful(header, count) ==
  /\ header \in HeaderSet /\ header.pages = count
  /\ header.kind \in {"class", "large", "system"}
  /\ header.kind = "class" => count = 1 /\ header.class \in Class

(* A run carved at the end of the heap. *)
LEMMA CarvedReused ==
  ASSUME NEW r, Layout(r), Listed(r, RunsOf(r, {"free"})), NEW count \in Nat \ {0},
         NEW header, Useful(header, count), NEW page, NEW left, CarvedRun(r, count, page, left)
  PROVE  Reused(r, Written(left, page, header), page, header)
<1>1. PICK S : S = RunStarts(r)
  OBVIOUS
<1>2. PICK end \in Nat : end = r.end
  BY LayoutFacts
<1>3. /\ r \in RunsSet /\ end <= MaxPages /\ MaxPages \in Nat /\ S \subseteq 1..end + 1
      /\ Tiling(Sizes(r), end, S) /\ SizesFacts(r)
      /\ \A p \in S : p \in Nat /\ (p <= end => p \in Page)
  BY <1>1, <1>2, LayoutFacts, SizesAre DEF Layout
<1>4. /\ left \in RunsSet /\ left.end = end + count /\ left.free = r.free /\ left.stack = r.stack
      /\ left.header = r.header /\ end + count <= MaxPages /\ page = end + 1
  <2>1. PICK more \in 0..MaxPages : more = end + count
    BY <1>2, <1>3 DEF CarvedRun
  <2>2. left = [r EXCEPT !.end = more]
    BY <1>2, <2>1 DEF CarvedRun
  <2>3. QED
    BY <1>2, <1>3, <2>1, <2>2 DEF CarvedRun, RunsSet
<1>5. page \in Page /\ page \in Nat
  BY <1>3, <1>4 DEF Page
<1>6. PICK w : w = Written(left, page, header)
  OBVIOUS
<1>7. /\ w \in RunsSet /\ w.free = r.free /\ w.end = end + count /\ w.stack = r.stack
      /\ w.header[page] = header
      /\ \A p \in Page : p < page => w.header[p] = r.header[p]
  <2>1. header \in HeaderSet
    BY DEF Useful
  <2>2. /\ w \in RunsSet /\ w.free = left.free /\ w.end = left.end /\ w.stack = left.stack
        /\ w.header[page] = header
        /\ \A p \in Page : p < page => w.header[p] = left.header[p]
    BY <1>4, <1>5, <1>6, <2>1, WrittenIs
  <2>3. QED
    BY <1>4, <2>2
<1>8. ASSUME NEW p \in S, p <= end
      PROVE  p \in Page /\ p < page /\ w.header[p] = r.header[p]
  BY <1>3, <1>4, <1>7, <1>8
<1>9. SizesFacts(w)
  BY <1>7, SizesAre
<1>10. PICK T : T = S \cup {end + count + 1}
  OBVIOUS
<1>11. Tiling(Sizes(w), w.end, T)
  <2>1. Sizes(w)[end + 1] = count /\ \A p \in S : p <= end => Sizes(w)[p] = Sizes(r)[p]
    BY <1>3, <1>4, <1>5, <1>7, <1>8, <1>9 DEF SizesFacts, Useful
  <2>2. Tiling(Sizes(w), end + count, S \cup {end + count + 1})
    BY <1>3, <1>4, <1>9, <2>1, CarveTiling DEF SizesFacts
  <2>3. QED
    BY <1>7, <1>10, <2>2
<1>12. page \in T /\ page <= w.end
  <2>1. page \in S
    BY <1>3, <1>4 DEF Tiling
  <2>2. QED
    BY <1>2, <1>4, <1>7, <1>10, <2>1
<1>13. ASSUME NEW p \in T, p <= w.end, p # page
       PROVE  p \in S /\ p <= end /\ w.header[p] = r.header[p]
  <2>1. p \in S /\ p \in Nat
    BY <1>3, <1>7, <1>10, <1>13
  <2>2. p <= end
    BY <1>3, <1>4, <1>13, <2>1
  <2>3. QED
    BY <1>8, <2>1, <2>2
<1>14. ASSUME NEW p \in Busy(r)
       PROVE  p \in T /\ p # page /\ p <= w.end /\ w.header[p] = r.header[p]
  <2>1. p \in S /\ p <= end
    BY <1>1, <1>2 DEF Busy, RunsOf
  <2>2. QED
    BY <1>3, <1>4, <1>7, <1>8, <1>10, <2>1
<1>15. Listed(w, {p \in T : p <= w.end /\ w.header[p].kind = "free"})
  <2>1. {p \in T : p <= w.end /\ w.header[p].kind = "free"} \subseteq RunsOf(r, {"free"})
    <3>1. header.kind # "free"
      BY DEF Useful
    <3>2. QED
      BY <1>1, <1>2, <1>7, <1>13, <3>1 DEF RunsOf
  <2>2. ASSUME NEW p \in RunsOf(r, {"free"})
        PROVE  p \in T /\ p <= w.end /\ w.header[p].kind = "free"
    <3>1. p \in S /\ p <= end /\ r.header[p].kind = "free"
      BY <1>1, <1>2 DEF RunsOf
    <3>2. QED
      BY <1>3, <1>7, <1>8, <1>10, <3>1
  <2>3. {p \in T : p <= w.end /\ w.header[p].kind = "free"} = RunsOf(r, {"free"})
    BY <2>1, <2>2
  <2>4. QED
    BY <1>7, <2>3 DEF Listed
<1>16. Reused(r, w, page, header)
  <2>1. /\ header \in HeaderSet /\ header.kind \in {"class", "large", "system"}
        /\ header.kind = "class" => header.pages = 1 /\ header.class \in Class
    BY DEF Useful
  <2>2. \A p \in T : p <= w.end /\ p # page =>
           w.header[p].kind = "free"
             \/ (p \in RunStarts(r) /\ p <= r.end /\ w.header[p] = r.header[p])
    BY <1>1, <1>2, <1>13
  <2>3. QED
    BY <1>7, <1>11, <1>12, <1>14, <1>15, <2>1, <2>2, ReusedFrom
<1>17. QED
  BY <1>6, <1>16

(* A free run taken as a whole. *)
LEMMA WholeReused ==
  ASSUME NEW r, Layout(r), Listed(r, RunsOf(r, {"free"})), NEW count \in Nat \ {0},
         NEW header, Useful(header, count), NEW page, NEW left, NEW i \in DOMAIN r.free,
         WholeRun(r, count, i, page, left)
  PROVE  Reused(r, Written(left, page, header), page, header)
<1>1. PICK S : S = RunStarts(r)
  OBVIOUS
<1>2. PICK end \in Nat : end = r.end
  BY LayoutFacts
<1>3. /\ r \in RunsSet /\ end <= MaxPages /\ MaxPages \in Nat /\ S \subseteq 1..end + 1
      /\ Tiling(Sizes(r), end, S) /\ SizesFacts(r)
      /\ \A p \in S : p \in Nat /\ (p <= end => p \in Page)
  BY <1>1, <1>2, LayoutFacts, SizesAre DEF Layout
<1>4. page \in S /\ page <= end /\ r.header[page].kind = "free" /\ r.header[page].pages = count
  <2>1. page \in ToSet(r.free) /\ r.header[page].pages = count
    BY DEF WholeRun, ToSet
  <2>2. page \in RunsOf(r, {"free"})
    BY <2>1 DEF Listed
  <2>3. QED
    BY <1>1, <1>2, <2>1, <2>2 DEF RunsOf
<1>5. page \in Page /\ page \in Nat /\ header.pages = count /\ header \in HeaderSet
  BY <1>3, <1>4 DEF Useful
<1>6. PICK rest \in Seq(Page) : rest = RemoveAt(r.free, i)
  BY <1>3, WithoutIs DEF Listed, RunsSet
<1>7. IsInjective(rest) /\ ToSet(rest) = RunsOf(r, {"free"}) \ {page}
  <2>1. r.free \in Seq(Page) /\ IsInjective(r.free) /\ ToSet(r.free) = RunsOf(r, {"free"})
    BY <1>3 DEF RunsSet, Listed
  <2>2. IsInjective(rest) /\ ToSet(rest) = ToSet(r.free) \ {r.free[i]}
    BY <1>6, <2>1, WithoutIs
  <2>3. QED
    BY <2>1, <2>2 DEF WholeRun
<1>8. /\ left \in RunsSet /\ left.end = end /\ left.free = rest /\ left.stack = r.stack
      /\ left.header = r.header
  <2>1. left = [r EXCEPT !.free = rest]
    BY <1>6 DEF WholeRun
  <2>2. QED
    BY <1>2, <1>3, <2>1 DEF RunsSet
<1>9. PICK w : w = Written(left, page, header)
  OBVIOUS
<1>10. /\ w \in RunsSet /\ w.free = rest /\ w.end = end /\ w.stack = r.stack
       /\ w.header[page] = header
       /\ \A p \in Page : p < page \/ (p > page /\ p >= page + count)
                            => w.header[p] = r.header[p]
  <2>1. /\ w \in RunsSet /\ w.free = left.free /\ w.end = left.end /\ w.stack = left.stack
        /\ w.header[page] = header
        /\ \A p \in Page : p < page \/ (p > page /\ p >= page + header.pages)
                             => w.header[p] = left.header[p]
    <3>1. Wrote(left, w, page, header)
      BY <1>5, <1>8, <1>9, WrittenSo
    <3>2. QED
      BY <3>1 DEF Wrote
  <2>2. w \in RunsSet /\ w.free = rest /\ w.end = end /\ w.stack = r.stack /\ w.header[page] = header
    BY <1>8, <2>1
  <2>3. \A p \in Page : p < page \/ (p > page /\ p >= page + count) => w.header[p] = left.header[p]
    BY <1>5, <2>1
  <2>4. QED
    BY <1>8, <2>2, <2>3
<1>11. \A p \in S : p < page \/ p = page \/ p >= page + count
  BY <1>3, <1>4, <1>5 DEF Tiling, SizesFacts
<1>12. ASSUME NEW p \in S, p <= end, p # page
       PROVE  p \in Page /\ (p < page \/ p >= page + count) /\ w.header[p] = r.header[p]
  <2>1. p \in Page /\ p \in Nat /\ (p < page \/ p >= page + count)
    BY <1>3, <1>11, <1>12
  <2>2. p < page \/ (p > page /\ p >= page + count)
    BY <1>5, <1>12, <2>1
  <2>3. QED
    BY <1>10, <2>1, <2>2, Zenon
<1>13. SizesFacts(w)
  BY <1>10, SizesAre
<1>14. PICK T : T = S \ (page + 1..page + count - 1)
  OBVIOUS
<1>15. T = S
  BY <1>5, <1>11, <1>14, <1>3
<1>16. Tiling(Sizes(w), w.end, S)
  <2>1. Sizes(w)[page] = count
    BY <1>5, <1>10, <1>13 DEF SizesFacts
  <2>2. \A p \in S : p <= end /\ (p < page \/ p >= page + count) => Sizes(w)[p] = Sizes(r)[p]
    BY <1>3, <1>5, <1>12, <1>13 DEF SizesFacts
  <2>3. page + count \in S
    BY <1>3, <1>4, <1>5 DEF Tiling, SizesFacts
  <2>4. Tiling(Sizes(w), end, S \ (page + 1..page + count - 1))
    BY <1>3, <1>4, <1>13, <2>1, <2>2, <2>3, MergeTiling DEF SizesFacts
  <2>5. QED
    BY <1>10, <1>14, <1>15, <2>4
<1>17. ASSUME NEW p \in Busy(r)
       PROVE  p \in S /\ p # page /\ p <= w.end /\ w.header[p] = r.header[p]
  <2>1. p \in S /\ p <= end /\ r.header[p].kind # "free"
    BY <1>1, <1>2 DEF Busy, RunsOf
  <2>2. QED
    BY <1>4, <1>10, <1>12, <2>1
<1>18. Listed(w, {p \in S : p <= w.end /\ w.header[p].kind = "free"})
  <2>1. header.kind # "free"
    BY DEF Useful
  <2>2. {p \in S : p <= w.end /\ w.header[p].kind = "free"} = RunsOf(r, {"free"}) \ {page}
    BY <1>1, <1>2, <1>4, <1>10, <1>12, <2>1 DEF RunsOf
  <2>3. QED
    BY <1>7, <1>10, <2>2 DEF Listed
<1>19. Reused(r, w, page, header)
  <2>1. /\ header \in HeaderSet /\ header.kind \in {"class", "large", "system"}
        /\ header.kind = "class" => header.pages = 1 /\ header.class \in Class
    BY DEF Useful
  <2>2. \A p \in S : p <= w.end /\ p # page =>
           w.header[p].kind = "free"
             \/ (p \in RunStarts(r) /\ p <= r.end /\ w.header[p] = r.header[p])
    BY <1>1, <1>2, <1>10, <1>12
  <2>3. QED
    BY <1>4, <1>10, <1>16, <1>17, <1>18, <2>1, <2>2, ReusedFrom
<1>20. QED
  BY <1>9, <1>19

(* A free run of which the rest stays free. *)
LEMMA SplitReused ==
  ASSUME NEW r, Layout(r), Listed(r, RunsOf(r, {"free"})), NEW count \in Nat \ {0},
         NEW header, Useful(header, count), NEW page, NEW left, NEW i \in DOMAIN r.free,
         NEW k \in Nat \ {0}, SplitRun(r, count, i, page, left, k)
  PROVE  Reused(r, Written(left, page, header), page, header)
<1>1. PICK S : S = RunStarts(r)
  OBVIOUS
<1>2. PICK end \in Nat : end = r.end
  BY LayoutFacts
<1>3. /\ r \in RunsSet /\ end <= MaxPages /\ MaxPages \in Nat /\ S \subseteq 1..end + 1
      /\ Tiling(Sizes(r), end, S) /\ SizesFacts(r)
      /\ \A p \in S : p \in Nat /\ (p <= end => p \in Page)
  BY <1>1, <1>2, LayoutFacts, SizesAre DEF Layout
<1>4. page \in S /\ page <= end /\ r.header[page].kind = "free" /\ r.header[page].pages = count + k
  <2>1. page \in ToSet(r.free) /\ r.header[page].pages = count + k
    BY DEF SplitRun, ToSet
  <2>2. page \in RunsOf(r, {"free"})
    BY <2>1 DEF Listed
  <2>3. QED
    BY <1>1, <1>2, <2>1, <2>2 DEF RunsOf
<1>5. page \in Page /\ page \in Nat /\ header.pages = count /\ header \in HeaderSet
  BY <1>3, <1>4 DEF Useful
<1>6. /\ page + count + k \in S /\ page + count + k <= end + 1
      /\ \A p \in S : p < page \/ p = page \/ p >= page + count + k
  BY <1>3, <1>4, <1>5 DEF Tiling, SizesFacts
<1>7. PICK q \in Page : q = page + count
  BY <1>3, <1>5, <1>6 DEF Page
<1>8. q \in Nat /\ q <= end /\ q \notin S /\ k <= MaxPages
  BY <1>3, <1>5, <1>6, <1>7 DEF Page
<1>9. PICK free \in HeaderSet : free = Header("free", k, Nil)
  <2>1. k \in 0..MaxPages
    BY <1>3, <1>8
  <2>2. QED
    BY <2>1 DEF Header, HeaderSet, Kinds
<1>10. free.kind = "free" /\ free.pages = k
  BY <1>9 DEF Header
<1>11. PICK v : v = Written(r, q, free)
  OBVIOUS
<1>12. /\ v \in RunsSet /\ v.free = r.free /\ v.end = end /\ v.stack = r.stack
       /\ v.header[q] = free
       /\ \A p \in Page : p < q \/ (p > q /\ p >= q + k) => v.header[p] = r.header[p]
  <2>1. /\ v \in RunsSet /\ v.free = r.free /\ v.end = r.end /\ v.stack = r.stack
        /\ v.header[q] = free
        /\ \A p \in Page : p < q \/ (p > q /\ p >= q + free.pages) => v.header[p] = r.header[p]
    BY <1>3, <1>11, WrittenIs
  <2>2. QED
    BY <1>2, <1>10, <2>1
<1>13. /\ r.free \in Seq(Page) /\ IsInjective(r.free) /\ ToSet(r.free) = RunsOf(r, {"free"})
       /\ r.free[i] = page
  BY <1>3 DEF RunsSet, Listed, SplitRun
<1>14. q \notin ToSet(r.free)
  BY <1>1, <1>8, <1>13 DEF RunsOf
<1>15. PICK list \in Seq(Page) : list = [r.free EXCEPT ![i] = q]
  BY <1>13, <1>14, ReplacedIs
<1>16. IsInjective(list) /\ ToSet(list) = (RunsOf(r, {"free"}) \ {page}) \cup {q}
  <2>1. IsInjective(list) /\ ToSet(list) = (ToSet(r.free) \ {r.free[i]}) \cup {q}
    BY <1>13, <1>14, <1>15, ReplacedIs
  <2>2. QED
    BY <1>13, <2>1
<1>17. /\ left \in RunsSet /\ left.end = end /\ left.free = list /\ left.stack = r.stack
       /\ left.header = v.header
  <2>1. left = [v EXCEPT !.free[i] = q]
    BY <1>7, <1>9, <1>11, Zenon DEF SplitRun
  <2>2. left = [v EXCEPT !.free = [v.free EXCEPT ![i] = q]]
    BY <1>12, <2>1 DEF RunsSet
  <2>3. left = [v EXCEPT !.free = list]
    BY <1>12, <1>15, <2>2
  <2>4. QED
    BY <1>12, <2>3 DEF RunsSet
<1>18. PICK w : w = Written(left, page, header)
  OBVIOUS
<1>19. /\ w \in RunsSet /\ w.free = list /\ w.end = end /\ w.stack = r.stack
       /\ w.header[page] = header
       /\ \A p \in Page : p < page \/ (p > page /\ p >= q) => w.header[p] = v.header[p]
  <2>1. /\ w \in RunsSet /\ w.free = left.free /\ w.end = left.end /\ w.stack = left.stack
        /\ w.header[page] = header
        /\ \A p \in Page : p < page \/ (p > page /\ p >= page + header.pages)
                             => w.header[p] = left.header[p]
    <3>1. left \in RunsSet /\ page \in Page /\ header \in HeaderSet
      BY <1>5, <1>17
    <3>2. Wrote(left, w, page, header)
      BY <1>18, <3>1, WrittenSo, Zenon
    <3>3. QED
      BY <3>2, Zenon DEF Wrote
  <2>2. QED
    BY <1>5, <1>7, <1>17, <2>1
<1>20. w.header[q] = free
  BY <1>5, <1>7, <1>8, <1>12, <1>19
<1>21. ASSUME NEW p \in S, p <= end, p # page
       PROVE  p \in Page /\ p # q /\ w.header[p] = r.header[p]
  <2>1. p \in Page /\ p \in Nat /\ (p < page \/ p >= page + count + k)
    BY <1>3, <1>6, <1>21
  <2>2. w.header[p] = v.header[p]
    BY <1>5, <1>7, <1>19, <2>1
  <2>3. p < q \/ (p > q /\ p >= q + k)
    BY <1>5, <1>7, <2>1
  <2>4. QED
    BY <1>8, <1>12, <2>1, <2>2, <2>3
<1>22. SizesFacts(w)
  BY <1>19, SizesAre
<1>23. PICK T : T = S \cup {q}
  OBVIOUS
<1>24. Tiling(Sizes(w), w.end, T)
  <2>1. Sizes(w)[page] = count /\ Sizes(w)[page + count] = k
    BY <1>5, <1>7, <1>10, <1>19, <1>20, <1>22 DEF SizesFacts
  <2>2. \A p \in S : p <= end /\ p # page => Sizes(w)[p] = Sizes(r)[p]
    BY <1>3, <1>21, <1>22 DEF SizesFacts
  <2>3. Sizes(r)[page] = count + k
    BY <1>3, <1>4, <1>5 DEF SizesFacts
  <2>4. Tiling(Sizes(w), end, S \cup {page + count})
    BY <1>3, <1>4, <1>22, <2>1, <2>2, <2>3, SplitTiling DEF SizesFacts
  <2>5. QED
    BY <1>7, <1>19, <1>23, <2>4
<1>25. ASSUME NEW p \in Busy(r)
       PROVE  p \in T /\ p # page /\ p <= w.end /\ w.header[p] = r.header[p]
  <2>1. p \in S /\ p <= end /\ r.header[p].kind # "free"
    BY <1>1, <1>2 DEF Busy, RunsOf
  <2>2. QED
    BY <1>4, <1>19, <1>21, <1>23, <2>1
<1>26. Listed(w, {p \in T : p <= w.end /\ w.header[p].kind = "free"})
  <2>1. header.kind # "free"
    BY DEF Useful
  <2>2. {p \in T : p <= w.end /\ w.header[p].kind = "free"}
          = (RunsOf(r, {"free"}) \ {page}) \cup {q}
    BY <1>1, <1>2, <1>4, <1>8, <1>10, <1>19, <1>20, <1>21, <1>23, <2>1 DEF RunsOf
  <2>3. QED
    BY <1>16, <1>19, <2>2 DEF Listed
<1>27. Reused(r, w, page, header)
  <2>1. /\ header \in HeaderSet /\ header.kind \in {"class", "large", "system"}
        /\ header.kind = "class" => header.pages = 1 /\ header.class \in Class
    BY DEF Useful
  <2>2. \A p \in T : p <= w.end /\ p # page =>
           w.header[p].kind = "free"
             \/ (p \in RunStarts(r) /\ p <= r.end /\ w.header[p] = r.header[p])
    BY <1>1, <1>2, <1>10, <1>19, <1>20, <1>21, <1>23
  <2>3. page \in T /\ page <= w.end
    BY <1>4, <1>19, <1>23
  <2>4. QED
    BY <1>19, <1>24, <1>25, <1>26, <2>1, <2>2, <2>3, ReusedFrom
<1>28. QED
  BY <1>18, <1>27

(* A run that is taken was free or new, and nothing else that is in use    *)
(* changes.                                                                *)
LEMMA TakenReused ==
  ASSUME NEW r, Layout(r), Listed(r, RunsOf(r, {"free"})), NEW count \in Nat \ {0},
         NEW header, Useful(header, count), Taken(r, count).page # 0
  PROVE  Reused(r, Written(Taken(r, count).runs, Taken(r, count).page, header),
                Taken(r, count).page, header)
<1>1. PICK page, left : page = Taken(r, count).page /\ left = Taken(r, count).runs
  OBVIOUS
<1>2. r \in RunsSet
  BY DEF Layout
<1>3. \/ CarvedRun(r, count, page, left)
      \/ \E i \in DOMAIN r.free :
           \/ WholeRun(r, count, i, page, left)
           \/ \E rest \in Nat \ {0} : SplitRun(r, count, i, page, left, rest)
  BY <1>1, <1>2, TakenCases
<1>4. Reused(r, Written(left, page, header), page, header)
  BY <1>3, CarvedReused, WholeReused, SplitReused
<1>5. QED
  BY <1>1, <1>4, Zenon

-----------------------------------------------------------------------------
(* The pages a..a + n - 1 are a free run at the head of the list. *)
Freed(r, w, a, n, F) ==
  /\ Layout(w) /\ w.stack = r.stack /\ w.end = r.end
  /\ RunStarts(w) = RunStarts(r) \ (a + 1..a + n - 1)
  /\ Listed(w, F \cup {a})
  /\ w.header[a] = Header("free", n, Nil)
  /\ \A p \in RunStarts(r) : p <= r.end /\ (p < a \/ p >= a + n) => w.header[p] = r.header[p]

(* release_run, of one run or of several that are next to each other. *)
LEMMA ReleasedFreed ==
  ASSUME NEW r, Layout(r), NEW a \in RunStarts(r), NEW n \in Nat \ {0},
         a + n \in RunStarts(r), NEW F, Listed(r, F), a \notin F
  PROVE  Freed(r, Released(r, a, n), a, n, F)
<1>1. PICK S : S = RunStarts(r)
  OBVIOUS
<1>2. PICK end \in Nat : end = r.end
  BY LayoutFacts
<1>3. /\ r \in RunsSet /\ end <= MaxPages /\ MaxPages \in Nat /\ S \subseteq 1..end + 1
      /\ Tiling(Sizes(r), end, S) /\ SizesFacts(r)
      /\ \A p \in S : p \in Nat /\ (p <= end => p \in Page)
  BY <1>1, <1>2, LayoutFacts, SizesAre DEF Layout
<1>4. a \in S /\ a + n \in S /\ a \in Nat /\ a <= end /\ a \in Page /\ n <= MaxPages /\ a >= 1
  BY <1>1, <1>3
<1>5. PICK free \in HeaderSet : free = Header("free", n, Nil)
  <2>1. n \in 0..MaxPages
    BY <1>3, <1>4
  <2>2. QED
    BY <2>1 DEF Header, HeaderSet, Kinds
<1>6. free.kind = "free" /\ free.pages = n
  BY <1>5 DEF Header
<1>7. PICK v : v = Written(r, a, free)
  OBVIOUS
<1>8. /\ v \in RunsSet /\ v.free = r.free /\ v.end = end /\ v.stack = r.stack
      /\ v.header[a] = free
      /\ \A p \in Page : p < a \/ (p > a /\ p >= a + n) => v.header[p] = r.header[p]
  <2>1. Wrote(r, v, a, free)
    BY <1>3, <1>4, <1>7, WrittenSo
  <2>2. QED
    BY <1>2, <1>6, <2>1 DEF Wrote
<1>9. PICK w : w = Released(r, a, n)
  OBVIOUS
<1>10. w = [v EXCEPT !.free = <<a>> \o v.free]
  <2>1. w = [v EXCEPT !.free = <<a>> \o @]
    BY <1>5, <1>7, <1>9 DEF Released
  <2>2. QED
    BY <1>8, <2>1 DEF RunsSet
<1>11. r.free \in Seq(Page) /\ IsInjective(r.free) /\ ToSet(r.free) = F
  BY <1>3 DEF RunsSet, Listed
<1>12. PICK one : one = <<a>>
  OBVIOUS
<1>13. one \in Seq(Page) /\ IsInjective(one) /\ ToSet(one) = {a}
  BY <1>4, <1>12 DEF IsInjective, ToSet
<1>14. PICK list \in Seq(Page) : list = one \o r.free
  BY <1>11, <1>13, ConcatProperties
<1>15. IsInjective(list) /\ ToSet(list) = F \cup {a}
  <2>1. ToSet(one) \cap ToSet(r.free) = {}
    BY <1>11, <1>13
  <2>2. IsInjective(list) /\ ToSet(list) = ToSet(one) \cup ToSet(r.free)
    BY <1>11, <1>13, <1>14, <2>1, PrependedIs
  <2>3. QED
    BY <1>11, <1>13, <2>2
<1>16. /\ w \in RunsSet /\ w.free = list /\ w.end = end /\ w.stack = r.stack
       /\ w.header = v.header
  <2>1. w = [v EXCEPT !.free = list]
    BY <1>8, <1>10, <1>12, <1>14
  <2>2. QED
    BY <1>8, <2>1 DEF RunsSet
<1>17. ASSUME NEW p \in S, p <= end, p < a \/ p >= a + n
       PROVE  p \in Page /\ p \in Nat /\ w.header[p] = r.header[p]
  <2>1. p \in Page /\ p \in Nat
    BY <1>3, <1>17
  <2>2. p < a \/ (p > a /\ p >= a + n)
    BY <1>4, <1>17, <2>1
  <2>3. QED
    BY <1>8, <1>16, <2>1, <2>2, Zenon
<1>18. PICK T : T = S \ (a + 1..a + n - 1)
  OBVIOUS
<1>19. SizesFacts(w)
  BY <1>16, SizesAre
<1>20. Tiling(Sizes(w), w.end, T)
  <2>1. Sizes(w)[a] = n
    BY <1>4, <1>6, <1>8, <1>16, <1>19 DEF SizesFacts
  <2>2. \A p \in S : p <= end /\ (p < a \/ p >= a + n) => Sizes(w)[p] = Sizes(r)[p]
    BY <1>3, <1>17, <1>19 DEF SizesFacts
  <2>3. Tiling(Sizes(w), end, S \ (a + 1..a + n - 1))
    <3>1. PICK g \in [Page -> Nat] : g = Sizes(r)
      BY <1>3 DEF SizesFacts
    <3>2. PICK h \in [Page -> Nat] : h = Sizes(w)
      BY <1>19 DEF SizesFacts
    <3>3. h[a] = n /\ \A p \in S : p <= end /\ (p < a \/ p >= a + n) => h[p] = g[p]
      BY <2>1, <2>2, <3>1, <3>2
    <3>4. Tiling(g, end, S) /\ end <= MaxPages /\ a \in S /\ a + n \in S
      BY <1>3, <1>4, <3>1
    <3>5. Tiling(h, end, S \ (a + 1..a + n - 1))
      BY <3>3, <3>4, MergeTiling
    <3>6. QED
      BY <3>2, <3>5
  <2>4. QED
    BY <1>16, <1>18, <2>3
<1>21. RunStarts(w) = T
  BY <1>16, <1>20, RunStartsAre
<1>22. Layout(w)
  <2>1. ASSUME NEW p \in T, p <= end, w.header[p].kind = "class"
        PROVE  w.header[p].pages = 1 /\ w.header[p].class \in Class
    <3>1. p # a
      BY <1>6, <1>8, <1>16, <2>1
    <3>2. p \in S /\ (p < a \/ p >= a + n)
      BY <1>3, <1>4, <1>18, <3>1
    <3>3. w.header[p] = r.header[p]
      BY <1>17, <2>1, <3>2
    <3>4. QED
      BY <1>1, <1>2, <2>1, <3>2, <3>3 DEF Layout
  <2>2. QED
    BY <1>16, <1>20, <1>21, <2>1 DEF Layout
<1>23. Listed(w, F \cup {a})
  BY <1>15, <1>16 DEF Listed
<1>24. Freed(r, w, a, n, F)
  <2>1. w.header[a] = Header("free", n, Nil)
    BY <1>5, <1>8, <1>16
  <2>2. \A p \in RunStarts(r) : p <= r.end /\ (p < a \/ p >= a + n) => w.header[p] = r.header[p]
    BY <1>1, <1>2, <1>17
  <2>3. QED
    BY <1>1, <1>2, <1>16, <1>18, <1>21, <1>22, <1>23, <2>1, <2>2, Zenon DEF Freed
<1>25. QED
  BY <1>9, <1>24

(* A change of the list or of the mark stack leaves the runs. *)
LEMMA SameRuns ==
  ASSUME NEW r, Layout(r), NEW w \in RunsSet, w.header = r.header, w.end = r.end
  PROVE  /\ Layout(w) /\ RunStarts(w) = RunStarts(r)
         /\ \A kinds : RunsOf(w, kinds) = RunsOf(r, kinds)
<1>1. Sizes(w) = Sizes(r)
  BY DEF Sizes
<1>2. Tiling(Sizes(w), w.end, RunStarts(r))
  BY <1>1 DEF Layout
<1>3. RunStarts(w) = RunStarts(r)
  BY <1>2, RunStartsAre
<1>4. Layout(w)
  BY <1>2, <1>3 DEF Layout
<1>5. QED
  BY <1>3, <1>4 DEF RunsOf

(* release_run of a run in use. *)
LEMMA ReleasedRun ==
  ASSUME NEW r, Layout(r), Listed(r, RunsOf(r, {"free"})), NEW a \in Busy(r),
         NEW w, w = Released(r, a, r.header[a].pages)
  PROVE  /\ Layout(w) /\ Listed(w, RunsOf(w, {"free"})) /\ w.stack = r.stack
         /\ Busy(w) = Busy(r) \ {a}
         /\ \A p \in Busy(r) \ {a} : w.header[p] = r.header[p]
<1>1. PICK S : S = RunStarts(r)
  OBVIOUS
<1>2. PICK end \in Nat : end = r.end
  BY LayoutFacts
<1>3. PICK n : n = r.header[a].pages
  OBVIOUS
<1>4. a \in S /\ a <= end /\ r.header[a].kind \in {"class", "large", "system"}
  BY <1>1, <1>2 DEF Busy, RunsOf
<1>5. Tiling(Sizes(r), end, S) /\ SizesFacts(r) /\ \A p \in S : p \in Nat /\ (p <= end => p \in Page)
  BY <1>1, <1>2, LayoutFacts, SizesAre DEF Layout
<1>6. /\ n \in Nat \ {0} /\ a + n \in S /\ a \in Nat
      /\ \A p \in S : p < a \/ p = a \/ p >= a + n
  BY <1>3, <1>4, <1>5 DEF Tiling, SizesFacts
<1>7. a \notin RunsOf(r, {"free"})
  BY <1>4 DEF RunsOf
<1>8. Freed(r, w, a, n, RunsOf(r, {"free"}))
  BY <1>1, <1>3, <1>4, <1>6, <1>7, ReleasedFreed
<1>9. /\ Layout(w) /\ w.stack = r.stack /\ w.end = end /\ RunStarts(w) = S
      /\ Listed(w, RunsOf(r, {"free"}) \cup {a}) /\ w.header[a].kind = "free"
  <2>1. S \ (a + 1..a + n - 1) = S
    BY <1>5, <1>6
  <2>2. QED
    BY <1>1, <1>2, <1>8, <2>1 DEF Freed, Header
<1>10. \A p \in S : p <= end /\ p # a => w.header[p] = r.header[p]
  BY <1>1, <1>2, <1>6, <1>8 DEF Freed
<1>11. RunsOf(w, {"free"}) = RunsOf(r, {"free"}) \cup {a}
  BY <1>1, <1>2, <1>4, <1>9, <1>10 DEF RunsOf
<1>12. Busy(w) = Busy(r) \ {a}
  BY <1>1, <1>2, <1>9, <1>10 DEF Busy, RunsOf
<1>13. \A p \in Busy(r) \ {a} : w.header[p] = r.header[p]
  BY <1>1, <1>2, <1>10 DEF Busy, RunsOf
<1>14. QED
  BY <1>9, <1>11, <1>12, <1>13

-----------------------------------------------------------------------------
(* What is taken is no larger than the heap can be. *)
LEMMA TakenFits ==
  ASSUME NEW r \in RunsSet, NEW count \in Nat \ {0}, Taken(r, count).page # 0
  PROVE  count <= MaxPages
<1>1. PICK page, left : page = Taken(r, count).page /\ left = Taken(r, count).runs
  OBVIOUS
<1>2. \A i \in DOMAIN r.free : r.header[r.free[i]].pages \in 0..MaxPages
  <2>1. \A i \in DOMAIN r.free : r.free[i] \in Page
    BY DEF RunsSet
  <2>2. QED
    BY <2>1 DEF RunsSet, HeaderSet
<1>3. CASE CarvedRun(r, count, page, left)
  BY <1>3, HeapAssumption DEF CarvedRun, RunsSet
<1>4. CASE \E i \in DOMAIN r.free :
             \/ WholeRun(r, count, i, page, left)
             \/ \E rest \in Nat \ {0} : SplitRun(r, count, i, page, left, rest)
  <2>1. PICK i \in DOMAIN r.free : r.header[r.free[i]].pages >= count
    BY <1>4 DEF WholeRun, SplitRun
  <2>2. QED
    BY <1>2, <2>1, HeapAssumption
<1>5. QED
  BY <1>1, <1>3, <1>4, TakenCases

(* The runs that hold objects are the same. *)
Kept(r, w) ==
  /\ RunsOf(w, {"class", "large"}) = RunsOf(r, {"class", "large"})
  /\ \A p \in RunsOf(r, {"class", "large"}) : w.header[p] = r.header[p]

(* The runs in use are the system runs and the others. *)
LEMMA BusyParts ==
  ASSUME NEW r
  PROVE  /\ RunsOf(r, {"system"}) = {p \in Busy(r) : r.header[p].kind = "system"}
         /\ RunsOf(r, {"class", "large"}) = {p \in Busy(r) : r.header[p].kind # "system"}
  BY DEF Busy, RunsOf

(* The runs in use are the same but for the mark stack's: those of A are   *)
(* no longer in use, those of B are new.                                   *)
Exchanged(r, w, A, B) ==
  /\ Busy(w) = (Busy(r) \ A) \cup B
  /\ A \subseteq RunsOf(r, {"system"})
  /\ B \cap RunsOf(r, {"class", "large"}) = {}
  /\ \A p \in B : w.header[p].kind = "system"
  /\ \A p \in Busy(r) \ A : w.header[p] = r.header[p]

(* An exchange of system runs keeps the pages of objects. *)
LEMMA KeptFrom ==
  ASSUME NEW r, NEW w, NEW A, NEW B, Exchanged(r, w, A, B)
  PROVE  RunsOf(w, {"system"}) = (RunsOf(r, {"system"}) \ A) \cup B /\ Kept(r, w)
<1>1. RunsOf(w, {"system"}) = (RunsOf(r, {"system"}) \ A) \cup B
  BY BusyParts DEF Exchanged
<1>2. A \cap RunsOf(r, {"class", "large"}) = {}
  BY BusyParts DEF Exchanged
<1>3. RunsOf(w, {"class", "large"}) = RunsOf(r, {"class", "large"})
  <2>1. ASSUME NEW p \in Busy(w), w.header[p].kind # "system"
        PROVE  p \in RunsOf(r, {"class", "large"})
    <3>1. p \in Busy(r) \ A
      BY <2>1 DEF Exchanged
    <3>2. QED
      BY <2>1, <3>1, BusyParts DEF Exchanged
  <2>2. ASSUME NEW p \in RunsOf(r, {"class", "large"})
        PROVE  p \in Busy(w) /\ w.header[p].kind # "system"
    <3>1. p \in Busy(r) /\ r.header[p].kind # "system" /\ p \notin A
      BY <1>2, BusyParts
    <3>2. QED
      BY <3>1 DEF Exchanged
  <2>3. RunsOf(w, {"class", "large"}) = {p \in Busy(w) : w.header[p].kind # "system"}
    BY BusyParts
  <2>4. QED
    BY <2>1, <2>2, <2>3
<1>4. \A p \in RunsOf(r, {"class", "large"}) : w.header[p] = r.header[p]
  BY <1>2, BusyParts DEF Exchanged
<1>5. QED
  BY <1>1, <1>3, <1>4 DEF Kept

(* A new run for the mark stack, beside the old one if there is one. *)
NewStack(r, new, page, count) ==
  /\ Layout(new) /\ Listed(new, RunsOf(new, {"free"}))
  /\ new.stack = page /\ page \in Page /\ page # r.stack
  /\ RunsOf(new, {"system"}) = ({r.stack} \ {0}) \cup {page}
  /\ Kept(r, new)
  /\ new.header[page].pages = count
  /\ r.stack # 0 => r.stack \in Busy(new) /\ new.header[r.stack] = r.header[r.stack]

(* A new run for the mark stack. *)
LEMMA StackTaken ==
  ASSUME NEW r, GoodRuns(r), NEW count \in Nat \ {0}, Taken(r, count).page # 0,
         NEW page, page = Taken(r, count).page,
         NEW new, new = [Written(Taken(r, count).runs, page, Header("system", count, Nil))
                           EXCEPT !.stack = page]
  PROVE  NewStack(r, new, page, count)
<1>1. r \in RunsSet /\ Layout(r) /\ Listed(r, RunsOf(r, {"free"})) /\ StackRun(r)
  BY DEF GoodRuns, Layout
<1>2. PICK header : header = Header("system", count, Nil)
  OBVIOUS
<1>3. Useful(header, count) /\ header.kind = "system" /\ header.pages = count
  <2>1. count \in 0..MaxPages
    BY <1>1, TakenFits, HeapAssumption
  <2>2. header.kind = "system" /\ header.pages = count
    BY <1>2 DEF Header
  <2>3. header \in HeaderSet
    BY <1>2, <2>1 DEF HeaderSet, Header, Kinds
  <2>4. QED
    BY <2>2, <2>3 DEF Useful
<1>4. PICK w : w = Written(Taken(r, count).runs, page, header)
  OBVIOUS
<1>5. Reused(r, w, page, header)
  BY <1>1, <1>3, <1>4, TakenReused
<1>6. /\ Layout(w) /\ Listed(w, RunsOf(w, {"free"})) /\ w \in RunsSet
      /\ page \in Page /\ page \notin Busy(r) /\ Busy(w) = Busy(r) \cup {page}
      /\ w.header[page] = header /\ \A p \in Busy(r) : w.header[p] = r.header[p]
  BY <1>5 DEF Reused, Layout
<1>7. new = [w EXCEPT !.stack = page]
  BY <1>2, <1>4
<1>8. new \in RunsSet /\ new.header = w.header /\ new.end = w.end /\ new.free = w.free /\ new.stack = page
  <2>1. page \in 0..MaxPages
    BY <1>6, HeapAssumption DEF Page
  <2>2. QED
    BY <1>6, <1>7, <2>1 DEF RunsSet
<1>9. Layout(new) /\ \A kinds : RunsOf(new, kinds) = RunsOf(w, kinds)
  BY <1>6, <1>8, SameRuns
<1>10. Listed(new, RunsOf(new, {"free"}))
  BY <1>6, <1>8, <1>9 DEF Listed
<1>11. Busy(new) = Busy(r) \cup {page}
  BY <1>6, <1>9 DEF Busy
<1>12. RunsOf(r, {"system"}) = {r.stack} \ {0} /\ RunsOf(r, {"system"}) \subseteq Busy(r)
  BY <1>1, BusyParts DEF StackRun
<1>13. r.stack # 0 => r.stack \in Busy(r)
  BY <1>12
<1>14. /\ RunsOf(new, {"system"}) = RunsOf(r, {"system"}) \cup {page}
       /\ Kept(r, new)
  <2>1. Busy(new) = (Busy(r) \ {}) \cup {page}
    BY <1>11
  <2>2. \A p \in {page} : new.header[p].kind = "system"
    BY <1>3, <1>6, <1>8
  <2>3. \A p \in Busy(r) \ {} : new.header[p] = r.header[p]
    BY <1>6, <1>8
  <2>4. {page} \cap RunsOf(r, {"class", "large"}) = {}
    BY <1>6, BusyParts
  <2>5. PICK A, B : A = {} /\ B = {page}
    OBVIOUS
  <2>6. Exchanged(r, new, A, B)
    BY <2>1, <2>2, <2>3, <2>4, <2>5 DEF Exchanged
  <2>7. RunsOf(new, {"system"}) = (RunsOf(r, {"system"}) \ A) \cup B /\ Kept(r, new)
    BY <2>6, KeptFrom
  <2>8. QED
    BY <2>5, <2>7
<1>15. page # r.stack
  BY <1>6, <1>13, HeapAssumption DEF Page
<1>16. new.header[page].pages = count
  BY <1>3, <1>6, <1>8
<1>17. r.stack # 0 => r.stack \in Busy(new) /\ new.header[r.stack] = r.header[r.stack]
  BY <1>6, <1>8, <1>11, <1>13
<1>18. QED
  BY <1>6, <1>8, <1>9, <1>10, <1>12, <1>14, <1>15, <1>16, <1>17 DEF NewStack

(* Marker::open. *)
LEMMA OpenedGood ==
  ASSUME NEW r, GoodRuns(r)
  PROVE  GoodRuns(Opened(r)) /\ Kept(r, Opened(r))
<1>1. CASE r.stack # 0 \/ Taken(r, 1).page = 0
  <2>1. Opened(r) = r
    BY <1>1 DEF Opened
  <2>2. QED
    BY <2>1 DEF Kept
<1>2. CASE r.stack = 0 /\ Taken(r, 1).page # 0
  <2>1. PICK page : page = Taken(r, 1).page
    OBVIOUS
  <2>2. PICK new : new = [Written(Taken(r, 1).runs, page, Header("system", 1, Nil))
                            EXCEPT !.stack = page]
    OBVIOUS
  <2>3. Opened(r) = new
    BY <1>2, <2>1, <2>2 DEF Opened
  <2>4. NewStack(r, new, page, 1)
    BY <1>2, <2>1, <2>2, StackTaken
  <2>5. GoodRuns(new)
    BY <1>2, <2>4, HeapAssumption DEF NewStack, GoodRuns, StackRun, Page
  <2>6. QED
    BY <2>3, <2>4, <2>5 DEF NewStack
<1>3. QED
  BY <1>1, <1>2

-----------------------------------------------------------------------------
(* What marking may do: it changes no run that holds objects. *)
SoundMark(m, r) ==
  /\ m \in [marked: SUBSET objects, runs: RunsSet, stack: Seq(Address), overflowed: BOOLEAN]
  /\ GoodRuns(m.runs) /\ Kept(r, m.runs)
  /\ Len(m.stack) <= Capacity(m.runs)

(* Two steps that keep the pages of objects. *)
LEMMA KeptThen ==
  ASSUME NEW r, NEW v, NEW w, Kept(r, v), Kept(v, w)
  PROVE  Kept(r, w)
  BY DEF Kept

(* The mark stack has a capacity, and its run is a run. *)
LEMMA CapacityNat ==
  ASSUME NEW r, GoodRuns(r)
  PROVE  /\ Capacity(r) \in Nat
         /\ r.stack # 0 => r.stack \in Page /\ r.header[r.stack].pages \in Nat \ {0}
<1>1. r \in RunsSet /\ EntriesPerPage \in Nat \ {0}
  BY HeapAssumption DEF GoodRuns, Layout
<1>2. ASSUME r.stack # 0
      PROVE  r.stack \in Page /\ r.header[r.stack].pages \in Nat \ {0}
  <2>1. r.stack \in RunsOf(r, {"system"})
    BY <1>2 DEF GoodRuns, StackRun
  <2>2. r.stack \in RunStarts(r) /\ r.stack <= r.end
    BY <2>1 DEF RunsOf
  <2>3. r.stack \in Page
    BY <2>2, LayoutFacts DEF GoodRuns
  <2>4. SizesFacts(r)
    BY <1>1, SizesAre
  <2>5. Sizes(r)[r.stack] >= 1
    BY <2>2 DEF GoodRuns, Layout, Tiling
  <2>6. Sizes(r)[r.stack] \in Nat /\ Sizes(r)[r.stack] = r.header[r.stack].pages
    BY <2>3, <2>4 DEF SizesFacts
  <2>7. QED
    BY <2>3, <2>5, <2>6
<1>3. CASE r.stack = 0
  BY <1>3 DEF Capacity
<1>4. CASE r.stack # 0
  <2>1. PICK n \in Nat \ {0} : n = r.header[r.stack].pages
    BY <1>2, <1>4
  <2>2. Capacity(r) = EntriesPerPage * n
    BY <1>4, <2>1 DEF Capacity
  <2>3. Capacity(r) \in Nat
    BY <1>1, <2>2
  <2>4. QED
    BY <1>2, <2>3
<1>5. QED
  BY <1>3, <1>4

(* The old run of the mark stack becomes free beside the new one. *)
LEMMA StackMoved ==
  ASSUME NEW r, GoodRuns(r), NEW new, NEW page, NEW count, NewStack(r, new, page, count),
         r.stack # 0, NEW w, w = Released(new, r.stack, r.header[r.stack].pages)
  PROVE  GoodRuns(w) /\ Kept(r, w) /\ w.stack = page /\ w.header[page].pages = count
<1>1. PICK old : old = r.stack
  OBVIOUS
<1>2. /\ Layout(new) /\ Listed(new, RunsOf(new, {"free"})) /\ new.stack = page
      /\ page \in Page /\ page # old /\ RunsOf(new, {"system"}) = {old, page}
      /\ Kept(r, new) /\ new.header[page].pages = count /\ old \in Busy(new)
      /\ w = Released(new, old, new.header[old].pages)
  BY <1>1 DEF NewStack
<1>3. /\ Layout(w) /\ Listed(w, RunsOf(w, {"free"})) /\ w.stack = new.stack
      /\ Busy(w) = Busy(new) \ {old}
      /\ \A p \in Busy(new) \ {old} : w.header[p] = new.header[p]
  BY <1>2, ReleasedRun
<1>4. PICK A, B : A = {old} /\ B = {}
  OBVIOUS
<1>5. Exchanged(new, w, A, B)
  BY <1>2, <1>3, <1>4 DEF Exchanged
<1>6. RunsOf(w, {"system"}) = (RunsOf(new, {"system"}) \ A) \cup B /\ Kept(new, w)
  BY <1>5, KeptFrom
<1>7. RunsOf(w, {"system"}) = {page}
  BY <1>2, <1>4, <1>6
<1>8. StackRun(w)
  <2>1. page # 0
    BY <1>2, HeapAssumption DEF Page
  <2>2. QED
    BY <1>2, <1>3, <1>7, <2>1 DEF StackRun
<1>9. Kept(r, w)
  BY <1>2, <1>6, KeptThen
<1>10. w.header[page].pages = count
  <2>1. page \in Busy(new)
    BY <1>2, BusyParts
  <2>2. QED
    BY <1>2, <1>3, <2>1
<1>11. QED
  BY <1>2, <1>3, <1>8, <1>9, <1>10 DEF GoodRuns

(* Marker::grow. *)
LEMMA GrownSound ==
  ASSUME NEW r, NEW m, SoundMark(m, r), NEW a \in Address, Len(m.stack) = Capacity(m.runs)
  PROVE  SoundMark(Grown(m, a), r)
<1>1. PICK q : q = m.runs
  OBVIOUS
<1>2. /\ m \in [marked: SUBSET objects, runs: RunsSet, stack: Seq(Address), overflowed: BOOLEAN]
      /\ GoodRuns(q) /\ Kept(r, q) /\ Len(m.stack) = Capacity(q)
  BY <1>1 DEF SoundMark
<1>3. PICK old : old = IF q.stack = 0 THEN 0 ELSE q.header[q.stack].pages
  OBVIOUS
<1>4. old \in Nat /\ (old = 0 <=> q.stack = 0) /\ Capacity(q) \in Nat
  BY <1>2, <1>3, CapacityNat
<1>5. PICK count \in Nat \ {0} : count = 2 * (IF old = 0 THEN 1 ELSE old)
  BY <1>4
<1>6. PICK page : page = Taken(q, count).page
  OBVIOUS
<1>7. PICK new : new = [Written(Taken(q, count).runs, page, Header("system", count, Nil))
                          EXCEPT !.stack = page]
  OBVIOUS
<1>8. Grown(m, a) = IF page = 0 THEN Refused(m)
                    ELSE [m EXCEPT !.runs = IF old = 0 THEN new ELSE Released(new, q.stack, old),
                                   !.stack = Append(@, a)]
  BY <1>1, <1>3, <1>5, <1>6, <1>7, Zenon DEF Grown
<1>9. CASE page = 0
  <2>1. Grown(m, a) = [m EXCEPT !.overflowed = TRUE]
    BY <1>8, <1>9 DEF Refused
  <2>2. QED
    BY <2>1 DEF SoundMark
<1>10. CASE page # 0
  <2>1. NewStack(q, new, page, count)
    BY <1>2, <1>6, <1>7, <1>10, StackTaken
  <2>2. PICK w : w = IF old = 0 THEN new ELSE Released(new, q.stack, old)
    OBVIOUS
  <2>3. GoodRuns(w) /\ Kept(q, w) /\ w.stack = page /\ w.header[page].pages = count
    <3>1. CASE old = 0
      <4>1. w = new /\ q.stack = 0
        BY <1>4, <2>2, <3>1
      <4>2. page # 0
        BY <1>10
      <4>3. QED
        BY <2>1, <4>1, <4>2 DEF NewStack, GoodRuns, StackRun
    <3>2. CASE old # 0
      <4>1. q.stack # 0 /\ w = Released(new, q.stack, q.header[q.stack].pages)
        BY <1>3, <1>4, <2>2, <3>2
      <4>2. QED
        BY <1>2, <2>1, <4>1, StackMoved
    <3>3. QED
      BY <3>1, <3>2
  <2>4. Grown(m, a) = [m EXCEPT !.runs = w, !.stack = Append(@, a)]
    BY <1>8, <1>10, <2>2
  <2>5. Capacity(w) = EntriesPerPage * count
    BY <1>10, <2>3 DEF Capacity
  <2>6. Len(m.stack) + 1 <= Capacity(w)
    <3>1. EntriesPerPage \in Nat \ {0}
      BY HeapAssumption
    <3>2. CASE old = 0
      <4>1. Capacity(q) = 0
        BY <1>4, <3>2 DEF Capacity
      <4>2. count = 2
        BY <1>5, <3>2
      <4>3. QED
        BY <1>2, <2>5, <3>1, <4>1, <4>2
    <3>3. CASE old # 0
      <4>1. Capacity(q) = EntriesPerPage * old
        BY <1>3, <1>4, <3>3 DEF Capacity
      <4>2. PICK x \in Nat \ {0} : x = EntriesPerPage * old
        BY <1>4, <3>1, <3>3
      <4>3. EntriesPerPage * count = x + x
        BY <1>4, <1>5, <3>1, <3>3, <4>2
      <4>4. QED
        BY <1>2, <2>5, <4>1, <4>2, <4>3
    <3>4. QED
      BY <3>2, <3>3
  <2>7. PICK st : st = Append(m.stack, a)
    OBVIOUS
  <2>8. st \in Seq(Address) /\ Len(st) = Len(m.stack) + 1
    BY <1>2, <2>7
  <2>9. PICK g : g = [m EXCEPT !.runs = w, !.stack = st]
    OBVIOUS
  <2>10. w \in RunsSet
    BY <2>3 DEF GoodRuns, Layout
  <2>11. /\ g \in [marked: SUBSET objects, runs: RunsSet, stack: Seq(Address), overflowed: BOOLEAN]
         /\ g.runs = w /\ g.stack = st
    BY <1>2, <2>8, <2>9, <2>10
  <2>12. Kept(r, w)
    BY <1>2, <2>3, KeptThen
  <2>13. SoundMark(g, r)
    BY <2>3, <2>6, <2>8, <2>11, <2>12 DEF SoundMark
  <2>14. Grown(m, a) = g
    BY <2>4, <2>7, <2>9
  <2>15. QED
    BY <2>13, <2>14
<1>11. QED
  BY <1>9, <1>10

(* Marker::mark_address. *)
LEMMA MarkedSound ==
  ASSUME NEW r, NEW m, SoundMark(m, r), NEW a \in Reference, objects \subseteq Address
  PROVE  SoundMark(MarkedAddress(m, a), r)
<1>1. PICK c : c = [m EXCEPT !.marked = @ \cup {a}]
  OBVIOUS
<1>2. CASE a = Nil \/ a \in m.marked \/ a \notin objects
  <2>1. MarkedAddress(m, a) = m
    BY <1>2 DEF MarkedAddress
  <2>2. QED
    BY <2>1
<1>3. CASE ~(a = Nil \/ a \in m.marked \/ a \notin objects)
  <2>1. a \in Address
    BY <1>3
  <2>2. SoundMark(c, r) /\ c.stack = m.stack /\ c.runs = m.runs
    BY <1>1, <1>3 DEF SoundMark
  <2>3. CASE Len(m.stack) = Capacity(m.runs)
    <3>1. MarkedAddress(m, a) = Grown(c, a)
      BY <1>1, <1>3, <2>3 DEF MarkedAddress
    <3>2. QED
      BY <2>1, <2>2, <2>3, <3>1, GrownSound
  <2>4. CASE Len(m.stack) # Capacity(m.runs)
    <3>1. MarkedAddress(m, a) = [c EXCEPT !.stack = Append(@, a)]
      BY <1>1, <1>3, <2>4 DEF MarkedAddress
    <3>2. Capacity(m.runs) \in Nat /\ Len(m.stack) \in Nat /\ Len(m.stack) <= Capacity(m.runs)
      BY CapacityNat DEF SoundMark
    <3>3. PICK st : st = Append(c.stack, a)
      OBVIOUS
    <3>4. st \in Seq(Address) /\ Len(st) = Len(m.stack) + 1
      BY <2>1, <2>2, <3>3 DEF SoundMark
    <3>5. Len(st) <= Capacity(m.runs)
      BY <2>4, <3>2, <3>4
    <3>6. SoundMark([c EXCEPT !.stack = st], r)
      BY <2>2, <3>4, <3>5 DEF SoundMark
    <3>7. QED
      BY <3>1, <3>3, <3>6
  <2>5. QED
    BY <2>3, <2>4
<1>4. QED
  BY <1>2, <1>3

-----------------------------------------------------------------------------
(* A step can be repeated. *)
Repeats(h, n, X, D, x) ==
  h \in [0..n -> X] /\ h[0] = x /\ \A f \in 1..n : h[f] = D[<<h[f - 1], f>>]

(* A function that takes a step N times from x exists. *)
LEMMA Repeated ==
  ASSUME NEW N \in Nat, NEW X, NEW D \in [X \X (1..N) -> X], NEW x \in X
  PROVE  \E h : Repeats(h, N, X, D, x)
<1> DEFINE Bad == {n \in 0..N : ~ \E h : Repeats(h, n, X, D, x)}
<1>1. SUFFICES Bad = {}
  BY N \in 0..N
<1>2. SUFFICES ASSUME Bad # {}
               PROVE  FALSE
  OBVIOUS
<1>3. PICK n \in Bad : \A k \in Bad : n <= k
  BY <1>2, LeastExists, Bad \subseteq Nat
<1>4. n \in 0..N /\ n \in Nat /\ ~ \E h : Repeats(h, n, X, D, x)
  BY <1>3
<1>5. CASE n = 0
  <2>1. PICK h : h = [f \in 0..0 |-> x]
    OBVIOUS
  <2>2. Repeats(h, 0, X, D, x)
    BY <2>1 DEF Repeats
  <2>3. QED
    BY <1>4, <1>5, <2>2
<1>6. CASE n # 0
  <2>1. PICK k \in Nat : n = k + 1 /\ k \in 0..N /\ n \in 1..N
    <3>1. n - 1 \in Nat /\ n = (n - 1) + 1 /\ n - 1 \in 0..N
      BY <1>4, <1>6
    <3>2. QED
      BY <1>4, <1>6, <3>1
  <2>2. k \notin Bad
    BY <1>3, <2>1
  <2>3. PICK g : Repeats(g, k, X, D, x)
    BY <2>1, <2>2
  <2>4. g \in [0..k -> X] /\ g[0] = x /\ \A f \in 1..k : g[f] = D[<<g[f - 1], f>>]
    BY <2>3 DEF Repeats
  <2>5. PICK y \in X : y = D[<<g[k], n>>]
    <3>1. g[k] \in X
      BY <2>1, <2>4
    <3>2. <<g[k], n>> \in X \X (1..N)
      BY <2>1, <3>1
    <3>3. QED
      BY <3>2
  <2>6. PICK h : h = [f \in 0..n |-> IF f = n THEN y ELSE g[f]]
    OBVIOUS
  <2>7. ASSUME NEW f \in 0..n, f # n
        PROVE  f \in 0..k /\ h[f] = g[f] /\ h[f] \in X
    BY <2>1, <2>4, <2>6, <2>7
  <2>8. h[n] = y
    BY <2>1, <2>6
  <2>9. h \in [0..n -> X] /\ h[0] = x
    BY <1>6, <2>1, <2>4, <2>6, <2>7, <2>8
  <2>10. ASSUME NEW f \in 1..n
         PROVE  h[f] = D[<<h[f - 1], f>>]
    <3>1. f - 1 \in 0..n /\ f - 1 # n /\ f \in 0..n
      BY <2>1, <2>10
    <3>2. h[f - 1] = g[f - 1]
      BY <2>7, <3>1
    <3>3. CASE f = n
      <4>1. f - 1 = k
        BY <2>1, <3>3
      <4>2. QED
        BY <2>5, <2>8, <3>2, <3>3, <4>1
    <3>4. CASE f # n
      <4>1. f \in 1..k /\ h[f] = g[f]
        BY <2>1, <2>7, <3>1, <3>4
      <4>2. QED
        BY <2>4, <3>2, <4>1
    <3>5. QED
      BY <3>3, <3>4
  <2>11. Repeats(h, n, X, D, x)
    BY <2>9, <2>10 DEF Repeats
  <2>12. QED
    BY <1>4, <2>11
<1>7. QED
  BY <1>5, <1>6

(* What every step keeps holds at the end. *)
LEMMA RepeatedKeeps ==
  ASSUME NEW N \in Nat, NEW h, NEW P, <<h[0], 0>> \in P,
         \A n \in 1..N : <<h[n - 1], n - 1>> \in P => <<h[n], n>> \in P
  PROVE  <<h[N], N>> \in P
<1> DEFINE Bad == {n \in 0..N : <<h[n], n>> \notin P}
<1>1. SUFFICES ASSUME Bad # {}
               PROVE  FALSE
  OBVIOUS
<1>2. PICK n \in Bad : \A k \in Bad : n <= k
  BY <1>1, LeastExists, Bad \subseteq Nat
<1>3. n \in 0..N /\ <<h[n], n>> \notin P
  BY <1>2
<1>4. n \in 1..N /\ n - 1 \in 0..N /\ n - 1 < n
  BY <1>3
<1>5. n - 1 \notin Bad
  BY <1>2, <1>4
<1>6. <<h[n - 1], n - 1>> \in P
  BY <1>4, <1>5
<1>7. QED
  BY <1>3, <1>4, <1>6

TraceStep(g, m, a) ==
  [f \in 0..Fields |-> IF f = 0 THEN m ELSE MarkedAddress(g[f - 1], fields[a][f])]

(* Traced, with its recursive function as a choice. *)
LEMMA TracedUnfolds ==
  ASSUME NEW m, NEW a
  PROVE  Traced(m, a) = (CHOOSE g : g = TraceStep(g, m, a))[Fields]
  BY DEF Traced, TraceStep

(* Marker::trace, one field after another. *)
LEMMA TracedExists ==
  ASSUME NEW r, NEW m, SoundMark(m, r), NEW a \in Address, objects \subseteq Address,
         fields \in [Address -> [Field -> Reference]]
  PROVE  \E g : /\ Traced(m, a) = g[Fields] /\ g[0] = m
                /\ \A f \in Field : g[f] = MarkedAddress(g[f - 1], fields[a][f])
                /\ \A f \in 0..Fields : SoundMark(g[f], r)
<1>1. PICK N \in Nat : N = Fields
  BY HeapAssumption
<1>2. PICK X : X = {x \in [marked: SUBSET objects, runs: RunsSet, stack: Seq(Address),
                           overflowed: BOOLEAN] : SoundMark(x, r)}
  OBVIOUS
<1>3. \A x : x \in X <=> SoundMark(x, r)
  BY <1>2 DEF SoundMark
<1>4. PICK D : D = [xf \in X \X (1..N) |-> MarkedAddress(xf[1], fields[a][xf[2]])]
  OBVIOUS
<1>5. ASSUME NEW f \in 1..N
      PROVE  fields[a][f] \in Reference
  BY <1>1 DEF Field
<1>6. D \in [X \X (1..N) -> X]
  <2>1. ASSUME NEW xf \in X \X (1..N)
        PROVE  MarkedAddress(xf[1], fields[a][xf[2]]) \in X
    <3>1. PICK x \in X, f \in 1..N : xf[1] = x /\ xf[2] = f
      OBVIOUS
    <3>2. SoundMark(MarkedAddress(x, fields[a][f]), r)
      BY <1>3, <1>5, MarkedSound
    <3>3. QED
      BY <1>3, <3>1, <3>2
  <2>2. QED
    BY <1>4, <2>1
<1>7. m \in X
  BY <1>3
<1>8. PICK h : Repeats(h, N, X, D, m)
  BY <1>6, <1>7, Repeated
<1>9. h \in [0..N -> X] /\ h[0] = m /\ \A f \in 1..N : h[f] = MarkedAddress(h[f - 1], fields[a][f])
  <2>1. h \in [0..N -> X] /\ h[0] = m /\ \A f \in 1..N : h[f] = D[<<h[f - 1], f>>]
    BY <1>8 DEF Repeats
  <2>2. ASSUME NEW f \in 1..N
        PROVE  h[f] = MarkedAddress(h[f - 1], fields[a][f])
    <3>1. f - 1 \in 0..N
      OBVIOUS
    <3>2. PICK x \in X : x = h[f - 1]
      BY <2>1, <3>1
    <3>3. D[<<x, f>>] = MarkedAddress(x, fields[a][f])
      BY <1>4
    <3>4. QED
      BY <2>1, <3>2, <3>3
  <2>3. QED
    BY <2>1, <2>2
<1>10. h = TraceStep(h, m, a)
  <2>1. h = [f \in 0..N |-> h[f]]
    BY <1>9
  <2>2. ASSUME NEW f \in 0..N
        PROVE  h[f] = IF f = 0 THEN m ELSE MarkedAddress(h[f - 1], fields[a][f])
    BY <1>9
  <2>3. h = [f \in 0..N |-> IF f = 0 THEN m ELSE MarkedAddress(h[f - 1], fields[a][f])]
    BY <2>1, <2>2
  <2>4. QED
    BY <1>1, <2>3 DEF TraceStep
<1>11. PICK g : g = (CHOOSE y : y = TraceStep(y, m, a))
  OBVIOUS
<1>12. g = TraceStep(g, m, a)
  BY <1>10, <1>11, Zenon
<1>13. \A f \in 0..N : g[f] = IF f = 0 THEN m ELSE MarkedAddress(g[f - 1], fields[a][f])
  BY <1>1, <1>12 DEF TraceStep
<1>14. PICK P : P = X \X (0..N)
  OBVIOUS
<1>15. <<g[0], 0>> \in P
  BY <1>7, <1>13, <1>14
<1>16. ASSUME NEW f \in 1..N, <<g[f - 1], f - 1>> \in P
       PROVE  <<g[f], f>> \in P
  <2>1. g[f - 1] \in X
    BY <1>14, <1>16
  <2>2. SoundMark(MarkedAddress(g[f - 1], fields[a][f]), r)
    BY <1>3, <1>5, <2>1, MarkedSound
  <2>3. g[f] = MarkedAddress(g[f - 1], fields[a][f])
    BY <1>13
  <2>4. QED
    BY <1>3, <1>14, <2>2, <2>3
<1>17. ASSUME NEW f \in 0..N
       PROVE  SoundMark(g[f], r)
  <2>1. \A n \in 1..f : <<g[n - 1], n - 1>> \in P => <<g[n], n>> \in P
    BY <1>16
  <2>2. <<g[f], f>> \in P
    BY <1>15, <2>1, RepeatedKeeps
  <2>3. QED
    BY <1>3, <1>14, <2>2
<1>18. Traced(m, a) = g[N]
  BY <1>1, <1>11, TracedUnfolds, Zenon
<1>19. g[0] = m /\ \A f \in 1..N : g[f] = MarkedAddress(g[f - 1], fields[a][f])
  BY <1>13
<1>20. QED
  BY <1>1, <1>17, <1>18, <1>19 DEF Field

(* Marker::trace. *)
LEMMA TracedSound ==
  ASSUME NEW r, NEW m, SoundMark(m, r), NEW a \in Address, objects \subseteq Address,
         fields \in [Address -> [Field -> Reference]]
  PROVE  SoundMark(Traced(m, a), r)
<1>1. PICK g : /\ Traced(m, a) = g[Fields] /\ g[0] = m
               /\ \A f \in Field : g[f] = MarkedAddress(g[f - 1], fields[a][f])
               /\ \A f \in 0..Fields : SoundMark(g[f], r)
  BY TracedExists
<1>2. Fields \in 0..Fields
  BY HeapAssumption
<1>3. QED
  BY <1>1, <1>2

DeadStep(d, page, n, live) ==
  [i \in 0..n |-> IF i = 0 THEN <<>>
                  ELSE IF <<page, i - 1>> \in live THEN d[i - 1]
                  ELSE <<<<page, i - 1>>>> \o d[i - 1]]

(* Dead, with its recursive function as a choice. *)
LEMMA DeadUnfolds ==
  ASSUME NEW page, NEW n, NEW live
  PROVE  Dead(page, n, live) = (CHOOSE d : d = DeadStep(d, page, n, live))[n]
  BY DEF Dead, DeadStep

(* A cell at the head of a list. *)
LEMMA ConsIs ==
  ASSUME NEW X, NEW e \in X, NEW s \in Seq(X), IsInjective(s), e \notin ToSet(s)
  PROVE  /\ <<e>> \o s \in Seq(X) /\ IsInjective(<<e>> \o s)
         /\ ToSet(<<e>> \o s) = ToSet(s) \cup {e}
<1>1. PICK one : one = <<e>>
  OBVIOUS
<1>2. one \in Seq(X) /\ IsInjective(one) /\ ToSet(one) = {e}
  BY <1>1 DEF IsInjective, ToSet
<1>3. ToSet(one) \cap ToSet(s) = {}
  BY <1>2
<1>4. one \o s \in Seq(X) /\ IsInjective(one \o s) /\ ToSet(one \o s) = ToSet(one) \cup ToSet(s)
  BY <1>2, <1>3, PrependedIs
<1>5. QED
  BY <1>1, <1>2, <1>4

(* The cells the sweep links: those that are not live, each once. *)
LEMMA DeadIs ==
  ASSUME NEW n \in Nat, NEW page, NEW live, CellsOf(page, n) \subseteq Address
  PROVE  /\ Dead(page, n, live) \in Seq(Address) /\ IsInjective(Dead(page, n, live))
         /\ ToSet(Dead(page, n, live)) = CellsOf(page, n) \ live
<1> DEFINE Next1(s, i) == IF <<page, i - 1>> \in live THEN s ELSE <<<<page, i - 1>>>> \o s
<1>1. PICK X : X = Seq(Address)
  OBVIOUS
<1>2. PICK D : D = [si \in X \X (1..n) |-> Next1(si[1], si[2])]
  OBVIOUS
<1>3. \A i \in 1..n : <<page, i - 1>> \in Address
  BY DEF CellsOf
<1>4. ASSUME NEW s \in X, NEW i \in 1..n
      PROVE  Next1(s, i) \in X
  <2>1. <<page, i - 1>> \in Address
    BY <1>3
  <2>2. <<<<page, i - 1>>>> \o s \in Seq(Address)
    <3>1. PICK c \in Address : c = <<page, i - 1>>
      BY <2>1
    <3>2. PICK one : one = <<c>>
      OBVIOUS
    <3>3. one \in Seq(Address)
      BY <3>2
    <3>4. one \o s \in Seq(Address)
      BY <1>1, <3>3, ConcatProperties
    <3>5. one = <<<<page, i - 1>>>>
      BY <3>1, <3>2, Zenon
    <3>6. QED
      BY <3>4, <3>5, Zenon
  <2>3. QED
    BY <1>1, <2>2
<1>5. D \in [X \X (1..n) -> X]
  <2>1. ASSUME NEW si \in X \X (1..n)
        PROVE  Next1(si[1], si[2]) \in X
    <3>1. si[1] \in X /\ si[2] \in 1..n
      OBVIOUS
    <3> HIDE DEF Next1
    <3>2. QED
      BY <1>4, <3>1
  <2> HIDE DEF Next1
  <2>2. QED
    BY <1>2, <2>1
<1>6. <<>> \in X
  BY <1>1
<1>7. PICK h : Repeats(h, n, X, D, <<>>)
  BY <1>5, <1>6, Repeated
<1>8. h \in [0..n -> X] /\ h[0] = <<>> /\ \A i \in 1..n : h[i] = Next1(h[i - 1], i)
  <2> HIDE DEF Next1
  <2>1. h \in [0..n -> X] /\ h[0] = <<>> /\ \A i \in 1..n : h[i] = D[<<h[i - 1], i>>]
    BY <1>7 DEF Repeats
  <2>2. ASSUME NEW i \in 1..n
        PROVE  h[i] = Next1(h[i - 1], i)
    <3>1. i - 1 \in 0..n
      OBVIOUS
    <3>2. PICK s \in X : s = h[i - 1]
      BY <2>1, <3>1
    <3>3. D[<<s, i>>] = Next1(s, i)
      BY <1>2
    <3>4. QED
      BY <2>1, <3>2, <3>3
  <2>3. QED
    BY <2>1, <2>2
<1>9. h = DeadStep(h, page, n, live)
  <2>1. h = [i \in 0..n |-> h[i]]
    BY <1>8
  <2>2. ASSUME NEW i \in 0..n
        PROVE  h[i] = IF i = 0 THEN <<>> ELSE Next1(h[i - 1], i)
    <3> HIDE DEF Next1
    <3>1. QED
      BY <1>8
  <2>3. h = [i \in 0..n |-> IF i = 0 THEN <<>> ELSE Next1(h[i - 1], i)]
    <3> HIDE DEF Next1
    <3>1. QED
      BY <2>1, <2>2
  <2>4. QED
    BY <2>3, Zenon DEF DeadStep
<1>10. PICK d : d = (CHOOSE y : y = DeadStep(y, page, n, live))
  OBVIOUS
<1>11. d = DeadStep(d, page, n, live)
  BY <1>9, <1>10, Zenon
<1>12. \A i \in 0..n : d[i] = IF i = 0 THEN <<>> ELSE Next1(d[i - 1], i)
  <2>1. d = [i \in 0..n |-> IF i = 0 THEN <<>> ELSE Next1(d[i - 1], i)]
    BY <1>11, Zenon DEF DeadStep
  <2> HIDE DEF Next1
  <2>2. QED
    BY <2>1, Zenon
<1>13. PICK P : P = {si \in X \X (0..n) : IsInjective(si[1]) /\ ToSet(si[1]) = CellsOf(page, si[2]) \ live}
  OBVIOUS
<1>14. ASSUME NEW s, NEW i \in 0..n
       PROVE  <<s, i>> \in P <=> s \in X /\ IsInjective(s) /\ ToSet(s) = CellsOf(page, i) \ live
  BY <1>13
<1>15. <<d[0], 0>> \in P
  <2>1. d[0] = <<>>
    <3>1. 0 \in 0..n
      OBVIOUS
    <3> HIDE DEF Next1
    <3>2. QED
      BY <1>12, <3>1
  <2>2. PICK s : s = <<>>
    OBVIOUS
  <2>3. s \in X /\ IsInjective(s) /\ ToSet(s) = {}
    BY <1>6, <2>2 DEF IsInjective, ToSet
  <2>4. CellsOf(page, 0) = {}
    BY DEF CellsOf
  <2>5. QED
    BY <1>14, <2>1, <2>2, <2>3, <2>4
<1>16. ASSUME NEW i \in 1..n, <<d[i - 1], i - 1>> \in P
       PROVE  <<d[i], i>> \in P
  <2>1. i - 1 \in 0..n /\ i \in 0..n /\ i # 0
    OBVIOUS
  <2>2. PICK s : s = d[i - 1]
    OBVIOUS
  <2>3. PICK c : c = <<page, i - 1>>
    OBVIOUS
  <2>4. s \in X /\ IsInjective(s) /\ ToSet(s) = CellsOf(page, i - 1) \ live
    BY <1>14, <1>16, <2>1, <2>2
  <2>5. d[i] = IF c \in live THEN s ELSE <<c>> \o s
    BY <1>12, <2>1, <2>2, <2>3
  <2>6. CellsOf(page, i) = CellsOf(page, i - 1) \cup {c}
    <3>1. \A j : j \in 0..i - 1 <=> j \in 0..(i - 1) - 1 \/ j = i - 1
      OBVIOUS
    <3>2. QED
      BY <2>3, <3>1, Zenon DEF CellsOf
  <2>7. c \notin CellsOf(page, i - 1) /\ c \in Address
    BY <1>3, <2>3 DEF CellsOf
  <2>8. CASE c \in live
    <3>1. d[i] = s /\ CellsOf(page, i) \ live = CellsOf(page, i - 1) \ live
      BY <2>5, <2>6, <2>8
    <3>2. QED
      BY <1>14, <2>1, <2>4, <3>1
  <2>9. CASE c \notin live
    <3>1. PICK t : t = <<c>> \o s
      OBVIOUS
    <3>2. t \in Seq(Address) /\ IsInjective(t) /\ ToSet(t) = ToSet(s) \cup {c}
      BY <1>1, <2>4, <2>7, <3>1, ConsIs
    <3>3. CellsOf(page, i) \ live = (CellsOf(page, i - 1) \ live) \cup {c}
      BY <2>6, <2>9
    <3>4. d[i] = t
      BY <2>5, <2>9, <3>1
    <3>5. QED
      BY <1>1, <1>14, <2>1, <2>4, <3>2, <3>3, <3>4
  <2>10. QED
    BY <2>8, <2>9
<1>17. <<d[n], n>> \in P
  BY <1>15, <1>16, RepeatedKeeps
<1>18. Dead(page, n, live) = d[n]
  BY <1>10, DeadUnfolds, Zenon
<1>19. QED
  BY <1>1, <1>14, <1>17, <1>18

-----------------------------------------------------------------------------
(* The pages of every class stay those of the class. *)
Stay(r, w) == \A p, c : ClassPage(r, p, c) => ClassPage(w, p, c)

(* Class pages are among the pages kept. *)
LEMMA KeptStay ==
  ASSUME NEW r, NEW w, Kept(r, w)
  PROVE  Stay(r, w)
<1> SUFFICES ASSUME NEW p, NEW c, ClassPage(r, p, c)
             PROVE  ClassPage(w, p, c)
  BY DEF Stay
<1>1. p \in RunsOf(r, {"class"}) /\ r.header[p].class = c
  BY DEF ClassPage
<1>2. p \in RunsOf(r, {"class", "large"}) /\ r.header[p].kind = "class"
  BY <1>1 DEF RunsOf
<1>3. p \in RunsOf(w, {"class", "large"}) /\ w.header[p] = r.header[p]
  BY <1>2 DEF Kept
<1>4. p \in RunsOf(w, {"class"})
  BY <1>2, <1>3 DEF RunsOf
<1>5. QED
  BY <1>1, <1>3, <1>4 DEF ClassPage

(* The lists stay sound when class pages stay and no free cell becomes an  *)
(* object.                                                                 *)
LEMMA GoodCellsStay ==
  ASSUME NEW r, NEW w, NEW cs, NEW o, NEW q, GoodCells(r, cs, o), Stay(r, w),
         \A c \in Class : \A a \in ToSet(cs[c].free) : a \notin q
  PROVE  GoodCells(w, cs, q)
<1> SUFFICES ASSUME NEW c \in Class
             PROVE  /\ cs[c].cursor # Nil =>
                         /\ ClassPage(w, cs[c].cursor[1], c)
                         /\ cs[c].cursor[2] \in 1..CellsPerPage[c] - 1
                    /\ IsInjective(cs[c].free)
                    /\ \A a \in ToSet(cs[c].free) :
                         ClassPage(w, a[1], c) /\ a[2] < LinkedPart(cs, a[1], c) /\ a \notin q
  BY DEF GoodCells
<1>1. /\ cs[c].cursor # Nil =>
           /\ ClassPage(r, cs[c].cursor[1], c)
           /\ cs[c].cursor[2] \in 1..CellsPerPage[c] - 1
      /\ IsInjective(cs[c].free)
      /\ \A a \in ToSet(cs[c].free) : ClassPage(r, a[1], c) /\ a[2] < LinkedPart(cs, a[1], c)
  BY DEF GoodCells
<1>2. QED
  BY <1>1 DEF Stay

(* Marking and collecting leave the cells. *)
LEMMA GoodCellsKept ==
  ASSUME NEW r, NEW w, NEW cs, NEW o, GoodCells(r, cs, o), Kept(r, w)
  PROVE  GoodCells(w, cs, o)
<1>1. \A c \in Class : \A a \in ToSet(cs[c].free) : a \notin o
  BY DEF GoodCells
<1>2. QED
  BY <1>1, KeptStay, GoodCellsStay

(* The mutator changes roots and fields. *)
LEMMA MutateKeeps ==
  ASSUME IInv, Mutate
  PROVE  IInv'
<1>1. PICK s \in Slot, t \in Slot : Drop(s) \/ \E f \in Field : Load(s, f, t) \/ Store(s, f, t)
  BY DEF Mutate
<1>2. /\ UNCHANGED <<pc, request, runs, cells, objects, marked, marker, found>>
      /\ roots' \in [Slot -> Reference] /\ fields' \in [Address -> [Field -> Reference]]
  <2>1. roots \in [Slot -> Reference] /\ fields \in [Address -> [Field -> Reference]] /\ Nil \in Reference
    BY DEF IInv, Typed, Reference
  <2>2. CASE Drop(s)
    BY <2>1, <2>2 DEF Drop
  <2>3. CASE \E f \in Field : Load(s, f, t)
    <3>1. PICK f \in Field : Load(s, f, t)
      BY <2>3
    <3>2. roots[s] \in Address
      BY <2>1, <3>1 DEF Load, Reference
    <3>3. fields[roots[s]][f] \in Reference
      BY <2>1, <3>2
    <3>4. QED
      BY <2>1, <3>1, <3>3 DEF Load
  <2>4. CASE \E f \in Field : Store(s, f, t)
    <3>1. PICK f \in Field : Store(s, f, t)
      BY <2>4
    <3>2. roots[s] \in Address /\ roots[t] \in Reference
      BY <2>1, <3>1 DEF Store, Reference
    <3>3. [fields[roots[s]] EXCEPT ![f] = roots[t]] \in [Field -> Reference]
      BY <2>1, <3>2
    <3>4. fields' = [fields EXCEPT ![roots[s]] = [fields[roots[s]] EXCEPT ![f] = roots[t]]]
      BY <2>1, <3>1, <3>2 DEF Store
    <3>5. QED
      BY <2>1, <3>1, <3>2, <3>3, <3>4 DEF Store
  <2>5. QED
    BY <1>1, <2>2, <2>3, <2>4
<1>3. Typed'
  BY <1>2 DEF IInv, Typed
<1>4. RunsInv'
  BY <1>2 DEF IInv, RunsInv, Starts
<1>5. GoodCells(runs', cells', objects')
  BY <1>2 DEF IInv
<1>6. QED
  BY <1>3, <1>4, <1>5 DEF IInv

(* collect opens the mark stack. *)
LEMMA CollectKeeps ==
  ASSUME IInv, pc # "sweep", Collect,
         \/ request' = NoRequest
         \/ request' \in RequestSet /\ (request'.kind = "large" => request'.size > 0)
  PROVE  IInv'
<1>1. GoodRuns(runs) /\ found.pages = 0 /\ GoodCells(runs, cells, objects)
  BY DEF IInv, RunsInv
<1>2. /\ pc' = "roots" /\ runs' = Opened(runs) /\ marker'.stack = <<>> /\ marker'.at = <<0, 0>>
      /\ marker' = [stack |-> <<>>, overflowed |-> FALSE, at |-> <<0, 0>>]
      /\ UNCHANGED <<roots, cells, objects, marked, fields, found>>
  BY DEF Collect
<1>3. GoodRuns(runs') /\ Kept(runs, runs')
  BY <1>1, <1>2, OpenedGood
<1>4. Typed'
  <2>1. marker' \in [stack: Seq(Address), overflowed: BOOLEAN, at: Nat \X Nat]
    BY <1>2
  <2>2. QED
    BY <1>2, <2>1 DEF IInv, Typed
<1>5. GoodCells(runs', cells', objects')
  BY <1>1, <1>2, <1>3, GoodCellsKept
<1>6. RunsInv'
  <2>1. Len(marker'.stack) <= Capacity(runs')
    BY <1>2, <1>3, CapacityNat
  <2>2. marker'.at[2] < Slots
    BY <1>2, HeapAssumption
  <2>3. QED
    BY <1>1, <1>2, <1>3, <2>1, <2>2 DEF RunsInv
<1>7. QED
  BY <1>4, <1>5, <1>6 DEF IInv

(* A request, with or without a collection. *)
LEMMA RequestKeeps ==
  ASSUME IInv, Request
  PROVE  IInv'
<1>1. CASE RequestCollection
  BY <1>1, CollectKeeps DEF RequestCollection
<1>2. ASSUME NEW s \in Slot, NEW kind \in Class \cup {"large"}, NEW size \in Nat,
             kind = "large" => size > 0, Requested(s, kind, size)
      PROVE  IInv'
  <2>1. pc = "mutator" /\ request' = [slot |-> s, kind |-> kind, size |-> size, stage |-> "first"]
    BY <1>2 DEF Requested
  <2>2. request' \in RequestSet /\ (request'.kind = "large" => request'.size > 0)
    BY <1>2, <2>1 DEF RequestSet
  <2>3. request' # NoRequest
    <3>1. request'.stage = "first" /\ NoRequest.stage = "none"
      BY <2>1 DEF NoRequest
    <3>2. QED
      BY <3>1
  <2>4. CASE Collect
    BY <2>1, <2>2, <2>4, CollectKeeps
  <2>5. CASE ~Collect
    <3>1. /\ pc' = "allocate"
          /\ UNCHANGED <<roots, runs, cells, objects, marked, fields, marker, found>>
      BY <1>2, <2>5 DEF Requested
    <3>2. Typed'
      BY <2>2, <2>3, <3>1 DEF IInv, Typed
    <3>3. RunsInv'
      BY <2>1, <3>1 DEF IInv, RunsInv
    <3>4. GoodCells(runs', cells', objects')
      BY <3>1 DEF IInv
    <3>5. QED
      BY <3>2, <3>3, <3>4 DEF IInv
  <2>6. QED
    BY <2>4, <2>5
<1>3. CASE \E s \in Slot : \E c \in Class : RequestCell(s, c)
  <2>1. PICK s \in Slot, c \in Class : Requested(s, c, 0)
    BY <1>3 DEF RequestCell
  <2>2. c # "large"
    BY HeapAssumption
  <2>3. QED
    BY <1>2, <2>1, <2>2
<1>4. CASE \E s \in Slot : \E n \in LargeSize : RequestLarge(s, n)
  <2>1. PICK s \in Slot, n \in LargeSize : Requested(s, "large", n)
    BY <1>4 DEF RequestLarge
  <2>2. n \in Nat /\ n > 0
    BY HeapAssumption
  <2>3. QED
    BY <1>2, <2>1, <2>2
<1>5. QED
  BY <1>1, <1>3, <1>4 DEF Request

(* An allocation has a request. *)
LEMMA RequestIs ==
  ASSUME IInv, pc = "allocate"
  PROVE  request \in RequestSet /\ (request.kind = "large" => request.size > 0)
  BY DEF IInv, Typed

(* The collection when memory cannot grow. *)
LEMMA ExhaustedKeeps ==
  ASSUME IInv, Exhausted
  PROVE  IInv'
<1>1. /\ pc = "allocate" /\ Collect /\ request' = [request EXCEPT !.stage = "last"]
  BY DEF Exhausted, NoRoom
<1>2. request \in RequestSet /\ (request.kind = "large" => request.size > 0)
  BY <1>1, RequestIs
<1>3. request' \in RequestSet /\ (request'.kind = "large" => request'.size > 0)
  BY <1>1, <1>2 DEF RequestSet
<1>4. QED
  BY <1>1, <1>3, CollectKeeps

(* The allocation that fails. *)
LEMMA OutOfMemoryKeeps ==
  ASSUME IInv, OutOfMemory
  PROVE  IInv'
<1>1. /\ pc = "allocate" /\ pc' = "mutator" /\ request' = NoRequest
      /\ UNCHANGED <<roots, runs, cells, objects, marked, fields, marker, found>>
  BY DEF OutOfMemory, NoRoom
<1>2. Typed'
  BY <1>1 DEF IInv, Typed
<1>3. RunsInv'
  BY <1>1 DEF IInv, RunsInv
<1>4. GoodCells(runs', cells', objects')
  BY <1>1 DEF IInv
<1>5. QED
  BY <1>2, <1>3, <1>4 DEF IInv

-----------------------------------------------------------------------------
(* A new object has an address and the request a slot for it. *)
LEMMA AllocatedTyped ==
  ASSUME IInv, pc = "allocate", NEW a \in Address, Allocated(a), cells' \in CellsSet
  PROVE  Typed'
<1>1. request \in RequestSet
  BY RequestIs
<1>2. request.slot \in Slot
  BY <1>1 DEF RequestSet
<1>3. /\ objects' = objects \cup {a} /\ marked' = marked \ {a}
      /\ fields' = [fields EXCEPT ![a] = NoFields]
      /\ roots' = [roots EXCEPT ![request.slot] = a]
      /\ pc' = "mutator" /\ request' = NoRequest /\ UNCHANGED <<marker, found>>
  BY DEF Allocated
<1>4. objects' \subseteq Address /\ marked' \subseteq objects'
  BY <1>3 DEF IInv, Typed
<1>5. NoFields \in [Field -> Reference]
  BY DEF NoFields, Reference
<1>6. fields' \in [Address -> [Field -> Reference]]
  BY <1>3, <1>5 DEF IInv, Typed
<1>7. roots' \in [Slot -> Reference]
  BY <1>2, <1>3 DEF IInv, Typed, Reference
<1>8. QED
  BY <1>3, <1>4, <1>6, <1>7 DEF IInv, Typed

(* A list without its head. *)
LEMMA TailIs ==
  ASSUME NEW X, NEW s \in Seq(X), s # <<>>, IsInjective(s)
  PROVE  /\ Head(s) \in X /\ Head(s) \in ToSet(s) /\ Tail(s) \in Seq(X) /\ IsInjective(Tail(s))
         /\ ToSet(Tail(s)) = ToSet(s) \ {Head(s)}
<1>1. PICK n \in Nat : n = Len(s) /\ DOMAIN s = 1..n
  BY LenProperties
<1>2. n >= 1 /\ Head(s) = s[1]
  BY <1>1
<1>3. PICK t \in Seq(X) : t = Tail(s)
  BY HeadTailProperties
<1>4. DOMAIN t = 1..n - 1 /\ \A j \in 1..n - 1 : t[j] = s[j + 1]
  BY <1>1, <1>2, <1>3
<1>5. \A i, j \in 1..n : s[i] = s[j] => i = j
  BY <1>1 DEF IsInjective
<1>6. IsInjective(t)
  <2> SUFFICES ASSUME NEW i \in 1..n - 1, NEW j \in 1..n - 1, t[i] = t[j]
               PROVE  i = j
    BY <1>4 DEF IsInjective
  <2>1. s[i + 1] = s[j + 1] /\ i + 1 \in 1..n /\ j + 1 \in 1..n
    BY <1>4
  <2>2. QED
    BY <1>5, <2>1
<1>7. s[1] \in X /\ s[1] \in ToSet(s)
  BY <1>1, <1>2 DEF ToSet
<1>8. ToSet(t) \subseteq ToSet(s) \ {s[1]}
  <2> SUFFICES ASSUME NEW j \in 1..n - 1
               PROVE  t[j] \in ToSet(s) /\ t[j] # s[1]
    BY <1>4 DEF ToSet
  <2>1. t[j] = s[j + 1] /\ j + 1 \in 1..n /\ 1 \in 1..n /\ j + 1 # 1
    BY <1>2, <1>4
  <2>2. QED
    BY <1>1, <1>5, <2>1 DEF ToSet
<1>9. ToSet(s) \ {s[1]} \subseteq ToSet(t)
  <2> SUFFICES ASSUME NEW i \in 1..n, s[i] # s[1]
               PROVE  s[i] \in ToSet(t)
    BY <1>1 DEF ToSet
  <2>1. i - 1 \in 1..n - 1 /\ i = (i - 1) + 1
    <3>1. i # 1
      OBVIOUS
    <3>2. QED
      BY <3>1
  <2>2. t[i - 1] = s[i]
    BY <1>4, <2>1
  <2>3. QED
    BY <1>4, <2>1, <2>2 DEF ToSet
<1>10. QED
  BY <1>2, <1>3, <1>6, <1>7, <1>8, <1>9

(* The list loses its head, which becomes an object. *)
Popped(c, a, s, t) ==
  /\ s = cells[c].free /\ pc = "allocate" /\ Allocated(a) /\ runs' = runs
  /\ a \in ToSet(s) /\ IsInjective(t) /\ ToSet(t) = ToSet(s) \ {a}
  /\ \A b \in ToSet(s) :
       ClassPage(runs, b[1], c) /\ b[2] < LinkedPart(cells, b[1], c) /\ b \notin objects
  /\ cells' \in CellsSet /\ cells'[c].free = t /\ cells'[c].cursor = cells[c].cursor
  /\ \A d \in Class : d # c => cells'[d] = cells[d]

(* allocate_cell takes a cell from the list of the class. *)
LEMMA PopCellIs ==
  ASSUME IInv, PopCell
  PROVE  \E c \in Class, a \in Address, s, t \in Seq(Address) : Popped(c, a, s, t)
<1>1. PICK c \in Class : c = request.kind /\ cells[c].free # <<>>
  BY DEF PopCell
<1>2. PICK s \in Seq(Address) : s = cells[c].free
  BY DEF IInv, Typed, CellsSet
<1>3. PICK a : a = Head(s)
  OBVIOUS
<1>4. /\ pc = "allocate" /\ cells' = [cells EXCEPT ![c].free = Tail(@)] /\ Allocated(a)
      /\ UNCHANGED runs
  BY <1>1, <1>2, <1>3 DEF PopCell
<1>5. cells \in CellsSet /\ GoodCells(runs, cells, objects) /\ GoodRuns(runs) /\ found.pages = 0
  BY <1>4 DEF IInv, Typed, RunsInv
<1>6. IsInjective(s) /\ \A b \in ToSet(s) :
        ClassPage(runs, b[1], c) /\ b[2] < LinkedPart(cells, b[1], c) /\ b \notin objects
  BY <1>2, <1>5 DEF GoodCells
<1>7. /\ a \in Address /\ a \in ToSet(s) /\ Tail(s) \in Seq(Address) /\ IsInjective(Tail(s))
      /\ ToSet(Tail(s)) = ToSet(s) \ {a}
  BY <1>1, <1>2, <1>3, <1>6, TailIs
<1>8. PICK t \in Seq(Address) : t = Tail(s)
  BY <1>7
<1>9. cells' = [cells EXCEPT ![c] = [cells[c] EXCEPT !.free = t]]
  BY <1>2, <1>4, <1>5, <1>8 DEF CellsSet
<1>10. /\ cells' \in CellsSet /\ cells'[c].free = t /\ cells'[c].cursor = cells[c].cursor
       /\ \A d \in Class : d # c => cells'[d] = cells[d]
  <2>1. [cells[c] EXCEPT !.free = t] \in [free: Seq(Address), cursor: Reference]
    BY <1>5 DEF CellsSet
  <2>2. QED
    BY <1>5, <1>9, <2>1 DEF CellsSet
<1>11. Popped(c, a, s, t)
  BY <1>2, <1>4, <1>6, <1>7, <1>8, <1>10 DEF Popped
<1>12. QED
  BY <1>7, <1>11

(* The cell leaves the list for the new object. *)
LEMMA PopCellKeeps ==
  ASSUME IInv, PopCell
  PROVE  IInv'
<1>1. PICK c \in Class, a \in Address, s \in Seq(Address), t \in Seq(Address) : Popped(c, a, s, t)
  BY PopCellIs
<1>2. s = cells[c].free
  BY <1>1 DEF Popped
<1>4. pc = "allocate" /\ Allocated(a) /\ UNCHANGED runs
  BY <1>1 DEF Popped
<1>5. GoodCells(runs, cells, objects) /\ GoodRuns(runs) /\ found.pages = 0
  BY <1>4 DEF IInv, Typed, RunsInv
<1>6. \A b \in ToSet(s) :
        ClassPage(runs, b[1], c) /\ b[2] < LinkedPart(cells, b[1], c) /\ b \notin objects
  BY <1>1 DEF Popped
<1>7. a \in ToSet(s) /\ IsInjective(t) /\ ToSet(t) = ToSet(s) \ {a}
  BY <1>1 DEF Popped
<1>10. /\ cells' \in CellsSet /\ cells'[c].free = t /\ cells'[c].cursor = cells[c].cursor
       /\ \A d \in Class : d # c => cells'[d] = cells[d]
  BY <1>1 DEF Popped
<1>11. Typed'
  BY <1>4, <1>10, AllocatedTyped
<1>12. RunsInv'
  BY <1>4, <1>5 DEF IInv, RunsInv, Allocated
<1>13. ASSUME NEW p, NEW d \in Class
       PROVE  LinkedPart(cells', p, d) = LinkedPart(cells, p, d)
  <2>1. cells'[d].cursor = cells[d].cursor
    BY <1>10
  <2>2. QED
    BY <2>1 DEF LinkedPart
<1>14. objects' = objects \cup {a}
  BY <1>4 DEF Allocated
<1>15. ASSUME NEW d \in Class
       PROVE  /\ cells'[d].cursor # Nil =>
                   /\ ClassPage(runs, cells'[d].cursor[1], d)
                   /\ cells'[d].cursor[2] \in 1..CellsPerPage[d] - 1
              /\ IsInjective(cells'[d].free)
              /\ \A b \in ToSet(cells'[d].free) :
                   /\ ClassPage(runs, b[1], d) /\ b[2] < LinkedPart(cells', b[1], d)
                   /\ b \notin objects'
  <2>1. cells'[d].cursor = cells[d].cursor
    BY <1>10
  <2>2. cells'[d].cursor # Nil =>
          ClassPage(runs, cells'[d].cursor[1], d) /\ cells'[d].cursor[2] \in 1..CellsPerPage[d] - 1
    BY <1>5, <2>1 DEF GoodCells
  <2>3. CASE d = c
    BY <1>6, <1>7, <1>10, <1>13, <1>14, <2>2, <2>3
  <2>4. CASE d # c
    <3>1. cells'[d] = cells[d]
      BY <1>10, <2>4
    <3>2. \A b \in ToSet(cells[d].free) :
            ClassPage(runs, b[1], d) /\ b[2] < LinkedPart(cells, b[1], d) /\ b \notin objects
      BY <1>5 DEF GoodCells
    <3>3. ~ClassPage(runs, a[1], d)
      BY <1>6, <1>7, <2>4 DEF ClassPage
    <3>4. IsInjective(cells[d].free)
      BY <1>5 DEF GoodCells
    <3>5. QED
      BY <1>13, <1>14, <2>2, <3>1, <3>2, <3>3, <3>4
  <2>5. QED
    BY <2>3, <2>4
<1>16. GoodCells(runs', cells', objects')
  BY <1>4, <1>15 DEF GoodCells
<1>17. QED
  BY <1>11, <1>12, <1>16 DEF IInv

-----------------------------------------------------------------------------
(* A run taken for objects leaves the mark stack and the class pages.      *)
LEMMA ReusedKeeps ==
  ASSUME NEW r, GoodRuns(r), NEW w, NEW page, NEW header, Reused(r, w, page, header),
         header.kind # "system"
  PROVE  /\ GoodRuns(w) /\ Stay(r, w) /\ Capacity(w) = Capacity(r) /\ page \in Page
         /\ \A c : ~ClassPage(r, page, c)
<1>1. /\ Layout(w) /\ Listed(w, RunsOf(w, {"free"})) /\ w.stack = r.stack
      /\ page \in Page /\ page \notin Busy(r) /\ Busy(w) = Busy(r) \cup {page}
      /\ w.header[page] = header
      /\ \A p \in Busy(r) : w.header[p] = r.header[p]
  BY DEF Reused
<1>2. RunsOf(w, {"system"}) = RunsOf(r, {"system"})
  <2>1. RunsOf(w, {"system"}) = {p \in Busy(w) : w.header[p].kind = "system"}
    BY BusyParts
  <2>2. RunsOf(r, {"system"}) = {p \in Busy(r) : r.header[p].kind = "system"}
    BY BusyParts
  <2>3. \A p : p \in Busy(w) /\ w.header[p].kind = "system"
                 <=> p \in Busy(r) /\ r.header[p].kind = "system"
    BY <1>1
  <2>4. QED
    BY <2>1, <2>2, <2>3
<1>3. StackRun(w)
  BY <1>1, <1>2 DEF GoodRuns, StackRun
<1>4. ASSUME NEW p, NEW c, ClassPage(r, p, c)
      PROVE  p \in Busy(r) /\ ClassPage(w, p, c)
  <2>1. p \in Busy(r) /\ r.header[p].kind = "class" /\ r.header[p].class = c
    BY <1>4 DEF ClassPage, RunsOf, Busy
  <2>2. p \in Busy(w) /\ w.header[p] = r.header[p]
    BY <1>1, <2>1
  <2>3. QED
    BY <2>1, <2>2 DEF ClassPage, RunsOf, Busy
<1>5. Capacity(w) = Capacity(r)
  <2>1. CASE r.stack = 0
    BY <1>1, <2>1 DEF Capacity
  <2>2. CASE r.stack # 0
    <3>1. r.stack \in Busy(r)
      BY <2>2, BusyParts DEF GoodRuns, StackRun
    <3>2. QED
      BY <1>1, <3>1 DEF Capacity
  <2>3. QED
    BY <2>1, <2>2
<1>6. Stay(r, w)
  BY <1>4 DEF Stay
<1>7. \A c : ~ClassPage(r, page, c)
  BY <1>1, <1>4
<1>8. QED
  BY <1>1, <1>3, <1>5, <1>6, <1>7 DEF GoodRuns

(* A run that was free or new gets the header of a large object. *)
LargeTaken(page, header, a) ==
  /\ pc = "allocate" /\ cells' = cells /\ a = <<page, 0>> /\ Allocated(a)
  /\ header.kind = "large" /\ Reused(runs, runs', page, header)

(* allocate_large. *)
LEMMA TakeLargeIs ==
  ASSUME IInv, TakeLarge
  PROVE  \E page \in Page : \E header, a : a \in Address /\ LargeTaken(page, header, a)
<1>1. /\ pc = "allocate" /\ request.kind = "large" /\ Taken(runs, request.size).page # 0
      /\ runs' = Written(Taken(runs, request.size).runs, Taken(runs, request.size).page,
                         Header("large", request.size, Nil))
      /\ Allocated(<<Taken(runs, request.size).page, 0>>) /\ cells' = cells
  BY DEF TakeLarge
<1>2. GoodRuns(runs) /\ found.pages = 0 /\ GoodCells(runs, cells, objects) /\ cells \in CellsSet
  BY <1>1 DEF IInv, Typed, RunsInv
<1>3. PICK n \in Nat \ {0} : n = request.size
  BY <1>1, RequestIs DEF RequestSet
<1>4. PICK page : page = Taken(runs, n).page
  OBVIOUS
<1>5. PICK header : header = Header("large", n, Nil)
  OBVIOUS
<1>6. Layout(runs) /\ runs \in RunsSet /\ Listed(runs, RunsOf(runs, {"free"}))
  BY <1>2 DEF GoodRuns, Layout
<1>7. header.kind = "large" /\ Useful(header, n)
  <2>1. n \in 0..MaxPages
    BY <1>1, <1>3, <1>6, TakenFits, HeapAssumption
  <2>2. header.kind = "large" /\ header.pages = n /\ header \in HeaderSet
    BY <1>5, <2>1 DEF Header, HeaderSet, Kinds
  <2>3. QED
    BY <2>2 DEF Useful
<1>8. Reused(runs, runs', page, header)
  <2>1. Taken(runs, n).page # 0
    BY <1>1, <1>3
  <2>2. Reused(runs, Written(Taken(runs, n).runs, Taken(runs, n).page, header),
               Taken(runs, n).page, header)
    BY <1>6, <1>7, <2>1, TakenReused
  <2>3. QED
    BY <1>1, <1>3, <1>4, <1>5, <2>2
<1>9. /\ GoodRuns(runs') /\ Stay(runs, runs') /\ Capacity(runs') = Capacity(runs) /\ page \in Page
      /\ \A c : ~ClassPage(runs, page, c)
  BY <1>2, <1>7, <1>8, ReusedKeeps
<1>10. PICK a : a = <<page, 0>>
  OBVIOUS
<1>11. a \in Address
  <2>1. 0 \in UNION {0..m - 1 : m \in Size}
    <3>1. 1 \in Size /\ 0 \in 0..1 - 1
      BY DEF Size
    <3>2. QED
      BY <3>1, Zenon
  <2>2. QED
    BY <1>9, <1>10, <2>1 DEF Address
<1>12. Allocated(a)
  BY <1>1, <1>3, <1>4, <1>10
<1>13. LargeTaken(page, header, a)
  BY <1>1, <1>7, <1>8, <1>10, <1>12 DEF LargeTaken
<1>14. QED
  BY <1>9, <1>11, <1>13

(* The run taken is large and holds the new object. *)
LEMMA TakeLargeKeeps ==
  ASSUME IInv, TakeLarge
  PROVE  IInv'
<1>3. PICK page \in Page : \E header, a : a \in Address /\ LargeTaken(page, header, a)
  BY TakeLargeIs
<1>4. PICK header, a : a \in Address /\ LargeTaken(page, header, a)
  BY <1>3
<1>1. /\ pc = "allocate" /\ cells' = cells /\ a = <<page, 0>> /\ Allocated(a)
      /\ header.kind = "large" /\ Reused(runs, runs', page, header)
  BY <1>4 DEF LargeTaken
<1>2. GoodRuns(runs) /\ found.pages = 0 /\ GoodCells(runs, cells, objects) /\ cells \in CellsSet
  BY <1>1 DEF IInv, Typed, RunsInv
<1>9. /\ GoodRuns(runs') /\ Stay(runs, runs') /\ Capacity(runs') = Capacity(runs) /\ page \in Page
      /\ \A c : ~ClassPage(runs, page, c)
  BY <1>1, <1>2, ReusedKeeps
<1>10. a = <<page, 0>>
  BY <1>1
<1>11. a \in Address
  BY <1>4
<1>12. Allocated(a)
  BY <1>1
<1>13. Typed'
  BY <1>1, <1>2, <1>11, <1>12, AllocatedTyped
<1>14. RunsInv'
  <2>1. pc' = "mutator" /\ marker' = marker /\ found' = found
    BY <1>12 DEF Allocated
  <2>2. Len(marker.stack) <= Capacity(runs)
    BY DEF IInv, RunsInv
  <2>3. QED
    BY <1>2, <1>9, <2>1, <2>2 DEF RunsInv
<1>15. \A c \in Class : \A b \in ToSet(cells[c].free) : b \notin objects'
  <2> SUFFICES ASSUME NEW c \in Class, NEW b \in ToSet(cells[c].free)
               PROVE  b \notin objects'
    OBVIOUS
  <2>1. ClassPage(runs, b[1], c) /\ b \notin objects
    BY <1>2 DEF GoodCells
  <2>2. b # a
    BY <1>9, <1>10, <2>1
  <2>3. QED
    BY <1>12, <2>1, <2>2 DEF Allocated
<1>16. GoodCells(runs', cells', objects')
  BY <1>1, <1>2, <1>9, <1>15, GoodCellsStay
<1>17. QED
  BY <1>13, <1>14, <1>16 DEF IInv

(* Cells of the page of a class are addresses. *)
LEMMA CellAddress ==
  ASSUME NEW c \in Class, NEW p \in Page, NEW i \in 0..CellsPerPage[c] - 1
  PROVE  <<p, i>> \in Address
<1>1. CellsPerPage[c] \in Size
  BY DEF Size
<1>2. i \in UNION {0..m - 1 : m \in Size}
  BY <1>1, Zenon
<1>3. QED
  BY <1>2 DEF Address

(* The next cells of a page, each once. *)
LEMMA CellsInOrder ==
  ASSUME NEW p, NEW k \in Nat, NEW n \in Nat, NEW s, s = [i \in 1..n |-> <<p, k + i - 1>>],
         \A i \in k..k + n - 1 : <<p, i>> \in Address
  PROVE  /\ s \in Seq(Address) /\ IsInjective(s)
         /\ \A a \in ToSet(s) : a \in Address /\ a[1] = p /\ a[2] \in k..k + n - 1
<1>1. ASSUME NEW i \in 1..n
      PROVE  s[i] = <<p, k + i - 1>> /\ k + i - 1 \in k..k + n - 1 /\ s[i] \in Address
  <2>1. k + i - 1 \in k..k + n - 1
    OBVIOUS
  <2>2. QED
    BY <2>1
<1>2. DOMAIN s = 1..n /\ s \in Seq(Address)
  BY <1>1
<1>3. IsInjective(s)
  <2> SUFFICES ASSUME NEW i \in 1..n, NEW j \in 1..n, s[i] = s[j]
               PROVE  i = j
    BY <1>2 DEF IsInjective
  <2>1. k + i - 1 = k + j - 1
    BY <1>1
  <2>2. QED
    BY <2>1
<1>4. QED
  BY <1>1, <1>2, <1>3 DEF ToSet

(* Cells k to end of page p are linked, and those after end may hold       *)
(* anything if the page is new.                                            *)
CellsLinked(c, p, k, end, linked, unlinked, stale, old) ==
  /\ ToSet(linked) = {<<p, i>> : i \in k..end - 1}
  /\ linked \in Seq(Address) /\ IsInjective(linked)
  /\ \A a \in ToSet(linked) : a \in Address /\ a[1] = p /\ a[2] \in k..end - 1
  /\ \A a \in unlinked :
       k = 0 /\ a[1] = p /\ a[2] \in end..CellsPerPage[c] - 1 /\ a \in Address
  /\ stale \subseteq unlinked /\ old \subseteq unlinked
  /\ objects' = (objects \ ToSet(linked)) \cup stale \cup old
  /\ marked' = (marked \ ToSet(linked)) \cup old
  /\ cells' \in CellsSet /\ IsInjective(cells'[c].free) /\ ToSet(cells'[c].free) = ToSet(linked)
  /\ cells'[c].cursor = IF end = CellsPerPage[c] THEN Nil ELSE <<p, end>>
  /\ \A d \in Class : d # c => cells'[d] = cells[d]

(* refill_class links cells that are in no list. *)
LEMMA LinkedIs ==
  ASSUME IInv, NEW c \in Class, NEW p \in Page, NEW k \in 0..CellsPerPage[c] - 1,
         Linked(c, <<p, k>>), cells[c].free = <<>>
  PROVE  \E end \in k + 1..CellsPerPage[c] : \E linked, unlinked, stale, old :
           CellsLinked(c, p, k, end, linked, unlinked, stale, old)
<1>1. PICK C \in Nat \ {0} : C = CellsPerPage[c]
  BY HeapAssumption
<1>2. PICK from : from = <<p, k>>
  OBVIOUS
<1>3. PICK n0, end0, list0, rest0, cursor0 :
        /\ n0 = IF CellsPerPage[c] - from[2] < LinkChunk THEN CellsPerPage[c] - from[2]
                ELSE LinkChunk
        /\ end0 = from[2] + n0
        /\ list0 = [i \in 1..n0 |-> <<from[1], from[2] + i - 1>>]
        /\ rest0 = IF from[2] = 0 THEN {<<from[1], i>> : i \in end0..CellsPerPage[c] - 1} ELSE {}
        /\ cursor0 = IF end0 = CellsPerPage[c] THEN Nil ELSE <<from[1], end0>>
  OBVIOUS
<1>4. /\ cells' = [cells EXCEPT ![c] = [free |-> list0 \o @.free, cursor |-> cursor0]]
      /\ \E stale \in SUBSET rest0, old \in SUBSET rest0 :
           /\ objects' = (objects \ ToSet(list0)) \cup stale \cup old
           /\ marked' = (marked \ ToSet(list0)) \cup old
  <2>1. Linked(c, from)
    BY <1>2
  <2>2. LET count == IF CellsPerPage[c] - from[2] < LinkChunk THEN CellsPerPage[c] - from[2]
                     ELSE LinkChunk
            end == from[2] + count
            linked == [i \in 1..count |-> <<from[1], from[2] + i - 1>>]
            unlinked == IF from[2] = 0 THEN {<<from[1], i>> : i \in end..CellsPerPage[c] - 1} ELSE {}
        IN  /\ cells' = [cells EXCEPT ![c] =
                           [free |-> linked \o @.free,
                            cursor |-> IF end = CellsPerPage[c] THEN Nil ELSE <<from[1], end>>]]
            /\ \E stale \in SUBSET unlinked, old \in SUBSET unlinked :
                 /\ objects' = (objects \ ToSet(linked)) \cup stale \cup old
                 /\ marked' = (marked \ ToSet(linked)) \cup old
    BY <2>1 DEF Linked
  <2>3. QED
    BY <1>3, <2>2, Zenon
<1>5. from[1] = p /\ from[2] = k
  BY <1>2
<1>6. PICK n \in Nat \ {0} : n = n0 /\ k + n <= C /\ k \in Nat
  <2>1. k \in Nat /\ C - k \in Nat \ {0}
    BY <1>1
  <2>2. n0 = IF C - k < LinkChunk THEN C - k ELSE LinkChunk
    BY <1>1, <1>3, <1>5
  <2>3. n0 \in Nat \ {0} /\ k + n0 <= C
    BY <1>1, <2>1, <2>2, HeapAssumption
  <2>4. QED
    BY <2>1, <2>3
<1>7. PICK end \in Nat : end = end0 /\ end = k + n
  BY <1>3, <1>5, <1>6
<1>8. PICK linked, unlinked, cursor :
        /\ linked = list0 /\ unlinked = rest0 /\ cursor = cursor0
        /\ linked = [i \in 1..n |-> <<p, k + i - 1>>]
        /\ unlinked = IF k = 0 THEN {<<p, i>> : i \in end..C - 1} ELSE {}
        /\ cursor = IF end = C THEN Nil ELSE <<p, end>>
  BY <1>1, <1>3, <1>5, <1>6, <1>7
<1>24. /\ cells' = [cells EXCEPT ![c] = [free |-> linked \o @.free, cursor |-> cursor]]
       /\ \E stale \in SUBSET unlinked, old \in SUBSET unlinked :
            /\ objects' = (objects \ ToSet(linked)) \cup stale \cup old
            /\ marked' = (marked \ ToSet(linked)) \cup old
  BY <1>4, <1>8, Zenon
<1>9. PICK stale \in SUBSET unlinked, old \in SUBSET unlinked :
        /\ objects' = (objects \ ToSet(linked)) \cup stale \cup old
        /\ marked' = (marked \ ToSet(linked)) \cup old
  BY <1>24
<1>10. /\ cells \in CellsSet /\ objects \subseteq Address /\ marked \subseteq objects
       /\ GoodCells(runs, cells, objects)
  BY DEF IInv, Typed
<1>11. /\ linked \in Seq(Address) /\ IsInjective(linked)
       /\ \A a \in ToSet(linked) : a \in Address /\ a[1] = p /\ a[2] \in k..end - 1
  <2>1. \A i \in k..k + n - 1 : <<p, i>> \in Address
    BY <1>1, <1>6, CellAddress
  <2>2. /\ linked \in Seq(Address) /\ IsInjective(linked)
        /\ \A a \in ToSet(linked) : a \in Address /\ a[1] = p /\ a[2] \in k..k + n - 1
    <3>1. n \in Nat /\ k \in Nat
      BY <1>6
    <3>2. linked = [i \in 1..n |-> <<p, k + i - 1>>]
      BY <1>8
    <3>3. QED
      BY <2>1, <3>1, <3>2, CellsInOrder, Zenon
  <2>3. QED
    BY <1>7, <2>2
<1>12. \A a \in unlinked : k = 0 /\ a[1] = p /\ a[2] \in end..C - 1 /\ a \in Address
  <2>1. \A i \in end..C - 1 : <<p, i>> \in Address
    BY <1>1, <1>6, <1>7, CellAddress
  <2>2. QED
    BY <1>8, <2>1
<1>13. cursor \in Reference /\ (cursor # Nil => cursor = <<p, end>> /\ end \in 1..C - 1)
  <2>1. CASE end = C
    BY <1>8, <2>1 DEF Reference
  <2>2. CASE end # C
    <3>1. end \in 1..C - 1
      BY <1>1, <1>6, <1>7, <2>2
    <3>2. <<p, end>> \in Address
      BY <1>1, <3>1, CellAddress
    <3>3. QED
      BY <1>8, <2>2, <3>1, <3>2 DEF Reference
  <2>3. QED
    BY <2>1, <2>2
<1>14. PICK list \in Seq(Address) : list = linked \o <<>>
  BY <1>11, ConcatProperties
<1>15. IsInjective(list) /\ ToSet(list) = ToSet(linked)
  <2>1. PICK none : none = <<>>
    OBVIOUS
  <2>2. none \in Seq(Address) /\ IsInjective(none) /\ ToSet(none) = {}
    BY <2>1 DEF IsInjective, ToSet
  <2>3. ToSet(linked) \cap ToSet(none) = {}
    BY <2>2
  <2>4. /\ IsInjective(linked \o none)
        /\ ToSet(linked \o none) = ToSet(linked) \cup ToSet(none)
    <3>1. PICK X : X = Address
      OBVIOUS
    <3>2. linked \in Seq(X) /\ IsInjective(linked) /\ none \in Seq(X) /\ IsInjective(none)
      BY <1>11, <2>2, <3>1, Zenon
    <3>3. QED
      BY ONLY <2>3, <3>2, PrependedIs
  <2>5. list = linked \o none
    BY <1>14, <2>1, Zenon
  <2>6. QED
    BY <2>2, <2>4, <2>5
<1>16. PICK entry : entry = [free |-> list, cursor |-> cursor]
  OBVIOUS
<1>17. cells' = [cells EXCEPT ![c] = entry]
  BY <1>24, <1>10, <1>14, <1>16 DEF CellsSet
<1>18. /\ cells' \in CellsSet /\ cells'[c].free = list /\ cells'[c].cursor = cursor
       /\ \A d \in Class : d # c => cells'[d] = cells[d]
  BY <1>10, <1>13, <1>16, <1>17 DEF CellsSet
<1>19. objects' \subseteq Address /\ marked' \subseteq objects'
  BY <1>9, <1>10, <1>12
<1>20. end \in k + 1..CellsPerPage[c]
  BY <1>1, <1>6, <1>7
<1>21. ToSet(linked) = {<<p, i>> : i \in k..end - 1}
  <2>1. DOMAIN linked = 1..n /\ \A i \in 1..n : linked[i] = <<p, k + i - 1>>
    BY <1>8
  <2>2. \A i \in 1..n : k + i - 1 \in k..end - 1
    BY <1>6, <1>7
  <2>3. \A i \in k..end - 1 : i - k + 1 \in 1..n /\ k + (i - k + 1) - 1 = i
    BY <1>6, <1>7
  <2>4. ASSUME NEW a \in ToSet(linked)
        PROVE  a \in {<<p, i>> : i \in k..end - 1}
    <3>1. PICK i \in 1..n : a = linked[i]
      BY <2>1 DEF ToSet
    <3>2. QED
      BY <2>1, <2>2, <3>1
  <2>5. ASSUME NEW i \in k..end - 1
        PROVE  <<p, i>> \in ToSet(linked)
    <3>1. PICK l \in 1..n : k + l - 1 = i
      BY <2>3
    <3>2. linked[l] = <<p, i>>
      BY <2>1, <3>1
    <3>3. QED
      BY <2>1, <3>2 DEF ToSet
  <2>6. QED
    BY <2>4, <2>5
<1>22. cells'[c].cursor = IF end = CellsPerPage[c] THEN Nil ELSE <<p, end>>
  BY <1>1, <1>8, <1>18
<1>23. \A a \in unlinked :
         k = 0 /\ a[1] = p /\ a[2] \in end..CellsPerPage[c] - 1 /\ a \in Address
  BY <1>1, <1>12
<1>26. IsInjective(cells'[c].free) /\ ToSet(cells'[c].free) = ToSet(linked)
  BY <1>15, <1>18
<1>25. CellsLinked(c, p, k, end, linked, unlinked, stale, old)
  BY <1>9, <1>11, <1>18, <1>21, <1>22, <1>23, <1>26 DEF CellsLinked
<1>27. QED
  BY <1>20, <1>25

(* The linked cells are free, once each, and below the new cursor.         *)
LEMMA LinkedKeeps ==
  ASSUME IInv, NEW c \in Class, NEW p \in Page, NEW k \in 0..CellsPerPage[c] - 1,
         Linked(c, <<p, k>>), cells[c].free = <<>>, ClassPage(runs', p, c), Stay(runs, runs'),
         k = 0 => \A d : ~ClassPage(runs, p, d)
  PROVE  /\ cells' \in CellsSet /\ GoodCells(runs', cells', objects')
         /\ objects' \subseteq Address /\ marked' \subseteq objects'
<1>1. PICK C \in Nat \ {0} : C = CellsPerPage[c]
  BY HeapAssumption
<1>6. PICK end \in k + 1..CellsPerPage[c] : \E linked, unlinked, stale, old :
        CellsLinked(c, p, k, end, linked, unlinked, stale, old)
  BY LinkedIs
<1>7. end \in Nat /\ k \in Nat /\ k < end /\ end <= C
  BY <1>1, <1>6
<1>8. PICK linked, unlinked, stale, old : CellsLinked(c, p, k, end, linked, unlinked, stale, old)
  BY <1>6
<1>9. /\ objects' = (objects \ ToSet(linked)) \cup stale \cup old
      /\ marked' = (marked \ ToSet(linked)) \cup old
      /\ stale \subseteq unlinked /\ old \subseteq unlinked
  BY <1>8 DEF CellsLinked
<1>10. /\ cells \in CellsSet /\ objects \subseteq Address /\ marked \subseteq objects
       /\ GoodCells(runs, cells, objects)
  BY DEF IInv, Typed
<1>11. \A a \in ToSet(linked) : a \in Address /\ a[1] = p /\ a[2] \in k..end - 1
  BY <1>8 DEF CellsLinked
<1>12. \A a \in unlinked : k = 0 /\ a[1] = p /\ a[2] \in end..C - 1 /\ a \in Address
  BY <1>1, <1>8 DEF CellsLinked
<1>15. IsInjective(cells'[c].free) /\ ToSet(cells'[c].free) = ToSet(linked)
  BY <1>8 DEF CellsLinked
<1>18. /\ cells' \in CellsSet /\ cells'[c].cursor = IF end = C THEN Nil ELSE <<p, end>>
       /\ \A d \in Class : d # c => cells'[d] = cells[d]
  BY <1>1, <1>8 DEF CellsLinked
<1>19. objects' \subseteq Address /\ marked' \subseteq objects'
  BY <1>9, <1>10, <1>12
<1>20. \A a \in ToSet(linked) : a \notin objects'
  <2> SUFFICES ASSUME NEW a \in ToSet(linked)
               PROVE  a \notin objects'
    OBVIOUS
  <2>1. a[2] \in k..end - 1
    BY <1>11
  <2>2. a \notin unlinked
    BY <1>12, <2>1
  <2>3. QED
    BY <1>9, <2>2
<1>21. ASSUME NEW d \in Class
       PROVE  /\ cells'[d].cursor # Nil =>
                   /\ ClassPage(runs', cells'[d].cursor[1], d)
                   /\ cells'[d].cursor[2] \in 1..CellsPerPage[d] - 1
              /\ IsInjective(cells'[d].free)
              /\ \A b \in ToSet(cells'[d].free) :
                   /\ ClassPage(runs', b[1], d) /\ b[2] < LinkedPart(cells', b[1], d)
                   /\ b \notin objects'
  <2>1. CASE d = c
    <3>1. cells'[d].cursor # Nil =>
            ClassPage(runs', cells'[d].cursor[1], d) /\ cells'[d].cursor[2] \in 1..CellsPerPage[d] - 1
      <4>1. cells'[c].cursor # Nil => end # C /\ cells'[c].cursor = <<p, end>> /\ end \in 1..C - 1
        BY <1>7, <1>18
      <4>2. QED
        BY <1>1, <2>1, <4>1
    <3>2. IsInjective(cells'[d].free)
      BY <1>15, <2>1
    <3>3. ASSUME NEW b \in ToSet(cells'[d].free)
          PROVE  ClassPage(runs', b[1], d) /\ b[2] < LinkedPart(cells', b[1], d) /\ b \notin objects'
      <4>1. b \in ToSet(linked)
        BY <1>15, <2>1, <3>3
      <4>2. b[1] = p /\ b[2] \in k..end - 1 /\ b \notin objects'
        BY <1>11, <1>20, <4>1
      <4>3. LinkedPart(cells', p, c) = end
        <5>1. CASE end = C
          BY <1>1, <1>18, <5>1 DEF LinkedPart
        <5>2. CASE end # C
          <6>1. <<p, end>> \in Address
            BY <1>1, <1>7, <5>2, CellAddress
          <6>2. cells'[c].cursor = <<p, end>> /\ cells'[c].cursor # Nil
            BY <1>18, <5>2, <6>1, HeapAssumption
          <6>3. QED
            BY <6>2 DEF LinkedPart
        <5>3. QED
          BY <5>1, <5>2
      <4>4. b[2] < end
        BY <1>7, <4>2
      <4>5. QED
        BY <2>1, <4>2, <4>3, <4>4
    <3>4. QED
      BY <3>1, <3>2, <3>3
  <2>2. CASE d # c
    <3>1. cells'[d] = cells[d]
      BY <1>18, <2>2
    <3>2. /\ cells[d].cursor # Nil =>
               ClassPage(runs, cells[d].cursor[1], d) /\ cells[d].cursor[2] \in 1..CellsPerPage[d] - 1
          /\ IsInjective(cells[d].free)
          /\ \A b \in ToSet(cells[d].free) :
               ClassPage(runs, b[1], d) /\ b[2] < LinkedPart(cells, b[1], d) /\ b \notin objects
      BY <1>10 DEF GoodCells
    <3>3. \A q : LinkedPart(cells', q, d) = LinkedPart(cells, q, d)
      BY <3>1 DEF LinkedPart
    <3>4. ASSUME NEW b \in ToSet(cells[d].free)
          PROVE  b \notin objects'
      <4>1. ClassPage(runs, b[1], d) /\ b \notin objects
        BY <3>2
      <4>2. b \notin unlinked
        BY <1>12, <4>1
      <4>3. QED
        BY <1>9, <4>1, <4>2
    <3>5. QED
      BY <3>1, <3>2, <3>3, <3>4 DEF Stay
  <2>3. QED
    BY <2>1, <2>2
<1>22. GoodCells(runs', cells', objects')
  BY <1>21 DEF GoodCells
<1>23. QED
  BY <1>18, <1>19, <1>22

(* The cells that are linked next, of the page with the cursor or of a new *)
(* one.                                                                    *)
Refilled(c, p, k) ==
  /\ pc = "allocate" /\ cells[c].free = <<>> /\ Linked(c, <<p, k>>)
  /\ UNCHANGED <<pc, request, roots, fields, marker, found>>
  /\ \/ k # 0 /\ cells[c].cursor = <<p, k>> /\ ClassPage(runs, p, c) /\ runs' = runs
     \/ /\ k = 0 /\ cells[c].cursor = Nil
        /\ \E header : /\ header.kind = "class" /\ header.class = c
                       /\ Reused(runs, runs', p, header)

(* refill_class. *)
LEMMA RefillClassIs ==
  ASSUME IInv, RefillClass
  PROVE  \E c \in Class : \E p \in Page, k \in 0..CellsPerPage[c] - 1 : Refilled(c, p, k)
<1>1. PICK c \in Class : c = request.kind
  BY DEF RefillClass
<1>2. /\ pc = "allocate" /\ cells[c].free = <<>>
      /\ UNCHANGED <<pc, request, roots, fields, marker, found>>
  BY <1>1 DEF RefillClass
<1>3. GoodRuns(runs) /\ GoodCells(runs, cells, objects) /\ cells \in CellsSet
  BY <1>2 DEF IInv, Typed, RunsInv
<1>4. Layout(runs) /\ runs \in RunsSet /\ Listed(runs, RunsOf(runs, {"free"}))
  BY <1>3 DEF GoodRuns, Layout
<1>5. SUFFICES \E p \in Page, k \in 0..CellsPerPage[c] - 1 : Refilled(c, p, k)
  OBVIOUS
<1>6. CASE cells[c].cursor # Nil /\ Linked(c, cells[c].cursor) /\ UNCHANGED runs
  <2>1. cells[c].cursor \in Address
    BY <1>3, <1>6 DEF CellsSet, Reference
  <2>2. PICK p \in Page : \E i : cells[c].cursor = <<p, i>>
    BY <2>1 DEF Address
  <2>3. PICK k : cells[c].cursor = <<p, k>>
    BY <2>2
  <2>4. ClassPage(runs, p, c) /\ k \in 1..CellsPerPage[c] - 1
    BY <1>3, <1>6, <2>3 DEF GoodCells
  <2>5. k \in 0..CellsPerPage[c] - 1 /\ k # 0
    BY <2>4, HeapAssumption
  <2>6. Linked(c, <<p, k>>)
    BY <1>6, <2>3
  <2>7. Refilled(c, p, k)
    BY <1>2, <1>6, <2>3, <2>4, <2>5, <2>6 DEF Refilled
  <2>8. QED
    BY <2>5, <2>7
<1>7. CASE /\ cells[c].cursor = Nil /\ Taken(runs, 1).page # 0
           /\ runs' = Written(Taken(runs, 1).runs, Taken(runs, 1).page, Header("class", 1, c))
           /\ Linked(c, <<Taken(runs, 1).page, 0>>)
  <2>1. PICK page : page = Taken(runs, 1).page
    OBVIOUS
  <2>2. PICK header : header = Header("class", 1, c)
    OBVIOUS
  <2>3. header.kind = "class" /\ header.class = c /\ Useful(header, 1)
    <3>1. 1 \in 0..MaxPages
      BY <1>4, <1>7, TakenFits, HeapAssumption
    <3>2. header.kind = "class" /\ header.class = c /\ header.pages = 1 /\ header \in HeaderSet
      BY <2>2, <3>1 DEF Header, HeaderSet, Kinds
    <3>3. QED
      BY <3>2 DEF Useful
  <2>4. Reused(runs, runs', page, header)
    <3>1. Reused(runs, Written(Taken(runs, 1).runs, Taken(runs, 1).page, header),
                 Taken(runs, 1).page, header)
      BY <1>4, <1>7, <2>3, TakenReused
    <3>2. QED
      BY <1>7, <2>1, <2>2, <3>1
  <2>5. page \in Page
    BY <2>4 DEF Reused
  <2>6. 0 \in 0..CellsPerPage[c] - 1
    BY HeapAssumption
  <2>7. Linked(c, <<page, 0>>)
    BY <1>7, <2>1
  <2>8. Refilled(c, page, 0)
    BY <1>2, <1>7, <2>3, <2>4, <2>7 DEF Refilled
  <2>9. QED
    BY <2>5, <2>6, <2>8
<1>8. QED
  BY <1>1, <1>6, <1>7 DEF RefillClass

(* refill_class: the cells it links were in no list and hold nothing. *)
LEMMA RefillClassKeeps ==
  ASSUME IInv, RefillClass
  PROVE  IInv'
<1>1. PICK c \in Class : \E p \in Page, k \in 0..CellsPerPage[c] - 1 : Refilled(c, p, k)
  BY RefillClassIs
<1>2. PICK p \in Page, k \in 0..CellsPerPage[c] - 1 : Refilled(c, p, k)
  BY <1>1
<1>3. /\ pc = "allocate" /\ cells[c].free = <<>> /\ Linked(c, <<p, k>>)
      /\ UNCHANGED <<pc, request, roots, fields, marker, found>>
  BY <1>2 DEF Refilled
<1>4. /\ GoodRuns(runs) /\ found.pages = 0 /\ GoodCells(runs, cells, objects) /\ cells \in CellsSet
      /\ Len(marker.stack) <= Capacity(runs)
  BY <1>3 DEF IInv, Typed, RunsInv
<1>5. /\ GoodRuns(runs') /\ Capacity(runs') = Capacity(runs)
      /\ ClassPage(runs', p, c) /\ Stay(runs, runs')
      /\ k = 0 => \A d : ~ClassPage(runs, p, d)
  <2>1. CASE k # 0 /\ cells[c].cursor = <<p, k>> /\ ClassPage(runs, p, c) /\ runs' = runs
    BY <1>4, <2>1 DEF Stay
  <2>2. ASSUME k = 0, NEW header, header.kind = "class", header.class = c,
               Reused(runs, runs', p, header)
        PROVE  /\ GoodRuns(runs') /\ Capacity(runs') = Capacity(runs)
               /\ ClassPage(runs', p, c) /\ Stay(runs, runs') /\ \A d : ~ClassPage(runs, p, d)
    <3>1. /\ GoodRuns(runs') /\ Stay(runs, runs') /\ Capacity(runs') = Capacity(runs)
          /\ \A d : ~ClassPage(runs, p, d)
      BY <1>4, <2>2, ReusedKeeps
    <3>2. p \in Busy(runs') /\ runs'.header[p] = header
      BY <2>2 DEF Reused
    <3>3. ClassPage(runs', p, c)
      BY <2>2, <3>2 DEF ClassPage, Busy, RunsOf
    <3>4. QED
      BY <3>1, <3>3
  <2>3. QED
    BY <1>2, <2>1, <2>2 DEF Refilled
<1>6. /\ cells' \in CellsSet /\ GoodCells(runs', cells', objects')
      /\ objects' \subseteq Address /\ marked' \subseteq objects'
  BY <1>3, <1>5, LinkedKeeps
<1>7. Typed'
  BY <1>3, <1>6 DEF IInv, Typed
<1>8. RunsInv'
  BY <1>3, <1>4, <1>5 DEF RunsInv
<1>9. QED
  BY <1>5, <1>6, <1>7, <1>8 DEF IInv

-----------------------------------------------------------------------------
(* A step of marking that keeps SoundMark. *)
LEMMA MarkingKeeps ==
  ASSUME IInv, pc # "sweep", NEW m, SoundMark(m, runs), NEW at \in Nat \X Nat,
         MarkingBecomes(m, at), pc' \in {"roots", "drain", "rescan"},
         pc' = "roots" => at[2] < Slots,
         pc' = "rescan" => at[1] \in RunStarts(m.runs)
  PROVE  IInv'
<1>1. /\ m.marked \subseteq objects /\ m.stack \in Seq(Address) /\ m.overflowed \in BOOLEAN
      /\ GoodRuns(m.runs) /\ Kept(runs, m.runs) /\ Len(m.stack) <= Capacity(m.runs)
  BY DEF SoundMark
<1>2. /\ marked' = m.marked /\ runs' = m.runs
      /\ marker' = [stack |-> m.stack, overflowed |-> m.overflowed, at |-> at]
      /\ UNCHANGED <<request, roots, cells, objects, fields, found>>
  BY DEF MarkingBecomes
<1>3. found.pages = 0 /\ GoodCells(runs, cells, objects)
  BY DEF IInv, RunsInv
<1>4. Typed'
  <2>1. marker' \in [stack: Seq(Address), overflowed: BOOLEAN, at: Nat \X Nat]
    BY <1>1, <1>2
  <2>2. QED
    BY <1>1, <1>2, <2>1 DEF IInv, Typed
<1>5. GoodCells(runs', cells', objects')
  BY <1>1, <1>2, <1>3, GoodCellsKept
<1>6. RunsInv'
  <2>1. marker'.at = at /\ marker'.stack = m.stack
    BY <1>2
  <2>2. QED
    BY <1>1, <1>2, <1>3, <2>1 DEF RunsInv, Starts
<1>7. QED
  BY <1>4, <1>5, <1>6 DEF IInv

(* The marker is sound before such a step. *)
LEMMA MarkingSound ==
  ASSUME IInv, pc # "sweep"
  PROVE  /\ SoundMark(Marking, runs) /\ objects \subseteq Address
         /\ fields \in [Address -> [Field -> Reference]]
         /\ marker.at \in Nat \X Nat /\ marker.stack \in Seq(Address)
<1>1. /\ GoodRuns(runs) /\ Len(marker.stack) <= Capacity(runs)
      /\ marked \subseteq objects /\ objects \subseteq Address
      /\ marker \in [stack: Seq(Address), overflowed: BOOLEAN, at: Nat \X Nat]
      /\ fields \in [Address -> [Field -> Reference]]
  BY DEF IInv, Typed, RunsInv
<1>2. runs \in RunsSet
  BY <1>1 DEF GoodRuns, Layout
<1>3. Kept(runs, runs)
  BY DEF Kept
<1>4. QED
  BY <1>1, <1>2, <1>3 DEF SoundMark, Marking

(* A root is marked. *)
LEMMA MarkRootKeeps ==
  ASSUME IInv, MarkRoot
  PROVE  IInv'
<1>1. PICK s : s = marker.at[2] + 1
  OBVIOUS
<1>2. /\ pc = "roots" /\ MarkingBecomes(MarkedAddress(Marking, roots[s]), <<0, s>>)
      /\ pc' = IF s = Slots THEN "drain" ELSE "roots"
  BY <1>1 DEF MarkRoot
<1>3. s \in Slot /\ s \in Nat /\ roots[s] \in Reference /\ (s # Slots => s < Slots)
  <2>1. marker.at[2] < Slots /\ marker.at[2] \in Nat
    BY <1>2 DEF IInv, Typed, RunsInv
  <2>2. s \in Slot /\ s \in Nat /\ (s # Slots => s < Slots)
    BY <1>1, <2>1, HeapAssumption DEF Slot
  <2>3. QED
    BY <2>2 DEF IInv, Typed
<1>4. SoundMark(MarkedAddress(Marking, roots[s]), runs)
  BY <1>2, <1>3, MarkingSound, MarkedSound
<1>5. PICK m, at : m = MarkedAddress(Marking, roots[s]) /\ at = <<0, s>>
  OBVIOUS
<1>6. at \in Nat \X Nat /\ at[2] = s
  BY <1>3, <1>5
<1>7. SoundMark(m, runs) /\ MarkingBecomes(m, at)
  BY <1>2, <1>4, <1>5
<1>8. /\ pc # "sweep" /\ pc' \in {"roots", "drain", "rescan"} /\ pc' # "rescan"
      /\ pc' = "roots" => at[2] < Slots
  BY <1>2, <1>3, <1>6
<1>9. QED
  BY <1>6, <1>7, <1>8, MarkingKeeps

(* The object on top of the mark stack, and the marker without it. *)
Top == marker.stack[Len(marker.stack)]
Popping == [Marking EXCEPT !.stack = SubSeq(@, 1, Len(marker.stack) - 1)]

(* An object is taken from the mark stack. *)
LEMMA PoppingSound ==
  ASSUME IInv, pc = "drain", marker.stack # <<>>
  PROVE  /\ SoundMark(Popping, runs) /\ Top \in Address /\ Top \in ToSet(marker.stack)
         /\ Popping.marked = marked /\ Popping.overflowed = marker.overflowed
         /\ ToSet(Popping.stack) \subseteq ToSet(marker.stack)
         /\ \A b \in ToSet(marker.stack) : b = Top \/ b \in ToSet(Popping.stack)
<1>1. /\ SoundMark(Marking, runs) /\ marker.stack \in Seq(Address)
  BY MarkingSound
<1>2. PICK last \in Nat \ {0} : last = Len(marker.stack)
  BY <1>1
<1>3. DOMAIN marker.stack = 1..last /\ last - 1 \in Nat
  BY <1>1, <1>2
<1>4. Top \in Address /\ Top = marker.stack[last] /\ Top \in ToSet(marker.stack)
  BY <1>1, <1>2, <1>3 DEF Top, ToSet
<1>5. Marking.stack = marker.stack /\ Marking.runs = runs
  BY DEF Marking
<1>6. PICK st : st = SubSeq(marker.stack, 1, last - 1)
  OBVIOUS
<1>7. /\ st \in Seq(Address) /\ Len(st) = last - 1 /\ DOMAIN st = 1..last - 1
      /\ \A i \in 1..last - 1 : st[i] = marker.stack[i]
  BY <1>1, <1>2, <1>6
<1>8. PICK popped : popped = [Marking EXCEPT !.stack = st]
  OBVIOUS
<1>9. Marking \in [marked: SUBSET objects, runs: RunsSet, stack: Seq(Address), overflowed: BOOLEAN]
  BY <1>1 DEF SoundMark
<1>10. Popping = popped
  BY <1>2, <1>5, <1>6, <1>8, <1>9 DEF Popping
<1>11. /\ popped.stack = st /\ popped.marked = marked /\ popped.overflowed = marker.overflowed
       /\ popped.runs = runs
  BY <1>8, <1>9 DEF Marking
<1>12. Capacity(runs) \in Nat /\ last <= Capacity(runs)
  BY <1>2, CapacityNat DEF IInv, RunsInv
<1>13. Len(st) <= Capacity(runs)
  BY <1>2, <1>7, <1>12
<1>14. SoundMark(popped, runs)
  BY <1>1, <1>5, <1>7, <1>8, <1>13 DEF SoundMark
<1>15. ASSUME NEW b \in ToSet(st)
       PROVE  b \in ToSet(marker.stack)
  <2>1. PICK i \in 1..last - 1 : b = st[i]
    BY <1>7 DEF ToSet
  <2>2. i \in 1..last /\ b = marker.stack[i]
    BY <1>2, <1>7, <2>1
  <2>3. QED
    BY <1>3, <2>2 DEF ToSet
<1>16. ASSUME NEW b \in ToSet(marker.stack), b # Top
       PROVE  b \in ToSet(st)
  <2>1. PICK i \in 1..last : b = marker.stack[i]
    BY <1>3 DEF ToSet
  <2>2. i \in 1..last - 1
    BY <1>2, <1>4, <1>16, <2>1
  <2>3. b = st[i]
    BY <1>7, <2>1, <2>2
  <2>4. QED
    BY <1>7, <2>2, <2>3 DEF ToSet
<1>17. QED
  BY <1>4, <1>10, <1>11, <1>14, <1>15, <1>16

(* It is traced. *)
LEMMA DrainOneKeeps ==
  ASSUME IInv, DrainOne
  PROVE  IInv'
<1>1. /\ pc = "drain" /\ pc' = pc /\ marker.stack # <<>>
      /\ MarkingBecomes(Traced(Popping, Top), <<0, 0>>)
  BY DEF DrainOne, Popping, Top
<1>2. objects \subseteq Address /\ fields \in [Address -> [Field -> Reference]]
  BY <1>1, MarkingSound
<1>3. PICK m, at : m = Traced(Popping, Top) /\ at = <<0, 0>>
  OBVIOUS
<1>4. SoundMark(m, runs)
  BY <1>1, <1>2, <1>3, PoppingSound, TracedSound
<1>5. at \in Nat \X Nat /\ MarkingBecomes(m, at)
  BY <1>1, <1>3
<1>6. pc # "sweep" /\ pc' \in {"roots", "drain", "rescan"} /\ pc' # "roots" /\ pc' # "rescan"
  BY <1>1
<1>7. QED
  BY <1>4, <1>5, <1>6, MarkingKeeps

(* The walk comes from the start of a run to that of the next. *)
LEMMA NextStart ==
  ASSUME NEW r, Layout(r), NEW p \in RunStarts(r), p <= r.end
  PROVE  /\ p \in Page /\ r.header[p].pages \in Nat \ {0}
         /\ p + r.header[p].pages \in RunStarts(r)
         /\ \A q \in RunStarts(r) : p < q => p + r.header[p].pages <= q
<1>1. /\ r \in RunsSet /\ p \in Page /\ Sizes(r) \in [Page -> Nat]
      /\ Sizes(r)[p] = r.header[p].pages /\ Sizes(r)[p] \in Nat
  BY LayoutFacts
<1>2. /\ Sizes(r)[p] >= 1 /\ p + Sizes(r)[p] \in RunStarts(r)
      /\ \A q \in RunStarts(r) : p < q => p + Sizes(r)[p] <= q
  BY DEF Layout, Tiling
<1>3. QED
  BY <1>1, <1>2

(* An object is rescanned, or the next run begun. *)
LEMMA RescanOneKeeps ==
  ASSUME IInv, RescanOne
  PROVE  IInv'
<1>1. PICK a : a = marker.at
  OBVIOUS
<1>2. /\ pc = "rescan" /\ pc' = pc /\ a[1] <= runs.end
      /\ IF a[2] < RunCells(a[1])
         THEN MarkingBecomes(IF a \in marked THEN Traced(Marking, a) ELSE Marking,
                             <<a[1], a[2] + 1>>)
         ELSE MarkingBecomes(Marking, <<NextRun(a[1]), 0>>)
  BY <1>1 DEF RescanOne
<1>3. /\ SoundMark(Marking, runs) /\ objects \subseteq Address
      /\ fields \in [Address -> [Field -> Reference]] /\ a \in Nat \X Nat
  BY <1>1, <1>2, MarkingSound
<1>4. a[1] \in RunStarts(runs) /\ Layout(runs) /\ marked \subseteq objects
  BY <1>1, <1>2 DEF IInv, Typed, RunsInv, Starts, GoodRuns
<1>5. CASE a[2] < RunCells(a[1])
  <2>1. a[1] \in RunsOf(runs, {"class", "large"})
    <3>1. CASE runs.header[a[1]].kind \in {"class", "large"}
      BY <1>2, <1>4, <3>1 DEF RunsOf
    <3>2. CASE runs.header[a[1]].kind \notin {"class", "large"}
      <4>1. RunCells(a[1]) = 0
        BY <3>2 DEF RunCells
      <4>2. QED
        BY <1>3, <1>5, <4>1
    <3>3. QED
      BY <3>1, <3>2
  <2>2. PICK m : m = IF a \in marked THEN Traced(Marking, a) ELSE Marking
    OBVIOUS
  <2>3. SoundMark(m, runs)
    <3>1. CASE a \in marked
      <4>1. a \in Address
        BY <1>3, <1>4, <3>1
      <4>2. SoundMark(Traced(Marking, a), runs)
        BY <1>3, <4>1, TracedSound
      <4>3. QED
        BY <2>2, <3>1, <4>2
    <3>2. CASE a \notin marked
      BY <1>3, <2>2, <3>2
    <3>3. QED
      BY <3>1, <3>2
  <2>4. PICK at \in Nat \X Nat : at = <<a[1], a[2] + 1>>
    <3>1. a[1] \in Nat /\ a[2] + 1 \in Nat
      BY <1>3
    <3>2. <<a[1], a[2] + 1>> \in Nat \X Nat
      BY <3>1
    <3>3. QED
      BY <3>2
  <2>5. MarkingBecomes(m, at)
    BY <1>2, <1>5, <2>2, <2>4
  <2>6. at[1] \in RunStarts(m.runs)
    <3>1. a[1] \in RunsOf(m.runs, {"class", "large"})
      BY <2>1, <2>3 DEF SoundMark, Kept
    <3>2. QED
      BY <2>4, <3>1 DEF RunsOf
  <2>7. pc # "sweep" /\ pc' \in {"roots", "drain", "rescan"} /\ pc' # "roots"
    BY <1>2
  <2>8. QED
    BY <2>3, <2>5, <2>6, <2>7, MarkingKeeps
<1>6. CASE ~(a[2] < RunCells(a[1]))
  <2>1. PICK m : m = Marking
    OBVIOUS
  <2>2. m.runs = runs
    BY <2>1 DEF Marking
  <2>3. NextRun(a[1]) \in RunStarts(runs) /\ NextRun(a[1]) \in Nat
    BY <1>2, <1>3, <1>4, NextStart, LayoutFacts DEF NextRun
  <2>4. PICK at \in Nat \X Nat : at = <<NextRun(a[1]), 0>>
    BY <2>3
  <2>5. MarkingBecomes(m, at) /\ SoundMark(m, runs) /\ at[1] \in RunStarts(m.runs)
    BY <1>2, <1>3, <1>6, <2>1, <2>2, <2>3, <2>4
  <2>6. pc # "sweep" /\ pc' \in {"roots", "drain", "rescan"} /\ pc' # "roots"
    BY <1>2
  <2>7. QED
    BY <2>5, <2>6, MarkingKeeps
<1>7. QED
  BY <1>5, <1>6

(* The rescan is over. *)
LEMMA RescanEndKeeps ==
  ASSUME IInv, RescanEnd
  PROVE  IInv'
<1>1. pc = "rescan" /\ pc' = "drain" /\ MarkingBecomes(Marking, <<0, 0>>)
  BY DEF RescanEnd
<1>2. PICK m, at : m = Marking /\ at = <<0, 0>>
  OBVIOUS
<1>3. at \in Nat \X Nat /\ SoundMark(m, runs) /\ MarkingBecomes(m, at)
  BY <1>1, <1>2, MarkingSound
<1>4. pc # "sweep" /\ pc' \in {"roots", "drain", "rescan"} /\ pc' # "roots" /\ pc' # "rescan"
  BY <1>1
<1>5. QED
  BY <1>3, <1>4, MarkingKeeps

(* After marking, the sweep starts with empty lists. *)
LEMMA DrainEndKeeps ==
  ASSUME IInv, DrainEnd
  PROVE  IInv'
<1>1. /\ pc = "drain" /\ marker.stack = <<>>
      /\ marker' = [marker EXCEPT !.overflowed = FALSE, !.at = <<1, 0>>]
      /\ UNCHANGED <<request, roots, objects, marked, fields, found>>
  BY DEF DrainEnd
<1>2. /\ GoodRuns(runs) /\ found.pages = 0 /\ Len(marker.stack) <= Capacity(runs)
      /\ GoodCells(runs, cells, objects) /\ cells \in CellsSet
      /\ marker \in [stack: Seq(Address), overflowed: BOOLEAN, at: Nat \X Nat]
      /\ found \in [start: Nat, pages: Nat]
  BY <1>1 DEF IInv, Typed, RunsInv
<1>3. /\ marker' \in [stack: Seq(Address), overflowed: BOOLEAN, at: Nat \X Nat]
      /\ marker'.stack = marker.stack /\ marker'.at[1] = 1 /\ marker'.at[2] = 0
  BY <1>1, <1>2
<1>4. Layout(runs) /\ runs \in RunsSet /\ 1 \in RunStarts(runs)
      /\ \A p \in RunStarts(runs) : p \in Nat /\ p >= 1
  BY <1>2, LayoutFacts DEF GoodRuns, Layout, Tiling
<1>5. CASE marker.overflowed
  <2>1. pc' = "rescan" /\ runs' = runs /\ cells' = cells
    BY <1>5 DEF DrainEnd
  <2>2. Typed'
    BY <1>1, <1>3, <2>1 DEF IInv, Typed
  <2>3. RunsInv'
    BY <1>1, <1>2, <1>3, <1>4, <2>1 DEF RunsInv, Starts
  <2>4. GoodCells(runs', cells', objects')
    BY <1>1, <1>2, <2>1
  <2>5. QED
    BY <2>2, <2>3, <2>4 DEF IInv
<1>6. CASE ~marker.overflowed
  <2>1. /\ pc' = "sweep" /\ runs' = [runs EXCEPT !.free = <<>>]
        /\ cells' = [c \in Class |-> [cells[c] EXCEPT !.free = <<>>]]
    BY <1>6 DEF DrainEnd
  <2>2. /\ runs' \in RunsSet /\ runs'.header = runs.header /\ runs'.end = runs.end
        /\ runs'.stack = runs.stack /\ runs'.free = <<>>
    <3>1. PICK none : none = <<>>
      OBVIOUS
    <3>2. none \in Seq(Page)
      BY <3>1
    <3>3. runs' = [runs EXCEPT !.free = none]
      BY <2>1, <3>1
    <3>4. /\ runs' \in RunsSet /\ runs'.header = runs.header /\ runs'.end = runs.end
          /\ runs'.stack = runs.stack /\ runs'.free = none
      BY <1>4, <3>2, <3>3 DEF RunsSet
    <3>5. QED
      BY <3>1, <3>4
  <2>3. /\ Layout(runs') /\ RunStarts(runs') = RunStarts(runs)
        /\ \A kinds : RunsOf(runs', kinds) = RunsOf(runs, kinds)
    BY <1>4, <2>2, SameRuns
  <2>4. ASSUME NEW c \in Class
        PROVE  /\ cells'[c].free = <<>> /\ cells'[c].cursor = cells[c].cursor
               /\ cells'[c] \in [free: Seq(Address), cursor: Reference]
    <3>1. cells'[c] = [cells[c] EXCEPT !.free = <<>>] /\ cells[c] \in [free: Seq(Address), cursor: Reference]
      BY <1>2, <2>1 DEF CellsSet
    <3>2. PICK none : none = <<>>
      OBVIOUS
    <3>3. none \in Seq(Address)
      BY <3>2
    <3>4. cells'[c] = [cells[c] EXCEPT !.free = none]
      BY <3>1, <3>2
    <3>5. /\ cells'[c].free = none /\ cells'[c].cursor = cells[c].cursor
          /\ cells'[c] \in [free: Seq(Address), cursor: Reference]
      BY <3>1, <3>3, <3>4
    <3>6. QED
      BY <3>2, <3>5
  <2>5. cells' \in CellsSet
    BY <2>1, <2>4 DEF CellsSet
  <2>6. ToSet(<<>>) = {} /\ IsInjective(<<>>)
    BY DEF ToSet, IsInjective
  <2>7. GoodCells(runs', cells', objects')
    <3>1. ASSUME NEW c \in Class, cells[c].cursor # Nil
          PROVE  ClassPage(runs', cells[c].cursor[1], c)
      <4>1. ClassPage(runs, cells[c].cursor[1], c)
        BY <1>2, <3>1 DEF GoodCells
      <4>2. QED
        BY <2>2, <2>3, <4>1 DEF ClassPage
    <3>2. QED
      BY <1>2, <2>4, <2>6, <3>1 DEF GoodCells
  <2>8. Frontier(found, 1) = 1
    BY <1>2 DEF Frontier
  <2>9. Swept(runs', found, 1)
    <3>1. StackRun(runs')
      BY <1>2, <2>2, <2>3 DEF GoodRuns, StackRun
    <3>2. {p \in RunsOf(runs', {"free"}) : p < 1} = {}
      BY <1>4, <2>3 DEF RunsOf
    <3>3. Listed(runs', {p \in RunsOf(runs', {"free"}) : p < 1})
      BY <2>2, <2>6, <3>2 DEF Listed
    <3>4. Listed(runs', {p \in RunsOf(runs', {"free"}) : p < Frontier(found, 1)})
      BY <2>8, <3>3
    <3>5. 1 \in RunStarts(runs') /\ Layout(runs')
      BY <1>4, <2>3
    <3>6. QED
      BY <1>2, <3>1, <3>4, <3>5 DEF Swept
  <2>10. SweptCells(cells', found, 1)
    <3>1. ASSUME NEW c \in Class, cells'[c].cursor # Nil
          PROVE  cells'[c].cursor[1] >= 1
      <4>1. ClassPage(runs, cells[c].cursor[1], c)
        BY <1>2, <2>4, <3>1 DEF GoodCells
      <4>2. cells[c].cursor[1] \in RunStarts(runs)
        BY <4>1 DEF ClassPage, RunsOf
      <4>3. QED
        BY <1>4, <2>4, <4>2
    <3>2. QED
      BY <2>4, <2>6, <3>1 DEF SweptCells
  <2>11. Capacity(runs') = Capacity(runs)
    BY <2>2 DEF Capacity
  <2>12. Typed'
    BY <1>1, <1>3, <2>1, <2>5 DEF IInv, Typed
  <2>13. RunsInv'
    BY <1>1, <1>2, <1>3, <2>1, <2>9, <2>10, <2>11 DEF RunsInv
  <2>14. QED
    BY <2>7, <2>12, <2>13 DEF IInv
<1>7. QED
  BY <1>5, <1>6

-----------------------------------------------------------------------------
(* The front of the sweep is the start of a run. *)
LEMMA FrontIs ==
  ASSUME NEW r, NEW f, NEW at, Swept(r, f, at)
  PROVE  /\ Frontier(f, at) \in RunStarts(r) /\ Frontier(f, at) <= at
         /\ at \in Nat /\ Frontier(f, at) \in Nat
<1>1. f.start \in Nat /\ f.pages \in Nat /\ Layout(r) /\ at \in RunStarts(r)
  BY DEF Swept
<1>2. at \in Nat
  BY <1>1, LayoutFacts
<1>3. CASE f.pages > 0
  <2>1. Frontier(f, at) = f.start /\ f.start \in RunStarts(r) /\ f.start + f.pages = at
    BY <1>3 DEF Swept, Frontier
  <2>2. QED
    BY <1>1, <1>2, <2>1
<1>4. CASE ~(f.pages > 0)
  <2>1. Frontier(f, at) = at
    BY <1>4 DEF Frontier
  <2>2. QED
    BY <1>1, <1>2, <2>1
<1>5. QED
  BY <1>3, <1>4

Found(f, at, n) ==
  IF f.pages > 0 THEN [f EXCEPT !.pages = @ + n] ELSE [start |-> at, pages |-> n]

(* FreePages::add of the run the sweep has come to. *)
LEMMA AddSwept ==
  ASSUME NEW r, NEW f, NEW at, Swept(r, f, at), at <= r.end, r.header[at].kind # "system",
         NEW n, n = r.header[at].pages, NEW g, g = Found(f, at, n)
  PROVE  /\ Swept(r, g, at + n) /\ Frontier(g, at + n) = Frontier(f, at)
         /\ g \in [start: Nat, pages: Nat] /\ g.pages > 0
<1>1. /\ Layout(r) /\ StackRun(r) /\ at \in RunStarts(r) /\ f \in [start: Nat, pages: Nat]
      /\ Listed(r, {p \in RunsOf(r, {"free"}) : p < Frontier(f, at)})
  BY DEF Swept
<1>2. /\ n \in Nat \ {0} /\ at + n \in RunStarts(r)
      /\ \A q \in RunStarts(r) : at < q => at + n <= q
  BY <1>1, NextStart
<1>3. /\ Frontier(f, at) \in RunStarts(r) /\ Frontier(f, at) <= at /\ at \in Nat /\ Frontier(f, at) \in Nat
  BY FrontIs
<1>4. g \in [start: Nat, pages: Nat] /\ g.pages > 0 /\ g.start = Frontier(f, at) /\ g.start + g.pages = at + n
  <2>1. CASE f.pages > 0
    <3>1. f.start + f.pages = at
      BY <2>1 DEF Swept
    <3>2. g = [f EXCEPT !.pages = f.pages + n]
      BY <2>1 DEF Found
    <3>3. g \in [start: Nat, pages: Nat] /\ g.start = f.start /\ g.pages = f.pages + n
      BY <1>1, <1>2, <3>2
    <3>4. QED
      BY <1>1, <1>2, <1>3, <2>1, <3>1, <3>3 DEF Frontier
  <2>2. CASE ~(f.pages > 0)
    <3>1. g = [start |-> at, pages |-> n]
      BY <2>2 DEF Found
    <3>2. QED
      BY <1>2, <1>3, <2>2, <3>1 DEF Frontier
  <2>3. QED
    BY <2>1, <2>2
<1>5. Frontier(g, at + n) = Frontier(f, at)
  BY <1>4 DEF Frontier
<1>6. ASSUME NEW p \in RunsOf(r, {"system"})
      PROVE  p < g.start \/ p >= at + n
  <2>1. p \in RunStarts(r) /\ p # at /\ p \in Nat
    BY <1>1, LayoutFacts DEF RunsOf
  <2>2. p < Frontier(f, at) \/ p >= at
    <3>1. CASE f.pages > 0
      BY <3>1 DEF Swept, Frontier
    <3>2. CASE ~(f.pages > 0)
      BY <1>3, <2>1, <3>2 DEF Frontier
    <3>3. QED
      BY <3>1, <3>2
  <2>3. QED
    BY <1>2, <1>3, <1>4, <2>1, <2>2
<1>7. Listed(r, {p \in RunsOf(r, {"free"}) : p < Frontier(g, at + n)})
  BY <1>1, <1>5
<1>8. Swept(r, g, at + n)
  BY <1>1, <1>2, <1>3, <1>4, <1>6, <1>7 DEF Swept
<1>9. QED
  BY <1>4, <1>5, <1>8

NoneFound == [start |-> 0, pages |-> 0]

(* FreePages::flush keeps what is not among the pages found. *)
AfterFlush(r, f, at, w) ==
  /\ Swept(w, NoneFound, at) /\ w.end = r.end /\ Capacity(w) = Capacity(r)
  /\ at <= r.end => w.header[at] = r.header[at]
  /\ \A p, c : ClassPage(r, p, c) /\ (p < Frontier(f, at) \/ p >= at) => ClassPage(w, p, c)

(* FreePages::flush lists the pages found as one free run. *)
LEMMA FlushSwept ==
  ASSUME NEW r, NEW f, NEW at, Swept(r, f, at), f.pages > 0,
         NEW w, w = Released(r, f.start, f.pages)
  PROVE  AfterFlush(r, f, at, w)
<1>1. PICK a, n : a = f.start /\ n = f.pages
  OBVIOUS
<1>2. /\ Layout(r) /\ StackRun(r) /\ at \in RunStarts(r) /\ a \in RunStarts(r) /\ a + n = at
      /\ n \in Nat \ {0} /\ Frontier(f, at) = a
      /\ Listed(r, {p \in RunsOf(r, {"free"}) : p < a})
      /\ \A p \in RunsOf(r, {"system"}) : p < a \/ p >= at
  BY <1>1 DEF Swept, Frontier
<1>3. PICK F : F = {p \in RunsOf(r, {"free"}) : p < a}
  OBVIOUS
<1>4. a \in Nat /\ at \in Nat /\ \A p \in RunStarts(r) : p \in Nat
  BY <1>2, LayoutFacts
<1>5. a \notin F
  BY <1>3, <1>4
<1>6. Freed(r, w, a, n, F)
  <2>1. a + n \in RunStarts(r) /\ Listed(r, F) /\ w = Released(r, a, n)
    BY <1>1, <1>2, <1>3
  <2>2. Freed(r, Released(r, a, n), a, n, F)
    BY <1>2, <1>5, <2>1, ReleasedFreed
  <2>3. QED
    BY <2>1, <2>2
<1>7. /\ Layout(w) /\ w.stack = r.stack /\ w.end = r.end
      /\ RunStarts(w) = RunStarts(r) \ (a + 1..a + n - 1)
      /\ Listed(w, F \cup {a}) /\ w.header[a].kind = "free"
      /\ \A p \in RunStarts(r) : p <= r.end /\ (p < a \/ p >= at) => w.header[p] = r.header[p]
  BY <1>2, <1>6 DEF Freed, Header
<1>8. \A p \in RunStarts(w) : p \in RunStarts(r) /\ p \in Nat /\ (p < a \/ p = a \/ p >= at)
  BY <1>2, <1>4, <1>7
<1>9. \A p \in RunStarts(r) : p < a \/ p >= at => p \in RunStarts(w)
  BY <1>2, <1>4, <1>7
<1>10. a \in RunStarts(w) /\ a <= w.end /\ a < at
  <2>1. a \in RunStarts(w)
    BY <1>2, <1>4, <1>7
  <2>2. at <= r.end + 1 /\ r.end \in Nat
    BY <1>2, LayoutFacts
  <2>3. QED
    BY <1>2, <1>4, <1>7, <2>1, <2>2
<1>11. {p \in RunsOf(w, {"free"}) : p < at} = F \cup {a}
  <2>1. ASSUME NEW p \in RunsOf(w, {"free"}), p < at
        PROVE  p \in F \cup {a}
    <3>1. p \in RunStarts(w) /\ p <= w.end /\ w.header[p].kind = "free"
      BY DEF RunsOf
    <3>2. CASE p = a
      BY <3>2
    <3>3. CASE p # a
      <4>1. p \in RunStarts(r) /\ p < a
        BY <1>4, <1>8, <2>1, <3>1, <3>3
      <4>2. w.header[p] = r.header[p] /\ p <= r.end
        BY <1>7, <3>1, <4>1
      <4>3. QED
        BY <1>3, <3>1, <4>1, <4>2 DEF RunsOf
    <3>4. QED
      BY <3>2, <3>3
  <2>2. ASSUME NEW p \in F \cup {a}
        PROVE  p \in RunsOf(w, {"free"}) /\ p < at
    <3>1. CASE p = a
      BY <1>7, <1>10, <3>1 DEF RunsOf
    <3>2. CASE p \in F
      <4>1. p \in RunStarts(r) /\ p <= r.end /\ r.header[p].kind = "free" /\ p < a /\ p \in Nat
        BY <1>3, <1>4, <3>2 DEF RunsOf
      <4>2. w.header[p] = r.header[p] /\ p \in RunStarts(w)
        BY <1>7, <1>9, <4>1
      <4>3. p < at
        BY <1>2, <1>4, <4>1
      <4>4. QED
        BY <1>7, <4>1, <4>2, <4>3 DEF RunsOf
    <3>3. QED
      BY <2>2, <3>1, <3>2
  <2>3. QED
    BY <2>1, <2>2
<1>12. RunsOf(w, {"system"}) = RunsOf(r, {"system"})
  <2>1. ASSUME NEW p \in RunsOf(w, {"system"})
        PROVE  p \in RunsOf(r, {"system"})
    <3>1. p \in RunStarts(w) /\ p <= r.end /\ w.header[p].kind = "system" /\ p # a
      BY <1>7 DEF RunsOf
    <3>2. p \in RunStarts(r) /\ w.header[p] = r.header[p]
      BY <1>7, <1>8, <3>1
    <3>3. QED
      BY <3>1, <3>2 DEF RunsOf
  <2>2. ASSUME NEW p \in RunsOf(r, {"system"})
        PROVE  p \in RunsOf(w, {"system"})
    <3>1. p \in RunStarts(r) /\ p <= r.end /\ r.header[p].kind = "system" /\ (p < a \/ p >= at)
      BY <1>2 DEF RunsOf
    <3>2. p \in RunStarts(w) /\ w.header[p] = r.header[p]
      BY <1>7, <1>9, <3>1
    <3>3. QED
      BY <1>7, <3>1, <3>2 DEF RunsOf
  <2>3. QED
    BY <2>1, <2>2
<1>13. Swept(w, NoneFound, at)
  <2>1. StackRun(w)
    BY <1>2, <1>7, <1>12 DEF StackRun
  <2>2. at \in RunStarts(w)
    BY <1>2, <1>4, <1>9
  <2>3. NoneFound \in [start: Nat, pages: Nat] /\ ~(NoneFound.pages > 0) /\ Frontier(NoneFound, at) = at
    BY DEF NoneFound, Frontier
  <2>4. Listed(w, {p \in RunsOf(w, {"free"}) : p < Frontier(NoneFound, at)})
    BY <1>7, <1>11, <2>3
  <2>5. QED
    BY <1>7, <2>1, <2>2, <2>3, <2>4 DEF Swept
<1>14. Capacity(w) = Capacity(r)
  <2>1. CASE r.stack = 0
    BY <1>7, <2>1 DEF Capacity
  <2>2. CASE r.stack # 0
    <3>1. r.stack \in RunsOf(r, {"system"})
      BY <1>2, <2>2 DEF StackRun
    <3>2. w.header[r.stack] = r.header[r.stack]
      BY <1>2, <1>7, <3>1 DEF RunsOf
    <3>3. QED
      BY <1>7, <2>2, <3>2 DEF Capacity
  <2>3. QED
    BY <2>1, <2>2
<1>15. at <= r.end => w.header[at] = r.header[at]
  BY <1>2, <1>4, <1>7
<1>16. ASSUME NEW p, NEW c, ClassPage(r, p, c), p < a \/ p >= at
       PROVE  ClassPage(w, p, c)
  <2>1. p \in RunStarts(r) /\ p <= r.end /\ r.header[p].kind = "class" /\ r.header[p].class = c
    BY <1>16 DEF ClassPage, RunsOf
  <2>2. p \in RunStarts(w) /\ w.header[p] = r.header[p]
    BY <1>7, <1>9, <1>16, <2>1
  <2>3. QED
    BY <1>7, <2>1, <2>2 DEF ClassPage, RunsOf
<1>17. QED
  BY <1>2, <1>7, <1>13, <1>14, <1>15, <1>16 DEF AfterFlush

(* The flush, with or without pages found. *)
LEMMA FlushedIs ==
  ASSUME Swept(runs, found, marker.at[1])
  PROVE  AfterFlush(runs, found, marker.at[1], Flushed(runs))
<1>1. PICK r, f, at, w : r = runs /\ f = found /\ at = marker.at[1] /\ w = Flushed(runs)
  OBVIOUS
<1>2. Swept(r, f, at)
  BY <1>1
<1>3. CASE f.pages > 0
  <2>1. w = Released(r, f.start, f.pages)
    BY <1>1, <1>3 DEF Flushed
  <2>2. AfterFlush(r, f, at, w)
    BY <1>2, <1>3, <2>1, FlushSwept
  <2>3. QED
    BY <1>1, <2>2
<1>4. CASE ~(f.pages > 0)
  <2>1. w = r
    BY <1>1, <1>4 DEF Flushed
  <2>2. Frontier(f, at) = at /\ Frontier(NoneFound, at) = at /\ ~(NoneFound.pages > 0)
        /\ NoneFound \in [start: Nat, pages: Nat]
    BY <1>4 DEF Frontier, NoneFound
  <2>3. Swept(w, NoneFound, at)
    BY <1>2, <2>1, <2>2 DEF Swept
  <2>4. AfterFlush(r, f, at, w)
    BY <2>1, <2>3 DEF AfterFlush
  <2>5. QED
    BY <1>1, <2>4
<1>5. QED
  BY <1>3, <1>4

(* The sweep passes a run that it keeps. *)
LEMMA RunPassed ==
  ASSUME NEW r, NEW at, Swept(r, NoneFound, at), at <= r.end, r.header[at].kind # "free",
         NEW n, n = r.header[at].pages
  PROVE  Swept(r, NoneFound, at + n) /\ n \in Nat \ {0} /\ at \in Nat
<1>1. /\ Layout(r) /\ StackRun(r) /\ at \in RunStarts(r) /\ ~(NoneFound.pages > 0)
      /\ \A q : Frontier(NoneFound, q) = q
      /\ NoneFound \in [start: Nat, pages: Nat]
  BY DEF Swept, NoneFound, Frontier
<1>2. Listed(r, {p \in RunsOf(r, {"free"}) : p < at})
  BY <1>1 DEF Swept
<1>3. /\ n \in Nat \ {0} /\ at + n \in RunStarts(r)
      /\ \A q \in RunStarts(r) : at < q => at + n <= q
  BY <1>1, NextStart
<1>4. \A p \in RunStarts(r) : p \in Nat
  BY <1>1, LayoutFacts
<1>5. {p \in RunsOf(r, {"free"}) : p < at + n} = {p \in RunsOf(r, {"free"}) : p < at}
  <2>1. ASSUME NEW p \in RunsOf(r, {"free"})
        PROVE  p < at + n <=> p < at
    <3>1. p \in RunStarts(r) /\ p # at
      BY DEF RunsOf
    <3>2. QED
      BY <1>1, <1>3, <1>4, <3>1
  <2>2. QED
    BY <2>1
<1>6. Listed(r, {p \in RunsOf(r, {"free"}) : p < Frontier(NoneFound, at + n)})
  BY <1>1, <1>2, <1>5
<1>7. QED
  BY <1>1, <1>3, <1>4, <1>6 DEF Swept

(* What a step of the sweep must keep. *)
SweptTo(r, cs, o, f, at) ==
  /\ Swept(r, f, at) /\ SweptCells(cs, f, at) /\ GoodCells(r, cs, o)
  /\ Capacity(r) = Capacity(runs)

(* A step of the sweep that keeps SweptTo for the next run keeps the       *)
(* invariant.                                                              *)
LEMMA SweepStep ==
  ASSUME IInv, pc = "sweep", NEW at, at = marker.at[1] + runs.header[marker.at[1]].pages,
         SweepNext, at \in Nat, SweptTo(runs', cells', objects', found', at),
         cells' \in CellsSet, objects' \subseteq Address, marked' \subseteq objects',
         fields' \in [Address -> [Field -> Reference]]
  PROVE  IInv'
<1>1. /\ pc' = "sweep" /\ UNCHANGED <<request, roots>>
      /\ marker' = [marker EXCEPT !.at = <<at, 0>>]
  BY DEF SweepNext, NextRun
<1>2. marker \in [stack: Seq(Address), overflowed: BOOLEAN, at: Nat \X Nat]
  BY DEF IInv, Typed
<1>3. /\ marker' \in [stack: Seq(Address), overflowed: BOOLEAN, at: Nat \X Nat]
      /\ marker'.stack = marker.stack /\ marker'.at[1] = at
  BY <1>1, <1>2
<1>4. /\ Swept(runs', found', at) /\ SweptCells(cells', found', at)
      /\ GoodCells(runs', cells', objects') /\ Capacity(runs') = Capacity(runs)
      /\ found' \in [start: Nat, pages: Nat]
  BY DEF SweptTo, Swept
<1>5. Typed'
  BY <1>1, <1>3, <1>4 DEF IInv, Typed
<1>6. RunsInv'
  BY <1>1, <1>3, <1>4 DEF IInv, RunsInv
<1>7. QED
  BY <1>4, <1>5, <1>6 DEF IInv

(* Where the sweep is. *)
SweepFacts(page) ==
  /\ pc = "sweep" /\ page = marker.at[1] /\ page <= runs.end /\ page \in Nat
  /\ Swept(runs, found, page) /\ SweptCells(cells, found, page)
  /\ GoodCells(runs, cells, objects)
  /\ page \in Page /\ runs.header[page].pages \in Nat \ {0}
  /\ \A q \in RunStarts(runs) : page < q => page + runs.header[page].pages <= q
  /\ page \in RunStarts(runs)

(* The sweep is at the start of a run. *)
LEMMA SweepAtIs ==
  ASSUME IInv, NEW kind, SweepAt(kind)
  PROVE  SweepFacts(marker.at[1]) /\ runs.header[marker.at[1]].kind = kind
<1>1. /\ pc = "sweep" /\ marker.at[1] <= runs.end /\ runs.header[marker.at[1]].kind = kind
  BY DEF SweepAt
<1>2. /\ Swept(runs, found, marker.at[1]) /\ SweptCells(cells, found, marker.at[1])
      /\ GoodCells(runs, cells, objects)
  BY <1>1 DEF IInv, RunsInv
<1>3. Layout(runs) /\ marker.at[1] \in RunStarts(runs)
  BY <1>2 DEF Swept
<1>4. QED
  BY <1>1, <1>2, <1>3, NextStart, LayoutFacts DEF SweepFacts

(* A step that adds the run to the pages found. *)
LEMMA AddIs ==
  ASSUME NEW page, SweepFacts(page), runs.header[page].kind # "system",
         NEW n, n = runs.header[page].pages, Add(page, n)
  PROVE  /\ runs' = runs /\ found' = Found(found, page, n)
         /\ Swept(runs, found', page + n) /\ Frontier(found', page + n) = Frontier(found, page)
         /\ found' \in [start: Nat, pages: Nat] /\ found'.pages > 0
<1>1. Swept(runs, found, page) /\ page <= runs.end
  BY DEF SweepFacts
<1>2. runs' = runs /\ found' = Found(found, page, n)
  <2>1. CASE found.pages > 0
    <3>1. found.start + found.pages = page
      BY <1>1, <2>1 DEF Swept
    <3>2. QED
      BY <2>1, <3>1 DEF Add, Found
  <2>2. CASE ~(found.pages > 0)
    BY <2>2 DEF Add, Found, Flushed
  <2>3. QED
    BY <2>1, <2>2
<1>3. PICK g : g = Found(found, page, n)
  OBVIOUS
<1>4. /\ Swept(runs, g, page + n) /\ Frontier(g, page + n) = Frontier(found, page)
      /\ g \in [start: Nat, pages: Nat] /\ g.pages > 0
  BY <1>1, <1>3, AddSwept
<1>5. QED
  BY <1>2, <1>3, <1>4

(* The lists and cursors after it. *)
LEMMA AddCells ==
  ASSUME NEW page, SweepFacts(page), NEW n, n = runs.header[page].pages,
         NEW g, Frontier(g, page + n) = Frontier(found, page), NEW cs,
         \A c \in Class : /\ cs[c].free = cells[c].free
                          /\ cs[c].cursor # Nil =>
                               cs[c].cursor = cells[c].cursor /\ cs[c].cursor[1] # page
  PROVE  SweptCells(cs, g, page + n)
<1>1. /\ Swept(runs, found, page) /\ SweptCells(cells, found, page) /\ page \in Nat
      /\ GoodCells(runs, cells, objects) /\ n \in Nat \ {0}
      /\ \A q \in RunStarts(runs) : page < q => page + n <= q
  BY DEF SweepFacts
<1>2. Layout(runs)
  BY <1>1 DEF Swept
<1>3. Frontier(found, page) \in Nat
  BY <1>1, FrontIs
<1>4. ASSUME NEW c \in Class, cs[c].cursor # Nil
      PROVE  cs[c].cursor[1] < Frontier(found, page) \/ cs[c].cursor[1] >= page + n
  <2>1. cs[c].cursor = cells[c].cursor /\ cs[c].cursor[1] # page
    BY <1>4
  <2>2. PICK p : p = cells[c].cursor[1]
    OBVIOUS
  <2>3. ClassPage(runs, p, c) /\ (p < Frontier(found, page) \/ p >= page)
    BY <1>1, <1>4, <2>1, <2>2 DEF GoodCells, SweptCells
  <2>4. p \in RunStarts(runs) /\ p \in Nat
    BY <1>2, <2>3, LayoutFacts DEF ClassPage, RunsOf
  <2>5. QED
    BY <1>1, <2>1, <2>2, <2>3, <2>4
<1>5. \A c \in Class : \A a \in ToSet(cs[c].free) : a[1] < Frontier(found, page)
  BY <1>1 DEF SweptCells
<1>6. QED
  BY <1>4, <1>5 DEF SweptCells

(* A step that releases the pages found and keeps the run. *)
LEMMA FlushIs ==
  ASSUME NEW page, SweepFacts(page), runs.header[page].kind # "free",
         NEW n, n = runs.header[page].pages, Flush
  PROVE  /\ Swept(runs', found', page + n) /\ found' = NoneFound
         /\ Capacity(runs') = Capacity(runs)
         /\ \A p, c : ClassPage(runs, p, c) /\ (p < Frontier(found, page) \/ p >= page)
                        => ClassPage(runs', p, c)
<1>1. Swept(runs, found, page) /\ page <= runs.end /\ page = marker.at[1]
  BY DEF SweepFacts
<1>2. runs' = Flushed(runs) /\ found' = NoneFound
  BY DEF Flush, NoneFound
<1>3. AfterFlush(runs, found, page, Flushed(runs))
  BY <1>1, FlushedIs
<1>4. PICK w : w = Flushed(runs)
  OBVIOUS
<1>5. /\ Swept(w, NoneFound, page) /\ w.end = runs.end /\ Capacity(w) = Capacity(runs)
      /\ w.header[page] = runs.header[page]
      /\ \A p, c : ClassPage(runs, p, c) /\ (p < Frontier(found, page) \/ p >= page)
                     => ClassPage(w, p, c)
  BY <1>1, <1>3, <1>4 DEF AfterFlush
<1>6. Swept(w, NoneFound, page + n)
  <2>1. n = w.header[page].pages /\ page <= w.end /\ w.header[page].kind # "free"
    BY <1>1, <1>5
  <2>2. QED
    BY <1>5, <2>1, RunPassed
<1>7. QED
  BY <1>2, <1>4, <1>5, <1>6

(* The cells do not notice it. *)
LEMMA FlushCells ==
  ASSUME NEW page, SweepFacts(page), NEW w,
         \A p, c : ClassPage(runs, p, c) /\ (p < Frontier(found, page) \/ p >= page)
                     => ClassPage(w, p, c)
  PROVE  GoodCells(w, cells, objects)
<1> SUFFICES ASSUME NEW c \in Class
             PROVE  /\ cells[c].cursor # Nil =>
                         /\ ClassPage(w, cells[c].cursor[1], c)
                         /\ cells[c].cursor[2] \in 1..CellsPerPage[c] - 1
                    /\ IsInjective(cells[c].free)
                    /\ \A a \in ToSet(cells[c].free) :
                         /\ ClassPage(w, a[1], c) /\ a[2] < LinkedPart(cells, a[1], c)
                         /\ a \notin objects
  BY DEF GoodCells
<1>1. /\ cells[c].cursor # Nil =>
           /\ ClassPage(runs, cells[c].cursor[1], c)
           /\ cells[c].cursor[2] \in 1..CellsPerPage[c] - 1
      /\ IsInjective(cells[c].free)
      /\ \A a \in ToSet(cells[c].free) :
           /\ ClassPage(runs, a[1], c) /\ a[2] < LinkedPart(cells, a[1], c) /\ a \notin objects
  BY DEF SweepFacts, GoodCells
<1>2. /\ \A a \in ToSet(cells[c].free) : a[1] < Frontier(found, page)
      /\ cells[c].cursor # Nil =>
           cells[c].cursor[1] < Frontier(found, page) \/ cells[c].cursor[1] >= page
  BY DEF SweepFacts, SweptCells
<1>3. QED
  BY <1>1, <1>2

(* After it every page before the next run is settled. *)
LEMMA FlushSweptCells ==
  ASSUME NEW page, SweepFacts(page), NEW n, n = runs.header[page].pages, NEW cs,
         \A c \in Class : cs[c].cursor = cells[c].cursor,
         \A c \in Class : \A a \in ToSet(cs[c].free) :
           a \in ToSet(cells[c].free) \/ a[1] = page
  PROVE  SweptCells(cs, NoneFound, page + n)
<1>1. /\ Swept(runs, found, page) /\ SweptCells(cells, found, page) /\ page \in Nat
      /\ GoodCells(runs, cells, objects) /\ n \in Nat \ {0}
  BY DEF SweepFacts
<1>2. Layout(runs) /\ Frontier(found, page) \in Nat /\ Frontier(found, page) <= page
  BY <1>1, FrontIs DEF Swept
<1>3. Frontier(NoneFound, page + n) = page + n
  BY DEF Frontier, NoneFound
<1>4. ASSUME NEW c \in Class, NEW a \in ToSet(cs[c].free)
      PROVE  a[1] < page + n
  <2>1. CASE a[1] = page
    BY <1>1, <2>1
  <2>2. CASE a \in ToSet(cells[c].free)
    <3>1. ClassPage(runs, a[1], c) /\ a[1] < Frontier(found, page)
      BY <1>1, <2>2 DEF GoodCells, SweptCells
    <3>2. a[1] \in Nat
      BY <1>2, <3>1, LayoutFacts DEF ClassPage, RunsOf
    <3>3. QED
      BY <1>1, <1>2, <3>1, <3>2
  <2>3. QED
    BY <2>1, <2>2
<1>5. ASSUME NEW c \in Class, cs[c].cursor # Nil
      PROVE  cs[c].cursor[1] < page + n \/ cs[c].cursor[1] >= page + n
  <2>1. ClassPage(runs, cs[c].cursor[1], c)
    BY <1>1, <1>5 DEF GoodCells
  <2>2. cs[c].cursor[1] \in Nat
    BY <1>2, <2>1, LayoutFacts DEF ClassPage, RunsOf
  <2>3. QED
    BY <1>1, <2>2
<1>6. QED
  BY <1>3, <1>4, <1>5 DEF SweptCells

(* Fewer objects, or a cursor that no listed cell depends on. *)
LEMMA FewerCells ==
  ASSUME NEW r, NEW cs, NEW o, GoodCells(r, cs, o), NEW ds, NEW q, q \subseteq o,
         \A c \in Class :
           /\ ds[c].free = cs[c].free
           /\ \/ ds[c].cursor = cs[c].cursor
              \/ /\ ds[c].cursor = Nil
                 /\ \A a \in ToSet(cs[c].free) : a[1] # cs[c].cursor[1]
  PROVE  GoodCells(r, ds, q)
<1> SUFFICES ASSUME NEW c \in Class
             PROVE  /\ ds[c].cursor # Nil =>
                         /\ ClassPage(r, ds[c].cursor[1], c)
                         /\ ds[c].cursor[2] \in 1..CellsPerPage[c] - 1
                    /\ IsInjective(ds[c].free)
                    /\ \A a \in ToSet(ds[c].free) :
                         ClassPage(r, a[1], c) /\ a[2] < LinkedPart(ds, a[1], c) /\ a \notin q
  BY DEF GoodCells
<1>1. /\ cs[c].cursor # Nil =>
           ClassPage(r, cs[c].cursor[1], c) /\ cs[c].cursor[2] \in 1..CellsPerPage[c] - 1
      /\ IsInjective(cs[c].free)
      /\ \A a \in ToSet(cs[c].free) :
           ClassPage(r, a[1], c) /\ a[2] < LinkedPart(cs, a[1], c) /\ a \notin o
  BY DEF GoodCells
<1>2. ds[c].free = cs[c].free
  OBVIOUS
<1>3. ASSUME NEW a \in ToSet(cs[c].free)
      PROVE  LinkedPart(ds, a[1], c) = LinkedPart(cs, a[1], c)
  <2>1. CASE ds[c].cursor = cs[c].cursor
    BY <2>1 DEF LinkedPart
  <2>2. CASE ds[c].cursor = Nil /\ a[1] # cs[c].cursor[1]
    BY <2>2 DEF LinkedPart
  <2>3. QED
    BY <2>1, <2>2
<1>4. ds[c].cursor # Nil => ds[c].cursor = cs[c].cursor
  OBVIOUS
<1>5. QED
  BY <1>1, <1>2, <1>3, <1>4

(* What is gone leaves the objects. *)
LEMMA GoneTyped ==
  ASSUME IInv, NEW dead, Gone(dead)
  PROVE  /\ objects' = objects \ dead /\ objects' \subseteq Address
         /\ fields' \in [Address -> [Field -> Reference]]
<1>1. objects \subseteq Address /\ fields \in [Address -> [Field -> Reference]]
  BY DEF IInv, Typed
<1>2. NoFields \in [Field -> Reference]
  BY DEF NoFields, Reference
<1>3. QED
  BY <1>1, <1>2 DEF Gone

(* The sweep of a free run. *)
LEMMA SweepFreeKeeps ==
  ASSUME IInv, SweepFree
  PROVE  IInv'
<1>1. PICK page, n : page = marker.at[1] /\ n = runs.header[page].pages
  OBVIOUS
<1>2. SweepFacts(page) /\ runs.header[page].kind = "free"
  BY <1>1, SweepAtIs DEF SweepFree
<1>3. Add(page, n) /\ UNCHANGED <<cells, objects, marked, fields>> /\ SweepNext
  BY <1>1 DEF SweepFree
<1>4. /\ runs' = runs /\ Swept(runs, found', page + n)
      /\ Frontier(found', page + n) = Frontier(found, page)
  BY <1>1, <1>2, <1>3, AddIs
<1>5. GoodCells(runs, cells, objects)
  BY <1>2 DEF SweepFacts
<1>6. SweptCells(cells, found', page + n)
  <2>1. ASSUME NEW c \in Class, cells[c].cursor # Nil
        PROVE  cells[c].cursor[1] # page
    <3>1. ClassPage(runs, cells[c].cursor[1], c)
      BY <1>5, <2>1 DEF GoodCells
    <3>2. QED
      BY <1>2, <3>1 DEF ClassPage, RunsOf
  <2>2. QED
    BY <1>1, <1>2, <1>4, <2>1, AddCells
<1>7. SweptTo(runs', cells', objects', found', page + n)
  BY <1>3, <1>4, <1>5, <1>6 DEF SweptTo
<1>8. /\ page + n \in Nat /\ pc = "sweep" /\ cells' \in CellsSet /\ objects' \subseteq Address
      /\ marked' \subseteq objects' /\ fields' \in [Address -> [Field -> Reference]]
  BY <1>1, <1>2, <1>3 DEF SweepFacts, IInv, Typed
<1>9. QED
  BY <1>1, <1>3, <1>7, <1>8, SweepStep

(* The sweep of the mark stack's run. *)
LEMMA SweepSystemKeeps ==
  ASSUME IInv, SweepSystem
  PROVE  IInv'
<1>1. PICK page, n : page = marker.at[1] /\ n = runs.header[page].pages
  OBVIOUS
<1>2. SweepFacts(page) /\ runs.header[page].kind # "free"
  BY <1>1, SweepAtIs DEF SweepSystem
<1>3. Flush /\ UNCHANGED <<cells, objects, marked, fields>> /\ SweepNext
  BY DEF SweepSystem
<1>4. /\ Swept(runs', found', page + n) /\ found' = NoneFound /\ Capacity(runs') = Capacity(runs)
      /\ \A p, c : ClassPage(runs, p, c) /\ (p < Frontier(found, page) \/ p >= page)
                     => ClassPage(runs', p, c)
  BY <1>1, <1>2, <1>3, FlushIs
<1>5. GoodCells(runs', cells, objects)
  BY <1>2, <1>4, FlushCells
<1>6. SweptCells(cells, found', page + n)
  BY <1>1, <1>2, <1>4, FlushSweptCells
<1>7. SweptTo(runs', cells', objects', found', page + n)
  BY <1>3, <1>4, <1>5, <1>6 DEF SweptTo
<1>8. /\ page + n \in Nat /\ pc = "sweep" /\ cells' \in CellsSet /\ objects' \subseteq Address
      /\ marked' \subseteq objects' /\ fields' \in [Address -> [Field -> Reference]]
  BY <1>1, <1>2, <1>3 DEF SweepFacts, IInv, Typed
<1>9. QED
  BY <1>1, <1>3, <1>7, <1>8, SweepStep

(* The sweep of a large object. *)
LEMMA SweepLargeKeeps ==
  ASSUME IInv, SweepLarge
  PROVE  IInv'
<1>1. PICK page, n : page = marker.at[1] /\ n = runs.header[page].pages
  OBVIOUS
<1>2. SweepFacts(page) /\ runs.header[page].kind = "large"
  BY <1>1, SweepAtIs DEF SweepLarge
<1>3. PICK a : a = <<page, 0>>
  OBVIOUS
<1>4. UNCHANGED cells /\ SweepNext
  BY DEF SweepLarge
<1>5. /\ page + n \in Nat /\ pc = "sweep" /\ cells' \in CellsSet /\ marked \subseteq objects
      /\ GoodCells(runs, cells, objects)
  BY <1>1, <1>2, <1>4 DEF SweepFacts, IInv, Typed
<1>6. CASE a \in marked
  <2>1. marked' = marked \ {a} /\ Flush /\ Gone({})
    BY <1>1, <1>3, <1>6 DEF SweepLarge
  <2>2. /\ Swept(runs', found', page + n) /\ found' = NoneFound /\ Capacity(runs') = Capacity(runs)
        /\ \A p, c : ClassPage(runs, p, c) /\ (p < Frontier(found, page) \/ p >= page)
                       => ClassPage(runs', p, c)
    BY <1>1, <1>2, <2>1, FlushIs
  <2>3. GoodCells(runs', cells, objects)
    BY <1>2, <2>2, FlushCells
  <2>4. SweptCells(cells, found', page + n)
    BY <1>1, <1>2, <2>2, FlushSweptCells
  <2>5. /\ objects' = objects \ {} /\ objects' \subseteq Address
        /\ fields' \in [Address -> [Field -> Reference]]
    BY <2>1, GoneTyped
  <2>6. objects' = objects
    BY <2>5
  <2>7. SweptTo(runs', cells', objects', found', page + n)
    BY <1>4, <2>2, <2>3, <2>4, <2>6 DEF SweptTo
  <2>8. marked' \subseteq objects'
    BY <1>5, <2>1, <2>6
  <2>9. QED
    BY <1>1, <1>4, <1>5, <2>5, <2>7, <2>8, SweepStep
<1>7. CASE a \notin marked
  <2>1. Add(page, n) /\ Gone({a}) /\ marked' = marked
    BY <1>1, <1>3, <1>7 DEF SweepLarge
  <2>2. /\ runs' = runs /\ Swept(runs, found', page + n)
        /\ Frontier(found', page + n) = Frontier(found, page)
    BY <1>1, <1>2, <2>1, AddIs
  <2>3. /\ objects' = objects \ {a} /\ objects' \subseteq Address
        /\ fields' \in [Address -> [Field -> Reference]]
    BY <2>1, GoneTyped
  <2>4. GoodCells(runs, cells, objects')
    BY <1>5, <2>3, FewerCells
  <2>5. SweptCells(cells, found', page + n)
    <3>1. ASSUME NEW c \in Class, cells[c].cursor # Nil
          PROVE  cells[c].cursor[1] # page
      <4>1. ClassPage(runs, cells[c].cursor[1], c)
        BY <1>5, <3>1 DEF GoodCells
      <4>2. QED
        BY <1>2, <4>1 DEF ClassPage, RunsOf
    <3>2. QED
      BY <1>1, <1>2, <2>2, <3>1, AddCells
  <2>6. SweptTo(runs', cells', objects', found', page + n)
    BY <1>4, <2>2, <2>4, <2>5 DEF SweptTo
  <2>7. marked' \subseteq objects'
    BY <1>5, <1>7, <2>1, <2>3
  <2>8. QED
    BY <1>1, <1>4, <1>5, <2>3, <2>6, <2>7, SweepStep
<1>8. QED
  BY <1>6, <1>7

(* A class page is one page, of a class, and its used cells are addresses. *)
LEMMA ClassRun ==
  ASSUME IInv, NEW page, SweepFacts(page), runs.header[page].kind = "class",
         NEW c, c = runs.header[page].class
  PROVE  /\ c \in Class /\ runs.header[page].pages = 1 /\ ClassPage(runs, page, c)
         /\ UsedCells(page, c) \in Nat /\ UsedCells(page, c) <= CellsPerPage[c]
         /\ UsedCells(page, c) = LinkedPart(cells, page, c)
         /\ CellsOf(page, CellsPerPage[c]) \subseteq Address
         /\ CellsOf(page, UsedCells(page, c)) \subseteq Address
<1>1. /\ Swept(runs, found, page) /\ GoodCells(runs, cells, objects) /\ page <= runs.end
      /\ page \in Page /\ page \in RunStarts(runs)
  BY DEF SweepFacts
<1>2. c \in Class /\ runs.header[page].pages = 1
  BY <1>1 DEF Swept, Layout
<1>3. ClassPage(runs, page, c)
  BY <1>1 DEF ClassPage, RunsOf
<1>4. CellsPerPage[c] \in Nat \ {0}
  BY <1>2, HeapAssumption
<1>5. PICK used : used = UsedCells(page, c)
  OBVIOUS
<1>6. used = LinkedPart(cells, page, c)
  BY <1>5 DEF UsedCells, LinkedPart
<1>7. used \in Nat /\ used <= CellsPerPage[c]
  <2>1. CASE cells[c].cursor # Nil /\ cells[c].cursor[1] = page
    <3>1. used = cells[c].cursor[2] /\ cells[c].cursor[2] \in 1..CellsPerPage[c] - 1
      BY <1>1, <1>2, <1>6, <2>1 DEF GoodCells, LinkedPart
    <3>2. QED
      BY <1>4, <3>1
  <2>2. CASE ~(cells[c].cursor # Nil /\ cells[c].cursor[1] = page)
    <3>1. used = CellsPerPage[c]
      BY <1>6, <2>2 DEF LinkedPart
    <3>2. QED
      BY <1>4, <3>1
  <2>3. QED
    BY <2>1, <2>2
<1>8. CellsOf(page, CellsPerPage[c]) \subseteq Address
  BY <1>1, <1>2, CellAddress DEF CellsOf
<1>9. CellsOf(page, used) \subseteq Address
  <2>1. \A i \in 0..used - 1 : <<page, i>> \in Address
    BY <1>1, <1>2, <1>4, <1>7, CellAddress
  <2>2. QED
    BY <2>1 DEF CellsOf
<1>10. QED
  BY <1>2, <1>3, <1>5, <1>6, <1>7, <1>8, <1>9

(* The classes without a cursor on the page, and with more free cells. *)
NoCursorOn(cs, c, page, ds) ==
  ds = [cs EXCEPT ![c].cursor = IF @ # Nil /\ @[1] = page THEN Nil ELSE @]

MoreFree(cs, c, list, ds) == ds = [cs EXCEPT ![c].free = list \o @]

(* A cursor on the page is dropped, the lists stay. *)
LEMMA CursorDropped ==
  ASSUME NEW cs \in CellsSet, NEW c \in Class, NEW page, NEW ds,
         NoCursorOn(cs, c, page, ds)
  PROVE  /\ ds \in CellsSet
         /\ \A d \in Class :
              /\ ds[d].free = cs[d].free
              /\ d # c => ds[d].cursor = cs[d].cursor
              /\ d = c => ds[d].cursor = IF cs[c].cursor # Nil /\ cs[c].cursor[1] = page THEN Nil
                                         ELSE cs[c].cursor
<1>1. PICK cursor : cursor = IF cs[c].cursor # Nil /\ cs[c].cursor[1] = page THEN Nil
                             ELSE cs[c].cursor
  OBVIOUS
<1>2. cursor \in Reference /\ cs[c] \in [free: Seq(Address), cursor: Reference]
  BY <1>1 DEF CellsSet, Reference
<1>3. PICK one : one = [cs[c] EXCEPT !.cursor = cursor]
  OBVIOUS
<1>4. /\ one \in [free: Seq(Address), cursor: Reference]
      /\ one.free = cs[c].free /\ one.cursor = cursor
  BY <1>2, <1>3
<1>5. ds = [cs EXCEPT ![c] = one]
  BY <1>1, <1>3 DEF NoCursorOn
<1>6. /\ ds \in CellsSet /\ ds[c] = one
      /\ \A d \in Class : d # c => ds[d] = cs[d]
  BY <1>4, <1>5 DEF CellsSet
<1>7. QED
  BY <1>1, <1>4, <1>6

(* Cells of one class page that are in no list go to the list of the class *)
(* and are no longer objects.                                              *)
LEMMA CellsListed ==
  ASSUME NEW w, NEW cs \in CellsSet, NEW o, GoodCells(w, cs, o), NEW c \in Class,
         NEW page, ClassPage(w, page, c), NEW list \in Seq(Address), IsInjective(list),
         \A a \in ToSet(list) : a[1] = page /\ a[2] < LinkedPart(cs, page, c),
         ToSet(list) \cap ToSet(cs[c].free) = {},
         NEW ds, MoreFree(cs, c, list, ds)
  PROVE  /\ ds \in CellsSet /\ GoodCells(w, ds, o \ ToSet(list))
         /\ \A d \in Class :
              /\ ds[d].cursor = cs[d].cursor
              /\ \A a \in ToSet(ds[d].free) : a \in ToSet(cs[d].free) \/ a \in ToSet(list)
<1>1. PICK old \in Seq(Address) : old = cs[c].free
  BY DEF CellsSet
<1>2. PICK both : both = list \o old
  OBVIOUS
<1>3. IsInjective(old) /\ ToSet(list) \cap ToSet(old) = {}
  BY <1>1 DEF GoodCells
<1>4. both \in Seq(Address) /\ IsInjective(both) /\ ToSet(both) = ToSet(list) \cup ToSet(old)
  BY ONLY <1>2, <1>3, IsInjective(list), list \in Seq(Address), old \in Seq(Address), PrependedIs
<1>5. PICK one : one = [cs[c] EXCEPT !.free = both]
  OBVIOUS
<1>6. /\ one \in [free: Seq(Address), cursor: Reference]
      /\ one.free = both /\ one.cursor = cs[c].cursor
  BY <1>4, <1>5 DEF CellsSet
<1>7. ds = [cs EXCEPT ![c] = one]
  BY <1>1, <1>2, <1>5 DEF MoreFree
<1>8. /\ ds \in CellsSet /\ ds[c] = one
      /\ \A d \in Class : d # c => ds[d] = cs[d]
  BY <1>6, <1>7 DEF CellsSet
<1>9. /\ ds[c].free = both
      /\ \A d \in Class : ds[d].cursor = cs[d].cursor /\ (d # c => ds[d].free = cs[d].free)
  BY <1>6, <1>8
<1>10. \A p : \A d \in Class : LinkedPart(ds, p, d) = LinkedPart(cs, p, d)
  BY <1>9 DEF LinkedPart
<1>11. ASSUME NEW d \in Class
       PROVE  /\ ds[d].cursor # Nil =>
                   ClassPage(w, ds[d].cursor[1], d) /\ ds[d].cursor[2] \in 1..CellsPerPage[d] - 1
              /\ IsInjective(ds[d].free)
              /\ \A b \in ToSet(ds[d].free) :
                   /\ ClassPage(w, b[1], d) /\ b[2] < LinkedPart(ds, b[1], d)
                   /\ b \notin o \ ToSet(list)
  <2>1. /\ cs[d].cursor # Nil =>
             ClassPage(w, cs[d].cursor[1], d) /\ cs[d].cursor[2] \in 1..CellsPerPage[d] - 1
        /\ IsInjective(cs[d].free)
        /\ \A b \in ToSet(cs[d].free) :
             ClassPage(w, b[1], d) /\ b[2] < LinkedPart(cs, b[1], d) /\ b \notin o
    BY DEF GoodCells
  <2>2. ds[d].cursor # Nil =>
          ClassPage(w, ds[d].cursor[1], d) /\ ds[d].cursor[2] \in 1..CellsPerPage[d] - 1
    BY <1>9, <2>1
  <2>3. CASE d # c
    <3>1. ds[d].free = cs[d].free
      BY <1>9, <2>3
    <3>2. \A b \in ToSet(cs[d].free) :
            /\ ClassPage(w, b[1], d) /\ b[2] < LinkedPart(ds, b[1], d)
            /\ b \notin o \ ToSet(list)
      BY <1>10, <2>1
    <3>3. QED
      BY <2>1, <2>2, <3>1, <3>2
  <2>4. CASE d = c
    <3>1. ASSUME NEW b \in ToSet(list)
          PROVE  ClassPage(w, b[1], c) /\ b[2] < LinkedPart(ds, b[1], c) /\ b \notin o \ ToSet(list)
      <4>1. b[1] = page /\ b[2] < LinkedPart(cs, page, c)
        OBVIOUS
      <4>2. LinkedPart(ds, b[1], c) = LinkedPart(cs, page, c)
        BY <1>10, <4>1
      <4>3. QED
        BY <4>1, <4>2
    <3>2. ASSUME NEW b \in ToSet(old)
          PROVE  ClassPage(w, b[1], c) /\ b[2] < LinkedPart(ds, b[1], c) /\ b \notin o \ ToSet(list)
      <4>1. ClassPage(w, b[1], c) /\ b[2] < LinkedPart(cs, b[1], c) /\ b \notin o
        BY <1>1, <2>1, <2>4
      <4>2. LinkedPart(ds, b[1], c) = LinkedPart(cs, b[1], c)
        BY <1>10
      <4>3. QED
        BY <4>1, <4>2
    <3>3. \A b \in ToSet(both) : b \in ToSet(list) \/ b \in ToSet(old)
      BY <1>4
    <3>4. QED
      BY <1>4, <1>9, <2>2, <2>4, <3>1, <3>2, <3>3
  <2>5. QED
    BY <2>3, <2>4
<1>12. GoodCells(w, ds, o \ ToSet(list))
  BY <1>11 DEF GoodCells
<1>13. ASSUME NEW d \in Class, NEW a \in ToSet(ds[d].free)
       PROVE  a \in ToSet(cs[d].free) \/ a \in ToSet(list)
  <2>1. CASE d = c
    BY <1>1, <1>4, <1>9, <2>1
  <2>2. CASE d # c
    BY <1>9, <2>2
  <2>3. QED
    BY <2>1, <2>2
<1>14. QED
  BY <1>8, <1>9, <1>12, <1>13

(* The two ends of sweep_class_page. *)
PageFreed(page, c) ==
  /\ Add(page, 1)
  /\ NoCursorOn(cells, c, page, cells')
  /\ Gone(CellsOf(page, CellsPerPage[c]))
  /\ marked' = marked \ CellsOf(page, CellsPerPage[c])

Live(page, c) == CellsOf(page, UsedCells(page, c)) \cap marked
DeadCells(page, c) == Dead(page, UsedCells(page, c), Live(page, c))

CellsFreed(page, c) ==
  /\ Flush
  /\ MoreFree(cells, c, DeadCells(page, c), cells')
  /\ Gone(ToSet(DeadCells(page, c)))
  /\ marked' = marked \ Live(page, c)

(* The sweep is at a page of the class. *)
AtClassPage(page, c) ==
  /\ SweepFacts(page) /\ SweepNext
  /\ runs.header[page].kind = "class" /\ runs.header[page].class = c

(* What holds there. *)
LEMMA AtClassPageIs ==
  ASSUME IInv, NEW page, NEW c, AtClassPage(page, c)
  PROVE  /\ c \in Class /\ runs.header[page].pages = 1 /\ ClassPage(runs, page, c)
         /\ cells \in CellsSet /\ marked \subseteq objects /\ GoodCells(runs, cells, objects)
         /\ SweptCells(cells, found, page) /\ page \in Nat /\ page + 1 \in Nat
         /\ pc = "sweep" /\ Frontier(found, page) <= page /\ Frontier(found, page) \in Nat
<1>1. /\ SweepFacts(page) /\ runs.header[page].kind = "class" /\ runs.header[page].class = c
  BY DEF AtClassPage
<1>2. c \in Class /\ runs.header[page].pages = 1 /\ ClassPage(runs, page, c)
  BY <1>1, ClassRun
<1>3. /\ cells \in CellsSet /\ marked \subseteq objects
  BY DEF IInv, Typed
<1>4. /\ Swept(runs, found, page) /\ GoodCells(runs, cells, objects)
      /\ SweptCells(cells, found, page) /\ page \in Nat /\ pc = "sweep"
  BY <1>1 DEF SweepFacts
<1>5. Frontier(found, page) <= page /\ Frontier(found, page) \in Nat
  BY <1>4, FrontIs
<1>6. QED
  BY <1>2, <1>3, <1>4, <1>5

(* It goes on to the page after it. *)
LEMMA ClassPagePassed ==
  ASSUME IInv, NEW page, NEW c, AtClassPage(page, c),
         SweptTo(runs', cells', objects', found', page + 1), cells' \in CellsSet,
         objects' \subseteq Address, marked' \subseteq objects',
         fields' \in [Address -> [Field -> Reference]]
  PROVE  IInv'
<1>1. PICK at \in Nat : at = page + 1
  BY AtClassPageIs
<1>2. page = marker.at[1] /\ SweepNext /\ pc = "sweep"
  BY DEF AtClassPage, SweepFacts
<1>3. runs.header[page].pages = 1
  BY AtClassPageIs
<1>4. at = marker.at[1] + runs.header[marker.at[1]].pages
  BY <1>1, <1>2, <1>3
<1>5. SweptTo(runs', cells', objects', found', at)
  BY <1>1
<1>6. QED
  BY <1>2, <1>4, <1>5, SweepStep

(* A page without a live cell is free again. *)
LEMMA SweepEmptyPage ==
  ASSUME IInv, NEW page, NEW c, AtClassPage(page, c), PageFreed(page, c)
  PROVE  IInv'
<1>1. /\ c \in Class /\ runs.header[page].pages = 1 /\ ClassPage(runs, page, c)
      /\ cells \in CellsSet /\ marked \subseteq objects /\ GoodCells(runs, cells, objects)
      /\ SweptCells(cells, found, page) /\ page \in Nat
      /\ Frontier(found, page) <= page /\ Frontier(found, page) \in Nat
  BY AtClassPageIs
<1>2. SweepFacts(page) /\ runs.header[page].kind # "system"
  BY DEF AtClassPage
<1>3. PICK n : n = runs.header[page].pages
  OBVIOUS
<1>4. n = 1 /\ Add(page, n)
  BY <1>1, <1>3 DEF PageFreed
<1>5. /\ runs' = runs /\ Swept(runs, found', page + n)
      /\ Frontier(found', page + n) = Frontier(found, page)
  BY <1>2, <1>3, <1>4, AddIs
<1>6. PICK cs, ds, all : cs = cells /\ ds = cells' /\ all = CellsOf(page, CellsPerPage[c])
  OBVIOUS
<1>7. /\ Gone(all) /\ marked' = marked \ all
      /\ NoCursorOn(cs, c, page, ds)
  BY <1>6 DEF PageFreed
<1>8. /\ ds \in CellsSet
      /\ \A d \in Class :
           /\ ds[d].free = cs[d].free
           /\ d # c => ds[d].cursor = cs[d].cursor
           /\ d = c => ds[d].cursor = IF cs[c].cursor # Nil /\ cs[c].cursor[1] = page THEN Nil
                                      ELSE cs[c].cursor
  <2>1. cs \in CellsSet /\ c \in Class
    BY <1>1, <1>6
  <2>2. QED
    BY ONLY <1>7, <2>1, CursorDropped
<1>9. /\ objects' = objects \ all /\ objects' \subseteq Address
      /\ fields' \in [Address -> [Field -> Reference]]
  BY <1>7, GoneTyped
<1>10. PICK r, o : r = runs /\ o = objects
  OBVIOUS
<1>11. GoodCells(r, cs, o) /\ SweptCells(cs, found, page) /\ ClassPage(r, page, c)
  BY <1>1, <1>6, <1>10
<1>12. PICK front \in Nat : front = Frontier(found, page)
  BY <1>1
<1>13. \A a \in ToSet(cs[c].free) : a[1] < front /\ a[1] # page
  BY <1>1, <1>11, <1>12 DEF SweptCells
<1>14. \A d \in Class : d # c /\ cs[d].cursor # Nil => cs[d].cursor[1] # page
  BY <1>11 DEF GoodCells, ClassPage
<1>15. \A d \in Class :
         /\ ds[d].free = cs[d].free
         /\ \/ ds[d].cursor = cs[d].cursor
            \/ /\ ds[d].cursor = Nil
               /\ \A a \in ToSet(cs[d].free) : a[1] # cs[d].cursor[1]
  <2> SUFFICES ASSUME NEW d \in Class
               PROVE  \/ ds[d].cursor = cs[d].cursor
                      \/ /\ ds[d].cursor = Nil
                         /\ \A a \in ToSet(cs[d].free) : a[1] # cs[d].cursor[1]
    BY <1>8
  <2>1. CASE d # c
    BY <1>8, <2>1
  <2>2. CASE d = c /\ cs[c].cursor # Nil /\ cs[c].cursor[1] = page
    BY <1>8, <1>13, <2>2
  <2>3. CASE d = c /\ ~(cs[c].cursor # Nil /\ cs[c].cursor[1] = page)
    BY <1>8, <2>3
  <2>4. QED
    BY <2>1, <2>2, <2>3
<1>16. \A d \in Class :
         /\ ds[d].free = cs[d].free
         /\ ds[d].cursor # Nil => ds[d].cursor = cs[d].cursor /\ ds[d].cursor[1] # page
  <2> SUFFICES ASSUME NEW d \in Class, ds[d].cursor # Nil
               PROVE  ds[d].cursor = cs[d].cursor /\ ds[d].cursor[1] # page
    BY <1>8
  <2>1. CASE d # c
    BY <1>8, <1>14, <2>1
  <2>2. CASE d = c
    BY <1>8, <2>2
  <2>3. QED
    BY <2>1, <2>2
<1>17. GoodCells(r, ds, o \ all)
  <2>1. PICK q : q = o \ all
    OBVIOUS
  <2>2. q \subseteq o
    BY <2>1
  <2>3. GoodCells(r, ds, q)
    BY ONLY <1>11, <1>15, <2>2, FewerCells
  <2>4. QED
    BY <2>1, <2>3
<1>18. SweptCells(ds, found', page + n)
  <2>1. PICK g : g = found'
    OBVIOUS
  <2>2. Frontier(g, page + n) = Frontier(found, page)
    BY <1>5, <2>1
  <2>3. SweptCells(ds, g, page + n)
    BY <1>2, <1>3, <1>6, <1>16, <2>2, AddCells
  <2>4. QED
    BY <2>1, <2>3
<1>19. SweptTo(runs', cells', objects', found', page + 1)
  BY <1>4, <1>5, <1>6, <1>9, <1>10, <1>17, <1>18 DEF SweptTo
<1>20. marked' \subseteq objects' /\ cells' \in CellsSet
  BY <1>1, <1>6, <1>7, <1>8, <1>9
<1>21. QED
  BY <1>9, <1>19, <1>20, ClassPagePassed

(* The cells that are not live go to the list. *)
LEMMA SweepUsedPage ==
  ASSUME IInv, NEW page, NEW c, AtClassPage(page, c), CellsFreed(page, c)
  PROVE  IInv'
<1>1. /\ c \in Class /\ runs.header[page].pages = 1 /\ ClassPage(runs, page, c)
      /\ cells \in CellsSet /\ marked \subseteq objects /\ GoodCells(runs, cells, objects)
      /\ SweptCells(cells, found, page) /\ page \in Nat
      /\ Frontier(found, page) <= page /\ Frontier(found, page) \in Nat
  BY AtClassPageIs
<1>2. /\ SweepFacts(page) /\ runs.header[page].kind = "class" /\ runs.header[page].kind # "free"
      /\ runs.header[page].class = c
  BY DEF AtClassPage
<1>3. PICK used, live, dead : used = UsedCells(page, c) /\ live = Live(page, c) /\ dead = DeadCells(page, c)
  OBVIOUS
<1>4. live = CellsOf(page, used) \cap marked /\ dead = Dead(page, used, live)
  BY <1>3 DEF Live, DeadCells
<1>5. used \in Nat /\ used = LinkedPart(cells, page, c) /\ CellsOf(page, used) \subseteq Address
  BY <1>2, <1>3, ClassRun
<1>6. dead \in Seq(Address) /\ IsInjective(dead) /\ ToSet(dead) = CellsOf(page, used) \ live
  <2>1. PICK d : d = Dead(page, used, live)
    OBVIOUS
  <2>2. d \in Seq(Address) /\ IsInjective(d) /\ ToSet(d) = CellsOf(page, used) \ live
    BY ONLY <1>5, <2>1, DeadIs, Zenon
  <2>3. QED
    BY <1>4, <2>1, <2>2
<1>7. /\ Flush /\ Gone(ToSet(dead)) /\ marked' = marked \ live
      /\ MoreFree(cells, c, dead, cells')
  BY <1>3 DEF CellsFreed
<1>8. PICK n : n = runs.header[page].pages
  OBVIOUS
<1>9. PICK w : w = runs'
  OBVIOUS
<1>10. /\ Swept(w, found', page + n) /\ found' = NoneFound /\ Capacity(w) = Capacity(runs)
       /\ \A p, d : ClassPage(runs, p, d) /\ (p < Frontier(found, page) \/ p >= page)
                      => ClassPage(w, p, d)
  BY <1>2, <1>7, <1>8, <1>9, FlushIs
<1>11. GoodCells(w, cells, objects)
  BY <1>2, <1>10, FlushCells
<1>12. ClassPage(w, page, c)
  <2>1. page >= page
    BY <1>1
  <2>2. QED
    BY <1>1, <1>10, <2>1, Zenon
<1>13. \A a \in ToSet(dead) : a[1] = page /\ a[2] < used
  <2>1. \A a \in CellsOf(page, used) : a[1] = page /\ a[2] < used
    BY <1>5 DEF CellsOf
  <2>2. QED
    BY <1>6, <2>1
<1>14. PICK cs, ds, o : cs = cells /\ ds = cells' /\ o = objects
  OBVIOUS
<1>15. ToSet(dead) \cap ToSet(cs[c].free) = {}
  <2>1. PICK front \in Nat : front = Frontier(found, page)
    BY <1>1
  <2>2. \A a \in ToSet(cs[c].free) : a[1] < front
    BY <1>1, <1>14, <2>1 DEF SweptCells
  <2>3. \A a \in ToSet(cs[c].free) : a[1] # page
    BY <1>1, <2>1, <2>2
  <2>4. QED
    BY <1>13, <2>3
<1>16. /\ cs \in CellsSet /\ GoodCells(w, cs, o) /\ MoreFree(cs, c, dead, ds)
       /\ \A a \in ToSet(dead) : a[1] = page /\ a[2] < LinkedPart(cs, page, c)
  BY <1>1, <1>5, <1>7, <1>11, <1>13, <1>14
<1>17. /\ ds \in CellsSet /\ GoodCells(w, ds, o \ ToSet(dead))
       /\ \A d \in Class :
            /\ ds[d].cursor = cs[d].cursor
            /\ \A a \in ToSet(ds[d].free) : a \in ToSet(cs[d].free) \/ a \in ToSet(dead)
  <2>1. c \in Class
    BY <1>1
  <2>2. QED
    BY ONLY <1>6, <1>12, <1>15, <1>16, <2>1, CellsListed
<1>18. /\ objects' = objects \ ToSet(dead) /\ objects' \subseteq Address
       /\ fields' \in [Address -> [Field -> Reference]]
  BY <1>7, GoneTyped
<1>19. SweptCells(ds, NoneFound, page + n)
  <2>1. \A d \in Class : \A a \in ToSet(ds[d].free) : a \in ToSet(cells[d].free) \/ a[1] = page
    BY <1>13, <1>14, <1>17
  <2>2. \A d \in Class : ds[d].cursor = cells[d].cursor
    BY <1>14, <1>17
  <2>3. QED
    BY <1>2, <1>8, <2>1, <2>2, FlushSweptCells
<1>20. SweptTo(runs', cells', objects', found', page + 1)
  BY <1>1, <1>8, <1>9, <1>10, <1>14, <1>17, <1>18, <1>19 DEF SweptTo
<1>21. marked' \subseteq objects'
  <2>1. PICK gone : gone = ToSet(dead)
    OBVIOUS
  <2>2. gone = CellsOf(page, used) \ live /\ live = CellsOf(page, used) \cap marked
    BY <1>4, <1>6, <2>1
  <2>3. marked' = marked \ live /\ objects' = objects \ gone /\ marked \subseteq objects
    BY <1>1, <1>7, <1>18, <2>1
  <2>4. QED
    BY ONLY <2>2, <2>3
<1>22. cells' \in CellsSet
  BY <1>14, <1>17
<1>23. QED
  BY <1>18, <1>20, <1>21, <1>22, ClassPagePassed

(* sweep_class_page. *)
LEMMA SweepClassIs ==
  ASSUME IInv, SweepClass
  PROVE  \E page, c : /\ AtClassPage(page, c)
                      /\ \/ Live(page, c) = {} /\ PageFreed(page, c)
                         \/ CellsFreed(page, c)
<1>1. PICK page, c : page = marker.at[1] /\ c = runs.header[page].class
  OBVIOUS
<1>2. SweepAt("class") /\ SweepNext
  BY DEF SweepClass
<1>3. AtClassPage(page, c)
  BY <1>1, <1>2, SweepAtIs DEF AtClassPage
<1>4. CASE Live(page, c) = {}
  <2>1. PageFreed(page, c)
    BY <1>1, <1>4, Zenon DEF SweepClass, PageFreed, NoCursorOn, Live
  <2>2. QED
    BY <1>3, <1>4, <2>1
<1>5. CASE Live(page, c) # {}
  <2>1. PICK used, live, dead : /\ used = UsedCells(page, c)
                                /\ live = CellsOf(page, used) \cap marked
                                /\ dead = Dead(page, used, live)
    OBVIOUS
  <2>2. live = Live(page, c) /\ dead = DeadCells(page, c)
    BY <2>1 DEF Live, DeadCells
  <2>3. live # {}
    BY <1>5, <2>2
  <2>4. /\ Flush /\ MoreFree(cells, c, dead, cells') /\ Gone(ToSet(dead))
        /\ marked' = marked \ live
    BY <1>1, <2>1, <2>3, Zenon DEF SweepClass, MoreFree
  <2>5. CellsFreed(page, c)
    BY <2>2, <2>4 DEF CellsFreed
  <2>6. QED
    BY <1>3, <2>5
<1>6. QED
  BY <1>4, <1>5

(* Either way the sweep goes on to the next page. *)
LEMMA SweepClassKeeps ==
  ASSUME IInv, SweepClass
  PROVE  IInv'
  BY SweepClassIs, SweepEmptyPage, SweepUsedPage

(* At the end every free run is in the list. *)
LEMMA SweepEndKeeps ==
  ASSUME IInv, SweepEnd
  PROVE  IInv'
<1>1. /\ pc = "sweep" /\ marker.at[1] > runs.end /\ Flush
      /\ pc' = (IF request = NoRequest THEN "mutator" ELSE "allocate")
      /\ marker' = [marker EXCEPT !.at = <<0, 0>>]
      /\ UNCHANGED <<request, roots, cells, objects, marked, fields>>
  BY DEF SweepEnd
<1>2. PICK at : at = marker.at[1]
  OBVIOUS
<1>3. /\ Swept(runs, found, at) /\ SweptCells(cells, found, at) /\ GoodCells(runs, cells, objects)
      /\ Len(marker.stack) <= Capacity(runs)
      /\ marker \in [stack: Seq(Address), overflowed: BOOLEAN, at: Nat \X Nat]
  BY <1>1, <1>2 DEF IInv, Typed, RunsInv
<1>4. PICK w : w = Flushed(runs)
  OBVIOUS
<1>5. runs' = w /\ found' = NoneFound
  BY <1>1, <1>4 DEF Flush, NoneFound
<1>6. /\ Swept(w, NoneFound, at) /\ w.end = runs.end /\ Capacity(w) = Capacity(runs)
      /\ \A p, c : ClassPage(runs, p, c) /\ (p < Frontier(found, at) \/ p >= at) => ClassPage(w, p, c)
  BY <1>2, <1>3, <1>4, FlushedIs DEF AfterFlush
<1>7. /\ Layout(w) /\ StackRun(w) /\ at \in Nat /\ Frontier(NoneFound, at) = at
      /\ Listed(w, {p \in RunsOf(w, {"free"}) : p < at})
  <2>1. Frontier(NoneFound, at) = at
    BY DEF Frontier, NoneFound
  <2>2. QED
    BY <1>3, <1>6, <2>1, FrontIs DEF Swept
<1>8. {p \in RunsOf(w, {"free"}) : p < at} = RunsOf(w, {"free"})
  <2>1. ASSUME NEW p \in RunsOf(w, {"free"})
        PROVE  p < at
    <3>1. p \in Nat /\ p <= runs.end /\ runs.end \in Nat /\ at > runs.end
      BY <1>1, <1>2, <1>6, <1>7, LayoutFacts DEF RunsOf
    <3>2. QED
      BY <1>7, <3>1
  <2>2. QED
    BY <2>1
<1>9. GoodRuns(w)
  BY <1>7, <1>8 DEF GoodRuns
<1>10. GoodCells(w, cells, objects)
  <2> SUFFICES ASSUME NEW c \in Class
               PROVE  /\ cells[c].cursor # Nil =>
                           /\ ClassPage(w, cells[c].cursor[1], c)
                           /\ cells[c].cursor[2] \in 1..CellsPerPage[c] - 1
                      /\ IsInjective(cells[c].free)
                      /\ \A a \in ToSet(cells[c].free) :
                           /\ ClassPage(w, a[1], c) /\ a[2] < LinkedPart(cells, a[1], c)
                           /\ a \notin objects
    BY DEF GoodCells
  <2>1. /\ cells[c].cursor # Nil =>
             /\ ClassPage(runs, cells[c].cursor[1], c)
             /\ cells[c].cursor[2] \in 1..CellsPerPage[c] - 1
        /\ IsInjective(cells[c].free)
        /\ \A a \in ToSet(cells[c].free) :
             /\ ClassPage(runs, a[1], c) /\ a[2] < LinkedPart(cells, a[1], c) /\ a \notin objects
    BY <1>3 DEF GoodCells
  <2>2. /\ \A a \in ToSet(cells[c].free) : a[1] < Frontier(found, at)
        /\ cells[c].cursor # Nil =>
             cells[c].cursor[1] < Frontier(found, at) \/ cells[c].cursor[1] >= at
    BY <1>3 DEF SweptCells
  <2>3. QED
    BY <1>6, <2>1, <2>2
<1>11. /\ marker' \in [stack: Seq(Address), overflowed: BOOLEAN, at: Nat \X Nat]
       /\ marker'.stack = marker.stack
  BY <1>1, <1>3
<1>12. found' \in [start: Nat, pages: Nat] /\ found'.pages = 0
  BY <1>5 DEF NoneFound
<1>13. Typed'
  BY <1>1, <1>11, <1>12 DEF IInv, Typed
<1>14. RunsInv'
  BY <1>1, <1>3, <1>5, <1>6, <1>9, <1>11, <1>12 DEF RunsInv
<1>15. GoodCells(runs', cells', objects')
  BY <1>1, <1>5, <1>10
<1>16. QED
  BY <1>13, <1>14, <1>15 DEF IInv

(* The heap before its first page. *)
LEMMA InitGood ==
  ASSUME Init
  PROVE  IInv
<1>1. /\ MaxPages \in Nat /\ Slots \in Nat \ {0}
      /\ NoHeader = [kind |-> "free", pages |-> 0, class |-> Nil]
  BY HeapAssumption DEF NoHeader, Header
<1>2. NoHeader \in HeaderSet
  BY <1>1 DEF HeaderSet, Kinds
<1>3. PICK r : r = runs
  OBVIOUS
<1>4. r = [header |-> [p \in Page |-> NoHeader], free |-> <<>>, end |-> 0, stack |-> 0]
  BY <1>3 DEF Init
<1>5. PICK none : none = <<>>
  OBVIOUS
<1>6. none \in Seq(Page) /\ none \in Seq(Address) /\ Len(none) = 0 /\ ToSet(none) = {}
      /\ IsInjective(none)
  BY <1>5 DEF ToSet, IsInjective
<1>7. r.free = none /\ r.end = 0 /\ r.stack = 0 /\ r.header \in [Page -> HeaderSet]
  BY <1>2, <1>4, <1>5
<1>8. r \in RunsSet
  <2>1. 0 \in 0..MaxPages
    BY <1>1
  <2>2. PICK h \in [Page -> HeaderSet] : h = [p \in Page |-> NoHeader]
    BY <1>2
  <2>3. r = [header |-> h, free |-> none, end |-> 0, stack |-> 0]
    BY <1>4, <1>5, <2>2
  <2>4. QED
    BY <1>6, <2>1, <2>3 DEF RunsSet
<1>9. Tiling(Sizes(r), r.end, {1})
  <2>1. PICK g : g = Sizes(r)
    OBVIOUS
  <2>2. Tiling(g, 0, {1})
    BY DEF Tiling
  <2>3. QED
    BY <1>7, <2>1, <2>2
<1>10. RunStarts(r) = {1}
  BY <1>8, <1>9, RunStartsAre
<1>11. Layout(r)
  BY <1>7, <1>8, <1>9, <1>10 DEF Layout
<1>12. \A kinds : RunsOf(r, kinds) = {}
  BY <1>7, <1>10 DEF RunsOf
<1>13. GoodRuns(r)
  BY <1>6, <1>7, <1>11, <1>12 DEF GoodRuns, Listed, StackRun
<1>14. PICK empty : empty = [free |-> none, cursor |-> Nil]
  OBVIOUS
<1>15. /\ empty \in [free: Seq(Address), cursor: Reference]
       /\ empty.free = none /\ empty.cursor = Nil
  BY <1>6, <1>14 DEF Reference
<1>16. cells = [c \in Class |-> empty]
  BY <1>5, <1>14 DEF Init
<1>17. cells \in CellsSet
  BY <1>15, <1>16 DEF CellsSet
<1>18. GoodCells(runs, cells, objects)
  BY <1>6, <1>15, <1>16 DEF GoodCells
<1>19. fields \in [Address -> [Field -> Reference]]
  BY DEF Init, NoFields, Reference
<1>20. marker \in [stack: Seq(Address), overflowed: BOOLEAN, at: Nat \X Nat] /\ Len(marker.stack) = 0
  <2>1. marker = [stack |-> none, overflowed |-> FALSE, at |-> <<0, 0>>]
    BY <1>5 DEF Init
  <2>2. QED
    BY <1>6, <2>1
<1>21. Typed
  BY <1>17, <1>19, <1>20 DEF Typed, Init, Reference
<1>22. Capacity(runs) = 0
  BY <1>3, <1>7 DEF Capacity
<1>23. RunsInv
  BY <1>3, <1>13, <1>20, <1>22 DEF RunsInv, Init
<1>24. QED
  BY <1>18, <1>21, <1>23 DEF IInv

(* Every step keeps it. *)
LEMMA NextKeeps ==
  ASSUME IInv, [Next]_vars
  PROVE  IInv'
<1>1. CASE Mutate
  BY <1>1, MutateKeeps
<1>2. CASE Request
  BY <1>2, RequestKeeps
<1>3. CASE Allocate
  BY <1>3, PopCellKeeps, RefillClassKeeps, TakeLargeKeeps, ExhaustedKeeps, OutOfMemoryKeeps
     DEF Allocate
<1>4. CASE Mark
  BY <1>4, MarkRootKeeps, DrainOneKeeps, DrainEndKeeps, RescanOneKeeps, RescanEndKeeps DEF Mark
<1>5. CASE Sweep
  BY <1>5, SweepClassKeeps, SweepLargeKeeps, SweepFreeKeeps, SweepSystemKeeps, SweepEndKeeps
     DEF Sweep
<1>6. CASE UNCHANGED vars
  <2>1. IInv
    OBVIOUS
  <2>2. /\ pc' = pc /\ request' = request /\ roots' = roots /\ runs' = runs /\ cells' = cells
        /\ objects' = objects /\ marked' = marked /\ fields' = fields /\ marker' = marker
        /\ found' = found
    BY <1>6 DEF vars
  <2>3. Typed' /\ GoodCells(runs', cells', objects')
    BY <2>1, <2>2 DEF IInv, Typed
  <2>4. RunsInv'
    BY <2>1, <2>2 DEF IInv, RunsInv, Starts
  <2>5. QED
    BY <2>3, <2>4 DEF IInv
<1>7. QED
  BY <1>1, <1>2, <1>3, <1>4, <1>5, <1>6 DEF Next

(* A free cell is in the linked part of a page of its class. *)
LEMMA CellsSound ==
  ASSUME IInv
  PROVE  FreeCellsSound
<1>1. GoodCells(runs, cells, objects)
  BY DEF IInv
<1>2. ASSUME NEW c \in Class, NEW a \in ToSet(cells[c].free)
      PROVE  /\ a[1] \in Starts /\ runs.header[a[1]].kind = "class"
             /\ runs.header[a[1]].class = c /\ a[2] < UsedCells(a[1], c) /\ a \notin objects
  <2>1. ClassPage(runs, a[1], c) /\ a[2] < LinkedPart(cells, a[1], c) /\ a \notin objects
    BY <1>1 DEF GoodCells
  <2>2. UsedCells(a[1], c) = LinkedPart(cells, a[1], c)
    BY DEF UsedCells, LinkedPart
  <2>3. QED
    BY <2>1, <2>2 DEF ClassPage, RunsOf, Starts
<1>3. \A c \in Class : IsInjective(cells[c].free)
  BY <1>1 DEF GoodCells
<1>4. QED
  BY <1>2, <1>3 DEF FreeCellsSound

(* The runs that a walk meets before the end. *)
LEMMA TileSound ==
  ASSUME IInv
  PROVE  RunsTile
<1>1. /\ Layout(runs) /\ StackRun(runs)
      /\ pc # "sweep" => Listed(runs, RunsOf(runs, {"free"}))
  BY DEF IInv, RunsInv, GoodRuns, Swept
<1>2. /\ runs.end \in Nat /\ RunStarts(runs) \subseteq 1..runs.end + 1
      /\ runs.end + 1 \in RunStarts(runs)
  BY <1>1, LayoutFacts DEF Layout, Tiling
<1>3. ASSUME NEW kind
      PROVE  {p \in Starts \ {runs.end + 1} : runs.header[p].kind = kind} = RunsOf(runs, {kind})
  <2>1. \A p \in RunStarts(runs) : p <= runs.end <=> p # runs.end + 1
    BY <1>2
  <2>2. QED
    BY <2>1 DEF RunsOf, Starts
<1>4. runs.end + 1 \in Starts
  BY <1>2 DEF Starts
<1>5. {p \in Starts \ {runs.end + 1} : runs.header[p].kind = "system"} = {runs.stack} \ {0}
  BY <1>1, <1>3 DEF StackRun
<1>6. pc # "sweep" =>
        /\ IsInjective(runs.free)
        /\ ToSet(runs.free) = {p \in Starts \ {runs.end + 1} : runs.header[p].kind = "free"}
  BY <1>1, <1>3 DEF Listed
<1>7. QED
  BY <1>4, <1>5, <1>6 DEF RunsTile

(* The types. *)
LEMMA TypesSound ==
  ASSUME IInv
  PROVE  TypeOK
<1>1. runs \in RunsSet
  BY DEF IInv, RunsInv, GoodRuns, Swept, Layout
<1>2. Len(marker.stack) <= Capacity(runs)
  BY DEF IInv, RunsInv
<1>3. /\ runs.header \in [Page -> [kind: {"free", "class", "large", "system"},
                                   pages: 0..MaxPages, class: Class \cup {Nil}]]
      /\ runs.free \in Seq(Page) /\ runs.end \in 0..MaxPages /\ runs.stack \in 0..MaxPages
  BY <1>1 DEF RunsSet, HeaderSet, Kinds
<1>4. \A c \in Class : cells[c].free \in Seq(Address) /\ cells[c].cursor \in Reference
  BY DEF IInv, Typed, CellsSet
<1>5. marker.stack \in Seq(Address)
  BY DEF IInv, Typed
<1>6. QED
  BY <1>2, <1>3, <1>4, <1>5 DEF IInv, Typed, TypeOK

(* In every state of the heap, for every number of pages, every set of     *)
(* classes with any number of cells, and every size of object: the runs    *)
(* tile the heap, the list of free runs holds each of them once outside a  *)
(* sweep, the only system run is the mark stack's, and a free cell is in   *)
(* one list once, linked, on a page of its class, and holds no object.     *)
THEOREM SpaceIsSound == Spec => []SpaceSound
<1>1. Init => IInv
  BY InitGood
<1>2. IInv /\ [Next]_vars => IInv'
  BY NextKeeps
<1>3. IInv => SpaceSound
  BY CellsSound, TileSound, TypesSound DEF SpaceSound
<1>4. QED
  BY <1>1, <1>2, <1>3, PTL DEF Spec
=============================================================================
