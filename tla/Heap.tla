-------------------------------- MODULE Heap --------------------------------
(***************************************************************************)
(* The heap of exs-core: page runs and the list of free runs (pages.rs),   *)
(* the size-class allocator (allocator.rs) and the mark-and-sweep          *)
(* collector (collector.rs), under code that keeps its references in root  *)
(* slots.                                                                  *)
(*                                                                         *)
(* All of it runs in one thread, and a collection happens inside an        *)
(* allocation.  It is split into steps - a root, an object taken from the  *)
(* mark stack, an object rescanned, a run swept - so that what holds half  *)
(* way through can be stated.                                              *)
(*                                                                         *)
(* Pages are numbered from 1 at the start of the heap.  An address is a    *)
(* page with the index of a cell; a large object has index 0 of its run.   *)
(* A page that becomes a class page may hold anything in the cells that    *)
(* are not linked yet.                                                     *)
(*                                                                         *)
(* The runs execution.rs takes for its buffers are left out, so the only   *)
(* system run is that of the mark stack.  The root shape is a root slot.   *)
(***************************************************************************)
EXTENDS Integers, FiniteSets, SequencesExt

CONSTANTS
  MaxPages,        \* pages the heap can have before memory refuses to grow
  Class,           \* the size classes
  CellsPerPage,    \* cells_per_page
  LinkChunk,       \* LINK_CHUNK
  EntriesPerPage,  \* mark-stack entries a page of it holds
  LargeSize,       \* page counts of large objects
  Nil,             \* the reference to nothing
  Slots,           \* root slots
  MaxObjects,      \* bound on the objects in the heap
  Fields           \* references in one object

Page == 1..MaxPages
Slot == 1..Slots
Field == 1..Fields
Size == {CellsPerPage[c] : c \in Class} \cup {1}
Address == Page \X UNION {0..n - 1 : n \in Size}
Reference == Address \cup {Nil}

ASSUME HeapAssumption ==
  /\ MaxPages \in Nat /\ LinkChunk \in Nat \ {0} /\ EntriesPerPage \in Nat \ {0}
  /\ IsFiniteSet(Class) /\ CellsPerPage \in [Class -> Nat \ {0}]
  /\ LargeSize \subseteq Nat \ {0}
  /\ Slots \in Nat \ {0} /\ Fields \in Nat \ {0} /\ MaxObjects \in Nat \ {0}
  /\ "large" \notin Class /\ Nil \notin Address

VARIABLES
  pc,       \* what runs: the mutator, or a step of allocate and collect
  request,  \* the allocation that runs
  roots,    \* the reference in each root slot
  runs,     \* page headers, the free runs, the end of the heap, the mark stack's run
  cells,    \* for each class its free list and its cursor
  objects,  \* the addresses whose header byte is not that of a free cell
  marked,   \* those with the mark bit
  fields,   \* the references in each object
  marker,   \* Marker: its stack, overflow flag and position
  found     \* FreePages of the sweep

vars == <<pc, request, roots, runs, cells, objects, marked, fields, marker, found>>
-----------------------------------------------------------------------------

Header(kind, pages, class) == [kind |-> kind, pages |-> pages, class |-> class]

NoHeader == Header("free", 0, Nil)

(* write_run.  What lies inside a run is not a header. *)
Written(r, page, header) ==
  [r EXCEPT !.header = [p \in Page |->
     CASE p = page -> header
       [] p \in page + 1..page + header.pages - 1 -> NoHeader
       [] OTHER -> r.header[p]]]

(* carve_pages, or the refusal. *)
Carved(r, count) ==
  IF r.end + count > MaxPages THEN [page |-> 0, runs |-> r]
  ELSE [page |-> r.end + 1, runs |-> [r EXCEPT !.end = @ + count]]

(* The first free run that has count pages. *)
FirstFit(r, count) ==
  CHOOSE i \in DOMAIN r.free :
    /\ r.header[r.free[i]].pages >= count
    /\ \A j \in 1..i - 1 : r.header[r.free[j]].pages < count

(* take_pages: the page, 0 for None, and the runs after it.  The rest of a *)
(* run takes its place in the list.                                        *)
TakenWhole(r, count) ==
  IF \A i \in DOMAIN r.free : r.header[r.free[i]].pages < count THEN Carved(r, count)
  ELSE LET i == FirstFit(r, count)
       IN  [page |-> r.free[i], runs |-> [r EXCEPT !.free = RemoveAt(@, i)]]

Taken(r, count) ==
  IF \A i \in DOMAIN r.free : r.header[r.free[i]].pages < count THEN Carved(r, count)
  ELSE LET i == FirstFit(r, count)
           page == r.free[i]
           rest == r.header[page].pages - count
       IN  [page |-> page,
            runs |-> IF rest = 0 THEN [r EXCEPT !.free = RemoveAt(@, i)]
                     ELSE [Written(r, page + count, Header("free", rest, Nil))
                             EXCEPT !.free[i] = page + count]]

(* release_run. *)
Released(r, page, count) ==
  [Written(r, page, Header("free", count, Nil)) EXCEPT !.free = <<page>> \o @]

(* next_run. *)
NextRun(page) == page + runs.header[page].pages

(* used_cells: how many cells of a page may hold objects. *)
UsedCellsAll(page, class) == CellsPerPage[class]

UsedCells(page, class) ==
  IF cells[class].cursor # Nil /\ cells[class].cursor[1] = page
  THEN cells[class].cursor[2] ELSE CellsPerPage[class]

(* How many addresses of the run at page may hold objects. *)
RunCells(page) ==
  CASE runs.header[page].kind = "class" -> UsedCells(page, runs.header[page].class)
    [] runs.header[page].kind = "large" -> 1
    [] OTHER -> 0

(* The pages where a walk of the runs from the start of the heap stops. *)
RunStarts(r) ==
  LET start[p \in 1..r.end + 1] ==
        p = 1 \/ \E q \in 1..p - 1 : start[q] /\ q + r.header[q].pages = p
  IN  {p \in 1..r.end + 1 : start[p]}

Starts == RunStarts(runs)

(* The pages the sweep has found free and not yet released. *)
FoundPages == found.start..found.start + found.pages - 1

(* The objects of the heap: in the used cells of class pages and at the    *)
(* start of large runs.                                                    *)
Stored ==
  LET used == (Starts \ FoundPages) \ {runs.end + 1}
  IN  {a \in objects : a[1] \in used /\ a[2] < RunCells(a[1])}

Reachable ==
  LET step(R) == R \cup ({fields[a][f] : a \in R, f \in Field} \ {Nil})
      reached[n \in 0..Cardinality(objects)] ==
        IF n = 0 THEN {roots[s] : s \in Slot} \ {Nil} ELSE step(reached[n - 1])
  IN  reached[Cardinality(objects)]
-----------------------------------------------------------------------------
NoFields == [f \in Field |-> Nil]

NoRequest == [slot |-> Nil, kind |-> Nil, size |-> 0, stage |-> "none"]

Init ==
  /\ pc = "mutator"
  /\ request = NoRequest
  /\ roots = [s \in Slot |-> Nil]
  /\ runs = [header |-> [p \in Page |-> NoHeader], free |-> <<>>, end |-> 0,
             stack |-> 0]
  /\ cells = [c \in Class |-> [free |-> <<>>, cursor |-> Nil]]
  /\ objects = {}
  /\ marked = {}
  /\ fields = [a \in Address |-> NoFields]
  /\ marker = [stack |-> <<>>, overflowed |-> FALSE, at |-> <<0, 0>>]
  /\ found = [start |-> 0, pages |-> 0]

(* Generated code moves references between root slots and fields. *)
Load(from, f, to) ==
  /\ pc = "mutator"
  /\ roots[from] # Nil
  /\ roots' = [roots EXCEPT ![to] = fields[roots[from]][f]]
  /\ UNCHANGED <<pc, request, runs, cells, objects, marked, fields, marker, found>>

Store(to, f, from) ==
  /\ pc = "mutator"
  /\ roots[to] # Nil
  /\ fields' = [fields EXCEPT ![roots[to]][f] = roots[from]]
  /\ UNCHANGED <<pc, request, roots, runs, cells, objects, marked, marker, found>>

Drop(s) ==
  /\ pc = "mutator"
  /\ roots[s] # Nil
  /\ roots' = [roots EXCEPT ![s] = Nil]
  /\ UNCHANGED <<pc, request, runs, cells, objects, marked, fields, marker, found>>

(* Marker::open takes a page for the mark stack when there is none. *)
Opened(r) ==
  LET taken == Taken(r, 1)
  IN  IF r.stack # 0 \/ taken.page = 0 THEN r
      ELSE [Written(taken.runs, taken.page, Header("system", 1, Nil))
              EXCEPT !.stack = taken.page]

(* collect, on behalf of the request that runs. *)
Collect ==
  /\ pc' = "roots"
  /\ runs' = Opened(runs)
  /\ marker' = [stack |-> <<>>, overflowed |-> FALSE, at |-> <<0, 0>>]
  /\ UNCHANGED <<roots, cells, objects, marked, fields, found>>

(* allocate for a root slot: at the start a collection may run, every time *)
(* with VM_FLAG_COLLECT_EVERY_ALLOCATION or when the volume is reached,    *)
(* here MaxObjects at the latest.                                          *)
Requested(s, kind, size) ==
  /\ pc = "mutator"
  /\ Cardinality(Reachable) < MaxObjects
  /\ request' = [slot |-> s, kind |-> kind, size |-> size, stage |-> "first"]
  /\ \/ Collect
     \/ /\ Cardinality(Stored) < MaxObjects
        /\ pc' = "allocate"
        /\ UNCHANGED <<roots, runs, cells, objects, marked, fields, marker, found>>

RequestCell(s, c) == Requested(s, c, 0)
RequestLarge(s, pages) == Requested(s, "large", pages)

(* The exported __exs_core_collect. *)
RequestCollection ==
  /\ pc = "mutator"
  /\ request' = NoRequest
  /\ Collect

(* The slot receives the new object, zeroed and unmarked. *)
Allocated(a) ==
  /\ objects' = objects \cup {a}
  /\ marked' = marked \ {a}
  /\ fields' = [fields EXCEPT ![a] = NoFields]
  /\ roots' = [roots EXCEPT ![request.slot] = a]
  /\ pc' = "mutator"
  /\ request' = NoRequest
  /\ UNCHANGED <<marker, found>>

(* allocate_cell with a cell in the list. *)
PopCell ==
  LET c == request.kind
  IN  /\ pc = "allocate" /\ c \in Class
      /\ cells[c].free # <<>>
      /\ cells' = [cells EXCEPT ![c].free = Tail(@)]
      /\ Allocated(Head(cells[c].free))
      /\ UNCHANGED runs

(* refill_class links the next cells, of a new page if the class has no    *)
(* partly linked one.                                                      *)
Linked(c, from) ==
  LET count == IF CellsPerPage[c] - from[2] < LinkChunk THEN CellsPerPage[c] - from[2]
               ELSE LinkChunk
      end == from[2] + count
      linked == [i \in 1..count |-> <<from[1], from[2] + i - 1>>]
      unlinked == IF from[2] = 0 THEN {<<from[1], i>> : i \in end..CellsPerPage[c] - 1} ELSE {}
  IN  /\ cells' = [cells EXCEPT ![c] =
                     [free |-> linked \o @.free,
                      cursor |-> IF end = CellsPerPage[c] THEN Nil ELSE <<from[1], end>>]]
      /\ \E stale \in SUBSET unlinked, old \in SUBSET unlinked :
           /\ objects' = (objects \ ToSet(linked)) \cup stale \cup old
           /\ marked' = (marked \ ToSet(linked)) \cup old

RefillClass ==
  LET c == request.kind
      taken == Taken(runs, 1)
  IN  /\ pc = "allocate" /\ c \in Class
      /\ cells[c].free = <<>>
      /\ \/ /\ cells[c].cursor # Nil
            /\ Linked(c, cells[c].cursor)
            /\ UNCHANGED runs
         \/ /\ cells[c].cursor = Nil
            /\ taken.page # 0
            /\ runs' = Written(taken.runs, taken.page, Header("class", 1, c))
            /\ Linked(c, <<taken.page, 0>>)
      /\ UNCHANGED <<pc, request, roots, fields, marker, found>>

(* allocate_large. *)
TakeLarge ==
  LET taken == Taken(runs, request.size)
  IN  /\ pc = "allocate" /\ request.kind = "large"
      /\ taken.page # 0
      /\ runs' = Written(taken.runs, taken.page, Header("large", request.size, Nil))
      /\ Allocated(<<taken.page, 0>>)
      /\ UNCHANGED cells

(* Memory cannot grow: a collection, or after it None. *)
NoRoom ==
  /\ pc = "allocate"
  /\ IF request.kind = "large" THEN Taken(runs, request.size).page = 0
     ELSE /\ cells[request.kind].free = <<>>
          /\ cells[request.kind].cursor = Nil
          /\ Taken(runs, 1).page = 0

Exhausted ==
  /\ NoRoom
  /\ request.stage = "first"
  /\ request' = [request EXCEPT !.stage = "last"]
  /\ Collect

OutOfMemory ==
  /\ NoRoom
  /\ request.stage = "last"
  /\ pc' = "mutator"
  /\ request' = NoRequest
  /\ UNCHANGED <<roots, runs, cells, objects, marked, fields, marker, found>>
-----------------------------------------------------------------------------
(* What marking changes. *)
Marking == [marked |-> marked, runs |-> runs, stack |-> marker.stack,
            overflowed |-> marker.overflowed]

MarkingBecomes(m, at) ==
  /\ marked' = m.marked
  /\ runs' = m.runs
  /\ marker' = [stack |-> m.stack, overflowed |-> m.overflowed, at |-> at]
  /\ UNCHANGED <<request, roots, cells, objects, fields, found>>

Capacity(r) == IF r.stack = 0 THEN 0 ELSE EntriesPerPage * r.header[r.stack].pages

(* An object stays marked without being pushed. *)
RefusedSilently(m) == m

Refused(m) == [m EXCEPT !.overflowed = TRUE]

(* Marker::grow for one more entry: the entries move to a run of twice the *)
(* pages and the old run becomes free at once.                             *)
Grown(m, a) ==
  LET oldPages == IF m.runs.stack = 0 THEN 0 ELSE m.runs.header[m.runs.stack].pages
      pages == 2 * (IF oldPages = 0 THEN 1 ELSE oldPages)
      taken == Taken(m.runs, pages)
      new == [Written(taken.runs, taken.page, Header("system", pages, Nil))
                EXCEPT !.stack = taken.page]
  IN  IF taken.page = 0 THEN Refused(m)
      ELSE [m EXCEPT !.runs = IF oldPages = 0 THEN new
                              ELSE Released(new, m.runs.stack, oldPages),
                     !.stack = Append(@, a)]

(* Marker::mark_address.  Free cells and marked objects are passed over. *)
MarkedAddress(m, a) ==
  LET colored == [m EXCEPT !.marked = @ \cup {a}]
  IN  IF a = Nil \/ a \in m.marked \/ a \notin objects THEN m
      ELSE IF Len(m.stack) = Capacity(m.runs) THEN Grown(colored, a)
      ELSE [colored EXCEPT !.stack = Append(@, a)]

(* Marker::trace. *)
Traced(m, a) ==
  LET after[f \in 0..Fields] == IF f = 0 THEN m ELSE MarkedAddress(after[f - 1], fields[a][f])
  IN  after[Fields]

MarkRoot ==
  LET s == marker.at[2] + 1
  IN  /\ pc = "roots"
      /\ MarkingBecomes(MarkedAddress(Marking, roots[s]), <<0, s>>)
      /\ pc' = IF s = Slots THEN "drain" ELSE "roots"

DrainOne ==
  LET last == Len(marker.stack)
      popped == [Marking EXCEPT !.stack = SubSeq(@, 1, last - 1)]
  IN  /\ pc = "drain"
      /\ marker.stack # <<>>
      /\ MarkingBecomes(Traced(popped, marker.stack[last]), <<0, 0>>)
      /\ UNCHANGED pc

(* The mark stack is empty: after an overflow the marked objects are       *)
(* traced again, otherwise the sweep starts with empty free lists.         *)
DrainEnd ==
  /\ pc = "drain"
  /\ marker.stack = <<>>
  /\ IF marker.overflowed
     THEN /\ pc' = "rescan"
          /\ UNCHANGED <<runs, cells>>
     ELSE /\ pc' = "sweep"
          /\ runs' = [runs EXCEPT !.free = <<>>]
          /\ cells' = [c \in Class |-> [cells[c] EXCEPT !.free = <<>>]]
  /\ marker' = [marker EXCEPT !.overflowed = FALSE, !.at = <<1, 0>>]
  /\ UNCHANGED <<request, roots, objects, marked, fields, found>>

(* Marker::rescan, one object at a time. *)
RescanOne ==
  LET a == marker.at
  IN  /\ pc = "rescan"
      /\ a[1] <= runs.end
      /\ IF a[2] < RunCells(a[1])
         THEN MarkingBecomes(IF a \in marked THEN Traced(Marking, a) ELSE Marking,
                             <<a[1], a[2] + 1>>)
         ELSE MarkingBecomes(Marking, <<NextRun(a[1]), 0>>)
      /\ UNCHANGED pc

RescanEnd ==
  /\ pc = "rescan"
  /\ marker.at[1] > runs.end
  /\ pc' = "drain"
  /\ MarkingBecomes(Marking, <<0, 0>>)
-----------------------------------------------------------------------------
(* FreePages::flush. *)
Flushed(r) == IF found.pages > 0 THEN Released(r, found.start, found.pages) ELSE r

Flush ==
  /\ runs' = Flushed(runs)
  /\ found' = [start |-> 0, pages |-> 0]

(* FreePages::add merges the run with the adjacent one before it. *)
Add(page, count) ==
  IF found.pages > 0 /\ found.start + found.pages = page
  THEN /\ found' = [found EXCEPT !.pages = @ + count]
       /\ UNCHANGED runs
  ELSE /\ runs' = Flushed(runs)
       /\ found' = [start |-> page, pages |-> count]

SweepNext ==
  /\ marker' = [marker EXCEPT !.at = <<NextRun(marker.at[1]), 0>>]
  /\ UNCHANGED <<pc, request, roots>>

(* Nothing reads these objects again. *)
Gone(dead) ==
  /\ objects' = objects \ dead
  /\ fields' = [a \in Address |-> IF a \in dead THEN NoFields ELSE fields[a]]

SweepAt(kind) ==
  pc = "sweep" /\ marker.at[1] <= runs.end /\ runs.header[marker.at[1]].kind = kind

CellsOf(page, n) == {<<page, i>> : i \in 0..n - 1}

(* The first n cells of a page that are not live, the last one first: the  *)
(* sweep links each at the head of the list.                               *)
Dead(page, n, live) ==
  LET dead[i \in 0..n] ==
        IF i = 0 THEN <<>>
        ELSE IF <<page, i - 1>> \in live THEN dead[i - 1]
        ELSE <<<<page, i - 1>>>> \o dead[i - 1]
  IN  dead[n]

(* sweep_class_page: without live cells the page is free again. *)
SweepClass ==
  LET page == marker.at[1]
      c == runs.header[page].class
      used == UsedCells(page, c)
      live == CellsOf(page, used) \cap marked
      dead == Dead(page, used, live)
      all == CellsOf(page, CellsPerPage[c])
  IN  /\ SweepAt("class")
      /\ IF live = {}
         THEN /\ Add(page, 1)
              /\ cells' = [cells EXCEPT ![c].cursor =
                             IF @ # Nil /\ @[1] = page THEN Nil ELSE @]
              /\ Gone(all)
              /\ marked' = marked \ all
         ELSE /\ Flush
              /\ cells' = [cells EXCEPT ![c].free = dead \o @]
              /\ Gone(ToSet(dead))
              /\ marked' = marked \ live
      /\ SweepNext

SweepLarge ==
  LET a == <<marker.at[1], 0>>
  IN  /\ SweepAt("large")
      /\ IF a \in marked
         THEN marked' = marked \ {a} /\ Flush /\ Gone({})
         ELSE Add(a[1], runs.header[a[1]].pages) /\ Gone({a}) /\ UNCHANGED marked
      /\ UNCHANGED cells
      /\ SweepNext

SweepFree ==
  /\ SweepAt("free")
  /\ Add(marker.at[1], runs.header[marker.at[1]].pages)
  /\ UNCHANGED <<cells, objects, marked, fields>>
  /\ SweepNext

SweepSystem ==
  /\ SweepAt("system")
  /\ Flush
  /\ UNCHANGED <<cells, objects, marked, fields>>
  /\ SweepNext

(* The collection is over and the allocation, if there is one, goes on. *)
SweepEnd ==
  /\ pc = "sweep"
  /\ marker.at[1] > runs.end
  /\ Flush
  /\ pc' = IF request = NoRequest THEN "mutator" ELSE "allocate"
  /\ marker' = [marker EXCEPT !.at = <<0, 0>>]
  /\ UNCHANGED <<request, roots, cells, objects, marked, fields>>

Mutate ==
  \E s, t \in Slot :
    Drop(s) \/ \E f \in Field : Load(s, f, t) \/ Store(s, f, t)

Request ==
  \/ RequestCollection
  \/ \E s \in Slot : \E c \in Class : RequestCell(s, c)
  \/ \E s \in Slot : \E n \in LargeSize : RequestLarge(s, n)

Allocate == PopCell \/ RefillClass \/ TakeLarge \/ Exhausted \/ OutOfMemory

Mark == MarkRoot \/ DrainOne \/ DrainEnd \/ RescanOne \/ RescanEnd

Sweep == SweepClass \/ SweepLarge \/ SweepFree \/ SweepSystem \/ SweepEnd

Next == Mutate \/ Request \/ Allocate \/ Mark \/ Sweep

Spec == Init /\ [][Next]_vars
-----------------------------------------------------------------------------
(* The type invariant of the heap. *)
TypeOK ==
  /\ pc \in {"mutator", "allocate", "roots", "drain", "rescan", "sweep"}
  /\ roots \in [Slot -> Reference]
  /\ runs.header \in [Page -> [kind: {"free", "class", "large", "system"},
                               pages: 0..MaxPages, class: Class \cup {Nil}]]
  /\ runs.free \in Seq(Page) /\ runs.end \in 0..MaxPages /\ runs.stack \in 0..MaxPages
  /\ \A c \in Class : cells[c].free \in Seq(Address) /\ cells[c].cursor \in Reference
  /\ objects \subseteq Address /\ marked \subseteq objects
  /\ fields \in [Address -> [Field -> Reference]]
  /\ marker.stack \in Seq(Address) /\ Len(marker.stack) <= Capacity(runs)

(* The runs cover the heap without gap or overlap, and the list of free    *)
(* runs holds each of them once, except while the sweep rebuilds it.       *)
RunsTile ==
  /\ runs.end + 1 \in Starts
  /\ pc # "sweep" =>
       /\ IsInjective(runs.free)
       /\ ToSet(runs.free) = {p \in Starts \ {runs.end + 1} : runs.header[p].kind = "free"}
  /\ {p \in Starts \ {runs.end + 1} : runs.header[p].kind = "system"} = {runs.stack} \ {0}

(* A free cell is in its list once, in the linked part of a page of its    *)
(* class, and holds no object.                                             *)
FreeCellsSound ==
  \A c \in Class :
    /\ IsInjective(cells[c].free)
    /\ \A a \in ToSet(cells[c].free) :
         /\ a[1] \in Starts /\ runs.header[a[1]].kind = "class" /\ runs.header[a[1]].class = c
         /\ a[2] < UsedCells(a[1], c)
         /\ a \notin objects

(* No page and no cell is handed out twice: RunsTile and FreeCellsSound    *)
(* after every step of take_pages, release_run, refill_class and sweep.    *)
SpaceSound == TypeOK /\ RunsTile /\ FreeCellsSound

(* A collection keeps exactly what the roots reach, also when the mark     *)
(* stack has overflowed and been rescanned, and leaves no mark behind: the *)
(* next one would take a marked object for traced and free what only it    *)
(* refers to.                                                              *)
CollectionExact ==
  [][pc = "sweep" /\ pc' # "sweep" =>
       Stored' = Reachable' /\ marked' \cap Stored' = {}]_vars

Objects == INSTANCE ObjectHeap WITH
  objects <- Stored,
  fields <- [a \in Stored |-> fields[a]]

(* The heap keeps the promise of ObjectHeap. *)
ImplementsObjectHeap == Objects!Spec
=============================================================================
