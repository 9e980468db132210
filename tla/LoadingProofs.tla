---------------------------- MODULE LoadingProofs ----------------------------
(***************************************************************************)
(* Proofs about Loading for every project and all limits.  Loading is a    *)
(* worklist: what was scanned has all its imports and libraries loaded     *)
(* (ScanInv), what is loaded was reached (FilesInv), so that the loaded    *)
(* sources are the least closed set when nothing is left to scan.  The     *)
(* search keeps that visited sources lead to visited sources only and      *)
(* that no part of them is circular (SearchInv), and that its stack is a   *)
(* path.                                                                   *)
(***************************************************************************)
EXTENDS Loading, SequenceTheorems, TLAPS

(* The loaded sources are distinct and reached; libraries asked for are    *)
(* loaded. *)
FilesInv ==
  /\ \A i, j \in DOMAIN files : files[i].id = files[j].id => i = j
  /\ \A i \in DOMAIN files : files[i].id \in Reachable
  /\ phase \in {"load", "search", "loaded"} => Loaded(project.root)
  /\ phase = "start" => files = <<>>
  /\ \A p \in DOMAIN libraries : Provided(p) => Loaded(project.library[p])

Taken(i) ==
  IF i < index THEN Len(ImportsOf(files[i].id)) ELSE IF i = index THEN imported ELSE 0

(* Prefix k of path n of source i was asked for. *)
Past(i, n, k) ==
  i < index \/ (i = index /\ (n <= named \/ (n = named + 1 /\ k <= segments)))

EdgeExact(i, k) ==
  LET import == ImportsOf(files[i].id)[k]
  IN /\ edges[i][k].to \in DOMAIN files
     /\ files[edges[i][k].to].id = import.to
     /\ edges[i][k].namespace = import.namespace
     /\ ~Provided(import.path)

(* What was taken of one source. *)
ScannedAt(i) ==
  /\ Len(edges[i]) = Taken(i)
  /\ \A k \in 1..Taken(i) : EdgeExact(i, k)
  /\ \A n \in DOMAIN PathsOf(files[i].id) :
       \A k \in 1..Len(PathsOf(files[i].id)[n]) :
         Past(i, n, k) => SubSeq(PathsOf(files[i].id)[n], 1, k) \in DOMAIN libraries

(* What was scanned so far is loaded, in order. *)
ScanInv ==
  /\ Len(edges) = Len(files)
  /\ index <= Len(files) + 1
  /\ index \in DOMAIN files =>
       /\ imported <= Len(ImportsOf(files[index].id))
       /\ named <= Len(PathsOf(files[index].id))
       /\ segments # 0 => /\ named < Len(PathsOf(files[index].id))
                          /\ segments < Len(PathsOf(files[index].id)[named + 1])
  /\ index \notin DOMAIN files => imported = 0 /\ named = 0 /\ segments = 0
  /\ \A i \in DOMAIN files : ScannedAt(i)

Target(i, k) == edges[i][k].to
CircularAt(S) == S # {} /\ \A i \in S : \E k \in DOMAIN edges[i] : Target(i, k) \in S
VisitedAt == {i \in DOMAIN files : states[i] = "visited"}

(* A source on the stack: its earlier edges lead to visited sources, but   *)
(* for the one to the next source on the stack. *)
OnPath(m) ==
  LET node == stack[m].node
      next == stack[m].next
  IN /\ node \in DOMAIN files /\ states[node] = "visiting"
     /\ next <= Len(edges[node]) + 1
     /\ \A k \in 1..(next - 1) :
          states[Target(node, k)] = "visited" \/ (m < Len(stack) /\ k = next - 1)
     /\ m < Len(stack) => next > 1 /\ Target(node, next - 1) = stack[m + 1].node

(* The stack is a path of all the sources being visited. *)
StackInv ==
  /\ \A m, n \in DOMAIN stack : stack[m].node = stack[n].node => m = n
  /\ \A i \in DOMAIN files : states[i] = "visiting" => \E m \in DOMAIN stack : stack[m].node = i
  /\ \A m \in DOMAIN stack : OnPath(m)

SearchInv ==
  phase \in {"search", "loaded"} =>
    /\ index = Len(files) + 1
    /\ NamespacesValid
    /\ DOMAIN states = DOMAIN files
    /\ StackInv
    /\ \A i \in VisitedAt : \A k \in DOMAIN edges[i] : Target(i, k) \in VisitedAt
    /\ \A S \in SUBSET VisitedAt : ~CircularAt(S)
    /\ phase = "loaded" => VisitedAt = DOMAIN files

RefusalInv ==
  /\ refusal = "cycle" => Cyclic(Reachable)
  /\ refusal = "E0233" => Erroneous(Reachable)
  /\ phase # "refused" => refusal = "none"

LoadInv == LoadTypeOK /\ FilesInv /\ ScanInv /\ SearchInv /\ RefusalInv

(* --- Projects and what they reach. --- *)
LEMMA Element ==
  ASSUME NEW T, NEW s \in Seq(T), NEW k \in DOMAIN s
  PROVE  s[k] \in T
  OBVIOUS

LEMMA ProjectFacts ==
  ASSUME IsProject(project)
  PROVE  /\ project.root \in SourceIds /\ Nowhere \notin SourceIds
         /\ \A path : Provided(path) => project.library[path] \in SourceIds
         /\ \A id \in SourceIds :
              /\ SourceOf(id).size \in Nat
              /\ ImportsOf(id) \in
                   Seq([path : Seq(STRING), to : SourceIds \cup {Nowhere}, namespace : STRING])
              /\ PathsOf(id) \in Seq(Seq(STRING) \ {<<>>})
  BY DEF IsProject, Provided, SourceIds, SourceOf, ImportsOf, PathsOf

LEMMA PathFacts ==
  ASSUME IsProject(project), NEW id \in SourceIds
  PROVE  /\ Len(PathsOf(id)) \in Nat /\ DOMAIN PathsOf(id) = 1..Len(PathsOf(id))
         /\ Len(ImportsOf(id)) \in Nat /\ DOMAIN ImportsOf(id) = 1..Len(ImportsOf(id))
         /\ \A n \in DOMAIN PathsOf(id) :
              /\ n \in Nat \ {0}
              /\ PathsOf(id)[n] \in Seq(STRING) /\ Len(PathsOf(id)[n]) \in Nat \ {0}
              /\ \A k \in 1..Len(PathsOf(id)[n]) :
                   k \in Nat \ {0} /\ SubSeq(PathsOf(id)[n], 1, k) \in Seq(STRING)
<1>1. /\ PathsOf(id) \in Seq(Seq(STRING) \ {<<>>})
      /\ ImportsOf(id) \in
           Seq([path : Seq(STRING), to : SourceIds \cup {Nowhere}, namespace : STRING])
  BY ProjectFacts, Zenon
<1>2. \A n \in DOMAIN PathsOf(id) : PathsOf(id)[n] \in Seq(STRING) \ {<<>>}
  BY <1>1, Element, Zenon
<1>3. /\ Len(PathsOf(id)) \in Nat /\ DOMAIN PathsOf(id) = 1..Len(PathsOf(id))
  BY <1>1
<1>4. Len(ImportsOf(id)) \in Nat /\ DOMAIN ImportsOf(id) = 1..Len(ImportsOf(id))
  BY <1>1, LenProperties
<1>5. ASSUME NEW n \in DOMAIN PathsOf(id)
      PROVE  /\ n \in Nat \ {0}
             /\ PathsOf(id)[n] \in Seq(STRING) /\ Len(PathsOf(id)[n]) \in Nat \ {0}
             /\ \A k \in 1..Len(PathsOf(id)[n]) :
                  k \in Nat \ {0} /\ SubSeq(PathsOf(id)[n], 1, k) \in Seq(STRING)
  <2> DEFINE path == PathsOf(id)[n]
  <2>1. path \in Seq(STRING) /\ path # <<>>
    BY <1>2
  <2> HIDE DEF path
  <2>2. Len(path) \in Nat \ {0}
    BY <2>1, EmptySeq, LenProperties
  <2>3. \A k \in 1..Len(path) : k \in Nat \ {0} /\ SubSeq(path, 1, k) \in Seq(STRING)
    BY <2>1, <2>2
  <2> QED
    BY <1>3, <2>1, <2>2, <2>3 DEF path
<1> QED
  BY <1>3, <1>4, <1>5

(* What is only about the project stays as it is. *)
LEMMA SameProject ==
  ASSUME project' = project
  PROVE  /\ SourceIds' = SourceIds
         /\ IsProject(project)' = IsProject(project)
         /\ \A id : /\ SourceOf(id)' = SourceOf(id) /\ ImportsOf(id)' = ImportsOf(id)
                    /\ PathsOf(id)' = PathsOf(id)
                    /\ Provided(id)' = Provided(id)
         /\ Reachable' = Reachable
         /\ Cyclic(Reachable)' = Cyclic(Reachable)
         /\ Erroneous(Reachable)' = Erroneous(Reachable)
<1>1. SourceIds' = SourceIds /\ IsProject(project)' = IsProject(project)
  BY DEF SourceIds
<1>2. \A id : /\ SourceOf(id)' = SourceOf(id) /\ ImportsOf(id)' = ImportsOf(id)
              /\ PathsOf(id)' = PathsOf(id) /\ Provided(id)' = Provided(id)
  BY DEF SourceOf, ImportsOf, PathsOf, Provided
<1>3. \A id : Imported(id)' = Imported(id) /\ NamedPaths(id)' = NamedPaths(id)
  BY <1>2 DEF Imported, NamedPaths
<1>4. \A id : LeadsTo(id)' = LeadsTo(id)
  BY <1>3 DEF LeadsTo, NamedLibraries
<1>5. Reachable' = Reachable
  BY <1>1, <1>4 DEF Reachable
<1>6. Cyclic(Reachable)' = Cyclic(Reachable)
  BY <1>3, <1>5 DEF Cyclic, Circular
<1>7. Erroneous(Reachable)' = Erroneous(Reachable)
  BY <1>2, <1>5 DEF Erroneous, Invalid
<1> QED
  BY <1>1, <1>2, <1>5, <1>6, <1>7

LEMMA RootReached ==
  ASSUME IsProject(project)
  PROVE  project.root \in Reachable
  BY ProjectFacts DEF Reachable

LEMMA ReachStep ==
  ASSUME NEW id \in Reachable, NEW x \in LeadsTo(id) \cap SourceIds
  PROVE  x \in Reachable
  BY DEF Reachable

LEMMA ReachLeast ==
  ASSUME NEW S \in SUBSET SourceIds, project.root \in S,
         \A id \in S : LeadsTo(id) \subseteq S
  PROVE  Reachable \subseteq S
  BY DEF Reachable

LEMMA ImportedFrom ==
  ASSUME IsProject(project), NEW id \in SourceIds, NEW k \in DOMAIN ImportsOf(id),
         ImportsOf(id)[k].to # Nowhere
  PROVE  /\ ImportsOf(id)[k].to \in SourceIds
         /\ ImportsOf(id)[k].to \in Imported(id)
         /\ ImportsOf(id)[k].to \in LeadsTo(id)
<1>1. ImportsOf(id)[k] \in [path : Seq(STRING), to : SourceIds \cup {Nowhere}, namespace : STRING]
  BY ProjectFacts, Element, Zenon
<1>2. ImportsOf(id)[k].to \in SourceIds
  BY <1>1
<1>3. ImportsOf(id)[k].to \in Imported(id)
  BY DEF Imported
<1> QED
  BY <1>2, <1>3 DEF LeadsTo

LEMMA NamedFrom ==
  ASSUME IsProject(project), NEW id \in SourceIds, NEW n \in DOMAIN PathsOf(id),
         NEW k \in 1..Len(PathsOf(id)[n]), Provided(SubSeq(PathsOf(id)[n], 1, k))
  PROVE  /\ project.library[SubSeq(PathsOf(id)[n], 1, k)] \in SourceIds
         /\ project.library[SubSeq(PathsOf(id)[n], 1, k)] \in LeadsTo(id)
<1>1. SubSeq(PathsOf(id)[n], 1, k) \in NamedPaths(id)
  BY DEF NamedPaths
<1> QED
  BY <1>1, ProjectFacts DEF NamedLibraries, LeadsTo, Provided

(* --- Adding a source. --- *)
FileType == [id : SourceIds, library : Seq(STRING)]
EdgesType == Seq([namespace : STRING, to : Nat])

(* What Add does: a source more or none, and a place for it. *)
LEMMA AddFacts ==
  ASSUME LoadTypeOK, \A i, j \in DOMAIN files : files[i].id = files[j].id => i = j,
         Len(edges) = Len(files),
         NEW id \in SourceIds, NEW library \in Seq(STRING), Add(id, library)
  PROVE  /\ files' \in Seq(FileType) /\ bytes' \in Nat
         /\ \A i \in DOMAIN files : i \in DOMAIN files' /\ files'[i] = files[i]
         /\ \A i \in DOMAIN files' : i \notin DOMAIN files => files'[i].id = id
         /\ \A i, j \in DOMAIN files' : files'[i].id = files'[j].id => i = j
         /\ IndexOf(id) \in DOMAIN files' /\ files'[IndexOf(id)].id = id
         /\ Len(files) <= Len(files')
         /\ EdgesWith(id) \in Seq(EdgesType) /\ Len(EdgesWith(id)) = Len(files')
         /\ \A i \in DOMAIN files : EdgesWith(id)[i] = edges[i]
         /\ \A i \in DOMAIN files' : i \notin DOMAIN files => EdgesWith(id)[i] = <<>>
         /\ Loaded(id)'
         /\ \A x : Loaded(x) => Loaded(x)'
<1> DEFINE file == [id |-> id, library |-> library]
<1>1. /\ files \in Seq(FileType) /\ edges \in Seq(EdgesType) /\ bytes \in Nat
      /\ SourceOf(id).size \in Nat /\ file \in FileType
  BY ProjectFacts DEF LoadTypeOK, FileType, EdgesType
<1>2. DOMAIN files = 1..Len(files) /\ Len(files) \in Nat
  BY <1>1
<1>3. CASE Loaded(id)
  <2>1. files' = files /\ bytes' = bytes /\ EdgesWith(id) = edges
    BY <1>3 DEF Add, EdgesWith
  <2>2. IndexOf(id) \in DOMAIN files /\ files[IndexOf(id)].id = id
    BY <1>3 DEF IndexOf, Loaded
  <2>3. \A x : Loaded(x)' = Loaded(x)
    BY <2>1 DEF Loaded
  <2> QED
    BY <1>1, <1>2, <1>3, <2>1, <2>2, <2>3
<1>4. CASE ~Loaded(id)
  <2> HIDE DEF file
  <2>1. files' = Append(files, file) /\ EdgesWith(id) = Append(edges, <<>>)
        /\ bytes' = bytes + SourceOf(id).size /\ IndexOf(id) = Len(files) + 1
    BY <1>4 DEF Add, EdgesWith, IndexOf, file
  <2>2. /\ files' \in Seq(FileType) /\ Len(files') = Len(files) + 1
        /\ \A i \in 1..Len(files) : files'[i] = files[i]
        /\ files'[Len(files) + 1] = file
    BY <1>1, <2>1, AppendProperties
  <2>3. DOMAIN files' = 1..(Len(files) + 1)
    BY <2>2
  <2>4. file.id = id
    BY DEF file
  <2>5. <<>> \in EdgesType
    BY DEF EdgesType
  <2>6. /\ EdgesWith(id) \in Seq(EdgesType) /\ Len(EdgesWith(id)) = Len(edges) + 1
        /\ \A i \in 1..Len(edges) : EdgesWith(id)[i] = edges[i]
        /\ EdgesWith(id)[Len(edges) + 1] = <<>>
    BY <1>1, <2>1, <2>5, AppendProperties
  <2>7. \A i \in DOMAIN files : files[i].id # id
    BY <1>4 DEF Loaded
  <2>8. \A i, j \in DOMAIN files' : files'[i].id = files'[j].id => i = j
    BY <1>2, <2>2, <2>3, <2>4, <2>7
  <2>9. Loaded(id)' /\ \A x : Loaded(x) => Loaded(x)'
    BY <1>2, <2>2, <2>3, <2>4 DEF Loaded
  <2> QED
    BY <1>1, <1>2, <2>1, <2>2, <2>3, <2>4, <2>6, <2>8, <2>9
<1> QED
  BY <1>3, <1>4

(* --- The inductive invariant. --- *)
LEMMA Nothing ==
  ASSUME NEW s, s = <<>>
  PROVE  /\ Len(s) = 0 /\ DOMAIN s = {}
         /\ \A T : s \in Seq(T)
<1>1. Len(<<>>) = 0 /\ <<>> \in Seq({})
  BY EmptySeq, LenProperties
<1>2. DOMAIN <<>> = {}
  BY <1>1, LenProperties
<1>3. \A T : <<>> \in Seq(T)
  BY EmptySeq
<1> QED
  BY <1>1, <1>2, <1>3

LEMMA InitInvariant == LoadInit => LoadInv
<1> SUFFICES ASSUME LoadInit PROVE LoadInv
  OBVIOUS
<1>1. IsProject(project)
  BY ProjectsAssumption DEF LoadInit
<1>2. files = <<>> /\ edges = <<>> /\ states = <<>> /\ stack = <<>>
  BY DEF LoadInit
<1>3. DOMAIN libraries = {} /\ libraries \in [{} -> Nat]
  BY DEF LoadInit
<1>4. /\ phase = "start" /\ refusal = "none" /\ bytes = 0 /\ index = 1
      /\ imported = 0 /\ named = 0 /\ segments = 0
  BY DEF LoadInit
<1>5. Len(files) = 0 /\ Len(edges) = 0 /\ DOMAIN files = {}
  BY <1>2, Nothing
<1>6. LoadTypeOK
  <2>1. libraries \in [DOMAIN libraries -> Nat] /\ DOMAIN libraries \subseteq Seq(STRING)
    BY <1>3
  <2>2. /\ files \in Seq([id : SourceIds, library : Seq(STRING)])
        /\ edges \in Seq(Seq([namespace : STRING, to : Nat]))
        /\ states \in Seq({"new", "visiting", "visited"})
        /\ stack \in Seq([node : Nat \ {0}, next : Nat \ {0}])
    BY <1>2, Nothing, Zenon
  <2>3. /\ phase \in {"start", "load", "search", "loaded", "refused"}
        /\ refusal \in {"none", "E0010", "E0233", "cycle"}
        /\ bytes \in Nat /\ index \in Nat \ {0}
        /\ imported \in Nat /\ named \in Nat /\ segments \in Nat
    BY <1>4
  <2> QED
    BY <1>1, <2>1, <2>2, <2>3, Zenon DEF LoadTypeOK
<1>7. FilesInv
  BY <1>2, <1>3, <1>4, <1>5 DEF FilesInv
<1>8. ScanInv
  BY <1>4, <1>5 DEF ScanInv
<1>9. SearchInv /\ RefusalInv
  BY <1>4 DEF SearchInv, RefusalInv
<1> QED
  BY <1>6, <1>7, <1>8, <1>9 DEF LoadInv

(* What is about the loader alone stays true while the loader does. *)
LEMMA SameLoader ==
  ASSUME UNCHANGED <<project, loaderVars>>
  PROVE  /\ ScanInv => ScanInv'
         /\ \A x : Loaded(x)' = Loaded(x)
         /\ NamespacesValid' = NamespacesValid
<1>1. /\ project' = project /\ files' = files /\ edges' = edges /\ libraries' = libraries
      /\ index' = index /\ imported' = imported /\ named' = named /\ segments' = segments
  BY DEF loaderVars
<1>2. \A i, n, k : Past(i, n, k)' = Past(i, n, k)
  BY <1>1 DEF Past
<1>3. \A i : Taken(i)' = Taken(i)
  BY <1>1, SameProject DEF Taken
<1>4. \A i, k : EdgeExact(i, k)' = EdgeExact(i, k)
  BY <1>1, SameProject DEF EdgeExact
<1>5. \A x : Loaded(x)' = Loaded(x)
  BY <1>1 DEF Loaded
<1>6. ASSUME ScanInv PROVE ScanInv'
  BY <1>1, <1>2, <1>3, <1>4, <1>6, SameProject DEF ScanInv, ScannedAt
<1>7. NamespacesValid' = NamespacesValid
  BY <1>1 DEF NamespacesValid
<1> QED
  BY <1>5, <1>6, <1>7

LEMMA SameSearch ==
  ASSUME files' = files, edges' = edges, states' = states, stack' = stack
  PROVE  /\ StackInv' = StackInv /\ VisitedAt' = VisitedAt
         /\ \A i, k : Target(i, k)' = Target(i, k)
         /\ \A S : CircularAt(S)' = CircularAt(S)
<1>1. \A i, k : Target(i, k)' = Target(i, k)
  BY DEF Target
<1>2. VisitedAt' = VisitedAt
  BY DEF VisitedAt
<1>3. \A S : CircularAt(S)' = CircularAt(S)
  BY <1>1 DEF CircularAt
<1>4. StackInv' = StackInv
  BY <1>1 DEF StackInv, OnPath
<1> QED
  BY <1>1, <1>2, <1>3, <1>4

LEMMA StutterInvariant ==
  ASSUME LoadInv, UNCHANGED loadVars
  PROVE  LoadInv'
<1>1. /\ project' = project /\ phase' = phase /\ refusal' = refusal /\ files' = files
      /\ edges' = edges /\ libraries' = libraries /\ bytes' = bytes /\ index' = index
      /\ imported' = imported /\ named' = named /\ segments' = segments
      /\ states' = states /\ stack' = stack
  BY DEF loadVars, loaderVars, searchVars
<1>2. LoadTypeOK'
  BY <1>1, SameProject DEF LoadInv, LoadTypeOK
<1>3. FilesInv'
  BY <1>1, SameProject DEF LoadInv, FilesInv, Loaded
<1>4. ScanInv'
  BY <1>1, SameLoader DEF LoadInv, loaderVars
<1>5. SearchInv'
  BY <1>1, SameLoader, SameSearch DEF LoadInv, SearchInv, loaderVars
<1>6. RefusalInv'
  BY <1>1, SameProject DEF LoadInv, RefusalInv
<1> QED
  BY <1>2, <1>3, <1>4, <1>5, <1>6 DEF LoadInv

LEMMA RefuseInvariant ==
  ASSUME LoadInv, NEW code \in {"E0010", "E0233", "cycle"}, Refuse(code),
         code = "cycle" => Cyclic(Reachable), code = "E0233" => Erroneous(Reachable)
  PROVE  LoadInv'
<1>1. /\ project' = project /\ phase' = "refused" /\ refusal' = code /\ files' = files
      /\ edges' = edges /\ libraries' = libraries /\ bytes' = bytes /\ index' = index
      /\ imported' = imported /\ named' = named /\ segments' = segments
      /\ states' = states /\ stack' = stack
  BY DEF Refuse, loaderVars, searchVars
<1>2. LoadTypeOK'
  BY <1>1, SameProject DEF LoadInv, LoadTypeOK
<1>3. FilesInv'
  BY <1>1, SameProject DEF LoadInv, FilesInv, Loaded
<1>4. ScanInv'
  BY <1>1, SameLoader DEF LoadInv, loaderVars
<1>5. SearchInv'
  BY <1>1 DEF SearchInv
<1>6. RefusalInv'
  BY <1>1, SameProject DEF RefusalInv
<1> QED
  BY <1>2, <1>3, <1>4, <1>5, <1>6 DEF LoadInv

(* The type invariant after a step that adds a source. *)
LEMMA AddTypeOK ==
  ASSUME LoadInv, project' = project,
         NEW id \in SourceIds, NEW library \in Seq(STRING), Add(id, library),
         phase' \in {"start", "load", "search", "loaded", "refused"}, refusal' = refusal,
         edges' \in Seq(EdgesType),
         libraries' \in [DOMAIN libraries' -> Nat], DOMAIN libraries' \subseteq Seq(STRING),
         index' = index, imported' \in Nat, named' \in Nat, segments' \in Nat,
         UNCHANGED searchVars
  PROVE  LoadTypeOK'
<1>1. files' \in Seq(FileType) /\ bytes' \in Nat
  BY AddFacts DEF LoadInv, FilesInv, ScanInv
<1>2. files' \in Seq([id : SourceIds, library : Seq(STRING)])
  BY <1>1 DEF FileType
<1>3. edges' \in Seq(Seq([namespace : STRING, to : Nat]))
  BY DEF EdgesType
<1>4. states' = states /\ stack' = stack
  BY DEF searchVars
<1> QED
  BY <1>1, <1>2, <1>3, <1>4, SameProject DEF LoadInv, LoadTypeOK

(* The loaded sources stay reached and distinct. *)
LEMMA AddFilesInv ==
  ASSUME LoadInv, project' = project,
         NEW id \in Reachable, NEW library \in Seq(STRING), Add(id, library),
         phase' = "load", phase = "load" \/ id = project.root,
         \A p \in DOMAIN libraries' :
            p \in DOMAIN libraries \/ ~Provided(p) \/ project.library[p] = id
  PROVE  FilesInv'
<1>0. id \in SourceIds
  BY DEF Reachable
<1>1. /\ \A i \in DOMAIN files : i \in DOMAIN files' /\ files'[i] = files[i]
      /\ \A i \in DOMAIN files' : i \notin DOMAIN files => files'[i].id = id
      /\ \A i, j \in DOMAIN files' : files'[i].id = files'[j].id => i = j
      /\ Loaded(id)'
      /\ \A x : Loaded(x) => Loaded(x)'
  BY <1>0, AddFacts DEF LoadInv, FilesInv, ScanInv
<1>2. \A i \in DOMAIN files' : files'[i].id \in Reachable'
  BY <1>1, SameProject DEF LoadInv, FilesInv
<1>3. Loaded(project.root)'
  BY <1>1 DEF LoadInv, FilesInv
<1>4. \A p \in DOMAIN libraries' : Provided(p)' => Loaded(project.library[p])'
  BY <1>1, SameProject DEF LoadInv, FilesInv
<1> QED
  BY <1>1, <1>2, <1>3, <1>4 DEF FilesInv

LEMMA LoadRootInvariant ==
  ASSUME LoadInv, LoadRoot
  PROVE  LoadInv'
<1>1. CASE ~CanAdd(project.root)
  BY <1>1, RefuseInvariant DEF LoadRoot
<1>2. CASE CanAdd(project.root)
  <2>1. /\ phase = "start" /\ phase' = "load" /\ project' = project /\ refusal' = refusal
        /\ Add(project.root, <<>>) /\ edges' = EdgesWith(project.root)
        /\ libraries' = libraries /\ index' = index /\ imported' = imported
        /\ named' = named /\ segments' = segments /\ UNCHANGED searchVars
    BY <1>2 DEF LoadRoot
  <2>2. /\ project.root \in SourceIds /\ <<>> \in Seq(STRING)
        /\ project.root \in Reachable
    BY ProjectFacts, RootReached, EmptySeq, Zenon DEF LoadInv, LoadTypeOK
  <2>3. /\ edges' \in Seq(EdgesType) /\ Len(edges') = Len(files')
        /\ \A i \in DOMAIN files' : i \notin DOMAIN files => edges'[i] = <<>>
        /\ files' \in Seq(FileType)
    BY <2>1, <2>2, AddFacts DEF LoadInv, FilesInv, ScanInv
  <2>4. LoadTypeOK'
    BY <2>1, <2>2, <2>3, AddTypeOK DEF LoadInv, LoadTypeOK
  <2>5. FilesInv'
    BY <2>1, <2>2, AddFilesInv
  <2>6. ScanInv'
    <3>1. files = <<>> /\ DOMAIN files = {} /\ Len(files) = 0
      BY <2>1, Nothing DEF LoadInv, FilesInv
    <3>2. index = 1 /\ imported = 0 /\ named = 0 /\ segments = 0
      BY <3>1 DEF LoadInv, LoadTypeOK, ScanInv
    <3>3. Loaded(project.root)' /\ DOMAIN files' = 1..Len(files') /\ Len(files') \in Nat
      BY <2>1, <2>3, <2>5 DEF FilesInv
    <3>4. 1 \in DOMAIN files' /\ Len(files') >= 1
      BY <3>3 DEF Loaded
    <3>5. \A i \in DOMAIN files' : edges'[i] = <<>> /\ Len(edges'[i]) = 0
      BY <3>1, <2>3, Nothing
    <3>6. \A i \in DOMAIN files' : Taken(i)' = 0
      BY <2>1, <3>2, <3>3 DEF Taken
    <3>7. \A i \in DOMAIN files', n \in Nat \ {0}, k \in Nat \ {0} : ~Past(i, n, k)'
      BY <2>1, <3>2, <3>3 DEF Past
    <3>8. \A i \in DOMAIN files' :
            /\ files'[i].id \in SourceIds
            /\ ImportsOf(files[i].id)' = ImportsOf(files'[i].id)
            /\ PathsOf(files[i].id)' = PathsOf(files'[i].id)
      <4>1. \A i \in DOMAIN files' : files'[i] \in FileType
        BY <2>3, Element, Zenon
      <4> QED
        BY <4>1, <2>1, SameProject DEF FileType
    <3>9. /\ imported' <= Len(ImportsOf(files[1].id)')
          /\ named' <= Len(PathsOf(files[1].id)')
      BY <2>1, <3>2, <3>4, <3>8, PathFacts DEF LoadInv, LoadTypeOK
    <3>10. \A i \in DOMAIN files' : \A k \in 1..Taken(i)' : FALSE
      BY <3>6
    <3>11. \A i \in DOMAIN files' : \A n \in DOMAIN PathsOf(files[i].id)' :
             \A k \in 1..Len(PathsOf(files[i].id)'[n]) : ~Past(i, n, k)'
      BY <3>7, <3>8, PathFacts DEF LoadInv, LoadTypeOK
    <3> QED
      BY <2>1, <2>3, <3>2, <3>3, <3>4, <3>5, <3>6, <3>9, <3>10, <3>11 DEF ScanInv, ScannedAt
  <2>7. SearchInv' /\ RefusalInv'
    BY <2>1, SameProject DEF LoadInv, SearchInv, RefusalInv
  <2> QED
    BY <2>4, <2>5, <2>6, <2>7 DEF LoadInv
<1> QED
  BY <1>1, <1>2

(* The source that is scanned. *)
LEMMA ScanningFacts ==
  ASSUME LoadInv, Scanning
  PROVE  /\ index \in DOMAIN files /\ index \in Nat \ {0} /\ phase = "load"
         /\ DOMAIN files = 1..Len(files) /\ Len(files) \in Nat
         /\ DOMAIN edges = DOMAIN files
         /\ Importer = files[index].id /\ Importer \in SourceIds /\ Importer \in Reachable
         /\ \A i \in DOMAIN files : files[i].id \in SourceIds
         /\ \A i \in DOMAIN files : edges[i] \in EdgesType /\ Len(edges[i]) \in Nat
<1>1. /\ files \in Seq(FileType) /\ edges \in Seq(EdgesType) /\ index \in Nat \ {0}
      /\ Len(edges) = Len(files)
  BY DEF LoadInv, LoadTypeOK, ScanInv, FileType, EdgesType
<1>2. /\ DOMAIN files = 1..Len(files) /\ Len(files) \in Nat
      /\ DOMAIN edges = DOMAIN files
  BY <1>1
<1>3. index \in DOMAIN files /\ phase = "load"
  BY <1>1, <1>2 DEF Scanning
<1>4. \A i \in DOMAIN files : files[i] \in FileType /\ edges[i] \in EdgesType
  BY <1>1, <1>2, Element, Zenon
<1>5. \A i \in DOMAIN files : files[i].id \in SourceIds /\ Len(edges[i]) \in Nat
  BY <1>4, LenProperties DEF FileType, EdgesType
<1>6. files[index].id \in Reachable
  BY <1>3 DEF LoadInv, FilesInv
<1> QED
  BY <1>1, <1>2, <1>3, <1>4, <1>5, <1>6 DEF Importer

LEMMA RefuseImportInvariant ==
  ASSUME LoadInv, RefuseImport
  PROVE  LoadInv'
<1>1. Scanning /\ ~ImportsLoaded
  BY DEF RefuseImport
<1>2. PICK code \in {"E0010", "E0233"} :
        /\ Refuse(code)
        /\ code = "E0233" => Provided(NextImport.path) \/ NextImport.to = Nowhere
  BY DEF RefuseImport
<1>3. /\ index \in DOMAIN files /\ Importer = files[index].id
      /\ Importer \in SourceIds /\ Importer \in Reachable
  BY <1>1, ScanningFacts
<1>4. imported \in Nat /\ imported <= Len(ImportsOf(Importer))
  BY <1>3 DEF LoadInv, LoadTypeOK, ScanInv
<1>5. imported + 1 \in DOMAIN ImportsOf(Importer)
  BY <1>1, <1>3, <1>4, PathFacts DEF ImportsLoaded, LoadInv, LoadTypeOK
<1>6. code = "E0233" => Invalid(ImportsOf(Importer)[imported + 1])
  BY <1>2 DEF Invalid, NextImport
<1>7. code = "E0233" => Erroneous(Reachable)
  BY <1>3, <1>5, <1>6 DEF Erroneous
<1> QED
  BY <1>2, <1>7, RefuseInvariant

LEMMA RefuseLibraryInvariant ==
  ASSUME LoadInv, RefuseLibrary
  PROVE  LoadInv'
  BY RefuseInvariant DEF RefuseLibrary

(* A step of the scan leaves the other sources as they are. *)
LEMMA ScannedElsewhere ==
  ASSUME LoadInv, Scanning, project' = project, index' = index,
         \A i \in DOMAIN files : i \in DOMAIN files' /\ files'[i] = files[i],
         DOMAIN files' = 1..Len(files'), Len(files') \in Nat,
         DOMAIN libraries \subseteq DOMAIN libraries',
         NEW i \in DOMAIN files', i # index,
         edges'[i] = IF i \in DOMAIN files THEN edges[i] ELSE <<>>
  PROVE  ScannedAt(i)'
<1>1. /\ index \in DOMAIN files /\ index \in Nat \ {0}
      /\ DOMAIN files = 1..Len(files) /\ Len(files) \in Nat
  BY ScanningFacts
<1>2. \A n, k : Past(i, n, k)' <=> i < index
  BY DEF Past
<1>3. CASE i \in DOMAIN files
  <2>1. files'[i] = files[i] /\ edges'[i] = edges[i]
    BY <1>3
  <2>2. Taken(i)' = Taken(i)
    BY <2>1, SameProject DEF Taken
  <2>3. /\ Len(edges[i]) = Taken(i)
        /\ \A k \in 1..Taken(i) : EdgeExact(i, k)
        /\ \A n \in DOMAIN PathsOf(files[i].id) :
             \A k \in 1..Len(PathsOf(files[i].id)[n]) :
               Past(i, n, k) => SubSeq(PathsOf(files[i].id)[n], 1, k) \in DOMAIN libraries
    BY <1>3 DEF LoadInv, ScanInv, ScannedAt
  <2>4. \A k \in 1..Taken(i)' : EdgeExact(i, k)'
    BY <2>1, <2>2, <2>3, SameProject DEF EdgeExact
  <2>5. \A n, k : Past(i, n, k)' => Past(i, n, k)
    BY <1>2 DEF Past
  <2>6. \A n \in DOMAIN PathsOf(files[i].id)' :
          \A k \in 1..Len(PathsOf(files[i].id)'[n]) :
            Past(i, n, k)' => SubSeq(PathsOf(files[i].id)'[n], 1, k) \in DOMAIN libraries'
    BY <2>1, <2>3, <2>5, SameProject
  <2> QED
    BY <2>1, <2>2, <2>3, <2>4, <2>6 DEF ScannedAt
<1>4. CASE i \notin DOMAIN files
  <2>1. i > index
    BY <1>1, <1>4
  <2>2. Taken(i)' = 0 /\ \A n, k : ~Past(i, n, k)'
    BY <1>1, <1>2, <2>1 DEF Taken
  <2>3. edges'[i] = <<>>
    BY <1>4
  <2>4. Len(edges'[i]) = 0
    BY <2>3, Nothing
  <2> QED
    BY <2>2, <2>4 DEF ScannedAt
<1> QED
  BY <1>3, <1>4

LEMMA AskedFacts ==
  ASSUME LoadTypeOK, NEW path \in Seq(STRING), NEW answer \in Nat,
         NEW asked \in {Asked(path, answer), AskedOnce(path)}
  PROVE  /\ DOMAIN asked = DOMAIN libraries \cup {path}
         /\ asked \in [DOMAIN asked -> Nat]
<1>1. libraries \in [DOMAIN libraries -> Nat]
  BY DEF LoadTypeOK
<1>2. \A a \in Nat : /\ DOMAIN Asked(path, a) = DOMAIN libraries \cup {path}
                     /\ Asked(path, a) \in [DOMAIN libraries \cup {path} -> Nat]
  BY <1>1 DEF Asked
<1>3. (asked = libraries /\ path \in DOMAIN libraries) \/ \E a \in Nat : asked = Asked(path, a)
  BY DEF AskedOnce
<1> QED
  BY <1>1, <1>2, <1>3

LEMMA LoadImportInvariant ==
  ASSUME LoadInv, LoadImport
  PROVE  LoadInv'
<1> DEFINE to == NextImport.to
           edge == [namespace |-> NextImport.namespace, to |-> IndexOf(to)]
<1>1. /\ Scanning /\ ~ImportsLoaded /\ ~Provided(NextImport.path) /\ to # Nowhere
      /\ Add(to, <<>>)
      /\ edges' = [EdgesWith(to) EXCEPT ![index] = Append(@, edge)]
      /\ libraries' = AskedOnce(NextImport.path) /\ imported' = imported + 1
      /\ project' = project /\ phase' = phase /\ refusal' = refusal /\ index' = index
      /\ named' = named /\ segments' = segments /\ UNCHANGED searchVars
  BY DEF LoadImport
<1>2. /\ index \in DOMAIN files /\ index \in Nat \ {0} /\ phase = "load"
      /\ DOMAIN files = 1..Len(files) /\ Len(files) \in Nat
      /\ Importer = files[index].id /\ Importer \in SourceIds /\ Importer \in Reachable
      /\ \A i \in DOMAIN files : edges[i] \in EdgesType
  BY <1>1, ScanningFacts
<1>3. IsProject(project) /\ LoadTypeOK /\ imported \in Nat
  BY DEF LoadInv, LoadTypeOK
<1>4. imported + 1 \in DOMAIN ImportsOf(Importer)
  <2>1. imported <= Len(ImportsOf(Importer)) /\ imported # Len(ImportsOf(Importer))
    BY <1>1, <1>2 DEF LoadInv, ScanInv, ImportsLoaded
  <2> QED
    BY <2>1, <1>2, <1>3, PathFacts
<1>5. /\ NextImport \in [path : Seq(STRING), to : SourceIds \cup {Nowhere}, namespace : STRING]
  BY <1>2, <1>3, <1>4, ProjectFacts, Element, Zenon DEF NextImport
<1>6. to \in SourceIds /\ to \in Reachable
  <2>1. to \in SourceIds /\ to \in LeadsTo(Importer)
    BY <1>1, <1>2, <1>3, <1>4, ImportedFrom DEF NextImport
  <2> QED
    BY <2>1, <1>2, ReachStep
<1>7. <<>> \in Seq(STRING)
  BY EmptySeq
<1> HIDE DEF to
<1>8. /\ files' \in Seq(FileType)
      /\ \A i \in DOMAIN files : i \in DOMAIN files' /\ files'[i] = files[i]
      /\ \A i \in DOMAIN files' : i \notin DOMAIN files => files'[i].id = to
      /\ IndexOf(to) \in DOMAIN files' /\ files'[IndexOf(to)].id = to
      /\ Len(files) <= Len(files')
      /\ EdgesWith(to) \in Seq(EdgesType) /\ Len(EdgesWith(to)) = Len(files')
      /\ \A i \in DOMAIN files : EdgesWith(to)[i] = edges[i]
      /\ \A i \in DOMAIN files' : i \notin DOMAIN files => EdgesWith(to)[i] = <<>>
  BY <1>1, <1>3, <1>6, <1>7, AddFacts DEF LoadInv, FilesInv, ScanInv
<1>9. DOMAIN files' = 1..Len(files') /\ Len(files') \in Nat
  BY <1>8
<1>10. edge \in [namespace : STRING, to : Nat]
  BY <1>5, <1>8, <1>9
<1> HIDE DEF edge
<1>11. Append(edges[index], edge) \in EdgesType
  BY <1>2, <1>10, AppendProperties DEF EdgesType
<1>12. /\ edges' \in Seq(EdgesType) /\ Len(edges') = Len(files')
       /\ edges'[index] = Append(edges[index], edge)
       /\ \A i \in DOMAIN files' : i # index =>
            edges'[i] = IF i \in DOMAIN files THEN edges[i] ELSE <<>>
  BY <1>1, <1>2, <1>8, <1>9, <1>11
<1>13. /\ DOMAIN libraries' = DOMAIN libraries \cup {NextImport.path}
       /\ libraries' \in [DOMAIN libraries' -> Nat]
       /\ DOMAIN libraries' \subseteq Seq(STRING)
  <2>1. NextImport.path \in Seq(STRING)
    BY <1>5
  <2>2. /\ DOMAIN libraries' = DOMAIN libraries \cup {NextImport.path}
        /\ libraries' \in [DOMAIN libraries' -> Nat]
    BY <1>1, <1>3, <2>1, AskedFacts
  <2> QED
    BY <1>3, <2>1, <2>2 DEF LoadTypeOK
<1>14. LoadTypeOK'
  <2>1. /\ phase' \in {"start", "load", "search", "loaded", "refused"} /\ imported' \in Nat
        /\ named' \in Nat /\ segments' \in Nat
    BY <1>1, <1>2, <1>3 DEF LoadTypeOK
  <2> QED
    BY <2>1, <1>1, <1>6, <1>7, <1>12, <1>13, AddTypeOK
<1>15. FilesInv'
  BY <1>1, <1>2, <1>6, <1>7, <1>13, AddFilesInv
<1>16. PICK j \in DOMAIN files : j = index
  BY <1>2
<1>17. ScannedAt(j)'
  <2>1. /\ Len(edges[j]) = imported
        /\ \A k \in 1..imported : EdgeExact(j, k)
        /\ \A n \in DOMAIN PathsOf(files[j].id) :
             \A k \in 1..Len(PathsOf(files[j].id)[n]) :
               Past(j, n, k) => SubSeq(PathsOf(files[j].id)[n], 1, k) \in DOMAIN libraries
    BY <1>2, <1>16 DEF LoadInv, ScanInv, ScannedAt, Taken
  <2>2. Taken(j)' = imported + 1
    BY <1>1, <1>2, <1>16 DEF Taken
  <2>3. files'[j] = files[j]
    BY <1>8
  <2>4. /\ Len(edges'[j]) = imported + 1
        /\ edges'[j][imported + 1] = edge
        /\ \A k \in 1..imported : edges'[j][k] = edges[j][k]
    <3>1. edges[j] \in Seq([namespace : STRING, to : Nat]) /\ edges'[j] = Append(edges[j], edge)
      BY <1>2, <1>12, <1>16 DEF EdgesType
    <3> QED
      BY <3>1, <2>1, <1>10, AppendProperties
  <2>5. ASSUME NEW k \in 1..imported PROVE EdgeExact(j, k)'
    <3>1. EdgeExact(j, k) /\ edges'[j][k] = edges[j][k]
      BY <2>1, <2>4
    <3> QED
      BY <1>1, <1>8, <2>3, <3>1 DEF EdgeExact, Provided, ImportsOf, SourceOf
  <2>6. ASSUME NEW k, k = imported + 1 PROVE EdgeExact(j, k)'
    <3>1. /\ edges'[j][k].to = IndexOf(to)
          /\ edges'[j][k].namespace = NextImport.namespace
      BY <2>4, <2>6 DEF edge
    <3>2. NextImport = ImportsOf(files'[j].id)[k]
      BY <1>2, <1>16, <2>3, <2>6 DEF NextImport
    <3>3. ImportsOf(files[j].id)'[k] = NextImport
      BY <1>1, <3>2, SameProject
    <3>4. files'[edges'[j][k].to].id = NextImport.to
      BY <1>8, <3>1 DEF to
    <3>5. ~Provided(ImportsOf(files[j].id)[k].path)'
      BY <1>1, <3>3 DEF Provided
    <3> QED
      BY <1>8, <3>1, <3>3, <3>4, <3>5 DEF EdgeExact
  <2>7. \A k \in 1..Taken(j)' : EdgeExact(j, k)'
    <3>1. \A k \in 1..Taken(j)' : k \in 1..imported \/ k = imported + 1
      BY <1>3, <2>2
    <3> QED
      BY <3>1, <2>5, <2>6
  <2>8. \A n, k : Past(j, n, k)' = Past(j, n, k)
    BY <1>1 DEF Past
  <2> QED
    BY <1>1, <1>13, <2>1, <2>2, <2>3, <2>4, <2>7, <2>8, SameProject DEF ScannedAt
<1>18. \A i \in DOMAIN files' : ScannedAt(i)'
  BY <1>1, <1>8, <1>9, <1>12, <1>13, <1>16, <1>17, ScannedElsewhere
<1>19. ScanInv'
  <2>1. index \in DOMAIN files' /\ index <= Len(files') + 1 /\ files'[index] = files[index]
    BY <1>2, <1>8, <1>9
  <2>2. imported' <= Len(ImportsOf(files'[index].id))
    BY <1>1, <1>2, <1>3, <1>4, <2>1, PathFacts
  <2>3. /\ named <= Len(PathsOf(files[index].id))
        /\ segments # 0 => /\ named < Len(PathsOf(files[index].id))
                           /\ segments < Len(PathsOf(files[index].id)[named + 1])
    BY <1>2 DEF LoadInv, ScanInv
  <2> QED
    BY <1>1, <1>12, <1>18, <2>1, <2>2, <2>3, SameProject DEF ScanInv
<1>20. SearchInv' /\ RefusalInv'
  BY <1>1, <1>2, SameProject DEF LoadInv, SearchInv, RefusalInv
<1> QED
  BY <1>14, <1>15, <1>19, <1>20 DEF LoadInv

(* The prefix that is asked for. *)
LEMMA PrefixFacts ==
  ASSUME LoadInv, Scanning, ~PathsLoaded
  PROVE  /\ named + 1 \in DOMAIN PathsOf(Importer) /\ segments + 1 \in 1..Len(NextPath)
         /\ NextPath = PathsOf(Importer)[named + 1] /\ Len(NextPath) \in Nat \ {0}
         /\ NextPrefix = SubSeq(PathsOf(Importer)[named + 1], 1, segments + 1)
         /\ NextPrefix \in Seq(STRING)
         /\ segments + 1 # Len(NextPath) => segments + 1 < Len(NextPath)
<1>1. /\ index \in DOMAIN files /\ Importer = files[index].id /\ Importer \in SourceIds
  BY ScanningFacts
<1>2. IsProject(project) /\ named \in Nat /\ segments \in Nat
  BY DEF LoadInv, LoadTypeOK
<1>3. /\ named <= Len(PathsOf(Importer)) /\ named # Len(PathsOf(Importer))
      /\ segments # 0 => segments < Len(PathsOf(Importer)[named + 1])
  BY <1>1 DEF LoadInv, ScanInv, PathsLoaded
<1>4. named + 1 \in DOMAIN PathsOf(Importer)
  BY <1>1, <1>2, <1>3, PathFacts
<1>5. Len(PathsOf(Importer)[named + 1]) \in Nat \ {0}
  BY <1>1, <1>2, <1>4, PathFacts
<1>6. segments + 1 \in 1..Len(PathsOf(Importer)[named + 1])
  BY <1>2, <1>3, <1>5
<1>7. SubSeq(PathsOf(Importer)[named + 1], 1, segments + 1) \in Seq(STRING)
  BY <1>1, <1>2, <1>4, <1>6, PathFacts
<1> QED
  BY <1>2, <1>4, <1>5, <1>6, <1>7 DEF NextPath, NextPrefix

LEMMA LibraryScanInv ==
  ASSUME LoadInv, LoadLibrary,
         \A i \in DOMAIN files : i \in DOMAIN files' /\ files'[i] = files[i],
         DOMAIN files' = 1..Len(files'), Len(files') \in Nat, Len(edges') = Len(files'),
         \A i \in DOMAIN files' : edges'[i] = IF i \in DOMAIN files THEN edges[i] ELSE <<>>,
         DOMAIN libraries' = DOMAIN libraries \cup {NextPrefix}
  PROVE  ScanInv'
<1>1. /\ Scanning /\ ImportsLoaded /\ ~PathsLoaded
      /\ project' = project /\ index' = index /\ imported' = imported
      /\ IF segments + 1 = Len(NextPath)
         THEN named' = named + 1 /\ segments' = 0
         ELSE named' = named /\ segments' = segments + 1
  BY DEF LoadLibrary
<1>2. /\ index \in DOMAIN files /\ index \in Nat \ {0}
      /\ Importer = files[index].id /\ Importer \in SourceIds
  BY <1>1, ScanningFacts
<1>3. IsProject(project) /\ named \in Nat /\ segments \in Nat
  BY DEF LoadInv, LoadTypeOK
<1>4. /\ named + 1 \in DOMAIN PathsOf(Importer) /\ segments + 1 \in 1..Len(NextPath)
      /\ NextPath = PathsOf(Importer)[named + 1] /\ Len(NextPath) \in Nat \ {0}
      /\ NextPrefix = SubSeq(PathsOf(Importer)[named + 1], 1, segments + 1)
      /\ segments + 1 # Len(NextPath) => segments + 1 < Len(NextPath)
  BY <1>1, PrefixFacts
<1>5. PICK j \in DOMAIN files : j = index
  BY <1>2
<1>6. ScannedAt(j)'
  <2>1. ScannedAt(j) /\ files'[j] = files[j] /\ edges'[j] = edges[j] /\ j \in DOMAIN files'
    BY DEF LoadInv, ScanInv
  <2>2. Taken(j)' = Taken(j)
    BY <1>1, <2>1, SameProject DEF Taken
  <2>3. ASSUME NEW k \in 1..Taken(j) PROVE EdgeExact(j, k)'
    <3>1. EdgeExact(j, k)
      BY <2>1 DEF ScannedAt
    <3> QED
      BY <1>1, <2>1, <3>1 DEF EdgeExact, Provided, ImportsOf, SourceOf
  <2>4. ASSUME NEW n \in DOMAIN PathsOf(files[j].id), NEW k \in 1..Len(PathsOf(files[j].id)[n]),
               Past(j, n, k)'
        PROVE  SubSeq(PathsOf(files[j].id)[n], 1, k) \in DOMAIN libraries'
    <3>1. n \in Nat \ {0} /\ k \in Nat \ {0}
      BY <1>2, <1>3, <1>5, PathFacts
    <3>2. n <= named' \/ (n = named' + 1 /\ k <= segments')
      BY <1>1, <1>2, <1>5, <2>4 DEF Past
    <3>3. n = named + 1 => k <= Len(NextPath) /\ k \in Nat
      BY <1>2, <1>4, <1>5, <3>1
    <3>4. n <= named \/ (n = named + 1 /\ k <= segments) \/ (n = named + 1 /\ k = segments + 1)
      <4>1. CASE segments + 1 = Len(NextPath)
        BY <4>1, <1>1, <1>3, <3>1, <3>2, <3>3
      <4>2. CASE segments + 1 # Len(NextPath)
        BY <4>2, <1>1, <1>3, <3>1, <3>2
      <4> QED
        BY <4>1, <4>2
    <3>5. Past(j, n, k) \/ (n = named + 1 /\ k = segments + 1)
      BY <1>5, <3>4 DEF Past
    <3>6. CASE Past(j, n, k)
      BY <2>1, <3>6 DEF ScannedAt
    <3>7. CASE n = named + 1 /\ k = segments + 1
      BY <1>2, <1>4, <1>5, <3>7
    <3> QED
      BY <3>5, <3>6, <3>7
  <2> QED
    BY <1>1, <2>1, <2>2, <2>3, <2>4, SameProject DEF ScannedAt
<1>7. \A i \in DOMAIN files' : ScannedAt(i)'
  BY <1>1, <1>5, <1>6, ScannedElsewhere
<1>8. /\ named' <= Len(PathsOf(Importer))
      /\ segments' # 0 => /\ named' < Len(PathsOf(Importer))
                          /\ segments' < Len(PathsOf(Importer)[named' + 1])
  <2>1. named < Len(PathsOf(Importer)) /\ Len(PathsOf(Importer)) \in Nat
    BY <1>2, <1>3, <1>4, PathFacts
  <2>2. CASE segments + 1 = Len(NextPath)
    BY <2>1, <2>2, <1>1, <1>3
  <2>3. CASE segments + 1 # Len(NextPath)
    BY <2>1, <2>3, <1>1, <1>3, <1>4
  <2> QED
    BY <2>2, <2>3
<1>9. /\ index \in DOMAIN files' /\ index <= Len(files') + 1 /\ files'[index] = files[index]
      /\ imported <= Len(ImportsOf(Importer))
  BY <1>2 DEF LoadInv, ScanInv
<1> QED
  BY <1>1, <1>2, <1>7, <1>8, <1>9, SameProject DEF ScanInv

LEMMA LoadLibraryInvariant ==
  ASSUME LoadInv, LoadLibrary
  PROVE  LoadInv'
<1>1. /\ Scanning /\ ~PathsLoaded
      /\ project' = project /\ phase' = phase /\ refusal' = refusal /\ index' = index
      /\ imported' = imported /\ UNCHANGED searchVars
      /\ IF segments + 1 = Len(NextPath)
         THEN named' = named + 1 /\ segments' = 0
         ELSE named' = named /\ segments' = segments + 1
  BY DEF LoadLibrary
<1>2. /\ index \in DOMAIN files /\ phase = "load" /\ DOMAIN files = 1..Len(files)
      /\ Len(files) \in Nat /\ Importer \in SourceIds /\ Importer \in Reachable
  BY <1>1, ScanningFacts
<1>3. IsProject(project) /\ LoadTypeOK /\ imported \in Nat /\ named' \in Nat /\ segments' \in Nat
  BY <1>1 DEF LoadInv, LoadTypeOK
<1>4. /\ named + 1 \in DOMAIN PathsOf(Importer)
      /\ segments + 1 \in 1..Len(PathsOf(Importer)[named + 1])
      /\ NextPrefix = SubSeq(PathsOf(Importer)[named + 1], 1, segments + 1)
      /\ NextPrefix \in Seq(STRING)
  BY <1>1, PrefixFacts
<1>5. SearchInv' /\ RefusalInv'
  BY <1>1, <1>2, SameProject DEF LoadInv, SearchInv, RefusalInv
<1>6. CASE NamesNew
  <2> DEFINE id == project.library[NextPrefix]
  <2>1. /\ Add(id, NextPrefix) /\ edges' = EdgesWith(id)
        /\ libraries' = Asked(NextPrefix, IndexOf(id))
    BY <1>6 DEF LoadLibrary
  <2>2. id \in SourceIds /\ id \in Reachable
    <3>1. id \in SourceIds /\ id \in LeadsTo(Importer)
      BY <1>2, <1>3, <1>4, <1>6, NamedFrom DEF NamesNew
    <3> QED
      BY <3>1, <1>2, ReachStep
  <2> HIDE DEF id
  <2>3. /\ files' \in Seq(FileType)
        /\ \A i \in DOMAIN files : i \in DOMAIN files' /\ files'[i] = files[i]
        /\ IndexOf(id) \in DOMAIN files'
        /\ edges' \in Seq(EdgesType) /\ Len(edges') = Len(files')
        /\ \A i \in DOMAIN files : edges'[i] = edges[i]
        /\ \A i \in DOMAIN files' : i \notin DOMAIN files => edges'[i] = <<>>
    <3>1. PICK x, library : x = id /\ library = NextPrefix
      OBVIOUS
    <3>2. x \in SourceIds /\ library \in Seq(STRING) /\ Add(x, library) /\ edges' = EdgesWith(x)
      BY <1>4, <2>1, <2>2, <3>1
    <3>3. \A i, j \in DOMAIN files : files[i].id = files[j].id => i = j
      BY DEF LoadInv, FilesInv
    <3>4. Len(edges) = Len(files)
      BY DEF LoadInv, ScanInv
    <3>5. IndexOf(x) = IndexOf(id)
      BY <3>1
    <3> QED
      BY <1>3, <3>2, <3>3, <3>4, <3>5, AddFacts
  <2>4. DOMAIN files' = 1..Len(files') /\ Len(files') \in Nat
    BY <2>3
  <2>5. IndexOf(id) \in Nat
    BY <2>3, <2>4
  <2>6. /\ DOMAIN libraries' = DOMAIN libraries \cup {NextPrefix}
        /\ libraries' \in [DOMAIN libraries' -> Nat]
    BY <1>3, <1>4, <2>1, <2>5, AskedFacts
  <2>7. DOMAIN libraries' \subseteq Seq(STRING)
    BY <1>3, <1>4, <2>6 DEF LoadTypeOK
  <2>8. LoadTypeOK'
    <3>1. phase' \in {"start", "load", "search", "loaded", "refused"} /\ imported' \in Nat
      BY <1>1, <1>2, <1>3
    <3> QED
      BY <3>1, <1>1, <1>3, <1>4, <2>1, <2>2, <2>3, <2>6, <2>7, AddTypeOK
  <2>9. FilesInv'
    <3>1. \A p \in DOMAIN libraries' : p \in DOMAIN libraries \/ project.library[p] = id
      BY <2>6 DEF id
    <3> QED
      BY <3>1, <1>1, <1>2, <1>4, <2>1, <2>2, AddFilesInv
  <2>10. ScanInv'
    <3>1. \A i \in DOMAIN files' : edges'[i] = IF i \in DOMAIN files THEN edges[i] ELSE <<>>
      BY <2>3
    <3> QED
      BY <3>1, <2>3, <2>4, <2>6, LibraryScanInv
  <2> QED
    BY <1>5, <2>8, <2>9, <2>10 DEF LoadInv
<1>7. CASE ~NamesNew
  <2>1. files' = files /\ edges' = edges /\ bytes' = bytes /\ libraries' = AskedOnce(NextPrefix)
    BY <1>7 DEF LoadLibrary
  <2>2. /\ DOMAIN libraries' = DOMAIN libraries \cup {NextPrefix}
        /\ libraries' \in [DOMAIN libraries' -> Nat]
    BY <1>3, <1>4, <2>1, AskedFacts
  <2>3. DOMAIN libraries' \subseteq Seq(STRING)
    BY <1>3, <1>4, <2>2 DEF LoadTypeOK
  <2>4. states' = states /\ stack' = stack
    BY <1>1 DEF searchVars
  <2>5. LoadTypeOK'
    BY <1>1, <1>3, <2>1, <2>2, <2>3, <2>4, SameProject DEF LoadTypeOK
  <2>6. FilesInv'
    <3>1. \A p \in DOMAIN libraries' : Provided(p) => p \in DOMAIN libraries
      BY <1>7, <2>2 DEF NamesNew
    <3> QED
      BY <3>1, <1>1, <2>1, SameProject DEF LoadInv, FilesInv, Loaded
  <2>7. ScanInv'
    <3>1. Len(edges) = Len(files)
      BY DEF LoadInv, ScanInv
    <3> QED
      BY <3>1, <1>2, <2>1, <2>2, LibraryScanInv
  <2> QED
    BY <1>5, <2>5, <2>6, <2>7 DEF LoadInv
<1> QED
  BY <1>6, <1>7

LEMMA NextSourceInvariant ==
  ASSUME LoadInv, NextSource
  PROVE  LoadInv'
<1>1. /\ Scanning /\ ImportsLoaded /\ PathsLoaded
      /\ index' = index + 1 /\ imported' = 0 /\ named' = 0 /\ segments' = 0
      /\ project' = project /\ phase' = phase /\ refusal' = refusal /\ files' = files
      /\ edges' = edges /\ libraries' = libraries /\ bytes' = bytes
      /\ states' = states /\ stack' = stack
  BY DEF NextSource, searchVars
<1>2. /\ index \in DOMAIN files /\ index \in Nat \ {0} /\ phase = "load"
      /\ DOMAIN files = 1..Len(files) /\ Len(files) \in Nat
      /\ \A i \in DOMAIN files : files[i].id \in SourceIds
  BY <1>1, ScanningFacts
<1>3. IsProject(project)
  BY DEF LoadInv, LoadTypeOK
<1>4. LoadTypeOK'
  <2>1. index' \in Nat \ {0} /\ imported' \in Nat /\ named' \in Nat /\ segments' \in Nat
    BY <1>1, <1>2
  <2> QED
    BY <1>1, <2>1, SameProject DEF LoadInv, LoadTypeOK
<1>5. FilesInv'
  BY <1>1, SameProject DEF LoadInv, FilesInv, Loaded
<1>6. ASSUME NEW i \in DOMAIN files PROVE ScannedAt(i)'
  <2>1. ScannedAt(i)
    BY DEF LoadInv, ScanInv
  <2>2. i = index => /\ imported = Len(ImportsOf(files[i].id))
                     /\ named = Len(PathsOf(files[i].id))
    BY <1>1 DEF ImportsLoaded, PathsLoaded, Importer
  <2>3. Taken(i)' = Taken(i)
    BY <1>1, <1>2, <2>2, SameProject DEF Taken
  <2>4. ASSUME NEW k \in 1..Taken(i) PROVE EdgeExact(i, k)'
    <3>1. EdgeExact(i, k)
      BY <2>1 DEF ScannedAt
    <3> QED
      BY <1>1, <3>1 DEF EdgeExact, Provided, ImportsOf, SourceOf
  <2>5. ASSUME NEW n \in DOMAIN PathsOf(files[i].id), NEW k \in 1..Len(PathsOf(files[i].id)[n]),
               Past(i, n, k)'
        PROVE  SubSeq(PathsOf(files[i].id)[n], 1, k) \in DOMAIN libraries
    <3>1. /\ n \in Nat \ {0} /\ k \in Nat \ {0}
          /\ n <= Len(PathsOf(files[i].id)) /\ Len(PathsOf(files[i].id)) \in Nat
      BY <1>2, <1>3, PathFacts
    <3>2. i < index + 1
      BY <1>1, <1>2, <2>5, <3>1 DEF Past
    <3>3. Past(i, n, k)
      BY <1>2, <2>2, <3>1, <3>2 DEF Past
    <3> QED
      BY <2>1, <3>3 DEF ScannedAt
  <2> QED
    BY <1>1, <2>1, <2>3, <2>4, <2>5, SameProject DEF ScannedAt
<1>7. ScanInv'
  <2>1. index + 1 <= Len(files) + 1
    BY <1>2
  <2>2. \A i \in DOMAIN files : 0 <= Len(ImportsOf(files[i].id)) /\ 0 <= Len(PathsOf(files[i].id))
    BY <1>2, <1>3, PathFacts
  <2>3. Len(edges) = Len(files)
    BY DEF LoadInv, ScanInv
  <2> QED
    BY <1>1, <1>6, <2>1, <2>2, <2>3, SameProject DEF ScanInv
<1>8. SearchInv' /\ RefusalInv'
  BY <1>1, <1>2, SameProject DEF LoadInv, SearchInv, RefusalInv
<1> QED
  BY <1>4, <1>5, <1>7, <1>8 DEF LoadInv

(* When nothing is left to scan, every edge leads where its import does    *)
(* and every library that a path names was asked for. *)
LEMMA AllScanned ==
  ASSUME LoadInv, index = Len(files) + 1
  PROVE  /\ DOMAIN files = 1..Len(files) /\ Len(files) \in Nat /\ DOMAIN edges = DOMAIN files
         /\ \A i \in DOMAIN files :
              /\ files[i].id \in SourceIds
              /\ Len(edges[i]) = Len(ImportsOf(files[i].id)) /\ Len(edges[i]) \in Nat
              /\ DOMAIN edges[i] = 1..Len(edges[i])
              /\ DOMAIN edges[i] = DOMAIN ImportsOf(files[i].id)
              /\ \A k \in DOMAIN edges[i] : EdgeExact(i, k) /\ Target(i, k) \in DOMAIN files
              /\ \A n \in DOMAIN PathsOf(files[i].id) :
                   \A k \in 1..Len(PathsOf(files[i].id)[n]) :
                     SubSeq(PathsOf(files[i].id)[n], 1, k) \in DOMAIN libraries
<1>1. /\ files \in Seq(FileType) /\ edges \in Seq(EdgesType) /\ IsProject(project)
      /\ Len(edges) = Len(files)
  BY DEF LoadInv, LoadTypeOK, ScanInv, FileType, EdgesType
<1>2. DOMAIN files = 1..Len(files) /\ Len(files) \in Nat /\ DOMAIN edges = DOMAIN files
  BY <1>1
<1>3. ASSUME NEW i \in DOMAIN files
      PROVE  /\ files[i].id \in SourceIds
             /\ Len(edges[i]) = Len(ImportsOf(files[i].id)) /\ Len(edges[i]) \in Nat
             /\ DOMAIN edges[i] = 1..Len(edges[i])
             /\ DOMAIN edges[i] = DOMAIN ImportsOf(files[i].id)
             /\ \A k \in DOMAIN edges[i] : EdgeExact(i, k) /\ Target(i, k) \in DOMAIN files
             /\ \A n \in DOMAIN PathsOf(files[i].id) :
                  \A k \in 1..Len(PathsOf(files[i].id)[n]) :
                    SubSeq(PathsOf(files[i].id)[n], 1, k) \in DOMAIN libraries
  <2>1. files[i] \in FileType /\ edges[i] \in EdgesType
    BY <1>1, <1>2, Element, Zenon
  <2>2. files[i].id \in SourceIds
    BY <2>1 DEF FileType
  <2>3. ScannedAt(i)
    BY DEF LoadInv, ScanInv
  <2>4. Taken(i) = Len(ImportsOf(files[i].id)) /\ \A n, k : Past(i, n, k)
    BY <1>2 DEF Taken, Past
  <2>5. DOMAIN edges[i] = 1..Len(edges[i]) /\ Len(edges[i]) \in Nat
    BY <2>1, LenProperties DEF EdgesType
  <2>6. Len(edges[i]) = Taken(i) /\ DOMAIN edges[i] = 1..Taken(i)
    BY <2>3, <2>5 DEF ScannedAt
  <2>7. DOMAIN ImportsOf(files[i].id) = 1..Len(ImportsOf(files[i].id))
    BY <1>1, <2>2, PathFacts
  <2>8. \A k \in DOMAIN edges[i] : EdgeExact(i, k) /\ Target(i, k) \in DOMAIN files
    BY <2>3, <2>6 DEF ScannedAt, EdgeExact, Target
  <2> QED
    BY <2>2, <2>3, <2>4, <2>5, <2>6, <2>7, <2>8 DEF ScannedAt
<1> QED
  BY <1>2, <1>3

LEMMA StartSearchInvariant ==
  ASSUME LoadInv, StartSearch
  PROVE  LoadInv'
<1>1. index = Len(files) + 1
  <2>1. index \in Nat /\ Len(files) \in Nat /\ index <= Len(files) + 1 /\ index > Len(files)
    BY LenProperties DEF StartSearch, LoadInv, LoadTypeOK, ScanInv
  <2> QED
    BY <2>1
<1>2. CASE ~NamespacesValid
  <2>1. PICK i \in DOMAIN edges : \E k \in DOMAIN edges[i] :
               edges[i][k].namespace \in InvalidNamespaces
    BY <1>2 DEF NamespacesValid
  <2>2. PICK k \in DOMAIN edges[i] : edges[i][k].namespace \in InvalidNamespaces
    BY <2>1
  <2>3. i \in DOMAIN files /\ k \in DOMAIN ImportsOf(files[i].id) /\ EdgeExact(i, k)
    BY <1>1, AllScanned
  <2>4. Invalid(ImportsOf(files[i].id)[k])
    BY <2>2, <2>3 DEF EdgeExact, Invalid
  <2>5. files[i].id \in Reachable
    BY <2>3 DEF LoadInv, FilesInv
  <2>6. Erroneous(Reachable)
    BY <2>3, <2>4, <2>5 DEF Erroneous
  <2> QED
    BY <1>2, <2>6, RefuseInvariant DEF StartSearch
<1>3. CASE NamespacesValid
  <2>1. /\ phase = "load" /\ phase' = "search" /\ states' = [i \in DOMAIN files |-> "new"]
        /\ stack' = <<>> /\ UNCHANGED <<project, refusal, loaderVars>>
    BY <1>3 DEF StartSearch
  <2>2. /\ project' = project /\ refusal' = refusal /\ files' = files
        /\ edges' = edges /\ libraries' = libraries /\ bytes' = bytes /\ index' = index
        /\ imported' = imported /\ named' = named /\ segments' = segments
    BY <2>1 DEF loaderVars
  <2>3. DOMAIN files = 1..Len(files) /\ Len(files) \in Nat
    BY <1>1, AllScanned
  <2>4. states' \in Seq({"new", "visiting", "visited"})
    BY <2>1, <2>3, IsASeq
  <2>5. stack' \in Seq([node : Nat \ {0}, next : Nat \ {0}]) /\ DOMAIN stack' = {}
    BY <2>1, Nothing, Zenon
  <2>6. LoadTypeOK'
    BY <2>1, <2>2, <2>4, <2>5, SameProject DEF LoadInv, LoadTypeOK
  <2>7. FilesInv'
    BY <2>1, <2>2, SameProject DEF LoadInv, FilesInv, Loaded
  <2>8. ScanInv' /\ NamespacesValid'
    BY <1>3, <2>1, SameLoader DEF LoadInv
  <2>9. \A i \in DOMAIN files : states'[i] = "new"
    BY <2>1
  <2>10. StackInv'
    BY <2>2, <2>5, <2>9 DEF StackInv
  <2>11. VisitedAt' = {}
    BY <2>2, <2>9 DEF VisitedAt
  <2>12. \A S \in SUBSET {} : ~CircularAt(S)'
    BY DEF CircularAt
  <2>13. SearchInv'
    BY <1>1, <2>1, <2>2, <2>8, <2>10, <2>11, <2>12 DEF SearchInv
  <2>14. RefusalInv'
    BY <2>1, <2>2, SameProject DEF LoadInv, RefusalInv
  <2> QED
    BY <2>6, <2>7, <2>8, <2>13, <2>14 DEF LoadInv
<1> QED
  BY <1>2, <1>3

(* --- The search for a cycle. --- *)
(* A circular part of the indices is one of the sources. *)
LEMMA CircularAtCyclic ==
  ASSUME LoadInv, index = Len(files) + 1, NEW S \in SUBSET DOMAIN files, CircularAt(S)
  PROVE  Cyclic(Reachable)
<1> DEFINE T == {files[i].id : i \in S}
<1>1. T # {} /\ T \subseteq Reachable
  BY DEF CircularAt, LoadInv, FilesInv
<1>2. ASSUME NEW id \in T PROVE Imported(id) \cap T # {}
  <2>1. PICK i \in S : id = files[i].id
    OBVIOUS
  <2>2. PICK k \in DOMAIN edges[i] : Target(i, k) \in S
    BY DEF CircularAt
  <2>3. /\ k \in DOMAIN ImportsOf(id) /\ EdgeExact(i, k) /\ Target(i, k) \in DOMAIN files
    BY <2>1, <2>2, AllScanned
  <2>4. files[Target(i, k)].id = ImportsOf(id)[k].to
    BY <2>1, <2>3 DEF EdgeExact, Target
  <2>5. files[Target(i, k)].id \in SourceIds
    BY <2>3, AllScanned
  <2>6. ImportsOf(id)[k].to # Nowhere
    BY <2>4, <2>5, ProjectFacts DEF LoadInv, LoadTypeOK
  <2>7. ImportsOf(id)[k].to \in Imported(id)
    BY <2>3, <2>6 DEF Imported
  <2> QED
    BY <2>2, <2>4, <2>7
<1> HIDE DEF T
<1> QED
  BY <1>1, <1>2 DEF Cyclic, Circular

LEMMA SearchFacts ==
  ASSUME LoadInv, phase = "search"
  PROVE  /\ DOMAIN states = DOMAIN files /\ StackInv /\ index = Len(files) + 1
         /\ states \in Seq({"new", "visiting", "visited"})
         /\ stack \in Seq([node : Nat \ {0}, next : Nat \ {0}])
         /\ Len(stack) \in Nat /\ DOMAIN stack = 1..Len(stack)
         /\ \A m \in DOMAIN stack : stack[m].node \in Nat \ {0} /\ stack[m].next \in Nat \ {0}
         /\ \A i \in DOMAIN states : states[i] \in {"new", "visiting", "visited"}
         /\ \A i \in DOMAIN files : Len(edges[i]) \in Nat /\ DOMAIN edges[i] = 1..Len(edges[i])
         /\ \A i \in DOMAIN files : \A k \in DOMAIN edges[i] : Target(i, k) \in DOMAIN files
         /\ DOMAIN files \subseteq Nat \ {0}
<1>1. /\ DOMAIN states = DOMAIN files /\ StackInv /\ index = Len(files) + 1
  BY DEF LoadInv, SearchInv
<1>2. /\ states \in Seq({"new", "visiting", "visited"})
      /\ stack \in Seq([node : Nat \ {0}, next : Nat \ {0}])
  BY DEF LoadInv, LoadTypeOK
<1>3. Len(stack) \in Nat /\ DOMAIN stack = 1..Len(stack)
  BY <1>2
<1>4. \A m \in DOMAIN stack : stack[m] \in [node : Nat \ {0}, next : Nat \ {0}]
  BY <1>2, Element, Zenon
<1>5. \A i \in DOMAIN states : states[i] \in {"new", "visiting", "visited"}
  BY <1>2, Element, Zenon
<1>6. /\ DOMAIN files = 1..Len(files) /\ Len(files) \in Nat
      /\ \A i \in DOMAIN files : /\ Len(edges[i]) \in Nat /\ DOMAIN edges[i] = 1..Len(edges[i])
                                 /\ \A k \in DOMAIN edges[i] : Target(i, k) \in DOMAIN files
  BY <1>1, AllScanned
<1> QED
  BY <1>1, <1>2, <1>3, <1>4, <1>5, <1>6

(* A step of the search keeps the invariant when it keeps the search's. *)
LEMMA SearchStep ==
  ASSUME LoadInv, phase = "search", UNCHANGED <<project, phase, refusal, loaderVars>>,
         states' \in Seq({"new", "visiting", "visited"}), DOMAIN states' = DOMAIN states,
         stack' \in Seq([node : Nat \ {0}, next : Nat \ {0}]),
         StackInv',
         \A i \in VisitedAt' : \A k \in DOMAIN edges[i] : Target(i, k) \in VisitedAt',
         \A S \in SUBSET VisitedAt' : ~CircularAt(S)
  PROVE  LoadInv'
<1>1. /\ project' = project /\ phase' = phase /\ refusal' = refusal /\ files' = files
      /\ edges' = edges /\ libraries' = libraries /\ bytes' = bytes /\ index' = index
      /\ imported' = imported /\ named' = named /\ segments' = segments
  BY DEF loaderVars
<1>2. LoadTypeOK'
  BY <1>1, SameProject DEF LoadInv, LoadTypeOK
<1>3. FilesInv'
  BY <1>1, SameProject DEF LoadInv, FilesInv, Loaded
<1>4. ScanInv' /\ NamespacesValid'
  BY <1>1, SameLoader DEF LoadInv, SearchInv, loaderVars
<1>5. \A i, k : Target(i, k)' = Target(i, k)
  BY <1>1 DEF Target
<1>6. \A S : CircularAt(S)' = CircularAt(S)
  BY <1>1, <1>5 DEF CircularAt
<1>7. SearchInv'
  <2>1. \A i \in VisitedAt' : \A k \in DOMAIN edges'[i] : Target(i, k)' \in VisitedAt'
    BY <1>1, <1>5
  <2> QED
    BY <1>1, <1>4, <1>6, <2>1 DEF LoadInv, SearchInv
<1>8. RefusalInv'
  BY <1>1, SameProject DEF LoadInv, RefusalInv
<1> QED
  BY <1>2, <1>3, <1>4, <1>7, <1>8 DEF LoadInv

LEMMA KeepsPath ==
  ASSUME files' = files, edges' = edges, NEW m, NEW i \in DOMAIN files, NEW x,
         stack'[m].node = i, stack'[m].next = x, states'[i] = "visiting",
         x <= Len(edges[i]) + 1,
         \A k \in 1..(x - 1) :
           states'[Target(i, k)] = "visited" \/ (m < Len(stack') /\ k = x - 1),
         m < Len(stack') => x > 1 /\ Target(i, x - 1) = stack'[m + 1].node
  PROVE  OnPath(m)'
<1>1. \A j, k : Target(j, k)' = Target(j, k)
  BY DEF Target
<1> QED
  BY DEF OnPath, Target

LEMMA VisitRootInvariant ==
  ASSUME LoadInv, VisitRoot
  PROVE  LoadInv'
<1>1. PICK node \in DOMAIN states :
        /\ phase = "search" /\ stack = <<>> /\ states[node] = "new"
        /\ states' = [states EXCEPT ![node] = "visiting"] /\ stack' = <<Visit(node)>>
        /\ UNCHANGED <<project, phase, refusal, loaderVars>>
  BY DEF VisitRoot
<1>2. /\ DOMAIN states = DOMAIN files /\ StackInv /\ DOMAIN files \subseteq Nat \ {0}
      /\ states \in Seq({"new", "visiting", "visited"})
      /\ \A i \in DOMAIN files : Len(edges[i]) \in Nat
  BY <1>1, SearchFacts
<1>3. /\ states' \in Seq({"new", "visiting", "visited"}) /\ DOMAIN states' = DOMAIN states
      /\ states'[node] = "visiting"
      /\ \A i \in DOMAIN states : i # node => states'[i] = states[i]
  BY <1>1, <1>2
<1>4. Visit(node).node = node /\ Visit(node).next = 1
      /\ Visit(node) \in [node : Nat \ {0}, next : Nat \ {0}]
  BY <1>2 DEF Visit
<1>5. /\ stack' \in Seq([node : Nat \ {0}, next : Nat \ {0}])
      /\ Len(stack') = 1 /\ DOMAIN stack' = {1} /\ stack'[1] = Visit(node)
  BY <1>1, <1>4
<1>6. files' = files /\ edges' = edges
  BY <1>1 DEF loaderVars
<1>7. \A i \in DOMAIN files : states[i] # "visiting"
  BY <1>1, <1>2, Nothing DEF StackInv
<1>8. StackInv'
  <2>1. OnPath(1)'
    BY <1>2, <1>3, <1>4, <1>5, <1>6, KeepsPath
  <2> QED
    BY <1>2, <1>3, <1>4, <1>5, <1>6, <1>7, <2>1 DEF StackInv
<1>9. VisitedAt' = VisitedAt
  BY <1>1, <1>2, <1>3, <1>6 DEF VisitedAt
<1> QED
  BY <1>1, <1>3, <1>5, <1>8, <1>9, SearchStep DEF LoadInv, SearchInv

LEMMA EndSearchInvariant ==
  ASSUME LoadInv, EndSearch
  PROVE  LoadInv'
<1>1. /\ phase = "search" /\ stack = <<>> /\ \A node \in DOMAIN states : states[node] # "new"
      /\ phase' = "loaded" /\ UNCHANGED <<project, refusal, loaderVars, searchVars>>
  BY DEF EndSearch
<1>2. /\ project' = project /\ refusal' = refusal /\ files' = files
      /\ edges' = edges /\ libraries' = libraries /\ bytes' = bytes /\ index' = index
      /\ imported' = imported /\ named' = named /\ segments' = segments
      /\ states' = states /\ stack' = stack
  BY <1>1 DEF loaderVars, searchVars
<1>3. /\ DOMAIN states = DOMAIN files /\ StackInv
      /\ \A i \in DOMAIN states : states[i] \in {"new", "visiting", "visited"}
  BY <1>1, SearchFacts
<1>4. \A i \in DOMAIN files : states[i] = "visited"
  BY <1>1, <1>3, Nothing DEF StackInv
<1>5. VisitedAt = DOMAIN files
  BY <1>4 DEF VisitedAt
<1>6. LoadTypeOK'
  BY <1>1, <1>2, SameProject DEF LoadInv, LoadTypeOK, loaderVars
<1>7. FilesInv'
  BY <1>1, <1>2, SameProject DEF LoadInv, FilesInv, Loaded
<1>8. ScanInv' /\ NamespacesValid'
  BY <1>1, SameLoader DEF LoadInv, SearchInv
<1>9. SearchInv'
  BY <1>1, <1>2, <1>5, <1>8, SameSearch DEF LoadInv, SearchInv
<1>10. RefusalInv'
  BY <1>1, <1>2, SameProject DEF LoadInv, RefusalInv
<1> QED
  BY <1>6, <1>7, <1>8, <1>9, <1>10 DEF LoadInv

(* The innermost source. *)
LEMMA TopFacts ==
  ASSUME LoadInv, phase = "search", stack # <<>>
  PROVE  /\ Len(stack) \in Nat \ {0} /\ Len(stack) \in DOMAIN stack
         /\ Top.node \in DOMAIN files /\ states[Top.node] = "visiting"
         /\ Top.next \in Nat \ {0} /\ Top.next <= Len(edges[Top.node]) + 1
         /\ \A k \in 1..(Top.next - 1) : states[Target(Top.node, k)] = "visited"
<1>1. /\ StackInv /\ Len(stack) \in Nat /\ DOMAIN stack = 1..Len(stack)
      /\ \A m \in DOMAIN stack : stack[m].node \in Nat \ {0} /\ stack[m].next \in Nat \ {0}
      /\ stack \in Seq([node : Nat \ {0}, next : Nat \ {0}])
  BY SearchFacts
<1>2. Len(stack) # 0
  BY <1>1, EmptySeq
<1>3. Len(stack) \in DOMAIN stack
  BY <1>1, <1>2
<1>4. /\ Top.node \in DOMAIN files /\ states[Top.node] = "visiting"
      /\ Top.next <= Len(edges[Top.node]) + 1
      /\ \A k \in 1..(Top.next - 1) : states[Target(Top.node, k)] = "visited"
  BY <1>1, <1>3 DEF StackInv, OnPath, Top
<1> QED
  BY <1>1, <1>2, <1>3, <1>4 DEF Top

(* An edge from the innermost source to one being visited closes a cycle:  *)
(* the sources on the stack from that one on. *)
LEMMA BackEdge ==
  ASSUME LoadInv, phase = "search", stack # <<>>, Top.next <= Len(edges[Top.node]),
         states[Target(Top.node, Top.next)] = "visiting"
  PROVE  Cyclic(Reachable)
<1>1. /\ StackInv /\ Len(stack) \in Nat /\ DOMAIN stack = 1..Len(stack) /\ index = Len(files) + 1
      /\ \A m \in DOMAIN stack : stack[m].node \in Nat \ {0} /\ stack[m].next \in Nat \ {0}
      /\ \A i \in DOMAIN files : Len(edges[i]) \in Nat /\ DOMAIN edges[i] = 1..Len(edges[i])
      /\ \A i \in DOMAIN files : \A k \in DOMAIN edges[i] : Target(i, k) \in DOMAIN files
  BY SearchFacts
<1>2. /\ Len(stack) \in DOMAIN stack /\ Top.node \in DOMAIN files
      /\ Top.next \in Nat \ {0}
  BY TopFacts
<1>3. Top.next \in DOMAIN edges[Top.node] /\ Target(Top.node, Top.next) \in DOMAIN files
  BY <1>1, <1>2
<1>4. PICK b \in DOMAIN stack : stack[b].node = Target(Top.node, Top.next)
  BY <1>1, <1>3 DEF StackInv
<1>L. Len(stack) \in Nat /\ b \in 1..Len(stack)
  BY <1>1, <1>4
<1> DEFINE S == {stack[m].node : m \in b..Len(stack)}
<1>5. \A m \in b..Len(stack) : m \in DOMAIN stack /\ stack[m].node \in DOMAIN files
  BY <1>1, <1>4 DEF StackInv, OnPath
<1>6. S \subseteq DOMAIN files /\ stack[b].node \in S
  BY <1>1, <1>5
<1>7. ASSUME NEW m \in b..Len(stack)
      PROVE  \E k \in DOMAIN edges[stack[m].node] : Target(stack[m].node, k) \in S
  <2>1. m \in DOMAIN stack /\ stack[m].node \in DOMAIN files
    BY <1>5
  <2>2. CASE m = Len(stack)
    BY <1>3, <1>4, <1>6, <2>2 DEF Top
  <2>3. CASE m # Len(stack)
    <3>1. m < Len(stack) /\ m + 1 \in b..Len(stack)
      BY <1>L, <2>3
    <3>2. /\ stack[m].next > 1 /\ stack[m].next <= Len(edges[stack[m].node]) + 1
          /\ Target(stack[m].node, stack[m].next - 1) = stack[m + 1].node
      BY <1>1, <2>1, <3>1 DEF StackInv, OnPath
    <3>3. stack[m].next - 1 \in DOMAIN edges[stack[m].node]
      BY <1>1, <2>1, <3>2
    <3>4. stack[m + 1].node \in S
      BY <3>1
    <3> QED
      BY <3>2, <3>3, <3>4
  <2> QED
    BY <2>2, <2>3
<1>8. CircularAt(S)
  BY <1>6, <1>7 DEF CircularAt
<1> HIDE DEF S
<1> QED
  BY <1>1, <1>6, <1>8, CircularAtCyclic

LEMMA ReplaceTop ==
  ASSUME NEW T, NEW s \in Seq(T), Len(s) # 0, NEW e \in T,
         NEW r, r = [s EXCEPT ![Len(s)] = e]
  PROVE  /\ r \in Seq(T) /\ Len(r) = Len(s) /\ DOMAIN r = 1..Len(s)
         /\ \A m \in 1..Len(s) : r[m] = IF m = Len(s) THEN e ELSE s[m]
<1>1. Len(s) \in 1..Len(s)
  BY LenProperties
<1>2. /\ r \in Seq(T) /\ Len(r) = Len(s)
      /\ \A m \in 1..Len(s) : r[m] = IF m = Len(s) THEN e ELSE s[m]
  BY <1>1, ExceptSeq
<1> QED
  BY <1>2, LenProperties

LEMMA FollowEdgeInvariant ==
  ASSUME LoadInv, FollowEdge
  PROVE  LoadInv'
<1> DEFINE L == Len(stack)
           n == Top.node
           target == Target(Top.node, Top.next)
           top == [stack[L] EXCEPT !.next = @ + 1]
           advanced == [stack EXCEPT ![L] = top]
<1>1. phase = "search" /\ stack # <<>> /\ Top.next <= Len(edges[Top.node])
  BY DEF FollowEdge
<1>2. \/ states[target] = "visiting" /\ Refuse("cycle")
      \/ /\ states[target] # "visiting"
         /\ IF states[target] = "new"
            THEN /\ states' = [states EXCEPT ![target] = "visiting"]
                 /\ stack' = Append(advanced, Visit(target))
            ELSE stack' = advanced /\ UNCHANGED states
         /\ UNCHANGED <<project, phase, refusal, loaderVars>>
  BY DEF FollowEdge, Target
<1>3. CASE states[target] = "visiting" /\ Refuse("cycle")
  BY <1>1, <1>3, BackEdge, RefuseInvariant
<1>4. CASE /\ states[target] # "visiting"
           /\ UNCHANGED <<project, phase, refusal, loaderVars>>
  <2>1. /\ DOMAIN states = DOMAIN files /\ StackInv /\ DOMAIN files \subseteq Nat \ {0}
        /\ states \in Seq({"new", "visiting", "visited"})
        /\ stack \in Seq([node : Nat \ {0}, next : Nat \ {0}])
        /\ L \in Nat /\ DOMAIN stack = 1..L
        /\ \A m \in DOMAIN stack : stack[m].node \in Nat \ {0} /\ stack[m].next \in Nat \ {0}
        /\ \A i \in DOMAIN states : states[i] \in {"new", "visiting", "visited"}
        /\ \A i \in DOMAIN files : Len(edges[i]) \in Nat /\ DOMAIN edges[i] = 1..Len(edges[i])
        /\ \A i \in DOMAIN files : \A k \in DOMAIN edges[i] : Target(i, k) \in DOMAIN files
    BY <1>1, SearchFacts
  <2>2. /\ L \in Nat \ {0} /\ L \in DOMAIN stack /\ n \in DOMAIN files /\ Top.next \in Nat \ {0}
        /\ Top = stack[L] /\ states[n] = "visiting"
    BY <1>1, TopFacts DEF Top
  <2>L. L \in Nat \ {0} /\ DOMAIN stack = 1..L
    BY <2>1, <2>2
  <2>3. target \in DOMAIN files /\ states[target] \in {"new", "visited"}
    BY <1>1, <1>4, <2>1, <2>2
  <2>4. /\ top \in [node : Nat \ {0}, next : Nat \ {0}]
        /\ top.node = n /\ top.next = Top.next + 1
    <3>1. stack[L] \in [node : Nat \ {0}, next : Nat \ {0}]
      BY <2>1, <2>2, Element, Zenon
    <3> QED
      BY <3>1, <2>2
  <2>5. files' = files /\ edges' = edges
    BY <1>4 DEF loaderVars
  <2> HIDE DEF top
  <2>6. /\ advanced \in Seq([node : Nat \ {0}, next : Nat \ {0}]) /\ Len(advanced) = L
        /\ DOMAIN advanced = 1..L /\ advanced[L] = top
        /\ \A m \in 1..L : m # L => advanced[m] = stack[m]
    <3>1. stack \in Seq([node : Nat \ {0}, next : Nat \ {0}]) /\ Len(stack) # 0
      BY <2>1, <2>L
    <3>2. /\ advanced \in Seq([node : Nat \ {0}, next : Nat \ {0}])
          /\ Len(advanced) = Len(stack) /\ DOMAIN advanced = 1..Len(stack)
          /\ \A m \in 1..Len(stack) : advanced[m] = IF m = Len(stack) THEN top ELSE stack[m]
      BY <2>4, <3>1, ReplaceTop DEF advanced
    <3>3. L \in 1..Len(stack)
      BY <2>L
    <3> QED
      BY <3>2, <3>3
  <2> HIDE DEF advanced
  <2>7. PICK stack1 \in Seq([node : Nat \ {0}, next : Nat \ {0}]) : stack1 = stack'
    <3>1. Visit(target) \in [node : Nat \ {0}, next : Nat \ {0}]
      BY <2>1, <2>3 DEF Visit
    <3> QED
      <4>1. advanced \in Seq([node : Nat \ {0}, next : Nat \ {0}])
        BY <2>6
      <4>2. Append(advanced, Visit(target)) \in Seq([node : Nat \ {0}, next : Nat \ {0}])
        BY <3>1, <4>1, AppendProperties
      <4>3. stack' = advanced \/ stack' = Append(advanced, Visit(target))
        BY <1>2, <1>4
      <4> QED
        BY <4>1, <4>2, <4>3, Zenon
  <2>8. /\ DOMAIN stack1 = 1..Len(stack1) /\ Len(stack1) \in Nat
        /\ \A m \in 1..L : stack1[m] = advanced[m]
        /\ states[target] # "new" => Len(stack1) = L /\ states' = states
        /\ states[target] = "new" =>
             /\ Len(stack1) = L + 1 /\ stack1[L + 1].node = target /\ stack1[L + 1].next = 1
             /\ states' = [states EXCEPT ![target] = "visiting"]
    <3>1. CASE states[target] = "new"
      <4>1. stack1 = Append(advanced, Visit(target)) /\ states' = [states EXCEPT ![target] = "visiting"]
        BY <1>2, <1>4, <2>7, <3>1
      <4>2. Visit(target) \in [node : Nat \ {0}, next : Nat \ {0}]
        BY <2>1, <2>3 DEF Visit
      <4>3. /\ Len(stack1) = L + 1 /\ stack1[L + 1] = Visit(target)
            /\ \A m \in 1..L : stack1[m] = advanced[m]
        <5>1. advanced \in Seq([node : Nat \ {0}, next : Nat \ {0}]) /\ Len(advanced) = L
          BY <2>6
        <5> QED
          BY <4>1, <4>2, <5>1, AppendProperties
      <4>4. Visit(target).node = target /\ Visit(target).next = 1
        BY DEF Visit
      <4> QED
        BY <2>7, <3>1, <4>1, <4>3, <4>4
    <3>2. CASE states[target] # "new"
      <4>1. stack1 = advanced /\ states' = states
        BY <1>2, <1>4, <2>7, <3>2
      <4>2. Len(advanced) = L
        BY <2>6
      <4> QED
        BY <2>7, <3>2, <4>1, <4>2
    <3> QED
      BY <3>1, <3>2
  <2>9. /\ states' \in Seq({"new", "visiting", "visited"}) /\ DOMAIN states' = DOMAIN states
        /\ \A i \in DOMAIN states : states[i] # "new" => states'[i] = states[i]
        /\ states'[target] = IF states[target] = "new" THEN "visiting" ELSE "visited"
        /\ \A i \in DOMAIN states : i # target => states'[i] = states[i]
    <3>1. CASE states[target] = "new"
      <4>1. states' = [states EXCEPT ![target] = "visiting"]
        BY <2>8, <3>1
      <4>2. \A i \in DOMAIN states : states'[i] = IF i = target THEN "visiting" ELSE states[i]
        BY <4>1
      <4>3. target \in DOMAIN states /\ states \in Seq({"new", "visiting", "visited"})
        BY <2>1, <2>3
      <4>4. states' \in Seq({"new", "visiting", "visited"}) /\ DOMAIN states' = DOMAIN states
        BY <4>1, <4>3
      <4> QED
        BY <3>1, <4>2, <4>3, <4>4
    <3>2. CASE states[target] # "new"
      BY <2>1, <2>3, <2>8, <3>2
    <3> QED
      BY <3>1, <3>2
  <2>10. ASSUME NEW m \in DOMAIN stack
         PROVE  /\ m \in DOMAIN stack1 /\ m \in 1..L /\ m \in Nat
                /\ stack1[m].node = stack[m].node
                /\ stack1[m].next = IF m = L THEN stack[m].next + 1 ELSE stack[m].next
                /\ stack[m].node \in DOMAIN files /\ states[stack[m].node] = "visiting"
                /\ stack[m].node # target
    <3>1. m \in DOMAIN stack1 /\ m \in 1..L /\ m \in Nat
      <4>1. m \in 1..L
        BY <2>L
      <4>2. Len(stack1) = L \/ Len(stack1) = L + 1
        BY <2>8
      <4>3. m \in 1..Len(stack1) /\ m \in Nat
        BY <2>L, <4>1, <4>2
      <4> QED
        BY <2>8, <4>1, <4>3
    <3>2. stack1[m] = IF m = L THEN top ELSE stack[m]
      BY <2>6, <2>8, <3>1
    <3>3. OnPath(m)
      BY <2>1 DEF StackInv
    <3>4. stack[m].node \in DOMAIN files /\ states[stack[m].node] = "visiting"
      BY <3>3 DEF OnPath
    <3> QED
      BY <1>4, <2>2, <2>4, <3>1, <3>2, <3>4
  <2>11. ASSUME NEW m \in DOMAIN stack PROVE OnPath(m)'
    <3>1. PICK i, x : i = stack[m].node /\ x = stack[m].next
      OBVIOUS
    <3>2. /\ i \in DOMAIN files /\ states'[i] = "visiting" /\ x \in Nat \ {0}
          /\ m \in Nat /\ m \in 1..L
          /\ stack1[m].node = i /\ stack1[m].next = IF m = L THEN x + 1 ELSE x
      BY <2>1, <2>9, <2>10, <3>1
    <3>3. OnPath(m)
      BY <2>1 DEF StackInv
    <3>4. /\ x <= Len(edges[i]) + 1
          /\ \A k \in 1..(x - 1) :
               states[Target(i, k)] = "visited" \/ (m < L /\ k = x - 1)
          /\ m < L => x > 1 /\ Target(i, x - 1) = stack[m + 1].node
      BY <3>1, <3>3 DEF OnPath
    <3>5. \A k \in 1..(x - 1) : states[Target(i, k)] = "visited" =>
                                 states'[Target(i, k)] = "visited"
      <4>1. \A k \in 1..(x - 1) : k \in DOMAIN edges[i]
        BY <2>1, <3>2, <3>4
      <4> QED
        BY <2>1, <2>9, <3>2, <4>1
    <3>6. CASE m = L
      <4>1. i = n /\ x = Top.next /\ target = Target(i, x)
        BY <2>2, <3>1, <3>6
      <4>2. x + 1 <= Len(edges[i]) + 1
        <5>1. Len(edges[i]) \in Nat
          BY <2>1, <3>2
        <5>2. x <= Len(edges[i]) /\ x \in Nat
          BY <1>1, <3>2, <4>1
        <5> QED
          BY <5>1, <5>2
      <4>3. /\ m < Len(stack1) => target = stack1[m + 1].node
            /\ m < Len(stack1) \/ states'[target] = "visited"
        <5>1. CASE states[target] = "new"
          <6>1. Len(stack1) = L + 1 /\ stack1[L + 1].node = target
            BY <2>8, <5>1
          <6> QED
            BY <2>L, <3>6, <6>1
        <5>2. CASE states[target] # "new"
          <6>1. Len(stack1) = L /\ states'[target] = "visited"
            BY <2>8, <2>9, <5>2
          <6> QED
            BY <2>L, <3>6, <6>1
        <5> QED
          BY <5>1, <5>2
      <4>4. \A k \in 1..x : k \in 1..(x - 1) \/ k = x
        BY <3>2
      <4>5. \A k \in 1..x : states'[Target(i, k)] = "visited" \/ (m < Len(stack1) /\ k = x)
        BY <3>2, <3>4, <3>5, <3>6, <4>1, <4>3, <4>4
      <4>6. x + 1 > 1 /\ (x + 1) - 1 = x
        BY <3>2
      <4>7. PICK y : y = x + 1
        OBVIOUS
      <4> QED
        BY <2>5, <2>7, <3>2, <3>6, <4>1, <4>2, <4>3, <4>5, <4>6, <4>7, KeepsPath
    <3>7. CASE m # L
      <4>1. m < L /\ m + 1 \in 1..L /\ m + 1 \in DOMAIN stack
        BY <2>L, <3>7
      <4>2. stack1[m + 1].node = stack[m + 1].node
        BY <2>10, <4>1
      <4>3. m < Len(stack1)
        <5>1. Len(stack1) = L \/ Len(stack1) = L + 1
          BY <2>8
        <5> QED
          BY <2>L, <4>1, <5>1
      <4>4. \A k \in 1..(x - 1) : states'[Target(i, k)] = "visited" \/ (m < Len(stack1) /\ k = x - 1)
        BY <3>4, <3>5, <4>3
      <4> QED
        BY <2>5, <2>7, <3>2, <3>4, <3>7, <4>1, <4>2, <4>3, <4>4, KeepsPath
    <3> QED
      BY <3>6, <3>7
  <2>12. ASSUME NEW m \in DOMAIN stack1, m \notin DOMAIN stack
         PROVE  /\ states[target] = "new" /\ m = L + 1 /\ stack1[m].node = target
                /\ OnPath(m)'
    <3>1. states[target] = "new" /\ m = L + 1
      <4>1. m \in 1..Len(stack1) /\ m \notin 1..L
        BY <2>8, <2>12, <2>L
      <4>2. Len(stack1) = L \/ (states[target] = "new" /\ Len(stack1) = L + 1)
        BY <2>8
      <4> QED
        BY <2>L, <4>1, <4>2
    <3>2. /\ stack1[m].node = target /\ stack1[m].next = 1 /\ ~(m < Len(stack1))
      BY <2>2, <2>8, <3>1
    <3>3. PICK i \in DOMAIN files : i = target
      BY <2>3
    <3>4. 1 <= Len(edges[i]) + 1 /\ 1..(1 - 1) = {}
      BY <2>1
    <3>5. states'[i] = "visiting"
      BY <2>9, <3>1, <3>3
    <3> QED
      BY <2>5, <2>7, <3>1, <3>2, <3>3, <3>4, <3>5, KeepsPath
  <2>13. StackInv'
    <3>1. \A j, k \in DOMAIN stack1 : stack1[j].node = stack1[k].node => j = k
      <4>1. \A j, k \in DOMAIN stack : stack[j].node = stack[k].node => j = k
        BY <2>1 DEF StackInv
      <4>2. \A j \in DOMAIN stack : stack1[j].node = stack[j].node /\ stack1[j].node # target
        BY <2>10
      <4>3. \A j \in DOMAIN stack1 : j \notin DOMAIN stack => j = L + 1 /\ stack1[j].node = target
        BY <2>12
      <4> QED
        BY <4>1, <4>2, <4>3
    <3>2. ASSUME NEW i \in DOMAIN files, states'[i] = "visiting"
          PROVE  \E m \in DOMAIN stack1 : stack1[m].node = i
      <4>1. CASE i = target
        <5>1. states[target] = "new"
          BY <2>9, <3>2, <4>1
        <5>2. L + 1 \in DOMAIN stack1 /\ stack1[L + 1].node = target
          BY <2>2, <2>8, <5>1
        <5> QED
          BY <4>1, <5>2
      <4>2. CASE i # target
        <5>1. states[i] = "visiting"
          BY <2>1, <2>9, <3>2, <4>2
        <5>2. PICK m \in DOMAIN stack : stack[m].node = i
          BY <2>1, <5>1 DEF StackInv
        <5> QED
          BY <2>10, <5>2
      <4> QED
        BY <4>1, <4>2
    <3>3. \A m \in DOMAIN stack1 : OnPath(m)'
      BY <2>11, <2>12
    <3> QED
      BY <2>5, <2>7, <3>1, <3>2, <3>3 DEF StackInv
  <2>14. VisitedAt' = VisitedAt
    BY <2>1, <2>3, <2>5, <2>9 DEF VisitedAt
  <2> QED
    BY <1>1, <1>4, <2>7, <2>9, <2>13, <2>14, SearchStep DEF LoadInv, SearchInv
<1> QED
  BY <1>2, <1>3, <1>4

LEMMA DropTop ==
  ASSUME NEW T, NEW s \in Seq(T), NEW n \in Nat, n <= Len(s)
  PROVE  /\ SubSeq(s, 1, n) \in Seq(T) /\ Len(SubSeq(s, 1, n)) = n
         /\ \A m \in 1..n : SubSeq(s, 1, n)[m] = s[m]
  OBVIOUS

LEMMA LeaveSourceInvariant ==
  ASSUME LoadInv, LeaveSource
  PROVE  LoadInv'
<1> DEFINE L == Len(stack)
           n == Top.node
<1>1. /\ phase = "search" /\ stack # <<>> /\ Top.next > Len(edges[n])
      /\ states' = [states EXCEPT ![n] = "visited"]
      /\ stack' = SubSeq(stack, 1, L - 1)
      /\ UNCHANGED <<project, phase, refusal, loaderVars>>
  BY DEF LeaveSource
<1>2. /\ DOMAIN states = DOMAIN files /\ StackInv
      /\ states \in Seq({"new", "visiting", "visited"})
      /\ stack \in Seq([node : Nat \ {0}, next : Nat \ {0}])
      /\ DOMAIN stack = 1..L
      /\ \A m \in DOMAIN stack : stack[m].next \in Nat \ {0}
      /\ \A i \in DOMAIN files : Len(edges[i]) \in Nat /\ DOMAIN edges[i] = 1..Len(edges[i])
      /\ \A i \in DOMAIN files : \A k \in DOMAIN edges[i] : Target(i, k) \in DOMAIN files
  BY <1>1, SearchFacts
<1>3. /\ L \in Nat \ {0} /\ L \in DOMAIN stack /\ n \in DOMAIN files /\ n = stack[L].node
      /\ states[n] = "visiting" /\ Top.next \in Nat \ {0} /\ Top.next <= Len(edges[n]) + 1
      /\ \A k \in 1..(Top.next - 1) : states[Target(n, k)] = "visited"
  BY <1>1, TopFacts DEF Top
<1>L. L \in Nat \ {0} /\ DOMAIN stack = 1..L
  BY <1>2, <1>3
<1>4. /\ states' \in Seq({"new", "visiting", "visited"}) /\ DOMAIN states' = DOMAIN states
      /\ states'[n] = "visited"
      /\ \A i \in DOMAIN states : i # n => states'[i] = states[i]
  BY <1>1, <1>2, <1>3
<1>5. /\ stack' \in Seq([node : Nat \ {0}, next : Nat \ {0}]) /\ Len(stack') = L - 1
      /\ DOMAIN stack' = 1..(L - 1) /\ L - 1 \in Nat
      /\ \A m \in 1..(L - 1) : stack'[m] = stack[m]
  <2>1. L - 1 \in Nat /\ L - 1 <= L
    BY <1>3
  <2>2. /\ stack' \in Seq([node : Nat \ {0}, next : Nat \ {0}]) /\ Len(stack') = L - 1
        /\ \A m \in 1..(L - 1) : stack'[m] = stack[m]
    <3>1. stack \in Seq([node : Nat \ {0}, next : Nat \ {0}]) /\ L - 1 <= Len(stack)
      BY <1>2, <2>1
    <3>2. stack' = SubSeq(stack, 1, L - 1)
      BY <1>1
    <3> QED
      BY <2>1, <3>1, <3>2, DropTop
  <2>3. DOMAIN stack' = 1..(L - 1)
    BY <2>2, LenProperties
  <2> QED
    BY <2>1, <2>2, <2>3
<1>6. files' = files /\ edges' = edges
  BY <1>1 DEF loaderVars
<1>7. \A k \in DOMAIN edges[n] : states[Target(n, k)] = "visited"
  <2>1. DOMAIN edges[n] = 1..Len(edges[n]) /\ Len(edges[n]) \in Nat
    BY <1>2, <1>3
  <2>2. Top.next = Len(edges[n]) + 1
    BY <1>1, <1>3, <2>1
  <2> QED
    BY <1>3, <2>1, <2>2
<1>8. ASSUME NEW m \in DOMAIN stack' PROVE OnPath(m)'
  <2>1. PICK i, x : i = stack[m].node /\ x = stack[m].next
    OBVIOUS
  <2>2. m \in DOMAIN stack /\ m # L /\ m < L /\ m + 1 \in DOMAIN stack /\ m \in Nat
    <3>1. m \in 1..(L - 1)
      BY <1>5
    <3> QED
      BY <1>L, <3>1
  <2>3. OnPath(m)
    BY <1>2, <2>2 DEF StackInv
  <2>4. /\ i \in DOMAIN files /\ states[i] = "visiting" /\ x <= Len(edges[i]) + 1
        /\ \A k \in 1..(x - 1) : states[Target(i, k)] = "visited" \/ (m < L /\ k = x - 1)
        /\ x > 1 /\ Target(i, x - 1) = stack[m + 1].node
    BY <2>1, <2>2, <2>3 DEF OnPath
  <2>5. x \in Nat \ {0} /\ stack'[m].node = i /\ stack'[m].next = x
    BY <1>2, <1>5, <2>1, <2>2
  <2>6. i # n /\ states'[i] = "visiting"
    BY <1>2, <1>3, <1>4, <2>1, <2>2, <2>4 DEF StackInv
  <2>7. \A k \in 1..(x - 1) : Target(i, k) \in DOMAIN states
    <3>1. DOMAIN edges[i] = 1..Len(edges[i]) /\ Len(edges[i]) \in Nat
      BY <1>2, <2>4
    <3>2. \A k \in 1..(x - 1) : k \in DOMAIN edges[i]
      BY <2>4, <2>5, <3>1
    <3> QED
      BY <1>2, <2>4, <3>2
  <2>8. \A k \in 1..(x - 1) :
          states'[Target(i, k)] = "visited" \/ (m < Len(stack') /\ k = x - 1)
    <3>1. ASSUME NEW k \in 1..(x - 1), states[Target(i, k)] = "visited"
          PROVE  states'[Target(i, k)] = "visited"
      BY <1>4, <2>7, <3>1
    <3>2. ASSUME NEW k \in 1..(x - 1), k = x - 1, ~(m < Len(stack'))
          PROVE  states'[Target(i, k)] = "visited"
      <4>1. m + 1 = L
        BY <1>3, <1>5, <2>2, <3>2
      <4>2. Target(i, k) = n
        BY <1>3, <2>4, <3>2, <4>1
      <4> QED
        BY <1>4, <4>2
    <3> QED
      BY <2>4, <3>1, <3>2
  <2>9. m < Len(stack') => x > 1 /\ Target(i, x - 1) = stack'[m + 1].node
    <3>1. ASSUME m < Len(stack') PROVE stack'[m + 1] = stack[m + 1]
      <4>1. m + 1 \in 1..(L - 1)
        BY <1>5, <2>2, <3>1
      <4> QED
        BY <1>5, <4>1
    <3> QED
      BY <2>4, <3>1
  <2> QED
    BY <1>6, <2>4, <2>5, <2>6, <2>8, <2>9, KeepsPath
<1>9. StackInv'
  <2>1. \A m \in DOMAIN stack' : m \in DOMAIN stack /\ stack'[m] = stack[m]
    <3>1. \A m \in 1..(L - 1) : m \in 1..L
      BY <1>L
    <3> QED
      BY <1>5, <1>L, <3>1
  <2>2. \A j, k \in DOMAIN stack' : stack'[j].node = stack'[k].node => j = k
    BY <1>2, <2>1 DEF StackInv
  <2>3. ASSUME NEW i \in DOMAIN files, states'[i] = "visiting"
        PROVE  \E m \in DOMAIN stack' : stack'[m].node = i
    <3>1. i # n /\ states[i] = "visiting"
      BY <1>2, <1>4, <2>3
    <3>2. PICK m \in DOMAIN stack : stack[m].node = i
      BY <1>2, <3>1 DEF StackInv
    <3>3. m # L
      BY <1>3, <3>1, <3>2
    <3>4. m \in DOMAIN stack'
      BY <1>2, <1>3, <1>5, <3>3
    <3> QED
      BY <2>1, <3>2, <3>4
  <2> QED
    BY <1>6, <1>8, <2>2, <2>3 DEF StackInv
<1>10. VisitedAt' = VisitedAt \cup {n} /\ n \notin VisitedAt
  BY <1>2, <1>3, <1>4, <1>6 DEF VisitedAt
<1>11. /\ \A i \in VisitedAt : \A k \in DOMAIN edges[i] : Target(i, k) \in VisitedAt
       /\ \A S \in SUBSET VisitedAt : ~CircularAt(S)
  BY <1>1 DEF LoadInv, SearchInv
<1>12. \A k \in DOMAIN edges[n] : Target(n, k) \in VisitedAt
  BY <1>2, <1>3, <1>7 DEF VisitedAt
<1>13. \A i \in VisitedAt' : \A k \in DOMAIN edges[i] : Target(i, k) \in VisitedAt
  BY <1>10, <1>11, <1>12
<1>14. ASSUME NEW S \in SUBSET VisitedAt', CircularAt(S) PROVE FALSE
  <2>1. n \in S
    BY <1>10, <1>11, <1>14
  <2>2. PICK k \in DOMAIN edges[n] : Target(n, k) \in S
    BY <1>14, <2>1 DEF CircularAt
  <2>3. Target(n, k) \in S \ {n}
    BY <1>10, <1>12, <2>2
  <2>4. ASSUME NEW i \in S \ {n} PROVE \E j \in DOMAIN edges[i] : Target(i, j) \in S \ {n}
    <3>1. PICK j \in DOMAIN edges[i] : Target(i, j) \in S
      BY <1>14 DEF CircularAt
    <3>2. Target(i, j) # n
      BY <1>10, <1>13
    <3> QED
      BY <3>1, <3>2
  <2>5. CircularAt(S \ {n})
    BY <2>3, <2>4 DEF CircularAt
  <2> QED
    BY <1>10, <1>11, <2>5
<1> QED
  BY <1>1, <1>4, <1>5, <1>9, <1>10, <1>13, <1>14, SearchStep

LEMMA NextInvariant ==
  ASSUME LoadInv, [LoadNext]_loadVars
  PROVE  LoadInv'
  BY LoadRootInvariant, RefuseImportInvariant, LoadImportInvariant, RefuseLibraryInvariant,
     LoadLibraryInvariant, NextSourceInvariant, StartSearchInvariant, VisitRootInvariant,
     FollowEdgeInvariant, LeaveSourceInvariant, EndSearchInvariant, StutterInvariant
  DEF LoadNext

LEMMA LoadInvariant == LoadSpec => []LoadInv
<1>1. LoadInit => LoadInv
  BY InitInvariant
<1>2. LoadInv /\ [LoadNext]_loadVars => LoadInv'
  BY NextInvariant
<1> QED
  BY <1>1, <1>2, PTL DEF LoadSpec

(* --- What is loaded. --- *)
(* What is loaded when nothing is left to scan is just what is reached. *)
LEMMA LoadedReachable ==
  ASSUME LoadInv, index = Len(files) + 1, Loaded(project.root)
  PROVE  LoadedIds = Reachable
<1>1. LoadedIds \subseteq Reachable
  BY DEF LoadInv, FilesInv, LoadedIds
<1>2. LoadedIds \subseteq SourceIds /\ project.root \in LoadedIds
  BY AllScanned DEF LoadedIds, Loaded
<1>3. ASSUME NEW id \in LoadedIds PROVE LeadsTo(id) \subseteq LoadedIds
  <2>1. PICK i \in DOMAIN files : files[i].id = id
    BY DEF LoadedIds
  <2>2. Imported(id) \subseteq LoadedIds
    <3>1. ASSUME NEW x \in Imported(id) PROVE x \in LoadedIds
      <4>1. PICK k \in DOMAIN ImportsOf(id) : x = ImportsOf(id)[k].to
        BY DEF Imported
      <4>2. k \in DOMAIN edges[i] /\ EdgeExact(i, k)
        BY <2>1, AllScanned
      <4> QED
        BY <2>1, <4>1, <4>2 DEF EdgeExact, LoadedIds
    <3> QED
      BY <3>1
  <2>3. NamedLibraries(id) \subseteq LoadedIds
    <3>1. ASSUME NEW x \in NamedLibraries(id) PROVE x \in LoadedIds
      <4>1. PICK p \in NamedPaths(id) \cap DOMAIN project.library : x = project.library[p]
        BY DEF NamedLibraries
      <4>2. PICK m \in DOMAIN PathsOf(id) : \E k \in 1..Len(PathsOf(id)[m]) :
                   p = SubSeq(PathsOf(id)[m], 1, k)
        BY DEF NamedPaths
      <4>3. p \in DOMAIN libraries
        <5>1. PICK k \in 1..Len(PathsOf(id)[m]) : p = SubSeq(PathsOf(id)[m], 1, k)
          BY <4>2
        <5> QED
          BY <2>1, <5>1, AllScanned
      <4>4. Loaded(project.library[p])
        BY <4>3 DEF LoadInv, FilesInv, Provided
      <4> QED
        BY <4>1, <4>4 DEF Loaded, LoadedIds
    <3> QED
      BY <3>1
  <2> QED
    BY <2>2, <2>3 DEF LeadsTo
<1>4. Reachable \subseteq LoadedIds
  BY <1>2, <1>3, ReachLeast
<1> QED
  BY <1>1, <1>4

(* A circular part of the loaded sources is one of their indices. *)
LEMMA CyclicCircularAt ==
  ASSUME LoadInv, index = Len(files) + 1, Cyclic(LoadedIds)
  PROVE  \E S \in SUBSET DOMAIN files : CircularAt(S)
<1>1. PICK T \in SUBSET LoadedIds : Circular(T)
  BY DEF Cyclic
<1> DEFINE S == {i \in DOMAIN files : files[i].id \in T}
<1>2. S # {}
  BY <1>1 DEF Circular, LoadedIds
<1>3. ASSUME NEW i \in S PROVE \E k \in DOMAIN edges[i] : Target(i, k) \in S
  <2>1. PICK x \in T : x \in Imported(files[i].id)
    BY <1>1 DEF Circular
  <2>2. PICK k \in DOMAIN ImportsOf(files[i].id) : x = ImportsOf(files[i].id)[k].to
    BY <2>1 DEF Imported
  <2>3. k \in DOMAIN edges[i] /\ EdgeExact(i, k) /\ Target(i, k) \in DOMAIN files
    BY AllScanned
  <2> QED
    BY <2>2, <2>3 DEF EdgeExact, Target
<1> HIDE DEF S
<1>4. S \in SUBSET DOMAIN files
  BY DEF S
<1> QED
  BY <1>2, <1>3, <1>4 DEF CircularAt

LEMMA InvariantLoadedExactly == LoadInv => LoadedExactly
<1> SUFFICES ASSUME LoadInv PROVE LoadedExactly
  OBVIOUS
<1>1. ASSUME phase = "loaded"
      PROVE  /\ LoadedIds = Reachable /\ ~Cyclic(Reachable) /\ ~Erroneous(Reachable)
             /\ \A i \in DOMAIN files : EdgesExact(i)
  <2>1. /\ index = Len(files) + 1 /\ NamespacesValid /\ VisitedAt = DOMAIN files
        /\ \A S \in SUBSET VisitedAt : ~CircularAt(S)
    BY <1>1 DEF LoadInv, SearchInv
  <2>2. LoadedIds = Reachable
    BY <1>1, <2>1, LoadedReachable DEF LoadInv, FilesInv
  <2>3. ~Cyclic(Reachable)
    BY <2>1, <2>2, CyclicCircularAt
  <2>4. ASSUME NEW i \in DOMAIN files, NEW k \in DOMAIN ImportsOf(files[i].id)
        PROVE  EdgeExact(i, k) /\ ~Invalid(ImportsOf(files[i].id)[k])
    <3>1. i \in DOMAIN edges /\ k \in DOMAIN edges[i] /\ EdgeExact(i, k)
      BY <2>1, AllScanned
    <3>2. edges[i][k].namespace \notin InvalidNamespaces
      BY <2>1, <3>1 DEF NamespacesValid
    <3>3. ImportsOf(files[i].id)[k].to # Nowhere
      <4>1. files[edges[i][k].to].id \in SourceIds
        BY <2>1, <3>1, AllScanned DEF EdgeExact
      <4> QED
        BY <3>1, <4>1, ProjectFacts DEF EdgeExact, LoadInv, LoadTypeOK
    <3> QED
      BY <3>1, <3>2, <3>3 DEF EdgeExact, Invalid
  <2>5. ~Erroneous(Reachable)
    BY <2>2, <2>4 DEF Erroneous, LoadedIds
  <2>6. \A i \in DOMAIN files : EdgesExact(i)
    BY <2>1, <2>4, AllScanned DEF EdgesExact, EdgeExact
  <2> QED
    BY <2>2, <2>3, <2>5, <2>6
<1> QED
  BY <1>1 DEF LoadInv, FilesInv, RefusalInv, LoadedExactly

(* The loader keeps its state's types: every index it keeps is one, and a  *)
(* source it holds is one of the project. *)
THEOREM LoadTypeCorrect == LoadSpec => []LoadTypeOK
<1>1. LoadInv => LoadTypeOK
  BY DEF LoadInv
<1> QED
  BY <1>1, LoadInvariant, PTL

(* Whatever project the loader is given, the sources it has loaded when it *)
(* is done are the least set with the root and all that its members        *)
(* import or name, each once and with imports that lead where they say;    *)
(* none imports itself through others, and a project that is refused for   *)
(* an import or a cycle has a wrong one (Loader, find_cycle). *)
THEOREM SourcesAreLoadedExactly == LoadSpec => []LoadedExactly
  BY InvariantLoadedExactly, LoadInvariant, PTL
==============================================================================
