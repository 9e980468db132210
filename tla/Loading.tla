------------------------------- MODULE Loading -------------------------------
(* How crates/exs-compiler gathers the sources of a program                 *)
(* (loaded_project.rs): from the root source on, the loader adds what each  *)
(* loaded source imports and every library that a prefix of a path in it    *)
(* names, and then searches the imports for a cycle.                        *)
(*                                                                          *)
(* A project is the root, the sources the resolver can provide, the         *)
(* libraries by their paths and the limits.  A refusal is its diagnostic    *)
(* code, but for an import cycle, which has the code of a wrong import.  A  *)
(* step is one turn of a loop: one import, one prefix of a path, one edge   *)
(* of the search.                                                           *)
EXTENDS Naturals, Sequences

CONSTANTS Cases, ProjectOf(_), \* the projects to load
          InvalidNamespaces    \* file names that are no identifiers

VARIABLES project,   \* the project to load
          phase,     \* start, load, search, loaded, refused
          refusal,   \* the code of the error that refused it, or none
          files,     \* the sources loaded so far, in the order they were found
          edges,     \* per source: its resolved imports
          libraries, \* every path asked of the resolver, with its source's index or 0
          bytes,     \* the size of the sources loaded so far
          index,     \* the source being scanned,
          imported,  \* how many of its imports are loaded,
          named,     \* how many of its paths are,
          segments,  \* and how many prefixes of the next path
          states,    \* per source: new, visiting or visited by the search
          stack      \* the sources being visited, each with its next edge

loaderVars == <<files, edges, libraries, bytes, index, imported, named, segments>>
searchVars == <<states, stack>>
loadVars == <<project, phase, refusal, loaderVars, searchVars>>

Nowhere == "nowhere"
SourceIds == DOMAIN project.sources
SourceOf(id) == project.sources[id]
ImportsOf(id) == SourceOf(id).imports
PathsOf(id) == SourceOf(id).paths

\* Every import says where the resolver leads it, every library is a source, and the paths a
\* source spells are sequences of names.
IsProject(p) ==
    LET ids == DOMAIN p.sources
    IN /\ p.root \in ids /\ Nowhere \notin ids
       /\ DOMAIN p.library \subseteq Seq(STRING)
       /\ \A path \in DOMAIN p.library : p.library[path] \in ids
       /\ \A id \in ids :
            /\ p.sources[id].size \in Nat
            /\ p.sources[id].imports \in
                 Seq([path : Seq(STRING), to : ids \cup {Nowhere}, namespace : STRING])
            /\ p.sources[id].paths \in Seq(Seq(STRING) \ {<<>>})
       /\ p.limits \in [modules : Nat, source : Nat, total : Nat]
ASSUME ProjectsAssumption == \A case \in Cases : IsProject(ProjectOf(case))

\* --- Loading --------------------------------------------------------------------------------
Loaded(id) == \E i \in DOMAIN files : files[i].id = id
\* A source within the limits of one source, of their number and of all together.
Fits(id) ==
    /\ Len(files) < project.limits.modules
    /\ SourceOf(id).size <= project.limits.source
    /\ bytes + SourceOf(id).size <= project.limits.total
CanAdd(id) == Loaded(id) \/ Fits(id)
\* The index of a source once it is added.
IndexOf(id) ==
    IF Loaded(id) THEN CHOOSE i \in DOMAIN files : files[i].id = id ELSE Len(files) + 1
\* A source is added unless one of its identity is loaded already.
Add(id, library) ==
    /\ files' = IF Loaded(id) THEN files ELSE Append(files, [id |-> id, library |-> library])
    /\ bytes' = IF Loaded(id) THEN bytes ELSE bytes + SourceOf(id).size
EdgesWith(id) == IF Loaded(id) THEN edges ELSE Append(edges, <<>>)

Provided(path) == path \in DOMAIN project.library
\* The resolver's answer about a path is kept: it is asked once.
Asked(path, answer) ==
    [p \in DOMAIN libraries \cup {path} |-> IF p = path THEN answer ELSE libraries[p]]
AskedOnce(path) == IF path \in DOMAIN libraries THEN libraries ELSE Asked(path, 0)

Refuse(code) ==
    phase' = "refused" /\ refusal' = code /\ UNCHANGED <<project, loaderVars, searchVars>>

LoadInit ==
    /\ \E case \in Cases : project = ProjectOf(case)
    /\ phase = "start" /\ refusal = "none"
    /\ files = <<>> /\ edges = <<>> /\ libraries = [path \in {} |-> 0] /\ bytes = 0
    /\ index = 1 /\ imported = 0 /\ named = 0 /\ segments = 0
    /\ states = <<>> /\ stack = <<>>

LoadRoot ==
    /\ phase = "start"
    /\ IF ~CanAdd(project.root) THEN Refuse("E0010")
       ELSE /\ Add(project.root, <<>>) /\ edges' = EdgesWith(project.root)
            /\ phase' = "load"
            /\ UNCHANGED <<project, refusal, libraries, index, imported, named, segments,
                           searchVars>>

Scanning == phase = "load" /\ index <= Len(files)
Importer == files[index].id
NextImport == ImportsOf(Importer)[imported + 1]
ImportsLoaded == imported = Len(ImportsOf(Importer))

\* The next import names a library, or nothing.
RefuseImport ==
    /\ Scanning /\ ~ImportsLoaded
    /\ \/ /\ Provided(NextImport.path)
          /\ Refuse(IF CanAdd(project.library[NextImport.path]) THEN "E0233" ELSE "E0010")
       \/ /\ ~Provided(NextImport.path)
          /\ NextImport.to = Nowhere
          /\ Refuse("E0233")
       \/ /\ ~Provided(NextImport.path)
          /\ NextImport.to # Nowhere /\ ~CanAdd(NextImport.to)
          /\ Refuse("E0010")

LoadImport ==
    LET to == NextImport.to
        edge == [namespace |-> NextImport.namespace, to |-> IndexOf(to)]
    IN /\ Scanning /\ ~ImportsLoaded
       /\ ~Provided(NextImport.path) /\ to # Nowhere /\ CanAdd(to)
       /\ Add(to, <<>>)
       /\ edges' = [EdgesWith(to) EXCEPT ![index] = Append(@, edge)]
       /\ libraries' = AskedOnce(NextImport.path)
       /\ imported' = imported + 1
       /\ UNCHANGED <<project, phase, refusal, index, named, segments, searchVars>>

PathsLoaded == named = Len(PathsOf(Importer))
NextPath == PathsOf(Importer)[named + 1]
NextWholePath == NextPath
NextPrefix == SubSeq(NextPath, 1, segments + 1)
NamesNew == NextPrefix \notin DOMAIN libraries /\ Provided(NextPrefix)

RefuseLibrary ==
    /\ Scanning /\ ImportsLoaded /\ ~PathsLoaded
    /\ NamesNew /\ ~CanAdd(project.library[NextPrefix])
    /\ Refuse("E0010")

LoadLibrary ==
    LET id == project.library[NextPrefix]
    IN /\ Scanning /\ ImportsLoaded /\ ~PathsLoaded
       /\ IF NamesNew
          THEN /\ CanAdd(id)
               /\ Add(id, NextPrefix) /\ edges' = EdgesWith(id)
               /\ libraries' = Asked(NextPrefix, IndexOf(id))
          ELSE libraries' = AskedOnce(NextPrefix) /\ UNCHANGED <<files, edges, bytes>>
       /\ IF segments + 1 = Len(NextPath)
          THEN named' = named + 1 /\ segments' = 0
          ELSE named' = named /\ segments' = segments + 1
       /\ UNCHANGED <<project, phase, refusal, index, imported, searchVars>>

NextSource ==
    /\ Scanning /\ ImportsLoaded /\ PathsLoaded
    /\ index' = index + 1 /\ imported' = 0 /\ named' = 0 /\ segments' = 0
    /\ UNCHANGED <<project, phase, refusal, files, edges, libraries, bytes, searchVars>>

\* --- Cycles (find_cycle) --------------------------------------------------------------------
NamespacesValid ==
    \A i \in DOMAIN edges : \A k \in DOMAIN edges[i] : edges[i][k].namespace \notin InvalidNamespaces
StartSearch ==
    /\ phase = "load" /\ index > Len(files)
    /\ IF ~NamespacesValid THEN Refuse("E0233")
       ELSE /\ phase' = "search"
            /\ states' = [i \in DOMAIN files |-> "new"] /\ stack' = <<>>
            /\ UNCHANGED <<project, refusal, loaderVars>>

Visit(node) == [node |-> node, next |-> 1]
Top == stack[Len(stack)]
\* The first source not visited yet.
VisitRoot ==
    /\ phase = "search" /\ stack = <<>>
    /\ \E node \in DOMAIN states :
         /\ states[node] = "new" /\ \A before \in 1..(node - 1) : states[before] # "new"
         /\ states' = [states EXCEPT ![node] = "visiting"]
         /\ stack' = <<Visit(node)>>
    /\ UNCHANGED <<project, phase, refusal, loaderVars>>

\* The next edge of the innermost source leads back to one being visited, to a new one, or to
\* one that was visited.
FollowEdge ==
    /\ phase = "search" /\ stack # <<>> /\ Top.next <= Len(edges[Top.node])
    /\ LET target == edges[Top.node][Top.next].to
           advanced == [stack EXCEPT ![Len(stack)].next = @ + 1]
       IN \/ states[target] = "visiting" /\ Refuse("cycle")
          \/ /\ states[target] # "visiting"
             /\ IF states[target] = "new"
                THEN /\ states' = [states EXCEPT ![target] = "visiting"]
                     /\ stack' = Append(advanced, Visit(target))
                ELSE stack' = advanced /\ UNCHANGED states
             /\ UNCHANGED <<project, phase, refusal, loaderVars>>

LeaveSource ==
    /\ phase = "search" /\ stack # <<>> /\ Top.next > Len(edges[Top.node])
    /\ states' = [states EXCEPT ![Top.node] = "visited"]
    /\ stack' = SubSeq(stack, 1, Len(stack) - 1)
    /\ UNCHANGED <<project, phase, refusal, loaderVars>>

EndSearch ==
    /\ phase = "search" /\ stack = <<>> /\ \A node \in DOMAIN states : states[node] # "new"
    /\ phase' = "loaded"
    /\ UNCHANGED <<project, refusal, loaderVars, searchVars>>

LoadNext == \/ LoadRoot \/ RefuseImport \/ LoadImport \/ RefuseLibrary \/ LoadLibrary
            \/ NextSource \/ StartSearch \/ VisitRoot \/ FollowEdge \/ LeaveSource \/ EndSearch
LoadSpec == LoadInit /\ [][LoadNext]_loadVars

LoadTypeOK ==
    /\ IsProject(project)
    /\ phase \in {"start", "load", "search", "loaded", "refused"}
    /\ refusal \in {"none", "E0010", "E0233", "cycle"}
    /\ files \in Seq([id : SourceIds, library : Seq(STRING)])
    /\ edges \in Seq(Seq([namespace : STRING, to : Nat]))
    /\ libraries \in [DOMAIN libraries -> Nat] /\ DOMAIN libraries \subseteq Seq(STRING)
    /\ bytes \in Nat /\ index \in Nat \ {0}
    /\ imported \in Nat /\ named \in Nat /\ segments \in Nat
    /\ states \in Seq({"new", "visiting", "visited"})
    /\ stack \in Seq([node : Nat \ {0}, next : Nat \ {0}])

\* --- What is loaded -------------------------------------------------------------------------
LoadedIds == {files[i].id : i \in DOMAIN files}
Imported(id) == {ImportsOf(id)[k].to : k \in DOMAIN ImportsOf(id)} \ {Nowhere}
NamedPaths(id) ==
    UNION {{SubSeq(PathsOf(id)[n], 1, k) : k \in 1..Len(PathsOf(id)[n])} : n \in DOMAIN PathsOf(id)}
NamedLibraries(id) == {project.library[p] : p \in NamedPaths(id) \cap DOMAIN project.library}

\* The least set of sources with the root and all that its members import or name.
LeadsTo(id) == Imported(id) \cup NamedLibraries(id)
Reachable ==
    LET closed == {S \in SUBSET SourceIds :
                     project.root \in S /\ \A id \in S : LeadsTo(id) \subseteq S}
    IN {id \in SourceIds : \A S \in closed : id \in S}
\* Sources each of which imports one of them: finitely many have such a part just when some
\* source imports itself, directly or through others.
Circular(S) == S # {} /\ \A id \in S : Imported(id) \cap S # {}
Cyclic(ids) == \E S \in SUBSET ids : Circular(S)
\* Imports that no program may have.
Invalid(import) ==
    import.to = Nowhere \/ Provided(import.path) \/ import.namespace \in InvalidNamespaces
Erroneous(ids) == \E id \in ids : \E k \in DOMAIN ImportsOf(id) : Invalid(ImportsOf(id)[k])
\* The imports of a source lead to what they name, whatever loaded that first.
EdgesExact(i) ==
    LET imports == ImportsOf(files[i].id)
    IN /\ Len(edges[i]) = Len(imports)
       /\ \A k \in DOMAIN imports :
            /\ edges[i][k].to \in DOMAIN files
            /\ files[edges[i][k].to].id = imports[k].to
            /\ edges[i][k].namespace = imports[k].namespace

\* Every source the root reaches through imports and library paths, its own or those of the
\* sources it reaches, is loaded once whatever path finds it first, and nothing else is; a
\* project that is loaded has no invalid import and no import cycle, and one is refused for
\* either only if it has one (Loader, validate_import_names, find_cycle).
LoadedExactly ==
    LET reachable == Reachable
    IN /\ \A i, j \in DOMAIN files : files[i].id = files[j].id => i = j
       /\ phase = "loaded" =>
            /\ LoadedIds = reachable /\ ~Cyclic(reachable) /\ ~Erroneous(reachable)
            /\ \A i \in DOMAIN files : EdgesExact(i)
       /\ refusal = "cycle" => Cyclic(reachable)
       /\ refusal = "E0233" => Erroneous(reachable)
==============================================================================
