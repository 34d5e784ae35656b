----------------------------- MODULE Registry ------------------------------
(***************************************************************************)
(* The component registry of src/src/core: RegistryOrchestrator, with      *)
(* deploy_distributed_runner of DistOrchestrator (orchestrator.py) and the *)
(* cells of an Artifact (artifact.py).  A program adds, registers and      *)
(* connects artifacts and then compiles or finalizes the registry, any     *)
(* number of times.  The depth-first search of _check_cycles and the loop  *)
(* of finalize over the artifacts are stepwise.  The search takes roots    *)
(* and parents in any order, the code in the order they were added; a      *)
(* StateCell has no origin in the code, here it is the defining artifact.  *)
(***************************************************************************)
EXTENDS Integers, FiniteSets, SequencesExt

CONSTANTS
  Artifacts,    \* the objects a program may add
  ClassName,    \* [Artifacts -> names], the implicit component ids
  Attrs,        \* what a program may register: [Artifacts -> [names -> {"method", "state"}]]
  ExplicitIds,  \* the component ids a program may ask for
  MaxCalls      \* bound: calls of add, register, connect, deploy, compile and finalize

ASSUME RegistryAssumption ==
  /\ MaxCalls \in Nat /\ IsFiniteSet(Artifacts)
  /\ DOMAIN ClassName = Artifacts /\ DOMAIN Attrs = Artifacts
  /\ \A a \in Artifacts : \A n \in DOMAIN Attrs[a] : Attrs[a][n] \in {"method", "state"}

VARIABLES
  registry,  \* self.registry
  ids,       \* _component_metadata: the component id of every added artifact
  bindings,  \* _bindings
  edges,     \* _topology_edges
  parents,   \* Artifact.parents
  cells,     \* Artifact._cells: name -> the cell
  compiled,  \* _compiled_graph: at most one graph
  pc,        \* "build", "search" in _check_cycles, "bind" in finalize, "final", "raised"
  goal,      \* the call that searches: "compile" or "finalize"
  roots,     \* the artifacts the search has not tried as a root
  visited,   \* visited of _check_cycles
  stack,     \* its stack, with the parents a frame has not looked at
  bound,     \* how many artifacts the loop of finalize has handled
  calls      \* bounded by MaxCalls

buildVars == <<registry, ids, bindings, edges, parents>>
cellVars == <<cells>>
searchVars == <<goal, roots, visited, stack>>
vars == <<registry, ids, bindings, edges, parents, cells, compiled, pc, goal, roots,
          visited, stack, bound, calls>>

None == "None"
Empty == [n \in {} |-> None]

(* The dict g updated with the entries of f, and a dict of one entry. *)
Updated(g, f) ==
  [n \in DOMAIN f \cup DOMAIN g |-> IF n \in DOMAIN f THEN f[n] ELSE g[n]]
Entry(x, v) == [n \in {x} |-> v]

Init ==
  /\ registry = << >> /\ ids = Empty /\ bindings = {} /\ edges = {}
  /\ parents = [a \in Artifacts |-> {}]
  /\ cells = [a \in Artifacts |-> Empty]
  /\ compiled = {}
  /\ pc = "build" /\ goal = None /\ roots = {} /\ visited = {} /\ stack = << >>
  /\ bound = 0 /\ calls = 0

(* The artifacts above a: _propagate climbs to all of them. *)
Ancestors(a) ==
  {p \in Artifacts : \A S \in SUBSET Artifacts :
     parents[a] \subseteq S /\ (\A x \in S : parents[x] \subseteq S) => p \in S}

-----------------------------------------------------------------------------
(* Component ids are a name and a suffix; without #N the suffix is 1. *)
Claimed == {ids[a] : a \in DOMAIN ids}

(* Mutation: the suffix counts the components and is not looked up. *)
FirstFreeByCount(name, taken) == <<name, Cardinality(taken) + 1>>

(* _claim_component_id for an implicit name *)
FirstFree(name, taken) ==
  IF <<name, 1>> \notin taken THEN <<name, 1>>
  ELSE <<name, CHOOSE k \in 2 .. Cardinality(taken) + 1 :
                 /\ <<name, k>> \notin taken
                 /\ \A j \in 2 .. k - 1 : <<name, j>> \in taken>>

(* add() of artifacts without an explicit id, in order: [registry, ids]. *)
Enrol(e, a) ==
  IF a \in DOMAIN e.ids THEN e
  ELSE [registry |-> Append(e.registry, a),
        ids |-> Updated(e.ids,
                  Entry(a, FirstFree(ClassName[a], {e.ids[x] : x \in DOMAIN e.ids})))]
Enrolled(child, parent) == Enrol(Enrol([registry |-> registry, ids |-> ids], child), parent)

Calling ==
  /\ pc \in {"build", "final"} /\ calls < MaxCalls
  /\ calls' = calls + 1
Building == Calling /\ pc' = "build" /\ UNCHANGED <<searchVars, bound>>

add(a) ==
  /\ Building /\ a \notin DOMAIN ids
  /\ registry' = Enrol([registry |-> registry, ids |-> ids], a).registry
  /\ ids' = Enrol([registry |-> registry, ids |-> ids], a).ids
  /\ compiled' = {}
  /\ UNCHANGED <<bindings, edges, parents, cellVars>>

(* add() with an explicit id: a new one, *)
addExplicit(a, id) ==
  /\ Building /\ a \notin DOMAIN ids /\ id \notin Claimed
  /\ registry' = Append(registry, a)
  /\ ids' = Updated(ids, Entry(a, id))
  /\ compiled' = {}
  /\ UNCHANGED <<bindings, edges, parents, cellVars>>

(* one another component has, or another one than the artifact has. *)
addRefused(a, id) ==
  /\ Calling
  /\ IF a \in DOMAIN ids THEN ids[a] # id ELSE id \in Claimed
  /\ pc' = "raised"
  /\ UNCHANGED <<buildVars, cellVars, compiled, searchVars, bound>>

Cell(a, n) == [kind |-> Attrs[a][n], origin |-> a]
Kind(cell) == IF cell.kind = "state" THEN "state" ELSE "method"

(* register(): define the cell if the child has none, add both, bind. *)
register(child, n, parent) ==
  /\ Building
  /\ n \in DOMAIN cells[child] \cup DOMAIN Attrs[child]
  /\ cells' = IF n \in DOMAIN cells[child] THEN cells
              ELSE [cells EXCEPT ![child] = Updated(@, Entry(n, Cell(child, n)))]
  /\ registry' = Enrolled(child, parent).registry /\ ids' = Enrolled(child, parent).ids
  /\ bindings' = bindings \cup
       {[provider |-> ids'[child], consumer |-> ids'[parent], name |-> n,
         kind |-> Kind(cells'[child][n])]}
  /\ parents' = [parents EXCEPT ![child] = @ \cup {parent}]
  /\ edges' = edges \cup {<<child, parent>>}
  /\ compiled' = {}

(* Mutation: the compiled graph is kept. *)
connectKeepsGraph(child, parent) ==
  /\ Building
  /\ registry' = Enrolled(child, parent).registry /\ ids' = Enrolled(child, parent).ids
  /\ parents' = [parents EXCEPT ![child] = @ \cup {parent}]
  /\ edges' = edges \cup {<<child, parent>>}
  /\ UNCHANGED <<bindings, cellVars, compiled>>

connect(child, parent) ==
  /\ Building
  /\ registry' = Enrolled(child, parent).registry /\ ids' = Enrolled(child, parent).ids
  /\ parents' = [parents EXCEPT ![child] = @ \cup {parent}]
  /\ edges' = edges \cup {<<child, parent>>}
  /\ compiled' = {}
  /\ UNCHANGED <<bindings, cellVars>>

(* deploy_distributed_runner: the constructor of the child, a new object,  *)
(* defines cells for some of its attributes; it is connected, and every    *)
(* MethodCell it has becomes a DistMethodCell.                             *)
deploy(child, parent, names) ==
  /\ Building
  /\ child \notin DOMAIN ids /\ child # parent
  /\ cells' = [cells EXCEPT ![child] = [n \in names |->
       IF Attrs[child][n] = "method" THEN [Cell(child, n) EXCEPT !.kind = "dist"]
                                     ELSE Cell(child, n)]]
  /\ registry' = Enrolled(child, parent).registry /\ ids' = Enrolled(child, parent).ids
  /\ parents' = [parents EXCEPT ![child] = @ \cup {parent}]
  /\ edges' = edges \cup {<<child, parent>>}
  /\ compiled' = {}
  /\ UNCHANGED bindings

-----------------------------------------------------------------------------
(* compile() and finalize() start with _check_cycles. *)
Search(g) ==
  /\ Calling
  /\ pc' = "search" /\ goal' = g
  /\ roots' = ToSet(registry) /\ visited' = {} /\ stack' = << >>
  /\ UNCHANGED <<buildVars, cellVars, compiled, bound>>

Frame(a) == [node |-> a, rest |-> parents[a]]
Active == {stack[i].node : i \in DOMAIN stack}

SearchRoot(a) ==
  /\ pc = "search" /\ stack = << >> /\ a \in roots
  /\ roots' = roots \ {a}
  /\ IF a \in visited THEN UNCHANGED <<visited, stack>>
                      ELSE visited' = visited \cup {a} /\ stack' = <<Frame(a)>>
  /\ UNCHANGED <<buildVars, cellVars, compiled, pc, goal, bound, calls>>

(* The frame on top looks at one of its parents. *)
Rest == Last(stack).rest
Looked(p) == Append(Front(stack), [Last(stack) EXCEPT !.rest = @ \ {p}])

(* Mutation: the parent is not marked as visited. *)
SearchParentUnmarked(p) ==
  /\ pc = "search" /\ stack # << >> /\ p \in Rest
  /\ p \notin visited
  /\ stack' = Append(Looked(p), Frame(p))
  /\ UNCHANGED <<buildVars, cellVars, compiled, pc, goal, roots, visited, bound, calls>>

SearchParent(p) ==
  /\ pc = "search" /\ stack # << >> /\ p \in Rest
  /\ p \notin visited
  /\ visited' = visited \cup {p} /\ stack' = Append(Looked(p), Frame(p))
  /\ UNCHANGED <<buildVars, cellVars, compiled, pc, goal, roots, bound, calls>>

(* Mutation: a node that was visited before closes a cycle. *)
VisitedIsActive(p) == p \in visited

ClosesCycle(p) == p \in visited /\ p \in Active

SearchKnown(p) ==
  /\ pc = "search" /\ stack # << >> /\ p \in Rest
  /\ p \in visited /\ ~ClosesCycle(p)
  /\ stack' = Looked(p)
  /\ UNCHANGED <<buildVars, cellVars, compiled, pc, goal, roots, visited, bound, calls>>

SearchCycle(p) ==
  /\ pc = "search" /\ stack # << >> /\ p \in Rest
  /\ ClosesCycle(p)
  /\ pc' = "raised"
  /\ UNCHANGED <<buildVars, cellVars, compiled, searchVars, bound, calls>>

SearchReturn ==
  /\ pc = "search" /\ stack # << >> /\ Rest = {}
  /\ stack' = Front(stack)
  /\ UNCHANGED <<buildVars, cellVars, compiled, pc, goal, roots, visited, bound, calls>>

(* The graph compile() freezes: the bindings, and a "component" binding    *)
(* for every edge without one.                                             *)
Graph ==
  [components |-> {ids[a] : a \in ToSet(registry)},
   bindings |-> bindings \cup
     {[provider |-> ids[e[1]], consumer |-> ids[e[2]], name |-> None, kind |-> "component"] :
        e \in {e \in edges : \A bd \in bindings :
                 <<bd.provider, bd.consumer>> # <<ids[e[1]], ids[e[2]]>>}}]

compile ==
  /\ pc = "search" /\ stack = << >> /\ roots = {}
  /\ compiled' = {Graph}
  /\ pc' = IF goal = "compile" THEN "build" ELSE "bind"
  /\ bound' = 0
  /\ UNCHANGED <<buildVars, cellVars, searchVars, calls>>

-----------------------------------------------------------------------------
(* Mutation: the cells are copied to the direct parents only. *)
PropagateToParents(a) ==
  LET own == {n \in DOMAIN cells[a] : ~(cells[a][n].kind = "method" /\ cells[a][n].origin # a)}
  IN  cells' = [p \in Artifacts |-> IF p \in parents[a]
                  THEN Updated(cells[p], [n \in own |-> cells[a][n]]) ELSE cells[p]]

(* _propagate of every cell of a that the loop does not skip.  Only        *)
(* inherited MethodCells are skipped.                                      *)
Propagate(a) ==
  LET own == {n \in DOMAIN cells[a] : ~(cells[a][n].kind = "method" /\ cells[a][n].origin # a)}
  IN  cells' = [p \in Artifacts |-> IF p \in Ancestors(a)
                  THEN Updated(cells[p], [n \in own |-> cells[a][n]]) ELSE cells[p]]

finalize ==
  /\ pc = "bind" /\ bound < Len(registry)
  /\ Propagate(registry[bound + 1])
  /\ bound' = bound + 1
  /\ UNCHANGED <<buildVars, compiled, pc, searchVars, calls>>

FinalizeEnd ==
  /\ pc = "bind" /\ bound = Len(registry)
  /\ pc' = "final"
  /\ UNCHANGED <<buildVars, cellVars, compiled, searchVars, bound, calls>>

Next ==
  \/ \E a \in Artifacts : add(a) \/ SearchRoot(a) \/ SearchParent(a) \/ SearchKnown(a)
                            \/ SearchCycle(a)
  \/ \E a \in Artifacts, id \in ExplicitIds : addExplicit(a, id) \/ addRefused(a, id)
  \/ \E child, parent \in Artifacts :
       \/ connect(child, parent)
       \/ \E names \in SUBSET DOMAIN Attrs[child] : deploy(child, parent, names)
       \/ \E n \in DOMAIN cells[child] \cup DOMAIN Attrs[child] : register(child, n, parent)
  \/ \E g \in {"compile", "finalize"} : Search(g)
  \/ SearchReturn \/ compile \/ finalize \/ FinalizeEnd

Spec == Init /\ [][Next]_vars

-----------------------------------------------------------------------------
(* Every variable stays in its type. *)
RegistryTypeOK ==
  /\ registry \in Seq(Artifacts) /\ DOMAIN ids \subseteq Artifacts
  /\ edges \subseteq Artifacts \X Artifacts /\ parents \in [Artifacts -> SUBSET Artifacts]
  /\ \A a \in Artifacts : \A n \in DOMAIN cells[a] :
       /\ cells[a][n].origin \in Artifacts
       /\ cells[a][n].kind \in {"method", "state", "dist"}
  /\ pc \in {"build", "search", "bind", "final", "raised"}
  /\ roots \subseteq Artifacts /\ visited \subseteq Artifacts /\ Active \subseteq visited
  /\ bound \in 0 .. Len(registry)

(* Components are added once, under ids no other component has, whatever   *)
(* explicit and implicit ids are mixed; what is bound is added (add,       *)
(* _claim_component_id, register, connect).                                *)
ComponentIdsUnique ==
  /\ ToSet(registry) = DOMAIN ids /\ Len(registry) = Cardinality(DOMAIN ids)
  /\ \A a, c \in DOMAIN ids : ids[a] = ids[c] => a = c
  /\ \A a \in Artifacts : \A p \in parents[a] : {a, p} \subseteq DOMAIN ids

(* What holds in every state of the registry: the types, with the path of  *)
(* the cycle search inside what it has visited, and the ids (_claim_       *)
(* component_id, _check_cycles).                                           *)
RegistryInv == RegistryTypeOK /\ ComponentIdsUnique

(* A compiled graph is the graph of the registry as it is now: whatever    *)
(* changes it also drops the compiled graph (_invalidate_compiled_graph).  *)
CompiledGraphIsCurrent == compiled \subseteq {Graph}

(* _check_cycles finds a cycle exactly where there is one: the search does *)
(* not raise on a shared ancestor, and nothing is bound on a cycle.        *)
Cyclic == \E a \in ToSet(registry) : a \in Ancestors(a)
CyclesAreFound ==
  /\ pc = "search" /\ stack # << >> /\ (\E p \in Rest : ClosesCycle(p)) => Cyclic
  /\ pc \in {"bind", "final"} => ~Cyclic

(* The comment in finalize: every cell an artifact defined is propagated   *)
(* to all its ancestors.  After finalize an ancestor has a cell of that    *)
(* name, every cell it has is its own or of an artifact below it, and      *)
(* where only one artifact defines the name it is the cell of that         *)
(* artifact: finalize may run again after more calls.                      *)
Defined(a) == {n \in DOMAIN cells[a] : cells[a][n].origin = a}
Below(p) == {a \in Artifacts : a = p \/ p \in Ancestors(a)}
VisibleToAncestors ==
  pc = "final" =>
    \A p \in ToSet(registry) :
      /\ \A n \in DOMAIN cells[p] : cells[p][n].origin \in Below(p)
      /\ \A a \in Below(p) : \A n \in Defined(a) :
           /\ n \in DOMAIN cells[p]
           /\ (\A o \in Below(p) : n \in Defined(o) => o = a) => cells[p][n] = cells[a][n]
=============================================================================
