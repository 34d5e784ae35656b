--------------------------- MODULE RegistryProofs ---------------------------
(***************************************************************************)
(* Proofs about the registry, for every set of artifacts, whatever classes *)
(* and attributes they have, and every sequence of calls.                  *)
(***************************************************************************)
EXTENDS Registry, TLAPS, FiniteSetTheorems, SequenceTheorems, NaturalsInduction, WellFoundedInduction

-----------------------------------------------------------------------------
(* Ancestors, for any table of parents: the least set that contains the    *)
(* parents of a and the parents of all its members.                        *)
Above(par, a) ==
  {p \in Artifacts : \A S \in SUBSET Artifacts :
     par[a] \subseteq S /\ (\A x \in S : par[x] \subseteq S) => p \in S}
Tables == [Artifacts -> SUBSET Artifacts]

LEMMA AboveIsClosed ==
  ASSUME NEW par \in Tables, NEW a \in Artifacts
  PROVE  /\ Above(par, a) \subseteq Artifacts
         /\ par[a] \subseteq Above(par, a)
         /\ \A x \in Above(par, a) : par[x] \subseteq Above(par, a)
<1>1. ASSUME NEW p \in par[a] PROVE p \in Above(par, a)
  BY <1>1 DEF Above, Tables
<1>2. ASSUME NEW x \in Above(par, a), NEW p \in par[x] PROVE p \in Above(par, a)
  <2>1. p \in Artifacts /\ x \in Artifacts
    BY <1>2 DEF Above, Tables
  <2>2. ASSUME NEW S \in SUBSET Artifacts, par[a] \subseteq S,
               \A y \in S : par[y] \subseteq S
        PROVE  p \in S
    <3>1. x \in S
      BY <1>2, <2>2 DEF Above
    <3> QED BY <1>2, <2>2, <3>1
  <2> QED BY <2>1, <2>2 DEF Above
<1> QED BY <1>1, <1>2 DEF Above

LEMMA AboveIsLeast ==
  ASSUME NEW par \in Tables, NEW a \in Artifacts, NEW S \in SUBSET Artifacts,
         par[a] \subseteq S, \A x \in S : par[x] \subseteq S
  PROVE  Above(par, a) \subseteq S
BY DEF Above

LEMMA AboveIsTransitive ==
  ASSUME NEW par \in Tables, NEW a \in Artifacts, NEW p \in Above(par, a)
  PROVE  Above(par, p) \subseteq Above(par, a)
<1>1. Above(par, a) \in SUBSET Artifacts /\ par[p] \subseteq Above(par, a)
      /\ (\A x \in Above(par, a) : par[x] \subseteq Above(par, a)) /\ p \in Artifacts
  BY AboveIsClosed
<1> QED BY <1>1, AboveIsLeast

LEMMA AboveGrows ==
  ASSUME NEW par \in Tables, NEW more \in Tables, NEW a \in Artifacts,
         \A x \in Artifacts : par[x] \subseteq more[x]
  PROVE  Above(par, a) \subseteq Above(more, a)
<1>1. /\ Above(more, a) \in SUBSET Artifacts /\ more[a] \subseteq Above(more, a)
      /\ \A x \in Above(more, a) : more[x] \subseteq Above(more, a)
  BY AboveIsClosed
<1>2. par[a] \subseteq Above(more, a) /\ \A x \in Above(more, a) : par[x] \subseteq Above(more, a)
  BY <1>1
<1> QED BY <1>1, <1>2, AboveIsLeast

LEMMA NothingAbove ==
  ASSUME NEW par \in Tables, NEW a \in Artifacts, par[a] = {}
  PROVE  Above(par, a) = {}
BY AboveIsLeast

-----------------------------------------------------------------------------
(* An implicit component id is one that no component has: among the first  *)
(* Cardinality(taken) + 1 suffixes one is free.                            *)
LEMMA LeastOf ==
  ASSUME NEW S \in SUBSET Nat, S # {}
  PROVE  \E k \in S : \A j \in S : k <= j
<1>1. PICK k \in S : \A j \in S : ~(<<j, k>> \in OpToRel(<, Nat))
  BY WFMin, NatLessThanWellFounded
<1>2. ASSUME NEW j \in S, j < k PROVE FALSE
  <2>1. <<j, k>> \in {ss \in Nat \X Nat : ss[1] < ss[2]}
    BY <1>2
  <2> QED BY <1>1, <2>1 DEF OpToRel
<1> QED BY <1>2

LEMMA ImplicitIdIsFree ==
  ASSUME NEW name, NEW taken, IsFiniteSet(taken)
  PROVE  FirstFree(name, taken) \notin taken
<1> SUFFICES ASSUME <<name, 1>> \in taken PROVE FirstFree(name, taken) \notin taken
  BY DEF FirstFree
<1> DEFINE n == Cardinality(taken)
           Open == {k \in 2 .. n + 1 : <<name, k>> \notin taken}
           Good(k) == /\ <<name, k>> \notin taken
                      /\ \A j \in 2 .. k - 1 : <<name, j>> \in taken
<1>0. n \in Nat
  BY FS_CardinalityType
<1> HIDE DEF n
<1>1. Open # {}
  <2> SUFFICES ASSUME Open = {} PROVE FALSE
    OBVIOUS
  <2>1. \A k \in 1 .. n + 1 : <<name, k>> \in taken
    BY <1>0
  <2> DEFINE f == [k \in 1 .. n + 1 |-> <<name, k>>]
  <2>2. f \in [1 .. n + 1 -> taken]
    BY <2>1
  <2>3. IsFiniteSet(1 .. n + 1) /\ Cardinality(1 .. n + 1) = n + 1
    <3>1. 1 \in Int /\ n + 1 \in Int
      BY <1>0
    <3>2. IsFiniteSet(1 .. n + 1)
          /\ Cardinality(1 .. n + 1) = IF 1 > n + 1 THEN 0 ELSE (n + 1) - 1 + 1
      BY <3>1, FS_Interval, Zenon
    <3> QED BY <3>2, <1>0
  <2>4. Cardinality(taken) < Cardinality(1 .. n + 1)
    BY <2>3, <1>0 DEF n
  <2> HIDE DEF f
  <2>5. \E x, y \in 1 .. n + 1 : x # y /\ f[x] = f[y]
    <3> DEFINE D == 1 .. n + 1
    <3>1. f \in [D -> taken] /\ IsFiniteSet(D) /\ Cardinality(taken) < Cardinality(D)
          /\ IsFiniteSet(taken)
      BY <2>2, <2>3, <2>4
    <3> HIDE DEF D
    <3>2. \E x, y \in D : x # y /\ f[x] = f[y]
      BY ONLY <3>1, FS_PigeonHole
    <3> QED BY <3>2 DEF D
  <2> QED BY <2>5 DEF f
<1>2. PICK k \in Open : \A j \in Open : k <= j
  <2>1. Open \in SUBSET Nat
    BY <1>0
  <2> QED BY <1>1, <2>1, LeastOf
<1>3. k \in 2 .. n + 1 /\ Good(k)
  BY <1>0, <1>2
<1>4. Good(CHOOSE j \in 2 .. n + 1 : Good(j))
  BY <1>3, Zenon
<1>5. FirstFree(name, taken) = <<name, CHOOSE j \in 2 .. n + 1 : Good(j)>>
  BY DEF FirstFree, n
<1> QED BY <1>4, <1>5

-----------------------------------------------------------------------------
(* The registry and the ids agree: every component once, and its id its own. *)
Consistent(reg, idOf) ==
  /\ reg \in Seq(Artifacts) /\ DOMAIN idOf \subseteq Artifacts
  /\ ToSet(reg) = DOMAIN idOf /\ Len(reg) = Cardinality(DOMAIN idOf)
  /\ \A a, c \in DOMAIN idOf : idOf[a] = idOf[c] => a = c

LEMMA UpdatedFacts ==
  ASSUME NEW f, NEW g
  PROVE  /\ DOMAIN Updated(g, f) = DOMAIN f \cup DOMAIN g
         /\ \A x \in DOMAIN f : Updated(g, f)[x] = f[x]
         /\ \A x \in DOMAIN g \ DOMAIN f : Updated(g, f)[x] = g[x]
BY DEF Updated

LEMMA EnrolFresh ==
  ASSUME NEW reg, NEW idOf, Consistent(reg, idOf), NEW a \in Artifacts \ DOMAIN idOf,
         NEW id, \A c \in DOMAIN idOf : idOf[c] # id
  PROVE  LET new == Updated(idOf, Entry(a, id)) IN
         /\ Consistent(Append(reg, a), new)
         /\ DOMAIN new = DOMAIN idOf \cup {a}
         /\ Len(reg) <= Len(Append(reg, a))
<1> DEFINE new == Updated(idOf, Entry(a, id))
           more == Append(reg, a)
<1>1. /\ DOMAIN new = DOMAIN idOf \cup {a} /\ new[a] = id
      /\ \A c \in DOMAIN idOf : new[c] = idOf[c]
  BY DEF Updated, Entry
<1>2. /\ more \in Seq(Artifacts) /\ Len(more) = Len(reg) + 1 /\ Len(reg) \in Nat
      /\ more[Len(reg) + 1] = a /\ \A i \in 1 .. Len(reg) : more[i] = reg[i]
  BY DEF Consistent
<1>3. IsFiniteSet(DOMAIN idOf)
  BY RegistryAssumption, FS_Subset DEF Consistent
<1>4. Cardinality(DOMAIN idOf \cup {a}) = Cardinality(DOMAIN idOf) + 1
  BY <1>3, FS_AddElement
<1>5. ToSet(more) = ToSet(reg) \cup {a}
  <2>1. DOMAIN more = 1 .. Len(reg) + 1 /\ DOMAIN reg = 1 .. Len(reg)
    BY <1>2 DEF Consistent
  <2>2. \A i \in DOMAIN more : more[i] \in ToSet(reg) \cup {a}
    <3> SUFFICES ASSUME NEW i \in DOMAIN more PROVE more[i] \in ToSet(reg) \cup {a}
      OBVIOUS
    <3>1. CASE i = Len(reg) + 1
      BY <3>1, <1>2
    <3>2. CASE i \in DOMAIN reg
      BY <3>2, <1>2, <2>1 DEF ToSet
    <3> QED BY <3>1, <3>2, <2>1, <1>2
  <2>3. \A i \in DOMAIN reg : i \in DOMAIN more /\ more[i] = reg[i]
    BY <2>1, <1>2
  <2>4. Len(reg) + 1 \in DOMAIN more
    BY <2>1, <1>2
  <2> QED BY <2>2, <2>3, <2>4, <1>2 DEF ToSet
<1> HIDE DEF new, more
<1>6. Consistent(more, new)
  BY <1>1, <1>2, <1>4, <1>5 DEF Consistent
<1> QED BY <1>6, <1>1, <1>2 DEF new, more

LEMMA EnrolOne ==
  ASSUME NEW d, d = [registry |-> d.registry, ids |-> d.ids],
         Consistent(d.registry, d.ids), NEW a \in Artifacts
  PROVE  LET e == Enrol(d, a) IN
         /\ Consistent(e.registry, e.ids)
         /\ e = [registry |-> e.registry, ids |-> e.ids]
         /\ DOMAIN e.ids = DOMAIN d.ids \cup {a}
         /\ Len(d.registry) <= Len(e.registry)
<1> DEFINE e == Enrol(d, a)
           taken == {d.ids[y] : y \in DOMAIN d.ids}
           id == FirstFree(ClassName[a], taken)
<1>0. Len(d.registry) \in Nat
  BY DEF Consistent
<1>1. CASE a \in DOMAIN d.ids
  <2>1. e = d
    BY <1>1 DEF Enrol
  <2> QED BY <2>1, <1>0, <1>1
<1>2. CASE a \notin DOMAIN d.ids
  <2> DEFINE new == Updated(d.ids, Entry(a, id))
             more == Append(d.registry, a)
  <2>1. e = [registry |-> more, ids |-> new]
    BY <1>2 DEF Enrol
  <2>2. IsFiniteSet(taken)
    <3>1. IsFiniteSet(DOMAIN d.ids)
      BY RegistryAssumption, FS_Subset DEF Consistent
    <3> DEFINE f == [y \in DOMAIN d.ids |-> d.ids[y]]
    <3>2. f \in Surjection(DOMAIN d.ids, taken)
      BY DEF Surjection
    <3> QED BY <3>1, <3>2, FS_Surjection
  <2> HIDE DEF taken
  <2>3. id \notin taken
    BY <2>2, ImplicitIdIsFree
  <2>4. \A c \in DOMAIN d.ids : d.ids[c] # id
    BY <2>3 DEF taken
  <2> HIDE DEF id
  <2>5. a \in Artifacts \ DOMAIN d.ids
    BY <1>2
  <2>6. Consistent(more, new) /\ DOMAIN new = DOMAIN d.ids \cup {a}
        /\ Len(d.registry) <= Len(more)
    BY <2>4, <2>5, EnrolFresh
  <2> HIDE DEF new, more, e
  <2> QED BY <2>6, <2>1 DEF e
<1> QED BY <1>1, <1>2

LEMMA EnrolTwo ==
  ASSUME Consistent(registry, ids), NEW child \in Artifacts, NEW parent \in Artifacts
  PROVE  LET e == Enrolled(child, parent) IN
         /\ Consistent(e.registry, e.ids)
         /\ DOMAIN e.ids = DOMAIN ids \cup {child, parent}
         /\ Len(registry) <= Len(e.registry)
<1> DEFINE now == [registry |-> registry, ids |-> ids]
           one == Enrol(now, child)
           two == Enrol(one, parent)
<1>0. /\ now = [registry |-> now.registry, ids |-> now.ids]
      /\ now.registry = registry /\ now.ids = ids
  OBVIOUS
<1>1. /\ Consistent(one.registry, one.ids)
      /\ one = [registry |-> one.registry, ids |-> one.ids]
      /\ DOMAIN one.ids = DOMAIN ids \cup {child}
      /\ Len(registry) <= Len(one.registry)
  <2> HIDE DEF now
  <2> QED BY <1>0, EnrolOne
<1>3. two = Enrolled(child, parent)
  BY DEF Enrolled
<1> HIDE DEF one
<1>2. /\ Consistent(two.registry, two.ids)
      /\ DOMAIN two.ids = DOMAIN one.ids \cup {parent}
      /\ Len(one.registry) <= Len(two.registry)
  BY <1>1, EnrolOne
<1>4. Len(registry) \in Nat /\ Len(one.registry) \in Nat /\ Len(two.registry) \in Nat
  BY <1>1, <1>2 DEF Consistent
<1> HIDE DEF two
<1> QED BY <1>1, <1>2, <1>3, <1>4


-----------------------------------------------------------------------------
(***************************************************************************)
(* The inductive invariant.  A cell any artifact has is the cell of its    *)
(* origin, which is the artifact or below it (CellsInv); the search has a  *)
(* path of ancestors on its stack and has left behind a closed set without *)
(* a cycle (SearchInv); the loop of finalize has given every ancestor of   *)
(* the artifacts it handled a cell of every name they define (BindInv).    *)
(***************************************************************************)
Frames == [node : Artifacts, rest : SUBSET Artifacts]
TypesInv == RegistryTypeOK /\ DOMAIN cells = Artifacts /\ stack \in Seq(Frames)

IdsInv ==
  /\ Consistent(registry, ids)
  /\ \A a \in Artifacts : \A p \in parents[a] : {a, p} \subseteq DOMAIN ids

Rooted(cl, par) ==
  \A p \in Artifacts : \A n \in DOMAIN cl[p] :
    LET o == cl[p][n].origin IN
    /\ o \in Artifacts
    /\ o = p \/ p \in Above(par, o)
    /\ n \in DOMAIN cl[o] /\ cl[o][n] = cl[p][n]
CellsInv == Rooted(cells, parents)

Node(i) == stack[i].node
Finished == visited \ Active
PathInv ==
  /\ \A i, j \in DOMAIN stack : i < j => Node(j) \in Above(parents, Node(i)) /\ Node(j) # Node(i)
  /\ \A i \in DOMAIN stack :
       /\ stack[i].rest \subseteq parents[Node(i)]
       /\ \A p \in parents[Node(i)] \ stack[i].rest :
            p \in Finished \/ (i < Len(stack) /\ p = Node(i + 1))
FinishedInv ==
  /\ \A f \in Finished : parents[f] \subseteq Finished /\ f \notin Above(parents, f)
  /\ ToSet(registry) \subseteq visited \cup roots
SearchInv == pc = "search" => PathInv /\ FinishedInv

Given(cl, par, a) == \A p \in Above(par, a) : \A n \in DOMAIN cl[a] :
                       cl[a][n].origin = a => n \in DOMAIN cl[p]
BindInv ==
  /\ pc \in {"bind", "final"} =>
       /\ \A a \in Artifacts : a \notin Above(parents, a)
       /\ \A i \in 1 .. bound : Given(cells, parents, registry[i])
  /\ pc = "final" => bound = Len(registry)

RegistryInd == TypesInv /\ IdsInv /\ CompiledGraphIsCurrent /\ CellsInv /\ SearchInv /\ BindInv

LEMMA AncestorsAreAbove == \A a \in Artifacts : Ancestors(a) = Above(parents, a)
BY DEF Ancestors, Above

-----------------------------------------------------------------------------
LEMMA InitRegistry == Init => RegistryInd
<1> SUFFICES ASSUME Init PROVE RegistryInd
  OBVIOUS
<1> USE DEF Init
<1>1. DOMAIN ids = {}
  BY DEF Empty
<1>2. TypesInv
  <2>1. \A a \in Artifacts : DOMAIN cells[a] = {}
    BY DEF Empty
  <2>2. Active = {}
    BY DEF Active
  <2> QED BY <1>1, <2>1, <2>2 DEF TypesInv, RegistryTypeOK
<1>3. IdsInv
  <2>1. Cardinality({}) = 0
    BY FS_EmptySet
  <2>2. ToSet(registry) = {} /\ registry \in Seq(Artifacts) /\ Len(registry) = 0
    BY DEF ToSet
  <2> QED BY <1>1, <2>1, <2>2 DEF IdsInv, Consistent
<1>4. CellsInv
  BY DEF CellsInv, Rooted, Empty
<1> QED BY <1>2, <1>3, <1>4 DEF RegistryInd, CompiledGraphIsCurrent, SearchInv, BindInv

-----------------------------------------------------------------------------
(* What the calls that build the registry have in common. *)
Grows ==
  /\ pc' = "build" /\ compiled' = {}
  /\ UNCHANGED <<searchVars, bound>>
  /\ Consistent(registry', ids') /\ DOMAIN ids \subseteq DOMAIN ids'
  /\ Len(registry) <= Len(registry')
  /\ edges' \subseteq Artifacts \X Artifacts
  /\ parents' \in Tables
  /\ \A a \in Artifacts : parents[a] \subseteq parents'[a]
  /\ \A a \in Artifacts : \A p \in parents'[a] : {a, p} \subseteq DOMAIN ids'

Joins(child, parent) ==
  /\ registry' = Enrolled(child, parent).registry /\ ids' = Enrolled(child, parent).ids
  /\ parents' = [parents EXCEPT ![child] = @ \cup {parent}]
  /\ edges' = edges \cup {<<child, parent>>}

LEMMA AddGrows ==
  ASSUME TypesInv, IdsInv, NEW a \in Artifacts, add(a)
  PROVE  Grows
<1> DEFINE d == [registry |-> registry, ids |-> ids]
           e == Enrol(d, a)
<1>1. d = [registry |-> d.registry, ids |-> d.ids] /\ d.registry = registry /\ d.ids = ids
  OBVIOUS
<1>2. registry' = e.registry /\ ids' = e.ids
  BY DEF add
<1>3. /\ Consistent(e.registry, e.ids) /\ DOMAIN e.ids = DOMAIN ids \cup {a}
      /\ Len(registry) <= Len(e.registry)
  <2> HIDE DEF d
  <2> QED BY <1>1, EnrolOne DEF IdsInv
<1> HIDE DEF d, e
<1>4. /\ parents' = parents /\ edges' = edges /\ pc' = "build" /\ compiled' = {}
      /\ UNCHANGED <<searchVars, bound>>
  BY DEF add, Building
<1> QED BY <1>2, <1>3, <1>4 DEF Grows, TypesInv, RegistryTypeOK, Tables, IdsInv

LEMMA AddExplicitGrows ==
  ASSUME TypesInv, IdsInv, NEW a \in Artifacts, NEW id \in ExplicitIds, addExplicit(a, id)
  PROVE  Grows
<1>1. a \in Artifacts \ DOMAIN ids /\ \A c \in DOMAIN ids : ids[c] # id
  BY DEF addExplicit, Claimed
<1>2. /\ Consistent(registry', ids') /\ DOMAIN ids' = DOMAIN ids \cup {a}
      /\ Len(registry) <= Len(registry')
  BY <1>1, EnrolFresh DEF addExplicit, IdsInv
<1>4. /\ parents' = parents /\ edges' = edges /\ pc' = "build" /\ compiled' = {}
      /\ UNCHANGED <<searchVars, bound>>
  BY DEF addExplicit, Building
<1> QED BY <1>2, <1>4 DEF Grows, TypesInv, RegistryTypeOK, Tables, IdsInv

LEMMA JoiningGrows ==
  ASSUME TypesInv, IdsInv, NEW child \in Artifacts, NEW parent \in Artifacts,
         Building, compiled' = {}, Joins(child, parent)
  PROVE  Grows
<1>1. /\ Consistent(registry', ids') /\ DOMAIN ids' = DOMAIN ids \cup {child, parent}
      /\ Len(registry) <= Len(registry')
  BY EnrolTwo DEF IdsInv, Joins
<1>2. parents \in Tables
  BY DEF TypesInv, RegistryTypeOK, Tables
<1>3. /\ parents' \in Tables
      /\ \A a \in Artifacts : parents'[a] = IF a = child THEN parents[a] \cup {parent}
                                                         ELSE parents[a]
  BY <1>2 DEF Joins, Tables
<1>4. \A a \in Artifacts : \A p \in parents'[a] : {a, p} \subseteq DOMAIN ids'
  BY <1>1, <1>3 DEF IdsInv
<1>5. edges' \subseteq Artifacts \X Artifacts
  BY DEF Joins, TypesInv, RegistryTypeOK
<1>6. pc' = "build" /\ UNCHANGED <<searchVars, bound>>
  BY DEF Building
<1> QED BY <1>1, <1>3, <1>4, <1>5, <1>6 DEF Grows

(* A call that builds the registry keeps the invariant when the cells it   *)
(* leaves are typed and are the cells of their origins.                    *)
LEMMA BuildingKeeps ==
  ASSUME RegistryInd, Grows, DOMAIN cells' = Artifacts,
         \A a \in Artifacts : \A n \in DOMAIN cells'[a] :
           cells'[a][n].kind \in {"method", "state", "dist"},
         Rooted(cells', parents')
  PROVE  RegistryInd'
<1>1. TypesInv'
  <2>1. Active' = Active /\ stack' = stack /\ visited' = visited /\ roots' = roots
        /\ bound' = bound
    BY DEF Grows, searchVars, Active
  <2>2. bound' \in 0 .. Len(registry')
    BY <2>1 DEF Grows, Consistent, RegistryInd, TypesInv, RegistryTypeOK, IdsInv
  <2>3. registry' \in Seq(Artifacts) /\ DOMAIN ids' \subseteq Artifacts
    BY DEF Grows, Consistent
  <2>4. \A a \in Artifacts : \A n \in DOMAIN cells'[a] : cells'[a][n].origin \in Artifacts
    BY DEF Rooted
  <2> QED BY <2>1, <2>2, <2>3, <2>4
          DEF Grows, RegistryInd, TypesInv, RegistryTypeOK, Tables
<1>2. IdsInv'
  BY DEF Grows, IdsInv
<1> QED BY <1>1, <1>2 DEF Grows, RegistryInd, CompiledGraphIsCurrent, CellsInv, SearchInv, BindInv


LEMMA RootedGrows ==
  ASSUME NEW cl, NEW par \in Tables, NEW more \in Tables, Rooted(cl, par),
         \A a \in Artifacts : par[a] \subseteq more[a]
  PROVE  Rooted(cl, more)
<1> SUFFICES ASSUME NEW p \in Artifacts, NEW n \in DOMAIN cl[p]
             PROVE  LET o == cl[p][n].origin IN
                    /\ o \in Artifacts /\ (o = p \/ p \in Above(more, o))
                    /\ n \in DOMAIN cl[o] /\ cl[o][n] = cl[p][n]
  BY DEF Rooted
<1> DEFINE o == cl[p][n].origin
<1>1. /\ o \in Artifacts /\ (o = p \/ p \in Above(par, o))
      /\ n \in DOMAIN cl[o] /\ cl[o][n] = cl[p][n]
  BY DEF Rooted
<1> HIDE DEF o
<1>2. Above(par, o) \subseteq Above(more, o)
  BY <1>1, AboveGrows
<1> QED BY <1>1, <1>2 DEF o

LEMMA SameCellsKeep ==
  ASSUME RegistryInd, Grows, cells' = cells
  PROVE  RegistryInd'
<1>1. parents \in Tables
  BY DEF RegistryInd, TypesInv, RegistryTypeOK, Tables
<1>2. Rooted(cells', parents')
  BY <1>1, RootedGrows DEF Grows, RegistryInd, CellsInv
<1>3. DOMAIN cells' = Artifacts
      /\ \A a \in Artifacts : \A n \in DOMAIN cells'[a] :
           cells'[a][n].kind \in {"method", "state", "dist"}
  BY DEF RegistryInd, TypesInv, RegistryTypeOK
<1> QED BY <1>2, <1>3, BuildingKeeps

LEMMA RegisterKeeps ==
  ASSUME RegistryInd, NEW child \in Artifacts, NEW parent \in Artifacts,
         NEW n \in DOMAIN cells[child] \cup DOMAIN Attrs[child], register(child, n, parent)
  PROVE  RegistryInd'
<1>1. parents \in Tables /\ DOMAIN cells = Artifacts
  BY DEF RegistryInd, TypesInv, RegistryTypeOK, Tables
<1>2. Grows
  BY JoiningGrows DEF register, RegistryInd, Joins
<1>3. CASE n \in DOMAIN cells[child]
  BY <1>2, <1>3, SameCellsKeep DEF register
<1>4. CASE n \notin DOMAIN cells[child]
  <2> DEFINE new == Updated(cells[child], Entry(n, Cell(child, n)))
  <2>1. /\ DOMAIN new = DOMAIN cells[child] \cup {n} /\ new[n] = Cell(child, n)
        /\ \A m \in DOMAIN cells[child] : new[m] = cells[child][m]
    BY <1>4 DEF Updated, Entry
  <2>2. cells' = [cells EXCEPT ![child] = new]
    BY <1>4 DEF register
  <2> HIDE DEF new
  <2>3. DOMAIN cells' = Artifacts /\ cells'[child] = new
        /\ \A a \in Artifacts \ {child} : cells'[a] = cells[a]
    BY <1>1, <2>2
  <2>4. Attrs[child][n] \in {"method", "state"}
    BY <1>4, RegistryAssumption
  <2>5. /\ Cell(child, n).origin = child
        /\ Cell(child, n).kind \in {"method", "state", "dist"}
    BY <2>4 DEF Cell
  <2>6. \A a \in Artifacts : \A m \in DOMAIN cells'[a] :
          cells'[a][m].kind \in {"method", "state", "dist"}
    BY <2>1, <2>3, <2>5 DEF RegistryInd, TypesInv, RegistryTypeOK
  <2>7. Rooted(cells', parents)
    <3> SUFFICES ASSUME NEW p \in Artifacts, NEW m \in DOMAIN cells'[p]
                 PROVE  LET o == cells'[p][m].origin IN
                        /\ o \in Artifacts /\ (o = p \/ p \in Above(parents, o))
                        /\ m \in DOMAIN cells'[o] /\ cells'[o][m] = cells'[p][m]
      BY DEF Rooted
    <3>1. CASE p = child /\ m = n
      BY <3>1, <2>1, <2>3, <2>5
    <3>2. CASE ~(p = child /\ m = n)
      <4>1. m \in DOMAIN cells[p] /\ cells'[p][m] = cells[p][m]
        BY <3>2, <2>1, <2>3
      <4> DEFINE o == cells[p][m].origin
      <4>2. /\ o \in Artifacts /\ (o = p \/ p \in Above(parents, o))
            /\ m \in DOMAIN cells[o] /\ cells[o][m] = cells[p][m]
        BY <4>1 DEF RegistryInd, CellsInv, Rooted
      <4>3. m \in DOMAIN cells'[o] /\ cells'[o][m] = cells[o][m]
        BY <4>2, <2>1, <2>3
      <4> QED BY <4>1, <4>2, <4>3
    <3> QED BY <3>1, <3>2
  <2>8. Rooted(cells', parents')
    BY <2>7, <1>1, <1>2, RootedGrows DEF Grows
  <2> QED BY <1>2, <2>3, <2>6, <2>8, BuildingKeeps
<1> QED BY <1>3, <1>4

(* A deployed runner is new: it has no parents yet, so no other artifact   *)
(* has a cell of it that its constructor could replace.                    *)
LEMMA DeployKeeps ==
  ASSUME RegistryInd, NEW child \in Artifacts, NEW parent \in Artifacts,
         NEW names \in SUBSET DOMAIN Attrs[child], deploy(child, parent, names)
  PROVE  RegistryInd'
<1>1. parents \in Tables /\ DOMAIN cells = Artifacts
  BY DEF RegistryInd, TypesInv, RegistryTypeOK, Tables
<1>2. Grows
  BY JoiningGrows DEF deploy, RegistryInd, Joins
<1>3. Above(parents, child) = {}
  <2>1. parents[child] = {}
    BY DEF deploy, RegistryInd, IdsInv
  <2> QED BY <2>1, <1>1, NothingAbove
<1> DEFINE new == [n \in names |->
                     IF Attrs[child][n] = "method" THEN [Cell(child, n) EXCEPT !.kind = "dist"]
                                                   ELSE Cell(child, n)]
<1>4. \A n \in names : new[n].origin = child /\ new[n].kind \in {"method", "state", "dist"}
  <2>1. \A n \in names : Attrs[child][n] \in {"method", "state"}
    BY RegistryAssumption
  <2> QED BY <2>1 DEF Cell
<1>5. cells' = [cells EXCEPT ![child] = new] /\ DOMAIN new = names
  BY DEF deploy
<1> HIDE DEF new
<1>6. DOMAIN cells' = Artifacts /\ cells'[child] = new
      /\ \A a \in Artifacts \ {child} : cells'[a] = cells[a]
  BY <1>1, <1>5
<1>7. \A a \in Artifacts : \A m \in DOMAIN cells'[a] :
        cells'[a][m].kind \in {"method", "state", "dist"}
  BY <1>4, <1>5, <1>6 DEF RegistryInd, TypesInv, RegistryTypeOK
<1>8. Rooted(cells', parents)
  <2> SUFFICES ASSUME NEW p \in Artifacts, NEW m \in DOMAIN cells'[p]
               PROVE  LET o == cells'[p][m].origin IN
                      /\ o \in Artifacts /\ (o = p \/ p \in Above(parents, o))
                      /\ m \in DOMAIN cells'[o] /\ cells'[o][m] = cells'[p][m]
    BY DEF Rooted
  <2>1. CASE p = child
    BY <2>1, <1>4, <1>5, <1>6
  <2>2. CASE p # child
    <3>1. m \in DOMAIN cells[p] /\ cells'[p][m] = cells[p][m]
      BY <2>2, <1>6
    <3> DEFINE o == cells[p][m].origin
    <3>2. /\ o \in Artifacts /\ (o = p \/ p \in Above(parents, o))
          /\ m \in DOMAIN cells[o] /\ cells[o][m] = cells[p][m]
      BY <3>1 DEF RegistryInd, CellsInv, Rooted
    <3>3. o # child
      BY <3>2, <2>2, <1>3
    <3>4. cells'[o] = cells[o]
      BY <3>2, <3>3, <1>6
    <3> QED BY <3>1, <3>2, <3>4
  <2> QED BY <2>1, <2>2
<1>9. Rooted(cells', parents')
  BY <1>8, <1>1, <1>2, RootedGrows DEF Grows
<1> QED BY <1>2, <1>6, <1>7, <1>9, BuildingKeeps

LEMMA AddKeeps ==
  ASSUME RegistryInd, NEW a \in Artifacts, add(a)
  PROVE  RegistryInd'
<1>1. Grows
  BY AddGrows DEF RegistryInd
<1> QED BY <1>1, SameCellsKeep DEF add, cellVars

LEMMA AddExplicitKeeps ==
  ASSUME RegistryInd, NEW a \in Artifacts, NEW id \in ExplicitIds, addExplicit(a, id)
  PROVE  RegistryInd'
<1>1. Grows
  BY AddExplicitGrows DEF RegistryInd
<1> QED BY <1>1, SameCellsKeep DEF addExplicit, cellVars

LEMMA ConnectKeeps ==
  ASSUME RegistryInd, NEW child \in Artifacts, NEW parent \in Artifacts,
         connect(child, parent)
  PROVE  RegistryInd'
<1>1. Grows
  BY JoiningGrows DEF RegistryInd, connect, Joins
<1> QED BY <1>1, SameCellsKeep DEF connect, cellVars


-----------------------------------------------------------------------------
(* The stack of the search with its top frame gone, after the top frame    *)
(* looked at p, and with a frame for p above it.                           *)
LEMMA Popped ==
  ASSUME stack \in Seq(Frames), stack # << >>
  PROVE  /\ Len(stack) \in Nat \ {0} /\ DOMAIN stack = 1 .. Len(stack)
         /\ Last(stack) = stack[Len(stack)] /\ stack[Len(stack)] \in Frames
         /\ Front(stack) \in Seq(Frames) /\ Len(Front(stack)) = Len(stack) - 1
         /\ DOMAIN Front(stack) = 1 .. Len(stack) - 1
         /\ \A i \in 1 .. Len(stack) - 1 : Front(stack)[i] = stack[i]
<1>1. Len(stack) \in Nat \ {0} /\ DOMAIN stack = 1 .. Len(stack)
  OBVIOUS
<1>0. Len(stack) - 1 \in Nat
  BY <1>1
<1> PICK n \in Nat : n = Len(stack) - 1
  BY <1>0, Zenon
<1>2. /\ SubSeq(stack, 1, n) \in Seq(Frames) /\ Len(SubSeq(stack, 1, n)) = n
      /\ \A i \in 1 .. n : SubSeq(stack, 1, n)[i] = stack[i]
  BY <1>1
<1>3. Front(stack) = SubSeq(stack, 1, n)
  BY DEF Front
<1> QED BY <1>1, <1>2, <1>3 DEF Last

LEMMA LookedAt ==
  ASSUME stack \in Seq(Frames), stack # << >>, NEW p \in Artifacts
  PROVE  /\ Looked(p) \in Seq(Frames) /\ Len(Looked(p)) = Len(stack)
         /\ \A i \in 1 .. Len(stack) - 1 : Looked(p)[i] = stack[i]
         /\ Looked(p)[Len(stack)].node = stack[Len(stack)].node
         /\ Looked(p)[Len(stack)].rest = stack[Len(stack)].rest \ {p}
<1> DEFINE top == [Last(stack) EXCEPT !.rest = @ \ {p}]
           low == Front(stack)
<1>0. Len(stack) - 1 \in Nat
  BY Popped
<1> PICK n \in Nat : n = Len(stack) - 1
  BY <1>0, Zenon
<1>1. /\ top \in Frames /\ top.node = stack[Len(stack)].node
      /\ top.rest = stack[Len(stack)].rest \ {p}
  BY Popped DEF Frames
<1>2. low \in Seq(Frames) /\ Len(low) = n /\ \A i \in 1 .. n : low[i] = stack[i]
  BY Popped
<1>3. Looked(p) = Append(low, top)
  BY DEF Looked
<1> HIDE DEF top, low
<1>4. /\ Append(low, top) \in Seq(Frames) /\ Len(Append(low, top)) = n + 1
      /\ Append(low, top)[n + 1] = top
      /\ \A i \in 1 .. n : Append(low, top)[i] = low[i]
  BY <1>1, <1>2
<1>5. n + 1 = Len(stack)
  BY Popped
<1> QED BY <1>1, <1>2, <1>3, <1>4, <1>5

LEMMA Pushed ==
  ASSUME stack \in Seq(Frames), stack # << >>, parents \in Tables, NEW p \in Artifacts
  PROVE  LET more == Append(Looked(p), Frame(p))  n == Len(stack) IN
         /\ more \in Seq(Frames) /\ Len(more) = n + 1
         /\ \A i \in 1 .. n - 1 : more[i] = stack[i]
         /\ more[n].node = stack[n].node /\ more[n].rest = stack[n].rest \ {p}
         /\ more[n + 1].node = p /\ more[n + 1].rest = parents[p]
<1> DEFINE seen == Looked(p)
           f == Frame(p)
<1> PICK n \in Nat \ {0} : n = Len(stack)
  BY Popped
<1>1. f \in Frames /\ f.node = p /\ f.rest = parents[p]
  BY DEF Frame, Frames, Tables
<1>2. /\ seen \in Seq(Frames) /\ Len(seen) = n
      /\ \A i \in 1 .. n - 1 : seen[i] = stack[i]
      /\ seen[n].node = stack[n].node /\ seen[n].rest = stack[n].rest \ {p}
  BY LookedAt
<1> HIDE DEF f, seen
<1>3. /\ Append(seen, f) \in Seq(Frames) /\ Len(Append(seen, f)) = n + 1
      /\ Append(seen, f)[n + 1] = f
      /\ \A i \in 1 .. n : Append(seen, f)[i] = seen[i]
  BY <1>1, <1>2
<1>4. n \in 1 .. n /\ \A i \in 1 .. n - 1 : i \in 1 .. n
  OBVIOUS
<1> QED BY <1>1, <1>2, <1>3, <1>4 DEF seen, f

(* What a step of the search leaves alone is all the rest of the invariant. *)
Searching ==
  /\ pc = "search" /\ pc' = "search"
  /\ UNCHANGED <<registry, ids, bindings, edges, parents, cells, compiled, goal, bound, calls>>

LEMMA SearchingKeeps ==
  ASSUME RegistryInd, Searching, stack' \in Seq(Frames), roots' \subseteq Artifacts,
         visited' \subseteq Artifacts, Active' \subseteq visited',
         PathInv', FinishedInv'
  PROVE  RegistryInd'
<1>1. TypesInv'
  BY DEF Searching, RegistryInd, TypesInv, RegistryTypeOK
<1>2. IdsInv'
  BY DEF Searching, RegistryInd, IdsInv
<1>3. CompiledGraphIsCurrent'
  BY DEF Searching, RegistryInd, CompiledGraphIsCurrent, Graph
<1>4. CellsInv' /\ BindInv' /\ SearchInv'
  BY DEF Searching, RegistryInd, CellsInv, BindInv, SearchInv
<1> QED BY <1>1, <1>2, <1>3, <1>4 DEF RegistryInd

LEMMA SearchBegins ==
  ASSUME RegistryInd, NEW g, Search(g)
  PROVE  RegistryInd'
<1>1. /\ UNCHANGED <<registry, ids, bindings, edges, parents, cells, compiled, bound>>
      /\ pc' = "search" /\ stack' = << >> /\ visited' = {} /\ roots' = ToSet(registry)
  BY DEF Search, buildVars, cellVars
<1>2. DOMAIN stack' = {} /\ Active' = {} /\ Finished' = {} /\ stack' \in Seq(Frames)
  BY <1>1 DEF Active, Finished
<1>3. TypesInv'
  <2>1. ToSet(registry) \subseteq Artifacts
    BY DEF RegistryInd, IdsInv, Consistent
  <2> QED BY <1>1, <1>2, <2>1 DEF RegistryInd, TypesInv, RegistryTypeOK
<1>4. IdsInv' /\ CellsInv' /\ BindInv'
  BY <1>1 DEF RegistryInd, IdsInv, CellsInv, BindInv
<1>5. CompiledGraphIsCurrent'
  BY <1>1 DEF RegistryInd, CompiledGraphIsCurrent, Graph
<1>6. SearchInv'
  BY <1>1, <1>2 DEF SearchInv, PathInv, FinishedInv
<1> QED BY <1>3, <1>4, <1>5, <1>6 DEF RegistryInd


LEMMA SearchTyped ==
  RegistryInd /\ pc = "search" =>
    /\ stack \in Seq(Frames) /\ parents \in Tables /\ PathInv /\ FinishedInv
    /\ roots \subseteq Artifacts /\ visited \subseteq Artifacts /\ Active \subseteq visited
BY DEF RegistryInd, TypesInv, RegistryTypeOK, Tables, SearchInv

LEMMA SearchRootKeeps ==
  ASSUME RegistryInd, NEW a \in Artifacts, SearchRoot(a)
  PROVE  RegistryInd'
<1>1. Searching /\ stack = << >> /\ a \in roots /\ roots' = roots \ {a}
  BY DEF SearchRoot, Searching, buildVars, cellVars
<1>2. /\ PathInv /\ FinishedInv /\ parents \in Tables
      /\ roots \subseteq Artifacts /\ visited \subseteq Artifacts
  BY <1>1, SearchTyped DEF Searching
<1>3. Active = {} /\ Finished = visited
  BY <1>1 DEF Active, Finished
<1>4. CASE a \in visited
  <2>1. visited' = visited /\ stack' = << >>
    BY <1>1, <1>4 DEF SearchRoot
  <2>2. Active' = {} /\ Finished' = visited
    BY <2>1 DEF Active, Finished
  <2>3. PathInv'
    BY <2>1 DEF PathInv
  <2>4. FinishedInv'
    BY <1>1, <1>2, <1>3, <1>4, <2>1, <2>2 DEF FinishedInv, Searching
  <2> QED BY <1>1, <1>2, <2>1, <2>2, <2>3, <2>4, SearchingKeeps
<1>5. CASE a \notin visited
  <2>1. visited' = visited \cup {a} /\ stack' = <<Frame(a)>>
    BY <1>5 DEF SearchRoot
  <2>2. /\ stack' \in Seq(Frames) /\ DOMAIN stack' = 1 .. 1
        /\ stack'[1].node = a /\ stack'[1].rest = parents[a]
    BY <1>2, <2>1 DEF Frame, Frames, Tables
  <2>3. Active' = {a}
    BY <2>2 DEF Active
  <2>4. Finished' = visited
    BY <1>5, <2>1, <2>3 DEF Finished
  <2>5. PathInv'
    BY <1>1, <2>2 DEF PathInv, Node, Searching
  <2>6. FinishedInv'
    BY <1>1, <1>2, <1>3, <2>1, <2>4 DEF FinishedInv, Searching
  <2>7. visited' \subseteq Artifacts /\ roots' \subseteq Artifacts /\ Active' \subseteq visited'
    BY <1>1, <1>2, <2>1, <2>3
  <2> QED BY <1>1, <2>2, <2>5, <2>6, <2>7, SearchingKeeps
<1> QED BY <1>4, <1>5

LEMMA SearchParentKeeps ==
  ASSUME RegistryInd, NEW p \in Artifacts, SearchParent(p)
  PROVE  RegistryInd'
<1>1. /\ Searching /\ stack # << >> /\ p \in Rest /\ p \notin visited /\ roots' = roots
      /\ visited' = visited \cup {p} /\ stack' = Append(Looked(p), Frame(p))
  BY DEF SearchParent, Searching, buildVars, cellVars
<1>2. /\ stack \in Seq(Frames) /\ parents \in Tables /\ PathInv /\ FinishedInv
      /\ roots \subseteq Artifacts /\ visited \subseteq Artifacts /\ Active \subseteq visited
  BY <1>1, SearchTyped DEF Searching
<1>3. Len(stack) \in Nat \ {0} /\ DOMAIN stack = 1 .. Len(stack)
      /\ Rest = stack[Len(stack)].rest
  BY <1>1, <1>2, Popped DEF Rest
<1> PICK n \in Nat \ {0} : n = Len(stack)
  BY <1>3, Zenon
<1>4. /\ stack' \in Seq(Frames) /\ Len(stack') = n + 1
      /\ \A i \in 1 .. n - 1 : stack'[i] = stack[i]
      /\ stack'[n].node = stack[n].node /\ stack'[n].rest = stack[n].rest \ {p}
      /\ stack'[n + 1].node = p /\ stack'[n + 1].rest = parents[p]
  BY <1>1, <1>2, Pushed
<1>5. DOMAIN stack' = 1 .. n + 1 /\ DOMAIN stack = 1 .. n
  BY <1>2, <1>4
<1>6. \A i \in 1 .. n : Node(i)' = Node(i) /\ Node(i) \in Artifacts /\ Node(i) # p
  <2>1. \A i \in 1 .. n : Node(i)' = Node(i)
    BY <1>4 DEF Node
  <2>2. \A i \in 1 .. n : Node(i) \in Active
    BY <1>5 DEF Active, Node
  <2> QED BY <1>1, <1>2, <2>1, <2>2
<1>7. Node(n + 1)' = p
  BY <1>4 DEF Node
<1>8. Active' = Active \cup {p}
  <2>1. Active = {Node(i) : i \in 1 .. n} /\ Active' = {Node(i)' : i \in 1 .. n + 1}
    BY <1>5 DEF Active, Node
  <2> QED BY <1>6, <1>7, <2>1
<1>9. Finished' = Finished
  BY <1>1, <1>8, <1>2 DEF Finished
<1>10. FinishedInv'
  BY <1>1, <1>2, <1>9 DEF FinishedInv, Searching
<1>11. PathInv'
  <2>1. ASSUME NEW i \in 1 .. n + 1, NEW j \in 1 .. n + 1, i < j
        PROVE  Node(j)' \in Above(parents, Node(i)') /\ Node(j)' # Node(i)'
    <3>1. i \in 1 .. n
      BY <2>1
    <3>2. CASE j \in 1 .. n
      BY <1>2, <1>5, <1>6, <2>1, <3>1, <3>2 DEF PathInv
    <3>3. CASE j = n + 1
      <4>1. p \in parents[Node(n)]
        BY <1>1, <1>2, <1>3, <1>5 DEF PathInv, Node
      <4>2. Node(n) \in Artifacts /\ Node(i) \in Artifacts
        BY <1>6, <3>1
      <4>3. p \in Above(parents, Node(n))
        BY <1>2, <4>1, <4>2, AboveIsClosed
      <4>4. CASE i = n
        BY <1>6, <1>7, <3>1, <3>3, <4>3, <4>4
      <4>5. CASE i < n
        <5>1. Node(n) \in Above(parents, Node(i))
          BY <1>2, <1>5, <3>1, <4>5 DEF PathInv
        <5>2. p \in Above(parents, Node(i))
          BY <1>2, <4>2, <4>3, <5>1, AboveIsTransitive
        <5> QED BY <1>6, <1>7, <3>1, <3>3, <5>2
      <4> QED BY <3>1, <4>4, <4>5
    <3> QED BY <2>1, <3>2, <3>3
  <2>2. ASSUME NEW i \in 1 .. n + 1
        PROVE  /\ stack'[i].rest \subseteq parents[Node(i)']
               /\ \A q \in parents[Node(i)'] \ stack'[i].rest :
                    q \in Finished \/ (i < n + 1 /\ q = Node(i + 1)')
    <3>1. CASE i \in 1 .. n - 1
      <4>1. stack'[i] = stack[i] /\ Node(i)' = Node(i) /\ Node(i + 1)' = Node(i + 1)
        BY <1>4, <1>6, <3>1
      <4>2. /\ stack[i].rest \subseteq parents[Node(i)]
            /\ \A q \in parents[Node(i)] \ stack[i].rest : q \in Finished \/ q = Node(i + 1)
        BY <1>2, <1>5, <3>1 DEF PathInv
      <4> QED BY <3>1, <4>1, <4>2
    <3>2. CASE i = n
      <4>1. /\ stack'[i].rest = stack[n].rest \ {p} /\ Node(i)' = Node(n)
            /\ Node(i + 1)' = p
        BY <1>4, <1>6, <1>7, <3>2
      <4>2. /\ stack[n].rest \subseteq parents[Node(n)]
            /\ \A q \in parents[Node(n)] \ stack[n].rest : q \in Finished
        BY <1>2, <1>5 DEF PathInv
      <4> QED BY <3>2, <4>1, <4>2
    <3>3. CASE i = n + 1
      BY <1>4, <1>7, <3>3
    <3> QED BY <3>1, <3>2, <3>3
  <2>3. parents' = parents
    BY <1>1 DEF Searching
  <2> QED BY <1>4, <1>5, <1>9, <2>1, <2>2, <2>3 DEF PathInv
<1>12. visited' \subseteq Artifacts /\ roots' \subseteq Artifacts /\ Active' \subseteq visited'
  BY <1>1, <1>2, <1>8
<1> QED BY <1>1, <1>4, <1>10, <1>11, <1>12, SearchingKeeps


LEMMA SearchKnownKeeps ==
  ASSUME RegistryInd, NEW p \in Artifacts, SearchKnown(p)
  PROVE  RegistryInd'
<1>1. /\ Searching /\ stack # << >> /\ p \in Rest /\ p \in visited /\ p \notin Active
      /\ roots' = roots /\ visited' = visited /\ stack' = Looked(p)
  BY DEF SearchKnown, ClosesCycle, Searching, buildVars, cellVars
<1>2. /\ stack \in Seq(Frames) /\ parents \in Tables /\ PathInv /\ FinishedInv
      /\ roots \subseteq Artifacts /\ visited \subseteq Artifacts /\ Active \subseteq visited
  BY <1>1, SearchTyped DEF Searching
<1>3. Len(stack) \in Nat \ {0} /\ DOMAIN stack = 1 .. Len(stack)
  BY <1>1, <1>2, Popped
<1> PICK n \in Nat \ {0} : n = Len(stack)
  BY <1>3, Zenon
<1>4. /\ stack' \in Seq(Frames) /\ Len(stack') = n
      /\ \A i \in 1 .. n - 1 : stack'[i] = stack[i]
      /\ stack'[n].node = stack[n].node /\ stack'[n].rest = stack[n].rest \ {p}
  BY <1>1, <1>2, LookedAt
<1>5. DOMAIN stack' = 1 .. n /\ DOMAIN stack = 1 .. n
  BY <1>2, <1>4
<1>6. \A i \in 1 .. n : Node(i)' = Node(i)
  BY <1>4 DEF Node
<1>7. Active' = Active /\ Finished' = Finished /\ p \in Finished
  <2>1. Active = {Node(i) : i \in 1 .. n} /\ Active' = {Node(i)' : i \in 1 .. n}
    BY <1>5 DEF Active, Node
  <2>2. Active' = Active
    BY <1>6, <2>1
  <2> QED BY <1>1, <2>2 DEF Finished
<1>8. FinishedInv'
  BY <1>1, <1>2, <1>7 DEF FinishedInv, Searching
<1>9. PathInv'
  <2>1. \A i, j \in 1 .. n : i < j =>
          Node(j)' \in Above(parents, Node(i)') /\ Node(j)' # Node(i)'
    BY <1>2, <1>5, <1>6 DEF PathInv
  <2>2. ASSUME NEW i \in 1 .. n
        PROVE  /\ stack'[i].rest \subseteq parents[Node(i)']
               /\ \A q \in parents[Node(i)'] \ stack'[i].rest :
                    q \in Finished \/ (i < n /\ q = Node(i + 1)')
    <3>1. /\ stack[i].rest \subseteq parents[Node(i)]
          /\ \A q \in parents[Node(i)] \ stack[i].rest :
               q \in Finished \/ (i < n /\ q = Node(i + 1))
      BY <1>2, <1>5 DEF PathInv
    <3>2. CASE i \in 1 .. n - 1
      BY <1>4, <1>6, <3>1, <3>2
    <3>3. CASE i = n
      BY <1>4, <1>6, <1>7, <3>1, <3>3
    <3> QED BY <3>2, <3>3
  <2>3. parents' = parents
    BY <1>1 DEF Searching
  <2> QED BY <1>4, <1>5, <1>7, <2>1, <2>2, <2>3 DEF PathInv
<1> QED BY <1>1, <1>2, <1>4, <1>7, <1>8, <1>9, SearchingKeeps

(* The node that is returned from has only finished parents, and so has no *)
(* way back to itself.                                                     *)
LEMMA SearchReturnKeeps ==
  ASSUME RegistryInd, SearchReturn
  PROVE  RegistryInd'
<1>1. /\ Searching /\ stack # << >> /\ Rest = {}
      /\ roots' = roots /\ visited' = visited /\ stack' = Front(stack)
  BY DEF SearchReturn, Searching, buildVars, cellVars
<1>2. /\ stack \in Seq(Frames) /\ parents \in Tables /\ PathInv /\ FinishedInv
      /\ roots \subseteq Artifacts /\ visited \subseteq Artifacts /\ Active \subseteq visited
  BY <1>1, SearchTyped DEF Searching
<1>3. Len(stack) \in Nat \ {0} /\ DOMAIN stack = 1 .. Len(stack)
      /\ stack[Len(stack)].rest = {} /\ stack[Len(stack)] \in Frames
  BY <1>1, <1>2, Popped DEF Rest
<1> PICK n \in Nat \ {0} : n = Len(stack)
  BY <1>3, Zenon
<1>4. /\ stack' \in Seq(Frames) /\ DOMAIN stack' = 1 .. n - 1 /\ Len(stack') = n - 1
      /\ \A i \in 1 .. n - 1 : stack'[i] = stack[i]
  BY <1>1, <1>2, Popped
<1>5. DOMAIN stack = 1 .. n /\ n \in 1 .. n /\ \A i \in 1 .. n - 1 : i \in 1 .. n
  BY <1>2
<1>6. \A i \in 1 .. n - 1 : Node(i)' = Node(i)
  BY <1>4 DEF Node
<1>7. /\ Active' = Active \ {Node(n)} /\ Node(n) \in Active /\ Node(n) \in Artifacts
  <2>1. Active = {Node(i) : i \in 1 .. n} /\ Active' = {Node(i)' : i \in 1 .. n - 1}
    BY <1>4, <1>5 DEF Active, Node
  <2>2. \A i \in 1 .. n - 1 : Node(i) # Node(n)
    BY <1>2, <1>5 DEF PathInv
  <2>3. \A i \in 1 .. n : i = n \/ i \in 1 .. n - 1
    OBVIOUS
  <2>4. Node(n) \in Artifacts
    BY <1>3 DEF Node, Frames
  <2> QED BY <1>5, <1>6, <2>1, <2>2, <2>3, <2>4
<1>8. Finished' = Finished \cup {Node(n)} /\ Node(n) \notin Finished
  BY <1>1, <1>2, <1>7 DEF Finished
<1>9. parents[Node(n)] \subseteq Finished
  BY <1>2, <1>3, <1>5 DEF PathInv
<1>10. Node(n) \notin Above(parents, Node(n))
  <2>1. Finished \in SUBSET Artifacts /\ \A x \in Finished : parents[x] \subseteq Finished
    BY <1>2 DEF FinishedInv, Finished
  <2>2. Above(parents, Node(n)) \subseteq Finished
    BY <1>2, <1>7, <1>9, <2>1, AboveIsLeast
  <2> QED BY <2>2, <1>8
<1>11. FinishedInv'
  BY <1>1, <1>2, <1>8, <1>9, <1>10 DEF FinishedInv, Searching
<1>12. PathInv'
  <2>1. ASSUME NEW i \in 1 .. n - 1, NEW j \in 1 .. n - 1, i < j
        PROVE  Node(j)' \in Above(parents, Node(i)') /\ Node(j)' # Node(i)'
    <3>1. i \in DOMAIN stack /\ j \in DOMAIN stack
      BY <1>5
    <3>2. Node(j) \in Above(parents, Node(i)) /\ Node(j) # Node(i)
      BY <1>2, <2>1, <3>1 DEF PathInv
    <3> QED BY <1>6, <3>2
  <2>2. ASSUME NEW i \in 1 .. n - 1
        PROVE  /\ stack'[i].rest \subseteq parents[Node(i)']
               /\ \A q \in parents[Node(i)'] \ stack'[i].rest :
                    q \in Finished' \/ (i < n - 1 /\ q = Node(i + 1)')
    <3>1. /\ stack[i].rest \subseteq parents[Node(i)]
          /\ \A q \in parents[Node(i)] \ stack[i].rest : q \in Finished \/ q = Node(i + 1)
      BY <1>2, <1>5 DEF PathInv
    <3>2. CASE i + 1 = n
      BY <1>4, <1>6, <1>8, <3>1, <3>2
    <3>3. CASE i + 1 \in 1 .. n - 1
      BY <1>4, <1>6, <1>8, <3>1, <3>3
    <3> QED BY <3>2, <3>3
  <2>3. parents' = parents
    BY <1>1 DEF Searching
  <2> QED BY <1>4, <2>1, <2>2, <2>3 DEF PathInv
<1>13. Active' \subseteq visited'
  BY <1>1, <1>2, <1>7
<1> QED BY <1>1, <1>2, <1>4, <1>11, <1>12, <1>13, SearchingKeeps

(* An exception leaves everything as it is. *)
LEMMA RaisingKeeps ==
  ASSUME RegistryInd, pc' = "raised",
         UNCHANGED <<buildVars, cellVars, compiled, searchVars, bound>>
  PROVE  RegistryInd'
<1> USE DEF buildVars, cellVars, searchVars
<1>1. TypesInv'
  BY DEF RegistryInd, TypesInv, RegistryTypeOK, Active
<1>2. IdsInv' /\ CellsInv'
  BY DEF RegistryInd, IdsInv, CellsInv
<1>3. CompiledGraphIsCurrent'
  BY DEF RegistryInd, CompiledGraphIsCurrent, Graph
<1>4. SearchInv' /\ BindInv'
  BY DEF SearchInv, BindInv
<1> QED BY <1>1, <1>2, <1>3, <1>4 DEF RegistryInd

-----------------------------------------------------------------------------
LEMMA CompileKeeps ==
  ASSUME RegistryInd, compile
  PROVE  RegistryInd'
<1>1. /\ pc = "search" /\ stack = << >> /\ roots = {} /\ compiled' = {Graph} /\ bound' = 0
      /\ UNCHANGED <<registry, ids, bindings, edges, parents, cells, stack, visited, roots>>
      /\ pc' \in {"build", "bind"}
  BY DEF compile, buildVars, cellVars, searchVars
<1>2. parents \in Tables /\ FinishedInv
  BY <1>1, SearchTyped
<1>3. Finished = visited
  BY <1>1 DEF Active, Finished
<1>4. \A a \in Artifacts : a \notin Above(parents, a)
  <2> SUFFICES ASSUME NEW a \in Artifacts PROVE a \notin Above(parents, a)
    OBVIOUS
  <2>1. CASE a \in ToSet(registry)
    BY <1>1, <1>2, <1>3, <2>1 DEF FinishedInv
  <2>2. CASE a \notin ToSet(registry)
    <3>1. parents[a] = {}
      BY <2>2 DEF RegistryInd, IdsInv, Consistent
    <3> QED BY <3>1, <1>2, NothingAbove
  <2> QED BY <2>1, <2>2
<1>5. TypesInv'
  <2>1. Active' = Active
    BY <1>1 DEF Active
  <2>2. Len(registry) \in Nat
    BY DEF RegistryInd, IdsInv, Consistent
  <2> QED BY <1>1, <2>1, <2>2 DEF RegistryInd, TypesInv, RegistryTypeOK
<1>6. IdsInv' /\ CellsInv'
  BY <1>1 DEF RegistryInd, IdsInv, CellsInv
<1>7. CompiledGraphIsCurrent'
  BY <1>1 DEF CompiledGraphIsCurrent, Graph
<1>8. SearchInv' /\ BindInv'
  BY <1>1, <1>4 DEF SearchInv, BindInv
<1> QED BY <1>5, <1>6, <1>7, <1>8 DEF RegistryInd

(* Propagating the cells of an artifact that is not above itself.          *)
LEMMA PropagateFacts ==
  ASSUME RegistryInd, NEW a \in Artifacts, a \notin Above(parents, a), Propagate(a)
  PROVE  \E own \in SUBSET DOMAIN cells[a] :
           /\ \A n \in DOMAIN cells[a] : cells[a][n].origin = a => n \in own
           /\ DOMAIN cells' = Artifacts
           /\ \A p \in Artifacts \ Above(parents, a) : cells'[p] = cells[p]
           /\ \A p \in Above(parents, a) :
                /\ DOMAIN cells'[p] = own \cup DOMAIN cells[p]
                /\ \A n \in own : cells'[p][n] = cells[a][n]
                /\ \A n \in DOMAIN cells[p] \ own : cells'[p][n] = cells[p][n]
<1> DEFINE own == {n \in DOMAIN cells[a] :
                     ~(cells[a][n].kind = "method" /\ cells[a][n].origin # a)}
           given == [n \in own |-> cells[a][n]]
<1>1. cells' = [p \in Artifacts |-> IF p \in Above(parents, a)
                  THEN Updated(cells[p], given) ELSE cells[p]]
  BY AncestorsAreAbove DEF Propagate
<1>2. Above(parents, a) \subseteq Artifacts
  BY DEF Above
<1>3. DOMAIN given = own /\ \A n \in own : given[n] = cells[a][n]
  OBVIOUS
<1>4. own \in SUBSET DOMAIN cells[a]
      /\ \A n \in DOMAIN cells[a] : cells[a][n].origin = a => n \in own
  OBVIOUS
<1> HIDE DEF own, given
<1>5. ASSUME NEW p \in Above(parents, a)
      PROVE  /\ DOMAIN cells'[p] = own \cup DOMAIN cells[p]
             /\ \A n \in own : cells'[p][n] = cells[a][n]
             /\ \A n \in DOMAIN cells[p] \ own : cells'[p][n] = cells[p][n]
  <2>1. cells'[p] = Updated(cells[p], given)
    BY <1>1, <1>2
  <2>2. /\ DOMAIN Updated(cells[p], given) = DOMAIN given \cup DOMAIN cells[p]
        /\ \A x \in DOMAIN given : Updated(cells[p], given)[x] = given[x]
        /\ \A x \in DOMAIN cells[p] \ DOMAIN given : Updated(cells[p], given)[x] = cells[p][x]
    BY UpdatedFacts
  <2> QED BY <2>1, <2>2, <1>3
<1>6. DOMAIN cells' = Artifacts /\ \A p \in Artifacts \ Above(parents, a) : cells'[p] = cells[p]
  BY <1>1
<1> QED BY <1>4, <1>5, <1>6


(* No cell is left pointing at an origin that has lost it: an artifact     *)
(* whose cell is overridden is above a, and so is whoever has its cell.    *)
LEMMA PropagateRoots ==
  ASSUME RegistryInd, NEW a \in Artifacts, a \notin Above(parents, a), Propagate(a)
  PROVE  Rooted(cells', parents)
<1>0. parents \in Tables /\ Rooted(cells, parents)
  BY DEF RegistryInd, TypesInv, RegistryTypeOK, Tables, CellsInv
<1> PICK own \in SUBSET DOMAIN cells[a] :
      /\ \A n \in DOMAIN cells[a] : cells[a][n].origin = a => n \in own
      /\ DOMAIN cells' = Artifacts
      /\ \A p \in Artifacts \ Above(parents, a) : cells'[p] = cells[p]
      /\ \A p \in Above(parents, a) :
           /\ DOMAIN cells'[p] = own \cup DOMAIN cells[p]
           /\ \A n \in own : cells'[p][n] = cells[a][n]
           /\ \A n \in DOMAIN cells[p] \ own : cells'[p][n] = cells[p][n]
  BY PropagateFacts
<1> SUFFICES ASSUME NEW p \in Artifacts, NEW m \in DOMAIN cells'[p]
             PROVE  LET o == cells'[p][m].origin IN
                    /\ o \in Artifacts /\ (o = p \/ p \in Above(parents, o))
                    /\ m \in DOMAIN cells'[o] /\ cells'[o][m] = cells'[p][m]
  BY DEF Rooted
<1>1. CASE p \in Above(parents, a) /\ m \in own
  <2> PICK o : o = cells[a][m].origin
    OBVIOUS
  <2>1. cells'[p][m] = cells[a][m] /\ m \in DOMAIN cells[a]
    BY <1>1
  <2>2. /\ o \in Artifacts /\ (o = a \/ a \in Above(parents, o))
        /\ m \in DOMAIN cells[o] /\ cells[o][m] = cells[a][m]
    BY <1>0, <2>1 DEF Rooted
  <2>3. p \in Above(parents, o)
    BY <1>0, <1>1, <2>2, AboveIsTransitive
  <2>4. o \notin Above(parents, a)
    <3>1. CASE o = a
      BY <3>1
    <3>2. CASE a \in Above(parents, o)
      <4> SUFFICES ASSUME o \in Above(parents, a) PROVE FALSE
        OBVIOUS
      <4>1. Above(parents, o) \subseteq Above(parents, a)
        BY <1>0, AboveIsTransitive
      <4> QED BY <3>2, <4>1
    <3> QED BY <2>2, <3>1, <3>2
  <2>5. cells'[o] = cells[o]
    BY <2>2, <2>4
  <2> QED BY <2>1, <2>2, <2>3, <2>5
<1>2. CASE ~(p \in Above(parents, a) /\ m \in own)
  <2>1. m \in DOMAIN cells[p] /\ cells'[p][m] = cells[p][m]
    <3>1. CASE p \in Above(parents, a)
      BY <1>2, <3>1
    <3>2. CASE p \notin Above(parents, a)
      BY <3>2
    <3> QED BY <3>1, <3>2
  <2> PICK o : o = cells[p][m].origin
    OBVIOUS
  <2>2. /\ o \in Artifacts /\ (o = p \/ p \in Above(parents, o))
        /\ m \in DOMAIN cells[o] /\ cells[o][m] = cells[p][m]
    BY <1>0, <2>1 DEF Rooted
  <2>3. CASE o \in Above(parents, a)
    <3>1. p \in Above(parents, a)
      <4>1. Above(parents, o) \subseteq Above(parents, a)
        BY <1>0, <2>3, AboveIsTransitive
      <4> QED BY <2>2, <2>3, <4>1
    <3>2. m \in DOMAIN cells'[o] /\ cells'[o][m] = cells[o][m]
      BY <1>2, <2>2, <2>3, <3>1
    <3> QED BY <2>1, <2>2, <3>2
  <2>4. CASE o \notin Above(parents, a)
    <3>1. cells'[o] = cells[o]
      BY <2>2, <2>4
    <3> QED BY <2>1, <2>2, <3>1
  <2> QED BY <2>3, <2>4
<1> QED BY <1>1, <1>2

LEMMA PropagateGives ==
  ASSUME RegistryInd, NEW a \in Artifacts, \A x \in Artifacts : x \notin Above(parents, x),
         Propagate(a)
  PROVE  /\ Given(cells', parents, a)
         /\ \A b \in Artifacts : Given(cells, parents, b) => Given(cells', parents, b)
<1>0. parents \in Tables /\ Rooted(cells, parents)
  BY DEF RegistryInd, TypesInv, RegistryTypeOK, Tables, CellsInv
<1> PICK own \in SUBSET DOMAIN cells[a] :
      /\ \A n \in DOMAIN cells[a] : cells[a][n].origin = a => n \in own
      /\ DOMAIN cells' = Artifacts
      /\ \A p \in Artifacts \ Above(parents, a) : cells'[p] = cells[p]
      /\ \A p \in Above(parents, a) :
           /\ DOMAIN cells'[p] = own \cup DOMAIN cells[p]
           /\ \A n \in own : cells'[p][n] = cells[a][n]
           /\ \A n \in DOMAIN cells[p] \ own : cells'[p][n] = cells[p][n]
  BY PropagateFacts
<1>1. Given(cells', parents, a)
  <2>1. cells'[a] = cells[a]
    OBVIOUS
  <2> QED BY <2>1 DEF Given
<1>2. ASSUME NEW b \in Artifacts, Given(cells, parents, b),
             NEW p \in Above(parents, b), NEW n \in DOMAIN cells'[b], cells'[b][n].origin = b
      PROVE  n \in DOMAIN cells'[p]
  <2>1. p \in Artifacts
    BY DEF Above
  <2>2. n \in DOMAIN cells[b] /\ cells[b][n].origin = b
    <3>1. CASE b \in Above(parents, a) /\ n \in own
      <4>1. cells[a][n].origin = b
        BY <1>2, <3>1
      <4>2. b = a \/ a \in Above(parents, b)
        BY <1>0, <3>1, <4>1 DEF Rooted
      <4>3. Above(parents, b) \subseteq Above(parents, a)
        BY <1>0, <3>1, AboveIsTransitive
      <4> QED BY <3>1, <4>2, <4>3
    <3>2. CASE b \in Above(parents, a) /\ n \notin own
      BY <1>2, <3>2
    <3>3. CASE b \notin Above(parents, a)
      BY <1>2, <3>3
    <3> QED BY <3>1, <3>2, <3>3
  <2>3. n \in DOMAIN cells[p]
    BY <1>2, <2>2 DEF Given
  <2>4. CASE p \in Above(parents, a)
    BY <2>3, <2>4
  <2>5. CASE p \notin Above(parents, a)
    BY <2>1, <2>3, <2>5
  <2> QED BY <2>4, <2>5
<1> QED BY <1>1, <1>2 DEF Given

LEMMA FinalizeKeeps ==
  ASSUME RegistryInd, finalize
  PROVE  RegistryInd'
<1> DEFINE a == registry[bound + 1]
<1>1. /\ pc = "bind" /\ bound < Len(registry) /\ Propagate(a) /\ bound' = bound + 1
      /\ UNCHANGED <<registry, ids, bindings, edges, parents, compiled, pc,
                     stack, visited, roots>>
  BY DEF finalize, buildVars, searchVars
<1>2. /\ registry \in Seq(Artifacts) /\ Len(registry) \in Nat /\ bound \in 0 .. Len(registry)
      /\ DOMAIN cells = Artifacts
  BY DEF RegistryInd, TypesInv, RegistryTypeOK
<1>3. a \in Artifacts /\ \A i \in 1 .. bound : registry[i] \in Artifacts
  <2>1. bound + 1 \in 1 .. Len(registry) /\ \A i \in 1 .. bound : i \in 1 .. Len(registry)
    BY <1>1, <1>2
  <2> QED BY <1>2, <2>1
<1> HIDE DEF a
<1>4. /\ \A x \in Artifacts : x \notin Above(parents, x)
      /\ \A i \in 1 .. bound : Given(cells, parents, registry[i])
  BY <1>1 DEF RegistryInd, BindInv
<1>5. Rooted(cells', parents)
  BY <1>1, <1>3, <1>4, PropagateRoots
<1>6. /\ Given(cells', parents, a)
      /\ \A b \in Artifacts : Given(cells, parents, b) => Given(cells', parents, b)
  BY <1>1, <1>3, <1>4, PropagateGives
<1>7. DOMAIN cells' = Artifacts
  BY <1>1 DEF Propagate
<1>8. TypesInv'
  <2>1. ASSUME NEW p \in Artifacts, NEW n \in DOMAIN cells'[p]
        PROVE  cells'[p][n].kind \in {"method", "state", "dist"}
    <3> PICK own \in SUBSET DOMAIN cells[a] :
          /\ \A q \in Artifacts \ Above(parents, a) : cells'[q] = cells[q]
          /\ \A q \in Above(parents, a) :
               /\ DOMAIN cells'[q] = own \cup DOMAIN cells[q]
               /\ \A m \in own : cells'[q][m] = cells[a][m]
               /\ \A m \in DOMAIN cells[q] \ own : cells'[q][m] = cells[q][m]
      BY <1>1, <1>3, <1>4, PropagateFacts
    <3>1. \A q \in Artifacts : \A m \in DOMAIN cells[q] :
            cells[q][m].kind \in {"method", "state", "dist"}
      BY DEF RegistryInd, TypesInv, RegistryTypeOK
    <3>2. CASE p \notin Above(parents, a)
      BY <3>1, <3>2
    <3>3. CASE p \in Above(parents, a)
      <4>1. CASE n \in own
        BY <1>3, <3>1, <3>3, <4>1
      <4>2. CASE n \notin own
        BY <3>1, <3>3, <4>2
      <4> QED BY <4>1, <4>2
    <3> QED BY <3>2, <3>3
  <2>2. \A p \in Artifacts : \A n \in DOMAIN cells'[p] : cells'[p][n].origin \in Artifacts
    BY <1>5 DEF Rooted
  <2>3. bound' \in 0 .. Len(registry') /\ Active' = Active
    BY <1>1, <1>2 DEF Active
  <2> QED BY <1>1, <1>7, <2>1, <2>2, <2>3 DEF RegistryInd, TypesInv, RegistryTypeOK
<1>9. IdsInv' /\ CellsInv'
  BY <1>1, <1>5 DEF RegistryInd, IdsInv, CellsInv
<1>10. CompiledGraphIsCurrent'
  BY <1>1 DEF RegistryInd, CompiledGraphIsCurrent, Graph
<1>11. SearchInv'
  BY <1>1 DEF SearchInv
<1>12. BindInv'
  <2>1. ASSUME NEW i \in 1 .. bound + 1
        PROVE  Given(cells', parents, registry[i])
    <3>1. CASE i = bound + 1
      BY <1>6, <3>1 DEF a
    <3>2. CASE i \in 1 .. bound
      BY <1>3, <1>4, <1>6, <3>2
    <3> QED BY <1>2, <3>1, <3>2
  <2> QED BY <1>1, <1>4, <2>1 DEF BindInv
<1> QED BY <1>8, <1>9, <1>10, <1>11, <1>12 DEF RegistryInd

LEMMA FinalizeEndKeeps ==
  ASSUME RegistryInd, FinalizeEnd
  PROVE  RegistryInd'
<1>1. /\ pc = "bind" /\ pc' = "final" /\ bound = Len(registry)
      /\ UNCHANGED <<registry, ids, bindings, edges, parents, cells, compiled,
                     stack, visited, roots, bound>>
  BY DEF FinalizeEnd, buildVars, cellVars, searchVars
<1>2. TypesInv'
  BY <1>1 DEF RegistryInd, TypesInv, RegistryTypeOK, Active
<1>3. IdsInv' /\ CellsInv' /\ SearchInv' /\ BindInv'
  BY <1>1 DEF RegistryInd, IdsInv, CellsInv, SearchInv, BindInv
<1>4. CompiledGraphIsCurrent'
  BY <1>1 DEF RegistryInd, CompiledGraphIsCurrent, Graph
<1> QED BY <1>2, <1>3, <1>4 DEF RegistryInd

LEMMA StutterKeeps == RegistryInd /\ UNCHANGED vars => RegistryInd'
<1> SUFFICES ASSUME RegistryInd, UNCHANGED vars PROVE RegistryInd'
  OBVIOUS
<1> USE DEF vars
<1>1. TypesInv'
  BY DEF RegistryInd, TypesInv, RegistryTypeOK, Active
<1>2. IdsInv' /\ CellsInv' /\ BindInv'
  BY DEF RegistryInd, IdsInv, CellsInv, BindInv
<1>3. CompiledGraphIsCurrent'
  BY DEF RegistryInd, CompiledGraphIsCurrent, Graph
<1>4. SearchInv'
  BY DEF RegistryInd, SearchInv, PathInv, FinishedInv, Finished, Active, Node
<1> QED BY <1>1, <1>2, <1>3, <1>4 DEF RegistryInd

LEMMA StepsKeep == RegistryInd /\ [Next]_vars => RegistryInd'
<1> SUFFICES ASSUME RegistryInd, [Next]_vars PROVE RegistryInd'
  OBVIOUS
<1>1. ASSUME NEW a \in Artifacts,
             add(a) \/ SearchRoot(a) \/ SearchParent(a) \/ SearchKnown(a) \/ SearchCycle(a)
      PROVE  RegistryInd'
  <2>1. CASE add(a)
    BY <2>1, AddKeeps
  <2>2. CASE SearchRoot(a)
    BY <2>2, SearchRootKeeps
  <2>3. CASE SearchParent(a)
    BY <2>3, SearchParentKeeps
  <2>4. CASE SearchKnown(a)
    BY <2>4, SearchKnownKeeps
  <2>5. CASE SearchCycle(a)
    BY <2>5, RaisingKeeps DEF SearchCycle
  <2> QED BY <1>1, <2>1, <2>2, <2>3, <2>4, <2>5
<1>2. ASSUME NEW a \in Artifacts, NEW id \in ExplicitIds,
             addExplicit(a, id) \/ addRefused(a, id)
      PROVE  RegistryInd'
  <2>1. CASE addExplicit(a, id)
    BY <2>1, AddExplicitKeeps
  <2>2. CASE addRefused(a, id)
    BY <2>2, RaisingKeeps DEF addRefused
  <2> QED BY <1>2, <2>1, <2>2
<1>3. ASSUME NEW child \in Artifacts, NEW parent \in Artifacts,
             \/ connect(child, parent)
             \/ \E names \in SUBSET DOMAIN Attrs[child] : deploy(child, parent, names)
             \/ \E n \in DOMAIN cells[child] \cup DOMAIN Attrs[child] : register(child, n, parent)
      PROVE  RegistryInd'
  BY <1>3, ConnectKeeps, DeployKeeps, RegisterKeeps
<1>4. ASSUME NEW g \in {"compile", "finalize"}, Search(g) PROVE RegistryInd'
  BY <1>4, SearchBegins
<1>5. CASE SearchReturn
  BY <1>5, SearchReturnKeeps
<1>6. CASE compile
  BY <1>6, CompileKeeps
<1>7. CASE finalize
  BY <1>7, FinalizeKeeps
<1>8. CASE FinalizeEnd
  BY <1>8, FinalizeEndKeeps
<1>9. CASE UNCHANGED vars
  BY <1>9, StutterKeeps
<1> QED BY <1>1, <1>2, <1>3, <1>4, <1>5, <1>6, <1>7, <1>8, <1>9 DEF Next


-----------------------------------------------------------------------------
LEMMA AlwaysRegistryInd == Spec => []RegistryInd
BY InitRegistry, StepsKeep, PTL DEF Spec

(* In every execution the components of the registry are distinct and have *)
(* distinct ids, whatever explicit and implicit ids are mixed: the suffix  *)
(* the registry counts up to is always found, and always free.             *)
THEOREM IdsStayUnique == Spec => []RegistryInv
<1>1. RegistryInd => RegistryInv
  BY DEF RegistryInd, TypesInv, IdsInv, Consistent, RegistryInv, ComponentIdsUnique
<1> QED BY <1>1, AlwaysRegistryInd, PTL

(* In every execution a compiled graph is the graph of the registry as it  *)
(* is: every call that changes the registry drops it.                      *)
THEOREM GraphIsNeverStale == Spec => []CompiledGraphIsCurrent
<1>1. RegistryInd => CompiledGraphIsCurrent
  BY DEF RegistryInd
<1> QED BY <1>1, AlwaysRegistryInd, PTL

(* In every execution the search raises only where an artifact is above    *)
(* itself, and once it has ended without raising no artifact is.           *)
THEOREM CyclesAreFoundExactly == Spec => []CyclesAreFound
<1>1. ASSUME RegistryInd PROVE CyclesAreFound
  <2>1. ASSUME pc = "search", stack # << >>, NEW p \in Rest, ClosesCycle(p)
        PROVE  Cyclic
    <3>1. /\ stack \in Seq(Frames) /\ parents \in Tables /\ PathInv
          /\ visited \subseteq Artifacts /\ Active \subseteq visited
      BY <1>1, <2>1, SearchTyped
    <3>2. Len(stack) \in Nat \ {0} /\ DOMAIN stack = 1 .. Len(stack)
          /\ Rest = stack[Len(stack)].rest /\ stack[Len(stack)] \in Frames
      BY <2>1, <3>1, Popped DEF Rest
    <3> PICK n \in Nat \ {0} : n = Len(stack)
      BY <3>2, Zenon
    <3>3. PICK i \in 1 .. n : p = Node(i)
      BY <2>1, <3>2 DEF ClosesCycle, Active, Node
    <3>4. n \in DOMAIN stack /\ i \in DOMAIN stack /\ p \in parents[Node(n)]
          /\ Node(n) \in Artifacts
      BY <3>1, <3>2 DEF PathInv, Node, Frames
    <3>5. p \in Artifacts
      BY <3>1, <3>4 DEF Tables
    <3>6. p \in Above(parents, p)
      <4>1. CASE i = n
        BY <3>1, <3>3, <3>4, <3>5, <4>1, AboveIsClosed
      <4>2. CASE i < n
        <5>1. Node(n) \in Above(parents, p)
          BY <3>1, <3>3, <3>4, <4>2 DEF PathInv
        <5> QED BY <3>1, <3>4, <3>5, <5>1, AboveIsClosed
      <4> QED BY <4>1, <4>2
    <3>7. p \in ToSet(registry)
      BY <1>1, <3>4 DEF RegistryInd, IdsInv, Consistent
    <3> QED BY <3>5, <3>6, <3>7, AncestorsAreAbove DEF Cyclic
  <2>2. ASSUME pc \in {"bind", "final"} PROVE ~Cyclic
    <3>1. ToSet(registry) \subseteq Artifacts
      BY <1>1 DEF RegistryInd, IdsInv, Consistent
    <3> QED BY <1>1, <2>2, <3>1, AncestorsAreAbove DEF RegistryInd, BindInv, Cyclic
  <2> QED BY <2>1, <2>2 DEF CyclesAreFound
<1> QED BY <1>1, AlwaysRegistryInd, PTL

(* In every execution, after finalize every ancestor of an artifact has a  *)
(* cell of every name that the artifact defines, its own or one from       *)
(* below, and the artifact's when nobody else below defines the name,      *)
(* however often the registry was finalized and extended before.           *)
THEOREM CellsReachAllAncestors == Spec => []VisibleToAncestors
<1>1. ASSUME RegistryInd, pc = "final", NEW p \in ToSet(registry)
      PROVE  /\ \A n \in DOMAIN cells[p] : cells[p][n].origin \in Below(p)
             /\ \A a \in Below(p) : \A n \in Defined(a) :
                  /\ n \in DOMAIN cells[p]
                  /\ (\A o \in Below(p) : n \in Defined(o) => o = a) => cells[p][n] = cells[a][n]
  <2>1. /\ registry \in Seq(Artifacts) /\ p \in Artifacts /\ ToSet(registry) = DOMAIN ids
        /\ parents \in Tables
    BY <1>1 DEF RegistryInd, TypesInv, RegistryTypeOK, IdsInv, Consistent, Tables
  <2>2. \A i \in 1 .. Len(registry) : Given(cells, parents, registry[i])
    BY <1>1 DEF RegistryInd, BindInv
  <2>3. Below(p) = {a \in Artifacts : a = p \/ p \in Above(parents, a)}
    BY AncestorsAreAbove DEF Below
  <2>4. \A n \in DOMAIN cells[p] :
          LET o == cells[p][n].origin IN
          o \in Below(p) /\ n \in Defined(o) /\ cells[o][n] = cells[p][n]
    BY <1>1, <2>1, <2>3 DEF RegistryInd, CellsInv, Rooted, Defined
  <2>5. ASSUME NEW a \in Below(p), NEW n \in Defined(a)
        PROVE  n \in DOMAIN cells[p]
    <3>1. CASE a = p
      BY <2>5, <3>1 DEF Defined
    <3>2. CASE a # p
      <4>1. a \in Artifacts /\ p \in Above(parents, a)
        BY <2>3, <3>2
      <4>2. parents[a] # {}
        BY <2>1, <4>1, NothingAbove
      <4>3. a \in ToSet(registry)
        BY <1>1, <2>1, <4>1, <4>2 DEF RegistryInd, IdsInv
      <4>4. PICK i \in 1 .. Len(registry) : registry[i] = a
        BY <2>1, <4>3 DEF ToSet
      <4>5. Given(cells, parents, a)
        BY <2>2, <4>4
      <4> QED BY <4>1, <4>5 DEF Given, Defined
    <3> QED BY <3>1, <3>2
  <2>6. ASSUME NEW a \in Below(p), NEW n \in Defined(a),
               \A o \in Below(p) : n \in Defined(o) => o = a
        PROVE  cells[p][n] = cells[a][n]
    <3>1. n \in DOMAIN cells[p]
      BY <2>5
    <3> QED BY <2>4, <2>6, <3>1
  <2> QED BY <2>4, <2>5, <2>6
<1>2. RegistryInd => VisibleToAncestors
  BY <1>1 DEF VisibleToAncestors
<1> QED BY <1>2, AlwaysRegistryInd, PTL

=============================================================================
