--------------------------- MODULE CatalogProofs ---------------------------
(***************************************************************************)
(* The three promises of catalog discovery, for every database, every      *)
(* scope, every way names fold and every limit of a listing.               *)
(***************************************************************************)
EXTENDS Catalog, TLAPS

\* Where the crawl is, and how each phase was reached.
PhaseInv ==
  /\ DOMAIN database \subseteq Containers
  /\ \A c \in DOMAIN database : database[c] \subseteq Tables
  /\ pc \in {"start", "crawl", "ok", "err"}
  /\ containers \subseteq DOMAIN database
  /\ pc = "start" => containers = {} /\ DOMAIN catalog = {} /\ errors = {}
  /\ pc = "crawl" => ~containers_only
  /\ pc # "crawl" => todo = {} /\ current = NoContainer
  /\ pc = "ok" /\ DOMAIN catalog = {} => containers = {}
  /\ pc = "err" => DOMAIN catalog = {}

\* Every container is still to come, being crawled, reported, or in errors.
PartInv ==
  /\ todo \cup DOMAIN catalog \subseteq containers
  /\ todo \cap DOMAIN catalog = {}
  /\ current # NoContainer => current \in containers \ (todo \cup DOMAIN catalog)
  /\ \A c \in containers : <<c>> \in errors <=> c \notin todo \cup DOMAIN catalog \cup {current}

\* Errors name containers, or tables of containers whose listing succeeded.
ErrorInv ==
  \A e \in errors :
    \/ \E c \in containers : e = <<c>>
    \/ \E c \in DOMAIN catalog \cup {current}, t \in Tables : c \in containers /\ e = <<c, t>>

\* The tables of a container are reported or in errors.
Accounted(c, found) ==
  /\ found \subseteq database[c]
  /\ \A t \in Tables : <<c, t>> \in errors <=> t \in database[c] \ found

CleanInv ==
  clean =>
    /\ pc \in {"crawl", "ok"} => containers = Requested
    /\ ~containers_only =>
         /\ \A c \in DOMAIN catalog : Accounted(c, catalog[c])
         /\ current # NoContainer =>
              /\ Accounted(current, tables_todo \cup catalog_tables)
              /\ tables_todo \cap catalog_tables = {}

IInv == PhaseInv /\ PartInv /\ ErrorInv /\ CleanInv

-----------------------------------------------------------------------------
\* Errors of containers and errors of tables are told apart.
LEMMA ErrorShapes ==
  \A c, d, t, u : <<c>> # <<d, t>> /\ (<<c>> = <<d>> => c = d) /\ (<<c, t>> = <<d, u>> => c = d /\ t = u)
OBVIOUS

\* A crawl that has not begun satisfies IInv.
LEMMA InitIInv == Init => IInv
<1> SUFFICES ASSUME Init PROVE IInv
  OBVIOUS
<1>1. DOMAIN catalog = {}
  BY DEF Init
<1>2. PhaseInv
  BY <1>1 DEF Init, PhaseInv
<1>3. PartInv /\ ErrorInv
  BY <1>1 DEF Init, PartInv, ErrorInv
<1>4. CleanInv
  BY <1>1 DEF Init, CleanInv
<1> QED BY <1>2, <1>3, <1>4 DEF IInv

\* A listing returns names that are there.
LEMMA ListingsSubset == \A S : \A L \in Listings(S) : L \subseteq S
BY DEF Listings

\* The listing of the containers fills the work list with names that exist.
LEMMA DiscoverContainersIInv ==
  ASSUME IInv, DiscoverContainers
  PROVE  IInv'
<1>1. PICK L \in Listings(DOMAIN database) :
        /\ containers' = InScope(L)
        /\ clean' = (L = DOMAIN database)
        /\ IF containers_only
           THEN /\ pc' = "ok" /\ catalog' = [c \in InScope(L) |-> {}] /\ todo' = todo
           ELSE /\ pc' = "crawl" /\ todo' = InScope(L) /\ catalog' = catalog
  BY DEF DiscoverContainers
<1>2. /\ pc = "start" /\ containers = {} /\ DOMAIN catalog = {} /\ errors = {}
      /\ todo = {} /\ current = NoContainer
      /\ UNCHANGED <<database, scope, containers_only, current, errors>>
  BY DEF DiscoverContainers, IInv, PhaseInv, params
<1>3. InScope(L) \subseteq DOMAIN database /\ NoContainer \notin InScope(L)
  BY ListingsSubset, CatalogAssumption DEF InScope, IInv, PhaseInv
<1>4. L = DOMAIN database => InScope(L) = Requested
  BY DEF InScope, Requested, Matches
<1>5. DOMAIN catalog' = IF containers_only THEN InScope(L) ELSE {}
  BY <1>1, <1>2
<1>6. PhaseInv'
  BY <1>1, <1>2, <1>3, <1>5 DEF IInv, PhaseInv
<1>7. PartInv' /\ ErrorInv'
  BY <1>1, <1>2, <1>3, <1>5 DEF PartInv, ErrorInv
<1>8. CleanInv'
  BY <1>1, <1>2, <1>4, <1>5 DEF CleanInv, Requested
<1> QED BY <1>6, <1>7, <1>8 DEF IInv

\* A listing of tables that fails leaves the container to its error entry.
LEMMA DiscoverTablesFailsIInv ==
  ASSUME IInv, NEW c \in Containers, DiscoverTablesFails(c)
  PROVE  IInv'
<1> USE DEF DiscoverTablesFails, params
<1>1. PhaseInv'
  BY DEF IInv, PhaseInv
<1>2. PartInv'
  BY ErrorShapes, CatalogAssumption DEF IInv, PartInv
<1>3. ErrorInv'
  BY DEF IInv, ErrorInv, PartInv
<1>4. \A d, t : <<d, t>> \in errors' <=> <<d, t>> \in errors
  BY ErrorShapes
<1>5. CleanInv'
  BY <1>4 DEF IInv, CleanInv, Accounted, Requested
<1> QED BY <1>1, <1>2, <1>3, <1>5 DEF IInv

\* A listing of tables opens the container that was asked for.
LEMMA DiscoverTablesIInv ==
  ASSUME IInv, NEW c \in Containers, DiscoverTables(c)
  PROVE  IInv'
<1> USE DEF DiscoverTables, params
<1>1. PICK L \in Listings(database[c]) : tables_todo' = L /\ clean' = (clean /\ L = database[c])
  OBVIOUS
<1>2. c # NoContainer /\ c \in containers /\ c \notin DOMAIN catalog /\ L \subseteq database[c]
  BY <1>1, ListingsSubset, CatalogAssumption DEF IInv, PartInv
<1>3. PhaseInv'
  BY DEF IInv, PhaseInv
<1>4. PartInv'
  BY <1>2, CatalogAssumption DEF IInv, PartInv, PhaseInv
<1>5. ErrorInv'
  BY <1>2, CatalogAssumption DEF IInv, ErrorInv, PhaseInv
<1>6. \A t : <<c, t>> \notin errors
  BY <1>2, ErrorShapes, CatalogAssumption DEF IInv, ErrorInv, PhaseInv
<1>7. CleanInv'
  BY <1>1, <1>2, <1>6 DEF IInv, CleanInv, Accounted, Requested
<1> QED BY <1>3, <1>4, <1>5, <1>7 DEF IInv

\* A listing of columns that fails is recorded as the error of that table.
LEMMA DiscoverColumnsFailsIInv ==
  ASSUME IInv, NEW t \in Tables, DiscoverColumnsFails(t)
  PROVE  IInv'
<1> USE DEF DiscoverColumnsFails, params
<1>1. PhaseInv'
  BY DEF IInv, PhaseInv
<1>2. PartInv'
  BY ErrorShapes DEF IInv, PartInv
<1>3. ErrorInv'
  BY DEF IInv, ErrorInv, PartInv
<1>4. \A d, u : <<d, u>> \in errors' <=> <<d, u>> \in errors \/ (d = current /\ u = t)
  BY ErrorShapes
<1>5. current \notin DOMAIN catalog
  BY DEF IInv, PartInv
<1>6. CleanInv'
  BY <1>4, <1>5 DEF IInv, CleanInv, Accounted, Requested
<1> QED BY <1>1, <1>2, <1>3, <1>6 DEF IInv

\* A listing of columns adds its table to the open container.
LEMMA DiscoverColumnsIInv ==
  ASSUME IInv, NEW t \in Tables, DiscoverColumns(t)
  PROVE  IInv'
<1> USE DEF DiscoverColumns, params
<1>1. PhaseInv' /\ PartInv' /\ ErrorInv'
  BY DEF IInv, PhaseInv, PartInv, ErrorInv
<1>2. tables_todo' \cup catalog_tables' = tables_todo \cup catalog_tables
  OBVIOUS
<1>3. CleanInv'
  BY <1>2 DEF IInv, CleanInv, Accounted, Requested
<1> QED BY <1>1, <1>3 DEF IInv

\* A container that is done enters the catalog with what was read of it.
LEMMA ContainerDoneIInv ==
  ASSUME IInv, ContainerDone
  PROVE  IInv'
<1> USE DEF ContainerDone, params
<1>1. /\ DOMAIN catalog' = DOMAIN catalog \cup {current}
      /\ catalog'[current] = catalog_tables
      /\ \A c \in DOMAIN catalog : catalog'[c] = catalog[c]
      /\ current \in containers /\ current \notin DOMAIN catalog
  BY DEF IInv, PartInv
<1>2. PhaseInv'
  BY <1>1 DEF IInv, PhaseInv
<1>3. PartInv'
  BY <1>1, CatalogAssumption DEF IInv, PartInv, PhaseInv
<1>4. ErrorInv'
  BY <1>1 DEF IInv, ErrorInv
<1>5. CleanInv'
  BY <1>1 DEF IInv, CleanInv, Accounted, Requested
<1> QED BY <1>2, <1>3, <1>4, <1>5 DEF IInv

\* Every step preserves the invariant.
LEMMA NextIInv ==
  ASSUME IInv, [Next]_vars
  PROVE  IInv'
<1>1. CASE DiscoverContainersFails
  BY <1>1 DEF DiscoverContainersFails, params, IInv, PhaseInv, PartInv, ErrorInv, CleanInv, Accounted, Requested
<1>2. CASE Finish
  BY <1>2 DEF Finish, TotalFailure, params, IInv, PhaseInv, PartInv, ErrorInv, CleanInv, Accounted, Requested
<1>3. CASE UNCHANGED vars
  BY <1>3 DEF vars, IInv, PhaseInv, PartInv, ErrorInv, CleanInv, Accounted, Requested
<1> QED
  BY <1>1, <1>2, <1>3, DiscoverContainersIInv, DiscoverTablesFailsIInv, DiscoverTablesIInv,
     DiscoverColumnsFailsIInv, DiscoverColumnsIInv, ContainerDoneIInv
  DEF Next

\* IInv holds in every reachable state.
LEMMA Invariance == Spec => []IInv
BY InitIInv, NextIInv, PTL DEF Spec

-----------------------------------------------------------------------------
\* A successful crawl reports every requested container and table except exactly
\* those in `errors` (the two `continue` branches of handle_discover_catalog).
THEOREM MissingMeansErrorHolds == Spec => []MissingMeansError
<1>1. IInv => MissingMeansError
  <2> SUFFICES ASSUME IInv, pc = "ok", ~containers_only, clean
               PROVE  /\ DOMAIN catalog \subseteq Requested
                      /\ \A c \in DOMAIN catalog : catalog[c] \subseteq database[c]
                      /\ errors = {<<c>> : c \in MissingContainers} \cup MissingTables
    BY DEF MissingMeansError
  <2>0. \A e : e \in MissingTables <=>
              \E c \in DOMAIN catalog : \E t \in database[c] \ catalog[c] : e = <<c, t>>
    BY DEF MissingTables
  <2>1. containers = Requested /\ todo = {} /\ current = NoContainer /\ NoContainer \notin containers
    BY CatalogAssumption DEF IInv, CleanInv, PhaseInv
  <2>2. DOMAIN catalog \subseteq Requested
    BY <2>1 DEF IInv, PartInv
  <2>3. \A c \in DOMAIN catalog : Accounted(c, catalog[c])
    BY DEF IInv, CleanInv
  <2>4. \A c \in containers : <<c>> \in errors <=> c \in MissingContainers
    BY <2>1 DEF IInv, PartInv, MissingContainers
  <2>5. \A c \in DOMAIN catalog : \A t \in Tables : <<c, t>> \in errors <=> <<c, t>> \in MissingTables
    BY <2>3, <2>0 DEF Accounted
  <2>6. ASSUME NEW e \in errors
        PROVE  e \in {<<c>> : c \in MissingContainers} \cup MissingTables
    <3>1. CASE \E c \in containers : e = <<c>>
      BY <3>1, <2>4
    <3>2. CASE \E c \in DOMAIN catalog \cup {current}, t \in Tables : c \in containers /\ e = <<c, t>>
      BY <3>2, <2>1, <2>5
    <3> QED BY <3>1, <3>2 DEF IInv, ErrorInv
  <2>7. ASSUME NEW e \in {<<c>> : c \in MissingContainers} \cup MissingTables
        PROVE  e \in errors
    <3>1. CASE e \in {<<c>> : c \in MissingContainers}
      BY <3>1, <2>1, <2>4 DEF MissingContainers
    <3>2. CASE e \in MissingTables
      <4>1. PICK c \in DOMAIN catalog, t \in Tables : e = <<c, t>>
        BY <3>2, <2>0, <2>1, <2>2 DEF IInv, PhaseInv
      <4> QED BY <4>1, <3>2, <2>5
    <3> QED BY <2>7, <3>1, <3>2
  <2> QED BY <2>2, <2>3, <2>6, <2>7 DEF Accounted
<1> QED BY <1>1, Invariance, PTL

\* An answer without containers means that no requested container exists (the
\* check for total failure after the crawl).
THEOREM EmptyMeansNoneHolds == Spec => []EmptyMeansNone
<1>1. IInv => EmptyMeansNone
  BY DEF IInv, PhaseInv, CleanInv, EmptyMeansNone
<1> QED BY <1>1, Invariance, PTL

\* The crawl fails as a whole only if every container failed, cut listings or
\* not (the same check).
THEOREM OneFailureIsLocalHolds == Spec => []OneFailureIsLocal
<1>1. IInv => OneFailureIsLocal
  <2> SUFFICES ASSUME IInv, pc = "err", containers # {}
               PROVE  DOMAIN catalog = {} /\ errors = {<<c>> : c \in containers}
    BY DEF OneFailureIsLocal
  <2>1. /\ DOMAIN catalog = {} /\ todo = {} /\ current = NoContainer
        /\ NoContainer \notin containers
    BY CatalogAssumption DEF IInv, PhaseInv
  <2>2. \A c \in containers : <<c>> \in errors
    BY <2>1 DEF IInv, PartInv
  <2>3. \A e \in errors : \E c \in containers : e = <<c>>
    BY <2>1 DEF IInv, ErrorInv
  <2> QED BY <2>1, <2>2, <2>3
<1> QED BY <1>1, Invariance, PTL
=============================================================================
