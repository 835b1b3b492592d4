------------------------------ MODULE Catalog ------------------------------
(***************************************************************************)
(* handle_discover_catalog (crates/kyomi-connect/src/executor.rs): list    *)
(* the containers, restrict them to the requested scope, and crawl tables  *)
(* and columns, tolerating the failure of single containers and tables.    *)
(*                                                                         *)
(* Every listing is an execute_query without a limit.  It fails, or        *)
(* returns at most RowLimit rows (prepare_query's default), or succeeds    *)
(* without a readable batch (the provider could not build it, or a column  *)
(* is not a string array), which the code takes for an empty listing.      *)
(***************************************************************************)
EXTENDS Naturals, FiniteSets

CONSTANTS
  Containers,  \* names of schemas or databases
  Tables,      \* names of tables
  Lower,       \* case folding of container names, for eq_ignore_ascii_case
  RowLimit,    \* 1000
  NoContainer  \* no container is being crawled

ASSUME CatalogAssumption ==
  /\ RowLimit \in Nat \ {0}
  /\ DOMAIN Lower = Containers
  /\ NoContainer \notin Containers

VARIABLES
  database,         \* the tables of every container that exists
  scope,            \* params.containers; {} stands for None and for []
  containers_only,  \* params.containers_only
  pc,               \* "start", "crawl", "ok", "err"
  containers,       \* discovered containers in scope
  todo,             \* those not yet crawled
  current,          \* the one being crawled
  tables_todo,      \* its tables whose columns are not yet discovered
  catalog_tables,   \* its tables that are
  catalog,          \* the result: catalog[c] is the set of tables reported for c
  errors,           \* what `errors` reports: <<c>> or <<c, t>>
  clean             \* history: no listing was cut short or unreadable

vars == <<database, scope, containers_only, pc, containers, todo, current,
          tables_todo, catalog_tables, catalog, errors, clean>>

params == <<database, scope, containers_only>>

Init ==
  /\ \E cs \in SUBSET Containers : database \in [cs -> SUBSET Tables]
  /\ scope \in SUBSET Containers
  /\ containers_only \in BOOLEAN
  /\ pc = "start"
  /\ containers = {}
  /\ todo = {}
  /\ current = NoContainer
  /\ tables_todo = {}
  /\ catalog_tables = {}
  /\ catalog = [c \in {} |-> {}]
  /\ errors = {}
  /\ clean = TRUE

Matches(name, s) == Lower[name] = Lower[s]

\* filter_containers_to_scope
InScope(names) ==
  IF scope = {} THEN names ELSE {n \in names : \E s \in scope : Matches(n, s)}

\* What a successful listing of S may read: RowLimit rows of it, or nothing.
Listings(S) ==
  {L \in SUBSET S : Cardinality(L) = RowLimit \/ (L = S /\ Cardinality(S) < RowLimit)}
  \cup {{}}

-----------------------------------------------------------------------------
\* Malformed params, an unsupported database type, or a failing listing.
DiscoverContainersFails ==
  /\ pc = "start"
  /\ pc' = "err"
  /\ UNCHANGED <<params, containers, todo, current, tables_todo, catalog_tables,
                 catalog, errors, clean>>

\* The containers are listed and filtered.  With containers_only their names
\* are the result.
DiscoverContainers ==
  /\ pc = "start"
  /\ \E L \in Listings(DOMAIN database) :
       /\ containers' = InScope(L)
       /\ clean' = (L = DOMAIN database)
       /\ IF containers_only
          THEN /\ pc' = "ok"
               /\ catalog' = [c \in InScope(L) |-> {}]
               /\ UNCHANGED todo
          ELSE /\ pc' = "crawl"
               /\ todo' = InScope(L)
               /\ UNCHANGED catalog
  /\ UNCHANGED <<params, current, tables_todo, catalog_tables, errors>>

\* discover_tables fails for container c: note it and go on.
DiscoverTablesFails(c) ==
  /\ pc = "crawl"
  /\ current = NoContainer
  /\ c \in todo
  /\ todo' = todo \ {c}
  /\ errors' = errors \cup {<<c>>}
  /\ UNCHANGED <<params, pc, containers, current, tables_todo, catalog_tables,
                 catalog, clean>>

DiscoverTables(c) ==
  /\ pc = "crawl"
  /\ current = NoContainer
  /\ c \in todo
  /\ todo' = todo \ {c}
  /\ current' = c
  /\ catalog_tables' = {}
  /\ \E L \in Listings(database[c]) :
       /\ tables_todo' = L
       /\ clean' = (clean /\ L = database[c])
  /\ UNCHANGED <<params, pc, containers, catalog, errors>>

\* Mutant: the failure is swallowed.
DiscoverColumnsFailsSilently(t) ==
  /\ current # NoContainer
  /\ t \in tables_todo
  /\ tables_todo' = tables_todo \ {t}
  /\ UNCHANGED <<params, pc, containers, todo, current, catalog_tables, catalog,
                 errors, clean>>

\* discover_columns fails for table t: note it and go on.
DiscoverColumnsFails(t) ==
  /\ current # NoContainer
  /\ t \in tables_todo
  /\ tables_todo' = tables_todo \ {t}
  /\ errors' = errors \cup {<<current, t>>}
  /\ UNCHANGED <<params, pc, containers, todo, current, catalog_tables, catalog, clean>>

DiscoverColumns(t) ==
  /\ current # NoContainer
  /\ t \in tables_todo
  /\ tables_todo' = tables_todo \ {t}
  /\ catalog_tables' = catalog_tables \cup {t}
  /\ UNCHANGED <<params, pc, containers, todo, current, catalog, errors, clean>>

\* Every table of the current container has been tried: report it.
ContainerDone ==
  /\ current # NoContainer
  /\ tables_todo = {}
  /\ catalog' = [c \in DOMAIN catalog \cup {current} |->
                   IF c = current THEN catalog_tables ELSE catalog[c]]
  /\ current' = NoContainer
  /\ UNCHANGED <<params, pc, containers, todo, tables_todo, catalog_tables, errors, clean>>

\* Mutants: no check for total failure; any failure is total.
TotalFailureUnchecked == FALSE
TotalFailureOnAnyError == errors # {}

\* There was something to crawl and nothing could be.
TotalFailure == containers # {} /\ DOMAIN catalog = {}

Finish ==
  /\ pc = "crawl"
  /\ current = NoContainer
  /\ todo = {}
  /\ pc' = IF TotalFailure THEN "err" ELSE "ok"
  /\ UNCHANGED <<params, containers, todo, current, tables_todo, catalog_tables,
                 catalog, errors, clean>>

Next ==
  \/ DiscoverContainersFails
  \/ DiscoverContainers
  \/ \E c \in Containers : DiscoverTablesFails(c) \/ DiscoverTables(c)
  \/ \E t \in Tables : DiscoverColumnsFails(t) \/ DiscoverColumns(t)
  \/ ContainerDone
  \/ Finish

Spec == Init /\ [][Next]_vars

-----------------------------------------------------------------------------
(* Properties *)

\* The containers the server asked for, whatever the case of their names.
Requested ==
  {c \in DOMAIN database :
     scope = {} \/ \E s \in scope : Lower[c] = Lower[s]}

\* A container, or one of its tables, that the result does not report.
MissingContainers == Requested \ DOMAIN catalog
MissingTables == UNION {{<<c, t>> : t \in database[c] \ catalog[c]} : c \in DOMAIN catalog}

\* Partial failure is local and visible: a successful crawl reports every
\* requested container and table except exactly those named in `errors`, and
\* nothing that was not requested (the two `continue` branches of
\* handle_discover_catalog), as long as no listing was cut short or unreadable.
MissingMeansError ==
  pc = "ok" /\ ~containers_only /\ clean =>
    /\ DOMAIN catalog \subseteq Requested
    /\ \A c \in DOMAIN catalog : catalog[c] \subseteq database[c]
    /\ errors = {<<c>> : c \in MissingContainers} \cup MissingTables

\* An answer without containers means that no requested container exists, not
\* that all of them failed (the check after the crawl).
EmptyMeansNone ==
  pc = "ok" /\ clean /\ DOMAIN catalog = {} => Requested = {}

\* The crawl fails as a whole only if every requested container failed: one
\* bad schema does not blind the server to the others.
OneFailureIsLocal ==
  pc = "err" /\ containers # {} =>
    /\ DOMAIN catalog = {}
    /\ errors = {<<c>> : c \in containers}
=============================================================================
