----------------------------- MODULE MCCatalog -----------------------------
(***************************************************************************)
(* Catalog for TLC: up to three containers, two of which differ only in    *)
(* the case of their name, and two tables.  Two rows fit into a listing.   *)
(***************************************************************************)
EXTENDS Catalog

MCContainers == {"a", "A", "b"}
MCLower == [c \in MCContainers |-> IF c = "A" THEN "a" ELSE c]
=============================================================================
