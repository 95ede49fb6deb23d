----------------------------- MODULE Catalogue -----------------------------
(***************************************************************************)
(* What pkg/hub promises its publishers: a set of named tools, each with   *)
(* one owner.  A free name may be claimed by anybody, an owned one only    *)
(* rewritten or given up by its owner, and nothing else changes an entry.  *)
(***************************************************************************)
CONSTANTS
    Tools,      \* the names a tool may have
    Entries     \* what is published under a name, records with an owner

VARIABLE catalogue      \* a function from the published names to entries

CatalogueInit == catalogue = [n \in {} |-> {}]

Claim(n, e) ==
    /\ n \in DOMAIN catalogue => catalogue[n].owner = e.owner
    /\ catalogue' = [m \in DOMAIN catalogue \cup {n} |-> IF m = n THEN e ELSE catalogue[m]]

Release(n) ==
    /\ n \in DOMAIN catalogue
    /\ catalogue' = [m \in DOMAIN catalogue \ {n} |-> catalogue[m]]

CatalogueNext == \E n \in Tools : Release(n) \/ \E e \in Entries : Claim(n, e)

CatalogueSpec == CatalogueInit /\ [][CatalogueNext]_catalogue
=============================================================================
