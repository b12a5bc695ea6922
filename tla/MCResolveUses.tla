--------------------------- MODULE MCResolveUses ---------------------------
(* Instances of ResolveUses for TLC. *)
EXTENDS ResolveUses

\* The lists of at most n entries.
ListsUpTo(n) == UNION {[1 .. k -> Name] : k \in 0 .. n}

\* Every configuration whose profiles use at most two others.
ConfigsOfPairs == UNION {[D -> ListsUpTo(2)] : D \in SUBSET Name}
RequestsOfPairs == ListsUpTo(2)
=============================================================================
