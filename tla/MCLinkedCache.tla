--------------------------- MODULE MCLinkedCache ----------------------------
(* Four keys compete for three entries, so that an entry can leave the     *)
(* list at either end and in the middle; one page lists both paths.        *)
EXTENDS LinkedCache, TLC

CONSTANTS p1, p2, v1, v2

MCPathsOf == v1 :> {p1} @@ v2 :> {p1, p2}

(* Which object an entry lives in makes no difference. *)
NodesAreAlike == Permutations(Node)
=============================================================================
