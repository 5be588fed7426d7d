--------------------------- MODULE MCSearchService ---------------------------
EXTENDS SearchService, TLC

Symmetric == Permutations(Handler) \cup Permutations(Path) \cup Permutations(Key)
=============================================================================
