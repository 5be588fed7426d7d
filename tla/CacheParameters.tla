--------------------------- MODULE CacheParameters ---------------------------
(***************************************************************************)
(* The parameters of the search cache (internal/cache), shared by the map  *)
(* it promises to be (LruCache) and the linked list it is (LinkedCache).   *)
(***************************************************************************)
EXTENDS Naturals, FiniteSets

CONSTANTS Key,             \* query strings as handleSearch builds them
          Value, pathsOf,  \* a page of results, and the paths it lists
          Path,
          MaxSize, TTL,    \* as New leaves them: never zero
          NoEntry, NoValue,
          MaxTime          \* bound: the clock of the model stops here

ASSUME CacheAssumption == /\ MaxSize \in Nat \ {0}
                          /\ TTL \in Nat \ {0}
                          /\ MaxTime \in Nat
                          /\ pathsOf \in [Value -> SUBSET Path]

Entry == [value : Value, exp : Nat]

ASSUME EntryAssumption == NoEntry \notin Entry /\ NoValue \notin Value
=============================================================================
