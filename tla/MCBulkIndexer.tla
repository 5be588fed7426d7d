--------------------------- MODULE MCBulkIndexer ---------------------------
(* Two runs over one tree: a directory with two files and a directory that *)
(* holds an excluded one and a file.  The second run's directory is in the *)
(* excluded one and has a file that is skipped.                            *)
EXTENDS BulkIndexer

E(kind, after) == [kind |-> kind, after |-> after]

MCTree == << E("dir", 9), E("text", 3), E("text", 4), E("dir", 9), E("excluded", 8),
             E("dir", 8), E("skipped", 8), E("text", 9) >>

MCRoot == [r \in Runs |-> IF r = 1 THEN 1 ELSE 6]
=============================================================================
