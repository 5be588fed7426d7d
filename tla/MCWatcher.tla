----------------------------- MODULE MCWatcher ------------------------------
EXTENDS Watcher, TLC

CONSTANTS f1, f2, top, sub

(* One file at the root, one in a directory that may come and go. *)
MCDirOf == f1 :> top @@ f2 :> sub
=============================================================================
