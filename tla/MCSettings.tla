----------------------------- MODULE MCSettings ------------------------------
EXTENDS Settings

CONSTANTS d1, m2

(* No file, and one with a directory and a mode other than the detected. *)
MCFirstFile == {None, [dirs |-> {d1}, mode |-> m2]}
=============================================================================
