---------------------------- MODULE MCIndexStore ----------------------------
(* Two callers, two paths, two contents; rowids may be reused and skipped. *)
EXTENDS IndexStore, TLC

CONSTANTS p1, p2, c1, c2, h1, h2

MCHashOf == c1 :> h1 @@ c2 :> h2
MCQuery  == {{c1}}
=============================================================================
