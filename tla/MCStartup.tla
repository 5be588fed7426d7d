------------------------------ MODULE MCStartup ------------------------------
EXTENDS Startup

CONSTANT d1

Legacy(documents, files, mtime, audit, docs, rows, v) ==
  [documents |-> documents, files |-> files, mtime |-> mtime, audit |-> audit,
   docs |-> docs, rows |-> rows, version |-> v, origin |-> "legacy"]

(* From before `files`, from before `mtime`, from before user_version,     *)
(* stamped 1, stamped 2, current.                                          *)
MCLegacyDb ==
  {None,
   Legacy(TRUE, FALSE, FALSE, FALSE, {d1}, {}, 0),
   Legacy(TRUE, TRUE, FALSE, FALSE, {d1}, {d1}, 0),
   Legacy(TRUE, TRUE, TRUE, FALSE, {d1}, {d1}, 0),
   Legacy(TRUE, TRUE, FALSE, FALSE, {d1}, {d1}, 1),
   Legacy(TRUE, TRUE, TRUE, FALSE, {d1}, {d1}, 2),
   Legacy(TRUE, TRUE, TRUE, TRUE, {d1}, {d1}, 3)}
=============================================================================
