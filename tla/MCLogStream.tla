---------------------------- MODULE MCLogStream ----------------------------
(* Small instances of LogStream. *)
EXTENDS LogStream

CONSTANTS c1, c2, l1
=============================================================================
