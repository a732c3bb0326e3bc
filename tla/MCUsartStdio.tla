---------------------------- MODULE MCUsartStdio ----------------------------
(* Small instances of UsartStdio. *)
EXTENDS UsartStdio
=============================================================================
