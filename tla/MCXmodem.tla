------------------------------ MODULE MCXmodem ------------------------------
(* Small instances of Xmodem. *)
EXTENDS Xmodem
=============================================================================
