------------------------------ MODULE MCResync ------------------------------
(* Small instances of Resync for TLC. *)
EXTENDS Resync
=============================================================================
