----------------------------- MODULE MCRelayIO ------------------------------
(* Three connections, two of them from one address. *)
EXTENDS RelayIO

CONSTANTS near, fickle, far

From == [x \in Conns |-> IF x = far THEN "there" ELSE "here"]
=============================================================================
