------------------------------ MODULE MCRelay -------------------------------
(* Relay with model values for clients and names. *)
EXTENDS Relay, TLC

\* What is run: either server with --auto-go and without; only the C port
\* stands a repeated HELLO.
Served == {Build("python", 0, FALSE), Build("python", 3, FALSE),
           Build("c", 0, TRUE), Build("c", 3, TRUE)}

\* The Python server and a console that says HELLO again.
Renaming == {Build("python", 0, TRUE)}

Symmetry == Permutations(Clients) \cup Permutations(Names)
=============================================================================
