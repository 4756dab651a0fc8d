---------------------------- MODULE SharedMatch -----------------------------
(***************************************************************************)
(* What a netplay match promises its two players, with nothing said about  *)
(* frames, rings or watermarks: both consoles run one and the same         *)
(* sequence of ticks.  Whichever console is ahead decides what its next    *)
(* tick is run with; the other one, when it gets there, runs it with the   *)
(* same; and nobody runs away from the other.                              *)
(***************************************************************************)
EXTENDS Integers, Sequences

CONSTANT Lead   \* how many ticks a console may be ahead

VARIABLE log  \* log[c]: the ticks console c has run

Players == {0, 1}
Peer(c) == 1 - c

Init == log = [c \in Players |-> <<>>]

\* Console c runs its next tick, number n, with log'[c][n].
Advance(c) ==
  LET n == Len(log[c]) + 1 IN
  /\ n <= Len(log[Peer(c)]) + Lead
  /\ Len(log'[c]) = n
  /\ log' = [log EXCEPT ![c] = Append(@, log'[c][n])]
  /\ n <= Len(log[Peer(c)]) => log'[c][n] = log[Peer(c)][n]

Next == \E c \in Players : Advance(c)

Spec == Init /\ [][Next]_log
=============================================================================
