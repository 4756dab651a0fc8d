------------------------------- MODULE Words --------------------------------
(***************************************************************************)
(* The machine arithmetic of the console netcode.  A tick number is a      *)
(* 16-bit word kept in two 8-bit cells and compared by the sign of a       *)
(* 16-bit difference, so that the comparison survives the wrap at 65536    *)
(* ticks.  A seat's input ring is one 256-cell page, indexed by the low    *)
(* byte of the tick.                                                       *)
(***************************************************************************)
EXTENDS Integers

CONSTANTS
  WordSize,   \* number of 16-bit words (65536 in the code)
  RingSize    \* cells of one ring page (256 in the code)

(***************************************************************************)
(* The low byte of a word is the word modulo the page size, so a word is a *)
(* whole number of pages; at least two, so that any two ticks that share a *)
(* page's worth of distance have a difference of the right sign.           *)
(***************************************************************************)
ASSUME WordsAssumption ==
  /\ RingSize \in Nat \ {0}
  /\ WordSize \in Nat
  /\ \E k \in 2..WordSize : WordSize = k * RingSize

Word == 0..(WordSize - 1)
Slots == 0..(RingSize - 1)

\* The 16-bit value the code keeps for the number n.
ToWord(n) == n % WordSize

\* SUBR then BMI: the difference a - b has its sign bit clear.
NotBehind(a, b) == 2 * ((a - b) % WordSize) < WordSize

\* SUBR then BMI / BEQ: the difference a - b is positive.
Ahead_unsigned(a, b) == a > b
Ahead(a, b) == NotBehind(a, b) /\ a # b

\* ANDI #$FF: the cell of a ring page a tick lives in.
Slot(w) == w % RingSize
=============================================================================
