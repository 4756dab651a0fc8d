--------------------------- MODULE LockstepProofs ---------------------------
(***************************************************************************)
(* Proofs about module Lockstep, for every input delay, ring and word      *)
(* size, timeout and set of faulty seats.                                  *)
(*                                                                         *)
(* InputAgreement says nothing about frames in flight, watermarks or ring  *)
(* cells, so it is not inductive.  The strengthening IInv follows a        *)
(* capture along its way: the frames between a console and its peer carry  *)
(* consecutive captures (InFlight); a console has seen no capture its peer *)
(* has not made and has run no tick it has not seen the input of (Paced);  *)
(* hence what a ring must still hold fits in one page (Rings), and the     *)
(* 16-bit comparisons give the right answer.                               *)
(***************************************************************************)
EXTENDS Lockstep, SequenceTheorems, TLAPS

-----------------------------------------------------------------------------
(* What the machine arithmetic of module Words computes, for every word    *)
(* and page size.                                                          *)

\* Sizes are positive, and a word has room for two pages.
LEMMA Sizes ==
  /\ RingSize \in Nat /\ RingSize > 0
  /\ WordSize \in Nat /\ WordSize > 0 /\ 2 * RingSize <= WordSize
  <1>1. PICK k \in 2..WordSize : WordSize = k * RingSize
    BY WordsAssumption
  <1>2. k >= 2 /\ RingSize \in Nat /\ RingSize > 0
    BY <1>1, WordsAssumption
  <1>3. k * RingSize >= 2 * RingSize
    BY <1>1, <1>2
  <1> QED BY <1>1, <1>2, <1>3, WordsAssumption

\* Division with remainder, with the quotient and remainder named.
LEMMA DivMod ==
  ASSUME NEW a \in Int, NEW m \in Nat, m > 0
  PROVE  /\ a \div m \in Int
         /\ a % m \in 0..(m - 1)
         /\ a = m * (a \div m) + (a % m)
  OBVIOUS

\* A remainder is what is left of any multiple.
LEMMA ModUnique ==
  ASSUME NEW m \in Nat, m > 0, NEW q \in Int, NEW r \in 0..(m - 1)
  PROVE  (m * q + r) % m = r
  OBVIOUS

\* The only multiple of m strictly between -m and m is 0.
LEMMA SmallMultiple ==
  ASSUME NEW m \in Nat, m > 0, NEW q \in Int, m * q < m, -m < m * q
  PROVE  q = 0
  OBVIOUS

\* Two numbers less than m apart with one remainder are equal.
LEMMA ModInjective ==
  ASSUME NEW m \in Nat, m > 0, NEW a \in Int, NEW b \in Int,
         a % m = b % m, a - b < m, b - a < m
  PROVE  a = b
  <1> DEFINE q == (a \div m) - (b \div m)
  <1>1. a = m * (a \div m) + (a % m) /\ a \div m \in Int
    BY DivMod
  <1>2. b = m * (b \div m) + (b % m) /\ b \div m \in Int
    BY DivMod
  <1>3. q \in Int /\ a - b = m * q
    BY <1>1, <1>2
  <1> HIDE DEF q
  <1>4. q = 0
    BY <1>3, SmallMultiple
  <1> QED BY <1>3, <1>4

\* Adding a multiple of m changes no remainder.
LEMMA ModShift ==
  ASSUME NEW m \in Nat, m > 0, NEW a \in Int, NEW q \in Int
  PROVE  (a + m * q) % m = a % m
  <1>1. a = m * (a \div m) + (a % m) /\ a \div m \in Int /\ a % m \in 0..(m - 1)
    BY DivMod
  <1>2. a + m * q = m * ((a \div m) + q) + (a % m)
    BY <1>1
  <1>3. (a \div m) + q \in Int
    BY <1>1
  <1> QED BY <1>1, <1>2, <1>3, ModUnique

\* A word is a word.
LEMMA ToWordType ==
  ASSUME NEW n \in Int
  PROVE  ToWord(n) \in Word
  BY Sizes, DivMod DEF ToWord, Word

\* Arithmetic on words is arithmetic on the numbers they stand for.
LEMMA ToWordPlus ==
  ASSUME NEW n \in Int, NEW k \in Int
  PROVE  ToWord(ToWord(n) + k) = ToWord(n + k)
  <1>1. n = WordSize * (n \div WordSize) + ToWord(n) /\ n \div WordSize \in Int
    BY Sizes, DivMod DEF ToWord
  <1>2. ToWord(n) \in Int
    BY ToWordType, Sizes DEF Word
  <1>3. n + k = (ToWord(n) + k) + WordSize * (n \div WordSize)
    <2> DEFINE p == WordSize * (n \div WordSize)
    <2>1. p \in Int /\ n = p + ToWord(n)
      BY <1>1, Sizes
    <2> HIDE DEF p
    <2>2. n + k = (ToWord(n) + k) + p
      BY <1>2, <2>1
    <2> QED BY <2>2 DEF p
  <1>4. ToWord(n) + k \in Int
    BY <1>2
  <1>5. ((ToWord(n) + k) + WordSize * (n \div WordSize)) % WordSize
          = (ToWord(n) + k) % WordSize
    BY <1>1, <1>4, Sizes, ModShift
  <1> QED
    <2>1. ToWord(n + k) = (n + k) % WordSize
      BY DEF ToWord
    <2>2. ToWord(ToWord(n) + k) = (ToWord(n) + k) % WordSize
      BY DEF ToWord
    <2> QED BY <1>3, <1>5, <2>1, <2>2

\* The low byte of a number is the low byte of its word.
LEMMA SlotOfWord ==
  ASSUME NEW n \in Int
  PROVE  /\ Slot(ToWord(n)) = Slot(n)
         /\ Slot(n) \in Slots
  <1>1. PICK k \in 2..WordSize : WordSize = k * RingSize
    BY WordsAssumption
  <1>2. n = WordSize * (n \div WordSize) + ToWord(n) /\ n \div WordSize \in Int
    BY Sizes, DivMod DEF ToWord
  <1>3. ToWord(n) \in Int
    BY ToWordType, Sizes DEF Word
  <1> DEFINE q == k * (n \div WordSize)
  <1>4. q \in Int /\ n = ToWord(n) + RingSize * q
    <2>1. k \in Int
      BY <1>1, Sizes
    <2>2. \A x, y, z \in Int : (x * y) * z = y * (x * z)
      OBVIOUS
    <2>3. WordSize * (n \div WordSize) = RingSize * q
      BY <1>1, <1>2, <2>1, <2>2, Sizes
    <2>4. q \in Int /\ RingSize * q \in Int
      BY <1>2, <2>1, Sizes
    <2> DEFINE p == RingSize * q
    <2>5. n = p + ToWord(n) /\ p \in Int
      BY <1>2, <2>3, <2>4
    <2> HIDE DEF p
    <2>6. n = ToWord(n) + p
      BY <1>3, <2>5
    <2> QED BY <2>4, <2>6 DEF p
  <1> HIDE DEF q
  <1>5. (ToWord(n) + RingSize * q) % RingSize = ToWord(n) % RingSize
    BY <1>3, <1>4, Sizes, ModShift
  <1> QED BY <1>4, <1>5, Sizes, DivMod DEF Slot, Slots

\* Two ticks less than a page apart share a ring cell only if they are equal.
LEMMA SlotInjective ==
  ASSUME NEW a \in Int, NEW b \in Int, Slot(a) = Slot(b),
         a - b < RingSize, b - a < RingSize
  PROVE  a = b
  BY Sizes, ModInjective DEF Slot

\* The sign of the 16-bit difference orders two ticks less than a page apart,
\* wherever the words wrap.
LEMMA NotBehindOrder ==
  ASSUME NEW a \in Int, NEW b \in Int, a - b < RingSize, b - a < RingSize
  PROVE  NotBehind(ToWord(a), ToWord(b)) <=> b <= a
  <1> DEFINE d == a - b
  <1>1. /\ a = WordSize * (a \div WordSize) + ToWord(a) /\ a \div WordSize \in Int
        /\ b = WordSize * (b \div WordSize) + ToWord(b) /\ b \div WordSize \in Int
        /\ ToWord(a) \in Int /\ ToWord(b) \in Int
    BY Sizes, DivMod, ToWordType DEF ToWord, Word
  <1> DEFINE q == (a \div WordSize) - (b \div WordSize)
  <1>2. q \in Int /\ d \in Int /\ d = (ToWord(a) - ToWord(b)) + WordSize * q
    BY <1>1, Sizes
  <1>3. d % WordSize = (ToWord(a) - ToWord(b)) % WordSize
    <2> HIDE DEF d, q
    <2>1. ToWord(a) - ToWord(b) \in Int
      BY <1>1
    <2> QED BY <1>2, <2>1, Sizes, ModShift
  <1>4. CASE b <= a
    <2>1. d \in 0..(WordSize - 1) /\ 2 * d < WordSize
      BY <1>4, Sizes
    <2>2. d % WordSize = d
      <3>1. d = WordSize * 0 + d
        BY <2>1, Sizes
      <3> HIDE DEF d
      <3> QED BY <2>1, <3>1, Sizes, ModUnique
    <2> QED BY <1>3, <1>4, <2>1, <2>2 DEF NotBehind
  <1>5. CASE ~(b <= a)
    <2>1. d + WordSize \in 0..(WordSize - 1) /\ ~(2 * (d + WordSize) < WordSize)
      BY <1>5, Sizes
    <2>2. d % WordSize = d + WordSize
      <3>1. d = WordSize * (-1) + (d + WordSize)
        BY Sizes, <1>2
      <3> HIDE DEF d
      <3> QED BY <2>1, <3>1, Sizes, ModUnique
    <2> QED BY <1>3, <1>5, <2>1, <2>2 DEF NotBehind
  <1> QED BY <1>4, <1>5

\* The next tick is always ahead of the one before it.
LEMMA AheadNext ==
  ASSUME NEW a \in Int, 1 < RingSize
  PROVE  Ahead(ToWord(a + 1), ToWord(a))
  <1>1. NotBehind(ToWord(a + 1), ToWord(a))
    BY NotBehindOrder, Sizes
  <1>2. ~NotBehind(ToWord(a), ToWord(a + 1))
    BY NotBehindOrder, Sizes
  <1>3. ToWord(a + 1) # ToWord(a)
    BY <1>1, <1>2
  <1> QED BY <1>1, <1>3 DEF Ahead

-----------------------------------------------------------------------------
(* The invariant.                                                          *)

L(c) == Len(log[c])

\* The console is in the match: it has had its START and not dropped out.
Active(c) == pc[c] \in {"held", "pass", "pump", "gate", "stall"} /\ ~dropped[c]

\* The console may still handle frames.
Receiving(c) == pc[c] \in {"lobby", "held", "pass", "pump", "gate", "stall"}
                /\ ~dropped[c]

\* 1 once the capture of the current tick has been made.
Captured(c) == IF pc[c] \in {"gate", "stall"} THEN 1 ELSE 0

\* The frames on their way from o to c carry consecutive captures ...
DownCaps(c) ==
  Receiving(c) =>
    \A i \in 1..Len(down[c]) :
      down[c][i].type # "PEER_LEFT" => down[c][i].cap = seen[c] + i

UpCaps(c, o) ==
  (Receiving(c) /\ started /\ link[c]) =>
    \A j \in 1..Len(up[o]) : up[o][j].cap = seen[c] + Len(down[c]) + j

\* ... and the next capture of o will continue them.
NextCap(c, o) ==
  (/\ Receiving(c) /\ started /\ link[c] /\ link[o]
   /\ pc[o] \in {"lobby", "held", "pass", "pump", "gate", "stall"}
   /\ ~(pc[o] = "pass" /\ dropped[o]))
  => L(o) + Delay + Captured(o) = seen[c] + Len(down[c]) + Len(up[o]) + 1

InFlight(c, o) == DownCaps(c) /\ UpCaps(c, o) /\ NextCap(c, o)

\* Shape of the two queues: START only ever first, PEER_LEFT only ever last.
DownShape(c) ==
  \A i \in 1..Len(down[c]) :
    /\ down[c][i].type = "PEER_LEFT" => (i = Len(down[c]) /\ ~started)
    /\ down[c][i].type = "START" => (i = 1 /\ pc[c] \in {"lobby", "off"})
    /\ down[c][i].type = "INPUT" => down[c][i].tick = ToWord(down[c][i].cap)

UpShape(c) ==
  \A j \in 1..Len(up[c]) :
    up[c][j].type = "INPUT" /\ up[c][j].tick = ToWord(up[c][j].cap)

\* Before START, and after a drop.
Outside(c) ==
  /\ pc[c] = "lobby" =>
       /\ log[c] = <<>>
       /\ seen[c] = Delay - 2
       /\ ~dropped[c]
       /\ link[c] => down[c] # <<>>
       /\ down[c] # <<>> => down[c][1].type = "START"
  /\ (dropped[c] /\ pc[c] \in {"lobby", "held", "pump", "stall"}) =>
       down[c] = <<>> /\ ~started

\* No console has seen a capture that was not made, or run ahead of what it
\* has seen.
Paced(c, o) ==
  /\ L(c) <= seen[c] + 1
  /\ seen[c] <= L(o) + Delay
  /\ \A i \in 1..Len(down[c]) :
       down[c][i].type # "PEER_LEFT" => down[c][i].cap <= L(o) + Delay
  /\ \A j \in 1..Len(up[c]) : up[c][j].cap <= L(c) + Delay

Ticks(c) ==
  /\ pc[c] \in {"held", "pump", "gate", "stall"} => tick[c] = ToWord(L(c))
  /\ Active(c) => /\ tick[c] = ToWord(L(c))
                  /\ wm[c] = ToWord(seen[c])
                  /\ seen[c] >= Delay - 1

\* The cells that are still to be read hold what they must.
Rings(c, o) ==
  Active(c) =>
    /\ \A k \in (L(c) - 1)..seen[c] : ring[c][o][Slot(k)] = Expected(k)
    /\ \A k \in (L(c) - 1)..(L(c) + Delay - 1 + Captured(c)) :
         ring[c][c][Slot(k)] = Expected(k)

Logged(c) ==
  \A n \in 1..L(c) : log[c][n] = [cur  |-> [s \in Seats |-> Expected(n - 1)],
                                  prev |-> [s \in Seats |-> Expected(n - 2)]]

IInv ==
  /\ TypeOK
  /\ \A c \in Seats :
       /\ InFlight(c, Other(c))
       /\ DownShape(c) /\ UpShape(c) /\ Outside(c)
       /\ Paced(c, Other(c))
       /\ Ticks(c)
       /\ Rings(c, Other(c))
       /\ Logged(c)
-----------------------------------------------------------------------------
(* Type correctness.                                                       *)

LEMMA Constants ==
  /\ Delay \in Nat /\ Delay >= 1 /\ 2 * Delay + 3 <= RingSize
  /\ Timeout \in Nat /\ Timeout >= 1 /\ MaxTicks \in Nat
  BY LockstepAssumption, Sizes

LEMMA InitialRings == IdleRings \in [Seats -> [Slots -> Caps]]
  BY DEF IdleRings, Caps

LEMMA FrameTypes ==
  ASSUME NEW w \in Word, NEW n \in Nat
  PROVE  /\ StartFrame \in Frames /\ InputFrame(w, n) \in Frames
         /\ LeftFrame \in Frames
  BY Constants, Sizes DEF StartFrame, InputFrame, LeftFrame, Frames, Word, Caps

LEMMA ReplayedType ==
  ASSUME TypeOK, NEW c \in Seats
  PROVE  Replayed(c) \in Entry
  <1>1. tick[c] \in Int /\ tick[c] - 1 \in Int
    BY Sizes DEF TypeOK, Word
  <1>2. Slot(tick[c]) \in Slots /\ Slot(ToWord(tick[c] - 1)) \in Slots
    BY <1>1, SlotOfWord
  <1>3. \A s \in Seats, i \in Slots : ring[c][s][i] \in Caps
    BY DEF TypeOK
  <1> QED BY <1>2, <1>3 DEF Replayed, Entry

LEMMA SeqHead ==
  ASSUME NEW S, NEW q \in Seq(S), q # <<>>
  PROVE  /\ Len(q) \in Nat /\ Len(q) >= 1
         /\ Head(q) = q[1] /\ Head(q) \in S
         /\ Tail(q) \in Seq(S) /\ Len(Tail(q)) = Len(q) - 1
         /\ \A i \in 1..(Len(q) - 1) : Tail(q)[i] = q[i + 1]
  <1>1. Len(q) \in Nat /\ Len(q) >= 1 /\ Head(q) = q[1] /\ Head(q) \in S
    BY EmptySeq, LenProperties
  <1>2. /\ Tail(q) \in Seq(S) /\ Len(Tail(q)) = Len(q) - 1
        /\ \A i \in 1..Len(Tail(q)) : Tail(q)[i] = q[i + 1]
    BY HeadTailProperties
  <1> QED BY <1>1, <1>2

LEMMA SeqAppend ==
  ASSUME NEW S, NEW q \in Seq(S), NEW e \in S
  PROVE  /\ Len(q) \in Nat
         /\ Append(q, e) \in Seq(S) /\ Len(Append(q, e)) = Len(q) + 1
         /\ \A i \in 1..Len(q) : Append(q, e)[i] = q[i]
         /\ Append(q, e)[Len(q) + 1] = e
  OBVIOUS

LEMMA SeqFront ==
  ASSUME NEW S, NEW q \in Seq(S), q # <<>>
  PROVE  /\ Len(q) \in Nat /\ Len(q) >= 1
         /\ SubSeq(q, 1, Len(q) - 1) \in Seq(S)
         /\ Len(SubSeq(q, 1, Len(q) - 1)) = Len(q) - 1
         /\ \A i \in 1..(Len(q) - 1) : SubSeq(q, 1, Len(q) - 1)[i] = q[i]
  <1>1. Len(q) \in Nat /\ Len(q) >= 1 /\ \A i \in 1..Len(q) : q[i] \in S
    BY EmptySeq, LenProperties, ElementOfSeq
  <1>2. 1 \in Int /\ Len(q) - 1 \in Int /\ \A i \in 1..(Len(q) - 1) : q[i] \in S
    BY <1>1
  <1>3. /\ SubSeq(q, 1, Len(q) - 1) \in Seq(S)
        /\ Len(SubSeq(q, 1, Len(q) - 1))
             = IF 1 <= Len(q) - 1 THEN (Len(q) - 1) - 1 + 1 ELSE 0
        /\ \A i \in 1..((Len(q) - 1) - 1 + 1) :
             SubSeq(q, 1, Len(q) - 1)[i] = q[1 + i - 1]
    BY <1>2, SubSeqProperties
  <1>4. \A i \in 1..(Len(q) - 1) : SubSeq(q, 1, Len(q) - 1)[i] = q[i]
    <2> DEFINE n == Len(q) - 1
               p == SubSeq(q, 1, n)
    <2>1. n \in Int /\ n - 1 + 1 = n /\ \A i \in 1..n : 1 + i - 1 = i
      BY <1>1
    <2>2. \A i \in 1..(n - 1 + 1) : p[i] = q[1 + i - 1]
      BY <1>3
    <2> HIDE DEF n, p
    <2>3. \A i \in 1..n : p[i] = q[i]
      BY <2>1, <2>2
    <2> QED BY <2>3 DEF n, p
  <1>5. Len(SubSeq(q, 1, Len(q) - 1)) = Len(q) - 1
    <2> DEFINE n == Len(q) - 1
    <2>1. n \in Nat
      BY <1>1
    <2>2. Len(SubSeq(q, 1, n)) = IF 1 <= n THEN n - 1 + 1 ELSE 0
      BY <1>3
    <2> HIDE DEF n
    <2>3. CASE 1 <= n
      <3>1. Len(SubSeq(q, 1, n)) = n - 1 + 1
        BY <2>2, <2>3
      <3> QED BY <2>1, <3>1 DEF n
    <2>4. CASE ~(1 <= n)
      <3>1. n = 0
        BY <2>1, <2>4
      <3> QED BY <2>2, <2>4, <3>1 DEF n
    <2> QED BY <2>3, <2>4 DEF n
  <1> QED BY <1>1, <1>3, <1>4, <1>5

LEMMA OtherSeat ==
  ASSUME NEW c \in Seats
  PROVE  Other(c) \in Seats /\ Other(Other(c)) = c /\ Other(c) # c
         /\ \A s \in Seats : s = c \/ s = Other(c)
  BY DEF Seats, Other

LEMMA ConsoleTypes ==
  ASSUME TypeOK, NEW c \in Seats
  PROVE  /\ tick[c] \in Word /\ tick[c] \in Int /\ wm[c] \in Word
         /\ log[c] \in Seq(Entry) /\ Len(log[c]) \in Nat
         /\ down[c] \in Seq(Frames) /\ Len(down[c]) \in Nat
         /\ up[c] \in Seq(Frames) /\ Len(up[c]) \in Nat
         /\ seen[c] \in Int
         /\ ToWord(tick[c] + 1) \in Word /\ FarAhead(tick[c]) \in Word
         /\ CaptureTick(tick[c]) \in Word
  <1>1. tick[c] \in Word /\ wm[c] \in Word /\ tick[c] \in Int
    BY Sizes DEF TypeOK, Word
  <1>2. log[c] \in Seq(Entry) /\ down[c] \in Seq(Frames) /\ up[c] \in Seq(Frames)
        /\ seen[c] \in Int
    BY DEF TypeOK
  <1>3. WordSize \div 4 \in Int
    BY Sizes
  <1>4. /\ tick[c] + 1 \in Int /\ tick[c] + WordSize \div 4 \in Int
        /\ tick[c] + Delay \in Int
    BY <1>1, <1>3, Constants
  <1> QED BY SMTT(30), <1>1, <1>2, <1>4, ToWordType DEF FarAhead, CaptureTick

\* Every step keeps every variable in its type.
LEMMA TypeStep == TypeOK /\ [Next]_vars => TypeOK'
  <1> SUFFICES ASSUME TypeOK, [Next]_vars PROVE TypeOK'
    OBVIOUS
  <1>1. ASSUME NEW c \in Seats, OnStart(c) PROVE TypeOK'
    <2>1. StartWM \in Word /\ 0 \in Word
      BY ToWordType, Constants, Sizes DEF StartWM, Word
    <2>2. Tail(down[c]) \in Seq(Frames)
      BY <1>1, ConsoleTypes, SeqHead DEF OnStart, Pumping
    <2>3. Delay - 1 \in Int
      BY Constants
    <2> QED BY <1>1, <2>1, <2>2, <2>3, InitialRings DEF OnStart, TypeOK, PCs
  <1>2. ASSUME NEW c \in Seats, OnInput(c) PROVE TypeOK'
    <2> DEFINE f == Head(down[c])
    <2>1. f \in Frames /\ Tail(down[c]) \in Seq(Frames)
      BY <1>2, ConsoleTypes, SeqHead DEF OnInput, Pumping
    <2>2. f.tick \in Word /\ f.cap \in Caps /\ f.tick \in Int /\ f.cap \in Int
      BY <2>1, Sizes DEF Frames, Word, Caps, Idle
    <2>3. Slot(f.tick) \in Slots
      BY <2>2, SlotOfWord
    <2> HIDE DEF f
    <2>4. down' \in [Seats -> Seq(Frames)]
      BY <1>2, <2>1 DEF OnInput, TypeOK
    <2>5. CASE Ahead(f.tick, wm[c])
      <3>1. ring' = [ring EXCEPT ![c][Other(c)][Slot(f.tick)] = f.cap]
            /\ wm' = [wm EXCEPT ![c] = f.tick] /\ seen' = [seen EXCEPT ![c] = f.cap]
        BY <1>2, <2>5 DEF OnInput, f
      <3>2. ring' \in [Seats -> [Seats -> [Slots -> Caps]]]
        BY <2>2, <2>3, <3>1, OtherSeat DEF TypeOK
      <3>3. wm' \in [Seats -> Word] /\ seen' \in [Seats -> Int]
        BY <2>2, <3>1 DEF TypeOK
      <3> QED BY <1>2, <2>4, <3>2, <3>3 DEF OnInput, TypeOK
    <2>6. CASE ~Ahead(f.tick, wm[c])
      BY <1>2, <2>4, <2>6 DEF OnInput, TypeOK, f
    <2> QED BY <2>5, <2>6
  <1>3. ASSUME NEW c \in Seats, OnPeerLeft(c) PROVE TypeOK'
    <2>1. Tail(down[c]) \in Seq(Frames)
      BY <1>3, ConsoleTypes, SeqHead DEF OnPeerLeft, Pumping
    <2> QED BY <1>3, <2>1, ConsoleTypes, InitialRings
            DEF OnPeerLeft, TypeOK, history
  <1>4. ASSUME NEW c \in Seats, HoldDone(c) PROVE TypeOK'
    BY <1>4 DEF HoldDone, PCs, TypeOK, net, history
  <1>5. ASSUME NEW c \in Seats, EnterPass(c) PROVE TypeOK'
    BY <1>5 DEF EnterPass, PCs, TypeOK, net, history
  <1>6. ASSUME NEW c \in Seats, Capture(c) PROVE TypeOK'
    <2> DEFINE w == CaptureTick(tick[c])
               n == Len(log[c]) + Delay
    <2>1. w \in Word /\ n \in Nat /\ w \in Int
      <3>1. w \in Word
        BY ConsoleTypes
      <3>2. Len(log[c]) \in Nat
        BY ConsoleTypes
      <3>3. n \in Nat
        BY <3>2, Constants
      <3> HIDE DEF w, n
      <3>4. w \in Int
        BY <3>1, Sizes DEF Word
      <3> QED BY <3>1, <3>3, <3>4
    <2>2. Slot(w) \in Slots
      BY <2>1, SlotOfWord
    <2>3. InputFrame(w, n) \in Frames /\ n \in Caps
      BY <2>1, FrameTypes DEF Caps
    <2> HIDE DEF w, n
    <2>4. Append(up[c], InputFrame(w, n)) \in Seq(Frames)
      BY <2>3, ConsoleTypes
    <2>5. ring' \in [Seats -> [Seats -> [Slots -> Caps]]]
      BY <1>6, <2>2, <2>3 DEF Capture, w, n, TypeOK
    <2>6. up' \in [Seats -> Seq(Frames)]
      BY <1>6, <2>4 DEF Capture, w, n, TypeOK
    <2> QED BY <1>6, <2>5, <2>6 DEF Capture, PCs, TypeOK, history
  <1>7. ASSUME NEW c \in Seats, Stall(c) PROVE TypeOK'
    BY <1>7 DEF Stall, PCs, TypeOK, net, history
  <1>8. ASSUME NEW c \in Seats, Round(c) PROVE TypeOK'
    <2>1. CASE waitc[c] + 1 < Timeout
      <3>1. waitc[c] \in 0..Timeout
        BY DEF TypeOK
      <3>2. waitc[c] + 1 \in 0..Timeout
        BY <2>1, <3>1, Constants
      <3>3. waitc' = [waitc EXCEPT ![c] = waitc[c] + 1]
            /\ UNCHANGED <<wm, ring, dropped, why, tick, net, history>>
            /\ pc' = [pc EXCEPT ![c] = "gate"]
        BY <1>8, <2>1 DEF Round
      <3> QED BY <3>2, <3>3 DEF TypeOK, PCs, net, history
    <2>2. CASE ~(waitc[c] + 1 < Timeout)
      <3>1. /\ waitc' = [waitc EXCEPT ![c] = Timeout]
            /\ why' = [why EXCEPT ![c] = 0]
            /\ dropped' = [dropped EXCEPT ![c] = TRUE]
            /\ ring' = [ring EXCEPT ![c] = IdleRings]
            /\ wm' = [wm EXCEPT ![c] = FarAhead(tick[c])]
            /\ UNCHANGED <<tick, net, history>>
            /\ pc' = [pc EXCEPT ![c] = "gate"]
        BY <1>8, <2>2 DEF Round
      <3>2. Timeout \in 0..Timeout
        BY Constants
      <3>3. FarAhead(tick[c]) \in Word
        BY ConsoleTypes
      <3> QED BY <3>1, <3>2, <3>3, InitialRings DEF TypeOK, PCs, net, history
    <2> QED BY <2>1, <2>2
  <1>9. ASSUME NEW c \in Seats, RunTick(c) PROVE TypeOK'
    <2>1. Append(log[c], Replayed(c)) \in Seq(Entry)
      BY ReplayedType, ConsoleTypes
    <2>2. log' \in [Seats -> Seq(Entry)]
      BY <1>9, <2>1 DEF RunTick, TypeOK
    <2>3. 0 \in 0..Timeout
      BY Constants
    <2> QED BY <1>9, <2>2, <2>3, ConsoleTypes DEF RunTick, PCs, TypeOK, net
  <1>10. ASSUME NEW c \in Seats, Relay(c) PROVE TypeOK'
    <2>1. Head(up[c]) \in Frames /\ Tail(up[c]) \in Seq(Frames)
      BY <1>10, ConsoleTypes, SeqHead DEF Relay
    <2>2. Append(down[Other(c)], Head(up[c])) \in Seq(Frames)
      BY <2>1, OtherSeat, ConsoleTypes
    <2>3. down' \in [Seats -> Seq(Frames)]
      BY <1>10, <2>2, OtherSeat DEF Relay, TypeOK
    <2> QED BY <1>10, <2>1, <2>3 DEF Relay, TypeOK, console, history
  <1>11. ASSUME NEW c \in Seats, ServerDrop(c) PROVE TypeOK'
    <2>1. LeftFrame \in Frames
      BY FrameTypes, ConsoleTypes
    <2>2. Append(down[Other(c)], LeftFrame) \in Seq(Frames)
      BY <2>1, OtherSeat, ConsoleTypes
    <2>3. down' \in [Seats -> Seq(Frames)]
      BY <1>11, <2>2, OtherSeat DEF ServerDrop, TypeOK
    <2> QED BY <1>11, <2>3 DEF ServerDrop, TypeOK, console, history
  <1>12. ASSUME NEW c \in Seats, Disconnect(c) PROVE TypeOK'
    BY <1>12 DEF Disconnect, TypeOK, console, history
  <1>13. ASSUME NEW c \in Seats, LoseTail(c) PROVE TypeOK'
    <2>1. up[c] # <<>> => SubSeq(up[c], 1, Len(up[c]) - 1) \in Seq(Frames)
      BY ConsoleTypes, SeqFront
    <2>2. down[c] # <<>> => SubSeq(down[c], 1, Len(down[c]) - 1) \in Seq(Frames)
      BY ConsoleTypes, SeqFront
    <2>3. up' \in [Seats -> Seq(Frames)] /\ down' \in [Seats -> Seq(Frames)]
      BY ZenonT(30), <1>13, <2>1, <2>2 DEF LoseTail, TypeOK
    <2> QED BY <1>13, <2>3 DEF LoseTail, TypeOK, console, history
  <1>14. ASSUME NEW c \in Seats, PowerOff(c) PROVE TypeOK'
    BY <1>14 DEF PowerOff, PCs, TypeOK, net, history
  <1>15. CASE UNCHANGED vars
    BY <1>15 DEF vars, console, net, history, TypeOK
  <1> QED
    BY <1>1, <1>2, <1>3, <1>4, <1>5, <1>6, <1>7, <1>8, <1>9, <1>10, <1>11, <1>12,
       <1>13, <1>14, <1>15
    DEF Next, Console, Server, Fault

\* Type correctness holds initially.
LEMMA TypeInit == Init => TypeOK
  <1> SUFFICES ASSUME Init PROVE TypeOK
    OBVIOUS
  <1>1. 0 \in Word /\ 0 \in 0..Timeout /\ Delay - 2 \in Int
    BY Constants, Sizes DEF Word
  <1>2. <<StartFrame>> \in Seq(Frames)
    BY <1>1, FrameTypes
  <1> QED BY <1>1, <1>2, InitialRings DEF Init, TypeOK, PCs

(***************************************************************************)
(* Every variable of the engine stays in its type: ticks and watermarks    *)
(* never leave 16 bits, the round counter never passes its limit.          *)
(***************************************************************************)
THEOREM TypeCorrect == Spec => []TypeOK
  BY TypeInit, TypeStep, PTL DEF Spec

-----------------------------------------------------------------------------
(* The inductive invariant.                                                *)

\* Steps that only move console a along its pass, switch it off or break a
\* connection.
QuietMove(a) ==
  /\ UNCHANGED <<tick, wm, ring, dropped, up, down, started, log, seen>>
  /\ \A c \in Seats : link'[c] => link[c]
  /\ \A c \in Seats : c # a => pc'[c] = pc[c]
  /\ \/ pc'[a] = pc[a]
     \/ pc'[a] = "off"
     \/ pc[a] = "held" /\ pc'[a] = "pass"
     \/ pc[a] = "pass" /\ pc'[a] = "park"
     \/ pc[a] = "pass" /\ pc'[a] = "pump" /\ ~dropped[a]
     \/ pc[a] = "gate" /\ pc'[a] = "stall" /\ ~dropped[a]
     \/ pc[a] = "stall" /\ pc'[a] = "gate"

LEMMA QuietStep ==
  ASSUME IInv, TypeOK', NEW a \in Seats, QuietMove(a)
  PROVE  IInv'
  <1>2. ASSUME NEW c \in Seats PROVE DownShape(c)' /\ UpShape(c)'
    BY DEF IInv, DownShape, UpShape, QuietMove
  <1>3. ASSUME NEW c \in Seats PROVE Outside(c)'
    BY DEF IInv, Outside, QuietMove
  <1>4. ASSUME NEW c \in Seats PROVE Paced(c, Other(c))'
    BY DEF IInv, Paced, L, QuietMove
  <1>5. ASSUME NEW c \in Seats PROVE Ticks(c)'
    BY DEF IInv, Ticks, L, Active, QuietMove
  <1>6. ASSUME NEW c \in Seats PROVE Rings(c, Other(c))'
    BY DEF IInv, Rings, L, Active, Captured, QuietMove
  <1>7. ASSUME NEW c \in Seats PROVE Logged(c)'
    BY DEF IInv, Logged, L, QuietMove
  <1>8. ASSUME NEW c \in Seats PROVE InFlight(c, Other(c))'
    BY OtherSeat DEF IInv, InFlight, DownCaps, UpCaps, NextCap, L, Receiving, Captured, QuietMove
  <1> QED BY <1>2, <1>3, <1>4, <1>5, <1>6, <1>7, <1>8 DEF IInv

LEMMA QuietActions ==
  ASSUME TypeOK, NEW a \in Seats,
         \/ HoldDone(a) \/ EnterPass(a) \/ Stall(a) \/ PowerOff(a) \/ Disconnect(a)
  PROVE  QuietMove(a)
  <1>1. CASE HoldDone(a)
    BY <1>1 DEF HoldDone, QuietMove, TypeOK, net, history
  <1>2. CASE EnterPass(a)
    BY <1>2 DEF EnterPass, QuietMove, TypeOK, net, history
  <1>3. CASE Stall(a)
    BY <1>3 DEF Stall, QuietMove, TypeOK, net, history
  <1>4. CASE PowerOff(a)
    BY <1>4 DEF PowerOff, QuietMove, TypeOK, net, history
  <1>5. CASE Disconnect(a)
    BY <1>5 DEF Disconnect, QuietMove, TypeOK, console, history
  <1> QED BY <1>1, <1>2, <1>3, <1>4, <1>5

\* A round that does not reach the limit only goes back to the gate; one that
\* does drops out of the match.
LEMMA RoundStep ==
  ASSUME IInv, TypeOK', NEW a \in Seats, Round(a)
  PROVE  IInv'
  <1>0. TypeOK
    BY DEF IInv
  <1>1. CASE waitc[a] + 1 < Timeout
    <2>1. QuietMove(a)
      BY <1>0, <1>1 DEF Round, QuietMove, TypeOK, net, history
    <2> QED BY <2>1, QuietStep
  <1>2. CASE ~(waitc[a] + 1 < Timeout)
    <2>1. /\ UNCHANGED <<tick, up, down, link, started, log, seen>>
          /\ pc[a] = "stall" /\ pc'[a] = "gate" /\ dropped'[a]
          /\ \A c \in Seats : c # a => /\ pc'[c] = pc[c] /\ dropped'[c] = dropped[c]
                                      /\ wm'[c] = wm[c] /\ ring'[c] = ring[c]
      BY <1>0, <1>2 DEF Round, TypeOK, net, history
    <2>2. ASSUME NEW c \in Seats PROVE DownShape(c)' /\ UpShape(c)'
      BY <2>1 DEF IInv, DownShape, UpShape
    <2>3. ASSUME NEW c \in Seats PROVE Outside(c)'
      BY <2>1 DEF IInv, Outside
    <2>4. ASSUME NEW c \in Seats PROVE Paced(c, Other(c))'
      BY <2>1 DEF IInv, Paced, L
    <2>5. ASSUME NEW c \in Seats PROVE Ticks(c)'
      BY <2>1 DEF IInv, Ticks, L, Active
    <2>6. ASSUME NEW c \in Seats PROVE Rings(c, Other(c))'
      BY <2>1 DEF IInv, Rings, L, Active, Captured
    <2>7. ASSUME NEW c \in Seats PROVE Logged(c)'
      BY <2>1 DEF IInv, Logged, L
    <2>8. ASSUME NEW c \in Seats PROVE InFlight(c, Other(c))'
      BY <2>1, OtherSeat DEF IInv, InFlight, DownCaps, UpCaps, NextCap, L, Receiving, Captured
    <2> QED BY <2>2, <2>3, <2>4, <2>5, <2>6, <2>7, <2>8 DEF IInv
  <1> QED BY <1>1, <1>2

\* What taking the head off a queue does.
LEMMA Taken ==
  ASSUME TypeOK, NEW a \in Seats, down[a] # <<>>,
         down' = [down EXCEPT ![a] = Tail(@)]
  PROVE  /\ Len(down[a]) \in Nat /\ Len(down[a]) >= 1
         /\ Head(down[a]) = down[a][1] /\ Head(down[a]) \in Frames
         /\ Len(down'[a]) = Len(down[a]) - 1
         /\ \A i \in 1..(Len(down[a]) - 1) : down'[a][i] = down[a][i + 1]
         /\ \A c \in Seats : c # a => down'[c] = down[c]
  <1>1. down[a] \in Seq(Frames)
    BY ConsoleTypes
  <1>2. down'[a] = Tail(down[a]) /\ \A c \in Seats : c # a => down'[c] = down[c]
    BY DEF TypeOK
  <1> QED BY ZenonT(30), <1>1, <1>2, SeqHead

LEMMA StartStep ==
  ASSUME IInv, TypeOK', NEW a \in Seats, OnStart(a)
  PROVE  IInv'
  <1>0. TypeOK
    BY DEF IInv
  <1>1. /\ Len(down[a]) \in Nat /\ Len(down[a]) >= 1
        /\ Head(down[a]) = down[a][1] /\ Head(down[a]) \in Frames
        /\ Len(down'[a]) = Len(down[a]) - 1
        /\ \A i \in 1..(Len(down[a]) - 1) : down'[a][i] = down[a][i + 1]
        /\ \A c \in Seats : c # a => down'[c] = down[c]
    BY <1>0, Taken DEF OnStart, Pumping
  <1>2. /\ UNCHANGED <<dropped, up, link, started, log>>
        /\ pc'[a] = "held" /\ tick'[a] = 0 /\ wm'[a] = ToWord(Delay - 1)
        /\ ring'[a] = IdleRings /\ seen'[a] = Delay - 1
        /\ \A c \in Seats : c # a => /\ pc'[c] = pc[c] /\ tick'[c] = tick[c]
                                    /\ wm'[c] = wm[c] /\ ring'[c] = ring[c]
                                    /\ seen'[c] = seen[c]
    BY <1>0 DEF OnStart, TypeOK, StartWM
  <1>3. pc[a] = "lobby"
    BY <1>1 DEF OnStart, Pumping, IInv, DownShape
  <1>4. log[a] = <<>> /\ Len(log[a]) = 0 /\ seen[a] = Delay - 2 /\ ~dropped[a]
    BY <1>3 DEF IInv, Outside
  <1>5. ASSUME NEW c \in Seats PROVE DownShape(c)' /\ UpShape(c)'
    <2>1. UpShape(c)'
      BY <1>2 DEF IInv, UpShape
    <2>2. CASE c # a
      BY <1>1, <1>2, <2>1, <2>2, SMTT(30) DEF IInv, DownShape
    <2>3. CASE c = a
      <3> SUFFICES ASSUME NEW i \in 1..Len(down'[a])
                   PROVE  /\ down'[a][i].type = "PEER_LEFT" => (i = Len(down'[a]) /\ ~started)
                          /\ down'[a][i].type # "START"
                          /\ down'[a][i].type = "INPUT" => down'[a][i].tick = ToWord(down'[a][i].cap)
        BY <1>2, <2>1, <2>3 DEF DownShape
      <3>1. i \in 1..(Len(down[a]) - 1) /\ i + 1 \in 1..Len(down[a]) /\ i + 1 # 1
        BY <1>1
      <3>2. down'[a][i] = down[a][i + 1]
        BY <1>1, <3>1
      <3>3. DownShape(a)
        BY DEF IInv
      <3> QED BY <1>1, <3>1, <3>2, <3>3 DEF DownShape
    <2> QED BY <2>2, <2>3
  <1>6. ASSUME NEW c \in Seats PROVE Outside(c)'
    BY <1>1, <1>2, <1>4 DEF IInv, Outside
  <1>7. ASSUME NEW c \in Seats PROVE Paced(c, Other(c))'
    <2>1. CASE c # a
      BY <1>1, <1>2, <2>1, OtherSeat DEF IInv, Paced, L
    <2>2. CASE c = a
      <3> DEFINE o == Other(a)
      <3>1. o \in Seats /\ o # a /\ L(o) \in Nat
        BY <1>0, OtherSeat, ConsoleTypes DEF L
      <3>2. Paced(a, o)
        BY DEF IInv
      <3> HIDE DEF o
      <3>3. L(a)' = 0 /\ L(o)' = L(o)
        BY <1>2, <1>4 DEF L
      <3>4. 0 <= Delay /\ Delay - 1 <= L(o) + Delay /\ Delay - 1 + 1 = Delay
        BY <3>1, Constants
      <3>5. \A i \in 1..Len(down'[a]) :
              down'[a][i].type # "PEER_LEFT" => down'[a][i].cap <= L(o) + Delay
        BY <1>1, <3>2 DEF Paced
      <3>6. \A j \in 1..Len(up'[a]) : up'[a][j].cap <= 0 + Delay
        BY <1>2, <1>4, <3>2 DEF Paced, L
      <3> QED BY <1>2, <2>2, <3>3, <3>4, <3>5, <3>6 DEF Paced, o
    <2> QED BY <2>1, <2>2
  <1>8. ASSUME NEW c \in Seats PROVE Ticks(c)'
    <2>1. ToWord(0) = 0
      BY Sizes DEF ToWord
    <2> QED BY <1>2, <1>4, <2>1, Constants DEF IInv, Ticks, L, Active
  <1>9. ASSUME NEW c \in Seats PROVE Rings(c, Other(c))'
    <2>1. CASE c = a
      <3>1. \A k \in Int : Slot(k) \in Slots
        BY SlotOfWord
      <3>2. \A s \in Seats, i \in Slots : ring'[a][s][i] = Idle
        BY <1>2 DEF IdleRings
      <3>3. \A k \in (-1)..(Delay - 1) : Expected(k) = Idle
        BY Constants DEF Expected
      <3>4. Captured(a)' = 0
        BY <1>2 DEF Captured
      <3> QED BY SMTT(30), <1>2, <1>4, <2>1, <3>1, <3>2, <3>3, <3>4, OtherSeat, Constants
              DEF Rings, L
    <2>2. CASE c # a
      BY <1>2, <2>2 DEF IInv, Rings, L, Active, Captured
    <2> QED BY <2>1, <2>2
  <1>10. ASSUME NEW c \in Seats PROVE Logged(c)'
    BY <1>2 DEF IInv, Logged, L
  <1>11. ASSUME NEW c \in Seats PROVE InFlight(c, Other(c))'
    <2> DEFINE o == Other(c)
    <2>1. o \in Seats /\ o # c /\ InFlight(c, o) /\ seen[c] \in Int
          /\ Len(down[c]) \in Nat /\ Len(up[o]) \in Nat
      BY <1>0, OtherSeat, ConsoleTypes DEF IInv
    <2> HIDE DEF o
    <2>2. CASE c # a
      <3>1. o = a
        BY <2>1, <2>2, OtherSeat
      <3>2. Captured(a)' = Captured(a) /\ L(a)' = L(a)
        BY <1>2, <1>3 DEF Captured, L
      <3>3. DownCaps(c)'
        BY <1>1, <1>2, <2>1, <2>2 DEF InFlight, DownCaps, Receiving
      <3>4. UpCaps(c, a)'
        BY <1>1, <1>2, <2>1, <2>2, <3>1 DEF InFlight, UpCaps, Receiving
      <3>5. NextCap(c, a)'
        BY <1>1, <1>2, <1>3, <2>1, <2>2, <3>1, <3>2 DEF InFlight, NextCap, Receiving
      <3> QED BY <3>1, <3>3, <3>4, <3>5 DEF InFlight, o
    <2>3. CASE c = a
      <3>1. Receiving(a) /\ Captured(o)' = Captured(o) /\ L(o)' = L(o)
        BY <1>2, <1>3, <1>4, <2>1, <2>3 DEF Receiving, Captured, L
      <3>2. seen'[a] = seen[a] + 1 /\ seen'[a] + Len(down'[a]) = seen[a] + Len(down[a])
        <4>1. seen'[a] = Delay - 1 /\ seen[a] = Delay - 2
          BY <1>2, <1>4
        <4>2. seen'[a] = seen[a] + 1 /\ seen[a] \in Int
          BY <4>1, Constants
        <4>3. Len(down[a]) \in Int /\ Len(down'[a]) = Len(down[a]) - 1
          BY <1>1
        <4> QED BY <4>2, <4>3
      <3>3. DownCaps(a)'
        <4> SUFFICES ASSUME NEW i \in 1..Len(down'[a]), down'[a][i].type # "PEER_LEFT"
                     PROVE  down'[a][i].cap = seen'[a] + i
          BY DEF DownCaps
        <4>1. i \in 1..(Len(down[a]) - 1) /\ i + 1 \in 1..Len(down[a])
          BY <1>1
        <4>2. down[a][i + 1].cap = seen[a] + (i + 1)
          BY <1>1, <2>1, <2>3, <3>1, <4>1 DEF InFlight, DownCaps
        <4>3. seen[a] + (i + 1) = (seen[a] + 1) + i
          <5>1. i \in Int
            BY <4>1
          <5>2. seen[a] \in Int
            BY <2>1, <2>3
          <5> QED BY <5>1, <5>2
        <4> QED BY <1>1, <3>2, <4>1, <4>2, <4>3
      <3>4. UpCaps(a, o)'
        <4> SUFFICES ASSUME started', link'[a], NEW j \in 1..Len(up'[o])
                     PROVE  up'[o][j].cap = seen'[a] + Len(down'[a]) + j
          BY DEF UpCaps
        <4>1. UpCaps(a, o) /\ up' = up /\ started /\ link[a]
          BY <1>2, <2>1, <2>3 DEF InFlight
        <4>2. up[o][j].cap = seen[a] + Len(down[a]) + j
          BY <3>1, <4>1 DEF UpCaps
        <4> QED BY <3>2, <4>1, <4>2
      <3>5. NextCap(a, o)'
        <4>1. NextCap(a, o) /\ up' = up /\ started' = started /\ link' = link
              /\ dropped' = dropped /\ pc'[o] = pc[o]
          BY <1>2, <2>1, <2>3 DEF InFlight
        <4> QED BY <3>1, <3>2, <4>1 DEF NextCap
      <3> QED BY <2>3, <3>3, <3>4, <3>5 DEF InFlight, o
    <2> QED BY <2>2, <2>3
  <1> QED BY <1>5, <1>6, <1>7, <1>8, <1>9, <1>10, <1>11 DEF IInv

LEMMA PeerLeftStep ==
  ASSUME IInv, TypeOK', NEW a \in Seats, OnPeerLeft(a)
  PROVE  IInv'
  <1>0. TypeOK
    BY DEF IInv
  <1>1. /\ Len(down[a]) \in Nat /\ Len(down[a]) >= 1
        /\ Head(down[a]) = down[a][1] /\ Head(down[a]) \in Frames
        /\ Len(down'[a]) = Len(down[a]) - 1
        /\ \A i \in 1..(Len(down[a]) - 1) : down'[a][i] = down[a][i + 1]
        /\ \A c \in Seats : c # a => down'[c] = down[c]
    BY <1>0, Taken DEF OnPeerLeft, Pumping
  <1>2. /\ UNCHANGED <<pc, tick, up, link, started, log, seen>>
        /\ dropped'[a] /\ pc[a] \in {"lobby", "held", "pump", "stall"}
        /\ \A c \in Seats : c # a => /\ dropped'[c] = dropped[c]
                                    /\ wm'[c] = wm[c] /\ ring'[c] = ring[c]
    BY <1>0 DEF OnPeerLeft, Pumping, TypeOK, history
  <1>3. Len(down[a]) = 1 /\ ~started /\ pc[a] # "lobby"
    <2>1. DownShape(a) /\ Outside(a) /\ down[a][1].type = "PEER_LEFT" /\ down[a] # <<>>
      BY <1>1 DEF OnPeerLeft, Pumping, IInv
    <2>2. 1 = Len(down[a]) /\ ~started
      <3>1. 1 \in 1..Len(down[a])
        BY <1>1
      <3> QED BY <2>1, <3>1 DEF DownShape
    <2> QED BY <2>1, <2>2 DEF Outside
  <1>4. down'[a] = <<>>
    BY <1>1, <1>3, EmptySeq, ConsoleTypes DEF TypeOK
  <1>5. ASSUME NEW c \in Seats PROVE DownShape(c)' /\ UpShape(c)'
    BY <1>1, <1>2, <1>3 DEF IInv, DownShape, UpShape
  <1>6. ASSUME NEW c \in Seats PROVE Outside(c)'
    BY <1>1, <1>2, <1>3, <1>4 DEF IInv, Outside
  <1>7. ASSUME NEW c \in Seats PROVE Paced(c, Other(c))'
    BY <1>1, <1>2, <1>3, OtherSeat DEF IInv, Paced, L
  <1>8. ASSUME NEW c \in Seats PROVE Ticks(c)'
    BY <1>2 DEF IInv, Ticks, L, Active
  <1>9. ASSUME NEW c \in Seats PROVE Rings(c, Other(c))'
    BY <1>2 DEF IInv, Rings, L, Active, Captured
  <1>10. ASSUME NEW c \in Seats PROVE Logged(c)'
    BY <1>2 DEF IInv, Logged, L
  <1>11. ASSUME NEW c \in Seats PROVE InFlight(c, Other(c))'
    BY <1>1, <1>2, <1>3, OtherSeat DEF IInv, InFlight, DownCaps, UpCaps, NextCap, L, Receiving, Captured
  <1> QED BY <1>5, <1>6, <1>7, <1>8, <1>9, <1>10, <1>11 DEF IInv

\* How far apart a console's tick and what it has seen can be: the whole
\* window fits in a ring page.
LEMMA Window ==
  ASSUME IInv, NEW c \in Seats
  PROVE  /\ L(c) \in Nat /\ seen[c] \in Int
         /\ L(c) - 1 <= seen[c]
         /\ seen[c] <= L(c) + 2 * Delay + 1
         /\ L(Other(c)) + Delay <= L(c) + 2 * Delay + 1
  <1> DEFINE o == Other(c)
  <1>1. o \in Seats /\ Other(o) = c
    BY OtherSeat
  <1>2. Paced(c, o) /\ Paced(o, c)
    BY <1>1 DEF IInv
  <1>3. L(c) \in Nat /\ L(o) \in Nat /\ seen[c] \in Int /\ seen[o] \in Int
    BY <1>1, ConsoleTypes DEF L, IInv
  <1> HIDE DEF o
  <1>4. /\ L(c) <= seen[c] + 1 /\ seen[c] <= L(o) + Delay
        /\ L(o) <= seen[o] + 1 /\ seen[o] <= L(c) + Delay
    BY <1>2 DEF Paced
  <1>5. /\ L(c) - 1 <= seen[c] /\ seen[c] <= L(c) + 2 * Delay + 1
        /\ L(o) + Delay <= L(c) + 2 * Delay + 1
    BY <1>3, <1>4, Constants
  <1> QED BY <1>3, <1>5 DEF o

\* A console that pumps an INPUT frame is in the match and accepts it.
LEMMA Accepted ==
  ASSUME IInv, NEW a \in Seats, OnInput(a)
  PROVE  /\ Active(a) /\ Receiving(a)
         /\ UNCHANGED <<pc, tick, dropped, up, link, started, log>>
         /\ seen'[a] = seen[a] + 1
         /\ seen[a] + 1 <= L(Other(a)) + Delay
         /\ wm'[a] = ToWord(seen[a] + 1)
         /\ ring'[a] = [ring[a] EXCEPT ![Other(a)][Slot(seen[a] + 1)] = seen[a] + 1]
         /\ \A c \in Seats : c # a => /\ seen'[c] = seen[c] /\ wm'[c] = wm[c]
                                     /\ ring'[c] = ring[c]
  <1> DEFINE f == Head(down[a])
  <1>0. TypeOK
    BY DEF IInv
  <1>1. /\ Len(down[a]) \in Nat /\ Len(down[a]) >= 1 /\ f = down[a][1]
        /\ down[a] # <<>> /\ pc[a] \in {"lobby", "held", "pump", "stall"}
        /\ f.type = "INPUT"
    BY <1>0, Taken DEF OnInput, Pumping
  <1> HIDE DEF f
  <1>2. pc[a] # "lobby" /\ ~dropped[a]
    BY <1>1 DEF IInv, Outside
  <1>3. Active(a) /\ Receiving(a)
    BY <1>1, <1>2 DEF Active, Receiving
  <1>4. 1 \in 1..Len(down[a])
    BY <1>1
  <1>5. f.cap = seen[a] + 1
    <2>1. DownCaps(a)
      BY DEF IInv, InFlight
    <2> QED BY <1>1, <1>3, <1>4, <2>1 DEF DownCaps
  <1>6. f.cap <= L(Other(a)) + Delay
    <2>1. Paced(a, Other(a))
      BY DEF IInv
    <2> QED BY <1>1, <1>4, <2>1 DEF Paced
  <1>7. f.tick = ToWord(seen[a] + 1)
    <2>1. DownShape(a)
      BY DEF IInv
    <2> QED BY <1>1, <1>4, <1>5, <2>1 DEF DownShape
  <1>8. wm[a] = ToWord(seen[a])
    BY <1>3 DEF IInv, Ticks
  <1>9. seen[a] \in Int /\ 1 < RingSize
    BY <1>0, ConsoleTypes, Constants, Sizes
  <1>10. Ahead(f.tick, wm[a])
    BY <1>7, <1>8, <1>9, AheadNext
  <1>11. Slot(f.tick) = Slot(seen[a] + 1)
    BY <1>7, <1>9, SlotOfWord
  <1>12. /\ ring' = [ring EXCEPT ![a][Other(a)][Slot(seen[a] + 1)] = seen[a] + 1]
         /\ wm' = [wm EXCEPT ![a] = ToWord(seen[a] + 1)]
         /\ seen' = [seen EXCEPT ![a] = seen[a] + 1]
         /\ UNCHANGED <<pc, tick, dropped, up, link, started, log>>
    BY <1>5, <1>7, <1>10, <1>11 DEF OnInput, f
  <1>13. /\ ring'[a] = [ring[a] EXCEPT ![Other(a)][Slot(seen[a] + 1)] = seen[a] + 1]
         /\ \A c \in Seats : c # a => ring'[c] = ring[c]
    BY <1>0, <1>12 DEF TypeOK
  <1>14. /\ wm'[a] = ToWord(seen[a] + 1) /\ seen'[a] = seen[a] + 1
         /\ \A c \in Seats : c # a => wm'[c] = wm[c] /\ seen'[c] = seen[c]
    BY <1>0, <1>12 DEF TypeOK
  <1> QED BY <1>3, <1>5, <1>6, <1>12, <1>13, <1>14

LEMMA InputStep ==
  ASSUME IInv, TypeOK', NEW a \in Seats, OnInput(a)
  PROVE  IInv'
  <1>0. TypeOK
    BY DEF IInv
  <1>1. /\ Len(down[a]) \in Nat /\ Len(down[a]) >= 1
        /\ Len(down'[a]) = Len(down[a]) - 1
        /\ \A i \in 1..(Len(down[a]) - 1) : down'[a][i] = down[a][i + 1]
        /\ \A c \in Seats : c # a => down'[c] = down[c]
    BY <1>0, Taken DEF OnInput, Pumping
  <1>2. /\ Active(a) /\ Receiving(a)
        /\ UNCHANGED <<pc, tick, dropped, up, link, started, log>>
        /\ seen'[a] = seen[a] + 1
        /\ seen[a] + 1 <= L(Other(a)) + Delay
        /\ wm'[a] = ToWord(seen[a] + 1)
        /\ \A c \in Seats : c # a => /\ seen'[c] = seen[c] /\ wm'[c] = wm[c]
                                    /\ ring'[c] = ring[c]
    BY Accepted
  <1>3. seen[a] \in Int
    BY <1>0, ConsoleTypes
  <1>4. ASSUME NEW i \in 1..Len(down'[a])
        PROVE  /\ i \in 1..(Len(down[a]) - 1) /\ i + 1 \in 1..Len(down[a])
               /\ i + 1 # 1 /\ down'[a][i] = down[a][i + 1]
    BY <1>1
  <1>5. ASSUME NEW c \in Seats PROVE DownShape(c)' /\ UpShape(c)'
    <2>1. UpShape(c)'
      BY <1>2 DEF IInv, UpShape
    <2>2. CASE c # a
      BY <1>1, <1>2, <2>1, <2>2 DEF IInv, DownShape
    <2>3. CASE c = a
      <3>1. DownShape(a)
        BY DEF IInv
      <3>2. DownShape(a)'
        <4> SUFFICES ASSUME NEW i \in 1..Len(down'[a])
                     PROVE  /\ down'[a][i].type = "PEER_LEFT" => (i = Len(down'[a]) /\ ~started)
                            /\ down'[a][i].type # "START"
                            /\ down'[a][i].type = "INPUT" => down'[a][i].tick = ToWord(down'[a][i].cap)
          BY <1>2 DEF DownShape
        <4> QED BY <1>1, <1>4, <3>1 DEF DownShape
      <3> QED BY <2>1, <2>3, <3>2
    <2> QED BY <2>2, <2>3
  <1>6. ASSUME NEW c \in Seats PROVE Outside(c)'
    BY <1>1, <1>2 DEF IInv, Outside, Active
  <1>7. ASSUME NEW c \in Seats PROVE Paced(c, Other(c))'
    <2>1. Paced(c, Other(c)) /\ Other(c) \in Seats
      BY OtherSeat DEF IInv
    <2>2. CASE c # a
      BY <1>1, <1>2, <2>1, <2>2 DEF Paced, L
    <2>3. CASE c = a
      <3>1. L(a) \in Nat /\ L(a)' = L(a) /\ L(Other(a))' = L(Other(a))
        BY <1>0, <1>2, ConsoleTypes DEF L
      <3>2. L(a) <= seen[a] + 1 + 1
        BY <1>3, <2>1, <2>3, <3>1 DEF Paced
      <3>3. \A i \in 1..Len(down'[a]) :
              down'[a][i].type # "PEER_LEFT" => down'[a][i].cap <= L(Other(a)) + Delay
        BY <1>4, <2>1, <2>3 DEF Paced
      <3>4. \A j \in 1..Len(up'[a]) : up'[a][j].cap <= L(a) + Delay
        BY <1>2, <2>1, <2>3 DEF Paced
      <3> QED BY <1>2, <2>3, <3>1, <3>2, <3>3, <3>4 DEF Paced
    <2> QED BY <2>2, <2>3
  <1>8. ASSUME NEW c \in Seats PROVE Ticks(c)'
    BY <1>2, <1>3, Constants DEF IInv, Ticks, L, Active
  <1>9. ASSUME NEW c \in Seats PROVE Rings(c, Other(c))'
    <2>1. CASE c # a
      BY <1>2, <2>1 DEF IInv, Rings, L, Active, Captured
    <2>2. CASE c = a
      <3> DEFINE o == Other(a)
                 m == seen[a] + 1
      <3>1. o \in Seats /\ o # a /\ Rings(a, o)
        BY OtherSeat DEF IInv
      <3>2. ring'[a] = [ring[a] EXCEPT ![o][Slot(m)] = m]
        BY Accepted
      <3>3. L(a) \in Nat /\ m \in Int /\ L(a) <= m /\ m - (L(a) - 1) < RingSize
            /\ Slot(m) \in Slots
        <4>1. /\ L(a) \in Nat /\ L(o) \in Nat /\ L(a) - 1 <= seen[a]
              /\ L(o) + Delay <= L(a) + 2 * Delay + 1 /\ seen[a] + 1 <= L(o) + Delay
          BY <1>2, <3>1, Window
        <4>2. Slot(m) \in Slots
          BY <1>3, SlotOfWord
        <4> HIDE DEF o
        <4> QED BY <1>3, <4>1, <4>2, Constants, Sizes
      <3>4. m >= Delay => Expected(m) = m
        BY <1>3, Constants DEF Expected
      <3>5. m >= Delay
        <4>1. seen[a] >= Delay - 1
          BY <1>2 DEF IInv, Ticks
        <4> QED BY <1>3, <4>1, Constants
      <3> HIDE DEF o, m
      <3>6. ring'[a][o] = [ring[a][o] EXCEPT ![Slot(m)] = m] /\ ring'[a][a] = ring[a][a]
        BY <1>0, <3>1, <3>2 DEF TypeOK
      <3>7. \A k \in (L(a) - 1)..m : ring'[a][o][Slot(k)] = Expected(k)
        <4> SUFFICES ASSUME NEW k \in (L(a) - 1)..m
                     PROVE  ring'[a][o][Slot(k)] = Expected(k)
          OBVIOUS
        <4>1. k \in Int /\ Slot(k) \in Slots
          BY <3>3, SlotOfWord
        <4>2. CASE k = m
          BY <1>0, <3>1, <3>3, <3>4, <3>5, <3>6, <4>2 DEF TypeOK
        <4>3. CASE k # m
          <5>1. Slot(k) # Slot(m)
            <6>1. k - m < RingSize /\ m - k < RingSize /\ m \in Int
              BY <3>3, <4>1, Sizes
            <6> QED BY <4>1, <4>3, <6>1, SlotInjective
          <5>2. ring'[a][o][Slot(k)] = ring[a][o][Slot(k)]
            BY <1>0, <3>1, <3>6, <4>1, <5>1 DEF TypeOK
          <5>3. k \in (L(a) - 1)..seen[a]
            BY <1>3, <3>3, <4>1, <4>3 DEF m
          <5> QED BY <1>2, <3>1, <5>2, <5>3 DEF Rings
        <4> QED BY <4>2, <4>3
      <3>8. L(a)' = L(a) /\ Captured(a)' = Captured(a) /\ seen'[a] = m
        BY <1>2 DEF L, Captured, m
      <3> QED BY <1>2, <2>2, <3>1, <3>6, <3>7, <3>8 DEF Rings, o
    <2> QED BY <2>1, <2>2
  <1>10. ASSUME NEW c \in Seats PROVE Logged(c)'
    BY <1>2 DEF IInv, Logged, L
  <1>11. ASSUME NEW c \in Seats PROVE InFlight(c, Other(c))'
    <2> DEFINE o == Other(c)
    <2>1. o \in Seats /\ o # c /\ InFlight(c, o) /\ seen[c] \in Int
          /\ Len(down[c]) \in Nat /\ Len(up[o]) \in Nat
      BY <1>0, OtherSeat, ConsoleTypes DEF IInv
    <2> HIDE DEF o
    <2>2. Captured(o)' = Captured(o) /\ L(o)' = L(o) /\ Receiving(c)' = Receiving(c)
      BY <1>2 DEF Captured, L, Receiving
    <2>3. CASE c # a
      <3>1. DownCaps(c)'
        BY <1>1, <1>2, <2>1, <2>2, <2>3 DEF InFlight, DownCaps
      <3>2. UpCaps(c, o)'
        BY <1>1, <1>2, <2>1, <2>2, <2>3 DEF InFlight, UpCaps
      <3>3. NextCap(c, o)'
        BY <1>1, <1>2, <2>1, <2>2, <2>3 DEF InFlight, NextCap
      <3> QED BY <3>1, <3>2, <3>3 DEF InFlight, o
    <2>4. CASE c = a
      <3>1. seen'[a] + Len(down'[a]) = seen[a] + Len(down[a])
        BY <1>1, <1>2, <1>3
      <3>2. DownCaps(a)'
        <4> SUFFICES ASSUME NEW i \in 1..Len(down'[a]), down'[a][i].type # "PEER_LEFT"
                     PROVE  down'[a][i].cap = seen'[a] + i
          BY DEF DownCaps
        <4>1. down[a][i + 1].cap = seen[a] + (i + 1)
          BY <1>2, <1>4, <2>1, <2>4 DEF InFlight, DownCaps
        <4>2. seen[a] + (i + 1) = (seen[a] + 1) + i
          <5>1. i \in Int
            BY <1>1
          <5> QED BY <1>3, <5>1
        <4> QED BY <1>2, <1>4, <4>1, <4>2
      <3>3. UpCaps(a, o)'
        BY <1>2, <2>1, <2>2, <2>4, <3>1 DEF InFlight, UpCaps
      <3>4. NextCap(a, o)'
        BY <1>2, <2>1, <2>2, <2>4, <3>1 DEF InFlight, NextCap
      <3> QED BY <2>4, <3>2, <3>3, <3>4 DEF InFlight, o
    <2> QED BY <2>3, <2>4
  <1> QED BY <1>5, <1>6, <1>7, <1>8, <1>9, <1>10, <1>11 DEF IInv

\* What a capture does to its console and its outgoing queue.
LEMMA CaptureStep ==
  ASSUME IInv, TypeOK', NEW a \in Seats, Capture(a)
  PROVE  IInv'
  <1> DEFINE n == L(a) + Delay
             w == CaptureTick(tick[a])
  <1>0. TypeOK
    BY DEF IInv
  <1>1. /\ pc[a] = "pump" /\ pc'[a] = "gate"
        /\ UNCHANGED <<tick, wm, dropped, down, link, started, log, seen>>
        /\ \A c \in Seats : c # a => /\ pc'[c] = pc[c] /\ ring'[c] = ring[c]
                                    /\ up'[c] = up[c]
    BY <1>0 DEF Capture, TypeOK, history
  <1>2. L(a) \in Nat /\ n \in Nat /\ tick[a] = ToWord(L(a))
    BY <1>0, <1>1, ConsoleTypes, Constants DEF L, IInv, Ticks
  <1>3. w = ToWord(n) /\ Slot(w) = Slot(n) /\ Slot(n) \in Slots
    BY <1>2, Constants, ToWordPlus, SlotOfWord DEF CaptureTick
  <1>4. \/ up'[a] = up[a] /\ ~link[a]
        \/ up'[a] = Append(up[a], InputFrame(w, n)) /\ link[a]
    BY <1>0 DEF Capture, TypeOK, L
  <1>5. InputFrame(w, n) \in Frames /\ InputFrame(w, n).cap = n
        /\ InputFrame(w, n).type = "INPUT" /\ InputFrame(w, n).tick = ToWord(n)
    BY <1>0, <1>2, <1>3, FrameTypes, ToWordType DEF InputFrame
  <1>6. \/ up'[a] = up[a] /\ ~link[a]
        \/ /\ link[a] /\ Len(up[a]) \in Nat /\ Len(up'[a]) = Len(up[a]) + 1
           /\ \A j \in 1..Len(up[a]) : up'[a][j] = up[a][j]
           /\ up'[a][Len(up[a]) + 1] = InputFrame(w, n)
    BY <1>0, <1>4, <1>5, ConsoleTypes, SeqAppend
  <1>7. ring'[a] = [ring[a] EXCEPT ![a][Slot(n)] = n]
    BY <1>0, <1>3 DEF Capture, TypeOK, L
  <1> HIDE DEF n, w
  <1>8. ASSUME NEW c \in Seats PROVE DownShape(c)' /\ UpShape(c)'
    <2>1. DownShape(c)'
      BY <1>1 DEF IInv, DownShape
    <2>2. UpShape(c) /\ Len(up[a]) \in Nat
      BY <1>0, ConsoleTypes DEF IInv
    <2>3. UpShape(c)'
      <3>1. CASE c # a \/ up'[a] = up[a]
        BY <1>1, <2>2, <3>1 DEF UpShape
      <3>2. CASE c = a /\ up'[a] # up[a]
        <4> SUFFICES ASSUME NEW j \in 1..Len(up'[a])
                     PROVE  up'[a][j].type = "INPUT" /\ up'[a][j].tick = ToWord(up'[a][j].cap)
          BY <3>2 DEF UpShape
        <4>1. j \in 1..Len(up[a]) \/ j = Len(up[a]) + 1
          BY <1>6, <3>2
        <4> QED BY <1>5, <1>6, <2>2, <3>2, <4>1 DEF UpShape
      <3> QED BY <3>1, <3>2
    <2> QED BY <2>1, <2>3
  <1>9. ASSUME NEW c \in Seats PROVE Outside(c)'
    BY <1>1 DEF IInv, Outside
  <1>10. ASSUME NEW c \in Seats PROVE Paced(c, Other(c))'
    <2>1. Paced(c, Other(c)) /\ L(c)' = L(c) /\ L(Other(c))' = L(Other(c))
      BY <1>1 DEF IInv, L
    <2>2. \A j \in 1..Len(up'[c]) : up'[c][j].cap <= L(c) + Delay
      <3>1. CASE c # a \/ up'[a] = up[a]
        BY <1>1, <2>1, <3>1 DEF Paced
      <3>2. CASE c = a /\ up'[a] # up[a]
        <4> SUFFICES ASSUME NEW j \in 1..Len(up'[a])
                     PROVE  up'[a][j].cap <= L(a) + Delay
          BY <3>2
        <4>1. j \in 1..Len(up[a]) \/ j = Len(up[a]) + 1
          BY <1>6, <3>2
        <4>2. n <= L(a) + Delay
          BY <1>2, Constants DEF n
        <4> QED BY <1>5, <1>6, <2>1, <3>2, <4>1, <4>2 DEF Paced
      <3> QED BY <3>1, <3>2
    <2> QED BY <1>1, <2>1, <2>2 DEF Paced
  <1>11. ASSUME NEW c \in Seats PROVE Ticks(c)'
    BY <1>1 DEF IInv, Ticks, L, Active
  <1>12. ASSUME NEW c \in Seats PROVE Rings(c, Other(c))'
    <2>1. CASE c # a
      BY <1>1, <2>1 DEF IInv, Rings, L, Active, Captured
    <2>2. CASE c = a
      <3> DEFINE o == Other(a)
      <3>1. o \in Seats /\ o # a /\ Rings(a, o)
        BY OtherSeat DEF IInv
      <3> HIDE DEF o
      <3>2. ring'[a][o] = ring[a][o] /\ ring'[a][a] = [ring[a][a] EXCEPT ![Slot(n)] = n]
        BY ZenonT(30), <1>0, <1>7, <3>1 DEF TypeOK
      <3>3. L(a)' = L(a) /\ Captured(a)' = 1 /\ Captured(a) = 0 /\ seen'[a] = seen[a]
            /\ Active(a)' = Active(a)
        BY <1>1 DEF L, Captured, Active
      <3>4. Expected(n) = n
        BY <1>2, Constants DEF Expected, n
      <3>5. ASSUME Active(a), NEW k \in (L(a) - 1)..(L(a) + Delay)
            PROVE  ring'[a][a][Slot(k)] = Expected(k)
        <4>1. k \in Int /\ Slot(k) \in Slots
          BY <1>2, SlotOfWord, Constants
        <4>2. CASE k = n
          BY <1>0, <1>3, <3>2, <3>4, <4>2 DEF TypeOK
        <4>3. CASE k # n
          <5>1. k - n < RingSize /\ n - k < RingSize /\ n \in Int
            BY <1>2, <3>5, <4>1, Constants, Sizes DEF n
          <5>2. Slot(k) # Slot(n)
            BY <4>1, <4>3, <5>1, SlotInjective
          <5>3. ring'[a][a][Slot(k)] = ring[a][a][Slot(k)]
            BY <1>0, <3>2, <4>1, <5>2 DEF TypeOK
          <5>4. k \in (L(a) - 1)..(L(a) + Delay - 1 + 0)
            BY <1>2, <4>1, <4>3, Constants DEF n
          <5> QED BY <3>1, <3>3, <3>5, <5>3, <5>4 DEF Rings
        <4> QED BY <4>2, <4>3
      <3>6. L(a) + Delay - 1 + 1 = L(a) + Delay
        BY <1>2, Constants
      <3> QED BY <2>2, <3>1, <3>2, <3>3, <3>5, <3>6 DEF Rings, o
    <2> QED BY <2>1, <2>2
  <1>13. ASSUME NEW c \in Seats PROVE Logged(c)'
    BY <1>1 DEF IInv, Logged, L
  <1>14. ASSUME NEW c \in Seats PROVE InFlight(c, Other(c))'
    <2> DEFINE o == Other(c)
    <2>1. o \in Seats /\ o # c /\ InFlight(c, o) /\ seen[c] \in Int
          /\ Len(down[c]) \in Nat /\ Len(up[o]) \in Nat /\ L(o)' = L(o) /\ L(o) \in Nat
      BY <1>0, <1>1, OtherSeat, ConsoleTypes DEF IInv, L
    <2> HIDE DEF o
    <2>2. Receiving(c)' = Receiving(c)
      BY <1>1 DEF Receiving
    <2>3. DownCaps(c)'
      BY <1>1, <2>1, <2>2 DEF InFlight, DownCaps
    <2>4. CASE o # a
      <3>1. Captured(o)' = Captured(o) /\ up'[o] = up[o] /\ pc'[o] = pc[o]
        BY <1>1, <2>1, <2>4 DEF Captured
      <3>2. UpCaps(c, o)' /\ NextCap(c, o)'
        BY <1>1, <2>1, <2>2, <2>4, <3>1 DEF InFlight, UpCaps, NextCap
      <3> QED BY <2>3, <3>2 DEF InFlight, o
    <2>5. CASE o = a
      <3>1. Captured(a)' = 1 /\ Captured(a) = 0
        BY <1>1 DEF Captured
      <3>2. CASE ~link[a]
        <4>1. NextCap(c, a)'
          BY <1>1, <3>2 DEF NextCap
        <4>2. UpCaps(c, a)'
          BY <1>1, <1>6, <2>1, <2>2, <2>5, <3>2 DEF InFlight, UpCaps
        <4> QED BY <2>3, <2>5, <4>1, <4>2 DEF InFlight, o
      <3>3. CASE link[a]
        <4>1. (Receiving(c) /\ started /\ link[c]) =>
                n = seen[c] + Len(down[c]) + Len(up[a]) + 1
          BY <1>1, <1>2, <2>1, <2>5, <3>1, <3>3, Constants DEF InFlight, NextCap, n
        <4>2. UpCaps(c, a)'
          <5> SUFFICES ASSUME Receiving(c), started, link[c], NEW j \in 1..Len(up'[a])
                       PROVE  up'[a][j].cap = seen[c] + Len(down[c]) + j
            BY <1>1, <2>2 DEF UpCaps
          <5>1. j \in 1..Len(up[a]) \/ j = Len(up[a]) + 1
            BY <1>6, <2>1, <2>5, <3>3
          <5>2. CASE j \in 1..Len(up[a])
            BY <1>6, <2>1, <2>5, <3>3, <5>2 DEF InFlight, UpCaps
          <5>3. CASE j = Len(up[a]) + 1
            <6>1. up'[a][j].cap = n
              BY <1>5, <1>6, <3>3, <5>3
            <6>2. seen[c] \in Int /\ Len(down[c]) \in Int /\ Len(up[a]) \in Int
              BY <2>1, <2>5
            <6> DEFINE x == seen[c]
                       y == Len(down[c])
                       z == Len(up[a])
            <6> HIDE DEF x, y, z
            <6>4. x \in Int /\ y \in Int /\ z \in Int
              BY <6>2 DEF x, y, z
            <6>5. x + y + z + 1 = x + y + (z + 1)
              BY <6>4
            <6>3. seen[c] + Len(down[c]) + Len(up[a]) + 1
                    = seen[c] + Len(down[c]) + (Len(up[a]) + 1)
              BY <6>5 DEF x, y, z
            <6> QED BY <4>1, <5>3, <6>1, <6>3
          <5> QED BY <5>1, <5>2, <5>3
        <4>3. NextCap(c, a)'
          <5> SUFFICES ASSUME Receiving(c), started, link[c]
                       PROVE  (L(a) + Delay + Captured(a)
                                = seen[c] + Len(down[c]) + Len(up[a]) + 1)'
            BY <1>1, <2>2 DEF NextCap
          <5>1. L(a)' = L(a) /\ Len(up'[a]) = Len(up[a]) + 1 /\ Len(up[a]) \in Int
            BY <1>6, <2>1, <2>5, <3>3
          <5>2. L(a) + Delay = seen[c] + Len(down[c]) + Len(up[a]) + 1
            BY <4>1 DEF n
          <5>4. L(a) + Delay \in Int
            BY <1>2, Constants
          <5>5. L(a) + Delay + 1 = seen[c] + Len(down[c]) + (Len(up[a]) + 1) + 1
            <6> DEFINE m == L(a) + Delay
                       x == seen[c]
                       y == Len(down[c])
                       z == Len(up[a])
            <6>1. m \in Int /\ x \in Int /\ y \in Int /\ z \in Int /\ m = x + y + z + 1
              BY <2>1, <5>1, <5>2, <5>4
            <6> HIDE DEF m, x, y, z
            <6>2. m + 1 = x + y + (z + 1) + 1
              BY <6>1
            <6> QED BY <6>2 DEF m, x, y, z
          <5> QED BY <1>1, <3>1, <5>1, <5>5
        <4> QED BY <2>3, <2>5, <4>2, <4>3 DEF InFlight, o
      <3> QED BY <3>2, <3>3
    <2> QED BY <2>4, <2>5
  <1> QED BY <1>8, <1>9, <1>10, <1>11, <1>12, <1>13, <1>14 DEF IInv
\* The tick a console runs inside the match is one whose input it has seen,
\* and it is run with the captures made for it.
LEMMA Ran ==
  ASSUME IInv, NEW a \in Seats, RunTick(a), ~dropped[a]
  PROVE  /\ L(a) <= seen[a]
         /\ Replayed(a) = [cur  |-> [s \in Seats |-> Expected(L(a))],
                           prev |-> [s \in Seats |-> Expected(L(a) - 1)]]
         /\ Replayed(a) \in Entry
  <1>0. TypeOK
    BY DEF IInv
  <1>1. pc[a] = "gate" /\ GateOpen(a) /\ Active(a) /\ Captured(a) = 1
    BY DEF RunTick, Active, Captured
  <1>2. /\ L(a) \in Nat /\ seen[a] \in Int /\ L(a) - 1 <= seen[a]
        /\ seen[a] <= L(a) + 2 * Delay + 1
    BY Window
  <1>3. tick[a] = ToWord(L(a)) /\ wm[a] = ToWord(seen[a])
    BY <1>1 DEF IInv, Ticks
  <1>4. L(a) <= seen[a]
    <2>1. seen[a] - L(a) < RingSize /\ L(a) - seen[a] < RingSize
      BY <1>2, Constants, Sizes
    <2> QED BY <1>1, <1>2, <1>3, <2>1, NotBehindOrder DEF GateOpen
  <1>5. L(a) - 1 \in Int /\ tick[a] - 1 = tick[a] + (-1) /\ L(a) + (-1) = L(a) - 1
    BY <1>0, <1>2, ConsoleTypes
  <1>6. ToWord(tick[a] - 1) = ToWord(L(a) - 1)
    BY <1>2, <1>3, <1>5, ToWordPlus
  <1>7. Slot(tick[a]) = Slot(L(a)) /\ Slot(ToWord(tick[a] - 1)) = Slot(L(a) - 1)
    BY <1>2, <1>3, <1>5, <1>6, SlotOfWord
  <1>8. \A s \in Seats : /\ ring[a][s][Slot(L(a))] = Expected(L(a))
                         /\ ring[a][s][Slot(L(a) - 1)] = Expected(L(a) - 1)
    <2>1. Rings(a, Other(a))
      BY DEF IInv
    <2>2. L(a) \in (L(a) - 1)..seen[a] /\ L(a) - 1 \in (L(a) - 1)..seen[a]
      BY <1>2, <1>4
    <2>3. /\ L(a) \in (L(a) - 1)..(L(a) + Delay - 1 + 1)
          /\ L(a) - 1 \in (L(a) - 1)..(L(a) + Delay - 1 + 1)
      BY <1>2, Constants
    <2> QED BY <1>1, <2>1, <2>2, <2>3, OtherSeat DEF Rings
  <1>9. Replayed(a) = [cur  |-> [s \in Seats |-> Expected(L(a))],
                       prev |-> [s \in Seats |-> Expected(L(a) - 1)]]
    BY <1>7, <1>8 DEF Replayed
  <1> QED BY <1>0, <1>4, <1>9, ReplayedType

LEMMA RunStep ==
  ASSUME IInv, TypeOK', NEW a \in Seats, RunTick(a)
  PROVE  IInv'
  <1>0. TypeOK
    BY DEF IInv
  <1>1. /\ UNCHANGED <<wm, ring, dropped, up, down, link, started, seen>>
        /\ pc[a] = "gate" /\ pc'[a] = "pass" /\ tick'[a] = ToWord(tick[a] + 1)
        /\ \A c \in Seats : c # a => /\ pc'[c] = pc[c] /\ tick'[c] = tick[c]
                                    /\ log'[c] = log[c]
    BY <1>0 DEF RunTick, TypeOK, net
  <1>2. CASE dropped[a]
    <2>1. log' = log
      BY <1>2 DEF RunTick
    <2>2. ASSUME NEW c \in Seats PROVE DownShape(c)' /\ UpShape(c)'
      BY <1>1 DEF IInv, DownShape, UpShape
    <2>3. ASSUME NEW c \in Seats PROVE Outside(c)'
      BY <1>1 DEF IInv, Outside
    <2>4. ASSUME NEW c \in Seats PROVE Paced(c, Other(c))'
      BY <1>1, <2>1 DEF IInv, Paced, L
    <2>5. ASSUME NEW c \in Seats PROVE Ticks(c)'
      BY <1>1, <1>2, <2>1 DEF IInv, Ticks, L, Active
    <2>6. ASSUME NEW c \in Seats PROVE Rings(c, Other(c))'
      BY <1>1, <1>2, <2>1 DEF IInv, Rings, L, Active, Captured
    <2>7. ASSUME NEW c \in Seats PROVE Logged(c)'
      BY <2>1 DEF IInv, Logged, L
    <2>8. ASSUME NEW c \in Seats PROVE InFlight(c, Other(c))'
      BY <1>1, <1>2, <2>1, OtherSeat
      DEF IInv, InFlight, DownCaps, UpCaps, NextCap, L, Receiving, Captured
    <2> QED BY <2>2, <2>3, <2>4, <2>5, <2>6, <2>7, <2>8 DEF IInv
  <1>3. CASE ~dropped[a]
    <2>1. /\ L(a) <= seen[a]
          /\ Replayed(a) = [cur  |-> [s \in Seats |-> Expected(L(a))],
                            prev |-> [s \in Seats |-> Expected(L(a) - 1)]]
          /\ Replayed(a) \in Entry
      BY <1>3, Ran
    <2>2. log'[a] = Append(log[a], Replayed(a))
      BY <1>0, <1>3 DEF RunTick, TypeOK
    <2>3. /\ L(a) \in Nat /\ L(a)' = L(a) + 1
          /\ \A n \in 1..L(a) : log'[a][n] = log[a][n]
          /\ log'[a][L(a) + 1] = Replayed(a)
      BY <1>0, <2>1, <2>2, ConsoleTypes, SeqAppend DEF L
    <2>4. \A c \in Seats : c # a => L(c)' = L(c)
      BY <1>1 DEF L
    <2>5. Active(a) /\ Captured(a) = 1 /\ Captured(a)' = 0
      BY <1>1, <1>3 DEF Active, Captured
    <2>6. tick[a] = ToWord(L(a)) /\ tick'[a] = ToWord(L(a) + 1)
      <3>1. tick[a] = ToWord(L(a))
        BY <2>5 DEF IInv, Ticks
      <3> QED BY <1>1, <2>3, <3>1, ToWordPlus
    <2>7. ASSUME NEW c \in Seats PROVE DownShape(c)' /\ UpShape(c)'
      BY <1>1 DEF IInv, DownShape, UpShape
    <2>8. ASSUME NEW c \in Seats PROVE Outside(c)'
      BY <1>1 DEF IInv, Outside
    <2>9. ASSUME NEW c \in Seats PROVE Paced(c, Other(c))'
      <3>1. Paced(c, Other(c)) /\ Other(c) \in Seats /\ L(c) \in Nat
            /\ L(Other(c)) \in Nat /\ seen[c] \in Int
        BY <1>0, OtherSeat, ConsoleTypes DEF IInv, L
      <3>2. /\ L(c) <= L(c)' /\ L(Other(c)) <= L(Other(c))'
            /\ L(c)' \in Nat /\ L(Other(c))' \in Nat
        BY <2>3, <2>4, <3>1
      <3>3. (L(c) <= seen[c] + 1)'
        BY <1>1, <2>1, <2>3, <2>4, <3>1 DEF Paced
      <3>4. (seen[c] <= L(Other(c)) + Delay)'
        BY <1>1, <3>1, <3>2, Constants DEF Paced
      <3>5. (\A i \in 1..Len(down[c]) :
               down[c][i].type # "PEER_LEFT" => down[c][i].cap <= L(Other(c)) + Delay)'
        <4> SUFFICES ASSUME NEW i \in 1..Len(down[c]), down[c][i].type # "PEER_LEFT"
                     PROVE  down[c][i].cap <= L(Other(c))' + Delay
          BY <1>1
        <4>1. down[c][i].cap <= L(Other(c)) + Delay
          BY <3>1 DEF Paced
        <4>2. down[c][i].cap \in Int
          <5>1. down[c][i] \in Frames
            BY <1>0, ConsoleTypes, ElementOfSeq
          <5> QED BY <5>1 DEF Frames, Caps, Idle
        <4>3. Delay \in Int
          BY Constants
        <4>4. /\ L(Other(c)) \in Int /\ L(Other(c))' \in Int
              /\ L(Other(c)) <= L(Other(c))'
          BY <3>1, <3>2
        <4> QED BY <4>1, <4>2, <4>3, <4>4
      <3>6. (\A j \in 1..Len(up[c]) : up[c][j].cap <= L(c) + Delay)'
        <4> SUFFICES ASSUME NEW j \in 1..Len(up[c])
                     PROVE  up[c][j].cap <= L(c)' + Delay
          BY <1>1
        <4>1. up[c][j].cap <= L(c) + Delay
          BY <3>1 DEF Paced
        <4>2. up[c][j].cap \in Int
          <5>1. up[c][j] \in Frames
            BY <1>0, ConsoleTypes, ElementOfSeq
          <5> QED BY <5>1 DEF Frames, Caps, Idle
        <4>3. Delay \in Int
          BY Constants
        <4>4. L(c) \in Int /\ L(c)' \in Int /\ L(c) <= L(c)'
          BY <3>1, <3>2
        <4> QED BY <4>1, <4>2, <4>3, <4>4
      <3> QED BY <3>3, <3>4, <3>5, <3>6 DEF Paced
    <2>10. ASSUME NEW c \in Seats PROVE Ticks(c)'
      <3>1. CASE c # a
        BY <1>1, <2>4, <3>1 DEF IInv, Ticks, Active
      <3>2. CASE c = a
        BY <1>1, <2>3, <2>5, <2>6, <3>2 DEF IInv, Ticks, Active
      <3> QED BY <3>1, <3>2
    <2>11. ASSUME NEW c \in Seats PROVE Rings(c, Other(c))'
      <3>1. CASE c # a
        BY <1>1, <2>4, <3>1 DEF IInv, Rings, Active, Captured
      <3>2. CASE c = a
        <4> DEFINE o == Other(a)
        <4>1. Rings(a, o) /\ seen[a] \in Int
          BY <1>0, ConsoleTypes DEF IInv
        <4> HIDE DEF o
        <4>2. \A k \in (L(a) + 1 - 1)..seen[a] : k \in (L(a) - 1)..seen[a]
          BY <2>3, <4>1
        <4>3. \A k \in (L(a) + 1 - 1)..(L(a) + 1 + Delay - 1 + 0) :
                k \in (L(a) - 1)..(L(a) + Delay - 1 + 1)
          BY <2>3, Constants
        <4> QED BY <1>1, <2>3, <2>5, <3>2, <4>1, <4>2, <4>3 DEF Rings, o
      <3> QED BY <3>1, <3>2
    <2>12. ASSUME NEW c \in Seats PROVE Logged(c)'
      <3>1. CASE c # a
        <4>1. Logged(c) /\ log'[c] = log[c] /\ L(c)' = L(c)
          BY <1>1, <2>4, <3>1 DEF IInv
        <4> QED BY <4>1 DEF Logged
      <3>2. CASE c = a
        <4>1. Logged(a)
          BY DEF IInv
        <4> SUFFICES ASSUME NEW n \in 1..(L(a) + 1)
                     PROVE  log'[a][n] = [cur  |-> [s \in Seats |-> Expected(n - 1)],
                                          prev |-> [s \in Seats |-> Expected(n - 2)]]
          BY <2>3, <3>2 DEF Logged
        <4>2. CASE n \in 1..L(a)
          BY <2>3, <4>1, <4>2 DEF Logged
        <4>3. CASE n = L(a) + 1
          <5>1. n - 1 = L(a) /\ n - 2 = L(a) - 1
            BY <2>3, <4>3
          <5> QED BY <2>1, <2>3, <4>3, <5>1
        <4> QED BY <2>3, <4>2, <4>3
      <3> QED BY <3>1, <3>2
    <2>13. ASSUME NEW c \in Seats PROVE InFlight(c, Other(c))'
      <3> DEFINE o == Other(c)
      <3>1. o \in Seats /\ o # c /\ InFlight(c, o) /\ (c = a \/ o = a)
        BY OtherSeat DEF IInv
      <3> HIDE DEF o
      <3>2. Receiving(c)' = Receiving(c)
        BY <1>1 DEF Receiving
      <3>3. DownCaps(c)' /\ UpCaps(c, o)'
        BY <1>1, <3>1, <3>2 DEF InFlight, DownCaps, UpCaps
      <3>4. NextCap(c, o)'
        <4>1. CASE o # a
          <5>1. Captured(o)' = Captured(o) /\ L(o)' = L(o) /\ pc'[o] = pc[o]
            BY <1>1, <2>4, <3>1, <4>1 DEF Captured
          <5> QED BY <1>1, <3>1, <3>2, <5>1 DEF InFlight, NextCap
        <4>2. CASE o = a
          <5>1. L(a) + 1 + Delay + 0 = L(a) + Delay + 1
            BY <2>3, Constants
          <5> QED BY <1>1, <1>3, <2>3, <2>5, <3>1, <3>2, <4>2, <5>1
                  DEF InFlight, NextCap
        <4> QED BY <4>1, <4>2
      <3> QED BY <3>3, <3>4 DEF InFlight, o
    <2> QED BY <2>7, <2>8, <2>9, <2>10, <2>11, <2>12, <2>13 DEF IInv
  <1> QED BY <1>2, <1>3

\* The relay moves the oldest frame of a to the end of what its peer is to
\* read, or drops it when no match is on or the peer is gone.
LEMMA RelayStep ==
  ASSUME IInv, TypeOK', NEW a \in Seats, Relay(a)
  PROVE  IInv'
  <1> DEFINE p == Other(a)
  <1>0. TypeOK
    BY DEF IInv
  <1>1. p \in Seats /\ p # a /\ Other(p) = a /\ \A c \in Seats : c = a \/ c = p
    BY OtherSeat
  <1>2. UNCHANGED <<pc, tick, wm, ring, dropped, link, started, log, seen>>
    BY DEF Relay, console, history
  <1>3. up'[a] = Tail(up[a]) /\ up'[p] = up[p] /\ up[a] # <<>>
    BY <1>0, <1>1 DEF Relay, TypeOK
  <1>4. /\ Len(up[a]) \in Nat /\ Len(up[a]) >= 1 /\ Head(up[a]) = up[a][1]
        /\ Head(up[a]) \in Frames /\ Len(up'[a]) = Len(up[a]) - 1
        /\ \A i \in 1..(Len(up[a]) - 1) : up'[a][i] = up[a][i + 1]
    BY <1>0, <1>3, ConsoleTypes, SeqHead
  <1>5. /\ down'[a] = down[a]
        /\ IF started /\ link[p] THEN down'[p] = Append(down[p], up[a][1])
                                 ELSE down'[p] = down[p]
    BY <1>0, <1>1, <1>4 DEF Relay, TypeOK
  <1>6. ASSUME started, link[p]
        PROVE  /\ Len(down[p]) \in Nat /\ Len(down'[p]) = Len(down[p]) + 1
               /\ \A i \in 1..Len(down[p]) : down'[p][i] = down[p][i]
               /\ down'[p][Len(down[p]) + 1] = up[a][1]
    BY SMTT(30), <1>0, <1>1, <1>4, <1>5, <1>6, ConsoleTypes, SeqAppend
  <1>7. \A c \in Seats : L(c)' = L(c) /\ Captured(c)' = Captured(c)
                         /\ Receiving(c)' = Receiving(c) /\ Active(c)' = Active(c)
    BY <1>2 DEF L, Captured, Receiving, Active
  <1> HIDE DEF p
  <1>8. ASSUME NEW i \in 1..Len(up'[a])
        PROVE  i \in 1..(Len(up[a]) - 1) /\ i + 1 \in 1..Len(up[a])
               /\ up'[a][i] = up[a][i + 1]
    BY <1>4
  <1>9. 1 \in 1..Len(up[a]) /\ up[a][1].type = "INPUT"
        /\ up[a][1].tick = ToWord(up[a][1].cap)
    BY <1>4 DEF IInv, UpShape
  <1>10. UpShape(a)' /\ UpShape(p)'
    <2>1. UpShape(a) /\ UpShape(p)
      BY <1>1 DEF IInv
    <2>2. UpShape(p)'
      BY <1>3, <2>1 DEF UpShape
    <2>3. UpShape(a)'
      BY <1>8, <2>1 DEF UpShape
    <2> QED BY <2>2, <2>3
  <1>11. DownShape(a)' /\ DownShape(p)'
    <2>1. DownShape(a) /\ DownShape(p)
      BY <1>1 DEF IInv
    <2>2. DownShape(a)'
      BY <1>2, <1>5, <2>1 DEF DownShape
    <2>3. CASE started /\ link[p]
      <3> SUFFICES ASSUME NEW i \in 1..Len(down'[p])
                   PROVE  /\ down'[p][i].type = "PEER_LEFT" => (i = Len(down'[p]) /\ ~started)
                          /\ down'[p][i].type = "START" => (i = 1 /\ pc[p] \in {"lobby", "off"})
                          /\ down'[p][i].type = "INPUT" => down'[p][i].tick = ToWord(down'[p][i].cap)
        BY <1>2, <2>2 DEF DownShape
      <3>1. i \in 1..Len(down[p]) \/ i = Len(down[p]) + 1
        BY <1>6, <2>3
      <3> QED BY <1>6, <1>9, <2>1, <2>3, <3>1 DEF DownShape
    <2>4. CASE ~(started /\ link[p])
      BY <1>2, <1>5, <2>1, <2>2, <2>4 DEF DownShape
    <2> QED BY <2>2, <2>3, <2>4
  <1>12. Outside(a)' /\ Outside(p)'
    <2>1. Outside(a) /\ Outside(p)
      BY <1>1 DEF IInv
    <2>2. Outside(a)'
      BY <1>2, <1>5, <2>1 DEF Outside
    <2>3. CASE started /\ link[p]
      <3>1. down'[p] # <<>>
        BY <1>6, <2>3
      <3>2. pc[p] = "lobby" => down'[p][1].type = "START"
        <4> SUFFICES ASSUME pc[p] = "lobby" PROVE down'[p][1].type = "START"
          OBVIOUS
        <4>1. down[p] # <<>> /\ down[p][1].type = "START"
          BY <2>1, <2>3 DEF Outside
        <4>2. Len(down[p]) >= 1
          BY <1>0, <1>1, <4>1, ConsoleTypes, SeqHead
        <4> QED BY <1>6, <2>3, <4>1, <4>2
      <3> QED BY <1>2, <2>1, <2>2, <2>3, <3>1, <3>2 DEF Outside
    <2>4. CASE ~(started /\ link[p])
      BY <1>2, <1>5, <2>1, <2>2, <2>4 DEF Outside
    <2> QED BY <2>3, <2>4
  <1>13. Paced(a, p)' /\ Paced(p, a)'
    <2>1. Paced(a, p) /\ Paced(p, a)
      BY <1>1 DEF IInv, p
    <2>2. \A j \in 1..Len(up'[a]) : up'[a][j].cap <= L(a) + Delay
      BY <1>8, <2>1 DEF Paced
    <2>3. Paced(a, p)'
      BY <1>1, <1>2, <1>5, <1>7, <2>1, <2>2 DEF Paced
    <2>4. \A i \in 1..Len(down'[p]) :
            down'[p][i].type # "PEER_LEFT" => down'[p][i].cap <= L(a) + Delay
      <3>1. CASE started /\ link[p]
        <4> SUFFICES ASSUME NEW i \in 1..Len(down'[p]), down'[p][i].type # "PEER_LEFT"
                     PROVE  down'[p][i].cap <= L(a) + Delay
          OBVIOUS
        <4>1. i \in 1..Len(down[p]) \/ i = Len(down[p]) + 1
          BY <1>6, <3>1
        <4> QED BY <1>6, <1>9, <2>1, <3>1, <4>1 DEF Paced
      <3>2. CASE ~(started /\ link[p])
        BY <1>5, <2>1, <3>2 DEF Paced
      <3> QED BY <3>1, <3>2
    <2>5. Paced(p, a)'
      BY <1>1, <1>2, <1>3, <1>7, <2>1, <2>4 DEF Paced
    <2> QED BY <2>3, <2>5
  <1>14. InFlight(a, p)'
    <2>1. InFlight(a, p)
      BY DEF IInv, p
    <2> QED BY <1>1, <1>2, <1>3, <1>5, <1>7, <2>1
            DEF InFlight, DownCaps, UpCaps, NextCap
  <1>15. InFlight(p, a)'
    <2>1. InFlight(p, a) /\ seen[p] \in Int
      BY <1>0, <1>1, ConsoleTypes DEF IInv
    <2>2. CASE ~(started /\ link[p])
      BY <1>1, <1>2, <1>5, <1>7, <2>1, <2>2 DEF InFlight, DownCaps, UpCaps, NextCap
    <2>3. CASE ~Receiving(p)
      BY <1>1, <1>7, <2>3 DEF InFlight, DownCaps, UpCaps, NextCap
    <2>4. CASE started /\ link[p] /\ Receiving(p)
      <3>1. Len(down[p]) \in Nat /\ Len(down'[p]) = Len(down[p]) + 1
        BY <1>6, <2>4
      <3>2. \A j \in 1..Len(up[a]) : up[a][j].cap = seen[p] + Len(down[p]) + j
        BY <2>1, <2>4 DEF InFlight, UpCaps
      <3>3. DownCaps(p)'
        <4> SUFFICES ASSUME NEW i \in 1..Len(down'[p]), down'[p][i].type # "PEER_LEFT"
                     PROVE  down'[p][i].cap = seen[p] + i
          BY <1>2 DEF DownCaps
        <4>1. i \in 1..Len(down[p]) \/ i = Len(down[p]) + 1
          BY <1>6, <2>4
        <4>2. CASE i \in 1..Len(down[p])
          BY <1>6, <2>1, <2>4, <4>2 DEF InFlight, DownCaps
        <4>3. CASE i = Len(down[p]) + 1
          <5>1. up[a][1].cap = seen[p] + Len(down[p]) + 1
            BY <1>9, <3>2
          <5>2. seen[p] + Len(down[p]) + 1 = seen[p] + (Len(down[p]) + 1)
            BY <2>1, <3>1
          <5> QED BY <1>6, <2>4, <4>3, <5>1, <5>2
        <4> QED BY <4>1, <4>2, <4>3
      <3>4. UpCaps(p, a)'
        <4> SUFFICES ASSUME NEW j \in 1..Len(up'[a])
                     PROVE  up'[a][j].cap = seen[p] + Len(down'[p]) + j
          BY <1>2 DEF UpCaps
        <4>1. up'[a][j].cap = seen[p] + Len(down[p]) + (j + 1)
          BY <1>8, <3>2
        <4>2. j \in Int
          BY <1>4
        <4> DEFINE x == seen[p]
                   y == Len(down[p])
        <4>3. x \in Int /\ y \in Int /\ up'[a][j].cap = x + y + (j + 1)
              /\ Len(down'[p]) = y + 1
          BY <2>1, <3>1, <4>1
        <4> HIDE DEF x, y
        <4>4. x + y + (j + 1) = x + (y + 1) + j
          BY <4>2, <4>3
        <4>5. up'[a][j].cap = x + Len(down'[p]) + j
          BY <4>3, <4>4
        <4> QED BY <4>5 DEF x
      <3>5. NextCap(p, a)'
        <4>2. seen[p] + Len(down[p]) + Len(up[a]) + 1
                = seen[p] + Len(down'[p]) + Len(up'[a]) + 1
          <5> DEFINE x == seen[p]
                     y == Len(down[p])
                     z == Len(up[a])
          <5>1. x \in Int /\ y \in Int /\ z \in Int
                /\ Len(down'[p]) = y + 1 /\ Len(up'[a]) = z - 1
            BY <1>4, <2>1, <3>1
          <5> HIDE DEF x, y, z
          <5>2. x + y + z + 1 = x + (y + 1) + (z - 1) + 1
            BY <5>1
          <5>3. x + y + z + 1 = x + Len(down'[p]) + Len(up'[a]) + 1
            BY <5>1, <5>2
          <5> QED BY <5>3 DEF x, y, z
        <4> QED BY <1>1, <1>2, <1>7, <2>1, <2>4, <4>2 DEF InFlight, NextCap
      <3> QED BY <3>3, <3>4, <3>5 DEF InFlight
    <2> QED BY <2>2, <2>3, <2>4
  <1>16. ASSUME NEW c \in Seats PROVE Ticks(c)'
    BY <1>2 DEF IInv, Ticks, L, Active
  <1>17. ASSUME NEW c \in Seats PROVE Rings(c, Other(c))'
    BY <1>2 DEF IInv, Rings, L, Active, Captured
  <1>18. ASSUME NEW c \in Seats PROVE Logged(c)'
    BY <1>2 DEF IInv, Logged, L
  <1>19. \A c \in Seats : /\ InFlight(c, Other(c))' /\ DownShape(c)' /\ UpShape(c)'
                          /\ Outside(c)' /\ Paced(c, Other(c))'
    BY <1>1, <1>10, <1>11, <1>12, <1>13, <1>14, <1>15 DEF p
  <1> QED BY <1>16, <1>17, <1>18, <1>19 DEF IInv

\* The relay's goodbye closes the stream of frames a console is to read.
LEMMA ServerDropStep ==
  ASSUME IInv, TypeOK', NEW a \in Seats, ServerDrop(a)
  PROVE  IInv'
  <1> DEFINE p == Other(a)
  <1>0. TypeOK
    BY DEF IInv
  <1>1. p \in Seats /\ p # a /\ Other(p) = a /\ \A c \in Seats : c = a \/ c = p
    BY OtherSeat
  <1>2. /\ UNCHANGED <<pc, tick, wm, ring, dropped, up, link, log, seen>>
        /\ started /\ started' = FALSE
    BY DEF ServerDrop, console, history
  <1>3. /\ down'[a] = down[a]
        /\ \/ down'[p] = Append(down[p], LeftFrame)
           \/ down'[p] = down[p]
    BY <1>0, <1>1 DEF ServerDrop, TypeOK
  <1> HIDE DEF p
  <1>4. /\ Len(down[p]) \in Nat
        /\ \/ /\ Len(down'[p]) = Len(down[p]) + 1
              /\ \A i \in 1..Len(down[p]) : down'[p][i] = down[p][i]
              /\ down'[p][Len(down[p]) + 1] = LeftFrame
           \/ down'[p] = down[p]
    BY SMTT(30), <1>0, <1>1, <1>3, FrameTypes, ConsoleTypes, SeqAppend
  <1>5. LeftFrame.type = "PEER_LEFT"
    BY DEF LeftFrame
  <1>6. ASSUME NEW i \in 1..Len(down'[p])
        PROVE  \/ i \in 1..Len(down[p]) /\ down'[p][i] = down[p][i]
               \/ i = Len(down'[p]) /\ down'[p][i] = LeftFrame
    BY <1>4
  <1>7. ASSUME NEW c \in Seats, NEW i \in 1..Len(down[c])
        PROVE  down[c][i].type # "PEER_LEFT"
    BY <1>2 DEF IInv, DownShape
  <1>8. ASSUME NEW c \in Seats PROVE DownShape(c)' /\ UpShape(c)'
    <2>1. UpShape(c)'
      BY <1>2 DEF IInv, UpShape
    <2>2. DownShape(c)
      BY DEF IInv
    <2>3. CASE c = a
      BY <1>2, <1>3, <1>7, <2>1, <2>2, <2>3 DEF DownShape
    <2>4. CASE c = p
      <3> SUFFICES ASSUME NEW i \in 1..Len(down'[p])
                   PROVE  /\ down'[p][i].type = "PEER_LEFT" => i = Len(down'[p])
                          /\ down'[p][i].type = "START" => (i = 1 /\ pc[p] \in {"lobby", "off"})
                          /\ down'[p][i].type = "INPUT" => down'[p][i].tick = ToWord(down'[p][i].cap)
        BY <1>2, <2>1, <2>4 DEF DownShape
      <3>1. CASE i \in 1..Len(down[p]) /\ down'[p][i] = down[p][i]
        BY <1>1, <1>7, <2>2, <2>4, <3>1 DEF DownShape
      <3>2. CASE i = Len(down'[p]) /\ down'[p][i] = LeftFrame
        BY <1>5, <3>2
      <3> QED BY <1>6, <3>1, <3>2
    <2> QED BY <1>1, <2>3, <2>4
  <1>9. ASSUME NEW c \in Seats PROVE Outside(c)'
    <2>1. Outside(c)
      BY DEF IInv
    <2>2. CASE c = a
      BY <1>2, <1>3, <2>1, <2>2 DEF Outside
    <2>3. CASE c = p
      <3>1. pc[p] = "lobby" /\ down[p] # <<>> => down'[p] # <<>> /\ down'[p][1] = down[p][1]
        <4> SUFFICES ASSUME down[p] # <<>> PROVE down'[p] # <<>> /\ down'[p][1] = down[p][1]
          OBVIOUS
        <4>1. Len(down[p]) >= 1
          BY <1>0, <1>1, ConsoleTypes, SeqHead
        <4>2. 1 \in 1..Len(down[p])
          BY <1>4, <4>1
        <4>3. Len(down'[p]) # 0 /\ down'[p][1] = down[p][1]
          BY <1>4, <4>1, <4>2
        <4> QED BY <4>3
      <3>2. CASE pc[p] = "lobby"
        <4>1. link[p] => down[p] # <<>>
          BY <2>1, <2>3, <3>2 DEF Outside
        <4>2. down[p] = <<>> => down'[p] = <<>>
          <5> SUFFICES ASSUME down[p] = <<>> PROVE down'[p] = <<>>
            OBVIOUS
          <5>1. ~link[p]
            BY <4>1
          <5>2. down' = down
            BY <5>1 DEF ServerDrop, p
          <5> QED BY <5>2
        <4> QED BY <1>2, <2>1, <2>3, <3>1, <3>2, <4>1, <4>2 DEF Outside
      <3>3. CASE pc[p] # "lobby"
        BY <1>2, <2>1, <2>3, <3>3 DEF Outside
      <3> QED BY <3>2, <3>3
    <2> QED BY <1>1, <2>2, <2>3
  <1>10. ASSUME NEW c \in Seats PROVE Paced(c, Other(c))'
    <2>1. Paced(c, Other(c)) /\ L(c)' = L(c) /\ L(Other(c))' = L(Other(c))
      BY <1>2 DEF IInv, L
    <2>2. CASE c = a
      BY <1>2, <1>3, <2>1, <2>2 DEF Paced
    <2>3. CASE c = p
      <3>1. \A i \in 1..Len(down'[p]) :
              down'[p][i].type # "PEER_LEFT" => down'[p][i].cap <= L(Other(p)) + Delay
        BY <1>5, <1>6, <2>1, <2>3 DEF Paced
      <3> QED BY <1>2, <2>1, <2>3, <3>1 DEF Paced
    <2> QED BY <1>1, <2>2, <2>3
  <1>11. ASSUME NEW c \in Seats PROVE InFlight(c, Other(c))'
    <2>1. DownCaps(c)
      BY DEF IInv, InFlight
    <2>2. Receiving(c)' = Receiving(c)
      BY <1>2 DEF Receiving
    <2>3. DownCaps(c)'
      <3>1. CASE c = a
        BY <1>2, <1>3, <2>1, <2>2, <3>1 DEF DownCaps
      <3>2. CASE c = p
        BY <1>2, <1>5, <1>6, <2>1, <2>2, <3>2 DEF DownCaps
      <3> QED BY <1>1, <3>1, <3>2
    <2> QED BY <1>2, <2>3 DEF InFlight, UpCaps, NextCap
  <1>12. ASSUME NEW c \in Seats PROVE Ticks(c)'
    BY <1>2 DEF IInv, Ticks, L, Active
  <1>13. ASSUME NEW c \in Seats PROVE Rings(c, Other(c))'
    BY <1>2 DEF IInv, Rings, L, Active, Captured
  <1>14. ASSUME NEW c \in Seats PROVE Logged(c)'
    BY <1>2 DEF IInv, Logged, L
  <1> QED BY <1>8, <1>9, <1>10, <1>11, <1>12, <1>13, <1>14 DEF IInv

\* Losing the last bytes of a broken connection leaves a prefix of what was
\* on its way.
LEMMA LoseStep ==
  ASSUME IInv, TypeOK', NEW a \in Seats, LoseTail(a)
  PROVE  IInv'
  <1>0. TypeOK
    BY DEF IInv
  <1>1. /\ UNCHANGED <<pc, tick, wm, ring, dropped, link, started, log, seen>>
        /\ ~link[a]
        /\ \A c \in Seats : c # a => up'[c] = up[c] /\ down'[c] = down[c]
    BY <1>0 DEF LoseTail, TypeOK, console, history
  <1>2. \/ up'[a] = up[a]
        \/ /\ Len(up[a]) \in Nat /\ Len(up'[a]) = Len(up[a]) - 1
           /\ \A i \in 1..(Len(up[a]) - 1) : up'[a][i] = up[a][i]
    <2>1. CASE up[a] # <<>> /\ up'[a] = SubSeq(up[a], 1, Len(up[a]) - 1)
      BY <1>0, <2>1, ConsoleTypes, SeqFront
    <2>2. CASE up'[a] = up[a]
      BY <2>2
    <2> QED BY <1>0, <2>1, <2>2 DEF LoseTail, TypeOK
  <1>3. \/ down'[a] = down[a]
        \/ /\ down[a] # <<>> /\ Len(down[a]) \in Nat /\ Len(down'[a]) = Len(down[a]) - 1
           /\ \A i \in 1..(Len(down[a]) - 1) : down'[a][i] = down[a][i]
    <2>1. CASE down[a] # <<>> /\ down'[a] = SubSeq(down[a], 1, Len(down[a]) - 1)
      BY <1>0, <2>1, ConsoleTypes, SeqFront
    <2>2. CASE down'[a] = down[a]
      BY <2>2
    <2> QED BY <1>0, <2>1, <2>2 DEF LoseTail, TypeOK
  <1>4. ASSUME NEW j \in 1..Len(up'[a])
        PROVE  j \in 1..Len(up[a]) /\ up'[a][j] = up[a][j]
    BY <1>2
  <1>5. ASSUME NEW i \in 1..Len(down'[a])
        PROVE  i \in 1..Len(down[a]) /\ down'[a][i] = down[a][i]
               /\ (i = Len(down[a]) => i = Len(down'[a]))
    BY <1>3
  <1>6. ASSUME NEW c \in Seats PROVE DownShape(c)' /\ UpShape(c)'
    <2>1. DownShape(c) /\ UpShape(c)
      BY DEF IInv
    <2>2. CASE c # a
      BY <1>1, <2>1, <2>2 DEF DownShape, UpShape
    <2>3. CASE c = a
      <3>1. UpShape(a)'
        BY <1>4, <2>1, <2>3 DEF UpShape
      <3>2. DownShape(a)'
        BY <1>1, <1>5, <2>1, <2>3 DEF DownShape
      <3> QED BY <2>3, <3>1, <3>2
    <2> QED BY <2>2, <2>3
  <1>7. ASSUME NEW c \in Seats PROVE Outside(c)'
    <2>1. Outside(c)
      BY DEF IInv
    <2>2. CASE c # a \/ down'[a] = down[a]
      BY <1>1, <2>1, <2>2 DEF Outside
    <2>3. CASE c = a /\ down'[a] # down[a]
      <3>1. down[a] # <<>>
        BY <1>3, <2>3
      <3>2. down'[a] # <<>> => down'[a][1] = down[a][1]
        <4> SUFFICES ASSUME down'[a] # <<>> PROVE down'[a][1] = down[a][1]
          OBVIOUS
        <4>1. down'[a] \in Seq(Frames)
          BY DEF TypeOK
        <4>2. 1 \in 1..Len(down'[a])
          BY <4>1, SeqHead
        <4> QED BY <1>5, <4>2
      <3> QED BY <1>1, <2>1, <2>3, <3>1, <3>2 DEF Outside
    <2> QED BY <2>2, <2>3
  <1>8. ASSUME NEW c \in Seats PROVE Paced(c, Other(c))'
    <2>1. Paced(c, Other(c)) /\ L(c)' = L(c) /\ L(Other(c))' = L(Other(c))
      BY <1>1 DEF IInv, L
    <2>2. CASE c # a
      BY <1>1, <2>1, <2>2 DEF Paced
    <2>3. CASE c = a
      BY <1>1, <1>4, <1>5, <2>1, <2>3 DEF Paced
    <2> QED BY <2>2, <2>3
  <1>9. ASSUME NEW c \in Seats PROVE InFlight(c, Other(c))'
    <2> DEFINE o == Other(c)
    <2>1. o \in Seats /\ o # c /\ (c = a \/ o = a) /\ InFlight(c, o)
      BY OtherSeat DEF IInv
    <2> HIDE DEF o
    <2>2. Receiving(c)' = Receiving(c)
      BY <1>1 DEF Receiving
    <2>3. CASE c = a
      <3>1. DownCaps(a)'
        BY <1>1, <1>5, <2>1, <2>2, <2>3 DEF InFlight, DownCaps
      <3> QED BY <1>1, <2>3, <3>1 DEF InFlight, UpCaps, NextCap, o
    <2>4. CASE c # a
      <3>1. o = a /\ DownCaps(c)'
        BY <1>1, <2>1, <2>2, <2>4 DEF InFlight, DownCaps
      <3>2. UpCaps(c, a)'
        BY <1>1, <1>4, <2>1, <2>2, <2>4, <3>1 DEF InFlight, UpCaps
      <3>3. NextCap(c, a)'
        BY <1>1 DEF NextCap
      <3> QED BY <3>1, <3>2, <3>3 DEF InFlight, o
    <2> QED BY <2>3, <2>4
  <1>10. ASSUME NEW c \in Seats PROVE Ticks(c)'
    BY <1>1 DEF IInv, Ticks, L, Active
  <1>11. ASSUME NEW c \in Seats PROVE Rings(c, Other(c))'
    BY <1>1 DEF IInv, Rings, L, Active, Captured
  <1>12. ASSUME NEW c \in Seats PROVE Logged(c)'
    BY <1>1 DEF IInv, Logged, L
  <1> QED BY <1>6, <1>7, <1>8, <1>9, <1>10, <1>11, <1>12 DEF IInv

LEMMA InvInit == Init => IInv
  <1> SUFFICES ASSUME Init PROVE IInv
    OBVIOUS
  <1>1. TypeOK
    BY TypeInit
  <1> SUFFICES ASSUME NEW c \in Seats
               PROVE  /\ InFlight(c, Other(c))
                      /\ DownShape(c) /\ UpShape(c) /\ Outside(c)
                      /\ Paced(c, Other(c)) /\ Ticks(c)
                      /\ Rings(c, Other(c)) /\ Logged(c)
    BY <1>1 DEF IInv
  <1>2. Other(c) \in Seats
    BY OtherSeat
  <1>3. \A s \in Seats : /\ pc[s] = "lobby" /\ log[s] = <<>> /\ up[s] = <<>>
                         /\ down[s] = <<StartFrame>> /\ seen[s] = Delay - 2
                         /\ ~dropped[s] /\ L(s) = 0 /\ Len(up[s]) = 0
                         /\ Len(down[s]) = 1 /\ down[s][1] = StartFrame
    BY DEF Init, L
  <1>4. StartFrame.type = "START" /\ StartFrame.cap = Delay - 1
    BY DEF StartFrame
  <1>5. Delay - 2 + 1 = Delay - 1 /\ Delay - 1 <= 0 + Delay /\ Delay - 2 <= 0 + Delay
        /\ 0 <= Delay - 2 + 1 /\ 0 + Delay + 0 = Delay - 2 + 1 + 0 + 1
    BY Constants
  <1>6. InFlight(c, Other(c))
    <2>1. Captured(Other(c)) = 0
      BY <1>2, <1>3 DEF Captured
    <2>2. DownCaps(c)
      BY <1>3, <1>4, <1>5 DEF DownCaps
    <2>3. UpCaps(c, Other(c))
      BY <1>2, <1>3 DEF UpCaps
    <2>4. NextCap(c, Other(c))
      BY <1>2, <1>3, <1>5, <2>1 DEF NextCap
    <2> QED BY <2>2, <2>3, <2>4 DEF InFlight
  <1>7. DownShape(c) /\ UpShape(c)
    BY <1>3, <1>4 DEF DownShape, UpShape
  <1>8. Outside(c)
    BY <1>3, <1>4 DEF Outside
  <1>9. Paced(c, Other(c))
    BY <1>2, <1>3, <1>4, <1>5 DEF Paced
  <1>10. Ticks(c) /\ Rings(c, Other(c)) /\ Logged(c)
    BY <1>3 DEF Ticks, Rings, Logged, Active
  <1> QED BY <1>6, <1>7, <1>8, <1>9, <1>10

LEMMA InvStep == IInv /\ [Next]_vars => IInv'
  <1> SUFFICES ASSUME IInv, [Next]_vars PROVE IInv'
    OBVIOUS
  <1>1. TypeOK /\ TypeOK'
    BY TypeStep DEF IInv
  <1>2. ASSUME NEW c \in Seats, Console(c) PROVE IInv'
    BY <1>1, <1>2, StartStep, InputStep, PeerLeftStep, QuietActions, QuietStep,
       CaptureStep, RoundStep, RunStep
    DEF Console
  <1>3. ASSUME NEW c \in Seats, Server(c) PROVE IInv'
    BY <1>1, <1>3, RelayStep, ServerDropStep DEF Server
  <1>4. ASSUME NEW c \in Seats, Fault(c) PROVE IInv'
    BY <1>1, <1>4, QuietActions, QuietStep, LoseStep DEF Fault
  <1>5. CASE UNCHANGED vars
    <2>1. QuietMove(0) /\ 0 \in Seats
      BY <1>5 DEF QuietMove, vars, console, net, history, Seats
    <2> QED BY <1>1, <2>1, QuietStep
  <1> QED BY <1>2, <1>3, <1>4, <1>5 DEF Next

\* The strengthening is an invariant of the engine.
THEOREM Invariant == Spec => []IInv
  BY InvInit, InvStep, PTL DEF Spec

-----------------------------------------------------------------------------
(* What the invariant says of a match.                                     *)

(***************************************************************************)
(* Two consoles never run the same tick with different inputs, however     *)
(* long the match, whatever the delay and wherever the tick words wrap.    *)
(***************************************************************************)
THEOREM Agreement == Spec => []InputAgreement
  <1>1. IInv => InputAgreement
    <2> SUFFICES ASSUME IInv, NEW n \in 1..MaxTicks, n <= Len(log[0]), n <= Len(log[1])
                 PROVE  log[0][n] = log[1][n]
      BY DEF InputAgreement
    <2>1. Logged(0) /\ Logged(1) /\ L(0) \in Nat /\ L(1) \in Nat
      BY ConsoleTypes DEF IInv, Seats, L
    <2>2. n \in 1..L(0) /\ n \in 1..L(1)
      BY <2>1, Constants DEF L
    <2> QED BY <2>1, <2>2 DEF Logged
  <1> QED BY <1>1, Invariant, PTL

(***************************************************************************)
(* Every tick is run with the captures made for it: no ring cell is read   *)
(* before it is written or overwritten before it is read.                  *)
(***************************************************************************)
THEOREM CapturesReplayed == Spec => []RightInputs
  <1>1. IInv => RightInputs
    <2> SUFFICES ASSUME IInv, NEW c \in Seats, NEW n \in 1..Len(log[c]), NEW s \in Seats
                 PROVE  /\ log[c][n].cur[s] = Expected(n - 1)
                        /\ log[c][n].prev[s] = Expected(n - 2)
      BY DEF RightInputs
    <2>1. Logged(c)
      BY DEF IInv
    <2>2. log[c][n] = [cur  |-> [t \in Seats |-> Expected(n - 1)],
                       prev |-> [t \in Seats |-> Expected(n - 2)]]
      BY <2>1 DEF Logged, L
    <2> QED BY <2>2
  <1> QED BY <1>1, Invariant, PTL

(***************************************************************************)
(* A console is never more than d + 1 ticks past the other one.            *)
(***************************************************************************)
THEOREM DriftBound == Spec => []BoundedDrift
  <1>1. IInv => BoundedDrift
    <2> SUFFICES ASSUME IInv, NEW c \in Seats
                 PROVE  Len(log[c]) <= Len(log[Other(c)]) + Delay + 1
      BY DEF BoundedDrift
    <2>1. Other(c) \in Seats /\ Paced(c, Other(c))
      BY OtherSeat DEF IInv
    <2>2. L(c) \in Nat /\ L(Other(c)) \in Nat /\ seen[c] \in Int
      BY <2>1, ConsoleTypes DEF L, IInv
    <2>3. L(c) <= L(Other(c)) + Delay + 1
      BY <2>1, <2>2, Constants DEF Paced
    <2> QED BY <2>3 DEF L
  <1> QED BY <1>1, Invariant, PTL

\* A console that waits at a shut gate has run past all it has seen.
LEMMA ShutGate ==
  ASSUME IInv, NEW c \in Seats, Starved(c)
  PROVE  seen[c] < L(c) /\ Captured(c) = 1 /\ Receiving(c) /\ ~dropped[c]
  <1>1. Active(c) /\ Captured(c) = 1 /\ Receiving(c) /\ ~dropped[c] /\ ~GateOpen(c)
    BY DEF Starved, Active, Captured, Receiving
  <1>2. /\ L(c) \in Nat /\ seen[c] \in Int /\ L(c) - 1 <= seen[c]
        /\ seen[c] <= L(c) + 2 * Delay + 1
    BY Window
  <1>3. tick[c] = ToWord(L(c)) /\ wm[c] = ToWord(seen[c])
    BY <1>1 DEF IInv, Ticks
  <1>4. seen[c] - L(c) < RingSize /\ L(c) - seen[c] < RingSize
    BY <1>2, Constants, Sizes
  <1>5. ~(L(c) <= seen[c])
    BY <1>1, <1>2, <1>3, <1>4, NotBehindOrder DEF GateOpen
  <1> QED BY <1>1, <1>2, <1>5

(***************************************************************************)
(* Nobody waits on everybody: with nothing on its way, each console has    *)
(* seen all the other has captured, which is d ticks ahead of the other's  *)
(* tick; two shut gates would put each console behind the other.           *)
(***************************************************************************)
THEOREM NeverBothStalled == Spec => []NoMutualStall
  <1>1. IInv => NoMutualStall
    <2> SUFFICES ASSUME IInv, started, \A c \in Seats : link[c] /\ Starved(c),
                        \A c \in Seats : up[c] = <<>> /\ down[c] = <<>>
                 PROVE  FALSE
      BY DEF NoMutualStall
    <2>1. ASSUME NEW c \in Seats
          PROVE  L(Other(c)) \in Nat /\ L(c) \in Nat /\ L(Other(c)) + Delay < L(c)
      <3> DEFINE o == Other(c)
      <3>1. o \in Seats
        BY OtherSeat
      <3>2. /\ seen[c] < L(c) /\ Receiving(c) /\ Captured(o) = 1 /\ ~dropped[o]
            /\ pc[o] \in {"gate", "stall"}
        BY <3>1, ShutGate DEF Starved
      <3>3. Len(down[c]) = 0 /\ Len(up[o]) = 0
        BY <3>1
      <3>4. NextCap(c, o)
        BY DEF IInv, InFlight
      <3>5. L(o) + Delay + Captured(o) = seen[c] + Len(down[c]) + Len(up[o]) + 1
        BY <3>1, <3>2, <3>4 DEF NextCap
      <3>6. L(c) \in Nat /\ L(o) \in Nat /\ seen[c] \in Int
        BY <3>1, ConsoleTypes DEF L, IInv
      <3> HIDE DEF o
      <3>7. L(o) + Delay < L(c)
        BY <3>2, <3>3, <3>5, <3>6, Constants
      <3> QED BY <3>6, <3>7 DEF o
    <2>2. 0 \in Seats /\ 1 \in Seats /\ Other(0) = 1 /\ Other(1) = 0
      BY DEF Seats, Other
    <2>3. /\ L(0) \in Nat /\ L(1) \in Nat /\ L(1) + Delay < L(0) /\ L(0) + Delay < L(1)
      BY <2>1, <2>2
    <2> QED BY <2>3, Constants
  <1> QED BY <1>1, Invariant, PTL

\* A tick run in the match is a step of the shared match.
LEMMA RunAdvances ==
  ASSUME IInv, NEW a \in Seats, RunTick(a), ~dropped[a]
  PROVE  Match!Advance(a)
  <1> DEFINE o == Other(a)
             n == Len(log[a]) + 1
  <1>0. TypeOK
    BY DEF IInv
  <1>1. o \in Seats /\ Match!Peer(a) = o /\ Paced(a, o) /\ Logged(o)
    BY OtherSeat DEF IInv, Match!Peer, Other
  <1>2. /\ L(a) <= seen[a] /\ Replayed(a) \in Entry
        /\ Replayed(a) = [cur  |-> [s \in Seats |-> Expected(L(a))],
                          prev |-> [s \in Seats |-> Expected(L(a) - 1)]]
    BY Ran
  <1>3. log' = [log EXCEPT ![a] = Append(log[a], Replayed(a))]
    BY DEF RunTick
  <1>4. /\ Len(log[a]) \in Nat /\ Len(log[o]) \in Nat /\ seen[a] \in Int
        /\ log'[a] = Append(log[a], Replayed(a))
    BY <1>0, <1>1, <1>3, ConsoleTypes DEF TypeOK
  <1>5. Len(log'[a]) = n /\ log'[a][n] = Replayed(a)
    BY <1>0, <1>2, <1>4, ConsoleTypes, SeqAppend
  <1>6. n <= Len(log[o]) + (Delay + 1)
    <2>1. L(a) <= seen[a] /\ seen[a] <= L(o) + Delay
      BY <1>1, <1>2 DEF Paced
    <2>2. L(a) \in Nat /\ L(o) \in Nat
      BY <1>4 DEF L
    <2> HIDE DEF o
    <2>3. L(a) + 1 <= L(o) + (Delay + 1)
      BY <1>4, <2>1, <2>2, Constants
    <2> QED BY <2>3 DEF L
  <1>7. n <= Len(log[o]) => log'[a][n] = log[o][n]
    <2> SUFFICES ASSUME n <= Len(log[o]) PROVE Replayed(a) = log[o][n]
      BY <1>5
    <2>1. n \in 1..L(o) /\ n - 1 = L(a) /\ n - 2 = L(a) - 1
      BY <1>4 DEF L
    <2> QED BY <1>1, <1>2, <2>1 DEF Logged
  <1> QED BY <1>1, <1>3, <1>5, <1>6, <1>7 DEF Match!Advance

(***************************************************************************)
(* The engine implements the shared match: its frames, rings, watermarks   *)
(* and gates only ever let a console append the next tick of the one       *)
(* sequence both consoles run, at most d + 1 ticks ahead of its peer.      *)
(***************************************************************************)
THEOREM Refinement == Spec => ImplementsSharedMatch
  <1>1. Init => Match!Init
    BY DEF Init, Match!Init, Match!Players, Seats
  <1>2. IInv /\ [Next]_vars => [Match!Next]_log
    <2> SUFFICES ASSUME IInv, [Next]_vars, log' # log PROVE Match!Next
      OBVIOUS
    <2>1. PICK a \in Seats : RunTick(a) /\ ~dropped[a]
      BY DEF Next, Console, Server, Fault, OnStart, OnInput, OnPeerLeft, HoldDone,
             EnterPass, Capture, Stall, Round, RunTick, Relay, ServerDrop,
             Disconnect, LoseTail, PowerOff, vars, history
    <2>2. Match!Advance(a)
      BY <2>1, RunAdvances
    <2> QED BY <2>2 DEF Match!Next, Match!Players, Seats
  <1> QED BY <1>1, <1>2, Invariant, PTL DEF Spec, ImplementsSharedMatch, Match!Spec

=============================================================================
