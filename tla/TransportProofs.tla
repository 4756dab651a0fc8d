-------------------------- MODULE TransportProofs ---------------------------
(***************************************************************************)
(* What a console's receive and send path promises, for every size of the  *)
(* ring, of a read and of a frame, every stream of frames and any number   *)
(* of faults and resets.                                                   *)
(*                                                                         *)
(* The ring: SES_PUMP never writes over unread bytes, because it parses    *)
(* until what is left is less than a frame, so that a read has room.  This *)
(* holds whatever the mailbox delivers.                                    *)
(*                                                                         *)
(* A clean session, one in which no transaction was abandoned: the console *)
(* and the peripheral are in step, so that each answer is the answer to    *)
(* its request; and what was sent and not yet handed over, in the ring, in *)
(* FN_RX, at the peripheral and in the network, is a tiling by whole       *)
(* frames.                                                                 *)
(***************************************************************************)
EXTENDS Transport, TLAPS, SequenceTheorems

\* The request cells and the peripheral's copy of them.
RequestsSound ==
  /\ req.cmd = "READ" => req.arg <= ReadMax
  /\ job.cmd = "READ" => job.arg <= ReadMax
  /\ written <= writes
  /\ pc \in {"stage", "poll"} /\ req.cmd = "WRITE" => written < writes

\* Outside the parser less than a frame is left in the ring.
RoomLeft ==
  /\ Len(unread) <= MaxLen + ReadMax
  /\ pc # "parse" => Len(unread) <= MaxLen

PathInv == TypeOK /\ RequestsSound /\ RoomLeft /\ RingHolds

-----------------------------------------------------------------------------
\* Console and peripheral are in step.
InStep ==
  /\ pc # "poll" => ackseq = fnseq
  /\ job # NoJob => /\ ackseq # fnseq
                    /\ job = [cmd |-> req.cmd, arg |-> req.arg, seq |-> fnseq]

\* The answer is there and has not been looked at.
Delivered(cmd) == pc = "poll" /\ ackseq = fnseq /\ acked /\ req.cmd = cmd

\* This session's connection to the server is open.
Connected ==
  \/ pc \in {"idle", "parse"}
  \/ pc \in {"stage", "poll"} /\ req.cmd # "OPEN"
  \/ Delivered("OPEN")

InMailbox == IF Delivered("READ") THEN SubSeq(rx, 1, rxlen) ELSE <<>>

\* All that the server has sent and the parser has not handed over.
Outstanding == unread \o (InMailbox \o (fifo \o net))

\* s is made of the frames from the first to the last, and cut says where
\* each of them ends.
TiledBy(s, first, last, cut) ==
  /\ cut[first] = 0 /\ cut[last] = Len(s)
  /\ \A i, j \in first..last : i <= j => cut[i] <= cut[j]
  /\ \A j \in first..(last - 1) :
       /\ cut[j + 1] = cut[j] + Len(Script[j + 1])
       /\ \A i \in 1..Len(Script[j + 1]) : s[cut[j] + i] = Script[j + 1][i]
Tiled(s, first, last) ==
  first <= last /\ \E cut \in [first..last -> 0..Len(s)] : TiledBy(s, first, last, cut)

Unserved == pc \in {"stage", "poll"} /\ req.cmd = "WRITE" /\ ~(pc = "poll" /\ ackseq = fnseq)

WritesSound ==
  /\ \A i \in 1..Len(up) : up[i] <= writes
  /\ \A i, j \in 1..Len(up) : i < j => up[i] < up[j]
  /\ written <= Len(up)
  /\ Unserved => req.arg = writes /\ \A i \in 1..Len(up) : up[i] < writes
  /\ Delivered("WRITE") => written < Len(up)

Fresh == seen = 0 /\ unread = <<>> /\ writes = 0 /\ written = 0 /\ up = <<>>

CleanInv ==
  clean => /\ InStep /\ ~garbled
           /\ Connected => Tiled(Outstanding, seen, sent) /\ WritesSound
           /\ ~Connected => Fresh

-----------------------------------------------------------------------------
(* Facts about the constants, remainders and sequences.                    *)

LEMMA Constants ==
  /\ ByteSize \in Nat /\ ByteSize > 2 /\ RingSize \in Nat /\ ReadMax \in Nat
  /\ MaxLen \in Nat /\ RxSize \in Nat /\ 4 <= ReadMax /\ ReadMax <= RxSize
  /\ MaxLen >= 1 /\ MaxLen + ReadMax < RingSize /\ RingSize > 0
  /\ Lens \in [Byte -> SUBSET (1..MaxLen)] /\ Script \in Seq(Seq(Byte))
  /\ MaxWrites \in Nat /\ MaxFaults \in Nat /\ MaxResets \in Nat
  BY TransportAssumption

LEMMA ByteConstants == 0 \in Byte /\ 1 \in Byte
  BY Constants DEF Byte

LEMMA ScriptFrame ==
  ASSUME NEW i \in 1..Len(Script)
  PROVE  /\ Script[i] \in Seq(Byte) /\ Len(Script[i]) \in Nat
         /\ Len(Script[i]) >= 2 /\ Script[i][1] \in Lens[Script[i][2]]
         /\ Len(Script[i]) = Script[i][1] + 1
  <1>1. Script[i] \in Seq(Byte)
    BY Constants, ElementOfSeq
  <1> QED BY <1>1, LenProperties, TransportAssumption

\* A remainder, for numbers of at most one turn too many or too few.
LEMMA ModCases ==
  ASSUME NEW n \in Nat, n > 0, NEW x \in Int, 0 - n <= x, x < 2 * n
  PROVE  x % n = IF x < 0 THEN x + n ELSE IF x < n THEN x ELSE x - n
  OBVIOUS

\* Positions in the ring and distances between them.
LEMMA RingPlus ==
  ASSUME NEW a \in Nat, a < RingSize, NEW b \in Nat, b <= RingSize
  PROVE  (a + b) % RingSize = IF a + b < RingSize THEN a + b ELSE (a + b) - RingSize
  <1> DEFINE x == a + b
             n == RingSize
  <1>1. n \in Nat /\ n > 0 /\ x \in Int /\ 0 - n <= x /\ x < 2 * n /\ ~(x < 0)
    BY Constants
  <1> HIDE DEF x, n
  <1>2. x % n = IF x < 0 THEN x + n ELSE IF x < n THEN x ELSE x - n
    BY <1>1, ModCases
  <1>3. x % n = IF x < n THEN x ELSE x - n
    BY <1>1, <1>2
  <1> QED BY <1>3 DEF x, n

LEMMA RingMinus ==
  ASSUME NEW a \in Nat, a < RingSize, NEW b \in Nat, b < RingSize
  PROVE  (a - b) % RingSize = IF a < b THEN a - b + RingSize ELSE a - b
  <1> DEFINE x == a - b
             n == RingSize
  <1>1. n \in Nat /\ n > 0 /\ x \in Int /\ 0 - n <= x /\ x < 2 * n /\ x < n /\ (x < 0 <=> a < b)
    BY Constants
  <1> HIDE DEF x, n
  <1>2. x % n = IF x < 0 THEN x + n ELSE IF x < n THEN x ELSE x - n
    BY <1>1, ModCases
  <1>3. x % n = IF a < b THEN x + n ELSE x
    BY <1>1, <1>2
  <1> QED BY <1>3 DEF x, n

LEMMA ModRange ==
  ASSUME NEW n \in Nat, n > 0, NEW x \in Int
  PROVE  x % n \in 0..(n - 1) /\ x \div n \in Int
  OBVIOUS

LEMMA NextSeqType ==
  ASSUME NEW a \in Byte
  PROVE  NextSeq(a) \in Byte /\ NextSeq(a) # 0 /\ NextSeq(a) # a
  <1>1. a \in Int /\ 0 <= a /\ a < ByteSize /\ ByteSize \in Nat /\ ByteSize > 2
    BY Constants DEF Byte
  <1>2. (a + 1) % ByteSize = IF a + 1 < ByteSize THEN a + 1 ELSE a + 1 - ByteSize
    BY <1>1, ModCases
  <1> QED BY <1>1, <1>2 DEF NextSeq, Byte

\* A piece of a sequence, front and rest.
LEMMA Cut ==
  ASSUME NEW S, NEW q \in Seq(S), NEW n \in Nat, n <= Len(q)
  PROVE  /\ SubSeq(q, 1, n) \in Seq(S) /\ SubSeq(q, n + 1, Len(q)) \in Seq(S)
         /\ Len(SubSeq(q, 1, n)) = n /\ Len(SubSeq(q, n + 1, Len(q))) = Len(q) - n
         /\ \A i \in 1..n : SubSeq(q, 1, n)[i] = q[i]
         /\ \A i \in 1..(Len(q) - n) : SubSeq(q, n + 1, Len(q))[i] = q[n + i]
         /\ SubSeq(q, 1, n) \o SubSeq(q, n + 1, Len(q)) = q
  <1>1. Len(q) \in Nat /\ \A i \in 1..Len(q) : q[i] \in S
    BY LenProperties, ElementOfSeq
  <1> DEFINE k == Len(q)
  <1>2. k \in Nat /\ n <= k
    BY <1>1
  <1>3. (\A i \in 1..n : q[i] \in S) /\ \A i \in (n + 1)..k : q[i] \in S
    BY <1>1
  <1>4. /\ SubSeq(q, 1, n) \in Seq(S)
        /\ Len(SubSeq(q, 1, n)) = IF 1 <= n THEN n - 1 + 1 ELSE 0
        /\ \A i \in 1..(n - 1 + 1) : SubSeq(q, 1, n)[i] = q[1 + i - 1]
    BY <1>3, SubSeqProperties
  <1>5. /\ SubSeq(q, n + 1, k) \in Seq(S)
        /\ Len(SubSeq(q, n + 1, k)) = IF n + 1 <= k THEN k - (n + 1) + 1 ELSE 0
        /\ \A i \in 1..(k - (n + 1) + 1) : SubSeq(q, n + 1, k)[i] = q[(n + 1) + i - 1]
    BY <1>2, <1>3, SubSeqProperties
  <1>6. SubSeq(q, 1, n) \o SubSeq(q, n + 1, k) = q
    <2>1. 1 \in 1..(Len(q) + 1) /\ n \in (1 - 1)..Len(q) /\ Len(q) \in n..Len(q)
      BY <1>2
    <2>2. SubSeq(q, 1, n) \o SubSeq(q, n + 1, Len(q)) = SubSeq(q, 1, Len(q))
      BY <2>1, ConcatAdjacentSubSeq
    <2> QED BY <2>2, SubSeqFull
  <1> HIDE DEF k
  <1>7. Len(SubSeq(q, 1, n)) = n /\ \A i \in 1..n : SubSeq(q, 1, n)[i] = q[i]
    <2>1. n - 1 + 1 = n /\ \A i \in 1..n : 1 + i - 1 = i
      OBVIOUS
    <2>2. (~(1 <= n)) => n = 0
      OBVIOUS
    <2> QED BY <1>4, <2>1, <2>2
  <1>8. /\ Len(SubSeq(q, n + 1, k)) = k - n
        /\ \A i \in 1..(k - n) : SubSeq(q, n + 1, k)[i] = q[n + i]
    <2>1. k - (n + 1) + 1 = k - n /\ \A i \in 1..(k - n) : (n + 1) + i - 1 = n + i
      BY <1>2
    <2>2. (~(n + 1 <= k)) => k - n = 0
      BY <1>2
    <2> QED BY <1>5, <2>1, <2>2
  <1> QED BY <1>4, <1>5, <1>6, <1>7, <1>8 DEF k

\* The first cells of FN_RX.
LEMMA FirstCells ==
  ASSUME NEW r \in [1..RxSize -> Byte], NEW n \in 0..ReadMax
  PROVE  /\ n \in Nat /\ n <= ReadMax
         /\ SubSeq(r, 1, n) \in Seq(Byte) /\ Len(SubSeq(r, 1, n)) = n
         /\ \A i \in 1..n : SubSeq(r, 1, n)[i] = r[i] /\ r[i] \in Byte
  <1>1. n \in Nat /\ n <= ReadMax
    BY Constants
  <1>2. \A i \in 1..n : r[i] \in Byte
    BY <1>1, Constants
  <1>3. /\ SubSeq(r, 1, n) \in Seq(Byte)
        /\ Len(SubSeq(r, 1, n)) = IF 1 <= n THEN n - 1 + 1 ELSE 0
        /\ \A i \in 1..(n - 1 + 1) : SubSeq(r, 1, n)[i] = r[1 + i - 1]
    BY <1>1, <1>2, SubSeqProperties
  <1>5. n - 1 + 1 = n /\ (\A i \in 1..n : 1 + i - 1 = i) /\ ((~(1 <= n)) => n = 0)
    BY <1>1
  <1>6. Len(SubSeq(r, 1, n)) = n /\ \A i \in 1..n : SubSeq(r, 1, n)[i] = r[i]
    BY <1>3, <1>5
  <1> QED BY <1>1, <1>2, <1>3, <1>6

\* The answer of a read, as it is in FN_RX.
LEMMA Received ==
  ASSUME TypeOK
  PROVE  /\ rxlen \in Nat /\ rxlen <= ReadMax
         /\ SubSeq(rx, 1, rxlen) \in Seq(Byte) /\ Len(SubSeq(rx, 1, rxlen)) = rxlen
         /\ \A i \in 1..rxlen : SubSeq(rx, 1, rxlen)[i] = rx[i] /\ rx[i] \in Byte
  BY FirstCells DEF TypeOK

-----------------------------------------------------------------------------
(* The ring.                                                               *)

\* Moving the write end by n makes the distance n longer.
LEMMA RingDistance ==
  ASSUME NEW N \in Nat, NEW w \in Nat, NEW r \in Nat, w < N, r < N,
         NEW L \in Nat, NEW n \in Nat, L + n < N,
         L = (IF w < r THEN w - r + N ELSE w - r),
         NEW v \in Nat, v = (IF w + n < N THEN w + n ELSE (w + n) - N)
  PROVE  L + n = IF v < r THEN v - r + N ELSE v - r
  <1>1. CASE w < r
    <2>1. L = w - r + N
      BY <1>1
    <2>2. v = w + n /\ v < r
      BY <2>1
    <2> QED BY <2>1, <2>2
  <1>2. CASE ~(w < r)
    <2>1. L = w - r
      BY <1>2
    <2>2. CASE w + n < N
      BY <2>1, <2>2, <1>2
    <2>3. CASE ~(w + n < N)
      <3>1. v = (w + n) - N /\ v < r
        BY <2>1, <2>3
      <3> QED BY <2>1, <3>1
    <2> QED BY <2>2, <2>3
  <1> QED BY <1>1, <1>2

\* The cells of a ring, counted from either end.
LEMMA Cells ==
  ASSUME TypeOK
  PROVE  /\ wr \in Nat /\ rd \in Nat /\ wr < RingSize /\ rd < RingSize
         /\ Buffered = IF wr < rd THEN wr - rd + RingSize ELSE wr - rd
         /\ \A i \in 0..RingSize :
              At(i) = IF rd + i < RingSize THEN rd + i ELSE (rd + i) - RingSize
  <1>1. wr \in Nat /\ rd \in Nat /\ wr < RingSize /\ rd < RingSize
    BY Constants DEF TypeOK
  <1>3. (wr - rd) % RingSize = IF wr < rd THEN wr - rd + RingSize ELSE wr - rd
    BY <1>1, RingMinus
  <1>4. ASSUME NEW i \in 0..RingSize
        PROVE  (rd + i) % RingSize = IF rd + i < RingSize THEN rd + i ELSE (rd + i) - RingSize
    <2>1. i \in Nat /\ i <= RingSize
      BY Constants
    <2> QED BY <1>1, <2>1, RingPlus
  <1> QED BY <1>1, <1>3, <1>4 DEF Buffered, At

\* n bytes are taken from the ring: the others stay where they are.
LEMMA TakeFromRing ==
  ASSUME TypeOK, RingHolds, NEW n \in Nat, n <= Len(unread),
         ring' = ring, wr' = wr, rd' = At(n), unread' = SubSeq(unread, n + 1, Len(unread))
  PROVE  /\ rd' \in 0..(RingSize - 1) /\ unread' \in Seq(Byte)
         /\ Len(unread') = Len(unread) - n
         /\ RingHolds'
  <1> DEFINE L == Len(unread)
  <1>1. /\ L \in Nat /\ n <= L /\ L < RingSize /\ unread' \in Seq(Byte) /\ Len(unread') = L - n
        /\ \A i \in 1..(L - n) : unread'[i] = unread[n + i]
    BY Cut, LenProperties DEF TypeOK, RingHolds
  <1>2. /\ wr \in Nat /\ rd \in Nat /\ wr < RingSize /\ rd < RingSize
        /\ L = (IF wr < rd THEN wr - rd + RingSize ELSE wr - rd)
        /\ \A i \in 0..RingSize :
             At(i) = IF rd + i < RingSize THEN rd + i ELSE (rd + i) - RingSize
    BY Cells DEF RingHolds
  <1>3. rd' = IF rd + n < RingSize THEN rd + n ELSE (rd + n) - RingSize
    <2>1. n \in 0..RingSize
      BY <1>1, Constants
    <2> QED BY <1>2, <2>1
  <1>4. rd' \in Nat /\ rd' < RingSize
    BY <1>1, <1>2, <1>3, Constants
  <1>5. Buffered' = (wr - rd') % RingSize
    BY DEF Buffered
  <1>6. Buffered' = L - n
    <2>2. (wr - rd') % RingSize = IF wr < rd' THEN wr - rd' + RingSize ELSE wr - rd'
      BY <1>2, <1>4, RingMinus
    <2> HIDE DEF L
    <2> QED BY <1>1, <1>2, <1>3, <1>4, <1>5, <2>2, Constants
  <1>7. ASSUME NEW i \in 1..(L - n) PROVE ring'[At(i - 1)'] = unread'[i]
    <2>1. At(i - 1)' = (rd' + (i - 1)) % RingSize
      BY DEF At
    <2>2. i - 1 \in Nat /\ i - 1 <= RingSize
      BY <1>1, Constants
    <2>3. At(i - 1)' = IF rd' + (i - 1) < RingSize THEN rd' + (i - 1) ELSE (rd' + (i - 1)) - RingSize
      BY <1>4, <2>1, <2>2, RingPlus
    <2>4. n + i \in 1..L /\ (n + i) - 1 \in 0..RingSize
      BY <1>1, Constants
    <2>5. At((n + i) - 1) = IF rd + ((n + i) - 1) < RingSize THEN rd + ((n + i) - 1)
                            ELSE (rd + ((n + i) - 1)) - RingSize
      BY <1>2, <2>4
    <2> HIDE DEF L
    <2>6. At(i - 1)' = At((n + i) - 1)
      BY <1>1, <1>2, <1>3, <2>3, <2>5, Constants
    <2>7. ring[At((n + i) - 1)] = unread[n + i]
      BY <2>4 DEF RingHolds, L
    <2> QED BY <1>1, <2>6, <2>7
  <1> QED BY SMTT(30), <1>1, <1>4, <1>6, <1>7, Constants DEF RingHolds

\* A read is copied behind the unread bytes and over none of them.
LEMMA CopyToRing ==
  ASSUME TypeOK, RingHolds, Len(unread) + ReadMax < RingSize,
         ring' = Copied(rxlen), wr' = (wr + rxlen) % RingSize, rd' = rd,
         unread' = unread \o SubSeq(rx, 1, rxlen)
  PROVE  /\ ring' \in [0..(RingSize - 1) -> Byte] /\ wr' \in 0..(RingSize - 1)
         /\ unread' \in Seq(Byte) /\ Len(unread') = Len(unread) + rxlen
         /\ RingHolds'
  <1> DEFINE L == Len(unread)
             n == rxlen
             q == SubSeq(rx, 1, rxlen)
  <1>1. /\ L \in Nat /\ n \in Nat /\ n <= ReadMax /\ L + n < RingSize
        /\ q \in Seq(Byte) /\ Len(q) = n /\ \A i \in 1..n : q[i] = rx[i] /\ rx[i] \in Byte
    BY Received, LenProperties, Constants DEF TypeOK
  <1>2. /\ wr \in Nat /\ rd \in Nat /\ wr < RingSize /\ rd < RingSize
        /\ L = (IF wr < rd THEN wr - rd + RingSize ELSE wr - rd)
        /\ \A i \in 0..RingSize :
             At(i) = IF rd + i < RingSize THEN rd + i ELSE (rd + i) - RingSize
    BY Cells DEF RingHolds
  <1>3. /\ unread' \in Seq(Byte) /\ Len(unread') = L + n
        /\ \A i \in 1..(L + n) : unread'[i] = IF i <= L THEN unread[i] ELSE q[i - L]
    <2>1. unread \in Seq(Byte)
      BY DEF TypeOK
    <2> HIDE DEF q
    <2>2. unread' = unread \o q
      BY DEF q
    <2>3. /\ unread' \in Seq(Byte) /\ Len(unread') = L + Len(q)
          /\ \A i \in 1..(L + Len(q)) : unread'[i] = IF i <= L THEN unread[i] ELSE q[i - L]
      BY <1>1, <2>1, <2>2, ConcatProperties
    <2> QED BY <1>1, <2>3
  <1>4. /\ ring \in [0..(RingSize - 1) -> Byte]
        /\ ring' = [i \in 0..(RingSize - 1) |->
                      IF (i - wr) % RingSize < n THEN rx[((i - wr) % RingSize) + 1] ELSE ring[i]]
    BY DEF TypeOK, Copied
  <1> HIDE DEF L, n, q
  <1>5. ASSUME NEW i \in 0..(RingSize - 1)
        PROVE  (i - wr) % RingSize = IF i < wr THEN i - wr + RingSize ELSE i - wr
    <2>1. i \in Nat /\ i < RingSize
      BY Constants
    <2> QED BY <1>2, <2>1, RingMinus
  <1>6. wr' = IF wr + n < RingSize THEN wr + n ELSE (wr + n) - RingSize
    <2>1. n \in Nat /\ n <= RingSize
      BY <1>1, Constants
    <2>2. (wr + n) % RingSize = IF wr + n < RingSize THEN wr + n ELSE (wr + n) - RingSize
      BY <1>2, <2>1, RingPlus
    <2> QED BY <2>2 DEF n
  <1>7. wr' \in Nat /\ wr' < RingSize
    BY SMTT(30), <1>1, <1>2, <1>6, Constants
  <1>8. ring' \in [0..(RingSize - 1) -> Byte]
    <2>1. ASSUME NEW i \in 0..(RingSize - 1), (i - wr) % RingSize < n
          PROVE  rx[((i - wr) % RingSize) + 1] \in Byte
      <3>1. ((i - wr) % RingSize) + 1 \in 1..n
        BY <1>1, <1>2, <1>5, <2>1, Constants
      <3> QED BY <1>1, <3>1
    <2> QED BY <1>4, <2>1
  <1>9. Buffered' = L + n
    <2>1. Buffered' = (wr' - rd) % RingSize
      BY DEF Buffered
    <2>3. (wr' - rd) % RingSize = IF wr' < rd THEN wr' - rd + RingSize ELSE wr' - rd
      BY <1>2, <1>7, RingMinus
    <2>4. /\ L \in Nat /\ n \in Nat /\ L + n < RingSize /\ wr \in Nat /\ rd \in Nat
          /\ wr < RingSize /\ rd < RingSize
          /\ L = (IF wr < rd THEN wr - rd + RingSize ELSE wr - rd)
      BY <1>1, <1>2
    <2>5. L + n = IF wr' < rd THEN wr' - rd + RingSize ELSE wr' - rd
      <3> DEFINE v == wr'
      <3>1. /\ RingSize \in Nat /\ v \in Nat
            /\ v = (IF wr + n < RingSize THEN wr + n ELSE (wr + n) - RingSize)
        BY <1>6, <1>7, Constants
      <3> HIDE DEF v
      <3>2. L + n = IF v < rd THEN v - rd + RingSize ELSE v - rd
        BY <2>4, <3>1, RingDistance
      <3> QED BY <3>2 DEF v
    <2> QED BY <2>1, <2>3, <2>5
  <1>10. ASSUME NEW i \in 1..(L + n) PROVE ring'[At(i - 1)'] = unread'[i]
    <2> DEFINE a == At(i - 1)
    <2>1. At(i - 1)' = a
      BY DEF At
    <2>2. i - 1 \in 0..RingSize
      BY <1>1, Constants
    <2>3. a = IF rd + (i - 1) < RingSize THEN rd + (i - 1) ELSE (rd + (i - 1)) - RingSize
      BY <1>2, <2>2
    <2> HIDE DEF a
    <2>4. a \in 0..(RingSize - 1)
      BY <1>1, <1>2, <2>3, Constants
    <2>5. (a - wr) % RingSize = IF a < wr THEN a - wr + RingSize ELSE a - wr
      BY <1>5, <2>4
    <2>6. CASE i <= L
      <3>1. ~((a - wr) % RingSize < n)
        BY <1>1, <1>2, <2>3, <2>4, <2>5, <2>6, Constants
      <3>2. ring'[a] = ring[a]
        BY <1>4, <2>4, <3>1
      <3>3. ring[a] = unread[i]
        BY <2>6 DEF RingHolds, L, a
      <3> QED BY <1>3, <2>1, <2>6, <3>2, <3>3
    <2>7. CASE ~(i <= L)
      <3>1. (a - wr) % RingSize = i - 1 - L /\ i - L \in 1..n /\ (i - 1 - L) + 1 = i - L
            /\ i - 1 - L < n
        BY <1>1, <1>2, <2>3, <2>4, <2>5, <2>7, Constants
      <3>2. ring'[a] = rx[i - L]
        BY <1>4, <2>4, <3>1
      <3>3. unread'[i] = rx[i - L]
        BY <1>1, <1>3, <2>7, <3>1
      <3> QED BY <2>1, <3>2, <3>3
    <2> QED BY <2>6, <2>7
  <1>11. Len(unread') < RingSize
    BY <1>1, <1>3
  <1>12. RingHolds'
    BY <1>3, <1>9, <1>10, <1>11 DEF RingHolds
  <1>13. wr' \in 0..(RingSize - 1)
    BY <1>7, Constants
  <1> QED BY <1>3, <1>8, <1>12, <1>13 DEF L, n

-----------------------------------------------------------------------------
(* The invariant of the path, step by step.                                *)

\* A step that leaves the ring alone.
LEMMA SameRing ==
  ASSUME PathInv, UNCHANGED <<ring, wr, rd, unread>>, pc # "parse" \/ pc' = "parse"
  PROVE  RoomLeft' /\ RingHolds'
  BY DEF PathInv, RoomLeft, RingHolds, Buffered, At

\* What a caller of the mailbox stages.
LEMMA StageInv ==
  ASSUME PathInv, NEW cmd \in Commands, NEW arg \in Nat, pc # "parse",
         cmd = "READ" => arg <= ReadMax, cmd = "WRITE" => written < writes',
         writes' \in {writes, writes + 1}, writes' <= MaxWrites,
         Stage(cmd, arg), UNCHANGED <<stream, buffer, written, up, bounds, clean>>
  PROVE  PathInv'
  <1>1. UNCHANGED <<ring, wr, rd, unread, job, written>>
    BY DEF Stage, buffer
  <1>2. RoomLeft' /\ RingHolds'
    BY <1>1, SameRing
  <1>3. req' \in Request /\ req'.cmd = cmd /\ req'.arg = arg
    BY DEF Stage, Request
  <1>4. written \in Nat /\ writes \in Nat /\ written <= writes
    BY DEF PathInv, TypeOK, RequestsSound
  <1>5. RequestsSound'
    <2>1. written <= writes'
      BY <1>4
    <2> QED BY <1>1, <1>3, <2>1 DEF PathInv, RequestsSound
  <1>6. TypeOK'
    <2>1. writes' \in 0..MaxWrites
      BY <1>4
    <2> QED BY <1>3, <2>1 DEF PathInv, TypeOK, Stage, stream, buffer, bounds
  <1> QED BY <1>2, <1>5, <1>6 DEF PathInv

\* A call returns without its answer.
LEMMA FailureInv ==
  ASSUME PathInv, pc = "poll", AfterFailure, faults' \in 0..MaxFaults, clean' \in BOOLEAN,
         UNCHANGED <<mailbox, stream, buffer, outbound, resets>>
  PROVE  PathInv'
  <1>1. pc' \in {"local", "idle", "parse"}
    BY DEF AfterFailure
  <1>2. RoomLeft' /\ RingHolds'
    BY SameRing DEF buffer
  <1>3. RequestsSound'
    BY <1>1 DEF PathInv, RequestsSound, mailbox, outbound
  <1>4. TypeOK'
    BY <1>1 DEF PathInv, TypeOK, mailbox, stream, buffer, outbound
  <1> QED BY <1>2, <1>3, <1>4 DEF PathInv

\* The peripheral's answer: the cells it writes.
LEMMA ReplyTypes ==
  ASSUME TypeOK, NEW bytes \in Seq(Byte), Len(bytes) <= ReadMax, job # NoJob, Reply(bytes)
  PROVE  /\ rx' \in [1..RxSize -> Byte] /\ rxlen' \in 0..ReadMax
         /\ acked' = TRUE /\ ackseq' = job.seq /\ ackseq' \in Byte /\ job' = NoJob
         /\ req' = req /\ fnseq' = fnseq
  <1>1. Len(bytes) \in Nat /\ \A i \in 1..Len(bytes) : bytes[i] \in Byte
    BY LenProperties, ElementOfSeq
  <1>2. rx' \in [1..RxSize -> Byte]
    <2>1. ASSUME NEW i \in 1..RxSize
          PROVE  (IF i <= Len(bytes) THEN bytes[i] ELSE rx[i]) \in Byte
      <3>1. i <= Len(bytes) => i \in 1..Len(bytes)
        BY <1>1, Constants
      <3> QED BY <1>1, <3>1 DEF TypeOK
    <2> QED BY <2>1 DEF Reply
  <1>3. job.seq \in Byte
    BY DEF TypeOK, Job
  <1> QED BY <1>1, <1>2, <1>3, Constants DEF Reply

LEMMA ReplyInv ==
  ASSUME PathInv, NEW bytes \in Seq(Byte), Len(bytes) <= ReadMax, job # NoJob, Reply(bytes),
         open' \in BOOLEAN, net' \in Seq(Byte), fifo' \in Seq(Byte), sent' \in 0..Len(Script),
         up' \in Seq(Nat), UNCHANGED <<pc, buffer, writes, written, bounds, clean>>
  PROVE  PathInv'
  <1>1. /\ rx' \in [1..RxSize -> Byte] /\ rxlen' \in 0..ReadMax
        /\ acked' = TRUE /\ ackseq' \in Byte /\ job' = NoJob
        /\ req' = req /\ fnseq' = fnseq
    BY ReplyTypes DEF PathInv
  <1>2. RoomLeft' /\ RingHolds'
    BY SameRing DEF buffer
  <1>3. RequestsSound'
    BY <1>1 DEF PathInv, RequestsSound, NoJob
  <1>4. TypeOK'
    BY <1>1 DEF PathInv, TypeOK, Job, buffer, bounds
  <1> QED BY <1>2, <1>3, <1>4 DEF PathInv

\* The parser: what it sees at the read end.
LEMMA Parsed ==
  ASSUME PathInv, Buffered >= 2
  PROVE  /\ unread \in Seq(Byte) /\ Len(unread) \in Nat /\ Len(unread) >= 2
         /\ Buffered = Len(unread)
         /\ ring[At(0)] = unread[1] /\ ring[At(1)] = unread[2]
         /\ unread[1] \in Byte /\ unread[2] \in Byte /\ unread[1] \in Nat
         /\ Legal => unread[1] \in 1..MaxLen
  <1>1. unread \in Seq(Byte) /\ Len(unread) \in Nat /\ Len(unread) >= 2 /\ Buffered = Len(unread)
    BY LenProperties DEF PathInv, TypeOK, RingHolds
  <1>2. /\ 1 \in 1..Len(unread) /\ 2 \in 1..Len(unread) /\ 1 - 1 = 0 /\ 2 - 1 = 1
    BY <1>1
  <1>3. ring[At(1 - 1)] = unread[1] /\ ring[At(2 - 1)] = unread[2]
    BY <1>2 DEF PathInv, RingHolds
  <1>4. ring[At(0)] = unread[1] /\ ring[At(1)] = unread[2]
    BY <1>2, <1>3
  <1>5. unread[1] \in Byte /\ unread[2] \in Byte
    BY <1>1, <1>2, ElementOfSeq
  <1>6. unread[1] \in Nat
    BY <1>5, Constants DEF Byte
  <1>7. Legal => unread[1] \in 1..MaxLen
    BY <1>4, <1>5, Constants DEF Legal
  <1> QED BY <1>1, <1>4, <1>5, <1>6, <1>7

LEMMA TakeInv ==
  ASSUME PathInv, pc = "parse", NEW n \in Nat, n <= Len(unread),
         rd' = At(n), unread' = SubSeq(unread, n + 1, Len(unread)),
         seen' \in Nat, garbled' \in BOOLEAN,
         UNCHANGED <<pc, mailbox, stream, ring, wr, outbound, bounds, clean>>
  PROVE  PathInv'
  <1>1. /\ rd' \in 0..(RingSize - 1) /\ unread' \in Seq(Byte)
        /\ Len(unread') = Len(unread) - n /\ RingHolds'
    BY TakeFromRing DEF PathInv
  <1>2. RoomLeft'
    <2>1. Len(unread) \in Nat /\ Len(unread) <= MaxLen + ReadMax
      BY LenProperties DEF PathInv, TypeOK, RoomLeft
    <2>2. Len(unread') <= MaxLen + ReadMax
      BY <1>1, <2>1, Constants
    <2> QED BY <2>2 DEF RoomLeft
  <1>3. RequestsSound'
    BY DEF PathInv, RequestsSound, mailbox, outbound
  <1>4. TypeOK'
    BY <1>1 DEF PathInv, TypeOK, mailbox, stream, outbound, bounds
  <1> QED BY <1>1, <1>2, <1>3, <1>4 DEF PathInv

LEMMA ReadDoneInv ==
  ASSUME PathInv, ReadDone
  PROVE  PathInv'
  <1>1. /\ pc = "poll" /\ pc' = "parse" /\ ring' = Copied(rxlen)
        /\ wr' = (wr + rxlen) % RingSize /\ rd' = rd
        /\ unread' = unread \o SubSeq(rx, 1, rxlen)
        /\ UNCHANGED <<mailbox, stream, seen, garbled, outbound, bounds, clean>>
    BY DEF ReadDone, Answered
  <1>2. Len(unread) \in Nat /\ Len(unread) <= MaxLen /\ Len(unread) + ReadMax < RingSize
    BY <1>1, LenProperties, Constants DEF PathInv, TypeOK, RoomLeft
  <1>3. /\ ring' \in [0..(RingSize - 1) -> Byte] /\ wr' \in 0..(RingSize - 1)
        /\ unread' \in Seq(Byte) /\ Len(unread') = Len(unread) + rxlen /\ RingHolds'
    BY <1>1, <1>2, CopyToRing DEF PathInv
  <1>4. RoomLeft'
    <2>1. rxlen \in Nat /\ rxlen <= ReadMax
      BY Received DEF PathInv
    <2>2. Len(unread') <= MaxLen + ReadMax
      BY <1>2, <1>3, <2>1, Constants
    <2> QED BY <1>1, <2>2 DEF RoomLeft
  <1>5. RequestsSound'
    BY <1>1 DEF PathInv, RequestsSound, mailbox, outbound
  <1>6. TypeOK'
    BY <1>1, <1>3 DEF PathInv, TypeOK, mailbox, stream, outbound, bounds
  <1> QED BY <1>3, <1>4, <1>5, <1>6 DEF PathInv

LEMMA ConsoleInv ==
  ASSUME PathInv, Console
  PROVE  PathInv'
  <1>1. ASSUME Open \/ Pump PROVE PathInv'
    <2>1. PICK cmd \in {"OPEN", "STATUS"} :
            /\ pc # "parse" /\ Stage(cmd, 0)
            /\ UNCHANGED <<stream, buffer, outbound, bounds, clean>>
      BY <1>1 DEF Open, Pump
    <2>2. cmd \in Commands /\ 0 \in Nat /\ cmd # "READ" /\ cmd # "WRITE"
      BY DEF Commands
    <2>3. /\ writes' \in {writes, writes + 1} /\ writes' <= MaxWrites
          /\ UNCHANGED <<stream, buffer, written, up, bounds, clean>>
      BY <2>1, Constants DEF outbound, PathInv, TypeOK
    <2> QED BY <2>1, <2>2, <2>3, StageInv
  <1>2. CASE Write
    <2>1. /\ pc = "idle" /\ writes < MaxWrites /\ writes' = writes + 1
          /\ Stage("WRITE", writes + 1)
          /\ UNCHANGED <<stream, buffer, written, up, bounds, clean>>
      BY <1>2 DEF Write
    <2>2. writes \in Nat /\ written \in Nat /\ written <= writes
      BY DEF PathInv, TypeOK, RequestsSound
    <2>3. writes + 1 \in Nat /\ written < writes' /\ writes' <= MaxWrites
      BY <2>1, <2>2, Constants
    <2>4. "WRITE" \in Commands
      BY DEF Commands
    <2> QED BY <2>1, <2>3, <2>4, StageInv
  <1>3. CASE WriteSeq
    <2>1. RoomLeft' /\ RingHolds'
      BY <1>3, SameRing DEF WriteSeq, buffer
    <2>2. fnseq' \in Byte
      BY <1>3, NextSeqType DEF WriteSeq, PathInv, TypeOK
    <2>3. RequestsSound'
      BY <1>3 DEF WriteSeq, PathInv, RequestsSound, outbound
    <2>4. TypeOK'
      BY <1>3, <2>2 DEF WriteSeq, PathInv, TypeOK, stream, buffer, outbound, bounds
    <2> QED BY <2>1, <2>3, <2>4 DEF PathInv
  <1>4. CASE TimeOut
    <2>1. faults' \in 0..MaxFaults
      BY <1>4, Constants DEF TimeOut, PathInv, TypeOK
    <2> QED BY <1>4, <2>1, FailureInv DEF TimeOut
  <1>5. CASE Refused
    <2>1. faults' \in 0..MaxFaults /\ clean' \in BOOLEAN
      BY <1>5 DEF Refused, PathInv, TypeOK, bounds
    <2> QED BY <1>5, <2>1, FailureInv DEF Refused, bounds
  <1>6. CASE OpenDone
    <2>1. /\ pc = "poll" /\ pc' = "idle"
          /\ UNCHANGED <<mailbox, stream, buffer, outbound, bounds, clean>>
      BY <1>6 DEF OpenDone, Answered
    <2>2. RoomLeft' /\ RingHolds'
      BY <2>1, SameRing DEF buffer
    <2>3. RequestsSound'
      BY <2>1 DEF PathInv, RequestsSound, mailbox, outbound
    <2>4. TypeOK'
      BY <2>1 DEF PathInv, TypeOK, mailbox, stream, buffer, outbound, bounds
    <2> QED BY <2>2, <2>3, <2>4 DEF PathInv
  <1>7. CASE WriteDone
    <2>1. /\ pc = "poll" /\ req.cmd = "WRITE" /\ pc' = "idle" /\ written' = written + 1
          /\ UNCHANGED <<mailbox, stream, buffer, writes, up, bounds, clean>>
      BY <1>7 DEF WriteDone, Answered
    <2>2. RoomLeft' /\ RingHolds'
      BY <2>1, SameRing DEF buffer
    <2>3. written + 1 <= writes /\ written \in Nat /\ writes \in 0..MaxWrites
      BY <2>1 DEF PathInv, RequestsSound, TypeOK
    <2>4. RequestsSound'
      BY <2>1, <2>3 DEF PathInv, RequestsSound, mailbox
    <2>5. written' \in 0..MaxWrites
      BY <2>1, <2>3, Constants
    <2>6. TypeOK'
      BY <2>1, <2>5 DEF PathInv, TypeOK, mailbox, stream, buffer, bounds
    <2> QED BY <2>2, <2>4, <2>6 DEF PathInv
  <1>8. CASE StatusDone
    <2> DEFINE avail == rx[1] + ByteSize * rx[2]
    <2>1. pc = "poll" /\ UNCHANGED <<stream, buffer, outbound, bounds, clean>>
      BY <1>8 DEF StatusDone, Answered
    <2>2. CASE avail > 0 /\ Stage("READ", ReadLength(avail))
      <3>1. rx[1] \in Nat /\ rx[2] \in Nat
        BY Constants DEF PathInv, TypeOK, Byte
      <3>2. avail \in Nat
        <4>1. ByteSize \in Nat
          BY Constants
        <4>2. \A a, b, c \in Nat : a + b * c \in Nat
          OBVIOUS
        <4> QED BY <3>1, <4>1, <4>2
      <3> HIDE DEF avail
      <3>3. ReadLength(avail) \in Nat /\ ReadLength(avail) <= ReadMax
        BY <3>2, Constants DEF ReadLength
      <3>4. "READ" \in Commands
        BY DEF Commands
      <3>5. /\ writes' \in {writes, writes + 1} /\ writes' <= MaxWrites
            /\ UNCHANGED <<stream, buffer, written, up, bounds, clean>>
        BY <2>1, Constants DEF outbound, PathInv, TypeOK
      <3> QED BY <2>1, <2>2, <3>3, <3>4, <3>5, StageInv
    <2>3. CASE pc' = "parse" /\ UNCHANGED mailbox
      <3>1. RoomLeft' /\ RingHolds'
        BY <2>1, <2>3, SameRing DEF buffer
      <3>2. RequestsSound'
        BY <2>1, <2>3 DEF PathInv, RequestsSound, mailbox, outbound
      <3>3. TypeOK'
        BY <2>1, <2>3 DEF PathInv, TypeOK, mailbox, stream, buffer, outbound, bounds
      <3> QED BY <3>1, <3>2, <3>3 DEF PathInv
    <2> QED BY <1>8, <2>2, <2>3 DEF StatusDone
  <1>9. CASE ReadDone
    BY <1>9, ReadDoneInv
  <1>10. CASE Slip
    <2>1. /\ pc = "parse" /\ Buffered >= 2 /\ rd' = At(1) /\ unread' = Tail(unread)
          /\ UNCHANGED <<pc, mailbox, stream, ring, wr, seen, garbled, outbound, bounds, clean>>
      BY <1>10 DEF Slip
    <2>2. unread \in Seq(Byte) /\ Len(unread) \in Nat /\ Len(unread) >= 2 /\ unread # <<>>
      BY <2>1, Parsed
    <2>3. unread' = SubSeq(unread, 1 + 1, Len(unread)) /\ 1 <= Len(unread) /\ 1 \in Nat
      BY <2>1, <2>2, TailIsSubSeq
    <2>4. seen' \in Nat /\ garbled' \in BOOLEAN
      BY <2>1 DEF PathInv, TypeOK
    <2> QED BY <2>1, <2>3, <2>4, TakeInv
  <1>11. CASE Extract
    <2> DEFINE n == ring[At(0)] + 1
    <2>1. /\ pc = "parse" /\ Buffered >= 2 /\ Legal /\ Buffered >= n
          /\ rd' = At(n) /\ unread' = SubSeq(unread, n + 1, Len(unread))
          /\ UNCHANGED <<pc, mailbox, stream, ring, wr, outbound, bounds, clean>>
      BY <1>11 DEF Extract, Whole
    <2>2. n \in Nat /\ n <= Len(unread)
      BY <2>1, Parsed
    <2>3. seen' \in Nat /\ garbled' \in BOOLEAN
      BY SMTT(30), <1>11 DEF Extract, PathInv, TypeOK
    <2> HIDE DEF n
    <2> QED BY <2>1, <2>2, <2>3, TakeInv
  <1>12. CASE PumpDone
    <2>1. /\ pc = "parse" /\ pc' = "idle" /\ (Buffered < 2 \/ (Legal /\ ~Whole))
          /\ UNCHANGED <<mailbox, stream, buffer, outbound, bounds, clean>>
      BY <1>12 DEF PumpDone
    <2>2. Len(unread) \in Nat /\ Buffered = Len(unread) /\ RingHolds
      BY LenProperties DEF PathInv, TypeOK, RingHolds
    <2>3. Len(unread) <= MaxLen
      <3>1. CASE Len(unread) < 2
        BY <2>2, <3>1, Constants
      <3>2. CASE ~(Len(unread) < 2)
        <4>1. Buffered >= 2 /\ Legal /\ ~Whole
          BY <2>1, <2>2, <3>2
        <4>2. unread[1] \in 1..MaxLen /\ ring[At(0)] = unread[1]
          BY <4>1, Parsed
        <4> QED BY <2>2, <4>1, <4>2, Constants DEF Whole
      <3> QED BY <3>1, <3>2
    <2>4. RoomLeft' /\ RingHolds'
      BY <2>1, <2>3 DEF PathInv, RoomLeft, RingHolds, Buffered, At, buffer
    <2>5. RequestsSound'
      BY <2>1 DEF PathInv, RequestsSound, mailbox, outbound
    <2>6. TypeOK'
      BY <2>1 DEF PathInv, TypeOK, mailbox, stream, buffer, outbound, bounds
    <2> QED BY <2>4, <2>5, <2>6 DEF PathInv
  <1> QED BY <1>1, <1>2, <1>3, <1>4, <1>5, <1>6, <1>7, <1>8, <1>9, <1>10, <1>11, <1>12
      DEF Console

LEMMA OutsideInv ==
  ASSUME PathInv, Outside
  PROVE  PathInv'
  <1>1. CASE TakeJob
    <2>1. /\ job' = [cmd |-> req.cmd, arg |-> req.arg, seq |-> fnseq]
          /\ UNCHANGED <<pc, req, fnseq, ackseq, acked, rx, rxlen,
                         stream, buffer, outbound, bounds, clean>>
      BY <1>1 DEF TakeJob
    <2>2. job' \in Job /\ job'.cmd = req.cmd /\ job'.arg = req.arg
      BY <2>1 DEF PathInv, TypeOK, Job, Request
    <2>3. RoomLeft' /\ RingHolds'
      BY <2>1, SameRing DEF buffer
    <2>4. RequestsSound'
      BY <2>1, <2>2 DEF PathInv, RequestsSound, outbound
    <2>5. TypeOK'
      BY <2>1, <2>2 DEF PathInv, TypeOK, stream, buffer, outbound, bounds
    <2> QED BY <2>3, <2>4, <2>5 DEF PathInv
  <1>2. CASE ServeOpen
    <2>1. <<>> \in Seq(Byte) /\ Len(<<>>) <= ReadMax /\ job # NoJob /\ Reply(<<>>)
      BY <1>2, Constants DEF ServeOpen, NoJob
    <2>2. /\ open' \in BOOLEAN /\ net' \in Seq(Byte) /\ fifo' \in Seq(Byte)
          /\ sent' \in 0..Len(Script) /\ up' \in Seq(Nat)
          /\ UNCHANGED <<pc, buffer, writes, written, bounds, clean>>
      BY <1>2, Constants, LenProperties DEF ServeOpen, outbound, PathInv, TypeOK
    <2> QED BY <2>1, <2>2, ReplyInv
  <1>3. CASE ServeStatus
    <2> DEFINE n == Len(fifo)
               bytes == <<n % ByteSize, (n \div ByteSize) % ByteSize, 0, 1>>
    <2>1. n \in Nat
      BY LenProperties DEF PathInv, TypeOK
    <2>2. n % ByteSize \in Byte /\ (n \div ByteSize) % ByteSize \in Byte
      <3>1. ByteSize \in Nat /\ ByteSize > 0 /\ n \in Int
        BY <2>1, Constants
      <3> HIDE DEF n
      <3>2. n % ByteSize \in 0..(ByteSize - 1) /\ n \div ByteSize \in Int
        BY <3>1, ModRange
      <3>3. (n \div ByteSize) % ByteSize \in 0..(ByteSize - 1)
        BY <3>1, <3>2, ModRange
      <3> QED BY <3>2, <3>3 DEF Byte
    <2>3. bytes \in Seq(Byte) /\ Len(bytes) = 4
      BY <2>2, ByteConstants
    <2>4. Len(bytes) <= ReadMax /\ job # NoJob /\ Reply(bytes)
      BY <1>3, <2>3, Constants DEF ServeStatus, NoJob
    <2> HIDE DEF bytes
    <2>5. /\ open' \in BOOLEAN /\ net' \in Seq(Byte) /\ fifo' \in Seq(Byte)
          /\ sent' \in 0..Len(Script) /\ up' \in Seq(Nat)
          /\ UNCHANGED <<pc, buffer, writes, written, bounds, clean>>
      BY <1>3 DEF ServeStatus, outbound, stream, PathInv, TypeOK
    <2> QED BY <2>3, <2>4, <2>5, ReplyInv
  <1>4. CASE ServeRead
    <2> DEFINE n == IF job.arg < Len(fifo) THEN job.arg ELSE Len(fifo)
    <2>1. /\ job.cmd = "READ" /\ Reply(SubSeq(fifo, 1, n))
          /\ fifo' = SubSeq(fifo, n + 1, Len(fifo))
          /\ UNCHANGED <<pc, open, net, sent, buffer, outbound, bounds, clean>>
      BY <1>4 DEF ServeRead
    <2>2. job # NoJob /\ job.arg \in Nat /\ job.arg <= ReadMax
      BY <2>1 DEF PathInv, TypeOK, RequestsSound, Job, NoJob
    <2>3. fifo \in Seq(Byte) /\ Len(fifo) \in Nat
      BY LenProperties DEF PathInv, TypeOK
    <2>4. n \in Nat /\ n <= Len(fifo) /\ n <= ReadMax
      BY <2>2, <2>3, Constants
    <2> HIDE DEF n
    <2>5. SubSeq(fifo, 1, n) \in Seq(Byte) /\ Len(SubSeq(fifo, 1, n)) <= ReadMax
          /\ fifo' \in Seq(Byte)
      BY <2>1, <2>3, <2>4, Cut
    <2>6. /\ open' \in BOOLEAN /\ net' \in Seq(Byte) /\ sent' \in 0..Len(Script)
          /\ up' \in Seq(Nat) /\ UNCHANGED <<pc, buffer, writes, written, bounds, clean>>
      BY <2>1 DEF outbound, PathInv, TypeOK
    <2> QED BY <2>1, <2>2, <2>5, <2>6, ReplyInv
  <1>5. CASE ServeWrite
    <2>1. <<>> \in Seq(Byte) /\ Len(<<>>) <= ReadMax /\ job # NoJob /\ Reply(<<>>)
      BY <1>5, Constants DEF ServeWrite, NoJob
    <2>2. job.arg \in Nat
      BY <1>5 DEF ServeWrite, PathInv, TypeOK, Job, NoJob
    <2>3. up' \in Seq(Nat)
      BY <1>5, <2>2, AppendProperties DEF ServeWrite, PathInv, TypeOK
    <2>4. /\ open' \in BOOLEAN /\ net' \in Seq(Byte) /\ fifo' \in Seq(Byte)
          /\ sent' \in 0..Len(Script) /\ UNCHANGED <<pc, buffer, writes, written, bounds, clean>>
      BY <1>5 DEF ServeWrite, stream, PathInv, TypeOK
    <2> QED BY <2>1, <2>3, <2>4, ReplyInv
  <1>6. CASE Refuse
    <2>1. /\ job # NoJob /\ faults < MaxFaults /\ faults' = faults + 1 /\ acked' = FALSE
          /\ ackseq' = job.seq /\ job' = NoJob
          /\ UNCHANGED <<pc, req, fnseq, rx, rxlen, stream, buffer, outbound, resets, clean>>
      BY <1>6 DEF Refuse
    <2>2. ackseq' \in Byte /\ faults' \in 0..MaxFaults
      BY <2>1, Constants DEF PathInv, TypeOK, Job
    <2>3. RoomLeft' /\ RingHolds'
      BY <2>1, SameRing DEF buffer
    <2>4. RequestsSound'
      BY <2>1 DEF PathInv, RequestsSound, outbound, NoJob
    <2>5. TypeOK'
      BY <2>1, <2>2 DEF PathInv, TypeOK, Job, stream, buffer, outbound
    <2> QED BY <2>3, <2>4, <2>5 DEF PathInv
  <1>7. ASSUME fifo' \in Seq(Byte), net' \in Seq(Byte), sent' \in 0..Len(Script),
               UNCHANGED <<pc, mailbox, open, buffer, outbound, bounds, clean>>
        PROVE  PathInv'
    <2>1. RoomLeft' /\ RingHolds'
      BY <1>7, SameRing DEF buffer
    <2>2. RequestsSound'
      BY <1>7 DEF PathInv, RequestsSound, mailbox, outbound
    <2>3. TypeOK'
      BY <1>7 DEF PathInv, TypeOK, mailbox, buffer, outbound, bounds
    <2> QED BY <2>1, <2>2, <2>3 DEF PathInv
  <1>8. CASE Arrive
    <2>1. fifo' = fifo \o net /\ net' = <<>> /\ sent' = sent
          /\ UNCHANGED <<pc, mailbox, open, buffer, outbound, bounds, clean>>
      BY <1>8 DEF Arrive
    <2>2. fifo' \in Seq(Byte) /\ net' \in Seq(Byte) /\ sent' \in 0..Len(Script)
      BY <2>1, ConcatProperties DEF PathInv, TypeOK
    <2> QED BY <1>7, <2>1, <2>2
  <1>9. ASSUME NEW k \in 1..(MaxLen + 1), Send(k) PROVE PathInv'
    <2> DEFINE f == Script[sent + 1]
    <2>1. /\ sent < Len(Script) /\ k \in 1..Len(f) /\ sent' = sent + 1
          /\ fifo' = fifo \o SubSeq(f, 1, k) /\ net' = SubSeq(f, k + 1, Len(f))
          /\ UNCHANGED <<pc, mailbox, open, buffer, outbound, bounds, clean>>
      BY <1>9 DEF Send
    <2>2. sent \in Nat /\ sent + 1 \in 1..Len(Script) /\ Len(Script) \in Nat
      BY <2>1, Constants, LenProperties DEF PathInv, TypeOK
    <2>3. f \in Seq(Byte) /\ Len(f) \in Nat
      BY <2>2, ScriptFrame
    <2> HIDE DEF f
    <2>4. SubSeq(f, 1, k) \in Seq(Byte) /\ net' \in Seq(Byte)
      BY <2>1, <2>3, Cut
    <2>5. fifo' \in Seq(Byte)
      BY <2>1, <2>4, ConcatProperties DEF PathInv, TypeOK
    <2>6. sent' \in 0..Len(Script)
      BY <2>1, <2>2
    <2> QED BY <1>7, <2>1, <2>4, <2>5, <2>6
  <1>10. CASE Reset
    <2>1. /\ resets < MaxResets /\ resets' = resets + 1 /\ pc' = "boot"
          /\ ring' = [i \in 0..(RingSize - 1) |-> 0] /\ wr' = 0 /\ rd' = 0
          /\ unread' = <<>> /\ seen' = 0 /\ garbled' = FALSE
          /\ writes' = 0 /\ written' = 0 /\ up' = <<>>
          /\ clean' \in BOOLEAN
          /\ UNCHANGED <<mailbox, stream, faults>>
      BY <1>10 DEF Reset
    <2>2. Len(unread') = 0
      BY <2>1
    <2>3. RoomLeft'
      BY <2>2, Constants DEF RoomLeft
    <2>4. RingHolds'
      <3>1. Buffered' = 0
        <4>1. (0 - 0) % RingSize = IF 0 < 0 THEN (0 - 0) + RingSize ELSE 0 - 0
          BY Constants, RingMinus
        <4>2. Buffered' = (0 - 0) % RingSize
          BY <2>1 DEF Buffered
        <4> QED BY <4>1, <4>2
      <3> QED BY <2>2, <3>1, Constants DEF RingHolds
    <2>5. RequestsSound'
      BY <2>1 DEF PathInv, RequestsSound, mailbox
    <2>6. TypeOK'
      <3>1. ring' \in [0..(RingSize - 1) -> Byte] /\ wr' \in 0..(RingSize - 1)
            /\ rd' \in 0..(RingSize - 1)
        BY <2>1, ByteConstants, Constants
      <3>2. resets' \in 0..MaxResets
        BY <2>1, Constants DEF PathInv, TypeOK
      <3>3. writes' \in 0..MaxWrites /\ written' \in 0..MaxWrites /\ seen' \in Nat
        BY <2>1, Constants
      <3>4. unread' \in Seq(Byte) /\ up' \in Seq(Nat)
        BY <2>1, EmptySeq
      <3>5. pc' \in {"boot", "idle", "stage", "poll", "parse", "local"} /\ garbled' \in BOOLEAN
        BY <2>1
      <3>6. UNCHANGED <<mailbox, stream, faults>> /\ clean' \in BOOLEAN
        BY <2>1
      <3> QED BY <3>1, <3>2, <3>3, <3>4, <3>5, <3>6 DEF PathInv, TypeOK, mailbox, stream
    <2> QED BY <2>3, <2>4, <2>5, <2>6 DEF PathInv
  <1> QED BY <1>1, <1>2, <1>3, <1>4, <1>5, <1>6, <1>8, <1>9, <1>10 DEF Outside, Serve

LEMMA PathInit == Init => PathInv
  <1> SUFFICES ASSUME Init PROVE PathInv
    OBVIOUS
  <1>1. TypeOK
    <2>1. ring \in [0..(RingSize - 1) -> Byte] /\ wr \in 0..(RingSize - 1)
          /\ rd \in 0..(RingSize - 1) /\ rx \in [1..RxSize -> Byte]
      BY ByteConstants, Constants DEF Init
    <2>2. fnseq \in Byte /\ ackseq \in Byte /\ req \in Request /\ job \in Job
      BY ByteConstants DEF Init, Request, Commands, Job
    <2>3. Len(Script) \in Nat
      BY Constants, LenProperties
    <2>4. /\ unread \in Seq(Byte) /\ net \in Seq(Byte) /\ fifo \in Seq(Byte)
          /\ up \in Seq(Nat)
      BY EmptySeq DEF Init
    <2>5. /\ rxlen \in 0..ReadMax /\ faults \in 0..MaxFaults /\ resets \in 0..MaxResets
          /\ sent \in 0..Len(Script) /\ writes \in 0..MaxWrites /\ written \in 0..MaxWrites
      BY <2>3, Constants DEF Init
    <2>6. /\ pc \in {"boot", "idle", "stage", "poll", "parse", "local"} /\ seen \in Nat
          /\ acked \in BOOLEAN /\ open \in BOOLEAN /\ clean \in BOOLEAN /\ garbled \in BOOLEAN
      BY DEF Init
    <2> QED BY <2>1, <2>2, <2>4, <2>5, <2>6 DEF TypeOK
  <1>2. RequestsSound
    BY DEF Init, RequestsSound, NoJob
  <1>3. unread = <<>> /\ Len(unread) = 0
    BY DEF Init
  <1>4. RoomLeft
    BY <1>3, Constants DEF RoomLeft
  <1>5. RingHolds
    <2>1. (0 - 0) % RingSize = IF 0 < 0 THEN (0 - 0) + RingSize ELSE 0 - 0
      BY Constants, RingMinus
    <2>2. Buffered = (0 - 0) % RingSize
      BY DEF Init, Buffered
    <2>3. Buffered = 0
      BY <2>1, <2>2
    <2> QED BY <1>3, <2>3, Constants DEF RingHolds
  <1> QED BY <1>1, <1>2, <1>4, <1>5 DEF PathInv

LEMMA PathStep == PathInv /\ [Next]_vars => PathInv'
  <1> SUFFICES ASSUME PathInv, [Next]_vars PROVE PathInv'
    OBVIOUS
  <1>1. CASE UNCHANGED vars
    BY SMTT(30), <1>1 DEF vars, mailbox, stream, buffer, outbound, bounds, PathInv, TypeOK,
                RequestsSound, RoomLeft, RingHolds, Buffered, At
  <1> QED BY <1>1, ConsoleInv, OutsideInv DEF Next

(***************************************************************************)
(* The invariant of the receive path holds in every reachable state.       *)
(***************************************************************************)
THEOREM PathInvariant == Spec => []PathInv
  BY PathInit, PathStep, PTL DEF Spec

(***************************************************************************)
(* The mailbox cells, the ring and the streams keep their types: no read   *)
(* asks for or delivers more than FN_RX and the ring can take, whatever    *)
(* answer a request gets.                                                  *)
(***************************************************************************)
THEOREM TypeCorrect == Spec => []TypeOK
  <1>1. PathInv => TypeOK
    BY DEF PathInv
  <1> QED BY <1>1, PathInvariant, PTL

(***************************************************************************)
(* The ring between RX_RD and RX_WR is the bytes read and not consumed:    *)
(* SES_PUMP leaves less than a frame in it, so that the 64 bytes a read    *)
(* may bring, its own or those of a late answer, never run into RX_RD.     *)
(***************************************************************************)
THEOREM RingAlwaysHolds == Spec => []RingHolds
  <1>1. PathInv => RingHolds
    BY DEF PathInv
  <1> QED BY <1>1, PathInvariant, PTL

-----------------------------------------------------------------------------
(* Tilings by frames.                                                      *)

LEMMA TiledNothing ==
  ASSUME NEW n \in Nat
  PROVE  Tiled(<<>>, n, n)
  <1> DEFINE cut == [j \in n..n |-> 0]
  <1>1. Len(<<>>) = 0 /\ cut \in [n..n -> 0..Len(<<>>)] /\ n..n = {n} /\ n..(n - 1) = {}
    OBVIOUS
  <1>2. TiledBy(<<>>, n, n, cut)
    BY <1>1 DEF TiledBy
  <1> HIDE DEF cut
  <1>3. n <= n
    OBVIOUS
  <1> QED BY <1>1, <1>2, <1>3 DEF Tiled

\* The server sends its next frame.
LEMMA TiledSend ==
  ASSUME NEW s \in Seq(Byte), NEW a \in Nat, NEW b \in Nat, b < Len(Script), Tiled(s, a, b)
  PROVE  Tiled(s \o Script[b + 1], a, b + 1)
  <1> DEFINE f == Script[b + 1]
             t == s \o f
             k == Len(s)
             m == Len(f)
  <1>1. b + 1 \in 1..Len(Script)
    BY Constants, LenProperties
  <1>2. f \in Seq(Byte) /\ k \in Nat /\ m \in Nat
    BY <1>1, ScriptFrame, LenProperties
  <1>3. /\ Len(t) = k + m
        /\ \A i \in 1..(k + m) : t[i] = IF i <= k THEN s[i] ELSE f[i - k]
    <2> HIDE DEF f
    <2> QED BY <1>2, ConcatProperties
  <1>4. PICK cut \in [a..b -> 0..k] : TiledBy(s, a, b, cut)
    BY DEF Tiled
  <1>5. a <= b
    BY DEF Tiled
  <1>6. /\ cut[a] = 0 /\ cut[b] = k
        /\ \A i, j \in a..b : i <= j => cut[i] <= cut[j]
        /\ \A j \in a..(b - 1) :
             /\ cut[j + 1] = cut[j] + Len(Script[j + 1])
             /\ \A i \in 1..Len(Script[j + 1]) : s[cut[j] + i] = Script[j + 1][i]
    BY <1>4 DEF TiledBy
  <1> DEFINE c == [j \in a..(b + 1) |-> IF j <= b THEN cut[j] ELSE k + m]
  <1>7. \A j \in a..b : j \in a..(b + 1) /\ c[j] = cut[j] /\ cut[j] \in 0..k
    BY <1>4
  <1>8. b + 1 \in a..(b + 1) /\ c[b + 1] = k + m
    BY <1>5
  <1>9. \A j \in a..(b + 1) : j \in a..b \/ j = b + 1
    OBVIOUS
  <1> HIDE DEF f, t, k, m
  <1>10. c \in [a..(b + 1) -> 0..Len(t)]
    <2>1. \A j \in a..(b + 1) : c[j] \in 0..(k + m)
      BY <1>2, <1>7, <1>8, <1>9
    <2> QED BY <1>3, <2>1
  <1> HIDE DEF c
  <1>11. c[a] = 0 /\ c[b + 1] = Len(t)
    BY <1>3, <1>5, <1>6, <1>7, <1>8
  <1>12. \A i, j \in a..(b + 1) : i <= j => c[i] <= c[j]
    <2> SUFFICES ASSUME NEW i \in a..(b + 1), NEW j \in a..(b + 1), i <= j PROVE c[i] <= c[j]
      OBVIOUS
    <2>1. CASE j = b + 1
      <3>1. c[j] = k + m /\ (c[i] \in 0..k \/ c[i] = k + m)
        BY <1>7, <1>8, <1>9, <2>1
      <3> QED BY <1>2, <3>1
    <2>2. CASE j # b + 1
      <3>1. j \in a..b /\ i \in a..b
        BY <1>9, <2>2
      <3> QED BY <1>6, <1>7, <3>1
    <2> QED BY <2>1, <2>2
  <1>13. ASSUME NEW j \in a..((b + 1) - 1)
         PROVE  /\ c[j + 1] = c[j] + Len(Script[j + 1])
                /\ \A i \in 1..Len(Script[j + 1]) : t[c[j] + i] = Script[j + 1][i]
    <2>1. j \in a..b
      OBVIOUS
    <2>2. CASE j = b
      <3>1. c[j] = k /\ c[j + 1] = k + m /\ Len(Script[j + 1]) = m /\ Script[j + 1] = f
        BY <1>6, <1>7, <1>8, <2>1, <2>2 DEF f, m
      <3>2. ASSUME NEW i \in 1..m PROVE t[k + i] = f[i]
        <4>1. k + i \in 1..(k + m) /\ ~(k + i <= k) /\ (k + i) - k = i
          BY <1>2
        <4> QED BY <1>3, <4>1
      <3> QED BY <3>1, <3>2
    <2>3. CASE j # b
      <3>1. j \in a..(b - 1) /\ j + 1 \in a..b
        BY <2>1, <2>3
      <3>2. c[j] = cut[j] /\ c[j + 1] = cut[j + 1] /\ cut[j] \in 0..k /\ cut[j + 1] \in 0..k
        BY <1>7, <2>1, <3>1
      <3>3. cut[j + 1] = cut[j] + Len(Script[j + 1])
        BY <1>6, <3>1
      <3>4. ASSUME NEW i \in 1..Len(Script[j + 1]) PROVE t[cut[j] + i] = Script[j + 1][i]
        <4>1. j + 1 \in 1..Len(Script)
          <5>1. Len(Script) \in Nat
            BY Constants, LenProperties
          <5> QED BY <3>1, <5>1
        <4>2. Len(Script[j + 1]) \in Nat
          BY <4>1, ScriptFrame
        <4>3. cut[j] + i \in 1..(k + m) /\ cut[j] + i <= k
          <5> DEFINE u == cut[j]
                     v == cut[j + 1]
                     l == Len(Script[j + 1])
          <5>1. u \in 0..k /\ v \in 0..k /\ v = u + l /\ l \in Nat /\ i \in 1..l
            BY <3>2, <3>3, <4>2
          <5> HIDE DEF u, v, l
          <5>2. u + i \in 1..(k + m) /\ u + i <= k
            BY <1>2, <5>1
          <5> QED BY <5>2 DEF u
        <4>4. t[cut[j] + i] = s[cut[j] + i]
          BY <1>3, <4>3
        <4> QED BY <1>6, <3>1, <4>4
      <3> QED BY <3>2, <3>3, <3>4
    <2> QED BY <2>2, <2>3
  <1>14. TiledBy(t, a, b + 1, c)
    BY <1>11, <1>12, <1>13 DEF TiledBy
  <1>15. a <= b + 1
    BY <1>5
  <1>16. Tiled(t, a, b + 1)
    BY <1>10, <1>14, <1>15 DEF Tiled
  <1> QED BY <1>16 DEF t, f

\* What is outstanding begins with the next frame, and goes on as a tiling.
LEMMA TiledFirst ==
  ASSUME NEW s \in Seq(Byte), Len(s) >= 1, NEW a \in Nat, NEW b \in Nat, b <= Len(Script),
         Tiled(s, a, b)
  PROVE  /\ a < b /\ a + 1 \in 1..Len(Script) /\ Len(Script[a + 1]) <= Len(s)
         /\ \A i \in 1..Len(Script[a + 1]) : s[i] = Script[a + 1][i]
         /\ Tiled(SubSeq(s, Len(Script[a + 1]) + 1, Len(s)), a + 1, b)
  <1> DEFINE n == Len(Script[a + 1])
             k == Len(s)
             t == SubSeq(s, n + 1, k)
  <1>1. k \in Nat /\ Len(Script) \in Nat
    BY Constants, LenProperties
  <1>2. PICK cut \in [a..b -> 0..k] : TiledBy(s, a, b, cut)
    BY DEF Tiled
  <1>3. a <= b
    BY DEF Tiled
  <1>4. /\ cut[a] = 0 /\ cut[b] = k
        /\ \A i, j \in a..b : i <= j => cut[i] <= cut[j]
        /\ \A j \in a..(b - 1) :
             /\ cut[j + 1] = cut[j] + Len(Script[j + 1])
             /\ \A i \in 1..Len(Script[j + 1]) : s[cut[j] + i] = Script[j + 1][i]
    BY <1>2 DEF TiledBy
  <1>5. a < b
    <2>1. a # b
      BY <1>4
    <2> QED BY <1>3, <2>1
  <1>6. a + 1 \in 1..Len(Script) /\ a \in a..(b - 1) /\ a \in a..b /\ a + 1 \in a..b
    BY <1>1, <1>5
  <1>7. n \in Nat
    BY <1>6, ScriptFrame
  <1>8. cut[a + 1] = n /\ n <= k
    <2>1. cut[a + 1] = cut[a] + n /\ cut[a + 1] \in 0..k
      BY <1>2, <1>4, <1>6
    <2> HIDE DEF n
    <2> QED BY <1>4, <1>7, <2>1
  <1>9. ASSUME NEW i \in 1..n PROVE s[i] = Script[a + 1][i]
    <2>1. s[cut[a] + i] = Script[a + 1][i]
      BY <1>4, <1>6
    <2>2. cut[a] + i = i
      BY <1>4, <1>7
    <2> QED BY <2>1, <2>2
  <1>10. /\ t \in Seq(Byte) /\ Len(t) = k - n
         /\ \A i \in 1..(k - n) : t[i] = s[n + i]
    <2> HIDE DEF n
    <2> QED BY <1>7, <1>8, Cut
  <1> DEFINE c == [j \in (a + 1)..b |-> cut[j] - n]
  <1> HIDE DEF n, k, t
  <1>11. \A j \in (a + 1)..b : j \in a..b /\ cut[j] \in 0..k /\ n <= cut[j]
    <2>1. \A j \in (a + 1)..b : j \in a..b /\ a + 1 <= j
      OBVIOUS
    <2> QED BY <1>2, <1>4, <1>6, <1>8, <2>1
  <1>12. c \in [(a + 1)..b -> 0..Len(t)]
    <2>1. \A j \in (a + 1)..b : cut[j] - n \in 0..(k - n)
      BY <1>1, <1>7, <1>8, <1>11 DEF k
    <2> QED BY <1>10, <2>1
  <1>13. \A j \in (a + 1)..b : c[j] = cut[j] - n /\ c[j] \in 0..(k - n)
    BY <1>10, <1>12
  <1>14. a + 1 \in (a + 1)..b /\ b \in (a + 1)..b
    BY <1>5
  <1> HIDE DEF c
  <1>15. c[a + 1] = 0 /\ c[b] = Len(t)
    BY <1>4, <1>7, <1>8, <1>10, <1>13, <1>14
  <1>16. ASSUME NEW i \in (a + 1)..b, NEW j \in (a + 1)..b, i <= j PROVE c[i] <= c[j]
    <2>1. cut[i] <= cut[j] /\ cut[i] \in 0..k /\ cut[j] \in 0..k
      BY <1>4, <1>11, <1>16
    <2> QED BY <1>7, <1>13, <2>1
  <1>17. ASSUME NEW j \in (a + 1)..(b - 1)
         PROVE  /\ c[j + 1] = c[j] + Len(Script[j + 1])
                /\ \A i \in 1..Len(Script[j + 1]) : t[c[j] + i] = Script[j + 1][i]
    <2>1. j \in a..(b - 1) /\ j \in (a + 1)..b /\ j + 1 \in (a + 1)..b /\ j + 1 \in 1..Len(Script)
      BY <1>1
    <2> DEFINE l == Len(Script[j + 1])
    <2>2. l \in Nat
      BY <2>1, ScriptFrame
    <2>3. /\ cut[j + 1] = cut[j] + l /\ cut[j] \in 0..k /\ cut[j + 1] \in 0..k
          /\ n <= cut[j] /\ c[j] = cut[j] - n /\ c[j + 1] = cut[j + 1] - n
      BY <1>4, <1>11, <1>13, <2>1
    <2>4. \A i \in 1..l : s[cut[j] + i] = Script[j + 1][i]
      BY <1>4, <2>1
    <2> HIDE DEF l
    <2>5. c[j + 1] = c[j] + l
      BY <1>7, <2>2, <2>3
    <2>6. ASSUME NEW i \in 1..l PROVE t[c[j] + i] = Script[j + 1][i]
      <3>1. c[j] + i \in 1..(k - n) /\ n + (c[j] + i) = cut[j] + i
        <4> DEFINE u == cut[j]
                   v == cut[j + 1]
                   w == c[j]
        <4>1. u \in 0..k /\ v \in 0..k /\ v = u + l /\ n <= u /\ w = u - n
          BY <2>3
        <4> HIDE DEF u, v, w
        <4>2. w + i \in 1..(k - n) /\ n + (w + i) = u + i
          BY <1>1, <1>7, <2>2, <4>1
        <4> QED BY <4>2 DEF u, w
      <3> QED BY <1>10, <2>4, <3>1
    <2> QED BY <2>5, <2>6 DEF l
  <1>18. TiledBy(t, a + 1, b, c)
    BY <1>15, <1>16, <1>17 DEF TiledBy
  <1>19. Tiled(t, a + 1, b)
    <2>1. a + 1 <= b
      BY <1>5
    <2> QED BY <1>12, <1>18, <2>1 DEF Tiled
  <1> QED BY <1>5, <1>6, <1>8, <1>9, <1>19 DEF n, k, t

-----------------------------------------------------------------------------
(* A clean session.  First, what is outstanding.                           *)

LEMMA OutstandingType ==
  ASSUME PathInv
  PROVE  /\ unread \in Seq(Byte) /\ InMailbox \in Seq(Byte) /\ fifo \in Seq(Byte)
         /\ net \in Seq(Byte) /\ fifo \o net \in Seq(Byte)
         /\ InMailbox \o (fifo \o net) \in Seq(Byte) /\ Outstanding \in Seq(Byte)
  <1>1. unread \in Seq(Byte) /\ fifo \in Seq(Byte) /\ net \in Seq(Byte) /\ <<>> \in Seq(Byte)
    BY EmptySeq DEF PathInv, TypeOK
  <1>2. InMailbox \in Seq(Byte)
    BY <1>1, Received DEF PathInv, InMailbox
  <1> DEFINE m == InMailbox
  <1>3. fifo \o net \in Seq(Byte)
    BY <1>1, ConcatProperties
  <1>4. m \in Seq(Byte)
    BY <1>2
  <1> HIDE DEF m
  <1>5. m \o (fifo \o net) \in Seq(Byte)
    BY <1>3, <1>4, ConcatProperties
  <1>6. unread \o (m \o (fifo \o net)) \in Seq(Byte)
    BY <1>1, <1>5, ConcatProperties
  <1> QED BY <1>1, <1>2, <1>3, <1>5, <1>6 DEF m, Outstanding

\* The ring holds the first of what is outstanding.
LEMMA OutstandingFirst ==
  ASSUME PathInv
  PROVE  /\ Len(unread) \in Nat /\ Len(Outstanding) \in Nat /\ Len(unread) <= Len(Outstanding)
         /\ \A i \in 1..Len(unread) : Outstanding[i] = unread[i]
  <1> DEFINE r == InMailbox \o (fifo \o net)
  <1>1. unread \in Seq(Byte) /\ r \in Seq(Byte) /\ Outstanding = unread \o r
    BY OutstandingType DEF Outstanding
  <1> HIDE DEF r
  <1>2. Len(unread) \in Nat /\ Len(r) \in Nat
    BY <1>1, LenProperties
  <1>3. /\ Len(unread \o r) = Len(unread) + Len(r)
        /\ \A i \in 1..(Len(unread) + Len(r)) :
             (unread \o r)[i] = IF i <= Len(unread) THEN unread[i] ELSE r[i - Len(unread)]
    BY <1>1, ConcatProperties
  <1> QED BY <1>1, <1>2, <1>3

\* A frame is handed over: the rest stays outstanding.
LEMMA OutstandingTake ==
  ASSUME PathInv, NEW n \in Nat, n <= Len(unread),
         unread' = SubSeq(unread, n + 1, Len(unread)),
         InMailbox' = InMailbox, UNCHANGED <<fifo, net>>
  PROVE  Outstanding' = SubSeq(Outstanding, n + 1, Len(Outstanding))
  <1> DEFINE r == InMailbox \o (fifo \o net)
             u == SubSeq(unread, n + 1, Len(unread))
             o == unread \o r
             k == Len(unread)
             l == Len(r)
  <1>1. unread \in Seq(Byte) /\ r \in Seq(Byte) /\ Outstanding = o /\ Outstanding' = u \o r
    BY OutstandingType DEF Outstanding
  <1> HIDE DEF r
  <1>2. k \in Nat /\ l \in Nat /\ n <= k
    BY <1>1, LenProperties
  <1>3. /\ o \in Seq(Byte) /\ Len(o) = k + l
        /\ \A i \in 1..(k + l) : o[i] = IF i <= k THEN unread[i] ELSE r[i - k]
    BY <1>1, ConcatProperties
  <1>4. u \in Seq(Byte) /\ Len(u) = k - n /\ \A i \in 1..(k - n) : u[i] = unread[n + i]
    BY <1>1, <1>2, Cut
  <1> HIDE DEF u, k, l, o
  <1>5. /\ u \o r \in Seq(Byte) /\ Len(u \o r) = (k - n) + l
        /\ \A i \in 1..((k - n) + l) : (u \o r)[i] = IF i <= k - n THEN u[i] ELSE r[i - (k - n)]
    <2>1. /\ u \o r \in Seq(Byte) /\ Len(u \o r) = Len(u) + Len(r)
          /\ \A i \in 1..(Len(u) + Len(r)) :
               (u \o r)[i] = IF i <= Len(u) THEN u[i] ELSE r[i - Len(u)]
      BY <1>1, <1>4, ConcatProperties
    <2>2. Len(u) = k - n /\ Len(r) = l
      BY <1>4 DEF l
    <2> QED BY <2>1, <2>2
  <1>6. n <= Len(o)
    BY <1>2, <1>3
  <1> DEFINE q == SubSeq(o, n + 1, Len(o))
  <1>7. q \in Seq(Byte) /\ Len(q) = Len(o) - n /\ \A i \in 1..(Len(o) - n) : q[i] = o[n + i]
    BY <1>3, <1>6, Cut
  <1> HIDE DEF q
  <1>8. Len(u \o r) = Len(q)
    BY <1>2, <1>3, <1>5, <1>7
  <1>9. ASSUME NEW i \in 1..Len(u \o r) PROVE (u \o r)[i] = q[i]
    <2>1. i \in 1..((k - n) + l) /\ i \in 1..(Len(o) - n) /\ n + i \in 1..(k + l)
      BY <1>2, <1>3, <1>5
    <2>2. q[i] = IF n + i <= k THEN unread[n + i] ELSE r[(n + i) - k]
      BY <1>3, <1>7, <2>1
    <2>3. CASE i <= k - n
      <3>1. i \in 1..(k - n) /\ n + i <= k
        BY <1>2, <2>1, <2>3
      <3> QED BY <1>4, <1>5, <2>1, <2>2, <2>3, <3>1
    <2>4. CASE ~(i <= k - n)
      <3>1. ~(n + i <= k) /\ (n + i) - k = i - (k - n)
        BY <1>2, <2>1, <2>4
      <3> QED BY <1>5, <2>1, <2>2, <2>4, <3>1
    <2> QED BY <2>3, <2>4
  <1>10. u \o r = q
    BY <1>5, <1>7, <1>8, <1>9, SeqEqual
  <1> QED BY <1>1, <1>10 DEF q

Joined(u, m, f, n) == u \o (m \o (f \o n))

\* A read is copied, or served, or bytes arrive: nothing is lost.
LEMMA OutstandingMoves ==
  ASSUME NEW u \in Seq(Byte), NEW m \in Seq(Byte), NEW f \in Seq(Byte), NEW n \in Seq(Byte),
         NEW e, e = <<>>
  PROVE  /\ Joined(u \o m, e, f, n) = Joined(u, m, f, n)
         /\ Joined(u, m, f, n) = Joined(u, e, m \o f, n)
         /\ Joined(u, m, f \o n, e) = Joined(u, m, f, n)
  <1> DEFINE r == f \o n
  <1>1. r \in Seq(Byte) /\ m \o f \in Seq(Byte)
    BY ConcatProperties
  <1>2. (m \o f) \o n = m \o r
    BY SMTT(30), ConcatAssociative
  <1> HIDE DEF r
  <1>3. m \o r \in Seq(Byte)
    BY <1>1, ConcatProperties
  <1>4. <<>> \o r = r /\ r \o <<>> = r /\ <<>> \o (m \o r) = m \o r
    BY <1>1, <1>3, ConcatEmptySeq
  <1>5. (u \o m) \o r = u \o (m \o r)
    BY <1>1, ConcatAssociative
  <1> QED BY <1>2, <1>4, <1>5 DEF r, Joined

\* Associativity, named so that a proof can cite one instance of it.
Regrouped(s, t, u) == (s \o t) \o u = s \o (t \o u)
LEMMA Regroup ==
  ASSUME NEW s \in Seq(Byte), NEW t \in Seq(Byte), NEW u \in Seq(Byte)
  PROVE  Regrouped(s, t, u)
  BY ConcatAssociative DEF Regrouped

\* A frame is sent, in two pieces: it is outstanding behind all others.
Grown(u, m, f, x, y) == Joined(u, m, f \o x, y) = Joined(u, m, f, <<>>) \o (x \o y)
LEMMA OutstandingGrows ==
  ASSUME NEW u \in Seq(Byte), NEW m \in Seq(Byte), NEW f \in Seq(Byte),
         NEW x \in Seq(Byte), NEW y \in Seq(Byte)
  PROVE  Grown(u, m, f, x, y)
  <1> DEFINE g == x \o y
             z == m \o f
  <1>1. g \in Seq(Byte) /\ z \in Seq(Byte)
    BY ConcatProperties
  <1>2. Regrouped(f, x, y)
    BY Regroup
  <1>3. f \o <<>> = f
    BY ConcatEmptySeq
  <1> HIDE DEF g, z
  <1>4. Regrouped(m, f, g) /\ Regrouped(u, z, g)
    BY <1>1, Regroup
  <1> QED BY <1>2, <1>3, <1>4 DEF g, z, Joined, Regrouped, Grown

-----------------------------------------------------------------------------
(* The invariant of a clean session, step by step.                         *)

\* In a session that is not connected: nothing has been read or written.
LEMMA NotConnectedInv ==
  ASSUME CleanInv, clean, ~Connected, ~Connected', InStep', garbled' = garbled,
         UNCHANGED <<seen, unread, outbound>>
  PROVE  CleanInv'
  BY DEF CleanInv, Fresh, outbound

\* In a session that is connected, when nothing is read or handed over.
LEMMA ConnectedInv ==
  ASSUME CleanInv, clean, Connected, Connected', InStep', garbled' = garbled,
         Outstanding' = Outstanding, seen' = seen, sent' = sent, WritesSound'
  PROVE  CleanInv'
  <1>1. Tiled(Outstanding, seen, sent)
    BY DEF CleanInv
  <1>2. Tiled(Outstanding', seen', sent')
    BY <1>1
  <1>3. Tiled(Outstanding, seen, sent)'
    BY <1>2 DEF Tiled, TiledBy
  <1> QED BY <1>3 DEF CleanInv

\* A step of the console that only goes on to its next call.
LEMMA QuietInv ==
  ASSUME CleanInv, clean, Connected, Connected', InStep', ~Unserved', ~Delivered("WRITE")',
         InMailbox' = InMailbox, UNCHANGED <<stream, buffer, outbound>>
  PROVE  CleanInv'
  <1>1. Outstanding' = Outstanding /\ seen' = seen /\ sent' = sent /\ garbled' = garbled
    BY DEF Outstanding, stream, buffer
  <1>2. WritesSound'
    BY DEF CleanInv, WritesSound, outbound
  <1> QED BY <1>1, <1>2, ConnectedInv

LEMMA MailboxEmpty ==
  ASSUME ~Delivered("READ")
  PROVE  InMailbox = <<>>
  BY DEF InMailbox

\* In step: a request is under way only while the console polls for it.
LEMMA InStepFacts ==
  ASSUME PathInv, InStep
  PROVE  /\ pc # "poll" => job = NoJob /\ ackseq = fnseq
         /\ ackseq = fnseq => job = NoJob
         /\ job # NoJob => /\ pc = "poll" /\ ackseq # fnseq /\ job.seq = fnseq
                           /\ job.cmd = req.cmd /\ job.arg = req.arg
  BY DEF InStep

LEMMA StagesClean ==
  ASSUME PathInv, CleanInv, Open \/ Pump \/ Write \/ WriteSeq
  PROVE  CleanInv'
  <1>1. clean' = clean
    BY DEF Open, Pump, Write, WriteSeq
  <1> SUFFICES ASSUME clean PROVE CleanInv'
    BY <1>1 DEF CleanInv
  <1>2. InStep
    BY DEF CleanInv
  <1>3. CASE Open
    <2>1. /\ pc = "boot" /\ pc' = "stage" /\ req'.cmd = "OPEN"
          /\ UNCHANGED <<fnseq, ackseq, job, seen, unread, garbled, outbound>>
      BY <1>3 DEF Open, Stage, buffer
    <2>2. InStep'
      BY <1>2, <2>1, InStepFacts DEF InStep
    <2>3. ~Connected /\ ~Connected'
      BY <2>1 DEF Connected, Delivered
    <2> QED BY <2>1, <2>2, <2>3, NotConnectedInv
  <1>4. CASE Pump
    <2>1. /\ pc = "idle" /\ pc' = "stage" /\ req'.cmd = "STATUS"
          /\ UNCHANGED <<fnseq, ackseq, job, stream, buffer, outbound>>
      BY <1>4 DEF Pump, Stage
    <2>2. InStep'
      BY <1>2, <2>1, InStepFacts DEF InStep
    <2>3. Connected /\ Connected' /\ ~Unserved' /\ ~Delivered("WRITE")'
          /\ ~Delivered("READ") /\ ~Delivered("READ")'
      BY <2>1 DEF Connected, Delivered, Unserved
    <2>4. InMailbox' = InMailbox
      BY <2>3 DEF InMailbox
    <2> QED BY <2>1, <2>2, <2>3, <2>4, QuietInv
  <1>5. CASE Write
    <2>1. /\ pc = "idle" /\ pc' = "stage" /\ req'.cmd = "WRITE" /\ req'.arg = writes + 1
          /\ writes' = writes + 1
          /\ UNCHANGED <<fnseq, ackseq, job, stream, buffer, written, up>>
      BY <1>5 DEF Write, Stage
    <2>2. InStep'
      BY <1>2, <2>1, InStepFacts DEF InStep
    <2>3. Connected /\ Connected' /\ ~Delivered("WRITE")'
          /\ ~Delivered("READ") /\ ~Delivered("READ")'
      BY <2>1 DEF Connected, Delivered
    <2>4. InMailbox' = InMailbox
      BY <2>3 DEF InMailbox
    <2>5. Outstanding' = Outstanding /\ seen' = seen /\ sent' = sent /\ garbled' = garbled
      BY <2>1, <2>4 DEF Outstanding, stream, buffer
    <2>6. WritesSound'
      <3>1. WritesSound
        BY <2>3 DEF CleanInv
      <3>2. writes \in Nat /\ up \in Seq(Nat) /\ \A i \in 1..Len(up) : up[i] \in Nat
        BY SMTT(30), ElementOfSeq DEF PathInv, TypeOK
      <3>3. \A i \in 1..Len(up) : up[i] <= writes
        BY <3>1 DEF WritesSound
      <3>4. \A i \in 1..Len(up) : up[i] < writes + 1 /\ up[i] <= writes + 1
        BY <3>2, <3>3
      <3> QED BY <2>1, <2>3, <3>1, <3>4 DEF WritesSound
    <2> QED BY <2>2, <2>3, <2>5, <2>6, ConnectedInv
  <1>6. CASE WriteSeq
    <2>1. /\ pc = "stage" /\ pc' = "poll" /\ fnseq' = NextSeq(ackseq)
          /\ UNCHANGED <<req, ackseq, job, acked, stream, buffer, outbound>>
      BY <1>6 DEF WriteSeq
    <2>2. fnseq' # ackseq /\ job = NoJob
      BY <1>2, <2>1, NextSeqType, InStepFacts DEF PathInv, TypeOK
    <2>3. InStep'
      BY <2>1, <2>2 DEF InStep
    <2>4. \A cmd \in Commands : ~Delivered(cmd) /\ ~Delivered(cmd)'
      BY <2>1, <2>2 DEF Delivered
    <2>5. Connected' = Connected
      BY <2>1, <2>4 DEF Connected, Commands
    <2>6. CASE ~Connected
      BY <2>1, <2>3, <2>5, <2>6, NotConnectedInv DEF buffer
    <2>7. CASE Connected
      <3>1. InMailbox' = InMailbox
        BY <2>4 DEF InMailbox, Commands
      <3>2. Outstanding' = Outstanding /\ seen' = seen /\ sent' = sent /\ garbled' = garbled
        BY <2>1, <3>1 DEF Outstanding, stream, buffer
      <3>3. WritesSound /\ (Unserved' => Unserved)
        BY <2>1, <2>7 DEF CleanInv, Unserved
      <3>4. WritesSound'
        BY <2>1, <2>4, <3>3 DEF WritesSound, Commands, outbound
      <3> QED BY <2>3, <2>5, <2>7, <3>2, <3>4, ConnectedInv
    <2> QED BY <2>6, <2>7
  <1> QED BY <1>3, <1>4, <1>5, <1>6

LEMMA AnswersClean ==
  ASSUME PathInv, CleanInv, TimeOut \/ Refused \/ OpenDone \/ WriteDone \/ StatusDone
  PROVE  CleanInv'
  <1>1. CASE TimeOut
    BY <1>1 DEF TimeOut, CleanInv
  <1>2. ASSUME Refused \/ OpenDone \/ WriteDone \/ StatusDone PROVE CleanInv'
    <2>1. clean' = clean
      BY <1>2 DEF Refused, OpenDone, WriteDone, StatusDone
    <2> SUFFICES ASSUME clean PROVE CleanInv'
      BY <2>1 DEF CleanInv
    <2>2. InStep /\ pc = "poll" /\ ackseq = fnseq /\ job = NoJob
      BY <1>2, InStepFacts DEF CleanInv, Refused, OpenDone, WriteDone, StatusDone, Answered
    <2>3. CASE Refused
      <3>1. /\ ~acked /\ AfterFailure /\ UNCHANGED <<mailbox, stream, buffer, outbound>>
        BY <2>3 DEF Refused
      <3>2. /\ pc' \in {"local", "idle", "parse"} /\ (pc' = "local" <=> req.cmd = "OPEN")
            /\ UNCHANGED <<req, fnseq, ackseq, job>>
        BY <3>1 DEF AfterFailure, mailbox
      <3>3. InStep'
        BY <2>2, <3>2 DEF InStep
      <3>4. \A cmd \in Commands : ~Delivered(cmd) /\ ~Delivered(cmd)'
        BY <3>1, <3>2 DEF Delivered
      <3>5. CASE req.cmd = "OPEN"
        <4>1. ~Connected /\ ~Connected'
          BY <2>2, <3>2, <3>4, <3>5 DEF Connected, Commands
        <4> QED BY <3>1, <3>3, <4>1, NotConnectedInv DEF buffer
      <3>6. CASE req.cmd # "OPEN"
        <4>1. Connected /\ Connected' /\ ~Unserved' /\ ~Delivered("WRITE")'
          BY <2>2, <3>2, <3>4, <3>6 DEF Connected, Unserved, Commands
        <4>2. InMailbox' = InMailbox
          BY <3>4 DEF InMailbox, Commands
        <4> QED BY <3>1, <3>3, <4>1, <4>2, QuietInv
      <3> QED BY <3>5, <3>6
    <2>4. CASE OpenDone
      <3>1. /\ Delivered("OPEN") /\ pc' = "idle" /\ UNCHANGED <<mailbox, stream, buffer, outbound>>
        BY <2>4 DEF OpenDone, Answered, Delivered
      <3>2. InStep'
        BY <2>2, <3>1 DEF InStep, mailbox
      <3>3. Connected /\ Connected' /\ ~Unserved' /\ ~Delivered("WRITE")'
            /\ ~Delivered("READ") /\ ~Delivered("READ")'
        BY <3>1 DEF Connected, Unserved, Delivered
      <3>4. InMailbox' = InMailbox
        BY <3>3 DEF InMailbox
      <3> QED BY <3>1, <3>2, <3>3, <3>4, QuietInv
    <2>5. CASE WriteDone
      <3>1. /\ Delivered("WRITE") /\ pc' = "idle" /\ written' = written + 1
            /\ UNCHANGED <<mailbox, stream, buffer, writes, up>>
        BY <2>5 DEF WriteDone, Answered, Delivered
      <3>2. InStep'
        BY <2>2, <3>1 DEF InStep, mailbox
      <3>3. Connected /\ Connected' /\ ~Unserved' /\ ~Delivered("WRITE")'
            /\ ~Delivered("READ") /\ ~Delivered("READ")'
        BY <3>1 DEF Connected, Unserved, Delivered
      <3>4. InMailbox' = InMailbox
        BY <3>3 DEF InMailbox
      <3>5. Outstanding' = Outstanding /\ seen' = seen /\ sent' = sent /\ garbled' = garbled
        BY <3>1, <3>4 DEF Outstanding, stream, buffer
      <3>6. WritesSound'
        <4>1. WritesSound
          BY <3>3 DEF CleanInv
        <4>2. written < Len(up) /\ written \in Nat /\ Len(up) \in Nat
          BY <3>1, <4>1, LenProperties DEF WritesSound, PathInv, TypeOK
        <4>3. written + 1 <= Len(up)
          BY <4>2
        <4> QED BY <3>1, <3>3, <4>1, <4>3 DEF WritesSound
      <3> QED BY <3>2, <3>3, <3>5, <3>6, ConnectedInv
    <2>6. CASE StatusDone
      <3>1. /\ req.cmd = "STATUS" /\ pc' \in {"stage", "parse"}
            /\ pc' = "stage" => req'.cmd = "READ"
            /\ UNCHANGED <<fnseq, ackseq, job, stream, buffer, outbound>>
        <4> DEFINE avail == rx[1] + ByteSize * rx[2]
        <4>1. /\ req.cmd = "STATUS" /\ UNCHANGED <<stream, buffer, outbound>>
              /\ \/ Stage("READ", ReadLength(avail))
                 \/ pc' = "parse" /\ UNCHANGED mailbox
          BY <2>6 DEF StatusDone, Answered
        <4> DEFINE n == ReadLength(avail)
        <4>2. CASE Stage("READ", n)
          <5> HIDE DEF n
          <5>1. /\ req' = [cmd |-> "READ", arg |-> n] /\ pc' = "stage"
                /\ UNCHANGED <<fnseq, ackseq, job>>
            BY <4>2 DEF Stage
          <5>2. req'.cmd = "READ"
            BY <5>1
          <5> QED BY <4>1, <5>1, <5>2
        <4>3. CASE pc' = "parse" /\ UNCHANGED mailbox
          BY <4>1, <4>3 DEF mailbox
        <4> QED BY <4>1, <4>2, <4>3
      <3>2. InStep'
        BY <2>2, <3>1 DEF InStep
      <3>3. Connected /\ Connected' /\ ~Unserved' /\ ~Delivered("WRITE")'
            /\ ~Delivered("READ") /\ ~Delivered("READ")'
        BY <2>2, <3>1 DEF Connected, Unserved, Delivered
      <3>4. InMailbox' = InMailbox
        BY <3>3 DEF InMailbox
      <3> QED BY <3>1, <3>2, <3>3, <3>4, QuietInv
    <2> QED BY <1>2, <2>3, <2>4, <2>5, <2>6
  <1> QED BY <1>1, <1>2

LEMMA ReadClean ==
  ASSUME PathInv, CleanInv, ReadDone
  PROVE  CleanInv'
  <1> DEFINE m == SubSeq(rx, 1, rxlen)
  <1>1. /\ pc = "poll" /\ ackseq = fnseq /\ req.cmd = "READ" /\ acked /\ pc' = "parse"
        /\ unread' = unread \o m /\ clean' = clean
        /\ UNCHANGED <<mailbox, stream, seen, garbled, outbound>>
    BY DEF ReadDone, Answered
  <1> SUFFICES ASSUME clean PROVE CleanInv'
    BY <1>1 DEF CleanInv
  <1>2. /\ Delivered("READ") /\ ~Delivered("READ")' /\ Connected /\ Connected'
        /\ ~Unserved' /\ ~Delivered("WRITE")'
    BY <1>1 DEF Delivered, Connected, Unserved
  <1>3. InStep'
    BY <1>1, InStepFacts DEF CleanInv, InStep, mailbox
  <1>4. Outstanding' = Outstanding
    <2>1. InMailbox = m /\ InMailbox' = <<>>
      BY <1>2 DEF InMailbox
    <2>2. unread \in Seq(Byte) /\ m \in Seq(Byte) /\ fifo \in Seq(Byte) /\ net \in Seq(Byte)
      BY <2>1, OutstandingType
    <2> HIDE DEF m
    <2>3. Joined(unread \o m, <<>>, fifo, net) = Joined(unread, m, fifo, net)
      BY <2>2, OutstandingMoves
    <2> QED BY <1>1, <2>1, <2>3 DEF Outstanding, Joined, stream
  <1>5. WritesSound'
    BY <1>1, <1>2 DEF CleanInv, WritesSound, outbound
  <1>6. seen' = seen /\ sent' = sent /\ garbled' = garbled
    BY <1>1 DEF stream
  <1> QED BY <1>2, <1>3, <1>4, <1>5, <1>6, ConnectedInv

\* What the parser finds at the read end of the ring: the server's next frame.
LEMMA NextFrame ==
  ASSUME PathInv, CleanInv, clean, pc = "parse", Buffered >= 2
  PROVE  /\ seen < sent /\ seen + 1 \in 1..Len(Script) /\ Legal
         /\ unread[1] + 1 = Len(Script[seen + 1])
         /\ \A i \in 1..Len(unread) :
              i <= Len(Script[seen + 1]) => unread[i] = Script[seen + 1][i]
         /\ Tiled(SubSeq(Outstanding, Len(Script[seen + 1]) + 1, Len(Outstanding)),
                  seen + 1, sent)
  <1> DEFINE o == Outstanding
             f == Script[seen + 1]
  <1>1. /\ unread \in Seq(Byte) /\ Len(unread) \in Nat /\ Len(unread) >= 2
        /\ ring[At(0)] = unread[1] /\ ring[At(1)] = unread[2]
    BY Parsed
  <1>2. /\ o \in Seq(Byte) /\ Len(o) \in Nat /\ Len(unread) <= Len(o)
        /\ \A i \in 1..Len(unread) : o[i] = unread[i]
    BY OutstandingType, OutstandingFirst
  <1>3. Tiled(o, seen, sent)
    BY DEF CleanInv, Connected
  <1>4. seen \in Nat /\ sent \in Nat /\ sent <= Len(Script) /\ Len(o) >= 1
    BY <1>1, <1>2, Constants, LenProperties DEF PathInv, TypeOK
  <1> HIDE DEF o
  <1>5. /\ seen < sent /\ seen + 1 \in 1..Len(Script) /\ Len(f) <= Len(o)
        /\ \A i \in 1..Len(f) : o[i] = f[i]
        /\ Tiled(SubSeq(o, Len(f) + 1, Len(o)), seen + 1, sent)
    BY <1>2, <1>3, <1>4, TiledFirst
  <1>6. f \in Seq(Byte) /\ Len(f) \in Nat /\ Len(f) >= 2 /\ f[1] \in Lens[f[2]]
        /\ Len(f) = f[1] + 1
    BY <1>5, ScriptFrame
  <1> HIDE DEF f
  <1>7. \A i \in 1..Len(unread) : i <= Len(f) => unread[i] = f[i]
    BY <1>1, <1>2, <1>5, <1>6
  <1>8. unread[1] = f[1] /\ unread[2] = f[2]
    BY <1>1, <1>6, <1>7
  <1>9. Legal
    BY <1>1, <1>6, <1>8 DEF Legal
  <1> QED BY <1>5, <1>6, <1>7, <1>8, <1>9 DEF o, f

LEMMA ParserClean ==
  ASSUME PathInv, CleanInv, Slip \/ Extract \/ PumpDone
  PROVE  CleanInv'
  <1>1. /\ clean' = clean /\ pc = "parse" /\ pc' \in {"parse", "idle"}
        /\ UNCHANGED <<mailbox, stream, outbound>>
    BY DEF Slip, Extract, PumpDone
  <1> SUFFICES ASSUME clean PROVE CleanInv'
    BY <1>1 DEF CleanInv
  <1>2. InStep'
    BY <1>1, InStepFacts DEF CleanInv, InStep, mailbox
  <1>3. /\ ~Delivered("READ") /\ ~Delivered("READ")' /\ Connected /\ Connected'
        /\ ~Unserved' /\ ~Delivered("WRITE")'
    BY <1>1 DEF Delivered, Connected, Unserved
  <1>4. InMailbox' = InMailbox
    BY <1>3 DEF InMailbox
  <1>5. CASE Slip
    <2>1. Buffered >= 2 /\ ~Legal
      BY <1>5 DEF Slip
    <2> QED BY <1>1, <2>1, NextFrame
  <1>6. CASE PumpDone
    BY <1>1, <1>2, <1>3, <1>4, <1>6, QuietInv DEF PumpDone
  <1>7. CASE Extract
    <2> DEFINE n == ring[At(0)] + 1
               f == Script[seen + 1]
               frame == [i \in 1..n |-> ring[At(i - 1)]]
    <2>1. /\ Buffered >= 2 /\ Buffered >= n /\ seen' = seen + 1
          /\ garbled' = (garbled \/ seen = sent \/ frame # f)
          /\ unread' = SubSeq(unread, n + 1, Len(unread))
      BY <1>7 DEF Extract, Whole
    <2>2. /\ unread \in Seq(Byte) /\ Len(unread) \in Nat /\ Buffered = Len(unread)
          /\ ring[At(0)] = unread[1] /\ unread[1] \in Nat
      BY <2>1, Parsed
    <2>3. /\ seen < sent /\ seen + 1 \in 1..Len(Script) /\ unread[1] + 1 = Len(f)
          /\ \A i \in 1..Len(unread) : i <= Len(f) => unread[i] = f[i]
          /\ Tiled(SubSeq(Outstanding, Len(f) + 1, Len(Outstanding)), seen + 1, sent)
      BY <1>1, <2>1, NextFrame
    <2>4. n = Len(f) /\ n \in Nat /\ n <= Len(unread)
      BY <2>1, <2>2, <2>3
    <2>5. f \in Seq(Byte)
      BY <2>3, ScriptFrame
    <2>6. frame = f
      <3>1. f = [i \in 1..Len(f) |-> f[i]]
        <4> HIDE DEF f
        <4> QED BY <2>5
      <3>2. ASSUME NEW i \in 1..n PROVE ring[At(i - 1)] = f[i]
        <4>1. i \in 1..Len(unread) /\ i <= Len(f)
          BY <2>2, <2>4
        <4>2. ring[At(i - 1)] = unread[i]
          BY <4>1 DEF PathInv, RingHolds
        <4> QED BY <2>3, <4>1, <4>2
      <3> HIDE DEF f, n
      <3>3. frame = [i \in 1..n |-> f[i]]
        BY <3>2
      <3> QED BY <2>4, <3>1, <3>3
    <2>7. garbled' = FALSE
      <3>1. ~garbled /\ seen # sent
        BY <2>3 DEF CleanInv, PathInv, TypeOK
      <3> HIDE DEF frame, f
      <3> QED BY <2>1, <2>6, <3>1
    <2>8. Outstanding' = SubSeq(Outstanding, n + 1, Len(Outstanding))
      <3> HIDE DEF n
      <3> QED BY <1>1, <1>4, <2>1, <2>4, OutstandingTake DEF stream
    <2>9. Tiled(Outstanding', seen', sent')
      <3>1. sent' = sent
        BY <1>1 DEF stream
      <3> HIDE DEF n, f
      <3> QED BY <2>1, <2>3, <2>4, <2>8, <3>1
    <2>10. Tiled(Outstanding, seen, sent)'
      BY <2>9 DEF Tiled, TiledBy
    <2>11. WritesSound'
      BY <1>1, <1>3 DEF CleanInv, WritesSound, outbound
    <2> QED BY <1>2, <1>3, <2>7, <2>10, <2>11 DEF CleanInv
  <1> QED BY <1>5, <1>6, <1>7

\* The console reads out of FN_RX what the peripheral put in.
LEMMA ReplyRead ==
  ASSUME PathInv, PathInv', NEW bytes \in Seq(Byte), Len(bytes) <= ReadMax, Reply(bytes)
  PROVE  SubSeq(rx', 1, rxlen') = bytes
  <1> DEFINE q == SubSeq(rx', 1, rxlen')
  <1>1. /\ rxlen' = Len(bytes) /\ Len(bytes) \in Nat
        /\ rx' = [i \in 1..RxSize |-> IF i <= Len(bytes) THEN bytes[i] ELSE rx[i]]
    BY LenProperties DEF Reply
  <1>2. TypeOK'
    BY DEF PathInv
  <1>3. q \in Seq(Byte) /\ Len(q) = rxlen' /\ \A i \in 1..rxlen' : q[i] = rx'[i]
    <2>1. rx' \in [1..RxSize -> Byte] /\ rxlen' \in 0..ReadMax
      BY <1>2 DEF TypeOK
    <2> QED BY <2>1, FirstCells
  <1> HIDE DEF q
  <1>4. ASSUME NEW i \in 1..Len(q) PROVE q[i] = bytes[i]
    <2>1. i \in 1..RxSize /\ i <= Len(bytes) /\ i \in 1..rxlen'
      BY <1>1, <1>3, Constants
    <2> QED BY <1>1, <1>3, <2>1
  <1> QED BY <1>1, <1>3, <1>4, SeqEqual DEF q

\* The peripheral takes a request.
LEMMA TakeJobClean ==
  ASSUME PathInv, CleanInv, TakeJob
  PROVE  CleanInv'
  <1>1. /\ job = NoJob /\ fnseq # ackseq /\ clean' = clean
        /\ job' = [cmd |-> req.cmd, arg |-> req.arg, seq |-> fnseq]
        /\ UNCHANGED <<pc, req, fnseq, ackseq, acked, rx, rxlen, stream, buffer, outbound>>
    BY DEF TakeJob
  <1> SUFFICES ASSUME clean PROVE CleanInv'
    BY <1>1 DEF CleanInv
  <1>2. InStep'
    BY <1>1 DEF CleanInv, InStep
  <1>3. /\ Connected' = Connected /\ Unserved' = Unserved
        /\ Delivered("WRITE")' = Delivered("WRITE") /\ InMailbox' = InMailbox
    BY <1>1 DEF Connected, Delivered, Unserved, InMailbox
  <1>4. garbled' = garbled /\ UNCHANGED <<seen, sent, unread>>
    BY <1>1 DEF buffer, stream
  <1>5. CASE ~Connected
    BY <1>1, <1>2, <1>3, <1>4, <1>5, NotConnectedInv
  <1>6. CASE Connected
    <2>1. Outstanding' = Outstanding
      BY <1>1, <1>3, <1>4 DEF Outstanding, stream
    <2>2. WritesSound'
      BY <1>1, <1>3, <1>6 DEF CleanInv, WritesSound, outbound
    <2> QED BY <1>2, <1>3, <1>4, <1>6, <2>1, <2>2, ConnectedInv
  <1> QED BY <1>5, <1>6

\* The peripheral answers: the answer is to the request the console polls for.
LEMMA AnswerInStep ==
  ASSUME PathInv, InStep, job # NoJob, ackseq' = job.seq, job' = NoJob,
         UNCHANGED <<pc, req, fnseq>>
  PROVE  /\ pc = "poll" /\ ackseq # fnseq /\ ackseq' = fnseq
         /\ job.cmd = req.cmd /\ job.arg = req.arg /\ InStep'
         /\ \A cmd \in Commands : /\ ~Delivered(cmd)
                                  /\ Delivered(cmd)' <=> (acked' /\ req.cmd = cmd)
  <1>1. /\ pc = "poll" /\ ackseq # fnseq /\ ackseq' = fnseq
        /\ job.cmd = req.cmd /\ job.arg = req.arg
    BY InStepFacts
  <1>2. InStep'
    BY <1>1 DEF InStep
  <1> QED BY <1>1, <1>2 DEF Delivered

LEMMA ServeOpenClean ==
  ASSUME PathInv, CleanInv, ServeOpen
  PROVE  CleanInv'
  <1>1. /\ job.cmd = "OPEN" /\ acked' = TRUE /\ ackseq' = job.seq /\ job' = NoJob
        /\ net' = <<>> /\ fifo' = <<>> /\ sent' = 0 /\ clean' = clean
        /\ UNCHANGED <<pc, req, fnseq, buffer, outbound>>
    BY DEF ServeOpen, Reply
  <1> SUFFICES ASSUME clean PROVE CleanInv'
    BY <1>1 DEF CleanInv
  <1>2. job # NoJob /\ InStep
    BY <1>1 DEF NoJob, CleanInv
  <1>3. /\ pc = "poll" /\ req.cmd = "OPEN" /\ InStep'
        /\ \A cmd \in Commands : ~Delivered(cmd) /\ (Delivered(cmd)' <=> req.cmd = cmd)
    BY <1>1, <1>2, AnswerInStep
  <1>4. /\ ~Connected /\ Connected' /\ ~Delivered("READ")' /\ ~Delivered("WRITE")'
        /\ ~Unserved'
    BY <1>1, <1>3 DEF Connected, Commands, Unserved
  <1>5. Fresh /\ ~garbled
    BY <1>4 DEF CleanInv
  <1>6. Tiled(Outstanding, seen, sent)'
    <2>1. InMailbox' = <<>>
      BY <1>4 DEF InMailbox
    <2>2. Outstanding' = <<>>
      <3>1. <<>> \o <<>> = <<>>
        BY ConcatEmptySeq, EmptySeq
      <3>2. unread' = <<>>
        BY <1>1, <1>5 DEF Fresh, buffer
      <3> QED BY <1>1, <2>1, <3>1, <3>2 DEF Outstanding
    <2>3. seen' = 0 /\ Tiled(<<>>, 0, 0)
      BY <1>1, <1>5, TiledNothing DEF Fresh, buffer
    <2>4. Tiled(Outstanding', seen', sent')
      BY <1>1, <2>2, <2>3
    <2> QED BY <2>4 DEF Tiled, TiledBy
  <1>7. WritesSound'
    <2>1. up' = <<>> /\ writes' = 0 /\ written' = 0
      BY <1>1, <1>5 DEF Fresh, outbound
    <2>2. Len(up') = 0
      BY <2>1
    <2> QED BY <1>4, <2>1, <2>2 DEF WritesSound
  <1> QED BY <1>1, <1>3, <1>4, <1>5, <1>6, <1>7 DEF CleanInv, buffer

LEMMA ServeStatusClean ==
  ASSUME PathInv, CleanInv, ServeStatus
  PROVE  CleanInv'
  <1>1. /\ job.cmd = "STATUS" /\ acked' = TRUE /\ ackseq' = job.seq /\ job' = NoJob
        /\ clean' = clean /\ UNCHANGED <<pc, req, fnseq, stream, buffer, outbound>>
    BY DEF ServeStatus, Reply
  <1> SUFFICES ASSUME clean PROVE CleanInv'
    BY <1>1 DEF CleanInv
  <1>2. job # NoJob /\ InStep
    BY <1>1 DEF NoJob, CleanInv
  <1>3. /\ pc = "poll" /\ req.cmd = "STATUS" /\ InStep'
        /\ \A cmd \in Commands : ~Delivered(cmd) /\ (Delivered(cmd)' <=> req.cmd = cmd)
    BY <1>1, <1>2, AnswerInStep
  <1>4. /\ Connected /\ Connected' /\ ~Delivered("WRITE")' /\ ~Unserved'
        /\ ~Delivered("READ") /\ ~Delivered("READ")'
    BY <1>1, <1>3 DEF Connected, Commands, Unserved
  <1>5. InMailbox' = InMailbox
    BY <1>4 DEF InMailbox
  <1> QED BY <1>1, <1>3, <1>4, <1>5, QuietInv

LEMMA RefuseClean ==
  ASSUME PathInv, CleanInv, Refuse
  PROVE  CleanInv'
  <1>1. /\ job # NoJob /\ acked' = FALSE /\ ackseq' = job.seq /\ job' = NoJob
        /\ clean' = clean /\ UNCHANGED <<pc, req, fnseq, stream, buffer, outbound>>
    BY DEF Refuse
  <1> SUFFICES ASSUME clean PROVE CleanInv'
    BY <1>1 DEF CleanInv
  <1>2. InStep
    BY DEF CleanInv
  <1>3. /\ pc = "poll" /\ ackseq' = fnseq /\ InStep'
        /\ \A cmd \in Commands : ~Delivered(cmd) /\ ~Delivered(cmd)'
    BY <1>1, <1>2, AnswerInStep
  <1>4. ~Delivered("WRITE")' /\ ~Unserved' /\ InMailbox' = InMailbox
    BY <1>1, <1>3 DEF Unserved, Commands, InMailbox
  <1>5. Connected' = Connected
    BY <1>1, <1>3 DEF Connected, Commands
  <1>6. CASE ~Connected
    <2>1. garbled' = garbled /\ UNCHANGED <<seen, unread, outbound>>
      BY <1>1 DEF buffer
    <2> QED BY <1>3, <1>5, <1>6, <2>1, NotConnectedInv
  <1>7. CASE Connected
    BY <1>1, <1>3, <1>4, <1>5, <1>7, QuietInv
  <1> QED BY <1>6, <1>7

\* A read asks for what FN_RX and the ring can take.
LEMMA ReadJob ==
  ASSUME PathInv, job.cmd = "READ"
  PROVE  job # NoJob /\ job.arg \in Nat /\ job.arg <= ReadMax
  BY DEF PathInv, TypeOK, RequestsSound, Job, NoJob

LEMMA ServeReadClean ==
  ASSUME PathInv, PathInv', CleanInv, ServeRead
  PROVE  CleanInv'
  <1> DEFINE n == IF job.arg < Len(fifo) THEN job.arg ELSE Len(fifo)
             m == SubSeq(fifo, 1, n)
             g == SubSeq(fifo, n + 1, Len(fifo))
  <1>1. /\ job.cmd = "READ" /\ Reply(m) /\ fifo' = g /\ clean' = clean
        /\ UNCHANGED <<pc, net, sent, buffer, outbound>>
    BY DEF ServeRead
  <1> SUFFICES ASSUME clean PROVE CleanInv'
    BY <1>1 DEF CleanInv
  <1>2. /\ job # NoJob /\ InStep /\ job.arg \in Nat /\ job.arg <= ReadMax
    <2>1. job.cmd = "READ"
      BY <1>1
    <2>2. job # NoJob /\ job.arg \in Nat /\ job.arg <= ReadMax
      BY <2>1, ReadJob
    <2> QED BY <2>2 DEF CleanInv
  <1>3. fifo \in Seq(Byte) /\ Len(fifo) \in Nat
    BY LenProperties DEF PathInv, TypeOK
  <1>4. n \in Nat /\ n <= Len(fifo) /\ n <= ReadMax
    BY <1>2, <1>3, Constants
  <1> HIDE DEF n
  <1>5. m \in Seq(Byte) /\ Len(m) = n /\ g \in Seq(Byte) /\ m \o g = fifo
    BY <1>3, <1>4, Cut
  <1> HIDE DEF m, g
  <1>6. /\ acked' = TRUE /\ ackseq' = job.seq /\ job' = NoJob /\ UNCHANGED <<req, fnseq>>
    BY <1>1 DEF Reply
  <1>7. /\ pc = "poll" /\ req.cmd = "READ" /\ InStep' /\ ackseq' = fnseq
        /\ \A cmd \in Commands : ~Delivered(cmd) /\ (Delivered(cmd)' <=> req.cmd = cmd)
    BY <1>1, <1>2, <1>6, AnswerInStep
  <1>8. /\ Connected /\ Connected' /\ ~Delivered("WRITE")' /\ ~Unserved'
        /\ ~Delivered("READ") /\ Delivered("READ")'
    BY <1>1, <1>6, <1>7 DEF Connected, Commands, Unserved
  <1>9. InMailbox = <<>> /\ InMailbox' = m
    <2>1. Len(m) <= ReadMax
      BY <1>4, <1>5
    <2>2. SubSeq(rx', 1, rxlen') = m
      BY <1>1, <1>5, <2>1, ReplyRead
    <2> QED BY <1>8, <2>2 DEF InMailbox
  <1>10. Outstanding' = Outstanding
    <2>1. unread \in Seq(Byte) /\ net \in Seq(Byte)
      BY OutstandingType
    <2>2. Joined(unread, m, g, net) = Joined(unread, <<>>, m \o g, net)
      <3>1. m \in Seq(Byte) /\ g \in Seq(Byte)
        BY <1>5
      <3> QED BY <2>1, <3>1, OutstandingMoves
    <2>3. Outstanding' = Joined(unread, m, g, net)
      BY <1>1, <1>9 DEF Outstanding, Joined, buffer
    <2>4. Outstanding = Joined(unread, <<>>, m \o g, net)
      BY <1>5, <1>9 DEF Outstanding, Joined
    <2> QED BY <2>2, <2>3, <2>4
  <1>11. WritesSound'
    BY <1>1, <1>8 DEF CleanInv, WritesSound, outbound
  <1>12. seen' = seen /\ sent' = sent /\ garbled' = garbled
    BY <1>1 DEF buffer
  <1> QED BY <1>7, <1>8, <1>10, <1>11, <1>12, ConnectedInv

LEMMA ServeWriteClean ==
  ASSUME PathInv, CleanInv, ServeWrite
  PROVE  CleanInv'
  <1>1. /\ job.cmd = "WRITE" /\ acked' = TRUE /\ ackseq' = job.seq /\ job' = NoJob
        /\ clean' = clean /\ up' = Append(up, job.arg)
        /\ UNCHANGED <<pc, req, fnseq, stream, buffer, writes, written>>
    BY DEF ServeWrite, Reply
  <1> SUFFICES ASSUME clean PROVE CleanInv'
    BY <1>1 DEF CleanInv
  <1>2. job # NoJob /\ InStep
    BY <1>1 DEF NoJob, CleanInv
  <1>3. /\ pc = "poll" /\ req.cmd = "WRITE" /\ InStep' /\ ackseq # fnseq /\ ackseq' = fnseq
        /\ job.arg = req.arg
        /\ \A cmd \in Commands : ~Delivered(cmd) /\ (Delivered(cmd)' <=> req.cmd = cmd)
    BY <1>1, <1>2, AnswerInStep
  <1>4. /\ Connected /\ Connected' /\ Unserved /\ ~Unserved'
        /\ ~Delivered("READ") /\ ~Delivered("READ")'
    BY <1>1, <1>3 DEF Connected, Commands, Unserved
  <1>5. Outstanding' = Outstanding /\ seen' = seen /\ sent' = sent /\ garbled' = garbled
    BY <1>1, <1>4 DEF Outstanding, InMailbox, stream, buffer
  <1>6. WritesSound'
    <2> DEFINE k == Len(up)
    <2>1. /\ WritesSound /\ job.arg = writes /\ \A i \in 1..k : up[i] < writes
      BY <1>3, <1>4 DEF CleanInv, WritesSound
    <2>2. up \in Seq(Nat) /\ k \in Nat /\ writes \in Nat /\ written \in Nat
      BY LenProperties DEF PathInv, TypeOK
    <2>3. /\ Len(up') = k + 1 /\ \A i \in 1..k : up'[i] = up[i]
          /\ up'[k + 1] = writes
      <3>1. up' = Append(up, writes)
        BY <1>1, <2>1
      <3> QED BY <2>2, <3>1, AppendProperties
    <2>4. \A i, j \in 1..k : i < j => up[i] < up[j]
      BY <2>1 DEF WritesSound
    <2>5. written <= k
      BY <2>1 DEF WritesSound
    <2> HIDE DEF k
    <2>6. ASSUME NEW i \in 1..(k + 1) PROVE up'[i] <= writes
      <3>1. i \in 1..k \/ i = k + 1
        BY <2>2
      <3>2. CASE i \in 1..k
        <4>1. up[i] < writes /\ up[i] \in Nat
          BY <2>1, <2>2, <3>2, ElementOfSeq DEF k
        <4> QED BY <2>2, <2>3, <3>2, <4>1
      <3>3. CASE i = k + 1
        BY <2>2, <2>3, <3>3
      <3> QED BY <3>1, <3>2, <3>3
    <2>7. ASSUME NEW i \in 1..(k + 1), NEW j \in 1..(k + 1), i < j PROVE up'[i] < up'[j]
      <3>1. i \in 1..k /\ (j \in 1..k \/ j = k + 1)
        BY <2>2, <2>7
      <3>2. CASE j \in 1..k
        BY <2>3, <2>4, <2>7, <3>1, <3>2
      <3>3. CASE j = k + 1
        <4>1. up[i] < writes
          BY <2>1, <3>1 DEF k
        <4> QED BY <2>3, <3>1, <3>3, <4>1
      <3> QED BY <3>1, <3>2, <3>3
    <2>8. written' <= k + 1 /\ written' < k + 1
      BY <1>1, <2>2, <2>5
    <2> QED BY <1>1, <1>4, <2>3, <2>6, <2>7, <2>8 DEF WritesSound
  <1> QED BY <1>3, <1>4, <1>5, <1>6, ConnectedInv

LEMMA StreamClean ==
  ASSUME PathInv, CleanInv, Arrive \/ \E k \in 1..(MaxLen + 1) : Send(k)
  PROVE  CleanInv'
  <1>1. clean' = clean /\ UNCHANGED <<pc, mailbox, buffer, outbound>>
    BY DEF Arrive, Send
  <1> SUFFICES ASSUME clean PROVE CleanInv'
    BY <1>1 DEF CleanInv
  <1>2. InStep'
    BY <1>1 DEF CleanInv, InStep, mailbox
  <1>3. /\ Connected' = Connected /\ Unserved' = Unserved
        /\ Delivered("WRITE")' = Delivered("WRITE") /\ InMailbox' = InMailbox
    BY <1>1 DEF Connected, Delivered, Unserved, InMailbox, mailbox
  <1>4. garbled' = garbled /\ UNCHANGED <<seen, unread>>
    BY <1>1 DEF buffer
  <1>5. CASE ~Connected
    BY <1>1, <1>2, <1>3, <1>4, <1>5, NotConnectedInv
  <1>6. CASE Connected
    <2>1. WritesSound'
      BY <1>1, <1>3, <1>6 DEF CleanInv, WritesSound, outbound, mailbox
    <2>2. /\ unread \in Seq(Byte) /\ InMailbox \in Seq(Byte) /\ fifo \in Seq(Byte)
          /\ net \in Seq(Byte) /\ Outstanding \in Seq(Byte)
      BY OutstandingType
    <2>3. CASE Arrive
      <3>1. fifo' = fifo \o net /\ net' = <<>> /\ sent' = sent
        BY <2>3 DEF Arrive
      <3> DEFINE m == InMailbox
      <3>2. m \in Seq(Byte)
        BY <2>2
      <3> HIDE DEF m
      <3>3. Joined(unread, m, fifo \o net, <<>>) = Joined(unread, m, fifo, net)
        BY <2>2, <3>2, OutstandingMoves
      <3>4. Outstanding' = Outstanding
        BY <1>3, <1>4, <3>1, <3>3 DEF Outstanding, Joined, m
      <3> QED BY <1>2, <1>3, <1>4, <1>6, <2>1, <3>1, <3>4, ConnectedInv
    <2>4. ASSUME NEW k \in 1..(MaxLen + 1), Send(k) PROVE CleanInv'
      <3> DEFINE f == Script[sent + 1]
                 m == InMailbox
      <3>1. /\ sent < Len(Script) /\ net = <<>> /\ k \in 1..Len(f) /\ sent' = sent + 1
            /\ fifo' = fifo \o SubSeq(f, 1, k) /\ net' = SubSeq(f, k + 1, Len(f))
        BY <2>4 DEF Send
      <3>2. sent \in Nat /\ seen \in Nat /\ sent + 1 \in 1..Len(Script)
        BY <3>1, Constants, LenProperties DEF PathInv, TypeOK
      <3>3. f \in Seq(Byte) /\ Len(f) \in Nat /\ m \in Seq(Byte)
        BY <2>2, <3>2, ScriptFrame
      <3>4. Tiled(Outstanding, seen, sent)
        BY <1>6 DEF CleanInv
      <3>5. Tiled(Outstanding \o f, seen, sent + 1)
        <4> DEFINE o == Outstanding
        <4>1. o \in Seq(Byte) /\ Tiled(o, seen, sent)
          BY <2>2, <3>4
        <4> HIDE DEF o
        <4>2. Tiled(o \o Script[sent + 1], seen, sent + 1)
          BY <3>1, <3>2, <4>1, TiledSend
        <4> QED BY <4>2 DEF o
      <3> HIDE DEF f, m
      <3> DEFINE x == SubSeq(f, 1, k)
                 y == SubSeq(f, k + 1, Len(f))
      <3>6. Joined(unread, m, fifo \o x, y) = Joined(unread, m, fifo, <<>>) \o f
        <4>1. k \in Nat /\ k <= Len(f)
          BY <3>1, <3>3
        <4>2. x \in Seq(Byte) /\ y \in Seq(Byte) /\ x \o y = f
          BY <3>3, <4>1, Cut
        <4> HIDE DEF x, y
        <4>3. /\ unread \in Seq(Byte) /\ m \in Seq(Byte) /\ fifo \in Seq(Byte)
              /\ x \in Seq(Byte) /\ y \in Seq(Byte)
          BY <2>2, <3>3, <4>2
        <4>4. Grown(unread, m, fifo, x, y)
          BY <4>3, OutstandingGrows
        <4> QED BY <4>2, <4>4 DEF Grown
      <3>7. Outstanding' = Outstanding \o f
        <4>1. Outstanding = Joined(unread, m, fifo, <<>>)
          BY <3>1 DEF Outstanding, Joined, m
        <4>2. Outstanding' = Joined(unread, m, fifo', net')
          BY <1>3, <1>4 DEF Outstanding, Joined, m
        <4> QED BY <3>1, <3>6, <4>1, <4>2
      <3>8. Tiled(Outstanding', seen', sent')
        BY <1>4, <3>1, <3>5, <3>7
      <3>9. Tiled(Outstanding, seen, sent)'
        BY <3>8 DEF Tiled, TiledBy
      <3>10. ~garbled
        BY DEF CleanInv
      <3> QED BY <1>2, <1>3, <1>4, <1>6, <2>1, <3>9, <3>10 DEF CleanInv
    <2> QED BY <2>3, <2>4
  <1> QED BY <1>5, <1>6

LEMMA ResetClean ==
  ASSUME PathInv, CleanInv, Reset
  PROVE  CleanInv'
  <1>1. /\ pc' = "boot" /\ unread' = <<>> /\ seen' = 0 /\ garbled' = FALSE
        /\ writes' = 0 /\ written' = 0 /\ up' = <<>>
        /\ clean' = (job = NoJob /\ fnseq = ackseq) /\ UNCHANGED mailbox
    BY DEF Reset
  <1>2. ~Connected' /\ Fresh'
    BY <1>1 DEF Connected, Delivered, Fresh
  <1>3. clean' => InStep'
    BY <1>1 DEF InStep, mailbox
  <1> QED BY <1>1, <1>2, <1>3 DEF CleanInv

LEMMA CleanInit == Init => CleanInv
  BY DEF Init, CleanInv, InStep, Connected, Delivered, Fresh

LEMMA CleanStep == PathInv /\ PathInv' /\ CleanInv /\ [Next]_vars => CleanInv'
  <1> SUFFICES ASSUME PathInv, PathInv', CleanInv, [Next]_vars PROVE CleanInv'
    OBVIOUS
  <1>1. CASE UNCHANGED vars
    BY ZenonT(30), <1>1 DEF vars, mailbox, stream, buffer, outbound, bounds, CleanInv, InStep, Connected,
                Delivered, Fresh, WritesSound, Unserved, Outstanding, InMailbox, Tiled, TiledBy
  <1> QED BY <1>1, StagesClean, AnswersClean, ReadClean, ParserClean, TakeJobClean,
             ServeOpenClean, ServeStatusClean, ServeReadClean, ServeWriteClean, RefuseClean,
             StreamClean, ResetClean DEF Next, Console, Outside, Serve

(***************************************************************************)
(* In a clean session the console and the peripheral are in step and what  *)
(* is outstanding is a tiling by the server's frames.                      *)
(***************************************************************************)
THEOREM CleanInvariant == Spec => []CleanInv
  <1>1. PathInv /\ PathInv' /\ CleanInv /\ [Next]_vars => CleanInv'
    BY CleanStep
  <1> QED BY <1>1, CleanInit, PathInvariant, PTL DEF Spec

(***************************************************************************)
(* Unless a transaction was abandoned, SES_ONFRAME gets exactly the frames *)
(* the server sent, in order: however TCP cuts them and however many reads *)
(* of 64 bytes it takes, and after every RESET.                            *)
(***************************************************************************)
THEOREM FramesStayIntact == Spec => []FramesIntact
  <1>1. CleanInv => FramesIntact
    BY DEF CleanInv, FramesIntact
  <1> QED BY <1>1, CleanInvariant, PTL

(***************************************************************************)
(* Unless a transaction was abandoned, NET_WRITE's frames reach the server *)
(* in order, none of them twice, and those that reported success have.     *)
(***************************************************************************)
THEOREM WritesStayIntact == Spec => []WritesIntact
  <1>1. CleanInv => WritesIntact
    <2> SUFFICES ASSUME CleanInv, clean PROVE WritesIntact
      BY DEF WritesIntact
    <2>1. CASE Connected
      BY <2>1 DEF CleanInv, WritesSound, WritesIntact
    <2>2. CASE ~Connected
      <3>1. up = <<>> /\ written = 0
        BY <2>2 DEF CleanInv, Fresh
      <3>2. Len(up) = 0
        BY <3>1
      <3> QED BY <3>1, <3>2 DEF WritesIntact
    <2> QED BY <2>1, <2>2
  <1> QED BY <1>1, CleanInvariant, PTL
=============================================================================
