---------------------------- MODULE ResyncProofs ----------------------------
(***************************************************************************)
(* The recovery of a match, for every delay, lead, size of image, chunk    *)
(* and read, and with a host that may die at any moment.                   *)
(*                                                                         *)
(* The engine runs no tick over an image that is being written.  The guest *)
(* may go on with a pass, or with a stall, after BEGIN.  It runs a tick    *)
(* there only if its gate is open, and then the pump that took BEGIN has   *)
(* not taken a chunk: a pump that begins with less than a chunk's frame in *)
(* the ring reads less than one more.  If the gate is shut, it stays shut: *)
(* no input comes between BEGIN and END.  (The native slots do run in the  *)
(* held passes; what they do to the chunks is a glitch of HoldPass.)       *)
(*                                                                         *)
(* No input of an old timeline gets into a new one.  The frames carry no   *)
(* mark of their timeline: a console takes any input for the tick after    *)
(* its watermark or later.  The second half of this module labels every    *)
(* frame under way with the timeline it is of, and shows that the lead of  *)
(* a push carries the watermark past every input with an older label.      *)
(***************************************************************************)
EXTENDS Resync, FiniteSetTheorems, SequenceTheorems, TLAPS

Cells == 0..(MaxTick + Lead + Delay)
Others == {"CRC", "RESYNC", "BEGIN", "CHUNK", "END", "LEFT"}
Frames == [type : {"INPUT"}, tick : Nat, val : Nat \X Nat] \cup [type : Others, tick : Nat, val : Nat]

Basics ==
  /\ pc \in [Seats -> {"pass", "pump", "gate", "stall", "after", "hold", "park", "off"}]
  /\ tick \in [Seats -> Nat]
  /\ wm \in [Seats -> Nat]
  /\ cells \in [Seats -> [Seats -> [Cells -> Nat \X Nat]]]
  /\ hold \in [Seats -> BOOLEAN]
  /\ resume \in [Seats -> Nat]
  /\ pend \in [Seats -> BOOLEAN]
  /\ ptmo \in [Seats -> 0..(PendMax - 1)]
  /\ rec \in [Seats -> [0..(CrcSlots - 1) -> [tick : Int, crc : Nat]]]
  /\ dropped \in [Seats -> BOOLEAN]
  /\ chan \in [Seats -> Seq(Frames)]
  /\ buf \in [Seats -> Nat]
  /\ read \in [Seats -> BOOLEAN]
  /\ line \in [Seats -> Nat]
  /\ base \in [Seats -> Nat]
  /\ applied \in 0..NChunks
  /\ spoiled \in BOOLEAN
  /\ glitches \in Nat
  /\ pushes \in Nat

\* What is in RXACC, b units of the queue q, when the read is done (rd) and
\* the console is at p: between two pumps less than the frame at its head, in
\* a pump at most a full chunk, or the chunk at its head and less than a read.
InRing(q, b, rd, p) ==
  /\ b <= Waiting(q)
  /\ rd => p \in {"pump", "stall", "hold", "off"}
  /\ ~rd => (q = <<>> \/ b < Size(Head(q)))
  /\ b <= ReadMax + ChunkSize - 1
  /\ b <= ChunkSize \/ (q # <<>> /\ Size(Head(q)) = ChunkSize)
Pumps == \A c \in Seats : InRing(chan[c], buf[c], read[c], pc[c])

\* Nobody pushes to the host, and the guest does not die.
Roles ==
  /\ \A i \in 1..Len(chan[Host]) : chan[Host][i].type \in {"INPUT", "CRC", "RESYNC"}
  /\ ~hold[Host] /\ ~dropped[Host] /\ pc[Guest] # "off"

\* The frames of a push whose BEGIN is, or was, at place b of q.
Ends(b) == b + (NChunks + 1)
Follow(q, b) ==
  \A k \in 1..Len(q) :
    (k > b /\ k <= Ends(b) /\ q[k].type # "LEFT") =>
      IF k = Ends(b) THEN q[k].type = "END" ELSE q[k].type = "CHUNK" /\ q[k].tick = k - b

\* The guest's queue q, when the guest is held (h) with n chunks applied, or
\* dropped (d), and the host is at p: a push is in one piece, which LEFT may
\* have cut off.
Pushes(q, h, n, p, d) ==
  /\ \A b \in 1..Len(q) : q[b].type = "BEGIN" => Follow(q, b)
  /\ h => Follow(q, 0 - n)
  /\ \A k \in 1..Len(q) : q[k].type \in {"CHUNK", "END"} =>
       \/ \E b \in 1..Len(q) : q[b].type = "BEGIN" /\ b < k /\ k <= Ends(b)
       \/ h /\ k <= Ends(0 - n)
  /\ \A k \in 1..Len(q) : q[k].type = "LEFT" => k = Len(q) /\ p = "off"
  /\ p # "off" =>
       /\ \A b \in 1..Len(q) : q[b].type = "BEGIN" => Ends(b) <= Len(q)
       /\ h => Ends(0 - n) <= Len(q)
  /\ d => q = <<>> /\ p = "off"
Queue == Pushes(chan[Guest], hold[Guest], applied, pc[Host], dropped[Guest])

\* A tick the guest may still run in a pass, although it is held, comes
\* before the first chunk.
Still ==
  /\ spoiled => dropped[Guest]
  /\ (hold[Guest] /\ ~dropped[Guest] /\ pc[Guest] \in {"pump", "gate", "stall"}) =>
       \/ wm[Guest] < tick[Guest]
       \/ applied = 0 /\ (pc[Guest] # "gate" => read[Guest] /\ buf[Guest] < ChunkSize)

ImageInv == Basics /\ Pumps /\ Roles /\ Queue /\ Still

-----------------------------------------------------------------------------
(* Queues, and the units of their frames.                                  *)

LEMMA Constants ==
  /\ Delay \in Nat /\ Delay >= 1 /\ Lead \in Nat /\ Lead >= Delay + 1
  /\ CrcEvery \in Nat /\ CrcEvery >= 1 /\ CrcSlots \in Nat /\ CrcSlots >= 1
  /\ PendMax \in Nat /\ PendMax >= 1 /\ NChunks \in Nat /\ NChunks >= 2
  /\ ChunkSize \in Nat /\ ChunkSize >= 1 /\ ReadMax \in Nat /\ ReadMax >= 1 /\ ReadMax <= ChunkSize
  /\ MaxTick \in Nat /\ MaxGlitches \in Nat
  BY ResyncAssumption

LEMMA SeatFacts ==
  /\ Host \in Seats /\ Guest \in Seats /\ Host # Guest
  /\ \A c \in Seats : c = Host \/ c = Guest
  /\ Peer(Host) = Guest /\ Peer(Guest) = Host
  /\ \A c \in Seats : Peer(c) \in Seats /\ Peer(c) # c
  BY DEF Seats, Host, Guest, Peer

LEMMA SizeType ==
  ASSUME NEW f
  PROVE  Size(f) \in 1..ChunkSize
  BY Constants DEF Size

LEMMA QueueTail ==
  ASSUME NEW q \in Seq(Frames), q # <<>>
  PROVE  /\ Tail(q) \in Seq(Frames) /\ Head(q) \in Frames /\ Head(q) = q[1]
         /\ Len(q) \in Nat /\ Len(q) >= 1 /\ Len(Tail(q)) = Len(q) - 1
         /\ \A i \in 1..Len(Tail(q)) : Tail(q)[i] = q[i + 1]
  BY HeadTailProperties, EmptySeq, LenProperties

LEMMA QueueConcat ==
  ASSUME NEW q \in Seq(Frames), NEW r \in Seq(Frames)
  PROVE  /\ q \o r \in Seq(Frames) /\ Len(q) \in Nat /\ Len(r) \in Nat
         /\ Len(q \o r) = Len(q) + Len(r)
         /\ \A i \in 1..Len(q) : (q \o r)[i] = q[i]
         /\ \A i \in 1..Len(r) : (q \o r)[Len(q) + i] = r[i]
         /\ q # <<>> => (q \o r) # <<>> /\ Head(q \o r) = Head(q)
         /\ q = <<>> => q \o r = r
  <1> DEFINE a == q \o r
  <1>1. /\ a \in Seq(Frames) /\ Len(a) = Len(q) + Len(r)
        /\ \A i \in 1..(Len(q) + Len(r)) : a[i] = IF i <= Len(q) THEN q[i] ELSE r[i - Len(q)]
    BY ConcatProperties
  <1>2. Len(q) \in Nat /\ Len(r) \in Nat
    BY LenProperties
  <1>3. q = <<>> => a = r
    BY ConcatEmptySeq
  <1> HIDE DEF a
  <1>4. \A i \in 1..Len(q) : a[i] = q[i]
    BY <1>1, <1>2
  <1>5. \A i \in 1..Len(r) : a[Len(q) + i] = r[i]
    <2> SUFFICES ASSUME NEW i \in 1..Len(r) PROVE a[Len(q) + i] = r[i]
      OBVIOUS
    <2>1. Len(q) + i \in 1..(Len(q) + Len(r)) /\ ~(Len(q) + i <= Len(q)) /\ (Len(q) + i) - Len(q) = i
      BY <1>2
    <2> QED BY <1>1, <2>1
  <1>6. ASSUME q # <<>> PROVE a # <<>> /\ Head(a) = Head(q)
    <2>1. Len(q) \in Nat \ {0} /\ Len(<<>>) = 0
      BY <1>6, EmptySeq
    <2>2. a # <<>>
      BY <1>1, <1>2, <2>1
    <2>3. Head(a) = a[1] /\ Head(q) = q[1] /\ 1 \in 1..Len(q)
      BY <1>1, <1>6, <2>1, <2>2, QueueTail
    <2> QED BY <1>4, <2>2, <2>3
  <1> QED BY <1>1, <1>2, <1>3, <1>4, <1>5, <1>6 DEF a

LEMMA QueuePrefix ==
  ASSUME NEW q \in Seq(Frames), NEW n \in 0..Len(q)
  PROVE  /\ SubSeq(q, 1, n) \in Seq(Frames) /\ Len(SubSeq(q, 1, n)) = n
         /\ \A i \in 1..n : SubSeq(q, 1, n)[i] = q[i]
  <1>1. Len(q) \in Nat /\ \A i \in 1..n : q[i] \in Frames
    BY LenProperties, ElementOfSeq
  <1>2. /\ SubSeq(q, 1, n) \in Seq(Frames)
        /\ Len(SubSeq(q, 1, n)) = IF 1 <= n THEN n - 1 + 1 ELSE 0
        /\ \A i \in 1..(n - 1 + 1) : SubSeq(q, 1, n)[i] = q[1 + i - 1]
    BY <1>1, SubSeqProperties
  <1>3. n - 1 + 1 = n /\ \A i \in 1..n : 1 + i - 1 = i
    BY <1>1
  <1> QED BY <1>1, <1>2, <1>3

LEMMA UnitsFinite ==
  ASSUME NEW q \in Seq(Frames)
  PROVE  IsFiniteSet(Units(q)) /\ Waiting(q) \in Nat
  <1>1. Len(q) \in Nat
    BY LenProperties
  <1>2. IsFiniteSet(1..Len(q)) /\ IsFiniteSet(1..ChunkSize)
    BY <1>1, Constants, FS_Interval
  <1>3. IsFiniteSet((1..Len(q)) \X (1..ChunkSize))
    BY <1>2, FS_Product
  <1>4. Units(q) \in SUBSET ((1..Len(q)) \X (1..ChunkSize))
    BY DEF Units
  <1>5. IsFiniteSet(Units(q))
    BY <1>3, <1>4, FS_Subset
  <1> QED BY <1>5, FS_CardinalityType DEF Waiting

LEMMA UnitsNone == Waiting(<<>>) = 0
  <1>1. Len(<<>>) = 0
    BY EmptySeq
  <1>2. Units(<<>>) = {}
    BY <1>1 DEF Units
  <1> QED BY <1>2, FS_EmptySet DEF Waiting

\* More frames, more units.
LEMMA UnitsMore ==
  ASSUME NEW q \in Seq(Frames), NEW p \in Seq(Frames), Len(q) <= Len(p),
         \A i \in 1..Len(q) : p[i] = q[i]
  PROVE  Waiting(q) <= Waiting(p)
  <1>1. Len(q) \in Nat /\ Len(p) \in Nat
    BY LenProperties
  <1>2. Units(q) \in SUBSET Units(p)
    <2> SUFFICES ASSUME NEW u \in Units(q) PROVE u \in Units(p)
      OBVIOUS
    <2>1. u \in (1..Len(q)) \X (1..ChunkSize) /\ u[2] <= Size(q[u[1]])
      BY DEF Units
    <2>2. u[1] \in 1..Len(q) /\ u \in (1..Len(p)) \X (1..ChunkSize)
      BY <1>1, <2>1
    <2> QED BY <2>1, <2>2 DEF Units
  <1> QED BY <1>2, UnitsFinite, FS_Subset DEF Waiting

\* The frame at the head takes its units along.
LEMMA UnitsTail ==
  ASSUME NEW q \in Seq(Frames), q # <<>>
  PROVE  Waiting(q) <= Waiting(Tail(q)) + Size(Head(q))
  <1> DEFINE t == Tail(q)
             A == {u \in Units(q) : u[1] = 1}
             B == {u \in Units(q) : u[1] # 1}
             n == Size(q[1])
  <1>1. /\ t \in Seq(Frames) /\ Head(q) = q[1] /\ Len(q) \in Nat /\ Len(t) = Len(q) - 1
        /\ \A i \in 1..Len(t) : t[i] = q[i + 1]
    BY QueueTail
  <1>2. \A u \in Units(q) : /\ u \in (1..Len(q)) \X (1..ChunkSize) /\ u = <<u[1], u[2]>>
                            /\ u[1] \in 1..Len(q) /\ u[2] \in 1..ChunkSize /\ u[2] <= Size(q[u[1]])
    BY DEF Units
  <1>3. IsFiniteSet(Units(q)) /\ IsFiniteSet(Units(t))
    BY <1>1, UnitsFinite
  <1>4. n \in 1..ChunkSize /\ n \in Nat
    BY SizeType, Constants
  <1> HIDE DEF t, n
  <1>5. IsFiniteSet(A) /\ Cardinality(A) <= n
    <2> DEFINE f == [u \in A |-> u[2]]
    <2>1. \A u \in A : u[2] \in 1..n /\ u = <<1, u[2]>>
      BY SMTT(30), <1>2, <1>4, Constants DEF n
    <2>2. f \in Injection(A, 1..n)
      BY <2>1 DEF Injection, IsInjective
    <2>3. IsFiniteSet(1..n) /\ Cardinality(1..n) = n
      BY <1>4, FS_Interval
    <2> HIDE DEF A, f
    <2> QED BY <2>2, <2>3, FS_Injection
  <1>6. IsFiniteSet(B) /\ Cardinality(B) <= Cardinality(Units(t))
    <2> DEFINE g == [u \in B |-> <<u[1] - 1, u[2]>>]
    <2>1. ASSUME NEW u \in B PROVE <<u[1] - 1, u[2]>> \in Units(t)
      <3>1. /\ u[1] - 1 \in 1..Len(t) /\ (u[1] - 1) + 1 = u[1]
            /\ u[2] \in 1..ChunkSize /\ u[2] <= Size(q[u[1]])
        BY <1>1, <1>2
      <3>2. t[u[1] - 1] = q[u[1]]
        BY <1>1, <3>1
      <3> QED BY <3>1, <3>2 DEF Units
    <2>2. ASSUME NEW u \in B, NEW v \in B, <<u[1] - 1, u[2]>> = <<v[1] - 1, v[2]>> PROVE u = v
      <3>1. u[1] - 1 = v[1] - 1 /\ u[2] = v[2]
        BY <2>2
      <3>2. u[1] = v[1]
        BY <1>2, <3>1
      <3> QED BY <1>2, <3>1, <3>2
    <2>3. g \in Injection(B, Units(t))
      BY <2>1, <2>2 DEF Injection, IsInjective
    <2> HIDE DEF B, g
    <2> QED BY <1>3, <2>3, FS_Injection
  <1>7. Units(q) = A \cup B
    OBVIOUS
  <1>8. /\ Cardinality(A) \in Nat /\ Cardinality(B) \in Nat /\ Cardinality(A \cap B) \in Nat
        /\ Cardinality(Units(t)) \in Nat
    BY <1>3, <1>5, <1>6, FS_CardinalityType, FS_Intersection
  <1>9. Cardinality(A \cup B) = Cardinality(A) + Cardinality(B) - Cardinality(A \cap B)
    BY <1>5, <1>6, FS_Union
  <1> HIDE DEF A, B
  <1>10. Waiting(q) <= Waiting(t) + n
    BY <1>4, <1>5, <1>6, <1>7, <1>8, <1>9 DEF Waiting
  <1> QED BY <1>1, <1>10 DEF t, n

-----------------------------------------------------------------------------
(* The guest's queue.                                                      *)

LEMMA EndsFacts ==
  /\ \A b \in Int : Ends(b) \in Int /\ Ends(b - 1) = Ends(b) - 1 /\ Ends(b) > b + 2
  /\ \A b \in Int, m \in Int : Ends(m + b) = m + Ends(b)
  BY Constants DEF Ends

LEMMA FollowTail ==
  ASSUME NEW q \in Seq(Frames), q # <<>>, NEW b \in Int, Follow(q, b)
  PROVE  Follow(Tail(q), b - 1)
  <1> DEFINE t == Tail(q)
  <1>1. /\ Len(q) \in Nat /\ Len(t) = Len(q) - 1 /\ \A i \in 1..Len(t) : t[i] = q[i + 1]
    BY QueueTail
  <1> HIDE DEF t
  <1> SUFFICES ASSUME NEW k \in 1..Len(t), k > b - 1, k <= Ends(b - 1), t[k].type # "LEFT"
               PROVE  IF k = Ends(b - 1) THEN t[k].type = "END"
                                         ELSE t[k].type = "CHUNK" /\ t[k].tick = k - (b - 1)
    BY DEF Follow, t
  <1>2. k + 1 \in 1..Len(q) /\ t[k] = q[k + 1]
    BY <1>1
  <1>3. /\ k + 1 > b /\ k + 1 <= Ends(b) /\ (k + 1 = Ends(b) <=> k = Ends(b - 1))
        /\ (k + 1) - b = k - (b - 1)
    <2>1. k \in Int /\ Ends(b) \in Int /\ Ends(b - 1) = Ends(b) - 1
      BY <1>1, EndsFacts
    <2> HIDE DEF Ends
    <2> QED BY <2>1
  <1> QED BY <1>2, <1>3 DEF Follow

\* What is true of the tail t of a queue with head f.
TailFits(t, f, h, n, p, d) ==
  /\ \A b \in 1..Len(t) : t[b].type = "BEGIN" => Follow(t, b)
  /\ h => Follow(t, 0 - (n + 1))
  /\ f.type = "BEGIN" => Follow(t, 0)
  /\ \A k \in 1..Len(t) : t[k].type \in {"CHUNK", "END"} =>
       \/ \E b \in 1..Len(t) : t[b].type = "BEGIN" /\ b < k /\ k <= Ends(b)
       \/ f.type = "BEGIN" /\ k <= Ends(0)
       \/ h /\ k <= Ends(0 - (n + 1))
  /\ \A k \in 1..Len(t) : t[k].type = "LEFT" => k = Len(t) /\ p = "off"
  /\ p # "off" => /\ \A b \in 1..Len(t) : t[b].type = "BEGIN" => Ends(b) <= Len(t)
                  /\ f.type = "BEGIN" => Ends(0) <= Len(t)
                  /\ h => Ends(0 - (n + 1)) <= Len(t)
  /\ ~d

LEMMA TailPushes ==
  ASSUME NEW q \in Seq(Frames), q # <<>>, NEW h, NEW n \in Nat, NEW p, NEW d, Pushes(q, h, n, p, d)
  PROVE  TailFits(Tail(q), q[1], h, n, p, d)
  <1> DEFINE t == Tail(q)
  <1>1. /\ t \in Seq(Frames) /\ Len(q) \in Nat /\ Len(q) >= 1 /\ Len(t) = Len(q) - 1 /\ Len(t) \in Nat
        /\ \A i \in 1..Len(t) : t[i] = q[i + 1]
    BY QueueTail
  <1>2. ASSUME NEW b \in Int, Follow(q, b) PROVE Follow(t, b - 1)
    BY <1>2, FollowTail
  <1> HIDE DEF t
  <1>3. /\ 0 - n \in Int /\ 0 - (n + 1) = (0 - n) - 1 /\ 0 = 1 - 1 /\ 1 \in 1..Len(q)
        /\ \A i \in 1..Len(t) : i + 1 \in 1..Len(q) /\ i = (i + 1) - 1
    BY <1>1
  <1>4. ASSUME NEW b \in 1..Len(t), t[b].type = "BEGIN" PROVE Follow(t, b) /\ (p # "off" => Ends(b) <= Len(t))
    <2>1. b + 1 \in 1..Len(q) /\ q[b + 1].type = "BEGIN" /\ b = (b + 1) - 1 /\ b + 1 \in Int
      BY <1>1, <1>3, <1>4
    <2>2. Follow(q, b + 1) /\ (p # "off" => Ends(b + 1) <= Len(q))
      BY <2>1 DEF Pushes
    <2>3. Ends((b + 1) - 1) = Ends(b + 1) - 1 /\ Ends(b + 1) \in Int
      BY <2>1, EndsFacts
    <2>4. Follow(t, (b + 1) - 1)
      BY <1>2, <2>1, <2>2
    <2> QED BY <1>1, <2>1, <2>2, <2>3, <2>4
  <1>5. h => Follow(t, 0 - (n + 1)) /\ (p # "off" => Ends(0 - (n + 1)) <= Len(t))
    <2>1. Ends(0 - (n + 1)) = Ends(0 - n) - 1 /\ Ends(0 - n) \in Int
      BY <1>3, EndsFacts
    <2>2. h => Follow(q, 0 - n) /\ (p # "off" => Ends(0 - n) <= Len(q))
      BY DEF Pushes
    <2> QED BY <1>1, <1>2, <1>3, <2>1, <2>2
  <1>6. q[1].type = "BEGIN" => Follow(t, 0) /\ (p # "off" => Ends(0) <= Len(t))
    <2>1. Ends(0) = Ends(1) - 1 /\ Ends(1) \in Int
      BY <1>3, EndsFacts
    <2>2. q[1].type = "BEGIN" => Follow(q, 1) /\ (p # "off" => Ends(1) <= Len(q))
      BY <1>3 DEF Pushes
    <2> QED BY <1>1, <1>2, <1>3, <2>1, <2>2
  <1>7. ASSUME NEW k \in 1..Len(t), t[k].type \in {"CHUNK", "END"}
        PROVE  \/ \E b \in 1..Len(t) : t[b].type = "BEGIN" /\ b < k /\ k <= Ends(b)
               \/ q[1].type = "BEGIN" /\ k <= Ends(0)
               \/ h /\ k <= Ends(0 - (n + 1))
    <2>1. k + 1 \in 1..Len(q) /\ q[k + 1].type \in {"CHUNK", "END"} /\ k \in Int
      <3>1. k \in Int
        BY <1>1
      <3> QED BY <1>1, <1>3, <1>7, <3>1
    <2>2. \/ \E b \in 1..Len(q) : q[b].type = "BEGIN" /\ b < k + 1 /\ k + 1 <= Ends(b)
          \/ h /\ k + 1 <= Ends(0 - n)
      BY <2>1 DEF Pushes
    <2>3. CASE h /\ k + 1 <= Ends(0 - n)
      <3>1. Ends(0 - (n + 1)) = Ends(0 - n) - 1 /\ Ends(0 - n) \in Int
        BY <1>3, EndsFacts
      <3> QED BY <2>1, <2>3, <3>1
    <2>4. CASE \E b \in 1..Len(q) : q[b].type = "BEGIN" /\ b < k + 1 /\ k + 1 <= Ends(b)
      <3>1. PICK b \in 1..Len(q) : q[b].type = "BEGIN" /\ b < k + 1 /\ k + 1 <= Ends(b)
        BY <2>4
      <3>2. b \in Int /\ Ends(b) \in Int /\ Ends(b - 1) = Ends(b) - 1
        BY <1>1, EndsFacts
      <3>3. CASE b = 1
        BY <1>3, <2>1, <3>1, <3>2, <3>3
      <3>4. CASE b # 1
        <4>1. b - 1 \in 1..Len(t) /\ (b - 1) + 1 = b
          BY <1>1, <3>4
        <4>2. t[b - 1].type = "BEGIN" /\ b - 1 < k /\ k <= Ends(b - 1)
          BY SMTT(30), <1>1, <2>1, <3>1, <3>2, <4>1
        <4> QED BY <4>1, <4>2
      <3> QED BY <3>3, <3>4
    <2> QED BY <2>2, <2>3, <2>4
  <1>8. ASSUME NEW k \in 1..Len(t), t[k].type = "LEFT" PROVE k = Len(t) /\ p = "off"
    <2>1. k + 1 \in 1..Len(q) /\ q[k + 1].type = "LEFT"
      BY <1>1, <1>3, <1>8
    <2>2. k + 1 = Len(q) /\ p = "off"
      BY <2>1 DEF Pushes
    <2> QED BY <1>1, <2>2
  <1>10. ~d
    BY DEF Pushes
  <1> QED BY <1>4, <1>5, <1>6, <1>7, <1>8, <1>10 DEF t, TailFits

\* The head of the queue, and the queue after it was taken.
LEMMA HeadPlain ==
  ASSUME NEW q \in Seq(Frames), q # <<>>, NEW h, NEW n \in 0..NChunks, NEW p, NEW d,
         Pushes(q, h, n, p, d), q[1].type \in {"INPUT", "CRC", "RESYNC"}
  PROVE  ~h /\ ~d /\ Pushes(Tail(q), FALSE, n, p, d)
  <1>1. 1 \in 1..Len(q) /\ n \in Nat /\ 0 - n < 1 /\ Ends(0 - n) >= 1 /\ 0 - n \in Int /\ Ends(0 - n) \in Int
    <2>1. Len(q) \in Nat \ {0} /\ n \in Nat /\ n <= NChunks
      BY EmptySeq, Constants
    <2>2. Ends(0 - n) = (0 - n) + (NChunks + 1)
      BY DEF Ends
    <2> QED BY <2>1, <2>2, Constants
  <1>2. ~h
    BY <1>1 DEF Pushes, Follow
  <1>0. q[1].type # "BEGIN"
    OBVIOUS
  <1> DEFINE t == Tail(q)
  <1>3. TailFits(t, q[1], h, n, p, d)
    BY <1>1, TailPushes
  <1> HIDE DEF t
  <1>4. Pushes(t, FALSE, n, p, d) /\ ~d
    BY <1>0, <1>2, <1>3 DEF Pushes, TailFits
  <1> QED BY <1>2, <1>4 DEF t

LEMMA HeadBegin ==
  ASSUME NEW q \in Seq(Frames), q # <<>>, NEW h, NEW n \in 0..NChunks, NEW p, NEW d,
         Pushes(q, h, n, p, d), q[1].type = "BEGIN"
  PROVE  ~h /\ ~d /\ Pushes(Tail(q), TRUE, 0, p, d)
  <1>1. 1 \in 1..Len(q) /\ n \in Nat /\ 0 - n < 1 /\ Ends(0 - n) >= 1 /\ 0 - n \in Int /\ Ends(0 - n) \in Int
    <2>1. Len(q) \in Nat \ {0} /\ n \in Nat /\ n <= NChunks
      BY EmptySeq, Constants
    <2>2. Ends(0 - n) = (0 - n) + (NChunks + 1)
      BY DEF Ends
    <2> QED BY <2>1, <2>2, Constants
  <1>2. ~h
    BY <1>1 DEF Pushes, Follow
  <1> DEFINE t == Tail(q)
  <1>3. TailFits(t, q[1], h, n, p, d)
    BY <1>1, TailPushes
  <1> HIDE DEF t
  <1>4. 0 - 0 = 0
    OBVIOUS
  <1>5. Pushes(t, TRUE, 0, p, d) /\ ~d
    BY <1>2, <1>3, <1>4 DEF Pushes, TailFits
  <1> QED BY <1>2, <1>5 DEF t

LEMMA HeadChunk ==
  ASSUME NEW q \in Seq(Frames), q # <<>>, NEW h, NEW n \in 0..NChunks, NEW p, NEW d,
         Pushes(q, h, n, p, d), q[1].type = "CHUNK"
  PROVE  h /\ ~d /\ n < NChunks /\ q[1].tick = n + 1 /\ Pushes(Tail(q), h, n + 1, p, d)
  <1>1. 1 \in 1..Len(q) /\ n \in Nat /\ n <= NChunks /\ 0 - n < 1 /\ 0 - n \in Int
    <2>1. Len(q) \in Nat \ {0} /\ n \in Nat /\ n <= NChunks
      BY EmptySeq, Constants
    <2> QED BY <2>1
  <1>2. Ends(0 - n) = (0 - n) + (NChunks + 1)
    BY DEF Ends
  <1>3. h
    BY <1>1 DEF Pushes
  <1>4. Follow(q, 0 - n) /\ 1 <= Ends(0 - n)
    BY <1>1, <1>2, <1>3, Constants DEF Pushes
  <1>5. 1 # Ends(0 - n) /\ q[1].tick = 1 - (0 - n)
    BY <1>1, <1>4 DEF Follow
  <1>6. n < NChunks /\ q[1].tick = n + 1
    BY <1>1, <1>2, <1>5, Constants
  <1> DEFINE t == Tail(q)
             m == n + 1
  <1>7. TailFits(t, q[1], h, n, p, d)
    BY <1>1, TailPushes
  <1> HIDE DEF t
  <1>8. Pushes(t, h, m, p, d) /\ ~d
    BY <1>3, <1>7 DEF Pushes, TailFits
  <1> QED BY <1>3, <1>6, <1>8 DEF t

LEMMA HeadEnd ==
  ASSUME NEW q \in Seq(Frames), q # <<>>, NEW h, NEW n \in 0..NChunks, NEW p, NEW d,
         Pushes(q, h, n, p, d), q[1].type = "END"
  PROVE  h /\ ~d /\ n = NChunks /\ Pushes(Tail(q), FALSE, 0, p, d)
  <1>1. 1 \in 1..Len(q) /\ n \in Nat /\ n <= NChunks /\ 0 - n < 1 /\ 0 - n \in Int
    <2>1. Len(q) \in Nat \ {0} /\ n \in Nat /\ n <= NChunks
      BY EmptySeq, Constants
    <2> QED BY <2>1
  <1>2. Ends(0 - n) = (0 - n) + (NChunks + 1)
    BY DEF Ends
  <1>3. h
    BY <1>1 DEF Pushes
  <1>4. Follow(q, 0 - n) /\ 1 <= Ends(0 - n)
    BY <1>1, <1>2, <1>3, Constants DEF Pushes
  <1>5. 1 = Ends(0 - n)
    BY <1>1, <1>4 DEF Follow
  <1>6. n = NChunks
    BY <1>1, <1>2, <1>5, Constants
  <1> DEFINE t == Tail(q)
             m == n + 1
  <1>7. Ends(0 - m) = 0
    BY <1>1, <1>6, Constants DEF Ends
  <1>8. TailFits(t, q[1], h, n, p, d)
    BY <1>1, TailPushes
  <1>9. \A k \in 1..Len(t) : ~(k <= 0)
    OBVIOUS
  <1> HIDE DEF t
  <1>10. Pushes(t, FALSE, 0, p, d) /\ ~d
    BY <1>7, <1>8, <1>9 DEF Pushes, TailFits
  <1> QED BY <1>3, <1>6, <1>10 DEF t

LEMMA HeadLeft ==
  ASSUME NEW q \in Seq(Frames), q # <<>>, NEW h, NEW n \in 0..NChunks, NEW p, NEW d,
         Pushes(q, h, n, p, d), q[1].type = "LEFT"
  PROVE  Tail(q) = <<>> /\ p = "off"
  <1> DEFINE t == Tail(q)
  <1>1. Len(q) \in Nat /\ 1 \in 1..Len(q) /\ t \in Seq(Frames) /\ Len(t) = Len(q) - 1
    BY QueueTail
  <1>2. 1 = Len(q) /\ p = "off"
    BY <1>1 DEF Pushes
  <1> HIDE DEF t
  <1>3. t = <<>>
    BY <1>1, <1>2, EmptySeq
  <1> QED BY <1>2, <1>3 DEF t

LEMMA PushesNone ==
  ASSUME NEW h, NEW n, NEW d, NEW p, p = "off" \/ (~h /\ ~d)
  PROVE  Pushes(<<>>, h, n, p, d)
  <1>1. \A i \in 1..Len(<<>>) : FALSE
    BY EmptySeq
  <1> QED BY <1>1 DEF Pushes, Follow

\* The host appends frames: inputs and checksums, or a whole push.
LEMMA PushesConcat ==
  ASSUME NEW q \in Seq(Frames), NEW r \in Seq(Frames), NEW h, NEW n \in Nat, NEW p, NEW d, p # "off",
         Pushes(q, h, n, p, d), Pushes(r, FALSE, 0, p, FALSE)
  PROVE  Pushes(q \o r, h, n, p, d)
  <1> DEFINE a == q \o r
             l == Len(q)
  <1>1. /\ a \in Seq(Frames) /\ l \in Nat /\ Len(r) \in Nat /\ Len(a) = l + Len(r)
        /\ \A i \in 1..l : a[i] = q[i]
        /\ \A i \in 1..Len(r) : a[l + i] = r[i]
    BY QueueConcat
  <1> HIDE DEF a, l
  <1>2. \A i \in 1..Len(a) : i \in 1..l \/ (i - l \in 1..Len(r) /\ l + (i - l) = i /\ a[i] = r[i - l])
    <2> SUFFICES ASSUME NEW i \in 1..Len(a), i \notin 1..l
                 PROVE  i - l \in 1..Len(r) /\ l + (i - l) = i /\ a[i] = r[i - l]
      OBVIOUS
    <2>1. i - l \in 1..Len(r) /\ l + (i - l) = i
      BY <1>1
    <2> QED BY <1>1, <2>1
  <1>3. ASSUME NEW b \in Int, Follow(q, b), Ends(b) <= l PROVE Follow(a, b)
    <2> SUFFICES ASSUME NEW k \in 1..Len(a), k > b, k <= Ends(b), a[k].type # "LEFT"
                 PROVE  IF k = Ends(b) THEN a[k].type = "END" ELSE a[k].type = "CHUNK" /\ a[k].tick = k - b
      BY DEF Follow
    <2>1. Ends(b) \in Int /\ k \in Int /\ k >= 1
      BY <1>1, EndsFacts
    <2>2. k \in 1..l
      BY <1>1, <1>3, <2>1
    <2> QED BY <1>1, <1>3, <2>2 DEF Follow, l
  <1>4. ASSUME NEW b \in 1..Len(r), Follow(r, b) PROVE Follow(a, l + b)
    <2> SUFFICES ASSUME NEW k \in 1..Len(a), k > l + b, k <= Ends(l + b), a[k].type # "LEFT"
                 PROVE  IF k = Ends(l + b) THEN a[k].type = "END"
                                           ELSE a[k].type = "CHUNK" /\ a[k].tick = k - (l + b)
      BY DEF Follow
    <2>1. b \in Int /\ Ends(l + b) = l + Ends(b) /\ Ends(b) \in Int
      BY <1>1, EndsFacts
    <2>2. k \notin 1..l /\ k \in Int
      BY <1>1
    <2>3. k - l \in 1..Len(r) /\ a[k] = r[k - l]
      BY <1>2, <2>2
    <2> DEFINE e == Ends(b)
               f == Ends(l + b)
    <2> HIDE DEF e, f
    <2>4. k - l > b /\ k - l <= e /\ (k - l = e <=> k = f) /\ (k - l) - b = k - (l + b)
      <3>1. e \in Int /\ f = l + e /\ k > l + b /\ k <= f
        BY <2>1 DEF e, f
      <3> QED BY <1>1, <2>1, <2>2, <3>1
    <2> USE DEF e, f
    <2> QED BY <1>4, <2>3, <2>4 DEF Follow
  <1>5. ASSUME NEW b \in 1..Len(a), a[b].type = "BEGIN" PROVE Follow(a, b) /\ Ends(b) <= Len(a)
    <2>1. CASE b \in 1..l
      <3>1. q[b].type = "BEGIN" /\ b \in Int
        BY <1>1, <1>5, <2>1
      <3>2. Follow(q, b) /\ Ends(b) <= l
        BY <2>1, <3>1 DEF Pushes, l
      <3>3. Ends(b) \in Int
        BY <3>1, EndsFacts
      <3> QED BY <1>1, <1>3, <3>1, <3>2, <3>3
    <2>2. CASE b \notin 1..l
      <3>1. b - l \in 1..Len(r) /\ l + (b - l) = b /\ r[b - l].type = "BEGIN"
        BY <1>2, <1>5, <2>2
      <3>2. Follow(r, b - l) /\ Ends(b - l) <= Len(r)
        BY <3>1 DEF Pushes
      <3> DEFINE m == b - l
      <3>a. m \in Int
        BY <3>1
      <3> HIDE DEF m
      <3>b. Ends(l + m) = l + Ends(m) /\ Ends(m) \in Int
        BY <1>1, <3>a, Constants DEF Ends
      <3>3. Ends(l + (b - l)) = l + Ends(b - l) /\ Ends(b - l) \in Int
        BY <3>b DEF m
      <3>4. Follow(a, l + (b - l))
        BY <1>4, <3>1, <3>2
      <3> QED BY <1>1, <3>1, <3>2, <3>3, <3>4
    <2> QED BY <2>1, <2>2
  <1>6. h => Follow(a, 0 - n) /\ Ends(0 - n) <= Len(a)
    <2>1. h => Follow(q, 0 - n) /\ Ends(0 - n) <= l
      BY DEF Pushes, l
    <2>2. 0 - n \in Int /\ Ends(0 - n) \in Int
      BY EndsFacts
    <2> QED BY <1>1, <1>3, <2>1, <2>2
  <1>7. ASSUME NEW k \in 1..Len(a), a[k].type \in {"CHUNK", "END"}
        PROVE  \/ \E b \in 1..Len(a) : a[b].type = "BEGIN" /\ b < k /\ k <= Ends(b)
               \/ h /\ k <= Ends(0 - n)
    <2>1. CASE k \in 1..l
      <3>1. q[k].type \in {"CHUNK", "END"}
        BY <1>1, <1>7, <2>1
      <3>2. \/ \E b \in 1..l : q[b].type = "BEGIN" /\ b < k /\ k <= Ends(b)
            \/ h /\ k <= Ends(0 - n)
        BY <2>1, <3>1 DEF Pushes, l
      <3>3. \A b \in 1..l : b \in 1..Len(a) /\ a[b] = q[b]
        BY <1>1
      <3> QED BY <3>2, <3>3
    <2>2. CASE k \notin 1..l
      <3>1. k - l \in 1..Len(r) /\ r[k - l].type \in {"CHUNK", "END"} /\ k \in Int
        BY <1>1, <1>2, <1>7, <2>2
      <3>2. PICK b \in 1..Len(r) : r[b].type = "BEGIN" /\ b < k - l /\ k - l <= Ends(b)
        BY <3>1 DEF Pushes
      <3>3. Ends(l + b) = l + Ends(b) /\ Ends(b) \in Int /\ b \in Int
        BY <1>1, EndsFacts
      <3>4. l + b \in 1..Len(a) /\ a[l + b].type = "BEGIN" /\ l + b < k /\ k <= Ends(l + b)
        BY <1>1, <3>1, <3>2, <3>3
      <3> QED BY <3>4
    <2> QED BY <2>1, <2>2
  <1>8. \A k \in 1..Len(a) : a[k].type # "LEFT"
    <2> SUFFICES ASSUME NEW k \in 1..Len(a), a[k].type = "LEFT" PROVE FALSE
      OBVIOUS
    <2>1. CASE k \in 1..l
      BY <1>1, <2>1 DEF Pushes, l
    <2>2. CASE k \notin 1..l
      BY <1>2, <2>2 DEF Pushes
    <2> QED BY <2>1, <2>2
  <1>9. ~d
    BY DEF Pushes
  <1>10. Pushes(a, h, n, p, d)
    BY <1>5, <1>6, <1>7, <1>8, <1>9 DEF Pushes
  <1> QED BY <1>10 DEF a

LEMMA PlainFrames ==
  ASSUME NEW r \in Seq(Frames), \A i \in 1..Len(r) : r[i].type \in {"INPUT", "CRC"}, NEW p
  PROVE  Pushes(r, FALSE, 0, p, FALSE)
  BY DEF Pushes

\* RS_PUSH's frames.
LEMMA PushFrames ==
  ASSUME NEW s \in Nat, NEW v \in Nat, NEW p,
         NEW r, r = <<Frame("BEGIN", s, 0)>> \o [i \in 1..NChunks |-> Frame("CHUNK", i, 0)]
                      \o <<Frame("END", 0, v)>>
  PROVE  /\ r \in Seq(Frames) /\ Pushes(r, FALSE, 0, p, FALSE) /\ Len(r) = NChunks + 2
         /\ r[1] = Frame("BEGIN", s, 0) /\ r[NChunks + 2] = Frame("END", 0, v)
         /\ \A i \in 1..NChunks : r[1 + i] = Frame("CHUNK", i, 0)
  <1> DEFINE B == Frame("BEGIN", s, 0)
             E == Frame("END", 0, v)
             ch == [i \in 1..NChunks |-> Frame("CHUNK", i, 0)]
             x == <<B>>
             y == <<E>>
             z == x \o ch
  <1>1. /\ B \in Frames /\ E \in Frames /\ \A i \in 1..NChunks : Frame("CHUNK", i, 0) \in Frames
        /\ B.type = "BEGIN" /\ E.type = "END"
        /\ \A i \in 1..NChunks : Frame("CHUNK", i, 0).type = "CHUNK" /\ Frame("CHUNK", i, 0).tick = i
    BY DEF Frame, Frames, Others
  <1>2. r = z \o y
    OBVIOUS
  <1>3. ch \in Seq(Frames) /\ Len(ch) = NChunks /\ \A i \in 1..NChunks : ch[i] = Frame("CHUNK", i, 0)
    <2>1. ch \in [1..NChunks -> Frames]
      BY <1>1
    <2> HIDE DEF ch
    <2>2. ch \in Seq(Frames) /\ Len(ch) = NChunks
      BY <2>1, Constants
    <2> QED BY <2>2 DEF ch
  <1> HIDE DEF B, E, ch
  <1>4. x \in Seq(Frames) /\ Len(x) = 1 /\ x[1] = B /\ y \in Seq(Frames) /\ Len(y) = 1 /\ y[1] = E
    BY <1>1
  <1> HIDE DEF x, y
  <1>5. /\ z \in Seq(Frames) /\ Len(z) = 1 + NChunks /\ z[1] = B
        /\ \A i \in 1..NChunks : z[1 + i] = Frame("CHUNK", i, 0)
    <2>1. /\ z \in Seq(Frames) /\ Len(z) = Len(x) + Len(ch)
          /\ \A i \in 1..Len(x) : z[i] = x[i] /\ \A j \in 1..Len(ch) : z[Len(x) + j] = ch[j]
      BY ZenonT(30), <1>3, <1>4, QueueConcat
    <2> HIDE DEF z
    <2> QED BY <1>3, <1>4, <2>1
  <1> HIDE DEF z
  <1>6. /\ r \in Seq(Frames) /\ Len(r) = NChunks + 2 /\ r[1] = B /\ r[NChunks + 2] = E
        /\ \A i \in 1..NChunks : r[1 + i] = Frame("CHUNK", i, 0)
    <2> DEFINE w == z \o y
    <2>a. /\ w \in Seq(Frames) /\ Len(w) = Len(z) + Len(y)
          /\ \A i \in 1..Len(z) : w[i] = z[i]
          /\ \A j \in 1..Len(y) : w[Len(z) + j] = y[j]
      BY <1>4, <1>5, QueueConcat
    <2>b. r = w
      BY <1>2
    <2> HIDE DEF w
    <2>1. /\ r \in Seq(Frames) /\ Len(r) = Len(z) + Len(y)
          /\ \A i \in 1..Len(z) : r[i] = z[i]
      BY <2>a, <2>b
    <2>2. r[Len(z) + 1] = y[1]
      <3>1. \A j \in 1..Len(y) : r[Len(z) + j] = y[j]
        BY <2>a, <2>b
      <3>2. 1 \in 1..Len(y)
        BY <1>4
      <3> QED BY <3>1, <3>2
    <2>3. \A i \in 1..NChunks : 1 + i \in 1..Len(z)
      BY <1>5, Constants
    <2>4. 1 \in 1..Len(z) /\ Len(z) + 1 = NChunks + 2 /\ Len(z) + Len(y) = NChunks + 2
      BY <1>4, <1>5, Constants
    <2> QED BY <1>4, <1>5, <2>1, <2>2, <2>3, <2>4
  <1>7. \A k \in 1..Len(r) : \/ k = 1
                             \/ k = NChunks + 2
                             \/ k - 1 \in 1..NChunks /\ r[k] = Frame("CHUNK", k - 1, 0)
    <2> SUFFICES ASSUME NEW k \in 1..Len(r), k # 1, k # NChunks + 2
                 PROVE  k - 1 \in 1..NChunks /\ r[k] = Frame("CHUNK", k - 1, 0)
      OBVIOUS
    <2>1. k - 1 \in 1..NChunks /\ 1 + (k - 1) = k
      BY <1>6, Constants
    <2> QED BY <1>6, <2>1
  <1>8. Ends(1) = NChunks + 2
    BY Constants DEF Ends
  <1>9. \A k \in 1..Len(r) : r[k].type # "LEFT" /\ (r[k].type = "BEGIN" => k = 1)
    BY <1>1, <1>6, <1>7
  <1>10. Follow(r, 1)
    <2> SUFFICES ASSUME NEW k \in 1..Len(r), k > 1
                 PROVE  IF k = Ends(1) THEN r[k].type = "END" ELSE r[k].type = "CHUNK" /\ r[k].tick = k - 1
      BY DEF Follow
    <2>1. CASE k = NChunks + 2
      BY <1>1, <1>6, <1>8, <2>1
    <2>2. CASE k # NChunks + 2
      <3>1. k # 1
        BY <1>6
      <3>2. k - 1 \in 1..NChunks /\ r[k] = Frame("CHUNK", k - 1, 0)
        BY <1>7, <2>2, <3>1
      <3> QED BY <1>1, <1>8, <2>2, <3>2
    <2> QED BY <2>1, <2>2
  <1>11. \A k \in 1..Len(r) : r[k].type \in {"CHUNK", "END"} => 1 < k /\ k <= Ends(1)
    BY <1>1, <1>6, <1>8, Constants
  <1>12. 1 \in 1..Len(r) /\ r[1].type = "BEGIN" /\ Ends(1) <= Len(r)
    BY <1>1, <1>6, <1>8, Constants
  <1>13. Pushes(r, FALSE, 0, p, FALSE)
    BY <1>9, <1>10, <1>11, <1>12 DEF Pushes
  <1> QED BY <1>6, <1>13 DEF B, E

\* The host dies: a tail is lost, and perhaps a goodbye comes instead.
LEMMA PushesCut ==
  ASSUME NEW q \in Seq(Frames), NEW m \in 0..Len(q), NEW h, NEW n \in Nat, NEW p, NEW d, p # "off",
         Pushes(q, h, n, p, d), NEW bye, bye \in {<<>>, <<Frame("LEFT", 0, 0)>>}
  PROVE  Pushes(SubSeq(q, 1, m) \o bye, h, n, "off", d) /\ ~d
  <1> DEFINE s == SubSeq(q, 1, m)
             a == s \o bye
             L == Frame("LEFT", 0, 0)
  <1>1. s \in Seq(Frames) /\ Len(s) = m /\ m \in Nat /\ Len(q) \in Nat /\ \A i \in 1..m : s[i] = q[i]
    BY QueuePrefix, LenProperties
  <1>2. bye \in Seq(Frames) /\ (Len(bye) = 0 \/ (Len(bye) = 1 /\ bye[1].type = "LEFT"))
    <2>1. L \in Frames /\ L.type = "LEFT"
      BY DEF Frame, Frames, Others
    <2> HIDE DEF L
    <2>2. <<L>> \in Seq(Frames) /\ Len(<<L>>) = 1 /\ <<L>>[1] = L
      BY <2>1
    <2>3. <<>> \in Seq(Frames) /\ Len(<<>>) = 0
      BY EmptySeq
    <2>4. bye = <<>> \/ bye = <<L>>
      BY DEF L
    <2> QED BY <2>1, <2>2, <2>3, <2>4
  <1> HIDE DEF s
  <1>3. /\ a \in Seq(Frames) /\ Len(a) = m + Len(bye)
        /\ \A i \in 1..m : a[i] = s[i]
        /\ \A i \in 1..Len(bye) : a[m + i] = bye[i]
    BY <1>1, <1>2, QueueConcat
  <1> HIDE DEF a
  <1>4. /\ Len(a) \in Nat /\ \A i \in 1..m : a[i] = q[i] /\ i \in 1..Len(q) /\ i \in 1..Len(a)
        /\ \A i \in 1..Len(a) : i \in 1..m \/ (i = Len(a) /\ a[i].type = "LEFT")
    <2>1. \A i \in 1..m : a[i] = q[i] /\ i \in 1..Len(q) /\ i \in 1..Len(a)
      BY <1>1, <1>2, <1>3
    <2>2. ASSUME NEW i \in 1..Len(a), i \notin 1..m PROVE i = Len(a) /\ a[i].type = "LEFT"
      <3>a. i \in Int /\ i > m /\ i <= m + Len(bye) /\ Len(bye) \in Nat
        BY <1>1, <1>2, <1>3, <2>2
      <3>b. Len(bye) = 1
        BY <1>1, <1>2, <3>a
      <3>1. Len(bye) = 1 /\ i = m + 1 /\ i = Len(a) /\ 1 \in 1..Len(bye)
        BY <1>1, <1>3, <3>a, <3>b
      <3>2. a[m + 1] = bye[1]
        BY <1>3, <3>1
      <3> QED BY <1>2, <3>1, <3>2
    <2> QED BY <1>1, <1>2, <1>3, <2>1, <2>2
  <1>5. ASSUME NEW b \in Int, Follow(q, b) PROVE Follow(a, b)
    BY <1>4, <1>5 DEF Follow
  <1>6. \A i \in 1..m : q[i].type # "LEFT"
    BY <1>4 DEF Pushes
  <1>7. ~d
    BY DEF Pushes
  <1>8. \A b \in 1..Len(a) : a[b].type = "BEGIN" => Follow(a, b)
    <2> SUFFICES ASSUME NEW b \in 1..Len(a), a[b].type = "BEGIN" PROVE Follow(a, b)
      OBVIOUS
    <2>1. b \in 1..m /\ b \in Int
      BY <1>4
    <2>2. Follow(q, b)
      BY <1>4, <2>1 DEF Pushes
    <2> QED BY <1>5, <2>1, <2>2
  <1>9. h => Follow(a, 0 - n)
    BY <1>5 DEF Pushes
  <1>10. ASSUME NEW k \in 1..Len(a), a[k].type \in {"CHUNK", "END"}
         PROVE  \/ \E b \in 1..Len(a) : a[b].type = "BEGIN" /\ b < k /\ k <= Ends(b)
                \/ h /\ k <= Ends(0 - n)
    <2>1. k \in 1..m /\ k \in 1..Len(q) /\ q[k].type \in {"CHUNK", "END"}
      BY <1>4, <1>10
    <2>2. CASE h /\ k <= Ends(0 - n)
      BY <2>2
    <2>3. CASE ~(h /\ k <= Ends(0 - n))
      <3>1. PICK b \in 1..Len(q) : q[b].type = "BEGIN" /\ b < k /\ k <= Ends(b)
        BY <2>1, <2>3 DEF Pushes
      <3>2. b \in 1..m
        BY <1>1, <2>1, <3>1
      <3> QED BY <1>4, <3>1, <3>2
    <2> QED BY <2>2, <2>3
  <1>11. \A k \in 1..Len(a) : a[k].type = "LEFT" => k = Len(a)
    BY <1>4, <1>6
  <1>12. Pushes(a, h, n, "off", d)
    BY <1>7, <1>8, <1>9, <1>10, <1>11 DEF Pushes
  <1> QED BY <1>7, <1>12 DEF a, s

-----------------------------------------------------------------------------
(* The console's ring.                                                     *)

LEMMA EmptyQueue == <<>> \in Seq(Frames) /\ Len(<<>>) = 0
  BY EmptySeq

LEMMA RingRead ==
  ASSUME NEW q \in Seq(Frames), NEW b \in Nat, NEW p, InRing(q, b, FALSE, p),
         NEW n \in 0..ReadMax, b + n <= Waiting(q), p \in {"pump", "stall", "hold"}
  PROVE  b + n \in Nat /\ InRing(q, b + n, TRUE, p)
  <1>1. Waiting(q) \in Nat /\ n \in Nat /\ n <= ReadMax
    BY UnitsFinite, Constants
  <1>2. CASE q = <<>>
    BY <1>1, <1>2, UnitsNone, Constants DEF InRing
  <1>3. CASE q # <<>>
    <2> DEFINE z == Size(Head(q))
    <2>1. z \in 1..ChunkSize /\ (z = ChunkSize \/ z = 1)
      BY SizeType, Constants DEF Size
    <2>2. b < z
      BY <1>3 DEF InRing
    <2> HIDE DEF z
    <2>3. /\ b + n \in Nat /\ b + n <= ReadMax + ChunkSize - 1
          /\ b + n <= ChunkSize \/ z = ChunkSize
      BY <1>1, <2>1, <2>2, Constants
    <2> QED BY <1>3, <2>3 DEF InRing, z
  <1> QED BY <1>2, <1>3

LEMMA RingTake ==
  ASSUME NEW q \in Seq(Frames), q # <<>>, NEW b \in Nat, NEW p, InRing(q, b, TRUE, p),
         Size(Head(q)) <= b
  PROVE  b - Size(Head(q)) \in Nat /\ InRing(Tail(q), b - Size(Head(q)), TRUE, p)
  <1> DEFINE z == Size(Head(q))
             t == Tail(q)
  <1>1. z \in 1..ChunkSize /\ t \in Seq(Frames)
    BY SizeType, QueueTail
  <1>2. Waiting(q) <= Waiting(t) + z /\ Waiting(q) \in Nat /\ Waiting(t) \in Nat
    BY <1>1, UnitsTail, UnitsFinite
  <1>3. /\ b <= Waiting(q) /\ p \in {"pump", "stall", "hold", "off"}
        /\ b <= ReadMax + ChunkSize - 1 /\ (b <= ChunkSize \/ z = ChunkSize) /\ z <= b
    BY DEF InRing
  <1> HIDE DEF z, t
  <1>4. /\ b - z \in Nat /\ b - z <= Waiting(t) /\ b - z <= ReadMax + ChunkSize - 1
        /\ b - z <= ChunkSize
    BY <1>1, <1>2, <1>3, Constants
  <1>5. b - z \in Nat /\ InRing(t, b - z, TRUE, p)
    BY <1>3, <1>4 DEF InRing
  <1> QED BY <1>5 DEF z, t

LEMMA RingMore ==
  ASSUME NEW q \in Seq(Frames), NEW r \in Seq(Frames), NEW b \in Nat, NEW rd, NEW p,
         InRing(q, b, rd, p)
  PROVE  InRing(q \o r, b, rd, p)
  <1> DEFINE a == q \o r
  <1>1. /\ a \in Seq(Frames) /\ Len(q) <= Len(a) /\ \A i \in 1..Len(q) : a[i] = q[i]
        /\ q # <<>> => a # <<>> /\ Head(a) = Head(q)
    BY QueueConcat
  <1> HIDE DEF a
  <1>2. Waiting(q) <= Waiting(a) /\ Waiting(q) \in Nat /\ Waiting(a) \in Nat
    BY <1>1, UnitsMore, UnitsFinite
  <1>3. CASE q = <<>>
    <2>1. b = 0 /\ Size(Head(a)) > b
      BY <1>3, UnitsNone, SizeType, Constants DEF InRing
    <2> QED BY <1>2, <2>1, Constants DEF InRing, a
  <1>4. CASE q # <<>>
    <2>1. b <= Waiting(a)
      BY <1>2 DEF InRing
    <2> QED BY <1>1, <1>4, <2>1 DEF InRing, a
  <1> QED BY <1>3, <1>4

LEMMA RingDone ==
  ASSUME NEW q, NEW b \in Nat, NEW rd \in BOOLEAN, NEW p, NEW p2, InRing(q, b, rd, p),
         ~rd \/ ~(q # <<>> /\ Size(Head(q)) <= b)
  PROVE  InRing(q, b, FALSE, p2)
  <1>1. Size(Head(q)) \in Int
    BY SizeType, Constants
  <1> QED BY <1>1 DEF InRing

LEMMA RingOff ==
  ASSUME NEW q, NEW b, NEW rd, NEW p, InRing(q, b, rd, p)
  PROVE  InRing(q, b, rd, "off")
  BY DEF InRing

LEMMA RingCut ==
  ASSUME NEW q \in Seq(Frames), NEW m \in 0..Len(q), NEW b \in Nat, NEW rd, NEW p,
         InRing(q, b, rd, p), Waiting(SubSeq(q, 1, m)) >= b
  PROVE  InRing(SubSeq(q, 1, m), b, rd, p)
  <1> DEFINE s == SubSeq(q, 1, m)
  <1>1. s \in Seq(Frames) /\ Len(s) = m /\ m \in Nat /\ Len(q) \in Nat /\ \A i \in 1..m : s[i] = q[i]
    BY QueuePrefix, LenProperties
  <1>2. b <= Waiting(s) /\ Waiting(s) \in Nat
    BY <1>1, UnitsFinite
  <1> HIDE DEF s
  <1>3. CASE s = <<>>
    <2>1. b = 0
      BY <1>2, <1>3, UnitsNone
    <2> QED BY <1>2, <1>3, <2>1, Constants DEF InRing, s
  <1>4. CASE s # <<>>
    <2>1. m # 0 /\ q # <<>>
      BY <1>1, <1>4, EmptySeq, EmptyQueue
    <2>2. Head(s) = s[1] /\ Head(q) = q[1] /\ 1 \in 1..m
      BY <1>1, <1>4, <2>1, QueueTail
    <2>3. Head(s) = Head(q)
      BY <1>1, <2>2
    <2> QED BY <1>2, <1>4, <2>1, <2>3 DEF InRing, s
  <1> QED BY <1>3, <1>4

-----------------------------------------------------------------------------
(* What a console that takes a frame, or sends some, does to the queues.   *)

Plain == {"INPUT", "CRC", "RESYNC"}

LEMMA TakeStep ==
  ASSUME ImageInv, NEW c \in Seats, NEW type, NEW out \in Seq(Frames), Take(c, type, out)
  PROVE  /\ chan[c] \in Seq(Frames) /\ chan[c] # <<>> /\ chan[c][1] \in Frames
         /\ Head(chan[c]) = chan[c][1] /\ chan[c][1].type = type
         /\ read[c] /\ pc[c] \in {"pump", "stall", "hold"} /\ Size(Head(chan[c])) <= buf[c]
         /\ chan' \in [Seats -> Seq(Frames)] /\ buf' \in [Seats -> Nat]
         /\ chan'[c] = Tail(chan[c]) /\ chan'[Peer(c)] = chan[Peer(c)] \o out
         /\ buf'[c] = buf[c] - Size(Head(chan[c])) /\ buf'[Peer(c)] = buf[Peer(c)]
         /\ pc' = pc /\ read' = read
         /\ Pumps'
  <1> DEFINE q == chan[c]
             d == Peer(c)
             p == chan[d]
             z == Size(Head(q))
             w == p \o out
  <1>1. /\ chan \in [Seats -> Seq(Frames)] /\ buf \in [Seats -> Nat] /\ read \in [Seats -> BOOLEAN]
        /\ pc \in [Seats -> {"pass", "pump", "gate", "stall", "after", "hold", "park", "off"}]
        /\ InRing(q, buf[c], read[c], pc[c]) /\ d \in Seats /\ d # c /\ InRing(p, buf[d], read[d], pc[d])
        /\ \A e \in Seats : e = c \/ e = d
    BY SeatFacts DEF ImageInv, Basics, Pumps
  <1>2. /\ pc[c] # "off" /\ read[c] /\ q # <<>> /\ z <= buf[c] /\ Head(q).type = type
        /\ buf' = [buf EXCEPT ![c] = @ - z]
        /\ chan' = [chan EXCEPT ![c] = Tail(@), ![d] = @ \o out]
        /\ pc' = pc /\ read' = read
    BY DEF Take, Complete
  <1>3. q \in Seq(Frames) /\ Tail(q) \in Seq(Frames) /\ Head(q) \in Frames /\ Head(q) = q[1]
    BY <1>1, <1>2, QueueTail
  <1>4. p \in Seq(Frames) /\ w \in Seq(Frames)
    BY <1>1, QueueConcat
  <1> DEFINE t == Tail(q)
  <1> HIDE DEF d, w, t, z
  <1>5. /\ chan'[c] = t /\ chan'[d] = w /\ chan' \in [Seats -> Seq(Frames)]
    BY <1>1, <1>2, <1>3, <1>4 DEF w, t
  <1>6. read[c] = TRUE
    BY <1>1, <1>2
  <1>7. buf[c] - z \in Nat /\ InRing(t, buf[c] - z, TRUE, pc[c])
    BY <1>1, <1>2, <1>3, <1>6, RingTake DEF t, z
  <1>8. buf'[c] = buf[c] - z /\ buf'[d] = buf[d] /\ buf' \in [Seats -> Nat]
    BY <1>1, <1>2, <1>7
  <1>9. InRing(w, buf[d], read[d], pc[d])
    BY <1>1, <1>4, RingMore DEF w
  <1>10. \A e \in Seats : InRing(chan'[e], buf'[e], read'[e], pc'[e])
    BY <1>1, <1>2, <1>5, <1>6, <1>7, <1>8, <1>9
  <1>11. Pumps'
    BY <1>10 DEF Pumps
  <1>12. pc[c] \in {"pump", "stall", "hold"}
    BY <1>1, <1>2 DEF InRing
  <1> QED BY <1>1, <1>2, <1>3, <1>5, <1>8, <1>11, <1>12 DEF d, w, t, z

LEMMA HostTakes ==
  ASSUME ImageInv, NEW type, Take(Host, type, <<>>)
  PROVE  /\ chan'[Guest] = chan[Guest] /\ type \in Plain
         /\ \A i \in 1..Len(chan'[Host]) : chan'[Host][i].type \in Plain
  <1> DEFINE q == chan[Host]
             t == Tail(q)
  <1>1. /\ q \in Seq(Frames) /\ q # <<>> /\ q[1].type = type /\ chan'[Host] = t
        /\ chan'[Guest] = chan[Guest] \o <<>>
    <2> DEFINE out == <<>>
    <2>1. out \in Seq(Frames) /\ Take(Host, type, out)
      BY EmptyQueue
    <2> HIDE DEF out
    <2>2. Host \in Seats
      BY SeatFacts
    <2>3. /\ chan[Host] \in Seq(Frames) /\ chan[Host] # <<>> /\ chan[Host][1].type = type
          /\ chan'[Host] = Tail(chan[Host]) /\ chan'[Peer(Host)] = chan[Peer(Host)] \o out
      BY <2>1, <2>2, TakeStep
    <2> QED BY <2>3, SeatFacts DEF out
  <1>2. chan[Guest] \o <<>> = chan[Guest]
    BY SeatFacts, ConcatEmptySeq DEF ImageInv, Basics
  <1>3. Len(q) \in Nat /\ Len(q) >= 1 /\ Len(t) = Len(q) - 1 /\ \A i \in 1..Len(t) : t[i] = q[i + 1]
    BY <1>1, QueueTail
  <1>4. \A i \in 1..Len(q) : q[i].type \in Plain
    BY DEF ImageInv, Roles, Plain
  <1> HIDE DEF q, t
  <1>5. 1 \in 1..Len(q) /\ \A i \in 1..Len(t) : i + 1 \in 1..Len(q)
    BY <1>3
  <1>6. \A i \in 1..Len(t) : t[i].type \in Plain
    BY <1>3, <1>4, <1>5
  <1> QED BY <1>1, <1>2, <1>4, <1>5, <1>6 DEF q

LEMMA PlainMore ==
  ASSUME ImageInv, NEW out \in Seq(Frames), \A i \in 1..Len(out) : out[i].type \in Plain
  PROVE  \A i \in 1..Len(chan[Host] \o out) : (chan[Host] \o out)[i].type \in Plain
  <1> DEFINE q == chan[Host]
             w == q \o out
  <1>1. q \in Seq(Frames) /\ \A i \in 1..Len(q) : q[i].type \in Plain
    BY SeatFacts DEF ImageInv, Basics, Roles, Plain
  <1> HIDE DEF q
  <1>2. /\ Len(q) \in Nat /\ Len(out) \in Nat /\ Len(w) = Len(q) + Len(out)
        /\ \A i \in 1..Len(q) : w[i] = q[i]
        /\ \A i \in 1..Len(out) : w[Len(q) + i] = out[i]
    BY <1>1, QueueConcat
  <1> HIDE DEF w
  <1>3. ASSUME NEW i \in 1..Len(w) PROVE w[i].type \in Plain
    <2>1. i \in 1..Len(q) \/ (i - Len(q) \in 1..Len(out) /\ Len(q) + (i - Len(q)) = i)
      BY <1>2
    <2>2. CASE i \in 1..Len(q)
      BY <1>1, <1>2, <2>2
    <2>3. CASE i - Len(q) \in 1..Len(out) /\ Len(q) + (i - Len(q)) = i
      <3>1. w[Len(q) + (i - Len(q))] = out[i - Len(q)]
        BY <1>2, <2>3
      <3> QED BY <2>3, <3>1
    <2> QED BY <2>1, <2>2, <2>3
  <1> QED BY <1>3 DEF w, q

\* The facts about the guest's queue, in one place.
LEMMA GuestQueue ==
  ASSUME ImageInv
  PROVE  /\ chan[Guest] \in Seq(Frames) /\ applied \in 0..NChunks /\ applied \in Nat
         /\ hold[Guest] \in BOOLEAN /\ dropped[Guest] \in BOOLEAN
         /\ Pushes(chan[Guest], hold[Guest], applied, pc[Host], dropped[Guest])
  BY SeatFacts, Constants DEF ImageInv, Basics, Queue

-----------------------------------------------------------------------------
(* The handlers.                                                           *)

LEMMA PlainTakes ==
  ASSUME ImageInv, NEW c \in Seats, NEW type \in Plain, NEW out \in Seq(Frames),
         \A i \in 1..Len(out) : out[i].type \in Plain, c = Host => out = <<>>,
         Take(c, type, out), hold' = hold, dropped' = dropped, applied' = applied
  PROVE  Roles' /\ Queue' /\ (c = Guest => ~hold[Guest])
  <1>1. pc' = pc /\ ~hold[Host] /\ ~dropped[Host] /\ pc[Guest] # "off"
    BY TakeStep DEF ImageInv, Roles
  <1>2. CASE c = Host
    <2>1. /\ chan'[Guest] = chan[Guest]
          /\ \A i \in 1..Len(chan'[Host]) : chan'[Host][i].type \in Plain
      BY <1>2, HostTakes
    <2> QED BY <1>1, <1>2, <2>1, GuestQueue, SeatFacts DEF Roles, Queue, Plain
  <1>3. CASE c = Guest
    <2> DEFINE q == chan[Guest]
    <2>1. /\ q \in Seq(Frames) /\ q # <<>> /\ q[1].type \in Plain /\ chan'[Guest] = Tail(q)
          /\ chan'[Host] = chan[Host] \o out
      <3>1. /\ chan[c] \in Seq(Frames) /\ chan[c] # <<>> /\ chan[c][1].type = type
            /\ chan'[c] = Tail(chan[c]) /\ chan'[Peer(c)] = chan[Peer(c)] \o out
        BY TakeStep
      <3> QED BY <1>3, <3>1, SeatFacts
    <2>2. \A i \in 1..Len(chan'[Host]) : chan'[Host][i].type \in Plain
      BY <2>1, PlainMore
    <2>3. ~hold[Guest] /\ Pushes(Tail(q), FALSE, applied, pc[Host], dropped[Guest])
      BY <2>1, GuestQueue, HeadPlain DEF Plain
    <2>4. hold[Guest] = FALSE
      BY <2>3, GuestQueue
    <2> HIDE DEF q
    <2> QED BY <1>1, <2>1, <2>2, <2>3, <2>4 DEF Roles, Queue, Plain
  <1> QED BY <1>2, <1>3, SeatFacts

LEMMA StillKept ==
  ASSUME ImageInv, spoiled' = spoiled, dropped' = dropped, hold' = hold, pc' = pc, applied' = applied,
         tick' = tick, read' = read, ~hold[Guest] \/ (wm'[Guest] = wm[Guest] /\ buf'[Guest] = buf[Guest])
  PROVE  Still'
  BY DEF ImageInv, Still

LEMMA CellWrite ==
  ASSUME NEW x \in [Seats -> [Seats -> [Cells -> Nat \X Nat]]], NEW c \in Seats, NEW s \in Seats,
         NEW n, NEW v \in Nat \X Nat
  PROVE  [x EXCEPT ![c][s][n] = v] \in [Seats -> [Seats -> [Cells -> Nat \X Nat]]]
  <1> DEFINE y == [x[c][s] EXCEPT ![n] = v]
             z == [x[c] EXCEPT ![s] = y]
  <1>1. y \in [Cells -> Nat \X Nat]
    BY ZenonT(30), SMTT(30)
  <1> HIDE DEF y
  <1>2. z \in [Seats -> [Cells -> Nat \X Nat]]
    BY <1>1
  <1> HIDE DEF z
  <1>3. [x EXCEPT ![c] = z] \in [Seats -> [Seats -> [Cells -> Nat \X Nat]]]
    BY <1>2
  <1> QED BY <1>3 DEF y, z

LEMMA OnInputKeeps ==
  ASSUME ImageInv, NEW c \in Seats, OnInput(c)
  PROVE  ImageInv'
  <1> DEFINE out == <<>>
             f == Head(chan[c])
  <1>1. out \in Seq(Frames) /\ (\A i \in 1..Len(out) : out[i].type \in Plain) /\ (c = Host => out = <<>>)
    BY EmptyQueue
  <1>2. /\ Take(c, "INPUT", out) /\ "INPUT" \in Plain
        /\ IF f.tick > wm[c]
           THEN /\ cells' = [cells EXCEPT ![c][Peer(c)][f.tick] = f.val]
                /\ wm' = [wm EXCEPT ![c] = f.tick]
           ELSE cells' = cells /\ wm' = wm
        /\ tick' = tick /\ line' = line /\ log' = log /\ hold' = hold /\ resume' = resume
        /\ pend' = pend /\ ptmo' = ptmo /\ rec' = rec /\ dropped' = dropped /\ base' = base
        /\ applied' = applied /\ spoiled' = spoiled /\ glitches' = glitches /\ pushes' = pushes
    BY DEF OnInput, recovery, image, Plain
  <1> HIDE DEF out
  <1>3. Roles' /\ Queue' /\ (c = Guest => ~hold[Guest])
    BY <1>1, <1>2, PlainTakes
  <1>4. /\ f \in Frames /\ f.type = "INPUT" /\ pc' = pc /\ read' = read
        /\ chan' \in [Seats -> Seq(Frames)] /\ buf' \in [Seats -> Nat] /\ Pumps'
        /\ buf'[Peer(c)] = buf[Peer(c)]
    BY <1>1, <1>2, TakeStep
  <1>5. f.tick \in Nat /\ f.val \in Nat \X Nat
    BY <1>4 DEF Frames, Others
  <1> HIDE DEF f
  <1>6. Basics'
    <2>1. cells' \in [Seats -> [Seats -> [Cells -> Nat \X Nat]]]
      <3>1. cells \in [Seats -> [Seats -> [Cells -> Nat \X Nat]]] /\ Peer(c) \in Seats
        BY SeatFacts DEF ImageInv, Basics
      <3>2. [cells EXCEPT ![c][Peer(c)][f.tick] = f.val] \in [Seats -> [Seats -> [Cells -> Nat \X Nat]]]
        BY <1>5, <3>1, CellWrite
      <3>3. cells' = cells \/ cells' = [cells EXCEPT ![c][Peer(c)][f.tick] = f.val]
        BY <1>2
      <3> QED BY <3>1, <3>2, <3>3
    <2>2. wm' \in [Seats -> Nat]
      BY <1>2, <1>5 DEF ImageInv, Basics
    <2> QED BY <1>2, <1>4, <2>1, <2>2 DEF ImageInv, Basics
  <1>7. ~hold[Guest] \/ (wm'[Guest] = wm[Guest] /\ buf'[Guest] = buf[Guest])
    <2>1. CASE c = Guest
      BY <1>3, <2>1
    <2>2. CASE c = Host
      BY <1>2, <1>4, <2>2, SeatFacts DEF ImageInv, Basics
    <2> QED BY <2>1, <2>2, SeatFacts
  <1>8. Still'
    BY <1>2, <1>4, <1>7, StillKept
  <1> QED BY <1>3, <1>4, <1>6, <1>8 DEF ImageInv

LEMMA OnCrcKeeps ==
  ASSUME ImageInv, NEW c \in Seats, OnCrc(c)
  PROVE  ImageInv'
  <1> DEFINE f == Head(chan[c])
             bad == ~hold[c] /\ ~pend[c] /\ Disagrees(c, f)
             ask == Frame("RESYNC", f.tick, 0)
             asked == <<ask>>
             out == IF bad /\ Asks(c) THEN asked ELSE <<>>
  <1>1. /\ Take(c, "CRC", out) /\ "CRC" \in Plain
        /\ pend' = [pend EXCEPT ![c] = @ \/ bad]
        /\ ptmo' = [ptmo EXCEPT ![c] = IF bad THEN 0 ELSE @]
        /\ tick' = tick /\ wm' = wm /\ cells' = cells /\ line' = line /\ log' = log
        /\ hold' = hold /\ resume' = resume /\ rec' = rec /\ dropped' = dropped /\ base' = base
        /\ applied' = applied /\ spoiled' = spoiled /\ glitches' = glitches /\ pushes' = pushes
    BY DEF OnCrc, engine, image, Plain
  <1>2. chan[c] \in Seq(Frames) /\ chan[c] # <<>>
    BY <1>1 DEF Take, Complete, ImageInv, Basics
  <1>3. f \in Frames
    BY <1>2, QueueTail
  <1>4. ask \in Frames /\ ask.type \in Plain
    <2>1. f.tick \in Nat
      BY <1>3 DEF Frames
    <2> HIDE DEF f
    <2> QED BY <2>1 DEF Frame, Frames, Others, Plain
  <1> HIDE DEF ask, bad
  <1>5. asked \in Seq(Frames) /\ \A i \in 1..Len(asked) : asked[i].type \in Plain
    BY <1>4
  <1> HIDE DEF asked
  <1>6. out \in Seq(Frames) /\ (\A i \in 1..Len(out) : out[i].type \in Plain) /\ (c = Host => out = <<>>)
    <2>1. c = Host => ~Asks(c)
      BY SeatFacts DEF Asks
    <2>2. out = asked \/ out = <<>>
      OBVIOUS
    <2>3. \A i \in 1..Len(<<>>) : <<>>[i].type \in Plain
      BY EmptyQueue
    <2> QED BY <1>5, <2>1, <2>2, <2>3, EmptyQueue
  <1> HIDE DEF out
  <1>7. Roles' /\ Queue' /\ (c = Guest => ~hold[Guest])
    BY <1>1, <1>6, PlainTakes
  <1>8. /\ pc' = pc /\ read' = read
        /\ chan' \in [Seats -> Seq(Frames)] /\ buf' \in [Seats -> Nat] /\ Pumps'
        /\ buf'[Peer(c)] = buf[Peer(c)]
    BY <1>1, <1>6, TakeStep
  <1>9. Basics'
    <2>1. pend' \in [Seats -> BOOLEAN]
      <3>1. bad \in BOOLEAN
        BY DEF bad
      <3> QED BY <1>1, <3>1 DEF ImageInv, Basics
    <2>2. ptmo' \in [Seats -> 0..(PendMax - 1)]
      BY <1>1, Constants DEF ImageInv, Basics
    <2> QED BY <1>1, <1>8, <2>1, <2>2 DEF ImageInv, Basics
  <1>10. ~hold[Guest] \/ (wm'[Guest] = wm[Guest] /\ buf'[Guest] = buf[Guest])
    BY <1>1, <1>7, <1>8, SeatFacts
  <1>11. Still'
    BY <1>1, <1>8, <1>10, StillKept
  <1> QED BY <1>7, <1>8, <1>9, <1>11 DEF ImageInv

LEMMA OnReqKeeps ==
  ASSUME ImageInv, NEW c \in Seats, OnReq(c)
  PROVE  ImageInv'
  <1> DEFINE new == c = Host /\ ~hold[c] /\ ~pend[c]
             out == <<>>
  <1>1. /\ Take(c, "RESYNC", out) /\ "RESYNC" \in Plain
        /\ pend' = [pend EXCEPT ![c] = @ \/ new]
        /\ ptmo' = [ptmo EXCEPT ![c] = IF new THEN 0 ELSE @]
        /\ tick' = tick /\ wm' = wm /\ cells' = cells /\ line' = line /\ log' = log
        /\ hold' = hold /\ resume' = resume /\ rec' = rec /\ dropped' = dropped /\ base' = base
        /\ applied' = applied /\ spoiled' = spoiled /\ glitches' = glitches /\ pushes' = pushes
    BY DEF OnReq, engine, image, Plain
  <1>2. out \in Seq(Frames) /\ (\A i \in 1..Len(out) : out[i].type \in Plain) /\ (c = Host => out = <<>>)
    BY EmptyQueue
  <1> HIDE DEF out, new
  <1>3. Roles' /\ Queue' /\ (c = Guest => ~hold[Guest])
    BY <1>1, <1>2, PlainTakes
  <1>4. /\ pc' = pc /\ read' = read
        /\ chan' \in [Seats -> Seq(Frames)] /\ buf' \in [Seats -> Nat] /\ Pumps'
        /\ buf'[Peer(c)] = buf[Peer(c)]
    BY <1>1, <1>2, TakeStep
  <1>5. Basics'
    <2>1. pend' \in [Seats -> BOOLEAN]
      <3>1. new \in BOOLEAN
        BY DEF new
      <3> QED BY <1>1, <3>1 DEF ImageInv, Basics
    <2>2. ptmo' \in [Seats -> 0..(PendMax - 1)]
      BY <1>1, Constants DEF ImageInv, Basics
    <2> QED BY <1>1, <1>4, <2>1, <2>2 DEF ImageInv, Basics
  <1>6. ~hold[Guest] \/ (wm'[Guest] = wm[Guest] /\ buf'[Guest] = buf[Guest])
    BY <1>1, <1>3, <1>4, SeatFacts
  <1>7. Still'
    BY <1>1, <1>4, <1>6, StillKept
  <1> QED BY <1>3, <1>4, <1>5, <1>7 DEF ImageInv

\* Only the guest takes the frames of a push, or a goodbye.
LEMMA GuestTakes ==
  ASSUME ImageInv, NEW c \in Seats, NEW type, type \notin Plain, Take(c, type, <<>>)
  PROVE  /\ c = Guest
         /\ chan[Guest] \in Seq(Frames) /\ chan[Guest] # <<>> /\ chan[Guest][1] \in Frames
         /\ Head(chan[Guest]) = chan[Guest][1] /\ chan[Guest][1].type = type
         /\ read[Guest] /\ pc[Guest] \in {"pump", "stall", "hold"}
         /\ Size(Head(chan[Guest])) <= buf[Guest]
         /\ chan' \in [Seats -> Seq(Frames)] /\ buf' \in [Seats -> Nat]
         /\ chan'[Guest] = Tail(chan[Guest]) /\ chan'[Host] = chan[Host]
         /\ buf'[Guest] = buf[Guest] - Size(Head(chan[Guest]))
         /\ pc' = pc /\ read' = read
         /\ Pumps'
  <1>1. c # Host
    BY HostTakes
  <1>2. c = Guest
    BY <1>1, SeatFacts
  <1> DEFINE out == <<>>
  <1>3. out \in Seq(Frames) /\ Take(c, type, out)
    BY EmptyQueue
  <1> HIDE DEF out
  <1>4. /\ chan[c] \in Seq(Frames) /\ chan[c] # <<>> /\ chan[c][1] \in Frames
        /\ Head(chan[c]) = chan[c][1] /\ chan[c][1].type = type
        /\ read[c] /\ pc[c] \in {"pump", "stall", "hold"} /\ Size(Head(chan[c])) <= buf[c]
        /\ chan' \in [Seats -> Seq(Frames)] /\ buf' \in [Seats -> Nat]
        /\ chan'[c] = Tail(chan[c]) /\ chan'[Peer(c)] = chan[Peer(c)] \o out
        /\ buf'[c] = buf[c] - Size(Head(chan[c]))
        /\ pc' = pc /\ read' = read
        /\ Pumps'
    BY <1>3, TakeStep
  <1>5. chan[Host] \o out = chan[Host]
    BY SeatFacts, ConcatEmptySeq DEF out, ImageInv, Basics
  <1> QED BY <1>2, <1>4, <1>5, SeatFacts

LEMMA OnBeginKeeps ==
  ASSUME ImageInv, NEW c \in Seats, OnBegin(c)
  PROVE  ImageInv'
  <1> DEFINE q == chan[Guest]
             f == Head(chan[c])
  <1>1. /\ Take(c, "BEGIN", <<>>) /\ "BEGIN" \notin Plain
        /\ hold' = [hold EXCEPT ![c] = TRUE]
        /\ resume' = [resume EXCEPT ![c] = f.tick]
        /\ rec' = [rec EXCEPT ![c] = NoRecords]
        /\ applied' = 0 /\ spoiled' = FALSE
        /\ tick' = tick /\ wm' = wm /\ cells' = cells /\ line' = line /\ log' = log
        /\ pend' = pend /\ ptmo' = ptmo /\ dropped' = dropped
        /\ base' = base /\ glitches' = glitches /\ pushes' = pushes
    BY DEF OnBegin, engine, Plain, Cleared
  <1>2. /\ c = Guest
        /\ q \in Seq(Frames) /\ q # <<>> /\ f \in Frames /\ f = q[1] /\ f.type = "BEGIN"
        /\ read[Guest] /\ pc[Guest] \in {"pump", "stall", "hold"} /\ Size(f) <= buf[Guest]
        /\ chan' \in [Seats -> Seq(Frames)] /\ buf' \in [Seats -> Nat]
        /\ chan'[Guest] = Tail(q) /\ chan'[Host] = chan[Host]
        /\ buf'[Guest] = buf[Guest] - Size(f)
        /\ pc' = pc /\ read' = read /\ Pumps'
    BY <1>1, GuestTakes
  <1>3. Pushes(Tail(q), TRUE, 0, pc[Host], dropped[Guest])
    BY ZenonT(30), <1>2, GuestQueue, HeadBegin
  <1>4. Basics'
    <2>1. NoRecords \in [0..(CrcSlots - 1) -> [tick : Int, crc : Nat]]
      BY DEF NoRecords, NoRecord
    <2>2. f.tick \in Nat
      BY <1>2 DEF Frames
    <2> HIDE DEF f
    <2>3. resume' \in [Seats -> Nat] /\ rec' \in [Seats -> [0..(CrcSlots - 1) -> [tick : Int, crc : Nat]]]
      BY <1>1, <2>1, <2>2 DEF ImageInv, Basics
    <2>4. hold' \in [Seats -> BOOLEAN]
      BY <1>1 DEF ImageInv, Basics
    <2>5. applied' \in 0..NChunks
      BY <1>1, Constants
    <2> QED BY <1>1, <1>2, <2>3, <2>4, <2>5 DEF ImageInv, Basics
  <1>5. Size(f) = 1
    BY <1>2 DEF Size
  <1>6. buf[Guest] - 1 < ChunkSize
    <2>1. /\ buf[Guest] \in Nat /\ buf[Guest] <= ReadMax + ChunkSize - 1
          /\ buf[Guest] <= ChunkSize \/ Size(Head(q)) = ChunkSize
      BY SeatFacts DEF ImageInv, Basics, Pumps, InRing
    <2>2. Head(q) = f
      BY <1>2
    <2> HIDE DEF q, f
    <2> QED BY <1>5, <2>1, <2>2, Constants
  <1> HIDE DEF q, f
  <1>7. hold'[Guest] = TRUE /\ hold'[Host] = hold[Host]
    BY <1>1, <1>2, SeatFacts DEF ImageInv, Basics
  <1>8. Roles'
    BY <1>1, <1>2, <1>7 DEF ImageInv, Roles
  <1>9. Queue'
    BY <1>1, <1>2, <1>3, <1>7 DEF Queue
  <1>10. Still'
    BY <1>1, <1>2, <1>5, <1>6 DEF Still
  <1> QED BY <1>2, <1>4, <1>8, <1>9, <1>10 DEF ImageInv

LEMMA OnChunkKeeps ==
  ASSUME ImageInv, NEW c \in Seats, OnChunk(c)
  PROVE  ImageInv'
  <1> DEFINE q == chan[Guest]
             f == Head(chan[c])
  <1>1. /\ Take(c, "CHUNK", <<>>) /\ "CHUNK" \notin Plain
        /\ applied' = IF hold[c] THEN applied + 1 ELSE applied
        /\ tick' = tick /\ wm' = wm /\ cells' = cells /\ line' = line /\ log' = log
        /\ hold' = hold /\ resume' = resume /\ pend' = pend /\ ptmo' = ptmo /\ rec' = rec
        /\ dropped' = dropped /\ spoiled' = spoiled
        /\ base' = base /\ glitches' = glitches /\ pushes' = pushes
    BY DEF OnChunk, engine, recovery, Plain
  <1>2. /\ c = Guest
        /\ q \in Seq(Frames) /\ q # <<>> /\ f = q[1] /\ f.type = "CHUNK"
        /\ read[Guest] /\ pc[Guest] \in {"pump", "stall", "hold"} /\ Size(f) <= buf[Guest]
        /\ chan' \in [Seats -> Seq(Frames)] /\ buf' \in [Seats -> Nat]
        /\ chan'[Guest] = Tail(q) /\ chan'[Host] = chan[Host]
        /\ pc' = pc /\ read' = read /\ Pumps'
    BY <1>1, GuestTakes
  <1>3. /\ hold[Guest] /\ applied < NChunks /\ f.tick = applied + 1
        /\ Pushes(Tail(q), hold[Guest], applied + 1, pc[Host], dropped[Guest])
    BY <1>2, GuestQueue, HeadChunk
  <1>4. applied' = applied + 1 /\ applied' \in 0..NChunks
    BY <1>1, <1>2, <1>3, GuestQueue, Constants
  <1>5. Basics'
    BY <1>1, <1>2, <1>4 DEF ImageInv, Basics
  <1>6. ~(applied = 0 /\ buf[Guest] < ChunkSize)
    <2>1. buf[Guest] \in Nat
      BY SeatFacts DEF ImageInv, Basics
    <2> SUFFICES ASSUME applied = 0, buf[Guest] < ChunkSize PROVE FALSE
      OBVIOUS
    <2>2. f.tick < NChunks
      BY <1>3, Constants
    <2>3. Size(f) = ChunkSize
      BY <1>2, <2>2 DEF Size
    <2> HIDE DEF f
    <2> QED BY <1>2, <2>1, <2>3, Constants
  <1> HIDE DEF q, f
  <1>7. Roles'
    BY <1>1, <1>2 DEF ImageInv, Roles
  <1>8. Queue'
    BY <1>1, <1>2, <1>3, <1>4 DEF Queue
  <1>9. Still'
    BY <1>1, <1>2, <1>6 DEF ImageInv, Still
  <1> QED BY <1>2, <1>5, <1>7, <1>8, <1>9 DEF ImageInv

LEMMA NoCellsType == NoCells \in [Seats -> [Cells -> Nat \X Nat]]
  <1>1. Idle \in Nat \X Nat
    BY DEF Idle
  <1> QED BY <1>1 DEF NoCells, Cells

LEMMA NoRecordsType == NoRecords \in [0..(CrcSlots - 1) -> [tick : Int, crc : Nat]]
  BY DEF NoRecords, NoRecord

LEMMA RebaseType ==
  ASSUME Basics, NEW c \in Seats, NEW r \in Nat, NEW state \in Nat, Rebase(c, r, state)
  PROVE  /\ tick' \in [Seats -> Nat] /\ wm' \in [Seats -> Nat]
         /\ cells' \in [Seats -> [Seats -> [Cells -> Nat \X Nat]]]
         /\ line' \in [Seats -> Nat] /\ base' \in [Seats -> Nat]
         /\ hold' \in [Seats -> BOOLEAN] /\ hold'[c] = FALSE /\ \A d \in Seats \ {c} : hold'[d] = hold[d]
         /\ \A d \in Seats \ {c} : tick'[d] = tick[d] /\ wm'[d] = wm[d]
         /\ pend' \in [Seats -> BOOLEAN] /\ ptmo' \in [Seats -> 0..(PendMax - 1)]
         /\ rec' \in [Seats -> [0..(CrcSlots - 1) -> [tick : Int, crc : Nat]]]
  <1>1. RebasedWM(r) \in Nat
    BY Constants DEF RebasedWM
  <1>2. 0 \in 0..(PendMax - 1)
    BY Constants
  <1>3. Satisfied(c) \in BOOLEAN
    BY DEF Satisfied
  <1>4. Cleared(c) \in [0..(CrcSlots - 1) -> [tick : Int, crc : Nat]]
    BY NoRecordsType DEF Cleared
  <1>5. /\ tick' = [tick EXCEPT ![c] = r] /\ wm' = [wm EXCEPT ![c] = RebasedWM(r)]
        /\ cells' = [cells EXCEPT ![c] = NoCells] /\ line' = [line EXCEPT ![c] = @ + 1]
        /\ base' = [base EXCEPT ![c] = state] /\ hold' = [hold EXCEPT ![c] = FALSE]
        /\ pend' = [pend EXCEPT ![c] = Satisfied(c)] /\ ptmo' = [ptmo EXCEPT ![c] = 0]
        /\ rec' = [rec EXCEPT ![c] = Cleared(c)]
    BY DEF Rebase
  <1>6. /\ tick \in [Seats -> Nat] /\ wm \in [Seats -> Nat]
        /\ cells \in [Seats -> [Seats -> [Cells -> Nat \X Nat]]]
        /\ line \in [Seats -> Nat] /\ base \in [Seats -> Nat] /\ hold \in [Seats -> BOOLEAN]
        /\ pend \in [Seats -> BOOLEAN] /\ ptmo \in [Seats -> 0..(PendMax - 1)]
        /\ rec \in [Seats -> [0..(CrcSlots - 1) -> [tick : Int, crc : Nat]]]
    BY DEF Basics
  <1>7. /\ tick' \in [Seats -> Nat] /\ wm' \in [Seats -> Nat] /\ line' \in [Seats -> Nat]
        /\ base' \in [Seats -> Nat]
    BY <1>1, <1>5, <1>6
  <1>8. cells' \in [Seats -> [Seats -> [Cells -> Nat \X Nat]]]
    BY <1>5, <1>6, NoCellsType
  <1>9. hold' \in [Seats -> BOOLEAN] /\ hold'[c] = FALSE /\ \A d \in Seats \ {c} : hold'[d] = hold[d]
    BY <1>5, <1>6
  <1>10. \A d \in Seats \ {c} : tick'[d] = tick[d] /\ wm'[d] = wm[d]
    BY <1>5, <1>6
  <1>11. pend' \in [Seats -> BOOLEAN] /\ ptmo' \in [Seats -> 0..(PendMax - 1)]
    BY <1>2, <1>3, <1>5, <1>6
  <1>12. rec' \in [Seats -> [0..(CrcSlots - 1) -> [tick : Int, crc : Nat]]]
    BY <1>4, <1>5, <1>6
  <1> QED BY <1>7, <1>8, <1>9, <1>10, <1>11, <1>12

LEMMA OnEndKeeps ==
  ASSUME ImageInv, NEW c \in Seats, OnEnd(c)
  PROVE  ImageInv'
  <1> DEFINE q == chan[Guest]
             f == Head(chan[c])
             state == IF applied = NChunks /\ ~spoiled THEN f.val ELSE Garbage
  <1>1. /\ Take(c, "END", <<>>) /\ "END" \notin Plain
        /\ hold[c] => Rebase(c, resume[c], state)
        /\ applied' = 0 /\ spoiled' = FALSE
        /\ resume' = resume /\ dropped' = dropped /\ glitches' = glitches /\ pushes' = pushes
    BY DEF OnEnd, Plain
  <1>2. /\ c = Guest
        /\ q \in Seq(Frames) /\ q # <<>> /\ f \in Frames /\ f = q[1] /\ f.type = "END"
        /\ chan' \in [Seats -> Seq(Frames)] /\ buf' \in [Seats -> Nat]
        /\ chan'[Guest] = Tail(q) /\ chan'[Host] = chan[Host]
        /\ pc' = pc /\ read' = read /\ Pumps'
    BY <1>1, GuestTakes
  <1>3. /\ hold[Guest] /\ ~dropped[Guest] /\ applied = NChunks
        /\ Pushes(Tail(q), FALSE, 0, pc[Host], dropped[Guest])
    <2>1. q \in Seq(Frames) /\ q # <<>> /\ q[1].type = "END"
      BY <1>2
    <2>2. applied \in 0..NChunks /\ Pushes(q, hold[Guest], applied, pc[Host], dropped[Guest])
      BY GuestQueue
    <2> HIDE DEF q, f
    <2> QED BY <2>1, <2>2, HeadEnd
  <1>4. ~spoiled
    BY <1>3 DEF ImageInv, Still
  <1>5. f.val \in Nat
    BY <1>2 DEF Frames
  <1>6. Rebase(c, resume[c], state) /\ state \in Nat /\ resume[c] \in Nat /\ Basics
    BY <1>1, <1>2, <1>3, <1>4, <1>5 DEF ImageInv, Basics
  <1> HIDE DEF q, f, state
  <1>7. /\ tick' \in [Seats -> Nat] /\ wm' \in [Seats -> Nat]
        /\ cells' \in [Seats -> [Seats -> [Cells -> Nat \X Nat]]]
        /\ line' \in [Seats -> Nat] /\ base' \in [Seats -> Nat]
        /\ hold' \in [Seats -> BOOLEAN] /\ hold'[Guest] = FALSE /\ hold'[Host] = hold[Host]
        /\ pend' \in [Seats -> BOOLEAN] /\ ptmo' \in [Seats -> 0..(PendMax - 1)]
        /\ rec' \in [Seats -> [0..(CrcSlots - 1) -> [tick : Int, crc : Nat]]]
    BY <1>2, <1>6, RebaseType, SeatFacts
  <1>8. applied' \in 0..NChunks
    BY <1>1, Constants
  <1>9. Basics'
    BY <1>1, <1>2, <1>7, <1>8 DEF ImageInv, Basics
  <1>10. Roles'
    BY <1>1, <1>2, <1>7 DEF ImageInv, Roles
  <1>11. Queue'
    BY <1>1, <1>2, <1>3, <1>7 DEF Queue
  <1>12. Still'
    BY <1>1, <1>7 DEF Still
  <1> QED BY <1>2, <1>9, <1>10, <1>11, <1>12 DEF ImageInv

LEMMA GiveUpType ==
  ASSUME Basics, NEW c \in Seats, GiveUp(c)
  PROVE  /\ dropped' \in [Seats -> BOOLEAN] /\ dropped'[c] = TRUE
         /\ \A d \in Seats \ {c} : dropped'[d] = dropped[d]
         /\ cells' \in [Seats -> [Seats -> [Cells -> Nat \X Nat]]] /\ wm' \in [Seats -> Nat]
  <1>1. tick[c] + MaxTick \in Nat
    BY SMTT(30), Constants DEF Basics
  <1>2. /\ dropped' = [dropped EXCEPT ![c] = TRUE] /\ cells' = [cells EXCEPT ![c] = NoCells]
        /\ wm' = [wm EXCEPT ![c] = tick[c] + MaxTick]
    BY DEF GiveUp
  <1>3. cells' \in [Seats -> [Seats -> [Cells -> Nat \X Nat]]]
    BY <1>2, NoCellsType DEF Basics
  <1>4. wm' \in [Seats -> Nat]
    BY <1>1, <1>2 DEF Basics
  <1> QED BY <1>2, <1>3, <1>4 DEF Basics

LEMMA OnLeftKeeps ==
  ASSUME ImageInv, NEW c \in Seats, OnLeft(c)
  PROVE  ImageInv'
  <1> DEFINE q == chan[Guest]
  <1>1. /\ Take(c, "LEFT", <<>>) /\ "LEFT" \notin Plain /\ GiveUp(c)
        /\ tick' = tick /\ line' = line /\ log' = log
        /\ hold' = hold /\ resume' = resume /\ pend' = pend /\ ptmo' = ptmo /\ rec' = rec
        /\ base' = base /\ applied' = applied /\ spoiled' = spoiled
        /\ glitches' = glitches /\ pushes' = pushes
    BY DEF OnLeft, recovery, image, Plain
  <1>2. /\ c = Guest
        /\ q \in Seq(Frames) /\ q # <<>> /\ q[1].type = "LEFT"
        /\ chan' \in [Seats -> Seq(Frames)] /\ buf' \in [Seats -> Nat]
        /\ chan'[Guest] = Tail(q) /\ chan'[Host] = chan[Host]
        /\ pc' = pc /\ read' = read /\ Pumps'
    BY <1>1, GuestTakes
  <1>3. Tail(q) = <<>> /\ pc[Host] = "off"
    BY <1>2, GuestQueue, HeadLeft
  <1> HIDE DEF q
  <1>4. /\ dropped' \in [Seats -> BOOLEAN] /\ dropped'[Guest] = TRUE /\ dropped'[Host] = dropped[Host]
        /\ cells' \in [Seats -> [Seats -> [Cells -> Nat \X Nat]]] /\ wm' \in [Seats -> Nat]
    BY <1>1, <1>2, GiveUpType, SeatFacts DEF ImageInv
  <1>5. Basics'
    BY <1>1, <1>2, <1>4 DEF ImageInv, Basics
  <1>6. Roles'
    BY <1>1, <1>2, <1>4 DEF ImageInv, Roles
  <1>7. Pushes(<<>>, hold[Guest], applied, pc[Host], TRUE)
    BY <1>3, PushesNone
  <1>8. Queue'
    BY <1>1, <1>2, <1>3, <1>4, <1>7 DEF Queue
  <1>9. Still'
    BY <1>4 DEF Still
  <1> QED BY <1>2, <1>5, <1>6, <1>8, <1>9 DEF ImageInv

-----------------------------------------------------------------------------
(* The steps of a pass.                                                    *)

Places == {"pass", "pump", "gate", "stall", "after", "hold", "park"}

LEMMA MoveStep ==
  ASSUME ImageInv, NEW c \in Seats, NEW next \in Places, pc[c] # "off",
         pc' = [pc EXCEPT ![c] = next]
  PROVE  /\ pc' \in [Seats -> {"pass", "pump", "gate", "stall", "after", "hold", "park", "off"}]
         /\ pc'[c] = next /\ pc'[Peer(c)] = pc[Peer(c)] /\ pc'[Guest] # "off"
         /\ \A q, h, n, d : Pushes(q, h, n, pc[Host], d) => Pushes(q, h, n, pc'[Host], d)
  <1>1. /\ pc' \in [Seats -> {"pass", "pump", "gate", "stall", "after", "hold", "park", "off"}]
        /\ pc'[c] = next /\ pc'[Peer(c)] = pc[Peer(c)] /\ next # "off"
    BY SeatFacts DEF ImageInv, Basics, Places
  <1>2. pc'[Guest] # "off"
    BY <1>1, SeatFacts DEF ImageInv, Roles
  <1>3. pc'[Host] = "off" <=> pc[Host] = "off"
    BY <1>1, SeatFacts
  <1>4. \A q, h, n, d : Pushes(q, h, n, pc[Host], d) => Pushes(q, h, n, pc'[Host], d)
    BY <1>3 DEF Pushes
  <1> QED BY <1>1, <1>2, <1>4

LEMMA MoveRings ==
  ASSUME ImageInv, NEW c \in Seats, NEW next \in Places, pc[c] # "off", ~read[c] \/ Pumped(c),
         pc' = [pc EXCEPT ![c] = next], read' = [read EXCEPT ![c] = FALSE] \/ (~read[c] /\ read' = read),
         buf' = buf, chan' = chan
  PROVE  Pumps' /\ read' \in [Seats -> BOOLEAN] /\ read'[c] = FALSE /\ read'[Peer(c)] = read[Peer(c)]
  <1> DEFINE d == Peer(c)
  <1>1. /\ chan \in [Seats -> Seq(Frames)] /\ buf \in [Seats -> Nat] /\ read \in [Seats -> BOOLEAN]
        /\ d \in Seats /\ d # c /\ \A e \in Seats : e = c \/ e = d
        /\ InRing(chan[c], buf[c], read[c], pc[c]) /\ InRing(chan[d], buf[d], read[d], pc[d])
    BY ZenonT(30), SeatFacts DEF ImageInv, Basics, Pumps
  <1>2. read' \in [Seats -> BOOLEAN] /\ read'[c] = FALSE /\ read'[d] = read[d]
    BY <1>1
  <1>3. pc'[d] = pc[d]
    BY MoveStep
  <1>4. buf[c] \in Nat /\ read[c] \in BOOLEAN
    BY <1>1
  <1>5. ~read[c] \/ ~(chan[c] # <<>> /\ Size(Head(chan[c])) <= buf[c])
    BY DEF Pumped, Complete
  <1> HIDE DEF d
  <1>6. InRing(chan[c], buf[c], FALSE, pc'[c])
    BY <1>1, <1>4, <1>5, RingDone
  <1>7. \A e \in Seats : InRing(chan'[e], buf'[e], read'[e], pc'[e])
    BY <1>1, <1>2, <1>3, <1>6
  <1>8. Pumps'
    BY <1>7 DEF Pumps
  <1> QED BY <1>2, <1>8 DEF d

LEMMA ReadKeeps ==
  ASSUME ImageInv, NEW c \in Seats, Read(c)
  PROVE  ImageInv'
  <1>1. /\ pc[c] \in {"pump", "stall", "hold"} /\ ~read[c] /\ read' = [read EXCEPT ![c] = TRUE]
        /\ pc' = pc /\ dropped' = dropped /\ chan' = chan
        /\ tick' = tick /\ wm' = wm /\ cells' = cells /\ line' = line /\ log' = log
        /\ hold' = hold /\ resume' = resume /\ pend' = pend /\ ptmo' = ptmo /\ rec' = rec
        /\ base' = base /\ applied' = applied /\ spoiled' = spoiled
        /\ glitches' = glitches /\ pushes' = pushes
    BY DEF Read, engine, recovery, image
  <1>2. PICK n \in 0..ReadMax : buf[c] + n <= Waiting(chan[c]) /\ buf' = [buf EXCEPT ![c] = @ + n]
    BY DEF Read
  <1> DEFINE d == Peer(c)
  <1>3. /\ chan[c] \in Seq(Frames) /\ buf \in [Seats -> Nat] /\ read \in [Seats -> BOOLEAN]
        /\ d \in Seats /\ d # c /\ \A e \in Seats : e = c \/ e = d
        /\ InRing(chan[c], buf[c], read[c], pc[c]) /\ InRing(chan[d], buf[d], read[d], pc[d])
    BY ZenonT(30), SeatFacts DEF ImageInv, Basics, Pumps
  <1>4. read[c] = FALSE /\ buf[c] \in Nat
    BY <1>1, <1>3
  <1> HIDE DEF d
  <1>5. buf[c] + n \in Nat /\ InRing(chan[c], buf[c] + n, TRUE, pc[c])
    BY <1>1, <1>2, <1>3, <1>4, RingRead
  <1>6. /\ buf' \in [Seats -> Nat] /\ buf'[c] = buf[c] + n /\ buf'[d] = buf[d]
        /\ read' \in [Seats -> BOOLEAN] /\ read'[c] = TRUE /\ read'[d] = read[d]
    BY <1>1, <1>2, <1>3, <1>5
  <1>7. \A e \in Seats : InRing(chan'[e], buf'[e], read'[e], pc'[e])
    BY <1>1, <1>3, <1>5, <1>6
  <1>8. Pumps'
    BY <1>7 DEF Pumps
  <1>9. Basics'
    BY <1>1, <1>6 DEF ImageInv, Basics
  <1>10. Roles' /\ Queue'
    BY <1>1 DEF ImageInv, Roles, Queue
  <1>11. Still'
    <2>1. CASE c = Guest
      BY <1>1, <2>1 DEF ImageInv, Still
    <2>2. CASE c = Host
      BY <1>1, <1>6, <2>2, StillKept, SeatFacts DEF d, ImageInv, Still
    <2> QED BY <2>1, <2>2, SeatFacts
  <1> QED BY <1>8, <1>9, <1>10, <1>11 DEF ImageInv

\* A console between two pumps, or done with one, goes to another place of the
\* pass; the game may have done something to its state.
LEMMA MoveAnyKeeps ==
  ASSUME ImageInv, NEW c \in Seats, NEW next \in Places, pc[c] # "off", ~read[c] \/ Pumped(c),
         pc' = [pc EXCEPT ![c] = next], read' = [read EXCEPT ![c] = FALSE] \/ (~read[c] /\ read' = read),
         UNCHANGED <<tick, wm, cells, line, recovery, dropped, chan, buf, applied, spoiled, pushes>>,
         base' \in [Seats -> Nat], glitches' \in Nat,
         c = Guest /\ hold[c] /\ ~dropped[c] =>
           \/ next \in {"pass", "hold", "after", "park"}
           \/ wm[c] < tick[c]
           \/ next = "gate" /\ pc[c] \in {"pump", "stall"}
  PROVE  ImageInv'
  <1>1. /\ dropped' = dropped /\ chan' = chan /\ buf' = buf
        /\ tick' = tick /\ wm' = wm /\ cells' = cells /\ line' = line
        /\ hold' = hold /\ resume' = resume /\ pend' = pend /\ ptmo' = ptmo /\ rec' = rec
        /\ applied' = applied /\ spoiled' = spoiled /\ pushes' = pushes
    BY DEF recovery
  <1>2. Pumps' /\ read' \in [Seats -> BOOLEAN] /\ read'[c] = FALSE /\ read'[Peer(c)] = read[Peer(c)]
    BY <1>1, MoveRings
  <1>3. /\ pc' \in [Seats -> {"pass", "pump", "gate", "stall", "after", "hold", "park", "off"}]
        /\ pc'[c] = next /\ pc'[Peer(c)] = pc[Peer(c)] /\ pc'[Guest] # "off"
        /\ \A q, h, n, d : Pushes(q, h, n, pc[Host], d) => Pushes(q, h, n, pc'[Host], d)
    BY MoveStep
  <1>4. Basics'
    BY <1>1, <1>2, <1>3 DEF ImageInv, Basics
  <1>5. Roles'
    BY <1>1, <1>3 DEF ImageInv, Roles
  <1>6. Queue'
    BY <1>1, <1>3 DEF ImageInv, Queue
  <1>7. Still'
    <2>1. CASE c = Guest
      BY <1>1, <1>3, <2>1 DEF ImageInv, Still
    <2>2. CASE c = Host
      <3>1. pc'[Guest] = pc[Guest] /\ read'[Guest] = read[Guest]
        BY <1>2, <1>3, <2>2, SeatFacts
      <3> QED BY <1>1, <3>1 DEF ImageInv, Still
    <2> QED BY <2>1, <2>2, SeatFacts
  <1> QED BY <1>2, <1>4, <1>5, <1>6, <1>7 DEF ImageInv

\* The state is as it was.
LEMMA MoveKeeps ==
  ASSUME ImageInv, NEW c \in Seats, NEW next \in Places, pc[c] # "off", ~read[c] \/ Pumped(c),
         pc' = [pc EXCEPT ![c] = next], read' = [read EXCEPT ![c] = FALSE] \/ (~read[c] /\ read' = read),
         UNCHANGED <<engine, recovery, dropped, chan, buf, image>>,
         c = Guest /\ hold[c] /\ ~dropped[c] =>
           \/ next \in {"pass", "hold", "after", "park"}
           \/ wm[c] < tick[c]
           \/ next = "gate" /\ pc[c] \in {"pump", "stall"}
  PROVE  ImageInv'
  <1>1. /\ UNCHANGED <<tick, wm, cells, line, recovery, dropped, chan, buf, applied, spoiled, pushes>>
        /\ base' = base /\ glitches' = glitches
    BY DEF engine, image
  <1>2. base' \in [Seats -> Nat] /\ glitches' \in Nat
    BY <1>1 DEF ImageInv, Basics
  <1> QED BY <1>1, <1>2, MoveAnyKeeps

LEMMA EnterPassKeeps ==
  ASSUME ImageInv, NEW c \in Seats, EnterPass(c)
  PROVE  ImageInv'
  <1>1. pc[c] = "pass" /\ read' = read /\ UNCHANGED <<engine, recovery, dropped, chan, buf, image>>
    BY DEF EnterPass, wire
  <1>2. ~read[c]
    BY <1>1 DEF ImageInv, Pumps, InRing
  <1>3. PICK next \in {"park", "hold", "pump"} :
          pc' = [pc EXCEPT ![c] = next] /\ (next = "pump" => ~hold[c])
    BY DEF EnterPass
  <1>4. next \in Places
    BY <1>3 DEF Places
  <1>5. c = Guest /\ hold[c] /\ ~dropped[c] =>
           \/ next \in {"pass", "hold", "after", "park"}
           \/ wm[c] < tick[c]
           \/ next = "gate" /\ pc[c] \in {"pump", "stall"}
    BY <1>3
  <1> QED BY <1>1, <1>2, <1>3, <1>4, <1>5, MoveKeeps

\* A held pass ends, and the native slots may leave the guest another state.
LEMMA HoldPassStep ==
  ASSUME NEW c \in Seats, HoldPass(c)
  PROVE  /\ pc[c] = "hold" /\ Pumped(c) /\ pc' = [pc EXCEPT ![c] = "pass"]
         /\ read' = [read EXCEPT ![c] = FALSE]
         /\ UNCHANGED <<tick, wm, cells, line, recovery, dropped, chan, buf, applied, spoiled, pushes>>
         /\ \/ base' = base /\ log' = log /\ glitches' = glitches
            \/ /\ c = Guest /\ touched /\ ~hold[c]
               /\ base' = [base EXCEPT ![Guest] = Fresh] /\ log' = [log EXCEPT ![Guest] = <<>>]
               /\ glitches' = glitches + 1
  <1>1. PICK glitch \in BOOLEAN :
          /\ glitch => c = Guest /\ touched /\ ~hold[c]
          /\ glitches' = IF glitch THEN glitches + 1 ELSE glitches
          /\ base' = IF glitch THEN [base EXCEPT ![c] = Fresh] ELSE base
          /\ log' = IF glitch THEN [log EXCEPT ![c] = <<>>] ELSE log
    BY DEF HoldPass
  <1>2. /\ pc[c] = "hold" /\ Pumped(c) /\ pc' = [pc EXCEPT ![c] = "pass"]
        /\ read' = [read EXCEPT ![c] = FALSE]
        /\ UNCHANGED <<tick, wm, cells, line, recovery, dropped, chan, buf, applied, spoiled, pushes>>
    BY DEF HoldPass, DonePumping
  <1> QED BY <1>1, <1>2

LEMMA HoldPassKeeps ==
  ASSUME ImageInv, NEW c \in Seats, HoldPass(c)
  PROVE  ImageInv'
  <1> DEFINE next == "pass"
  <1>1. /\ pc[c] = "hold" /\ Pumped(c) /\ pc' = [pc EXCEPT ![c] = next] /\ next \in Places
        /\ read' = [read EXCEPT ![c] = FALSE]
        /\ UNCHANGED <<tick, wm, cells, line, recovery, dropped, chan, buf, applied, spoiled, pushes>>
    BY HoldPassStep DEF Places
  <1>2. next \in {"pass", "hold", "after", "park"}
    OBVIOUS
  <1>3. base' \in [Seats -> Nat] /\ glitches' \in Nat
    <2>1. base \in [Seats -> Nat] /\ glitches \in Nat /\ pushes \in Nat
      BY DEF ImageInv, Basics
    <2>2. Fresh \in Nat /\ glitches + 1 \in Nat
      BY <2>1 DEF Fresh
    <2>3. [base EXCEPT ![Guest] = Fresh] \in [Seats -> Nat]
      BY <2>1, <2>2
    <2> QED BY <2>1, <2>2, <2>3, HoldPassStep
  <1> HIDE DEF next
  <1> QED BY <1>1, <1>2, <1>3, MoveAnyKeeps

LEMMA StallKeeps ==
  ASSUME ImageInv, NEW c \in Seats, Stall(c)
  PROVE  ImageInv'
  <1> DEFINE next == "stall"
  <1>1. /\ pc[c] = "gate" /\ wm[c] < tick[c] /\ pc' = [pc EXCEPT ![c] = next] /\ next \in Places
        /\ read' = read /\ UNCHANGED <<engine, recovery, dropped, chan, buf, image>>
    BY DEF Stall, wire, Places
  <1>2. ~read[c]
    BY <1>1 DEF ImageInv, Pumps, InRing
  <1> HIDE DEF next
  <1> QED BY <1>1, <1>2, MoveKeeps

LEMMA RoundKeeps ==
  ASSUME ImageInv, NEW c \in Seats, Round(c)
  PROVE  ImageInv'
  <1> DEFINE next == "gate"
  <1>1. /\ pc[c] = "stall" /\ Pumped(c) /\ pc' = [pc EXCEPT ![c] = next] /\ next \in Places
        /\ read' = [read EXCEPT ![c] = FALSE] /\ UNCHANGED <<engine, recovery, dropped, chan, buf, image>>
    BY DEF Round, DonePumping, Places
  <1>2. next = "gate"
    OBVIOUS
  <1> HIDE DEF next
  <1> QED BY <1>1, <1>2, MoveKeeps

\* A timeout: only the guest can lose its peer.
LEMMA TimeoutKeeps ==
  ASSUME ImageInv, NEW c \in Seats, NEW next \in Places, Silent(c), pc[c] # "off", DonePumping(c, next),
         GiveUp(c), hold' = hold \/ hold' = [hold EXCEPT ![c] = FALSE],
         UNCHANGED <<tick, line, log, resume, pend, ptmo, rec, chan, buf, image>>
  PROVE  ImageInv'
  <1>1. c = Guest /\ pc[Host] = "off" /\ chan[Guest] = <<>>
    BY SeatFacts DEF Silent, ImageInv, Roles
  <1>2. /\ tick' = tick /\ line' = line /\ log' = log /\ resume' = resume /\ pend' = pend
        /\ ptmo' = ptmo /\ rec' = rec /\ chan' = chan /\ buf' = buf /\ base' = base
        /\ applied' = applied /\ spoiled' = spoiled /\ glitches' = glitches /\ pushes' = pushes
        /\ Pumped(c) /\ pc' = [pc EXCEPT ![c] = next] /\ read' = [read EXCEPT ![c] = FALSE]
    BY DEF image, DonePumping
  <1>3. Pumps' /\ read' \in [Seats -> BOOLEAN]
    BY <1>2, MoveRings
  <1>4. /\ pc' \in [Seats -> {"pass", "pump", "gate", "stall", "after", "hold", "park", "off"}]
        /\ pc'[Guest] # "off" /\ pc'[Host] = pc[Host]
    BY <1>1, <1>2, MoveStep, SeatFacts
  <1>5. /\ dropped' \in [Seats -> BOOLEAN] /\ dropped'[Guest] = TRUE /\ dropped'[Host] = dropped[Host]
        /\ cells' \in [Seats -> [Seats -> [Cells -> Nat \X Nat]]] /\ wm' \in [Seats -> Nat]
    BY <1>1, GiveUpType, SeatFacts DEF ImageInv
  <1>6. hold' \in [Seats -> BOOLEAN] /\ hold'[Host] = hold[Host]
    BY <1>1, SeatFacts DEF ImageInv, Basics
  <1>7. Basics'
    BY <1>2, <1>3, <1>4, <1>5, <1>6 DEF ImageInv, Basics
  <1>8. Roles'
    BY <1>2, <1>4, <1>5, <1>6 DEF ImageInv, Roles
  <1>9. Pushes(<<>>, hold'[Guest], applied, pc[Host], TRUE)
    BY <1>1, PushesNone
  <1>10. Queue'
    BY <1>1, <1>2, <1>4, <1>5, <1>9 DEF Queue
  <1>11. Still'
    BY <1>5 DEF Still
  <1> QED BY <1>3, <1>7, <1>8, <1>10, <1>11 DEF ImageInv

LEMMA HoldTimeoutKeeps ==
  ASSUME ImageInv, NEW c \in Seats, HoldTimeout(c)
  PROVE  ImageInv'
  <1> DEFINE next == "pass"
  <1>1. /\ Silent(c) /\ pc[c] # "off" /\ DonePumping(c, next) /\ next \in Places /\ GiveUp(c)
        /\ hold' = [hold EXCEPT ![c] = FALSE]
        /\ UNCHANGED <<tick, line, log, resume, pend, ptmo, rec, chan, buf, image>>
    BY DEF HoldTimeout, Places
  <1> HIDE DEF next
  <1> QED BY <1>1, TimeoutKeeps

LEMMA GateTimeoutKeeps ==
  ASSUME ImageInv, NEW c \in Seats, GateTimeout(c)
  PROVE  ImageInv'
  <1> DEFINE next == "gate"
  <1>1. /\ Silent(c) /\ pc[c] # "off" /\ DonePumping(c, next) /\ next \in Places /\ GiveUp(c)
        /\ hold' = hold
        /\ UNCHANGED <<tick, line, log, resume, pend, ptmo, rec, chan, buf, image>>
    BY DEF GateTimeout, Places, recovery
  <1> HIDE DEF next
  <1> QED BY <1>1, TimeoutKeeps

LEMMA SendStep ==
  ASSUME ImageInv, NEW c \in Seats, NEW out \in Seq(Frames), pc[c] # "off", chan' = Send(c, out),
         c = Guest => \A i \in 1..Len(out) : out[i].type \in Plain,
         c = Host => Pushes(out, FALSE, 0, pc[Host], FALSE)
  PROVE  /\ chan' \in [Seats -> Seq(Frames)]
         /\ \A i \in 1..Len(chan'[Host]) : chan'[Host][i].type \in {"INPUT", "CRC", "RESYNC"}
         /\ Pushes(chan'[Guest], hold[Guest], applied, pc[Host], dropped[Guest])
         /\ chan'[c] = chan[c]
         /\ \A e \in Seats : InRing(chan'[e], buf[e], read[e], pc[e])
  <1> DEFINE d == Peer(c)
             w == chan[d] \o out
  <1>1. /\ chan \in [Seats -> Seq(Frames)] /\ buf \in [Seats -> Nat]
        /\ d \in Seats /\ d # c /\ \A e \in Seats : e = c \/ e = d
        /\ InRing(chan[c], buf[c], read[c], pc[c]) /\ InRing(chan[d], buf[d], read[d], pc[d])
    BY ZenonT(30), SeatFacts DEF ImageInv, Basics, Pumps
  <1>2. chan' = [chan EXCEPT ![d] = w]
    BY DEF Send
  <1>3. w \in Seq(Frames)
    BY <1>1, QueueConcat
  <1>4. InRing(w, buf[d], read[d], pc[d])
    BY <1>1, RingMore
  <1> HIDE DEF d, w
  <1>5. chan' \in [Seats -> Seq(Frames)] /\ chan'[c] = chan[c] /\ chan'[d] = w
    BY <1>1, <1>2, <1>3
  <1>6. \A e \in Seats : InRing(chan'[e], buf[e], read[e], pc[e])
    BY <1>1, <1>4, <1>5
  <1>7. CASE c = Guest
    <2>1. chan'[Guest] = chan[Guest] /\ chan'[Host] = chan[Host] \o out
      BY <1>5, <1>7, SeatFacts DEF d, w
    <2>2. \A i \in 1..Len(chan'[Host]) : chan'[Host][i].type \in Plain
      BY <1>7, <2>1, PlainMore
    <2> QED BY <1>5, <1>6, <2>1, <2>2, GuestQueue DEF Plain
  <1>8. CASE c = Host
    <2>1. chan'[Host] = chan[Host] /\ chan'[Guest] = chan[Guest] \o out
      BY <1>5, <1>8, SeatFacts DEF d, w
    <2>2. Pushes(chan[Guest] \o out, hold[Guest], applied, pc[Host], dropped[Guest])
      BY <1>8, GuestQueue, PushesConcat
    <2>3. \A i \in 1..Len(chan[Host]) : chan[Host][i].type \in {"INPUT", "CRC", "RESYNC"}
      BY DEF ImageInv, Roles
    <2> QED BY <1>5, <1>6, <2>1, <2>2, <2>3
  <1> QED BY <1>7, <1>8, SeatFacts

LEMMA OnePlain ==
  ASSUME NEW f \in Frames, f.type \in {"INPUT", "CRC"}, NEW p
  PROVE  /\ <<f>> \in Seq(Frames) /\ Pushes(<<f>>, FALSE, 0, p, FALSE)
         /\ \A i \in 1..Len(<<f>>) : <<f>>[i].type \in Plain
  <1> DEFINE r == <<f>>
  <1>1. r \in Seq(Frames) /\ \A i \in 1..Len(r) : r[i].type \in {"INPUT", "CRC"}
    OBVIOUS
  <1> HIDE DEF r
  <1>2. Pushes(r, FALSE, 0, p, FALSE) /\ \A i \in 1..Len(r) : r[i].type \in Plain
    BY <1>1, PlainFrames DEF Plain
  <1> QED BY <1>1, <1>2 DEF r

LEMMA CaptureKeeps ==
  ASSUME ImageInv, NEW c \in Seats, CaptureInput(c)
  PROVE  ImageInv'
  <1> DEFINE n == tick[c] + Delay
             cap == Capture(line[c], n)
             f == Frame("INPUT", n, cap)
             out == <<f>>
             next == "gate"
  <1>1. /\ pc[c] = "pump" /\ Pumped(c) /\ pc' = [pc EXCEPT ![c] = next]
        /\ read' = [read EXCEPT ![c] = FALSE] /\ next \in Places
        /\ cells' = [cells EXCEPT ![c][c][n] = cap]
        /\ chan' = Send(c, out)
        /\ tick' = tick /\ wm' = wm /\ line' = line /\ log' = log /\ dropped' = dropped /\ buf' = buf
        /\ hold' = hold /\ resume' = resume /\ pend' = pend /\ ptmo' = ptmo /\ rec' = rec
        /\ base' = base /\ applied' = applied /\ spoiled' = spoiled
        /\ glitches' = glitches /\ pushes' = pushes
    BY DEF CaptureInput, DonePumping, recovery, image, Places
  <1>2. n \in Nat /\ line[c] \in Nat
    BY SMTT(30), Constants DEF ImageInv, Basics
  <1> HIDE DEF n
  <1>3. cap \in Nat \X Nat
    BY <1>2 DEF Capture
  <1> HIDE DEF cap
  <1>4. f \in Frames /\ f.type = "INPUT"
    BY <1>2, <1>3 DEF Frame, Frames
  <1> HIDE DEF f
  <1>5. /\ out \in Seq(Frames) /\ Pushes(out, FALSE, 0, pc[Host], FALSE)
        /\ \A i \in 1..Len(out) : out[i].type \in Plain
    BY <1>4, OnePlain
  <1> HIDE DEF out
  <1>6. /\ chan' \in [Seats -> Seq(Frames)]
        /\ \A i \in 1..Len(chan'[Host]) : chan'[Host][i].type \in {"INPUT", "CRC", "RESYNC"}
        /\ Pushes(chan'[Guest], hold[Guest], applied, pc[Host], dropped[Guest])
        /\ chan'[c] = chan[c]
        /\ \A e \in Seats : InRing(chan'[e], buf[e], read[e], pc[e])
    BY <1>1, <1>5, SendStep
  <1>7. /\ pc' \in [Seats -> {"pass", "pump", "gate", "stall", "after", "hold", "park", "off"}]
        /\ pc'[c] = next /\ pc'[Peer(c)] = pc[Peer(c)] /\ pc'[Guest] # "off"
        /\ \A q, h, m, d : Pushes(q, h, m, pc[Host], d) => Pushes(q, h, m, pc'[Host], d)
    BY <1>1, MoveStep
  <1>8. cells' \in [Seats -> [Seats -> [Cells -> Nat \X Nat]]]
    <2>1. cells \in [Seats -> [Seats -> [Cells -> Nat \X Nat]]]
      BY DEF ImageInv, Basics
    <2> QED BY ZenonT(30), <1>1, <1>3, <2>1, CellWrite
  <1>9. /\ read' \in [Seats -> BOOLEAN] /\ read'[c] = FALSE /\ read'[Peer(c)] = read[Peer(c)]
        /\ buf[c] \in Nat /\ read[c] \in BOOLEAN
    BY <1>1, SeatFacts DEF ImageInv, Basics
  <1>10. Pumps'
    <2>1. InRing(chan'[c], buf[c], read[c], pc[c]) /\ ~(chan'[c] # <<>> /\ Size(Head(chan'[c])) <= buf[c])
      BY <1>1, <1>6 DEF Pumped, Complete
    <2>2. InRing(chan'[c], buf[c], FALSE, pc'[c])
      BY <1>9, <2>1, RingDone
    <2>3. \A e \in Seats : e = c \/ e = Peer(c)
      BY SeatFacts
    <2>4. \A e \in Seats : InRing(chan'[e], buf'[e], read'[e], pc'[e])
      BY <1>1, <1>6, <1>7, <1>9, <2>2, <2>3
    <2> QED BY <2>4 DEF Pumps
  <1>11. Basics'
    BY <1>1, <1>6, <1>7, <1>8, <1>9 DEF ImageInv, Basics
  <1>12. Roles'
    BY <1>1, <1>6, <1>7 DEF ImageInv, Roles
  <1>13. Queue'
    BY <1>1, <1>6, <1>7 DEF Queue
  <1>14. Still'
    <2>1. CASE c = Guest
      BY <1>1, <1>7, <2>1 DEF ImageInv, Still
    <2>2. CASE c = Host
      <3>1. pc'[Guest] = pc[Guest] /\ read'[Guest] = read[Guest]
        BY <1>7, <1>9, <2>2, SeatFacts
      <3> QED BY <1>1, <3>1 DEF ImageInv, Still
    <2> QED BY <2>1, <2>2, SeatFacts
  <1> QED BY <1>10, <1>11, <1>12, <1>13, <1>14 DEF ImageInv

\* A checksum is sent, or nothing.
LEMMA RunTickKeeps ==
  ASSUME ImageInv, NEW c \in Seats, RunTick(c)
  PROVE  ImageInv'
  <1> DEFINE n == tick[c]
             next == "after"
  <1>1. PICK glitch \in BOOLEAN :
          LET state == IF glitch THEN Fresh ELSE base[c]
              due == n % CrcEvery = 0 IN
          /\ glitches' = IF glitch THEN glitches + 1 ELSE glitches
          /\ base' = [base EXCEPT ![c] = state]
          /\ rec' = IF due THEN [rec EXCEPT ![c][CrcSlot(n)] = [tick |-> n, crc |-> state]] ELSE rec
          /\ chan' = IF due THEN Send(c, <<Frame("CRC", n, state)>>) ELSE chan
    BY DEF RunTick
  <1> DEFINE state == IF glitch THEN Fresh ELSE base[c]
             r == [tick |-> n, crc |-> state]
             f == Frame("CRC", n, state)
             out == <<f>>
  <1>2. /\ glitches' = IF glitch THEN glitches + 1 ELSE glitches
        /\ base' = [base EXCEPT ![c] = state]
        /\ rec' = rec \/ rec' = [rec EXCEPT ![c][CrcSlot(n)] = r]
        /\ chan' = chan \/ chan' = Send(c, out)
    BY <1>1
  <1>3. /\ pc[c] = "gate" /\ (dropped[c] \/ wm[c] >= n)
        /\ spoiled' = (spoiled \/ (c = Guest /\ hold[c] /\ applied > 0))
        /\ tick' = [tick EXCEPT ![c] = n + 1]
        /\ pc' = [pc EXCEPT ![c] = next] /\ next \in Places
        /\ wm' = wm /\ cells' = cells /\ line' = line /\ hold' = hold /\ resume' = resume
        /\ pend' = pend /\ ptmo' = ptmo /\ dropped' = dropped /\ buf' = buf /\ read' = read
        /\ applied' = applied /\ pushes' = pushes
    BY DEF RunTick, Places
  <1>4. n \in Nat /\ wm[c] \in Nat /\ state \in Nat
    <2>1. Fresh \in Nat
      BY DEF ImageInv, Basics, Fresh
    <2> QED BY <2>1 DEF ImageInv, Basics
  <1> HIDE DEF n, state
  <1>5. f \in Frames /\ f.type = "CRC" /\ r \in [tick : Int, crc : Nat]
    BY <1>4 DEF Frame, Frames, Others
  <1> HIDE DEF f, r
  <1>6. /\ out \in Seq(Frames) /\ Pushes(out, FALSE, 0, pc[Host], FALSE)
        /\ \A i \in 1..Len(out) : out[i].type \in Plain
    BY <1>5, OnePlain
  <1> HIDE DEF out
  <1>7. /\ chan' \in [Seats -> Seq(Frames)]
        /\ \A i \in 1..Len(chan'[Host]) : chan'[Host][i].type \in {"INPUT", "CRC", "RESYNC"}
        /\ Pushes(chan'[Guest], hold[Guest], applied, pc[Host], dropped[Guest])
        /\ \A e \in Seats : InRing(chan'[e], buf[e], read[e], pc[e])
    <2>1. CASE chan' = chan
      BY <2>1, GuestQueue DEF ImageInv, Basics, Roles, Pumps
    <2>2. CASE chan' = Send(c, out)
      BY <1>3, <1>6, <2>2, SendStep
    <2> QED BY <1>2, <2>1, <2>2
  <1>8. /\ pc' \in [Seats -> {"pass", "pump", "gate", "stall", "after", "hold", "park", "off"}]
        /\ pc'[c] = next /\ pc'[Peer(c)] = pc[Peer(c)] /\ pc'[Guest] # "off"
        /\ \A q, h, m, d : Pushes(q, h, m, pc[Host], d) => Pushes(q, h, m, pc'[Host], d)
    BY <1>3, MoveStep
  <1>9. rec' \in [Seats -> [0..(CrcSlots - 1) -> [tick : Int, crc : Nat]]]
    <2> DEFINE y == [rec[c] EXCEPT ![CrcSlot(n)] = r]
    <2>1. rec \in [Seats -> [0..(CrcSlots - 1) -> [tick : Int, crc : Nat]]]
      BY DEF ImageInv, Basics
    <2>2. y \in [0..(CrcSlots - 1) -> [tick : Int, crc : Nat]]
      BY <1>5, <2>1
    <2> HIDE DEF y
    <2>3. [rec EXCEPT ![c] = y] \in [Seats -> [0..(CrcSlots - 1) -> [tick : Int, crc : Nat]]]
      BY <2>1, <2>2
    <2>4. rec' = rec \/ rec' = [rec EXCEPT ![c] = y]
      BY <1>2 DEF y
    <2> QED BY <2>1, <2>3, <2>4
  <1>10. /\ base' \in [Seats -> Nat] /\ glitches' \in Nat
         /\ tick' \in [Seats -> Nat] /\ tick'[Peer(c)] = tick[Peer(c)]
    <2>1. base' \in [Seats -> Nat] /\ glitches' \in Nat
      BY <1>2, <1>4 DEF ImageInv, Basics
    <2>2. tick' \in [Seats -> Nat] /\ tick'[Peer(c)] = tick[Peer(c)]
      <3>1. n + 1 \in Nat /\ tick' = [tick EXCEPT ![c] = n + 1]
        BY <1>3, <1>4
      <3>2. tick \in [Seats -> Nat] /\ Peer(c) \in Seats /\ Peer(c) # c
        BY SeatFacts DEF ImageInv, Basics
      <3> QED BY <3>1, <3>2
    <2> QED BY <2>1, <2>2
  <1>11. Pumps'
    <2>1. ~read[c] /\ buf[c] \in Nat /\ read[c] \in BOOLEAN
      BY <1>3 DEF ImageInv, Pumps, InRing, Basics
    <2>2. InRing(chan'[c], buf[c], FALSE, pc'[c])
      BY <1>7, <2>1, RingDone
    <2>3. \A e \in Seats : e = c \/ e = Peer(c)
      BY SeatFacts
    <2>4. read[c] = FALSE
      BY <2>1
    <2>5. \A e \in Seats : InRing(chan'[e], buf'[e], read'[e], pc'[e])
      BY <1>3, <1>7, <1>8, <2>2, <2>3, <2>4
    <2> QED BY <2>5 DEF Pumps
  <1>12. spoiled' \in BOOLEAN
    BY <1>3 DEF ImageInv, Basics
  <1>13. Basics'
    BY <1>3, <1>7, <1>8, <1>9, <1>10, <1>12 DEF ImageInv, Basics
  <1>14. Roles'
    BY <1>3, <1>7, <1>8 DEF ImageInv, Roles
  <1>15. Queue'
    BY <1>3, <1>7, <1>8 DEF Queue
  <1>16. Still'
    <2>1. CASE c = Guest
      <3>1. spoiled' => dropped[Guest]
        <4>1. ~(wm[c] < n) \/ dropped[c]
          BY <1>3, <1>4
        <4>2. (hold[Guest] /\ ~dropped[Guest]) => applied = 0
          BY <1>3, <2>1, <4>1 DEF ImageInv, Still, n
        <4>3. ~(applied = 0 /\ applied > 0)
          OBVIOUS
        <4> QED BY <1>3, <2>1, <4>2, <4>3 DEF ImageInv, Still
      <3> QED BY <1>3, <1>8, <2>1, <3>1 DEF Still
    <2>2. CASE c = Host
      <3>1. pc'[Guest] = pc[Guest] /\ tick'[Guest] = tick[Guest] /\ (spoiled' => spoiled)
        BY <1>3, <1>8, <1>10, <2>2, SeatFacts
      <3> QED BY <1>3, <3>1 DEF ImageInv, Still
    <2> QED BY <2>1, <2>2, SeatFacts
  <1> QED BY <1>11, <1>13, <1>14, <1>15, <1>16 DEF ImageInv

LEMMA PendingKeeps ==
  ASSUME ImageInv, NEW c \in Seats, Pending(c)
  PROVE  ImageInv'
  <1> DEFINE next == "pass"
  <1>1. /\ pc[c] = "after" /\ pc' = [pc EXCEPT ![c] = next] /\ next \in Places
        /\ dropped' = dropped /\ buf' = buf /\ read' = read
        /\ applied' = applied /\ spoiled' = spoiled /\ touched' = touched /\ glitches' = glitches
    BY DEF Pending, Places
  <1>2. ~read[c]
    BY <1>1 DEF ImageInv, Pumps, InRing
  <1>3. next \in {"pass", "hold", "after", "park"}
    OBVIOUS
  <1> HIDE DEF next
  <1>4. CASE ~Wanted(c) /\ UNCHANGED <<engine, recovery, base, pushes, chan>>
    <2>1. UNCHANGED <<engine, recovery, dropped, chan, buf, image>>
      BY <1>1, <1>4 DEF image
    <2> QED BY <1>1, <1>2, <1>3, <2>1, MoveKeeps
  <1>5. /\ pc' \in [Seats -> {"pass", "pump", "gate", "stall", "after", "hold", "park", "off"}]
        /\ pc'[c] = next /\ pc'[Peer(c)] = pc[Peer(c)] /\ pc'[Guest] # "off"
        /\ \A q, h, n, d : Pushes(q, h, n, pc[Host], d) => Pushes(q, h, n, pc'[Host], d)
    BY <1>1, MoveStep
  <1>6. CASE /\ Wanted(c) /\ MayWait(c) /\ ptmo' = [ptmo EXCEPT ![c] = @ + 1]
             /\ UNCHANGED <<engine, hold, resume, pend, rec, base, pushes, chan>>
    <2>1. c = Host
      BY <1>6 DEF Wanted
    <2>2. /\ tick' = tick /\ wm' = wm /\ cells' = cells /\ line' = line /\ log' = log
          /\ hold' = hold /\ resume' = resume /\ pend' = pend /\ rec' = rec
          /\ base' = base /\ pushes' = pushes /\ chan' = chan
      BY <1>6 DEF engine
    <2>3. Pumps'
      BY <1>1, <1>2, <2>2, MoveRings
    <2>4. ptmo' \in [Seats -> 0..(PendMax - 1)]
      <3>1. ptmo \in [Seats -> 0..(PendMax - 1)] /\ ptmo[c] \in 0..(PendMax - 1)
        BY DEF ImageInv, Basics
      <3>2. ptmo[c] + 1 \in 0..(PendMax - 1)
        BY <1>6, <3>1, Constants DEF MayWait
      <3> QED BY <1>6, <3>1, <3>2
    <2>5. Basics'
      BY <1>1, <1>5, <2>2, <2>4 DEF ImageInv, Basics
    <2>6. Roles' /\ Queue'
      BY <1>1, <1>5, <2>2 DEF ImageInv, Roles, Queue
    <2>7. pc'[Guest] = pc[Guest]
      BY <1>5, <2>1, SeatFacts
    <2>8. Still'
      BY <1>1, <2>2, <2>7 DEF ImageInv, Still
    <2> QED BY <2>3, <2>5, <2>6, <2>8 DEF ImageInv
  <1>7. CASE Wanted(c) /\ Push(c)
    <2> DEFINE r == ResumeTick(tick[c])
               v == Fresh
               out == <<Frame("BEGIN", r, 0)>> \o [i \in 1..NChunks |-> Frame("CHUNK", i, 0)]
                        \o <<Frame("END", 0, v)>>
    <2>1. c = Host
      BY <1>7 DEF Wanted
    <2>2. /\ Rebase(c, r, v) /\ resume' = [resume EXCEPT ![c] = r] /\ chan' = Send(c, out)
          /\ pushes' = pushes + 1
      BY <1>7 DEF Push
    <2>3. r \in Nat /\ v \in Nat /\ Basics
      <3>1. tick[c] \in Nat /\ glitches \in Nat /\ pushes \in Nat /\ Basics
        BY DEF ImageInv, Basics
      <3> QED BY <3>1, Constants DEF ResumeTick, Fresh
    <2> HIDE DEF r, v
    <2>4. out \in Seq(Frames) /\ Pushes(out, FALSE, 0, pc[Host], FALSE)
      BY <2>3, PushFrames
    <2> HIDE DEF out
    <2>5. /\ chan' \in [Seats -> Seq(Frames)]
          /\ \A i \in 1..Len(chan'[Host]) : chan'[Host][i].type \in {"INPUT", "CRC", "RESYNC"}
          /\ Pushes(chan'[Guest], hold[Guest], applied, pc[Host], dropped[Guest])
          /\ \A e \in Seats : InRing(chan'[e], buf[e], read[e], pc[e])
      BY <1>1, <2>1, <2>2, <2>4, SendStep, SeatFacts
    <2>6. /\ tick' \in [Seats -> Nat] /\ wm' \in [Seats -> Nat]
          /\ cells' \in [Seats -> [Seats -> [Cells -> Nat \X Nat]]]
          /\ line' \in [Seats -> Nat] /\ base' \in [Seats -> Nat]
          /\ hold' \in [Seats -> BOOLEAN] /\ hold'[c] = FALSE
          /\ \A d \in Seats \ {c} : hold'[d] = hold[d] /\ tick'[d] = tick[d] /\ wm'[d] = wm[d]
          /\ pend' \in [Seats -> BOOLEAN] /\ ptmo' \in [Seats -> 0..(PendMax - 1)]
          /\ rec' \in [Seats -> [0..(CrcSlots - 1) -> [tick : Int, crc : Nat]]]
      BY <2>2, <2>3, RebaseType
    <2>7. /\ hold'[Host] = FALSE /\ hold'[Guest] = hold[Guest] /\ tick'[Guest] = tick[Guest]
          /\ wm'[Guest] = wm[Guest] /\ pc'[Guest] = pc[Guest]
      BY <1>5, <2>1, <2>6, SeatFacts
    <2>8. Pumps'
      <3>1. buf[c] \in Nat /\ read[c] \in BOOLEAN
        BY <2>3 DEF Basics
      <3>2. InRing(chan'[c], buf[c], FALSE, pc'[c])
        BY <1>2, <2>5, <3>1, RingDone
      <3>3. \A e \in Seats : e = c \/ e = Peer(c)
        BY SeatFacts
      <3>4. read[c] = FALSE
        BY <1>2, <3>1
      <3>5. \A e \in Seats : InRing(chan'[e], buf'[e], read'[e], pc'[e])
        BY <1>1, <1>5, <2>5, <3>2, <3>3, <3>4
      <3> QED BY <3>5 DEF Pumps
    <2>9. resume' \in [Seats -> Nat] /\ pushes' \in Nat
      BY <2>2, <2>3 DEF Basics
    <2>10. Basics'
      BY <1>1, <1>5, <2>3, <2>5, <2>6, <2>9 DEF Basics
    <2>11. Roles'
      BY <1>1, <1>5, <2>5, <2>7 DEF ImageInv, Roles
    <2>12. Queue'
      BY <1>1, <1>5, <2>5, <2>7 DEF Queue
    <2>13. Still'
      BY <1>1, <2>7 DEF ImageInv, Still
    <2> QED BY <2>8, <2>10, <2>11, <2>12, <2>13 DEF ImageInv
  <1> QED BY <1>4, <1>6, <1>7 DEF Pending

LEMMA HostDiesKeeps ==
  ASSUME ImageInv, HostDies
  PROVE  ImageInv'
  <1> DEFINE q == chan[Guest]
  <1>1. /\ pc[Host] # "off" /\ pc' = [pc EXCEPT ![Host] = "off"]
        /\ dropped' = dropped /\ buf' = buf /\ read' = read
        /\ tick' = tick /\ wm' = wm /\ cells' = cells /\ line' = line /\ log' = log
        /\ hold' = hold /\ resume' = resume /\ pend' = pend /\ ptmo' = ptmo /\ rec' = rec
        /\ base' = base /\ applied' = applied /\ spoiled' = spoiled
        /\ glitches' = glitches /\ pushes' = pushes
    BY DEF HostDies, engine, recovery, image
  <1>2. PICK m \in 0..Len(q), bye \in {<<>>, <<Frame("LEFT", 0, 0)>>} :
          Waiting(SubSeq(q, 1, m)) >= buf[Guest] /\ chan' = [chan EXCEPT ![Guest] = SubSeq(q, 1, m) \o bye]
    BY DEF HostDies
  <1> DEFINE s == SubSeq(q, 1, m)
             w == s \o bye
  <1>3. q \in Seq(Frames) /\ buf[Guest] \in Nat /\ InRing(q, buf[Guest], read[Guest], pc[Guest])
    BY SeatFacts DEF ImageInv, Basics, Pumps
  <1>4. s \in Seq(Frames) /\ bye \in Seq(Frames)
    <2>1. s \in Seq(Frames)
      BY <1>3, QueuePrefix
    <2> DEFINE l == Frame("LEFT", 0, 0)
    <2>2. l \in Frames
      BY DEF Frame, Frames, Others
    <2> HIDE DEF l
    <2>3. <<l>> \in Seq(Frames) /\ <<>> \in Seq(Frames)
      BY <2>2, EmptyQueue
    <2>4. bye = <<>> \/ bye = <<l>>
      BY <1>2 DEF l
    <2> QED BY <2>1, <2>3, <2>4
  <1>5. w \in Seq(Frames)
    BY <1>4, QueueConcat
  <1>6. InRing(s, buf[Guest], read[Guest], pc[Guest])
    BY <1>2, <1>3, RingCut
  <1>7. InRing(w, buf[Guest], read[Guest], pc[Guest])
    BY <1>3, <1>4, <1>6, RingMore
  <1>8. Pushes(w, hold[Guest], applied, "off", dropped[Guest])
    BY <1>1, <1>2, GuestQueue, PushesCut
  <1>9. chan' = [chan EXCEPT ![Guest] = w]
    BY <1>2
  <1> HIDE DEF w, s, q
  <1>10. chan' \in [Seats -> Seq(Frames)] /\ chan'[Guest] = w /\ chan'[Host] = chan[Host]
    BY <1>5, <1>9, SeatFacts DEF ImageInv, Basics
  <1>11. /\ pc' \in [Seats -> {"pass", "pump", "gate", "stall", "after", "hold", "park", "off"}]
         /\ pc'[Host] = "off" /\ pc'[Guest] = pc[Guest]
    BY <1>1, SeatFacts DEF ImageInv, Basics
  <1>12. Pumps'
    <2>1. InRing(chan[Host], buf[Host], read[Host], "off")
      BY SeatFacts, RingOff DEF ImageInv, Pumps
    <2>2. \A e \in Seats : InRing(chan'[e], buf'[e], read'[e], pc'[e])
      BY <1>1, <1>7, <1>10, <1>11, <2>1, SeatFacts
    <2> QED BY <2>2 DEF Pumps
  <1>13. Basics'
    BY <1>1, <1>10, <1>11 DEF ImageInv, Basics
  <1>14. Roles'
    BY <1>1, <1>10, <1>11 DEF ImageInv, Roles
  <1>15. Queue'
    BY <1>1, <1>8, <1>10, <1>11 DEF Queue
  <1>16. Still'
    BY <1>1, <1>11 DEF ImageInv, Still
  <1> QED BY <1>12, <1>13, <1>14, <1>15, <1>16 DEF ImageInv

-----------------------------------------------------------------------------
(* The theorems.                                                           *)

LEMMA InitHolds ==
  ASSUME Init
  PROVE  ImageInv
  <1>1. Basics
    <2>1. cells \in [Seats -> [Seats -> [Cells -> Nat \X Nat]]]
      BY NoCellsType DEF Init
    <2>2. rec \in [Seats -> [0..(CrcSlots - 1) -> [tick : Int, crc : Nat]]]
      BY NoRecordsType DEF Init
    <2>3. chan \in [Seats -> Seq(Frames)]
      BY EmptyQueue DEF Init
    <2>4. wm \in [Seats -> Nat] /\ ptmo \in [Seats -> 0..(PendMax - 1)] /\ applied \in 0..NChunks
      BY Constants DEF Init
    <2>5. pc \in [Seats -> {"pass", "pump", "gate", "stall", "after", "hold", "park", "off"}]
      BY DEF Init
    <2>6. /\ tick \in [Seats -> Nat] /\ resume \in [Seats -> Nat] /\ buf \in [Seats -> Nat]
          /\ line \in [Seats -> Nat] /\ base \in [Seats -> Nat] /\ glitches \in Nat /\ pushes \in Nat
      BY DEF Init
    <2>7. /\ hold \in [Seats -> BOOLEAN] /\ pend \in [Seats -> BOOLEAN] /\ dropped \in [Seats -> BOOLEAN]
          /\ read \in [Seats -> BOOLEAN] /\ spoiled \in BOOLEAN
      BY DEF Init
    <2> QED BY <2>1, <2>2, <2>3, <2>4, <2>5, <2>6, <2>7 DEF Basics
  <1>2. Pumps
    BY UnitsNone, Constants DEF Init, Pumps, InRing
  <1>3. Roles
    BY EmptyQueue, SeatFacts DEF Init, Roles
  <1>4. Queue
    <2>1. chan[Guest] = <<>> /\ hold[Guest] = FALSE /\ dropped[Guest] = FALSE
      BY SeatFacts DEF Init
    <2> QED BY <2>1, PushesNone DEF Queue
  <1>5. Still
    BY SeatFacts DEF Init, Still
  <1> QED BY <1>1, <1>2, <1>3, <1>4, <1>5 DEF ImageInv

LEMMA StepKeeps ==
  ASSUME ImageInv, [Next]_vars
  PROVE  ImageInv'
  <1>1. CASE HostDies
    BY <1>1, HostDiesKeeps
  <1>2. ASSUME NEW c \in Seats, Read(c) \/ Handle(c) \/ Pass(c) \/ Timeouts(c) PROVE ImageInv'
    <2>1. CASE Read(c)
      BY <2>1, ReadKeeps
    <2>2. CASE Handle(c)
      BY <2>2, OnInputKeeps, OnCrcKeeps, OnReqKeeps, OnBeginKeeps, OnChunkKeeps, OnEndKeeps, OnLeftKeeps
         DEF Handle
    <2>3. CASE Pass(c)
      BY <2>3, EnterPassKeeps, HoldPassKeeps, CaptureKeeps, StallKeeps, RoundKeeps, RunTickKeeps,
         PendingKeeps DEF Pass
    <2>4. CASE Timeouts(c)
      BY <2>4, HoldTimeoutKeeps, GateTimeoutKeeps DEF Timeouts
    <2> QED BY <1>2, <2>1, <2>2, <2>3, <2>4
  <1>3. CASE UNCHANGED vars
    BY <1>3 DEF vars, engine, recovery, wire, image, ImageInv, Basics, Pumps, Roles, Queue, Still
  <1> QED BY <1>1, <1>2, <1>3 DEF Next

(***************************************************************************)
(* Whatever the consoles, the wire and a dying host do, the guest's queue  *)
(* holds whole pushes, its ring less than it can hold, and no tick is run  *)
(* on a half-written state.                                                *)
(***************************************************************************)
THEOREM ImageInvariant == Spec => []ImageInv
  <1>1. Init => ImageInv
    BY InitHolds
  <1>2. ImageInv /\ [Next]_vars => ImageInv'
    BY StepKeeps
  <1> QED BY <1>1, <1>2, PTL DEF Spec

Marked == touched \in BOOLEAN

LEMMA MarkedKept ==
  ASSUME Marked, [Next]_vars
  PROVE  Marked'
  <1> SUFFICES touched' \in BOOLEAN
    BY DEF Marked
  <1> USE DEF Marked
  <1>1. CASE HostDies \/ UNCHANGED vars
    BY <1>1 DEF HostDies, vars, image
  <1>2. ASSUME NEW c \in Seats, Read(c) \/ Handle(c) \/ Pass(c) \/ Timeouts(c)
        PROVE  touched' \in BOOLEAN
    <2>1. CASE Read(c)
      BY <2>1 DEF Read, image
    <2>2. CASE Handle(c)
      BY <2>2 DEF Handle, OnInput, OnCrc, OnReq, OnBegin, OnChunk, OnEnd, OnLeft, image
    <2>3. CASE HoldPass(c)
      BY <2>3 DEF HoldPass
    <2>4. CASE EnterPass(c) \/ CaptureInput(c) \/ Stall(c) \/ Round(c)
      BY <2>4 DEF EnterPass, CaptureInput, Stall, Round, image
    <2>5. CASE RunTick(c) \/ Pending(c)
      BY <2>5 DEF RunTick, Pending
    <2>6. CASE Timeouts(c)
      BY <2>6 DEF Timeouts, HoldTimeout, GateTimeout, image
    <2> QED BY <1>2, <2>1, <2>2, <2>3, <2>4, <2>5, <2>6 DEF Pass
  <1> QED BY <1>1, <1>2 DEF Next

(***************************************************************************)
(* The state of resync.asm and lockstep.asm stays well-formed: in          *)
(* particular RXACC never holds more than a read and a chunk less a unit,  *)
(* and RS_PTMO stays below RS_PEND_MAX.                                    *)
(***************************************************************************)
THEOREM TypeCorrect == Spec => []TypeOK
  <1>1. ImageInv /\ Marked => TypeOK
    <2> SUFFICES ASSUME ImageInv, Marked PROVE TypeOK
      OBVIOUS
    <2>1. \A c \in Seats : buf[c] \in 0..(ReadMax + ChunkSize - 1)
      BY Constants DEF ImageInv, Basics, Pumps, InRing
    <2>2. /\ \A c, s \in Seats : DOMAIN cells[c][s] = 0..(MaxTick + Lead + Delay)
          /\ \A c \in Seats : DOMAIN rec[c] = 0..(CrcSlots - 1)
      BY DEF ImageInv, Basics, Cells
    <2> QED BY <2>1, <2>2 DEF ImageInv, Basics, TypeOK, Marked
  <1>2. Init => Marked
    BY DEF Init, Marked
  <1>3. Marked /\ [Next]_vars => Marked'
    BY MarkedKept
  <1> QED BY <1>1, <1>2, <1>3, ImageInvariant, PTL DEF Spec

(***************************************************************************)
(* Every chunk is there at END, and the engine has run no tick since the   *)
(* first one: nothing in RS_ON_STATE counts the chunks, and BEGIN may come *)
(* in the pump of a pass that goes on to run a tick, or in a stall.  What  *)
(* the native slots of held passes do to the chunks is another matter      *)
(* (Resync's ResumesAlike).                                                *)
(***************************************************************************)
THEOREM ImagesWhole == Spec => []WholeImage
  <1>1. ImageInv => WholeImage
    BY DEF ImageInv, Basics, WholeImage, Garbage
  <1> QED BY <1>1, ImageInvariant, PTL

-----------------------------------------------------------------------------
(* Timelines: the frames under way, and the inputs among them.             *)

\* The timeline a captured input belongs to.
Of(f) == f.val[1] - 1

\* The last tick a push can resume at.
Top == MaxTick + Lead

\* The timeline the guest, now in e, is in when it takes frame k of q.
Ended(q, k) == {i \in 1..(k - 1) : q[i].type = "END"}
Label(q, e, k) == e + Cardinality(Ended(q, k))

\* A frame f on its way to the guest, which will take it in timeline l.  The
\* host is in timeline E, with watermark w; it started it at tick r, and its
\* state has the name b and the first tick s.  Names from v on are not yet in use.
\* An input is of the timeline it is taken in; an old one lies so far below w
\* that the guest can neither keep it nor be carried past w by it.  A BEGIN
\* starts a later timeline, the last one at r.  An END that gives the host's own
\* name ends the last push, and the host has run on from it.
Fits(f, l, E, w, r, v, b, s) ==
  /\ f.type = "INPUT" => Of(f) = l /\ (l < E => f.tick + (1 + Delay) <= w)
  /\ f.type = "BEGIN" => /\ l < E /\ f.tick <= Top
                         /\ IF l + 1 < E THEN f.tick + 2 * Delay <= w ELSE f.tick = r
  /\ f.type = "END" => f.val < v /\ (f.val = b => l + 1 = E /\ s = r)
\* All frames on the way to a guest in timeline e: once it has taken them it is
\* in the host's timeline, or before it if the host died in the middle of a push.
Down(q, e, E, w, r, v, b, s, alive) ==
  /\ \A k \in 1..Len(q) : Fits(q[k], Label(q, e, k), E, w, r, v, b, s)
  /\ Label(q, e, Len(q) + 1) <= E
  /\ alive => Label(q, e, Len(q) + 1) = E

LEMMA EndedFinite ==
  ASSUME NEW q, NEW k \in Nat
  PROVE  IsFiniteSet(Ended(q, k)) /\ Cardinality(Ended(q, k)) \in Nat
  <1>1. k - 1 \in Int /\ 1 \in Int
    OBVIOUS
  <1>2. IsFiniteSet(1..(k - 1))
    BY <1>1, FS_Interval
  <1>3. Ended(q, k) \in SUBSET (1..(k - 1))
    BY DEF Ended
  <1>4. IsFiniteSet(Ended(q, k))
    BY <1>2, <1>3, FS_Subset
  <1> QED BY <1>4, FS_CardinalityType

LEMMA LabelType ==
  ASSUME NEW q, NEW e \in Nat, NEW k \in Nat
  PROVE  Label(q, e, k) \in Nat /\ e <= Label(q, e, k)
  <1> DEFINE m == Cardinality(Ended(q, k))
  <1>1. m \in Nat
    BY EndedFinite
  <1> HIDE DEF m
  <1>2. e + m \in Nat /\ e <= e + m
    BY <1>1
  <1> QED BY <1>2 DEF Label, m

LEMMA LabelFirst ==
  ASSUME NEW q, NEW e \in Nat
  PROVE  Label(q, e, 1) = e
  <1>1. Ended(q, 1) = {}
    BY DEF Ended
  <1>2. Cardinality(Ended(q, 1)) = 0
    BY <1>1, FS_EmptySet
  <1> QED BY <1>2 DEF Label

LEMMA LabelStep ==
  ASSUME NEW q, NEW e \in Nat, NEW k \in Nat \ {0}
  PROVE  Label(q, e, k + 1) = Label(q, e, k) + IF q[k].type = "END" THEN 1 ELSE 0
  <1> DEFINE A == Ended(q, k)
             B == Ended(q, k + 1)
             a == Cardinality(A)
             b == Cardinality(B)
  <1>1. IsFiniteSet(A) /\ a \in Nat
    BY EndedFinite
  <1>2. k \notin A /\ (k + 1) - 1 = k /\ 1..k = (1..(k - 1)) \cup {k}
    BY DEF Ended
  <1>3. B = IF q[k].type = "END" THEN A \cup {k} ELSE A
    BY <1>2 DEF Ended
  <1> HIDE DEF A, B
  <1>4. Cardinality(A \cup {k}) = Cardinality(A) + 1
    BY <1>1, <1>2, FS_AddElement
  <1>5. b = IF q[k].type = "END" THEN a + 1 ELSE a
    BY <1>3, <1>4
  <1> HIDE DEF a, b
  <1>6. e + b = (e + a) + IF q[k].type = "END" THEN 1 ELSE 0
    BY <1>1, <1>5
  <1> QED BY <1>6 DEF Label, A, B, a, b

\* Labels do not fall along the queue.
LEMMA LabelGrows ==
  ASSUME NEW q, NEW e \in Nat, NEW k \in Nat, NEW m \in Nat, k <= m
  PROVE  Label(q, e, k) <= Label(q, e, m)
  <1>1. Ended(q, k) \in SUBSET Ended(q, m)
    BY DEF Ended
  <1>2. IsFiniteSet(Ended(q, m))
    BY EndedFinite
  <1> DEFINE a == Cardinality(Ended(q, k))
             b == Cardinality(Ended(q, m))
  <1>3. a <= b /\ a \in Nat /\ b \in Nat
    BY <1>1, <1>2, FS_Subset, EndedFinite
  <1> HIDE DEF a, b
  <1>4. e + a <= e + b
    BY <1>3
  <1> QED BY <1>4 DEF Label, a, b

LEMMA LabelTail ==
  ASSUME NEW q \in Seq(Frames), q # <<>>, NEW e \in Nat, NEW k \in 1..Len(q)
  PROVE  Label(Tail(q), IF q[1].type = "END" THEN e + 1 ELSE e, k) = Label(q, e, k + 1)
  <1> DEFINE t == Tail(q)
             A == Ended(t, k)
             B == Ended(q, k + 1)
             C == B \ {1}
  <1>1. /\ Len(q) \in Nat /\ Len(t) = Len(q) - 1 /\ \A i \in 1..Len(t) : t[i] = q[i + 1]
    BY QueueTail
  <1>2. k \in Nat \ {0} /\ k + 1 \in Nat /\ (k + 1) - 1 = k
    BY <1>1
  <1>3. IsFiniteSet(A) /\ Cardinality(A) \in Nat /\ IsFiniteSet(B) /\ Cardinality(B) \in Nat
    BY <1>2, EndedFinite
  <1> HIDE DEF t
  <1>4. \A i \in A : i \in 1..(k - 1) /\ t[i] = q[i + 1] /\ t[i].type = "END" /\ i + 1 \in C
    <2> SUFFICES ASSUME NEW i \in A
                 PROVE  i \in 1..(k - 1) /\ t[i] = q[i + 1] /\ t[i].type = "END" /\ i + 1 \in C
      OBVIOUS
    <2>1. i \in 1..(k - 1) /\ t[i].type = "END"
      BY DEF Ended
    <2>2. i \in 1..Len(t) /\ i + 1 \in 1..k /\ i + 1 # 1
      BY <1>1, <2>1
    <2> QED BY <1>1, <1>2, <2>1, <2>2 DEF Ended
  <1>5. \A j \in C : j \in 1..k /\ j - 1 \in A /\ (j - 1) + 1 = j
    <2> SUFFICES ASSUME NEW j \in C PROVE j \in 1..k /\ j - 1 \in A /\ (j - 1) + 1 = j
      OBVIOUS
    <2>1. j \in 1..k /\ q[j].type = "END" /\ j # 1
      BY <1>2 DEF Ended
    <2>2. j - 1 \in 1..(k - 1) /\ j - 1 \in 1..Len(t) /\ (j - 1) + 1 = j
      BY <1>1, <2>1
    <2>3. t[j - 1] = q[j]
      BY <1>1, <2>2
    <2> QED BY <2>1, <2>2, <2>3 DEF Ended
  <1>6. Cardinality(C) = Cardinality(A)
    <2> DEFINE f == [i \in A |-> i + 1]
    <2>1. f \in [A -> C]
      BY <1>4
    <2>2. \A i, j \in A : f[i] = f[j] => i = j
      BY <1>4
    <2>3. \A j \in C : \E i \in A : f[i] = j
      BY <1>5
    <2>4. f \in Bijection(A, C)
      BY <2>1, <2>2, <2>3 DEF Bijection, Injection, Surjection, IsInjective
    <2> HIDE DEF A, C, f
    <2>5. ExistsBijection(A, C)
      BY <2>4 DEF ExistsBijection
    <2> QED BY <1>3, <2>5, FS_Bijection
  <1>7. Cardinality(C) = IF 1 \in B THEN Cardinality(B) - 1 ELSE Cardinality(B)
    <2> HIDE DEF B
    <2> QED BY <1>3, FS_RemoveElement
  <1>8. 1 \in B <=> q[1].type = "END"
    BY <1>2 DEF Ended
  <1> DEFINE a == Cardinality(A)
             b == Cardinality(B)
             x == IF q[1].type = "END" THEN e + 1 ELSE e
  <1>9. a = (IF q[1].type = "END" THEN b - 1 ELSE b) /\ a \in Nat /\ b \in Nat
    BY <1>3, <1>6, <1>7, <1>8
  <1> HIDE DEF a, b, A, B
  <1>10. x + a = e + b
    BY <1>9
  <1> QED BY <1>10 DEF Label, a, b, A, B, t

LEMMA DownLine ==
  ASSUME NEW q \in Seq(Frames), NEW e \in Nat, NEW E \in Nat, NEW w, NEW r, NEW v, NEW b, NEW s, NEW alive,
         Down(q, e, E, w, r, v, b, s, alive)
  PROVE  /\ e <= E
         /\ \A k \in 1..Len(q) : Label(q, e, k) \in Nat /\ Label(q, e, k) <= E
  <1>1. Len(q) \in Nat /\ Len(q) + 1 \in Nat
    BY LenProperties
  <1> DEFINE m == Label(q, e, Len(q) + 1)
  <1>2. m \in Nat /\ e <= m /\ m <= E
    BY <1>1, LabelType DEF Down
  <1> HIDE DEF m
  <1>3. ASSUME NEW k \in 1..Len(q) PROVE Label(q, e, k) \in Nat /\ Label(q, e, k) <= E
    <2> DEFINE l == Label(q, e, k)
    <2>1. k \in Nat /\ k <= Len(q) + 1
      BY <1>1
    <2>2. l \in Nat /\ l <= m
      BY <1>1, <2>1, LabelType, LabelGrows DEF m
    <2> HIDE DEF l
    <2>3. l <= E
      BY <1>2, <2>2
    <2> QED BY <2>2, <2>3 DEF l
  <1> QED BY <1>2, <1>3

\* The head is taken.
LEMMA DownTake ==
  ASSUME NEW q \in Seq(Frames), q # <<>>, NEW e \in Nat, NEW E, NEW w, NEW r, NEW v, NEW b, NEW s, NEW alive,
         Down(q, e, E, w, r, v, b, s, alive)
  PROVE  /\ Fits(q[1], e, E, w, r, v, b, s)
         /\ Down(Tail(q), IF q[1].type = "END" THEN e + 1 ELSE e, E, w, r, v, b, s, alive)
  <1> DEFINE t == Tail(q)
             x == IF q[1].type = "END" THEN e + 1 ELSE e
  <1>1. /\ Len(q) \in Nat /\ Len(q) >= 1 /\ Len(t) = Len(q) - 1 /\ \A i \in 1..Len(t) : t[i] = q[i + 1]
    BY QueueTail
  <1>2. \A k \in 1..Len(q) : Label(t, x, k) = Label(q, e, k + 1)
    BY LabelTail
  <1> HIDE DEF t, x
  <1>3. 1 \in 1..Len(q) /\ Len(t) + 1 \in 1..Len(q) /\ (Len(t) + 1) + 1 = Len(q) + 1
    BY <1>1
  <1>4. Fits(q[1], e, E, w, r, v, b, s)
    BY <1>3, LabelFirst DEF Down
  <1>5. ASSUME NEW k \in 1..Len(t) PROVE Fits(t[k], Label(t, x, k), E, w, r, v, b, s)
    <2>1. k \in 1..Len(q) /\ k + 1 \in 1..Len(q)
      BY <1>1
    <2>2. Label(t, x, k) = Label(q, e, k + 1) /\ t[k] = q[k + 1]
      BY <1>1, <1>2, <2>1
    <2>3. Fits(q[k + 1], Label(q, e, k + 1), E, w, r, v, b, s)
      BY <2>1 DEF Down
    <2> QED BY <2>2, <2>3
  <1>6. Label(t, x, Len(t) + 1) = Label(q, e, Len(q) + 1)
    BY <1>2, <1>3
  <1>7. Down(t, x, E, w, r, v, b, s, alive)
    BY <1>5, <1>6 DEF Down
  <1> QED BY <1>4, <1>7 DEF t, x

\* What the frames have to fit changes.
LEMMA DownKept ==
  ASSUME NEW q \in Seq(Frames), NEW e \in Nat, NEW E \in Nat, NEW w, NEW r, NEW v, NEW b, NEW s, NEW alive,
         NEW w2, NEW v2, NEW b2, NEW s2,
         Down(q, e, E, w, r, v, b, s, alive),
         \A f \in Frames, l \in Nat : Fits(f, l, E, w, r, v, b, s) => Fits(f, l, E, w2, r, v2, b2, s2)
  PROVE  Down(q, e, E, w2, r, v2, b2, s2, alive)
  <1>1. \A k \in 1..Len(q) : q[k] \in Frames /\ Label(q, e, k) \in Nat
    BY ElementOfSeq, DownLine
  <1>2. \A k \in 1..Len(q) : Fits(q[k], Label(q, e, k), E, w2, r, v2, b2, s2)
    BY <1>1 DEF Down
  <1> QED BY <1>2 DEF Down

LEMMA LabelOld ==
  ASSUME NEW q \in Seq(Frames), NEW o \in Seq(Frames), NEW e \in Nat, NEW k \in 1..(Len(q) + 1)
  PROVE  Label(q \o o, e, k) = Label(q, e, k)
  <1> DEFINE a == q \o o
  <1>1. Len(q) \in Nat /\ \A i \in 1..Len(q) : a[i] = q[i]
    BY QueueConcat
  <1> HIDE DEF a
  <1>2. \A i \in 1..(k - 1) : i \in 1..Len(q)
    BY <1>1
  <1>3. \A i \in 1..(k - 1) : a[i] = q[i]
    BY <1>1, <1>2
  <1>4. Ended(a, k) = Ended(q, k)
    BY <1>3 DEF Ended
  <1> QED BY <1>4 DEF Label, a

LEMMA LabelNew ==
  ASSUME NEW q \in Seq(Frames), NEW o \in Seq(Frames), NEW e \in Nat, NEW j \in 1..(Len(o) + 1),
         \A i \in 1..(j - 1) : o[i].type # "END"
  PROVE  Label(q \o o, e, Len(q) + j) = Label(q, e, Len(q) + 1)
  <1> DEFINE a == q \o o
             m == Len(q)
             k == m + j
             n == m + 1
  <1>1. /\ m \in Nat /\ Len(o) \in Nat /\ Len(a) = m + Len(o)
        /\ \A i \in 1..m : a[i] = q[i]
        /\ \A i \in 1..Len(o) : a[m + i] = o[i]
    BY QueueConcat
  <1> HIDE DEF a, m
  <1>2. j \in Nat /\ j >= 1 /\ j - 1 <= Len(o) /\ n - 1 = m
    BY <1>1
  <1>3. ASSUME NEW i \in Ended(a, k) PROVE i \in Ended(q, n)
    <2>1. i \in 1..(k - 1) /\ a[i].type = "END"
      BY DEF Ended
    <2>2. i \in 1..m
      <3> SUFFICES ASSUME i \notin 1..m PROVE FALSE
        OBVIOUS
      <3>1. i - m \in 1..(j - 1) /\ i - m \in 1..Len(o) /\ m + (i - m) = i
        BY <1>1, <1>2, <2>1
      <3>2. a[i] = o[i - m]
        BY <1>1, <3>1
      <3> QED BY <2>1, <3>1, <3>2
    <2> QED BY <1>1, <1>2, <2>1, <2>2 DEF Ended
  <1>4. ASSUME NEW i \in Ended(q, n) PROVE i \in Ended(a, k)
    <2>1. i \in 1..m /\ q[i].type = "END"
      BY <1>2 DEF Ended
    <2>2. i \in 1..(k - 1)
      BY <1>1, <1>2, <2>1
    <2> QED BY <1>1, <2>1, <2>2 DEF Ended
  <1>5. Ended(a, k) = Ended(q, n)
    BY <1>3, <1>4
  <1> QED BY <1>5 DEF Label, a, m

\* The host appends frames of its own timeline.
LEMMA DownMore ==
  ASSUME NEW q \in Seq(Frames), NEW o \in Seq(Frames), NEW e \in Nat, NEW E \in Nat,
         NEW w, NEW r, NEW v, NEW b, NEW s,
         Down(q, e, E, w, r, v, b, s, TRUE),
         \A i \in 1..Len(o) : o[i].type # "END" /\ Fits(o[i], E, E, w, r, v, b, s)
  PROVE  Down(q \o o, e, E, w, r, v, b, s, TRUE)
  <1> DEFINE a == q \o o
             m == Len(q)
             n == Len(o)
  <1>1. /\ m \in Nat /\ n \in Nat /\ Len(a) = m + n
        /\ \A i \in 1..m : a[i] = q[i]
        /\ \A i \in 1..n : a[m + i] = o[i]
    BY QueueConcat
  <1>2. \A k \in 1..(m + 1) : Label(a, e, k) = Label(q, e, k)
    BY LabelOld
  <1>3. ASSUME NEW j \in 1..(n + 1) PROVE Label(a, e, m + j) = E
    <2>1. \A i \in 1..(j - 1) : i \in 1..Len(o)
      BY <1>1
    <2>2. \A i \in 1..(j - 1) : o[i].type # "END"
      BY <2>1
    <2>3. Label(a, e, m + j) = Label(q, e, m + 1)
      BY <2>2, LabelNew
    <2> QED BY <2>3 DEF Down
  <1>4. \A k \in 1..m : Fits(q[k], Label(q, e, k), E, w, r, v, b, s)
    BY DEF Down
  <1> HIDE DEF a, m
  <1>5. ASSUME NEW k \in 1..Len(a) PROVE Fits(a[k], Label(a, e, k), E, w, r, v, b, s)
    <2>1. CASE k <= m
      <3>1. k \in 1..m /\ k \in 1..(m + 1)
        BY <1>1, <2>1
      <3> QED BY <1>1, <1>2, <1>4, <3>1
    <2>2. CASE ~(k <= m)
      <3>1. k - m \in 1..n /\ k - m \in 1..(n + 1) /\ m + (k - m) = k
        BY <1>1, <2>2
      <3>2. a[k] = o[k - m] /\ Label(a, e, k) = E
        BY <1>1, <1>3, <3>1
      <3> QED BY <3>1, <3>2
    <2> QED BY <2>1, <2>2
  <1>6. Label(a, e, Len(a) + 1) = E
    <2>1. n + 1 \in 1..(n + 1) /\ m + (n + 1) = Len(a) + 1
      BY <1>1
    <2> QED BY <1>3, <2>1
  <1>7. E <= E
    OBVIOUS
  <1> QED BY <1>5, <1>6, <1>7 DEF Down, a

\* The host appends a push, and rebases.
LEMMA DownPush ==
  ASSUME NEW q \in Seq(Frames), NEW o \in Seq(Frames), NEW e \in Nat, NEW E \in Nat,
         NEW w, NEW r, NEW v, NEW b, NEW s, NEW w2, NEW r2, NEW v2, NEW b2, NEW s2,
         Down(q, e, E, w, r, v, b, s, TRUE),
         \A k \in 1..Len(q), l \in Nat :
           l <= E /\ Fits(q[k], l, E, w, r, v, b, s) => Fits(q[k], l, E + 1, w2, r2, v2, b2, s2),
         NEW n \in Nat \ {0}, Len(o) = n, o[n].type = "END",
         \A i \in 1..(n - 1) : o[i].type # "END",
         \A i \in 1..n : Fits(o[i], E, E + 1, w2, r2, v2, b2, s2)
  PROVE  Down(q \o o, e, E + 1, w2, r2, v2, b2, s2, TRUE)
  <1> DEFINE a == q \o o
             m == Len(q)
  <1>1. /\ m \in Nat /\ Len(a) = m + n
        /\ \A i \in 1..m : a[i] = q[i]
        /\ \A i \in 1..n : a[m + i] = o[i]
    BY QueueConcat
  <1>2. \A k \in 1..(m + 1) : Label(a, e, k) = Label(q, e, k)
    BY LabelOld
  <1>3. ASSUME NEW j \in 1..n PROVE Label(a, e, m + j) = E
    <2>1. \A i \in 1..(j - 1) : i \in 1..(n - 1)
      OBVIOUS
    <2>2. (\A i \in 1..(j - 1) : o[i].type # "END") /\ j \in 1..(Len(o) + 1)
      BY <2>1
    <2>3. Label(a, e, m + j) = Label(q, e, m + 1)
      BY <2>2, LabelNew
    <2> QED BY <2>3 DEF Down
  <1>4. \A k \in 1..m : Fits(q[k], Label(q, e, k), E, w, r, v, b, s)
    BY DEF Down
  <1>5. \A k \in 1..m : q[k] \in Frames /\ Label(q, e, k) \in Nat /\ Label(q, e, k) <= E
    BY ElementOfSeq, DownLine
  <1>6. Label(a, e, Len(a) + 1) = E + 1
    <2> DEFINE k == m + n
    <2>1. k \in Nat \ {0} /\ n \in 1..n
      BY <1>1
    <2>2. a[k] = o[n] /\ Label(a, e, k) = E
      BY <1>1, <1>3, <2>1
    <2> HIDE DEF a, k
    <2>3. Label(a, e, k + 1) = Label(a, e, k) + IF a[k].type = "END" THEN 1 ELSE 0
      BY <2>1, LabelStep
    <2>4. k = Len(a)
      BY <1>1 DEF k
    <2> QED BY <2>2, <2>3, <2>4
  <1> HIDE DEF a, m
  <1>7. ASSUME NEW k \in 1..Len(a) PROVE Fits(a[k], Label(a, e, k), E + 1, w2, r2, v2, b2, s2)
    <2>1. CASE k <= m
      <3>1. k \in 1..m /\ k \in 1..(m + 1)
        BY <1>1, <2>1
      <3>2. Fits(q[k], Label(q, e, k), E + 1, w2, r2, v2, b2, s2)
        BY <1>4, <1>5, <3>1 DEF m
      <3> QED BY <1>1, <1>2, <3>1, <3>2
    <2>2. CASE ~(k <= m)
      <3>1. k - m \in 1..n /\ m + (k - m) = k
        BY <1>1, <2>2
      <3>2. a[k] = o[k - m] /\ Label(a, e, k) = E
        BY <1>1, <1>3, <3>1
      <3> QED BY <3>1, <3>2
    <2> QED BY <2>1, <2>2
  <1>8. E + 1 <= E + 1
    OBVIOUS
  <1> QED BY <1>6, <1>7, <1>8 DEF Down, a

\* The host dies: a prefix is left, and perhaps a goodbye.
LEMMA DownCut ==
  ASSUME NEW q \in Seq(Frames), NEW n \in 0..Len(q), NEW o \in Seq(Frames), NEW e \in Nat, NEW E \in Nat,
         NEW w, NEW r, NEW v, NEW b, NEW s, NEW alive,
         Down(q, e, E, w, r, v, b, s, alive),
         \A i \in 1..Len(o) : o[i].type = "LEFT"
  PROVE  Down(SubSeq(q, 1, n) \o o, e, E, w, r, v, b, s, FALSE)
  <1> DEFINE p == SubSeq(q, 1, n)
             a == p \o o
             m == Len(o)
  <1>1. p \in Seq(Frames) /\ Len(p) = n /\ Len(q) \in Nat /\ n \in Nat /\ n <= Len(q) /\ \A i \in 1..n : p[i] = q[i]
    BY QueuePrefix, LenProperties
  <1> HIDE DEF p
  <1>2. /\ m \in Nat /\ Len(a) = n + m
        /\ \A i \in 1..n : a[i] = p[i]
        /\ \A i \in 1..m : a[n + i] = o[i]
    BY <1>1, QueueConcat
  <1>3. \A k \in 1..(n + 1) : Label(a, e, k) = Label(p, e, k)
    BY <1>1, LabelOld
  <1>4. ASSUME NEW k \in 1..(n + 1) PROVE Label(p, e, k) = Label(q, e, k)
    <2>1. \A i \in 1..(k - 1) : i \in 1..n
      BY <1>1
    <2>2. \A i \in 1..(k - 1) : p[i] = q[i]
      BY <1>1, <2>1
    <2>3. Ended(p, k) = Ended(q, k)
      BY <2>2 DEF Ended
    <2> QED BY <2>3 DEF Label
  <1>5. Label(a, e, Len(a) + 1) = Label(q, e, n + 1)
    <2> DEFINE j == m + 1
    <2>1. j \in 1..(Len(o) + 1) /\ \A i \in 1..(j - 1) : i \in 1..Len(o)
      BY <1>2
    <2>2. \A i \in 1..(j - 1) : o[i].type # "END"
      BY <2>1
    <2> HIDE DEF j
    <2>3. Label(a, e, Len(p) + j) = Label(p, e, Len(p) + 1)
      BY <1>1, <2>1, <2>2, LabelNew
    <2>4. Len(p) + j = Len(a) + 1 /\ Len(p) + 1 = n + 1 /\ n + 1 \in 1..(n + 1)
      BY <1>1, <1>2 DEF j
    <2> QED BY <1>4, <2>3, <2>4
  <1>6. Label(q, e, n + 1) <= E
    <2> DEFINE x == Label(q, e, n + 1)
               y == Label(q, e, Len(q) + 1)
    <2>1. n + 1 \in Nat /\ Len(q) + 1 \in Nat /\ n + 1 <= Len(q) + 1
      BY <1>1
    <2>2. x \in Nat /\ y \in Nat /\ x <= y
      BY <2>1, LabelType, LabelGrows
    <2>3. y <= E
      BY DEF Down
    <2> HIDE DEF x, y
    <2>4. x <= E
      BY <2>2, <2>3
    <2> QED BY <2>4 DEF x
  <1> HIDE DEF a, m
  <1>7. ASSUME NEW k \in 1..Len(a) PROVE Fits(a[k], Label(a, e, k), E, w, r, v, b, s)
    <2>1. CASE k <= n
      <3>1. k \in 1..n /\ k \in 1..(n + 1) /\ k \in 1..Len(q)
        BY <1>1, <1>2, <2>1
      <3>2. Fits(q[k], Label(q, e, k), E, w, r, v, b, s)
        BY <3>1 DEF Down
      <3> QED BY <1>1, <1>2, <1>3, <1>4, <3>1, <3>2
    <2>2. CASE ~(k <= n)
      <3>1. k - n \in 1..m /\ n + (k - n) = k
        BY <1>1, <1>2, <2>2
      <3>2. a[k] = o[k - n] /\ a[k].type = "LEFT"
        BY <1>2, <3>1 DEF m
      <3> QED BY <3>2 DEF Fits
    <2> QED BY <2>1, <2>2
  <1>8. Down(a, e, E, w, r, v, b, s, FALSE)
    BY <1>5, <1>6, <1>7 DEF Down
  <1> QED BY <1>8 DEF a, p

\* The inputs under way in q that belong to timeline E, captured in own: they
\* come in order, above the watermark w they will find and up to the last
\* capture, and none is left out but at the end, by a host that died.
Current(q, E) == {k \in 1..Len(q) : q[k].type = "INPUT" /\ Of(q[k]) = E}
Flow(q, E, own, w, last, whole) ==
  /\ \A k \in Current(q, E) : /\ q[k].tick \in Cells /\ q[k].tick > w /\ q[k].tick <= last
                              /\ q[k].val = own[q[k].tick]
  /\ \A i, k \in Current(q, E) : i < k => q[i].tick < q[k].tick
  /\ \A k \in Current(q, E), n \in Cells :
       n > w /\ n < q[k].tick /\ own[n] # Idle => \E i \in Current(q, E) : q[i].tick = n
  /\ whole => \A n \in Cells : n > w /\ own[n] # Idle => \E i \in Current(q, E) : q[i].tick = n

LEMMA CellsNat == \A n \in Cells : n \in Nat
  BY Constants DEF Cells

LEMMA FlowNone ==
  ASSUME NEW q, NEW E, NEW own, NEW w, NEW last, NEW whole,
         \A k \in 1..Len(q) : q[k].type = "INPUT" => Of(q[k]) # E,
         whole => \A n \in Cells : own[n] = Idle
  PROVE  Flow(q, E, own, w, last, whole)
  <1>1. Current(q, E) = {}
    BY DEF Current
  <1> QED BY <1>1 DEF Flow

LEMMA FlowWide ==
  ASSUME NEW q, NEW E, NEW own, NEW w, NEW last \in Int, NEW last2 \in Int, NEW whole,
         Flow(q, E, own, w, last, whole), last <= last2
  PROVE  Flow(q, E, own, w, last2, whole)
  <1>1. \A k \in Current(q, E) : q[k].tick <= last2
    <2> SUFFICES ASSUME NEW k \in Current(q, E) PROVE q[k].tick <= last2
      OBVIOUS
    <2> DEFINE n == q[k].tick
    <2>1. n \in Cells /\ n <= last
      BY DEF Flow
    <2> HIDE DEF n
    <2>2. n <= last2
      BY <2>1, CellsNat
    <2> QED BY <2>2 DEF n
  <1> QED BY <1>1 DEF Flow

LEMMA CurrentTail ==
  ASSUME NEW q \in Seq(Frames), q # <<>>, NEW E
  PROVE  /\ \A k \in Current(Tail(q), E) : k \in Int /\ k + 1 \in Current(q, E) /\ Tail(q)[k] = q[k + 1]
         /\ \A i \in Current(q, E) : i \in Int /\ i >= 1
         /\ \A i \in Current(q, E) : i # 1 => /\ i - 1 \in Current(Tail(q), E)
                                              /\ Tail(q)[i - 1] = q[i]
  <1> DEFINE t == Tail(q)
  <1>1. /\ Len(q) \in Nat /\ Len(q) >= 1 /\ Len(t) = Len(q) - 1 /\ \A i \in 1..Len(t) : t[i] = q[i + 1]
    BY QueueTail
  <1> HIDE DEF t
  <1>2. ASSUME NEW k \in Current(t, E) PROVE k \in Int /\ k + 1 \in Current(q, E) /\ t[k] = q[k + 1]
    <2>1. k \in 1..Len(t) /\ k + 1 \in 1..Len(q)
      BY <1>1 DEF Current
    <2>2. t[k] = q[k + 1]
      BY <1>1, <2>1
    <2> QED BY <2>1, <2>2 DEF Current
  <1>3. ASSUME NEW i \in Current(q, E) PROVE i \in Int /\ i >= 1 /\ i \in 1..Len(q)
    BY <1>1 DEF Current
  <1>4. ASSUME NEW i \in Current(q, E), i # 1 PROVE i - 1 \in Current(t, E) /\ t[i - 1] = q[i]
    <2>1. i - 1 \in 1..Len(t) /\ (i - 1) + 1 = i
      BY <1>1, <1>3, <1>4
    <2>2. t[i - 1] = q[i]
      BY <1>1, <2>1
    <2> QED BY <2>1, <2>2 DEF Current
  <1> QED BY <1>2, <1>3, <1>4 DEF t

LEMMA FlowPass ==
  ASSUME NEW q \in Seq(Frames), q # <<>>, NEW E, NEW own, NEW w, NEW last, NEW whole,
         Flow(q, E, own, w, last, whole), q[1].type # "INPUT" \/ Of(q[1]) # E
  PROVE  Flow(Tail(q), E, own, w, last, whole)
  <1> DEFINE t == Tail(q)
             S == Current(q, E)
             T == Current(t, E)
  <1>1. /\ \A k \in T : k \in Int /\ k + 1 \in S /\ t[k] = q[k + 1]
        /\ \A i \in S : i \in Int /\ i >= 1
        /\ \A i \in S : i # 1 => i - 1 \in T /\ t[i - 1] = q[i]
    BY CurrentTail
  <1>2. 1 \notin S
    BY DEF Current
  <1>3. /\ \A k \in S : /\ q[k].tick \in Cells /\ q[k].tick > w /\ q[k].tick <= last
                        /\ q[k].val = own[q[k].tick]
        /\ \A i, k \in S : i < k => q[i].tick < q[k].tick
        /\ \A k \in S, n \in Cells :
             n > w /\ n < q[k].tick /\ own[n] # Idle => \E i \in S : q[i].tick = n
        /\ whole => \A n \in Cells : n > w /\ own[n] # Idle => \E i \in S : q[i].tick = n
    BY DEF Flow
  <1> HIDE DEF t, S, T
  <1>4. \A n : (\E i \in S : q[i].tick = n) => \E i \in T : t[i].tick = n
    BY <1>1, <1>2
  <1>5. \A k \in T : /\ t[k].tick \in Cells /\ t[k].tick > w /\ t[k].tick <= last
                     /\ t[k].val = own[t[k].tick]
    BY <1>1, <1>3
  <1>6. ASSUME NEW i \in T, NEW k \in T, i < k PROVE t[i].tick < t[k].tick
    <2>1. i + 1 \in S /\ k + 1 \in S /\ i + 1 < k + 1 /\ t[i] = q[i + 1] /\ t[k] = q[k + 1]
      BY <1>1, <1>6
    <2> QED BY <1>3, <2>1
  <1>7. ASSUME NEW k \in T, NEW n \in Cells, n > w, n < t[k].tick, own[n] # Idle
        PROVE  \E i \in T : t[i].tick = n
    <2>1. k + 1 \in S /\ n < q[k + 1].tick
      BY <1>1, <1>7
    <2> QED BY <1>3, <1>4, <1>7, <2>1
  <1>8. ASSUME whole, NEW n \in Cells, n > w, own[n] # Idle PROVE \E i \in T : t[i].tick = n
    BY <1>3, <1>4, <1>8
  <1> QED BY <1>5, <1>6, <1>7, <1>8 DEF Flow, t, T

LEMMA FlowTake ==
  ASSUME NEW q \in Seq(Frames), q # <<>>, NEW E, NEW own, NEW w \in Int, NEW last, NEW whole,
         Flow(q, E, own, w, last, whole), q[1].type = "INPUT", Of(q[1]) = E
  PROVE  /\ q[1].tick \in Cells /\ q[1].tick > w /\ q[1].tick <= last /\ q[1].val = own[q[1].tick]
         /\ \A n \in Cells : n > w /\ n < q[1].tick => own[n] = Idle
         /\ Flow(Tail(q), E, own, q[1].tick, last, whole)
  <1> DEFINE t == Tail(q)
             S == Current(q, E)
             T == Current(t, E)
             x == q[1].tick
  <1>1. /\ \A k \in T : k \in Int /\ k + 1 \in S /\ t[k] = q[k + 1]
        /\ \A i \in S : i \in Int /\ i >= 1
        /\ \A i \in S : i # 1 => i - 1 \in T /\ t[i - 1] = q[i]
    BY CurrentTail
  <1>2. 1 \in S
    <2>1. 1 \in 1..Len(q)
      BY QueueTail
    <2> QED BY <2>1 DEF Current
  <1>3. /\ \A k \in S : /\ q[k].tick \in Cells /\ q[k].tick > w /\ q[k].tick <= last
                        /\ q[k].val = own[q[k].tick]
        /\ \A i, k \in S : i < k => q[i].tick < q[k].tick
        /\ \A k \in S, n \in Cells :
             n > w /\ n < q[k].tick /\ own[n] # Idle => \E i \in S : q[i].tick = n
        /\ whole => \A n \in Cells : n > w /\ own[n] # Idle => \E i \in S : q[i].tick = n
    BY DEF Flow
  <1> HIDE DEF t, S, T
  <1>4. x \in Cells /\ x \in Nat /\ x > w
    BY <1>2, <1>3, CellsNat
  <1>5. \A i \in S : i # 1 => q[i].tick > x /\ q[i].tick \in Nat
    <2> SUFFICES ASSUME NEW i \in S, i # 1 PROVE q[i].tick > x /\ q[i].tick \in Nat
      OBVIOUS
    <2>1. 1 < i /\ q[i].tick \in Nat
      BY <1>1, <1>3, CellsNat
    <2>2. q[1].tick < q[i].tick
      BY <1>2, <1>3, <2>1
    <2> QED BY <1>4, <2>1, <2>2
  <1>6. ASSUME NEW n \in Cells, n > w, n < x PROVE own[n] = Idle
    <2> SUFFICES ASSUME own[n] # Idle PROVE FALSE
      OBVIOUS
    <2>1. PICK i \in S : q[i].tick = n
      BY <1>2, <1>3, <1>6
    <2> QED BY <1>4, <1>5, <1>6, <2>1, CellsNat
  <1>7. ASSUME NEW n \in Cells, n > x, \E i \in S : q[i].tick = n PROVE \E i \in T : t[i].tick = n
    <2>1. PICK i \in S : q[i].tick = n
      BY <1>7
    <2>2. i # 1
      BY <1>4, <1>7, <2>1, CellsNat
    <2> QED BY <1>1, <2>1, <2>2
  <1>8. \A k \in T : /\ t[k].tick \in Cells /\ t[k].tick > x /\ t[k].tick <= last
                     /\ t[k].val = own[t[k].tick]
    <2> SUFFICES ASSUME NEW k \in T
                 PROVE  /\ t[k].tick \in Cells /\ t[k].tick > x /\ t[k].tick <= last
                        /\ t[k].val = own[t[k].tick]
      OBVIOUS
    <2>1. k + 1 \in S /\ t[k] = q[k + 1]
      BY <1>1
    <2>2. k + 1 # 1
      <3>1. k \in T /\ k \in Int
        BY <1>1
      <3>2. k # 0
        BY DEF T, Current
      <3> QED BY <3>1, <3>2
    <2> QED BY <1>3, <1>5, <2>1, <2>2
  <1>9. ASSUME NEW i \in T, NEW k \in T, i < k PROVE t[i].tick < t[k].tick
    <2>1. i + 1 \in S /\ k + 1 \in S /\ i + 1 < k + 1 /\ t[i] = q[i + 1] /\ t[k] = q[k + 1]
      BY <1>1, <1>9
    <2> QED BY <1>3, <2>1
  <1>10. ASSUME NEW n \in Cells, n > x PROVE n > w /\ n \in Nat
    BY <1>4, <1>10, CellsNat
  <1>11. ASSUME NEW k \in T, NEW n \in Cells, n > x, n < t[k].tick, own[n] # Idle
        PROVE  \E i \in T : t[i].tick = n
    <2>1. k + 1 \in S /\ n < q[k + 1].tick /\ n > w
      BY <1>1, <1>10, <1>11
    <2>2. \E i \in S : q[i].tick = n
      BY <1>3, <1>11, <2>1
    <2> QED BY <1>7, <1>11, <2>2
  <1>12. ASSUME whole, NEW n \in Cells, n > x, own[n] # Idle PROVE \E i \in T : t[i].tick = n
    BY <1>3, <1>7, <1>10, <1>12
  <1>13. Flow(t, E, own, x, last, whole)
    BY <1>8, <1>9, <1>11, <1>12 DEF Flow, T
  <1> QED BY <1>2, <1>3, <1>6, <1>13 DEF t

LEMMA CurrentConcat ==
  ASSUME NEW q \in Seq(Frames), NEW o \in Seq(Frames), NEW E
  PROVE  /\ \A k \in Current(q, E) : k \in Current(q \o o, E) /\ (q \o o)[k] = q[k] /\ k \in Int /\ k <= Len(q)
         /\ \A k \in Current(q \o o, E) : \/ k \in Current(q, E)
                                          \/ k - Len(q) \in Current(o, E) /\ k > Len(q)
                                             /\ (q \o o)[k] = o[k - Len(q)]
  <1> DEFINE a == q \o o
             m == Len(q)
             n == Len(o)
  <1>1. /\ m \in Nat /\ n \in Nat /\ Len(a) = m + n
        /\ \A i \in 1..m : a[i] = q[i]
        /\ \A i \in 1..n : a[m + i] = o[i]
    BY QueueConcat
  <1>2. ASSUME NEW k \in Current(q, E) PROVE k \in Current(a, E) /\ a[k] = q[k] /\ k \in Int /\ k <= m
    <2> HIDE DEF a
    <2>1. k \in 1..m /\ k \in 1..Len(a)
      BY <1>1 DEF Current
    <2>2. a[k] = q[k]
      BY <1>1, <2>1
    <2> QED BY <1>1, <2>1, <2>2 DEF Current
  <1>3. ASSUME NEW k \in Current(a, E)
        PROVE  k \in Current(q, E) \/ (k - m \in Current(o, E) /\ k > m /\ a[k] = o[k - m])
    <2> HIDE DEF a
    <2>1. k \in 1..Len(a) /\ a[k].type = "INPUT" /\ Of(a[k]) = E
      BY DEF Current
    <2>2. CASE k <= m
      <3>1. k \in 1..m
        BY <1>1, <2>1, <2>2
      <3>2. a[k] = q[k]
        BY <1>1, <3>1
      <3> QED BY <2>1, <3>1, <3>2 DEF Current
    <2>3. CASE ~(k <= m)
      <3> HIDE DEF m, n
      <3>1. k - m \in 1..n /\ m + (k - m) = k /\ k > m
        BY <1>1, <2>1, <2>3
      <3>2. a[k] = o[k - m]
        BY <1>1, <3>1
      <3>3. k - m \in Current(o, E)
        BY <2>1, <3>1, <3>2 DEF Current, n
      <3> QED BY <3>1, <3>2, <3>3
    <2> QED BY <2>2, <2>3
  <1> QED BY <1>2, <1>3

\* Frames that are no inputs are appended.
LEMMA FlowMore ==
  ASSUME NEW q \in Seq(Frames), NEW o \in Seq(Frames), NEW E, NEW own, NEW w, NEW last, NEW whole,
         Flow(q, E, own, w, last, whole), \A i \in 1..Len(o) : o[i].type # "INPUT" \/ Of(o[i]) # E
  PROVE  Flow(q \o o, E, own, w, last, whole)
  <1> DEFINE a == q \o o
             S == Current(q, E)
             T == Current(a, E)
  <1>1. Current(o, E) = {}
    BY DEF Current
  <1>a. \A k \in S : k \in T /\ a[k] = q[k]
    BY CurrentConcat, ZenonT(40)
  <1>b. \A k \in T : k \in S \/ k - Len(q) \in Current(o, E)
    BY CurrentConcat
  <1>2. S = T /\ \A k \in S : a[k] = q[k]
    <2> HIDE DEF S, T, a
    <2> QED BY <1>1, <1>a, <1>b
  <1>3. /\ \A k \in S : /\ q[k].tick \in Cells /\ q[k].tick > w /\ q[k].tick <= last
                        /\ q[k].val = own[q[k].tick]
        /\ \A i, k \in S : i < k => q[i].tick < q[k].tick
        /\ \A k \in S, n \in Cells :
             n > w /\ n < q[k].tick /\ own[n] # Idle => \E i \in S : q[i].tick = n
        /\ whole => \A n \in Cells : n > w /\ own[n] # Idle => \E i \in S : q[i].tick = n
    BY DEF Flow
  <1> HIDE DEF S, T, a
  <1>4. /\ \A k \in T : /\ a[k].tick \in Cells /\ a[k].tick > w /\ a[k].tick <= last
                        /\ a[k].val = own[a[k].tick]
        /\ \A i, k \in T : i < k => a[i].tick < a[k].tick
    BY <1>2, <1>3
  <1>5. \A n : (\E i \in S : q[i].tick = n) => \E i \in T : a[i].tick = n
    BY <1>2
  <1>6. /\ \A k \in T, n \in Cells :
             n > w /\ n < a[k].tick /\ own[n] # Idle => \E i \in T : a[i].tick = n
        /\ whole => \A n \in Cells : n > w /\ own[n] # Idle => \E i \in T : a[i].tick = n
    BY <1>2, <1>3, <1>5
  <1> QED BY <1>4, <1>6 DEF Flow, T, a

\* A capture for tick n is sent.
LEMMA FlowCapture ==
  ASSUME NEW q \in Seq(Frames), NEW f \in Frames, NEW E, NEW own \in [Cells -> Nat \X Nat],
         NEW w \in Int, NEW last \in Int, NEW n \in Cells,
         Flow(q, E, own, w, last, TRUE), f.type = "INPUT", Of(f) = E, f.tick = n, n > last, n > w
  PROVE  Flow(q \o <<f>>, E, [own EXCEPT ![n] = f.val], w, n, TRUE)
  <1> DEFINE o == <<f>>
             a == q \o o
             S == Current(q, E)
             T == Current(a, E)
             own2 == [own EXCEPT ![n] = f.val]
             z == Len(q) + 1
  <1>1. o \in Seq(Frames) /\ Len(o) = 1 /\ o[1] = f
    OBVIOUS
  <1> HIDE DEF o
  <1>2. /\ Len(q) \in Nat /\ Len(a) = Len(q) + Len(o) /\ \A i \in 1..Len(o) : a[Len(q) + i] = o[i]
    BY <1>1, QueueConcat
  <1>3. \A k \in S : k \in T /\ a[k] = q[k] /\ k \in Int /\ k <= Len(q)
    BY <1>1, CurrentConcat, ZenonT(40)
  <1>a. \A k \in T : k \in S \/ (k - Len(q) \in Current(o, E) /\ k > Len(q))
    BY <1>1, CurrentConcat
  <1>4. z \in T /\ a[z] = f
    <2>1. a[z] = f /\ z \in 1..Len(a)
      BY <1>1, <1>2
    <2> QED BY <2>1 DEF Current
  <1>5. \A k \in T : k \in Int /\ (k \in S \/ k = z)
    <2> SUFFICES ASSUME NEW k \in T PROVE k \in Int /\ (k \in S \/ k = z)
      OBVIOUS
    <2>1. k \in 1..Len(a)
      BY DEF Current
    <2>2. \A j \in Current(o, E) : j \in 1..1
      BY <1>1 DEF Current
    <2>3. k \in Int
      BY <1>1, <1>2, <2>1
    <2>4. k \in S \/ k - Len(q) \in 1..1
      BY <1>a, <2>2
    <2> QED BY <1>2, <2>3, <2>4
  <1>6. /\ \A k \in S : /\ q[k].tick \in Cells /\ q[k].tick > w /\ q[k].tick <= last
                        /\ q[k].val = own[q[k].tick]
        /\ \A i, k \in S : i < k => q[i].tick < q[k].tick
        /\ \A m \in Cells : m > w /\ own[m] # Idle => \E i \in S : q[i].tick = m
    BY DEF Flow
  <1> HIDE DEF S, T, a
  <1>7. own2[n] = f.val /\ \A m \in Cells : m # n => own2[m] = own[m]
    OBVIOUS
  <1>8. \A k \in S : q[k].tick \in Nat /\ q[k].tick < n
    BY <1>6, CellsNat
  <1> HIDE DEF own2
  <1>9. ASSUME NEW k \in T
        PROVE  a[k].tick \in Cells /\ a[k].tick > w /\ a[k].tick <= n /\ a[k].val = own2[a[k].tick]
    <2>1. CASE k = z
      BY <1>4, <1>7, <2>1, CellsNat
    <2>2. CASE k \in S
      <3> DEFINE x == q[k].tick
      <3>1. x \in Cells /\ x > w /\ x < n /\ x \in Nat /\ q[k].val = own[x] /\ a[k] = q[k]
        BY <1>3, <1>6, <1>8, <2>2
      <3> HIDE DEF x
      <3>2. x <= n /\ x # n
        BY <3>1, CellsNat
      <3>3. own2[x] = own[x]
        BY <1>7, <3>1, <3>2
      <3> QED BY <3>1, <3>2, <3>3 DEF x
    <2> QED BY <1>5, <2>1, <2>2
  <1>10. ASSUME NEW i \in T, NEW k \in T, i < k PROVE a[i].tick < a[k].tick
    <2>1. CASE k = z
      <3>1. i \in S
        BY <1>5, <1>10, <2>1
      <3> QED BY <1>3, <1>4, <1>8, <2>1, <3>1
    <2>2. CASE k \in S
      <3>1. i # z
        BY <1>2, <1>3, <1>10, <2>2
      <3>2. i \in S
        BY <1>5, <3>1
      <3> QED BY <1>3, <1>6, <1>10, <2>2, <3>2
    <2> QED BY <1>5, <2>1, <2>2
  <1>11. ASSUME NEW m \in Cells, m > w, own2[m] # Idle PROVE \E i \in T : a[i].tick = m
    <2>1. CASE m = n
      BY <1>4, <2>1
    <2>2. CASE m # n
      <3>1. \E i \in S : q[i].tick = m
        BY <1>6, <1>7, <1>11, <2>2
      <3> QED BY <1>3, <3>1
    <2> QED BY <2>1, <2>2
  <1>12. Flow(a, E, own2, w, n, TRUE)
    BY <1>9, <1>10, <1>11 DEF Flow, T
  <1> QED BY <1>12 DEF a, o, own2

LEMMA FlowCut ==
  ASSUME NEW q \in Seq(Frames), NEW m \in 0..Len(q), NEW o \in Seq(Frames), NEW E, NEW own, NEW w, NEW last,
         NEW whole, Flow(q, E, own, w, last, whole), \A i \in 1..Len(o) : o[i].type # "INPUT"
  PROVE  Flow(SubSeq(q, 1, m) \o o, E, own, w, last, FALSE)
  <1> DEFINE p == SubSeq(q, 1, m)
             S == Current(q, E)
             T == Current(p, E)
  <1>1. p \in Seq(Frames) /\ Len(p) = m /\ Len(q) \in Nat /\ m \in Nat /\ m <= Len(q) /\ \A i \in 1..m : p[i] = q[i]
    BY QueuePrefix, LenProperties
  <1> HIDE DEF p
  <1>2. \A k \in T : k \in S /\ p[k] = q[k] /\ k \in Int /\ k <= m
    <2> SUFFICES ASSUME NEW k \in T PROVE k \in S /\ p[k] = q[k] /\ k \in Int /\ k <= m
      OBVIOUS
    <2>1. k \in 1..m /\ k \in 1..Len(q) /\ p[k] = q[k]
      BY <1>1 DEF Current
    <2> QED BY <1>1, <2>1 DEF Current
  <1>3. \A k \in S : k \in Int /\ (k <= m => k \in T)
    <2> SUFFICES ASSUME NEW k \in S PROVE k \in Int /\ (k <= m => k \in T)
      OBVIOUS
    <2>1. k \in 1..Len(q) /\ (k <= m => k \in 1..m)
      BY <1>1 DEF Current
    <2> QED BY <1>1, <2>1 DEF Current
  <1>4. /\ \A k \in S : /\ q[k].tick \in Cells /\ q[k].tick > w /\ q[k].tick <= last
                        /\ q[k].val = own[q[k].tick]
        /\ \A i, k \in S : i < k => q[i].tick < q[k].tick
        /\ \A k \in S, n \in Cells :
             n > w /\ n < q[k].tick /\ own[n] # Idle => \E i \in S : q[i].tick = n
    BY DEF Flow
  <1> HIDE DEF S, T
  <1>5. /\ \A k \in T : /\ p[k].tick \in Cells /\ p[k].tick > w /\ p[k].tick <= last
                        /\ p[k].val = own[p[k].tick]
        /\ \A i, k \in T : i < k => p[i].tick < p[k].tick
    BY <1>2, <1>4
  <1>6. ASSUME NEW k \in T, NEW n \in Cells, n > w, n < p[k].tick, own[n] # Idle
        PROVE  \E i \in T : p[i].tick = n
    <2>1. k \in S /\ p[k] = q[k] /\ k \in Int /\ k <= m
      BY <1>2
    <2>2. PICK i \in S : q[i].tick = n
      BY <1>4, <1>6, <2>1
    <2>3. i \in Int /\ q[k].tick \in Nat /\ n \in Nat /\ n < q[k].tick
      BY <1>3, <1>4, <1>6, <2>1, CellsNat
    <2>4. ~(k < i) /\ i # k
      <3>1. k < i => q[k].tick < q[i].tick
        BY <1>4, <2>1
      <3> QED BY <2>2, <2>3, <3>1
    <2>5. i <= m
      BY <1>1, <2>1, <2>3, <2>4
    <2> QED BY <1>2, <1>3, <2>2, <2>5
  <1>7. Flow(p, E, own, w, last, FALSE)
    BY <1>5, <1>6 DEF Flow, T
  <1>8. Flow(p \o o, E, own, w, last, FALSE)
    BY <1>1, <1>7, FlowMore
  <1> QED BY <1>8 DEF p

\* The inputs under way to the host, p: of no timeline the guest, in e, has yet
\* to reach, and at or below the watermark w unless they are of the host's, E.
Rising(p, e, E, w) ==
  \A k \in 1..Len(p) : p[k].type = "INPUT" => Of(p[k]) <= e /\ (Of(p[k]) < E => p[k].tick <= w)

LEMMA RisingTake ==
  ASSUME NEW p \in Seq(Frames), p # <<>>, NEW e, NEW E, NEW w, Rising(p, e, E, w)
  PROVE  /\ p[1].type = "INPUT" => Of(p[1]) <= e /\ (Of(p[1]) < E => p[1].tick <= w)
         /\ Rising(Tail(p), e, E, w)
  <1> DEFINE t == Tail(p)
  <1>1. /\ Len(p) \in Nat /\ Len(p) >= 1 /\ Len(t) = Len(p) - 1 /\ \A i \in 1..Len(t) : t[i] = p[i + 1]
    BY QueueTail
  <1> HIDE DEF t
  <1>2. 1 \in 1..Len(p) /\ \A i \in 1..Len(t) : i + 1 \in 1..Len(p)
    BY <1>1
  <1>3. Rising(t, e, E, w)
    BY <1>1, <1>2 DEF Rising
  <1> QED BY <1>2, <1>3 DEF Rising, t

LEMMA RisingMore ==
  ASSUME NEW p \in Seq(Frames), NEW o \in Seq(Frames), NEW e, NEW E, NEW w, Rising(p, e, E, w), Rising(o, e, E, w)
  PROVE  Rising(p \o o, e, E, w)
  <1> DEFINE a == p \o o
             m == Len(p)
             n == Len(o)
  <1>1. /\ m \in Nat /\ n \in Nat /\ Len(a) = m + n
        /\ \A i \in 1..m : a[i] = p[i]
        /\ \A i \in 1..n : a[m + i] = o[i]
    BY QueueConcat
  <1> HIDE DEF a, m, n
  <1>2. ASSUME NEW k \in 1..Len(a), a[k].type = "INPUT"
        PROVE  Of(a[k]) <= e /\ (Of(a[k]) < E => a[k].tick <= w)
    <2>1. CASE k <= m
      <3>1. k \in 1..m
        BY <1>1, <2>1
      <3> QED BY <1>1, <1>2, <3>1 DEF Rising, m
    <2>2. CASE ~(k <= m)
      <3>1. k - m \in 1..n /\ m + (k - m) = k
        BY <1>1, <2>2
      <3>2. a[k] = o[k - m]
        BY <1>1, <3>1
      <3> QED BY <1>2, <3>1, <3>2 DEF Rising, n
    <2> QED BY <2>1, <2>2
  <1> QED BY <1>2 DEF Rising, a

-----------------------------------------------------------------------------
(***************************************************************************)
(* The invariant.  A console's cells, watermark and log belong to one      *)
(* timeline, and so does every input under way; the two consoles are in    *)
(* the same timeline or the guest has a push to come.                      *)
(***************************************************************************)

\* The last tick console c has captured its input for.
Last(c) == IF pc[c] \in {"gate", "stall", "off"} THEN tick[c] + Delay ELSE tick[c] + (Delay - 1)

\* The tick at which c's log begins.
Start(c) == tick[c] - Len(log[c])

\* The watermark of the guest once it is in the host's timeline.
Reach == IF line[Guest] = line[Host] THEN wm[Guest] ELSE resume[Host] + (Delay - 1)

\* The ticks stay within the cells: those of the model's bound and a lead.
Room ==
  /\ pc[Host] \in {"pump", "gate", "stall"} => tick[Host] < MaxTick
  /\ pc[Host] = "after" => tick[Host] <= MaxTick
  /\ pc[Guest] \in {"pump", "gate", "stall"} => tick[Guest] <= Top
  /\ hold[Guest] => resume[Guest] <= Top
\* A guest that has a push to come is behind: its watermark, and the tick it will
\* resume at if that is not yet the last push, are a delay or more below the
\* watermark the host has set.  Nobody runs past the watermark.
Pace ==
  /\ line[Guest] <= line[Host]
  /\ line[Guest] < line[Host] => /\ wm[Guest] + (1 + Delay) <= wm[Host]
                                 /\ wm[Host] = resume[Host] + (Delay - 1)
  /\ hold[Guest] => /\ line[Guest] < line[Host]
                    /\ IF line[Guest] + 1 < line[Host] THEN resume[Guest] + 2 * Delay <= wm[Host]
                                                       ELSE resume[Guest] = resume[Host]
  /\ tick[Host] >= resume[Host] /\ wm[Host] >= resume[Host] + (Delay - 1)
  /\ \A c \in Seats : tick[c] <= wm[c] + 1
\* Cells are filled from below: the own ones up to the last capture, the peer's up
\* to the watermark, and nothing before the first capture of the timeline.
Captures ==
  /\ \A c \in Seats, n \in Cells : cells[c][c][n] # Idle => n <= Last(c)
  /\ \A c \in Seats, n \in Cells : n > wm[c] => cells[c][Peer(c)][n] = Idle
  /\ \A n \in Cells : n < resume[Host] + Delay => cells[Host][Host][n] = Idle
  /\ line[Guest] = line[Host] => wm[Host] <= Last(Guest) /\ wm[Guest] <= Last(Host)
  /\ line[Guest] < line[Host] => \A n \in Cells : cells[Host][Guest][n] = Idle
\* In the same timeline, either console's copy of the other's inputs is true up
\* to its watermark.
Copies ==
  line[Guest] = line[Host] =>
    \A n \in Cells : /\ n <= wm[Host] => cells[Host][Guest][n] = cells[Guest][Guest][n]
                     /\ n <= wm[Guest] => cells[Guest][Host][n] = cells[Host][Host][n]
\* The log is what the cells say, tick by tick.
LoggedAt(c) ==
  /\ Start(c) >= 0
  /\ \A i \in 1..Len(log[c]) : /\ Start(c) + (i - 1) \in Cells
                               /\ log[c][i] = [s \in Seats |-> cells[c][s][Start(c) + (i - 1)]]
Logged == LoggedAt(Host) /\ LoggedAt(Guest)
\* Consoles that started from the same state did so at the same tick of the same
\* timeline.
Names == base[Guest] = base[Host] => line[Guest] = line[Host] /\ Start(Guest) = Start(Host)
\* The two queues.
Going == Down(chan[Guest], line[Guest], line[Host], wm[Host], resume[Host], Fresh, base[Host],
              Start(Host), pc[Host] # "off")
Coming == Rising(chan[Host], line[Guest], line[Host], wm[Host])
Flowing ==
  /\ Flow(chan[Guest], line[Host], cells[Host][Host], Reach, Last(Host), pc[Host] # "off")
  /\ Flow(chan[Host], line[Host], cells[Guest][Guest], wm[Host], Last(Guest), line[Guest] = line[Host])
Wires == Going /\ Coming /\ Flowing

Playing == Room /\ Pace /\ Captures /\ Wires /\ Copies /\ Logged /\ Names

\* A name that is given is in use.
Known == \A c \in Seats : base[c] < Fresh
Logs == log \in [Seats -> Seq([Seats -> Nat \X Nat])]
\* A guest that has given up runs no more, and a host it has lost is off: what
\* they have run stays what it was.
StoryInv ==
  /\ Logs
  /\ Known
  /\ IF dropped[Guest] THEN SameStory ELSE Playing

-----------------------------------------------------------------------------
(* What the steps do to it.                                                *)

LEMMA Scalars ==
  ASSUME ImageInv, Logs
  PROVE  /\ tick[Host] \in Nat /\ tick[Guest] \in Nat /\ wm[Host] \in Nat /\ wm[Guest] \in Nat
         /\ line[Host] \in Nat /\ line[Guest] \in Nat /\ resume[Host] \in Nat /\ resume[Guest] \in Nat
         /\ base[Host] \in Nat /\ base[Guest] \in Nat /\ Fresh \in Nat
         /\ Len(log[Host]) \in Nat /\ Len(log[Guest]) \in Nat
         /\ Start(Host) \in Int /\ Start(Guest) \in Int
         /\ Last(Host) \in Int /\ Last(Guest) \in Int /\ Reach \in Int
         /\ chan[Host] \in Seq(Frames) /\ chan[Guest] \in Seq(Frames)
  <1>1. /\ tick[Host] \in Nat /\ tick[Guest] \in Nat /\ wm[Host] \in Nat /\ wm[Guest] \in Nat
        /\ line[Host] \in Nat /\ line[Guest] \in Nat /\ resume[Host] \in Nat /\ resume[Guest] \in Nat
        /\ base[Host] \in Nat /\ base[Guest] \in Nat /\ glitches \in Nat /\ pushes \in Nat
        /\ chan[Host] \in Seq(Frames) /\ chan[Guest] \in Seq(Frames)
    BY SeatFacts DEF ImageInv, Basics
  <1>2. Len(log[Host]) \in Nat /\ Len(log[Guest]) \in Nat
    BY SeatFacts, LenProperties DEF Logs
  <1>3. Fresh \in Nat
    BY <1>1 DEF Fresh
  <1>4. Start(Host) \in Int /\ Start(Guest) \in Int
    BY <1>1, <1>2, SMTT(30) DEF Start
  <1>5. Last(Host) \in Int /\ Last(Guest) \in Int
    <2>1. \A c \in Seats : tick[c] + Delay \in Int /\ tick[c] + (Delay - 1) \in Int
      BY <1>1, Constants, SeatFacts, SMTT(30)
    <2> QED BY <2>1, SeatFacts DEF Last
  <1>6. Reach \in Int
    BY <1>1, Constants, SMTT(30) DEF Reach
  <1> QED BY <1>1, <1>2, <1>3, <1>4, <1>5, <1>6

LEMMA ScalarsNext ==
  ASSUME ImageInv', Logs'
  PROVE  /\ tick'[Host] \in Nat /\ tick'[Guest] \in Nat /\ wm'[Host] \in Nat /\ wm'[Guest] \in Nat
         /\ line'[Host] \in Nat /\ line'[Guest] \in Nat /\ resume'[Host] \in Nat /\ resume'[Guest] \in Nat
         /\ base'[Host] \in Nat /\ base'[Guest] \in Nat /\ Fresh' \in Nat
         /\ Len(log'[Host]) \in Nat /\ Len(log'[Guest]) \in Nat
         /\ Start(Host)' \in Int /\ Start(Guest)' \in Int
         /\ Last(Host)' \in Int /\ Last(Guest)' \in Int /\ Reach' \in Int
         /\ chan'[Host] \in Seq(Frames) /\ chan'[Guest] \in Seq(Frames)
  <1>1. /\ tick'[Host] \in Nat /\ tick'[Guest] \in Nat /\ wm'[Host] \in Nat /\ wm'[Guest] \in Nat
        /\ line'[Host] \in Nat /\ line'[Guest] \in Nat /\ resume'[Host] \in Nat /\ resume'[Guest] \in Nat
        /\ base'[Host] \in Nat /\ base'[Guest] \in Nat /\ glitches' \in Nat /\ pushes' \in Nat
        /\ chan'[Host] \in Seq(Frames) /\ chan'[Guest] \in Seq(Frames)
    BY SeatFacts DEF ImageInv, Basics
  <1>2. Len(log'[Host]) \in Nat /\ Len(log'[Guest]) \in Nat
    BY SeatFacts, LenProperties DEF Logs
  <1>3. Fresh' \in Nat
    <2>1. glitches' \in Nat /\ pushes' \in Nat
      BY DEF ImageInv, Basics
    <2>2. Fresh' = glitches' + pushes' + 1
      BY DEF Fresh
    <2> DEFINE x == glitches'
               y == pushes'
    <2>3. x \in Nat /\ y \in Nat
      BY <2>1
    <2> HIDE DEF x, y
    <2>4. x + y + 1 \in Nat
      BY <2>3
    <2> QED BY <2>2, <2>4 DEF x, y
  <1>4. Start(Host)' \in Int /\ Start(Guest)' \in Int
    <2>1. Start(Host)' = tick'[Host] - Len(log'[Host]) /\ Start(Guest)' = tick'[Guest] - Len(log'[Guest])
      BY DEF Start
    <2> DEFINE a == tick'[Host]
               b == tick'[Guest]
               x == Len(log'[Host])
               y == Len(log'[Guest])
    <2>2. a \in Nat /\ b \in Nat /\ x \in Nat /\ y \in Nat
      BY <1>1, <1>2
    <2> HIDE DEF a, b, x, y
    <2>3. a - x \in Int /\ b - y \in Int
      BY <2>2
    <2> QED BY <2>1, <2>3 DEF a, b, x, y
  <1>5. Last(Host)' \in Int /\ Last(Guest)' \in Int
    <2>0. \A c \in Seats : tick'[c] \in Nat
      BY <1>1, SeatFacts
    <2>1. \A c \in Seats : tick'[c] + Delay \in Int /\ tick'[c] + (Delay - 1) \in Int
      BY <2>0, Constants
    <2> QED BY <2>1, SeatFacts DEF Last
  <1>6. Reach' \in Int
    BY <1>1, Constants, SMTT(30) DEF Reach
  <1> QED BY <1>1, <1>2, <1>3, <1>4, <1>5, <1>6

\* Consoles of the same name are in the same timeline, and their cells agree
\* up to both watermarks: so do their logs.
LEMMA PlayingSame ==
  ASSUME ImageInv, Logs, Playing
  PROVE  SameStory
  <1> SUFFICES ASSUME base[Host] = base[Guest], NEW i \in 1..Len(log[Host]), i <= Len(log[Guest])
               PROVE  log[Host][i] = log[Guest][i]
    BY DEF SameStory
  <1>1. line[Guest] = line[Host] /\ Start(Guest) = Start(Host)
    BY DEF Playing, Names
  <1> DEFINE a == Start(Host)
             n == a + (i - 1)
             x == Len(log[Host])
             y == Len(log[Guest])
             h == tick[Host]
             g == tick[Guest]
             u == wm[Host]
             v == wm[Guest]
  <1>2. h \in Nat /\ g \in Nat /\ u \in Nat /\ v \in Nat /\ x \in Nat /\ y \in Nat /\ a \in Int
    BY Scalars
  <1>3. a = h - x /\ a = g - y
    BY <1>1 DEF Start
  <1>4. h <= u + 1 /\ g <= v + 1
    BY SeatFacts DEF Playing, Pace
  <1>5. i \in 1..x /\ i <= y
    OBVIOUS
  <1> HIDE DEF a, x, y, h, g, u, v
  <1>6. i \in 1..y /\ n <= u /\ n <= v
    BY <1>2, <1>3, <1>4, <1>5
  <1>7. /\ n \in Cells
        /\ log[Host][i] = [s \in Seats |-> cells[Host][s][n]]
        /\ log[Guest][i] = [s \in Seats |-> cells[Guest][s][n]]
    <2>1. LoggedAt(Host) /\ LoggedAt(Guest)
      BY DEF Playing, Logged
    <2>2. n \in Cells /\ log[Host][i] = [s \in Seats |-> cells[Host][s][n]]
      BY <2>1, <1>5 DEF LoggedAt, a, x
    <2>3. log[Guest][i] = [s \in Seats |-> cells[Guest][s][n]]
      BY <1>1, <1>6, <2>1 DEF LoggedAt, a, y
    <2> QED BY <2>2, <2>3
  <1> HIDE DEF n
  <1>8. cells[Host][Guest][n] = cells[Guest][Guest][n] /\ cells[Guest][Host][n] = cells[Host][Host][n]
    BY <1>1, <1>6, <1>7 DEF Playing, Copies, u, v
  <1>9. \A s \in Seats : cells[Host][s][n] = cells[Guest][s][n]
    BY <1>8, SeatFacts
  <1> QED BY <1>7, <1>9

LEMMA LastKept ==
  ASSUME ImageInv, ImageInv', NEW c \in Seats, tick'[c] = tick[c],
         pc[c] \in {"gate", "stall", "off"} => pc'[c] \in {"gate", "stall", "off"}
  PROVE  Last(c) <= Last(c)'
  <1> DEFINE a == tick[c] + Delay
             b == tick[c] + (Delay - 1)
  <1>1. a \in Int /\ b \in Int /\ a <= a /\ b <= b /\ b <= a
    <2>1. tick[c] \in Nat
      BY DEF ImageInv, Basics
    <2> QED BY <2>1, Constants
  <1>2. /\ Last(c) = IF pc[c] \in {"gate", "stall", "off"} THEN a ELSE b
        /\ Last(c)' = IF pc'[c] \in {"gate", "stall", "off"} THEN a ELSE b
    BY DEF Last
  <1> HIDE DEF a, b
  <1>3. CASE pc[c] \in {"gate", "stall", "off"}
    BY <1>1, <1>2, <1>3
  <1>4. CASE pc[c] \notin {"gate", "stall", "off"}
    BY <1>1, <1>2, <1>4
  <1> QED BY <1>3, <1>4

\* Nothing of the match moves but names and logs.
LEMMA QuietAnyKeeps ==
  ASSUME ImageInv, ImageInv', StoryInv, ~dropped[Guest],
         UNCHANGED <<tick, wm, cells, line, dropped>>,
         resume'[Host] = resume[Host], Last(Host) <= Last(Host)', Last(Guest) <= Last(Guest)',
         Room', Pace', Wires', Logs', Known', Logged', Names'
  PROVE  StoryInv'
  <1>1. Logs /\ Known /\ Captures /\ Copies /\ Logged /\ Names
    BY DEF StoryInv, Playing
  <1>2. /\ tick' = tick /\ wm' = wm /\ cells' = cells /\ line' = line
        /\ dropped' = dropped
    OBVIOUS
  <1>3. Logs' /\ Known' /\ Copies' /\ Logged' /\ Names'
    BY <1>1, <1>2 DEF Copies
  <1>4. Captures'
    <2> DEFINE lh == Last(Host)
               lg == Last(Guest)
    <2>1. lh \in Int /\ lg \in Int /\ lh' \in Int /\ lg' \in Int /\ lh <= lh' /\ lg <= lg'
      BY <1>1, <1>3, Scalars, ScalarsNext
    <2>2. wm[Host] \in Nat /\ wm[Guest] \in Nat /\ \A n \in Cells : n \in Nat
      BY <1>1, Scalars, CellsNat
    <2>3. ASSUME NEW c \in Seats, NEW n \in Cells, cells'[c][c][n] # Idle PROVE n <= Last(c)'
      <3>1. n <= Last(c)
        BY <1>1, <1>2, <2>3 DEF Captures
      <3>2. CASE c = Host
        <4>1. n <= lh
          BY <3>1, <3>2
        <4> HIDE DEF lh
        <4>2. n <= lh'
          BY <2>1, <2>2, <4>1
        <4> QED BY <3>2, <4>2 DEF lh
      <3>3. CASE c = Guest
        <4>1. n <= lg
          BY <3>1, <3>3
        <4> HIDE DEF lg
        <4>2. n <= lg'
          BY <2>1, <2>2, <4>1
        <4> QED BY <3>3, <4>2 DEF lg
      <3> QED BY <3>2, <3>3, SeatFacts
    <2>4. line'[Guest] = line'[Host] => wm'[Host] <= lg' /\ wm'[Guest] <= lh'
      <3>1. line[Guest] = line[Host] => wm[Host] <= lg /\ wm[Guest] <= lh
        BY <1>1 DEF Captures
      <3> HIDE DEF lh, lg
      <3>2. wm[Host] <= lg => wm[Host] <= lg'
        BY <2>1, <2>2
      <3>3. wm[Guest] <= lh => wm[Guest] <= lh'
        BY <2>1, <2>2
      <3> QED BY <1>2, <3>1, <3>2, <3>3
    <2>5. /\ \A c \in Seats, n \in Cells : n > wm'[c] => cells'[c][Peer(c)][n] = Idle
          /\ \A n \in Cells : n < resume'[Host] + Delay => cells'[Host][Host][n] = Idle
          /\ line'[Guest] < line'[Host] => \A n \in Cells : cells'[Host][Guest][n] = Idle
      BY <1>1, <1>2 DEF Captures
    <2> QED BY <2>3, <2>4, <2>5 DEF Captures
  <1>5. Playing'
    BY <1>3, <1>4 DEF Playing
  <1> QED BY <1>2, <1>3, <1>5 DEF StoryInv

\* Nothing of the match moves.
LEMMA QuietKeeps ==
  ASSUME ImageInv, ImageInv', StoryInv, ~dropped[Guest],
         UNCHANGED <<tick, wm, cells, line, log, base, dropped, glitches, pushes>>,
         resume'[Host] = resume[Host], Last(Host) <= Last(Host)', Last(Guest) <= Last(Guest)',
         Room', Pace', Wires'
  PROVE  StoryInv'
  <1>1. Logs /\ Known /\ Logged /\ Names
    BY DEF StoryInv, Playing
  <1>2. /\ tick' = tick /\ wm' = wm /\ cells' = cells /\ line' = line /\ log' = log /\ base' = base
        /\ dropped' = dropped /\ glitches' = glitches /\ pushes' = pushes
    OBVIOUS
  <1>3. Logs' /\ Known' /\ Names'
    BY <1>1, <1>2 DEF Logs, Known, Fresh, Names, Start
  <1>4. Logged'
    BY <1>1, <1>2 DEF Logged, LoggedAt, Start
  <1> QED BY <1>2, <1>3, <1>4, QuietAnyKeeps

\* A move of one console in its pass; names and logs may change.
LEMMA WalkAnyKeeps ==
  ASSUME ImageInv, ImageInv', StoryInv, ~dropped[Guest],
         UNCHANGED <<tick, wm, cells, line, dropped, resume, hold, chan>>,
         Logs', Known', Logged', Names', Going',
         \A c \in Seats : /\ pc[c] \in {"gate", "stall", "off"} => pc'[c] \in {"gate", "stall", "off"}
                          /\ pc'[c] \in {"pump", "gate", "stall"} =>
                               pc[c] \in {"pump", "gate", "stall"} \/ tick[c] < MaxTick
                          /\ pc'[c] = "after" => pc[c] = "after",
         pc'[Host] = "off" <=> pc[Host] = "off"
  PROVE  StoryInv'
  <1>1. Logs /\ Room /\ Pace /\ Wires
    BY DEF StoryInv, Playing
  <1>2. /\ tick' = tick /\ wm' = wm /\ cells' = cells /\ line' = line
        /\ dropped' = dropped /\ resume' = resume
        /\ hold' = hold /\ chan' = chan
    OBVIOUS
  <1>3. Last(Host) <= Last(Host)' /\ Last(Guest) <= Last(Guest)'
    BY <1>2, LastKept, SeatFacts
  <1>4. Room'
    <2>1. tick[Guest] < MaxTick => tick[Guest] <= Top
      BY <1>1, Scalars, Constants DEF Top
    <2>2. Host \in Seats /\ Guest \in Seats
      BY SeatFacts
    <2> QED BY <1>1, <1>2, <2>1, <2>2 DEF Room
  <1>5. Pace'
    BY <1>1, <1>2 DEF Pace
  <1>6. Logs'
    OBVIOUS
  <1>7. Wires'
    <2>1. Last(Host) \in Int /\ Last(Host)' \in Int /\ Last(Guest) \in Int /\ Last(Guest)' \in Int
      BY <1>1, <1>6, Scalars, ScalarsNext
    <2>2. Reach' = Reach
      BY <1>2 DEF Reach
    <2>3. (pc'[Host] # "off") = (pc[Host] # "off")
      OBVIOUS
    <2>4. Going' /\ Coming'
      BY <1>1, <1>2 DEF Wires, Coming
    <2>5. Flow(chan[Guest], line[Host], cells[Host][Host], Reach, Last(Host)', pc[Host] # "off")
      BY <1>1, <1>3, <2>1, FlowWide DEF Wires, Flowing
    <2>6. Flow(chan[Host], line[Host], cells[Guest][Guest], wm[Host], Last(Guest)', line[Guest] = line[Host])
      BY <1>1, <1>3, <2>1, FlowWide DEF Wires, Flowing
    <2>7. Flowing'
      BY <1>2, <2>2, <2>3, <2>5, <2>6 DEF Flowing
    <2> QED BY <2>4, <2>7 DEF Wires
  <1> QED BY <1>2, <1>3, <1>4, <1>5, <1>7, QuietAnyKeeps

\* Names and logs are as they were.
LEMMA WalkKeeps ==
  ASSUME ImageInv, ImageInv', StoryInv, ~dropped[Guest],
         UNCHANGED <<tick, wm, cells, line, log, base, dropped, glitches, pushes, resume, hold, chan>>,
         \A c \in Seats : /\ pc[c] \in {"gate", "stall", "off"} => pc'[c] \in {"gate", "stall", "off"}
                          /\ pc'[c] \in {"pump", "gate", "stall"} =>
                               pc[c] \in {"pump", "gate", "stall"} \/ tick[c] < MaxTick
                          /\ pc'[c] = "after" => pc[c] = "after",
         pc'[Host] = "off" <=> pc[Host] = "off"
  PROVE  StoryInv'
  <1>1. Logs /\ Known /\ Logged /\ Names /\ Going
    BY DEF StoryInv, Playing, Wires
  <1>2. /\ tick' = tick /\ wm' = wm /\ cells' = cells /\ line' = line /\ log' = log /\ base' = base
        /\ dropped' = dropped /\ glitches' = glitches /\ pushes' = pushes /\ resume' = resume
        /\ hold' = hold /\ chan' = chan
    OBVIOUS
  <1>3. Logs' /\ Known' /\ Names' /\ Logged'
    <2>1. Logs' /\ Known' /\ Names'
      BY <1>1, <1>2 DEF Logs, Known, Fresh, Names, Start
    <2>2. Logged'
      BY <1>1, <1>2 DEF Logged, LoggedAt, Start
    <2> QED BY <2>1, <2>2
  <1>4. Going'
    <2>1. Start(Host)' = Start(Host) /\ Fresh' = Fresh
      BY <1>2 DEF Start, Fresh
    <2>2. (pc'[Host] # "off") = (pc[Host] # "off")
      OBVIOUS
    <2> QED BY <1>1, <1>2, <2>1, <2>2 DEF Going
  <1> QED BY <1>2, <1>3, <1>4, WalkAnyKeeps

LEMMA WalkStep ==
  ASSUME ImageInv, ImageInv', StoryInv, ~dropped[Guest], NEW c \in Seats, NEW next \in Places,
         pc[c] # "off", pc' = [pc EXCEPT ![c] = next],
         UNCHANGED <<tick, wm, cells, line, log, base, dropped, glitches, pushes, resume, hold, chan>>,
         pc[c] \in {"gate", "stall"} => next \in {"gate", "stall"},
         next \in {"pump", "gate", "stall"} => pc[c] \in {"pump", "gate", "stall"} \/ tick[c] < MaxTick,
         next # "after"
  PROVE  StoryInv'
  <1>1. pc'[c] = next /\ pc'[Peer(c)] = pc[Peer(c)] /\ next # "off"
    BY MoveStep DEF Places
  <1>2. \A d \in Seats : d = c \/ d = Peer(c)
    BY SeatFacts
  <1>3. \A d \in Seats :
          /\ pc[d] \in {"gate", "stall", "off"} => pc'[d] \in {"gate", "stall", "off"}
          /\ pc'[d] \in {"pump", "gate", "stall"} =>
               pc[d] \in {"pump", "gate", "stall"} \/ tick[d] < MaxTick
          /\ pc'[d] = "after" => pc[d] = "after"
    BY <1>1, <1>2
  <1>4. pc'[Host] = "off" <=> pc[Host] = "off"
    BY <1>1, <1>2, SeatFacts
  <1> QED BY <1>3, <1>4, WalkKeeps

LEMMA ReadStory ==
  ASSUME ImageInv, ImageInv', StoryInv, ~dropped[Guest], NEW c \in Seats, Read(c)
  PROVE  StoryInv'
  <1>1. /\ UNCHANGED <<tick, wm, cells, line, log, base, dropped, glitches, pushes, resume, hold, chan>>
        /\ pc' = pc
    BY DEF Read, engine, recovery, image
  <1>2. \A d \in Seats :
          /\ pc[d] \in {"gate", "stall", "off"} => pc'[d] \in {"gate", "stall", "off"}
          /\ pc'[d] \in {"pump", "gate", "stall"} =>
               pc[d] \in {"pump", "gate", "stall"} \/ tick[d] < MaxTick
          /\ pc'[d] = "after" => pc[d] = "after"
    BY <1>1
  <1> QED BY <1>1, <1>2, WalkKeeps

LEMMA EnterPassStory ==
  ASSUME ImageInv, ImageInv', StoryInv, ~dropped[Guest], NEW c \in Seats, EnterPass(c)
  PROVE  StoryInv'
  <1>1. /\ UNCHANGED <<tick, wm, cells, line, log, base, dropped, glitches, pushes, resume, hold, chan>>
        /\ pc[c] = "pass"
    BY DEF EnterPass, engine, recovery, wire, image
  <1>2. PICK next \in {"park", "hold", "pump"} :
          pc' = [pc EXCEPT ![c] = next] /\ (next = "pump" => tick[c] < MaxTick)
    BY DEF EnterPass
  <1>3. next \in Places /\ next # "after" /\ next \notin {"gate", "stall"}
    BY DEF Places
  <1> QED BY <1>1, <1>2, <1>3, WalkStep

LEMMA StallStory ==
  ASSUME ImageInv, ImageInv', StoryInv, ~dropped[Guest], NEW c \in Seats, Stall(c)
  PROVE  StoryInv'
  <1> DEFINE next == "stall"
  <1>1. /\ UNCHANGED <<tick, wm, cells, line, log, base, dropped, glitches, pushes, resume, hold, chan>>
        /\ pc[c] = "gate" /\ pc' = [pc EXCEPT ![c] = next]
    BY DEF Stall, engine, recovery, wire, image
  <1>2. next \in Places /\ next # "after" /\ next \in {"gate", "stall"}
    BY DEF Places
  <1> HIDE DEF next
  <1> QED BY <1>1, <1>2, WalkStep

LEMMA RoundStory ==
  ASSUME ImageInv, ImageInv', StoryInv, ~dropped[Guest], NEW c \in Seats, Round(c)
  PROVE  StoryInv'
  <1> DEFINE next == "gate"
  <1>1. /\ UNCHANGED <<tick, wm, cells, line, log, base, dropped, glitches, pushes, resume, hold, chan>>
        /\ pc[c] = "stall" /\ pc' = [pc EXCEPT ![c] = next]
    BY DEF Round, DonePumping, engine, recovery, image
  <1>2. next \in Places /\ next # "after" /\ next \in {"gate", "stall"}
    BY DEF Places
  <1> HIDE DEF next
  <1> QED BY <1>1, <1>2, WalkStep

\* The guest gives up: the story ends here.
LEMMA GiveUpStory ==
  ASSUME ImageInv, ImageInv', StoryInv, ~dropped[Guest], GiveUp(Guest),
         UNCHANGED <<base, log, glitches, pushes>>
  PROVE  StoryInv'
  <1>1. Logs /\ Known /\ SameStory
    BY PlayingSame DEF StoryInv
  <1>2. dropped'[Guest]
    BY SeatFacts DEF GiveUp, ImageInv, Basics
  <1>3. Logs' /\ Known' /\ SameStory'
    BY <1>1 DEF Logs, Known, Fresh, SameStory
  <1> QED BY <1>2, <1>3 DEF StoryInv

LEMMA LeavingStory ==
  ASSUME ImageInv, ImageInv', StoryInv, ~dropped[Guest], NEW c \in Seats,
         OnLeft(c) \/ HoldTimeout(c) \/ GateTimeout(c)
  PROVE  StoryInv'
  <1>1. GiveUp(c) /\ UNCHANGED <<base, log, glitches, pushes>>
    BY DEF OnLeft, HoldTimeout, GateTimeout, image
  <1>2. c = Guest
    <2> SUFFICES ASSUME c = Host PROVE FALSE
      BY SeatFacts
    <2>1. CASE OnLeft(c)
      <3>1. Take(Host, "LEFT", <<>>)
        BY <2>1 DEF OnLeft
      <3>2. "LEFT" \in Plain
        BY <3>1, HostTakes
      <3> QED BY <3>2 DEF Plain
    <2>2. CASE HoldTimeout(c) \/ GateTimeout(c)
      <3>1. pc[Guest] = "off"
        BY <2>2, SeatFacts DEF HoldTimeout, GateTimeout, Silent
      <3> QED BY <3>1 DEF ImageInv, Roles
    <2> QED BY <2>1, <2>2
  <1> QED BY <1>1, <1>2, GiveUpStory

\* A tick goes right or wrong.
LEMMA TickStep ==
  ASSUME NEW c \in Seats, RunTick(c)
  PROVE  /\ pc[c] = "gate" /\ (dropped[c] \/ wm[c] >= tick[c])
         /\ tick' = [tick EXCEPT ![c] = tick[c] + 1] /\ pc' = [pc EXCEPT ![c] = "after"]
         /\ wm' = wm /\ cells' = cells /\ line' = line /\ hold' = hold /\ resume' = resume
         /\ dropped' = dropped /\ pushes' = pushes
         /\ \/ chan' = chan
            \/ \E v : chan' = Send(c, <<Frame("CRC", tick[c], v)>>) /\ v \in {Fresh, base[c]}
         /\ \/ /\ base' = [base EXCEPT ![c] = base[c]] /\ glitches' = glitches
               /\ log' = IF dropped[c] THEN log
                         ELSE [log EXCEPT ![c] = Append(@, [s \in Seats |-> cells[c][s][tick[c]]])]
            \/ /\ base' = [base EXCEPT ![c] = Fresh] /\ glitches' = glitches + 1
               /\ log' = IF dropped[c] THEN log ELSE [log EXCEPT ![c] = <<>>]
  <1> DEFINE n == tick[c]
             x == [s \in Seats |-> cells[c][s][n]]
  <1>1. PICK glitch \in BOOLEAN :
          LET state == IF glitch THEN Fresh ELSE base[c]
              due == n % CrcEvery = 0 IN
          /\ glitches' = IF glitch THEN glitches + 1 ELSE glitches
          /\ base' = [base EXCEPT ![c] = state]
          /\ log' = CASE dropped[c] -> log
                      [] ~dropped[c] /\ glitch -> [log EXCEPT ![c] = <<>>]
                      [] OTHER -> [log EXCEPT ![c] = Append(@, x)]
          /\ chan' = IF due THEN Send(c, <<Frame("CRC", n, state)>>) ELSE chan
    BY DEF RunTick
  <1> DEFINE state == IF glitch THEN Fresh ELSE base[c]
             a == [log EXCEPT ![c] = <<>>]
             b == [log EXCEPT ![c] = Append(@, x)]
  <1>2. /\ glitches' = IF glitch THEN glitches + 1 ELSE glitches
        /\ base' = [base EXCEPT ![c] = state]
        /\ log' = CASE dropped[c] -> log [] ~dropped[c] /\ glitch -> a [] OTHER -> b
        /\ chan' = chan \/ chan' = Send(c, <<Frame("CRC", n, state)>>)
    BY <1>1
  <1>3. /\ pc[c] = "gate" /\ (dropped[c] \/ wm[c] >= tick[c])
        /\ tick' = [tick EXCEPT ![c] = tick[c] + 1] /\ pc' = [pc EXCEPT ![c] = "after"]
        /\ wm' = wm /\ cells' = cells /\ line' = line /\ hold' = hold /\ resume' = resume
        /\ dropped' = dropped /\ pushes' = pushes
    BY DEF RunTick
  <1> HIDE DEF a, b, x, n
  <1>4. chan' = chan \/ \E v : chan' = Send(c, <<Frame("CRC", n, v)>>) /\ v \in {Fresh, base[c]}
    BY <1>2
  <1>5. CASE ~glitch
    <2>1. glitches' = glitches /\ base' = [base EXCEPT ![c] = base[c]]
      BY <1>2, <1>5
    <2>2. log' = IF dropped[c] THEN log ELSE b
      BY <1>2, <1>5
    <2> QED BY <1>3, <1>4, <2>1, <2>2 DEF b, x, n
  <1>6. CASE glitch
    <2>1. glitches' = glitches + 1 /\ base' = [base EXCEPT ![c] = Fresh]
      BY <1>2, <1>6
    <2>2. log' = IF dropped[c] THEN log ELSE a
      BY <1>2, <1>6
    <2> QED BY <1>3, <1>4, <2>1, <2>2 DEF a, n
  <1> QED BY <1>5, <1>6

\* The native slots leave the guest a state of its own, with a new name.
LEMMA Renamed ==
  ASSUME ImageInv, Logs, Known, base' = [base EXCEPT ![Guest] = Fresh], log' = [log EXCEPT ![Guest] = <<>>],
         glitches' = glitches + 1, pushes' = pushes
  PROVE  /\ Logs' /\ Known' /\ base'[Guest] = Fresh /\ base'[Host] = base[Host]
         /\ base'[Host] # base'[Guest] /\ log'[Guest] = <<>> /\ log'[Host] = log[Host]
         /\ Fresh' \in Nat /\ Fresh <= Fresh'
  <1> DEFINE z == Fresh
             z2 == Fresh'
             S == Seq([Seats -> Nat \X Nat])
             l == <<>>
  <1>1. base'[Guest] = z /\ base'[Host] = base[Host]
    <2>1. base \in [Seats -> Nat]
      BY DEF ImageInv, Basics
    <2> HIDE DEF z
    <2> QED BY <2>1, SeatFacts DEF z
  <1>2. z2 = z + 1
    <2>1. glitches \in Nat /\ pushes \in Nat
      BY DEF ImageInv, Basics
    <2>2. Fresh' = glitches' + pushes' + 1 /\ Fresh = glitches + pushes + 1
      BY DEF Fresh
    <2> QED BY <2>1, <2>2
  <1>3. base[Host] < z /\ base[Host] \in Nat /\ z \in Nat
    BY Scalars, SeatFacts DEF Known
  <1>4. log \in [Seats -> S] /\ log' = [log EXCEPT ![Guest] = l] /\ l \in S
    BY DEF Logs
  <1> HIDE DEF z, z2, S, l
  <1>5. log'[Guest] = l /\ log'[Host] = log[Host] /\ log' \in [Seats -> S]
    BY <1>4, SeatFacts
  <1>6. base'[Guest] < z2 /\ base'[Host] < z2 /\ base'[Host] # base'[Guest] /\ z2 \in Nat /\ z <= z2
    BY <1>1, <1>2, <1>3
  <1>7. Known'
    BY <1>6, SeatFacts DEF Known, z2
  <1>8. Logs'
    BY <1>5 DEF Logs, S
  <1> QED BY <1>1, <1>5, <1>6, <1>7, <1>8 DEF z, z2, l

\* The guest has given up: the host is off and nothing comes any more.
LEMMA DroppedStory ==
  ASSUME ImageInv, ImageInv', StoryInv, dropped[Guest], [Next]_vars
  PROVE  StoryInv'
  <1>1. pc[Host] = "off" /\ chan[Guest] = <<>>
    BY GuestQueue DEF Pushes
  <1>2. Logs /\ Known /\ SameStory
    BY DEF StoryInv
  <1>3. ASSUME dropped'[Guest], base' = base, log' = log, glitches' = glitches, pushes' = pushes
        PROVE  StoryInv'
    <2>1. Logs' /\ Known' /\ SameStory'
      BY <1>2, <1>3 DEF Logs, Known, Fresh, SameStory
    <2> QED BY <1>3, <2>1 DEF StoryInv
  <1>4. CASE UNCHANGED vars
    BY <1>3, <1>4 DEF vars, engine, image
  <1>5. CASE HostDies
    BY <1>1, <1>5 DEF HostDies
  <1>6. ASSUME NEW c \in Seats, Read(c) \/ Handle(c) \/ Pass(c) \/ Timeouts(c)
        PROVE  StoryInv'
    <2>1. ~Handle(c)
      <3>1. CASE c = Host
        BY <1>1, <3>1 DEF Handle, OnInput, OnCrc, OnReq, OnBegin, OnChunk, OnEnd, OnLeft, Take
      <3>2. CASE c = Guest
        BY <1>1, <3>2 DEF Handle, OnInput, OnCrc, OnReq, OnBegin, OnChunk, OnEnd, OnLeft, Take, Complete
      <3> QED BY <3>1, <3>2, SeatFacts
    <2>2. c = Guest
      <3> SUFFICES ASSUME c = Host PROVE FALSE
        BY SeatFacts
      <3>1. pc[c] = "off"
        BY <1>1
      <3>2. ~Read(c) /\ ~Pass(c) /\ ~Timeouts(c)
        BY <3>1 DEF Read, Pass, EnterPass, HoldPass, CaptureInput, Stall, Round, RunTick, Pending, Timeouts,
                    HoldTimeout, GateTimeout
      <3> QED BY <1>6, <2>1, <3>2
    <2>3. CASE Read(c) \/ EnterPass(c) \/ CaptureInput(c) \/ Stall(c) \/ Round(c)
      <3>1. dropped' = dropped /\ base' = base /\ log' = log /\ glitches' = glitches /\ pushes' = pushes
        BY <2>3 DEF Read, EnterPass, CaptureInput, Stall, Round, engine, image
      <3> QED BY <1>3, <3>1
    <2>7. CASE HoldPass(c)
      <3>1. /\ dropped' = dropped /\ pushes' = pushes
            /\ \/ base' = base /\ log' = log /\ glitches' = glitches
               \/ /\ base' = [base EXCEPT ![Guest] = Fresh] /\ log' = [log EXCEPT ![Guest] = <<>>]
                  /\ glitches' = glitches + 1
        BY <2>7, HoldPassStep
      <3>2. CASE base' = base /\ log' = log /\ glitches' = glitches
        BY <1>3, <3>1, <3>2
      <3>3. CASE /\ base' = [base EXCEPT ![Guest] = Fresh] /\ log' = [log EXCEPT ![Guest] = <<>>]
                 /\ glitches' = glitches + 1
        <4>1. Logs' /\ Known' /\ base'[Host] # base'[Guest]
          BY <1>2, <3>1, <3>3, Renamed
        <4>2. SameStory'
          BY <4>1 DEF SameStory
        <4> QED BY <3>1, <4>1, <4>2 DEF StoryInv
      <3> QED BY <3>1, <3>2, <3>3
    <2>4. CASE Pending(c)
      <3>1. ~Wanted(c)
        BY <2>2, SeatFacts DEF Wanted
      <3>2. dropped' = dropped /\ base' = base /\ log' = log /\ glitches' = glitches /\ pushes' = pushes
        BY <2>4, <3>1 DEF Pending, engine
      <3> QED BY <1>3, <3>2
    <2>5. CASE Timeouts(c)
      <3>1. /\ dropped' = [dropped EXCEPT ![c] = TRUE] /\ base' = base /\ log' = log
            /\ glitches' = glitches /\ pushes' = pushes
        BY <2>5 DEF Timeouts, HoldTimeout, GateTimeout, GiveUp, image
      <3>2. dropped'[Guest]
        BY <2>2, <3>1, SeatFacts DEF ImageInv, Basics
      <3> QED BY <1>3, <3>1, <3>2
    <2>6. CASE RunTick(c)
      <3>1. /\ log' = log /\ dropped' = dropped /\ pushes' = pushes
            /\ \/ base' = [base EXCEPT ![c] = base[c]] /\ glitches' = glitches
               \/ base' = [base EXCEPT ![c] = Fresh] /\ glitches' = glitches + 1
        BY <2>2, <2>6, TickStep
      <3>2. base \in [Seats -> Nat]
        BY DEF ImageInv, Basics
      <3>3. CASE base' = [base EXCEPT ![c] = base[c]] /\ glitches' = glitches
        <4>1. base' = base
          BY <3>2, <3>3
        <4> QED BY <1>3, <3>1, <3>3, <4>1
      <3>4. CASE base' = [base EXCEPT ![c] = Fresh] /\ glitches' = glitches + 1
        <4>1. base'[Guest] = Fresh /\ base'[Host] = base[Host]
          BY <2>2, <3>2, <3>4, SeatFacts
        <4>2. Fresh' = Fresh + 1
          <5>1. glitches \in Nat /\ pushes \in Nat
            BY DEF ImageInv, Basics
          <5>2. Fresh' = glitches' + pushes' + 1 /\ Fresh = glitches + pushes + 1
            BY DEF Fresh
          <5> QED BY <3>1, <3>4, <5>1, <5>2
        <4>3. base[Host] < Fresh /\ base[Host] \in Nat /\ Fresh \in Nat
          BY <1>2, Scalars, SeatFacts DEF Known
        <4> DEFINE z == Fresh
                   z2 == Fresh'
        <4>4. z2 = z + 1 /\ z \in Nat /\ base[Host] < z /\ base'[Guest] = z
          BY <4>1, <4>2, <4>3
        <4> HIDE DEF z, z2
        <4>5. base'[Guest] < z2 /\ base'[Host] < z2 /\ base'[Host] # base'[Guest]
          BY <4>1, <4>3, <4>4
        <4>6. Known'
          BY <4>5, SeatFacts DEF Known, z2
        <4>7. SameStory'
          BY <4>5 DEF SameStory
        <4>8. Logs'
          BY <1>2, <3>1 DEF Logs
        <4> QED BY <3>1, <4>6, <4>7, <4>8 DEF StoryInv
      <3> QED BY <3>1, <3>3, <3>4
    <2> QED BY <1>6, <2>1, <2>3, <2>4, <2>5, <2>6, <2>7 DEF Pass
  <1> QED BY <1>4, <1>5, <1>6 DEF Next

\* What Wires says, once nothing but the queues moves.
LEMMA WiresStep ==
  ASSUME UNCHANGED <<tick, wm, cells, line, log, base, glitches, pushes, pc>>, resume'[Host] = resume[Host],
         Down(chan'[Guest], line[Guest], line[Host], wm[Host], resume[Host], Fresh, base[Host],
              Start(Host), pc[Host] # "off"),
         Rising(chan'[Host], line[Guest], line[Host], wm[Host]),
         Flow(chan'[Guest], line[Host], cells[Host][Host], Reach, Last(Host), pc[Host] # "off"),
         Flow(chan'[Host], line[Host], cells[Guest][Guest], wm[Host], Last(Guest), line[Guest] = line[Host])
  PROVE  Wires'
  <1>1. /\ tick' = tick /\ wm' = wm /\ cells' = cells /\ line' = line /\ log' = log /\ base' = base
        /\ glitches' = glitches /\ pushes' = pushes /\ pc' = pc
    OBVIOUS
  <1>2. /\ Reach' = Reach /\ Start(Host)' = Start(Host) /\ Fresh' = Fresh
        /\ Last(Host)' = Last(Host) /\ Last(Guest)' = Last(Guest)
    BY <1>1 DEF Reach, Start, Fresh, Last
  <1>3. Going'
    BY <1>1, <1>2 DEF Going
  <1>4. Coming'
    BY <1>1 DEF Coming
  <1>5. Flowing'
    BY <1>1, <1>2 DEF Flowing
  <1> QED BY <1>3, <1>4, <1>5 DEF Wires

\* A frame that is neither an input nor END is taken.
LEMMA TakeWires ==
  ASSUME ImageInv, Logs, Wires, NEW c \in Seats, NEW type, type \notin {"INPUT", "END"},
         NEW out \in Seq(Frames), \A i \in 1..Len(out) : out[i].type # "INPUT", c = Host => out = <<>>,
         Take(c, type, out), UNCHANGED <<tick, wm, cells, line, log, base, glitches, pushes>>,
         resume'[Host] = resume[Host]
  PROVE  pc' = pc /\ Wires'
  <1>1. /\ chan[c] \in Seq(Frames) /\ chan[c] # <<>> /\ chan[c][1].type = type /\ pc' = pc
        /\ chan'[c] = Tail(chan[c]) /\ chan'[Peer(c)] = chan[Peer(c)] \o out
    BY TakeStep
  <1> DEFINE q == chan[Guest]
             p == chan[Host]
  <1>2. /\ q \in Seq(Frames) /\ p \in Seq(Frames) /\ line[Guest] \in Nat
    BY Scalars
  <1>3. /\ Down(q, line[Guest], line[Host], wm[Host], resume[Host], Fresh, base[Host], Start(Host), pc[Host] # "off")
        /\ Rising(p, line[Guest], line[Host], wm[Host])
        /\ Flow(q, line[Host], cells[Host][Host], Reach, Last(Host), pc[Host] # "off")
        /\ Flow(p, line[Host], cells[Guest][Guest], wm[Host], Last(Guest), line[Guest] = line[Host])
    BY DEF Wires, Going, Coming, Flowing
  <1>4. CASE c = Guest
    <2>1. q # <<>> /\ q[1].type # "END" /\ q[1].type # "INPUT" /\ chan'[Guest] = Tail(q) /\ chan'[Host] = p \o out
      BY <1>1, <1>4, SeatFacts
    <2>2. Down(Tail(q), line[Guest], line[Host], wm[Host], resume[Host], Fresh, base[Host], Start(Host), pc[Host] # "off")
      <3> DEFINE x == IF q[1].type = "END" THEN line[Guest] + 1 ELSE line[Guest]
      <3>1. Down(Tail(q), x, line[Host], wm[Host], resume[Host], Fresh, base[Host], Start(Host), pc[Host] # "off")
        BY <1>2, <1>3, <2>1, DownTake
      <3>2. x = line[Guest]
        BY <2>1
      <3> HIDE DEF x
      <3> QED BY <3>1, <3>2
    <2>3. Rising(p \o out, line[Guest], line[Host], wm[Host])
      <3>1. Rising(out, line[Guest], line[Host], wm[Host])
        BY DEF Rising
      <3> QED BY <1>2, <1>3, <3>1, RisingMore
    <2>4. Flow(Tail(q), line[Host], cells[Host][Host], Reach, Last(Host), pc[Host] # "off")
      BY <1>2, <1>3, <2>1, FlowPass
    <2>5. Flow(p \o out, line[Host], cells[Guest][Guest], wm[Host], Last(Guest), line[Guest] = line[Host])
      BY <1>2, <1>3, FlowMore
    <2> HIDE DEF q, p
    <2> QED BY <1>1, <2>1, <2>2, <2>3, <2>4, <2>5, WiresStep
  <1>5. CASE c = Host
    <2>1. p # <<>> /\ p[1].type # "INPUT" /\ chan'[Host] = Tail(p) /\ chan'[Guest] = q
      <3>1. chan'[Guest] = chan[Guest]
        BY <1>5, HostTakes
      <3> QED BY <1>1, <1>5, <3>1
    <2>2. Rising(Tail(p), line[Guest], line[Host], wm[Host])
      BY <1>2, <1>3, <2>1, RisingTake
    <2>3. Flow(Tail(p), line[Host], cells[Guest][Guest], wm[Host], Last(Guest), line[Guest] = line[Host])
      BY <1>2, <1>3, <2>1, FlowPass
    <2> HIDE DEF q, p
    <2> QED BY <1>1, <1>3, <2>1, <2>2, <2>3, WiresStep
  <1> QED BY <1>4, <1>5, SeatFacts

LEMMA TakeQuiet ==
  ASSUME ImageInv, ImageInv', StoryInv, ~dropped[Guest], NEW c \in Seats, NEW type, type \notin {"INPUT", "END"},
         NEW out \in Seq(Frames), \A i \in 1..Len(out) : out[i].type # "INPUT", c = Host => out = <<>>,
         Take(c, type, out),
         UNCHANGED <<tick, wm, cells, line, log, base, dropped, glitches, pushes, resume, hold>>
  PROVE  StoryInv'
  <1>1. Logs /\ Room /\ Pace /\ Wires
    BY DEF StoryInv, Playing
  <1>2. /\ tick' = tick /\ wm' = wm /\ cells' = cells /\ line' = line /\ log' = log /\ base' = base
        /\ dropped' = dropped /\ glitches' = glitches /\ pushes' = pushes /\ resume' = resume /\ hold' = hold
    OBVIOUS
  <1>3. pc' = pc /\ Wires'
    BY <1>1, <1>2, TakeWires
  <1>4. Room' /\ Pace'
    BY <1>1, <1>2, <1>3 DEF Room, Pace
  <1>5. Last(Host) <= Last(Host)' /\ Last(Guest) <= Last(Guest)'
    BY <1>2, <1>3, LastKept, SeatFacts
  <1> QED BY <1>2, <1>3, <1>4, <1>5, QuietKeeps

LEMMA OnCrcStory ==
  ASSUME ImageInv, ImageInv', StoryInv, ~dropped[Guest], NEW c \in Seats, OnCrc(c)
  PROVE  StoryInv'
  <1> DEFINE f == Head(chan[c])
             bad == ~hold[c] /\ ~pend[c] /\ Disagrees(c, f)
             g == Frame("RESYNC", f.tick, 0)
             out == IF bad /\ Asks(c) THEN <<g>> ELSE <<>>
  <1>1. /\ Take(c, "CRC", out)
        /\ UNCHANGED <<tick, wm, cells, line, log, base, dropped, glitches, pushes, resume, hold>>
    BY DEF OnCrc, engine, image
  <1>2. chan[c] \in Seq(Frames) /\ chan[c] # <<>>
    BY <1>1, SeatFacts DEF Take, Complete, ImageInv, Basics
  <1>3. f \in Frames
    BY <1>2, QueueTail
  <1>4. g \in Frames /\ g.type = "RESYNC"
    <2>1. f.tick \in Nat
      BY <1>3 DEF Frames
    <2> QED BY <2>1 DEF Frame, Frames, Others
  <1>5. c = Host => out = <<>>
    BY SeatFacts DEF Asks
  <1> HIDE DEF g, f, bad
  <1>6. <<g>> \in Seq(Frames) /\ \A i \in 1..Len(<<g>>) : <<g>>[i].type # "INPUT"
    BY <1>4
  <1>7. out \in Seq(Frames) /\ \A i \in 1..Len(out) : out[i].type # "INPUT"
    <2>1. \A i \in 1..Len(<<>>) : FALSE
      BY EmptyQueue
    <2> QED BY <1>6, <2>1, EmptyQueue
  <1> HIDE DEF out
  <1>8. "CRC" \notin {"INPUT", "END"}
    OBVIOUS
  <1> QED BY <1>1, <1>5, <1>7, <1>8, TakeQuiet

LEMMA OnReqStory ==
  ASSUME ImageInv, ImageInv', StoryInv, ~dropped[Guest], NEW c \in Seats, OnReq(c) \/ OnChunk(c)
  PROVE  StoryInv'
  <1> DEFINE out == <<>>
  <1>1. PICK type \in {"RESYNC", "CHUNK"} : Take(c, type, out)
    BY DEF OnReq, OnChunk
  <1>2. UNCHANGED <<tick, wm, cells, line, log, base, dropped, glitches, pushes, resume, hold>>
    BY DEF OnReq, OnChunk, engine, recovery, image
  <1>3. out \in Seq(Frames) /\ (\A i \in 1..Len(out) : out[i].type # "INPUT") /\ (c = Host => out = <<>>)
    BY EmptyQueue
  <1>4. type \notin {"INPUT", "END"}
    OBVIOUS
  <1> HIDE DEF out
  <1> QED BY <1>1, <1>2, <1>3, <1>4, TakeQuiet

\* BEGIN: the guest is held, and knows where to resume.
LEMMA OnBeginStory ==
  ASSUME ImageInv, ImageInv', StoryInv, ~dropped[Guest], NEW c \in Seats, OnBegin(c)
  PROVE  StoryInv'
  <1> DEFINE out == <<>>
             q == chan[Guest]
             type == "BEGIN"
  <1>1. /\ Take(c, type, out)
        /\ UNCHANGED <<tick, wm, cells, line, log, base, dropped, glitches, pushes>>
        /\ hold' = [hold EXCEPT ![c] = TRUE]
        /\ resume' = [resume EXCEPT ![c] = Head(chan[c]).tick]
    BY DEF OnBegin, engine
  <1>2. out \in Seq(Frames) /\ (\A i \in 1..Len(out) : out[i].type # "INPUT") /\ (c = Host => out = <<>>)
    BY EmptyQueue
  <1>3. type \notin {"INPUT", "END"} /\ type \notin Plain
    BY DEF Plain
  <1>4. Logs /\ Room /\ Pace /\ Wires
    BY DEF StoryInv, Playing
  <1>5. c = Guest
    <2> SUFFICES ASSUME c = Host PROVE FALSE
      BY SeatFacts
    <2>1. Take(Host, type, <<>>)
      BY <1>1
    <2> HIDE DEF type
    <2> QED BY <1>3, <2>1, HostTakes
  <1>6. q \in Seq(Frames) /\ q # <<>> /\ q[1].type = "BEGIN" /\ Head(q) = q[1] /\ q[1] \in Frames
    <2> HIDE DEF out
    <2>1. /\ chan[c] \in Seq(Frames) /\ chan[c] # <<>> /\ chan[c][1].type = type /\ Head(chan[c]) = chan[c][1]
          /\ chan[c][1] \in Frames
      BY <1>1, <1>2, TakeStep
    <2> QED BY <1>5, <2>1
  <1>7. /\ hold'[Guest] /\ resume'[Guest] = q[1].tick /\ resume'[Host] = resume[Host]
    BY <1>1, <1>5, <1>6, SeatFacts DEF ImageInv, Basics
  <1>8. pc' = pc /\ Wires'
    <2> HIDE DEF out, type
    <2> QED BY <1>1, <1>2, <1>3, <1>4, <1>7, TakeWires
  <1>9. Fits(q[1], line[Guest], line[Host], wm[Host], resume[Host], Fresh, base[Host], Start(Host))
    BY <1>4, <1>6, DownTake, Scalars DEF Wires, Going
  <1>10. /\ line[Guest] < line[Host] /\ q[1].tick <= Top
         /\ IF line[Guest] + 1 < line[Host] THEN q[1].tick + 2 * Delay <= wm[Host] ELSE q[1].tick = resume[Host]
    BY <1>6, <1>9 DEF Fits
  <1>11. Room'
    BY <1>1, <1>4, <1>7, <1>8, <1>10 DEF Room
  <1>12. Pace'
    BY <1>1, <1>4, <1>7, <1>10 DEF Pace
  <1>13. Last(Host) <= Last(Host)' /\ Last(Guest) <= Last(Guest)'
    BY <1>1, <1>8, LastKept, SeatFacts
  <1> QED BY <1>1, <1>7, <1>8, <1>11, <1>12, <1>13, QuietKeeps

\* One cell is written.
LEMMA CellAt ==
  ASSUME NEW x \in [Seats -> [Seats -> [Cells -> Nat \X Nat]]], NEW c \in Seats, NEW s \in Seats,
         NEW n, NEW v \in Nat \X Nat, NEW y, y = [x EXCEPT ![c][s][n] = v]
  PROVE  /\ y[c][s] = [x[c][s] EXCEPT ![n] = v]
         /\ n \in Cells => y[c][s][n] = v
         /\ \A m \in Cells : m # n => y[c][s][m] = x[c][s][m]
         /\ \A d, e \in Seats : d # c \/ e # s => y[d][e] = x[d][e]
  <1> DEFINE u == [x[c][s] EXCEPT ![n] = v]
             z == [x[c] EXCEPT ![s] = u]
  <1>1. x[c][s] \in [Cells -> Nat \X Nat] /\ x[c] \in [Seats -> [Cells -> Nat \X Nat]]
    OBVIOUS
  <1>2. (n \in Cells => u[n] = v) /\ \A m \in Cells : m # n => u[m] = x[c][s][m]
    BY <1>1
  <1> HIDE DEF u
  <1>3. z[s] = u /\ \A e \in Seats : e # s => z[e] = x[c][e]
    BY <1>1
  <1> HIDE DEF z
  <1>4. y = [x EXCEPT ![c] = z]
    BY DEF z, u
  <1>5. y[c] = z /\ \A d \in Seats : d # c => y[d] = x[d]
    BY <1>4
  <1> QED BY <1>2, <1>3, <1>5 DEF u

\* The log stands as long as the cells it was taken from do.
LEMMA LoggedKept ==
  ASSUME ImageInv, Logs, NEW d \in Seats, LoggedAt(d), tick'[d] = tick[d], log'[d] = log[d],
         \A s \in Seats, m \in Cells : m < tick[d] => cells'[d][s][m] = cells[d][s][m]
  PROVE  LoggedAt(d)'
  <1> DEFINE a == Start(d)
             x == Len(log[d])
             t == tick[d]
  <1>1. a' = a /\ Len(log'[d]) = x
    BY DEF Start
  <1>2. a \in Int /\ x \in Nat /\ t \in Nat
    BY Scalars, SeatFacts
  <1>3. a = t - x /\ a >= 0
    BY DEF Start, LoggedAt
  <1>4. ASSUME NEW i \in 1..x
        PROVE  a + (i - 1) \in Cells /\ log'[d][i] = [s \in Seats |-> cells'[d][s][a + (i - 1)]]
    <2> DEFINE m == a + (i - 1)
    <2>1. m \in Cells /\ log[d][i] = [s \in Seats |-> cells[d][s][m]]
      BY DEF LoggedAt
    <2>2. m < t
      <3> HIDE DEF a, x, t
      <3> QED BY <1>2, <1>3
    <2> HIDE DEF m, a, x
    <2>3. \A s \in Seats : cells'[d][s][m] = cells[d][s][m]
      BY <2>1, <2>2
    <2>4. m \in Cells /\ log'[d][i] = [s \in Seats |-> cells'[d][s][m]]
      BY <2>1, <2>3
    <2> QED BY <2>4 DEF m
  <1> QED BY <1>1, <1>3, <1>4 DEF LoggedAt

\* A copy grows by the capture that comes next.
LEMMA CopyGrows ==
  ASSUME NEW own, NEW cop, NEW cop2, NEW w \in Nat, NEW n \in Cells, n > w,
         \A m \in Cells : m <= w => cop[m] = own[m],
         \A m \in Cells : m > w => cop[m] = Idle,
         \A m \in Cells : m > w /\ m < n => own[m] = Idle,
         cop2[n] = own[n], \A m \in Cells : m # n => cop2[m] = cop[m]
  PROVE  \A m \in Cells : (m <= n => cop2[m] = own[m]) /\ (m > n => cop2[m] = Idle)
  <1> SUFFICES ASSUME NEW m \in Cells PROVE (m <= n => cop2[m] = own[m]) /\ (m > n => cop2[m] = Idle)
    OBVIOUS
  <1>1. m \in Nat /\ n \in Nat
    BY CellsNat
  <1>2. CASE m = n
    BY <1>1, <1>2
  <1>3. CASE m # n
    <2>1. m <= w \/ (m > w /\ m < n) \/ m > n
      BY <1>1, <1>3
    <2>2. ~(m <= n /\ m > n) /\ (m > n => m > w) /\ (m <= w => ~(m > n))
      BY <1>1
    <2> QED BY <1>3, <2>1, <2>2
  <1> QED BY <1>2, <1>3

\* An input that is not news to the console is dropped.
LEMMA OldInput ==
  ASSUME ImageInv, ImageInv', StoryInv, ~dropped[Guest], UNCHANGED <<pc, engine, recovery, dropped, image>>, Wires'
  PROVE  StoryInv'
  <1>1. UNCHANGED <<tick, wm, cells, line, log, base, dropped, glitches, pushes, resume, hold, pc>>
    BY DEF engine, recovery, image
  <1>2. Room' /\ Pace'
    BY <1>1 DEF StoryInv, Playing, Room, Pace
  <1>3. Last(Host) <= Last(Host)' /\ Last(Guest) <= Last(Guest)'
    BY <1>1, LastKept, SeatFacts
  <1> QED BY <1>1, <1>2, <1>3, QuietKeeps

\* What OnInput leaves alone.
LEMMA InputStep ==
  ASSUME ImageInv, NEW c \in Seats, OnInput(c)
  PROVE  /\ chan[c] \in Seq(Frames) /\ chan[c] # <<>> /\ chan[c][1].type = "INPUT"
         /\ chan[c][1].tick \in Nat /\ chan[c][1].val \in Nat \X Nat
         /\ chan'[c] = Tail(chan[c]) /\ chan'[Peer(c)] = chan[Peer(c)]
         /\ IF chan[c][1].tick > wm[c]
            THEN /\ cells' = [cells EXCEPT ![c][Peer(c)][chan[c][1].tick] = chan[c][1].val]
                 /\ wm' = [wm EXCEPT ![c] = chan[c][1].tick]
            ELSE cells' = cells /\ wm' = wm
         /\ UNCHANGED <<pc, tick, line, log, recovery, dropped, image>>
  <1> DEFINE out == <<>>
             type == "INPUT"
             p == chan[Peer(c)]
  <1>1. Take(c, type, out) /\ out \in Seq(Frames)
    BY EmptyQueue DEF OnInput
  <1>a. p \in Seq(Frames)
    BY SeatFacts DEF ImageInv, Basics
  <1>b. p \o out = p
    BY <1>a, ConcatEmptySeq
  <1> HIDE DEF out, type
  <1>2. /\ chan[c] \in Seq(Frames) /\ chan[c] # <<>> /\ chan[c][1].type = type /\ chan[c][1] \in Frames
        /\ Head(chan[c]) = chan[c][1]
        /\ chan'[c] = Tail(chan[c]) /\ chan'[Peer(c)] = chan[Peer(c)] \o out /\ pc' = pc
    BY <1>1, TakeStep
  <1>3. chan[c][1].tick \in Nat /\ chan[c][1].val \in Nat \X Nat
    BY <1>2 DEF Frames, Others, type
  <1>4. /\ IF Head(chan[c]).tick > wm[c]
           THEN /\ cells' = [cells EXCEPT ![c][Peer(c)][Head(chan[c]).tick] = Head(chan[c]).val]
                /\ wm' = [wm EXCEPT ![c] = Head(chan[c]).tick]
           ELSE UNCHANGED <<cells, wm>>
        /\ UNCHANGED <<tick, line, log, recovery, dropped, image>>
    BY DEF OnInput
  <1> QED BY <1>2, <1>3, <1>4, <1>b DEF p, type

\* An input of the host reaches a guest that is in the host's timeline.
LEMMA GuestInputNow ==
  ASSUME ImageInv, ImageInv', StoryInv, ~dropped[Guest], OnInput(Guest), line[Guest] = line[Host]
  PROVE  StoryInv'
  <1> DEFINE q == chan[Guest]
             n == q[1].tick
             v == q[1].val
             w == wm[Guest]
             E == line[Host]
             own == cells[Host][Host]
             cop == cells[Guest][Host]
             cop2 == cells'[Guest][Host]
             lh == Last(Host)
  <1>1. /\ q \in Seq(Frames) /\ q # <<>> /\ q[1].type = "INPUT" /\ n \in Nat /\ v \in Nat \X Nat
        /\ chan'[Guest] = Tail(q) /\ chan'[Host] = chan[Host]
        /\ IF n > w THEN /\ cells' = [cells EXCEPT ![Guest][Host][n] = v]
                         /\ wm' = [wm EXCEPT ![Guest] = n]
                    ELSE cells' = cells /\ wm' = wm
        /\ UNCHANGED <<pc, tick, line, log, recovery, dropped, image>>
    BY SeatFacts, InputStep
  <1>2. Logs /\ Known /\ Room /\ Pace /\ Captures /\ Going /\ Coming /\ Flowing /\ Copies /\ Logged /\ Names
    BY DEF StoryInv, Playing, Wires
  <1>3. w \in Nat /\ E \in Nat /\ line[Guest] \in Nat /\ lh \in Int /\ tick[Guest] \in Nat
    BY <1>2, Scalars
  <1>4. /\ Fits(q[1], line[Guest], E, wm[Host], resume[Host], Fresh, base[Host], Start(Host))
        /\ Down(Tail(q), line[Guest], E, wm[Host], resume[Host], Fresh, base[Host], Start(Host), pc[Host] # "off")
    <2> DEFINE x == IF q[1].type = "END" THEN line[Guest] + 1 ELSE line[Guest]
    <2>1. /\ Fits(q[1], line[Guest], E, wm[Host], resume[Host], Fresh, base[Host], Start(Host))
          /\ Down(Tail(q), x, E, wm[Host], resume[Host], Fresh, base[Host], Start(Host), pc[Host] # "off")
      BY <1>1, <1>2, <1>3, DownTake DEF Going
    <2>2. x = line[Guest]
      BY <1>1
    <2> HIDE DEF x
    <2> QED BY <2>1, <2>2
  <1>5. Of(q[1]) = E
    BY <1>1, <1>4 DEF Fits
  <1>6. Flow(q, E, own, w, lh, pc[Host] # "off")
    BY <1>2 DEF Flowing, Reach
  <1>7. /\ n \in Cells /\ n > w /\ n <= lh /\ v = own[n]
        /\ \A m \in Cells : m > w /\ m < n => own[m] = Idle
        /\ Flow(Tail(q), E, own, n, lh, pc[Host] # "off")
    <2> DEFINE alive == pc[Host] # "off"
    <2>1. w \in Int /\ q \in Seq(Frames) /\ q # <<>> /\ q[1].type = "INPUT" /\ Of(q[1]) = E
      BY <1>1, <1>3, <1>5
    <2>2. Flow(q, E, own, w, lh, alive)
      BY <1>6
    <2> HIDE DEF own, w, lh, E, q, alive
    <2>3. /\ q[1].tick \in Cells /\ q[1].tick > w /\ q[1].tick <= lh /\ q[1].val = own[q[1].tick]
          /\ \A m \in Cells : m > w /\ m < q[1].tick => own[m] = Idle
          /\ Flow(Tail(q), E, own, q[1].tick, lh, alive)
      BY <2>1, <2>2, FlowTake, ZenonT(40)
    <2> QED BY <2>3 DEF alive
  <1>8. cells' = [cells EXCEPT ![Guest][Host][n] = v] /\ wm'[Guest] = n /\ wm'[Host] = wm[Host]
    BY <1>1, <1>7, SeatFacts, ZenonT(40) DEF ImageInv, Basics
  <1>9. /\ cop2[n] = v
        /\ \A m \in Cells : m # n => cop2[m] = cop[m]
        /\ \A d, e \in Seats : d # Guest \/ e # Host => cells'[d][e] = cells[d][e]
    <2>1. cells \in [Seats -> [Seats -> [Cells -> Nat \X Nat]]]
      BY DEF ImageInv, Basics
    <2> HIDE DEF n, v
    <2> QED BY <1>1, <1>7, <1>8, <2>1, SeatFacts, CellAt
  <1>10. /\ cells'[Host][Host] = own /\ cells'[Guest][Guest] = cells[Guest][Guest]
         /\ cells'[Host][Guest] = cells[Host][Guest]
    BY <1>9, SeatFacts
  <1>11. \A m \in Cells : (m <= n => cop2[m] = own[m]) /\ (m > n => cop2[m] = Idle)
    <2>1. \A m \in Cells : m <= w => cop[m] = own[m]
      BY <1>2 DEF Copies
    <2>2. \A m \in Cells : m > w => cop[m] = Idle
      BY <1>2, SeatFacts DEF Captures
    <2>3. cop2[n] = own[n]
      BY <1>7, <1>9
    <2>4. /\ w \in Nat /\ n \in Cells /\ n > w
          /\ \A m \in Cells : m > w /\ m < n => own[m] = Idle
      BY <1>3, <1>7
    <2>5. \A m \in Cells : m # n => cop2[m] = cop[m]
      BY <1>9
    <2> HIDE DEF own, w, cop, cop2, n
    <2> QED BY <2>1, <2>2, <2>3, <2>4, <2>5, CopyGrows
  <1>12. /\ pc' = pc /\ tick' = tick /\ line' = line /\ log' = log /\ hold' = hold /\ resume' = resume
         /\ dropped' = dropped /\ base' = base /\ glitches' = glitches /\ pushes' = pushes
    BY <1>1 DEF recovery, image
  <1>13. /\ Last(Host)' = Last(Host) /\ Last(Guest)' = Last(Guest) /\ Start(Host)' = Start(Host)
         /\ Start(Guest)' = Start(Guest) /\ Fresh' = Fresh /\ Reach' = n
    BY <1>8, <1>12 DEF Last, Start, Fresh, Reach
  <1>14. Room' /\ Logs' /\ Known' /\ Names'
    <2>1. Logs' /\ Known' /\ Names'
      BY <1>2, <1>12, <1>13 DEF Logs, Known, Names
    <2>2. Room'
      BY <1>2, <1>12 DEF Room
    <2> QED BY <2>1, <2>2
  <1>15. Pace'
    <2>1. tick[Guest] <= w + 1 /\ tick[Host] <= wm[Host] + 1
      BY <1>2, SeatFacts DEF Pace
    <2>2. tick[Guest] <= n + 1
      <3> HIDE DEF w, n
      <3> QED BY <1>1, <1>3, <1>7, <2>1
    <2>3. \A c \in Seats : tick'[c] <= wm'[c] + 1
      BY <1>8, <1>12, <2>1, <2>2, SeatFacts
    <2>4. ~(line[Guest] < line[Host])
      BY <1>3
    <2> QED BY <1>2, <1>8, <1>12, <2>3, <2>4 DEF Pace
  <1>16. Captures'
    <2>1. \A c \in Seats, m \in Cells : cells'[c][c][m] # Idle => m <= Last(c)'
      <3>1. \A c \in Seats : cells'[c][c] = cells[c][c] /\ Last(c)' = Last(c)
        BY <1>10, <1>13, SeatFacts
      <3> QED BY <1>2, <3>1 DEF Captures
    <2>2. \A c \in Seats, m \in Cells : m > wm'[c] => cells'[c][Peer(c)][m] = Idle
      <3>1. ASSUME NEW c \in Seats, NEW m \in Cells, m > wm'[c] PROVE cells'[c][Peer(c)][m] = Idle
        <4>1. CASE c = Guest
          BY <1>8, <1>11, <3>1, <4>1, SeatFacts
        <4>2. CASE c = Host
          BY <1>2, <1>8, <1>10, <3>1, <4>2, SeatFacts DEF Captures
        <4> QED BY <4>1, <4>2, SeatFacts
      <3> QED BY <3>1
    <2>3. \A m \in Cells : m < resume'[Host] + Delay => cells'[Host][Host][m] = Idle
      BY <1>2, <1>10, <1>12 DEF Captures
    <2>4. wm'[Host] <= Last(Guest)' /\ wm'[Guest] <= Last(Host)'
      BY <1>2, <1>7, <1>8, <1>13 DEF Captures
    <2>5. ~(line'[Guest] < line'[Host])
      BY <1>3, <1>12
    <2> QED BY <2>1, <2>2, <2>3, <2>4, <2>5 DEF Captures
  <1>17. Copies'
    BY <1>2, <1>8, <1>10, <1>11, <1>12 DEF Copies
  <1>18. Logged'
    <2>1. ASSUME NEW s \in Seats, NEW m \in Cells, m < tick[Guest] PROVE cells'[Guest][s][m] = cells[Guest][s][m]
      <3>1. m # n
        <4>1. tick[Guest] <= w + 1
          BY <1>2, SeatFacts DEF Pace
        <4>2. m < w + 1
          <5> HIDE DEF w
          <5> QED BY <1>3, <2>1, <4>1, CellsNat
        <4> HIDE DEF w, n
        <4> QED BY <1>3, <1>7, <4>2, CellsNat
      <3> QED BY <1>9, <1>10, <3>1, SeatFacts
    <2>2. \A s \in Seats, m \in Cells : m < tick[Host] => cells'[Host][s][m] = cells[Host][s][m]
      BY <1>10, SeatFacts
    <2>3. LoggedAt(Guest)'
      BY <1>2, <1>12, <2>1, SeatFacts, LoggedKept DEF Logged
    <2>4. LoggedAt(Host)'
      BY <1>2, <1>12, <2>2, SeatFacts, LoggedKept DEF Logged
    <2> QED BY <2>3, <2>4 DEF Logged
  <1>19. Wires'
    <2>1. Going'
      BY <1>1, <1>4, <1>8, <1>12, <1>13 DEF Going
    <2>2. Coming'
      BY <1>1, <1>2, <1>8, <1>12 DEF Coming
    <2>3. Flowing'
      BY <1>1, <1>2, <1>7, <1>8, <1>10, <1>12, <1>13 DEF Flowing
    <2> QED BY <2>1, <2>2, <2>3 DEF Wires
  <1> HIDE DEF q, n, v, w, E, own, cop, cop2, lh
  <1>20. Playing'
    BY <1>14, <1>15, <1>16, <1>17, <1>18, <1>19 DEF Playing
  <1> QED BY <1>12, <1>14, <1>20 DEF StoryInv

\* An input of the host reaches a guest that has yet to rebase: it lies far
\* below the timeline to come.
LEMMA GuestInputBehind ==
  ASSUME ImageInv, ImageInv', StoryInv, ~dropped[Guest], OnInput(Guest), line[Guest] # line[Host]
  PROVE  StoryInv'
  <1> DEFINE q == chan[Guest]
             n == q[1].tick
             v == q[1].val
             w == wm[Guest]
             E == line[Host]
  <1>1. /\ q \in Seq(Frames) /\ q # <<>> /\ q[1].type = "INPUT" /\ n \in Nat /\ v \in Nat \X Nat
        /\ chan'[Guest] = Tail(q) /\ chan'[Host] = chan[Host]
        /\ IF n > w THEN /\ cells' = [cells EXCEPT ![Guest][Host][n] = v]
                         /\ wm' = [wm EXCEPT ![Guest] = n]
                    ELSE cells' = cells /\ wm' = wm
        /\ UNCHANGED <<pc, tick, line, log, recovery, dropped, image>>
    BY SeatFacts, InputStep
  <1>2. Logs /\ Known /\ Room /\ Pace /\ Captures /\ Going /\ Coming /\ Flowing /\ Copies /\ Logged /\ Names
    BY DEF StoryInv, Playing, Wires
  <1>3. w \in Nat /\ E \in Nat /\ line[Guest] \in Nat /\ wm[Host] \in Nat /\ tick[Guest] \in Nat
    BY <1>2, Scalars
  <1>4. line[Guest] < E
    BY <1>2, <1>3 DEF Pace
  <1>5. /\ Fits(q[1], line[Guest], E, wm[Host], resume[Host], Fresh, base[Host], Start(Host))
        /\ Down(Tail(q), line[Guest], E, wm[Host], resume[Host], Fresh, base[Host], Start(Host), pc[Host] # "off")
    <2> DEFINE x == IF q[1].type = "END" THEN line[Guest] + 1 ELSE line[Guest]
    <2>1. /\ Fits(q[1], line[Guest], E, wm[Host], resume[Host], Fresh, base[Host], Start(Host))
          /\ Down(Tail(q), x, E, wm[Host], resume[Host], Fresh, base[Host], Start(Host), pc[Host] # "off")
      BY <1>1, <1>2, <1>3, DownTake DEF Going
    <2>2. x = line[Guest]
      BY <1>1
    <2> HIDE DEF x
    <2> QED BY <2>1, <2>2
  <1>6. Of(q[1]) # E /\ n + (1 + Delay) <= wm[Host]
    BY <1>1, <1>4, <1>5 DEF Fits
  <1>7. Flow(Tail(q), E, cells[Host][Host], Reach, Last(Host), pc[Host] # "off")
    <2>1. Flow(q, E, cells[Host][Host], Reach, Last(Host), pc[Host] # "off")
      BY <1>2 DEF Flowing
    <2> HIDE DEF q, E
    <2> QED BY <1>1, <1>6, <2>1, FlowPass
  <1>8. /\ pc' = pc /\ tick' = tick /\ line' = line /\ log' = log /\ hold' = hold /\ resume' = resume
        /\ dropped' = dropped /\ base' = base /\ glitches' = glitches /\ pushes' = pushes
    BY <1>1 DEF recovery, image
  <1>9. /\ Last(Host)' = Last(Host) /\ Last(Guest)' = Last(Guest) /\ Start(Host)' = Start(Host)
        /\ Start(Guest)' = Start(Guest) /\ Fresh' = Fresh /\ Reach' = Reach
    BY <1>4, <1>8 DEF Last, Start, Fresh, Reach
  <1>10. CASE ~(n > w)
    <2>1. cells' = cells /\ wm' = wm
      BY <1>1, <1>10
    <2>2. Wires'
      <3>1. Going' /\ Coming'
        BY <1>1, <1>2, <1>5, <1>8, <1>9, <2>1 DEF Going, Coming
      <3>2. Flowing'
        BY <1>1, <1>2, <1>7, <1>8, <1>9, <2>1 DEF Flowing
      <3> QED BY <3>1, <3>2 DEF Wires
    <2>3. UNCHANGED <<pc, engine, recovery, dropped, image>>
      BY <1>1, <1>8, <2>1 DEF engine
    <2> QED BY <2>2, <2>3, OldInput
  <1>11. CASE n > w
    <2>1. cells' = [cells EXCEPT ![Guest][Host][n] = v] /\ wm'[Guest] = n /\ wm'[Host] = wm[Host]
      <3>1. cells' = [cells EXCEPT ![Guest][Host][n] = v] /\ wm' = [wm EXCEPT ![Guest] = n]
        BY <1>1, <1>11
      <3>2. wm \in [Seats -> Nat]
        BY DEF ImageInv, Basics
      <3> HIDE DEF n, v
      <3> QED BY <3>1, <3>2, SeatFacts
    <2>2. /\ \A m \in Cells : m # n => cells'[Guest][Host][m] = cells[Guest][Host][m]
          /\ \A d, e \in Seats : d # Guest \/ e # Host => cells'[d][e] = cells[d][e]
      <3>1. cells \in [Seats -> [Seats -> [Cells -> Nat \X Nat]]]
        BY DEF ImageInv, Basics
      <3> HIDE DEF n, v
      <3> QED BY <1>1, <2>1, <3>1, SeatFacts, CellAt
    <2>3. /\ cells'[Host][Host] = cells[Host][Host] /\ cells'[Guest][Guest] = cells[Guest][Guest]
          /\ cells'[Host][Guest] = cells[Host][Guest]
      BY <2>2, SeatFacts
    <2>4. Room' /\ Logs' /\ Known' /\ Names'
      <3>1. Logs' /\ Known' /\ Names'
        BY <1>2, <1>8, <1>9 DEF Logs, Known, Names
      <3>2. Room'
        BY <1>2, <1>8 DEF Room
      <3> QED BY <3>1, <3>2
    <2>5. Pace'
      <3>1. tick[Guest] <= w + 1 /\ tick[Host] <= wm[Host] + 1
        BY <1>2, SeatFacts DEF Pace
      <3>2. tick[Guest] <= n + 1
        <4> HIDE DEF w, n
        <4> QED BY <1>1, <1>3, <1>11, <3>1
      <3>3. \A c \in Seats : tick'[c] <= wm'[c] + 1
        BY <1>8, <2>1, <3>1, <3>2, SeatFacts
      <3> QED BY <1>2, <1>6, <1>8, <2>1, <3>3 DEF Pace
    <2>6. Captures'
      <3>1. \A c \in Seats, m \in Cells : cells'[c][c][m] # Idle => m <= Last(c)'
        <4>1. \A c \in Seats : cells'[c][c] = cells[c][c] /\ Last(c)' = Last(c)
          BY <1>9, <2>3, SeatFacts
        <4> QED BY <1>2, <4>1 DEF Captures
      <3>2. ASSUME NEW c \in Seats, NEW m \in Cells, m > wm'[c] PROVE cells'[c][Peer(c)][m] = Idle
        <4>1. CASE c = Guest
          <5>1. m > n
            BY <2>1, <3>2, <4>1
          <5>2. m # n /\ m > w
            <6> HIDE DEF n, w
            <6> QED BY <1>1, <1>3, <1>11, <5>1, CellsNat
          <5>3. cells[Guest][Host][m] = Idle
            BY <1>2, <5>2, SeatFacts DEF Captures
          <5> QED BY <2>2, <4>1, <5>2, <5>3, SeatFacts
        <4>2. CASE c = Host
          BY <1>2, <2>1, <2>3, <3>2, <4>2, SeatFacts DEF Captures
        <4> QED BY <4>1, <4>2, SeatFacts
      <3>3. \A m \in Cells : m < resume'[Host] + Delay => cells'[Host][Host][m] = Idle
        BY <1>2, <1>8, <2>3 DEF Captures
      <3>4. \A m \in Cells : cells'[Host][Guest][m] = Idle
        BY <1>2, <1>4, <2>3 DEF Captures
      <3>5. line'[Guest] # line'[Host]
        BY <1>8
      <3> QED BY <3>1, <3>2, <3>3, <3>4, <3>5 DEF Captures
    <2>7. Copies'
      BY <1>8 DEF Copies
    <2>8. Logged'
      <3>1. ASSUME NEW s \in Seats, NEW m \in Cells, m < tick[Guest]
            PROVE  cells'[Guest][s][m] = cells[Guest][s][m]
        <4>1. m # n
          <5>1. tick[Guest] <= w + 1
            BY <1>2, SeatFacts DEF Pace
          <5>2. m < w + 1
            <6> HIDE DEF w
            <6> QED BY <1>3, <3>1, <5>1, CellsNat
          <5> HIDE DEF w, n
          <5> QED BY <1>1, <1>3, <1>11, <5>2, CellsNat
        <4> QED BY <2>2, <2>3, <4>1, SeatFacts
      <3>2. \A s \in Seats, m \in Cells : m < tick[Host] => cells'[Host][s][m] = cells[Host][s][m]
        BY <2>3, SeatFacts
      <3>3. LoggedAt(Guest)'
        BY <1>2, <1>8, <3>1, SeatFacts, LoggedKept DEF Logged
      <3>4. LoggedAt(Host)'
        BY <1>2, <1>8, <3>2, SeatFacts, LoggedKept DEF Logged
      <3> QED BY <3>3, <3>4 DEF Logged
    <2>9. Wires'
      <3>1. Going'
        BY <1>1, <1>5, <1>8, <1>9, <2>1 DEF Going
      <3>2. Coming'
        BY <1>1, <1>2, <1>8, <2>1 DEF Coming
      <3>3. Flowing'
        BY <1>1, <1>2, <1>7, <1>8, <1>9, <2>1, <2>3 DEF Flowing
      <3> QED BY <3>1, <3>2, <3>3 DEF Wires
    <2> HIDE DEF q, n, v, w, E
    <2>10. Playing'
      BY <2>4, <2>5, <2>6, <2>7, <2>8, <2>9 DEF Playing
    <2> QED BY <1>8, <2>4, <2>10 DEF StoryInv
  <1> QED BY <1>10, <1>11

\* An input of the guest reaches the host: one of its own timeline, or an old
\* one, which lies below the watermark the push has set.
LEMMA HostInput ==
  ASSUME ImageInv, ImageInv', StoryInv, ~dropped[Guest], OnInput(Host)
  PROVE  StoryInv'
  <1> DEFINE p == chan[Host]
             n == p[1].tick
             v == p[1].val
             w == wm[Host]
             E == line[Host]
             own == cells[Guest][Guest]
             cop == cells[Host][Guest]
             cop2 == cells'[Host][Guest]
             lg == Last(Guest)
  <1>1. /\ p \in Seq(Frames) /\ p # <<>> /\ p[1].type = "INPUT" /\ n \in Nat /\ v \in Nat \X Nat
        /\ chan'[Host] = Tail(p) /\ chan'[Guest] = chan[Guest]
        /\ IF n > w THEN /\ cells' = [cells EXCEPT ![Host][Guest][n] = v]
                         /\ wm' = [wm EXCEPT ![Host] = n]
                    ELSE cells' = cells /\ wm' = wm
        /\ UNCHANGED <<pc, tick, line, log, recovery, dropped, image>>
    BY SeatFacts, InputStep
  <1>2. Logs /\ Known /\ Room /\ Pace /\ Captures /\ Going /\ Coming /\ Flowing /\ Copies /\ Logged /\ Names
    BY DEF StoryInv, Playing, Wires
  <1>3. /\ w \in Nat /\ E \in Nat /\ line[Guest] \in Nat /\ wm[Guest] \in Nat /\ tick[Host] \in Nat /\ lg \in Int
        /\ chan[Guest] \in Seq(Frames) /\ resume[Host] \in Nat
    BY <1>2, Scalars
  <1>4. /\ Of(p[1]) <= line[Guest] /\ (Of(p[1]) < E => n <= w)
        /\ Rising(Tail(p), line[Guest], E, w)
    BY <1>1, <1>2, RisingTake DEF Coming
  <1>5. Of(p[1]) \in Int
    BY <1>1 DEF Of
  <1>6. Flow(p, E, own, w, lg, line[Guest] = line[Host])
    BY <1>2 DEF Flowing
  <1>7. /\ pc' = pc /\ tick' = tick /\ line' = line /\ log' = log /\ hold' = hold /\ resume' = resume
        /\ dropped' = dropped /\ base' = base /\ glitches' = glitches /\ pushes' = pushes
    BY <1>1 DEF recovery, image
  <1>8. /\ Last(Host)' = Last(Host) /\ Last(Guest)' = Last(Guest) /\ Start(Host)' = Start(Host)
        /\ Start(Guest)' = Start(Guest) /\ Fresh' = Fresh
    BY <1>7 DEF Last, Start, Fresh
  <1>9. CASE Of(p[1]) # E
    <2>1. Of(p[1]) < E
      <3>1. line[Guest] <= E
        BY <1>2 DEF Pace
      <3> DEFINE x == Of(p[1])
      <3>2. x \in Int /\ x <= line[Guest] /\ x # E
        BY <1>4, <1>5, <1>9
      <3> HIDE DEF x, E
      <3>3. x < E
        BY <1>3, <3>1, <3>2
      <3> QED BY <3>3 DEF x
    <2>2. ~(n > w)
      <3>1. n <= w
        BY <1>4, <2>1
      <3> HIDE DEF n, w
      <3> QED BY <1>1, <1>3, <3>1
    <2>3. cells' = cells /\ wm' = wm
      BY <1>1, <2>2
    <2>4. Flow(Tail(p), E, own, w, lg, line[Guest] = line[Host])
      <3> HIDE DEF p, E, own, w, lg
      <3> QED BY <1>1, <1>6, <1>9, FlowPass
    <2>5. Reach' = Reach
      BY <1>7, <2>3 DEF Reach
    <2>6. Wires'
      <3>1. Going' /\ Coming'
        BY <1>1, <1>2, <1>4, <1>7, <1>8, <2>3 DEF Going, Coming
      <3>2. Flowing'
        BY <1>1, <1>2, <1>7, <1>8, <2>3, <2>4, <2>5 DEF Flowing
      <3> QED BY <3>1, <3>2 DEF Wires
    <2>7. UNCHANGED <<pc, engine, recovery, dropped, image>>
      BY <1>1, <1>7, <2>3 DEF engine
    <2> QED BY <2>6, <2>7, OldInput
  <1>10. CASE Of(p[1]) = E
    <2>1. line[Guest] = E
      <3>1. line[Guest] <= E /\ E <= line[Guest]
        BY <1>2, <1>4, <1>10 DEF Pace
      <3> QED BY <1>3, <3>1
    <2>2. /\ n \in Cells /\ n > w /\ n <= lg /\ v = own[n]
          /\ \A m \in Cells : m > w /\ m < n => own[m] = Idle
          /\ Flow(Tail(p), E, own, n, lg, line[Guest] = line[Host])
      <3> DEFINE whole == line[Guest] = line[Host]
      <3>1. w \in Int /\ p \in Seq(Frames) /\ p # <<>> /\ p[1].type = "INPUT" /\ Of(p[1]) = E
        BY <1>1, <1>3, <1>10
      <3>2. Flow(p, E, own, w, lg, whole)
        BY <1>6
      <3> HIDE DEF own, w, lg, E, p, whole
      <3>3. /\ p[1].tick \in Cells /\ p[1].tick > w /\ p[1].tick <= lg /\ p[1].val = own[p[1].tick]
            /\ \A m \in Cells : m > w /\ m < p[1].tick => own[m] = Idle
            /\ Flow(Tail(p), E, own, p[1].tick, lg, whole)
        BY <3>1, <3>2, FlowTake, ZenonT(30)
      <3> QED BY <3>3 DEF whole
    <2>3. cells' = [cells EXCEPT ![Host][Guest][n] = v] /\ wm'[Host] = n /\ wm'[Guest] = wm[Guest]
      BY <1>1, <2>2, SeatFacts, ZenonT(40) DEF ImageInv, Basics
    <2>4. /\ cop2[n] = v
          /\ \A m \in Cells : m # n => cop2[m] = cop[m]
          /\ \A d, e \in Seats : d # Host \/ e # Guest => cells'[d][e] = cells[d][e]
      <3>1. cells \in [Seats -> [Seats -> [Cells -> Nat \X Nat]]]
        BY DEF ImageInv, Basics
      <3> HIDE DEF n, v
      <3> QED BY <1>1, <2>2, <2>3, <3>1, SeatFacts, CellAt
    <2>5. /\ cells'[Guest][Guest] = own /\ cells'[Host][Host] = cells[Host][Host]
          /\ cells'[Guest][Host] = cells[Guest][Host]
      BY <2>4, SeatFacts
    <2>6. \A m \in Cells : (m <= n => cop2[m] = own[m]) /\ (m > n => cop2[m] = Idle)
      <3>1. \A m \in Cells : m <= w => cop[m] = own[m]
        BY <1>2, <2>1 DEF Copies
      <3>2. \A m \in Cells : m > w => cop[m] = Idle
        BY <1>2, SeatFacts DEF Captures
      <3>3. cop2[n] = own[n]
        BY <2>2, <2>4
      <3>4. /\ w \in Nat /\ n \in Cells /\ n > w
            /\ \A m \in Cells : m > w /\ m < n => own[m] = Idle
        BY <1>3, <2>2
      <3>5. \A m \in Cells : m # n => cop2[m] = cop[m]
        BY <2>4
      <3> HIDE DEF own, w, cop, cop2, n
      <3> QED BY <3>1, <3>2, <3>3, <3>4, <3>5, CopyGrows
    <2>7. Reach' = Reach
      BY <1>7, <2>1, <2>3 DEF Reach
    <2>8. Room' /\ Logs' /\ Known' /\ Names'
      <3>1. Logs' /\ Known' /\ Names'
        BY <1>2, <1>7, <1>8 DEF Logs, Known, Names
      <3>2. Room'
        BY <1>2, <1>7 DEF Room
      <3> QED BY <3>1, <3>2
    <2>9. Pace'
      <3> DEFINE r == resume[Host] + (Delay - 1)
      <3>1. tick[Host] <= w + 1 /\ tick[Guest] <= wm[Guest] + 1 /\ w >= r
        BY <1>2, SeatFacts DEF Pace
      <3>2. r \in Int
        BY <1>3, Constants
      <3>3. tick[Host] <= n + 1 /\ n >= r
        <4> HIDE DEF w, n, r
        <4> QED BY <1>1, <1>3, <2>2, <3>1, <3>2, SMTT(30)
      <3>4. \A c \in Seats : tick'[c] <= wm'[c] + 1
        BY <1>7, <2>3, <3>1, <3>3, SeatFacts
      <3>5. ~(line[Guest] < line[Host])
        BY <1>3, <2>1
      <3> QED BY <1>2, <1>7, <2>3, <3>3, <3>4, <3>5 DEF Pace
    <2>10. Captures'
      <3>1. \A c \in Seats, m \in Cells : cells'[c][c][m] # Idle => m <= Last(c)'
        <4>1. \A c \in Seats : cells'[c][c] = cells[c][c] /\ Last(c)' = Last(c)
          BY <1>8, <2>5, SeatFacts
        <4> QED BY <1>2, <4>1 DEF Captures
      <3>2. ASSUME NEW c \in Seats, NEW m \in Cells, m > wm'[c] PROVE cells'[c][Peer(c)][m] = Idle
        <4>1. CASE c = Host
          BY <2>3, <2>6, <3>2, <4>1, SeatFacts
        <4>2. CASE c = Guest
          BY <1>2, <2>3, <2>5, <3>2, <4>2, SeatFacts DEF Captures
        <4> QED BY <4>1, <4>2, SeatFacts
      <3>3. \A m \in Cells : m < resume'[Host] + Delay => cells'[Host][Host][m] = Idle
        BY <1>2, <1>7, <2>5 DEF Captures
      <3>4. wm'[Host] <= Last(Guest)' /\ wm'[Guest] <= Last(Host)'
        BY <1>2, <1>8, <2>1, <2>2, <2>3 DEF Captures
      <3>5. ~(line'[Guest] < line'[Host])
        BY <1>3, <1>7, <2>1
      <3> QED BY <3>1, <3>2, <3>3, <3>4, <3>5 DEF Captures
    <2>11. Copies'
      BY <1>2, <1>7, <2>3, <2>5, <2>6 DEF Copies
    <2>12. Logged'
      <3>1. ASSUME NEW s \in Seats, NEW m \in Cells, m < tick[Host]
            PROVE  cells'[Host][s][m] = cells[Host][s][m]
        <4>1. m # n
          <5>1. tick[Host] <= w + 1
            BY <1>2, SeatFacts DEF Pace
          <5>2. m < w + 1
            <6> HIDE DEF w
            <6> QED BY <1>3, <3>1, <5>1, CellsNat
          <5> HIDE DEF w, n
          <5> QED BY <1>3, <2>2, <5>2, CellsNat
        <4> QED BY <2>4, <2>5, <4>1, SeatFacts
      <3>2. \A s \in Seats, m \in Cells : m < tick[Guest] => cells'[Guest][s][m] = cells[Guest][s][m]
        BY <2>5, SeatFacts
      <3>3. LoggedAt(Guest)'
        BY <1>2, <1>7, <3>2, SeatFacts, LoggedKept DEF Logged
      <3>4. LoggedAt(Host)'
        BY <1>2, <1>7, <3>1, SeatFacts, LoggedKept DEF Logged
      <3> QED BY <3>3, <3>4 DEF Logged
    <2>13. Going'
      <3> DEFINE al == pc[Host] # "off"
                 b == base[Host]
                 s == Start(Host)
                 r == resume[Host]
                 u == Fresh
                 q == chan[Guest]
                 e == line[Guest]
      <3>1. Down(q, e, E, w, r, u, b, s, al)
        BY <1>2 DEF Going
      <3>2. \A f \in Frames, l \in Nat : Fits(f, l, E, w, r, u, b, s) => Fits(f, l, E, n, r, u, b, s)
        <4> SUFFICES ASSUME NEW f \in Frames, NEW l \in Nat, Fits(f, l, E, w, r, u, b, s)
                     PROVE  Fits(f, l, E, n, r, u, b, s)
          OBVIOUS
        <4>1. f.tick \in Nat
          BY DEF Frames
        <4> HIDE DEF w, n, E, r, u, b, s
        <4>2. w < n /\ n \in Nat
          BY <1>1, <1>3, <2>2
        <4>3. f.tick + (1 + Delay) <= w => f.tick + (1 + Delay) <= n
          BY <1>3, <4>1, <4>2, Constants
        <4>4. f.tick + 2 * Delay <= w => f.tick + 2 * Delay <= n
          BY <1>3, <4>1, <4>2, Constants
        <4> QED BY <4>3, <4>4 DEF Fits
      <3>3. q \in Seq(Frames) /\ e \in Nat /\ E \in Nat
        BY <1>3
      <3>4. Down(q, e, E, n, r, u, b, s, al)
        <4> HIDE DEF w, n, E, r, u, b, s, q, e, al
        <4> QED BY <3>1, <3>2, <3>3, DownKept
      <3> QED BY <1>1, <1>7, <1>8, <2>3, <3>4 DEF Going
    <2>14. Coming'
      <3>1. Rising(Tail(p), line[Guest], E, n)
        <4> DEFINE t == Tail(p)
        <4>1. t \in Seq(Frames)
          BY <1>1, QueueTail
        <4>2. Rising(t, line[Guest], E, w)
          BY <1>4
        <4>3. w < n /\ n \in Nat
          BY <1>1, <1>3, <2>2
        <4> HIDE DEF t, E, w, n
        <4>4. ASSUME NEW k \in 1..Len(t) PROVE t[k].tick <= w => t[k].tick <= n
          <5>1. t[k].tick \in Nat
            BY <4>1, ElementOfSeq DEF Frames
          <5> QED BY <1>3, <4>3, <5>1
        <4>5. Rising(t, line[Guest], E, n)
          BY <4>2, <4>4 DEF Rising
        <4> QED BY <4>5 DEF t
      <3> QED BY <1>1, <1>7, <2>3, <3>1 DEF Coming
    <2>15. Flowing'
      BY <1>1, <1>2, <1>7, <1>8, <2>2, <2>3, <2>5, <2>7 DEF Flowing
    <2> HIDE DEF p, n, v, w, E, own, cop, cop2, lg
    <2>16. Playing'
      BY <2>8, <2>9, <2>10, <2>11, <2>12, <2>13, <2>14, <2>15 DEF Playing, Wires
    <2> QED BY <1>7, <2>8, <2>16 DEF StoryInv
  <1> QED BY <1>9, <1>10

LEMMA OnInputStory ==
  ASSUME ImageInv, ImageInv', StoryInv, ~dropped[Guest], NEW c \in Seats, OnInput(c)
  PROVE  StoryInv'
  <1>1. CASE c = Host
    BY <1>1, HostInput
  <1>2. CASE c = Guest
    BY <1>2, GuestInputNow, GuestInputBehind
  <1> QED BY <1>1, <1>2, SeatFacts

\* END finds the guest held with the whole image: it rebases to the tick that
\* BEGIN gave.
LEMMA EndStep ==
  ASSUME ImageInv, ~dropped[Guest], NEW c \in Seats, OnEnd(c)
  PROVE  /\ c = Guest /\ hold[Guest]
         /\ chan[Guest] \in Seq(Frames) /\ chan[Guest] # <<>> /\ chan[Guest][1].type = "END"
         /\ chan[Guest][1].val \in Nat
         /\ chan'[Guest] = Tail(chan[Guest]) /\ chan'[Host] = chan[Host]
         /\ tick'[Guest] = resume[Guest] /\ tick'[Host] = tick[Host]
         /\ wm'[Guest] = resume[Guest] + (Delay - 1) /\ wm'[Host] = wm[Host]
         /\ cells'[Guest] = NoCells /\ cells'[Host] = cells[Host]
         /\ line'[Guest] = line[Guest] + 1 /\ line'[Host] = line[Host]
         /\ base'[Guest] = chan[Guest][1].val /\ base'[Host] = base[Host]
         /\ log' = [log EXCEPT ![Guest] = <<>>] /\ ~hold'[Guest]
         /\ UNCHANGED <<pc, resume, dropped, glitches, pushes>>
  <1> DEFINE out == <<>>
             type == "END"
             q == chan[Guest]
             p == chan[Host]
             f == Head(chan[c])
  <1>1. Take(c, type, out) /\ out \in Seq(Frames)
    BY EmptyQueue DEF OnEnd
  <1>2. c = Guest
    <2> SUFFICES ASSUME c = Host PROVE FALSE
      BY SeatFacts
    <2>1. Take(Host, type, <<>>)
      BY <1>1
    <2>2. type \notin Plain
      BY DEF Plain
    <2> HIDE DEF type
    <2> QED BY <2>1, <2>2, HostTakes
  <1>3. p \in Seq(Frames)
    BY SeatFacts DEF ImageInv, Basics
  <1>4. p \o out = p
    BY <1>3, ConcatEmptySeq
  <1>5. /\ q \in Seq(Frames) /\ q # <<>> /\ q[1].type = type /\ q[1] \in Frames /\ f = q[1]
        /\ chan'[Guest] = Tail(q) /\ chan'[Host] = p /\ pc' = pc
    <2> HIDE DEF out, type
    <2>1. /\ chan[c] \in Seq(Frames) /\ chan[c] # <<>> /\ chan[c][1].type = type /\ chan[c][1] \in Frames
          /\ Head(chan[c]) = chan[c][1]
          /\ chan'[c] = Tail(chan[c]) /\ chan'[Peer(c)] = chan[Peer(c)] \o out /\ pc' = pc
      BY <1>1, TakeStep
    <2> QED BY <1>2, <1>4, <2>1, SeatFacts
  <1>6. hold[Guest] /\ applied = NChunks
    <2> DEFINE h == hold[Guest]
               n == applied
               k == pc[Host]
               d == dropped[Guest]
    <2>1. Pushes(q, h, n, k, d) /\ n \in 0..NChunks
      BY GuestQueue
    <2>2. q \in Seq(Frames) /\ q # <<>> /\ q[1].type = "END"
      BY <1>5
    <2> HIDE DEF h, n, k, d, q
    <2>3. h /\ n = NChunks
      BY <2>1, <2>2, HeadEnd
    <2> QED BY <2>3 DEF h, n
  <1>7. ~spoiled
    BY DEF ImageInv, Still
  <1>8. q[1].val \in Nat
    BY <1>5 DEF Frames, Others
  <1>9. Rebase(c, resume[c], f.val) /\ UNCHANGED <<resume, dropped, glitches, pushes>>
    BY <1>2, <1>6, <1>7 DEF OnEnd
  <1>10. /\ tick' = [tick EXCEPT ![c] = resume[c]]
         /\ wm' = [wm EXCEPT ![c] = resume[c] + Delay - 1]
         /\ cells' = [cells EXCEPT ![c] = NoCells]
         /\ line' = [line EXCEPT ![c] = @ + 1]
         /\ log' = [log EXCEPT ![c] = <<>>]
         /\ base' = [base EXCEPT ![c] = f.val]
         /\ hold' = [hold EXCEPT ![c] = FALSE]
    BY <1>9 DEF Rebase, RebasedWM
  <1>11. resume[Guest] + Delay - 1 = resume[Guest] + (Delay - 1)
    BY SeatFacts, Constants DEF ImageInv, Basics
  <1>12. /\ tick \in [Seats -> Nat] /\ wm \in [Seats -> Nat] /\ line \in [Seats -> Nat]
         /\ base \in [Seats -> Nat] /\ hold \in [Seats -> BOOLEAN] /\ DOMAIN cells = Seats
    BY DEF ImageInv, Basics
  <1> HIDE DEF f
  <1>13. /\ tick'[Guest] = resume[Guest] /\ tick'[Host] = tick[Host]
         /\ wm'[Guest] = resume[Guest] + Delay - 1 /\ wm'[Host] = wm[Host]
         /\ line'[Guest] = line[Guest] + 1 /\ line'[Host] = line[Host]
    BY <1>2, <1>10, <1>12, SeatFacts
  <1>14. /\ base'[Guest] = f.val /\ base'[Host] = base[Host] /\ ~hold'[Guest]
    BY <1>2, <1>10, <1>12, SeatFacts
  <1>15. cells'[Guest] = NoCells /\ cells'[Host] = cells[Host]
    <2>1. cells \in [Seats -> [Seats -> [Cells -> Nat \X Nat]]]
      BY DEF ImageInv, Basics
    <2> QED BY <1>2, <1>10, <2>1, SeatFacts
  <1> QED BY <1>2, <1>5, <1>6, <1>8, <1>9, <1>10, <1>11, <1>13, <1>14, <1>15 DEF f

LEMMA NoCellsIdle == \A s \in Seats, n \in Cells : NoCells[s][n] = Idle
  BY DEF NoCells, Cells

\* The log of a console that starts afresh.
LEMMA LoggedFresh ==
  ASSUME NEW d \in Seats, tick'[d] \in Nat, log'[d] = <<>>
  PROVE  LoggedAt(d)' /\ Start(d)' = tick'[d]
  <1>1. Len(log'[d]) = 0
    OBVIOUS
  <1> DEFINE t == tick'[d]
  <1>2. Start(d)' = t - 0
    BY <1>1 DEF Start
  <1>3. t - 0 = t /\ t >= 0
    BY DEF t
  <1>4. \A i \in 1..Len(log'[d]) : FALSE
    BY <1>1
  <1> QED BY <1>2, <1>3, <1>4 DEF LoggedAt

LEMMA OnEndStory ==
  ASSUME ImageInv, ImageInv', StoryInv, ~dropped[Guest], NEW c \in Seats, OnEnd(c)
  PROVE  StoryInv'
  <1> DEFINE q == chan[Guest]
             p == chan[Host]
             R == resume[Guest]
             H == resume[Host]
             e == line[Guest]
             E == line[Host]
             w == wm[Host]
  <1>1. /\ hold[Guest]
        /\ q \in Seq(Frames) /\ q # <<>> /\ q[1].type = "END" /\ q[1].val \in Nat
        /\ chan'[Guest] = Tail(q) /\ chan'[Host] = p
        /\ tick'[Guest] = R /\ tick'[Host] = tick[Host]
        /\ wm'[Guest] = R + (Delay - 1) /\ wm'[Host] = w
        /\ cells'[Guest] = NoCells /\ cells'[Host] = cells[Host]
        /\ line'[Guest] = e + 1 /\ line'[Host] = E
        /\ base'[Guest] = q[1].val /\ base'[Host] = base[Host]
        /\ log' = [log EXCEPT ![Guest] = <<>>] /\ ~hold'[Guest]
        /\ pc' = pc /\ resume' = resume /\ dropped' = dropped /\ glitches' = glitches /\ pushes' = pushes
    BY EndStep
  <1>2. Logs /\ Known /\ Room /\ Pace /\ Captures /\ Going /\ Coming /\ Flowing /\ Copies /\ Logged /\ Names
    BY DEF StoryInv, Playing, Wires
  <1>3. /\ w \in Nat /\ E \in Nat /\ e \in Nat /\ R \in Nat /\ H \in Nat /\ tick[Host] \in Nat
        /\ p \in Seq(Frames)
    BY <1>2, Scalars
  <1>4. /\ e < E /\ w = H + (Delay - 1) /\ tick[Host] >= H
        /\ IF e + 1 < E THEN R + 2 * Delay <= w ELSE R = H
    BY <1>1, <1>2 DEF Pace
  <1>5. e + 1 <= E /\ (~(e + 1 < E) <=> e + 1 = E)
    <2> HIDE DEF e, E
    <2> QED BY <1>3, <1>4
  <1>6. /\ q[1].val < Fresh /\ (q[1].val = base[Host] => e + 1 = E /\ Start(Host) = H)
        /\ Down(Tail(q), e + 1, E, w, H, Fresh, base[Host], Start(Host), pc[Host] # "off")
    <2> DEFINE x == IF q[1].type = "END" THEN e + 1 ELSE e
    <2>1. /\ Fits(q[1], e, E, w, H, Fresh, base[Host], Start(Host))
          /\ Down(Tail(q), x, E, w, H, Fresh, base[Host], Start(Host), pc[Host] # "off")
      BY <1>1, <1>2, <1>3, DownTake DEF Going
    <2>2. x = e + 1
      BY <1>1
    <2> HIDE DEF x
    <2> QED BY <1>1, <2>1, <2>2 DEF Fits
  <1>7. log'[Guest] = <<>> /\ log'[Host] = log[Host] /\ Logs'
    <2>1. log \in [Seats -> Seq([Seats -> Nat \X Nat])]
      BY <1>2 DEF Logs
    <2>2. <<>> \in Seq([Seats -> Nat \X Nat])
      OBVIOUS
    <2> DEFINE z == <<>>
    <2>3. log' = [log EXCEPT ![Guest] = z] /\ z \in Seq([Seats -> Nat \X Nat])
      BY <1>1, <2>2
    <2> HIDE DEF z
    <2>4. log'[Guest] = z /\ log'[Host] = log[Host] /\ log' \in [Seats -> Seq([Seats -> Nat \X Nat])]
      BY <2>1, <2>3, SeatFacts
    <2> QED BY <2>4 DEF Logs, z
  <1>8. \A s \in Seats, m \in Cells : cells'[Guest][s][m] = Idle
    BY <1>1, NoCellsIdle
  <1>9. /\ Last(Host)' = Last(Host) /\ Start(Host)' = Start(Host) /\ Fresh' = Fresh
        /\ Last(Guest)' = IF pc[Guest] \in {"gate", "stall", "off"} THEN R + Delay ELSE R + (Delay - 1)
    BY <1>1, <1>7 DEF Last, Start, Fresh
  <1>10. LoggedAt(Guest)' /\ Start(Guest)' = R
    BY <1>1, <1>3, <1>7, SeatFacts, LoggedFresh
  <1>11. LoggedAt(Host)'
    BY <1>1, <1>2, <1>7, SeatFacts, LoggedKept DEF Logged
  <1>12. R + (Delay - 1) \in Nat /\ R + (Delay - 1) <= R + Delay /\ R <= (R + (Delay - 1)) + 1
    <2> HIDE DEF R
    <2> QED BY <1>3, Constants
  <1>13. Known'
    BY <1>1, <1>2, <1>6, <1>9, SeatFacts DEF Known
  <1>14. Names'
    <2>1. base'[Guest] = base'[Host] => e + 1 = E /\ Start(Host) = H
      BY <1>1, <1>6
    <2>2. e + 1 = E => R = H
      BY <1>4, <1>5
    <2> QED BY <1>1, <1>9, <1>10, <2>1, <2>2 DEF Names
  <1>15. Room'
    BY <1>1, <1>2 DEF Room
  <1>16. Pace'
    <2>1. \A d \in Seats : tick'[d] <= wm'[d] + 1
      <3>1. tick[Host] <= w + 1
        BY <1>2, SeatFacts DEF Pace
      <3> QED BY <1>1, <1>12, <3>1, SeatFacts
    <2>2. e + 1 < E => (R + (Delay - 1)) + (1 + Delay) <= w
      <3> HIDE DEF e, E, R, w
      <3>1. (R + (Delay - 1)) + (1 + Delay) = R + 2 * Delay
        BY <1>3, Constants
      <3> QED BY <1>4, <3>1
    <2>3. w >= H + (Delay - 1)
      BY <1>2 DEF Pace
    <2> QED BY <1>1, <1>4, <1>5, <2>1, <2>2, <2>3 DEF Pace
  <1>17. Captures'
    <2>1. ASSUME NEW d \in Seats, NEW m \in Cells, cells'[d][d][m] # Idle PROVE m <= Last(d)'
      <3>1. d = Host
        BY <1>8, <2>1, SeatFacts
      <3>2. cells[Host][Host][m] # Idle
        BY <1>1, <2>1, <3>1
      <3>3. m <= Last(Host)
        BY <1>2, <3>2, SeatFacts DEF Captures
      <3> QED BY <1>9, <3>1, <3>3
    <2>2. ASSUME NEW d \in Seats, NEW m \in Cells, m > wm'[d] PROVE cells'[d][Peer(d)][m] = Idle
      <3>1. CASE d = Guest
        BY <1>8, <3>1, SeatFacts
      <3>2. CASE d = Host
        BY <1>1, <1>2, <2>2, <3>2, SeatFacts DEF Captures
      <3> QED BY <3>1, <3>2, SeatFacts
    <2>3. \A m \in Cells : m < resume'[Host] + Delay => cells'[Host][Host][m] = Idle
      BY <1>1, <1>2 DEF Captures
    <2>4. line'[Guest] = line'[Host] => wm'[Host] <= Last(Guest)' /\ wm'[Guest] <= Last(Host)'
      <3> SUFFICES ASSUME e + 1 = E
                   PROVE  wm'[Host] <= Last(Guest)' /\ wm'[Guest] <= Last(Host)'
        BY <1>1
      <3>1. R = H /\ w = R + (Delay - 1)
        BY <1>4, <1>5
      <3>2. w <= Last(Guest)'
        <4>1. R + (Delay - 1) <= R + (Delay - 1)
          BY <1>12
        <4> QED BY <1>9, <1>12, <3>1, <4>1
      <3>3. R + (Delay - 1) <= Last(Host)
        <4> DEFINE t == tick[Host]
        <4>1. t \in Nat /\ t >= R
          BY <1>3, <1>4, <3>1
        <4> HIDE DEF t, R
        <4>2. R + (Delay - 1) <= t + Delay /\ R + (Delay - 1) <= t + (Delay - 1)
          BY <1>3, <4>1, Constants, SMTT(30)
        <4> QED BY <4>2 DEF Last, t
      <3> QED BY <1>1, <1>9, <3>2, <3>3
    <2>5. \A m \in Cells : cells'[Host][Guest][m] = Idle
      BY <1>1, <1>2, <1>4 DEF Captures
    <2> QED BY <2>1, <2>2, <2>3, <2>4, <2>5 DEF Captures
  <1>18. Copies'
    <2> SUFFICES ASSUME e + 1 = E, NEW m \in Cells
                 PROVE  /\ m <= wm'[Host] => cells'[Host][Guest][m] = cells'[Guest][Guest][m]
                        /\ m <= wm'[Guest] => cells'[Guest][Host][m] = cells'[Host][Host][m]
      BY <1>1 DEF Copies
    <2>1. cells'[Host][Guest][m] = Idle
      BY <1>1, <1>2, <1>4 DEF Captures
    <2>2. m <= R + (Delay - 1) => cells'[Host][Host][m] = Idle
      <3>1. R = H
        BY <1>4, <1>5
      <3>2. m <= H + (Delay - 1) => m < H + Delay
        <4> HIDE DEF H
        <4> QED BY <1>3, CellsNat, Constants
      <3> QED BY <1>1, <1>2, <3>1, <3>2 DEF Captures
    <2> QED BY <1>1, <1>8, <2>1, <2>2, SeatFacts
  <1>19. \A k \in 1..Len(p) : p[k].type = "INPUT" => Of(p[k]) <= e + 1 /\ Of(p[k]) # E /\ p[k].tick <= w
    <2> SUFFICES ASSUME NEW k \in 1..Len(p), p[k].type = "INPUT"
                 PROVE  Of(p[k]) <= e + 1 /\ Of(p[k]) # E /\ p[k].tick <= w
      OBVIOUS
    <2> DEFINE x == Of(p[k])
    <2>1. p[k] \in Frames
      BY <1>3, ElementOfSeq
    <2>2. x \in Int
      BY <2>1 DEF Of, Frames, Others
    <2>3. x <= e /\ (x < E => p[k].tick <= w)
      BY <1>2 DEF Coming, Rising
    <2> HIDE DEF x, e, E
    <2>4. x <= e + 1 /\ x < E /\ x # E
      BY <1>3, <1>4, <2>2, <2>3
    <2> QED BY <2>3, <2>4 DEF x
  <1>20. Going'
    BY <1>1, <1>6, <1>9 DEF Going
  <1>21. Coming'
    BY <1>1, <1>19 DEF Coming, Rising
  <1>22. Flowing'
    <2>1. Reach = H + (Delay - 1) /\ Reach' = Reach
      <3>1. Reach = H + (Delay - 1)
        BY <1>3, <1>4 DEF Reach
      <3>2. Reach' = IF e + 1 = E THEN R + (Delay - 1) ELSE H + (Delay - 1)
        BY <1>1 DEF Reach
      <3> QED BY <1>4, <1>5, <3>1, <3>2
    <2>2. Flow(Tail(q), E, cells[Host][Host], Reach, Last(Host), pc[Host] # "off")
      <3>1. Flow(q, E, cells[Host][Host], Reach, Last(Host), pc[Host] # "off")
        BY <1>2 DEF Flowing
      <3>2. q[1].type # "INPUT"
        BY <1>1
      <3> HIDE DEF q, E
      <3> QED BY <1>1, <3>1, <3>2, FlowPass
    <2>3. Flow(p, E, cells'[Guest][Guest], w, Last(Guest)', e + 1 = E)
      <3> DEFINE own == cells'[Guest][Guest]
                 l == Last(Guest)'
                 whole == e + 1 = E
      <3>1. \A n \in Cells : own[n] = Idle
        BY <1>8, SeatFacts
      <3>2. \A k \in 1..Len(p) : p[k].type = "INPUT" => Of(p[k]) # E
        BY <1>19
      <3> HIDE DEF own, l, whole, p, E, w
      <3>3. Flow(p, E, own, w, l, whole)
        BY <3>1, <3>2, FlowNone
      <3> QED BY <3>3 DEF own, l, whole
    <2> QED BY <1>1, <1>9, <2>1, <2>2, <2>3 DEF Flowing
  <1> HIDE DEF q, p, R, H, e, E, w
  <1>23. Playing'
    BY <1>10, <1>11, <1>14, <1>15, <1>16, <1>17, <1>18, <1>20, <1>21, <1>22 DEF Playing, Wires, Logged
  <1> QED BY <1>1, <1>7, <1>13, <1>23 DEF StoryInv

\* One frame is sent.
LEMMA SendOne ==
  ASSUME ImageInv, NEW c \in Seats, NEW f, chan' = Send(c, <<f>>)
  PROVE  chan'[Peer(c)] = chan[Peer(c)] \o <<f>> /\ chan'[c] = chan[c]
  <1> DEFINE o == <<f>>
             d == Peer(c)
  <1>1. chan' = [chan EXCEPT ![d] = @ \o o] /\ chan \in [Seats -> Seq(Frames)] /\ d \in Seats /\ d # c
    BY SeatFacts DEF Send, ImageInv, Basics
  <1> HIDE DEF o, d
  <1>2. chan'[d] = chan[d] \o o /\ chan'[c] = chan[c]
    BY <1>1
  <1> QED BY <1>2 DEF o, d

\* The tick a console captures for, and the frame it sends.
CapTick(c) == tick[c] + Delay
CapFrame(c) == Frame("INPUT", CapTick(c), Capture(line[c], CapTick(c)))

LEMMA CaptureStep ==
  ASSUME ImageInv, NEW c \in Seats, CaptureInput(c)
  PROVE  /\ pc[c] = "pump" /\ pc'[c] = "gate" /\ pc'[Peer(c)] = pc[Peer(c)]
         /\ CapTick(c) \in Nat /\ CapFrame(c) \in Frames /\ CapFrame(c).type = "INPUT" /\ CapFrame(c).tick = CapTick(c) /\ Of(CapFrame(c)) = line[c]
         /\ CapFrame(c).val \in Nat \X Nat
         /\ cells' = [cells EXCEPT ![c][c][CapTick(c)] = CapFrame(c).val]
         /\ chan'[Peer(c)] = chan[Peer(c)] \o <<CapFrame(c)>> /\ chan'[c] = chan[c]
         /\ UNCHANGED <<tick, wm, line, log, hold, resume, dropped, base, glitches, pushes>>
  <1> DEFINE n == CapTick(c)
             f == CapFrame(c)
  <1>1. /\ pc[c] = "pump" /\ pc' = [pc EXCEPT ![c] = "gate"]
        /\ cells' = [cells EXCEPT ![c][c][n] = Capture(line[c], n)]
        /\ chan' = Send(c, <<f>>)
        /\ UNCHANGED <<tick, wm, line, log, hold, resume, dropped, base, glitches, pushes>>
    BY DEF CaptureInput, DonePumping, recovery, image, CapTick, CapFrame
  <1>2. tick[c] \in Nat /\ line[c] \in Nat
    BY DEF ImageInv, Basics
  <1>3. n \in Nat /\ line[c] + 1 \in Nat /\ (line[c] + 1) - 1 = line[c]
    BY <1>2, Constants DEF CapTick
  <1> HIDE DEF n
  <1>4. pc'[c] = "gate" /\ pc'[Peer(c)] = pc[Peer(c)]
    BY <1>1, SeatFacts DEF ImageInv, Basics
  <1>5. /\ f.type = "INPUT" /\ f.tick = n /\ f.val = <<line[c] + 1, n>> /\ f.val \in Nat \X Nat /\ f \in Frames
    BY <1>3 DEF n, CapFrame, Frame, Capture, Frames
  <1>6. Of(f) = line[c]
    BY <1>3, <1>5 DEF Of
  <1>7. chan' = Send(c, <<f>>) /\ cells' = [cells EXCEPT ![c][c][n] = f.val]
    BY <1>1, <1>5 DEF Capture
  <1>8. chan'[Peer(c)] = chan[Peer(c)] \o <<f>> /\ chan'[c] = chan[c]
    BY <1>7, SendOne
  <1> QED BY <1>1, <1>3, <1>4, <1>5, <1>6, <1>7, <1>8 DEF n

\* A capture, as the cells see it: beyond everything captured, copied or run.
LEMMA CaptureCells ==
  ASSUME ImageInv, ImageInv', StoryInv, ~dropped[Guest], NEW c \in Seats, CaptureInput(c)
  PROVE  /\ CapTick(c) \in Cells /\ CapTick(c) > Last(c) /\ Last(c)' = CapTick(c) /\ Last(Peer(c))' = Last(Peer(c))
         /\ cells'[c][c] = [cells[c][c] EXCEPT ![CapTick(c)] = CapFrame(c).val]
         /\ cells'[Peer(c)] = cells[Peer(c)]
         /\ Logs' /\ Known' /\ Room' /\ Pace' /\ Captures' /\ Copies' /\ Logged' /\ Names'
  <1> DEFINE d == Peer(c)
             t == tick[c]
             n == CapTick(c)
             v == CapFrame(c).val
  <1>1. /\ pc[c] = "pump" /\ pc'[c] = "gate" /\ pc'[d] = pc[d]
        /\ n \in Nat /\ v \in Nat \X Nat
        /\ cells' = [cells EXCEPT ![c][c][n] = v]
        /\ tick' = tick /\ wm' = wm /\ line' = line /\ log' = log /\ hold' = hold /\ resume' = resume
        /\ dropped' = dropped /\ base' = base /\ glitches' = glitches /\ pushes' = pushes
    BY CaptureStep
  <1>2. Logs /\ Known /\ Room /\ Pace /\ Captures /\ Copies /\ Logged /\ Names
    BY DEF StoryInv, Playing
  <1>3. /\ t \in Nat /\ wm[Host] \in Nat /\ wm[Guest] \in Nat /\ line[Host] \in Nat /\ line[Guest] \in Nat
        /\ resume[Host] \in Nat /\ tick[Host] \in Nat /\ tick[Guest] \in Nat
        /\ Last(Host) \in Int /\ Last(Guest) \in Int
    BY <1>2, Scalars, SeatFacts
  <1>4. d \in Seats /\ d # c /\ \A x \in Seats : x = c \/ x = d
    BY SeatFacts
  <1>5. n \in Cells
    <2>1. t <= MaxTick + Lead
      <3>1. CASE c = Host
        <4>1. t < MaxTick
          BY <1>1, <1>2, <3>1 DEF Room
        <4> HIDE DEF t
        <4> QED BY <1>3, <4>1, Constants
      <3>2. CASE c = Guest
        BY <1>1, <1>2, <3>2 DEF Room, Top
      <3> QED BY <3>1, <3>2, SeatFacts
    <2>2. n = t + Delay
      BY DEF CapTick
    <2> HIDE DEF t
    <2> QED BY <1>1, <1>3, <2>1, <2>2, Constants DEF Cells
  <1>6. Last(c) = t + (Delay - 1) /\ Last(c)' = n /\ Last(d)' = Last(d)
    BY <1>1, <1>4 DEF Last, CapTick
  <1>7. n > Last(c) /\ Last(c) \in Int /\ t <= n /\ n <= n
    <2>1. n = t + Delay
      BY DEF CapTick
    <2>2. n > t + (Delay - 1) /\ t <= n /\ t + (Delay - 1) \in Int /\ n <= n
      <3> HIDE DEF t
      <3> QED BY <1>1, <1>3, <2>1, Constants
    <2> QED BY <1>6, <2>2
  <1>8. /\ cells'[c][c] = [cells[c][c] EXCEPT ![n] = v]
        /\ \A m \in Cells : m # n => cells'[c][c][m] = cells[c][c][m]
        /\ \A x, y \in Seats : x # c \/ y # c => cells'[x][y] = cells[x][y]
    <2>1. cells \in [Seats -> [Seats -> [Cells -> Nat \X Nat]]]
      BY DEF ImageInv, Basics
    <2>2. cells' = [cells EXCEPT ![c][c][n] = v] /\ v \in Nat \X Nat
      BY <1>1
    <2> DEFINE x == cells
               y == cells'
               s == c
    <2>3. /\ x \in [Seats -> [Seats -> [Cells -> Nat \X Nat]]] /\ y = [x EXCEPT ![c][s][n] = v]
          /\ v \in Nat \X Nat /\ s \in Seats
      BY <2>1, <2>2
    <2> HIDE DEF v, d, t, n, x, y, s
    <2>4. /\ \A m \in Cells : m # n => y[c][s][m] = x[c][s][m]
          /\ \A a, b \in Seats : a # c \/ b # s => y[a][b] = x[a][b]
      BY <2>3, CellAt
    <2>5. y[c][s] = [x[c][s] EXCEPT ![n] = v]
      BY <2>3
    <2> QED BY <2>4, <2>5 DEF x, y, s
  <1>9. cells'[d] = cells[d]
    <2>1. cells \in [Seats -> [Seats -> [Cells -> Nat \X Nat]]]
      BY DEF ImageInv, Basics
    <2> DEFINE z == [cells[c] EXCEPT ![c][n] = v]
    <2>2. cells' = [cells EXCEPT ![c] = z]
      BY <1>1
    <2> HIDE DEF z, d
    <2> QED BY <1>4, <2>1, <2>2
  <1>10. /\ cells'[Host][Guest] = cells[Host][Guest] /\ cells'[Guest][Host] = cells[Guest][Host]
    BY <1>8, SeatFacts
  <1>11. Start(Host)' = Start(Host) /\ Start(Guest)' = Start(Guest) /\ Fresh' = Fresh
    BY <1>1 DEF Start, Fresh
  <1>12. Logs' /\ Known' /\ Names'
    BY <1>1, <1>2, <1>11 DEF Logs, Known, Names
  <1>13. Room'
    <2>1. \A x \in Seats : /\ pc'[x] \in {"pump", "gate", "stall"} => pc[x] \in {"pump", "gate", "stall"}
                           /\ pc'[x] = "after" => pc[x] = "after"
      BY <1>1, <1>4
    <2> QED BY <1>1, <1>2, <2>1, SeatFacts DEF Room
  <1>14. Pace'
    BY <1>1, <1>2 DEF Pace
  <1>15. \A m \in Cells : m <= Last(c) => cells'[c][c][m] = cells[c][c][m]
    <2> SUFFICES ASSUME NEW m \in Cells, m <= Last(c) PROVE m # n
      BY <1>8
    <2> DEFINE l == Last(c)
    <2>1. l \in Int /\ n > l /\ m <= l
      BY <1>7
    <2> HIDE DEF l
    <2> QED BY <1>1, <2>1, CellsNat
  <1>16. Captures'
    <2>1. ASSUME NEW x \in Seats, NEW m \in Cells, cells'[x][x][m] # Idle PROVE m <= Last(x)'
      <3>1. CASE x = d
        <4>1. cells[x][x][m] # Idle
          BY <1>9, <2>1, <3>1
        <4>2. m <= Last(d)
          BY <1>2, <3>1, <4>1 DEF Captures
        <4> QED BY <1>6, <3>1, <4>2
      <3>2. CASE x = c /\ m = n
        BY <1>6, <1>7, <3>2
      <3>3. CASE x = c /\ m # n
        <4>1. cells[c][c][m] # Idle
          BY <1>8, <2>1, <3>3
        <4> DEFINE l == Last(c)
        <4>2. m <= l /\ l \in Int /\ n > l
          BY <1>2, <1>7, <4>1 DEF Captures
        <4> HIDE DEF l
        <4>3. m <= n
          BY <1>1, <4>2, CellsNat
        <4> QED BY <1>6, <3>3, <4>3
      <3> QED BY <1>4, <3>1, <3>2, <3>3
    <2>2. \A x \in Seats, m \in Cells : m > wm'[x] => cells'[x][Peer(x)][m] = Idle
      <3>1. \A x \in Seats : cells'[x][Peer(x)] = cells[x][Peer(x)]
        BY <1>10, SeatFacts
      <3> QED BY <1>1, <1>2, <3>1 DEF Captures
    <2>3. ASSUME NEW m \in Cells, m < resume'[Host] + Delay PROVE cells'[Host][Host][m] = Idle
      <3>1. cells[Host][Host][m] = Idle
        BY <1>1, <1>2, <2>3 DEF Captures
      <3>2. CASE c = Guest
        BY <1>8, <3>1, <3>2, SeatFacts
      <3>3. CASE c = Host
        <4>1. m # n
          <5> DEFINE h == resume[Host]
          <5>1. h <= t /\ m < h + Delay /\ h \in Nat /\ n = t + Delay
            BY <1>1, <1>2, <1>3, <2>3, <3>3 DEF Pace, CapTick
          <5> HIDE DEF h, t
          <5> QED BY <1>3, <5>1, CellsNat, Constants
        <4> QED BY <1>8, <3>1, <3>3, <4>1
      <3> QED BY <3>2, <3>3, SeatFacts
    <2>4. line'[Guest] = line'[Host] => wm'[Host] <= Last(Guest)' /\ wm'[Guest] <= Last(Host)'
      <3> SUFFICES ASSUME line[Guest] = line[Host]
                   PROVE  wm[Host] <= Last(Guest)' /\ wm[Guest] <= Last(Host)'
        BY <1>1
      <3>1. wm[d] <= Last(c) /\ wm[c] <= Last(d)
        BY <1>2, SeatFacts DEF Captures
      <3> DEFINE l == Last(c)
                 u == wm[d]
      <3>2. l \in Int /\ n > l /\ u <= l /\ u \in Nat
        BY <1>3, <1>7, <3>1, SeatFacts
      <3> HIDE DEF l, u
      <3>3. u <= n
        BY <1>1, <3>2
      <3>4. wm[d] <= Last(c)' /\ wm[c] <= Last(d)'
        BY <1>6, <3>1, <3>3 DEF u
      <3> QED BY <3>4, SeatFacts
    <2>5. line'[Guest] < line'[Host] => \A m \in Cells : cells'[Host][Guest][m] = Idle
      BY <1>1, <1>2, <1>10 DEF Captures
    <2> QED BY <2>1, <2>2, <2>3, <2>4, <2>5 DEF Captures
  <1>17. Copies'
    <2> SUFFICES ASSUME line[Guest] = line[Host], NEW m \in Cells
                 PROVE  /\ m <= wm[Host] => cells'[Host][Guest][m] = cells'[Guest][Guest][m]
                        /\ m <= wm[Guest] => cells'[Guest][Host][m] = cells'[Host][Host][m]
      BY <1>1 DEF Copies
    <2>1. /\ m <= wm[Host] => cells[Host][Guest][m] = cells[Guest][Guest][m]
          /\ m <= wm[Guest] => cells[Guest][Host][m] = cells[Host][Host][m]
      BY <1>2 DEF Copies
    <2>2. m <= wm[d] => cells'[c][c][m] = cells[c][c][m]
      <3> DEFINE l == Last(c)
                 u == wm[d]
      <3>1. u <= l /\ l \in Int /\ u \in Nat
        BY <1>2, <1>3, <1>7, SeatFacts DEF Captures
      <3> HIDE DEF l, u
      <3>2. m <= u => m <= l
        BY <3>1, CellsNat
      <3> QED BY <1>15, <3>2 DEF l, u
    <2>3. cells'[d][d][m] = cells[d][d][m]
      BY <1>9
    <2>4. CASE c = Host
      BY <1>10, <2>1, <2>2, <2>3, <2>4, SeatFacts
    <2>5. CASE c = Guest
      BY <1>10, <2>1, <2>2, <2>3, <2>5, SeatFacts
    <2> QED BY <2>4, <2>5, SeatFacts
  <1>18. ASSUME NEW x \in Seats PROVE LoggedAt(x)'
    <2>1. LoggedAt(x) /\ tick'[x] = tick[x] /\ log'[x] = log[x]
      BY <1>1, <1>2, SeatFacts DEF Logged
    <2>2. ASSUME NEW s \in Seats, NEW m \in Cells, m < tick[x] PROVE cells'[x][s][m] = cells[x][s][m]
      <3>1. CASE x # c \/ s # c
        BY <1>8, <3>1
      <3>2. CASE x = c /\ s = c
        <4>1. m # n
          <5>1. m < t
            BY <2>2, <3>2
          <5> HIDE DEF t
          <5> QED BY <1>1, <1>3, <1>7, <5>1, CellsNat
        <4> QED BY <1>8, <3>2, <4>1
      <3> QED BY <3>1, <3>2
    <2> QED BY <1>2, <2>1, <2>2, LoggedKept
  <1>19. Logged'
    BY <1>18, SeatFacts DEF Logged
  <1> QED BY <1>5, <1>6, <1>7, <1>8, <1>9, <1>12, <1>13, <1>14, <1>16, <1>17, <1>19

\* One frame, as the lemmas about queues want it.
LEMMA OneFrame ==
  ASSUME NEW f \in Frames
  PROVE  <<f>> \in Seq(Frames) /\ Len(<<f>>) = 1 /\ \A i \in 1..Len(<<f>>) : i = 1 /\ <<f>>[i] = f
  OBVIOUS

LEMMA HostCapture ==
  ASSUME ImageInv, ImageInv', StoryInv, ~dropped[Guest], CaptureInput(Host)
  PROVE  Wires'
  <1> DEFINE q == chan[Guest]
             f == CapFrame(Host)
             n == CapTick(Host)
             o == <<f>>
             e == line[Guest]
             E == line[Host]
             own == cells[Host][Host]
             l == Last(Host)
             w == Reach
  <1>1. /\ pc[Host] = "pump" /\ pc'[Host] = "gate" /\ pc'[Guest] = pc[Guest]
        /\ n \in Nat /\ f \in Frames /\ f.type = "INPUT" /\ f.tick = n /\ Of(f) = E
        /\ chan'[Guest] = q \o o /\ chan'[Host] = chan[Host]
        /\ tick' = tick /\ wm' = wm /\ line' = line /\ log' = log /\ hold' = hold /\ resume' = resume
        /\ dropped' = dropped /\ base' = base /\ glitches' = glitches /\ pushes' = pushes
    BY SeatFacts, CaptureStep
  <1>2. /\ n \in Cells /\ n > l /\ Last(Host)' = n /\ Last(Guest)' = Last(Guest)
        /\ cells'[Host][Host] = [own EXCEPT ![n] = f.val]
        /\ cells'[Guest] = cells[Guest]
    BY SeatFacts, CaptureCells
  <1>3. Logs /\ Pace /\ Captures /\ Going /\ Coming /\ Flowing
    BY DEF StoryInv, Playing, Wires
  <1>4. /\ q \in Seq(Frames) /\ e \in Nat /\ E \in Nat /\ l \in Int /\ w \in Int /\ wm[Guest] \in Nat
        /\ resume[Host] \in Nat /\ tick[Host] \in Nat
    BY <1>3, Scalars
  <1>5. Start(Host)' = Start(Host) /\ Fresh' = Fresh /\ Reach' = Reach
    BY <1>1 DEF Start, Fresh, Reach
  <1>6. (pc[Host] # "off") = TRUE /\ (pc'[Host] # "off") = TRUE
    BY <1>1
  <1>7. o \in Seq(Frames) /\ \A i \in 1..Len(o) : o[i] = f
    BY <1>1, OneFrame
  <1>8. Going'
    <2> DEFINE u == wm[Host]
               r == resume[Host]
               v == Fresh
               b == base[Host]
               s == Start(Host)
    <2>1. Down(q, e, E, u, r, v, b, s, TRUE)
      BY <1>3, <1>6 DEF Going
    <2>2. f.type # "END" /\ Fits(f, E, E, u, r, v, b, s)
      <3>1. ~(E < E)
        BY <1>4
      <3> QED BY <1>1, <3>1 DEF Fits
    <2> HIDE DEF q, o, e, E, u, r, v, b, s, f
    <2>3. \A i \in 1..Len(o) : o[i].type # "END" /\ Fits(o[i], E, E, u, r, v, b, s)
      BY <1>7, <2>2
    <2>4. Down(q \o o, e, E, u, r, v, b, s, TRUE)
      BY <1>4, <1>7, <2>1, <2>3, DownMore
    <2> QED BY <1>1, <1>5, <1>6, <2>4 DEF Going, e, E, u, r, v, b, s
  <1>9. Coming'
    BY <1>1, <1>3 DEF Coming
  <1>10. n > w
    <2>1. CASE e = E
      <3>1. w <= l
        BY <1>3, <2>1 DEF Captures, Reach
      <3> HIDE DEF w, l, n
      <3> QED BY <1>1, <1>2, <1>4, <3>1
    <2>2. CASE e # E
      <3> DEFINE h == resume[Host]
                 t == tick[Host]
      <3>1. w = h + (Delay - 1) /\ h <= t /\ n = t + Delay /\ h \in Nat /\ t \in Nat
        BY <1>3, <1>4, <2>2 DEF Reach, Pace, CapTick
      <3> HIDE DEF w, h, t, n
      <3> QED BY <3>1, Constants
    <2> QED BY <2>1, <2>2
  <1>11. Flow(q \o o, E, [own EXCEPT ![n] = f.val], w, n, TRUE)
    <2>1. Flow(q, E, own, w, l, TRUE)
      BY <1>3, <1>6 DEF Flowing
    <2>2. own \in [Cells -> Nat \X Nat]
      BY SeatFacts DEF ImageInv, Basics
    <2>3. f \in Frames /\ f.type = "INPUT" /\ Of(f) = E /\ f.tick = n /\ n \in Cells /\ n > l
      BY <1>1, <1>2
    <2> HIDE DEF q, E, own, w, l, n, f
    <2> QED BY <1>4, <1>10, <2>1, <2>2, <2>3, FlowCapture
  <1>12. Flowing'
    <2>1. Flow(chan'[Guest], line'[Host], cells'[Host][Host], Reach', Last(Host)', pc'[Host] # "off")
      BY <1>1, <1>2, <1>5, <1>6, <1>11
    <2>2. Flow(chan'[Host], line'[Host], cells'[Guest][Guest], wm'[Host], Last(Guest)', line'[Guest] = line'[Host])
      BY <1>1, <1>2, <1>3 DEF Flowing
    <2> QED BY <2>1, <2>2 DEF Flowing
  <1> QED BY <1>8, <1>9, <1>12 DEF Wires

LEMMA GuestCapture ==
  ASSUME ImageInv, ImageInv', StoryInv, ~dropped[Guest], CaptureInput(Guest)
  PROVE  Wires'
  <1> DEFINE p == chan[Host]
             f == CapFrame(Guest)
             n == CapTick(Guest)
             o == <<f>>
             a == p \o o
             e == line[Guest]
             E == line[Host]
             own == cells[Guest][Guest]
             l == Last(Guest)
             w == wm[Host]
  <1>1. /\ pc[Guest] = "pump" /\ pc'[Guest] = "gate" /\ pc'[Host] = pc[Host]
        /\ n \in Nat /\ f \in Frames /\ f.type = "INPUT" /\ f.tick = n /\ Of(f) = e
        /\ chan'[Host] = a /\ chan'[Guest] = chan[Guest]
        /\ tick' = tick /\ wm' = wm /\ line' = line /\ log' = log /\ hold' = hold /\ resume' = resume
        /\ dropped' = dropped /\ base' = base /\ glitches' = glitches /\ pushes' = pushes
    BY SeatFacts, CaptureStep
  <1>2. /\ n \in Cells /\ n > l /\ Last(Guest)' = n /\ Last(Host)' = Last(Host)
        /\ cells'[Guest][Guest] = [own EXCEPT ![n] = f.val]
        /\ cells'[Host] = cells[Host]
    BY SeatFacts, CaptureCells
  <1>3. Logs /\ Pace /\ Captures /\ Going /\ Coming /\ Flowing
    BY DEF StoryInv, Playing, Wires
  <1>4. /\ p \in Seq(Frames) /\ e \in Nat /\ E \in Nat /\ l \in Int /\ w \in Nat /\ wm[Guest] \in Nat
        /\ tick[Guest] \in Nat
    BY <1>3, Scalars
  <1>5. Start(Host)' = Start(Host) /\ Fresh' = Fresh /\ Reach' = Reach
    BY <1>1 DEF Start, Fresh, Reach
  <1>6. o \in Seq(Frames) /\ \A i \in 1..Len(o) : o[i] = f
    BY <1>1, OneFrame
  <1>7. Going'
    BY <1>1, <1>3, <1>5 DEF Going
  <1>8. Rising(a, e, E, w)
    <2>1. e < E => n <= w
      <3> DEFINE t == tick[Guest]
                 u == wm[Guest]
      <3>1. t <= u + 1 /\ n = t + Delay /\ t \in Nat /\ u \in Nat
        BY <1>3, <1>4, SeatFacts DEF Pace, CapTick
      <3>2. e < E => u + (1 + Delay) <= w
        BY <1>3 DEF Pace
      <3> HIDE DEF t, u, n, w, e, E
      <3>3. n <= u + (1 + Delay)
        BY <3>1, Constants
      <3> QED BY <1>1, <1>4, <3>1, <3>2, <3>3, Constants
    <2>2. e <= e
      BY <1>4
    <2>3. Rising(p, e, E, w)
      BY <1>3 DEF Coming
    <2> HIDE DEF p, f, n, o, e, E, w
    <2>4. Rising(o, e, E, w)
      BY <1>1, <1>6, <2>1, <2>2 DEF Rising
    <2> QED BY <1>4, <1>6, <2>3, <2>4, RisingMore
  <1>9. Coming'
    BY <1>1, <1>8 DEF Coming
  <1>10. Flow(a, E, [own EXCEPT ![n] = f.val], w, n, e = E)
    <2>1. CASE e = E
      <3>1. Flow(p, E, own, w, l, TRUE)
        <4>1. (line[Guest] = line[Host]) = TRUE
          BY <2>1
        <4> QED BY <1>3, <4>1 DEF Flowing
      <3>2. own \in [Cells -> Nat \X Nat]
        BY SeatFacts DEF ImageInv, Basics
      <3>3. f \in Frames /\ f.type = "INPUT" /\ Of(f) = E /\ f.tick = n /\ n \in Cells /\ n > l
        BY <1>1, <1>2, <2>1
      <3>4. n > w /\ w \in Int
        <4>1. w <= l
          BY <1>3, <2>1 DEF Captures
        <4> HIDE DEF w, l, n
        <4> QED BY <1>1, <1>2, <1>4, <4>1
      <3>5. (e = E) = TRUE
        BY <2>1
      <3> HIDE DEF p, E, own, w, l, n, f
      <3>6. Flow(p \o <<f>>, E, [own EXCEPT ![n] = f.val], w, n, TRUE)
        BY <1>4, <3>1, <3>2, <3>3, <3>4, FlowCapture
      <3> QED BY <3>5, <3>6
    <2>2. CASE e # E
      <3>1. e < E
        BY <1>3, <1>4, <2>2 DEF Pace
      <3>2. a \in Seq(Frames)
        <4> HIDE DEF o, p
        <4> QED BY <1>4, <1>6, QueueConcat
      <3> HIDE DEF a, e, E, own, w, l, n, f
      <3>3. ASSUME NEW k \in 1..Len(a), a[k].type = "INPUT" PROVE Of(a[k]) # E
        <4>1. Of(a[k]) <= e
          BY <1>8, <3>3 DEF Rising
        <4>2. a[k] \in Frames
          BY <3>2, ElementOfSeq
        <4>3. Of(a[k]) \in Int
          BY <3>3, <4>2 DEF Of, Frames, Others
        <4> QED BY <1>4, <3>1, <4>1, <4>3
      <3> DEFINE own2 == [own EXCEPT ![n] = f.val]
                 whole == e = E
      <3>4. ~whole
        BY <2>2
      <3> HIDE DEF own2, whole
      <3>5. Flow(a, E, own2, w, n, whole)
        BY <3>3, <3>4, FlowNone
      <3> QED BY <3>5 DEF own2, whole
    <2> QED BY <2>1, <2>2
  <1>11. Flowing'
    <2>1. Flow(chan'[Host], line'[Host], cells'[Guest][Guest], wm'[Host], Last(Guest)', line'[Guest] = line'[Host])
      BY <1>1, <1>2, <1>10
    <2>2. Flow(chan'[Guest], line'[Host], cells'[Host][Host], Reach', Last(Host)', pc'[Host] # "off")
      BY <1>1, <1>2, <1>3, <1>5 DEF Flowing
    <2> QED BY <2>1, <2>2 DEF Flowing
  <1> QED BY <1>7, <1>9, <1>11 DEF Wires

LEMMA CaptureStory ==
  ASSUME ImageInv, ImageInv', StoryInv, ~dropped[Guest], NEW c \in Seats, CaptureInput(c)
  PROVE  StoryInv'
  <1>1. Logs' /\ Known' /\ Room' /\ Pace' /\ Captures' /\ Copies' /\ Logged' /\ Names'
    BY CaptureCells
  <1>2. Wires'
    <2>1. CASE c = Host
      BY <2>1, HostCapture
    <2>2. CASE c = Guest
      BY <2>2, GuestCapture
    <2> QED BY <2>1, <2>2, SeatFacts
  <1>3. dropped' = dropped
    BY DEF CaptureInput
  <1> QED BY <1>1, <1>2, <1>3 DEF StoryInv, Playing

\* The tick's checksum, if one is due.
LEMMA TickSends ==
  ASSUME ImageInv, NEW c \in Seats, RunTick(c)
  PROVE  \E o \in Seq(Frames) : /\ \A i \in 1..Len(o) : o[i].type = "CRC"
                                /\ chan'[Peer(c)] = chan[Peer(c)] \o o /\ chan'[c] = chan[c]
  <1>1. CASE chan' = chan
    <2> DEFINE o == <<>>
    <2>1. chan[Peer(c)] \in Seq(Frames)
      BY SeatFacts DEF ImageInv, Basics
    <2>2. chan[Peer(c)] \o o = chan[Peer(c)]
      BY <2>1, ConcatEmptySeq
    <2>3. o \in Seq(Frames) /\ \A i \in 1..Len(o) : o[i].type = "CRC"
      BY EmptyQueue
    <2> HIDE DEF o
    <2> QED BY <1>1, <2>2, <2>3
  <1>2. CASE chan' # chan
    <2>1. PICK v : chan' = Send(c, <<Frame("CRC", tick[c], v)>>) /\ v \in {Fresh, base[c]}
      BY <1>2, TickStep
    <2> DEFINE f == Frame("CRC", tick[c], v)
               o == <<f>>
    <2>2. v \in Nat /\ tick[c] \in Nat
      BY <2>1 DEF ImageInv, Basics, Fresh
    <2>3. f \in Frames /\ f.type = "CRC"
      BY <2>2 DEF Frame, Frames, Others
    <2>4. chan' = Send(c, <<f>>)
      BY <2>1
    <2> HIDE DEF f
    <2>5. chan'[Peer(c)] = chan[Peer(c)] \o <<f>> /\ chan'[c] = chan[c]
      BY <2>4, SendOne
    <2>6. o \in Seq(Frames) /\ \A i \in 1..Len(o) : o[i].type = "CRC"
      BY <2>3, OneFrame
    <2> HIDE DEF o
    <2> QED BY <2>5, <2>6 DEF o
  <1> QED BY <1>1, <1>2

\* The names and the logs after a tick: it went right, and the log is longer,
\* or it went wrong, and the console bears a new name.
LEMMA TickNames ==
  ASSUME ImageInv, ImageInv', StoryInv, ~dropped[Guest], NEW c \in Seats, RunTick(c)
  PROVE  /\ Logs' /\ Known' /\ Logged' /\ Names'
         /\ Fresh' \in Nat /\ Fresh <= Fresh'
         /\ base'[Peer(c)] = base[Peer(c)] /\ Start(Peer(c))' = Start(Peer(c))
         /\ \/ base'[c] = base[c] /\ Start(c)' = Start(c)
            \/ base'[c] = Fresh
  <1> DEFINE d == Peer(c)
             t == tick[c]
             x == [s \in Seats |-> cells[c][s][t]]
             L == log[c]
             n == Len(L)
             A == Append(L, x)
             S == Seq([Seats -> Nat \X Nat])
  <1>1. ~dropped[c]
    BY SeatFacts DEF ImageInv, Roles
  <1>2. /\ pc[c] = "gate" /\ tick' = [tick EXCEPT ![c] = t + 1] /\ cells' = cells /\ line' = line
        /\ pushes' = pushes
        /\ \/ /\ base' = [base EXCEPT ![c] = base[c]] /\ glitches' = glitches
              /\ log' = [log EXCEPT ![c] = Append(@, x)]
           \/ /\ base' = [base EXCEPT ![c] = Fresh] /\ glitches' = glitches + 1
              /\ log' = [log EXCEPT ![c] = <<>>]
    BY <1>1, TickStep
  <1>3. Logs /\ Known /\ Room /\ Logged /\ Names
    BY DEF StoryInv, Playing
  <1>4. /\ t \in Nat /\ n \in Nat /\ Fresh \in Nat /\ base[c] \in Nat /\ base[d] \in Nat /\ Start(c) \in Int
        /\ L \in S
    <2>1. L \in S
      BY <1>3 DEF Logs
    <2> QED BY <1>3, <2>1, Scalars, SeatFacts
  <1>5. d \in Seats /\ d # c /\ \A y \in Seats : y = c \/ y = d
    BY SeatFacts
  <1>6. /\ tick'[c] = t + 1 /\ tick'[d] = tick[d] /\ log'[d] = log[d] /\ base'[d] = base[d]
    <2>1. tick \in [Seats -> Nat] /\ base \in [Seats -> Nat] /\ log \in [Seats -> S]
      BY <1>3 DEF ImageInv, Basics, Logs
    <2> HIDE DEF S, x, d
    <2> QED BY <1>2, <1>5, <2>1
  <1>7. Start(d)' = Start(d) /\ LoggedAt(d)'
    <2>1. Start(d)' = Start(d)
      BY <1>6 DEF Start
    <2>2. LoggedAt(d)
      BY <1>3, SeatFacts DEF Logged
    <2> HIDE DEF d
    <2> QED BY <1>2, <1>3, <1>5, <1>6, <2>1, <2>2, LoggedKept
  <1>8. t \in Cells
    <2>1. t <= MaxTick + Lead
      <3>1. CASE c = Host
        <4>1. t < MaxTick
          BY <1>2, <1>3, <3>1 DEF Room
        <4> HIDE DEF t
        <4> QED BY <1>4, <4>1, Constants
      <3>2. CASE c = Guest
        BY <1>2, <1>3, <3>2 DEF Room, Top
      <3> QED BY <3>1, <3>2, SeatFacts
    <2> HIDE DEF t
    <2> QED BY <1>4, <2>1, Constants DEF Cells
  <1>9. x \in [Seats -> Nat \X Nat]
    <2>1. \A s \in Seats : cells[c][s][t] \in Nat \X Nat
      <3>1. cells \in [Seats -> [Seats -> [Cells -> Nat \X Nat]]]
        BY DEF ImageInv, Basics
      <3> HIDE DEF t
      <3> QED BY <1>8, <3>1
    <2> QED BY <2>1
  <1>10. A \in S /\ Len(A) = n + 1 /\ A[n + 1] = x /\ \A i \in 1..n : A[i] = L[i]
    <2> HIDE DEF x, L
    <2> QED BY <1>4, <1>9, AppendProperties
  <1>11. CASE /\ base' = [base EXCEPT ![c] = base[c]] /\ glitches' = glitches
              /\ log' = [log EXCEPT ![c] = Append(@, x)]
    <2>1. base' = base /\ Fresh' = Fresh
      <3>1. base \in [Seats -> Nat]
        BY DEF ImageInv, Basics
      <3>2. base' = base
        BY <1>11, <3>1
      <3> QED BY <1>2, <1>11, <3>2 DEF Fresh
    <2>2. log'[c] = A /\ Logs'
      <3>1. log \in [Seats -> S]
        BY <1>3 DEF Logs
      <3>2. log' = [log EXCEPT ![c] = A]
        BY <1>11
      <3> HIDE DEF A, S
      <3>3. log'[c] = A /\ log' \in [Seats -> S]
        BY <1>10, <3>1, <3>2
      <3> QED BY <3>3 DEF Logs, S
    <2> DEFINE a == Start(c)
    <2>3. a = t - n /\ a >= 0 /\ a' = (t + 1) - Len(A)
      BY <1>3, <1>6, <2>2, SeatFacts DEF Start, Logged, LoggedAt
    <2>4. a' = a
      <3> HIDE DEF t, n, a, A
      <3> QED BY <1>4, <1>10, <2>3
    <2>5. ASSUME NEW i \in 1..(n + 1)
          PROVE  a + (i - 1) \in Cells /\ A[i] = [s \in Seats |-> cells[c][s][a + (i - 1)]]
      <3>1. CASE i = n + 1
        <4>1. a + (i - 1) = t
          <5> HIDE DEF a, t, n
          <5> QED BY <1>4, <2>3, <3>1
        <4> HIDE DEF a, A
        <4> QED BY <1>8, <1>10, <3>1, <4>1
      <3>2. CASE i # n + 1
        <4>1. i \in 1..n
          <5> HIDE DEF n
          <5> QED BY <1>4, <3>2
        <4>2. LoggedAt(c)
          BY <1>3, SeatFacts DEF Logged
        <4>3. a + (i - 1) \in Cells /\ L[i] = [s \in Seats |-> cells[c][s][a + (i - 1)]]
          BY <4>1, <4>2 DEF LoggedAt
        <4> HIDE DEF A, a
        <4> QED BY <1>10, <4>1, <4>3
      <3> QED BY <3>1, <3>2
    <2>6. LoggedAt(c)'
      <3>1. Len(log'[c]) = n + 1
        BY <1>10, <2>2
      <3>2. \A i \in 1..Len(log'[c]) : /\ a' + (i - 1) \in Cells
                                       /\ log'[c][i] = [s \in Seats |-> cells'[c][s][a' + (i - 1)]]
        <4> HIDE DEF A, a, n
        <4> QED BY <1>2, <2>2, <2>4, <2>5, <3>1
      <3>3. a' >= 0
        BY <2>3, <2>4
      <3> QED BY <3>2, <3>3 DEF LoggedAt
    <2>7. Logged'
      BY <1>7, <2>6, SeatFacts DEF Logged
    <2>8. Start(Host)' = Start(Host) /\ Start(Guest)' = Start(Guest)
      BY <1>7, <2>4, SeatFacts
    <2>9. Names' /\ Known'
      BY <1>2, <1>3, <2>1, <2>8 DEF Names, Known
    <2>10. Fresh <= Fresh' /\ Fresh' \in Nat
      BY <1>4, <2>1
    <2> QED BY <1>7, <2>1, <2>2, <2>4, <2>7, <2>9, <2>10
  <1>12. CASE /\ base' = [base EXCEPT ![c] = Fresh] /\ glitches' = glitches + 1
              /\ log' = [log EXCEPT ![c] = <<>>]
    <2>1. base'[c] = Fresh /\ base'[d] = base[d]
      <3>1. base \in [Seats -> Nat]
        BY DEF ImageInv, Basics
      <3> HIDE DEF d
      <3> QED BY <1>5, <1>12, <3>1
    <2>2. Fresh' = Fresh + 1
      <3>1. glitches \in Nat /\ pushes \in Nat
        BY DEF ImageInv, Basics
      <3>2. Fresh' = glitches' + pushes' + 1 /\ Fresh = glitches + pushes + 1
        BY DEF Fresh
      <3> QED BY <1>2, <1>12, <3>1, <3>2
    <2>3. log'[c] = <<>> /\ Logs'
      <3> DEFINE z == <<>>
      <3>1. log \in [Seats -> S] /\ log' = [log EXCEPT ![c] = z] /\ z \in S
        BY <1>3, <1>12 DEF Logs
      <3> HIDE DEF z, S
      <3>2. log'[c] = z /\ log' \in [Seats -> S]
        BY <3>1
      <3> QED BY <3>2 DEF Logs, S, z
    <2>4. LoggedAt(c)'
      <3>1. tick'[c] \in Nat
        BY <1>4, <1>6
      <3> QED BY <2>3, <3>1, LoggedFresh
    <2>5. Logged'
      BY <1>7, <2>4, SeatFacts DEF Logged
    <2> DEFINE z == Fresh
               z2 == Fresh'
    <2>6. z \in Nat /\ z2 = z + 1 /\ base[d] < z /\ base'[c] = z
      BY <1>3, <1>4, <1>5, <2>1, <2>2 DEF Known
    <2> HIDE DEF z, z2
    <2>7. z <= z2 /\ z2 \in Nat /\ base'[c] < z2 /\ base'[d] < z2 /\ base'[c] # base'[d]
      BY <1>4, <2>1, <2>6
    <2>8. Known'
      BY <1>5, <2>7 DEF Known, z2
    <2>9. Names'
      <3>1. base'[Guest] # base'[Host]
        BY <2>7, SeatFacts
      <3> QED BY <3>1 DEF Names
    <2>10. Fresh <= Fresh' /\ Fresh' \in Nat
      BY <2>7 DEF z, z2
    <2> QED BY <1>7, <2>1, <2>3, <2>5, <2>8, <2>9, <2>10
  <1> QED BY <1>2, <1>11, <1>12

\* A host that bears a new name is named by no push under way.
LEMMA FitsTick ==
  ASSUME NEW E, NEW w, NEW r, NEW v \in Nat, NEW v2 \in Nat, v <= v2, NEW b, NEW b2, NEW s, NEW s2,
         (b2 = b /\ s2 = s) \/ b2 = v
  PROVE  \A f \in Frames, l \in Nat : Fits(f, l, E, w, r, v, b, s) => Fits(f, l, E, w, r, v2, b2, s2)
  <1> SUFFICES ASSUME NEW f \in Frames, NEW l \in Nat, Fits(f, l, E, w, r, v, b, s)
               PROVE  Fits(f, l, E, w, r, v2, b2, s2)
    OBVIOUS
  <1>1. f.type = "END" => f.val < v2 /\ (f.val = b2 => l + 1 = E /\ s2 = r)
    <2> SUFFICES ASSUME f.type = "END" PROVE f.val < v2 /\ (f.val = b2 => l + 1 = E /\ s2 = r)
      OBVIOUS
    <2>1. f.val < v /\ (f.val = b => l + 1 = E /\ s = r)
      BY DEF Fits
    <2>2. f.val \in Nat
      BY DEF Frames, Others
    <2>3. f.val < v2 /\ f.val # v
      BY <2>1, <2>2
    <2> QED BY <2>1, <2>3
  <1> QED BY <1>1 DEF Fits

\* A held pass ends.  If the slots have left the guest a new name, no frame under
\* way says anything of it.
LEMMA HoldPassStory ==
  ASSUME ImageInv, ImageInv', StoryInv, ~dropped[Guest], NEW c \in Seats, HoldPass(c)
  PROVE  StoryInv'
  <1> DEFINE next == "pass"
  <1>1. /\ UNCHANGED <<tick, wm, cells, line, dropped, pushes, resume, hold, chan>>
        /\ pc[c] = "hold" /\ pc' = [pc EXCEPT ![c] = next]
        /\ \/ base' = base /\ log' = log /\ glitches' = glitches
           \/ /\ base' = [base EXCEPT ![Guest] = Fresh] /\ log' = [log EXCEPT ![Guest] = <<>>]
              /\ glitches' = glitches + 1
    BY HoldPassStep DEF recovery
  <1>2. next \in Places /\ next # "after" /\ next \notin {"pump", "gate", "stall"}
    BY DEF Places
  <1> HIDE DEF next
  <1>3. CASE base' = base /\ log' = log /\ glitches' = glitches
    BY <1>1, <1>2, <1>3, WalkStep
  <1>4. CASE /\ base' = [base EXCEPT ![Guest] = Fresh] /\ log' = [log EXCEPT ![Guest] = <<>>]
             /\ glitches' = glitches + 1
    <2>1. Logs /\ Known /\ Logged /\ Going
      BY DEF StoryInv, Playing, Wires
    <2>2. /\ Logs' /\ Known' /\ base'[Host] = base[Host] /\ base'[Host] # base'[Guest]
          /\ log'[Guest] = <<>> /\ log'[Host] = log[Host] /\ Fresh' \in Nat /\ Fresh <= Fresh'
      BY <1>1, <1>4, <2>1, Renamed
    <2>3. Logged'
      <3>1. LoggedAt(Guest)'
        <4>1. tick'[Guest] \in Nat
          BY <1>1, <2>1, Scalars
        <4> QED BY <2>2, <4>1, LoggedFresh, SeatFacts
      <3>2. LoggedAt(Host)'
        <4>1. LoggedAt(Host)
          BY <2>1 DEF Logged
        <4> QED BY <1>1, <2>1, <2>2, <4>1, LoggedKept, SeatFacts
      <3> QED BY <3>1, <3>2 DEF Logged
    <2>4. Names'
      BY <2>2 DEF Names
    <2>5. pc'[c] = next /\ pc'[Peer(c)] = pc[Peer(c)] /\ next # "off"
      BY <1>1, <1>2, MoveStep DEF Places
    <2>6. \A d \in Seats :
            /\ pc[d] \in {"gate", "stall", "off"} => pc'[d] \in {"gate", "stall", "off"}
            /\ pc'[d] \in {"pump", "gate", "stall"} =>
                 pc[d] \in {"pump", "gate", "stall"} \/ tick[d] < MaxTick
            /\ pc'[d] = "after" => pc[d] = "after"
      BY <1>1, <1>2, <2>5, SeatFacts
    <2>7. pc'[Host] = "off" <=> pc[Host] = "off"
      BY <1>1, <2>5, SeatFacts
    <2>8. Going'
      <3> DEFINE q == chan[Guest]
                 e == line[Guest]
                 E == line[Host]
                 w == wm[Host]
                 r == resume[Host]
                 v == Fresh
                 v2 == Fresh'
                 b == base[Host]
                 s == Start(Host)
                 alive == pc[Host] # "off"
      <3>1. Down(q, e, E, w, r, v, b, s, alive)
        BY <2>1 DEF Going
      <3>2. q \in Seq(Frames) /\ e \in Nat /\ E \in Nat /\ v \in Nat /\ v2 \in Nat /\ v <= v2
        BY <2>1, <2>2, Scalars
      <3>3. Start(Host)' = s
        BY <1>1, <2>2 DEF Start
      <3>4. (pc'[Host] # "off") = alive
        BY <2>7
      <3> HIDE DEF q, e, E, w, r, v, v2, b, s, alive
      <3>5. \A f \in Frames, l \in Nat : Fits(f, l, E, w, r, v, b, s) => Fits(f, l, E, w, r, v2, b, s)
        BY <3>2, FitsTick
      <3>6. Down(q, e, E, w, r, v2, b, s, alive)
        BY <3>1, <3>2, <3>5, DownKept
      <3>7. /\ q = chan'[Guest] /\ e = line'[Guest] /\ E = line'[Host] /\ w = wm'[Host]
            /\ r = resume'[Host] /\ b = base'[Host]
        BY <1>1, <2>2 DEF q, e, E, w, r, b
      <3>8. Down(chan'[Guest], line'[Guest], line'[Host], wm'[Host], resume'[Host], v2, base'[Host],
                 Start(Host)', pc'[Host] # "off")
        BY <3>3, <3>4, <3>6, <3>7
      <3> QED BY <3>8 DEF Going, v2
    <2> QED BY <1>1, <2>2, <2>3, <2>4, <2>6, <2>7, <2>8, WalkAnyKeeps
  <1> QED BY <1>1, <1>3, <1>4

LEMMA RunTickStory ==
  ASSUME ImageInv, ImageInv', StoryInv, ~dropped[Guest], NEW c \in Seats, RunTick(c)
  PROVE  StoryInv'
  <1> DEFINE d == Peer(c)
             t == tick[c]
             q == chan[Guest]
             p == chan[Host]
             e == line[Guest]
             E == line[Host]
             w == wm[Host]
             r == resume[Host]
             v == Fresh
             v2 == Fresh'
             b == base[Host]
             b2 == base'[Host]
             s == Start(Host)
             s2 == Start(Host)'
             alive == pc[Host] # "off"
  <1>1. ~dropped[c]
    BY SeatFacts DEF ImageInv, Roles
  <1>2. /\ pc[c] = "gate" /\ wm[c] >= t /\ tick' = [tick EXCEPT ![c] = t + 1] /\ pc' = [pc EXCEPT ![c] = "after"]
        /\ wm' = wm /\ cells' = cells /\ line' = line /\ hold' = hold /\ resume' = resume /\ dropped' = dropped
    BY <1>1, TickStep
  <1>3. Logs /\ Known /\ Room /\ Pace /\ Captures /\ Going /\ Coming /\ Flowing /\ Copies
    BY DEF StoryInv, Playing, Wires
  <1>4. /\ Logs' /\ Known' /\ Logged' /\ Names'
        /\ v2 \in Nat /\ v <= v2
        /\ base'[d] = base[d] /\ Start(d)' = Start(d)
        /\ \/ base'[c] = base[c] /\ Start(c)' = Start(c)
           \/ base'[c] = Fresh
    BY TickNames
  <1>5. /\ t \in Nat /\ q \in Seq(Frames) /\ p \in Seq(Frames) /\ e \in Nat /\ E \in Nat /\ v \in Nat
        /\ r \in Nat /\ wm[c] \in Nat /\ tick[Host] \in Nat
    BY <1>3, Scalars, SeatFacts
  <1>6. d \in Seats /\ d # c /\ \A y \in Seats : y = c \/ y = d
    BY SeatFacts
  <1>7. tick'[c] = t + 1 /\ tick'[d] = tick[d] /\ pc'[c] = "after" /\ pc'[d] = pc[d]
    <2>1. /\ tick \in [Seats -> Nat]
          /\ pc \in [Seats -> {"pass", "pump", "gate", "stall", "after", "hold", "park", "off"}]
      BY DEF ImageInv, Basics
    <2> HIDE DEF d
    <2> QED BY <1>2, <1>6, <2>1
  <1>8. \A y \in Seats : Last(y)' = Last(y)
    <2>1. Last(d)' = Last(d)
      BY <1>7 DEF Last
    <2>2. Last(c) = t + Delay /\ Last(c)' = (t + 1) + (Delay - 1)
      BY <1>2, <1>7 DEF Last
    <2>3. (t + 1) + (Delay - 1) = t + Delay
      <3> HIDE DEF t
      <3> QED BY <1>5, Constants
    <2> QED BY <1>6, <2>1, <2>2, <2>3
  <1>9. Reach' = Reach
    BY <1>2 DEF Reach
  <1>10. (pc'[Host] # "off") = alive
    BY <1>2, <1>6, <1>7, SeatFacts
  <1>11. (b2 = b /\ s2 = s) \/ b2 = v
    <2>1. CASE c = Host
      BY <1>4, <2>1
    <2>2. CASE c = Guest
      BY <1>4, <2>2, SeatFacts
    <2> QED BY <2>1, <2>2, SeatFacts
  <1>12. Room'
    <2>1. CASE c = Host
      <3>1. t < MaxTick
        BY <1>2, <1>3, <2>1 DEF Room
      <3>2. t + 1 <= MaxTick
        <4> HIDE DEF t
        <4> QED BY <1>5, <3>1, Constants
      <3> QED BY <1>2, <1>3, <1>7, <2>1, <3>2, SeatFacts DEF Room
    <2>2. CASE c = Guest
      BY <1>2, <1>3, <1>7, <2>2, SeatFacts DEF Room
    <2> QED BY <2>1, <2>2, SeatFacts
  <1>13. Pace'
    <2>1. ASSUME NEW y \in Seats PROVE tick'[y] <= wm'[y] + 1
      <3>1. CASE y = c
        <4> DEFINE u == wm[c]
        <4>1. u \in Nat /\ u >= t
          BY <1>2, <1>5
        <4> HIDE DEF u, t
        <4>2. t + 1 <= u + 1
          BY <1>5, <4>1
        <4> QED BY <1>2, <1>7, <3>1, <4>2 DEF u
      <3>2. CASE y = d
        <4>1. tick[d] <= wm[d] + 1
          BY <1>3, <1>6 DEF Pace
        <4> QED BY <1>2, <1>7, <3>2, <4>1
      <3> QED BY <1>6, <3>1, <3>2
    <2>2. tick'[Host] >= resume'[Host]
      <3>1. tick[Host] >= r
        BY <1>3 DEF Pace
      <3>2. tick[Host] + 1 >= r
        <4> HIDE DEF r
        <4> QED BY <1>5, <3>1
      <3>3. tick'[Host] = tick[Host] \/ tick'[Host] = tick[Host] + 1
        BY <1>6, <1>7, SeatFacts
      <3> QED BY <1>2, <3>1, <3>2, <3>3
    <2> QED BY <1>2, <1>3, <2>1, <2>2 DEF Pace
  <1>14. Captures'
    <2>1. Last(Host)' = Last(Host) /\ Last(Guest)' = Last(Guest)
      BY <1>8, SeatFacts
    <2> QED BY <1>2, <1>3, <1>8, <2>1 DEF Captures
  <1>15. Copies'
    BY <1>2, <1>3 DEF Copies
  <1>16. PICK o \in Seq(Frames) : /\ \A i \in 1..Len(o) : o[i].type = "CRC"
                                  /\ chan'[d] = chan[d] \o o /\ chan'[c] = chan[c]
    BY TickSends
  <1>17. Down(q, e, E, w, r, v2, b2, s2, alive)
    <2>1. Down(q, e, E, w, r, v, b, s, alive)
      BY <1>3 DEF Going
    <2> HIDE DEF q, e, E, w, r, v, b, s, alive, v2, b2, s2
    <2>2. \A f \in Frames, l \in Nat : Fits(f, l, E, w, r, v, b, s) => Fits(f, l, E, w, r, v2, b2, s2)
      BY <1>4, <1>5, <1>11, FitsTick
    <2> QED BY <1>5, <2>1, <2>2, DownKept
  <1>18. CASE c = Host
    <2>1. chan'[Guest] = q \o o /\ chan'[Host] = p
      BY <1>16, <1>18, SeatFacts
    <2>2. alive = TRUE
      BY <1>2, <1>18
    <2>3. Going'
      <3>1. \A i \in 1..Len(o) : o[i].type # "END" /\ Fits(o[i], E, E, w, r, v2, b2, s2)
        BY <1>16 DEF Fits
      <3>2. Down(q, e, E, w, r, v2, b2, s2, TRUE)
        BY <1>17, <2>2
      <3>3. Down(q \o o, e, E, w, r, v2, b2, s2, TRUE)
        <4> HIDE DEF q, e, E, w, r, v, b, s, alive, v2, b2, s2
        <4> QED BY <1>5, <3>1, <3>2, DownMore
      <3>4. (pc'[Host] # "off") = TRUE
        BY <1>10, <2>2
      <3> QED BY <1>2, <2>1, <3>3, <3>4 DEF Going
    <2>4. Coming'
      BY <1>2, <1>3, <2>1 DEF Coming
    <2>5. Flow(q \o o, E, cells[Host][Host], Reach, Last(Host), alive)
      <3>1. Flow(q, E, cells[Host][Host], Reach, Last(Host), alive)
        BY <1>3 DEF Flowing
      <3>2. \A i \in 1..Len(o) : o[i].type # "INPUT"
        BY <1>16
      <3> HIDE DEF q, E, alive
      <3> QED BY <1>5, <3>1, <3>2, FlowMore
    <2>6. Flowing'
      <3>1. Flow(chan'[Guest], line'[Host], cells'[Host][Host], Reach', Last(Host)', pc'[Host] # "off")
        BY <1>2, <1>8, <1>9, <1>10, <2>1, <2>5, SeatFacts
      <3>2. Flow(chan'[Host], line'[Host], cells'[Guest][Guest], wm'[Host], Last(Guest)', line'[Guest] = line'[Host])
        BY <1>2, <1>3, <1>8, <2>1, SeatFacts DEF Flowing
      <3> QED BY <3>1, <3>2 DEF Flowing
    <2> QED BY <1>2, <1>3, <1>4, <1>12, <1>13, <1>14, <1>15, <2>3, <2>4, <2>6 DEF StoryInv, Playing, Wires
  <1>19. CASE c = Guest
    <2>1. chan'[Guest] = q /\ chan'[Host] = p \o o
      BY <1>16, <1>19, SeatFacts
    <2>2. Going'
      BY <1>2, <1>10, <1>17, <2>1 DEF Going
    <2>3. Coming'
      <3>1. Rising(p, e, E, w) /\ Rising(o, e, E, w)
        BY <1>3, <1>16 DEF Coming, Rising
      <3>2. Rising(p \o o, e, E, w)
        <4> HIDE DEF p, e, E, w
        <4> QED BY <1>5, <3>1, RisingMore
      <3> QED BY <1>2, <2>1, <3>2 DEF Coming
    <2>4. Flow(p \o o, E, cells[Guest][Guest], w, Last(Guest), e = E)
      <3>1. Flow(p, E, cells[Guest][Guest], w, Last(Guest), e = E)
        BY <1>3 DEF Flowing
      <3>2. \A i \in 1..Len(o) : o[i].type # "INPUT"
        BY <1>16
      <3> HIDE DEF p, E, e, w
      <3> QED BY <1>5, <3>1, <3>2, FlowMore
    <2>5. Flowing'
      <3>1. Flow(chan'[Guest], line'[Host], cells'[Host][Host], Reach', Last(Host)', pc'[Host] # "off")
        BY <1>2, <1>3, <1>8, <1>9, <1>10, <2>1, SeatFacts DEF Flowing
      <3>2. Flow(chan'[Host], line'[Host], cells'[Guest][Guest], wm'[Host], Last(Guest)', line'[Guest] = line'[Host])
        BY <1>2, <1>8, <2>1, <2>4, SeatFacts
      <3> QED BY <3>1, <3>2 DEF Flowing
    <2> QED BY <1>2, <1>3, <1>4, <1>12, <1>13, <1>14, <1>15, <2>2, <2>3, <2>5 DEF StoryInv, Playing, Wires
  <1> QED BY <1>18, <1>19, SeatFacts

\* What a push does.
LEMMA PushStep ==
  ASSUME ImageInv, NEW c \in Seats, Pending(c), Wanted(c), Push(c)
  PROVE  /\ c = Host /\ pc[Host] = "after" /\ pc'[Host] = "pass" /\ pc'[Guest] = pc[Guest]
         /\ tick'[Host] = tick[Host] + Lead /\ tick'[Guest] = tick[Guest]
         /\ wm'[Host] = (tick[Host] + Lead) + (Delay - 1) /\ wm'[Guest] = wm[Guest]
         /\ cells'[Host] = NoCells /\ cells'[Guest] = cells[Guest]
         /\ line'[Host] = line[Host] + 1 /\ line'[Guest] = line[Guest]
         /\ base'[Host] = Fresh /\ base'[Guest] = base[Guest]
         /\ log' = [log EXCEPT ![Host] = <<>>]
         /\ hold'[Guest] = hold[Guest]
         /\ resume'[Host] = tick[Host] + Lead /\ resume'[Guest] = resume[Guest]
         /\ dropped' = dropped /\ glitches' = glitches /\ pushes' = pushes + 1
         /\ chan' = Send(Host, <<Frame("BEGIN", tick[Host] + Lead, 0)>>
                                 \o [i \in 1..NChunks |-> Frame("CHUNK", i, 0)]
                                 \o <<Frame("END", 0, Fresh)>>)
  <1> DEFINE r == tick[c] + Lead
  <1>1. c = Host
    BY DEF Wanted
  <1>2. /\ pc[c] = "after" /\ pc' = [pc EXCEPT ![c] = "pass"]
        /\ Rebase(c, r, Fresh)
        /\ resume' = [resume EXCEPT ![c] = r]
        /\ dropped' = dropped /\ glitches' = glitches /\ pushes' = pushes + 1
        /\ chan' = Send(c, <<Frame("BEGIN", r, 0)>>
                             \o [i \in 1..NChunks |-> Frame("CHUNK", i, 0)]
                             \o <<Frame("END", 0, Fresh)>>)
    BY DEF Pending, Push, ResumeTick
  <1>3. /\ tick' = [tick EXCEPT ![c] = r]
        /\ wm' = [wm EXCEPT ![c] = r + Delay - 1]
        /\ cells' = [cells EXCEPT ![c] = NoCells]
        /\ line' = [line EXCEPT ![c] = @ + 1]
        /\ log' = [log EXCEPT ![c] = <<>>]
        /\ base' = [base EXCEPT ![c] = Fresh]
        /\ hold' = [hold EXCEPT ![c] = FALSE]
    BY <1>2 DEF Rebase, RebasedWM
  <1>4. /\ tick \in [Seats -> Nat] /\ wm \in [Seats -> Nat] /\ line \in [Seats -> Nat]
        /\ base \in [Seats -> Nat] /\ hold \in [Seats -> BOOLEAN] /\ resume \in [Seats -> Nat]
        /\ pc \in [Seats -> {"pass", "pump", "gate", "stall", "after", "hold", "park", "off"}]
    BY DEF ImageInv, Basics
  <1>5. r + Delay - 1 = r + (Delay - 1)
    BY <1>4, Constants
  <1> HIDE DEF r
  <1>6. /\ tick'[Host] = r /\ tick'[Guest] = tick[Guest]
        /\ wm'[Host] = r + Delay - 1 /\ wm'[Guest] = wm[Guest]
        /\ line'[Host] = line[Host] + 1 /\ line'[Guest] = line[Guest]
    BY <1>1, <1>3, <1>4, SeatFacts
  <1>7. /\ base'[Host] = Fresh /\ base'[Guest] = base[Guest] /\ hold'[Guest] = hold[Guest]
        /\ resume'[Host] = r /\ resume'[Guest] = resume[Guest]
    BY <1>1, <1>2, <1>3, <1>4, SeatFacts
  <1>8. pc[Host] = "after" /\ pc'[Host] = "pass" /\ pc'[Guest] = pc[Guest]
    BY <1>1, <1>2, <1>4, SeatFacts
  <1>9. cells'[Host] = NoCells /\ cells'[Guest] = cells[Guest]
    <2>1. cells \in [Seats -> [Seats -> [Cells -> Nat \X Nat]]]
      BY DEF ImageInv, Basics
    <2> QED BY <1>1, <1>3, <2>1, SeatFacts
  <1>10. log' = [log EXCEPT ![Host] = <<>>]
    BY <1>1, <1>3
  <1> QED BY <1>1, <1>2, <1>5, <1>6, <1>7, <1>8, <1>9, <1>10 DEF r

\* The resume tick is far enough: the watermark it sets, W, is past all that
\* was captured, received or under way in the timelines before.
LEMMA PushFar ==
  ASSUME ImageInv, StoryInv, ~dropped[Guest], pc[Host] = "after",
         NEW W, W = (tick[Host] + Lead) + (Delay - 1)
  PROVE  /\ W \in Nat /\ wm[Guest] + (1 + Delay) <= W /\ wm[Host] <= W /\ resume[Host] + 2 * Delay <= W
         /\ Last(Host) + (1 + Delay) <= W
         /\ line[Guest] = line[Host] => Last(Guest) <= W
  <1> DEFINE t == tick[Host]
             g == tick[Guest]
             u == wm[Host]
             x == wm[Guest]
             r == resume[Host]
             lh == Last(Host)
             lg == Last(Guest)
             e == line[Guest]
             E == line[Host]
  <1>1. Logs /\ Pace /\ Captures
    BY DEF StoryInv, Playing
  <1>2. /\ t \in Nat /\ g \in Nat /\ u \in Nat /\ x \in Nat /\ r \in Nat /\ lh \in Int /\ lg \in Int
        /\ e \in Nat /\ E \in Nat
    BY <1>1, Scalars
  <1>3. /\ r <= t /\ g <= x + 1 /\ e <= E
        /\ e < E => x + (1 + Delay) <= u /\ u = r + (Delay - 1)
    BY <1>1, SeatFacts DEF Pace
  <1>4. e = E => u <= lg /\ x <= lh
    BY <1>1 DEF Captures
  <1>5. lh = t + (Delay - 1)
    BY DEF Last
  <1>6. lg = g + Delay \/ lg = g + (Delay - 1)
    BY DEF Last
  <1>7. W = (t + Lead) + (Delay - 1)
    OBVIOUS
  <1> HIDE DEF t, g, u, x, r, lh, lg, e, E
  <1>8. W \in Nat /\ r + 2 * Delay <= W /\ lh + (1 + Delay) <= W /\ r + (Delay - 1) <= W
    BY <1>2, <1>3, <1>5, <1>7, Constants
  <1>9. CASE e < E
    <2>1. e # E
      BY <1>2, <1>9
    <2> QED BY <1>2, <1>3, <1>8, <1>9, <2>1, Constants DEF t, g, u, x, r, lh, lg, e, E
  <1>10. CASE e = E
    <2>1. x + (1 + Delay) <= W
      BY <1>2, <1>4, <1>8, <1>10, Constants
    <2>2. lg <= W
      <3>1. lg <= g + Delay
        BY <1>2, <1>6, Constants
      <3>2. g + Delay <= (x + 1) + Delay
        BY <1>2, <1>3, Constants
      <3> QED BY <1>2, <1>8, <2>1, <3>1, <3>2, Constants
    <2>3. u <= W
      BY <1>2, <1>4, <1>8, <1>10, <2>2
    <2> QED BY <1>8, <2>1, <2>2, <2>3 DEF t, u, x, r, lh, lg, e, E
  <1>11. e < E \/ e = E
    BY <1>2, <1>3
  <1> QED BY <1>9, <1>10, <1>11

\* A push, as the queue to the guest sees it.
LEMMA PushGoing ==
  ASSUME ImageInv, StoryInv, ~dropped[Guest], pc[Host] = "after",
         NEW R, R = tick[Host] + Lead, NEW W, W = (tick[Host] + Lead) + (Delay - 1),
         NEW o \in Seq(Frames), Len(o) = NChunks + 2, o[1] = Frame("BEGIN", R, 0),
         o[NChunks + 2] = Frame("END", 0, Fresh), \A i \in 1..NChunks : o[1 + i] = Frame("CHUNK", i, 0)
  PROVE  /\ \A i \in 1..Len(o) : o[i].type # "INPUT"
         /\ Down(chan[Guest] \o o, line[Guest], line[Host] + 1, W, R, Fresh + 1, Fresh, R, TRUE)
  <1> DEFINE q == chan[Guest]
             e == line[Guest]
             E == line[Host]
             w == wm[Host]
             r == resume[Host]
             v == Fresh
             v2 == Fresh + 1
             b == base[Host]
             s == Start(Host)
             n == NChunks + 2
  <1>1. Logs /\ Room /\ Pace /\ Going /\ Flowing
    BY DEF StoryInv, Playing, Wires
  <1>2. /\ q \in Seq(Frames) /\ e \in Nat /\ E \in Nat /\ w \in Nat /\ r \in Nat /\ v \in Nat
        /\ tick[Host] \in Nat /\ Last(Host) \in Int
    BY <1>1, Scalars
  <1>3. W \in Nat /\ w <= W /\ r + 2 * Delay <= W /\ Last(Host) + (1 + Delay) <= W
    BY PushFar
  <1>4. R \in Nat /\ R <= Top
    <2>1. tick[Host] <= MaxTick
      BY <1>1 DEF Room
    <2> DEFINE x == tick[Host]
    <2>2. R = x + Lead /\ x \in Nat /\ x <= MaxTick
      BY <1>2, <2>1
    <2> HIDE DEF x
    <2> QED BY <2>2, Constants DEF Top
  <1>5. /\ o \in Seq(Frames) /\ Len(o) = n /\ o[1] = Frame("BEGIN", R, 0) /\ o[n] = Frame("END", 0, v)
        /\ \A i \in 1..NChunks : o[1 + i] = Frame("CHUNK", i, 0)
    BY DEF v, n
  <1> HIDE DEF v
  <1>6. /\ o[1].type = "BEGIN" /\ o[1].tick = R /\ o[n].type = "END" /\ o[n].val = v
        /\ \A i \in 2..(n - 1) : o[i].type = "CHUNK"
    <2>1. /\ o[1].type = "BEGIN" /\ o[1].tick = R /\ o[n].type = "END" /\ o[n].val = v
      <3> HIDE DEF n
      <3> QED BY <1>5 DEF Frame
    <2>2. ASSUME NEW i \in 2..(n - 1) PROVE o[i].type = "CHUNK"
      <3>1. i - 1 \in 1..NChunks /\ 1 + (i - 1) = i
        BY Constants, SMTT(30)
      <3> DEFINE j == i - 1
      <3> HIDE DEF j
      <3>2. o[1 + j] = Frame("CHUNK", j, 0) /\ 1 + j = i
        BY <1>5, <3>1 DEF j
      <3> QED BY <3>2 DEF Frame
    <2> QED BY <2>1, <2>2
  <1>7. n \in Nat \ {0} /\ \A i \in 1..n : i = 1 \/ i \in 2..(n - 1) \/ i = n
    BY Constants
  <1> HIDE DEF n
  <1>8. \A i \in 1..Len(o) : o[i].type # "INPUT"
    BY <1>5, <1>6, <1>7
  <1>9. \A i \in 1..(n - 1) : o[i].type # "END"
    <2>1. \A i \in 1..(n - 1) : i = 1 \/ i \in 2..(n - 1)
      BY <1>7
    <2> QED BY <1>6, <2>1
  <1>10. \A i \in 1..n : Fits(o[i], E, E + 1, W, R, v2, v, R)
    <2>1. E < E + 1 /\ ~(E + 1 < E + 1) /\ v < v2
      BY <1>2 DEF v
    <2> HIDE DEF E, v2
    <2>2. Fits(o[1], E, E + 1, W, R, v2, v, R)
      BY <1>4, <1>6, <2>1 DEF Fits
    <2>3. Fits(o[n], E, E + 1, W, R, v2, v, R)
      BY <1>6, <2>1 DEF Fits
    <2>4. \A i \in 2..(n - 1) : Fits(o[i], E, E + 1, W, R, v2, v, R)
      BY <1>6 DEF Fits
    <2> QED BY <1>7, <2>2, <2>3, <2>4
  <1>11. Down(q, e, E, w, r, v, b, s, TRUE)
    <2>1. (pc[Host] # "off") = TRUE
      OBVIOUS
    <2> QED BY <1>1, <2>1 DEF Going, v
  <1>12. Flow(q, E, cells[Host][Host], Reach, Last(Host), TRUE)
    <2>1. (pc[Host] # "off") = TRUE
      OBVIOUS
    <2> QED BY <1>1, <2>1 DEF Flowing
  <1>13. ASSUME NEW k \in 1..Len(q), NEW l \in Nat, l <= E, Fits(q[k], l, E, w, r, v, b, s)
         PROVE  Fits(q[k], l, E + 1, W, R, v2, v, R)
    <2> DEFINE f == q[k]
    <2>1. f \in Frames
      BY <1>2, ElementOfSeq
    <2>2. f.tick \in Nat
      BY <2>1 DEF Frames
    <2>3. f.type = "INPUT" => Of(f) = l /\ f.tick + (1 + Delay) <= W
      <3> SUFFICES ASSUME f.type = "INPUT" PROVE Of(f) = l /\ f.tick + (1 + Delay) <= W
        OBVIOUS
      <3>1. Of(f) = l /\ (l < E => f.tick + (1 + Delay) <= w)
        BY <1>13 DEF Fits
      <3>2. CASE l < E
        <4> HIDE DEF f, w
        <4> QED BY <1>2, <1>3, <2>2, <3>1, <3>2, Constants, SMTT(30)
      <3>3. CASE ~(l < E)
        <4>1. l = E
          <5> HIDE DEF E
          <5> QED BY <1>2, <1>13, <3>3
        <4>2. k \in Current(q, E)
          BY <3>1, <4>1 DEF Current
        <4> DEFINE lh == Last(Host)
        <4>3. f.tick <= lh /\ lh + (1 + Delay) <= W /\ lh \in Int
          BY <1>2, <1>3, <1>12, <4>2 DEF Flow
        <4> HIDE DEF f, lh
        <4> QED BY <1>3, <2>2, <3>1, <4>3, Constants
      <3> QED BY <3>2, <3>3
    <2>4. f.type = "BEGIN" => l < E + 1 /\ l + 1 < E + 1 /\ f.tick <= Top /\ f.tick + 2 * Delay <= W
      <3> SUFFICES ASSUME f.type = "BEGIN"
                   PROVE  l < E + 1 /\ l + 1 < E + 1 /\ f.tick <= Top /\ f.tick + 2 * Delay <= W
        OBVIOUS
      <3>1. /\ l < E /\ f.tick <= Top
            /\ IF l + 1 < E THEN f.tick + 2 * Delay <= w ELSE f.tick = r
        BY <1>13 DEF Fits
      <3> HIDE DEF f, w, r, E
      <3>2. l < E + 1 /\ l + 1 < E + 1
        BY <1>2, <3>1, SMTT(30)
      <3>3. f.tick + 2 * Delay <= W
        BY <1>2, <1>3, <2>2, <3>1, Constants
      <3> QED BY <3>1, <3>2, <3>3
    <2>5. f.type = "END" => f.val < v2 /\ f.val # v
      <3> SUFFICES ASSUME f.type = "END" PROVE f.val < v2 /\ f.val # v
        OBVIOUS
      <3>1. f.val < v
        BY <1>13 DEF Fits
      <3>2. f.val \in Nat
        BY <2>1 DEF Frames, Others
      <3>3. v2 = v + 1
        BY DEF v
      <3> HIDE DEF f, v2
      <3> QED BY <1>2, <3>1, <3>2, <3>3, SMTT(30)
    <2> HIDE DEF f, v2, E
    <2>6. Fits(f, l, E + 1, W, R, v2, v, R)
      BY <2>3, <2>4, <2>5 DEF Fits
    <2> QED BY <2>6 DEF f
  <1>14. Down(q \o o, e, E + 1, W, R, v2, v, R, TRUE)
    <2> HIDE DEF q, e, E, w, r, v2, b, s
    <2> QED BY <1>2, <1>5, <1>6, <1>7, <1>9, <1>10, <1>11, <1>13, DownPush
  <1> QED BY <1>5, <1>8, <1>14 DEF v

LEMMA PushStory ==
  ASSUME ImageInv, ImageInv', StoryInv, ~dropped[Guest], NEW c \in Seats, Pending(c), Wanted(c), Push(c)
  PROVE  StoryInv'
  <1> DEFINE q == chan[Guest]
             p == chan[Host]
             e == line[Guest]
             E == line[Host]
             w == wm[Host]
             R == tick[Host] + Lead
             W == (tick[Host] + Lead) + (Delay - 1)
             v == Fresh
             o == <<Frame("BEGIN", R, 0)>> \o [i \in 1..NChunks |-> Frame("CHUNK", i, 0)] \o <<Frame("END", 0, v)>>
             n == NChunks + 2
  <1>1. /\ pc[Host] = "after" /\ pc'[Host] = "pass" /\ pc'[Guest] = pc[Guest]
        /\ tick'[Host] = R /\ tick'[Guest] = tick[Guest]
        /\ wm'[Host] = W /\ wm'[Guest] = wm[Guest]
        /\ cells'[Host] = NoCells /\ cells'[Guest] = cells[Guest]
        /\ line'[Host] = E + 1 /\ line'[Guest] = e
        /\ base'[Host] = v /\ base'[Guest] = base[Guest]
        /\ log' = [log EXCEPT ![Host] = <<>>]
        /\ hold'[Guest] = hold[Guest]
        /\ resume'[Host] = R /\ resume'[Guest] = resume[Guest]
        /\ dropped' = dropped /\ glitches' = glitches /\ pushes' = pushes + 1
        /\ chan' = Send(Host, o)
    BY PushStep
  <1>2. Logs /\ Known /\ Room /\ Pace /\ Captures /\ Going /\ Coming /\ Flowing /\ Logged
    BY DEF StoryInv, Playing, Wires
  <1>3. /\ q \in Seq(Frames) /\ p \in Seq(Frames) /\ e \in Nat /\ E \in Nat /\ w \in Nat /\ v \in Nat
        /\ tick[Host] \in Nat /\ tick[Guest] \in Nat /\ wm[Guest] \in Nat /\ base[Guest] \in Nat
        /\ resume[Host] \in Nat /\ resume[Guest] \in Nat /\ Last(Guest) \in Int
    BY <1>2, Scalars
  <1>4. /\ W \in Nat /\ wm[Guest] + (1 + Delay) <= W /\ w <= W /\ resume[Host] + 2 * Delay <= W
        /\ e = E => Last(Guest) <= W
    BY <1>1, PushFar
  <1>5. R \in Nat /\ W = R + (Delay - 1)
    BY <1>3, Constants, SMTT(30)
  <1>6. /\ o \in Seq(Frames) /\ Len(o) = n /\ o[1] = Frame("BEGIN", R, 0) /\ o[n] = Frame("END", 0, v)
        /\ \A i \in 1..NChunks : o[1 + i] = Frame("CHUNK", i, 0)
    <2> HIDE DEF R, v
    <2>1. /\ o \in Seq(Frames) /\ Pushes(o, FALSE, 0, pc[Host], FALSE) /\ Len(o) = NChunks + 2
          /\ o[1] = Frame("BEGIN", R, 0) /\ o[NChunks + 2] = Frame("END", 0, v)
          /\ \A i \in 1..NChunks : o[1 + i] = Frame("CHUNK", i, 0)
      <3>1. R \in Nat /\ v \in Nat
        BY <1>3, <1>5
      <3> DEFINE k == pc[Host]
      <3> HIDE DEF k
      <3>2. /\ o \in Seq(Frames) /\ Pushes(o, FALSE, 0, k, FALSE) /\ Len(o) = NChunks + 2
            /\ o[1] = Frame("BEGIN", R, 0) /\ o[NChunks + 2] = Frame("END", 0, v)
            /\ \A i \in 1..NChunks : o[1 + i] = Frame("CHUNK", i, 0)
        BY <3>1, PushFrames, ZenonT(40)
      <3> QED BY <3>2 DEF k
    <2> QED BY <2>1
  <1> HIDE DEF o
  <1>7. chan'[Guest] = q \o o /\ chan'[Host] = p
    <2>1. chan' = [chan EXCEPT ![Guest] = @ \o o] /\ chan \in [Seats -> Seq(Frames)]
      BY <1>1, SeatFacts DEF Send, ImageInv, Basics
    <2> QED BY <2>1, SeatFacts
  <1>8. /\ \A i \in 1..Len(o) : o[i].type # "INPUT"
        /\ Down(q \o o, e, E + 1, W, R, Fresh + 1, Fresh, R, TRUE)
    <2>1. /\ o[NChunks + 2] = Frame("END", 0, Fresh) /\ Len(o) = NChunks + 2
      BY <1>6
    <2> DEFINE r == R
               u == W
    <2>2. r = tick[Host] + Lead /\ u = (tick[Host] + Lead) + (Delay - 1) /\ o[1] = Frame("BEGIN", r, 0)
      BY <1>6
    <2>3. /\ \A i \in 1..Len(o) : o[i].type # "INPUT"
          /\ Down(chan[Guest] \o o, line[Guest], line[Host] + 1, u, r, Fresh + 1, Fresh, r, TRUE)
      <3> HIDE DEF r, u
      <3> QED BY <1>1, <1>6, <2>1, <2>2, PushGoing
    <2> QED BY <2>3
  <1>9. log'[Host] = <<>> /\ log'[Guest] = log[Guest] /\ Logs'
    <2> DEFINE z == <<>>
    <2>1. /\ log \in [Seats -> Seq([Seats -> Nat \X Nat])] /\ z \in Seq([Seats -> Nat \X Nat])
          /\ log' = [log EXCEPT ![Host] = z]
      BY <1>1, <1>2 DEF Logs
    <2> HIDE DEF z
    <2>2. log'[Host] = z /\ log'[Guest] = log[Guest] /\ log' \in [Seats -> Seq([Seats -> Nat \X Nat])]
      BY <2>1, SeatFacts
    <2> QED BY <2>2 DEF Logs, z
  <1>10. \A s \in Seats, m \in Cells : cells'[Host][s][m] = Idle
    BY <1>1, NoCellsIdle
  <1>11. LoggedAt(Host)' /\ Start(Host)' = R
    BY <1>1, <1>5, <1>9, SeatFacts, LoggedFresh
  <1>12. LoggedAt(Guest)' /\ Start(Guest)' = Start(Guest)
    <2>1. Start(Guest)' = Start(Guest)
      BY <1>1, <1>9 DEF Start
    <2>2. LoggedAt(Guest)'
      BY <1>1, <1>2, <1>9, SeatFacts, LoggedKept DEF Logged
    <2> QED BY <2>1, <2>2
  <1>13. Last(Guest)' = Last(Guest)
    BY <1>1 DEF Last
  <1>14. Fresh' = Fresh + 1
    <2>1. glitches \in Nat /\ pushes \in Nat
      BY DEF ImageInv, Basics
    <2>2. Fresh' = glitches' + pushes' + 1 /\ Fresh = glitches + pushes + 1
      BY DEF Fresh
    <2> QED BY <1>1, <2>1, <2>2
  <1>15. base[Guest] < v /\ v < v + 1
    BY <1>2, <1>3, SeatFacts DEF Known
  <1>16. Known' /\ Names'
    <2>1. Fresh' = v + 1 /\ base'[Host] = v /\ base'[Guest] = base[Guest]
      BY <1>1, <1>14
    <2> DEFINE z == Fresh'
    <2>2. z = v + 1
      BY <2>1
    <2> HIDE DEF v, z
    <2>3. base[Guest] < v + 1 /\ base[Guest] # v
      BY <1>3, <1>15
    <2>4. base'[Host] < z /\ base'[Guest] < z /\ base'[Guest] # base'[Host]
      BY <1>15, <2>1, <2>2, <2>3
    <2> QED BY <2>4, SeatFacts DEF Known, Names, z
  <1>17. e < E + 1 /\ e <= E + 1 /\ e # E + 1
    <2>1. e <= E
      BY <1>2 DEF Pace
    <2> HIDE DEF e, E
    <2> QED BY <1>3, <2>1
  <1>18. Room'
    BY <1>1, <1>2 DEF Room
  <1>19. Pace'
    <2>1. R >= R /\ W >= R + (Delay - 1) /\ R <= W + 1
      <3> HIDE DEF R, W
      <3> QED BY <1>5, Constants
    <2>2. \A y \in Seats : tick'[y] <= wm'[y] + 1
      <3>1. tick[Guest] <= wm[Guest] + 1
        BY <1>2, SeatFacts DEF Pace
      <3> QED BY <1>1, <2>1, <3>1, SeatFacts
    <2>3. hold[Guest] => IF e + 1 < E + 1 THEN resume[Guest] + 2 * Delay <= W ELSE resume[Guest] = R
      <3> SUFFICES ASSUME hold[Guest] PROVE e + 1 < E + 1 /\ resume[Guest] + 2 * Delay <= W
        OBVIOUS
      <3> DEFINE x == resume[Guest]
                 r == resume[Host]
      <3>1. /\ e < E /\ IF e + 1 < E THEN x + 2 * Delay <= w ELSE x = r
        BY <1>2 DEF Pace
      <3>2. r + 2 * Delay <= W
        BY <1>4
      <3>3. x \in Nat /\ r \in Nat
        BY <1>3
      <3> HIDE DEF x, r, e, E, w, W
      <3>4. e + 1 < E + 1
        BY <1>3, <3>1
      <3>5. x + 2 * Delay <= W
        BY <1>3, <1>4, <3>1, <3>2, <3>3, Constants
      <3> QED BY <3>4, <3>5 DEF x
    <2> HIDE DEF R, W, e, E
    <2> QED BY <1>1, <1>4, <1>5, <1>17, <2>1, <2>2, <2>3 DEF Pace
  <1>20. Captures'
    <2>1. ASSUME NEW d \in Seats, NEW m \in Cells, cells'[d][d][m] # Idle PROVE m <= Last(d)'
      <3>1. d = Guest
        BY <1>10, <2>1, SeatFacts
      <3>2. cells[Guest][Guest][m] # Idle
        BY <1>1, <2>1, <3>1
      <3>3. m <= Last(Guest)
        BY <1>2, <3>2, SeatFacts DEF Captures
      <3> QED BY <1>13, <3>1, <3>3
    <2>2. ASSUME NEW d \in Seats, NEW m \in Cells, m > wm'[d] PROVE cells'[d][Peer(d)][m] = Idle
      <3>1. CASE d = Host
        BY <1>10, <3>1, SeatFacts
      <3>2. CASE d = Guest
        BY <1>1, <1>2, <2>2, <3>2, SeatFacts DEF Captures
      <3> QED BY <3>1, <3>2, SeatFacts
    <2>3. \A m \in Cells : cells'[Host][Host][m] = Idle /\ cells'[Host][Guest][m] = Idle
      BY <1>10, SeatFacts
    <2>4. line'[Guest] # line'[Host]
      BY <1>1, <1>17
    <2> QED BY <2>1, <2>2, <2>3, <2>4 DEF Captures
  <1>21. Copies'
    BY <1>1, <1>17 DEF Copies
  <1>22. Going'
    <2>1. (pc'[Host] # "off") = TRUE
      BY <1>1
    <2> QED BY <1>1, <1>7, <1>8, <1>11, <1>14, <2>1 DEF Going
  <1>23. \A k \in 1..Len(p) : p[k].type = "INPUT" => Of(p[k]) <= e /\ Of(p[k]) # E + 1 /\ p[k].tick <= W
    <2> SUFFICES ASSUME NEW k \in 1..Len(p), p[k].type = "INPUT"
                 PROVE  Of(p[k]) <= e /\ Of(p[k]) # E + 1 /\ p[k].tick <= W
      OBVIOUS
    <2> DEFINE x == Of(p[k])
               t == p[k].tick
    <2>1. p[k] \in Frames
      BY <1>3, ElementOfSeq
    <2>2. x \in Int /\ t \in Nat
      BY <2>1 DEF Of, Frames, Others
    <2>3. x <= e /\ (x < E => t <= w)
      BY <1>2 DEF Coming, Rising
    <2>4. e <= E
      BY <1>2 DEF Pace
    <2>5. x = E => t <= Last(Guest)
      <3> SUFFICES ASSUME x = E PROVE t <= Last(Guest)
        OBVIOUS
      <3>1. k \in Current(p, E)
        BY DEF Current
      <3>2. Flow(p, E, cells[Guest][Guest], w, Last(Guest), line[Guest] = line[Host])
        BY <1>2 DEF Flowing
      <3> QED BY <3>1, <3>2 DEF Flow
    <2> DEFINE lg == Last(Guest)
    <2>6. lg \in Int /\ (e = E => lg <= W) /\ (x = E => t <= lg)
      BY <1>3, <1>4, <2>5
    <2> HIDE DEF x, t, e, E, w, W, lg
    <2>7. x # E + 1 /\ (x = E => e = E) /\ (x < E \/ x = E)
      BY <1>3, <2>2, <2>3, <2>4, SMTT(30)
    <2>8. t <= W
      BY <1>3, <1>4, <2>2, <2>3, <2>6, <2>7
    <2> QED BY <2>3, <2>7, <2>8 DEF x, t
  <1>24. Coming'
    BY <1>1, <1>7, <1>23 DEF Coming, Rising
  <1>25. Flowing'
    <2>1. Flow(q \o o, E + 1, cells'[Host][Host], Reach', Last(Host)', pc'[Host] # "off")
      <3> DEFINE a == q \o o
                 own == cells'[Host][Host]
                 x == Reach'
                 l == Last(Host)'
                 z == pc'[Host] # "off"
                 F == E + 1
                 m == Len(q)
      <3>1. \A i \in Cells : own[i] = Idle
        BY <1>10, SeatFacts
      <3>2. /\ m \in Nat /\ Len(a) = m + Len(o) /\ Len(o) \in Nat
            /\ \A i \in 1..m : a[i] = q[i]
            /\ \A i \in 1..Len(o) : a[m + i] = o[i]
        BY <1>3, <1>6, QueueConcat
      <3>3. \A k \in 1..m : q[k].type = "INPUT" => Of(q[k]) # F
        <4> SUFFICES ASSUME NEW k \in 1..m, q[k].type = "INPUT" PROVE Of(q[k]) # F
          OBVIOUS
        <4> DEFINE y == Label(q, e, k)
        <4>1. Of(q[k]) = y
          BY <1>2 DEF Going, Down, Fits
        <4>2. y \in Nat /\ y <= E
          <5> DEFINE r == resume[Host]
                     b == base[Host]
                     s == Start(Host)
                     al == pc[Host] # "off"
          <5>1. Down(q, e, E, w, r, v, b, s, al)
            BY <1>2 DEF Going
          <5> HIDE DEF q, e, E, w, r, v, b, s, al
          <5> QED BY <1>3, <5>1, DownLine DEF m
        <4>3. y # E + 1
          <5> HIDE DEF y, E
          <5> QED BY <1>3, <4>2
        <4> QED BY <4>1, <4>3
      <3> HIDE DEF a, own, x, l, z, F, m
      <3>4. ASSUME NEW k \in 1..Len(a), a[k].type = "INPUT" PROVE Of(a[k]) # F
        <4>1. CASE k <= m
          <5>1. k \in 1..m
            BY <3>2, <4>1
          <5> QED BY <3>2, <3>3, <3>4, <5>1
        <4>2. CASE ~(k <= m)
          <5>1. k - m \in 1..Len(o) /\ m + (k - m) = k
            BY <3>2, <4>2
          <5>2. a[k] = o[k - m]
            BY <3>2, <5>1
          <5> QED BY <1>8, <3>4, <5>1, <5>2
        <4> QED BY <4>1, <4>2
      <3>5. Flow(a, F, own, x, l, z)
        BY <3>1, <3>4, FlowNone
      <3> QED BY <3>5 DEF a, own, x, l, z, F
    <2>2. Flow(p, E + 1, cells'[Guest][Guest], W, Last(Guest)', e = E + 1)
      <3> DEFINE own == cells'[Guest][Guest]
                 l == Last(Guest)'
                 whole == e = E + 1
                 F == E + 1
      <3>1. ~whole
        BY <1>17
      <3>2. \A k \in 1..Len(p) : p[k].type = "INPUT" => Of(p[k]) # F
        BY <1>23
      <3> HIDE DEF own, l, whole, F, p, W
      <3>3. Flow(p, F, own, W, l, whole)
        BY <3>1, <3>2, FlowNone
      <3> QED BY <3>3 DEF own, l, whole, F
    <2>3. Flow(chan'[Guest], line'[Host], cells'[Host][Host], Reach', Last(Host)', pc'[Host] # "off")
      BY <1>1, <1>7, <2>1
    <2>4. Flow(chan'[Host], line'[Host], cells'[Guest][Guest], wm'[Host], Last(Guest)', line'[Guest] = line'[Host])
      BY <1>1, <1>7, <2>2
    <2> QED BY <2>3, <2>4 DEF Flowing
  <1> HIDE DEF q, p, e, E, w, R, W, v
  <1>26. Playing'
    BY <1>11, <1>12, <1>16, <1>18, <1>19, <1>20, <1>21, <1>22, <1>24, <1>25 DEF Playing, Wires, Logged
  <1> QED BY <1>1, <1>9, <1>16, <1>26 DEF StoryInv

LEMMA PendingStory ==
  ASSUME ImageInv, ImageInv', StoryInv, ~dropped[Guest], NEW c \in Seats, Pending(c)
  PROVE  StoryInv'
  <1>1. CASE Wanted(c) /\ Push(c)
    BY <1>1, PushStory
  <1>2. CASE ~(Wanted(c) /\ Push(c))
    <2> DEFINE next == "pass"
    <2>1. /\ UNCHANGED <<tick, wm, cells, line, log, base, dropped, glitches, pushes, resume, hold, chan>>
          /\ pc[c] = "after" /\ pc' = [pc EXCEPT ![c] = next]
      BY <1>2 DEF Pending, engine, recovery
    <2>2. next \in Places /\ next # "after" /\ next \notin {"pump", "gate", "stall"}
      BY DEF Places
    <2> HIDE DEF next
    <2> QED BY <2>1, <2>2, WalkStep
  <1> QED BY <1>1, <1>2

\* The host dies: what it had under way is cut short.
LEMMA HostDiesStory ==
  ASSUME ImageInv, ImageInv', StoryInv, ~dropped[Guest], HostDies
  PROVE  StoryInv'
  <1> DEFINE q == chan[Guest]
             e == line[Guest]
             E == line[Host]
             own == cells[Host][Host]
             x == Reach
             l == Last(Host)
             l2 == Last(Host)'
             alive == pc[Host] # "off"
  <1>1. /\ pc' = [pc EXCEPT ![Host] = "off"]
        /\ UNCHANGED <<tick, wm, cells, line, log, base, dropped, glitches, pushes, resume, hold>>
    BY DEF HostDies, engine, recovery, image
  <1>2. PICK n \in 0..Len(q) : \E bye \in {<<>>, <<Frame("LEFT", 0, 0)>>} :
          chan' = [chan EXCEPT ![Guest] = SubSeq(q, 1, n) \o bye]
    BY DEF HostDies
  <1>3. PICK o \in {<<>>, <<Frame("LEFT", 0, 0)>>} : chan' = [chan EXCEPT ![Guest] = SubSeq(q, 1, n) \o o]
    BY <1>2
  <1>4. o \in Seq(Frames) /\ \A i \in 1..Len(o) : o[i].type = "LEFT"
    <2> DEFINE f == Frame("LEFT", 0, 0)
               z == <<f>>
    <2>1. f \in Frames /\ f.type = "LEFT"
      BY DEF Frame, Frames, Others
    <2> HIDE DEF f
    <2>2. z \in Seq(Frames) /\ \A i \in 1..Len(z) : z[i].type = "LEFT"
      BY <2>1, OneFrame
    <2>3. CASE o = <<>>
      BY <2>3, EmptyQueue
    <2>4. CASE o = z
      <3> HIDE DEF z
      <3> QED BY <2>2, <2>4
    <2> QED BY <2>3, <2>4 DEF z, f
  <1>5. Logs /\ Room /\ Pace /\ Going /\ Coming /\ Flowing
    BY DEF StoryInv, Playing, Wires
  <1>6. pc'[Host] = "off" /\ pc'[Guest] = pc[Guest]
    BY <1>1, SeatFacts DEF ImageInv, Basics
  <1>7. chan'[Guest] = SubSeq(q, 1, n) \o o /\ chan'[Host] = chan[Host]
    <2>1. chan \in [Seats -> Seq(Frames)]
      BY DEF ImageInv, Basics
    <2> DEFINE z == SubSeq(q, 1, n) \o o
    <2>2. chan' = [chan EXCEPT ![Guest] = z]
      BY <1>3
    <2> HIDE DEF z
    <2>3. chan'[Guest] = z /\ chan'[Host] = chan[Host]
      BY <2>1, <2>2, SeatFacts
    <2> QED BY <2>3 DEF z
  <1>8. Logs'
    BY <1>1, <1>5 DEF Logs
  <1>9. q \in Seq(Frames) /\ e \in Nat /\ E \in Nat /\ l \in Int /\ l2 \in Int
    BY <1>5, <1>8, Scalars, ScalarsNext
  <1>10. l <= l2 /\ Last(Guest)' = Last(Guest)
    <2>1. l <= l2
      BY <1>1, <1>6, SeatFacts, LastKept
    <2> QED BY <1>1, <1>6, <2>1 DEF Last
  <1>11. Reach' = Reach /\ Start(Host)' = Start(Host) /\ Fresh' = Fresh
    BY <1>1 DEF Reach, Start, Fresh
  <1>12. (pc'[Host] # "off") = FALSE
    BY <1>6
  <1>13. Room'
    BY <1>1, <1>5, <1>6 DEF Room
  <1>14. Pace'
    BY <1>1, <1>5 DEF Pace
  <1>15. Going'
    <2> DEFINE w == wm[Host]
               r == resume[Host]
               v == Fresh
               b == base[Host]
               s == Start(Host)
    <2>1. Down(q, e, E, w, r, v, b, s, alive)
      BY <1>5 DEF Going
    <2> HIDE DEF q, e, E, w, r, v, b, s, alive
    <2>2. Down(SubSeq(q, 1, n) \o o, e, E, w, r, v, b, s, FALSE)
      BY <1>4, <1>9, <2>1, DownCut
    <2> QED BY <1>1, <1>7, <1>11, <1>12, <2>2 DEF Going, e, E, w, r, v, b, s
  <1>16. Coming'
    BY <1>1, <1>5, <1>7 DEF Coming
  <1>17. Flowing'
    <2>1. Flow(q, E, own, x, l, alive)
      BY <1>5 DEF Flowing
    <2>2. \A i \in 1..Len(o) : o[i].type # "INPUT"
      BY <1>4
    <2> HIDE DEF q, E, own, x, l, l2, alive
    <2>3. Flow(q, E, own, x, l2, alive)
      BY <1>9, <1>10, <2>1, FlowWide
    <2>4. Flow(SubSeq(q, 1, n) \o o, E, own, x, l2, FALSE)
      BY <1>4, <1>9, <2>2, <2>3, FlowCut
    <2>5. Flow(chan'[Guest], line'[Host], cells'[Host][Host], Reach', Last(Host)', pc'[Host] # "off")
      BY <1>1, <1>7, <1>11, <1>12, <2>4 DEF E, own, x, l2
    <2>6. Flow(chan'[Host], line'[Host], cells'[Guest][Guest], wm'[Host], Last(Guest)', line'[Guest] = line'[Host])
      BY <1>1, <1>5, <1>7, <1>10 DEF Flowing
    <2> QED BY <2>5, <2>6 DEF Flowing
  <1>18. Last(Guest) <= Last(Guest)'
    <2> DEFINE y == Last(Guest)
    <2>1. y \in Int
      BY <1>5, Scalars
    <2>2. y <= y
      <3> HIDE DEF y
      <3> QED BY <2>1
    <2> QED BY <1>10, <2>2
  <1>19. resume'[Host] = resume[Host] /\ Last(Host) <= Last(Host)' /\ Wires'
    BY <1>1, <1>10, <1>15, <1>16, <1>17 DEF Wires
  <1> HIDE DEF q, e, E, own, x, l, l2, alive
  <1> QED BY <1>1, <1>13, <1>14, <1>18, <1>19, QuietKeeps

LEMMA InitStory ==
  ASSUME Init
  PROVE  StoryInv
  <1>1. \A c \in Seats : /\ pc[c] = "pass" /\ tick[c] = 0 /\ wm[c] = Delay - 1 /\ cells[c] = NoCells
                         /\ ~hold[c] /\ resume[c] = 0 /\ ~dropped[c] /\ chan[c] = <<>> /\ line[c] = 0
                         /\ base[c] = 0
    BY DEF Init
  <1>2. \A c \in Seats : log[c] = <<>> /\ Len(log[c]) = 0
    BY DEF Init
  <1>3. Fresh = 1
    BY DEF Init, Fresh
  <1>4. Logs
    BY DEF Init, Logs
  <1>5. Known
    BY <1>1, <1>3 DEF Known
  <1>6. \A c, s \in Seats, n \in Cells : cells[c][s][n] = Idle
    BY <1>1, NoCellsIdle
  <1>7. \A c \in Seats : Last(c) = Delay - 1 /\ Start(c) = 0
    BY <1>1, <1>2, Constants DEF Last, Start
  <1>8. Room
    BY <1>1, SeatFacts DEF Room
  <1>9. Pace
    <2>1. /\ 0 <= 0 /\ ~(0 < 0) /\ 0 >= 0 /\ Delay - 1 >= 0 + (Delay - 1) /\ 0 <= (Delay - 1) + 1
      BY Constants
    <2> QED BY <1>1, <2>1, SeatFacts DEF Pace
  <1>10. Captures
    <2>1. Delay - 1 <= Delay - 1 /\ ~(0 < 0)
      BY Constants
    <2>2. \A c \in Seats : Peer(c) \in Seats
      BY SeatFacts
    <2> QED BY <1>1, <1>6, <1>7, <2>1, <2>2, SeatFacts DEF Captures
  <1>11. Copies
    BY <1>6, SeatFacts DEF Copies
  <1>12. Logged
    <2>1. \A c \in Seats : Start(c) >= 0 /\ \A i \in 1..Len(log[c]) : FALSE
      BY <1>2, <1>7
    <2> QED BY <2>1, SeatFacts DEF Logged, LoggedAt
  <1>13. Names
    BY <1>1, <1>7, SeatFacts DEF Names
  <1>14. Wires
    <2> DEFINE q == chan[Guest]
               p == chan[Host]
    <2>1. q = <<>> /\ p = <<>> /\ Len(q) = 0 /\ Len(p) = 0 /\ \A k \in 1..0 : FALSE
      BY <1>1, SeatFacts
    <2>2. Label(q, 0, 1) = 0
      BY LabelFirst
    <2> HIDE DEF q, p
    <2>3. \A w, r, v, b, s, alive : Down(q, 0, 0, w, r, v, b, s, alive)
      <3>1. Len(q) + 1 = 1 /\ 0 <= 0
        BY <2>1
      <3> QED BY <2>1, <2>2, <3>1 DEF Down
    <2>4. Going
      BY <1>1, <2>3, SeatFacts DEF Going, q
    <2>5. Coming
      BY <2>1 DEF Coming, Rising, p
    <2>6. Flowing
      <3>1. Current(q, line[Host]) = {} /\ Current(p, line[Host]) = {}
        BY <2>1 DEF Current
      <3>2. \A n \in Cells : cells[Host][Host][n] = Idle /\ cells[Guest][Guest][n] = Idle
        BY <1>6, SeatFacts
      <3> QED BY <3>1, <3>2 DEF Flowing, Flow, q, p
    <2> QED BY <2>4, <2>5, <2>6 DEF Wires
  <1> QED BY <1>1, <1>4, <1>5, <1>8, <1>9, <1>10, <1>11, <1>12, <1>13, <1>14, SeatFacts DEF StoryInv, Playing

LEMMA StoryStepKeeps ==
  ASSUME ImageInv, ImageInv', StoryInv, [Next]_vars
  PROVE  StoryInv'
  <1>1. CASE dropped[Guest]
    BY <1>1, DroppedStory
  <1>2. CASE ~dropped[Guest]
    <2>1. CASE UNCHANGED vars
      <3>1. /\ UNCHANGED <<tick, wm, cells, line, log, base, dropped, glitches, pushes, resume, hold, chan>>
            /\ pc' = pc
        BY <2>1 DEF vars, engine, recovery, wire, image
      <3>2. \A d \in Seats :
              /\ pc[d] \in {"gate", "stall", "off"} => pc'[d] \in {"gate", "stall", "off"}
              /\ pc'[d] \in {"pump", "gate", "stall"} =>
                   pc[d] \in {"pump", "gate", "stall"} \/ tick[d] < MaxTick
              /\ pc'[d] = "after" => pc[d] = "after"
        BY <3>1
      <3> QED BY <1>2, <3>1, <3>2, WalkKeeps
    <2>2. CASE HostDies
      BY <1>2, <2>2, HostDiesStory
    <2>3. ASSUME NEW c \in Seats, Read(c) \/ Handle(c) \/ Pass(c) \/ Timeouts(c)
          PROVE  StoryInv'
      <3>1. CASE Read(c)
        BY <1>2, <3>1, ReadStory
      <3>2. CASE Handle(c)
        <4>1. \/ OnInput(c) \/ OnCrc(c) \/ OnReq(c) \/ OnBegin(c) \/ OnChunk(c) \/ OnEnd(c) \/ OnLeft(c)
          BY <3>2 DEF Handle
        <4> QED BY <1>2, <4>1, OnInputStory, OnCrcStory, OnReqStory, OnBeginStory, OnEndStory, LeavingStory
      <3>3. CASE Pass(c)
        <4>1. \/ EnterPass(c) \/ HoldPass(c) \/ CaptureInput(c) \/ Stall(c) \/ Round(c) \/ RunTick(c)
              \/ Pending(c)
          BY <3>3 DEF Pass
        <4> QED BY <1>2, <4>1, EnterPassStory, HoldPassStory, CaptureStory, StallStory, RoundStory,
                   RunTickStory, PendingStory
      <3>4. CASE Timeouts(c)
        BY <1>2, <3>4, LeavingStory DEF Timeouts
      <3> QED BY <2>3, <3>1, <3>2, <3>3, <3>4
    <2> QED BY <2>1, <2>2, <2>3 DEF Next
  <1> QED BY <1>1, <1>2

-----------------------------------------------------------------------------
(***************************************************************************)
(* Every input under way belongs to the timeline its console was in when   *)
(* it captured it, and whoever takes it is in that timeline or has a       *)
(* watermark at or above it: LS_ON_INPUT drops it.  RS_PUSH's resume tick  *)
(* is Lead ahead, and RS_REBASE sets the watermark Delay - 1 beyond it, so *)
(* that it passes everything the timelines before can have sent.           *)
(***************************************************************************)
THEOREM StoryInvariant == Spec => []StoryInv
  <1>1. Init => StoryInv
    BY InitStory
  <1>2. ImageInv /\ ImageInv' /\ StoryInv /\ [Next]_vars => StoryInv'
    BY StoryStepKeeps
  <1>3. Spec => []ImageInv
    BY ImageInvariant
  <1> QED BY <1>1, <1>2, <1>3, PTL DEF Spec

(***************************************************************************)
(* Two consoles that started from the same state, at the match's start or  *)
(* at a resync, have run the same ticks with the same inputs, whatever was *)
(* still under way when RS_REBASE emptied their rings, however many pushes *)
(* follow each other, and if the host dies in the middle of one.           *)
(***************************************************************************)
THEOREM SameStories == Spec => []SameStory
  <1>1. ImageInv /\ StoryInv => SameStory
    BY PlayingSame DEF StoryInv
  <1> QED BY <1>1, ImageInvariant, StoryInvariant, PTL
=============================================================================
