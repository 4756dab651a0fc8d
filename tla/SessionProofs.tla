--------------------------- MODULE SessionProofs ----------------------------
(***************************************************************************)
(* What a console shows is what the relay has it in, for any number of     *)
(* consoles, frames under way, resets and broken connections.              *)
(*                                                                         *)
(* The argument is about the console's queue.  What a console will show is *)
(* decided by the last frame on its way to it, or by its screen when there *)
(* is none, and every step of the relay that changes the console's room    *)
(* appends the frame that says so.  START comes after the frames of the    *)
(* room and nothing comes after it but PEER_LEFT, which ends the story: it *)
(* sets NET_DROPPED, and only RESET clears that.                           *)
(***************************************************************************)
EXTENDS Session, FiniteSetTheorems, SequenceTheorems, TLAPS

\* The frames of the relay.
Frames ==
  [type : {"ROOM"}, count : {0, 2}, first : Consoles \cup {Nobody}]
    \cup [type : {"START"}, seat : {0, 1}, peer : Consoles]
    \cup [type : {"PEER_LEFT"}]

\* The rooms rs a console is in; one at most, with two members.
In(c, rs) == {r \in rs : c \in Members(r)}
RoomsFit(rs) ==
  /\ rs \subseteq Rooms
  /\ \A r \in rs : r.host # r.guest
  /\ \A r, s \in rs : \A c \in Consoles : c \in Members(r) /\ c \in Members(s) => r = s

\* A screen that shows n players, and this console as host if h; a seat s
\* against p; a frame that says so.
ScreenFits(c, rs, n, h) ==
  /\ \A r \in In(c, rs) : ~r.started
  /\ n = IF In(c, rs) = {} THEN 0 ELSE 2
  /\ h <=> \E r \in In(c, rs) : r.host = c
SeatFits(c, rs, s, p) ==
  \E r \in In(c, rs) : r.started /\ Members(r) = {c, p} /\ s = IF r.host = c THEN 0 ELSE 1
FrameFits(c, rs, f) ==
  /\ f.type = "ROOM" => ScreenFits(c, rs, f.count, IsHost(c, f))
  /\ f.type = "START" => SeatFits(c, rs, f.seat, f.peer)

\* A console that has not been told, and is not being told, that its peer
\* left; q are the frames on their way to it.
Attends(c, q) ==
  /\ link[c] /\ ~dropped[c] /\ phase[c] \in {"lobby", "match"}
  /\ \A i \in 1..Len(q) : q[i].type # "PEER_LEFT"

\* What it will show, in the end, is what rs says.
WillShow(c, rs, q) ==
  /\ \A i \in 1..Len(q) : q[i].type = "START" => i = Len(q)
  /\ phase[c] = "match" => q = <<>>
  /\ (q = <<>> /\ phase[c] = "lobby") => ScreenFits(c, rs, count[c], host[c])
  /\ (q = <<>> /\ phase[c] = "match") => SeatFits(c, rs, seat[c], peer[c])
  /\ q # <<>> => FrameFits(c, rs, q[Len(q)])

\* Not in a match, and not being told of one.
NotPlaying(c, q) == phase[c] = "lobby" /\ \A i \in 1..Len(q) : q[i].type # "START"

Basics ==
  /\ phase \in [Consoles -> {"off", "lobby", "match", "parked"}]
  /\ count \in [Consoles -> {0, 2}]
  /\ host \in [Consoles -> BOOLEAN]
  /\ dropped \in [Consoles -> BOOLEAN]
  /\ seat \in [Consoles -> {0, 1}]
  /\ peer \in [Consoles -> Consoles \cup {Nobody}]
  /\ known \in [Consoles -> SUBSET Consoles]
  /\ up \in [Consoles -> Seq(Asks)]
  /\ down \in [Consoles -> Seq(Frames)]
  /\ link \in [Consoles -> BOOLEAN]
  /\ dir \subseteq Consoles
  /\ faults \in 0..MaxFaults

\* A connection that is gone carries nothing; a console that is off is as
\* RESET left it; before the relay has HELLO there is nothing but the HELLO.
Connections ==
  \A c \in Consoles :
    /\ ~link[c] => down[c] = <<>>
    /\ phase[c] = "off" => ~link[c] /\ count[c] = 0 /\ ~host[c] /\ ~dropped[c]
    /\ c \notin dir => (up[c] = <<>> \/ Head(up[c]).type = "HELLO")
    /\ (link[c] /\ c \notin dir) =>
         /\ up[c] # <<>> /\ down[c] = <<>> /\ count[c] = 0 /\ ~host[c] /\ ~dropped[c]
         /\ phase[c] = "lobby"

\* The relay's rooms: of clients it knows.
RelayRooms ==
  /\ RoomsFit(rooms)
  /\ \A r \in rooms : Members(r) \subseteq dir

Views == \A c \in dir : Attends(c, down[c]) => WillShow(c, rooms, down[c])

SessionInv == Basics /\ Connections /\ RelayRooms /\ Views

-----------------------------------------------------------------------------
(* Queues, rooms and what a console will show.                             *)

LEMMA FrameTypes ==
  /\ \A h \in Consoles \cup {Nobody} : \A n \in {0, 2} :
       /\ Room(n, h) \in Frames
       /\ Room(n, h).type = "ROOM" /\ Room(n, h).count = n /\ Room(n, h).first = h
  /\ \A s \in {0, 1}, p \in Consoles :
       /\ Start(s, p) \in Frames
       /\ Start(s, p).type = "START" /\ Start(s, p).seat = s /\ Start(s, p).peer = p
  /\ PeerLeft \in Frames /\ PeerLeft.type = "PEER_LEFT"
  BY DEF Frames, Room, Start, PeerLeft

LEMMA QueueAppend ==
  ASSUME NEW S, NEW q \in Seq(S), NEW f \in S
  PROVE  /\ Append(q, f) \in Seq(S) /\ Append(q, f) # <<>>
         /\ Len(q) \in Nat /\ Len(Append(q, f)) = Len(q) + 1
         /\ \A i \in 1..Len(q) : i \in 1..Len(Append(q, f)) /\ Append(q, f)[i] = q[i]
         /\ Append(q, f)[Len(q) + 1] = f
         /\ \A i \in 1..Len(Append(q, f)) : i = Len(q) + 1 \/ i \in 1..Len(q)
         /\ q # <<>> => Head(Append(q, f)) = Head(q)
  <1> DEFINE a == Append(q, f)
  <1>1. /\ a \in Seq(S) /\ Len(a) = Len(q) + 1 /\ Len(q) \in Nat
        /\ \A i \in 1..Len(q) : a[i] = q[i]
        /\ a[Len(q) + 1] = f /\ a # <<>>
    BY AppendProperties, LenProperties
  <1> HIDE DEF a
  <1>2. /\ \A i \in 1..Len(q) : i \in 1..Len(a)
        /\ \A i \in 1..Len(a) : i = Len(q) + 1 \/ i \in 1..Len(q)
    BY <1>1
  <1>3. ASSUME q # <<>> PROVE Head(a) = Head(q)
    <2>1. Head(q) = q[1] /\ Head(a) = a[1] /\ 1 \in 1..Len(q)
      BY <1>1, <1>3, HeadTailProperties, EmptySeq
    <2> QED BY <1>1, <2>1
  <1> QED BY <1>1, <1>2, <1>3 DEF a

LEMMA QueueTail ==
  ASSUME NEW S, NEW q \in Seq(S), q # <<>>
  PROVE  /\ Tail(q) \in Seq(S) /\ Head(q) \in S /\ Head(q) = q[1]
         /\ Len(q) \in Nat /\ 1 \in 1..Len(q) /\ Len(Tail(q)) = Len(q) - 1 /\ Len(Tail(q)) \in Nat
         /\ \A i \in 1..Len(Tail(q)) : i + 1 \in 1..Len(q) /\ Tail(q)[i] = q[i + 1]
         /\ Tail(q) = <<>> => Len(q) = 1
         /\ Tail(q) # <<>> => Tail(q)[Len(Tail(q))] = q[Len(q)]
  <1> DEFINE t == Tail(q)
  <1>1. /\ t \in Seq(S) /\ Head(q) \in S /\ Head(q) = q[1] /\ Len(q) \in Nat /\ Len(q) >= 1
        /\ Len(t) = Len(q) - 1 /\ \A i \in 1..Len(t) : t[i] = q[i + 1]
    BY HeadTailProperties, EmptySeq, LenProperties
  <1> HIDE DEF t
  <1>2. /\ 1 \in 1..Len(q) /\ Len(t) \in Nat /\ \A i \in 1..Len(t) : i + 1 \in 1..Len(q)
    BY <1>1
  <1>3. t = <<>> => Len(q) = 1
    BY <1>1, EmptySeq
  <1>4. t # <<>> => t[Len(t)] = q[Len(q)]
    <2>1. t # <<>> => Len(t) \in 1..Len(t)
      BY <1>1, <1>2, EmptySeq
    <2>2. Len(t) + 1 = Len(q)
      BY <1>1
    <2> QED BY <1>1, <2>1, <2>2
  <1> QED BY <1>1, <1>2, <1>3, <1>4 DEF t

LEMMA NoFrames ==
  ASSUME NEW S
  PROVE  <<>> \in Seq(S) /\ Len(<<>>) = 0 /\ \A i \in 1..Len(<<>>) : FALSE
  BY EmptySeq

\* The rooms of a console matter, the others do not.
LEMMA SameRooms ==
  ASSUME NEW c, NEW rs, NEW ss, In(c, rs) = In(c, ss), NEW q
  PROVE  WillShow(c, rs, q) => WillShow(c, ss, q)
  <1>1. \A n, h : ScreenFits(c, rs, n, h) => ScreenFits(c, ss, n, h)
    BY DEF ScreenFits
  <1>2. \A s, p : SeatFits(c, rs, s, p) => SeatFits(c, ss, s, p)
    BY DEF SeatFits
  <1>3. \A f : FrameFits(c, rs, f) => FrameFits(c, ss, f)
    BY <1>1, <1>2 DEF FrameFits
  <1> QED BY <1>1, <1>2, <1>3 DEF WillShow

\* In a forming room, or in none, a console is not in a match.
LEMMA FormingNotPlaying ==
  ASSUME NEW c, NEW rs, NEW q \in Seq(Frames), Attends(c, q), WillShow(c, rs, q),
         \A r \in In(c, rs) : ~r.started
  PROVE  NotPlaying(c, q)
  <1>1. \A s, p : ~SeatFits(c, rs, s, p)
    BY DEF SeatFits
  <1>2. phase[c] # "match"
    BY <1>1 DEF WillShow
  <1>3. ASSUME NEW i \in 1..Len(q), q[i].type = "START" PROVE FALSE
    <2>1. i = Len(q) /\ q # <<>>
      BY <1>3, EmptySeq DEF WillShow
    <2>2. FrameFits(c, rs, q[i])
      BY <2>1 DEF WillShow
    <2> QED BY <1>1, <1>3, <2>2 DEF FrameFits
  <1> QED BY <1>2, <1>3 DEF NotPlaying, Attends

\* The frame that says it is appended.
LEMMA ToldLast ==
  ASSUME NEW c, NEW rs, NEW q \in Seq(Frames), NEW f \in Frames, NotPlaying(c, q),
         FrameFits(c, rs, f)
  PROVE  WillShow(c, rs, Append(q, f))
  <1> DEFINE a == Append(q, f)
  <1>1. /\ a # <<>> /\ Len(q) \in Nat /\ Len(a) = Len(q) + 1
        /\ \A i \in 1..Len(q) : a[i] = q[i]
        /\ a[Len(q) + 1] = f
        /\ \A i \in 1..Len(a) : i = Len(q) + 1 \/ i \in 1..Len(q)
    BY QueueAppend
  <1> HIDE DEF a
  <1>2. \A i \in 1..Len(a) : a[i].type = "START" => i = Len(a)
    BY <1>1 DEF NotPlaying
  <1>3. a[Len(a)] = f
    BY <1>1
  <1>4. phase[c] # "match"
    BY DEF NotPlaying
  <1>5. WillShow(c, rs, a)
    BY <1>1, <1>2, <1>3, <1>4 DEF WillShow
  <1> QED BY <1>5 DEF a

LEMMA AttendsBefore ==
  ASSUME NEW c, NEW q \in Seq(Frames), NEW f \in Frames, Attends(c, Append(q, f))
  PROVE  Attends(c, q) /\ f.type # "PEER_LEFT"
  <1> DEFINE a == Append(q, f)
  <1>1. /\ Len(a) = Len(q) + 1 /\ Len(q) \in Nat
        /\ \A i \in 1..Len(q) : i \in 1..Len(a) /\ a[i] = q[i]
        /\ a[Len(q) + 1] = f
    BY QueueAppend
  <1>2. Attends(c, a)
    OBVIOUS
  <1> HIDE DEF a
  <1>3. Len(q) + 1 \in 1..Len(a)
    BY <1>1
  <1> QED BY <1>1, <1>2, <1>3 DEF Attends

LEMMA RoomTypes ==
  ASSUME NEW r \in Rooms
  PROVE  /\ r.host \in Consoles /\ r.guest \in Consoles /\ r.started \in BOOLEAN
         /\ Members(r) \subseteq Consoles /\ r.host \in Members(r) /\ r.guest \in Members(r)
  BY DEF Rooms, Members

\* The relay's steps leave the consoles alone.
LEMMA RelayStep ==
  ASSUME UNCHANGED <<phase, screen, play, link>>,
         \A c \in dir' : Attends(c, down'[c]) => WillShow(c, rooms', down'[c])
  PROVE  Views'
  BY DEF screen, play, Views, Attends, WillShow

-----------------------------------------------------------------------------
(* The relay's drop() and its pair of sends, begun with rooms rs, queues q *)
(* to and u from the consoles.                                             *)

QueuesFit(q, u) ==
  /\ q \in [Consoles -> Seq(Frames)] /\ u \in [Consoles -> Seq(Asks)]
  /\ \A p \in Consoles :
       /\ ~link[p] => q[p] = <<>>
       /\ p \notin dir => (u[p] = <<>> \/ Head(u[p]).type = "HELLO")
       /\ (link[p] /\ p \notin dir) => u[p] # <<>> /\ q[p] = <<>>

LEMMA DropInv ==
  ASSUME SessionInv, NEW c \in Consoles, ~link[c],
         NEW rs, RoomsFit(rs), \A r \in rs : Members(r) \subseteq dir,
         NEW q, NEW u, QueuesFit(q, u),
         \A p \in dir : (p # c /\ Attends(p, q[p])) =>
            \/ WillShow(p, rs, q[p])
            \/ \E r \in In(c, rs) : p \in Members(r) /\ NotPlaying(p, q[p])
            \/ \E r \in In(c, rs) : p \in Members(r) /\ r.started,
         DropFrom(c, rs, q, u), UNCHANGED <<phase, screen, play, link, known, faults>>
  PROVE  SessionInv'
  <1> DEFINE mine == {r \in rs : c \in Members(r)}
             left == (UNION {Members(r) : r \in mine}) \ {c}
             gone == {c} \cup {p \in left : ~link[p]}
  <1>1. /\ rooms' = rs \ mine
        /\ dir' = dir \ gone
        /\ down' = [p \in Consoles |->
                      IF p \in left \ gone
                      THEN Append(q[p], Word(CHOOSE r \in mine : p \in Members(r)))
                      ELSE q[p]]
        /\ up' = [p \in Consoles |-> IF p \in gone THEN <<>> ELSE u[p]]
    BY DEF DropFrom
  <1>2. /\ Basics /\ Connections /\ dir \subseteq Consoles /\ link \in [Consoles -> BOOLEAN]
        /\ q \in [Consoles -> Seq(Frames)] /\ u \in [Consoles -> Seq(Asks)]
    BY DEF SessionInv, Basics, QueuesFit
  <1>3. /\ \A r \in rs : r \in Rooms
        /\ \A r, s \in rs : \A p \in Consoles : p \in Members(r) /\ p \in Members(s) => r = s
    BY DEF RoomsFit
  <1>4. \A p \in gone : ~link[p]
    OBVIOUS
  <1>0. \A p : p \in left <=> p # c /\ \E r \in mine : p \in Members(r)
    <2> DEFINE all == UNION {Members(r) : r \in mine}
    <2>1. left = all \ {c}
      OBVIOUS
    <2> HIDE DEF mine, left
    <2>2. \A p : p \in all <=> \E r \in mine : p \in Members(r)
      OBVIOUS
    <2> HIDE DEF all
    <2> QED BY <2>1, <2>2
  <1>15. mine \subseteq rs
    OBVIOUS
  <1>5. \A p \in left : p \in dir /\ p \in Consoles /\ p # c /\ \E r \in mine : p \in Members(r)
    <2> HIDE DEF mine, left
    <2> QED BY <1>0, <1>2, <1>15
  <1>6. \A p \in Consoles : (p # c /\ \E r \in mine : p \in Members(r)) => p \in left
    BY <1>0
  <1>7. \A p \in left : \A r \in mine : p \in Members(r) => (CHOOSE s \in mine : p \in Members(s)) = r
    BY <1>3, <1>5
  <1>8. \A r \in mine : Word(r) \in Frames
    BY FrameTypes DEF Word
  <1>9. /\ \A p \in left \ gone : \A r \in mine : p \in Members(r) => down'[p] = Append(q[p], Word(r))
        /\ \A p \in Consoles : p \notin left \ gone => down'[p] = q[p]
    <2>1. \A p \in left \ gone : down'[p] = Append(q[p], Word(CHOOSE r \in mine : p \in Members(r)))
      BY <1>1, <1>5
    <2>2. \A p \in Consoles : p \notin left \ gone => down'[p] = q[p]
      BY <1>1
    <2> HIDE DEF mine, left, gone
    <2> QED BY <1>7, <2>1, <2>2
  <1>10. \A p \in Consoles : up'[p] = IF p \in gone THEN <<>> ELSE u[p]
    BY <1>1
  <1>11. mine = In(c, rs)
    BY DEF In
  <1>12. \A r \in rs : r \notin mine => c \notin Members(r)
    OBVIOUS
  <1>13. c \in gone /\ \A p \in gone : p = c \/ p \in left
    OBVIOUS
  <1>14. \A p \in left : ~link[p] => p \in gone
    OBVIOUS
  <1> HIDE DEF mine, left, gone
  <1>16. Basics'
    <2>1. down' \in [Consoles -> Seq(Frames)]
      <3>1. \A p \in Consoles : down'[p] \in Seq(Frames)
        <4> SUFFICES ASSUME NEW p \in Consoles PROVE down'[p] \in Seq(Frames)
          OBVIOUS
        <4>0. q[p] \in Seq(Frames)
          BY <1>2
        <4>1. CASE p \in left \ gone
          <5>1. PICK r \in mine : p \in Members(r)
            BY <1>5, <4>1
          <5>2. down'[p] = Append(q[p], Word(r)) /\ Word(r) \in Frames
            BY <1>8, <1>9, <4>1, <5>1
          <5> QED BY <4>0, <5>2, QueueAppend
        <4>2. CASE p \notin left \ gone
          BY <1>9, <4>0, <4>2
        <4> QED BY <4>1, <4>2
      <3>2. down' = [p \in Consoles |-> down'[p]]
        BY <1>1
      <3> QED BY <3>1, <3>2
    <2>2. up' \in [Consoles -> Seq(Asks)]
      <3>1. <<>> \in Seq(Asks)
        BY EmptySeq
      <3> QED BY <1>1, <1>2, <3>1
    <2>3. dir' \subseteq Consoles
      BY <1>1, <1>2
    <2> QED BY <1>2, <2>1, <2>2, <2>3 DEF Basics, screen, play
  <1>17. Connections'
    <2> SUFFICES ASSUME NEW p \in Consoles
                 PROVE  /\ ~link[p] => down'[p] = <<>>
                        /\ phase[p] = "off" => ~link[p] /\ count[p] = 0 /\ ~host[p] /\ ~dropped[p]
                        /\ p \notin dir' => (up'[p] = <<>> \/ Head(up'[p]).type = "HELLO")
                        /\ (link[p] /\ p \notin dir') =>
                             /\ up'[p] # <<>> /\ down'[p] = <<>> /\ count[p] = 0 /\ ~host[p]
                             /\ ~dropped[p] /\ phase[p] = "lobby"
      BY DEF Connections, screen, play
    <2>1. ~link[p] => down'[p] = <<>>
      BY <1>9, <1>14 DEF QueuesFit
    <2>2. p \notin dir' => (up'[p] = <<>> \/ Head(up'[p]).type = "HELLO")
      BY <1>1, <1>10 DEF QueuesFit
    <2>3. ASSUME link[p], p \notin dir'
          PROVE  /\ up'[p] # <<>> /\ down'[p] = <<>> /\ count[p] = 0 /\ ~host[p]
                 /\ ~dropped[p] /\ phase[p] = "lobby"
      <3>1. p \notin gone /\ p \notin dir /\ p \notin left
        BY <1>1, <1>4, <1>5, <2>3
      <3>2. up'[p] = u[p] /\ down'[p] = q[p]
        BY <1>9, <1>10, <3>1
      <3> QED BY <1>2, <2>3, <3>1, <3>2 DEF QueuesFit, Connections
    <2> QED BY <1>2, <2>1, <2>2, <2>3 DEF Connections
  <1>18. RelayRooms'
    <2>1. RoomsFit(rooms')
      BY <1>1 DEF RoomsFit
    <2>2. \A r \in rooms' : Members(r) \subseteq dir'
      <3> SUFFICES ASSUME NEW r \in rs, r \notin mine, NEW x \in Members(r) PROVE x \in dir \ gone
        BY <1>1
      <3>1. x \in dir /\ x \in Consoles
        BY <1>2
      <3>2. x # c
        BY <1>12
      <3>3. x \notin left
        BY <1>3, <1>5, <1>15, <3>1
      <3> QED BY <1>13, <3>1, <3>2, <3>3
    <2> QED BY <2>1, <2>2 DEF RelayRooms, RoomsFit, Members
  <1>19. Views'
    <2>1. ASSUME NEW p \in dir', Attends(p, down'[p])
          PROVE  WillShow(p, rooms', down'[p])
      <3>1. p \in dir /\ p \in Consoles /\ p \notin gone /\ p # c /\ q[p] \in Seq(Frames)
        BY <1>1, <1>2, <1>13
      <3>2. CASE p \notin left
        <4>1. down'[p] = q[p] /\ \A r \in mine : p \notin Members(r)
          BY <1>6, <1>9, <3>1, <3>2
        <4>2. WillShow(p, rs, q[p])
          BY <1>11, <2>1, <3>1, <4>1
        <4>3. In(p, rs) = In(p, rooms')
          BY <1>1, <4>1 DEF In
        <4> QED BY <4>1, <4>2, <4>3, SameRooms
      <3>3. CASE p \in left
        <4>1. PICK r \in mine : p \in Members(r)
          BY <1>5, <3>3
        <4>2. down'[p] = Append(q[p], Word(r)) /\ Word(r) \in Frames
          BY <1>8, <1>9, <3>1, <3>3, <4>1
        <4>3. Attends(p, q[p]) /\ Word(r).type # "PEER_LEFT"
          BY <2>1, <3>1, <4>2, AttendsBefore
        <4>4. ~r.started /\ Word(r) = Room(0, Nobody)
          BY <4>3, FrameTypes DEF Word
        <4>5. \A s \in rs : p \in Members(s) => s = r
          BY <1>3, <1>15, <3>1, <4>1
        <4>6. NotPlaying(p, q[p])
          <5>1. ASSUME WillShow(p, rs, q[p]) PROVE NotPlaying(p, q[p])
            <6>1. \A s \in In(p, rs) : ~s.started
              BY <4>4, <4>5 DEF In
            <6> QED BY <3>1, <4>3, <5>1, <6>1, FormingNotPlaying
          <5>2. ~\E s \in In(c, rs) : p \in Members(s) /\ s.started
            BY <4>4, <4>5 DEF In
          <5> QED BY <3>1, <4>3, <5>1, <5>2
        <4>7. FrameFits(p, rooms', Room(0, Nobody))
          <5>1. In(p, rooms') = {}
            BY <1>1, <4>1, <4>5 DEF In
          <5> DEFINE f == Room(0, Nobody)
          <5>2. f.type = "ROOM" /\ f.count = 0
            BY FrameTypes
          <5> HIDE DEF f
          <5>3. ~IsHost(p, f)
            BY <5>2 DEF IsHost
          <5>4. FrameFits(p, rooms', f)
            BY <5>1, <5>2, <5>3 DEF FrameFits, ScreenFits
          <5> QED BY <5>4 DEF f
        <4> QED BY <3>1, <4>2, <4>4, <4>6, <4>7, ToldLast
      <3> QED BY <3>2, <3>3
    <2> QED BY <2>1, RelayStep
  <1> QED BY <1>16, <1>17, <1>18, <1>19 DEF SessionInv

\* One more frame on its way to a console that is connected and known.
LEMMA PostFits ==
  ASSUME NEW q, NEW u, QueuesFit(q, u), NEW p \in Consoles, link[p], p \in dir, NEW f \in Frames,
         NEW t, t = [d \in Consoles |-> t[d]], t[p] = Append(q[p], f),
         \A d \in Consoles : d # p => t[d] = q[d]
  PROVE  QueuesFit(t, u)
  <1>1. q \in [Consoles -> Seq(Frames)]
    BY DEF QueuesFit
  <1>2. t[p] \in Seq(Frames)
    BY <1>1, QueueAppend
  <1>3. t \in [Consoles -> Seq(Frames)]
    <2>1. \A d \in Consoles : t[d] \in Seq(Frames)
      BY <1>1, <1>2
    <2> QED BY <2>1
  <1> QED BY <1>3 DEF QueuesFit

\* SendBoth where both frames say what the rooms rs say, and the two were
\* not in a match.
LEMMA SendBothInv ==
  ASSUME SessionInv, NEW rs, RoomsFit(rs), \A s \in rs : Members(s) \subseteq dir,
         NEW r \in rs, r.host # r.guest,
         \A p \in Consoles : p \notin Members(r) => In(p, rs) = In(p, rooms),
         NEW fh \in Frames, NEW fg \in Frames, FrameFits(r.host, rs, fh), FrameFits(r.guest, rs, fg),
         \A p \in Members(r) : Attends(p, down[p]) => NotPlaying(p, down[p]),
         NEW u, QueuesFit(down, u), SendBoth(r, rs, fh, fg, u),
         UNCHANGED <<phase, screen, play, link, known, faults>>
  PROVE  SessionInv'
  <1> DEFINE h == r.host
             g == r.guest
             a == Append(down[h], fh)
             q == [down EXCEPT ![h] = a]
  <1>1. /\ r \in Rooms /\ h \in Consoles /\ g \in Consoles /\ h \in dir /\ g \in dir
        /\ h \in Members(r) /\ g \in Members(r) /\ h # g
        /\ \A p : p \in Members(r) <=> p \in {h, g}
    BY RoomTypes DEF RoomsFit, Members
  <1>2. /\ Basics /\ Connections /\ dir \subseteq Consoles /\ link \in [Consoles -> BOOLEAN]
        /\ down \in [Consoles -> Seq(Frames)] /\ Views
    BY DEF SessionInv, Basics
  <1>3. \A p \in dir : (p \notin Members(r) /\ Attends(p, down[p])) => WillShow(p, rs, down[p])
    <2> SUFFICES ASSUME NEW p \in dir, p \notin Members(r), Attends(p, down[p])
                 PROVE  WillShow(p, rs, down[p])
      OBVIOUS
    <2>1. WillShow(p, rooms, down[p])
      BY <1>2 DEF Views
    <2>2. In(p, rooms) = In(p, rs)
      BY <1>2
    <2> QED BY <2>1, <2>2, SameRooms
  <1>4. FrameFits(h, rs, fh) /\ FrameFits(g, rs, fg)
    OBVIOUS
  <1>5. /\ (~link[h]) => DropFrom(h, rs, down, u)
        /\ (link[h] /\ ~link[g]) => DropFrom(g, rs, q, u)
        /\ (link[h] /\ link[g]) => /\ rooms' = rs /\ up' = u /\ dir' = dir
                                   /\ down' = [q EXCEPT ![g] = Append(q[g], fg)]
    BY DEF SendBoth
  <1>6. r \in In(h, rs) /\ r \in In(g, rs)
    BY <1>1 DEF In
  <1>7. link[h] => /\ QueuesFit(q, u) /\ q[h] = Append(down[h], fh)
                   /\ \A d \in Consoles : d # h => q[d] = down[d]
    <2>1. a = Append(down[h], fh) /\ q = [down EXCEPT ![h] = a]
      OBVIOUS
    <2> HIDE DEF h, g, a, q
    <2>2. /\ q = [d \in Consoles |-> q[d]] /\ q[h] = Append(down[h], fh)
          /\ \A d \in Consoles : d # h => q[d] = down[d]
      BY <1>1, <1>2, <2>1
    <2>3. link[h] => QueuesFit(q, u)
      BY <1>1, <2>2, PostFits
    <2> QED BY <2>2, <2>3
  <1> HIDE DEF h, g, a, q
  <1>8. link[h] => (Attends(h, q[h]) => WillShow(h, rs, q[h]))
    <2> SUFFICES ASSUME link[h], Attends(h, q[h]) PROVE WillShow(h, rs, q[h])
      OBVIOUS
    <2>1. down[h] \in Seq(Frames)
      BY <1>1, <1>2
    <2>2. Attends(h, down[h])
      BY <1>7, <2>1, AttendsBefore
    <2> QED BY <1>1, <1>4, <1>7, <2>1, <2>2, ToldLast
  <1>9. CASE ~link[h]
    <2>1. \A p \in dir : (p # h /\ Attends(p, down[p])) =>
            \/ WillShow(p, rs, down[p])
            \/ \E s \in In(h, rs) : p \in Members(s) /\ NotPlaying(p, down[p])
            \/ \E s \in In(h, rs) : p \in Members(s) /\ s.started
      BY <1>1, <1>3, <1>6
    <2> QED BY <1>1, <1>5, <1>9, <2>1, DropInv
  <1>10. CASE link[h] /\ ~link[g]
    <2>1. \A p \in dir : (p # g /\ Attends(p, q[p])) =>
            \/ WillShow(p, rs, q[p])
            \/ \E s \in In(g, rs) : p \in Members(s) /\ NotPlaying(p, q[p])
            \/ \E s \in In(g, rs) : p \in Members(s) /\ s.started
      BY <1>1, <1>2, <1>3, <1>7, <1>8, <1>10
    <2> QED BY <1>1, <1>5, <1>7, <1>10, <2>1, DropInv
  <1>11. CASE link[h] /\ link[g]
    <2>1. rooms' = rs /\ up' = u /\ dir' = dir /\ down' = [q EXCEPT ![g] = Append(q[g], fg)]
      BY <1>5, <1>11
    <2>2. /\ QueuesFit(down', u) /\ down'[g] = Append(q[g], fg)
          /\ \A d \in Consoles : d # g => down'[d] = q[d]
      <3> DEFINE b == Append(q[g], fg)
      <3>1. b = Append(q[g], fg) /\ down' = [q EXCEPT ![g] = b]
        BY <2>1
      <3> HIDE DEF b
      <3>2. q \in [Consoles -> Seq(Frames)]
        BY <1>7, <1>11 DEF QueuesFit
      <3>3. /\ down' = [d \in Consoles |-> down'[d]] /\ down'[g] = b
            /\ \A d \in Consoles : d # g => down'[d] = q[d]
        BY <1>1, <3>1, <3>2
      <3>4. QueuesFit(down', u)
        <4> DEFINE t == down'
        <4>1. /\ t = [d \in Consoles |-> t[d]] /\ t[g] = Append(q[g], fg)
              /\ \A d \in Consoles : d # g => t[d] = q[d]
          BY <3>1, <3>3
        <4> HIDE DEF t
        <4>2. QueuesFit(t, u)
          BY <1>1, <1>7, <1>11, <4>1, PostFits
        <4> QED BY <4>2 DEF t
      <3> QED BY <3>1, <3>3, <3>4
    <2>3. Basics'
      <3>1. down' \in [Consoles -> Seq(Frames)] /\ up' \in [Consoles -> Seq(Asks)]
        BY <2>1, <2>2 DEF QueuesFit
      <3> QED BY <1>2, <2>1, <3>1 DEF Basics, screen, play
    <2>4. Connections'
      BY <1>2, <2>1, <2>2 DEF Connections, QueuesFit, screen, play
    <2>5. RelayRooms'
      BY <2>1 DEF RelayRooms, RoomsFit, Members
    <2>6. ASSUME NEW p \in dir', Attends(p, down'[p])
          PROVE  WillShow(p, rooms', down'[p])
      <3>1. p \in dir /\ p \in Consoles
        BY <1>2, <2>1
      <3>2. CASE p = g
        <4>1. q[g] = down[g] /\ down[g] \in Seq(Frames)
          BY <1>1, <1>2, <1>7, <1>11
        <4>2. down'[g] = Append(down[g], fg)
          BY <2>2, <4>1
        <4>3. Attends(g, down[g])
          BY <2>6, <3>2, <4>1, <4>2, AttendsBefore
        <4>4. NotPlaying(g, down[g])
          BY <1>1, <4>3
        <4> QED BY <1>4, <2>1, <3>2, <4>1, <4>2, <4>4, ToldLast
      <3>3. CASE p = h
        BY <1>1, <1>8, <1>11, <2>1, <2>2, <2>6, <3>3
      <3>4. CASE p \notin Members(r)
        BY <1>1, <1>3, <1>7, <1>11, <2>1, <2>2, <2>6, <3>1, <3>4
      <3> QED BY <1>1, <3>2, <3>3, <3>4
    <2>7. Views'
      BY <2>6, RelayStep
    <2> QED BY <2>3, <2>4, <2>5, <2>7 DEF SessionInv
  <1> QED BY <1>9, <1>10, <1>11

-----------------------------------------------------------------------------
(* The relay's steps.                                                      *)

LEMMA QueuesNow ==
  ASSUME SessionInv
  PROVE  QueuesFit(down, up)
  BY DEF SessionInv, Basics, Connections, QueuesFit

\* A frame the relay reads from a client it knows.
LEMMA TakenFits ==
  ASSUME SessionInv, NEW c \in Consoles, up[c] # <<>>, Head(up[c]).type # "HELLO"
  PROVE  c \in dir /\ Head(up[c]) \in Asks /\ QueuesFit(down, Taken(c))
  <1>1. c \in dir
    BY DEF SessionInv, Connections
  <1>2. up \in [Consoles -> Seq(Asks)] /\ QueuesFit(down, up)
    BY QueuesNow DEF SessionInv, Basics
  <1>3. Head(up[c]) \in Asks /\ Tail(up[c]) \in Seq(Asks)
    BY <1>2, QueueTail
  <1> DEFINE t == Tail(up[c])
             u == [up EXCEPT ![c] = t]
  <1>4. Taken(c) = u
    BY DEF Taken
  <1> HIDE DEF t
  <1>5. u \in [Consoles -> Seq(Asks)] /\ \A p \in Consoles : p # c => u[p] = up[p]
    BY <1>2, <1>3 DEF t
  <1> HIDE DEF u
  <1>6. QueuesFit(down, u)
    BY <1>1, <1>2, <1>5 DEF QueuesFit
  <1> QED BY <1>1, <1>3, <1>4, <1>6

\* Steps that only move frames to the relay.
LEMMA UpOnly ==
  ASSUME SessionInv, QueuesFit(down, up'),
         UNCHANGED <<phase, screen, play, known, down, link, server, faults>>
  PROVE  SessionInv'
  <1> USE DEF screen, play, server
  <1>1. Basics'
    BY DEF SessionInv, Basics, QueuesFit
  <1>2. Connections'
    BY DEF SessionInv, Connections, QueuesFit
  <1>3. RelayRooms'
    BY DEF SessionInv, RelayRooms, RoomsFit, Members
  <1>4. Views'
    BY RelayStep DEF SessionInv, Views
  <1> QED BY <1>1, <1>2, <1>3, <1>4 DEF SessionInv

\* The relay drops a client whose connection is gone.
LEMMA DropNow ==
  ASSUME SessionInv, NEW c \in Consoles, ~link[c], DropFrom(c, rooms, down, up),
         UNCHANGED <<phase, screen, play, link, known, faults>>
  PROVE  SessionInv'
  <1>1. RoomsFit(rooms) /\ \A r \in rooms : Members(r) \subseteq dir
    BY DEF SessionInv, RelayRooms
  <1>2. \A p \in dir : Attends(p, down[p]) => WillShow(p, rooms, down[p])
    BY DEF SessionInv, Views
  <1> QED BY <1>1, <1>2, QueuesNow, DropInv

LEMMA EofInv ==
  ASSUME SessionInv, NEW c \in Consoles, Eof(c)
  PROVE  SessionInv'
  BY DropNow DEF Eof

\* A room has two members: a client in a room is busy.
LEMMA BusyInRoom ==
  ASSUME SessionInv, NEW t \in Consoles, ~Busy(t)
  PROVE  In(t, rooms) = {}
  <1> SUFFICES ASSUME NEW r \in rooms, t \in Members(r) PROVE FALSE
    BY DEF In
  <1>1. r.host # r.guest
    BY DEF SessionInv, RelayRooms, RoomsFit
  <1>2. Cardinality(Members(r)) = 2
    <2>1. IsFiniteSet({r.host}) /\ Cardinality({r.host}) = 1
      BY FS_Singleton
    <2>2. Cardinality({r.host} \cup {r.guest}) = 1 + 1
      BY <1>1, <2>1, FS_AddElement
    <2>3. Members(r) = {r.host} \cup {r.guest}
      BY DEF Members
    <2> QED BY <2>2, <2>3
  <1> QED BY <1>2 DEF Busy, RoomsOf, MaxSeats

LEMMA JoinInv ==
  ASSUME SessionInv, NEW c \in Consoles, OnJoin(c)
  PROVE  SessionInv'
  <1> DEFINE t == Head(up[c]).name
             r == [host |-> t, guest |-> c, started |-> FALSE]
             f == Room(2, t)
             rs == rooms \cup {r}
  <1>1. up[c] # <<>> /\ Head(up[c]).type = "JOIN" /\ UNCHANGED <<phase, screen, play, link, known, faults>>
    BY DEF OnJoin, Handles
  <1>2. c \in dir /\ Head(up[c]) \in Asks /\ QueuesFit(down, Taken(c))
    BY <1>1, TakenFits
  <1>3. t \in Consoles
    BY <1>1, <1>2 DEF Asks
  <1>4. \/ up' = Taken(c) /\ UNCHANGED <<down, server>>
        \/ ~link[c] /\ DropFrom(c, rooms, down, up)
        \/ In(c, rooms) = {} /\ Joinable(c, t) /\ SendBoth(r, rs, f, f, Taken(c))
    BY DEF OnJoin, In, RoomsOf
  <1>5. r \in Rooms /\ r.host = t /\ r.guest = c /\ r.started = FALSE
    BY <1>3 DEF Rooms
  <1>6. f \in Frames /\ f.type = "ROOM" /\ f.count = 2 /\ f.first = t
    BY <1>3, FrameTypes
  <1>7. \A x : x \in rs <=> x \in rooms \/ x = r
    OBVIOUS
  <1> HIDE DEF t, r, f, rs
  <1>8. CASE up' = Taken(c) /\ UNCHANGED <<down, server>>
    BY <1>1, <1>2, <1>8, UpOnly
  <1>9. CASE ~link[c] /\ DropFrom(c, rooms, down, up)
    BY <1>1, <1>9, DropNow
  <1>10. CASE In(c, rooms) = {} /\ Joinable(c, t) /\ SendBoth(r, rs, f, f, Taken(c))
    <2>1. t \in dir /\ t # c /\ In(t, rooms) = {} /\ In(c, rooms) = {}
      BY <1>3, <1>10, BusyInRoom DEF Joinable
    <2>2. \A p : p \in Members(r) <=> p = t \/ p = c
      BY <1>5 DEF Members
    <2>3. \A s \in rooms : t \notin Members(s) /\ c \notin Members(s)
      BY <2>1 DEF In
    <2>4. RoomsFit(rs)
      <3>1. RoomsFit(rooms)
        BY DEF SessionInv, RelayRooms
      <3> QED BY <1>5, <1>7, <2>1, <2>2, <2>3, <3>1 DEF RoomsFit
    <2>5. \A s \in rs : Members(s) \subseteq dir
      BY <1>2, <1>7, <2>1, <2>2 DEF SessionInv, RelayRooms
    <2>6. r \in rs /\ r.host # r.guest
      BY <1>5, <1>7, <2>1
    <2>7. \A p \in Consoles : p \notin Members(r) => In(p, rs) = In(p, rooms)
      BY <1>7 DEF In
    <2>8. In(t, rs) = {r} /\ In(c, rs) = {r}
      BY <1>7, <2>2, <2>3 DEF In
    <2>9. IsHost(t, f) /\ ~IsHost(c, f)
      BY <1>6, <2>1 DEF IsHost
    <2>10. FrameFits(r.host, rs, f) /\ FrameFits(r.guest, rs, f)
      BY <1>5, <1>6, <2>1, <2>8, <2>9 DEF FrameFits, ScreenFits
    <2>11. \A p \in Members(r) : Attends(p, down[p]) => NotPlaying(p, down[p])
      <3> SUFFICES ASSUME NEW p \in Members(r), Attends(p, down[p]) PROVE NotPlaying(p, down[p])
        OBVIOUS
      <3>1. p \in dir /\ p \in Consoles /\ In(p, rooms) = {}
        BY <1>2, <1>3, <2>1, <2>2
      <3>2. WillShow(p, rooms, down[p]) /\ down[p] \in Seq(Frames)
        BY <3>1 DEF SessionInv, Views, Basics
      <3> QED BY <3>1, <3>2, FormingNotPlaying
    <2>12. SendBoth(r, rs, f, f, Taken(c))
      BY <1>10
    <2> QED BY <1>1, <1>2, <1>6, <2>4, <2>5, <2>6, <2>7, <2>10, <2>11, <2>12, SendBothInv
  <1> QED BY <1>4, <1>8, <1>9, <1>10

LEMMA GoInv ==
  ASSUME SessionInv, NEW c \in Consoles, OnGo(c)
  PROVE  SessionInv'
  <1>1. up[c] # <<>> /\ Head(up[c]).type = "GO" /\ UNCHANGED <<phase, screen, play, link, known, faults>>
    BY DEF OnGo, Handles
  <1>2. c \in dir /\ QueuesFit(down, Taken(c))
    BY <1>1, TakenFits
  <1>3. CASE up' = Taken(c) /\ UNCHANGED <<down, server>>
    BY <1>1, <1>2, <1>3, UpOnly
  <1>4. ASSUME NEW r \in RoomsOf(c), Startable(c, r),
               SendBoth([r EXCEPT !.started = TRUE], (rooms \ {r}) \cup {[r EXCEPT !.started = TRUE]},
                        Start(0, r.guest), Start(1, r.host), Taken(c))
        PROVE  SessionInv'
    <2> DEFINE s == [r EXCEPT !.started = TRUE]
               rs == (rooms \ {r}) \cup {s}
               fh == Start(0, r.guest)
               fg == Start(1, r.host)
    <2>1. /\ r \in rooms /\ r \in Rooms /\ ~r.started /\ r.host = c /\ r.host # r.guest
          /\ RoomsFit(rooms)
      BY <1>4 DEF RoomsOf, Startable, SessionInv, RelayRooms, RoomsFit
    <2>2. /\ r.host \in Consoles /\ r.guest \in Consoles
      BY <2>1, RoomTypes
    <2>3. s \in Rooms /\ s.host = r.host /\ s.guest = r.guest /\ s.started = TRUE
      BY <2>1 DEF Rooms
    <2>4. /\ fh \in Frames /\ fh.type = "START" /\ fh.seat = 0 /\ fh.peer = r.guest
          /\ fg \in Frames /\ fg.type = "START" /\ fg.seat = 1 /\ fg.peer = r.host
      BY <2>2, FrameTypes
    <2>5. \A x : x \in rs <=> (x \in rooms /\ x # r) \/ x = s
      OBVIOUS
    <2>6. SendBoth(s, rs, fh, fg, Taken(c))
      BY <1>4
    <2> HIDE DEF s, rs, fh, fg
    <2>7. \A p : p \in Members(s) <=> p \in Members(r)
      BY <2>3 DEF Members
    <2>8. \A x \in rooms : \A p \in Consoles : p \in Members(x) /\ p \in Members(r) => x = r
      BY <2>1 DEF RoomsFit
    <2>9. RoomsFit(rs)
      BY <2>1, <2>3, <2>5, <2>7, <2>8 DEF RoomsFit
    <2>10. \A x \in rs : Members(x) \subseteq dir
      BY <2>1, <2>5, <2>7 DEF SessionInv, RelayRooms
    <2>11. s \in rs /\ s.host # s.guest
      BY <2>1, <2>3, <2>5
    <2>12. \A p \in Consoles : p \notin Members(s) => In(p, rs) = In(p, rooms)
      BY <2>5, <2>7 DEF In
    <2>13. Members(s) = {r.host, r.guest} /\ r.host \in Members(r) /\ r.guest \in Members(r)
      BY <2>3 DEF Members
    <2>14. s \in In(r.host, rs) /\ s \in In(r.guest, rs)
      BY <2>11, <2>13 DEF In
    <2>15. SeatFits(s.host, rs, fh.seat, fh.peer)
      BY <2>3, <2>4, <2>13, <2>14 DEF SeatFits
    <2>16. SeatFits(s.guest, rs, fg.seat, fg.peer)
      <3>1. Members(s) = {s.guest, fg.peer}
        BY <2>3, <2>4, <2>13
      <3> QED BY <2>1, <2>3, <2>4, <2>14, <3>1 DEF SeatFits
    <2>17. FrameFits(s.host, rs, fh) /\ FrameFits(s.guest, rs, fg)
      BY <2>4, <2>15, <2>16 DEF FrameFits
    <2>18. \A p \in Members(s) : Attends(p, down[p]) => NotPlaying(p, down[p])
      <3> SUFFICES ASSUME NEW p \in Members(s), Attends(p, down[p]) PROVE NotPlaying(p, down[p])
        OBVIOUS
      <3>1. p \in dir /\ p \in Consoles /\ p \in Members(r)
        BY <2>2, <2>7, <2>10, <2>11, <2>13
      <3>2. WillShow(p, rooms, down[p]) /\ down[p] \in Seq(Frames)
        BY <3>1 DEF SessionInv, Views, Basics
      <3>3. \A x \in In(p, rooms) : ~x.started
        BY <2>1, <2>8, <3>1 DEF In
      <3> QED BY <3>2, <3>3, FormingNotPlaying
    <2> QED BY <1>1, <1>2, <2>4, <2>6, <2>9, <2>10, <2>11, <2>12, <2>17, <2>18, SendBothInv
  <1> QED BY <1>3, <1>4 DEF OnGo

\* HELLO: the relay knows the client, whose browser shows no room; it is in
\* none.
LEMMA HelloInv ==
  ASSUME SessionInv, NEW c \in Consoles, OnHello(c)
  PROVE  SessionInv'
  <1>1. /\ dir' = IF link[c] THEN dir \cup {c} ELSE dir
        /\ UNCHANGED <<phase, screen, play, down, link, rooms, faults>>
        /\ up' = [up EXCEPT ![c] = IF link[c] THEN Tail(up[c]) ELSE <<>>]
        /\ up[c] # <<>>
    BY DEF OnHello, Handles
  <1>2. Basics /\ Connections /\ RelayRooms /\ Views /\ up \in [Consoles -> Seq(Asks)]
    BY DEF SessionInv, Basics
  <1>3. Basics'
    <2>1. Tail(up[c]) \in Seq(Asks) /\ <<>> \in Seq(Asks)
      BY <1>1, <1>2, QueueTail, NoFrames
    <2>2. up' \in [Consoles -> Seq(Asks)]
      BY <1>1, <1>2, <2>1
    <2>3. dir' \subseteq Consoles
      BY <1>1, <1>2 DEF Basics
    <2>4. known' \in [Consoles -> SUBSET Consoles]
      <3>1. /\ dir \in SUBSET Consoles
            /\ \A d \in Consoles : known[d] \in SUBSET Consoles /\ known[d] \cup {c} \in SUBSET Consoles
        BY <1>2 DEF Basics
      <3>2. known' = [d \in Consoles |-> CASE d = c -> dir
                                           [] d \in dir /\ link[c] -> known[d] \cup {c}
                                           [] OTHER -> known[d]]
        BY DEF OnHello
      <3> QED BY <3>1, <3>2
    <2> QED BY <1>1, <1>2, <2>2, <2>3, <2>4 DEF Basics, screen, play
  <1>4. /\ \A p \in Consoles : p # c => up'[p] = up[p]
        /\ ~link[c] => up'[c] = <<>>
        /\ \A p : p # c => (p \in dir' <=> p \in dir)
        /\ link[c] => c \in dir'
        /\ dir \subseteq dir'
    BY <1>1, <1>2
  <1>5. Connections'
    BY <1>1, <1>2, <1>4 DEF Connections, screen, play
  <1>6. RelayRooms'
    <2>1. \A r \in rooms : Members(r) \subseteq dir'
      BY <1>2, <1>4 DEF RelayRooms
    <2> QED BY <1>1, <1>2, <2>1 DEF RelayRooms, RoomsFit, Members
  <1>7. Views'
    <2>1. ASSUME NEW p \in dir', Attends(p, down'[p]) PROVE WillShow(p, rooms', down'[p])
      <3>1. CASE p \in dir
        BY <1>1, <1>2, <2>1, <3>1 DEF Views
      <3>2. CASE p \notin dir
        <4>1. p = c /\ link[c]
          BY <1>4, <2>1, <3>2 DEF Attends
        <4>2. down[c] = <<>> /\ count[c] = 0 /\ ~host[c] /\ phase[c] = "lobby"
          BY <1>2, <3>2, <4>1 DEF Connections
        <4>3. In(c, rooms) = {}
          BY <1>2, <3>2, <4>1 DEF In, RelayRooms
        <4>4. ScreenFits(c, rooms, count[c], host[c])
          BY <4>2, <4>3 DEF ScreenFits
        <4>5. WillShow(c, rooms, <<>>)
          BY <4>2, <4>4, NoFrames DEF WillShow
        <4> QED BY <1>1, <4>1, <4>2, <4>5
      <3> QED BY <3>1, <3>2
    <2> QED BY <1>1, <2>1, RelayStep
  <1> QED BY <1>3, <1>5, <1>6, <1>7 DEF SessionInv

-----------------------------------------------------------------------------
(* The consoles' steps.                                                    *)

\* A step that touches no other console and not the relay's tables.
LEMMA ConsoleStep ==
  ASSUME SessionInv, NEW c \in Consoles, UNCHANGED server,
         \A p \in Consoles : p # c =>
           /\ phase'[p] = phase[p] /\ count'[p] = count[p] /\ host'[p] = host[p]
           /\ dropped'[p] = dropped[p] /\ seat'[p] = seat[p] /\ peer'[p] = peer[p]
           /\ link'[p] = link[p] /\ down'[p] = down[p],
         (c \in dir /\ Attends(c, down[c])') => WillShow(c, rooms, down[c])'
  PROVE  RelayRooms' /\ Views'
  <1> USE DEF server
  <1>1. RelayRooms'
    BY DEF SessionInv, RelayRooms, RoomsFit, Members
  <1>2. ASSUME NEW p \in dir, Attends(p, down[p])' PROVE WillShow(p, rooms, down[p])'
    <2>1. CASE p = c
      BY <1>2, <2>1
    <2>2. CASE p # c
      <3>1. p \in Consoles
        BY DEF SessionInv, Basics
      <3>2. Attends(p, down[p])
        BY <1>2, <2>2, <3>1 DEF Attends
      <3>3. WillShow(p, rooms, down[p])
        BY <3>2 DEF SessionInv, Views
      <3> QED BY <2>2, <3>1, <3>3 DEF WillShow
    <2> QED BY <2>1, <2>2
  <1> QED BY <1>1, <1>2 DEF Views

LEMMA TellFits ==
  ASSUME SessionInv, NEW c \in Consoles, NEW f \in Asks, Tell(c, f)
  PROVE  QueuesFit(down, up')
  <1>1. QueuesFit(down, up) /\ up \in [Consoles -> Seq(Asks)]
    BY QueuesNow DEF SessionInv, Basics
  <1>2. CASE ~link[c]
    BY <1>1, <1>2 DEF Tell
  <1>3. CASE link[c]
    <2> DEFINE a == Append(up[c], f)
    <2>1. a \in Seq(Asks) /\ a # <<>> /\ (up[c] # <<>> => Head(a) = Head(up[c]))
      BY <1>1, QueueAppend
    <2>2. up' = [up EXCEPT ![c] = a]
      BY <1>3 DEF Tell
    <2> HIDE DEF a
    <2>3. /\ up' \in [Consoles -> Seq(Asks)] /\ up'[c] = a
          /\ \A p \in Consoles : p # c => up'[p] = up[p]
      BY <1>1, <2>1, <2>2
    <2> QED BY <1>1, <1>3, <2>1, <2>3 DEF QueuesFit
  <1> QED BY <1>2, <1>3

LEMMA MenuInv ==
  ASSUME SessionInv, NEW c \in Consoles, Menu(c)
  PROVE  SessionInv'
  <1>1. ASSUME EnterGo(c) PROVE SessionInv'
    <2>1. [type |-> "GO"] \in Asks
      BY DEF Asks
    <2> QED BY <1>1, <2>1, TellFits, UpOnly DEF EnterGo
  <1>2. ASSUME NEW t \in Consoles, EnterJoin(c, t) PROVE SessionInv'
    <2>1. [type |-> "JOIN", name |-> t] \in Asks
      BY DEF Asks
    <2> QED BY <1>2, <2>1, TellFits, UpOnly DEF EnterJoin
  <1> QED BY <1>1, <1>2 DEF Menu

LEMMA ConnectInv ==
  ASSUME SessionInv, NEW c \in Consoles, Connect(c)
  PROVE  SessionInv'
  <1> DEFINE s == <<[type |-> "HELLO"]>>
  <1>1. /\ phase[c] = "off" /\ c \notin dir
        /\ phase' = [phase EXCEPT ![c] = "lobby"] /\ link' = [link EXCEPT ![c] = TRUE]
        /\ up' = [up EXCEPT ![c] = s] /\ known' = [known EXCEPT ![c] = {}]
        /\ UNCHANGED <<screen, play, down, server, faults>>
    BY DEF Connect
  <1>2. s \in Seq(Asks) /\ s # <<>> /\ Head(s).type = "HELLO"
    BY DEF Asks
  <1> HIDE DEF s
  <1>3. Basics /\ Connections
    BY DEF SessionInv
  <1>4. down[c] = <<>> /\ count[c] = 0 /\ ~host[c] /\ ~dropped[c]
    BY <1>1, <1>3 DEF Connections
  <1>5. Basics'
    BY <1>1, <1>2, <1>3 DEF Basics, screen, play, server
  <1>6. /\ phase'[c] = "lobby" /\ link'[c] = TRUE /\ up'[c] = s
        /\ \A p \in Consoles : p # c => phase'[p] = phase[p] /\ link'[p] = link[p] /\ up'[p] = up[p]
    BY <1>1, <1>3 DEF Basics
  <1>7. Connections'
    BY <1>1, <1>2, <1>3, <1>4, <1>6 DEF Connections, screen, play, server
  <1>8. RelayRooms' /\ Views'
    BY <1>1, <1>6, ConsoleStep DEF screen, play
  <1> QED BY <1>5, <1>7, <1>8 DEF SessionInv

\* A frame arrives on a connection that stands, at a console the relay knows.
LEMMA GetsFacts ==
  ASSUME SessionInv, NEW c \in Consoles, NEW type, type # "PEER_LEFT", Gets(c, type)
  PROVE  /\ c \in dir /\ link[c] /\ phase[c] \in {"lobby", "match"}
         /\ Head(down[c]) \in Frames /\ Head(down[c]).type = type
         /\ down' \in [Consoles -> Seq(Frames)] /\ down'[c] = Tail(down[c])
         /\ \A p \in Consoles : p # c => down'[p] = down[p]
         /\ ~dropped[c] /\ (\A i \in 1..Len(Tail(down[c])) : Tail(down[c])[i].type # "PEER_LEFT")
              => Attends(c, down[c]) /\ WillShow(c, rooms, down[c])
  <1> DEFINE q == down[c]
             t == Tail(q)
  <1>1. /\ phase[c] \in {"lobby", "match"} /\ q # <<>> /\ Head(q).type = type
        /\ down' = [down EXCEPT ![c] = t]
    BY DEF Gets
  <1>2. down \in [Consoles -> Seq(Frames)] /\ q \in Seq(Frames)
    BY DEF SessionInv, Basics
  <1>3. c \in dir /\ link[c]
    BY <1>1 DEF SessionInv, Connections
  <1> HIDE DEF q
  <1>4. /\ t \in Seq(Frames) /\ Head(q) \in Frames /\ Head(q) = q[1] /\ Len(q) \in Nat
        /\ Len(t) = Len(q) - 1 /\ \A i \in 1..Len(t) : t[i] = q[i + 1]
    BY <1>1, <1>2, QueueTail
  <1> HIDE DEF t
  <1>5. /\ down' \in [Consoles -> Seq(Frames)] /\ down'[c] = t
        /\ \A p \in Consoles : p # c => down'[p] = down[p]
    BY <1>1, <1>2, <1>4
  <1>6. ASSUME ~dropped[c], \A i \in 1..Len(t) : t[i].type # "PEER_LEFT"
        PROVE  Attends(c, q) /\ WillShow(c, rooms, q)
    <2>1. ASSUME NEW i \in 1..Len(q) PROVE q[i].type # "PEER_LEFT"
      <3>1. CASE i = 1
        BY <1>1, <1>4, <3>1
      <3>2. CASE i # 1
        <4>1. i - 1 \in 1..Len(t) /\ (i - 1) + 1 = i
          BY <1>4, <2>1, <3>2
        <4> QED BY <1>4, <1>6, <4>1
      <3> QED BY <3>1, <3>2
    <2>2. Attends(c, q)
      BY <1>1, <1>3, <1>6, <2>1 DEF Attends
    <2> QED BY <1>3, <2>2 DEF SessionInv, Views, q
  <1> QED BY <1>1, <1>3, <1>4, <1>5, <1>6 DEF q, t

LEMMA RoomInv ==
  ASSUME SessionInv, NEW c \in Consoles, OnRoom(c)
  PROVE  SessionInv'
  <1> DEFINE q == down[c]
             t == Tail(q)
             f == Head(q)
             n == IF f.count >= 2 THEN f.count ELSE 0
             h == IsHost(c, f)
  <1>1. /\ Gets(c, "ROOM") /\ UNCHANGED <<phase, play, up, link, server, known, faults>>
        /\ phase[c] = "lobby" => count' = [count EXCEPT ![c] = n] /\ host' = [host EXCEPT ![c] = h]
        /\ phase[c] # "lobby" => UNCHANGED <<count, host>>
    BY DEF OnRoom
  <1>2. /\ c \in dir /\ link[c] /\ phase[c] \in {"lobby", "match"}
        /\ f \in Frames /\ f.type = "ROOM"
        /\ down' \in [Consoles -> Seq(Frames)] /\ down'[c] = t
        /\ \A p \in Consoles : p # c => down'[p] = down[p]
        /\ ~dropped[c] /\ (\A i \in 1..Len(t) : t[i].type # "PEER_LEFT")
             => Attends(c, q) /\ WillShow(c, rooms, q)
    BY <1>1, GetsFacts
  <1>3. q # <<>>
    BY <1>1 DEF Gets
  <1>4. Basics /\ Connections /\ q \in Seq(Frames)
    BY DEF SessionInv, Basics
  <1> HIDE DEF q
  <1>5. /\ f = q[1] /\ Len(q) \in Nat /\ Len(t) = Len(q) - 1 /\ Len(t) \in Nat
        /\ \A i \in 1..Len(t) : i + 1 \in 1..Len(q) /\ t[i] = q[i + 1]
        /\ t = <<>> => Len(q) = 1
        /\ t # <<>> => t[Len(t)] = q[Len(q)]
    BY <1>3, <1>4, QueueTail
  <1>6. f.count \in {0, 2} /\ n = f.count /\ h \in BOOLEAN
    BY <1>2 DEF Frames, IsHost
  <1> HIDE DEF t, f, n, h
  <1>7. Basics'
    <2>1. count' \in [Consoles -> {0, 2}]
      BY <1>1, <1>4, <1>6 DEF Basics
    <2>2. host' \in [Consoles -> BOOLEAN]
      BY <1>1, <1>4, <1>6 DEF Basics
    <2> QED BY <1>1, <1>2, <1>4, <2>1, <2>2 DEF Basics, play, server
  <1>8. /\ \A p \in Consoles : p # c => count'[p] = count[p] /\ host'[p] = host[p]
        /\ phase[c] = "lobby" => count'[c] = n /\ host'[c] = h
    BY <1>1, <1>4 DEF Basics
  <1>9. Connections'
    <2> SUFFICES ASSUME NEW p \in Consoles
                 PROVE  /\ ~link[p] => down'[p] = <<>>
                        /\ phase[p] = "off" => ~link[p] /\ count'[p] = 0 /\ ~host'[p] /\ ~dropped[p]
                        /\ p \notin dir => (up[p] = <<>> \/ Head(up[p]).type = "HELLO")
                        /\ (link[p] /\ p \notin dir) =>
                             /\ up[p] # <<>> /\ down'[p] = <<>> /\ count'[p] = 0 /\ ~host'[p]
                             /\ ~dropped[p] /\ phase[p] = "lobby"
      BY <1>1 DEF Connections, play, server
    <2>1. CASE p = c
      BY <1>2, <1>4, <2>1 DEF Connections
    <2>2. CASE p # c
      BY <1>2, <1>4, <1>8, <2>2 DEF Connections
    <2> QED BY <2>1, <2>2
  <1>10. ASSUME Attends(c, down[c])' PROVE WillShow(c, rooms, down[c])'
    <2>1. Attends(c, t)
      BY <1>1, <1>2, <1>10 DEF Attends, play
    <2>2. Attends(c, q) /\ WillShow(c, rooms, q)
      BY <1>2, <2>1 DEF Attends
    <2>3. phase[c] = "lobby"
      BY <1>2, <1>3, <2>2 DEF WillShow
    <2>4. ASSUME t = <<>> PROVE ScreenFits(c, rooms, n, h)
      <3>1. FrameFits(c, rooms, f)
        BY <1>3, <1>5, <2>2, <2>4 DEF WillShow
      <3> QED BY <1>2, <1>6, <3>1 DEF FrameFits, h
    <2>5. \A i \in 1..Len(t) : t[i].type = "START" => i = Len(t)
      BY <1>5, <2>2 DEF WillShow
    <2>6. t # <<>> => FrameFits(c, rooms, t[Len(t)])
      BY <1>3, <1>5, <2>2 DEF WillShow
    <2>7. count'[c] = n /\ host'[c] = h /\ down'[c] = t /\ rooms' = rooms /\ phase' = phase
      BY <1>1, <1>2, <1>8, <2>3 DEF server
    <2> QED BY <2>3, <2>4, <2>5, <2>6, <2>7 DEF WillShow
  <1>11. RelayRooms' /\ Views'
    BY <1>1, <1>2, <1>8, <1>10, ConsoleStep DEF play
  <1> QED BY <1>7, <1>9, <1>11 DEF SessionInv

LEMMA StartInv ==
  ASSUME SessionInv, NEW c \in Consoles, OnStart(c)
  PROVE  SessionInv'
  <1> DEFINE q == down[c]
             t == Tail(q)
             f == Head(q)
  <1>1. /\ Gets(c, "START") /\ UNCHANGED <<screen, dropped, up, link, server, known, faults>>
        /\ phase' = [phase EXCEPT ![c] = "match"]
        /\ seat' = [seat EXCEPT ![c] = f.seat] /\ peer' = [peer EXCEPT ![c] = f.peer]
    BY DEF OnStart
  <1>2. /\ c \in dir /\ link[c] /\ phase[c] \in {"lobby", "match"}
        /\ f \in Frames /\ f.type = "START"
        /\ down' \in [Consoles -> Seq(Frames)] /\ down'[c] = t
        /\ \A p \in Consoles : p # c => down'[p] = down[p]
        /\ ~dropped[c] /\ (\A i \in 1..Len(t) : t[i].type # "PEER_LEFT")
             => Attends(c, q) /\ WillShow(c, rooms, q)
    BY <1>1, GetsFacts
  <1>3. q # <<>>
    BY <1>1 DEF Gets
  <1>4. Basics /\ Connections /\ q \in Seq(Frames)
    BY DEF SessionInv, Basics
  <1> HIDE DEF q
  <1>5. f = q[1] /\ 1 \in 1..Len(q) /\ Len(t) = Len(q) - 1 /\ Len(q) \in Nat /\ t \in Seq(Frames)
    BY <1>3, <1>4, QueueTail
  <1>6. f.seat \in {0, 1} /\ f.peer \in Consoles
    BY <1>2 DEF Frames
  <1> HIDE DEF t, f
  <1>7. Basics'
    BY <1>1, <1>2, <1>4, <1>6 DEF Basics, screen, server
  <1>8. /\ \A p \in Consoles : p # c => phase'[p] = phase[p] /\ seat'[p] = seat[p] /\ peer'[p] = peer[p]
        /\ phase'[c] = "match" /\ seat'[c] = f.seat /\ peer'[c] = f.peer
    BY <1>1, <1>4 DEF Basics
  <1>9. Connections'
    <2> SUFFICES ASSUME NEW p \in Consoles
                 PROVE  /\ ~link[p] => down'[p] = <<>>
                        /\ phase'[p] = "off" => ~link[p] /\ count[p] = 0 /\ ~host[p] /\ ~dropped[p]
                        /\ p \notin dir => (up[p] = <<>> \/ Head(up[p]).type = "HELLO")
                        /\ (link[p] /\ p \notin dir) =>
                             /\ up[p] # <<>> /\ down'[p] = <<>> /\ count[p] = 0 /\ ~host[p]
                             /\ ~dropped[p] /\ phase'[p] = "lobby"
      BY <1>1 DEF Connections, screen, server
    <2>1. CASE p = c
      BY <1>2, <1>8, <2>1
    <2>2. CASE p # c
      BY <1>2, <1>4, <1>8, <2>2 DEF Connections
    <2> QED BY <2>1, <2>2
  <1>10. ASSUME Attends(c, down[c])' PROVE WillShow(c, rooms, down[c])'
    <2>1. ~dropped[c] /\ \A i \in 1..Len(t) : t[i].type # "PEER_LEFT"
      BY <1>1, <1>2, <1>10 DEF Attends
    <2>2. Attends(c, q) /\ WillShow(c, rooms, q)
      BY <1>2, <2>1
    <2>3. Len(q) = 1
      BY <1>2, <1>5, <2>2 DEF WillShow
    <2>4. t = <<>>
      BY <1>5, <2>3, EmptySeq
    <2>5. FrameFits(c, rooms, f)
      BY <1>3, <1>5, <2>2, <2>3 DEF WillShow
    <2>6. SeatFits(c, rooms, f.seat, f.peer)
      BY <1>2, <2>5 DEF FrameFits
    <2>7. /\ seat'[c] = f.seat /\ peer'[c] = f.peer /\ phase'[c] = "match"
          /\ rooms' = rooms /\ down'[c] = <<>>
      BY <1>1, <1>2, <1>8, <2>4 DEF server
    <2>8. \A i \in 1..Len(down'[c]) : FALSE
      BY <2>7, NoFrames
    <2> QED BY <2>6, <2>7, <2>8 DEF WillShow
  <1>11. RelayRooms' /\ Views'
    BY ZenonT(30), <1>1, <1>2, <1>8, <1>10, ConsoleStep DEF screen
  <1> QED BY <1>7, <1>9, <1>11 DEF SessionInv

\* A console that is told its peer left, or leaves the match, attends no more.
LEMMA LeftInv ==
  ASSUME SessionInv, NEW c \in Consoles, OnPeerLeft(c) \/ Park(c)
  PROVE  SessionInv'
  <1>1. /\ dropped' = [dropped EXCEPT ![c] = TRUE]
        /\ UNCHANGED <<screen, seat, peer, up, link, server, known, faults>>
    BY DEF OnPeerLeft, Park
  <1>2. Basics /\ Connections
    BY DEF SessionInv
  <1>3. \/ /\ phase' = phase /\ phase[c] \in {"lobby", "match"} /\ down[c] # <<>>
           /\ down' = [down EXCEPT ![c] = Tail(down[c])]
        \/ phase' = [phase EXCEPT ![c] = "parked"] /\ down' = down /\ phase[c] = "match"
    BY DEF OnPeerLeft, Park, Gets
  <1>4. down' \in [Consoles -> Seq(Frames)] /\ phase' \in [Consoles -> {"off", "lobby", "match", "parked"}]
    <2>1. down[c] # <<>> => Tail(down[c]) \in Seq(Frames)
      BY <1>2, QueueTail DEF Basics
    <2> QED BY ZenonT(30), <1>2, <1>3, <2>1 DEF Basics
  <1>5. Basics'
    BY <1>1, <1>2, <1>4 DEF Basics, screen, server
  <1>6. /\ \A p \in Consoles : p # c => /\ phase'[p] = phase[p] /\ down'[p] = down[p]
                                        /\ dropped'[p] = dropped[p]
        /\ dropped'[c] = TRUE /\ phase'[c] # "off"
    BY <1>1, <1>2, <1>3 DEF Basics
  <1>7. link[c] => c \in dir
    BY <1>2, <1>3 DEF Connections
  <1>8. ~link[c] => down'[c] = <<>>
    BY <1>2, <1>3 DEF Connections
  <1>9. Connections'
    <2> SUFFICES ASSUME NEW p \in Consoles
                 PROVE  /\ ~link[p] => down'[p] = <<>>
                        /\ phase'[p] = "off" => ~link[p] /\ count[p] = 0 /\ ~host[p] /\ ~dropped'[p]
                        /\ p \notin dir => (up[p] = <<>> \/ Head(up[p]).type = "HELLO")
                        /\ (link[p] /\ p \notin dir) =>
                             /\ up[p] # <<>> /\ down'[p] = <<>> /\ count[p] = 0 /\ ~host[p]
                             /\ ~dropped'[p] /\ phase'[p] = "lobby"
      BY <1>1 DEF Connections, screen, server
    <2>1. CASE p = c
      BY <1>2, <1>6, <1>7, <1>8, <2>1 DEF Connections
    <2>2. CASE p # c
      BY <1>2, <1>6, <2>2 DEF Connections
    <2> QED BY <2>1, <2>2
  <1>10. ~Attends(c, down[c])'
    BY <1>6 DEF Attends
  <1>11. RelayRooms' /\ Views'
    BY <1>1, <1>6, <1>10, ConsoleStep DEF screen
  <1> QED BY <1>5, <1>9, <1>11 DEF SessionInv

\* RESET, and a connection that breaks: nothing is under way to the console.
LEMMA FaultInv ==
  ASSUME SessionInv, NEW c \in Consoles, Reset(c) \/ Break(c)
  PROVE  SessionInv'
  <1>1. /\ faults < MaxFaults /\ faults' = faults + 1
        /\ down' = [down EXCEPT ![c] = <<>>] /\ link' = [link EXCEPT ![c] = FALSE]
        /\ UNCHANGED <<known, up, server>>
    BY DEF Reset, Break
  <1>2. \/ UNCHANGED <<phase, screen, play>>
        \/ /\ phase' = [phase EXCEPT ![c] = "off"]
           /\ count' = [count EXCEPT ![c] = 0] /\ host' = [host EXCEPT ![c] = FALSE]
           /\ dropped' = [dropped EXCEPT ![c] = FALSE]
           /\ seat' = [seat EXCEPT ![c] = 0] /\ peer' = [peer EXCEPT ![c] = Nobody]
    BY DEF Reset, Break
  <1>3. Basics /\ Connections
    BY DEF SessionInv
  <1>4. Basics'
    <2>1. <<>> \in Seq(Frames)
      BY NoFrames
    <2>2. down' \in [Consoles -> Seq(Frames)] /\ link' \in [Consoles -> BOOLEAN]
      BY <1>1, <1>3, <2>1 DEF Basics
    <2>3. faults' \in 0..MaxFaults
      BY <1>1, <1>3, SessionAssumption DEF Basics
    <2> QED BY ZenonT(30), <1>1, <1>2, <1>3, <2>2, <2>3 DEF Basics, screen, play, server
  <1>5. /\ \A p \in Consoles : p # c =>
             /\ phase'[p] = phase[p] /\ count'[p] = count[p] /\ host'[p] = host[p]
             /\ dropped'[p] = dropped[p] /\ seat'[p] = seat[p] /\ peer'[p] = peer[p]
             /\ link'[p] = link[p] /\ down'[p] = down[p]
        /\ link'[c] = FALSE /\ down'[c] = <<>>
    BY <1>1, <1>2, <1>3 DEF Basics, screen, play
  <1>6. phase'[c] = "off" => count'[c] = 0 /\ ~host'[c] /\ ~dropped'[c]
    BY <1>2, <1>3 DEF Basics, Connections, screen, play
  <1>7. Connections'
    <2> SUFFICES ASSUME NEW p \in Consoles
                 PROVE  /\ ~link'[p] => down'[p] = <<>>
                        /\ phase'[p] = "off" => ~link'[p] /\ count'[p] = 0 /\ ~host'[p] /\ ~dropped'[p]
                        /\ p \notin dir => (up[p] = <<>> \/ Head(up[p]).type = "HELLO")
                        /\ (link'[p] /\ p \notin dir) =>
                             /\ up[p] # <<>> /\ down'[p] = <<>> /\ count'[p] = 0 /\ ~host'[p]
                             /\ ~dropped'[p] /\ phase'[p] = "lobby"
      BY <1>1 DEF Connections, server
    <2>1. CASE p = c
      BY <1>3, <1>5, <1>6, <2>1 DEF Connections
    <2>2. CASE p # c
      BY <1>3, <1>5, <2>2 DEF Connections
    <2> QED BY <2>1, <2>2
  <1>8. ~Attends(c, down[c])'
    BY <1>5 DEF Attends
  <1>9. RelayRooms' /\ Views'
    BY <1>1, <1>5, <1>8, ConsoleStep
  <1> QED BY <1>4, <1>7, <1>9 DEF SessionInv

-----------------------------------------------------------------------------
(* The theorems.                                                           *)

LEMMA SessionInit ==
  ASSUME Init
  PROVE  SessionInv
  <1>1. Basics
    <2>1. <<>> \in Seq(Frames) /\ <<>> \in Seq(Asks)
      BY NoFrames
    <2> QED BY <2>1, SessionAssumption DEF Init, Basics
  <1>2. Connections
    BY DEF Init, Connections
  <1>3. RelayRooms /\ Views
    BY DEF Init, RelayRooms, RoomsFit, Views
  <1> QED BY <1>1, <1>2, <1>3 DEF SessionInv

LEMMA SessionStep ==
  ASSUME SessionInv, [Next]_vars
  PROVE  SessionInv'
  <1>1. ASSUME NEW c \in Consoles, Connect(c) PROVE SessionInv'
    BY <1>1, ConnectInv
  <1>2. ASSUME NEW c \in Consoles, Menu(c) PROVE SessionInv'
    BY <1>2, MenuInv
  <1>3. ASSUME NEW c \in Consoles, Frame(c) \/ Park(c) PROVE SessionInv'
    BY <1>3, RoomInv, StartInv, LeftInv DEF Frame
  <1>4. ASSUME NEW c \in Consoles, Handle(c) PROVE SessionInv'
    BY <1>4, HelloInv, JoinInv, GoInv, EofInv DEF Handle
  <1>5. ASSUME NEW c \in Consoles, Reset(c) \/ Break(c) PROVE SessionInv'
    BY <1>5, FaultInv
  <1>6. CASE UNCHANGED vars
    <2>1. UNCHANGED <<phase, screen, play, known, down, link, server, faults>> /\ up' = up
      BY <1>6 DEF vars
    <2>2. QueuesFit(down, up')
      BY <2>1, QueuesNow
    <2> QED BY <2>1, <2>2, UpOnly
  <1> QED BY <1>1, <1>2, <1>3, <1>4, <1>5, <1>6 DEF Next

(***************************************************************************)
(* The invariant: of frames under way, screens and rooms, see above.       *)
(***************************************************************************)
THEOREM SessionInvariant == Spec => []SessionInv
  BY SessionInit, SessionStep, PTL DEF Spec

(***************************************************************************)
(* The variables keep their types, and the relay has no client in two      *)
(* rooms: on_join refuses a busy target and a client that has a room.      *)
(***************************************************************************)
THEOREM TypeCorrect == Spec => []TypeOK
  <1>1. SessionInv => TypeOK
    <2> SUFFICES ASSUME SessionInv PROVE TypeOK
      OBVIOUS
    <2>1. ASSUME NEW c \in Consoles PROVE Cardinality(RoomsOf(c)) <= 1
      <3>1. CASE RoomsOf(c) = {}
        BY <3>1, FS_EmptySet
      <3>2. CASE RoomsOf(c) # {}
        <4>1. PICK r : r \in RoomsOf(c)
          BY <3>2
        <4>2. RoomsOf(c) = {r}
          BY <4>1 DEF RoomsOf, SessionInv, RelayRooms, RoomsFit
        <4> QED BY <4>2, FS_Singleton
      <3> QED BY <3>1, <3>2
    <2>2. rooms \subseteq Rooms
      BY DEF SessionInv, RelayRooms, RoomsFit
    <2> QED BY <2>1, <2>2 DEF TypeOK, SessionInv, Basics
  <1> QED BY <1>1, SessionInvariant, PTL

(***************************************************************************)
(* ScreenTruth: a settled console in the lobby loop shows the room the     *)
(* relay has it in, and offers GO exactly when the relay would take it.    *)
(***************************************************************************)
THEOREM ScreensTrue == Spec => []ScreenTruth
  <1>1. SessionInv => ScreenTruth
    <2> SUFFICES ASSUME SessionInv, NEW c \in Consoles, Settled(c), phase[c] = "lobby", ~dropped[c]
                 PROVE  /\ \A r \in RoomsOf(c) : ~r.started
                        /\ count[c] = IF RoomsOf(c) = {} THEN 0 ELSE 2
                        /\ host[c] <=> \E r \in RoomsOf(c) : r.host = c
      BY DEF ScreenTruth
    <2>1. c \in dir /\ down[c] = <<>> /\ Attends(c, down[c])
      BY NoFrames DEF Settled, Attends
    <2>2. ScreenFits(c, rooms, count[c], host[c])
      BY <2>1 DEF SessionInv, Views, WillShow
    <2>3. RoomsOf(c) = In(c, rooms)
      BY DEF RoomsOf, In
    <2> QED BY <2>2, <2>3 DEF ScreenFits
  <1> QED BY <1>1, SessionInvariant, PTL

(***************************************************************************)
(* SeatsAgree: in a match that no peer has left, seat and peer are those   *)
(* of the room the relay has started.                                      *)
(***************************************************************************)
THEOREM SeatsStayAgreed == Spec => []SeatsAgree
  <1>1. SessionInv => SeatsAgree
    <2> SUFFICES ASSUME SessionInv, NEW c \in Consoles, Settled(c), phase[c] = "match", ~dropped[c]
                 PROVE  \E r \in RoomsOf(c) : /\ r.started /\ Members(r) = {c, peer[c]}
                                              /\ seat[c] = IF r.host = c THEN 0 ELSE 1
      BY DEF SeatsAgree
    <2>1. c \in dir /\ down[c] = <<>> /\ Attends(c, down[c])
      BY NoFrames DEF Settled, Attends
    <2>2. SeatFits(c, rooms, seat[c], peer[c])
      BY <2>1 DEF SessionInv, Views, WillShow
    <2>3. RoomsOf(c) = In(c, rooms)
      BY DEF RoomsOf, In
    <2> QED BY <2>2, <2>3 DEF SeatFits
  <1> QED BY <1>1, SessionInvariant, PTL
=============================================================================
