----------------------------- MODULE RelayCore ------------------------------
(***************************************************************************)
(* The relay as a function: what one event does to the server when every   *)
(* send gets through (the case of the two server test tools; the module    *)
(* Relay is about the sends that fail).  The server is one record s:       *)
(*                                                                         *)
(*   impl, bug, autoGo  which build it is, which mistake it has, --auto-go *)
(*   live               self.clients                                       *)
(*   name               Client.name, NoName before the HELLO               *)
(*   dir                self.by_name: pairs <<name, client>> in the        *)
(*                      insertion order of the dictionary                  *)
(*   rooms              the Room objects: members, started, crc, crc_ok    *)
(*   sent               the frames sent by this event, <<client, frame>>   *)
(*   log                the lines logged, oldest first                     *)
(*                                                                         *)
(* server/intv_relay_server.py; the C port differs in one log line.        *)
(***************************************************************************)
EXTENDS Integers, Sequences, FiniteSets, SequencesExt

CONSTANTS
  Seats,      \* MAX_SEATS / --max-seats
  PerIP,      \* MAX_CONNECTIONS_PER_IP
  ListMax,    \* the entries a LOBBY frame holds
  CrcCap      \* the half-reported ticks Room.crc holds

ASSUME RelayCoreAssumption ==
  /\ Seats \in Nat /\ Seats >= 2
  /\ PerIP \in Nat \ {0}
  /\ ListMax \in Nat \ {0}
  /\ CrcCap \in Nat \ {0}

NoName == "?"
Proto == 2

\* The mistakes a build can be given, to see what the tests make of them.
Mistakes == {"none",
             "guest_go",   \* on_go without the test for seat 0
             "echo",       \* a frame is relayed to its sender too
             "over_full",  \* on_join without the test for a full room
             "mute_drop",  \* no PEER_LEFT
             "blind_crc",  \* log_crc takes different checksums for equal
             "hash_order", \* by_name listed in another order
             "no_guard"}   \* no wait for the rest of a frame

Boot(impl, bug, autoGo) ==
  [impl |-> impl, bug |-> bug, autoGo |-> autoGo,
   live |-> {}, name |-> <<>>, dir |-> <<>>, rooms |-> {}, sent |-> <<>>, log |-> <<>>]

(* Frames from the relay. *)
LobbyFrame(list) == [type |-> "LOBBY", list |-> list]
RoomFrame(names) == [type |-> "ROOM", who |-> names]
StartFrame(seat, seed, names) == [type |-> "START", seat |-> seat, seed |-> seed, who |-> names]
PeerLeftFrame(seat, n) == [type |-> "PEER_LEFT", seat |-> seat, name |-> n]
Pong == [type |-> "PONG"]
Eof == [type |-> "EOF"]

-----------------------------------------------------------------------------
(* What every handler uses.                                                *)

Send(s, c, f) == IF c \in s.live THEN [s EXCEPT !.sent = Append(@, <<c, f>>)] ELSE s
SendAll(s, cs, f) == FoldLeft(LAMBDA t, c : Send(t, c, f), s, cs)

\* One log record: what happened, to whom, with which numbers.
Line(what, who, n) == [what |-> what, who |-> who, n |-> n]
Log(s, what, who, n) == [s EXCEPT !.log = Append(@, Line(what, who, n))]

NamesOf(s, cs) == [i \in DOMAIN cs |-> s.name[cs[i]]]
Holder(s, n) == {c \in s.live : <<n, c>> \in Range(s.dir)}
RoomsOf(s, c) == {r \in s.rooms : c \in Range(r.members)}
RoomOf(s, c) == CHOOSE r \in s.rooms : c \in Range(r.members)
Put(s, old, new) == [s EXCEPT !.rooms = (@ \ old) \cup new]
SeatOf(r, c) == (CHOOSE i \in DOMAIN r.members : r.members[i] = c) - 1

RoomBroadcast(s, r) == SendAll(s, r.members, RoomFrame(NamesOf(s, r.members)))

\* Who stays is told: in a match PEER_LEFT, in a forming room ROOM 0 when it
\* ends (with its host or below two members), else the new seats.
LeaveRoom(s, c, r) ==
  LET seat == SeatOf(r, c)
      left == SelectSeq(r.members, LAMBDA m : m # c)
      gone == Put(s, {r}, {})
      ended == Log(gone, "match ended", <<s.name[c]>>, <<r.ok, seat>>)
      bye == PeerLeftFrame(seat, s.name[c])
      stays == [r EXCEPT !.members = left] IN
  IF r.started
  THEN FoldLeft(LAMBDA t, m :
                  Log(IF s.bug = "mute_drop" THEN t ELSE Send(t, m, bye),
                      "peer left", <<s.name[m]>>, <<>>),
                ended, left)
  ELSE IF seat = 0
  THEN SendAll(Log(gone, "dissolved", NamesOf(s, left), <<>>), left, RoomFrame(<<>>))
  ELSE IF Len(left) < 2
  THEN SendAll(gone, left, RoomFrame(<<>>))
  ELSE RoomBroadcast(Put(gone, {}, {stays}), stays)

\* drop(): the socket is closed, every alias goes, the room is left.
Drop(s, c, why) ==
  LET t == Log(s, "drop", <<s.name[c], why>>, <<>>)
      u == [t EXCEPT !.live = @ \ {c},
                     !.sent = Append(@, <<c, Eof>>),
                     !.dir = SelectSeq(@, LAMBDA e : e[2] # c)] IN
  IF RoomsOf(s, c) = {} THEN u ELSE LeaveRoom(u, c, RoomOf(s, c))

-----------------------------------------------------------------------------
(* The protocol.                                                           *)

\* The low bits count the members, the flag says that nobody can join.
Status(s, c) ==
  IF RoomsOf(s, c) = {} THEN <<FALSE, 1>>
  ELSE LET r == RoomOf(s, c) IN <<r.started \/ Len(r.members) >= Seats, Len(r.members)>>

\* The first eight others, in dictionary order.
OnList(s, c) ==
  LET inOrder == IF s.bug = "hash_order" THEN Reverse(s.dir) ELSE s.dir
      others == SelectSeq(inOrder, LAMBDA e : e[2] # c)
      shown == SubSeq(others, 1, IF Len(others) < ListMax THEN Len(others) ELSE ListMax)
      entry(e) == [name |-> s.name[e[2]], status |-> Status(s, e[2])] IN
  Send(s, c, LobbyFrame([i \in DOMAIN shown |-> entry(shown[i])]))

\* d[n] = c: a key that is there keeps its place.
Assign(dir, n, c) ==
  IF \E i \in DOMAIN dir : dir[i][1] = n
  THEN [i \in DOMAIN dir |-> IF dir[i][1] = n THEN <<n, c>> ELSE dir[i]]
  ELSE Append(dir, <<n, c>>)

\* The last one to claim a name wins it; a rename takes the old alias away
\* and enters the new name at the end.
OnHello(s, c, f) ==
  LET warned == IF s.impl = "c" /\ f.ver = 1
                THEN Log(s, "v1 console", <<>>, <<>>) ELSE s
      old == Holder(s, f.name) \ {c}
      t == IF old = {} THEN s ELSE Drop(s, CHOOSE x \in old : TRUE, "replaced")
      renames == s.name[c] \notin {NoName, f.name}
      u == IF renames
           THEN Log([t EXCEPT !.dir = SelectSeq(@, LAMBDA e : e # <<s.name[c], c>>)],
                    "rename", <<s.name[c], f.name>>, <<>>)
           ELSE t
      v == [u EXCEPT !.name[c] = f.name, !.dir = Assign(@, f.name, c)] IN
  IF f.ver # Proto THEN Drop(warned, c, "protocol version")
  ELSE IF f.name = "!!" THEN Drop(s, c, "bad name")
  ELSE OnList(Log(v, "hello", <<f.name>>, <<>>), c)

\* START to every seat, and an empty checksum log.
StartRoom(s, r, seed) ==
  LET names == NamesOf(s, r.members)
      begun == [r EXCEPT !.started = TRUE, !.crc = <<>>, !.ok = 0]
      told == FoldLeft(LAMBDA t, i : Send(t, r.members[i], StartFrame(i - 1, seed, names)),
                       Put(s, {r}, {begun}), [i \in DOMAIN r.members |-> i]) IN
  Log(told, "match", names, <<Len(names), seed>>)

\* Full, unless this is the build that does not look.
Full(s, r) == Len(r.members) >= Seats /\ s.bug # "over_full"

\* Into the room of the named player, whoever of its members that is; a
\* LOBBY frame when there is no way in, nothing for one who has a room.
OnJoin(s, c, f, seed) ==
  LET target == Holder(s, f.name) \ {c}
      t == CHOOSE x \in target : TRUE
      old == RoomsOf(s, t)
      new == IF old = {}
             THEN [members |-> <<t, c>>, started |-> FALSE, crc |-> <<>>, ok |-> 0]
             ELSE [RoomOf(s, t) EXCEPT !.members = Append(@, c)]
      joined == RoomBroadcast(Log(Put(s, old, {new}), "join",
                                  <<s.name[c]>> \o NamesOf(s, new.members), <<>>), new) IN
  IF s.name[c] = NoName THEN Drop(s, c, "join before hello")
  ELSE IF RoomsOf(s, c) # {} THEN s
  ELSE IF target = {} THEN OnList(s, c)
  ELSE IF \E r \in old : r.started \/ Full(s, r) THEN OnList(s, c)
  ELSE IF s.autoGo > 0 /\ Len(new.members) >= s.autoGo THEN StartRoom(joined, new, seed)
  ELSE joined

\* GO counts from the host of a forming room only.
MayGo(s, r, c) ==
  /\ ~r.started
  /\ SeatOf(r, c) = 0 \/ s.bug = "guest_go"
  /\ Len(r.members) \in 2..Seats

OnGo(s, c, seed) ==
  IF \E r \in RoomsOf(s, c) : MayGo(s, r, c) THEN StartRoom(s, RoomOf(s, c), seed) ELSE s

-----------------------------------------------------------------------------
(* The checksum log: Room.crc maps a tick to what the seats reported.      *)

Least(S) == CHOOSE x \in S : \A y \in S : x <= y
Without(fn, x) == [y \in DOMAIN fn \ {x} |-> fn[y]]
With(fn, x, v) == [y \in DOMAIN fn \cup {x} |-> IF y = x THEN v ELSE fn[y]]

\* One report.  An entry over the cap pushes out the smallest tick, which
\* may be the one just entered; a full round is compared and forgotten.
LogCrc(s, c, f) ==
  LET r == RoomOf(s, c)
      entry == With(IF f.tick \in DOMAIN r.crc THEN r.crc[f.tick] ELSE <<>>, f.seat, f.crc)
      kept == With(r.crc, f.tick, entry)
      crc == IF Cardinality(DOMAIN kept) > CrcCap THEN Without(kept, Least(DOMAIN kept)) ELSE kept
      agreed == s.bug = "blind_crc" \/ Cardinality({entry[i] : i \in DOMAIN entry}) = 1
      ok == IF agreed THEN r.ok + 1 ELSE r.ok IN
  IF Cardinality(DOMAIN entry) < Len(r.members) THEN Put(s, {r}, {[r EXCEPT !.crc = crc]})
  ELSE LET t == Put(s, {r}, {[r EXCEPT !.crc = Without(crc, f.tick), !.ok = ok]}) IN
       IF ~agreed THEN Log(t, "CRC MISMATCH", <<>>, <<f.tick>>)
       ELSE IF ok % 4 = 0 THEN Log(t, "crc ok", <<>>, <<f.tick, ok>>) ELSE t

\* INPUT, CRC, STATE and RESYNC go to the other members of a match.
OnRelay(s, c, f) ==
  LET t == IF f.type = "CRC" THEN LogCrc(s, c, f) ELSE s
      others == SelectSeq(RoomOf(s, c).members, LAMBDA m : m # c \/ s.bug = "echo") IN
  IF \E r \in RoomsOf(s, c) : r.started THEN SendAll(t, others, f) ELSE s

Handle(s, c, f, seed) ==
  CASE f.type \in {"INPUT", "CRC", "STATE", "RESYNC"} -> OnRelay(s, c, f)
    [] f.type = "HELLO" -> OnHello(s, c, f)
    [] f.type = "LIST" -> OnList(s, c)
    [] f.type = "JOIN" -> OnJoin(s, c, f, seed)
    [] f.type = "GO" -> OnGo(s, c, seed)
    [] f.type = "BYE" -> Drop(s, c, "bye")
    [] f.type = "PING" -> Send(s, c, Pong)
    [] OTHER -> Drop(s, c, "unknown type")

-----------------------------------------------------------------------------
(* The sockets.                                                            *)

\* What arrives on a socket.  PART is a frame cut off by the end of what has
\* arrived so far (the frame itself stands for its last piece), BADLEN a
\* length byte of 0 or above 200; RST is a connection the peer reset.
Receive(s, c, f, seed) ==
  IF c \notin s.live THEN s
  ELSE CASE f.type = "EOF" -> Drop(s, c, "closed")
         [] f.type = "RST" -> Drop(s, c, "recv error")
         [] f.type = "BADLEN" -> Drop(s, c, "bad frame length")
         [] f.type = "PART" -> IF s.bug = "no_guard" THEN Drop(s, c, "internal") ELSE s
         [] OTHER -> Handle(s, c, f, seed)

\* service(): one recv, and all the frames it completes.
Service(s, c, items, seed) == FoldLeft(LAMBDA t, f : Receive(t, c, f, seed), s, items)

\* accept(): the limit per address (all the test clients share one).
AcceptOne(s, c) ==
  IF Cardinality(s.live) >= PerIP
  THEN [Log(s, "reject", <<>>, <<PerIP>>) EXCEPT !.sent = Append(@, <<c, Eof>>)]
  ELSE [Log(s, "connect", <<>>, <<>>) EXCEPT !.live = @ \cup {c}, !.name = With(@, c, NoName)]
=============================================================================
