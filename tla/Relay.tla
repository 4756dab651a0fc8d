------------------------------- MODULE Relay --------------------------------
(***************************************************************************)
(* The matchmaking relay: names, rooms and the cascade of drops a failing  *)
(* send can set off (server/intv_relay_server.py, and its C port           *)
(* server/c/src/intv-relay.c where the two differ).                        *)
(*                                                                         *)
(* The server is one thread, but its handlers are not atomic: send() may   *)
(* drop() the very client it sends to, and drop() sends to others, in the  *)
(* middle of a loop over the members that drop() is changing.  The calls   *)
(* still to be finished are the variable stack, innermost first; the       *)
(* server takes a new event only when it is empty.                         *)
(*                                                                         *)
(* Bytes, backlogs and socket errors are abstracted to one choice: a send  *)
(* to a live client either gets through or drops it (backlog exceeded,     *)
(* send error, send returned 0).  Game frames, LOBBY and PONG are one      *)
(* frame Other: they tell a console nothing about its room.                *)
(***************************************************************************)
EXTENDS Integers, Sequences, FiniteSets

CONSTANTS
  Clients,    \* connections the server can hold (MAX_CLIENTS of them)
  Names,      \* the names consoles say HELLO with
  MaxSeats,   \* MAX_SEATS / --max-seats
  Builds,     \* the servers looked at, Build(impl, autoGo, rehello)
  None        \* no client, no name

\* impl is "python" or "c", autoGo the size at which --auto-go starts a room
\* (0 for never), rehello whether a client that has a name says HELLO again.
Build(impl, autoGo, rehello) == [impl |-> impl, autoGo |-> autoGo, rehello |-> rehello]

ASSUME RelayAssumption ==
  /\ None \notin Clients \cup Names
  /\ IsFiniteSet(Clients) /\ IsFiniteSet(Names)
  /\ MaxSeats \in Nat /\ MaxSeats >= 2
  /\ Builds \subseteq [impl : {"python", "c"}, autoGo : Nat \ {1}, rehello : BOOLEAN]

\* A live room has two members at least, so this many are enough.
Rooms == 1..(Cardinality(Clients) \div 2)
NoRoom == 0

VARIABLES
  build,    \* which server this is; never changes
  live,     \* self.clients: connected and not dead
  name,     \* Client.name
  byName,   \* self.by_name
  room,     \* Client.room
  members,  \* Room.members, in seat order
  started,  \* Room.started
  count,    \* the player count last given to the Lobby publisher
  stack,    \* the calls in progress, innermost first
  told      \* history: the last frame about its room each console was sent

tables == <<build, live, name, byName, room, members, started, count>>
vars == <<tables, stack, told>>

(* Frames. *)
RoomFrame(ms) == [type |-> "ROOM", who |-> ms]
StartFrame(ms) == [type |-> "START", who |-> ms]
Dissolved == RoomFrame(<<>>)
PeerLeft == [type |-> "PEER_LEFT", who |-> <<>>]
Other == [type |-> "OTHER", who |-> <<>>]

(* Calls in progress. *)
Each(to, what) == [op |-> "each", to |-> to, what |-> what]
Live(r, i, what, but) == [op |-> "live", room |-> r, i |-> i, what |-> what, but |-> but]
RestOfHello(c, n) == [op |-> "hello", client |-> c, name |-> n]
RestOfJoin(r) == [op |-> "join", room |-> r]

Seated == UNION {[1..n -> Clients] : n \in 0..MaxSeats}
Frames == [type : {"ROOM", "START", "PEER_LEFT", "OTHER"}, who : Seated]
Calls == [op : {"each"}, to : Seated, what : Frames]
           \cup [op : {"live"}, room : Rooms, i : 1..(MaxSeats + 1), what : Frames,
                 but : Clients \cup {None}]
           \cup [op : {"hello"}, client : Clients, name : Names]
           \cup [op : {"join"}, room : Rooms]

TypeOK ==
  /\ build \in Builds
  /\ live \subseteq Clients
  /\ name \in [Clients -> Names \cup {None}]
  /\ byName \in [Names -> Clients \cup {None}]
  /\ room \in [Clients -> Rooms \cup {NoRoom}]
  /\ members \in [Rooms -> Seated]
  /\ started \in [Rooms -> BOOLEAN]
  /\ count \in 0..Cardinality(Names)
  /\ \A i \in DOMAIN stack : stack[i] \in Calls
  /\ told \in [Clients -> Frames]

Init ==
  /\ build \in Builds
  /\ live = {}
  /\ name = [c \in Clients |-> None]
  /\ byName = [n \in Names |-> None]
  /\ room = [c \in Clients |-> NoRoom]
  /\ members = [r \in Rooms |-> <<>>]
  /\ started = [r \in Rooms |-> FALSE]
  /\ count = 0
  /\ stack = <<>>
  /\ told = [c \in Clients |-> Dissolved]

-----------------------------------------------------------------------------
(* Dropping a client.                                                      *)

\* members.remove(c): the members behind c move up.  (A list without c stays
\* as it is, and no member is in the list twice.)
Without(ms, c) ==
  IF \E i \in DOMAIN ms : ms[i] = c
  THEN LET seat == CHOOSE i \in DOMAIN ms : ms[i] = c IN
       [i \in 1..(Len(ms) - 1) |-> ms[IF i < seat THEN i ELSE i + 1]]
  ELSE ms
Identified(names) == Cardinality({n \in Names : names[n] # None})

\* The loops over room.members.  The Python walks the live list; the C port
\* walks a snapshot of it.  `but` is the one member left out, if any.
LiveLoop_skew(r, what, but) == Live(r, 0, what, but)
LiveLoop(r, what, but) == Live(r, 1, what, but)
SnapshotLoop(ms, what, but) == Each(Without(ms, but), what)
ToMembers(r, ms, what, but) ==
  IF build.impl = "c" THEN SnapshotLoop(ms, what, but) ELSE LiveLoop(r, what, but)

\* drop() removes every name that points to the client.
Unnamed_keeps(c) == byName
Unnamed(c) == [n \in Names |-> IF byName[n] = c THEN None ELSE byName[n]]

\* drop() calls lobby_update only if it removed a name.  (Its second call, at
\* the end, can only repeat the count: the drops nested in its sends have
\* reported theirs.)
Republished_never(names) == count
Republished(names) == IF names = byName THEN count ELSE Identified(names)

\* A match ends with its first leaver; a forming room ends with its host, or
\* when one member is left.
EndsRoom_host(r, c) == started[r] /\ members[r][1] = c
EndsRoom_alone(r, c) == started[r] \/ members[r][1] = c
EndsRoom(r, c) ==
  \/ started[r]
  \/ members[r][1] = c
  \/ Len(Without(members[r], c)) < 2

\* What the members that stay are told when the room ends.
Farewell_silent(r) == Other
Farewell(r) == IF started[r] THEN PeerLeft ELSE Dissolved

\* drop(c), up to its first send; rest is what was in progress already.
Drop(c, rest) ==
  LET r == room[c]
      left == Without(members[r], c) IN
  /\ live' = live \ {c}
  /\ byName' = Unnamed(c)
  /\ count' = Republished(Unnamed(c))
  /\ IF r = NoRoom
     THEN /\ UNCHANGED <<room, members, started>>
          /\ stack' = rest
     ELSE IF EndsRoom(r, c)
     THEN /\ room' = [x \in Clients |-> IF room[x] = r THEN NoRoom ELSE room[x]]
          /\ members' = [members EXCEPT ![r] = <<>>]
          /\ started' = [started EXCEPT ![r] = FALSE]
          /\ stack' = <<Each(left, Farewell(r))>> \o rest
     ELSE /\ room' = [room EXCEPT ![c] = NoRoom]
          /\ members' = [members EXCEPT ![r] = left]
          /\ stack' = <<ToMembers(r, left, RoomFrame(left), None)>> \o rest
          /\ UNCHANGED started
  /\ UNCHANGED <<build, name, told>>

-----------------------------------------------------------------------------
(* The calls in progress, one step each.                                   *)

\* send(m, what): nothing for a dead client; else it gets through, or not.
Send(m, what, rest) ==
  \/ /\ m \notin live
     /\ stack' = rest
     /\ UNCHANGED <<tables, told>>
  \/ /\ m \in live
     /\ told' = IF what = Other THEN told ELSE [told EXCEPT ![m] = what]
     /\ stack' = rest
     /\ UNCHANGED tables
  \/ m \in live /\ Drop(m, rest)

\* The next member of a snapshot.
EachStep ==
  LET call == Head(stack) IN
  /\ stack # <<>>
  /\ call.op = "each"
  /\ IF call.to = <<>>
     THEN stack' = Tail(stack) /\ UNCHANGED <<tables, told>>
     ELSE Send(Head(call.to), call.what, <<Each(Tail(call.to), call.what)>> \o Tail(stack))

\* The index into the live list moves on whatever drop() has done to the
\* list in the meantime.
Advanced(call) == [call EXCEPT !.i = @ + 1]

\* The next member of the live list.
LiveStep ==
  LET call == Head(stack)
      ms == members[call.room]
      rest == <<Advanced(call)>> \o Tail(stack) IN
  /\ stack # <<>>
  /\ call.op = "live"
  /\ IF call.i > Len(ms)
     THEN stack' = Tail(stack) /\ UNCHANGED <<tables, told>>
     ELSE IF ms[call.i] = call.but
     THEN stack' = rest /\ UNCHANGED <<tables, told>>
     ELSE Send(ms[call.i], call.what, rest)

\* The C port's check after dropping the name's old holder.
GivesUp(c) == build.impl = "c" /\ c \notin live

\* by_name after the HELLO: the old alias goes, the new name comes.
Renamed(c, n) ==
  [x \in Names |-> IF x = n THEN c
                   ELSE IF x = name[c] /\ byName[x] = c THEN None
                   ELSE byName[x]]

\* The rest of on_hello, ending in on_list.
HelloStep ==
  LET call == Head(stack)
      c == call.client IN
  /\ stack # <<>>
  /\ call.op = "hello"
  /\ IF GivesUp(c)
     THEN stack' = Tail(stack) /\ UNCHANGED tables
     ELSE /\ byName' = Renamed(c, call.name)
          /\ count' = Identified(Renamed(c, call.name))
          /\ name' = [name EXCEPT ![c] = call.name]
          /\ stack' = <<Each(<<c>>, Other)>> \o Tail(stack)
          /\ UNCHANGED <<build, live, room, members, started>>
  /\ UNCHANGED told

\* start_room: mark the room started, then send START seat by seat.
StartRoom(r, rest) ==
  /\ started' = [started EXCEPT ![r] = TRUE]
  /\ stack' = <<ToMembers(r, members[r], StartFrame(members[r]), None)>> \o rest
  /\ count' = Identified(byName)
  /\ UNCHANGED <<build, live, name, byName, room, members, told>>

\* The rest of on_join, after room_broadcast: --auto-go.
JoinStep ==
  LET r == Head(stack).room IN
  /\ stack # <<>>
  /\ Head(stack).op = "join"
  /\ IF build.autoGo > 0 /\ Len(members[r]) >= build.autoGo
     THEN StartRoom(r, Tail(stack))
     ELSE /\ stack' = Tail(stack)
          /\ count' = Identified(byName)
          /\ UNCHANGED <<build, live, name, byName, room, members, started, told>>

-----------------------------------------------------------------------------
(* The events.                                                             *)

Idle == stack = <<>>

\* accept: a new connection.  A Client object some table still points to is
\* not a fresh one.
Accept(c) ==
  /\ Idle
  /\ c \notin live
  /\ \A n \in Names : byName[n] # c
  /\ room[c] = NoRoom
  /\ live' = live \cup {c}
  /\ name' = [name EXCEPT ![c] = None]
  /\ told' = [told EXCEPT ![c] = Dissolved]
  /\ UNCHANGED <<build, byName, room, members, started, count, stack>>

\* BYE, end of file, a receive error, a malformed stream, a protocol error
\* (JOIN before HELLO, a bad HELLO), no HELLO in time, or a failed flush of
\* the backlog.
Leave(c) ==
  /\ Idle
  /\ c \in live
  /\ Drop(c, <<>>)

\* HELLO: the last one to claim a name wins it.
Hello(c, n) ==
  /\ Idle
  /\ c \in live
  /\ build.rehello \/ name[c] = None
  /\ IF byName[n] \notin {None, c}
     THEN Drop(byName[n], <<RestOfHello(c, n)>>)
     ELSE stack' = <<RestOfHello(c, n)>> /\ UNCHANGED <<tables, told>>

\* LIST and PING are answered; nothing else changes.
Query(c) ==
  /\ Idle
  /\ c \in live
  /\ stack' = <<Each(<<c>>, Other)>>
  /\ UNCHANGED <<tables, told>>

\* A room that can be joined: forming, and not full.
Joinable(r) == ~started[r] /\ Len(members[r]) < MaxSeats

\* A JOIN for client t is refused: it is gone, it is the joiner, or its room
\* cannot be joined.
Unavailable(c, t) ==
  IF t \in {None, c} THEN TRUE ELSE room[t] # NoRoom /\ ~Joinable(room[t])

\* A refused JOIN is answered with a LOBBY frame.
JoinRefused(c, n) ==
  /\ Idle
  /\ c \in live
  /\ name[c] # None
  /\ room[c] = NoRoom
  /\ Unavailable(c, byName[n])
  /\ stack' = <<Each(<<c>>, Other)>>
  /\ UNCHANGED <<tables, told>>

\* JOIN: into the room of the named player, a new one if that player is solo
\* (and then its host).
Join(c, n) ==
  LET t == byName[n] IN
  /\ Idle
  /\ c \in live
  /\ name[c] # None
  /\ room[c] = NoRoom
  /\ ~Unavailable(c, t)
  /\ \E r \in Rooms :
       LET ms == IF room[t] = NoRoom THEN <<t, c>> ELSE Append(members[r], c) IN
       /\ IF room[t] = NoRoom THEN members[r] = <<>> ELSE r = room[t]
       /\ members' = [members EXCEPT ![r] = ms]
       /\ room' = [room EXCEPT ![t] = r, ![c] = r]
       /\ stack' = <<ToMembers(r, ms, RoomFrame(ms), None), RestOfJoin(r)>>
  /\ UNCHANGED <<build, live, name, byName, started, count, told>>

\* GO, from the host of a forming room.
Go(c) ==
  LET r == room[c] IN
  /\ Idle
  /\ c \in live
  /\ r # NoRoom
  /\ ~started[r]
  /\ members[r][1] = c
  /\ Len(members[r]) \in 2..MaxSeats
  /\ StartRoom(r, <<>>)

\* INPUT, CRC, STATE and RESYNC go to the other members of a started room.
RelayFrame(c) ==
  LET r == room[c] IN
  /\ Idle
  /\ c \in live
  /\ r # NoRoom
  /\ started[r]
  /\ stack' = <<ToMembers(r, members[r], Other, c)>>
  /\ UNCHANGED <<tables, told>>

-----------------------------------------------------------------------------
Event == \E c \in Clients :
           \/ Accept(c) \/ Leave(c) \/ Query(c) \/ Go(c) \/ RelayFrame(c)
           \/ \E n \in Names : Hello(c, n) \/ JoinRefused(c, n) \/ Join(c, n)
Step == EachStep \/ LiveStep \/ HelloStep \/ JoinStep

Next == Event \/ Step

Spec == Init /\ [][Next]_vars

-----------------------------------------------------------------------------
(* Properties.  The tables are only meant to agree between two events.     *)

(***************************************************************************)
(* The directory and the clients agree: a name leads to the one live       *)
(* client that bears it, and every client that has said HELLO is found     *)
(* under its name.  It takes a rename, a takeover of a name or a cascade   *)
(* of drops to get wrong.                                                  *)
(***************************************************************************)
Directory ==
  Idle =>
    /\ \A n \in Names : byName[n] # None => byName[n] \in live /\ name[byName[n]] = n
    /\ \A c \in live : name[c] # None => byName[name[c]] = c

(***************************************************************************)
(* Rooms are sound whatever sends failed while they were built, announced, *)
(* started or dissolved: between two and MaxSeats distinct live members,   *)
(* each of which points back to the room, and nobody else does.  Hence     *)
(* half as many rooms as clients are always enough.                        *)
(***************************************************************************)
RoomsSound ==
  Idle =>
    /\ \A r \in Rooms : members[r] # <<>> => Len(members[r]) \in 2..MaxSeats
    /\ \A r \in Rooms : \A i, j \in DOMAIN members[r] :
         /\ members[r][i] \in live
         /\ room[members[r][i]] = r
         /\ members[r][i] = members[r][j] => i = j
    /\ \A c \in Clients : room[c] # NoRoom =>
         \E i \in DOMAIN members[room[c]] : members[room[c]][i] = c

(***************************************************************************)
(* A client in no room was last told so: after a match "all survivors [are *)
(* back in] the lobby".                                                    *)
(***************************************************************************)
SurvivorsBackInLobby ==
  Idle => \A c \in live : room[c] = NoRoom => told[c] \in {Dissolved, PeerLeft}

(***************************************************************************)
(* The members of a forming room were last told the room as it is.         *)
(***************************************************************************)
RosterCurrent ==
  Idle => \A c \in live :
    (room[c] # NoRoom /\ ~started[room[c]]) => told[c] = RoomFrame(members[room[c]])

(***************************************************************************)
(* What a console was last told about its room is true of it, however the  *)
(* sends of the announcement failed half-way: START in a match, with every *)
(* member of it; the present roster in a forming room; and a goodbye or    *)
(* nothing outside one.  The C port does not promise that: a loop over a   *)
(* snapshot goes on announcing a room that a drop has just ended.  Nor     *)
(* does the Python with four seats (it has two): a guest that drops out of *)
(* a foursome while it is announced is gone from the roster of the nested  *)
(* announcement, but the loop around it goes on with the old roster.       *)
(***************************************************************************)
ToldTruth == (build.impl = "python" /\ MaxSeats <= 3) =>
  /\ SurvivorsBackInLobby
  /\ RosterCurrent
  /\ Idle => \A c \in live :
       (room[c] # NoRoom /\ started[room[c]]) => told[c] = StartFrame(members[room[c]])

(***************************************************************************)
(* The Lobby publisher was last given the number of names there are.       *)
(***************************************************************************)
CountCurrent == Idle => count = Identified(byName)

(***************************************************************************)
(* "Any drop ends the match for everyone": the players of a started room   *)
(* never change, they only all leave it at once.                           *)
(***************************************************************************)
AnyDropEndsMatch ==
  [][\A r \in Rooms : (started[r] /\ members'[r] # members[r]) => members'[r] = <<>>]_vars
=============================================================================
