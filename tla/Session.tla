------------------------------ MODULE Session -------------------------------
(***************************************************************************)
(* Lobby, waiting room and match as the consoles see them                  *)
(* (src/netcode/session.asm: SES_MAIN's lobby loop and the lobby handlers  *)
(* of SES_ONFRAME), composed with the relay's handlers for HELLO, LIST,    *)
(* JOIN and GO (server/intv_relay_server.py) in rooms of two.              *)
(*                                                                         *)
(* A console knows only what frames have told it: how many are in its      *)
(* room, whether it is the host, that a match is on.  Keys, frames under   *)
(* way in both directions, resets and breaking connections cross each      *)
(* other.  The cached list of players may be as old as one likes, so ENTER *)
(* may pick any name that a list on this connection can have held; the     *)
(* list itself, its frames and the cursor are left out.  What the match    *)
(* itself does is module Lockstep's subject, cascades of failing sends in  *)
(* larger rooms module Relay's.                                            *)
(***************************************************************************)
EXTENDS Integers, Sequences, FiniteSets

CONSTANTS
  Consoles,   \* consoles, each with a name of its own
  MaxUp,      \* bound: a console's frames the relay has not handled
  MaxFaults   \* bound: resets and broken connections

ASSUME SessionAssumption ==
  /\ MaxUp \in Nat \ {0}
  /\ MaxFaults \in Nat

Nobody == "nobody"
MaxSeats == 2

\* Frames from a console, and from the relay.
Asks == [type : {"HELLO", "GO"}] \cup [type : {"JOIN"}, name : Consoles]
Room(n, h) == [type |-> "ROOM", count |-> n, first |-> h]
Start(s, p) == [type |-> "START", seat |-> s, peer |-> p]
PeerLeft == [type |-> "PEER_LEFT"]

VARIABLES
  phase,     \* off, lobby (the lobby loop), match (NET_ACTIVE), parked
  count,     \* ROOM_CNT
  host,      \* ROOM_HOST
  dropped,   \* NET_DROPPED
  seat,      \* NET_SEAT
  peer,      \* the other name of the START roster
  known,     \* names the lists of players can have held since HELLO
  up,        \* frames on their way to the relay
  down,      \* frames on their way to a console
  link,      \* the console's connection stands
  dir,       \* by_name
  rooms,     \* the relay's rooms of two
  faults     \* bound: resets and broken connections so far

screen == <<count, host>>
play == <<dropped, seat, peer>>
server == <<dir, rooms>>
vars == <<phase, screen, play, known, up, down, link, server, faults>>

Rooms == [host : Consoles, guest : Consoles, started : BOOLEAN]
Members(r) == {r.host, r.guest}
RoomsOf(c) == {r \in rooms : c \in Members(r)}

TypeOK ==
  /\ phase \in [Consoles -> {"off", "lobby", "match", "parked"}]
  /\ count \in [Consoles -> {0, 2}]
  /\ host \in [Consoles -> BOOLEAN]
  /\ dropped \in [Consoles -> BOOLEAN]
  /\ seat \in [Consoles -> {0, 1}]
  /\ peer \in [Consoles -> Consoles \cup {Nobody}]
  /\ known \in [Consoles -> SUBSET Consoles]
  /\ up \in [Consoles -> Seq(Asks)]
  /\ link \in [Consoles -> BOOLEAN]
  /\ dir \subseteq Consoles
  /\ rooms \subseteq Rooms
  /\ \A c \in Consoles : Cardinality(RoomsOf(c)) <= 1
  /\ faults \in 0..MaxFaults

Init ==
  /\ phase = [c \in Consoles |-> "off"]
  /\ count = [c \in Consoles |-> 0]
  /\ host = [c \in Consoles |-> FALSE]
  /\ dropped = [c \in Consoles |-> FALSE]
  /\ seat = [c \in Consoles |-> 0]
  /\ peer = [c \in Consoles |-> Nobody]
  /\ known = [c \in Consoles |-> {}]
  /\ up = [c \in Consoles |-> <<>>]
  /\ down = [c \in Consoles |-> <<>>]
  /\ link = [c \in Consoles |-> FALSE]
  /\ dir = {}
  /\ rooms = {}
  /\ faults = 0

-----------------------------------------------------------------------------
(* The console: SES_MAIN.                                                  *)

\* NET_WRITE on a connection that is gone does nothing.
Tell(c, f) == up' = IF link[c] THEN [up EXCEPT ![c] = Append(@, f)] ELSE up

\* Connect, say HELLO, enter the lobby loop.  The relay has seen the end of
\* an earlier connection by now.
Connect(c) ==
  /\ phase[c] = "off"
  /\ c \notin dir /\ up[c] = <<>>
  /\ phase' = [phase EXCEPT ![c] = "lobby"]
  /\ link' = [link EXCEPT ![c] = TRUE]
  /\ up' = [up EXCEPT ![c] = <<[type |-> "HELLO"]>>]
  /\ known' = [known EXCEPT ![c] = {}]
  /\ UNCHANGED <<screen, play, down, server, faults>>

InLobby(c) == phase[c] = "lobby" /\ Len(up[c]) < MaxUp

\* ENTER in the browser: JOIN a player of the list.
EnterJoin(c, t) ==
  /\ InLobby(c)
  /\ count[c] < 2
  /\ t \in known[c]
  /\ Tell(c, [type |-> "JOIN", name |-> t])
  /\ UNCHANGED <<phase, screen, play, down, link, server, known, faults>>

\* ENTER in the waiting room: the host's GO.
MayGo(c) == count[c] >= 2 /\ host[c]
EnterGo(c) ==
  /\ InLobby(c)
  /\ MayGo(c)
  /\ Tell(c, [type |-> "GO"])
  /\ UNCHANGED <<phase, screen, play, down, link, server, known, faults>>

-----------------------------------------------------------------------------
(* The console: SES_ONFRAME.  A parked console does not pump any more.     *)

Gets(c, type) ==
  /\ phase[c] \in {"lobby", "match"}
  /\ down[c] # <<>>
  /\ Head(down[c]).type = type
  /\ down' = [down EXCEPT ![c] = Tail(@)]

\* @@of_room: the host is the one whose name comes first.
IsHost_stays(c, f) == host[c] \/ f.first = c
IsHost(c, f) == f.count >= 2 /\ f.first = c

OnRoom(c) ==
  /\ Gets(c, "ROOM")
  /\ IF phase[c] = "lobby"
     THEN LET f == Head(down[c]) IN
          /\ count' = [count EXCEPT ![c] = IF f.count >= 2 THEN f.count ELSE 0]
          /\ host' = [host EXCEPT ![c] = IsHost(c, f)]
     ELSE UNCHANGED <<count, host>>
  /\ UNCHANGED <<phase, play, up, link, server, known, faults>>

OnStart(c) ==
  /\ Gets(c, "START")
  /\ phase' = [phase EXCEPT ![c] = "match"]
  /\ seat' = [seat EXCEPT ![c] = Head(down[c]).seat]
  /\ peer' = [peer EXCEPT ![c] = Head(down[c]).peer]
  /\ UNCHANGED <<screen, dropped, up, link, server, known, faults>>

OnPeerLeft(c) ==
  /\ Gets(c, "PEER_LEFT")
  /\ dropped' = [dropped EXCEPT ![c] = TRUE]
  /\ UNCHANGED <<phase, screen, seat, peer, up, link, server, known, faults>>

\* The match is over for this console: a peer that left, or the gate's
\* time-out.  It stays connected.
Silent(c) == ~link[c] \/ ~link[peer[c]] \/ phase[peer[c]] \in {"off", "parked"}
Park(c) ==
  /\ phase[c] = "match"
  /\ dropped[c] \/ Silent(c)
  /\ dropped' = [dropped EXCEPT ![c] = TRUE]
  /\ phase' = [phase EXCEPT ![c] = "parked"]
  /\ UNCHANGED <<screen, seat, peer, up, down, link, server, known, faults>>

-----------------------------------------------------------------------------
(* The relay.                                                              *)

Busy(c) == \E r \in RoomsOf(c) : r.started \/ Cardinality(Members(r)) >= MaxSeats

\* drop(c), in a relay with rooms rs and queues q to and u from the consoles:
\* the peer is told, and goes too if that fails.
Word_room(r) == Room(0, Nobody)
Word(r) == IF r.started THEN PeerLeft ELSE Room(0, Nobody)
DropFrom(c, rs, q, u) ==
  LET mine == {r \in rs : c \in Members(r)}
      left == (UNION {Members(r) : r \in mine}) \ {c}
      gone == {c} \cup {p \in left : ~link[p]}
  IN /\ rooms' = rs \ mine
     /\ dir' = dir \ gone
     /\ down' = [p \in Consoles |->
                   IF p \in left \ gone
                   THEN Append(q[p], Word(CHOOSE r \in mine : p \in Members(r)))
                   ELSE q[p]]
     /\ up' = [p \in Consoles |-> IF p \in gone THEN <<>> ELSE u[p]]

\* Two sends, to the host first; the one that fails drops its client.
SendBoth(r, rs, fh, fg, u) ==
  LET q == [down EXCEPT ![r.host] = Append(@, fh)] IN
  IF ~link[r.host] THEN DropFrom(r.host, rs, down, u)
  ELSE IF ~link[r.guest] THEN DropFrom(r.guest, rs, q, u)
  ELSE /\ rooms' = rs
       /\ up' = u
       /\ down' = [q EXCEPT ![r.guest] = Append(@, fg)]
       /\ UNCHANGED dir

Handles(c, type) == up[c] # <<>> /\ Head(up[c]).type = type
Taken(c) == [up EXCEPT ![c] = Tail(@)]

OnHello(c) ==
  /\ Handles(c, "HELLO")
  /\ dir' = IF link[c] THEN dir \cup {c} ELSE dir
  /\ known' = [d \in Consoles |-> CASE d = c -> dir
                                    [] d \in dir /\ link[c] -> known[d] \cup {c}
                                    [] OTHER -> known[d]]
  /\ up' = [up EXCEPT ![c] = IF link[c] THEN Tail(@) ELSE <<>>]
  /\ UNCHANGED <<phase, screen, play, down, link, rooms, faults>>

\* A member of a room ignores a JOIN that crossed another one; for a target
\* that is gone or taken there is only a fresh list.
Joinable_taken(c, t) == t \in dir /\ t # c
Joinable(c, t) == t \in dir /\ t # c /\ ~Busy(t)

OnJoin(c) ==
  LET t == Head(up[c]).name
      r == [host |-> t, guest |-> c, started |-> FALSE] IN
  /\ Handles(c, "JOIN")
  /\ \/ /\ RoomsOf(c) # {}
        /\ up' = Taken(c)
        /\ UNCHANGED <<down, server>>
     \/ /\ RoomsOf(c) = {} /\ ~Joinable(c, t)
        /\ IF link[c] THEN up' = Taken(c) /\ UNCHANGED <<down, server>>
                      ELSE DropFrom(c, rooms, down, up)
     \/ /\ RoomsOf(c) = {} /\ Joinable(c, t)
        /\ SendBoth(r, rooms \cup {r}, Room(2, t), Room(2, t), Taken(c))
  /\ UNCHANGED <<phase, screen, play, link, known, faults>>

\* on_go: only the host of a room that has not started.
Startable(c, r) == ~r.started /\ r.host = c

OnGo(c) ==
  /\ Handles(c, "GO")
  /\ \/ /\ \A r \in RoomsOf(c) : ~Startable(c, r)
        /\ up' = Taken(c)
        /\ UNCHANGED <<down, server>>
     \/ \E r \in RoomsOf(c) :
          LET s == [r EXCEPT !.started = TRUE] IN
          /\ Startable(c, r)
          /\ SendBoth(s, (rooms \ {r}) \cup {s}, Start(0, r.guest), Start(1, r.host),
                      Taken(c))
  /\ UNCHANGED <<phase, screen, play, link, known, faults>>

\* The relay reads the end of a connection.
Eof_forming(c) ==
  /\ ~link[c] /\ c \in dir /\ up[c] = <<>>
  /\ \A r \in RoomsOf(c) : ~r.started
  /\ DropFrom(c, rooms, down, up)
  /\ UNCHANGED <<phase, screen, play, link, known, faults>>
Eof(c) ==
  /\ ~link[c] /\ c \in dir /\ up[c] = <<>>
  /\ DropFrom(c, rooms, down, up)
  /\ UNCHANGED <<phase, screen, play, link, known, faults>>

-----------------------------------------------------------------------------
(* RESET, and a connection that breaks without the console noticing.       *)

Reset(c) ==
  /\ phase[c] # "off"
  /\ faults < MaxFaults
  /\ faults' = faults + 1
  /\ phase' = [phase EXCEPT ![c] = "off"]
  /\ count' = [count EXCEPT ![c] = 0] /\ host' = [host EXCEPT ![c] = FALSE]
  /\ dropped' = [dropped EXCEPT ![c] = FALSE]
  /\ seat' = [seat EXCEPT ![c] = 0] /\ peer' = [peer EXCEPT ![c] = Nobody]
  /\ down' = [down EXCEPT ![c] = <<>>]
  /\ link' = [link EXCEPT ![c] = FALSE]
  /\ UNCHANGED <<known, up, server>>

Break(c) ==
  /\ link[c]
  /\ faults < MaxFaults
  /\ faults' = faults + 1
  /\ link' = [link EXCEPT ![c] = FALSE]
  /\ down' = [down EXCEPT ![c] = <<>>]
  /\ UNCHANGED <<phase, screen, play, known, up, server>>

-----------------------------------------------------------------------------
Menu(c) == EnterGo(c) \/ \E t \in Consoles \ {c} : EnterJoin(c, t)
Frame(c) == OnRoom(c) \/ OnStart(c) \/ OnPeerLeft(c)
Handle(c) == OnHello(c) \/ OnJoin(c) \/ OnGo(c) \/ Eof(c)

Next == \E c \in Consoles :
          \/ Connect(c) \/ Menu(c) \/ Frame(c) \/ Park(c)
          \/ Handle(c)
          \/ Reset(c) \/ Break(c)

Spec == Init /\ [][Next]_vars

(***************************************************************************)
(* The lobby loop and the match never stop pumping, the relay serves every *)
(* readable socket, a match whose peer is silent times out.  Keys, resets  *)
(* and breaks need not happen.                                             *)
(***************************************************************************)
Fairness == \A c \in Consoles : WF_vars(Frame(c)) /\ WF_vars(Park(c)) /\ WF_vars(Handle(c))

FairSpec == Spec /\ Fairness

-----------------------------------------------------------------------------
(* Properties.                                                             *)

\* Nothing is on its way to the console, and the relay knows it.
Settled(c) == link[c] /\ c \in dir /\ down[c] = <<>>

(***************************************************************************)
(* However joins, GOs, leavers and answers have crossed: a settled console *)
(* in the lobby loop that no match has been taken from shows the room the  *)
(* relay has it in, as host if and only if the relay would take its GO.    *)
(***************************************************************************)
ScreenTruth ==
  \A c \in Consoles :
    (Settled(c) /\ phase[c] = "lobby" /\ ~dropped[c]) =>
      /\ \A r \in RoomsOf(c) : ~r.started
      /\ count[c] = IF RoomsOf(c) = {} THEN 0 ELSE 2
      /\ host[c] <=> \E r \in RoomsOf(c) : r.host = c

(***************************************************************************)
(* Two consoles that play each other sit in different seats, in the order  *)
(* of the room: each takes the other's inputs for the other's.             *)
(***************************************************************************)
SeatsAgree ==
  \A c \in Consoles :
    (Settled(c) /\ phase[c] = "match" /\ ~dropped[c]) =>
      \E r \in RoomsOf(c) : /\ r.started
                            /\ Members(r) = {c, peer[c]}
                            /\ seat[c] = IF r.host = c THEN 0 ELSE 1

(***************************************************************************)
(* No console waits alone in a match: when the relay has started a room,   *)
(* every member gets into the match, or the room ends.                     *)
(***************************************************************************)
Unmet(c) == phase[c] \in {"off", "lobby"} /\ \E r \in RoomsOf(c) : r.started
StartedMeets == \A c \in Consoles : []<>(~Unmet(c))

(***************************************************************************)
(* "Any drop ends the match for everyone: name the leaver, dissolve, all   *)
(* survivors back to the lobby": a settled console that the relay has in   *)
(* no room shows the browser and can play again.                           *)
(***************************************************************************)
BackInLobby ==
  \A c \in Consoles :
    (Settled(c) /\ RoomsOf(c) = {} /\ phase[c] # "match") =>
      phase[c] = "lobby" /\ count[c] < 2
=============================================================================
