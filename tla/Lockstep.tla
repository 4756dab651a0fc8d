------------------------------ MODULE Lockstep ------------------------------
(***************************************************************************)
(* The lockstep match engine of two consoles joined by the relay           *)
(* (src/netcode/lockstep.asm LS_PASS, the frame handlers of session.asm,   *)
(* the fan-out of server/intv_relay_server.py).                            *)
(*                                                                         *)
(* Every game tick T a console pumps the socket, captures its own          *)
(* controller for tick T + d, stores it in its own ring, sends it, and     *)
(* then waits at the gate until the peer's input watermark has reached T.  *)
(* Only then does it replay both seats' ring cells for T (and T - 1, for   *)
(* edges) and run the tick.                                                *)
(*                                                                         *)
(* Inputs are named, not valued: the capture made for tick n is the number *)
(* n, so every capture of a match is distinct and "the wrong input" is     *)
(* always visible.  The code sees only 16-bit ticks; the true (unwrapped)  *)
(* tick of a console is the length of its log.                             *)
(*                                                                         *)
(* The simulation is deterministic here, so CRC reports always agree and   *)
(* no resync is ever requested; module Resync adds divergence, the CRC     *)
(* exchange and the state push.                                            *)
(***************************************************************************)
EXTENDS Words, Sequences

CONSTANTS
  Delay,      \* NET_DELAY, the input delay d of the START frame
  Timeout,    \* gate pump rounds before a console gives its peer up
  MaxTicks,   \* bound: ticks a console plays
  Faulty      \* the seats whose console or connection may fail

Seats == {0, 1}
Other(c) == 1 - c

(***************************************************************************)
(* The ring must hold the two cells a tick reads and everything the peer   *)
(* can have sent by then, which is up to tick T + 2d + 1.                  *)
(***************************************************************************)
ASSUME LockstepAssumption ==
  /\ Delay \in Nat \ {0}
  /\ 2 * Delay + 3 <= RingSize
  /\ Timeout \in Nat \ {0}
  /\ MaxTicks \in Nat
  /\ Faulty \subseteq Seats

Idle == -1                        \* the idle cell value LS_RING_INIT writes
Caps == Nat \cup {Idle}

\* What the cell of tick n must hold: nothing is captured for ticks below d.
Expected(n) == IF n < Delay THEN Idle ELSE n

IdleRings == [s \in Seats |-> [i \in Slots |-> Idle]]

Frames == [type : {"START", "INPUT", "PEER_LEFT"}, tick : Word, cap : Caps]
StartFrame == [type |-> "START", tick |-> 0, cap |-> Delay - 1]
InputFrame(w, n) == [type |-> "INPUT", tick |-> w, cap |-> n]
LeftFrame == [type |-> "PEER_LEFT", tick |-> 0, cap |-> 0]

VARIABLES
  pc,         \* where the console is in SES_MAIN / LS_PASS
  tick,       \* TICK_LO/HI
  wm,         \* SEAT_WM of the peer's seat
  ring,       \* SEAT_RING/SEAT_KP: a page per seat
  waitc,      \* LS_WAITC: gate rounds spent stalled
  dropped,    \* NET_DROPPED
  why,        \* PEER_WHY: 1 the server said goodbye, 0 we timed out
  up,         \* frames from a console, not yet handled by the relay
  down,       \* frames from the relay, not yet pumped by a console
  link,       \* TCP connection of a console: TRUE while it stands
  started,    \* the room is in a match: the relay fans frames out
  log,        \* history: the inputs each tick of the match was run with
  seen        \* history: the last capture accepted from the peer

console == <<pc, tick, wm, ring, waitc, dropped, why>>
history == <<log, seen>>
net == <<up, down, link, started>>
vars == <<console, net, history>>

PCs == {"lobby", "held", "pass", "pump", "gate", "stall", "park", "off"}

Entry == [cur : [Seats -> Caps], prev : [Seats -> Caps]]

TypeOK ==
  /\ pc \in [Seats -> PCs]
  /\ tick \in [Seats -> Word]
  /\ wm \in [Seats -> Word]
  /\ ring \in [Seats -> [Seats -> [Slots -> Caps]]]
  /\ waitc \in [Seats -> 0..Timeout]
  /\ dropped \in [Seats -> BOOLEAN]
  /\ why \in [Seats -> {0, 1}]
  /\ up \in [Seats -> Seq(Frames)]
  /\ down \in [Seats -> Seq(Frames)]
  /\ link \in [Seats -> BOOLEAN]
  /\ started \in BOOLEAN
  /\ log \in [Seats -> Seq(Entry)]
  /\ seen \in [Seats -> Int]

-----------------------------------------------------------------------------
(* The room has just been started: START is on its way to both seats.      *)

Init ==
  /\ pc = [c \in Seats |-> "lobby"]
  /\ tick = [c \in Seats |-> 0]
  /\ wm = [c \in Seats |-> 0]
  /\ ring = [c \in Seats |-> IdleRings]
  /\ waitc = [c \in Seats |-> 0]
  /\ dropped = [c \in Seats |-> FALSE]
  /\ why = [c \in Seats |-> 0]
  /\ up = [c \in Seats |-> <<>>]
  /\ down = [c \in Seats |-> <<StartFrame>>]
  /\ link = [c \in Seats |-> TRUE]
  /\ started = TRUE
  /\ log = [c \in Seats |-> <<>>]
  /\ seen = [c \in Seats |-> Delay - 2]

-----------------------------------------------------------------------------
(* SES_PUMP hands complete frames to SES_ONFRAME one by one.  A console    *)
(* pumps in the lobby loop, in SES_HOLD, once per pass and at the gate.    *)

Pumping(c) == pc[c] \in {"lobby", "held", "pump", "stall"} /\ down[c] # <<>>

\* The watermark a match starts with.
StartWM_late == ToWord(Delay)
StartWM == ToWord(Delay - 1)

\* @@of_start: seat, delay and rings from the START payload, tick 0.
OnStart(c) ==
  /\ Pumping(c)
  /\ Head(down[c]).type = "START"
  /\ down' = [down EXCEPT ![c] = Tail(@)]
  /\ pc' = [pc EXCEPT ![c] = "held"]
  /\ tick' = [tick EXCEPT ![c] = 0]
  /\ wm' = [wm EXCEPT ![c] = StartWM]
  /\ ring' = [ring EXCEPT ![c] = IdleRings]
  /\ seen' = [seen EXCEPT ![c] = Delay - 1]
  /\ UNCHANGED <<waitc, dropped, why, up, link, started, log>>

\* @@of_input: a frame at or behind the watermark is dropped; any other is
\* stored at its tick's cell and becomes the watermark.
OnInput(c) ==
  LET f == Head(down[c]) IN
  /\ Pumping(c)
  /\ f.type = "INPUT"
  /\ down' = [down EXCEPT ![c] = Tail(@)]
  /\ IF Ahead(f.tick, wm[c])
     THEN /\ ring' = [ring EXCEPT ![c][Other(c)][Slot(f.tick)] = f.cap]
          /\ wm' = [wm EXCEPT ![c] = f.tick]
          /\ seen' = [seen EXCEPT ![c] = f.cap]
     ELSE UNCHANGED <<ring, wm, seen>>
  /\ UNCHANGED <<pc, tick, waitc, dropped, why, up, link, started, log>>

\* LS_IDLE_RMT: every ring idle, every watermark pinned T + $4000 ahead.
FarAhead(w) == ToWord(w + WordSize \div 4)

\* @@of_pl: the server saw the peer go.
OnPeerLeft(c) ==
  /\ Pumping(c)
  /\ Head(down[c]).type = "PEER_LEFT"
  /\ down' = [down EXCEPT ![c] = Tail(@)]
  /\ why' = [why EXCEPT ![c] = 1]
  /\ dropped' = [dropped EXCEPT ![c] = TRUE]
  /\ ring' = [ring EXCEPT ![c] = IdleRings]
  /\ wm' = [wm EXCEPT ![c] = FarAhead(tick[c])]
  /\ UNCHANGED <<pc, tick, waitc, up, link, started, history>>

-----------------------------------------------------------------------------
(* One LS_PASS.                                                            *)

\* SES_HOLD has shown the matched screen for its five seconds.
HoldDone(c) ==
  /\ pc[c] = "held"
  /\ pc' = [pc EXCEPT ![c] = "pass"]
  /\ UNCHANGED <<tick, wm, ring, waitc, dropped, why, net, history>>

\* A pass begins.  NET_DROPPED ends the match for good (@@ls_gone parks);
\* otherwise the pass goes on to its pump.
EnterPass(c) ==
  /\ pc[c] = "pass"
  /\ \/ dropped[c] /\ pc' = [pc EXCEPT ![c] = "park"]
     \/ /\ ~dropped[c]
        /\ Len(log[c]) < MaxTicks
        /\ pc' = [pc EXCEPT ![c] = "pump"]
  /\ UNCHANGED <<tick, wm, ring, waitc, dropped, why, net, history>>

\* The tick an input captured during tick T is for.
CaptureTick_wide(w) == w + Delay
CaptureTick(w) == ToWord(w + Delay)

\* Capture the local controller for T + d, store it in our ring, send it.
\* On a dead connection the frame is lost.  On a live one the write is taken
\* to succeed: the code does not look at NET_WRITE's result, and a write that
\* was refused or given up would leave a hole that is not in this model.
Capture(c) ==
  LET w == CaptureTick(tick[c])
      n == Len(log[c]) + Delay IN
  /\ pc[c] = "pump"
  /\ pc' = [pc EXCEPT ![c] = "gate"]
  /\ ring' = [ring EXCEPT ![c][c][Slot(w)] = n]
  /\ up' = IF link[c] THEN [up EXCEPT ![c] = Append(@, InputFrame(w, n))] ELSE up
  /\ UNCHANGED <<tick, wm, waitc, dropped, why, down, link, started, history>>

\* The gate: the peer's watermark has reached our tick.
GateOpen_early(c) == NotBehind(ToWord(wm[c] + 1), tick[c])
GateOpen(c) == NotBehind(wm[c], tick[c])

\* @@ls_stall: go and pump one more round.
Stall(c) ==
  /\ pc[c] = "gate"
  /\ ~dropped[c]
  /\ ~GateOpen(c)
  /\ pc' = [pc EXCEPT ![c] = "stall"]
  /\ UNCHANGED <<tick, wm, ring, waitc, dropped, why, net, history>>

\* The round is over: count it, and at the limit give the peer up.
Round_forever(c) ==
  /\ pc[c] = "stall"
  /\ pc' = [pc EXCEPT ![c] = "gate"]
  /\ UNCHANGED <<tick, wm, ring, waitc, dropped, why, net, history>>
Round(c) ==
  /\ pc[c] = "stall"
  /\ pc' = [pc EXCEPT ![c] = "gate"]
  /\ IF waitc[c] + 1 < Timeout
     THEN /\ waitc' = [waitc EXCEPT ![c] = @ + 1]
          /\ UNCHANGED <<wm, ring, dropped, why>>
     ELSE /\ waitc' = [waitc EXCEPT ![c] = Timeout]
          /\ why' = [why EXCEPT ![c] = 0]
          /\ dropped' = [dropped EXCEPT ![c] = TRUE]
          /\ ring' = [ring EXCEPT ![c] = IdleRings]
          /\ wm' = [wm EXCEPT ![c] = FarAhead(tick[c])]
  /\ UNCHANGED <<tick, net, history>>

\* What LS_VDISPATCH replays for the tick: this tick's cell and, to find
\* edges, the one before it, for both seats.
Replayed_undelayed(c) ==
  [cur  |-> [s \in Seats |->
               ring[c][s][Slot(IF s = c THEN CaptureTick(tick[c]) ELSE tick[c])]],
   prev |-> [s \in Seats |-> ring[c][s][Slot(ToWord(tick[c] - 1))]]]
Replayed(c) ==
  [cur  |-> [s \in Seats |-> ring[c][s][Slot(tick[c])]],
   prev |-> [s \in Seats |-> ring[c][s][Slot(ToWord(tick[c] - 1))]]]

\* @@ls_run: run the tick.  A tick run after the match was dropped (at most
\* one, against idle inputs) belongs to no match and is not logged.
RunTick(c) ==
  /\ pc[c] = "gate"
  /\ dropped[c] \/ GateOpen(c)
  /\ log' = IF dropped[c] THEN log
                          ELSE [log EXCEPT ![c] = Append(@, Replayed(c))]
  /\ tick' = [tick EXCEPT ![c] = ToWord(@ + 1)]
  /\ waitc' = [waitc EXCEPT ![c] = 0]
  /\ pc' = [pc EXCEPT ![c] = "pass"]
  /\ UNCHANGED <<wm, ring, dropped, why, net, seen>>

-----------------------------------------------------------------------------
(* The relay, and what can fail.                                           *)

\* The relay reads a frame and fans it out to the other member of a started
\* room; outside one, or to a dead connection, it goes nowhere.
Relay(c) ==
  /\ up[c] # <<>>
  /\ up' = [up EXCEPT ![c] = Tail(@)]
  /\ down' = IF started /\ link[Other(c)]
             THEN [down EXCEPT ![Other(c)] = Append(@, Head(up[c]))]
             ELSE down
  /\ UNCHANGED <<console, link, started, history>>

\* The relay reads end-of-file: the room dissolves and the peer is told.
ServerDrop(c) ==
  /\ ~link[c]
  /\ up[c] = <<>>
  /\ started
  /\ started' = FALSE
  /\ down' = IF link[Other(c)]
             THEN [down EXCEPT ![Other(c)] = Append(@, LeftFrame)]
             ELSE down
  /\ UNCHANGED <<console, up, link, history>>

\* The connection breaks; the console plays on.
Disconnect(c) ==
  /\ c \in Faulty
  /\ link[c]
  /\ link' = [link EXCEPT ![c] = FALSE]
  /\ UNCHANGED <<console, up, down, started, history>>

\* What a broken connection still had in flight may be lost, last bytes
\* first.
LoseTail(c) ==
  /\ ~link[c]
  /\ \/ /\ up[c] # <<>>
        /\ up' = [up EXCEPT ![c] = SubSeq(@, 1, Len(@) - 1)]
        /\ UNCHANGED down
     \/ /\ down[c] # <<>>
        /\ down' = [down EXCEPT ![c] = SubSeq(@, 1, Len(@) - 1)]
        /\ UNCHANGED up
  /\ UNCHANGED <<console, link, started, history>>

\* The console is switched off and the server hears nothing of it.
PowerOff(c) ==
  /\ c \in Faulty
  /\ pc[c] # "off"
  /\ pc' = [pc EXCEPT ![c] = "off"]
  /\ UNCHANGED <<tick, wm, ring, waitc, dropped, why, net, history>>

-----------------------------------------------------------------------------
Console(c) == \/ OnStart(c) \/ OnInput(c) \/ OnPeerLeft(c)
              \/ HoldDone(c) \/ EnterPass(c) \/ Capture(c)
              \/ Stall(c) \/ Round(c) \/ RunTick(c)
Server(c) == Relay(c) \/ ServerDrop(c)
Fault(c) == Disconnect(c) \/ LoseTail(c) \/ PowerOff(c)

Next == \E c \in Seats : Console(c) \/ Server(c) \/ Fault(c)

Spec == Init /\ [][Next]_vars

(***************************************************************************)
(* A console's EXEC loop never stops calling MASTER_TICK, its gate loop    *)
(* never stops counting rounds and its lobby loop pumps until START        *)
(* arrives: each of these steps is weakly fair, on a console that does not *)
(* fail.  Nothing is assumed of the relay or of the other console, and a   *)
(* round need not find a frame waiting.                                    *)
(***************************************************************************)
Fairness ==
  \A c \in Seats \ Faulty :
    /\ WF_vars(OnStart(c)) /\ WF_vars(HoldDone(c)) /\ WF_vars(EnterPass(c))
    /\ WF_vars(Capture(c)) /\ WF_vars(Stall(c)) /\ WF_vars(Round(c))
    /\ WF_vars(RunTick(c))

FairSpec == Spec /\ Fairness

-----------------------------------------------------------------------------
(* Properties.                                                             *)

(***************************************************************************)
(* The reason for lockstep: whatever the interleaving, the wrap of the     *)
(* tick, the speed of the two consoles and the moment a link breaks or a   *)
(* console dies, they never run the same tick with different inputs.       *)
(***************************************************************************)
InputAgreement ==
  \A n \in 1..MaxTicks :
    (n <= Len(log[0]) /\ n <= Len(log[1])) => log[0][n] = log[1][n]

(***************************************************************************)
(* The engine implements the shared match of module SharedMatch, with a    *)
(* lead of d + 1 ticks.                                                    *)
(***************************************************************************)
Match == INSTANCE SharedMatch WITH Lead <- Delay + 1
ImplementsSharedMatch == Match!Spec

(***************************************************************************)
(* Every tick is run with the very capture each seat made for it (and      *)
(* idle cells for the first d ticks): no cell is read before it is written *)
(* and none is overwritten, by a frame a whole ring page later, while it   *)
(* is still to be read.  (No frame is lost on a link that stays up.)       *)
(***************************************************************************)
RightInputs ==
  \A c \in Seats : \A n \in 1..Len(log[c]) : \A s \in Seats :
    /\ log[c][n].cur[s] = Expected(n - 1)
    /\ log[c][n].prev[s] = Expected(n - 2)

(***************************************************************************)
(* "The sim advances at the slowest console's pace": a console is never    *)
(* more than d + 1 ticks past the other.                                   *)
(***************************************************************************)
BoundedDrift ==
  \A c \in Seats : Len(log[c]) <= Len(log[Other(c)]) + Delay + 1

(***************************************************************************)
(* Nobody waits on everybody: when both gates are shut, the frame that     *)
(* opens one of them is still on its way.                                  *)
(***************************************************************************)
Starved(c) == pc[c] \in {"gate", "stall"} /\ ~dropped[c] /\ ~GateOpen(c)
NoMutualStall ==
  (started /\ \A c \in Seats : link[c] /\ Starved(c))
    => \E c \in Seats : up[c] # <<>> \/ down[c] # <<>>

(***************************************************************************)
(* When a console or its connection dies, the survivor does not sit at the *)
(* gate for ever: it plays out its bound or reaches the peer-left screen.  *)
(***************************************************************************)
Finished(c) == \/ pc[c] = "park"
               \/ pc[c] = "pass" /\ ~dropped[c] /\ Len(log[c]) = MaxTicks
SurvivorEnds ==
  \A c \in Seats \ Faulty :
    (pc[Other(c)] = "off" \/ ~link[Other(c)]) ~> Finished(c)
=============================================================================
