------------------------------- MODULE Resync -------------------------------
(***************************************************************************)
(* Desync detection and recovery (src/netcode/resync.asm with the passes   *)
(* of lockstep.asm and the pump of session.asm that drive it).             *)
(*                                                                         *)
(* Both consoles exchange a checksum of their game state every CrcEvery    *)
(* ticks.  On a mismatch the host, at a quiet moment, pushes its whole     *)
(* state: BEGIN with a resume tick R, the image in chunks, END.  The host  *)
(* rebases to R as it has sent END, the guest when it has received it;     *)
(* inputs, checksums and requests of the old timeline are still under way. *)
(*                                                                         *)
(* A game state is the name of the state the console last got from a push  *)
(* or a glitch, with the ticks it has run since.  Ticks are natural        *)
(* numbers: their wrap, and the ring's size, are module Lockstep's.  The   *)
(* two queues of a direction, to the relay and from it, are one; bytes are *)
(* counted in units of the shortest frame.                                 *)
(*                                                                         *)
(* The game's own code is outside the model.  What it may do to the state  *)
(* behind the engine's back is a glitch: in a tick that goes wrong on one  *)
(* console, and in a held pass, which returns to $17D5 like any other, so  *)
(* that the native timer slots run over the chunks applied so far.         *)
(***************************************************************************)
EXTENDS Integers, Sequences, FiniteSets

CONSTANTS
  Delay,        \* NET_DELAY
  Lead,         \* how far R is past the host's tick (16)
  CrcEvery,     \* ticks between two checksums (64)
  CrcSlots,     \* records of OWN_CRC in use (4: the low byte of a tick has no more)
  PendMax,      \* RS_PEND_MAX: ticks to wait for a quiet moment
  NChunks,      \* chunks of the image
  ChunkSize,    \* units of a full chunk's frame (100 bytes)
  ReadMax,      \* units SES_PUMP reads at most (64 bytes)
  MaxTick,      \* bound: the tick play stops at
  MaxGlitches,  \* bound: divergences of the game itself
  Mortal        \* may the host die?

ASSUME ResyncAssumption ==
  /\ {Delay, Lead, CrcEvery, CrcSlots, PendMax, NChunks, ChunkSize, ReadMax} \subseteq Nat \ {0}
  /\ NChunks > 1
  /\ ReadMax <= ChunkSize
  /\ Lead > Delay
  /\ {MaxTick, MaxGlitches} \subseteq Nat
  /\ Mortal \in BOOLEAN

Host == 0
Guest == 1
Seats == {Host, Guest}
Peer(c) == 1 - c

Idle == <<0, 0>>                     \* an idle ring cell
Capture(e, n) == <<e + 1, n>>        \* captured in timeline e for tick n
Garbage == -1                        \* a state no console should ever be in

Frame(type, n, val) == [type |-> type, tick |-> n, val |-> val]

\* 769 bytes in chunks of 96: the last one is short.
Size_unit(f) == 1
Size(f) == IF f.type = "CHUNK" /\ f.tick < NChunks THEN ChunkSize ELSE 1
Units(q) == {u \in (1..Len(q)) \X (1..ChunkSize) : u[2] <= Size(q[u[1]])}

NoRecord == [tick |-> -1, crc |-> 0]
NoRecords == [i \in 0..(CrcSlots - 1) |-> NoRecord]
NoCells == [s \in Seats |-> [n \in 0..(MaxTick + Lead + Delay) |-> Idle]]

VARIABLES
  pc,       \* where the console is in LS_PASS
  tick,     \* TICK_LO/HI
  wm,       \* SEAT_WM of the peer
  cells,    \* SEAT_RING/SEAT_KP of both seats
  hold,     \* RESYNC_HOLD
  resume,   \* RS_R_LO/HI
  pend,     \* RS_PEND
  ptmo,     \* RS_PTMO
  rec,      \* OWN_CRC
  dropped,  \* NET_DROPPED
  chan,     \* frames on their way to a console
  buf,      \* units of chan that are in the console's RXACC
  read,     \* SES_PUMP has done its read
  line,     \* history: the timeline a console is in, counted in rebases
  base,     \* history: the name of the state it last got
  log,      \* history: the inputs of the ticks it has run since
  applied,  \* history: chunks the guest has written over its state
  spoiled,  \* history: the guest has run a tick on a half-written state
  touched,  \* history: the game's native slots have run over applied chunks
  glitches, \* history
  pushes    \* history

engine == <<tick, wm, cells, line, log>>
recovery == <<hold, resume, pend, ptmo, rec>>
image == <<base, applied, spoiled, touched, glitches, pushes>>
wire == <<chan, buf, read>>
vars == <<pc, engine, recovery, dropped, wire, image>>

TypeOK ==
  /\ pc \in [Seats -> {"pass", "pump", "gate", "stall", "after", "hold", "park", "off"}]
  /\ tick \in [Seats -> Nat]
  /\ wm \in [Seats -> Nat]
  /\ \A c, s \in Seats : DOMAIN cells[c][s] = 0..(MaxTick + Lead + Delay)
  /\ hold \in [Seats -> BOOLEAN]
  /\ resume \in [Seats -> Nat]
  /\ pend \in [Seats -> BOOLEAN]
  /\ ptmo \in [Seats -> 0..(PendMax - 1)]
  /\ \A c \in Seats : DOMAIN rec[c] = 0..(CrcSlots - 1)
  /\ dropped \in [Seats -> BOOLEAN]
  /\ \A c \in Seats : buf[c] \in 0..(ReadMax + ChunkSize - 1)
  /\ read \in [Seats -> BOOLEAN]
  /\ applied \in 0..NChunks
  /\ spoiled \in BOOLEAN
  /\ touched \in BOOLEAN

\* A match has been going on for a while: both consoles are about to run
\* tick 0 with d idle cells in hand.
Init ==
  /\ pc = [c \in Seats |-> "pass"]
  /\ tick = [c \in Seats |-> 0]
  /\ wm = [c \in Seats |-> Delay - 1]
  /\ cells = [c \in Seats |-> NoCells]
  /\ hold = [c \in Seats |-> FALSE]
  /\ resume = [c \in Seats |-> 0]
  /\ pend = [c \in Seats |-> FALSE]
  /\ ptmo = [c \in Seats |-> 0]
  /\ rec = [c \in Seats |-> NoRecords]
  /\ dropped = [c \in Seats |-> FALSE]
  /\ chan = [c \in Seats |-> <<>>]
  /\ buf = [c \in Seats |-> 0]
  /\ read = [c \in Seats |-> FALSE]
  /\ line = [c \in Seats |-> 0]
  /\ base = [c \in Seats |-> 0]
  /\ log = [c \in Seats |-> <<>>]
  /\ applied = 0
  /\ spoiled = FALSE
  /\ touched = FALSE
  /\ glitches = 0
  /\ pushes = 0

Fresh == glitches + pushes + 1       \* a state no console has been in

Send(c, frames) == [chan EXCEPT ![Peer(c)] = @ \o frames]

-----------------------------------------------------------------------------
(* SES_PUMP: one bounded read, then every complete frame is handled.       *)

Waiting(q) == Cardinality(Units(q))

Read(c) ==
  /\ pc[c] \in {"pump", "stall", "hold"}
  /\ ~read[c]
  /\ read' = [read EXCEPT ![c] = TRUE]
  /\ \E n \in 0..ReadMax :
       /\ buf[c] + n <= Waiting(chan[c])
       /\ buf' = [buf EXCEPT ![c] = @ + n]
  /\ UNCHANGED <<pc, engine, recovery, dropped, chan, image>>

Complete(c) == chan[c] # <<>> /\ Size(Head(chan[c])) <= buf[c]

\* The next frame is taken out of RXACC; out are the frames its handler sends.
Take(c, type, out) ==
  /\ pc[c] # "off"
  /\ read[c]
  /\ Complete(c)
  /\ Head(chan[c]).type = type
  /\ buf' = [buf EXCEPT ![c] = @ - Size(Head(chan[c]))]
  /\ chan' = [chan EXCEPT ![c] = Tail(@), ![Peer(c)] = @ \o out]
  /\ UNCHANGED <<pc, read>>

\* The pump is over.
Pumped(c) == read[c] /\ ~Complete(c)
DonePumping(c, next) ==
  /\ Pumped(c)
  /\ pc' = [pc EXCEPT ![c] = next]
  /\ read' = [read EXCEPT ![c] = FALSE]

-----------------------------------------------------------------------------
(* The handlers of SES_ONFRAME.                                            *)

OnInput(c) ==
  LET f == Head(chan[c]) IN
  /\ Take(c, "INPUT", <<>>)
  /\ IF f.tick > wm[c]
     THEN /\ cells' = [cells EXCEPT ![c][Peer(c)][f.tick] = f.val]
          /\ wm' = [wm EXCEPT ![c] = f.tick]
     ELSE UNCHANGED <<cells, wm>>
  /\ UNCHANGED <<tick, line, log, recovery, dropped, image>>

CrcSlot(n) == (n \div CrcEvery) % CrcSlots

\* RS_ON_CRC: the frame disagrees with our record of that very tick.
Disagrees_unrecorded(c, f) ==
  rec[c][CrcSlot(f.tick)] # [tick |-> f.tick, crc |-> f.val]
Disagrees(c, f) ==
  /\ rec[c][CrcSlot(f.tick)].tick = f.tick
  /\ rec[c][CrcSlot(f.tick)].crc # f.val

\* The host remembers; the guest remembers and asks.
Asks_never(c) == FALSE
Asks(c) == c = Guest
OnCrc(c) ==
  LET f == Head(chan[c])
      bad == ~hold[c] /\ ~pend[c] /\ Disagrees(c, f) IN
  /\ Take(c, "CRC", IF bad /\ Asks(c) THEN <<Frame("RESYNC", f.tick, 0)>> ELSE <<>>)
  /\ pend' = [pend EXCEPT ![c] = @ \/ bad]
  /\ ptmo' = [ptmo EXCEPT ![c] = IF bad THEN 0 ELSE @]
  /\ UNCHANGED <<engine, hold, resume, rec, dropped, image>>

\* RS_ON_REQ, on the host.
OnReq(c) ==
  LET new == c = Host /\ ~hold[c] /\ ~pend[c] IN
  /\ Take(c, "RESYNC", <<>>)
  /\ pend' = [pend EXCEPT ![c] = @ \/ new]
  /\ ptmo' = [ptmo EXCEPT ![c] = IF new THEN 0 ELSE @]
  /\ UNCHANGED <<engine, hold, resume, rec, dropped, image>>

\* RS_CLR_CRC: the records of the old timeline are worth nothing.
Cleared(c) == NoRecords

\* RS_ON_STATE, BEGIN: RS_ENTER_HOLD and the resume tick.
OnBegin(c) ==
  /\ Take(c, "BEGIN", <<>>)
  /\ hold' = [hold EXCEPT ![c] = TRUE]
  /\ resume' = [resume EXCEPT ![c] = Head(chan[c]).tick]
  /\ rec' = [rec EXCEPT ![c] = Cleared(c)]
  /\ applied' = 0
  /\ spoiled' = FALSE
  /\ touched' = FALSE
  /\ UNCHANGED <<engine, pend, ptmo, dropped, base, glitches, pushes>>

\* RS_ON_STATE, a chunk: written over the live state, inside a hold only.
OnChunk(c) ==
  /\ Take(c, "CHUNK", <<>>)
  /\ applied' = IF hold[c] THEN applied + 1 ELSE applied
  /\ UNCHANGED <<engine, recovery, dropped, base, spoiled, touched, glitches, pushes>>

\* RS_REBASE to tick r: idle rings, the d idle inputs from r on counted as
\* received, and no resync pending any more.
RebasedWM_short(r) == r - 1
RebasedWM(r) == r + Delay - 1
Satisfied_not(c) == pend[c]
Satisfied(c) == FALSE
Rebase(c, r, state) ==
  /\ tick' = [tick EXCEPT ![c] = r]
  /\ wm' = [wm EXCEPT ![c] = RebasedWM(r)]
  /\ cells' = [cells EXCEPT ![c] = NoCells]
  /\ line' = [line EXCEPT ![c] = @ + 1]
  /\ log' = [log EXCEPT ![c] = <<>>]
  /\ base' = [base EXCEPT ![c] = state]
  /\ hold' = [hold EXCEPT ![c] = FALSE]
  /\ pend' = [pend EXCEPT ![c] = Satisfied(c)]
  /\ ptmo' = [ptmo EXCEPT ![c] = 0]
  /\ rec' = [rec EXCEPT ![c] = Cleared(c)]

\* RS_ON_STATE, END: nothing counts the chunks.
OnEnd(c) ==
  LET whole == applied = NChunks /\ ~spoiled IN
  /\ Take(c, "END", <<>>)
  /\ IF hold[c]
     THEN Rebase(c, resume[c], IF whole THEN Head(chan[c]).val ELSE Garbage)
     ELSE UNCHANGED <<engine, hold, pend, ptmo, rec, base>>
  /\ applied' = 0
  /\ spoiled' = FALSE
  /\ UNCHANGED <<resume, dropped, touched, glitches, pushes>>

\* The match is over for this console: LS_IDLE_RMT.
GiveUp(c) ==
  /\ dropped' = [dropped EXCEPT ![c] = TRUE]
  /\ cells' = [cells EXCEPT ![c] = NoCells]
  /\ wm' = [wm EXCEPT ![c] = tick[c] + MaxTick]

\* PEER_LEFT.
OnLeft(c) ==
  /\ Take(c, "LEFT", <<>>)
  /\ GiveUp(c)
  /\ UNCHANGED <<tick, line, log, recovery, image>>

-----------------------------------------------------------------------------
(* LS_PASS.                                                                *)

\* A pass begins: a dropped match is over, a hold only pumps.
EnterPass(c) ==
  /\ pc[c] = "pass"
  /\ \/ dropped[c] /\ pc' = [pc EXCEPT ![c] = "park"]
     \/ ~dropped[c] /\ hold[c] /\ pc' = [pc EXCEPT ![c] = "hold"]
     \/ /\ ~dropped[c] /\ ~hold[c] /\ tick[c] < MaxTick
        /\ pc' = [pc EXCEPT ![c] = "pump"]
  /\ UNCHANGED <<engine, recovery, dropped, wire, image>>

\* The hold's pump is over; LS_PASS returns and the native slots run.  What
\* they wrote over chunks that had been applied stays in the state that END
\* resumes from, and may make it another state than the host's.
HoldPass(c) ==
  /\ pc[c] = "hold"
  /\ DonePumping(c, "pass")
  /\ touched' = (c = Guest /\ hold[c] /\ applied > 0)
  /\ \E glitch \in BOOLEAN :
       /\ glitch => c = Guest /\ touched /\ ~hold[c]
       /\ glitches' = IF glitch THEN glitches + 1 ELSE glitches
       /\ base' = IF glitch THEN [base EXCEPT ![c] = Fresh] ELSE base
       /\ log' = IF glitch THEN [log EXCEPT ![c] = <<>>] ELSE log
  /\ UNCHANGED <<tick, wm, cells, line, recovery, dropped, chan, buf, applied, spoiled,
                 pushes>>

\* The peer is gone and everything it sent has been pumped.  (The timeouts
\* are many times longer than a push takes, so they do not fire before.)
Silent(c) == pc[Peer(c)] = "off" /\ chan[c] = <<>>

\* RS_HOLD_TMO: the peer vanished in the middle of its push.
HoldTimeout_never(c) == FALSE
HoldTimeout(c) ==
  /\ pc[c] = "hold"
  /\ Silent(c)
  /\ DonePumping(c, "pass")
  /\ GiveUp(c)
  /\ hold' = [hold EXCEPT ![c] = FALSE]
  /\ UNCHANGED <<tick, line, log, resume, pend, ptmo, rec, chan, buf, image>>

\* The pass's pump is over: capture the controller for T + d and send it.
CaptureInput(c) ==
  LET n == tick[c] + Delay
      cap == Capture(line[c], n) IN
  /\ pc[c] = "pump"
  /\ DonePumping(c, "gate")
  /\ cells' = [cells EXCEPT ![c][c][n] = cap]
  /\ chan' = Send(c, <<Frame("INPUT", n, cap)>>)
  /\ UNCHANGED <<tick, wm, line, log, recovery, dropped, buf, image>>

Stall(c) ==
  /\ pc[c] = "gate"
  /\ ~dropped[c]
  /\ wm[c] < tick[c]
  /\ pc' = [pc EXCEPT ![c] = "stall"]
  /\ UNCHANGED <<engine, recovery, dropped, wire, image>>

Round(c) ==
  /\ pc[c] = "stall"
  /\ DonePumping(c, "gate")
  /\ UNCHANGED <<engine, recovery, dropped, chan, buf, image>>

\* LS_TIMEOUT: the peer vanished.
GateTimeout(c) ==
  /\ pc[c] = "stall"
  /\ Silent(c)
  /\ DonePumping(c, "gate")
  /\ GiveUp(c)
  /\ UNCHANGED <<tick, line, log, recovery, chan, buf, image>>

\* The tick is run, and every CrcEvery ticks its checksum recorded and sent.
\* It may go wrong (glitch): that is what the checksums are for.
RunTick(c) ==
  LET n == tick[c]
      inputs == [s \in Seats |-> cells[c][s][n]] IN
  /\ pc[c] = "gate"
  /\ dropped[c] \/ wm[c] >= n
  /\ \E glitch \in BOOLEAN :
       LET state == IF glitch THEN Fresh ELSE base[c]
           due == n % CrcEvery = 0 IN
       /\ glitch => glitches < MaxGlitches
       /\ glitches' = IF glitch THEN glitches + 1 ELSE glitches
       /\ base' = [base EXCEPT ![c] = state]
       /\ log' = CASE dropped[c] -> log
                   [] ~dropped[c] /\ glitch -> [log EXCEPT ![c] = <<>>]
                   [] OTHER -> [log EXCEPT ![c] = Append(@, inputs)]
       /\ rec' = IF due THEN [rec EXCEPT ![c][CrcSlot(n)] = [tick |-> n, crc |-> state]]
                        ELSE rec
       /\ chan' = IF due THEN Send(c, <<Frame("CRC", n, state)>>) ELSE chan
  /\ spoiled' = (spoiled \/ (c = Guest /\ hold[c] /\ applied > 0))
  /\ tick' = [tick EXCEPT ![c] = n + 1]
  /\ pc' = [pc EXCEPT ![c] = "after"]
  /\ UNCHANGED <<wm, cells, line, hold, resume, pend, ptmo, dropped, buf, read,
                 applied, touched, pushes>>

\* RS_PUSH: BEGIN, the image, END, and rebase at once.
ResumeTick_near(n) == n + Lead - 1
ResumeTick(n) == n + Lead
Push(c) ==
  LET r == ResumeTick(tick[c]) IN
  /\ Rebase(c, r, Fresh)
  /\ resume' = [resume EXCEPT ![c] = r]
  /\ chan' = Send(c, <<Frame("BEGIN", r, 0)>>
                       \o [i \in 1..NChunks |-> Frame("CHUNK", i, 0)]
                       \o <<Frame("END", 0, Fresh)>>)
  /\ pushes' = pushes + 1

\* RS_PENDING, at the end of the pass: a wanted push waits for a quiet
\* moment, but not for ever.
MayWait_longer(c) == ptmo[c] < PendMax
MayWait(c) == ptmo[c] + 1 < PendMax
Wanted(c) == c = Host /\ pend[c] /\ ~hold[c]
Pending(c) ==
  /\ pc[c] = "after"
  /\ pc' = [pc EXCEPT ![c] = "pass"]
  /\ \/ /\ ~Wanted(c)
        /\ UNCHANGED <<engine, recovery, base, pushes, chan>>
     \/ /\ Wanted(c)
        /\ MayWait(c)
        /\ ptmo' = [ptmo EXCEPT ![c] = @ + 1]
        /\ UNCHANGED <<engine, hold, resume, pend, rec, base, pushes, chan>>
     \/ /\ Wanted(c)
        /\ Push(c)
  /\ UNCHANGED <<dropped, buf, read, applied, spoiled, touched, glitches>>

-----------------------------------------------------------------------------
\* The host dies, in the middle of a push perhaps: any tail of what it had
\* under way is lost, and the server may or may not notice.
HostDies ==
  /\ Mortal
  /\ pc[Host] # "off"
  /\ pc' = [pc EXCEPT ![Host] = "off"]
  /\ \E n \in 0..Len(chan[Guest]) : \E bye \in {<<>>, <<Frame("LEFT", 0, 0)>>} :
       LET kept == SubSeq(chan[Guest], 1, n) IN
       /\ Waiting(kept) >= buf[Guest]
       /\ chan' = [chan EXCEPT ![Guest] = kept \o bye]
  /\ UNCHANGED <<engine, recovery, dropped, buf, read, image>>

-----------------------------------------------------------------------------
Handle(c) == \/ OnInput(c) \/ OnCrc(c) \/ OnReq(c)
             \/ OnBegin(c) \/ OnChunk(c) \/ OnEnd(c) \/ OnLeft(c)
Pass(c) == \/ EnterPass(c) \/ HoldPass(c) \/ CaptureInput(c)
           \/ Stall(c) \/ Round(c) \/ RunTick(c) \/ Pending(c)
Timeouts(c) == HoldTimeout(c) \/ GateTimeout(c)

Next == HostDies \/ \E c \in Seats : Read(c) \/ Handle(c) \/ Pass(c) \/ Timeouts(c)

Spec == Init /\ [][Next]_vars

(***************************************************************************)
(* The guest keeps running passes and rounds; bytes that wait for it are   *)
(* read in the end; a timeout fires if nothing else happens.  Nothing is   *)
(* assumed of the host.                                                    *)
(***************************************************************************)
ReadSome(c) == Read(c) /\ buf'[c] > buf[c]
Fairness ==
  /\ WF_vars(Handle(Guest)) /\ WF_vars(Pass(Guest)) /\ WF_vars(Read(Guest))
  /\ SF_vars(ReadSome(Guest)) /\ SF_vars(Timeouts(Guest))

FairSpec == Spec /\ Fairness

-----------------------------------------------------------------------------
(* Properties.                                                             *)

(***************************************************************************)
(* Two consoles that started from the same state, at the match's start or  *)
(* at a resync, have run the same ticks with the same inputs: no input of  *)
(* the old timeline, however late, gets into the new one, and no tick of   *)
(* the new one is run without the input that belongs to it.                *)
(***************************************************************************)
SameStory ==
  base[Host] = base[Guest] =>
    \A i \in 1..Len(log[Host]) :
      i <= Len(log[Guest]) => log[Host][i] = log[Guest][i]

(***************************************************************************)
(* Every chunk of the image is there at END, and the engine has run no     *)
(* tick between the first of them and END, although BEGIN may come in the  *)
(* pump of a pass that goes on to run one.  (What the native slots do to   *)
(* the chunks in held passes is ResumesAlike's.)                           *)
(***************************************************************************)
WholeImage == \A c \in Seats : base[c] # Garbage

(***************************************************************************)
(* No divergence goes unnoticed: when both consoles hold records of a tick *)
(* that disagree and both reports have been read, the recovery is wanted,  *)
(* asked for or under way.  Nor does the guest, which looks at no more     *)
(* checksums once it has asked, wait for a push that will not come.        *)
(***************************************************************************)
Types(q) == {q[i].type : i \in DOMAIN q}
Recovering ==
  \/ pend[Host]
  \/ "RESYNC" \in Types(chan[Host])
  \/ "END" \in Types(chan[Guest])
Unreported(n) ==
  \E c \in Seats : \E i \in DOMAIN chan[c] :
    chan[c][i].type = "CRC" /\ chan[c][i].tick = n
NoticedDivergence ==
  pc[Host] # "off" =>
    /\ \A i \in 0..(CrcSlots - 1) :
         LET h == rec[Host][i]
             g == rec[Guest][i] IN
         (h.tick # -1 /\ h.tick = g.tick /\ h.crc # g.crc /\ ~Unreported(h.tick))
           => Recovering
    /\ pend[Guest] => Recovering

(***************************************************************************)
(* No resync storm: a divergence costs two pushes at most (a second one    *)
(* when the guest's request crosses the host's own push), since nothing    *)
(* left over from the old timeline looks like a divergence in the new one. *)
(* (A push whose image the native slots spoil is a divergence again.)      *)
(***************************************************************************)
PushesBounded == pushes <= 2 * glitches

(***************************************************************************)
(* "The sim is frozen during HOLD exactly like a network stall [...] so    *)
(* the pushed snapshot is stable and both sides resume from identical      *)
(* state": before either console has run a tick of a new timeline, they    *)
(* are in the same state.  It does not hold: the sim's native slots run in *)
(* every held pass.                                                        *)
(***************************************************************************)
ResumesAlike ==
  (line[Host] = line[Guest] /\ line[Host] > 0 /\ \A c \in Seats : tick[c] = resume[c])
    => base[Host] = base[Guest]

(***************************************************************************)
(* A hold ends, by END or, if the host died in the middle of its push, by  *)
(* the hold's own timeout or the server's goodbye.                         *)
(***************************************************************************)
HoldEnds == hold[Guest] ~> (~hold[Guest] \/ dropped[Guest])
=============================================================================
