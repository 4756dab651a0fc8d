# Verification of FujiNet Boxing netplay

The repository turns Mattel's *Boxing* for the Intellivision into a netplay
game. Two consoles run the cartridge with a patched timer hook, exchange
controller inputs through a relay server and advance in lockstep. This
directory holds TLA+ modules of the parts that carry the logic, the TLC
configurations that check them on small instances, and TLAPS proofs.

Paths below are relative to the repository; `netcode/` is `src/netcode/`,
`server.py` is `server/intv_relay_server.py`, `intv-relay.c` and `lobby.c` are
under `server/c/src/`; the protocol gate is `tools/bbnet_client_sim.py`, the
differential `tools/server_diff.py`.

## The system

| Part | State | Operations | Talks to |
|---|---|---|---|
| Lockstep engine, `netcode/lockstep.asm` | tick, a ring page per seat, a watermark per remote seat, gate counter, dropped flag | `LS_PASS`: pump, capture for T+d, send, gate, stall, run tick, checksum | session pump, resync, mailbox |
| Resync, `netcode/resync.asm` | checksum records, pending flag, hold flag, resume tick | record, compare, request, push, apply, rebase | engine, pump |
| Session, `netcode/session.asm` | receive ring, lobby cache, room roster, menu | `SES_MAIN` (connect, HELLO, lobby loop), `SES_PUMP`, `SES_ONFRAME` | mailbox, engine, screen |
| Mailbox, `netcode/mailbox.asm` | request sequence, status cells | open, status, read, write, close | FujiNet peripheral |
| Virtual dispatch, `src/vdispatch.asm` | current and previous cell, handler table | replay a seat's cell to the game's handlers | engine, game code |
| Timer hook, `src/hook.asm` | native countdowns and their mirrors | master tick, arm and stop shims, rebase hook | EXEC, resync |
| Relay, `server.py` and its C port `intv-relay.c` | clients, names, rooms, backlogs, checksum log | accept, HELLO, LIST, JOIN, GO, fan-out, drop | consoles, publisher |
| Event loop of either relay | sockets, backlogs, slots and generations, events of one batch | select, accept, flush, service, sweep | consoles |
| Protocol gate and differential | a script, its connections, a transcript | connect, send, expect, sync, close, compare | either relay, as a process |
| Lobby publisher, in `server.py` and `lobby.c` | newest count, dirty, stopping, stop event | update, shutdown, worker loop | the FujiNet Lobby over HTTP |

A console's pass and a console's stall both pump the socket, so every handler
of `SES_ONFRAME` can run in the middle of a pass. The relay is one thread, but
its `send` may drop the client it sends to and `drop` sends to others. The
publisher is two threads.

What is hard to test here, and what the properties are about, is listed as
"hazards" in `PROJECT.json`: two free-running consoles with frames under way in
both directions, the wrap of the tick after an hour, frames of an old timeline
arriving in a new one, a push that begins in the middle of a pass, a peer that
dies at the worst moment, a mailbox answer that comes late, lobby frames that
cross each other, sends that fail half-way through a loop, a client slot that
changes hands within one batch of events, frames that leave in pieces, tests
that run at their own speed next to the server they judge, and an update that
races a publisher.

## The modules

| Module | Models | Notes |
|---|---|---|
| `Words` | 16-bit ticks, their wrap-safe comparison, ring slots | word and page size are parameters |
| `Lockstep` | `LS_PASS` of two consoles, the in-match handlers, the relay's fan-out, failures | `pc` is the place in the pass; one action per handler and per stage of a pass |
| `SharedMatch` | what a match promises, with no frames in it | abstract specification |
| `Resync` | the recovery: checksums, request, push, hold, rebase, time-outs | the pump's bounded read is explicit: bytes are counted in units of the shortest frame |
| `Relay` | names, rooms, matches and the cascade of drops, Python and C | calls in progress are an explicit stack |
| `RelayCore` | the relay as a function: one event on a server record, with frames, checksum log and log lines | every send gets through; used by the tests' model |
| `RelayIO` | the event loop of either relay: batches, accept and its limits, backlog and partial sends, sweep | frames are reduced to what they do to sockets |
| `TestScripts` | the gate's and the differential's scenarios as sequences of steps | parameterised by the number of seats |
| `ServerTests` | what a step does, next to the relay's event loop; sync, render, normalize, compare | composes `TestScripts` and `RelayCore` |
| `LobbyPublisher` | worker and main thread of the publisher, Python and C | |
| `Transport` | mailbox transactions, the receive ring, `SES_PUMP`'s parser | the peripheral and TCP are external |
| `Session` | the lobby loop and lobby handlers of `session.asm`, composed with the relay's HELLO, JOIN, GO and drop | rooms of two, as `MAX_SEATS` says |
| `LockstepProofs`, `ResyncProofs`, `ResyncWatchProofs`, `TransportProofs`, `SessionProofs`, `RelayProofs`, `RelayIOProofs`, `LobbyPublisherProofs` | the theorems | each extends the module it is about; `ResyncWatchProofs` continues `ResyncProofs` |
| `MC...` | instances for TLC | |

### Lockstep

An input is named by the tick it was captured for, so a wrong input is always
visible. `tick` and `wm` are words as in the code; the true tick is the length
of the history variable `log`, which records what every tick was run with.
`Pumping` frames may be handled in the lobby loop, in `SES_HOLD`, in the pass's
pump and in a stall. `Round` is one stall round with its counter; the code
gives up when the high byte of the counter reaches `LS_TIMEOUT SHR 8`, that is
after 768 rounds and not the 900 the constant says; the model has one limit
`Timeout`. A connection may break (`Disconnect`), lose what was under way from
the end (`LoseTail`), or a console may be switched off without the server
hearing of it (`PowerOff`). A write on a connection that stands is taken to
succeed. The code does not look at `NET_WRITE`'s result (`lockstep.asm:162`), so
that a write which was refused or given up leaves a hole in the inputs, and the
peer runs that tick with an idle cell: then `InputAgreement` does not hold, and
it is the checksums that must notice (`Resync`'s glitches).

### Resync

`RunTick` may go wrong (`MaxGlitches` times): the console's state then has a
name of its own and its checksums differ from the peer's. A state is its name
with the inputs of the ticks run since (`base`, `log`). `spoiled` remembers
that the engine ran a tick between the first chunk and END.

The engine's ticks are not all that runs. A stall spins inside `LS_PASS`, but a
held pass returns (`lockstep.asm:60`) to `$17D5`, which then runs the native
slots 2 to 5 (`hook.asm:23-33`), the game's code, over the chunks applied so
far. What they write there is not in the repository; that it may survive END
and make the guest's state another one than the host's is: `touched` remembers a
held pass after the first chunk, and the `HoldPass` that finds END taken may
then be a glitch too, not counted against `MaxGlitches`. (Chunks that come later
overwrite what the slots did before; the model lets any such pass leave its
mark.) `WholeImage` is therefore only about chunks and the engine's ticks, and
that both sides resume from the same state is `ResumesAlike`, which fails.

Ticks are natural
numbers (their wrap is `Lockstep`'s subject), the two queues of a direction are
one, and timeouts fire only after everything the dead peer sent has been
pumped: they are many times longer than a push takes. The scaled instance
keeps the code's inequalities, of which the first three are assumptions of the
module: a read is no longer than a full chunk's frame (64 < 100 bytes), the lead
exceeds the delay (16 > d), an image takes more than one chunk; and the checksum
records cover more ticks than the consoles can be apart. The last chunk of an
image is short (769 bytes in chunks of 96), so its frame is one unit.

### Relay

`Drop`, `Send` and the loops are steps of one event, and a new event is taken
only when `stack` is empty. `build`, chosen from `Builds` at the start, says
which server it is: the Python (loops over the live list of members) or the C
port (loops over a snapshot; a check after the drop in `on_hello`), the value of
`--auto-go`, and whether a client with a name may say HELLO again: a console
never does, the servers handle it. `told` is a history variable: the last frame
about its room each console was sent; `ToldTruth` is claimed for the Python only
(see the remarks below) and for up to three seats (the code has two,
`MAX_SEATS`): with four, a member that is dropped by the announcement of an
earlier drop leaves the outer announcement with a stale roster and somebody
left to send it to. The tables are compared between two events only.

### RelayIO

The two relays' loops differ in how they find the client of an event: the
Python by the object the selector hands back, the C port by slot and generation.
A batch holds the events of one select; they are served in any order, writing
before reading for one client, and new connections, frames and hang-ups may
come at any moment in between. `tx` is the backlog and `pipe` what the kernel
has taken (`Window`); a frame has two units, so that a send can cut it. What a
frame means is left to `Relay` and `RelayCore`: here it names its sender,
perhaps at the expense of a client that is dropped, or has something sent to
somebody. `total` and `got` are history variables.

### RelayCore, TestScripts, ServerTests

These model the two programs that test the relays, each with the relay it
tests as a process of its own. A script is a sequence of steps; `pc` is its next
one. The relay's side is the select loop: `ready` is the kernel's ready list,
`batch` what the last select returned; readiness is level-triggered. Waits of
0.15 to 5 seconds are taken to end in vain only when the relay has nothing left
to do (`Idle`). Closing a connection with unread data resets it. `bug` plants
one of `Mistakes` in the relay under test, to see whether the tests notice.
`CrcCap` stands for the 64 ticks of the checksum log.

The model was compared with the tools: for each of the six default scenarios
the number of records in a transcript (frames, ends of file and log lines) is
the one `server_diff.py` prints, less the line "listening on" that the model
has not: roster 39, rooms 25, start 22, drops 52, framing 22, and relay 46 with
`CrcCap` = 4, which is 60 ticks and as many frames short of the real one.

### LobbyPublisher

A critical section is one step. `impl` is chosen at the start and never
changes, so one run covers both implementations. `Wakes` is the set of waits the condition
variable ends: the idle wait, and in C also the debounce. A POST may last any
time: the ten seconds of `urlopen` and of `SO_RCVTIMEO` are for each socket
operation, and name resolution has no limit. So the join of shutdown may time
out (`waited`), and the main thread posts beside the worker. A request that a
thread has given up may be lost or be taken by the Lobby at any later time
(`late`).

### Transport

A transaction is staged, numbered (`WriteSeq`), polled for and answered,
refused or abandoned. The peripheral is not in this repository; it is modelled
from how `mailbox.asm` uses it: it takes a request when SEQ is neither 0 nor
ACKSEQ, answers by setting ACKSEQ to the number it took, may refuse, and
completes a request although the console has walked away. A WRITE's or OPEN's
answer leaves the cells of `FN_RX` as they were. `ring`, `wr` and `rd` are
`RXACC`, `RX_WR`, `RX_RD`; `unread`, `seen`, `garbled`, `writes`, `written` and
`up` are history variables. `clean` is true as long as no transaction of the
session was abandoned: after that the code itself expects lost bytes ("a
timed-out NET_READ can silently swallow bytes"), and only `RingHolds` and
`AllRead` are claimed. A NET_OPEN starts from an empty stream.

### Session

`phase` is where a console is: off, in the lobby loop, in a match
(`NET_ACTIVE`), parked on the peer-left screen. `up` and `down` are the frames
under way. The player list, its LIST and LOBBY frames and the cursor are
abstracted: `known` is what a list on this connection can have held, and ENTER
picks any of it, however old. A send on a broken connection fails; a reset or a
break may come at any moment, also between two frames the relay has not handled
yet. A console reconnects once the relay has seen the end of its old
connection; taking over a name that is still held is `Relay`'s subject. In a
match only seats, names and its end are kept.

## Runs

| Run | Bounds | Shows |
|---|---|---|
| `lockstep` | words of 10, pages of 5, d = 1, 11 ticks, stalls of 2 rounds, one faulty seat, fair | agreement, right inputs, drift, no mutual stall, refinement, and the survivor's match ends; past one wrap of the word and two of the page; the page has exactly the 2d + 3 cells the assumption asks for; a stall counts a round before the one it gives up in |
| `resync_recovery` | d = 1, lead 2, a checksum every 2 ticks, 5 ticks, 1 glitch of a tick and any number in held passes, mortal host, fair | recovery, with room for two pushes and the checksums after them, and a hold ends |
| `resync_hold` | the same with 6 ticks and a host that lives | a disagreement, see below |
| `relay` | 3 clients, 3 names, rooms of 3; Python and C, with `--auto-go 3` and without; repeated HELLOs in C | tables, truthfulness, count; three members are needed for a loop that goes on after a drop |
| `relay_io` | 3 connections from 2 addresses, 2 slots, 2 per address, a backlog of 3 half frames, a window of 1, 3 requests, one client that may hang up, fair | streams, slots, nobody waits; two slots and three connections are what a reuse within a batch takes, and either limit is met; a backlog of 3 is overrun by the third frame |
| `server_tests` | 2 seats, 2 seeds, both tools, no mistake and every mistake they should find | no false alarm of the gate, equal transcripts, nothing overlooked; the scripts are the tools' own, in full |
| `lobby` | 3 counts, both implementations, POSTs of any length, fair | publisher; three counts are an old, a new and a newest one |
| `transport` | bytes of 3 values, ring of 7, reads of 4, frames of 2 and 3 bytes, 3 frames, 2 writes after each reset, 1 fault, 1 reset, fair | ring, frames, writes, progress; the stream is longer than the ring, which is as small as the assumption allows (longest body + read < ring), payload bytes look like headers, and two writes can be swapped |
| `session` | 3 consoles, 1 frame each under way to the relay, 1 fault, fair | screens, seats, nobody left behind; three consoles are needed for JOINs that cross |
| `relay_ghost_name`, `session_back`, `diff_false_alarm` | the instances of `relay` (with 2 names, rooms of 2 and repeated HELLOs), `session` and `server_tests` | disagreements between the code and what it says, see below |

One fault is enough for `session`: several failures in one room are
`relay`'s subject.

Deadlock is not checked where play stops at a bound or a console may be
switched off for good; the relay's runs check it.

### Fairness

A console's EXEC keeps calling the master tick and a stall keeps counting: these
steps are weakly fair. In `lockstep` this is assumed of the console that does
not fail, and of nothing else: neither of the relay nor of any frame after
START, so the survivor is shown to end even if the goodbye never comes. In
`resync_recovery` only the guest is fair; bytes that wait for it are read in the
end, and a timeout that can fire again and again fires. In the publisher, the
threads run, timers expire (the keepalive's deadline is absolute, the join's
time-out is one), and while the relay runs, a request ends and the Lobby is not
down for ever; a request that meets a shutdown may hang for good. In
`transport` the console never stops pumping and the peripheral serves what it
takes; in `session` frames are handled and a stalled match times out. In `relay_io` the loop runs and a client
that has not hung up reads what has come; which event of a batch is served
first is not assumed. Keys,
faults, refusals and resets are never assumed to happen.

### Disagreements found

* `resync_hold`: `resync.asm:10-12` says that the sim is frozen during a hold
  like in a stall, so that both sides resume from identical state. A held pass
  returns to `$17D5`, which runs the native slots over the chunks applied so
  far; the guest may resume in another state. The next checksums find it
  (`NoticedDivergence`), and another push repairs it.
* `relay_ghost_name`: in the Python, `on_hello` enters a client into `by_name`
  that was dropped while the old holder of the name was being dropped.
* `session_back`: a guest whose host goes away between GO and START gets
  PEER_LEFT in the lobby loop, which neither clears `ROOM_CNT` nor shows
  anything: it stays in a waiting room that is gone, and `NET_DROPPED`, never
  cleared, ends its next match at once.
* `diff_false_alarm`: `finish()` of the differential closes its clients back to
  back. The first close makes the relay say goodbye to the next client; whether
  that arrives before the next close decides whether the relay logs "recv error"
  or "closed", so two relays that agree can be told apart. (A pause of 10 ms
  between the closes shows it on the real tools.)

Remarks on the relays without a run: the C port's broadcast loops walk a
snapshot of the members (`intv-relay.c:586`), so that after a drop in the middle
has dissolved the room the stale ROOM or START is the last thing a survivor
hears, although drop() says "all survivors back to the lobby" (`ToldTruth` fails
for "c"); in C an update ends the publisher's one-second debounce
(`lobby.c:320` waits on the condition variable `lobby_update` signals), although
`lobby.h` says "at most once per second", so `OncePerSecond` is claimed for the
Python only; a parked console stays connected and the relay lists it as free,
so one who joins it waits until somebody resets; the C port's guard against the ghost name
(`intv-relay.c`, `on_hello` after the drop) is commented as something that
cannot happen, and the same behaviour reaches it; a POST may outlast the join
that is to "let an in-flight POST finish first" (`server.py:554`), as its
time-outs are per socket operation: then two requests are under way at once,
and an older "online" that arrives after the "offline" leaves a dead server in
the Lobby; the same holds of a request that was given up and arrives after all.
Nothing orders the requests, and no property claims it; `server/c/README.md` describes under "The defect
this fixes" a defect of the Python that `server.py:336-338` no longer has, and
`LS_TIMEOUT` is compared by its high byte only.

Remarks on the tests without a run:

* The gate says that only the host's GO starts a match, but sends the guest's GO
  and the host's back to back (`bbnet_client_sim.py:215-216`) and looks only at
  the STARTs: a relay that obeys the guest passes. The differential finds it.
* With two seats a full room and a started one look the same in a LOBBY entry,
  so item 7b of the gate says nothing that 7a does not.
* With three seats and more, `scenario_full` sends its JOINs without waiting
  (`bbnet_client_sim.py:348`) and then asserts the seats, which depend on the
  order in which the relay reads them.
* Without `--strict` (as `make server-diff` runs it) any difference in scenario
  "framing" is waived as a "known Python defect", which `server.py:336-340` no
  longer has.
* A checksum log that evicts the newest tick instead of the smallest passes
  scenario "relay": either way one of the two ticks completed at the end counts
  as a round, and the fifth round logs nothing.
* `server_diff.py:301` says that a rename "keeps the dict position"; it moves
  the entry to the end, in both relays.
* `soak.py` opens more connections from one address than the relay's limit of
  eight admits; `ghost_peer.py` speaks protocol 1, which this relay refuses.

## Proofs

The eight modules `...Proofs` hold the theorems. They hold for every value of
the constants that satisfies the named assumptions.

* `LockstepProofs`: `TypeCorrect`, `Agreement`, `CapturesReplayed`,
  `DriftBound`, `NeverBothStalled`, `Refinement`, from `WordsAssumption` (a word
  is at least two pages) and `LockstepAssumption` (2d + 3 <= page size). The
  first lemmas are about the machine arithmetic: the comparisons of 16-bit words
  and of slots agree with those of the true ticks as long as these are less than
  a page apart.
  Agreement is far from inductive. The invariant says, per console: the frames
  between the two consoles, in both queues, are the captures of consecutive
  ticks; the watermark is the last one accepted; the peer's ring page holds the
  right cell for every tick from T - 1 up to the watermark, and the own page up
  to the last capture; and neither the log nor the capture can be further from
  the other's than the gate allows. From this no cell is overwritten while it is
  still to be read, which gives `RightInputs`, which gives the rest. Faults
  only shorten queues at the end or stop a console, and a dropped console's
  log no longer grows.
* `ResyncProofs`: `TypeCorrect`, `ImagesWhole` and `SameStories`, from
  `ResyncAssumption`, with a host that may die at any moment. RS_ON_STATE counts
  no chunks, so that a whole image rests on two things. The guest's queue
  (`Pushes`): every BEGIN is followed by the chunks in order and END, up to
  where a dying host's frames were cut off, and no chunk or END is without its
  BEGIN. And an engine that stands still (`Still`): a pass or a stall that goes on
  after BEGIN runs its tick only if the gate is open, and then the pump that
  took BEGIN has not taken a chunk, because the ring held less than a frame
  before it and a read brings no more than a full chunk's frame (`InRing`); if
  the gate is shut it stays shut, as no input comes between BEGIN and END. What
  the native slots do in held passes is not in this theorem: to it they are
  glitches of the state, which the others allow for.
  `SameStories` needs to know the timeline of everything under way, which no
  frame carries: the only thing that keeps an old input out is that LS_ON_INPUT
  drops what lies at or below the watermark. `StoryInv` labels the frames on the
  way to the guest by the timeline it will be in when it takes them, its own
  plus the ENDs before them (`Going`), and bounds the timelines of those to the
  host (`Coming`). An input of a timeline that is over lies at or below the
  watermark the host has set, and to the guest 1 + Delay or more below, because
  a push resumes Lead ahead, Lead > Delay, and RS_REBASE sets the watermark
  Delay - 1 beyond that (`Pace`). Within a timeline the inputs under way are all
  those captured above the receiver's watermark, in order (`Flowing`), so that
  the copy of the peer's inputs is true up to the watermark (`Copies`); the log
  is what the cells say (`Logged`); and consoles whose states have the same name
  started at the same tick of the same timeline (`Names`). If the host dies the
  queue to the guest is cut short and the labels stay. TLC checked `StoryInv`
  with delay 1 on all states of an instance with a mortal host before it was
  proved. The lead's being greater than the delay is an assumption here; in the
  code the lead is 16 and `--delay` is not bounded.
* `ResyncWatchProofs`: `DivergencesNoticed` and `PushesStayBounded`, from the
  same assumption and the two invariants before. They rest on `WatchInv`, which
  follows the checksums along the labels of `StoryInv`. A report is compared
  with the record of its tick, whatever timeline either is of. RS_CLR_CRC
  empties the records at BEGIN and at a rebase, and a push resumes past every
  tick run before, so that a report under way tells what its console has
  recorded, or its tick has no record any more (`Records`, `Reports`). Hence
  whoever reads the second of two reports that disagree sees it, unless a repair
  is already wanted, asked for or under way (`Noticed`), which is
  `DivergencesNoticed`. For the other one, a name is what a console got from a
  push or a glitch, and the ENDs under way give names to the timelines still to
  come. If the guest has the host's name in the host's timeline, or will get it,
  then no record and no report of that timeline tells of another one (`Clean`):
  nobody asks in a timeline that went right. `Budget` counts what can still
  become a push: the requests under way, one for the host if it wants a push or
  its name is not the guest's, and one for each timeline in which the guest may
  still see a difference and has not asked (`Open`). A glitch adds at most one
  of each of the last two, a push uses one up, and nothing else adds any, so
  that pushes are at most twice the glitches. When the host dies no more pushes
  are made. TLC checked `WatchInv` on all states of an instance with delay 1
  before it was proved.
* `TransportProofs`: `RingAlwaysHolds`, from `PathInv`, whatever answers come
  late: between two parses less than a frame is left in the ring, so that a read
  has room. `FramesStayIntact` and `WritesStayIntact`, from `CleanInv`: unless a
  transaction was abandoned, the console and the peripheral are in step, and the
  bytes in the ring, in `FN_RX`, at the peripheral and in the network together
  are a tiling by the frames that were sent. The assumptions are those of the
  ring's size and that a byte has more than two values.
* `SessionProofs`: `ScreensTrue` and `SeatsStayAgreed`. What a console will show
  is decided by the last frame on its way to it, or by its screen when there is
  none; every step of the relay that changes the console's room appends the
  frame that says so.
* `RelayProofs`: `TypeCorrect`, `CountStaysCurrent` and `MatchEndsAtOnce` for
  every build. `DirectorySound`, `RoomsStaySound` and `ConsolesToldTruth` under
  `NoRename`, that consoles of the Python server say HELLO once, as session.asm
  does; `relay_ghost_name` shows what happens otherwise. The tables agree in
  every state and not only between two events (`TablesInv`), because drop()
  takes a client out of all of them before its first send; what a console has
  not been told yet is still owed to it by a loop on the stack.
* `RelayIOProofs`: `StreamsStayIntact` and `EventsServedAsReported`, from
  `LoopInv`: the live connections are exactly those in the slots, each in one; a
  report's generation is never ahead of its slot's, and if they are equal the
  slot is still the reported connection's; what is under way to a client is
  what it was sent and has not read.
* `LobbyPublisherProofs`: `TypeCorrect` and `WakeupsKept` for both
  implementations, `RateLimited` for the Python, with POSTs of any length. The
  invariant ties the place of the worker to the flags it may have left.

Only model-checked: the liveness properties (`SurvivorEnds`, `HoldEnds`,
`SaysGoodbye`, `Published`, `AllRead`, `StartedMeets`, `NobodyWaits`), which the prover does
not handle, and the tests' properties (`GateTrusts`, `Catches`,
`TranscriptsAgree`), which are a matter of fixed scripts and rest on recursive
operators, about which the prover cannot reason. Every other invariant and action
property of the passing runs is a theorem.

## Not modelled

* `IMG_GET`/`IMG_PUT` (the byte layout of an image), press and release edges and
  handler tables of `vdispatch.asm`, the native countdowns and slots of `hook.asm`: what they
  do depends on the game's and the EXEC's code, which is not in the
  repository; that it may change the state is a glitch of `Resync`.
* A write that is refused or given up on a connection that stays up, as far as a
  match goes: see `Lockstep` above.
* The eviction of the relay's checksum log is in `RelayCore`, but no mistake in
  it is planted and both relays share the module: no property would catch one.
* In `RelayIO` a frame names its sender or has something sent to a client with a
  name. Answers to a client without one, frames without effect, and frames that
  cost the sender its connection (BYE, protocol errors) are left out: the same
  run with them does not end in five minutes. `Relay` has the drops.
* `TranscriptsAgree` overlooks "closed" against "recv error" in every log line of
  a drop, and not only in those finish() causes.
* A reset in `Session` always breaks the connection, and a console reconnects
  only after the relay has seen it, although the peripheral is not reset.
* The player list with its cursor and the auto-join of the rigs: `Session`
  covers them by any choice from what a list can have held.
* `--proto 1` of the C port and of the differential: the reference server is in
  another repository.
* Drawing, HUD and traces (nothing reads them), equates and RAM maps (no
  behaviour), statistics of the relay, the command lines.
* Load generators, the tools around ROM images and emulator traces, build steps:
  sequential programs that measure, print or patch, without a state another part
  depends on.
