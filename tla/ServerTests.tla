---------------------------- MODULE ServerTests -----------------------------
(***************************************************************************)
(* The two tests of the relay as processes: a script on one side, the      *)
(* relay's event loop on the other, sockets in between.  The script runs   *)
(* at its own speed; nothing but the frames it waits for, and the moments  *)
(* of silence it waits out, ties it to the server.                         *)
(*                                                                         *)
(* The relay may be a correct one or have one of the Mistakes: a test is   *)
(* judged by both.  Time-outs are abstracted to silence: a wait of 0.15 to *)
(* 5 seconds ends in vain only when the relay has nothing left to do.      *)
(***************************************************************************)
EXTENDS TestScripts

CONSTANTS
  Cases,      \* the tests to run, each with the mistake of the relay it meets
  SeedSet     \* what random.randrange may draw for a match

ASSUME ServerTestsAssumption ==
  /\ Cases \subseteq {"gate", "diff", "strict"} \X Mistakes
  /\ SeedSet # {}

VARIABLES
  tool,     \* the test: the gate, the differential, the latter with --strict
  bug,      \* the mistake of the relay under test (the C port, for "diff")
  pc,       \* the next step of the script
  ok,       \* no assertion failed, no difference was reported
  srv,      \* the relay
  up,       \* per connection: what was sent to the relay and not yet read
  down,     \* per connection: what the relay sent and the test has not read
  open,     \* the connections the test has not closed
  order,    \* the connections in the order they were made
  backlog,  \* connections the relay has not accepted
  ready,    \* the epoll ready list: sockets that may be readable
  batch,    \* what the last select() returned and is not served yet
  record,   \* the transcript of this run, <<connection, frame>>
  other,    \* transcript and log of the Python run, for compare()
  seeds     \* the seeds of the STARTs seen

fixed == <<tool, bug>>
net == <<up, down, open, order, backlog, ready, batch>>
notes == <<record, other, seeds>>
vars == <<fixed, pc, ok, srv, net, notes>>

Script == IF tool = "gate" THEN Gate ELSE Differential
Done == pc > Len(Script)
Step == Script[pc]
Labels == {st.who : st \in {x \in Range(Gate) \cup Range(Differential) : "who" \in DOMAIN x}}

NoFrames == [c \in Labels |-> <<>>]
Listen == "listen"

Init ==
  /\ \E case \in Cases : tool = case[1] /\ bug = case[2]
  /\ pc = 1
  /\ ok = TRUE
  /\ srv = Boot("py", "none", 0)
  /\ up = NoFrames /\ down = NoFrames
  /\ open = {} /\ order = <<>>
  /\ backlog = <<>> /\ ready = <<>> /\ batch = <<>>
  /\ record = <<>> /\ other = [frames |-> <<>>, log |-> <<>>] /\ seeds = {}

-----------------------------------------------------------------------------
(* The relay's event loop.                                                 *)

Readable(x) == IF x = Listen THEN backlog # <<>> ELSE up[x] # <<>>
Wake(list, x) == IF x \in Range(list) THEN list ELSE Append(list, x)

\* The frames of an event go out; the socket of a dropped client goes.
Commit(s, ups, list) ==
  /\ srv' = [s EXCEPT !.sent = <<>>]
  /\ down' = [c \in Labels |->
                IF c \in open
                THEN down[c] \o [i \in DOMAIN SelectSeq(s.sent, LAMBDA m : m[1] = c) |->
                                   SelectSeq(s.sent, LAMBDA m : m[1] = c)[i][2]]
                ELSE down[c]]
  /\ up' = [c \in Labels |-> IF c \in srv.live \ s.live THEN <<>> ELSE ups[c]]
  /\ ready' = SelectSeq(list, LAMBDA x : x \notin srv.live \ s.live)
  /\ UNCHANGED <<fixed, pc, ok, open, order, notes>>

\* select(): every socket that is readable, in the order it became so.  The
\* interest is level-triggered: what was reported stays on the list until a
\* later select() finds it drained.
Kept_edge(now) == <<>>
Kept(now) == now
Select ==
  LET now == SelectSeq(ready, Readable) IN
  /\ batch = <<>>
  /\ ready # <<>>
  /\ batch' = now
  /\ ready' = Kept(now)
  /\ UNCHANGED <<fixed, pc, ok, srv, up, down, open, order, backlog, notes>>

\* The listening socket: one accept for each event.
Accept ==
  LET c == Head(backlog)
      s == AcceptOne(srv, c)
      in == c \in s.live IN
  /\ batch # <<>>
  /\ Head(batch) = Listen
  /\ batch' = Tail(batch)
  /\ backlog' = Tail(backlog)
  /\ Commit(s, IF in THEN up ELSE [up EXCEPT ![c] = <<>>],
            IF in /\ up[c] # <<>> THEN Wake(ready, c) ELSE ready)

\* A client's socket: one recv.  End of file comes after the data.
Arrived(c) == LET data == SelectSeq(up[c], LAMBDA f : f.type \notin {"EOF", "RST"}) IN
              IF data = <<>> THEN up[c] ELSE data
Serve ==
  LET c == Head(batch) IN
  /\ batch # <<>>
  /\ c # Listen
  /\ batch' = Tail(batch)
  /\ UNCHANGED backlog
  /\ IF c \notin srv.live
     THEN UNCHANGED <<fixed, pc, ok, srv, up, down, open, order, ready, notes>>
     ELSE \E seed \in SeedSet :
            Commit(Service(srv, c, Arrived(c), seed),
                   [up EXCEPT ![c] = SubSeq(@, Len(Arrived(c)) + 1, Len(@))], ready)

Server == ~Done /\ (Select \/ Accept \/ Serve)

Idle == ready = <<>> /\ batch = <<>>

-----------------------------------------------------------------------------
(* The script.  Next step, or the end of a test that failed.               *)

Advance == pc' = pc + 1 /\ UNCHANGED ok
Fail == pc' = Len(Script) + 1 /\ ok' = FALSE
Pass(good) == IF good THEN Advance ELSE Fail

At(ops) == ~Done /\ Step.op \in ops

\* start_server(), Ctx(): a new server.  "diff" plants the mistake in the C.
Boots ==
  /\ At({"boot"})
  /\ srv' = Boot(Step.impl, IF tool = "gate" \/ Step.impl = "c" THEN bug ELSE "none", Step.autoGo)
  /\ up' = NoFrames /\ down' = NoFrames
  /\ open' = {} /\ order' = <<>>
  /\ backlog' = <<>> /\ ready' = <<>> /\ batch' = <<>>
  /\ record' = <<>> /\ seeds' = {}
  /\ Advance
  /\ UNCHANGED <<fixed, other>>

Connect ==
  /\ At({"conn"})
  /\ open' = open \cup {Step.who}
  /\ order' = Append(order, Step.who)
  /\ backlog' = Append(backlog, Step.who)
  /\ ready' = Wake(ready, Listen)
  /\ Advance
  /\ UNCHANGED <<fixed, srv, up, down, batch, notes>>

\* Bytes to a connection the relay has closed are lost.
Sent(c, items) ==
  /\ up' = IF c \in srv.live \cup Range(backlog) THEN [up EXCEPT ![c] = @ \o items] ELSE up
  /\ ready' = IF c \in srv.live THEN Wake(ready, c) ELSE ready

TellStep ==
  /\ At({"tell"})
  /\ Sent(Step.who, IF Step.who \in open THEN Step.items ELSE <<>>)
  /\ Advance
  /\ UNCHANGED <<fixed, srv, down, open, order, backlog, batch, notes>>

\* close(): what the test has not read makes it a reset.
Ending(c) == IF down[c] = <<>> THEN <<[type |-> "EOF"]>> ELSE <<[type |-> "RST"]>>
Closes(c) ==
  /\ Sent(c, Ending(c))
  /\ down' = [down EXCEPT ![c] = <<>>]
  /\ open' = open \ {c}
  /\ UNCHANGED <<fixed, srv, order, backlog, batch, notes>>

CloseStep ==
  /\ At({"close"})
  /\ Closes(Step.who)
  /\ Advance

\* finish(): every connection in turn, and no waiting in between.
FinishStep ==
  /\ At({"finish"})
  /\ \/ /\ open # {}
        /\ Closes(Head(SelectSeq(order, LAMBDA c : c \in open)))
        /\ UNCHANGED <<pc, ok>>
     \/ /\ open = {}
        /\ Idle
        /\ Advance
        /\ UNCHANGED <<fixed, srv, net, notes>>

Meets(f, want) ==
  /\ f.type = want.type
  /\ \A k \in DOMAIN want \ {"entry", "size"} : k \in DOMAIN f /\ f[k] = want[k]
  /\ "entry" \in DOMAIN want => want.entry \in Range(f.list)
  /\ "size" \in DOMAIN want => Len(f.who) = want.size

\* expect(): the next frame is the one the test wants, or it fails; and so
\* does scenario_full's loop, that skips everything up to START.
ExpectStep ==
  LET c == Step.who
      f == Head(down[c])
      skips == Step.op = "until" /\ f.type \notin {"START", "EOF"} IN
  /\ At({"expect", "until"})
  /\ \/ /\ down[c] # <<>>
        /\ down' = [down EXCEPT ![c] = Tail(@)]
        /\ seeds' = IF f.type = "START" THEN seeds \cup {f.seed} ELSE seeds
        /\ IF skips THEN UNCHANGED <<pc, ok>> ELSE Pass(Meets(f, Step.want))
     \/ /\ down[c] = <<>> /\ Idle
        /\ Fail
        /\ UNCHANGED <<down, seeds>>
  /\ UNCHANGED <<fixed, srv, up, open, order, backlog, ready, batch, record, other>>

\* Nothing must come: expect_silence() and, end of file apart, the refusal
\* of an old protocol; the pauses just wait.
WaitStep ==
  /\ At({"silence", "refused", "pause"})
  /\ \/ /\ Step.op # "pause"
        /\ down[Step.who] # <<>>
        /\ Pass(Step.op = "refused" /\ Head(down[Step.who]) = Eof)
     \/ Idle /\ Advance
  /\ UNCHANGED <<fixed, srv, net, notes>>

\* The end of a scenario of the gate: the server's log has the wanted lines.
Logged(w) == \E l \in Range(srv.log) : l.what = w[1] /\ (w[2] # <<>> => l.n = w[2])
StopStep ==
  /\ At({"stop", "oneseed"})
  /\ Pass(IF Step.op = "stop" THEN \A w \in Step.wants : Logged(w) ELSE Cardinality(seeds) = 1)
  /\ UNCHANGED <<fixed, srv, net, notes>>

-----------------------------------------------------------------------------
(* The differential's own steps.                                           *)

\* render() masks the seed of a START.
Render(f) == IF f.type = "START" THEN [f EXCEPT !.seed = 0] ELSE f

\* sync(): everything that has come, connection by connection.
SyncStep ==
  LET rendered(c) == [i \in DOMAIN down[c] |-> <<c, Render(down[c][i])>>] IN
  /\ At({"sync"})
  /\ Idle
  /\ record' = record \o Each(order, rendered) \o <<<<"sync", Eof>>>>
  /\ open' = {c \in open : Eof \notin Range(down[c])}
  /\ down' = NoFrames
  /\ Advance
  /\ UNCHANGED <<fixed, srv, up, order, backlog, ready, batch, other, seeds>>

\* normalize_log(): no C-only lines, no seeds.
Normalized(log) ==
  LET lines == SelectSeq(log, LAMBDA l : l.what # "v1 console") IN
  [i \in DOMAIN lines |-> IF lines[i].what = "match"
                          THEN [lines[i] EXCEPT !.n = <<@[1], 0>>] ELSE lines[i]]

\* compare(): exactly, but "limits" as a bag; a difference in "framing" is
\* put down to the Python.
Report == [frames |-> record, log |-> Normalized(srv.log)]
Agree_frames(name) == record = other.frames
Agree(name) ==
  \/ Report = other
  \/ /\ name = "limits"
     /\ ToBag(record) = ToBag(other.frames)
     /\ ToBag(Report.log) = ToBag(other.log)
  \/ name = "framing" /\ tool # "strict"

CompareStep ==
  /\ At({"compare"})
  /\ pc' = pc + 1
  /\ IF Step.impl = "py"
     THEN other' = Report /\ UNCHANGED ok
     ELSE ok' = (ok /\ Agree(Step.name)) /\ other' = [frames |-> <<>>, log |-> <<>>]
  /\ UNCHANGED <<fixed, srv, net, record, seeds>>

Scripted == \/ Boots \/ Connect \/ TellStep \/ CloseStep \/ FinishStep \/ ExpectStep
            \/ WaitStep \/ StopStep \/ SyncStep \/ CompareStep

Next == Server \/ Scripted

Spec == Init /\ [][Next]_vars

-----------------------------------------------------------------------------
(* Properties.                                                             *)

(***************************************************************************)
(* No false alarm from the gate: with a correct relay none of its          *)
(* assertions fails, however the sockets are served.                       *)
(***************************************************************************)
GateTrusts == (tool = "gate" /\ bug = "none") => ok

(***************************************************************************)
(* "Exit 0 = all assertions pass" means something: no test passes a relay  *)
(* with one of the mistakes it is run against.  (Not among them, because   *)
(* they get through: a guest's GO and the gate, which cannot tell which of *)
(* two GOs started the match, and a missing frame guard and the            *)
(* differential without --strict, which waives it.)                        *)
(***************************************************************************)
Catches == Done /\ ok => bug = "none"

(***************************************************************************)
(* The determinism of the differential: two correct relays give the same   *)
(* frames at every sync and log the same lines in the same order, whatever *)
(* the order of accepts and reads.  The one thing left to chance is the    *)
(* reason logged for a connection that finish() itself closed.             *)
(***************************************************************************)
Unreasoned(log) ==
  [i \in DOMAIN log |-> IF log[i].what = "drop" /\ log[i].who[2] \in {"closed", "recv error"}
                        THEN [log[i] EXCEPT !.who = <<@[1]>>] ELSE log[i]]
TranscriptsAgree ==
  (At({"compare"}) /\ Step.impl = "c" /\ bug = "none")
    => /\ record = other.frames
       /\ Unreasoned(Report.log) = Unreasoned(other.log)

(***************************************************************************)
(* "Anything else that differs is a real divergence."                      *)
(***************************************************************************)
AnythingElseIsReal == (tool # "gate" /\ ~ok) => bug # "none"
=============================================================================
