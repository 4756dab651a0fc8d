------------------------------ MODULE RelayIO -------------------------------
(***************************************************************************)
(* The relay's event loop over its sockets: select() and the events of one *)
(* batch, accept() and its limits, the transmit backlog behind a slow      *)
(* reader, the sweep for connections that never say HELLO.                 *)
(*                                                                         *)
(* What the frames mean is left to Relay and RelayCore.  Here a frame from *)
(* a client does one of the things frames can do to sockets: it names its  *)
(* sender, perhaps at the expense of another client, or it has something   *)
(* sent to somebody.                                                       *)
(*                                                                         *)
(* The Python finds a client by the object the selector hands back, the C  *)
(* port by a slot of its table and the slot's generation.                  *)
(***************************************************************************)
EXTENDS Integers, Sequences, FiniteSets

CONSTANTS
  Conns,         \* the connections that are ever made
  Address,       \* the address each comes from
  MaxClients,    \* MAX_CLIENTS, and the slots of the C port
  PerIP,         \* MAX_CONNECTIONS_PER_IP
  Backlog,       \* MAX_TX_BACKLOG, in units of a frame's half
  Window,        \* what the kernel takes for a client that does not read
  HelloTimeout,  \* HELLO_TIMEOUT, in seconds
  Fickle,        \* the connections that may be closed by the client
  Requests,      \* how many frames the clients send in all
  None

ASSUME RelayIOAssumption ==
  /\ IsFiniteSet(Conns) /\ Fickle \subseteq Conns /\ None \notin Conns
  /\ \A c \in Conns : Address[c] \in STRING
  /\ {MaxClients, PerIP, Backlog, Window, HelloTimeout} \subseteq Nat \ {0}
  /\ Requests \in Nat

Slots == 1..MaxClients
FrameLen == 2           \* a frame can be cut in the middle

VARIABLES
  impl,      \* "python" or "c"
  at,        \* per connection: "new", "queued" for accept, "live", "gone"
  queue,     \* the listen queue
  slot,      \* clients[]: the connection in each slot
  gen,       \* client_t.gen
  named,     \* the clients that have said HELLO
  age,       \* seconds since connected_at
  batch,     \* the events of this select() not yet served
  asked,     \* how many frames the clients have sent,
  inbox,     \*   how many of each one's the relay has not read,
  hungup,    \*   and who has closed its side
  tx,        \* Client.tx
  pipe,      \* what the kernel holds for it
  total,     \* history: units given to send() for it
  got,       \*   and read by it
  armed      \* selected for writing too

clients == <<at, slot, gen, named, age>>
stream == <<tx, pipe, total, got, armed>>
peers == <<asked, inbox, hungup>>
vars == <<impl, queue, batch, clients, stream, peers>>

Init ==
  /\ impl \in {"python", "c"}
  /\ at = [c \in Conns |-> "new"]
  /\ queue = <<>>
  /\ slot = [s \in Slots |-> None]
  /\ gen = [s \in Slots |-> 0]
  /\ named = {}
  /\ age = [c \in Conns |-> 0]
  /\ batch = {}
  /\ asked = 0
  /\ inbox = [c \in Conns |-> 0]
  /\ hungup = {}
  /\ tx = [c \in Conns |-> <<>>]
  /\ pipe = [c \in Conns |-> <<>>]
  /\ total = [c \in Conns |-> 0]
  /\ got = [c \in Conns |-> 0]
  /\ armed = {}

Live == {c \in Conns : at[c] = "live"}
Gone == {c \in Conns : at[c] = "gone"}
SlotOf(c) == CHOOSE s \in Slots : slot[s] = c

-----------------------------------------------------------------------------
(* The clients.                                                            *)

Connect(c) ==
  /\ at[c] = "new"
  /\ at' = [at EXCEPT ![c] = "queued"]
  /\ queue' = Append(queue, c)
  /\ UNCHANGED <<impl, batch, slot, gen, named, age, stream, peers>>

Ask(c) ==
  /\ at[c] \in {"queued", "live"}
  /\ c \notin hungup
  /\ asked < Requests
  /\ asked' = asked + 1
  /\ inbox' = [inbox EXCEPT ![c] = @ + 1]
  /\ UNCHANGED <<impl, queue, batch, clients, stream, hungup>>

HangUp(c) ==
  /\ c \in Fickle \ hungup
  /\ at[c] = "live"
  /\ hungup' = hungup \cup {c}
  /\ UNCHANGED <<impl, queue, batch, clients, stream, asked, inbox>>

Read(c) ==
  /\ c \notin hungup
  /\ pipe[c] # <<>>
  /\ got' = [got EXCEPT ![c] = Head(pipe[c])]
  /\ pipe' = [pipe EXCEPT ![c] = Tail(@)]
  /\ UNCHANGED <<impl, queue, batch, clients, peers, tx, total, armed>>

-----------------------------------------------------------------------------
(* What an event comes to.                                                 *)

Without(f, cs, empty) == [c \in Conns |-> IF c \in cs THEN empty ELSE f[c]]

\* drop() of each of these: the socket and all that was on its way go.
Drop(cs) ==
  LET freed == {x \in Slots : slot[x] \in cs} IN
  /\ at' = Without(at, cs, "gone")
  /\ slot' = [x \in Slots |-> IF x \in freed THEN None ELSE slot[x]]
  /\ gen' = [x \in Slots |-> IF x \in freed THEN gen[x] + 1 ELSE gen[x]]
  /\ got' = Without(got, cs, 0)
  /\ hungup' = hungup \ cs

\* The rest of the tables, for those who are left; the age of one who has a
\* name does not matter.
Leaves(names, unread, ages) ==
  /\ named' = names \ Gone'
  /\ inbox' = Without(unread, Gone', 0)
  /\ age' = Without(ages, Gone' \cup named', 0)

\* Nothing is sent to anybody.
Silent(cs) ==
  /\ Drop(cs)
  /\ tx' = Without(tx, cs, <<>>)
  /\ pipe' = Without(pipe, cs, <<>>)
  /\ total' = Without(total, cs, 0)
  /\ armed' = armed \ cs

\* _update_events: wait for room as long as something is left.
Arms_never(c, left) == FALSE
Arms(c, left) == left # <<>>

\* flush() of out: what fits goes to the kernel, the rest stays.
Left_none(c, out, n) == <<>>
Left(c, out, n) == SubSeq(out, n + 1, Len(out))
Flush(c, out, cs) ==
  LET room == Window - Len(pipe[c])
      n == IF room < Len(out) THEN room ELSE Len(out)
      left == Left(c, out, n) IN
  /\ Drop(cs)
  /\ tx' = [Without(tx, cs, <<>>) EXCEPT ![c] = left]
  /\ pipe' = [Without(pipe, cs, <<>>) EXCEPT ![c] = @ \o SubSeq(out, 1, n)]
  /\ total' = [Without(total, cs, 0) EXCEPT ![c] = @ + Len(out) - Len(tx[c])]
  /\ armed' = IF Arms(c, left) THEN (armed \ cs) \cup {c} ELSE armed \ (cs \cup {c})

\* send(): a frame that does not fit costs c its connection; so may a send
\* to one who has hung up.
Send(c, cs) ==
  LET fits == Len(tx[c]) + FrameLen <= Backlog
      frame == [i \in 1..FrameLen |-> total[c] + i] IN
  \/ fits /\ Flush(c, tx[c] \o frame, cs)
  \/ (~fits \/ c \in hungup) /\ Silent(cs \cup {c})

-----------------------------------------------------------------------------
(* The loop.  The events of a batch are served in any order.               *)

Readable(c) == inbox[c] > 0 \/ c \in hungup
Writable(c) == c \in armed /\ (Len(pipe[c]) < Window \/ c \in hungup)

\* An event as it is reported: for which connection, and what for.  The C
\* port gets back the tag, tag_of(): slot and generation.
Event(c) == [conn |-> c, read |-> Readable(c), write |-> Writable(c),
             slot |-> SlotOf(c), gen |-> gen[SlotOf(c)]]
ListenEvent == [conn |-> None, read |-> TRUE, write |-> FALSE, slot |-> 0, gen |-> 0]

Pending == {Event(c) : c \in {x \in Live : Readable(x) \/ Writable(x)}}
             \cup (IF queue # <<>> THEN {ListenEvent} ELSE {})

Select ==
  /\ batch = {}
  /\ Pending # {}
  /\ batch' = Pending
  /\ UNCHANGED <<impl, queue, clients, stream, peers>>

\* accept(): the two limits, and the first free slot.
Admits(c) ==
  /\ Cardinality(Live) < MaxClients
  /\ Cardinality({x \in Live : Address[x] = Address[c]}) < PerIP
Accept ==
  LET c == Head(queue)
      free == CHOOSE s \in Slots : slot[s] = None /\ \A t \in Slots : slot[t] = None => s <= t IN
  /\ ListenEvent \in batch
  /\ batch' = batch \ {ListenEvent}
  /\ queue' = Tail(queue)
  /\ IF Admits(c)
     THEN at' = [at EXCEPT ![c] = "live"] /\ slot' = [slot EXCEPT ![free] = c]
     ELSE at' = [at EXCEPT ![c] = "gone"] /\ UNCHANGED slot
  /\ inbox' = IF Admits(c) THEN inbox ELSE [inbox EXCEPT ![c] = 0]
  /\ UNCHANGED <<impl, gen, named, age, stream, asked, hungup>>

\* The client an event is for, None if that one has gone in the meantime.
Found_slot(e) == IF impl = "c" THEN slot[e.slot] ELSE IF e.conn \in Live THEN e.conn ELSE None
Found(e) ==
  IF impl = "c" THEN (IF gen[e.slot] = e.gen THEN slot[e.slot] ELSE None)
  ELSE IF e.conn \in Live THEN e.conn ELSE None

\* Writing comes first, and reading if that has not dropped the client.
FlushStep(e) ==
  LET c == Found(e) IN
  /\ e.write
  /\ batch' = (batch \ {e}) \cup (IF e.read THEN {[e EXCEPT !.write = FALSE]} ELSE {})
  /\ IF c = None THEN UNCHANGED <<clients, stream, inbox, hungup>>
     ELSE /\ Flush(c, tx[c], {}) \/ (c \in hungup /\ Silent({c}))
          /\ Leaves(named, inbox, age)
  /\ UNCHANGED <<impl, queue, asked>>

\* A frame is HELLO, perhaps under the name of another client, which goes,
\* and is answered; or it has something sent to a client that has a name.
Frame(c) ==
  LET unread == [inbox EXCEPT ![c] = @ - 1] IN
  \/ \E old \in {{}} \cup {{x} : x \in named \ {c}} :
       Send(c, old) /\ Leaves(named \cup {c}, unread, age)
  \/ \E t \in named : Send(t, {}) /\ Leaves(named, unread, age)

\* service(): one frame, or the end of file once all are read, or nothing.
ReadStep(e) ==
  LET c == Found(e) IN
  /\ ~e.write
  /\ batch' = batch \ {e}
  /\ IF c = None THEN UNCHANGED <<clients, stream, inbox, hungup>>
     ELSE \/ inbox[c] > 0 /\ Frame(c)
          \/ inbox[c] = 0 /\ Silent({c} \cap hungup) /\ Leaves(named, inbox, age)
  /\ UNCHANGED <<impl, queue, asked>>

\* sweep(), after a batch or a select() that timed out, when another second
\* has passed: who has not said HELLO grows older, or goes.
Overdue(c) == age[c] + 1 > HelloTimeout
Sweep ==
  LET unnamed == Live \ named
      overdue == {c \in unnamed : Overdue(c)} IN
  /\ batch = {}
  /\ unnamed # {}
  /\ Silent(overdue)
  /\ Leaves(named, inbox, [c \in Conns |-> IF c \in unnamed THEN age[c] + 1 ELSE age[c]])
  /\ UNCHANGED <<impl, queue, batch, asked>>

Server == Select \/ Accept \/ Sweep
            \/ \E e \in batch \ {ListenEvent} : FlushStep(e) \/ ReadStep(e)
Next == Server \/ \E c \in Conns : Connect(c) \/ Ask(c) \/ HangUp(c) \/ Read(c)

Spec == Init /\ [][Next]_vars

\* The loop runs, and a client that has not hung up reads.
FairSpec == /\ Spec
            /\ WF_vars(Server)
            /\ \A c \in Conns : WF_vars(Read(c))

-----------------------------------------------------------------------------
(* Properties.                                                             *)

(***************************************************************************)
(* Whatever pieces the kernel takes, a client sees its frames whole and in *)
(* order: what is under way to it, in the kernel and in Client.tx, is      *)
(* exactly what it has been sent and has not read.  (The console's parser  *)
(* never recovers a frame that is cut.)                                    *)
(***************************************************************************)
StreamIntact ==
  \A c \in Live :
    pipe[c] \o tx[c] = [i \in 1..(total[c] - got[c]) |-> got[c] + i]

(***************************************************************************)
(* An event reported for a connection is served to that one or to none,    *)
(* although a client may be dropped, and its slot reused by an accept,     *)
(* between the report and the service.                                     *)
(***************************************************************************)
ServesTheReported ==
  [][\A c \in Conns : (inbox'[c] < inbox[c] /\ at'[c] = "live") =>
       \E e \in batch \ batch' : e.conn = c]_vars

(***************************************************************************)
(* Nobody waits for ever: a backlog is drained to a client that reads, or  *)
(* the client is dropped; and a connection is named in time, or dropped.   *)
(***************************************************************************)
BacklogDrains == \A c \in Conns : (tx[c] # <<>>) ~> (tx[c] = <<>>)
HelloOrGone == \A c \in Conns : (at[c] = "live") ~> (c \in named \/ at[c] = "gone")
NobodyWaits == BacklogDrains /\ HelloOrGone
=============================================================================
