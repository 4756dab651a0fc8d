----------------------------- MODULE Transport ------------------------------
(***************************************************************************)
(* How bytes get in and out of a console: the FujiNet mailbox              *)
(* (src/netcode/mailbox.asm), the receive ring and the frame parser of     *)
(* SES_PUMP (src/netcode/session.asm).                                     *)
(*                                                                         *)
(* The mailbox is a block of cells both sides see.  The console fills in a *)
(* request, reads ACKSEQ and writes its successor into SEQ; the peripheral *)
(* takes the request when SEQ and ACKSEQ differ, works on it, and answers  *)
(* by making them equal.  The console polls for that and at some point     *)
(* walks away, but the peripheral "may still complete the transaction":    *)
(* the next request then has the same number, and gets the late answer.    *)
(*                                                                         *)
(* The stream has no sync marker.  A frame is a length byte, a type byte   *)
(* and a payload; the parser checks the two bytes against the lengths the  *)
(* type may have, and drops one byte when they do not fit.                 *)
(***************************************************************************)
EXTENDS Integers, Sequences

CONSTANTS
  ByteSize,     \* number of byte values (256 in the code)
  RingSize,     \* cells of RXACC (256)
  RxSize,       \* cells of FN_RX (512)
  ReadMax,      \* bytes of one read (64)
  MaxLen,       \* the longest body of a frame (99)
  Lens,         \* SES_FLEN: the body lengths a type may have when it arrives
  Script,       \* the frames the server sends on a connection, as bytes
  MaxWrites,    \* bound: frames a console sends on a connection
  MaxFaults,    \* bound: transactions abandoned or refused
  MaxResets     \* bound: console resets

Byte == 0..(ByteSize - 1)

ASSUME TransportAssumption ==
  /\ ByteSize \in Nat /\ ByteSize > 2
  /\ RingSize \in Nat /\ ReadMax \in Nat /\ MaxLen \in Nat /\ RxSize \in Nat
  /\ 4 <= ReadMax /\ ReadMax <= RxSize
  /\ MaxLen >= 1 /\ MaxLen + ReadMax < RingSize
  /\ Lens \in [Byte -> SUBSET (1..MaxLen)]
  /\ Script \in Seq(Seq(Byte))
  /\ \A i \in 1..Len(Script) :
       LET f == Script[i] IN Len(f) >= 2 /\ f[1] \in Lens[f[2]] /\ Len(f) = f[1] + 1
  /\ MaxWrites \in Nat /\ MaxFaults \in Nat /\ MaxResets \in Nat

Commands == {"OPEN", "STATUS", "READ", "WRITE"}
Request == [cmd : Commands, arg : Nat]
NoJob == [cmd |-> "none", arg |-> 0, seq |-> 0]
Job == [cmd : Commands, arg : Nat, seq : Byte] \cup {NoJob}

VARIABLES
  pc,        \* boot, idle (between two calls), stage, poll, parse, local
  req,       \* FN_CMD and its parameter cells
  fnseq,     \* FN_SEQ
  ackseq,    \* FN_ACKSEQ
  job,       \* the request the peripheral works on
  acked,     \* FN_REPLY_CMD is ACK
  rx,        \* FN_RX
  rxlen,     \* FN_RXLEN
  open,      \* the peripheral has a connection to the server
  net,       \* the end of a frame that has not arrived at the peripheral yet
  fifo,      \* bytes the peripheral holds for the console
  ring,      \* RXACC
  wr,        \* RX_WR
  rd,        \* RX_RD
  faults,    \* bound: transactions abandoned or refused
  resets,    \* bound: console resets
  unread,    \* history: the bytes copied into the ring and not yet consumed
  sent,      \* frames the server has sent on this connection
  seen,      \* history: frames handed to SES_ONFRAME while the session is clean
  garbled,   \* history: one of them was not the server's next frame
  writes,    \* history: NET_WRITEs made, and below those that reported success
  written,
  up,        \* history: the writes that reached the server
  clean      \* history: no transaction of this session was abandoned

mailbox == <<req, fnseq, ackseq, job, acked, rx, rxlen>>
stream == <<open, net, fifo, sent>>
buffer == <<ring, wr, rd, unread, seen, garbled>>
outbound == <<writes, written, up>>
bounds == <<faults, resets>>
vars == <<pc, mailbox, stream, buffer, outbound, bounds, clean>>

TypeOK ==
  /\ pc \in {"boot", "idle", "stage", "poll", "parse", "local"}
  /\ req \in Request
  /\ fnseq \in Byte /\ ackseq \in Byte
  /\ job \in Job
  /\ acked \in BOOLEAN /\ open \in BOOLEAN /\ clean \in BOOLEAN
  /\ rx \in [1..RxSize -> Byte]
  /\ rxlen \in 0..ReadMax
  /\ net \in Seq(Byte) /\ fifo \in Seq(Byte)
  /\ ring \in [0..(RingSize - 1) -> Byte]
  /\ wr \in 0..(RingSize - 1) /\ rd \in 0..(RingSize - 1)
  /\ faults \in 0..MaxFaults /\ resets \in 0..MaxResets
  /\ unread \in Seq(Byte)
  /\ sent \in 0..Len(Script) /\ seen \in Nat /\ garbled \in BOOLEAN
  /\ writes \in 0..MaxWrites /\ written \in 0..MaxWrites
  /\ up \in Seq(Nat)

Init ==
  /\ pc = "boot"
  /\ req = [cmd |-> "OPEN", arg |-> 0]
  /\ fnseq = 0 /\ ackseq = 0 /\ job = NoJob
  /\ acked = FALSE /\ rx = [i \in 1..RxSize |-> 0] /\ rxlen = 0
  /\ open = FALSE /\ net = <<>> /\ fifo = <<>>
  /\ ring = [i \in 0..(RingSize - 1) |-> 0] /\ wr = 0 /\ rd = 0
  /\ faults = 0 /\ resets = 0
  /\ unread = <<>> /\ sent = 0 /\ seen = 0 /\ garbled = FALSE
  /\ writes = 0 /\ written = 0 /\ up = <<>>
  /\ clean = TRUE

-----------------------------------------------------------------------------
(* The console's side of a transaction.                                    *)

\* The caller fills in the request cells.
Stage(cmd, arg) ==
  /\ req' = [cmd |-> cmd, arg |-> arg]
  /\ pc' = "stage"
  /\ UNCHANGED <<fnseq, ackseq, job, acked, rx, rxlen>>

Open ==
  /\ pc = "boot"
  /\ Stage("OPEN", 0)
  /\ UNCHANGED <<stream, buffer, outbound, bounds, clean>>

Pump ==
  /\ pc = "idle"
  /\ Stage("STATUS", 0)
  /\ UNCHANGED <<stream, buffer, outbound, bounds, clean>>

Write ==
  /\ pc = "idle"
  /\ writes < MaxWrites
  /\ writes' = writes + 1
  /\ Stage("WRITE", writes + 1)
  /\ UNCHANGED <<stream, buffer, written, up, bounds, clean>>

\* The successor of the peripheral's own number; 0 is skipped.
NextSeq_zero(a) == (a + 1) % ByteSize
NextSeq_wide(a) == a + 1
NextSeq_own(a) == 1
NextSeq(a) == LET s == (a + 1) % ByteSize IN IF s = 0 THEN 1 ELSE s

WriteSeq ==
  /\ pc = "stage"
  /\ fnseq' = NextSeq(ackseq)
  /\ pc' = "poll"
  /\ UNCHANGED <<req, ackseq, job, acked, rx, rxlen,
                 stream, buffer, outbound, bounds, clean>>

\* Where a caller goes on when its transaction failed.
AfterFailure ==
  pc' = CASE req.cmd = "OPEN" -> "local"
          [] req.cmd = "WRITE" -> "idle"
          [] OTHER -> "parse"

\* The poll counter has run out.
TimeOut ==
  /\ pc = "poll"
  /\ ackseq # fnseq
  /\ faults < MaxFaults
  /\ faults' = faults + 1
  /\ clean' = FALSE
  /\ AfterFailure
  /\ UNCHANGED <<mailbox, stream, buffer, outbound, resets>>

Answered(cmd) == pc = "poll" /\ ackseq = fnseq /\ req.cmd = cmd

Refused ==
  /\ pc = "poll" /\ ackseq = fnseq
  /\ ~acked
  /\ AfterFailure
  /\ UNCHANGED <<mailbox, stream, buffer, outbound, bounds, clean>>

OpenDone ==
  /\ Answered("OPEN") /\ acked
  /\ pc' = "idle"
  /\ UNCHANGED <<mailbox, stream, buffer, outbound, bounds, clean>>

\* NET_WRITE's callers do not look at its result.
WriteDone ==
  /\ Answered("WRITE") /\ acked
  /\ pc' = "idle"
  /\ written' = written + 1
  /\ UNCHANGED <<mailbox, stream, buffer, writes, up, bounds, clean>>

-----------------------------------------------------------------------------
(* SES_PUMP.                                                               *)

\* What the pump asks for, given the 16-bit number of bytes waiting.
ReadLength(n) == IF n < ReadMax THEN n ELSE ReadMax

\* The status byte must be 1; the count is in the first two cells.
StatusDone ==
  LET avail == rx[1] + ByteSize * rx[2] IN
  /\ Answered("STATUS") /\ acked
  /\ IF rx[4] = 1 /\ avail > 0
     THEN Stage("READ", ReadLength(avail))
     ELSE pc' = "parse" /\ UNCHANGED mailbox
  /\ UNCHANGED <<stream, buffer, outbound, bounds, clean>>

At(i) == (rd + i) % RingSize

\* @@pp_cp: n bytes of FN_RX go into the ring.
Copied(n) ==
  [i \in 0..(RingSize - 1) |->
     LET k == (i - wr) % RingSize IN IF k < n THEN rx[k + 1] ELSE ring[i]]

ReadDone ==
  /\ Answered("READ") /\ acked
  /\ ring' = Copied(rxlen)
  /\ wr' = (wr + rxlen) % RingSize
  /\ unread' = unread \o SubSeq(rx, 1, rxlen)
  /\ pc' = "parse"
  /\ UNCHANGED <<mailbox, stream, rd, seen, garbled, outbound, bounds, clean>>

Buffered == (wr - rd) % RingSize

\* Length and type byte belong together.
Legal == ring[At(0)] \in Lens[ring[At(1)]]

\* The whole frame is in the ring: its length byte does not count itself.
Whole_short == Buffered >= ring[At(0)]
Whole == Buffered >= ring[At(0)] + 1

Slip_not ==
  /\ pc = "parse" /\ Buffered >= 2 /\ ~Legal
  /\ pc' = "idle"
  /\ UNCHANGED <<mailbox, stream, buffer, outbound, bounds, clean>>
Slip ==
  /\ pc = "parse" /\ Buffered >= 2 /\ ~Legal
  /\ rd' = At(1)
  /\ unread' = Tail(unread)
  /\ UNCHANGED <<pc, mailbox, stream, ring, wr, seen, garbled, outbound, bounds, clean>>

\* @@pp_x: the frame goes to FRMBUF and SES_ONFRAME, and the parser goes on.
Extract ==
  LET n == ring[At(0)] + 1
      frame == [i \in 1..n |-> ring[At(i - 1)]] IN
  /\ pc = "parse" /\ Buffered >= 2 /\ Legal /\ Whole
  /\ IF clean THEN /\ seen' = seen + 1
                   /\ garbled' = (garbled \/ seen = sent \/ frame # Script[seen + 1])
              ELSE UNCHANGED <<seen, garbled>>
  /\ rd' = At(n)
  /\ unread' = SubSeq(unread, n + 1, Len(unread))
  /\ UNCHANGED <<pc, mailbox, stream, ring, wr, outbound, bounds, clean>>

PumpDone ==
  /\ pc = "parse"
  /\ Buffered < 2 \/ (Legal /\ ~Whole)
  /\ pc' = "idle"
  /\ UNCHANGED <<mailbox, stream, buffer, outbound, bounds, clean>>

-----------------------------------------------------------------------------
(* The peripheral, the server and the RESET button.                        *)

\* The peripheral sees a request it has not answered and takes it as it is.
TakeJob ==
  /\ job = NoJob
  /\ fnseq # ackseq /\ fnseq # 0
  /\ job' = [cmd |-> req.cmd, arg |-> req.arg, seq |-> fnseq]
  /\ UNCHANGED <<pc, req, fnseq, ackseq, acked, rx, rxlen,
                 stream, buffer, outbound, bounds, clean>>

Reply(bytes) ==
  /\ rx' = [i \in 1..RxSize |-> IF i <= Len(bytes) THEN bytes[i] ELSE rx[i]]
  /\ rxlen' = Len(bytes)
  /\ acked' = TRUE
  /\ ackseq' = job.seq
  /\ job' = NoJob
  /\ UNCHANGED <<req, fnseq>>

\* A new connection: nothing of the old one is left.
ServeOpen ==
  /\ job.cmd = "OPEN"
  /\ Reply(<<>>)
  /\ open' = TRUE /\ net' = <<>> /\ fifo' = <<>> /\ sent' = 0
  /\ UNCHANGED <<pc, buffer, outbound, bounds, clean>>

ServeStatus ==
  /\ job.cmd = "STATUS"
  /\ Reply(<<Len(fifo) % ByteSize, (Len(fifo) \div ByteSize) % ByteSize, 0, 1>>)
  /\ UNCHANGED <<pc, stream, buffer, outbound, bounds, clean>>

ServeRead ==
  LET n == IF job.arg < Len(fifo) THEN job.arg ELSE Len(fifo) IN
  /\ job.cmd = "READ"
  /\ Reply(SubSeq(fifo, 1, n))
  /\ fifo' = SubSeq(fifo, n + 1, Len(fifo))
  /\ UNCHANGED <<pc, open, net, sent, buffer, outbound, bounds, clean>>

ServeWrite ==
  /\ job.cmd = "WRITE"
  /\ Reply(<<>>)
  /\ up' = Append(up, job.arg)
  /\ UNCHANGED <<pc, stream, buffer, writes, written, bounds, clean>>

Serve == ServeOpen \/ ServeStatus \/ ServeRead \/ ServeWrite

\* The peripheral answers with an error and has done nothing.
Refuse ==
  /\ job # NoJob
  /\ faults < MaxFaults
  /\ faults' = faults + 1
  /\ acked' = FALSE
  /\ ackseq' = job.seq
  /\ job' = NoJob
  /\ UNCHANGED <<pc, req, fnseq, rx, rxlen, stream, buffer, outbound, resets, clean>>

\* TCP delivers bytes, not frames: the first k come now, the others later.
Send(k) ==
  LET f == Script[sent + 1] IN
  /\ open
  /\ sent < Len(Script)
  /\ net = <<>>
  /\ k \in 1..Len(f)
  /\ sent' = sent + 1
  /\ fifo' = fifo \o SubSeq(f, 1, k)
  /\ net' = SubSeq(f, k + 1, Len(f))
  /\ UNCHANGED <<pc, mailbox, open, buffer, outbound, bounds, clean>>

Arrive ==
  /\ net # <<>>
  /\ fifo' = fifo \o net
  /\ net' = <<>>
  /\ UNCHANGED <<pc, mailbox, open, sent, buffer, outbound, bounds, clean>>

\* RESET zeroes the console's memory, but not the peripheral's.
Reset ==
  /\ resets < MaxResets
  /\ resets' = resets + 1
  /\ pc' = "boot"
  /\ ring' = [i \in 0..(RingSize - 1) |-> 0] /\ wr' = 0 /\ rd' = 0
  /\ unread' = <<>> /\ seen' = 0 /\ garbled' = FALSE
  /\ writes' = 0 /\ written' = 0 /\ up' = <<>>
  /\ clean' = (job = NoJob /\ fnseq = ackseq)
  /\ UNCHANGED <<mailbox, stream, faults>>

-----------------------------------------------------------------------------
Console == \/ Open \/ Pump \/ Write \/ WriteSeq \/ TimeOut \/ Refused
           \/ OpenDone \/ WriteDone \/ StatusDone \/ ReadDone
           \/ Slip \/ Extract \/ PumpDone
Outside == \/ TakeJob \/ Serve \/ Refuse \/ Arrive \/ Reset
           \/ \E k \in 1..(MaxLen + 1) : Send(k)

Next == Console \/ Outside

Spec == Init /\ [][Next]_vars

(***************************************************************************)
(* The lobby loop and the passes of a match never stop pumping, a poll     *)
(* that is answered sees it, the peripheral serves what it takes and TCP   *)
(* delivers.  Time-outs, refusals, resets and new traffic are not fair.    *)
(***************************************************************************)
Fairness ==
  /\ WF_vars(Open) /\ WF_vars(Pump) /\ WF_vars(WriteSeq) /\ WF_vars(Refused)
  /\ WF_vars(OpenDone) /\ WF_vars(WriteDone) /\ WF_vars(StatusDone)
  /\ WF_vars(ReadDone) /\ WF_vars(Slip) /\ WF_vars(Extract) /\ WF_vars(PumpDone)
  /\ WF_vars(TakeJob) /\ WF_vars(Serve) /\ WF_vars(Arrive)

FairSpec == Spec /\ Fairness

-----------------------------------------------------------------------------
(* Properties.                                                             *)

(***************************************************************************)
(* Whatever answer a request gets, its own, a late one or garbage: the     *)
(* ring between RX_RD and RX_WR is the bytes read and not yet consumed.    *)
(* It is never written round onto unread bytes, and never so full that it  *)
(* looks empty.                                                            *)
(***************************************************************************)
RingHolds ==
  /\ Len(unread) < RingSize
  /\ Buffered = Len(unread)
  /\ \A i \in 1..Len(unread) : ring[At(i - 1)] = unread[i]

(***************************************************************************)
(* Unless a transaction was abandoned, the frames SES_ONFRAME sees are the *)
(* frames the server sent, none lost, split or invented, however TCP and   *)
(* the bounded reads cut the stream, and across resets of the console.     *)
(***************************************************************************)
FramesIntact == clean => ~garbled

(***************************************************************************)
(* Unless a transaction was abandoned, writes reach the server in order    *)
(* and once, and a write that reported success has reached it.             *)
(***************************************************************************)
WritesIntact ==
  clean => /\ \A i \in 1..Len(up) : up[i] <= writes
           /\ \A i, j \in 1..Len(up) : i < j => up[i] < up[j]
           /\ written <= Len(up)

(***************************************************************************)
(* The console never gets stuck on what it has received: all that the      *)
(* server sent is read in the end, although transactions were abandoned,   *)
(* answers taken for others and the stream misframed.                      *)
(***************************************************************************)
AllRead == []<>(pc = "local" \/ (net = <<>> /\ fifo = <<>>))
=============================================================================
