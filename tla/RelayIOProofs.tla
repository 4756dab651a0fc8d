--------------------------- MODULE RelayIOProofs ----------------------------
(***************************************************************************)
(* What the relay's event loop promises, for any number of connections,    *)
(* slots and requests and any limits: the streams to the clients stay      *)
(* whole, and an event is never served to a connection it was not reported *)
(* for.                                                                    *)
(*                                                                         *)
(* The invariant has four parts.  The listen queue holds each connection   *)
(* that waits for accept() once.  The table has exactly the live           *)
(* connections in its slots, each in one, so that there is a free slot     *)
(* whenever the limit admits another.  A report is at most as new as its   *)
(* slot, and if it is as new then the slot is still its connection's.  And *)
(* what is under way to a client is what it has been sent and not read.    *)
(***************************************************************************)
EXTENDS RelayIO, TLAPS, SequenceTheorems, FiniteSetTheorems

LoopType ==
  /\ impl \in {"python", "c"}
  /\ at \in [Conns -> {"new", "queued", "live", "gone"}]
  /\ queue \in Seq(Conns)
  /\ slot \in [Slots -> Conns \cup {None}]
  /\ gen \in [Slots -> Nat]
  /\ named \subseteq Live
  /\ inbox \in [Conns -> Nat]
  /\ tx \in [Conns -> Seq(Nat)] /\ pipe \in [Conns -> Seq(Nat)]
  /\ total \in [Conns -> Nat] /\ got \in [Conns -> Nat]

QueueSound ==
  /\ \A i \in 1..Len(queue) : at[queue[i]] = "queued"
  /\ \A i, j \in 1..Len(queue) : queue[i] = queue[j] => i = j

TableSound ==
  /\ \A s \in Slots : slot[s] # None => at[slot[s]] = "live"
  /\ \A s, t \in Slots : slot[s] # None /\ slot[s] = slot[t] => s = t
  /\ \A c \in Conns : at[c] = "live" => \E s \in Slots : slot[s] = c

Current(e) ==
  /\ e.conn \in Conns /\ e.slot \in Slots /\ e.gen \in Nat
  /\ e.gen <= gen[e.slot]
  /\ e.gen = gen[e.slot] => slot[e.slot] = e.conn

ReportsCurrent ==
  /\ \A e \in batch : e = ListenEvent \/ Current(e)
  /\ ListenEvent \in batch => queue # <<>>

\* The units of q come right behind those of p, of which g have been read.
Behind(q, p, g) == \A i \in 1..Len(q) : q[i] = g + Len(p) + i

\* What is under way: p in the kernel, t in Client.tx, g read of k sent.
UnderWay(p, t, g, k) ==
  /\ Len(p) + Len(t) = k - g
  /\ \A i \in 1..Len(p) : p[i] = g + i
  /\ Behind(t, p, g)

StreamsSound ==
  \A c \in Conns : /\ Len(pipe[c]) <= Window
                   /\ UnderWay(pipe[c], tx[c], got[c], total[c])

LoopInv == LoopType /\ QueueSound /\ TableSound /\ ReportsCurrent /\ StreamsSound

-----------------------------------------------------------------------------
(* Facts about the constants, numbers and sequences.                       *)

LEMMA Constants ==
  /\ MaxClients \in Nat /\ Window \in Nat /\ Backlog \in Nat
  /\ None \notin Conns /\ IsFiniteSet(Conns)
  BY RelayIOAssumption

\* A set of natural numbers has a least one.
LEMMA LeastNumber ==
  ASSUME NEW T \in SUBSET Nat, T # {}
  PROVE  \E m \in T : \A n \in T : m <= n
  <1>1. \E m \in T : \A n \in T : ~(<<n, m>> \in OpToRel(<, Nat))
    BY NatLessThanWellFounded, WFMin
  <1>2. PICK m \in T : \A n \in T : ~(<<n, m>> \in OpToRel(<, Nat))
    BY <1>1
  <1>3. \A n \in T : n \in Nat /\ m \in Nat /\ (n < m => <<n, m>> \in OpToRel(<, Nat))
    BY DEF OpToRel
  <1>4. \A n \in T : ~(n < m)
    BY <1>2, <1>3, Zenon
  <1>5. \A n \in T : n \in Nat /\ m \in Nat
    OBVIOUS
  <1> QED BY <1>4, <1>5

\* What flush() makes of out: a front for the kernel and a rest.
LEMMA Cut ==
  ASSUME NEW q \in Seq(Nat), NEW n \in Nat, n <= Len(q)
  PROVE  /\ SubSeq(q, 1, n) \in Seq(Nat) /\ SubSeq(q, n + 1, Len(q)) \in Seq(Nat)
         /\ Len(SubSeq(q, 1, n)) = n /\ Len(SubSeq(q, n + 1, Len(q))) = Len(q) - n
         /\ \A i \in 1..n : SubSeq(q, 1, n)[i] = q[i]
         /\ \A i \in 1..(Len(q) - n) : SubSeq(q, n + 1, Len(q))[i] = q[n + i]
  <1>1. Len(q) \in Nat /\ \A i \in 1..Len(q) : q[i] \in Nat
    BY LenProperties, ElementOfSeq
  <1> DEFINE k == Len(q)
  <1>2. k \in Nat /\ n <= k
    BY <1>1
  <1>3. (\A i \in 1..n : q[i] \in Nat) /\ \A i \in (n + 1)..k : q[i] \in Nat
    BY <1>1
  <1>4. /\ SubSeq(q, 1, n) \in Seq(Nat)
        /\ Len(SubSeq(q, 1, n)) = IF 1 <= n THEN n - 1 + 1 ELSE 0
        /\ \A i \in 1..(n - 1 + 1) : SubSeq(q, 1, n)[i] = q[1 + i - 1]
    BY <1>3, SubSeqProperties
  <1>5. /\ SubSeq(q, n + 1, k) \in Seq(Nat)
        /\ Len(SubSeq(q, n + 1, k)) = IF n + 1 <= k THEN k - (n + 1) + 1 ELSE 0
        /\ \A i \in 1..(k - (n + 1) + 1) : SubSeq(q, n + 1, k)[i] = q[(n + 1) + i - 1]
    BY <1>2, <1>3, SubSeqProperties
  <1> HIDE DEF k
  <1>6. Len(SubSeq(q, 1, n)) = n /\ \A i \in 1..n : SubSeq(q, 1, n)[i] = q[i]
    <2>1. n - 1 + 1 = n /\ \A i \in 1..n : 1 + i - 1 = i
      OBVIOUS
    <2>2. (~(1 <= n)) => n = 0
      OBVIOUS
    <2> QED BY <1>4, <2>1, <2>2
  <1>7. /\ Len(SubSeq(q, n + 1, k)) = k - n
        /\ \A i \in 1..(k - n) : SubSeq(q, n + 1, k)[i] = q[n + i]
    <2>1. k - (n + 1) + 1 = k - n /\ \A i \in 1..(k - n) : (n + 1) + i - 1 = n + i
      BY <1>2
    <2>2. (~(n + 1 <= k)) => k - n = 0
      BY <1>2
    <2> QED BY <1>5, <2>1, <2>2
  <1> QED BY <1>4, <1>5, <1>6, <1>7 DEF k

\* The parts of StreamsSound put together are StreamIntact.
LEMMA UnderWayWhole ==
  ASSUME NEW p \in Seq(Nat), NEW t \in Seq(Nat), NEW g \in Nat, NEW k \in Nat,
         UnderWay(p, t, g, k)
  PROVE  p \o t = [i \in 1..(k - g) |-> g + i]
  <1>1. Len(p) \in Nat /\ Len(t) \in Nat
    BY LenProperties
  <1>2. /\ p \o t \in Seq(Nat) /\ Len(p \o t) = Len(p) + Len(t)
        /\ \A i \in 1..(Len(p) + Len(t)) :
             (p \o t)[i] = IF i <= Len(p) THEN p[i] ELSE t[i - Len(p)]
    BY ConcatProperties
  <1>3. DOMAIN (p \o t) = 1..(k - g) /\ p \o t = [i \in DOMAIN (p \o t) |-> (p \o t)[i]]
    BY <1>2, LenProperties DEF UnderWay, Behind
  <1>4. \A i \in 1..(k - g) : (p \o t)[i] = g + i
    <2> SUFFICES ASSUME NEW i \in 1..(k - g) PROVE (p \o t)[i] = g + i
      OBVIOUS
    <2>1. CASE i <= Len(p)
      BY <1>1, <1>2, <2>1 DEF UnderWay, Behind
    <2>2. CASE ~(i <= Len(p))
      <3>1. i - Len(p) \in 1..Len(t) /\ g + Len(p) + (i - Len(p)) = g + i
        BY <1>1, <2>2 DEF UnderWay, Behind
      <3> QED BY <1>1, <1>2, <2>2, <3>1 DEF UnderWay, Behind
    <2> QED BY <2>1, <2>2
  <1> QED BY <1>3, <1>4

-----------------------------------------------------------------------------
(* accept() finds a free slot whenever the limit on clients admits one.    *)

LEMMA FreeSlot ==
  ASSUME LoopType, TableSound, Cardinality(Live) < MaxClients
  PROVE  \E s \in Slots : slot[s] = None /\ \A t \in Slots : slot[t] = None => s <= t
  <1>1. IsFiniteSet(Live) /\ IsFiniteSet(Slots) /\ Cardinality(Slots) = MaxClients
    <2>1. Live \in SUBSET Conns
      BY DEF Live
    <2>2. IsFiniteSet(Live)
      BY <2>1, Constants, FS_Subset
    <2>3. /\ IsFiniteSet(1..MaxClients)
          /\ Cardinality(1..MaxClients) = IF 1 > MaxClients THEN 0 ELSE MaxClients - 1 + 1
      BY Constants, FS_Interval
    <2> QED BY <2>2, <2>3, Constants DEF Slots
  <1>2. \E s \in Slots : slot[s] = None
    <2> SUFFICES ASSUME \A s \in Slots : slot[s] # None PROVE FALSE
      OBVIOUS
    <2>1. slot \in [Slots -> Live]
      BY DEF LoopType, TableSound, Live
    <2>2. slot \in Injection(Slots, Live)
      BY <2>1 DEF TableSound, Injection, IsInjective
    <2>3. Cardinality(Slots) <= Cardinality(Live)
      BY <1>1, <2>2, FS_Injection
    <2>4. Cardinality(Live) \in Nat
      BY <1>1, FS_CardinalityType
    <2> QED BY <1>1, <2>3, <2>4, Constants
  <1> DEFINE F == {s \in Slots : slot[s] = None}
  <1>3. F \in SUBSET Nat /\ F # {}
    BY <1>2 DEF Slots
  <1>4. \E m \in F : \A n \in F : m <= n
    BY <1>3, LeastNumber
  <1> QED BY <1>4

-----------------------------------------------------------------------------
(* What drop() and flush() do to the table, the queue, the reports and the *)
(* streams.                                                                *)

LEMMA DropKeepsTable ==
  ASSUME LoopType, QueueSound, TableSound, queue' = queue,
         NEW cs \in SUBSET Live, Drop(cs)
  PROVE  /\ at' \in [Conns -> {"new", "queued", "live", "gone"}]
         /\ slot' \in [Slots -> Conns \cup {None}] /\ gen' \in [Slots -> Nat]
         /\ got' \in [Conns -> Nat]
         /\ \A c \in Conns : at[c] = "live" => at'[c] = IF c \in cs THEN "gone" ELSE "live"
         /\ QueueSound' /\ TableSound'
  <1>1. cs \subseteq Conns /\ \A c \in cs : at[c] = "live"
    BY DEF Live
  <1>2. /\ at' = [c \in Conns |-> IF c \in cs THEN "gone" ELSE at[c]]
        /\ got' = [c \in Conns |-> IF c \in cs THEN 0 ELSE got[c]]
        /\ \A x \in Slots : /\ slot'[x] = IF slot[x] \in cs THEN None ELSE slot[x]
                            /\ gen'[x] = IF slot[x] \in cs THEN gen[x] + 1 ELSE gen[x]
        /\ slot' = [x \in Slots |-> IF slot[x] \in cs THEN None ELSE slot[x]]
        /\ gen' = [x \in Slots |-> IF slot[x] \in cs THEN gen[x] + 1 ELSE gen[x]]
    BY DEF Drop, Without
  <1>3. at' \in [Conns -> {"new", "queued", "live", "gone"}]
    BY <1>2 DEF LoopType
  <1>4. slot' \in [Slots -> Conns \cup {None}]
    BY <1>2 DEF LoopType
  <1>5. gen' \in [Slots -> Nat]
    BY <1>2 DEF LoopType
  <1>6. got' \in [Conns -> Nat]
    BY <1>2 DEF LoopType
  <1>7. \A c \in Conns : at[c] = "live" => at'[c] = IF c \in cs THEN "gone" ELSE "live"
    BY <1>2
  <1>8. QueueSound'
    <2>1. \A i \in 1..Len(queue) : queue[i] \in Conns
      BY ElementOfSeq DEF LoopType
    <2> QED BY <1>1, <1>2, <2>1 DEF QueueSound
  <1>9. TableSound'
    <2>1. ASSUME NEW x \in Slots, slot'[x] # None PROVE at'[slot'[x]] = "live"
      <3>1. slot'[x] = slot[x] /\ slot[x] \notin cs /\ slot[x] \in Conns
        BY <1>2, <2>1 DEF LoopType
      <3> QED BY <1>2, <2>1, <3>1 DEF TableSound
    <2>2. ASSUME NEW x \in Slots, NEW y \in Slots, slot'[x] # None, slot'[x] = slot'[y]
          PROVE  x = y
      <3>1. slot'[x] = slot[x] /\ slot'[y] = slot[y]
        BY <1>2, <2>2
      <3> QED BY <2>2, <3>1 DEF TableSound
    <2>3. ASSUME NEW c \in Conns, at'[c] = "live" PROVE \E x \in Slots : slot'[x] = c
      <3>1. c \notin cs /\ at[c] = "live"
        BY <1>2, <2>3
      <3>2. PICK x \in Slots : slot[x] = c
        BY <3>1 DEF TableSound
      <3> QED BY <1>2, <3>1, <3>2
    <2> QED BY <2>1, <2>2, <2>3 DEF TableSound
  <1> QED BY <1>3, <1>4, <1>5, <1>6, <1>7, <1>8, <1>9

\* A report of a connection that is dropped is older than its slot.
LEMMA DropKeepsReports ==
  ASSUME LoopType, NEW cs \in SUBSET Live, Drop(cs), NEW e, Current(e)
  PROVE  Current(e)'
  <1>1. e.conn \in Conns /\ e.slot \in Slots /\ e.gen \in Nat /\ gen[e.slot] \in Nat
    BY DEF Current, LoopType
  <1>2. /\ slot'[e.slot] = IF slot[e.slot] \in cs THEN None ELSE slot[e.slot]
        /\ gen'[e.slot] = IF slot[e.slot] \in cs THEN gen[e.slot] + 1 ELSE gen[e.slot]
    BY <1>1 DEF Drop
  <1>3. CASE slot[e.slot] \in cs
    BY <1>1, <1>2, <1>3 DEF Current
  <1>4. CASE slot[e.slot] \notin cs
    BY <1>1, <1>2, <1>4 DEF Current
  <1> QED BY <1>3, <1>4

LEMMA NothingUnderWay == UnderWay(<<>>, <<>>, 0, 0) /\ Len(<<>>) <= Window /\ <<>> \in Seq(Nat)
  BY Constants DEF UnderWay, Behind

LEMMA SilentKeepsStreams ==
  ASSUME LoopType, StreamsSound, NEW cs, Silent(cs)
  PROVE  /\ tx' \in [Conns -> Seq(Nat)] /\ pipe' \in [Conns -> Seq(Nat)]
         /\ total' \in [Conns -> Nat]
         /\ StreamsSound'
  <1>1. /\ tx' = [c \in Conns |-> IF c \in cs THEN <<>> ELSE tx[c]]
        /\ pipe' = [c \in Conns |-> IF c \in cs THEN <<>> ELSE pipe[c]]
        /\ total' = [c \in Conns |-> IF c \in cs THEN 0 ELSE total[c]]
        /\ got' = [c \in Conns |-> IF c \in cs THEN 0 ELSE got[c]]
    BY DEF Silent, Drop, Without
  <1>2. tx' \in [Conns -> Seq(Nat)]
    BY <1>1, NothingUnderWay DEF LoopType
  <1>3. pipe' \in [Conns -> Seq(Nat)]
    BY <1>1, NothingUnderWay DEF LoopType
  <1>4. total' \in [Conns -> Nat]
    BY <1>1 DEF LoopType
  <1>5. ASSUME NEW c \in Conns
        PROVE  Len(pipe'[c]) <= Window /\ UnderWay(pipe'[c], tx'[c], got'[c], total'[c])
    <2>1. CASE c \in cs
      BY <1>1, <2>1, NothingUnderWay
    <2>2. CASE c \notin cs
      <3>1. pipe'[c] = pipe[c] /\ tx'[c] = tx[c] /\ got'[c] = got[c] /\ total'[c] = total[c]
        BY <1>1, <2>2
      <3> QED BY <3>1 DEF StreamsSound
    <2> QED BY <2>1, <2>2
  <1> QED BY <1>2, <1>3, <1>4, <1>5 DEF StreamsSound

\* What flush() does to one stream: out is the backlog t, perhaps with a
\* frame behind it, and n units of it go behind p, to the kernel.
LEMMA FlushedStream ==
  ASSUME NEW p \in Seq(Nat), NEW t \in Seq(Nat), NEW g \in Nat, NEW k \in Nat,
         UnderWay(p, t, g, k),
         NEW out \in Seq(Nat), Len(out) >= Len(t),
         Behind(out, p, g),
         NEW n \in Nat, n <= Len(out)
  PROVE  /\ p \o SubSeq(out, 1, n) \in Seq(Nat) /\ SubSeq(out, n + 1, Len(out)) \in Seq(Nat)
         /\ Len(p \o SubSeq(out, 1, n)) = Len(p) + n
         /\ k + Len(out) - Len(t) \in Nat
         /\ UnderWay(p \o SubSeq(out, 1, n), SubSeq(out, n + 1, Len(out)),
                     g, k + Len(out) - Len(t))
  <1> DEFINE front == SubSeq(out, 1, n)
             rest == SubSeq(out, n + 1, Len(out))
             both == p \o front
             a == Len(p)
             b == Len(t)
             m == Len(out)
  <1>1. a \in Nat /\ b \in Nat /\ m \in Nat /\ b <= m /\ n <= m /\ a + b = k - g
    BY LenProperties DEF UnderWay, Behind
  <1>2. /\ front \in Seq(Nat) /\ rest \in Seq(Nat)
        /\ Len(front) = n /\ Len(rest) = m - n
        /\ \A i \in 1..n : front[i] = out[i]
        /\ \A i \in 1..(m - n) : rest[i] = out[n + i]
    BY Cut
  <1>3. /\ both \in Seq(Nat) /\ Len(both) = a + Len(front)
        /\ \A i \in 1..(a + Len(front)) :
             both[i] = IF i <= a THEN p[i] ELSE front[i - a]
    <2>1. front \in Seq(Nat)
      BY <1>2
    <2> HIDE DEF front
    <2> QED BY <2>1, ConcatProperties
  <1>4. (\A i \in 1..a : p[i] = g + i) /\ \A i \in 1..m : out[i] = g + a + i
    BY DEF UnderWay, Behind
  <1> HIDE DEF front, rest, both, a, b, m
  <1>5. Len(both) = a + n /\ k + m - b \in Nat /\ Len(both) + Len(rest) = (k + m - b) - g
    <2> DEFINE lb == Len(both)
               lr == Len(rest)
    <2>1. lb = a + n
      <3>1. Len(front) = n
        BY <1>2
      <3>2. Len(both) = a + Len(front)
        BY <1>3
      <3> QED BY <3>1, <3>2
    <2>2. lr = m - n
      BY <1>2
    <2> HIDE DEF lb, lr
    <2>3. a \in Nat /\ b \in Nat /\ m \in Nat /\ b <= m /\ a + b = k - g
      BY <1>1
    <2>4. k + m - b \in Nat
      BY <2>3
    <2>5. lb + lr = (k + m - b) - g
      BY <2>1, <2>2, <2>3
    <2> QED BY <2>1, <2>4, <2>5 DEF lb, lr
  <1>6. ASSUME NEW i \in 1..Len(both) PROVE both[i] = g + i
    <2>0. i \in 1..(a + n)
      BY <1>5
    <2>1. both[i] = IF i <= a THEN p[i] ELSE front[i - a]
      BY <1>2, <1>3, <1>5, <2>0
    <2>2. CASE i <= a
      BY <1>1, <1>4, <2>0, <2>1, <2>2
    <2>3. CASE ~(i <= a)
      <3>1. i - a \in 1..n /\ i - a \in 1..m /\ g + a + (i - a) = g + i
        BY <1>1, <2>0, <2>3
      <3>2. front[i - a] = out[i - a] /\ out[i - a] = g + a + (i - a)
        BY <1>2, <1>4, <3>1
      <3> QED BY <2>1, <2>3, <3>1, <3>2
    <2> QED BY <2>2, <2>3
  <1>7. ASSUME NEW i \in 1..Len(rest) PROVE rest[i] = g + Len(both) + i
    <2>1. i \in 1..(m - n) /\ n + i \in 1..m /\ g + a + (n + i) = g + (a + n) + i
      BY <1>1, <1>2
    <2>2. rest[i] = out[n + i] /\ out[n + i] = g + a + (n + i)
      BY <1>2, <1>4, <2>1
    <2> QED BY <1>5, <2>1, <2>2
  <1>8. UnderWay(both, rest, g, k + m - b)
    BY <1>5, <1>6, <1>7 DEF UnderWay, Behind
  <1> QED BY <1>2, <1>3, <1>5, <1>8 DEF front, rest, both, a, b, m

LEMMA FlushKeepsStreams ==
  ASSUME LoopType, StreamsSound, NEW cs, NEW c \in Conns, c \notin cs,
         NEW out \in Seq(Nat), Len(out) >= Len(tx[c]),
         Behind(out, pipe[c], got[c]),
         Flush(c, out, cs)
  PROVE  /\ tx' \in [Conns -> Seq(Nat)] /\ pipe' \in [Conns -> Seq(Nat)]
         /\ total' \in [Conns -> Nat]
         /\ StreamsSound'
  <1>1. /\ pipe[c] \in Seq(Nat) /\ tx[c] \in Seq(Nat) /\ total[c] \in Nat /\ got[c] \in Nat
    BY DEF LoopType
  <1>2. Len(pipe[c]) <= Window /\ UnderWay(pipe[c], tx[c], got[c], total[c])
    BY DEF StreamsSound
  <1>3. PICK n \in Nat :
          /\ n <= Len(out) /\ Len(pipe[c]) + n <= Window
          /\ tx' = [Without(tx, cs, <<>>) EXCEPT ![c] = SubSeq(out, n + 1, Len(out))]
          /\ pipe' = [Without(pipe, cs, <<>>) EXCEPT ![c] = @ \o SubSeq(out, 1, n)]
    <2> DEFINE a == Len(pipe[c])
               m == Len(out)
               room == Window - a
               n == IF room < m THEN room ELSE m
    <2>1. a \in Nat /\ m \in Nat /\ a <= Window /\ Window \in Nat
      BY <1>1, <1>2, LenProperties, Constants
    <2>2. /\ tx' = [Without(tx, cs, <<>>) EXCEPT ![c] = SubSeq(out, n + 1, Len(out))]
          /\ pipe' = [Without(pipe, cs, <<>>) EXCEPT ![c] = @ \o SubSeq(out, 1, n)]
      BY DEF Flush, Left
    <2> HIDE DEF a, m
    <2>3. n \in Nat /\ n <= m /\ a + n <= Window
      BY <2>1
    <2> QED BY <2>2, <2>3 DEF a, m
  <1> DEFINE both == pipe[c] \o SubSeq(out, 1, n)
             rest == SubSeq(out, n + 1, Len(out))
             sum == total[c] + Len(out) - Len(tx[c])
  <1>4. /\ both \in Seq(Nat) /\ rest \in Seq(Nat) /\ sum \in Nat
        /\ Len(both) = Len(pipe[c]) + n
        /\ UnderWay(both, rest, got[c], sum)
    <2> DEFINE p == pipe[c]
               t == tx[c]
               g == got[c]
               k == total[c]
    <2>1. /\ p \in Seq(Nat) /\ t \in Seq(Nat) /\ g \in Nat /\ k \in Nat
          /\ UnderWay(p, t, g, k) /\ Len(out) >= Len(t) /\ Behind(out, p, g)
          /\ n \in Nat /\ n <= Len(out)
      BY <1>1, <1>2, <1>3
    <2> HIDE DEF p, t, g, k
    <2>2. /\ p \o SubSeq(out, 1, n) \in Seq(Nat) /\ SubSeq(out, n + 1, Len(out)) \in Seq(Nat)
          /\ Len(p \o SubSeq(out, 1, n)) = Len(p) + n
          /\ k + Len(out) - Len(t) \in Nat
          /\ UnderWay(p \o SubSeq(out, 1, n), SubSeq(out, n + 1, Len(out)),
                      g, k + Len(out) - Len(t))
      BY <2>1, FlushedStream
    <2> QED BY <2>2 DEF p, t, g, k
  <1>5. /\ tx' = [x \in Conns |-> IF x = c THEN rest ELSE IF x \in cs THEN <<>> ELSE tx[x]]
        /\ pipe' = [x \in Conns |-> IF x = c THEN both ELSE IF x \in cs THEN <<>> ELSE pipe[x]]
        /\ total' = [x \in Conns |-> IF x = c THEN sum ELSE IF x \in cs THEN 0 ELSE total[x]]
        /\ got' = [x \in Conns |-> IF x \in cs THEN 0 ELSE got[x]]
    BY <1>3 DEF Flush, Drop, Without
  <1>6. Len(both) <= Window
    BY <1>3, <1>4
  <1> HIDE DEF both, rest, sum
  <1>7. tx' \in [Conns -> Seq(Nat)]
    BY <1>4, <1>5, NothingUnderWay DEF LoopType
  <1>8. pipe' \in [Conns -> Seq(Nat)]
    BY <1>4, <1>5, NothingUnderWay DEF LoopType
  <1>9. total' \in [Conns -> Nat]
    BY <1>4, <1>5 DEF LoopType
  <1>10. ASSUME NEW x \in Conns
         PROVE  Len(pipe'[x]) <= Window /\ UnderWay(pipe'[x], tx'[x], got'[x], total'[x])
    <2>1. CASE x = c
      <3>1. pipe'[x] = both /\ tx'[x] = rest /\ got'[x] = got[c] /\ total'[x] = sum
        BY <1>5, <2>1
      <3> QED BY <1>4, <1>6, <3>1
    <2>2. CASE x # c /\ x \in cs
      BY <1>5, <2>2, NothingUnderWay
    <2>3. CASE x # c /\ x \notin cs
      <3>1. pipe'[x] = pipe[x] /\ tx'[x] = tx[x] /\ got'[x] = got[x] /\ total'[x] = total[x]
        BY <1>5, <2>3
      <3> QED BY <3>1 DEF StreamsSound
    <2> QED BY <2>1, <2>2, <2>3
  <1> QED BY <1>7, <1>8, <1>9, <1>10 DEF StreamsSound

-----------------------------------------------------------------------------
(* The loop's steps.                                                       *)

\* All that an event or the sweep leaves behind.
LEMMA AfterDrop ==
  ASSUME LoopInv, NEW cs \in SUBSET Live, Drop(cs), queue' = queue, impl' = impl,
         NEW names \in SUBSET Live, NEW unread \in [Conns -> Nat], NEW ages,
         Leaves(names, unread, ages),
         tx' \in [Conns -> Seq(Nat)], pipe' \in [Conns -> Seq(Nat)],
         total' \in [Conns -> Nat], StreamsSound',
         \A e \in batch' : e = ListenEvent \/ Current(e),
         ListenEvent \in batch' => ListenEvent \in batch
  PROVE  LoopInv'
  <1> USE DEF LoopInv
  <1>1. /\ at' \in [Conns -> {"new", "queued", "live", "gone"}]
        /\ slot' \in [Slots -> Conns \cup {None}] /\ gen' \in [Slots -> Nat]
        /\ got' \in [Conns -> Nat]
        /\ \A c \in Conns : at[c] = "live" => at'[c] = IF c \in cs THEN "gone" ELSE "live"
        /\ QueueSound' /\ TableSound'
    BY DropKeepsTable
  <1>2. named' \subseteq Live'
    BY <1>1 DEF Leaves, Live, Gone
  <1>3. inbox' \in [Conns -> Nat]
    BY DEF Leaves, Without
  <1>4. LoopType'
    BY <1>1, <1>2, <1>3 DEF LoopType
  <1>5. ReportsCurrent'
    <2>1. ASSUME NEW e \in batch', e # ListenEvent PROVE Current(e)'
      <3>1. Current(e)
        BY <2>1
      <3> QED BY <3>1, DropKeepsReports
    <2>2. (\A e \in batch : e = ListenEvent \/ Current(e))' 
      BY <2>1
    <2> QED BY <2>2 DEF ReportsCurrent
  <1> QED BY <1>1, <1>4, <1>5

\* flush() of a client's backlog.
LEMMA FlushIsDrop ==
  ASSUME LoopInv, NEW c \in Conns, Flush(c, tx[c], {})
  PROVE  /\ Drop({})
         /\ tx' \in [Conns -> Seq(Nat)] /\ pipe' \in [Conns -> Seq(Nat)]
         /\ total' \in [Conns -> Nat] /\ StreamsSound'
  <1>1. tx[c] \in Seq(Nat) /\ Len(tx[c]) >= Len(tx[c]) /\ c \notin {}
    BY LenProperties DEF LoopInv, LoopType
  <1>2. Behind(tx[c], pipe[c], got[c])
    BY DEF LoopInv, StreamsSound, UnderWay
  <1>3. LoopType /\ StreamsSound
    BY DEF LoopInv
  <1>4. Drop({})
    BY DEF Flush
  <1> QED BY <1>1, <1>2, <1>3, <1>4, FlushKeepsStreams

\* send() to a client, perhaps after others were dropped, drops those and
\* perhaps the client, and keeps the streams of those who are left.
LEMMA SendIsDrop ==
  ASSUME LoopInv, NEW c \in Live, NEW cs \in SUBSET Live, c \notin cs, Send(c, cs)
  PROVE  \E ds \in SUBSET Live :
           /\ Drop(ds)
           /\ tx' \in [Conns -> Seq(Nat)] /\ pipe' \in [Conns -> Seq(Nat)]
           /\ total' \in [Conns -> Nat] /\ StreamsSound'
  <1> DEFINE frame == [i \in 1..FrameLen |-> total[c] + i]
  <1>1. CASE Flush(c, tx[c] \o frame, cs)
    <2>1. /\ c \in Conns /\ tx[c] \in Seq(Nat) /\ pipe[c] \in Seq(Nat)
          /\ total[c] \in Nat /\ got[c] \in Nat
          /\ UnderWay(pipe[c], tx[c], got[c], total[c])
      BY DEF LoopInv, LoopType, StreamsSound, Live
    <2>2. frame \in Seq(Nat) /\ Len(frame) = 2 /\ \A i \in 1..2 : frame[i] = total[c] + i
      BY <2>1 DEF FrameLen
    <2> DEFINE a == Len(pipe[c])
               b == Len(tx[c])
               out == tx[c] \o frame
    <2>3. a \in Nat /\ b \in Nat /\ a + b = total[c] - got[c]
      BY <2>1, LenProperties DEF UnderWay
    <2>4. \A i \in 1..b : tx[c][i] = got[c] + a + i
      BY <2>1 DEF UnderWay, Behind
    <2> HIDE DEF frame
    <2>5. /\ out \in Seq(Nat) /\ Len(out) = b + 2
          /\ \A i \in 1..(b + 2) : out[i] = IF i <= b THEN tx[c][i] ELSE frame[i - b]
      <3>1. /\ out \in Seq(Nat) /\ Len(out) = b + Len(frame)
            /\ \A i \in 1..(b + Len(frame)) :
                 out[i] = IF i <= b THEN tx[c][i] ELSE frame[i - b]
        BY ZenonT(30), <2>1, <2>2, ConcatProperties
      <3> QED BY <2>2, <3>1
    <2> HIDE DEF out, a, b
    <2>6. ASSUME NEW i \in 1..(b + 2) PROVE out[i] = got[c] + a + i
      <3>1. CASE i <= b
        BY SMTT(30), <2>3, <2>4, <2>5, <3>1
      <3>2. CASE ~(i <= b)
        <4> DEFINE k == total[c]
                   g == got[c]
        <4>1. k \in Nat /\ g \in Nat /\ a + b = k - g
          BY <2>1, <2>3
        <4>2. out[i] = frame[i - b]
          BY <2>5, <3>2
        <4> HIDE DEF k, g
        <4>3. i - b \in 1..2 /\ k + (i - b) = g + a + i
          BY <2>3, <3>2, <4>1
        <4> QED BY <2>2, <4>2, <4>3 DEF k, g
      <3> QED BY <3>1, <3>2
    <2>7. Behind(out, pipe[c], got[c])
      BY <2>5, <2>6 DEF Behind, a
    <2>8. Len(out) >= Len(tx[c])
      BY <2>3, <2>5 DEF b
    <2>9. Flush(c, out, cs) /\ LoopType /\ StreamsSound
      BY <1>1 DEF out, LoopInv
    <2>10. /\ tx' \in [Conns -> Seq(Nat)] /\ pipe' \in [Conns -> Seq(Nat)]
           /\ total' \in [Conns -> Nat] /\ StreamsSound'
      BY <2>1, <2>5, <2>7, <2>8, <2>9, FlushKeepsStreams
    <2>11. Drop(cs)
      BY <2>9 DEF Flush
    <2> QED BY <2>10, <2>11
  <1>2. CASE Silent(cs \cup {c})
    <2>1. cs \cup {c} \in SUBSET Live /\ Drop(cs \cup {c})
      BY <1>2 DEF Silent
    <2>2. /\ tx' \in [Conns -> Seq(Nat)] /\ pipe' \in [Conns -> Seq(Nat)]
          /\ total' \in [Conns -> Nat] /\ StreamsSound'
      BY <1>2, SilentKeepsStreams DEF LoopInv
    <2> QED BY <2>1, <2>2
  <1> QED BY <1>1, <1>2 DEF Send

\* The client found for a report is live, and is the one reported.
LEMMA FoundIsReported ==
  ASSUME LoopInv, NEW e \in batch, e # ListenEvent, Found(e) # None
  PROVE  Found(e) \in Live /\ Found(e) = e.conn
  <1>1. Current(e) /\ LoopType /\ TableSound
    BY DEF LoopInv, ReportsCurrent
  <1>2. CASE impl = "c"
    BY <1>1, <1>2 DEF Found, Current, TableSound, LoopType, Live
  <1>3. CASE impl # "c"
    BY <1>3 DEF Found
  <1> QED BY <1>2, <1>3

\* The steps that serve an event, and the sweep.
LEMMA FlushStepInv ==
  ASSUME LoopInv, NEW e \in batch, e # ListenEvent, FlushStep(e)
  PROVE  LoopInv'
  <1>1. \A x \in batch' : x = ListenEvent \/ Current(x)
    <2>1. Current(e)
      BY DEF LoopInv, ReportsCurrent
    <2>2. [e EXCEPT !.write = FALSE].conn = e.conn
          /\ [e EXCEPT !.write = FALSE].slot = e.slot
          /\ [e EXCEPT !.write = FALSE].gen = e.gen
      OBVIOUS
    <2>3. Current([e EXCEPT !.write = FALSE])
      BY <2>1, <2>2 DEF Current
    <2> QED BY <2>3 DEF FlushStep, LoopInv, ReportsCurrent
  <1>2. ListenEvent \in batch' => ListenEvent \in batch
    <2>1. e.conn \in Conns
      BY DEF LoopInv, ReportsCurrent, Current
    <2>2. [e EXCEPT !.write = FALSE].conn = e.conn
      OBVIOUS
    <2>3. [e EXCEPT !.write = FALSE] # ListenEvent
      BY <2>1, <2>2, Constants DEF ListenEvent
    <2> QED BY <2>3 DEF FlushStep
  <1>3. queue' = queue /\ impl' = impl
    BY DEF FlushStep
  <1>4. CASE Found(e) = None
    <2>1. UNCHANGED <<clients, stream, inbox, hungup>>
      BY <1>4 DEF FlushStep
    <2> QED BY <1>1, <1>2, <1>3, <2>1
        DEF LoopInv, LoopType, QueueSound, TableSound, ReportsCurrent, StreamsSound,
            Current, Live, clients, stream
  <1>5. CASE Found(e) # None
    <2> DEFINE c == Found(e)
    <2>1. c \in Live /\ c \in Conns
      BY <1>5, FoundIsReported DEF Live
    <2>2. /\ Flush(c, tx[c], {}) \/ Silent({c})
          /\ Leaves(named, inbox, age)
      BY <1>5 DEF FlushStep
    <2> HIDE DEF c
    <2>3. \E ds \in SUBSET Live :
            /\ Drop(ds)
            /\ tx' \in [Conns -> Seq(Nat)] /\ pipe' \in [Conns -> Seq(Nat)]
            /\ total' \in [Conns -> Nat] /\ StreamsSound'
      <3>1. CASE Flush(c, tx[c], {})
        BY <2>1, <3>1, FlushIsDrop
      <3>2. CASE Silent({c})
        BY <2>1, <3>2, SilentKeepsStreams DEF Silent, LoopInv
      <3> QED BY <2>2, <3>1, <3>2
    <2>4. named \in SUBSET Live /\ inbox \in [Conns -> Nat]
      BY DEF LoopInv, LoopType
    <2> QED BY <1>1, <1>2, <1>3, <2>2, <2>3, <2>4, AfterDrop
  <1> QED BY <1>4, <1>5

LEMMA ReadStepInv ==
  ASSUME LoopInv, NEW e \in batch, e # ListenEvent, ReadStep(e)
  PROVE  LoopInv'
  <1>1. /\ \A x \in batch' : x = ListenEvent \/ Current(x)
        /\ ListenEvent \in batch' => ListenEvent \in batch
        /\ queue' = queue /\ impl' = impl
    BY DEF ReadStep, LoopInv, ReportsCurrent
  <1>2. CASE Found(e) = None
    <2>1. UNCHANGED <<clients, stream, inbox, hungup>>
      BY <1>2 DEF ReadStep
    <2> QED BY <1>1, <2>1
        DEF LoopInv, LoopType, QueueSound, TableSound, ReportsCurrent, StreamsSound,
            Current, Live, clients, stream
  <1>3. CASE Found(e) # None
    <2> DEFINE c == Found(e)
               unread == [inbox EXCEPT ![c] = @ - 1]
    <2>1. c \in Live /\ c \in Conns
      BY <1>3, FoundIsReported DEF Live
    <2>2. named \in SUBSET Live /\ inbox \in [Conns -> Nat]
      BY DEF LoopInv, LoopType
    <2>3. \/ inbox[c] > 0 /\ Frame(c)
          \/ Silent({c} \cap hungup) /\ Leaves(named, inbox, age)
      BY <1>3 DEF ReadStep
    <2> HIDE DEF c
    <2>4. CASE inbox[c] > 0 /\ Frame(c)
      <3>1. unread \in [Conns -> Nat]
        BY <2>1, <2>2, <2>4
      <3> HIDE DEF unread
      <3>2. PICK t \in Live, cs \in SUBSET Live, names \in SUBSET Live :
              t \notin cs /\ Send(t, cs) /\ Leaves(names, unread, age)
        <4>1. CASE \E old \in {{}} \cup {{x} : x \in named \ {c}} :
                     Send(c, old) /\ Leaves(named \cup {c}, unread, age)
          <5>1. PICK old \in {{}} \cup {{x} : x \in named \ {c}} :
                       Send(c, old) /\ Leaves(named \cup {c}, unread, age)
            BY <4>1
          <5>2. old \in SUBSET Live /\ c \notin old /\ named \cup {c} \in SUBSET Live
            BY <2>1, <2>2
          <5> QED BY <2>1, <5>1, <5>2
        <4>2. CASE \E t \in named : Send(t, {}) /\ Leaves(named, unread, age)
          <5>1. PICK t \in named : Send(t, {}) /\ Leaves(named, unread, age)
            BY <4>2
          <5>2. t \in Live /\ {} \in SUBSET Live /\ t \notin {}
            BY <2>2
          <5> QED BY <2>2, <5>1, <5>2
        <4> QED BY <2>4, <4>1, <4>2 DEF Frame, unread
      <3>3. \E ds \in SUBSET Live :
              /\ Drop(ds)
              /\ tx' \in [Conns -> Seq(Nat)] /\ pipe' \in [Conns -> Seq(Nat)]
              /\ total' \in [Conns -> Nat] /\ StreamsSound'
        BY <3>2, SendIsDrop
      <3> QED BY <1>1, <3>1, <3>2, <3>3, AfterDrop
    <2>5. CASE Silent({c} \cap hungup) /\ Leaves(named, inbox, age)
      <3> DEFINE cs == {c} \cap hungup
      <3>1. cs \in SUBSET Live /\ Silent(cs) /\ Drop(cs)
        BY <2>1, <2>5 DEF Silent
      <3>2. /\ tx' \in [Conns -> Seq(Nat)] /\ pipe' \in [Conns -> Seq(Nat)]
            /\ total' \in [Conns -> Nat] /\ StreamsSound'
        BY <3>1, SilentKeepsStreams DEF LoopInv
      <3> HIDE DEF cs
      <3> QED BY <1>1, <2>2, <2>5, <3>1, <3>2, AfterDrop
    <2> QED BY <2>3, <2>4, <2>5
  <1> QED BY <1>2, <1>3

LEMMA SweepInv ==
  ASSUME LoopInv, Sweep
  PROVE  LoopInv'
  <1> DEFINE unnamed == Live \ named
             cs == {c \in unnamed : Overdue(c)}
             ages == [c \in Conns |-> IF c \in unnamed THEN age[c] + 1 ELSE age[c]]
  <1>1. /\ cs \in SUBSET Live /\ Silent(cs) /\ Drop(cs) /\ Leaves(named, inbox, ages)
        /\ queue' = queue /\ impl' = impl /\ batch' = batch
    BY DEF Sweep, Silent
  <1> HIDE DEF cs, ages
  <1>2. /\ tx' \in [Conns -> Seq(Nat)] /\ pipe' \in [Conns -> Seq(Nat)]
        /\ total' \in [Conns -> Nat] /\ StreamsSound'
    BY <1>1, SilentKeepsStreams DEF LoopInv
  <1>3. named \in SUBSET Live /\ inbox \in [Conns -> Nat]
    BY DEF LoopInv, LoopType
  <1>4. \A x \in batch' : x = ListenEvent \/ Current(x)
    BY <1>1 DEF LoopInv, ReportsCurrent
  <1> QED BY <1>1, <1>2, <1>3, <1>4, AfterDrop

\* accept(): the slot it takes was nobody's, and no report is for it.
LEMMA AcceptInv ==
  ASSUME LoopInv, Accept
  PROVE  LoopInv'
  <1> DEFINE c == Head(queue)
             free == CHOOSE s \in Slots :
                       slot[s] = None /\ \A t \in Slots : slot[t] = None => s <= t
             rest == Tail(queue)
  <1>1. LoopType /\ QueueSound /\ TableSound /\ ReportsCurrent /\ StreamsSound
    BY DEF LoopInv
  <1>2. queue # <<>> /\ queue \in Seq(Conns) /\ Len(queue) \in Nat
    BY <1>1, LenProperties DEF Accept, ReportsCurrent, LoopType
  <1>3. /\ c = queue[1] /\ c \in Conns /\ 1 \in 1..Len(queue) /\ at[c] = "queued"
        /\ rest \in Seq(Conns) /\ Len(rest) = Len(queue) - 1
        /\ \A i \in 1..Len(rest) : rest[i] = queue[i + 1]
    <2>1. Len(queue) >= 1
      BY <1>2, EmptySeq
    <2>2. c = queue[1] /\ 1 \in 1..Len(queue)
      BY <1>2, <2>1
    <2>3. c \in Conns /\ at[c] = "queued"
      BY <1>1, <1>2, <2>2, ElementOfSeq DEF QueueSound
    <2> QED BY <1>2, <2>2, <2>3, HeadTailProperties
  <1>4. /\ queue' = rest /\ batch' = batch \ {ListenEvent}
        /\ impl' = impl /\ gen' = gen /\ named' = named
        /\ tx' = tx /\ pipe' = pipe /\ total' = total /\ got' = got
        /\ inbox' = IF Admits(c) THEN inbox ELSE [inbox EXCEPT ![c] = 0]
        /\ \/ /\ Admits(c)
              /\ at' = [at EXCEPT ![c] = "live"] /\ slot' = [slot EXCEPT ![free] = c]
           \/ at' = [at EXCEPT ![c] = "gone"] /\ slot' = slot
    BY DEF Accept, stream
  <1>5. Admits(c) => free \in Slots /\ slot[free] = None
    <2> SUFFICES ASSUME Admits(c) PROVE free \in Slots /\ slot[free] = None
      OBVIOUS
    <2>1. \E s \in Slots : slot[s] = None /\ \A t \in Slots : slot[t] = None => s <= t
      BY <1>1, FreeSlot DEF Admits
    <2> QED BY <2>1
  <1> HIDE DEF c, free, rest
  <1>6. \A x \in Conns : at[x] = "live" => at'[x] = "live"
    BY <1>1, <1>3, <1>4 DEF LoopType
  <1>7. LoopType'
    <2>1. named' \subseteq Live'
      BY <1>1, <1>4, <1>6 DEF LoopType, Live
    <2>2. at' \in [Conns -> {"new", "queued", "live", "gone"}]
      BY ZenonT(30), <1>1, <1>3, <1>4 DEF LoopType
    <2>3. slot' \in [Slots -> Conns \cup {None}]
      <3>1. slot \in [Slots -> Conns \cup {None}] /\ c \in Conns
        BY <1>1, <1>3 DEF LoopType
      <3>2. CASE slot' = slot
        BY <3>1, <3>2
      <3>3. CASE Admits(c) /\ slot' = [slot EXCEPT ![free] = c]
        BY <1>5, <3>1, <3>3
      <3> QED BY <1>4, <3>2, <3>3
    <2>4. inbox' \in [Conns -> Nat]
      BY <1>1, <1>3, <1>4 DEF LoopType
    <2>5. queue' \in Seq(Conns)
      BY <1>3, <1>4
    <2> QED BY <1>1, <1>4, <2>1, <2>2, <2>3, <2>4, <2>5 DEF LoopType
  <1>8. QueueSound'
    <2>1. \A i \in 1..Len(rest) : i + 1 \in 1..Len(queue) /\ i + 1 # 1
      BY <1>2, <1>3
    <2>2. \A i \in 1..Len(queue) : queue[i] \in Conns
      BY <1>2, ElementOfSeq
    <2>3. ASSUME NEW i \in 1..Len(rest) PROVE at'[rest[i]] = "queued"
      <3>1. rest[i] = queue[i + 1] /\ queue[i + 1] \in Conns /\ queue[i + 1] # queue[1]
        BY <1>1, <1>3, <2>1, <2>2 DEF QueueSound
      <3>2. at[queue[i + 1]] = "queued"
        BY <1>1, <2>1 DEF QueueSound
      <3>3. at \in [Conns -> {"new", "queued", "live", "gone"}] /\ rest[i] # c
        BY <1>1, <1>3, <3>1 DEF LoopType
      <3>4. at' = [at EXCEPT ![c] = "live"] \/ at' = [at EXCEPT ![c] = "gone"]
        BY <1>4
      <3>5. at'[rest[i]] = at[rest[i]]
        BY <3>1, <3>3, <3>4
      <3> QED BY <3>1, <3>2, <3>5
    <2>4. ASSUME NEW i \in 1..Len(rest), NEW j \in 1..Len(rest), rest[i] = rest[j]
          PROVE  i = j
      <3>1. i + 1 = j + 1
        BY <1>1, <1>3, <2>1, <2>4 DEF QueueSound
      <3>2. i \in Int /\ j \in Int
        OBVIOUS
      <3> QED BY <3>1, <3>2
    <2> QED BY <1>4, <2>3, <2>4 DEF QueueSound
  <1>9. TableSound'
    <2>1. CASE Admits(c) /\ at' = [at EXCEPT ![c] = "live"] /\ slot' = [slot EXCEPT ![free] = c]
      <3>1. /\ at'[c] = "live" /\ (\A x \in Conns : x # c => at'[x] = at[x])
            /\ free \in Slots /\ slot'[free] = c
            /\ \A s \in Slots : s # free => slot'[s] = slot[s]
        BY <1>1, <1>3, <1>5, <2>1 DEF LoopType
      <3>2. \A s \in Slots : slot[s] # c /\ (slot[s] # None => slot[s] \in Conns)
        <4>1. \A s \in Slots : slot[s] # None => slot[s] \in Conns /\ at[slot[s]] = "live"
          BY <1>1 DEF TableSound, LoopType
        <4>2. c # None /\ at[c] # "live"
          BY <1>3, Constants
        <4> QED BY <4>1, <4>2
      <3>3. ASSUME NEW s \in Slots, slot'[s] # None PROVE at'[slot'[s]] = "live"
        BY <1>1, <3>1, <3>2, <3>3 DEF TableSound
      <3>4. ASSUME NEW s \in Slots, NEW t \in Slots, slot'[s] # None, slot'[s] = slot'[t]
            PROVE  s = t
        BY <1>1, <3>1, <3>2, <3>4 DEF TableSound
      <3>5. ASSUME NEW x \in Conns, at'[x] = "live" PROVE \E s \in Slots : slot'[s] = x
        <4>1. CASE x = c
          BY <3>1, <4>1
        <4>2. CASE x # c
          <5>1. PICK s \in Slots : slot[s] = x
            BY <1>1, <3>1, <3>5, <4>2 DEF TableSound
          <5>2. s # free
            BY <1>5, <2>1, <5>1, Constants
          <5> QED BY <3>1, <5>1, <5>2
        <4> QED BY <4>1, <4>2
      <3> QED BY <3>3, <3>4, <3>5 DEF TableSound
    <2>2. CASE at' = [at EXCEPT ![c] = "gone"] /\ slot' = slot
      <3>1. at'[c] = "gone" /\ \A x \in Conns : x # c => at'[x] = at[x]
        BY <1>1, <1>3, <2>2 DEF LoopType
      <3>2. \A s \in Slots : slot[s] # c /\ (slot[s] # None => slot[s] \in Conns)
        <4>1. \A s \in Slots : slot[s] # None => slot[s] \in Conns /\ at[slot[s]] = "live"
          BY <1>1 DEF TableSound, LoopType
        <4>2. c # None /\ at[c] # "live"
          BY <1>3, Constants
        <4> QED BY <4>1, <4>2
      <3> QED BY <1>1, <2>2, <3>1, <3>2 DEF TableSound
    <2> QED BY <1>4, <2>1, <2>2
  <1>10. ReportsCurrent'
    <2>1. ListenEvent \notin batch'
      BY <1>4
    <2>2. ASSUME NEW e \in batch', e # ListenEvent PROVE Current(e)'
      <3>1. Current(e) /\ e.slot \in Slots /\ e.conn \in Conns
        BY <1>1, <1>4, <2>2 DEF ReportsCurrent, Current
      <3>2. CASE slot' = slot
        BY <1>4, <3>1, <3>2 DEF Current
      <3>3. CASE Admits(c) /\ slot' = [slot EXCEPT ![free] = c]
        <4>1. e.gen = gen[e.slot] => e.slot # free
          BY <1>5, <3>1, <3>3, Constants DEF Current
        <4>2. e.slot # free => slot'[e.slot] = slot[e.slot]
          BY <1>1, <3>1, <3>3 DEF LoopType
        <4> QED BY <1>4, <3>1, <4>1, <4>2 DEF Current
      <3> QED BY <1>4, <3>2, <3>3
    <2> QED BY <2>1, <2>2 DEF ReportsCurrent
  <1>11. StreamsSound'
    BY <1>1, <1>4 DEF StreamsSound
  <1> QED BY <1>7, <1>8, <1>9, <1>10, <1>11 DEF LoopInv

\* select(): every report is of a live connection, with its slot as it is.
LEMMA SelectInv ==
  ASSUME LoopInv, Select
  PROVE  LoopInv'
  <1>1. batch' = Pending /\ UNCHANGED <<impl, queue, clients, stream, peers>>
    BY DEF Select
  <1>2. ASSUME NEW c \in Live PROVE Current(Event(c)) /\ Event(c) # ListenEvent
    <2>1. SlotOf(c) \in Slots /\ slot[SlotOf(c)] = c /\ c \in Conns
      BY DEF LoopInv, TableSound, Live, SlotOf
    <2>2. gen[SlotOf(c)] \in Nat
      BY <2>1 DEF LoopInv, LoopType
    <2>3. /\ Event(c).conn = c /\ Event(c).slot = SlotOf(c)
          /\ Event(c).gen = gen[SlotOf(c)] /\ ListenEvent.conn = None
      BY DEF Event, ListenEvent
    <2> QED BY <2>1, <2>2, <2>3, Constants DEF Current
  <1>3. \A e \in Pending : e = ListenEvent \/ Current(e)
    BY <1>2 DEF Pending
  <1>4. ListenEvent \in Pending => queue # <<>>
    BY <1>2 DEF Pending
  <1>5. ReportsCurrent'
    BY <1>1, <1>3, <1>4 DEF ReportsCurrent, Current, clients
  <1> QED BY <1>1, <1>5
      DEF LoopInv, LoopType, QueueSound, TableSound, StreamsSound, Live, clients, stream, peers

\* The clients' own steps.
LEMMA ConnectInv ==
  ASSUME LoopInv, NEW c \in Conns, Connect(c)
  PROVE  LoopInv'
  <1> DEFINE n == Len(queue)
             q == Append(queue, c)
  <1>1. LoopType /\ QueueSound /\ TableSound /\ ReportsCurrent /\ StreamsSound
    BY DEF LoopInv
  <1>2. /\ at[c] = "new" /\ at' = [at EXCEPT ![c] = "queued"] /\ queue' = q
        /\ UNCHANGED <<impl, batch, slot, gen, named, inbox, tx, pipe, total, got>>
    BY DEF Connect, stream, peers
  <1>3. /\ n \in Nat /\ q \in Seq(Conns) /\ q # <<>> /\ Len(q) = n + 1
        /\ (\A i \in 1..n : q[i] = queue[i] /\ queue[i] \in Conns) /\ q[n + 1] = c
    <2>1. queue \in Seq(Conns)
      BY <1>1 DEF LoopType
    <2>2. n \in Nat /\ \A i \in 1..n : queue[i] \in Conns
      BY <2>1, LenProperties, ElementOfSeq
    <2>3. /\ q \in Seq(Conns) /\ q # <<>> /\ Len(q) = n + 1
          /\ (\A i \in 1..n : q[i] = queue[i]) /\ q[n + 1] = c
      BY <2>1, AppendProperties
    <2> QED BY <2>2, <2>3
  <1>4. at'[c] = "queued" /\ \A x \in Conns : x # c => at'[x] = at[x]
    BY <1>1, <1>2 DEF LoopType
  <1>5. \A i \in 1..n : at[queue[i]] = "queued" /\ queue[i] # c
    BY <1>1, <1>2 DEF QueueSound
  <1>6. \A i, j \in 1..n : queue[i] = queue[j] => i = j
    BY <1>1 DEF QueueSound
  <1> HIDE DEF n, q
  <1>7. LoopType'
    <2>1. named' \subseteq Live'
      BY <1>1, <1>2, <1>4 DEF LoopType, Live
    <2>2. at' \in [Conns -> {"new", "queued", "live", "gone"}]
      BY <1>1, <1>2 DEF LoopType
    <2> QED BY <1>1, <1>2, <1>3, <2>1, <2>2 DEF LoopType
  <1>8. QueueSound'
    <2>1. \A i \in 1..Len(q) : i \in 1..n \/ i = n + 1
      BY <1>3
    <2>2. \A i \in 1..Len(q) : at'[q[i]] = "queued"
      BY <1>3, <1>4, <1>5, <2>1
    <2>3. \A i, j \in 1..Len(q) : q[i] = q[j] => i = j
      BY <1>3, <1>5, <1>6, <2>1
    <2> QED BY <1>2, <2>2, <2>3 DEF QueueSound
  <1>9. TableSound'
    <2>1. \A s \in Slots : slot[s] # None => slot[s] \in Conns /\ slot[s] # c
      BY <1>1, <1>2 DEF TableSound, LoopType
    <2> QED BY <1>1, <1>2, <1>4, <2>1 DEF TableSound
  <1>10. ReportsCurrent'
    BY <1>1, <1>2, <1>3 DEF ReportsCurrent, Current
  <1>11. StreamsSound'
    BY <1>1, <1>2 DEF StreamsSound
  <1> QED BY <1>7, <1>8, <1>9, <1>10, <1>11 DEF LoopInv

LEMMA ReadInv ==
  ASSUME LoopInv, NEW c \in Conns, Read(c)
  PROVE  LoopInv'
  <1> DEFINE p == pipe[c]
             t == tx[c]
             g == got[c]
             k == total[c]
             a == Len(p)
  <1>1. LoopType /\ QueueSound /\ TableSound /\ ReportsCurrent /\ StreamsSound
    BY DEF LoopInv
  <1>2. /\ p # <<>> /\ got' = [got EXCEPT ![c] = Head(p)] /\ pipe' = [pipe EXCEPT ![c] = Tail(p)]
        /\ UNCHANGED <<impl, queue, batch, clients, peers, tx, total>>
    BY DEF Read
  <1>3. p \in Seq(Nat) /\ t \in Seq(Nat) /\ g \in Nat /\ k \in Nat /\ a \in Nat
    BY <1>1, LenProperties DEF LoopType
  <1>4. a <= Window /\ UnderWay(p, t, g, k)
    BY <1>1 DEF StreamsSound
  <1>5. pipe'[c] = Tail(p) /\ got'[c] = Head(p) /\ tx'[c] = t /\ total'[c] = k
    BY <1>1, <1>2 DEF LoopType
  <1> HIDE DEF p, t, g, k
  <1>6. /\ a >= 1 /\ Head(p) = p[1] /\ Tail(p) \in Seq(Nat) /\ Len(Tail(p)) = a - 1
        /\ \A i \in 1..Len(Tail(p)) : Tail(p)[i] = p[i + 1]
    BY <1>2, <1>3, EmptySeq, HeadTailProperties
  <1>7. a + Len(t) = k - g /\ (\A i \in 1..a : p[i] = g + i) /\ \A i \in 1..Len(t) : t[i] = g + a + i
    BY <1>4 DEF UnderWay, Behind
  <1>8. Len(t) \in Nat
    BY <1>3, LenProperties
  <1> HIDE DEF a
  <1>9. Head(p) = g + 1 /\ Head(p) \in Nat
    BY <1>3, <1>6, <1>7
  <1>10. \A i \in 1..(a - 1) : i + 1 \in 1..a /\ g + (i + 1) = (g + 1) + i
    BY <1>3
  <1>11. (a - 1) + Len(t) = k - (g + 1) /\ a - 1 <= Window
         /\ \A i \in 1..Len(t) : g + a + i = (g + 1) + (a - 1) + i
    BY <1>3, <1>4, <1>7, <1>8, Constants DEF a
  <1>12. UnderWay(Tail(p), t, Head(p), k)
    BY SMTT(30), <1>6, <1>7, <1>9, <1>10, <1>11 DEF UnderWay, Behind
  <1>13. StreamsSound'
    <2>1. \A x \in Conns : x # c => pipe'[x] = pipe[x] /\ got'[x] = got[x]
      BY <1>1, <1>2 DEF LoopType
    <2>2. \A x \in Conns : x # c => tx'[x] = tx[x] /\ total'[x] = total[x]
      BY <1>2
    <2>3. Len(pipe'[c]) <= Window /\ UnderWay(pipe'[c], tx'[c], got'[c], total'[c])
      BY <1>5, <1>6, <1>11, <1>12
    <2> QED BY <1>1, <2>1, <2>2, <2>3 DEF StreamsSound
  <1>14. LoopType'
    <2>1. pipe' \in [Conns -> Seq(Nat)] /\ got' \in [Conns -> Nat]
      BY <1>1, <1>2, <1>6, <1>9 DEF LoopType
    <2> QED BY <1>1, <1>2, <2>1 DEF LoopType, Live, clients, peers
  <1> QED BY <1>1, <1>2, <1>13, <1>14
      DEF LoopInv, QueueSound, TableSound, ReportsCurrent, Current, clients

-----------------------------------------------------------------------------
(* The theorems.                                                           *)

LEMMA LoopInit == Init => LoopInv
  <1> SUFFICES ASSUME Init PROVE LoopInv
    OBVIOUS
  <1>1. LoopType
    <2>1. named \subseteq Live
      BY DEF Init
    <2> QED BY <2>1, NothingUnderWay DEF Init, LoopType
  <1>2. QueueSound
    BY DEF Init, QueueSound
  <1>3. TableSound
    BY DEF Init, TableSound
  <1>4. ReportsCurrent
    BY DEF Init, ReportsCurrent
  <1>5. StreamsSound
    BY NothingUnderWay DEF Init, StreamsSound
  <1> QED BY <1>1, <1>2, <1>3, <1>4, <1>5 DEF LoopInv

LEMMA LoopStep == LoopInv /\ [Next]_vars => LoopInv'
  <1> SUFFICES ASSUME LoopInv, [Next]_vars PROVE LoopInv'
    OBVIOUS
  <1>1. CASE Select
    BY <1>1, SelectInv
  <1>2. CASE Accept
    BY <1>2, AcceptInv
  <1>3. CASE Sweep
    BY <1>3, SweepInv
  <1>4. ASSUME NEW e \in batch \ {ListenEvent}, FlushStep(e) \/ ReadStep(e) PROVE LoopInv'
    BY <1>4, FlushStepInv, ReadStepInv
  <1>5. ASSUME NEW c \in Conns, Connect(c) PROVE LoopInv'
    BY <1>5, ConnectInv
  <1>6. ASSUME NEW c \in Conns, Ask(c) PROVE LoopInv'
    <2>1. inbox' = [inbox EXCEPT ![c] = @ + 1] /\ UNCHANGED <<impl, queue, batch, clients, stream>>
      BY <1>6 DEF Ask
    <2>2. inbox' \in [Conns -> Nat]
      BY <2>1 DEF LoopInv, LoopType
    <2> QED BY ZenonT(30), <2>1, <2>2
        DEF LoopInv, LoopType, QueueSound, TableSound, ReportsCurrent, StreamsSound,
            Current, Live, clients, stream
  <1>7. ASSUME NEW c \in Conns, HangUp(c) PROVE LoopInv'
    BY ZenonT(30), <1>7 DEF HangUp, LoopInv, LoopType, QueueSound, TableSound, ReportsCurrent,
                StreamsSound, Current, Live, clients, stream
  <1>8. ASSUME NEW c \in Conns, Read(c) PROVE LoopInv'
    BY <1>8, ReadInv
  <1>9. CASE UNCHANGED vars
    BY <1>9 DEF vars, LoopInv, LoopType, QueueSound, TableSound, ReportsCurrent,
                StreamsSound, Current, Live, clients, stream, peers
  <1> QED BY <1>1, <1>2, <1>3, <1>4, <1>5, <1>6, <1>7, <1>8, <1>9 DEF Next, Server

(***************************************************************************)
(* The invariant behind the two theorems below: queue, slots, reports and  *)
(* streams are sound in every reachable state of the event loop.           *)
(***************************************************************************)
THEOREM LoopInvariant == Spec => []LoopInv
  <1>1. Init => LoopInv
    BY LoopInit
  <1>2. LoopInv /\ [Next]_vars => LoopInv'
    BY LoopStep
  <1> QED BY <1>1, <1>2, PTL DEF Spec

(***************************************************************************)
(* Whatever pieces flush() hands to the kernel, whoever is dropped and     *)
(* however full a client's backlog is, each client is sent its frames      *)
(* whole and in order.                                                     *)
(***************************************************************************)
THEOREM StreamsStayIntact == Spec => []StreamIntact
  <1>1. LoopInv => StreamIntact
    <2> SUFFICES ASSUME LoopInv, NEW c \in Live
                 PROVE  pipe[c] \o tx[c] = [i \in 1..(total[c] - got[c]) |-> got[c] + i]
      BY DEF StreamIntact
    <2> DEFINE p == pipe[c]
               t == tx[c]
               g == got[c]
               k == total[c]
    <2>1. /\ p \in Seq(Nat) /\ t \in Seq(Nat) /\ g \in Nat /\ k \in Nat
          /\ UnderWay(p, t, g, k)
      BY DEF LoopInv, LoopType, StreamsSound, Live
    <2> HIDE DEF p, t, g, k
    <2>2. p \o t = [i \in 1..(k - g) |-> g + i]
      BY <2>1, UnderWayWhole
    <2> QED BY <2>2 DEF p, t, g, k
  <1> QED BY <1>1, LoopInvariant, PTL

\* A frame is read from the inbox of the client it was reported for.
LEMMA ReadsTheReported ==
  ASSUME LoopInv, Next, NEW c \in Conns, inbox'[c] < inbox[c], at'[c] = "live"
  PROVE  \E e \in batch \ batch' : e.conn = c
  <1>1. inbox \in [Conns -> Nat] /\ at \in [Conns -> {"new", "queued", "live", "gone"}]
        /\ inbox[c] \in Nat /\ ~(inbox[c] < inbox[c])
    BY DEF LoopInv, LoopType
  <1>2. ASSUME NEW names, NEW unread, NEW ages, Leaves(names, unread, ages)
        PROVE  inbox'[c] = unread[c]
    BY <1>2 DEF Leaves, Without, Gone
  <1>3. CASE Select
    BY <1>1, <1>3 DEF Select, peers
  <1>4. CASE Accept
    <2>1. c # Head(queue) \/ Admits(Head(queue))
      BY <1>1, <1>4 DEF Accept
    <2> QED BY <1>1, <1>4, <2>1 DEF Accept
  <1>5. CASE Sweep
    BY <1>1, <1>2, <1>5 DEF Sweep
  <1>6. ASSUME NEW e \in batch \ {ListenEvent}, FlushStep(e) PROVE FALSE
    BY <1>1, <1>2, <1>6 DEF FlushStep
  <1>7. ASSUME NEW e \in batch \ {ListenEvent}, ReadStep(e)
        PROVE  \E x \in batch \ batch' : x.conn = c
    <2>1. e \in batch \ batch'
      BY <1>7 DEF ReadStep
    <2>2. Found(e) # None
      BY <1>1, <1>7 DEF ReadStep
    <2>3. Found(e) \in Conns /\ Found(e) = e.conn
      BY <2>2, FoundIsReported DEF Live
    <2> DEFINE f == Found(e)
               unread == [inbox EXCEPT ![f] = @ - 1]
    <2>4. \/ inbox[f] > 0 /\ Frame(f)
          \/ Leaves(named, inbox, age)
      BY <1>7, <2>2 DEF ReadStep
    <2>5. ~Leaves(named, inbox, age)
      BY <1>1, <1>2
    <2>6. inbox'[c] = unread[c]
      BY <1>2, <2>4, <2>5 DEF Frame
    <2>7. c # f => unread[c] = inbox[c]
      BY <1>1
    <2>8. c = f
      BY <1>1, <2>6, <2>7
    <2> QED BY <2>1, <2>3, <2>8
  <1>8. ASSUME NEW x \in Conns, Connect(x) \/ HangUp(x) \/ Read(x) PROVE FALSE
    BY <1>1, <1>8 DEF Connect, HangUp, Read, peers
  <1>9. ASSUME NEW x \in Conns, Ask(x) PROVE FALSE
    <2>1. inbox'[c] = inbox[c] \/ inbox'[c] = inbox[c] + 1
      BY <1>1, <1>9 DEF Ask
    <2> QED BY <1>1, <2>1
  <1> QED BY <1>3, <1>4, <1>5, <1>6, <1>7, <1>8, <1>9 DEF Next, Server

(***************************************************************************)
(* Between a report and its service a client may go and its slot be given  *)
(* to another: the event is then served to nobody, never to the newcomer.  *)
(* It is what tag_of() and the generations of the C port are there for.    *)
(***************************************************************************)
THEOREM EventsServedAsReported == Spec => ServesTheReported
  <1>1. LoopInv /\ [Next]_vars =>
          [\A c \in Conns : (inbox'[c] < inbox[c] /\ at'[c] = "live") =>
             \E e \in batch \ batch' : e.conn = c]_vars
    BY ReadsTheReported
  <1> QED BY <1>1, LoopInvariant, PTL DEF Spec, ServesTheReported
=============================================================================
