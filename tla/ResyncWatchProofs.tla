------------------------- MODULE ResyncWatchProofs --------------------------
(***************************************************************************)
(* Checksums: who notices a divergence, and how often it is repaired, for  *)
(* every value of the constants.                                           *)
(*                                                                         *)
(* A checksum frame carries its tick and no mark of its timeline, just as  *)
(* an input does.  It is compared with the record of that very tick, and   *)
(* RS_CLR_CRC empties the records at BEGIN and at a rebase.  Every report  *)
(* still under way then is of a tick below the new timeline's first one,   *)
(* so it meets no record, or one of its own timeline.                      *)
(*                                                                         *)
(* The invariant follows the checksums and the requests along the labels   *)
(* of module ResyncProofs, and counts the pushes they can still lead to.   *)
(***************************************************************************)
EXTENDS ResyncProofs

\* The records of a console, and a host that has not died.
Slots == 0..(CrcSlots - 1)
Alive == pc[Host] # "off"

\* The checksums in q, and the requests.
Crcs(q) == {q[k] : k \in {j \in 1..Len(q) : q[j].type = "CRC"}}
Requests(q) == {k \in 1..Len(q) : q[k].type = "RESYNC"}

\* What is on its way to a guest in timeline e: the names its host reports, with
\* the timeline they are of, and the names its host gives to new timelines.
Sums(q, e) == {<<Label(q, e, k), q[k].val>> : k \in {j \in 1..Len(q) : q[j].type = "CRC"}}
Gifts(q, e) == {<<Label(q, e, k) + 1, q[k].val>> : k \in {j \in 1..Len(q) : q[j].type = "END"}}

\* The names in the records r, and those the guest reports of the timeline that
\* the host has started at tick r.
Seen(r) == {r[i].crc : i \in {j \in Slots : r[j].tick # -1}}
Up(C, r) == {f.val : f \in {g \in C : g.tick >= r}}

\* The guest has, or will get, the name y of the host's state; x is its own.
Same(e, E, G, x, y) == IF e = E THEN x = y ELSE <<E, y>> \in G
\* Then nothing in the host's timeline E tells of another one.
Pure(e, E, G, S, x, y, hs, gs, u) ==
  Same(e, E, G, x, y) =>
    /\ hs \subseteq {y}
    /\ \A s \in S : s[1] = E => s[2] = y
    /\ e = E => gs \subseteq {y} /\ u \subseteq {y}
\* The guest may still see a divergence in timeline l.
Mixed(l, e, E, G, S, x, y, gs) ==
  IF l = E THEN ~Same(e, E, G, x, y)
  ELSE IF l = e THEN (\E s \in S : s[1] = e /\ s[2] # x) \/ (\E v \in gs : v # x)
  ELSE \E g \in G, s \in S : g[1] = l /\ s[1] = l /\ g[2] # s[2]
\* The timelines in which the guest may still ask; it asks once (p) in each.
Open(e, E, G, S, x, y, gs, p) ==
  {l \in e..E : Mixed(l, e, E, G, S, x, y, gs) /\ ~(l = e /\ p)}

\* These, in the state of the system.
Given == Gifts(chan[Guest], line[Guest])
Told == Sums(chan[Guest], line[Guest])

\* A report still under way tells what its console has recorded.
Tells(r, f) == r[CrcSlot(f.tick)].tick = f.tick => f.val = r[CrcSlot(f.tick)].crc
\* A record is of a tick that has been run, in its place; the host's are of the
\* timeline it is in.
Records ==
  /\ \A c \in Seats, i \in Slots :
       rec[c][i].tick # -1 => /\ rec[c][i].tick \in Nat /\ rec[c][i].tick < tick[c]
                              /\ CrcSlot(rec[c][i].tick) = i
  /\ \A i \in Slots : rec[Host][i].tick # -1 => rec[Host][i].tick >= resume[Host]
\* So are the reports under way to the guest.  Those to the host are of its own
\* timeline, or of ticks before it.
Reports ==
  /\ \A f \in Crcs(chan[Guest]) : f.tick < tick[Host] /\ Tells(rec[Host], f)
  /\ \A f \in Crcs(chan[Host]) :
       f.tick >= resume[Host] =>
         line[Guest] = line[Host] /\ f.tick < tick[Guest] /\ Tells(rec[Guest], f)

\* A push is wanted, asked for or under way.
Repairing == pend[Host] \/ Requests(chan[Host]) # {} \/ line[Guest] < line[Host]
\* Two records that disagree are repaired, or one of their reports is still to
\* be read.  A guest that has asked gets its push.
Noticed ==
  /\ \A i \in Slots :
       /\ rec[Host][i].tick # -1 /\ rec[Host][i].tick = rec[Guest][i].tick
       /\ rec[Host][i].crc # rec[Guest][i].crc
       => Repairing \/ \E c \in Seats : \E f \in Crcs(chan[c]) : f.tick = rec[Host][i].tick
  /\ pend[Guest] => Repairing

\* The host bears the name the guest has, or will get when it has taken every
\* push; then all that is said of that timeline agrees.
Agreed == Same(line[Guest], line[Host], Given, base[Guest], base[Host])
Clean == Pure(line[Guest], line[Host], Given, Told, base[Guest], base[Host],
              Seen(rec[Host]), Seen(rec[Guest]), Up(Crcs(chan[Host]), resume[Host]))
\* Every push, request under way, push the host wants or may come to want, and
\* request the guest may still make is paid for by a glitch, at two for each.
Asking == Open(line[Guest], line[Host], Given, Told, base[Guest], base[Host], Seen(rec[Guest]), pend[Guest])
Want == IF pend[Host] \/ ~Agreed THEN 1 ELSE 0
Budget == pushes + (Cardinality(Requests(chan[Host])) + (Want + Cardinality(Asking))) <= 2 * glitches

Watch == Records /\ Reports /\ Noticed /\ Clean /\ Budget
WatchInv == IF Alive THEN Watch ELSE PushesBounded

-----------------------------------------------------------------------------
(* Queues.                                                                 *)

LEMMA CrcsTail ==
  ASSUME NEW q \in Seq(Frames), q # <<>>
  PROVE  /\ Crcs(Tail(q)) \subseteq Crcs(q)
         /\ \A f \in Crcs(q) : f \in Crcs(Tail(q)) \/ f = q[1]
         /\ q[1].type = "CRC" => q[1] \in Crcs(q)
         /\ q[1].type # "CRC" => Crcs(Tail(q)) = Crcs(q)
  <1> DEFINE t == Tail(q)
  <1>1. /\ Len(q) \in Nat /\ Len(q) >= 1 /\ Len(t) = Len(q) - 1 /\ \A i \in 1..Len(t) : t[i] = q[i + 1]
    BY QueueTail
  <1> HIDE DEF t
  <1>2. ASSUME NEW f \in Crcs(t) PROVE f \in Crcs(q)
    <2>1. PICK k \in 1..Len(t) : t[k].type = "CRC" /\ f = t[k]
      BY <1>2 DEF Crcs
    <2>2. k + 1 \in 1..Len(q) /\ q[k + 1] = t[k]
      BY <1>1
    <2> QED BY <2>1, <2>2 DEF Crcs
  <1>3. ASSUME NEW f \in Crcs(q) PROVE f \in Crcs(t) \/ (f = q[1] /\ q[1].type = "CRC")
    <2>1. PICK k \in 1..Len(q) : q[k].type = "CRC" /\ f = q[k]
      BY <1>3 DEF Crcs
    <2>2. CASE k = 1
      BY <2>1, <2>2
    <2>3. CASE k # 1
      <3>1. k - 1 \in 1..Len(t) /\ (k - 1) + 1 = k
        BY <1>1, <2>3
      <3>2. t[k - 1] = q[k]
        BY <1>1, <3>1
      <3> QED BY <2>1, <3>1, <3>2 DEF Crcs
    <2> QED BY <2>2, <2>3
  <1>4. 1 \in 1..Len(q)
    BY <1>1
  <1>5. q[1].type = "CRC" => q[1] \in Crcs(q)
    BY <1>4 DEF Crcs
  <1> QED BY <1>2, <1>3, <1>5 DEF t

LEMMA CrcsMore ==
  ASSUME NEW q \in Seq(Frames), NEW o \in Seq(Frames)
  PROVE  Crcs(q \o o) = Crcs(q) \cup Crcs(o)
  <1> DEFINE a == q \o o
             m == Len(q)
             n == Len(o)
  <1>1. /\ m \in Nat /\ n \in Nat /\ Len(a) = m + n
        /\ \A i \in 1..m : a[i] = q[i]
        /\ \A i \in 1..n : a[m + i] = o[i]
    BY QueueConcat
  <1> HIDE DEF a, m, n
  <1>2. ASSUME NEW f \in Crcs(a) PROVE f \in Crcs(q) \/ f \in Crcs(o)
    <2>1. PICK k \in 1..Len(a) : a[k].type = "CRC" /\ f = a[k]
      BY <1>2 DEF Crcs
    <2>2. CASE k <= m
      <3>1. k \in 1..m
        BY <1>1, <2>2
      <3> QED BY <1>1, <2>1, <3>1 DEF Crcs, m
    <2>3. CASE ~(k <= m)
      <3>1. k - m \in 1..n /\ m + (k - m) = k
        BY <1>1, <2>3
      <3>2. a[k] = o[k - m]
        BY <1>1, <3>1
      <3> QED BY <2>1, <3>1, <3>2 DEF Crcs, n
    <2> QED BY <2>2, <2>3
  <1>3. ASSUME NEW f \in Crcs(q) PROVE f \in Crcs(a)
    <2>1. PICK k \in 1..m : q[k].type = "CRC" /\ f = q[k]
      BY <1>3 DEF Crcs, m
    <2>2. k \in 1..Len(a) /\ a[k] = q[k]
      BY <1>1
    <2> QED BY <2>1, <2>2 DEF Crcs
  <1>4. ASSUME NEW f \in Crcs(o) PROVE f \in Crcs(a)
    <2>1. PICK k \in 1..n : o[k].type = "CRC" /\ f = o[k]
      BY <1>4 DEF Crcs, n
    <2>2. m + k \in 1..Len(a) /\ a[m + k] = o[k]
      BY <1>1
    <2> QED BY <2>1, <2>2 DEF Crcs
  <1> QED BY <1>2, <1>3, <1>4 DEF a

LEMMA CrcsOf ==
  ASSUME NEW q \in Seq(Frames), NEW f \in Crcs(q)
  PROVE  f \in Frames /\ f.type = "CRC" /\ f.tick \in Nat /\ f.val \in Nat
  <1>1. PICK k \in 1..Len(q) : q[k].type = "CRC" /\ f = q[k]
    BY DEF Crcs
  <1>2. f \in Frames
    BY <1>1, ElementOfSeq
  <1> QED BY <1>1, <1>2 DEF Frames, Others

LEMMA NoCrcs ==
  ASSUME NEW o, \A i \in 1..Len(o) : o[i].type # "CRC"
  PROVE  Crcs(o) = {}
  BY DEF Crcs

LEMMA RequestsFinite ==
  ASSUME NEW q \in Seq(Frames)
  PROVE  IsFiniteSet(Requests(q)) /\ Cardinality(Requests(q)) \in Nat
  <1>1. Len(q) \in Nat
    BY LenProperties
  <1>2. IsFiniteSet(1..Len(q))
    BY <1>1, FS_Interval
  <1>3. Requests(q) \in SUBSET (1..Len(q))
    BY DEF Requests
  <1>4. IsFiniteSet(Requests(q))
    BY <1>2, <1>3, FS_Subset
  <1> QED BY <1>4, FS_CardinalityType

LEMMA RequestsTail ==
  ASSUME NEW q \in Seq(Frames), q # <<>>
  PROVE  /\ Cardinality(Requests(q)) = Cardinality(Requests(Tail(q))) + IF q[1].type = "RESYNC" THEN 1 ELSE 0
         /\ q[1].type # "RESYNC" => (Requests(q) = {} <=> Requests(Tail(q)) = {})
  <1> DEFINE t == Tail(q)
             A == Requests(t)
             B == Requests(q)
             C == B \ {1}
  <1>1. /\ t \in Seq(Frames) /\ Len(q) \in Nat /\ Len(q) >= 1 /\ Len(t) = Len(q) - 1
        /\ \A i \in 1..Len(t) : t[i] = q[i + 1]
    BY QueueTail
  <1>2. IsFiniteSet(A) /\ Cardinality(A) \in Nat /\ IsFiniteSet(B) /\ Cardinality(B) \in Nat
    BY <1>1, RequestsFinite
  <1> HIDE DEF t
  <1>3. ASSUME NEW i \in A PROVE i \in Nat /\ i + 1 \in C
    <2>1. i \in 1..Len(t) /\ t[i].type = "RESYNC"
      BY <1>3 DEF Requests
    <2>2. i + 1 \in 1..Len(q) /\ i + 1 # 1 /\ q[i + 1] = t[i] /\ i \in Nat
      BY <1>1, <2>1
    <2> QED BY <2>1, <2>2 DEF Requests
  <1>4. ASSUME NEW j \in C PROVE j - 1 \in A /\ (j - 1) + 1 = j
    <2>1. j \in 1..Len(q) /\ q[j].type = "RESYNC" /\ j # 1
      BY <1>4 DEF Requests
    <2>2. j - 1 \in 1..Len(t) /\ (j - 1) + 1 = j
      BY <1>1, <2>1
    <2>3. t[j - 1] = q[j]
      BY <1>1, <2>2
    <2> QED BY <2>1, <2>2, <2>3 DEF Requests
  <1>5. Cardinality(C) = Cardinality(A)
    <2> DEFINE f == [i \in A |-> i + 1]
    <2>1. f \in [A -> C]
      BY <1>3
    <2>2. \A i, j \in A : f[i] = f[j] => i = j
      BY <1>3
    <2>3. \A j \in C : \E i \in A : f[i] = j
      BY <1>4
    <2>4. f \in Bijection(A, C)
      BY <2>1, <2>2, <2>3 DEF Bijection, Injection, Surjection, IsInjective
    <2> HIDE DEF A, C, f
    <2>5. ExistsBijection(A, C)
      BY <2>4 DEF ExistsBijection
    <2> QED BY <1>2, <2>5, FS_Bijection
  <1>6. Cardinality(C) = IF 1 \in B THEN Cardinality(B) - 1 ELSE Cardinality(B)
    <2> HIDE DEF B
    <2> QED BY <1>2, FS_RemoveElement
  <1>7. 1 \in 1..Len(q)
    BY <1>1
  <1>8. 1 \in B <=> q[1].type = "RESYNC"
    BY <1>7 DEF Requests
  <1>9. q[1].type # "RESYNC" => (B = {} <=> A = {})
    <2> HIDE DEF A, B
    <2> QED BY <1>3, <1>4, <1>8
  <1> DEFINE a == Cardinality(A)
             b == Cardinality(B)
  <1>10. a = (IF q[1].type = "RESYNC" THEN b - 1 ELSE b) /\ a \in Nat /\ b \in Nat
    BY <1>2, <1>5, <1>6, <1>8
  <1> HIDE DEF a, b, A, B
  <1>11. b = a + IF q[1].type = "RESYNC" THEN 1 ELSE 0
    BY <1>10
  <1> QED BY <1>9, <1>11 DEF a, b, A, B, t

LEMMA RequestsMore ==
  ASSUME NEW q \in Seq(Frames), NEW o \in Seq(Frames), \A i \in 1..Len(o) : o[i].type # "RESYNC"
  PROVE  Requests(q \o o) = Requests(q)
  <1> DEFINE a == q \o o
             m == Len(q)
             n == Len(o)
  <1>1. /\ m \in Nat /\ n \in Nat /\ Len(a) = m + n
        /\ \A i \in 1..m : a[i] = q[i]
        /\ \A i \in 1..n : a[m + i] = o[i]
    BY QueueConcat
  <1> HIDE DEF a, m
  <1>2. ASSUME NEW k \in Requests(a) PROVE k \in Requests(q)
    <2>1. k \in 1..Len(a) /\ a[k].type = "RESYNC"
      BY <1>2 DEF Requests
    <2>2. CASE k <= m
      <3>1. k \in 1..m
        BY <1>1, <2>1, <2>2
      <3> QED BY <1>1, <2>1, <3>1 DEF Requests, m
    <2>3. CASE ~(k <= m)
      <3>1. k - m \in 1..n /\ m + (k - m) = k
        BY <1>1, <2>1, <2>3
      <3>2. a[k] = o[k - m]
        BY <1>1, <3>1
      <3> QED BY <2>1, <3>1, <3>2
    <2> QED BY <2>2, <2>3
  <1>3. ASSUME NEW k \in Requests(q) PROVE k \in Requests(a)
    <2>1. k \in 1..m /\ q[k].type = "RESYNC"
      BY <1>3 DEF Requests, m
    <2>2. k \in 1..Len(a) /\ a[k] = q[k]
      BY <1>1, <2>1
    <2> QED BY <2>1, <2>2 DEF Requests
  <1> QED BY <1>2, <1>3 DEF a

LEMMA RequestsOne ==
  ASSUME NEW q \in Seq(Frames), NEW f \in Frames, f.type = "RESYNC"
  PROVE  /\ Cardinality(Requests(q \o <<f>>)) = Cardinality(Requests(q)) + 1
         /\ Requests(q \o <<f>>) # {}
  <1> DEFINE a == q \o <<f>>
             m == Len(q)
             A == Requests(q)
             B == Requests(a)
  <1>1. <<f>> \in Seq(Frames) /\ Len(<<f>>) = 1 /\ <<f>>[1] = f
    BY OneFrame
  <1>2. /\ m \in Nat /\ Len(a) = m + 1
        /\ \A i \in 1..m : a[i] = q[i]
        /\ a[m + 1] = f
    <2>1. /\ Len(q) \in Nat /\ Len(q \o <<f>>) = Len(q) + Len(<<f>>)
          /\ \A i \in 1..Len(q) : (q \o <<f>>)[i] = q[i]
          /\ \A i \in 1..Len(<<f>>) : (q \o <<f>>)[Len(q) + i] = <<f>>[i]
      BY <1>1, QueueConcat
    <2>2. 1 \in 1..Len(<<f>>)
      BY <1>1
    <2> QED BY <1>1, <2>1, <2>2
  <1>3. IsFiniteSet(A) /\ Cardinality(A) \in Nat
    BY RequestsFinite
  <1> HIDE DEF a, m
  <1>4. m + 1 \notin A /\ B = A \cup {m + 1}
    <2>1. \A k \in 1..m : a[k] = q[k] /\ k # m + 1
      BY <1>2
    <2>2. 1..Len(a) = (1..m) \cup {m + 1} /\ m + 1 \notin 1..m
      BY <1>2
    <2> QED BY <1>2, <2>1, <2>2 DEF Requests, m
  <1> HIDE DEF A, B
  <1>5. Cardinality(A \cup {m + 1}) = Cardinality(A) + 1
    BY <1>3, <1>4, FS_AddElement
  <1> QED BY <1>4, <1>5 DEF A, B, a

\* A frame is taken: its label is the guest's timeline.
LEMMA ViewTail ==
  ASSUME NEW q \in Seq(Frames), q # <<>>, NEW e \in Nat,
         NEW x, x = IF q[1].type = "END" THEN e + 1 ELSE e
  PROVE  /\ Sums(Tail(q), x) \subseteq Sums(q, e)
         /\ Gifts(q, e) = Gifts(Tail(q), x) \cup IF q[1].type = "END" THEN {<<e + 1, q[1].val>>} ELSE {}
         /\ q[1].type = "CRC" => <<e, q[1].val>> \in Sums(q, e)
  <1> DEFINE t == Tail(q)
  <1>1. /\ Len(q) \in Nat /\ Len(q) >= 1 /\ Len(t) = Len(q) - 1 /\ \A i \in 1..Len(t) : t[i] = q[i + 1]
    BY QueueTail
  <1>2. ASSUME NEW k \in 1..Len(q) PROVE Label(t, x, k) = Label(q, e, k + 1)
    BY LabelTail
  <1>3. Label(q, e, 1) = e
    BY LabelFirst
  <1> HIDE DEF t
  <1>4. \A k \in 1..Len(t) : /\ k \in 1..Len(q) /\ k + 1 \in 1..Len(q) /\ t[k] = q[k + 1]
                             /\ Label(t, x, k) = Label(q, e, k + 1)
    BY <1>1, <1>2
  <1>5. \A k \in 1..Len(q) : k # 1 => /\ k - 1 \in 1..Len(t) /\ t[k - 1] = q[k]
                                      /\ Label(t, x, k - 1) = Label(q, e, k)
    <2> SUFFICES ASSUME NEW k \in 1..Len(q), k # 1
                 PROVE  /\ k - 1 \in 1..Len(t) /\ t[k - 1] = q[k]
                        /\ Label(t, x, k - 1) = Label(q, e, k)
      OBVIOUS
    <2>1. k - 1 \in 1..Len(t) /\ (k - 1) + 1 = k
      BY <1>1
    <2> QED BY <1>4, <2>1
  <1>6. 1 \in 1..Len(q)
    BY <1>1
  <1>7. ASSUME NEW s \in Sums(t, x) PROVE s \in Sums(q, e)
    <2>1. PICK k \in 1..Len(t) : t[k].type = "CRC" /\ s = <<Label(t, x, k), t[k].val>>
      BY <1>7 DEF Sums
    <2>2. q[k + 1].type = "CRC" /\ s = <<Label(q, e, k + 1), q[k + 1].val>> /\ k + 1 \in 1..Len(q)
      BY <1>4, <2>1
    <2> QED BY <2>2 DEF Sums
  <1>8. ASSUME NEW g \in Gifts(t, x) PROVE g \in Gifts(q, e)
    <2>1. PICK k \in 1..Len(t) : t[k].type = "END" /\ g = <<Label(t, x, k) + 1, t[k].val>>
      BY <1>8 DEF Gifts
    <2>2. q[k + 1].type = "END" /\ g = <<Label(q, e, k + 1) + 1, q[k + 1].val>> /\ k + 1 \in 1..Len(q)
      BY <1>4, <2>1
    <2> QED BY <2>2 DEF Gifts
  <1>9. ASSUME NEW g \in Gifts(q, e)
        PROVE  g \in Gifts(t, x) \/ (q[1].type = "END" /\ g = <<e + 1, q[1].val>>)
    <2>1. PICK k \in 1..Len(q) : q[k].type = "END" /\ g = <<Label(q, e, k) + 1, q[k].val>>
      BY <1>9 DEF Gifts
    <2>2. CASE k = 1
      BY <1>3, <2>1, <2>2
    <2>3. CASE k # 1
      <3>1. /\ t[k - 1].type = "END" /\ g = <<Label(t, x, k - 1) + 1, t[k - 1].val>>
            /\ k - 1 \in 1..Len(t)
        BY <1>5, <2>1, <2>3
      <3> QED BY <3>1 DEF Gifts
    <2> QED BY <2>2, <2>3
  <1>10. q[1].type = "END" => <<e + 1, q[1].val>> \in Gifts(q, e)
    BY <1>3, <1>6 DEF Gifts
  <1>11. q[1].type = "CRC" => <<e, q[1].val>> \in Sums(q, e)
    BY <1>3, <1>6 DEF Sums
  <1> QED BY <1>7, <1>8, <1>9, <1>10, <1>11 DEF t

\* Frames of the host's timeline are appended.
LEMMA ViewMore ==
  ASSUME NEW q \in Seq(Frames), NEW o \in Seq(Frames), NEW e \in Nat, NEW E,
         Label(q, e, Len(q) + 1) = E, \A i \in 1..Len(o) : o[i].type # "END"
  PROVE  /\ Sums(q \o o, e) \subseteq Sums(q, e) \cup {<<E, f.val>> : f \in Crcs(o)}
         /\ Gifts(q \o o, e) = Gifts(q, e)
  <1> DEFINE a == q \o o
             m == Len(q)
             n == Len(o)
  <1>1. /\ m \in Nat /\ n \in Nat /\ Len(a) = m + n
        /\ \A i \in 1..m : a[i] = q[i]
        /\ \A i \in 1..n : a[m + i] = o[i]
    BY QueueConcat
  <1>2. \A k \in 1..(m + 1) : Label(a, e, k) = Label(q, e, k)
    BY LabelOld
  <1>3. ASSUME NEW j \in 1..n PROVE Label(a, e, m + j) = E
    <2>1. j \in 1..(Len(o) + 1) /\ \A i \in 1..(j - 1) : o[i].type # "END"
      BY <1>1
    <2> QED BY <2>1, LabelNew
  <1> HIDE DEF a, m, n
  <1>4. \A k \in 1..Len(a) : \/ k \in 1..m /\ a[k] = q[k] /\ Label(a, e, k) = Label(q, e, k)
                             \/ k - m \in 1..n /\ a[k] = o[k - m] /\ Label(a, e, k) = E
    <2> SUFFICES ASSUME NEW k \in 1..Len(a)
                 PROVE  \/ k \in 1..m /\ a[k] = q[k] /\ Label(a, e, k) = Label(q, e, k)
                        \/ k - m \in 1..n /\ a[k] = o[k - m] /\ Label(a, e, k) = E
      OBVIOUS
    <2>1. CASE k <= m
      <3>1. k \in 1..m /\ k \in 1..(m + 1)
        BY <1>1, <2>1
      <3> QED BY <1>1, <1>2, <3>1
    <2>2. CASE ~(k <= m)
      <3>1. k - m \in 1..n /\ m + (k - m) = k
        BY <1>1, <2>2
      <3>2. a[m + (k - m)] = o[k - m] /\ Label(a, e, m + (k - m)) = E
        BY <1>1, <1>3, <3>1
      <3> QED BY <3>1, <3>2
    <2> QED BY <2>1, <2>2
  <1>5. ASSUME NEW s \in Sums(a, e) PROVE s \in Sums(q, e) \/ s \in {<<E, f.val>> : f \in Crcs(o)}
    <2>1. PICK k \in 1..Len(a) : a[k].type = "CRC" /\ s = <<Label(a, e, k), a[k].val>>
      BY <1>5 DEF Sums
    <2>2. CASE k \in 1..m /\ a[k] = q[k] /\ Label(a, e, k) = Label(q, e, k)
      BY <2>1, <2>2 DEF Sums, m
    <2>3. CASE k - m \in 1..n /\ a[k] = o[k - m] /\ Label(a, e, k) = E
      <3>1. a[k] \in Crcs(o)
        BY <2>1, <2>3 DEF Crcs, n
      <3> QED BY <2>1, <2>3, <3>1
    <2> QED BY <1>4, <2>2, <2>3
  <1>6. ASSUME NEW g \in Gifts(a, e) PROVE g \in Gifts(q, e)
    <2>1. PICK k \in 1..Len(a) : a[k].type = "END" /\ g = <<Label(a, e, k) + 1, a[k].val>>
      BY <1>6 DEF Gifts
    <2>2. k \in 1..m /\ a[k] = q[k] /\ Label(a, e, k) = Label(q, e, k)
      BY <1>4, <2>1 DEF n
    <2> QED BY <2>1, <2>2 DEF Gifts, m
  <1>7. ASSUME NEW g \in Gifts(q, e) PROVE g \in Gifts(a, e)
    <2>1. PICK k \in 1..m : q[k].type = "END" /\ g = <<Label(q, e, k) + 1, q[k].val>>
      BY <1>7 DEF Gifts, m
    <2>2. k \in 1..Len(a) /\ k \in 1..(m + 1) /\ a[k] = q[k]
      BY <1>1
    <2>3. Label(a, e, k) = Label(q, e, k)
      BY <1>2, <2>2
    <2> QED BY <2>1, <2>2, <2>3 DEF Gifts
  <1> QED BY <1>5, <1>6, <1>7 DEF a

\* A push is appended: n frames, the last one END.
LEMMA ViewPush ==
  ASSUME NEW q \in Seq(Frames), NEW o \in Seq(Frames), NEW e \in Nat, NEW E \in Nat,
         Label(q, e, Len(q) + 1) = E, NEW n \in Nat \ {0}, Len(o) = n, o[n].type = "END",
         \A i \in 1..(n - 1) : o[i].type \notin {"END", "CRC"}
  PROVE  /\ Sums(q \o o, e) \subseteq Sums(q, e)
         /\ Gifts(q \o o, e) = Gifts(q, e) \cup {<<E + 1, o[n].val>>}
         /\ Label(q \o o, e, Len(q \o o) + 1) = E + 1
  <1> DEFINE a == q \o o
             m == Len(q)
  <1>1. /\ m \in Nat /\ Len(a) = m + n
        /\ \A i \in 1..m : a[i] = q[i]
        /\ \A i \in 1..n : a[m + i] = o[i]
    BY QueueConcat, ZenonT(40)
  <1>2. \A k \in 1..(m + 1) : Label(a, e, k) = Label(q, e, k)
    BY LabelOld
  <1>3. ASSUME NEW j \in 1..n PROVE Label(a, e, m + j) = E
    <2>1. j \in 1..(Len(o) + 1) /\ \A i \in 1..(j - 1) : o[i].type # "END"
      <3>1. j \in 1..(Len(o) + 1) /\ \A i \in 1..(j - 1) : i \in 1..(n - 1)
        OBVIOUS
      <3> QED BY <3>1
    <2> QED BY <2>1, LabelNew
  <1> HIDE DEF a, m
  <1>4. \A k \in 1..Len(a) : \/ k \in 1..m /\ a[k] = q[k] /\ Label(a, e, k) = Label(q, e, k)
                             \/ k - m \in 1..n /\ a[k] = o[k - m] /\ Label(a, e, k) = E
    <2> SUFFICES ASSUME NEW k \in 1..Len(a)
                 PROVE  \/ k \in 1..m /\ a[k] = q[k] /\ Label(a, e, k) = Label(q, e, k)
                        \/ k - m \in 1..n /\ a[k] = o[k - m] /\ Label(a, e, k) = E
      OBVIOUS
    <2>1. CASE k <= m
      <3>1. k \in 1..m /\ k \in 1..(m + 1)
        BY <1>1, <2>1
      <3> QED BY <1>1, <1>2, <3>1
    <2>2. CASE ~(k <= m)
      <3>1. k - m \in 1..n /\ m + (k - m) = k
        BY <1>1, <2>2
      <3>2. a[m + (k - m)] = o[k - m] /\ Label(a, e, m + (k - m)) = E
        BY <1>1, <1>3, <3>1
      <3> QED BY <3>1, <3>2
    <2> QED BY <2>1, <2>2
  <1>5. \A i \in 1..n : o[i].type # "CRC" /\ (o[i].type = "END" => i = n)
    <2> SUFFICES ASSUME NEW i \in 1..n PROVE o[i].type # "CRC" /\ (o[i].type = "END" => i = n)
      OBVIOUS
    <2>1. i = n \/ i \in 1..(n - 1)
      OBVIOUS
    <2> QED BY <2>1
  <1>6. ASSUME NEW s \in Sums(a, e) PROVE s \in Sums(q, e)
    <2>1. PICK k \in 1..Len(a) : a[k].type = "CRC" /\ s = <<Label(a, e, k), a[k].val>>
      BY <1>6 DEF Sums
    <2>2. k \in 1..m /\ a[k] = q[k] /\ Label(a, e, k) = Label(q, e, k)
      BY <1>4, <1>5, <2>1
    <2> QED BY <2>1, <2>2 DEF Sums, m
  <1>7. ASSUME NEW g \in Gifts(a, e) PROVE g \in Gifts(q, e) \/ g = <<E + 1, o[n].val>>
    <2>1. PICK k \in 1..Len(a) : a[k].type = "END" /\ g = <<Label(a, e, k) + 1, a[k].val>>
      BY <1>7 DEF Gifts
    <2>2. CASE k \in 1..m /\ a[k] = q[k] /\ Label(a, e, k) = Label(q, e, k)
      BY <2>1, <2>2 DEF Gifts, m
    <2>3. CASE k - m \in 1..n /\ a[k] = o[k - m] /\ Label(a, e, k) = E
      BY <1>5, <2>1, <2>3
    <2> QED BY <1>4, <2>2, <2>3
  <1>8. ASSUME NEW g \in Gifts(q, e) PROVE g \in Gifts(a, e)
    <2>1. PICK k \in 1..m : q[k].type = "END" /\ g = <<Label(q, e, k) + 1, q[k].val>>
      BY <1>8 DEF Gifts, m
    <2>2. k \in 1..Len(a) /\ k \in 1..(m + 1) /\ a[k] = q[k]
      BY <1>1
    <2>3. Label(a, e, k) = Label(q, e, k)
      BY <1>2, <2>2
    <2> QED BY <2>1, <2>2, <2>3 DEF Gifts
  <1>9. m + n \in 1..Len(a) /\ m + n \in Nat \ {0} /\ a[m + n] = o[n] /\ Label(a, e, m + n) = E /\ m + n = Len(a)
    <2>1. n \in 1..n
      OBVIOUS
    <2>2. Label(a, e, m + n) = E /\ a[m + n] = o[n]
      BY <1>1, <1>3, <2>1
    <2>3. m + n \in 1..(m + n) /\ m + n \in Nat \ {0}
      BY <1>1
    <2> QED BY <1>1, <2>2, <2>3
  <1>10. <<E + 1, o[n].val>> \in Gifts(a, e)
    BY <1>9 DEF Gifts
  <1>11. Label(a, e, (m + n) + 1) = E + 1
    <2> DEFINE k == m + n
    <2>1. k \in Nat \ {0} /\ a[k].type = "END" /\ Label(a, e, k) = E
      BY <1>9
    <2> HIDE DEF k
    <2>2. Label(a, e, k + 1) = Label(a, e, k) + IF a[k].type = "END" THEN 1 ELSE 0
      BY <2>1, LabelStep
    <2>3. Label(a, e, k + 1) = E + 1
      BY <2>1, <2>2
    <2> QED BY <2>3 DEF k
  <1> QED BY <1>6, <1>7, <1>8, <1>9, <1>10, <1>11 DEF a

\* A timeline is given one name, and lies between those of the two consoles.
LEMMA ViewRange ==
  ASSUME NEW q \in Seq(Frames), NEW e \in Nat, NEW E \in Nat, Label(q, e, Len(q) + 1) = E
  PROVE  /\ \A s \in Sums(q, e) : s = <<s[1], s[2]>> /\ s[1] \in e..E
         /\ \A g \in Gifts(q, e) : g = <<g[1], g[2]>> /\ g[1] \in (e + 1)..E
         /\ \A g, h \in Gifts(q, e) : g[1] = h[1] => g = h
         /\ (\E k \in 1..Len(q) : q[k].type = "END") <=> e < E
  <1>1. Len(q) \in Nat /\ Len(q) + 1 \in Nat
    BY LenProperties
  <1>2. ASSUME NEW k \in 1..Len(q)
        PROVE  /\ Label(q, e, k) \in Nat /\ e <= Label(q, e, k) /\ Label(q, e, k) <= E
               /\ q[k].type = "END" => Label(q, e, k) + 1 <= E
               /\ q[k].type = "END" => \A i \in 1..Len(q) : i > k => Label(q, e, k) + 1 <= Label(q, e, i)
    <2> DEFINE l == Label(q, e, k)
               m == Label(q, e, k + 1)
    <2>1. k \in Nat \ {0} /\ k + 1 \in Nat /\ k <= Len(q) + 1 /\ k + 1 <= Len(q) + 1
      BY <1>1
    <2>2. l \in Nat /\ e <= l /\ m \in Nat /\ l <= E /\ m <= E
      BY <1>1, <2>1, LabelType, LabelGrows
    <2>3. q[k].type = "END" => m = l + 1
      BY <2>1, LabelStep
    <2>4. ASSUME NEW i \in 1..Len(q), i > k PROVE m <= Label(q, e, i)
      <3>1. i \in Nat /\ k + 1 <= i
        BY <1>1, <2>1, <2>4
      <3> QED BY <2>1, <3>1, LabelGrows
    <2> HIDE DEF l, m
    <2>5. q[k].type = "END" => l + 1 <= E
      BY <2>2, <2>3
    <2> QED BY <2>2, <2>3, <2>4, <2>5 DEF l
  <1>3. \A s \in Sums(q, e) : s = <<s[1], s[2]>> /\ s[1] \in e..E
    <2> SUFFICES ASSUME NEW s \in Sums(q, e) PROVE s = <<s[1], s[2]>> /\ s[1] \in e..E
      OBVIOUS
    <2>1. PICK k \in 1..Len(q) : s = <<Label(q, e, k), q[k].val>>
      BY DEF Sums
    <2> DEFINE l == Label(q, e, k)
    <2>2. l \in Nat /\ e <= l /\ l <= E
      BY <1>2
    <2>3. s = <<l, q[k].val>>
      BY <2>1
    <2> HIDE DEF l
    <2> QED BY <2>2, <2>3
  <1>4. \A g \in Gifts(q, e) : g = <<g[1], g[2]>> /\ g[1] \in (e + 1)..E
    <2> SUFFICES ASSUME NEW g \in Gifts(q, e) PROVE g = <<g[1], g[2]>> /\ g[1] \in (e + 1)..E
      OBVIOUS
    <2>1. PICK k \in 1..Len(q) : q[k].type = "END" /\ g = <<Label(q, e, k) + 1, q[k].val>>
      BY DEF Gifts
    <2> DEFINE l == Label(q, e, k)
    <2>2. l \in Nat /\ e <= l /\ l + 1 <= E
      BY <1>2, <2>1
    <2>3. g = <<l + 1, q[k].val>>
      BY <2>1
    <2> HIDE DEF l
    <2> QED BY <2>2, <2>3
  <1>5. ASSUME NEW g \in Gifts(q, e), NEW h \in Gifts(q, e), g[1] = h[1] PROVE g = h
    <2>1. PICK i \in 1..Len(q) : q[i].type = "END" /\ g = <<Label(q, e, i) + 1, q[i].val>>
      BY <1>5 DEF Gifts
    <2>2. PICK k \in 1..Len(q) : q[k].type = "END" /\ h = <<Label(q, e, k) + 1, q[k].val>>
      BY <1>5 DEF Gifts
    <2> DEFINE a == Label(q, e, i)
               b == Label(q, e, k)
    <2>3. a \in Nat /\ b \in Nat /\ (k > i => a + 1 <= b) /\ (i > k => b + 1 <= a)
      BY <1>2, <2>1, <2>2
    <2>4. a + 1 = b + 1
      BY <1>5, <2>1, <2>2
    <2> HIDE DEF a, b
    <2>5. i = k
      BY <1>1, <2>3, <2>4
    <2> QED BY <2>1, <2>2, <2>5
  <1>6. (\E k \in 1..Len(q) : q[k].type = "END") => e < E
    <2> SUFFICES ASSUME NEW k \in 1..Len(q), q[k].type = "END" PROVE e < E
      OBVIOUS
    <2> DEFINE l == Label(q, e, k)
    <2>1. l \in Nat /\ e <= l /\ l + 1 <= E
      BY <1>2
    <2> HIDE DEF l
    <2> QED BY <2>1
  <1>7. ASSUME \A k \in 1..Len(q) : q[k].type # "END" PROVE ~(e < E)
    <2>1. Ended(q, Len(q) + 1) = {}
      BY <1>1, <1>7 DEF Ended
    <2>2. Cardinality(Ended(q, Len(q) + 1)) = 0
      BY <2>1, FS_EmptySet
    <2>3. E = e
      BY <2>2 DEF Label
    <2> QED BY <2>3
  <1> QED BY <1>3, <1>4, <1>5, <1>6, <1>7

-----------------------------------------------------------------------------
(* What the two consoles tell each other of their states.                  *)

LEMMA OpenFinite ==
  ASSUME NEW e \in Nat, NEW E \in Nat, NEW G, NEW S, NEW x, NEW y, NEW gs, NEW p
  PROVE  IsFiniteSet(Open(e, E, G, S, x, y, gs, p)) /\ Cardinality(Open(e, E, G, S, x, y, gs, p)) \in Nat
  <1>1. e \in Int /\ E \in Int
    OBVIOUS
  <1>2. IsFiniteSet(e..E)
    BY <1>1, FS_Interval
  <1>3. Open(e, E, G, S, x, y, gs, p) \in SUBSET (e..E)
    BY DEF Open
  <1>4. IsFiniteSet(Open(e, E, G, S, x, y, gs, p))
    BY <1>2, <1>3, FS_Subset
  <1> QED BY <1>4, FS_CardinalityType

\* Reports are taken, records cleared, requests made.
LEMMA OpenLess ==
  ASSUME NEW e, NEW E, NEW G, NEW S, NEW x, NEW y, NEW gs, NEW p, NEW S2, NEW gs2, NEW p2,
         S2 \subseteq S, gs2 \subseteq gs, p => p2
  PROVE  /\ Open(e, E, G, S2, x, y, gs2, p2) \subseteq Open(e, E, G, S, x, y, gs, p)
         /\ p2 => e \notin Open(e, E, G, S2, x, y, gs2, p2)
  BY DEF Open, Mixed

LEMMA PureLess ==
  ASSUME NEW e, NEW E, NEW G, NEW S, NEW x, NEW y, NEW hs, NEW gs, NEW u, NEW S2, NEW hs2, NEW gs2, NEW u2,
         S2 \subseteq S, hs2 \subseteq hs, gs2 \subseteq gs, u2 \subseteq u,
         Pure(e, E, G, S, x, y, hs, gs, u)
  PROVE  Pure(e, E, G, S2, x, y, hs2, gs2, u2)
  BY DEF Pure

\* The guest sees a divergence in its timeline: it could ask, and now has.
LEMMA SeesIt ==
  ASSUME NEW e \in Nat, NEW E \in Nat, e <= E, NEW G, NEW S, NEW x, NEW y, NEW hs, NEW gs, NEW u,
         Pure(e, E, G, S, x, y, hs, gs, u),
         NEW v, <<e, v>> \in S, NEW w \in gs, v # w
  PROVE  e \in Open(e, E, G, S, x, y, gs, FALSE)
  <1>1. <<e, v>>[1] = e /\ <<e, v>>[2] = v /\ e \in e..E
    OBVIOUS
  <1>2. CASE e = E
    <2>1. Same(e, E, G, x, y) => v = y /\ w = y
      BY <1>1, <1>2 DEF Pure
    <2>2. Mixed(e, e, E, G, S, x, y, gs)
      BY <1>2, <2>1 DEF Mixed
    <2> QED BY <1>1, <2>2 DEF Open
  <1>3. CASE e # E
    <2>1. v # x \/ w # x
      OBVIOUS
    <2>2. Mixed(e, e, E, G, S, x, y, gs)
      BY <1>1, <1>3, <2>1 DEF Mixed
    <2> QED BY <1>1, <2>2 DEF Open
  <1> QED BY <1>2, <1>3

\* The host runs a tick that goes wrong.
LEMMA HostWrong ==
  ASSUME NEW e \in Nat, NEW E \in Nat, NEW G, NEW S, NEW x, NEW y, NEW gs, NEW p,
         NEW S2, NEW y2, \A s \in S2 : s \in S \/ s[1] = E
  PROVE  Open(e, E, G, S2, x, y2, gs, p) \subseteq Open(e, E, G, S, x, y, gs, p) \cup {E}
  <1> SUFFICES ASSUME NEW l \in Open(e, E, G, S2, x, y2, gs, p), l # E
               PROVE  l \in Open(e, E, G, S, x, y, gs, p)
    OBVIOUS
  <1>1. l \in e..E /\ Mixed(l, e, E, G, S2, x, y2, gs) /\ ~(l = e /\ p)
    BY DEF Open
  <1>2. Mixed(l, e, E, G, S, x, y, gs)
    BY <1>1 DEF Mixed
  <1> QED BY <1>1, <1>2 DEF Open

\* Or right: what it reports is its name.
LEMMA HostRight ==
  ASSUME NEW e \in Nat, NEW E \in Nat, NEW G, NEW S, NEW x, NEW y, NEW hs, NEW gs, NEW u, NEW p,
         NEW S2, \A s \in S2 : s \in S \/ s = <<E, y>>, NEW hs2, \A v \in hs2 : v \in hs \/ v = y,
         Pure(e, E, G, S, x, y, hs, gs, u)
  PROVE  /\ Open(e, E, G, S2, x, y, gs, p) \subseteq Open(e, E, G, S, x, y, gs, p)
         /\ Pure(e, E, G, S2, x, y, hs2, gs, u)
  <1>1. \A s \in S2 : s \in S \/ (s[1] = E /\ s[2] = y)
    OBVIOUS
  <1>2. Pure(e, E, G, S2, x, y, hs2, gs, u)
    BY <1>1 DEF Pure
  <1>3. ASSUME NEW l \in Open(e, E, G, S2, x, y, gs, p)
        PROVE  l \in Open(e, E, G, S, x, y, gs, p)
    <2>1. l \in e..E /\ Mixed(l, e, E, G, S2, x, y, gs) /\ ~(l = e /\ p)
      BY <1>3 DEF Open
    <2>2. Mixed(l, e, E, G, S, x, y, gs)
      BY <1>1, <2>1 DEF Mixed
    <2> QED BY <2>1, <2>2 DEF Open
  <1> QED BY <1>2, <1>3

\* The guest runs a tick that goes wrong.
LEMMA GuestWrong ==
  ASSUME NEW e \in Nat, NEW E \in Nat, NEW G, NEW S, NEW x, NEW y, NEW gs, NEW p, NEW x2, NEW gs2
  PROVE  Open(e, E, G, S, x2, y, gs2, p) \subseteq Open(e, E, G, S, x, y, gs, p) \cup {e}
  <1> SUFFICES ASSUME NEW l \in Open(e, E, G, S, x2, y, gs2, p), l # e
               PROVE  l \in Open(e, E, G, S, x, y, gs, p)
    OBVIOUS
  <1>1. l \in e..E /\ Mixed(l, e, E, G, S, x2, y, gs2)
    BY DEF Open
  <1>2. e # E
    BY <1>1
  <1>3. Mixed(l, e, E, G, S, x, y, gs)
    BY <1>1, <1>2 DEF Mixed, Same
  <1> QED BY <1>1, <1>3 DEF Open

\* Or right.
LEMMA GuestRight ==
  ASSUME NEW e \in Nat, NEW E \in Nat, NEW G, NEW S, NEW x, NEW y, NEW hs, NEW gs, NEW u, NEW p,
         NEW gs2, \A v \in gs2 : v \in gs \/ v = x, NEW u2, \A v \in u2 : v \in u \/ v = x,
         Pure(e, E, G, S, x, y, hs, gs, u)
  PROVE  /\ Open(e, E, G, S, x, y, gs2, p) \subseteq Open(e, E, G, S, x, y, gs, p)
         /\ Pure(e, E, G, S, x, y, hs, gs2, u2)
  <1>1. Pure(e, E, G, S, x, y, hs, gs2, u2)
    BY DEF Pure, Same
  <1>2. ASSUME NEW l \in Open(e, E, G, S, x, y, gs2, p)
        PROVE  l \in Open(e, E, G, S, x, y, gs, p)
    <2>1. l \in e..E /\ Mixed(l, e, E, G, S, x, y, gs2) /\ ~(l = e /\ p)
      BY <1>2 DEF Open
    <2>2. Mixed(l, e, E, G, S, x, y, gs)
      BY <2>1 DEF Mixed
    <2> QED BY <2>1, <2>2 DEF Open
  <1> QED BY <1>1, <1>2

\* The host pushes: the name of the new timeline E + 1 is v.
LEMMA HostPushes ==
  ASSUME NEW e \in Nat, NEW E \in Nat, e <= E, NEW G, NEW S, NEW x, NEW y, NEW hs, NEW gs, NEW u, NEW p,
         \A s \in S : s = <<s[1], s[2]>> /\ s[1] \in e..E,
         \A g \in G : g = <<g[1], g[2]>> /\ g[1] \in (e + 1)..E, \A g, h \in G : g[1] = h[1] => g = h,
         NEW S2, S2 \subseteq S, NEW v, NEW G2, G2 = G \cup {<<E + 1, v>>},
         Pure(e, E, G, S, x, y, hs, gs, u)
  PROVE  /\ Open(e, E + 1, G2, S2, x, v, gs, p) \subseteq Open(e, E, G, S, x, y, gs, p)
         /\ Pure(e, E + 1, G2, S2, x, v, {}, gs, {})
         /\ Same(e, E + 1, G2, x, v)
  <1> DEFINE F == E + 1
             t == <<F, v>>
  <1>1. F \in Nat /\ F # e /\ F # E /\ e <= F /\ \A l \in e..F : l # F => l \in e..E
    OBVIOUS
  <1>2. /\ \A s \in S : s[1] # F
        /\ \A g \in G : g[1] # F /\ g[1] # e
    OBVIOUS
  <1>3. t[1] = F /\ t[2] = v /\ G2 = G \cup {t}
    OBVIOUS
  <1> HIDE DEF F, t
  <1>4. Same(e, F, G2, x, v)
    BY <1>1, <1>3 DEF Same, t
  <1>5. Pure(e, F, G2, S2, x, v, {}, gs, {})
    BY <1>1, <1>2 DEF Pure
  <1>6. ASSUME NEW l \in Open(e, F, G2, S2, x, v, gs, p)
        PROVE  l \in Open(e, E, G, S, x, y, gs, p)
    <2>1. l \in e..F /\ Mixed(l, e, F, G2, S2, x, v, gs) /\ ~(l = e /\ p)
      BY <1>6 DEF Open
    <2>2. l # F
      BY <1>4, <2>1 DEF Mixed
    <2>3. l \in e..E
      BY <1>1, <2>1, <2>2
    <2>4. Mixed(l, e, E, G, S, x, y, gs)
      <3>1. CASE l # E
        <4>1. CASE l = e
          BY <1>1, <2>1, <2>2, <3>1, <4>1 DEF Mixed
        <4>2. CASE l # e
          <5>1. PICK g \in G2, s \in S2 : g[1] = l /\ s[1] = l /\ g[2] # s[2]
            BY <2>1, <2>2, <4>2 DEF Mixed
          <5>2. g \in G /\ s \in S
            BY <1>3, <2>2, <5>1
          <5> QED BY <3>1, <4>2, <5>1, <5>2 DEF Mixed
        <4> QED BY <4>1, <4>2
      <3>2. CASE l = E
        <4> SUFFICES ASSUME Same(e, E, G, x, y) PROVE FALSE
          BY <3>2 DEF Mixed
        <4>1. /\ \A s \in S : s[1] = E => s[2] = y
              /\ e = E => gs \subseteq {y}
          BY DEF Pure
        <4>2. CASE e = E
          <5>1. x = y
            BY <4>2 DEF Same
          <5>2. (\E s \in S2 : s[1] = e /\ s[2] # x) \/ (\E w \in gs : w # x)
            BY <2>1, <2>2, <3>2, <4>2 DEF Mixed
          <5> QED BY <4>1, <4>2, <5>1, <5>2
        <4>3. CASE e # E
          <5>1. PICK g \in G2, s \in S2 : g[1] = E /\ s[1] = E /\ g[2] # s[2]
            BY <2>1, <2>2, <3>2, <4>3 DEF Mixed
          <5>2. g \in G /\ s \in S
            BY <1>1, <1>3, <5>1
          <5>3. <<E, y>> \in G /\ <<E, y>>[1] = E /\ <<E, y>>[2] = y
            BY <4>3 DEF Same
          <5>4. g = <<E, y>>
            BY <5>1, <5>2, <5>3
          <5> QED BY <4>1, <5>1, <5>2, <5>3, <5>4
        <4> QED BY <4>2, <4>3
      <3> QED BY <3>1, <3>2
    <2> QED BY <2>1, <2>3, <2>4 DEF Open
  <1> QED BY <1>4, <1>5, <1>6 DEF F

\* The guest takes END, which names its new state v.
LEMMA GuestRebases ==
  ASSUME NEW e \in Nat, NEW E \in Nat, e < E, NEW G, NEW S, NEW x, NEW y, NEW hs, NEW gs, NEW u, NEW p,
         NEW S2, S2 \subseteq S, NEW v, NEW G2, G = G2 \cup {<<e + 1, v>>},
         \A g \in G2 : g[1] \in (e + 2)..E, \A s \in S2 : s[1] \in (e + 1)..E,
         Pure(e, E, G, S, x, y, hs, gs, u)
  PROVE  /\ Open(e + 1, E, G2, S2, v, y, {}, FALSE) \subseteq Open(e, E, G, S, x, y, gs, p)
         /\ Pure(e + 1, E, G2, S2, v, y, hs, {}, {})
         /\ Same(e + 1, E, G2, v, y) <=> Same(e, E, G, x, y)
  <1> DEFINE d == e + 1
             t == <<d, v>>
  <1>1. /\ d \in Nat /\ d # e /\ e # E /\ \A l \in d..E : l \in e..E /\ l # e
        /\ \A g \in G2 : g[1] # d
    OBVIOUS
  <1>2. t[1] = d /\ t[2] = v /\ G = G2 \cup {t}
    OBVIOUS
  <1> HIDE DEF d
  <1>3. Same(d, E, G2, v, y) <=> Same(e, E, G, x, y)
    <2> DEFINE z == <<E, y>>
    <2>0. z[1] = E /\ z[2] = y
      OBVIOUS
    <2>1. CASE d = E
      <3>1. z \notin G2
        BY <1>1, <2>0, <2>1
      <3>2. z = t <=> y = v
        BY <2>1
      <3> QED BY <1>1, <1>2, <2>1, <3>1, <3>2 DEF Same
    <2>2. CASE d # E
      <3>1. z # t
        BY <1>2, <2>0, <2>2
      <3> QED BY <1>1, <1>2, <2>2, <3>1 DEF Same
    <2> QED BY <2>1, <2>2
  <1>4. Pure(d, E, G2, S2, v, y, hs, {}, {})
    BY <1>3 DEF Pure
  <1>5. ASSUME NEW l \in Open(d, E, G2, S2, v, y, {}, FALSE)
        PROVE  l \in Open(e, E, G, S, x, y, gs, p)
    <2>1. l \in d..E /\ Mixed(l, d, E, G2, S2, v, y, {})
      BY <1>5 DEF Open
    <2>2. l \in e..E /\ l # e
      BY <1>1, <2>1
    <2>3. Mixed(l, e, E, G, S, x, y, gs)
      <3>1. CASE l = E
        BY <1>3, <2>1, <3>1 DEF Mixed
      <3>2. CASE l # E /\ l = d
        <4>1. PICK s \in S2 : s[1] = d /\ s[2] # v
          BY <2>1, <3>2 DEF Mixed
        <4>2. s \in S /\ t \in G /\ t[1] = l /\ s[1] = l /\ t[2] # s[2]
          BY <1>2, <3>2, <4>1
        <4> HIDE DEF t
        <4> QED BY <2>2, <3>2, <4>2 DEF Mixed
      <3>3. CASE l # E /\ l # d
        <4>1. PICK g \in G2, s \in S2 : g[1] = l /\ s[1] = l /\ g[2] # s[2]
          BY <2>1, <3>3 DEF Mixed
        <4>2. g \in G /\ s \in S
          OBVIOUS
        <4> QED BY <2>2, <3>3, <4>1, <4>2 DEF Mixed
      <3> QED BY <3>1, <3>2, <3>3
    <2> QED BY <2>2, <2>3 DEF Open
  <1> QED BY <1>3, <1>4, <1>5 DEF d

-----------------------------------------------------------------------------
(* The steps.                                                              *)

LEMMA Living ==
  ASSUME ImageInv, StoryInv, Alive
  PROVE  /\ ~dropped[Guest] /\ Playing /\ ~hold[Host] /\ ~dropped[Host]
         /\ tick[Host] \in Nat /\ tick[Guest] \in Nat /\ resume[Host] \in Nat
         /\ line[Guest] \in Nat /\ line[Host] \in Nat /\ line[Guest] <= line[Host]
         /\ chan[Host] \in Seq(Frames) /\ chan[Guest] \in Seq(Frames)
         /\ Label(chan[Guest], line[Guest], Len(chan[Guest]) + 1) = line[Host]
         /\ \A c \in Seats : pend[c] \in BOOLEAN /\ rec[c] \in [Slots -> [tick : Int, crc : Nat]]
         /\ glitches \in Nat /\ pushes \in Nat /\ Fresh \in Nat
  <1>1. /\ ~dropped[Guest] /\ ~hold[Host] /\ ~dropped[Host]
    BY DEF ImageInv, Queue, Pushes, Roles, Alive
  <1>2. Playing /\ Logs
    BY <1>1 DEF StoryInv
  <1>3. /\ tick[Host] \in Nat /\ tick[Guest] \in Nat /\ resume[Host] \in Nat
        /\ line[Guest] \in Nat /\ line[Host] \in Nat /\ Fresh \in Nat
        /\ chan[Host] \in Seq(Frames) /\ chan[Guest] \in Seq(Frames)
    BY <1>2, Scalars
  <1>4. line[Guest] <= line[Host]
    BY <1>2 DEF Playing, Pace
  <1>5. Label(chan[Guest], line[Guest], Len(chan[Guest]) + 1) = line[Host]
    BY <1>2 DEF Playing, Wires, Going, Down, Alive
  <1>6. /\ \A c \in Seats : pend[c] \in BOOLEAN /\ rec[c] \in [Slots -> [tick : Int, crc : Nat]]
        /\ glitches \in Nat /\ pushes \in Nat
    BY DEF ImageInv, Basics, Slots
  <1> QED BY <1>1, <1>2, <1>3, <1>4, <1>5, <1>6

LEMMA Counts ==
  ASSUME ImageInv
  PROVE  /\ IsFiniteSet(Asking) /\ Cardinality(Asking) \in Nat
         /\ Cardinality(Requests(chan[Host])) \in Nat /\ Want \in {0, 1}
         /\ glitches \in Nat /\ pushes \in Nat
  <1>1. /\ line[Guest] \in Nat /\ line[Host] \in Nat /\ chan[Host] \in Seq(Frames)
        /\ glitches \in Nat /\ pushes \in Nat
    BY SeatFacts DEF ImageInv, Basics
  <1>2. IsFiniteSet(Asking) /\ Cardinality(Asking) \in Nat
    BY <1>1, OpenFinite DEF Asking
  <1> QED BY <1>1, <1>2, RequestsFinite DEF Want

LEMMA CountsNext ==
  ASSUME ImageInv'
  PROVE  /\ IsFiniteSet(Asking') /\ Cardinality(Asking') \in Nat
         /\ Cardinality(Requests(chan'[Host])) \in Nat /\ Want' \in {0, 1}
         /\ glitches' \in Nat /\ pushes' \in Nat
  <1>1. /\ line'[Guest] \in Nat /\ line'[Host] \in Nat /\ chan'[Host] \in Seq(Frames)
        /\ glitches' \in Nat /\ pushes' \in Nat
    BY SeatFacts DEF ImageInv, Basics
  <1>2. IsFiniteSet(Asking') /\ Cardinality(Asking') \in Nat
    BY <1>1, OpenFinite DEF Asking
  <1> QED BY <1>1, <1>2, RequestsFinite DEF Want

LEMMA Sum ==
  ASSUME NEW P \in Nat, NEW n \in Nat, NEW W \in Nat, NEW a \in Nat, NEW g \in Nat,
         NEW Q \in Nat, NEW m \in Nat, NEW V \in Nat, NEW b \in Nat, NEW h \in Nat,
         NEW r \in Int, NEW w \in Int, NEW k \in Nat,
         P + (n + (W + a)) <= 2 * g, m <= n + r, V <= W + w, b <= a + k,
         (Q - P) + (r + (w + k)) <= 2 * (h - g)
  PROVE  Q + (m + (V + b)) <= 2 * h
  OBVIOUS

\* Fewer may ask, and the rest is as the caller says.
LEMMA BudgetStep ==
  ASSUME ImageInv, ImageInv', Budget, NEW r \in Int, NEW w \in Int, NEW d \in Nat, NEW l,
         Cardinality(Requests(chan'[Host])) <= Cardinality(Requests(chan[Host])) + r, Want' <= Want + w,
         Asking' \subseteq Asking \cup {l}, (d = 0 => Asking' \subseteq Asking),
         (pushes' - pushes) + (r + (w + (IF d = 0 THEN 0 ELSE 1))) <= 2 * (glitches' - glitches)
  PROVE  Budget'
  <1> DEFINE A == Asking
             B == Asking'
             a == Cardinality(A)
             b == Cardinality(B)
             n == Cardinality(Requests(chan[Host]))
             m == Cardinality(Requests(chan'[Host]))
  <1>1. IsFiniteSet(A) /\ a \in Nat /\ n \in Nat /\ Want \in Nat /\ glitches \in Nat /\ pushes \in Nat
    BY Counts
  <1>2. IsFiniteSet(B) /\ b \in Nat /\ m \in Nat /\ Want' \in Nat /\ glitches' \in Nat /\ pushes' \in Nat
    BY CountsNext
  <1>3. pushes + (n + (Want + a)) <= 2 * glitches
    BY DEF Budget
  <1> HIDE DEF A, B, n, m
  <1>4. b <= a + IF d = 0 THEN 0 ELSE 1
    <2>1. CASE d = 0
      <3>1. B \in SUBSET A
        BY <2>1 DEF A, B
      <3>2. b <= a
        BY <1>1, <3>1, FS_Subset
      <3> QED BY <1>1, <1>2, <2>1, <3>2
    <2>2. CASE d # 0
      <3>1. IsFiniteSet(A \cup {l}) /\ Cardinality(A \cup {l}) = IF l \in A THEN Cardinality(A) ELSE Cardinality(A) + 1
        BY <1>1, FS_AddElement
      <3>2. B \in SUBSET (A \cup {l})
        BY DEF A, B
      <3>3. b <= Cardinality(A \cup {l})
        BY <3>1, <3>2, FS_Subset
      <3> QED BY <1>1, <1>2, <2>2, <3>1, <3>3
    <2> QED BY <2>1, <2>2
  <1>5. m <= n + r
    BY DEF m, n
  <1> DEFINE W == Want
             V == Want'
             k == IF d = 0 THEN 0 ELSE 1
  <1>6. W \in Nat /\ V \in Nat /\ V <= W + w /\ k \in Nat /\ b <= a + k
    BY <1>1, <1>2, <1>4
  <1>7. pushes + (n + (W + a)) <= 2 * glitches /\ (pushes' - pushes) + (r + (w + k)) <= 2 * (glitches' - glitches)
    BY <1>3
  <1> DEFINE P == pushes
             Q == pushes'
             g == glitches
             h == glitches'
  <1>9. /\ P \in Nat /\ n \in Nat /\ a \in Nat /\ g \in Nat /\ Q \in Nat /\ m \in Nat /\ b \in Nat /\ h \in Nat
        /\ P + (n + (W + a)) <= 2 * g /\ m <= n + r /\ (Q - P) + (r + (w + k)) <= 2 * (h - g)
    BY <1>1, <1>2, <1>5, <1>7
  <1> HIDE DEF a, b, W, V, k, P, Q, g, h
  <1>8. Q + (m + (V + b)) <= 2 * h
    BY <1>6, <1>9, Sum
  <1> QED BY <1>8 DEF Budget, V, b, B, m, Q, h

LEMMA BudgetKept ==
  ASSUME ImageInv, ImageInv', Budget, Asking' \subseteq Asking, Want' <= Want,
         Cardinality(Requests(chan'[Host])) <= Cardinality(Requests(chan[Host])),
         pushes' = pushes, glitches' = glitches
  PROVE  Budget'
  <1>1. /\ Cardinality(Requests(chan[Host])) \in Nat /\ Want \in {0, 1} /\ pushes \in Nat /\ glitches \in Nat
    BY Counts
  <1>2. /\ Cardinality(Requests(chan'[Host])) <= Cardinality(Requests(chan[Host])) + 0 /\ Want' <= Want + 0
        /\ Asking' \subseteq Asking \cup {0} /\ Asking' \subseteq Asking
        /\ (pushes' - pushes) + (0 + (0 + (IF 0 = 0 THEN 0 ELSE 1))) <= 2 * (glitches' - glitches)
    BY <1>1
  <1> QED BY <1>2, BudgetStep

\* Nothing of this moves, but reports that were taken.
LEMMA SameView ==
  ASSUME ImageInv, ImageInv', StoryInv, Alive, Watch, pc'[Host] # "off",
         UNCHANGED <<line, base, rec, pend, glitches, pushes, tick>>, resume'[Host] = resume[Host],
         \A c \in Seats : Crcs(chan'[c]) = Crcs(chan[c]),
         Cardinality(Requests(chan'[Host])) = Cardinality(Requests(chan[Host])),
         Requests(chan'[Host]) = {} <=> Requests(chan[Host]) = {},
         Gifts(chan'[Guest], line[Guest]) = Given, Sums(chan'[Guest], line[Guest]) \subseteq Told
  PROVE  WatchInv'
  <1>1. Records'
    BY DEF Watch, Records
  <1>2. Crcs(chan'[Host]) = Crcs(chan[Host]) /\ Crcs(chan'[Guest]) = Crcs(chan[Guest])
    BY SeatFacts
  <1>3. Reports'
    BY <1>2 DEF Watch, Reports, Tells
  <1>4. Repairing' <=> Repairing
    BY DEF Repairing
  <1>5. Noticed'
    BY <1>4 DEF Watch, Noticed
  <1>6. Given' = Given /\ Told' \subseteq Told
    BY DEF Given, Told
  <1>7. Clean'
    <2>1. Seen(rec'[Host]) = Seen(rec[Host]) /\ Seen(rec'[Guest]) = Seen(rec[Guest])
      OBVIOUS
    <2>2. Up(Crcs(chan'[Host]), resume'[Host]) = Up(Crcs(chan[Host]), resume[Host])
      BY <1>2
    <2> QED BY <1>6, <2>1, <2>2, PureLess DEF Clean, Watch
  <1>8. Asking' \subseteq Asking
    BY <1>6, OpenLess DEF Asking
  <1>9. Want' = Want
    BY <1>6 DEF Want, Agreed
  <1>10. Budget'
    <2>1. Budget /\ Want \in {0, 1} /\ Cardinality(Requests(chan[Host])) \in Nat
      BY Counts DEF Watch
    <2>2. Want' <= Want /\ Cardinality(Requests(chan'[Host])) <= Cardinality(Requests(chan[Host]))
      BY <1>9, <2>1
    <2> QED BY <1>8, <2>1, <2>2, BudgetKept
  <1> QED BY <1>1, <1>3, <1>5, <1>7, <1>10 DEF WatchInv, Watch, Alive

LEMMA QuietWatch ==
  ASSUME ImageInv, ImageInv', StoryInv, Alive, Watch, pc'[Host] # "off", chan' = chan,
         UNCHANGED <<line, base, rec, pend, glitches, pushes, tick>>, resume'[Host] = resume[Host]
  PROVE  WatchInv'
  <1>1. /\ Gifts(chan'[Guest], line[Guest]) = Given /\ Sums(chan'[Guest], line[Guest]) \subseteq Told
    BY DEF Given, Told
  <1>2. \A c \in Seats : Crcs(chan'[c]) = Crcs(chan[c])
    OBVIOUS
  <1>3. Cardinality(Requests(chan'[Host])) = Cardinality(Requests(chan[Host]))
    OBVIOUS
  <1>4. Requests(chan'[Host]) = {} <=> Requests(chan[Host]) = {}
    OBVIOUS
  <1> QED BY <1>1, <1>2, <1>3, <1>4, SameView

\* A frame is taken that is none of this.
LEMMA TakeWatch ==
  ASSUME ImageInv, ImageInv', StoryInv, Alive, Watch, NEW c \in Seats, NEW type, Take(c, type, <<>>),
         type \notin {"CRC", "END"}, type = "RESYNC" => c = Guest,
         UNCHANGED <<line, base, rec, pend, glitches, pushes, tick>>, resume'[Host] = resume[Host]
  PROVE  WatchInv'
  <1> DEFINE q == chan[c]
             out == <<>>
  <1>0. out \in Seq(Frames) /\ Take(c, type, out)
    BY EmptyQueue
  <1>1. /\ q \in Seq(Frames) /\ q # <<>> /\ q[1].type = type /\ pc' = pc
        /\ chan'[c] = Tail(q) /\ chan'[Peer(c)] = chan[Peer(c)] \o <<>>
    <2> HIDE DEF out
    <2>1. /\ chan[c] \in Seq(Frames) /\ chan[c] # <<>> /\ chan[c][1].type = type /\ pc' = pc
          /\ chan'[c] = Tail(chan[c]) /\ chan'[Peer(c)] = chan[Peer(c)] \o out
      BY <1>0, TakeStep
    <2> QED BY <2>1 DEF out
  <1>2. chan[Peer(c)] \in Seq(Frames) /\ line[Guest] \in Nat
    BY SeatFacts DEF ImageInv, Basics
  <1>3. chan'[Peer(c)] = chan[Peer(c)]
    BY <1>1, <1>2, ConcatEmptySeq
  <1> HIDE DEF q
  <1>4. Crcs(Tail(q)) = Crcs(q)
    BY <1>1, CrcsTail
  <1>5. Crcs(chan'[c]) = Crcs(chan[c]) /\ Crcs(chan'[Peer(c)]) = Crcs(chan[Peer(c)])
    BY <1>1, <1>3, <1>4 DEF q
  <1>6. \A d \in Seats : Crcs(chan'[d]) = Crcs(chan[d])
    BY <1>5, SeatFacts
  <1>7. /\ Cardinality(Requests(chan'[Host])) = Cardinality(Requests(chan[Host]))
        /\ Requests(chan'[Host]) = {} <=> Requests(chan[Host]) = {}
    <2>1. CASE c = Guest
      BY <1>3, <2>1, SeatFacts
    <2>2. CASE c = Host
      <3>1. q[1].type # "RESYNC"
        BY <1>1, <2>2, SeatFacts
      <3>2. /\ Cardinality(Requests(q)) = Cardinality(Requests(Tail(q))) + 0
            /\ Requests(q) = {} <=> Requests(Tail(q)) = {}
        BY <1>1, <3>1, RequestsTail
      <3>3. Tail(q) \in Seq(Frames)
        BY <1>1, QueueTail
      <3>4. Cardinality(Requests(Tail(q))) \in Nat
        BY <3>3, RequestsFinite
      <3>5. Cardinality(Requests(q)) = Cardinality(Requests(Tail(q)))
        BY <3>2, <3>4
      <3>6. chan'[Host] = Tail(q) /\ chan[Host] = q
        BY <1>1, <2>2 DEF q
      <3> QED BY <3>2, <3>5, <3>6
    <2> QED BY <2>1, <2>2, SeatFacts
  <1>8. Gifts(chan'[Guest], line[Guest]) = Given /\ Sums(chan'[Guest], line[Guest]) \subseteq Told
    <2>1. CASE c = Host
      BY <1>3, <2>1, SeatFacts DEF Given, Told
    <2>2. CASE c = Guest
      <3> DEFINE x == IF q[1].type = "END" THEN line[Guest] + 1 ELSE line[Guest]
      <3>1. x = line[Guest]
        BY <1>1
      <3>2. /\ Sums(Tail(q), x) \subseteq Sums(q, line[Guest])
            /\ Gifts(q, line[Guest]) = Gifts(Tail(q), x) \cup IF q[1].type = "END" THEN {<<line[Guest] + 1, q[1].val>>} ELSE {}
        BY <1>1, <1>2, ViewTail
      <3>3. Gifts(q, line[Guest]) = Gifts(Tail(q), line[Guest])
        BY <1>1, <3>1, <3>2
      <3>4. chan'[Guest] = Tail(q) /\ chan[Guest] = q
        BY <1>1, <2>2 DEF q
      <3> QED BY <3>1, <3>2, <3>3, <3>4 DEF Given, Told
    <2> QED BY <2>1, <2>2, SeatFacts
  <1>9. pc'[Host] # "off"
    BY <1>1 DEF Alive
  <1> QED BY <1>6, <1>7, <1>8, <1>9, SameView

LEMMA OnInputWatch ==
  ASSUME ImageInv, ImageInv', StoryInv, Alive, Watch, NEW c \in Seats, OnInput(c)
  PROVE  WatchInv'
  <1>1. /\ Take(c, "INPUT", <<>>)
        /\ UNCHANGED <<line, base, rec, pend, glitches, pushes, tick>> /\ resume'[Host] = resume[Host]
    BY DEF OnInput, recovery, image
  <1>2. "INPUT" \notin {"CRC", "END"} /\ "INPUT" # "RESYNC"
    OBVIOUS
  <1> QED BY <1>1, <1>2, TakeWatch

LEMMA OnChunkWatch ==
  ASSUME ImageInv, ImageInv', StoryInv, Alive, Watch, NEW c \in Seats, OnChunk(c)
  PROVE  WatchInv'
  <1>1. /\ Take(c, "CHUNK", <<>>)
        /\ UNCHANGED <<line, base, rec, pend, glitches, pushes, tick>> /\ resume'[Host] = resume[Host]
    BY DEF OnChunk, recovery, engine
  <1>2. "CHUNK" \notin {"CRC", "END"} /\ "CHUNK" # "RESYNC"
    OBVIOUS
  <1> QED BY <1>1, <1>2, TakeWatch

LEMMA CaptureWatch ==
  ASSUME ImageInv, ImageInv', StoryInv, Alive, Watch, NEW c \in Seats, CaptureInput(c)
  PROVE  WatchInv'
  <1> DEFINE f == CapFrame(c)
             o == <<f>>
             q == chan[Peer(c)]
  <1>1. /\ pc'[c] = "gate" /\ pc'[Peer(c)] = pc[Peer(c)]
        /\ f \in Frames /\ f.type = "INPUT"
        /\ chan'[Peer(c)] = q \o o /\ chan'[c] = chan[c]
        /\ UNCHANGED <<tick, line, base, glitches, pushes, resume>>
    BY CaptureStep
  <1>2. rec' = rec /\ pend' = pend
    BY DEF CaptureInput, recovery
  <1>3. pc'[Host] # "off"
    BY <1>1, SeatFacts DEF Alive
  <1> HIDE DEF f
  <1>4. o \in Seq(Frames) /\ \A i \in 1..Len(o) : o[i].type = "INPUT"
    BY <1>1, OneFrame
  <1>5. q \in Seq(Frames) /\ line[Guest] \in Nat
    BY SeatFacts DEF ImageInv, Basics
  <1> HIDE DEF o, q
  <1>6. Crcs(o) = {}
    BY <1>4, NoCrcs
  <1>7. Crcs(q \o o) = Crcs(q)
    <2>1. Crcs(q \o o) = Crcs(q) \cup Crcs(o)
      BY <1>4, <1>5, CrcsMore
    <2> QED BY <1>6, <2>1
  <1>8. Requests(q \o o) = Requests(q)
    BY <1>4, <1>5, RequestsMore
  <1>9. \A d \in Seats : Crcs(chan'[d]) = Crcs(chan[d])
    BY <1>1, <1>7, SeatFacts DEF q
  <1>10. Requests(chan'[Host]) = Requests(chan[Host])
    BY <1>1, <1>8, SeatFacts DEF q
  <1>11. Gifts(chan'[Guest], line[Guest]) = Given /\ Sums(chan'[Guest], line[Guest]) \subseteq Told
    <2>1. CASE c = Guest
      BY <1>1, <2>1, SeatFacts DEF Given, Told
    <2>2. CASE c = Host
      <3>1. Label(chan[Guest], line[Guest], Len(chan[Guest]) + 1) = line[Host]
        BY Living
      <3>2. q = chan[Guest] /\ chan'[Guest] = q \o o
        BY <1>1, <2>2, SeatFacts DEF q
      <3>3. \A i \in 1..Len(o) : o[i].type # "END"
        BY <1>4
      <3>4. /\ Sums(q \o o, line[Guest]) \subseteq Sums(q, line[Guest]) \cup {<<line[Host], g.val>> : g \in Crcs(o)}
            /\ Gifts(q \o o, line[Guest]) = Gifts(q, line[Guest])
        BY <1>4, <1>5, <3>1, <3>2, <3>3, ViewMore
      <3> QED BY <1>6, <3>2, <3>4 DEF Given, Told
    <2> QED BY <2>1, <2>2, SeatFacts
  <1>12. resume'[Host] = resume[Host] /\ Cardinality(Requests(chan'[Host])) = Cardinality(Requests(chan[Host]))
    BY <1>1, <1>10
  <1> QED BY <1>1, <1>2, <1>3, <1>9, <1>10, <1>11, <1>12, SameView

\* A console moves in its pass, or waits with a push.
LEMMA MoveWatch ==
  ASSUME ImageInv, ImageInv', StoryInv, Alive, Watch, NEW c \in Seats,
         \/ Read(c) \/ EnterPass(c) \/ Stall(c) \/ Round(c)
         \/ Pending(c) /\ ~(Wanted(c) /\ Push(c))
  PROVE  WatchInv'
  <1>1. /\ chan' = chan /\ UNCHANGED <<line, base, rec, pend, glitches, pushes, tick>> /\ resume' = resume
        /\ pc' = pc \/ \E next \in Places : pc' = [pc EXCEPT ![c] = next]
    BY DEF Read, EnterPass, Stall, Round, Pending, DonePumping, engine, recovery, image, wire, Places
  <1>2. pc'[Host] # "off"
    <2>1. pc \in [Seats -> {"pass", "pump", "gate", "stall", "after", "hold", "park", "off"}] /\ "off" \notin Places
      BY DEF ImageInv, Basics, Places
    <2> QED BY <1>1, <2>1, SeatFacts DEF Alive
  <1>3. resume'[Host] = resume[Host]
    BY <1>1
  <1> QED BY <1>1, <1>2, <1>3, QuietWatch

LEMMA SlotOf ==
  ASSUME NEW n \in Nat
  PROVE  CrcSlot(n) \in Slots
  <1> DEFINE k == n \div CrcEvery
  <1>1. k \in Nat
    BY Constants
  <1> HIDE DEF k
  <1>2. k % CrcSlots \in 0..(CrcSlots - 1)
    BY <1>1, Constants
  <1> QED BY <1>2 DEF CrcSlot, Slots, k

\* A request reaches the host, which remembers it; the guest gets none.
LEMMA OnReqWatch ==
  ASSUME ImageInv, ImageInv', StoryInv, Alive, Watch, NEW c \in Seats, OnReq(c)
  PROVE  WatchInv'
  <1> DEFINE q == chan[Host]
             out == <<>>
             type == "RESYNC"
  <1>1. /\ Take(c, type, out) /\ out \in Seq(Frames)
        /\ UNCHANGED <<line, base, rec, glitches, pushes, tick, resume>>
        /\ pend' = [pend EXCEPT ![c] = @ \/ (c = Host /\ ~hold[c] /\ ~pend[c])]
    BY EmptyQueue DEF OnReq, engine, image
  <1>2. pend \in [Seats -> BOOLEAN] /\ ~hold[Host] /\ q \in Seq(Frames) /\ chan[Guest] \in Seq(Frames)
    BY Living, SeatFacts DEF ImageInv, Basics
  <1>3. CASE c = Guest
    <2>1. pend' = pend
      BY <1>1, <1>2, <1>3, SeatFacts
    <2>2. Take(c, "RESYNC", <<>>) /\ "RESYNC" \notin {"CRC", "END"} /\ resume'[Host] = resume[Host]
      BY <1>1
    <2> HIDE DEF type, out
    <2> QED BY <1>1, <1>3, <2>1, <2>2, TakeWatch
  <1>4. CASE c = Host
    <2>1. pend'[Host] /\ pend'[Guest] = pend[Guest]
      BY <1>1, <1>2, <1>4, SeatFacts
    <2>2. /\ q # <<>> /\ q[1].type = type /\ pc' = pc
          /\ chan'[Host] = Tail(q) /\ chan'[Guest] = chan[Guest]
      <3> HIDE DEF out, type
      <3>1. /\ chan[c] # <<>> /\ chan[c][1].type = type /\ pc' = pc
            /\ chan'[c] = Tail(chan[c]) /\ chan'[Peer(c)] = chan[Peer(c)] \o out
        BY <1>1, TakeStep
      <3>2. chan[Guest] \o out = chan[Guest]
        BY <1>2, ConcatEmptySeq DEF out
      <3> QED BY <1>4, <3>1, <3>2, SeatFacts
    <2> HIDE DEF q
    <2>3. Crcs(chan'[Host]) = Crcs(chan[Host])
      <3>1. Crcs(Tail(q)) = Crcs(q)
        BY <1>2, <2>2, CrcsTail
      <3> QED BY <2>2, <3>1 DEF q
    <2>4. Records'
      BY <1>1 DEF Watch, Records
    <2>5. Reports'
      BY <1>1, <2>2, <2>3 DEF Watch, Reports, Tells
    <2>6. Noticed'
      BY <2>1 DEF Noticed, Repairing
    <2>7. Given' = Given /\ Told' = Told
      BY <1>1, <2>2 DEF Given, Told
    <2>8. Clean'
      <3>1. Up(Crcs(chan'[Host]), resume'[Host]) = Up(Crcs(chan[Host]), resume[Host])
        BY <1>1, <2>3
      <3>2. Seen(rec'[Host]) = Seen(rec[Host]) /\ Seen(rec'[Guest]) = Seen(rec[Guest])
        BY <1>1
      <3> QED BY <1>1, <2>7, <3>1, <3>2 DEF Clean, Watch
    <2>9. Asking' = Asking
      BY <1>1, <2>1, <2>7 DEF Asking
    <2>10. Budget'
      <3>1. /\ Cardinality(Requests(chan[Host])) \in Nat /\ Want \in {0, 1} /\ Want' \in {0, 1}
            /\ pushes \in Nat /\ glitches \in Nat /\ Cardinality(Requests(chan'[Host])) \in Nat
        BY Counts, CountsNext
      <3>2. Cardinality(Requests(q)) = Cardinality(Requests(Tail(q))) + 1
        BY <1>2, <2>2, RequestsTail
      <3>3. Cardinality(Requests(chan'[Host])) <= Cardinality(Requests(chan[Host])) + (0 - 1)
        BY <2>2, <3>1, <3>2 DEF q
      <3>4. /\ Want' <= Want + 1 /\ Asking' \subseteq Asking \cup {0} /\ Asking' \subseteq Asking
            /\ (pushes' - pushes) + ((0 - 1) + (1 + (IF 0 = 0 THEN 0 ELSE 1))) <= 2 * (glitches' - glitches)
        BY <1>1, <2>9, <3>1
      <3>5. Budget /\ 0 - 1 \in Int
        BY DEF Watch
      <3> QED BY <3>3, <3>4, <3>5, BudgetStep
    <2> QED BY <2>2, <2>4, <2>5, <2>6, <2>8, <2>10 DEF WatchInv, Watch, Alive
  <1> QED BY <1>3, <1>4, SeatFacts

\* The host compares a report with its own record.
LEMMA HostCrcWatch ==
  ASSUME ImageInv, ImageInv', StoryInv, Alive, Watch, OnCrc(Host)
  PROVE  WatchInv'
  <1> DEFINE q == chan[Host]
             f == q[1]
             bad == ~pend[Host] /\ Disagrees(Host, f)
             out == <<>>
             type == "CRC"
  <1>1. /\ Take(Host, type, out) /\ out \in Seq(Frames)
        /\ UNCHANGED <<line, base, rec, glitches, pushes, tick, resume>>
    BY EmptyQueue, SeatFacts DEF OnCrc, engine, image, Asks
  <1>2. pend \in [Seats -> BOOLEAN] /\ ~hold[Host] /\ q \in Seq(Frames) /\ chan[Guest] \in Seq(Frames)
    BY Living, SeatFacts DEF ImageInv, Basics
  <1>3. /\ q # <<>> /\ f \in Frames /\ f.type = type /\ Head(q) = f /\ pc' = pc
        /\ chan'[Host] = Tail(q) /\ chan'[Guest] = chan[Guest]
    <2> HIDE DEF out, type
    <2>1. /\ chan[Host] # <<>> /\ chan[Host][1].type = type /\ pc' = pc /\ chan[Host][1] \in Frames
          /\ Head(chan[Host]) = chan[Host][1]
          /\ chan'[Host] = Tail(chan[Host]) /\ chan'[Peer(Host)] = chan[Peer(Host)] \o out
      <3>1. Host \in Seats
        BY SeatFacts
      <3> QED BY <1>1, <3>1, TakeStep
    <2>2. chan[Guest] \o out = chan[Guest]
      BY <1>2, ConcatEmptySeq DEF out
    <2> QED BY <2>1, <2>2, SeatFacts
  <1>4. pend' = [pend EXCEPT ![Host] = @ \/ bad]
    BY <1>2, <1>3 DEF OnCrc
  <1>5. pend'[Host] <=> pend[Host] \/ bad
    BY <1>2, <1>4, SeatFacts
  <1>6. pend'[Guest] = pend[Guest]
    BY <1>2, <1>4, SeatFacts
  <1>7. f.tick \in Nat /\ f.type = "CRC" /\ CrcSlot(f.tick) \in Slots
    BY <1>3, SlotOf DEF Frames, Others
  <1> HIDE DEF q, f, bad
  <1>8. /\ Crcs(Tail(q)) \subseteq Crcs(q) /\ \A g \in Crcs(q) : g \in Crcs(Tail(q)) \/ g = f
        /\ f \in Crcs(q)
    BY <1>2, <1>3, <1>7, CrcsTail DEF f
  <1>9. /\ Cardinality(Requests(q)) = Cardinality(Requests(Tail(q))) + 0
        /\ Requests(q) = {} <=> Requests(Tail(q)) = {}
    <2>1. q[1].type # "RESYNC"
      BY <1>7 DEF f
    <2> QED BY <1>2, <1>3, <2>1, RequestsTail
  <1>10. Records'
    BY <1>1 DEF Watch, Records
  <1>11. Reports'
    BY <1>1, <1>3, <1>8 DEF Watch, Reports, Tells, q
  <1>12. Repairing => Repairing'
    BY <1>1, <1>3, <1>5, <1>9 DEF Repairing, q
  <1>13. Noticed'
    <2>1. ASSUME NEW i \in Slots, rec[Host][i].tick # -1, rec[Host][i].tick = rec[Guest][i].tick,
                 rec[Host][i].crc # rec[Guest][i].crc
          PROVE  Repairing' \/ \E c \in Seats : \E g \in Crcs(chan'[c]) : g.tick = rec[Host][i].tick
      <3>1. CASE Repairing
        BY <1>12, <3>1
      <3>2. ASSUME NEW c \in Seats, NEW g \in Crcs(chan[c]), g.tick = rec[Host][i].tick
            PROVE  Repairing' \/ \E d \in Seats : \E h \in Crcs(chan'[d]) : h.tick = rec[Host][i].tick
        <4>1. CASE g \in Crcs(chan'[c])
          BY <3>2, <4>1
        <4>2. CASE g \notin Crcs(chan'[c])
          <5>1. g = f
            BY <1>3, <1>8, <3>2, <4>2, SeatFacts DEF q
          <5>2. rec[Host][i].tick >= resume[Host] /\ CrcSlot(rec[Host][i].tick) = i
            BY <2>1, SeatFacts DEF Watch, Records
          <5>3. f \in Crcs(chan[Host]) /\ f.tick >= resume[Host] /\ CrcSlot(f.tick) = i
            BY <1>8, <3>2, <5>1, <5>2 DEF q
          <5>4. Tells(rec[Guest], f)
            BY <5>3 DEF Watch, Reports
          <5>5. f.val = rec[Guest][i].crc
            BY <2>1, <3>2, <5>1, <5>3, <5>4 DEF Tells
          <5>6. Disagrees(Host, f)
            BY <2>1, <3>2, <5>1, <5>3, <5>5 DEF Disagrees
          <5>7. pend'[Host]
            BY <1>5, <5>6 DEF bad
          <5> QED BY <5>7 DEF Repairing
        <4> QED BY <4>1, <4>2
      <3>3. Repairing \/ \E c \in Seats : \E g \in Crcs(chan[c]) : g.tick = rec[Host][i].tick
        BY <2>1 DEF Watch, Noticed
      <3> QED BY <3>1, <3>2, <3>3
    <2>2. pend'[Guest] => Repairing'
      BY <1>6, <1>12 DEF Watch, Noticed
    <2>3. rec' = rec
      BY <1>1
    <2> QED BY <2>1, <2>2, <2>3 DEF Noticed
  <1>14. Given' = Given /\ Told' = Told /\ Agreed' = Agreed
    BY <1>1, <1>3 DEF Given, Told, Agreed
  <1>15. Clean'
    <2>1. Up(Crcs(chan'[Host]), resume'[Host]) \subseteq Up(Crcs(chan[Host]), resume[Host])
      BY <1>1, <1>3, <1>8 DEF Up, q
    <2>2. Seen(rec'[Host]) = Seen(rec[Host]) /\ Seen(rec'[Guest]) = Seen(rec[Guest])
      BY <1>1
    <2> QED BY <1>1, <1>14, <2>1, <2>2, PureLess DEF Clean, Watch
  <1>16. Asking' = Asking
    BY <1>1, <1>6, <1>14 DEF Asking
  <1>17. bad => ~Agreed
    <2> SUFFICES ASSUME bad, Agreed PROVE FALSE
      OBVIOUS
    <2> DEFINE i == CrcSlot(f.tick)
    <2>1. i \in Slots /\ rec[Host][i].tick = f.tick /\ rec[Host][i].crc # f.val
      BY <1>7 DEF bad, Disagrees
    <2>2. rec[Host][i].tick # -1 /\ rec[Host][i].tick >= resume[Host]
      BY <1>7, <2>1 DEF Watch, Records
    <2>3. line[Guest] = line[Host]
      BY <1>8, <2>1, <2>2 DEF Watch, Reports, q
    <2>4. f.val \in Up(Crcs(chan[Host]), resume[Host])
      BY <1>8, <2>1, <2>2 DEF Up, q
    <2>5. rec[Host][i].crc \in Seen(rec[Host])
      BY <2>1, <2>2 DEF Seen
    <2>6. Seen(rec[Host]) \subseteq {base[Host]} /\ Up(Crcs(chan[Host]), resume[Host]) \subseteq {base[Host]}
      BY <2>3 DEF Agreed, Watch, Clean, Pure
    <2> QED BY <2>1, <2>4, <2>5, <2>6
  <1>18. Want' = Want
    BY <1>5, <1>14, <1>17 DEF Want
  <1>19. Budget'
    <2>1. /\ Cardinality(Requests(chan[Host])) \in Nat /\ Want \in {0, 1} /\ pushes \in Nat /\ glitches \in Nat
          /\ Cardinality(Requests(chan'[Host])) \in Nat
      BY Counts, CountsNext
    <2>2. Cardinality(Requests(chan'[Host])) = Cardinality(Requests(chan[Host]))
      BY <1>3, <1>9, <2>1 DEF q
    <2>3. Budget
      BY DEF Watch
    <2> QED BY <1>1, <1>16, <1>18, <2>2, <2>3 DEF Budget
  <1> QED BY <1>3, <1>10, <1>11, <1>13, <1>15, <1>19 DEF WatchInv, Watch, Alive

\* One that could ask has asked.
LEMMA BudgetAsked ==
  ASSUME ImageInv, ImageInv', Budget, NEW l \in Asking, l \notin Asking', Asking' \subseteq Asking,
         Cardinality(Requests(chan'[Host])) <= Cardinality(Requests(chan[Host])) + 1, Want' = Want,
         pushes' = pushes, glitches' = glitches
  PROVE  Budget'
  <1> DEFINE A == Asking
             B == Asking'
             a == Cardinality(A)
             b == Cardinality(B)
             n == Cardinality(Requests(chan[Host]))
             m == Cardinality(Requests(chan'[Host]))
             D == A \ {l}
  <1>1. IsFiniteSet(A) /\ a \in Nat /\ n \in Nat /\ Want \in Nat /\ glitches \in Nat /\ pushes \in Nat
    BY Counts
  <1>2. b \in Nat /\ m \in Nat
    BY CountsNext
  <1>3. pushes + (n + (Want + a)) <= 2 * glitches /\ m <= n + 1
    BY DEF Budget
  <1> HIDE DEF A, B, n, m
  <1>4. IsFiniteSet(D) /\ Cardinality(D) = a - 1
    <2>1. l \in A
      BY DEF A
    <2> QED BY <1>1, <2>1, FS_RemoveElement
  <1>5. b <= Cardinality(D)
    <2>1. B \in SUBSET D
      BY DEF A, B
    <2> QED BY <1>4, <2>1, FS_Subset
  <1> DEFINE W == Want
             P == pushes
             g == glitches
  <1>6. /\ P \in Nat /\ n \in Nat /\ W \in Nat /\ a \in Nat /\ g \in Nat /\ m \in Nat /\ b \in Nat
        /\ P + (n + (W + a)) <= 2 * g /\ m <= n + 1 /\ b <= a - 1
    BY <1>1, <1>2, <1>3, <1>4, <1>5
  <1> HIDE DEF a, b, W, P, g
  <1>7. P + (m + (W + b)) <= 2 * g
    BY <1>6
  <1> QED BY <1>7 DEF Budget, W, b, B, m, P, g

\* The guest compares a report with its own record, and asks.
LEMMA GuestCrcWatch ==
  ASSUME ImageInv, ImageInv', StoryInv, Alive, Watch, OnCrc(Guest)
  PROVE  WatchInv'
  <1> DEFINE q == chan[Guest]
             p == chan[Host]
             f == q[1]
             e == line[Guest]
             bad == ~hold[Guest] /\ ~pend[Guest] /\ Disagrees(Guest, f)
             h == Frame("RESYNC", f.tick, 0)
             out == IF bad THEN <<h>> ELSE <<>>
             type == "CRC"
  <1>1. /\ pend \in [Seats -> BOOLEAN] /\ q \in Seq(Frames) /\ p \in Seq(Frames)
        /\ e \in Nat /\ line[Host] \in Nat /\ e <= line[Host]
    BY Living, SeatFacts DEF ImageInv, Basics
  <1>2. /\ UNCHANGED <<line, base, rec, glitches, pushes, tick, resume>>
        /\ Take(Guest, type, out) /\ q # <<>> /\ Head(q) = f /\ f \in Frames
        /\ pend' = [pend EXCEPT ![Guest] = @ \/ bad]
    <2> DEFINE g == Head(q)
               z == ~hold[Guest] /\ ~pend[Guest] /\ Disagrees(Guest, g)
    <2>1. /\ UNCHANGED <<line, base, rec, glitches, pushes, tick, resume>>
          /\ Take(Guest, type, IF z THEN <<Frame("RESYNC", g.tick, 0)>> ELSE <<>>)
          /\ pend' = [pend EXCEPT ![Guest] = @ \/ z]
      BY DEF OnCrc, engine, image, Asks
    <2>2. q # <<>>
      BY <2>1 DEF Take, Complete
    <2>3. g = f /\ f \in Frames
      BY <1>1, <2>2, QueueTail
    <2> HIDE DEF f, g
    <2> QED BY <2>1, <2>2, <2>3 DEF g
  <1>3. h \in Frames /\ h.type = "RESYNC" /\ f.tick \in Nat
    <2>1. f.tick \in Nat
      BY <1>2 DEF Frames
    <2> HIDE DEF f
    <2> QED BY <2>1 DEF Frame, Frames, Others
  <1> HIDE DEF h, bad
  <1>4. /\ out \in Seq(Frames) /\ \A i \in 1..Len(out) : out[i].type = "RESYNC"
    <2>1. <<h>> \in Seq(Frames) /\ \A i \in 1..Len(<<h>>) : <<h>>[i].type = "RESYNC"
      BY <1>3, OneFrame
    <2>2. \A i \in 1..Len(<<>>) : FALSE
      BY EmptyQueue
    <2> QED BY <2>1, <2>2, EmptyQueue
  <1>5. /\ f.type = type /\ pc' = pc /\ chan'[Guest] = Tail(q) /\ chan'[Host] = p \o out
    <2> HIDE DEF out, type
    <2>1. Guest \in Seats
      BY SeatFacts
    <2>2. /\ chan[Guest][1].type = type /\ pc' = pc
          /\ chan'[Guest] = Tail(chan[Guest]) /\ chan'[Peer(Guest)] = chan[Peer(Guest)] \o out
      BY <1>2, <1>4, <2>1, TakeStep
    <2> QED BY <2>2, SeatFacts
  <1>6. pend'[Guest] <=> pend[Guest] \/ bad
    BY <1>1, <1>2, SeatFacts
  <1>7. pend'[Host] = pend[Host]
    BY <1>1, <1>2, SeatFacts
  <1>8. f.type = "CRC" /\ CrcSlot(f.tick) \in Slots
    BY <1>3, <1>5, SlotOf
  <1>9. hold[Guest] => e < line[Host]
    BY Living DEF Playing, Pace
  <1> HIDE DEF q, p, f, e, out, type
  <1>10. /\ Crcs(Tail(q)) \subseteq Crcs(q) /\ \A g \in Crcs(q) : g \in Crcs(Tail(q)) \/ g = f
         /\ f \in Crcs(q)
    BY <1>1, <1>2, <1>8, CrcsTail DEF f
  <1>11. Crcs(chan'[Host]) = Crcs(chan[Host])
    <2>1. Crcs(out) = {}
      BY <1>4, NoCrcs
    <2>2. Crcs(p \o out) = Crcs(p) \cup Crcs(out)
      BY <1>1, <1>4, CrcsMore
    <2> QED BY <1>5, <2>1, <2>2 DEF p
  <1>12. /\ bad => Cardinality(Requests(chan'[Host])) = Cardinality(Requests(p)) + 1 /\ Requests(chan'[Host]) # {}
         /\ ~bad => chan'[Host] = p
    <2>1. bad => out = <<h>>
      BY DEF out
    <2>2. ~bad => out = <<>>
      BY DEF out
    <2>3. p \o <<>> = p
      BY <1>1, ConcatEmptySeq
    <2>4. /\ Cardinality(Requests(p \o <<h>>)) = Cardinality(Requests(p)) + 1
          /\ Requests(p \o <<h>>) # {}
      BY <1>1, <1>3, RequestsOne
    <2> QED BY <1>5, <2>1, <2>2, <2>3, <2>4
  <1>13. Given' = Given /\ Told' \subseteq Told /\ <<e, f.val>> \in Told
    <2>1. e = IF q[1].type = "END" THEN e + 1 ELSE e
      BY <1>8 DEF f
    <2>2. /\ Sums(Tail(q), e) \subseteq Sums(q, e)
          /\ Gifts(q, e) = Gifts(Tail(q), e) \cup IF q[1].type = "END" THEN {<<e + 1, q[1].val>>} ELSE {}
          /\ q[1].type = "CRC" => <<e, q[1].val>> \in Sums(q, e)
      BY <1>1, <1>2, <2>1, ViewTail
    <2>3. Gifts(q, e) = Gifts(Tail(q), e) /\ <<e, f.val>> \in Sums(q, e)
      BY <1>8, <2>2 DEF f
    <2> QED BY <1>2, <1>5, <2>2, <2>3 DEF Given, Told, q, e
  <1>14. Records'
    BY <1>2 DEF Watch, Records
  <1>15. Reports'
    BY <1>2, <1>5, <1>10, <1>11 DEF Watch, Reports, Tells, q
  <1>16. Repairing => Repairing'
    BY <1>2, <1>5, <1>7, <1>12 DEF Repairing, p
  <1>17. bad => Repairing'
    BY <1>12 DEF Repairing
  <1>18. Noticed'
    <2>1. ASSUME NEW i \in Slots, rec[Host][i].tick # -1, rec[Host][i].tick = rec[Guest][i].tick,
                 rec[Host][i].crc # rec[Guest][i].crc
          PROVE  Repairing' \/ \E c \in Seats : \E g \in Crcs(chan'[c]) : g.tick = rec[Host][i].tick
      <3>1. CASE Repairing
        BY <1>16, <3>1
      <3>2. ASSUME NEW c \in Seats, NEW g \in Crcs(chan[c]), g.tick = rec[Host][i].tick
            PROVE  Repairing' \/ \E d \in Seats : \E x \in Crcs(chan'[d]) : x.tick = rec[Host][i].tick
        <4>1. CASE g \in Crcs(chan'[c])
          BY <3>2, <4>1
        <4>2. CASE g \notin Crcs(chan'[c])
          <5>1. g = f
            BY <1>5, <1>10, <1>11, <3>2, <4>2, SeatFacts DEF q
          <5>2. CrcSlot(rec[Host][i].tick) = i
            BY <2>1, SeatFacts DEF Watch, Records
          <5>3. f \in Crcs(chan[Guest]) /\ CrcSlot(f.tick) = i
            BY <1>10, <3>2, <5>1, <5>2 DEF q
          <5>4. Tells(rec[Host], f)
            BY <5>3 DEF Watch, Reports
          <5>5. f.val = rec[Host][i].crc
            BY <2>1, <3>2, <5>1, <5>3, <5>4 DEF Tells
          <5>6. Disagrees(Guest, f)
            BY <2>1, <3>2, <5>1, <5>3, <5>5 DEF Disagrees
          <5>7. CASE bad
            BY <1>17, <5>7
          <5>8. CASE ~bad
            <6>1. hold[Guest] \/ pend[Guest]
              BY <5>6, <5>8 DEF bad
            <6>2. Repairing
              BY <1>9, <6>1 DEF Watch, Noticed, Repairing, e
            <6> QED BY <1>16, <6>2
          <5> QED BY <5>7, <5>8
        <4> QED BY <4>1, <4>2
      <3>3. Repairing \/ \E c \in Seats : \E g \in Crcs(chan[c]) : g.tick = rec[Host][i].tick
        BY <2>1 DEF Watch, Noticed
      <3> QED BY <3>1, <3>2, <3>3
    <2>2. pend'[Guest] => Repairing'
      BY <1>6, <1>16, <1>17 DEF Watch, Noticed
    <2>3. rec' = rec
      BY <1>2
    <2> QED BY <2>1, <2>2, <2>3 DEF Noticed
  <1>19. Clean'
    <2>1. Up(Crcs(chan'[Host]), resume'[Host]) = Up(Crcs(chan[Host]), resume[Host])
      BY <1>2, <1>11
    <2>2. Seen(rec'[Host]) = Seen(rec[Host]) /\ Seen(rec'[Guest]) = Seen(rec[Guest])
      BY <1>2
    <2> QED BY <1>2, <1>13, <2>1, <2>2, PureLess DEF Clean, Watch
  <1>20. Want' = Want
    BY <1>2, <1>7, <1>13 DEF Want, Agreed
  <1>21. /\ Asking' \subseteq Asking
         /\ bad => e \notin Asking'
    <2>1. pend[Guest] => pend'[Guest]
      BY <1>6
    <2>2. /\ Asking' \subseteq Asking
          /\ pend'[Guest] => line[Guest] \notin Asking'
      BY <1>2, <1>13, <2>1, OpenLess DEF Asking
    <2> QED BY <1>6, <2>2 DEF e
  <1>22. bad => e \in Asking
    <2> SUFFICES ASSUME bad PROVE e \in Asking
      OBVIOUS
    <2> DEFINE i == CrcSlot(f.tick)
               w == rec[Guest][i].crc
               v == f.val
    <2>1. i \in Slots /\ rec[Guest][i].tick = f.tick /\ w # v /\ pend[Guest] = FALSE
      BY <1>1, <1>8, SeatFacts DEF bad, Disagrees
    <2>2. rec[Guest][i].tick # -1
      BY <1>3, <2>1
    <2>3. w \in Seen(rec[Guest])
      BY <2>1, <2>2 DEF Seen
    <2>4. /\ Pure(e, line[Host], Given, Told, base[Guest], base[Host],
              Seen(rec[Host]), Seen(rec[Guest]), Up(Crcs(chan[Host]), resume[Host]))
      BY DEF Watch, Clean, e
    <2> HIDE DEF w, v
    <2>5. e \in Open(e, line[Host], Given, Told, base[Guest], base[Host], Seen(rec[Guest]), FALSE)
      BY <1>1, <1>13, <2>1, <2>3, <2>4, SeesIt DEF v
    <2> QED BY <2>1, <2>5 DEF Asking, e
  <1>23. Budget'
    <2>1. Budget /\ Cardinality(Requests(p)) \in Nat
      BY <1>1, RequestsFinite DEF Watch
    <2>2. CASE bad
      <3>1. Cardinality(Requests(chan'[Host])) <= Cardinality(Requests(chan[Host])) + 1
        BY <1>12, <2>1, <2>2 DEF p
      <3>2. pushes' = pushes /\ glitches' = glitches
        BY <1>2
      <3> QED BY <1>20, <1>21, <1>22, <2>1, <2>2, <3>1, <3>2, BudgetAsked
    <2>3. CASE ~bad
      <3>1. Requests(chan'[Host]) = Requests(chan[Host])
        BY <1>12, <2>3 DEF p
      <3>2. Cardinality(Requests(chan[Host])) \in Nat /\ Want \in {0, 1} /\ pushes \in Nat /\ glitches \in Nat
        BY Counts
      <3>3. Want' <= Want /\ Cardinality(Requests(chan'[Host])) <= Cardinality(Requests(chan[Host]))
        BY <1>20, <3>1, <3>2
      <3>4. pushes' = pushes /\ glitches' = glitches /\ Asking' \subseteq Asking
        BY <1>2, <1>21
      <3> QED BY <2>1, <3>3, <3>4, BudgetKept
    <2> QED BY <2>2, <2>3
  <1> QED BY <1>5, <1>14, <1>15, <1>18, <1>19, <1>23 DEF WatchInv, Watch, Alive

LEMMA OnCrcWatch ==
  ASSUME ImageInv, ImageInv', StoryInv, Alive, Watch, NEW c \in Seats, OnCrc(c)
  PROVE  WatchInv'
  BY HostCrcWatch, GuestCrcWatch, SeatFacts

LEMMA NoneSeen == Seen(NoRecords) = {} /\ \A i \in Slots : NoRecords[i].tick = -1
  BY DEF Seen, NoRecords, NoRecord, Slots

\* BEGIN: the guest's records are gone, and END is to come.
LEMMA OnBeginWatch ==
  ASSUME ImageInv, ImageInv', StoryInv, Alive, Watch, NEW c \in Seats, OnBegin(c)
  PROVE  WatchInv'
  <1> DEFINE out == <<>>
             q == chan[Guest]
             e == line[Guest]
             type == "BEGIN"
  <1>1. /\ Take(c, type, out) /\ out \in Seq(Frames)
        /\ UNCHANGED <<line, base, pend, glitches, pushes, tick>>
        /\ resume' = [resume EXCEPT ![c] = Head(chan[c]).tick]
        /\ rec' = [rec EXCEPT ![c] = NoRecords]
    BY EmptyQueue DEF OnBegin, engine, Cleared
  <1>2. c = Guest
    <2> SUFFICES ASSUME c = Host PROVE FALSE
      BY SeatFacts
    <2>1. Take(Host, type, <<>>) /\ type \notin Plain
      BY <1>1 DEF Plain
    <2> HIDE DEF type
    <2> QED BY <2>1, HostTakes
  <1>3. /\ q \in Seq(Frames) /\ chan[Host] \in Seq(Frames) /\ e \in Nat
        /\ rec \in [Seats -> [Slots -> [tick : Int, crc : Nat]]] /\ resume \in [Seats -> Nat]
    BY SeatFacts DEF ImageInv, Basics, Slots
  <1>4. /\ q # <<>> /\ q[1].type = "BEGIN" /\ pc' = pc /\ chan'[Guest] = Tail(q) /\ chan'[Host] = chan[Host]
    <2> HIDE DEF out, type
    <2>1. /\ chan[c] # <<>> /\ chan[c][1].type = type /\ pc' = pc
          /\ chan'[c] = Tail(chan[c]) /\ chan'[Peer(c)] = chan[Peer(c)] \o out
      BY <1>1, TakeStep
    <2>2. chan[Host] \o out = chan[Host]
      BY <1>3, ConcatEmptySeq DEF out
    <2> QED BY <1>2, <2>1, <2>2, SeatFacts DEF type
  <1>5. e < line[Host]
    <2>1. Logs /\ Wires
      BY Living DEF StoryInv, Playing
    <2>2. Fits(q[1], line[Guest], line[Host], wm[Host], resume[Host], Fresh, base[Host], Start(Host))
      BY <1>4, <2>1, DownTake, Scalars DEF Wires, Going
    <2> QED BY <1>4, <2>2 DEF Fits
  <1>6. e # line[Host]
    BY <1>3, <1>5, Living
  <1>7. rec'[Guest] = NoRecords /\ rec'[Host] = rec[Host] /\ resume'[Host] = resume[Host]
    BY <1>1, <1>2, <1>3, SeatFacts
  <1> HIDE DEF q
  <1>8. Crcs(chan'[Guest]) = Crcs(chan[Guest])
    <2>1. Crcs(Tail(q)) = Crcs(q)
      BY <1>3, <1>4, CrcsTail
    <2> QED BY <1>4, <2>1 DEF q
  <1>9. Given' = Given /\ Told' \subseteq Told
    <2>1. e = IF q[1].type = "END" THEN e + 1 ELSE e
      BY <1>4
    <2> HIDE DEF e
    <2>2. /\ Sums(Tail(q), e) \subseteq Sums(q, e)
          /\ Gifts(q, e) = Gifts(Tail(q), e) \cup IF q[1].type = "END" THEN {<<e + 1, q[1].val>>} ELSE {}
      BY <1>3, <1>4, <2>1, ViewTail
    <2>3. Gifts(q, e) = Gifts(Tail(q), e)
      BY <1>4, <2>2
    <2> QED BY <1>1, <1>4, <2>2, <2>3 DEF Given, Told, q, e
  <1>10. Records'
    <2>1. ASSUME NEW d \in Seats, NEW i \in Slots, rec'[d][i].tick # -1
          PROVE  /\ rec'[d][i].tick \in Nat /\ rec'[d][i].tick < tick'[d] /\ CrcSlot(rec'[d][i].tick) = i
                 /\ d = Host
      <3>1. d = Host
        BY <1>7, <2>1, NoneSeen, SeatFacts
      <3> QED BY <1>1, <1>7, <2>1, <3>1 DEF Watch, Records
    <2>2. \A i \in Slots : rec'[Host][i].tick # -1 => rec'[Host][i].tick >= resume'[Host]
      BY <1>7 DEF Watch, Records
    <2> QED BY <2>1, <2>2 DEF Records
  <1>11. Reports'
    <2>1. \A f \in Crcs(chan'[Guest]) : f.tick < tick'[Host] /\ Tells(rec'[Host], f)
      BY <1>1, <1>7, <1>8 DEF Watch, Reports
    <2>2. \A f \in Crcs(chan'[Host]) : ~(f.tick >= resume'[Host])
      BY <1>4, <1>6, <1>7 DEF Watch, Reports
    <2> QED BY <2>1, <2>2 DEF Reports
  <1>12. Noticed'
    <2>1. Repairing'
      BY <1>1, <1>5 DEF Repairing
    <2> QED BY <2>1 DEF Noticed
  <1>13. Clean'
    <2>1. Up(Crcs(chan'[Host]), resume'[Host]) = Up(Crcs(chan[Host]), resume[Host])
      BY <1>4, <1>7
    <2>2. Seen(rec'[Host]) = Seen(rec[Host]) /\ Seen(rec'[Guest]) \subseteq Seen(rec[Guest])
      BY <1>7, NoneSeen
    <2> QED BY <1>1, <1>9, <2>1, <2>2, PureLess DEF Clean, Watch
  <1>14. Asking' \subseteq Asking
    <2>1. Seen(rec'[Guest]) \subseteq Seen(rec[Guest])
      BY <1>7, NoneSeen
    <2> QED BY <1>1, <1>9, <2>1, OpenLess DEF Asking
  <1>15. Want' = Want
    BY <1>1, <1>9 DEF Want, Agreed
  <1>16. Budget'
    <2>1. Budget /\ Want \in {0, 1} /\ Cardinality(Requests(chan[Host])) \in Nat
      BY Counts DEF Watch
    <2>2. Want' <= Want /\ Cardinality(Requests(chan'[Host])) <= Cardinality(Requests(chan[Host]))
      BY <1>4, <1>15, <2>1
    <2>3. pushes' = pushes /\ glitches' = glitches
      BY <1>1
    <2> QED BY <1>14, <2>1, <2>2, <2>3, BudgetKept
  <1> QED BY <1>4, <1>10, <1>11, <1>12, <1>13, <1>16 DEF WatchInv, Watch, Alive

\* END: the guest is in the next timeline, under the name it was given.
LEMMA OnEndWatch ==
  ASSUME ImageInv, ImageInv', StoryInv, Alive, Watch, NEW c \in Seats, OnEnd(c)
  PROVE  WatchInv'
  <1> DEFINE q == chan[Guest]
             e == line[Guest]
             E == line[Host]
             v == q[1].val
             G2 == Gifts(Tail(q), e + 1)
             S2 == Sums(Tail(q), e + 1)
             x == base[Guest]
             y == base[Host]
             gs == Seen(rec[Guest])
             hs == Seen(rec[Host])
             u == Up(Crcs(chan[Host]), resume[Host])
  <1>1. /\ ~dropped[Guest] /\ Playing /\ q \in Seq(Frames) /\ e \in Nat /\ E \in Nat
        /\ Label(q, e, Len(q) + 1) = E
    BY Living
  <1>2. /\ c = Guest /\ hold[Guest] /\ q # <<>> /\ q[1].type = "END"
        /\ chan'[Guest] = Tail(q) /\ chan'[Host] = chan[Host]
        /\ tick'[Host] = tick[Host]
        /\ line'[Guest] = e + 1 /\ line'[Host] = E
        /\ base'[Guest] = v /\ base'[Host] = y
        /\ pc' = pc /\ resume' = resume /\ glitches' = glitches /\ pushes' = pushes
    BY <1>1, EndStep
  <1>3. /\ pend' = [pend EXCEPT ![c] = FALSE] /\ rec' = [rec EXCEPT ![c] = NoRecords]
    BY <1>2 DEF OnEnd, Rebase, Satisfied, Cleared
  <1>4. /\ pend'[Guest] = FALSE /\ pend'[Host] = pend[Host] /\ rec'[Guest] = NoRecords /\ rec'[Host] = rec[Host]
    BY <1>2, <1>3, SeatFacts DEF ImageInv, Basics
  <1>5. e < E /\ e # E
    <2>1. e < E
      BY <1>1, <1>2 DEF Playing, Pace
    <2> QED BY <1>1, <2>1
  <1> HIDE DEF q, e, E, v, x, y, gs, hs, u
  <1>6. /\ S2 \subseteq Told /\ Given = G2 \cup {<<e + 1, v>>}
    <2>1. e + 1 = IF q[1].type = "END" THEN e + 1 ELSE e
      BY <1>2
    <2>2. /\ Sums(Tail(q), e + 1) \subseteq Sums(q, e)
          /\ Gifts(q, e) = Gifts(Tail(q), e + 1) \cup IF q[1].type = "END" THEN {<<e + 1, q[1].val>>} ELSE {}
      BY <1>1, <1>2, <2>1, ViewTail
    <2> QED BY <1>2, <2>2 DEF Given, Told, q, e, v
  <1>7. /\ \A g \in G2 : g[1] \in (e + 2)..E
        /\ \A s \in S2 : s[1] \in (e + 1)..E
    <2> DEFINE t == Tail(q)
               d == e + 1
    <2>1. t \in Seq(Frames) /\ d \in Nat
      BY <1>1, <1>2, QueueTail
    <2>2. Label(t, d, Len(t) + 1) = E
      <3>1. e + 1 = IF q[1].type = "END" THEN e + 1 ELSE e
        BY <1>2
      <3> QED BY <1>1, <1>2, <3>1, LabelTail
    <2> HIDE DEF t, d
    <2>3. /\ \A s \in Sums(t, d) : s[1] \in d..E
          /\ \A g \in Gifts(t, d) : g[1] \in (d + 1)..E
      BY <1>1, <2>1, <2>2, ViewRange
    <2>4. d + 1 = e + 2
      BY <1>1 DEF d
    <2>5. G2 = Gifts(t, d) /\ S2 = Sums(t, d)
      BY DEF t, d
    <2> HIDE DEF G2, S2
    <2> QED BY <2>3, <2>4, <2>5 DEF d
  <1>8. Pure(e, E, Given, Told, x, y, hs, gs, u)
    BY DEF Watch, Clean, e, E, x, y, hs, gs, u
  <1> HIDE DEF G2, S2
  <1>9. /\ Open(e + 1, E, G2, S2, v, y, {}, FALSE) \subseteq Open(e, E, Given, Told, x, y, gs, pend[Guest])
        /\ Pure(e + 1, E, G2, S2, v, y, hs, {}, {})
        /\ Same(e + 1, E, G2, v, y) <=> Same(e, E, Given, x, y)
    <2>1. /\ e \in Nat /\ E \in Nat /\ e < E /\ S2 \subseteq Told /\ Given = G2 \cup {<<e + 1, v>>}
      BY <1>1, <1>5, <1>6
    <2> QED BY <1>7, <1>8, <2>1, GuestRebases, ZenonT(30)
  <1>10. Given' = G2 /\ Told' = S2
    BY <1>2 DEF Given, Told, G2, S2
  <1>11. Seen(rec'[Guest]) = {} /\ Seen(rec'[Host]) = hs
    BY <1>4, NoneSeen DEF hs
  <1>12. \A f \in Crcs(chan'[Host]) : ~(f.tick >= resume'[Host])
    BY <1>2, <1>5 DEF Watch, Reports, e, E
  <1>13. Up(Crcs(chan'[Host]), resume'[Host]) = {}
    BY <1>12 DEF Up
  <1>14. Clean'
    BY <1>2, <1>9, <1>10, <1>11, <1>13 DEF Clean
  <1>15. Asking' \subseteq Asking
    <2>1. Asking' = Open(e + 1, E, G2, S2, v, y, {}, FALSE)
      BY <1>2, <1>4, <1>10, <1>11 DEF Asking
    <2>2. Asking = Open(e, E, Given, Told, x, y, gs, pend[Guest])
      BY DEF Asking, e, E, x, y, gs
    <2> QED BY <1>9, <2>1, <2>2
  <1>16. Want' = Want
    <2>1. Agreed' <=> Same(e + 1, E, G2, v, y)
      BY <1>2, <1>10 DEF Agreed
    <2>2. Agreed <=> Same(e, E, Given, x, y)
      BY DEF Agreed, e, E, x, y
    <2> QED BY <1>4, <1>9, <2>1, <2>2 DEF Want
  <1>17. Records'
    <2>1. ASSUME NEW d \in Seats, NEW i \in Slots, rec'[d][i].tick # -1
          PROVE  /\ rec'[d][i].tick \in Nat /\ rec'[d][i].tick < tick'[d] /\ CrcSlot(rec'[d][i].tick) = i
      <3>1. d = Host
        BY <1>4, <2>1, NoneSeen, SeatFacts
      <3> QED BY <1>2, <1>4, <2>1, <3>1 DEF Watch, Records
    <2>2. \A i \in Slots : rec'[Host][i].tick # -1 => rec'[Host][i].tick >= resume'[Host]
      BY <1>2, <1>4 DEF Watch, Records
    <2> QED BY <2>1, <2>2 DEF Records
  <1>18. Reports'
    <2>1. Crcs(Tail(q)) \subseteq Crcs(q)
      BY <1>1, <1>2, CrcsTail
    <2>2. \A f \in Crcs(chan'[Guest]) : f.tick < tick'[Host] /\ Tells(rec'[Host], f)
      BY <1>2, <1>4, <2>1 DEF Watch, Reports, q
    <2> QED BY <1>12, <2>2 DEF Reports
  <1>19. Noticed'
    BY <1>4, NoneSeen DEF Noticed
  <1>20. Budget'
    <2>1. Budget /\ Want \in {0, 1} /\ Cardinality(Requests(chan[Host])) \in Nat
      BY Counts DEF Watch
    <2>2. Want' <= Want /\ Cardinality(Requests(chan'[Host])) <= Cardinality(Requests(chan[Host]))
      BY <1>2, <1>16, <2>1
    <2>3. pushes' = pushes /\ glitches' = glitches
      BY <1>2
    <2> QED BY <1>15, <2>1, <2>2, <2>3, BudgetKept
  <1> QED BY <1>2, <1>14, <1>17, <1>18, <1>19, <1>20 DEF WatchInv, Watch, Alive

\* Everything the guest has reported is of ticks before the new timeline's.
LEMMA ReportsOld ==
  ASSUME ImageInv, StoryInv, Alive, Watch, pc[Host] = "after", NEW r, r = tick[Host] + Lead
  PROVE  /\ r \in Nat /\ tick[Host] < r
         /\ \A f \in Crcs(chan[Host]) : f.tick \in Nat /\ ~(f.tick >= r)
  <1>1. /\ ~dropped[Guest] /\ Logs /\ Pace /\ chan[Host] \in Seq(Frames)
    BY Living DEF StoryInv, Playing
  <1>2. /\ tick[Host] \in Nat /\ tick[Guest] \in Nat /\ wm[Guest] \in Nat /\ resume[Host] \in Nat
    BY <1>1, Scalars
  <1>3. wm[Guest] + (1 + Delay) <= r + (Delay - 1)
    BY <1>1, PushFar
  <1>4. tick[Guest] <= wm[Guest] + 1 /\ resume[Host] <= tick[Host]
    BY <1>1, SeatFacts DEF Pace
  <1>5. r \in Nat /\ tick[Host] < r
    BY <1>2, Constants
  <1> DEFINE t == tick[Host]
             g == tick[Guest]
             w == wm[Guest]
             h == resume[Host]
  <1>6. g < r /\ h < r /\ g \in Nat /\ h \in Nat
    <2>1. t \in Nat /\ g \in Nat /\ w \in Nat /\ h \in Nat /\ r \in Nat /\ t < r
          /\ w + (1 + Delay) <= r + (Delay - 1) /\ g <= w + 1 /\ h <= t
      BY <1>2, <1>3, <1>4, <1>5
    <2> HIDE DEF t, g, w, h
    <2> QED BY <2>1, Constants
  <1>7. ASSUME NEW f \in Crcs(chan[Host])
        PROVE  f.tick \in Nat /\ ~(f.tick >= r)
    <2>1. f.tick \in Nat
      BY <1>1, CrcsOf
    <2>2. f.tick >= h => f.tick < g
      BY DEF Watch, Reports
    <2> DEFINE k == f.tick
    <2> HIDE DEF t, g, w, h, k
    <2>3. k \in Nat /\ (k >= h => k < g)
      BY <2>1, <2>2 DEF k
    <2>4. ~(k >= r)
      BY <1>5, <1>6, <2>3
    <2> QED BY <2>1, <2>4 DEF k
  <1> QED BY <1>5, <1>7

LEMMA PushWatch ==
  ASSUME ImageInv, ImageInv', StoryInv, Alive, Watch, NEW c \in Seats, Pending(c), Wanted(c), Push(c)
  PROVE  WatchInv'
  <1> DEFINE q == chan[Guest]
             p == chan[Host]
             e == line[Guest]
             E == line[Host]
             r == tick[Host] + Lead
             v == Fresh
             x == base[Guest]
             y == base[Host]
             gs == Seen(rec[Guest])
             hs == Seen(rec[Host])
             u == Up(Crcs(p), resume[Host])
             o == <<Frame("BEGIN", r, 0)>> \o [i \in 1..NChunks |-> Frame("CHUNK", i, 0)] \o <<Frame("END", 0, v)>>
             n == NChunks + 2
  <1>1. /\ c = Host /\ pc[Host] = "after" /\ pc'[Host] = "pass"
        /\ tick'[Host] = r /\ tick'[Guest] = tick[Guest]
        /\ line'[Host] = E + 1 /\ line'[Guest] = e
        /\ base'[Host] = v /\ base'[Guest] = x
        /\ resume'[Host] = r /\ glitches' = glitches /\ pushes' = pushes + 1
        /\ chan' = Send(Host, o)
    BY PushStep
  <1>2. /\ q \in Seq(Frames) /\ p \in Seq(Frames) /\ e \in Nat /\ E \in Nat /\ e <= E
        /\ Label(q, e, Len(q) + 1) = E /\ v \in Nat /\ tick[Host] \in Nat /\ tick[Guest] \in Nat
    BY Living
  <1>3. /\ r \in Nat /\ tick[Host] < r /\ \A f \in Crcs(p) : f.tick \in Nat /\ ~(f.tick >= r)
    BY <1>1, ReportsOld
  <1>4. /\ pend[Host] /\ pend' = [pend EXCEPT ![c] = FALSE] /\ rec' = [rec EXCEPT ![c] = NoRecords]
    BY <1>1 DEF Push, Wanted, Rebase, Satisfied, Cleared
  <1>5. /\ pend'[Host] = FALSE /\ pend'[Guest] = pend[Guest] /\ rec'[Host] = NoRecords /\ rec'[Guest] = rec[Guest]
    BY <1>1, <1>4, SeatFacts, ZenonT(40) DEF ImageInv, Basics
  <1> HIDE DEF q, p, e, E, r, v, x, y, gs, hs, u
  <1>6. /\ o \in Seq(Frames) /\ Len(o) = n /\ o[1] = Frame("BEGIN", r, 0) /\ o[n] = Frame("END", 0, v)
        /\ \A i \in 1..NChunks : o[1 + i] = Frame("CHUNK", i, 0)
    <2>1. r \in Nat /\ v \in Nat
      BY <1>2, <1>3
    <2> DEFINE k == pc[Host]
    <2> HIDE DEF k
    <2>2. /\ o \in Seq(Frames) /\ Pushes(o, FALSE, 0, k, FALSE) /\ Len(o) = NChunks + 2
          /\ o[1] = Frame("BEGIN", r, 0) /\ o[NChunks + 2] = Frame("END", 0, v)
          /\ \A i \in 1..NChunks : o[1 + i] = Frame("CHUNK", i, 0)
      BY <2>1, PushFrames, ZenonT(40)
    <2> HIDE DEF o
    <2> QED BY <2>2
  <1> HIDE DEF o
  <1>7. /\ o[n].type = "END" /\ o[n].val = v /\ n \in Nat \ {0}
        /\ \A i \in 1..(n - 1) : o[i].type \notin {"END", "CRC"}
    <2>1. n \in Nat \ {0} /\ n - 1 = NChunks + 1
      BY Constants
    <2>2. o[n].type = "END" /\ o[n].val = v /\ o[1].type = "BEGIN" /\ \A i \in 1..NChunks : o[1 + i].type = "CHUNK"
      <3> HIDE DEF n
      <3>1. o[n].type = "END" /\ o[n].val = v /\ o[1].type = "BEGIN"
        BY <1>6 DEF Frame
      <3>2. ASSUME NEW i \in 1..NChunks PROVE o[1 + i].type = "CHUNK"
        <4>1. o[1 + i] = Frame("CHUNK", i, 0)
          BY <1>6
        <4> QED BY <4>1 DEF Frame
      <3> QED BY <3>1, <3>2
    <2>3. ASSUME NEW i \in 1..(n - 1) PROVE o[i].type \notin {"END", "CRC"}
      <3>1. i = 1 \/ (i - 1 \in 1..NChunks /\ 1 + (i - 1) = i)
        BY <2>1, Constants
      <3>2. i # 1 => o[i].type = "CHUNK"
        BY <2>2, <3>1
      <3> QED BY <2>2, <3>2
    <2> QED BY <2>1, <2>2, <2>3
  <1>8. chan'[Guest] = q \o o /\ chan'[Host] = p
    BY <1>1, SeatFacts DEF Send, ImageInv, Basics, q, p
  <1> HIDE DEF n
  <1>9. Crcs(chan'[Guest]) = Crcs(chan[Guest])
    <2>1. \A i \in 1..Len(o) : o[i].type # "CRC"
      <3>1. \A i \in 1..n : i = n \/ i \in 1..(n - 1)
        BY <1>7
      <3> QED BY <1>6, <1>7, <3>1
    <2>2. Crcs(o) = {}
      BY <2>1, NoCrcs
    <2>3. Crcs(q \o o) = Crcs(q) \cup Crcs(o)
      BY <1>2, <1>6, CrcsMore
    <2> QED BY <1>8, <2>2, <2>3 DEF q
  <1>10. Told' \subseteq Told /\ Given' = Given \cup {<<E + 1, v>>}
    <2>1. /\ Sums(q \o o, e) \subseteq Sums(q, e)
          /\ Gifts(q \o o, e) = Gifts(q, e) \cup {<<E + 1, o[n].val>>}
      <3>1. /\ q \in Seq(Frames) /\ o \in Seq(Frames) /\ e \in Nat /\ E \in Nat /\ Label(q, e, Len(q) + 1) = E
            /\ n \in Nat \ {0} /\ Len(o) = n /\ o[n].type = "END"
        BY <1>2, <1>6, <1>7
      <3>2. \A i \in 1..(n - 1) : o[i].type \notin {"END", "CRC"}
        BY <1>7
      <3> QED BY <3>1, <3>2, ViewPush, SMTT(60)
    <2> QED BY <1>1, <1>7, <1>8, <2>1 DEF Given, Told, q, e
  <1>11. /\ \A s \in Told : s = <<s[1], s[2]>> /\ s[1] \in e..E
         /\ \A g \in Given : g = <<g[1], g[2]>> /\ g[1] \in (e + 1)..E
         /\ \A g, h \in Given : g[1] = h[1] => g = h
    <2>1. /\ \A s \in Sums(q, e) : s = <<s[1], s[2]>> /\ s[1] \in e..E
          /\ \A g \in Gifts(q, e) : g = <<g[1], g[2]>> /\ g[1] \in (e + 1)..E
          /\ \A g, h \in Gifts(q, e) : g[1] = h[1] => g = h
      BY <1>2, ViewRange
    <2>2. Told = Sums(q, e) /\ Given = Gifts(q, e)
      BY DEF Told, Given, q, e
    <2> QED BY <2>1, <2>2
  <1>12. Pure(e, E, Given, Told, x, y, hs, gs, u)
    BY DEF Watch, Clean, e, E, x, y, hs, gs, u, p
  <1> DEFINE G2 == Given'
             S2 == Told'
  <1>13. /\ Open(e, E + 1, G2, S2, x, v, gs, pend[Guest]) \subseteq Open(e, E, Given, Told, x, y, gs, pend[Guest])
         /\ Pure(e, E + 1, G2, S2, x, v, {}, gs, {})
         /\ Same(e, E + 1, G2, x, v)
    <2>1. /\ e \in Nat /\ E \in Nat /\ e <= E /\ S2 \subseteq Told /\ G2 = Given \cup {<<E + 1, v>>}
      BY <1>2, <1>10
    <2> DEFINE G == Given
               S == Told
               b == pend[Guest]
    <2>2. /\ \A s \in S : s = <<s[1], s[2]>> /\ s[1] \in e..E
          /\ \A g \in G : g = <<g[1], g[2]>> /\ g[1] \in (e + 1)..E
          /\ \A g, h \in G : g[1] = h[1] => g = h
          /\ Pure(e, E, G, S, x, y, hs, gs, u)
          /\ S2 \subseteq S /\ G2 = G \cup {<<E + 1, v>>}
      BY <1>11, <1>12, <2>1
    <2> HIDE DEF G2, S2, G, S, b
    <2>3. /\ Open(e, E + 1, G2, S2, x, v, gs, b) \subseteq Open(e, E, G, S, x, y, gs, b)
          /\ Pure(e, E + 1, G2, S2, x, v, {}, gs, {})
          /\ Same(e, E + 1, G2, x, v)
      BY <2>1, <2>2, HostPushes, ZenonT(60)
    <2> QED BY <2>3 DEF G, S, b
  <1>14. Seen(rec'[Host]) = {} /\ Seen(rec'[Guest]) = gs
    BY <1>5, NoneSeen DEF gs
  <1>15. Up(Crcs(chan'[Host]), resume'[Host]) = {}
    BY <1>1, <1>3, <1>8 DEF Up
  <1>16. Clean'
    BY <1>1, <1>13, <1>14, <1>15 DEF Clean
  <1>17. Asking' \subseteq Asking
    <2>1. Asking' = Open(e, E + 1, G2, S2, x, v, gs, pend[Guest])
      BY <1>1, <1>5, <1>14 DEF Asking
    <2>2. Asking = Open(e, E, Given, Told, x, y, gs, pend[Guest])
      BY DEF Asking, e, E, x, y, gs
    <2> QED BY <1>13, <2>1, <2>2
  <1>18. Want = 1 /\ Want' = 0
    <2>1. Agreed'
      BY <1>1, <1>13 DEF Agreed
    <2> QED BY <1>4, <1>5, <2>1 DEF Want
  <1>19. Records'
    <2>1. ASSUME NEW d \in Seats, NEW i \in Slots, rec'[d][i].tick # -1
          PROVE  /\ rec'[d][i].tick \in Nat /\ rec'[d][i].tick < tick'[d] /\ CrcSlot(rec'[d][i].tick) = i
      <3>1. d = Guest
        BY <1>5, <2>1, NoneSeen, SeatFacts
      <3> QED BY <1>1, <1>5, <2>1, <3>1 DEF Watch, Records
    <2>2. \A i \in Slots : rec'[Host][i].tick = -1
      BY <1>5, NoneSeen
    <2> QED BY <2>1, <2>2 DEF Records
  <1>20. Reports'
    <2>1. ASSUME NEW f \in Crcs(chan'[Guest])
          PROVE  f.tick < tick'[Host] /\ Tells(rec'[Host], f)
      <3>1. f \in Crcs(q) /\ f.tick \in Nat /\ CrcSlot(f.tick) \in Slots
        BY <1>2, <1>9, <2>1, CrcsOf, SlotOf DEF q
      <3>2. f.tick < tick[Host]
        BY <3>1 DEF Watch, Reports, q
      <3>3. f.tick < tick'[Host]
        BY <1>1, <1>2, <1>3, <3>1, <3>2
      <3>4. rec'[Host][CrcSlot(f.tick)].tick = -1
        BY <1>5, <3>1, NoneSeen
      <3>5. f.tick # -1
        BY <3>1
      <3> QED BY <3>3, <3>4, <3>5 DEF Tells
    <2>2. \A f \in Crcs(chan'[Host]) : ~(f.tick >= resume'[Host])
      BY <1>1, <1>3, <1>8
    <2> QED BY <2>1, <2>2 DEF Reports
  <1>21. Noticed'
    <2>1. line'[Guest] < line'[Host]
      BY <1>1, <1>2
    <2>2. Repairing'
      BY <2>1 DEF Repairing
    <2> QED BY <2>2 DEF Noticed
  <1>22. Budget'
    <2> DEFINE w == 0 - 1
    <2>1. Budget /\ Cardinality(Requests(chan[Host])) \in Nat /\ pushes \in Nat /\ glitches \in Nat /\ w \in Int
      BY Counts DEF Watch
    <2>2. /\ Cardinality(Requests(chan'[Host])) <= Cardinality(Requests(chan[Host])) + 0
          /\ Want' <= Want + w
          /\ Asking' \subseteq Asking \cup {0} /\ Asking' \subseteq Asking
          /\ (pushes' - pushes) + (0 + (w + (IF 0 = 0 THEN 0 ELSE 1))) <= 2 * (glitches' - glitches)
      BY <1>1, <1>8, <1>17, <1>18, <2>1 DEF p
    <2> DEFINE d == 0
    <2>3. /\ d \in Nat /\ (d = 0 => Asking' \subseteq Asking)
          /\ (pushes' - pushes) + (d + (w + (IF d = 0 THEN 0 ELSE 1))) <= 2 * (glitches' - glitches)
          /\ Cardinality(Requests(chan'[Host])) <= Cardinality(Requests(chan[Host])) + d
          /\ Asking' \subseteq Asking \cup {d} /\ d \in Int
      BY <2>2
    <2> HIDE DEF w, d
    <2> QED BY <2>1, <2>2, <2>3, BudgetStep, ZenonT(30)
  <1>23. pc'[Host] # "off"
    BY <1>1
  <1> QED BY <1>16, <1>19, <1>20, <1>21, <1>22, <1>23 DEF WatchInv, Watch, Alive

\* Console c has run its tick, got to a state with the name v, and reported it
\* with the frames o, or with none.
Ran(c, v, o) ==
  /\ base'[c] = v /\ base'[Peer(c)] = base[Peer(c)]
  /\ \/ v = base[c] /\ glitches' = glitches
     \/ v = Fresh /\ glitches' = glitches + 1
  /\ chan'[Peer(c)] = chan[Peer(c)] \o o /\ chan'[c] = chan[c]
  /\ \A i \in 1..Len(o) : o[i].type = "CRC"
  /\ rec'[Peer(c)] = rec[Peer(c)]
  /\ \A f \in Crcs(o) : f.tick = tick[c] /\ f.val = v /\ rec'[c][CrcSlot(tick[c])].crc = v
  /\ \A i \in Slots :
       \/ rec'[c][i] = rec[c][i]
       \/ /\ i = CrcSlot(tick[c]) /\ rec'[c][i].tick = tick[c] /\ rec'[c][i].crc = v
          /\ \E f \in Crcs(o) : f.tick = tick[c]

LEMMA TickRan ==
  ASSUME ImageInv, NEW c \in Seats, RunTick(c)
  PROVE  \E v, o : o \in Seq(Frames) /\ Ran(c, v, o)
  <1> DEFINE n == tick[c]
             k == CrcSlot(n)
             due == n % CrcEvery = 0
  <1>1. PICK glitch \in BOOLEAN :
          LET state == IF glitch THEN Fresh ELSE base[c] IN
          /\ glitches' = IF glitch THEN glitches + 1 ELSE glitches
          /\ base' = [base EXCEPT ![c] = state]
          /\ rec' = IF due THEN [rec EXCEPT ![c][k] = [tick |-> n, crc |-> state]] ELSE rec
          /\ chan' = IF due THEN Send(c, <<Frame("CRC", n, state)>>) ELSE chan
    BY DEF RunTick
  <1> DEFINE v == IF glitch THEN Fresh ELSE base[c]
             x == [tick |-> n, crc |-> v]
             h == Frame("CRC", n, v)
  <1>2. /\ glitches' = IF glitch THEN glitches + 1 ELSE glitches
        /\ base' = [base EXCEPT ![c] = v]
        /\ rec' = IF due THEN [rec EXCEPT ![c][k] = x] ELSE rec
        /\ chan' = IF due THEN Send(c, <<h>>) ELSE chan
    BY <1>1
  <1>3. /\ n \in Nat /\ base \in [Seats -> Nat] /\ glitches \in Nat /\ Fresh \in Nat
        /\ rec \in [Seats -> [Slots -> [tick : Int, crc : Nat]]] /\ chan \in [Seats -> Seq(Frames)]
    BY DEF ImageInv, Basics, Slots, Fresh
  <1>4. v \in Nat /\ ((v = base[c] /\ glitches' = glitches) \/ (v = Fresh /\ glitches' = glitches + 1))
    BY <1>2, <1>3
  <1>5. k \in Slots
    BY <1>3, SlotOf
  <1>6. h \in Frames /\ h.type = "CRC" /\ h.tick = n /\ h.val = v
    BY <1>3, <1>4 DEF Frame, Frames, Others
  <1> HIDE DEF n, k, due, v, h
  <1>7. base'[c] = v /\ base'[Peer(c)] = base[Peer(c)]
    BY <1>2, <1>3, SeatFacts
  <1>8. CASE ~due
    <2> DEFINE o == <<>>
    <2>1. o \in Seq(Frames) /\ \A i \in 1..Len(o) : o[i].type = "CRC"
      BY EmptyQueue
    <2>2. \A i \in 1..Len(o) : o[i].type # "CRC"
      BY EmptyQueue
    <2>3. chan[Peer(c)] \o o = chan[Peer(c)]
      BY <1>3, SeatFacts, ConcatEmptySeq
    <2>4. chan' = chan /\ rec' = rec
      BY <1>2, <1>8
    <2> HIDE DEF o
    <2>5. Crcs(o) = {}
      BY <2>2, NoCrcs
    <2>6. Ran(c, v, o)
      BY <1>4, <1>7, <2>1, <2>3, <2>4, <2>5 DEF Ran
    <2> QED BY <2>1, <2>6
  <1>9. CASE due
    <2> DEFINE o == <<h>>
    <2>1. o \in Seq(Frames) /\ Len(o) = 1 /\ \A i \in 1..Len(o) : i = 1 /\ o[i] = h
      BY <1>6, OneFrame
    <2>2. chan' = Send(c, <<h>>) /\ rec' = [rec EXCEPT ![c][k] = x]
      BY <1>2, <1>9
    <2>3. chan'[Peer(c)] = chan[Peer(c)] \o o /\ chan'[c] = chan[c]
      BY <2>2, SendOne
    <2> HIDE DEF o
    <2>4. Crcs(o) = {h}
      <3>1. 1 \in 1..Len(o) /\ o[1] = h
        BY <2>1
      <3> QED BY <1>6, <2>1, <3>1 DEF Crcs
    <2>5. /\ rec'[Peer(c)] = rec[Peer(c)] /\ rec'[c] = [rec[c] EXCEPT ![k] = x]
      <3> HIDE DEF x
      <3> QED BY <1>3, <2>2, SeatFacts
    <2>6. rec'[c][k] = x /\ \A i \in Slots : i # k => rec'[c][i] = rec[c][i]
      <3> HIDE DEF x
      <3>1. rec[c] \in [Slots -> [tick : Int, crc : Nat]]
        BY <1>3
      <3> QED BY <1>5, <2>5, <3>1
    <2>7. x.tick = n /\ x.crc = v
      OBVIOUS
    <2> HIDE DEF x
    <2>8. \A f \in Crcs(o) : f.tick = n /\ f.val = v /\ rec'[c][k].crc = v
      BY <1>6, <2>4, <2>6, <2>7
    <2>9. \A i \in Slots :
            \/ rec'[c][i] = rec[c][i]
            \/ i = k /\ rec'[c][i].tick = n /\ rec'[c][i].crc = v /\ \E f \in Crcs(o) : f.tick = n
      BY <1>6, <2>4, <2>6, <2>7
    <2>10. \A i \in 1..Len(o) : o[i].type = "CRC"
      BY <1>6, <2>1
    <2>11. Ran(c, v, o)
      BY <1>4, <1>7, <2>3, <2>5, <2>8, <2>9, <2>10 DEF Ran, n, k
    <2> QED BY <2>1, <2>11
  <1> QED BY <1>8, <1>9

\* The rest of what it does, and does not do.
LEMMA TickRest ==
  ASSUME ImageInv, StoryInv, Alive, NEW c \in Seats, RunTick(c)
  PROVE  /\ tick[c] \in Nat /\ tick'[c] = tick[c] + 1 /\ tick'[Peer(c)] = tick[Peer(c)]
         /\ wm[c] >= tick[c] /\ pc'[Host] # "off"
         /\ UNCHANGED <<line, pend, resume, pushes>>
         /\ c = Guest => tick[c] < resume[Host] \/ line[Guest] = line[Host]
  <1>1. /\ ~dropped[Guest] /\ ~dropped[Host] /\ Playing /\ Logs
    BY Living DEF StoryInv
  <1>2. /\ (dropped[c] \/ wm[c] >= tick[c]) /\ tick' = [tick EXCEPT ![c] = tick[c] + 1]
        /\ pc' = [pc EXCEPT ![c] = "after"] /\ UNCHANGED <<line, resume, pushes>>
    BY TickStep
  <1>3. pend' = pend
    BY DEF RunTick
  <1>4. wm[c] >= tick[c]
    BY <1>1, <1>2, SeatFacts
  <1>5. /\ tick[c] \in Nat /\ tick'[c] = tick[c] + 1 /\ tick'[Peer(c)] = tick[Peer(c)] /\ pc'[Host] # "off"
    BY <1>2, SeatFacts DEF ImageInv, Basics, Alive
  <1>6. ASSUME c = Guest, line[Guest] # line[Host]
        PROVE  tick[c] < resume[Host]
    <2> DEFINE t == tick[Guest]
               g == wm[Guest]
               w == wm[Host]
               r == resume[Host]
               e == line[Guest]
               E == line[Host]
    <2>1. t \in Nat /\ g \in Nat /\ w \in Nat /\ r \in Nat /\ e \in Nat /\ E \in Nat
      BY <1>1, Scalars
    <2>2. e <= E /\ (e < E => g + (1 + Delay) <= w /\ w = r + (Delay - 1))
      BY <1>1 DEF Playing, Pace
    <2>3. g >= t /\ e # E
      BY <1>4, <1>6
    <2> HIDE DEF t, g, w, r, e, E
    <2>4. t < r
      BY <2>1, <2>2, <2>3, Constants
    <2> QED BY <1>6, <2>4 DEF t, r
  <1> QED BY <1>2, <1>3, <1>4, <1>5, <1>6

\* What is recorded and reported is so in both consoles, and in their queues.
LEMMA TickRecords ==
  ASSUME ImageInv, ImageInv', StoryInv, Alive, Watch, NEW c \in Seats, RunTick(c),
         NEW v, NEW o \in Seq(Frames), Ran(c, v, o)
  PROVE  Records' /\ Reports' /\ Noticed' /\ Requests(chan'[Host]) = Requests(chan[Host])
  <1> DEFINE n == tick[c]
             d == Peer(c)
  <1>1. /\ n \in Nat /\ tick'[c] = n + 1 /\ tick'[d] = tick[d]
        /\ UNCHANGED <<line, pend, resume, pushes>>
        /\ c = Guest => n < resume[Host] \/ line[Guest] = line[Host]
    BY TickRest
  <1>2. /\ chan'[d] = chan[d] \o o /\ chan'[c] = chan[c] /\ rec'[d] = rec[d]
        /\ \A i \in 1..Len(o) : o[i].type = "CRC"
        /\ \A f \in Crcs(o) : f.tick = n /\ f.val = v /\ rec'[c][CrcSlot(n)].crc = v
        /\ \A i \in Slots :
             \/ rec'[c][i] = rec[c][i]
             \/ /\ i = CrcSlot(n) /\ rec'[c][i].tick = n /\ rec'[c][i].crc = v
                /\ \E f \in Crcs(o) : f.tick = n
    BY DEF Ran
  <1>3. /\ d \in Seats /\ c # d /\ \A b \in Seats : b = c \/ b = d
        /\ (c = Host /\ d = Guest) \/ (c = Guest /\ d = Host)
    BY SeatFacts
  <1>4. /\ chan[Host] \in Seq(Frames) /\ chan[Guest] \in Seq(Frames) /\ chan[d] \in Seq(Frames)
        /\ resume[Host] \in Nat /\ resume[Host] <= tick[Host]
        /\ rec[Host] \in [Slots -> [tick : Int, crc : Nat]] /\ rec[Guest] \in [Slots -> [tick : Int, crc : Nat]]
    BY <1>3, Living, SeatFacts DEF Playing, Pace, ImageInv, Basics
  <1> HIDE DEF n, d
  <1>5. Crcs(chan'[d]) = Crcs(chan[d]) \cup Crcs(o) /\ Crcs(chan'[c]) = Crcs(chan[c])
    <2>1. Crcs(chan[d] \o o) = Crcs(chan[d]) \cup Crcs(o)
      BY <1>4, CrcsMore
    <2> QED BY <1>2, <2>1
  <1>6. Requests(chan'[Host]) = Requests(chan[Host])
    <2>1. \A i \in 1..Len(o) : o[i].type # "RESYNC"
      BY <1>2
    <2>2. Requests(chan[d] \o o) = Requests(chan[d])
      BY <1>4, <2>1, RequestsMore
    <2> QED BY <1>2, <1>3, <2>2
  <1>7. Records'
    <2>1. ASSUME NEW b \in Seats, NEW i \in Slots, rec'[b][i].tick # -1
          PROVE  /\ rec'[b][i].tick \in Nat /\ rec'[b][i].tick < tick'[b] /\ CrcSlot(rec'[b][i].tick) = i
                 /\ b = Host => rec'[b][i].tick >= resume[Host]
      <3>1. CASE rec'[b][i] = rec[b][i]
        <4>1. /\ rec[b][i].tick \in Nat /\ rec[b][i].tick < tick[b] /\ CrcSlot(rec[b][i].tick) = i
              /\ b = Host => rec[b][i].tick >= resume[Host]
          BY <2>1, <3>1 DEF Watch, Records
        <4>2. tick[b] \in Nat /\ (tick'[b] = tick[b] \/ tick'[b] = tick[b] + 1)
          BY <1>1, <1>3 DEF n, ImageInv, Basics
        <4>3. rec[b][i].tick < tick'[b]
          BY <4>1, <4>2
        <4> QED BY <3>1, <4>1, <4>3
      <3>2. CASE rec'[b][i] # rec[b][i]
        <4>1. b = c /\ i = CrcSlot(n) /\ rec'[b][i].tick = n
          BY <1>2, <1>3, <3>2
        <4>2. n < n + 1 /\ (b = Host => n >= resume[Host])
          BY <1>1, <1>4, <4>1 DEF n
        <4> QED BY <1>1, <4>1, <4>2
      <3> QED BY <3>1, <3>2
    <2>2. resume'[Host] = resume[Host] /\ Host \in Seats
      BY <1>1, SeatFacts
    <2> QED BY <2>1, <2>2 DEF Records
  <1>8. ASSUME NEW f, f.tick \in Nat, f.tick < n, Tells(rec[c], f)
        PROVE  Tells(rec'[c], f) /\ f.tick < tick'[c]
    <2>1. CrcSlot(f.tick) \in Slots /\ f.tick # n /\ f.tick < tick'[c]
      BY <1>1, <1>8, SlotOf
    <2>2. rec'[c][CrcSlot(f.tick)] = rec[c][CrcSlot(f.tick)] \/ rec'[c][CrcSlot(f.tick)].tick = n
      BY <1>2, <2>1
    <2> QED BY <1>8, <2>1, <2>2 DEF Tells
  <1>9. ASSUME NEW f \in Crcs(o)
        PROVE  Tells(rec'[c], f) /\ f.tick = n /\ f.tick < tick'[c]
    <2>1. f.tick = n /\ f.val = v /\ rec'[c][CrcSlot(n)].crc = v
      BY <1>2
    <2>2. f.tick < tick'[c]
      BY <1>1, <2>1
    <2> QED BY <2>1, <2>2 DEF Tells
  <1>10. Reports'
    <2>1. CASE c = Host
      <3>1. d = Guest
        BY <1>3, <2>1
      <3>2. ASSUME NEW f \in Crcs(chan'[Guest])
            PROVE  f.tick < tick'[Host] /\ Tells(rec'[Host], f)
        <4>1. CASE f \in Crcs(o)
          BY <1>9, <2>1, <4>1
        <4>2. CASE f \notin Crcs(o)
          <5>1. f \in Crcs(chan[Guest])
            BY <1>5, <3>1, <3>2, <4>2
          <5>2. f.tick \in Nat /\ f.tick < tick[Host] /\ Tells(rec[Host], f)
            BY <1>4, <5>1, CrcsOf DEF Watch, Reports
          <5> QED BY <1>8, <2>1, <5>2 DEF n
        <4> QED BY <4>1, <4>2
      <3>3. \A f \in Crcs(chan'[Host]) :
              f.tick >= resume'[Host] => line'[Guest] = line'[Host] /\ f.tick < tick'[Guest] /\ Tells(rec'[Guest], f)
        BY <1>1, <1>2, <1>5, <2>1, <3>1 DEF Watch, Reports
      <3> QED BY <3>2, <3>3 DEF Reports
    <2>2. CASE c = Guest
      <3>1. d = Host
        BY <1>3, <2>2
      <3>2. \A f \in Crcs(chan'[Guest]) : f.tick < tick'[Host] /\ Tells(rec'[Host], f)
        BY <1>1, <1>2, <1>5, <2>2, <3>1 DEF Watch, Reports
      <3>3. ASSUME NEW f \in Crcs(chan'[Host]), f.tick >= resume'[Host]
            PROVE  line'[Guest] = line'[Host] /\ f.tick < tick'[Guest] /\ Tells(rec'[Guest], f)
        <4>1. CASE f \in Crcs(o)
          <5>1. f.tick = n /\ n >= resume[Host]
            BY <1>1, <1>9, <3>3, <4>1
          <5>2. line[Guest] = line[Host]
            BY <1>1, <1>4, <2>2, <5>1
          <5> QED BY <1>1, <1>9, <2>2, <4>1, <5>2
        <4>2. CASE f \notin Crcs(o)
          <5>1. f \in Crcs(chan[Host]) /\ f.tick >= resume[Host]
            BY <1>1, <1>5, <3>1, <3>3, <4>2
          <5>2. f.tick \in Nat /\ f.tick < tick[Guest] /\ Tells(rec[Guest], f) /\ line[Guest] = line[Host]
            BY <1>4, <5>1, CrcsOf DEF Watch, Reports
          <5> QED BY <1>1, <1>8, <2>2, <5>2 DEF n
        <4> QED BY <4>1, <4>2
      <3> QED BY <3>2, <3>3 DEF Reports
    <2> QED BY <1>3, <2>1, <2>2
  <1>11. Noticed'
    <2>1. Repairing' <=> Repairing
      BY <1>1, <1>6 DEF Repairing
    <2>2. ASSUME NEW i \in Slots, rec'[Host][i].tick # -1, rec'[Host][i].tick = rec'[Guest][i].tick,
                 rec'[Host][i].crc # rec'[Guest][i].crc
          PROVE  Repairing' \/ \E b \in Seats : \E f \in Crcs(chan'[b]) : f.tick = rec'[Host][i].tick
      <3>1. CASE rec'[c][i] # rec[c][i]
        <4>1. rec'[c][i].tick = n /\ \E f \in Crcs(o) : f.tick = n
          BY <1>2, <3>1
        <4>2. rec'[Host][i].tick = n
          BY <1>3, <2>2, <4>1
        <4> QED BY <1>3, <1>5, <4>1, <4>2
      <3>2. CASE rec'[c][i] = rec[c][i]
        <4>1. rec'[Host][i] = rec[Host][i] /\ rec'[Guest][i] = rec[Guest][i]
          BY <1>2, <1>3, <3>2
        <4>2. Repairing \/ \E b \in Seats : \E f \in Crcs(chan[b]) : f.tick = rec[Host][i].tick
          BY <2>2, <4>1 DEF Watch, Noticed
        <4>3. \A b \in Seats : Crcs(chan[b]) \subseteq Crcs(chan'[b])
          BY <1>3, <1>5
        <4> QED BY <2>1, <4>1, <4>2, <4>3
      <3> QED BY <3>1, <3>2
    <2>3. pend'[Guest] => Repairing'
      BY <1>1, <2>1 DEF Watch, Noticed
    <2> QED BY <2>2, <2>3 DEF Noticed
  <1> QED BY <1>6, <1>7, <1>10, <1>11

\* A tick that goes wrong leads to a state that nobody has been given.
LEMMA NotGiven ==
  ASSUME ImageInv, StoryInv, Alive
  PROVE  /\ base[Host] # Fresh /\ base[Guest] # Fresh
         /\ \A g \in Given : g[2] # Fresh
  <1>1. /\ base[Host] \in Nat /\ base[Guest] \in Nat /\ Fresh \in Nat /\ base[Host] < Fresh /\ base[Guest] < Fresh
    BY Scalars, SeatFacts DEF StoryInv, Known
  <1>2. ASSUME NEW g \in Given
        PROVE  g[2] # Fresh
    <2> DEFINE q == chan[Guest]
    <2>1. PICK k \in {j \in 1..Len(q) : q[j].type = "END"} : g = <<Label(q, line[Guest], k) + 1, q[k].val>>
      BY DEF Given, Gifts
    <2>2. q \in Seq(Frames)
      BY Living
    <2>3. q[k] \in Frames
      BY <2>1, <2>2, ElementOfSeq
    <2>4. q[k].val \in Nat
      BY <2>1, <2>3 DEF Frames, Others
    <2>5. q[k].val < Fresh
      BY <2>1, Living DEF Playing, Wires, Going, Down, Fits
    <2>6. g[2] = q[k].val
      BY <2>1
    <2> QED BY <1>1, <2>4, <2>5, <2>6
  <1> QED BY <1>1, <1>2

LEMMA HostTickWatch ==
  ASSUME ImageInv, ImageInv', StoryInv, Alive, Watch, RunTick(Host),
         NEW v, NEW o \in Seq(Frames), Ran(Host, v, o)
  PROVE  WatchInv'
  <1> DEFINE q == chan[Guest]
             e == line[Guest]
             E == line[Host]
             x == base[Guest]
             y == base[Host]
             gs == Seen(rec[Guest])
             hs == Seen(rec[Host])
             u == Up(Crcs(chan[Host]), resume[Host])
             b == pend[Guest]
             S2 == Told'
             hs2 == Seen(rec'[Host])
  <1>1. /\ UNCHANGED <<line, pend, resume, pushes>> /\ pc'[Host] # "off"
    BY TickRest, SeatFacts
  <1>2. /\ base'[Host] = v /\ base'[Guest] = x
        /\ (v = y /\ glitches' = glitches) \/ (v = Fresh /\ glitches' = glitches + 1)
        /\ chan'[Guest] = q \o o /\ chan'[Host] = chan[Host] /\ rec'[Guest] = rec[Guest]
        /\ \A i \in 1..Len(o) : o[i].type = "CRC"
        /\ \A f \in Crcs(o) : f.val = v
        /\ \A i \in Slots : rec'[Host][i] = rec[Host][i] \/ rec'[Host][i].crc = v
    BY SeatFacts DEF Ran
  <1>3. Records' /\ Reports' /\ Noticed' /\ Requests(chan'[Host]) = Requests(chan[Host])
    <2>1. Host \in Seats
      BY SeatFacts
    <2> QED BY <2>1, TickRecords
  <1>4. /\ q \in Seq(Frames) /\ e \in Nat /\ E \in Nat /\ Label(q, e, Len(q) + 1) = E
    BY Living
  <1>5. Pure(e, E, Given, Told, x, y, hs, gs, u)
    BY DEF Watch, Clean
  <1>6. Given' = Given /\ \A s \in S2 : s \in Told \/ s = <<E, v>>
    <2> HIDE DEF q, e, E
    <2>1. \A i \in 1..Len(o) : o[i].type # "END"
      BY <1>2
    <2>2. /\ Sums(q \o o, e) \subseteq Sums(q, e) \cup {<<E, f.val>> : f \in Crcs(o)}
          /\ Gifts(q \o o, e) = Gifts(q, e)
      BY <1>4, <2>1, ViewMore
    <2>3. \A s \in Sums(q \o o, e) : s \in Sums(q, e) \/ s = <<E, v>>
      BY <1>2, <2>2
    <2> QED BY <1>1, <1>2, <2>2, <2>3 DEF Given, Told, q, e
  <1>7. \A w \in hs2 : w \in hs \/ w = v
    BY <1>2 DEF Seen
  <1>8. /\ Seen(rec'[Guest]) = gs /\ Up(Crcs(chan'[Host]), resume'[Host]) = u
    BY <1>1, <1>2
  <1>9. /\ Clean' <=> Pure(e, E, Given, S2, x, v, hs2, gs, u)
        /\ Asking' = Open(e, E, Given, S2, x, v, gs, b)
        /\ Asking = Open(e, E, Given, Told, x, y, gs, b)
        /\ Agreed' <=> Same(e, E, Given, x, v)
        /\ Agreed <=> Same(e, E, Given, x, y)
    <2> HIDE DEF hs2
    <2> QED BY <1>1, <1>2, <1>6, <1>8 DEF Clean, Asking, Agreed, hs2
  <1>10. /\ Cardinality(Requests(chan[Host])) \in Nat /\ Want \in {0, 1} /\ Want' \in {0, 1}
         /\ pushes \in Nat /\ glitches \in Nat /\ Budget
    BY Counts, CountsNext DEF Watch
  <1>11. CASE v = y /\ glitches' = glitches
    <2>1. Clean' /\ Asking' \subseteq Asking
      <3> HIDE DEF q, e, E, x, y, gs, hs, u, b, S2, hs2
      <3>1. /\ \A s \in S2 : s \in Told \/ s = <<E, y>>
            /\ \A w \in hs2 : w \in hs \/ w = y
        BY <1>6, <1>7, <1>11
      <3>2. /\ Open(e, E, Given, S2, x, y, gs, b) \subseteq Open(e, E, Given, Told, x, y, gs, b)
            /\ Pure(e, E, Given, S2, x, y, hs2, gs, u)
        BY <1>4, <1>5, <3>1, HostRight, ZenonT(30)
      <3> QED BY <1>9, <1>11, <3>2
    <2>2. Want' <= Want /\ Cardinality(Requests(chan'[Host])) <= Cardinality(Requests(chan[Host]))
      <3>1. Want' = Want
        BY <1>1, <1>9, <1>11 DEF Want
      <3> QED BY <1>3, <1>10, <3>1
    <2>3. pushes' = pushes /\ glitches' = glitches
      BY <1>1, <1>11
    <2>4. Budget'
      BY <1>10, <2>1, <2>2, <2>3, BudgetKept
    <2> QED BY <1>1, <1>3, <2>1, <2>4 DEF WatchInv, Watch, Alive
  <1>12. CASE v = Fresh /\ glitches' = glitches + 1
    <2>1. ~Same(e, E, Given, x, v)
      <3>1. <<E, v>>[2] = v
        OBVIOUS
      <3> QED BY <1>12, <3>1, NotGiven DEF Same
    <2>2. Clean'
      BY <1>9, <2>1 DEF Pure
    <2>3. Asking' \subseteq Asking \cup {E}
      <3> HIDE DEF q, e, E, x, y, gs, hs, u, b, S2, hs2
      <3>1. \A s \in S2 : s \in Told \/ s[1] = E
        <4>1. <<E, v>>[1] = E
          OBVIOUS
        <4> QED BY <1>6, <4>1
      <3>2. Open(e, E, Given, S2, x, v, gs, b) \subseteq Open(e, E, Given, Told, x, y, gs, b) \cup {E}
        BY <1>4, <3>1, HostWrong
      <3> QED BY <1>9, <3>2
    <2>4. Budget'
      <3> DEFINE d == 1
                 r == 0
      <3>1. /\ Cardinality(Requests(chan'[Host])) <= Cardinality(Requests(chan[Host])) + r
            /\ Want' <= Want + d /\ d \in Nat /\ r \in Int /\ d \in Int /\ d # 0
            /\ (pushes' - pushes) + (r + (d + (IF d = 0 THEN 0 ELSE 1))) <= 2 * (glitches' - glitches)
        BY <1>1, <1>3, <1>10, <1>12
      <3> HIDE DEF d, r, E
      <3>2. d = 0 => Asking' \subseteq Asking
        BY <3>1
      <3> QED BY <1>10, <2>3, <3>1, <3>2, BudgetStep, ZenonT(30)
    <2> QED BY <1>1, <1>3, <2>2, <2>4 DEF WatchInv, Watch, Alive
  <1> QED BY <1>2, <1>11, <1>12

LEMMA GuestTickWatch ==
  ASSUME ImageInv, ImageInv', StoryInv, Alive, Watch, RunTick(Guest),
         NEW v, NEW o \in Seq(Frames), Ran(Guest, v, o)
  PROVE  WatchInv'
  <1> DEFINE p == chan[Host]
             e == line[Guest]
             E == line[Host]
             x == base[Guest]
             y == base[Host]
             gs == Seen(rec[Guest])
             hs == Seen(rec[Host])
             u == Up(Crcs(p), resume[Host])
             b == pend[Guest]
             gs2 == Seen(rec'[Guest])
             u2 == Up(Crcs(chan'[Host]), resume'[Host])
  <1>1. /\ UNCHANGED <<line, pend, resume, pushes>> /\ pc'[Host] # "off"
    BY TickRest, SeatFacts
  <1>2. /\ base'[Guest] = v /\ base'[Host] = y
        /\ (v = x /\ glitches' = glitches) \/ (v = Fresh /\ glitches' = glitches + 1)
        /\ chan'[Host] = p \o o /\ chan'[Guest] = chan[Guest] /\ rec'[Host] = rec[Host]
        /\ \A f \in Crcs(o) : f.val = v
        /\ \A i \in Slots : rec'[Guest][i] = rec[Guest][i] \/ rec'[Guest][i].crc = v
    BY SeatFacts DEF Ran
  <1>3. Records' /\ Reports' /\ Noticed' /\ Requests(chan'[Host]) = Requests(chan[Host])
    <2>1. Guest \in Seats
      BY SeatFacts
    <2> QED BY <2>1, TickRecords
  <1>4. /\ p \in Seq(Frames) /\ e \in Nat /\ E \in Nat
    BY Living
  <1>5. Pure(e, E, Given, Told, x, y, hs, gs, u)
    BY DEF Watch, Clean
  <1>6. Given' = Given /\ Told' = Told
    BY <1>1, <1>2 DEF Given, Told
  <1>7. \A w \in gs2 : w \in gs \/ w = v
    BY <1>2 DEF Seen
  <1>8. \A w \in u2 : w \in u \/ w = v
    <2> HIDE DEF p
    <2>1. Crcs(p \o o) = Crcs(p) \cup Crcs(o)
      BY <1>4, CrcsMore
    <2> QED BY <1>1, <1>2, <2>1 DEF Up
  <1>9. Seen(rec'[Host]) = hs
    BY <1>2
  <1>10. /\ Clean' <=> Pure(e, E, Given, Told, v, y, hs, gs2, u2)
         /\ Asking' = Open(e, E, Given, Told, v, y, gs2, b)
         /\ Asking = Open(e, E, Given, Told, x, y, gs, b)
         /\ Agreed' <=> Same(e, E, Given, v, y)
         /\ Agreed <=> Same(e, E, Given, x, y)
    <2> HIDE DEF gs2, u2
    <2> QED BY <1>1, <1>2, <1>6, <1>9 DEF Clean, Asking, Agreed, gs2, u2
  <1>11. /\ Cardinality(Requests(chan[Host])) \in Nat /\ Want \in {0, 1} /\ Want' \in {0, 1}
         /\ pushes \in Nat /\ glitches \in Nat /\ Budget
    BY Counts, CountsNext DEF Watch
  <1>12. CASE v = x /\ glitches' = glitches
    <2>1. Clean' /\ Asking' \subseteq Asking
      <3> HIDE DEF p, e, E, x, y, gs, hs, u, b, gs2, u2
      <3>1. /\ \A w \in gs2 : w \in gs \/ w = x
            /\ \A w \in u2 : w \in u \/ w = x
        BY <1>7, <1>8, <1>12
      <3>2. /\ Open(e, E, Given, Told, x, y, gs2, b) \subseteq Open(e, E, Given, Told, x, y, gs, b)
            /\ Pure(e, E, Given, Told, x, y, hs, gs2, u2)
        BY <1>4, <1>5, <3>1, GuestRight, ZenonT(30)
      <3> QED BY <1>10, <1>12, <3>2
    <2>2. Want' <= Want /\ Cardinality(Requests(chan'[Host])) <= Cardinality(Requests(chan[Host]))
      <3>1. Want' = Want
        BY <1>1, <1>10, <1>12 DEF Want
      <3> QED BY <1>3, <1>11, <3>1
    <2>3. pushes' = pushes /\ glitches' = glitches
      BY <1>1, <1>12
    <2>4. Budget'
      BY <1>11, <2>1, <2>2, <2>3, BudgetKept
    <2> QED BY <1>1, <1>3, <2>1, <2>4 DEF WatchInv, Watch, Alive
  <1>13. CASE v = Fresh /\ glitches' = glitches + 1
    <2>1. v # y
      BY <1>13, NotGiven
    <2>2. Clean'
      <3> HIDE DEF p, e, E, x, y, gs, hs, u, b, gs2, u2
      <3>1. Pure(e, E, Given, Told, v, y, hs, gs2, u2)
        BY <1>5, <2>1 DEF Pure, Same
      <3> QED BY <1>10, <3>1
    <2>3. Asking' \subseteq Asking \cup {e}
      <3> HIDE DEF p, e, E, x, y, gs, hs, u, b, gs2, u2
      <3>1. Open(e, E, Given, Told, v, y, gs2, b) \subseteq Open(e, E, Given, Told, x, y, gs, b) \cup {e}
        BY <1>4, GuestWrong, ZenonT(30)
      <3> QED BY <1>10, <3>1
    <2>4. Budget'
      <3> DEFINE d == 1
                 r == 0
      <3>1. /\ Cardinality(Requests(chan'[Host])) <= Cardinality(Requests(chan[Host])) + r
            /\ Want' <= Want + d /\ d \in Nat /\ r \in Int /\ d \in Int /\ d # 0
            /\ (pushes' - pushes) + (r + (d + (IF d = 0 THEN 0 ELSE 1))) <= 2 * (glitches' - glitches)
        BY <1>1, <1>3, <1>11, <1>13
      <3> HIDE DEF d, r, e
      <3>2. d = 0 => Asking' \subseteq Asking
        BY <3>1
      <3> QED BY <1>11, <2>3, <3>1, <3>2, BudgetStep, ZenonT(30)
    <2> QED BY <1>1, <1>3, <2>2, <2>4 DEF WatchInv, Watch, Alive
  <1> QED BY <1>2, <1>12, <1>13

\* A held pass ends.  A guest that the slots leave a new name has no host that
\* bears it, and may still see a divergence in its timeline: a push that is paid
\* for by its glitch.
LEMMA HoldPassWatch ==
  ASSUME ImageInv, ImageInv', StoryInv, Alive, Watch, NEW c \in Seats, HoldPass(c)
  PROVE  WatchInv'
  <1> DEFINE e == line[Guest]
             E == line[Host]
             x == base[Guest]
             y == base[Host]
             v == Fresh
             gs == Seen(rec[Guest])
             hs == Seen(rec[Host])
             u == Up(Crcs(chan[Host]), resume[Host])
             b == pend[Guest]
  <1>1. /\ UNCHANGED <<tick, line, rec, pend, pushes, resume, chan>>
        /\ pc[c] = "hold" /\ pc' = [pc EXCEPT ![c] = "pass"]
        /\ \/ base' = base /\ glitches' = glitches
           \/ base' = [base EXCEPT ![Guest] = Fresh] /\ glitches' = glitches + 1
    BY HoldPassStep DEF recovery
  <1>2. pc'[Host] # "off"
    <2>1. pc \in [Seats -> {"pass", "pump", "gate", "stall", "after", "hold", "park", "off"}]
      BY DEF ImageInv, Basics
    <2> QED BY <1>1, <2>1, SeatFacts DEF Alive
  <1>3. CASE base' = base /\ glitches' = glitches
    BY <1>1, <1>2, <1>3, QuietWatch
  <1>4. CASE base' = [base EXCEPT ![Guest] = Fresh] /\ glitches' = glitches + 1
    <2>1. base'[Guest] = v /\ base'[Host] = y
      <3>1. base \in [Seats -> Nat]
        BY DEF ImageInv, Basics
      <3> HIDE DEF v
      <3> QED BY <1>4, <3>1, SeatFacts DEF v
    <2>2. /\ tick' = tick /\ line' = line /\ rec' = rec /\ pend' = pend /\ pushes' = pushes
          /\ resume' = resume /\ chan' = chan
      BY <1>1
    <2>3. Records' /\ Reports' /\ Noticed'
      <3>1. Records' /\ Reports'
        BY <2>2 DEF Watch, Records, Reports
      <3>2. Noticed'
        BY <2>2 DEF Watch, Noticed, Repairing
      <3> QED BY <3>1, <3>2
    <2>4. /\ e \in Nat /\ E \in Nat
      BY Living
    <2>5. Pure(e, E, Given, Told, x, y, hs, gs, u)
      BY DEF Watch, Clean
    <2>6. Given' = Given /\ Told' = Told
      BY <2>2 DEF Given, Told
    <2>7. /\ Clean' <=> Pure(e, E, Given, Told, v, y, hs, gs, u)
          /\ Asking' = Open(e, E, Given, Told, v, y, gs, b)
          /\ Asking = Open(e, E, Given, Told, x, y, gs, b)
      BY <2>1, <2>2, <2>6 DEF Clean, Asking
    <2>8. /\ Cardinality(Requests(chan[Host])) \in Nat /\ Want \in {0, 1} /\ Want' \in {0, 1}
          /\ pushes \in Nat /\ glitches \in Nat /\ Budget
      BY Counts, CountsNext DEF Watch
    <2>9. v # y
      BY NotGiven
    <2>10. Clean'
      <3> HIDE DEF e, E, x, y, v, gs, hs, u, b
      <3>1. Pure(e, E, Given, Told, v, y, hs, gs, u)
        BY <2>5, <2>9 DEF Pure, Same
      <3> QED BY <2>7, <3>1
    <2>11. Asking' \subseteq Asking \cup {e}
      <3> HIDE DEF e, E, x, y, v, gs, hs, u, b
      <3>1. Open(e, E, Given, Told, v, y, gs, b) \subseteq Open(e, E, Given, Told, x, y, gs, b) \cup {e}
        BY <2>4, GuestWrong, ZenonT(30)
      <3> QED BY <2>7, <3>1
    <2>12. Budget'
      <3> DEFINE d == 1
                 r == 0
      <3>1. /\ Cardinality(Requests(chan'[Host])) <= Cardinality(Requests(chan[Host])) + r
            /\ Want' <= Want + d /\ d \in Nat /\ r \in Int /\ d \in Int /\ d # 0
            /\ (pushes' - pushes) + (r + (d + (IF d = 0 THEN 0 ELSE 1))) <= 2 * (glitches' - glitches)
        BY <1>4, <2>2, <2>8
      <3> HIDE DEF d, r, e
      <3>2. d = 0 => Asking' \subseteq Asking
        BY <3>1
      <3> QED BY <2>8, <2>11, <3>1, <3>2, BudgetStep, ZenonT(30)
    <2> QED BY <1>2, <2>3, <2>10, <2>12 DEF WatchInv, Watch, Alive
  <1> QED BY <1>1, <1>3, <1>4

LEMMA RunTickWatch ==
  ASSUME ImageInv, ImageInv', StoryInv, Alive, Watch, NEW c \in Seats, RunTick(c)
  PROVE  WatchInv'
  <1>1. PICK v, o : o \in Seq(Frames) /\ Ran(c, v, o)
    BY TickRan
  <1>2. CASE c = Host
    BY <1>1, <1>2, HostTickWatch
  <1>3. CASE c = Guest
    BY <1>1, <1>3, GuestTickWatch
  <1> QED BY <1>2, <1>3, SeatFacts

\* The host has died: it pushes no more.
LEMMA DeadWatch ==
  ASSUME ImageInv, ImageInv', ~Alive, PushesBounded, [Next]_vars
  PROVE  WatchInv'
  <1>1. /\ pc \in [Seats -> {"pass", "pump", "gate", "stall", "after", "hold", "park", "off"}]
        /\ pc[Host] = "off" /\ glitches \in Nat /\ pushes \in Nat /\ glitches' \in Nat
    BY DEF ImageInv, Basics, Alive
  <1>2. pc'[Host] = "off" /\ pushes' = pushes /\ glitches' >= glitches
    <2>1. CASE UNCHANGED vars
      BY <1>1, <2>1 DEF vars, image
    <2>2. CASE HostDies
      BY <1>1, <2>2 DEF HostDies
    <2>3. ASSUME NEW c \in Seats, Read(c) \/ Handle(c) \/ Pass(c) \/ Timeouts(c)
          PROVE  pc'[Host] = "off" /\ pushes' = pushes /\ glitches' >= glitches
      <3>1. CASE Read(c)
        BY <1>1, <3>1 DEF Read, image
      <3>2. CASE Handle(c)
        <4>1. pushes' = pushes /\ glitches' = glitches /\ pc' = pc
          BY <3>2 DEF Handle, OnInput, OnCrc, OnReq, OnBegin, OnChunk, OnEnd, OnLeft, Take, image
        <4> QED BY <1>1, <4>1
      <3>3. CASE RunTick(c)
        <4>1. /\ pc[c] = "gate" /\ pc' = [pc EXCEPT ![c] = "after"] /\ pushes' = pushes
              /\ glitches' = glitches \/ glitches' = glitches + 1
          BY <3>3, TickStep
        <4>2. c # Host
          BY <1>1, <4>1
        <4> QED BY <1>1, <4>1, <4>2, SeatFacts
      <3>4. CASE Pending(c)
        <4>1. pc[c] = "after" /\ pc' = [pc EXCEPT ![c] = "pass"] /\ glitches' = glitches
          BY <3>4 DEF Pending
        <4>2. c # Host
          BY <1>1, <4>1
        <4>3. pushes' = pushes
          BY <3>4, <4>2 DEF Pending, Wanted
        <4> QED BY <1>1, <4>1, <4>2, <4>3, SeatFacts
      <3>6. CASE HoldPass(c)
        <4>1. /\ pc[c] = "hold" /\ pc' = [pc EXCEPT ![c] = "pass"] /\ pushes' = pushes
              /\ glitches' = glitches \/ glitches' = glitches + 1
          BY <3>6, HoldPassStep
        <4>2. c # Host
          BY <1>1, <4>1
        <4> QED BY <1>1, <4>1, <4>2, SeatFacts
      <3>5. CASE EnterPass(c) \/ CaptureInput(c) \/ Stall(c) \/ Round(c) \/ Timeouts(c)
        <4>1. /\ pushes' = pushes /\ glitches' = glitches /\ pc[c] # "off"
              /\ \E next \in Places : pc' = [pc EXCEPT ![c] = next]
          BY <3>5 DEF EnterPass, CaptureInput, Stall, Round, Timeouts, HoldTimeout, GateTimeout,
                      DonePumping, image, Places
        <4>2. c # Host
          BY <1>1, <4>1
        <4> QED BY <1>1, <4>1, <4>2, SeatFacts
      <3> QED BY <2>3, <3>1, <3>2, <3>3, <3>4, <3>5, <3>6 DEF Pass
    <2> QED BY <2>1, <2>2, <2>3 DEF Next
  <1>3. PushesBounded'
    <2>1. pushes <= 2 * glitches
      BY DEF PushesBounded
    <2> DEFINE P == pushes
               g == glitches
               h == glitches'
    <2>2. P \in Nat /\ g \in Nat /\ h \in Nat /\ P <= 2 * g /\ h >= g
      BY <1>1, <1>2, <2>1
    <2> HIDE DEF P, g, h
    <2>3. P <= 2 * h
      BY <2>2
    <2> QED BY <1>2, <2>3 DEF PushesBounded, P, h
  <1> QED BY <1>2, <1>3 DEF WatchInv, Alive

LEMMA BudgetBounds ==
  ASSUME ImageInv, Budget
  PROVE  PushesBounded
  <1> DEFINE a == Cardinality(Asking)
             n == Cardinality(Requests(chan[Host]))
             W == Want
  <1>1. a \in Nat /\ n \in Nat /\ W \in Nat /\ glitches \in Nat /\ pushes \in Nat
    BY Counts
  <1>2. pushes + (n + (W + a)) <= 2 * glitches
    BY DEF Budget
  <1> HIDE DEF a, n, W
  <1>3. pushes <= 2 * glitches
    BY <1>1, <1>2
  <1> QED BY <1>3 DEF PushesBounded

\* The server's goodbye and the timeouts need a host that is off.
LEMMA LeavingWatch ==
  ASSUME ImageInv, StoryInv, Alive, NEW c \in Seats, OnLeft(c) \/ HoldTimeout(c) \/ GateTimeout(c)
  PROVE  FALSE
  <1> DEFINE out == <<>>
             type == "LEFT"
  <1>1. CASE OnLeft(c)
    <2>1. Take(c, type, out) /\ out \in Seq(Frames)
      BY <1>1, EmptyQueue DEF OnLeft
    <2>2. chan[c] \in Seq(Frames) /\ chan[c] # <<>> /\ chan[c][1].type = type
      <3> HIDE DEF out, type
      <3> QED BY <2>1, TakeStep
    <2>3. 1 \in 1..Len(chan[c])
      <3>1. Len(chan[c]) \in Nat /\ Len(chan[c]) >= 1
        BY <2>2, QueueTail
      <3> QED BY <3>1
    <2>4. CASE c = Host
      BY <2>2, <2>3, <2>4 DEF ImageInv, Roles
    <2>5. CASE c = Guest
      BY <2>2, <2>3, <2>5 DEF ImageInv, Queue, Pushes, Alive
    <2> QED BY <2>4, <2>5, SeatFacts
  <1>2. CASE HoldTimeout(c) \/ GateTimeout(c)
    <2>1. pc[Peer(c)] = "off"
      BY <1>2 DEF HoldTimeout, GateTimeout, Silent
    <2> QED BY <2>1, SeatFacts DEF ImageInv, Roles, Alive
  <1> QED BY <1>1, <1>2

LEMMA InitWatch ==
  ASSUME Init
  PROVE  WatchInv
  <1>1. /\ pc[Host] = "pass" /\ chan[Host] = <<>> /\ chan[Guest] = <<>>
        /\ rec[Host] = NoRecords /\ rec[Guest] = NoRecords
        /\ pend[Host] = FALSE /\ pend[Guest] = FALSE
        /\ line[Host] = 0 /\ line[Guest] = 0 /\ base[Host] = 0 /\ base[Guest] = 0
        /\ glitches = 0 /\ pushes = 0
    BY SeatFacts DEF Init
  <1>2. Crcs(<<>>) = {} /\ Requests(<<>>) = {} /\ \A e : Sums(<<>>, e) = {}
    BY EmptyQueue DEF Crcs, Requests, Sums
  <1>3. Records
    <2>1. \A c \in Seats, i \in Slots : rec[c][i].tick = -1
      BY <1>1, NoneSeen, SeatFacts
    <2> QED BY <2>1, SeatFacts DEF Records
  <1>4. Reports
    BY <1>1, <1>2 DEF Reports
  <1>5. Noticed
    BY <1>1, NoneSeen DEF Noticed
  <1>6. Agreed
    BY <1>1 DEF Agreed, Same
  <1>7. Clean
    <2>1. Seen(rec[Host]) = {} /\ Seen(rec[Guest]) = {} /\ Told = {}
      BY <1>1, <1>2, NoneSeen DEF Told
    <2>2. Up(Crcs(chan[Host]), resume[Host]) = {}
      BY <1>1, <1>2 DEF Up
    <2> QED BY <2>1, <2>2 DEF Clean, Pure
  <1>8. Asking = {}
    <2>1. \A l \in line[Guest]..line[Host] : l = line[Host]
      BY <1>1
    <2> QED BY <1>6, <2>1 DEF Asking, Open, Mixed, Agreed
  <1>9. Budget
    <2>1. Want = 0
      BY <1>1, <1>6 DEF Want
    <2>2. Cardinality(Asking) = 0 /\ Cardinality(Requests(chan[Host])) = 0
      BY <1>1, <1>2, <1>8, FS_EmptySet
    <2> QED BY <1>1, <2>1, <2>2 DEF Budget
  <1>10. Alive
    BY <1>1 DEF Alive
  <1> QED BY <1>3, <1>4, <1>5, <1>7, <1>9, <1>10 DEF WatchInv, Watch

LEMMA WatchStepKeeps ==
  ASSUME ImageInv, ImageInv', StoryInv, WatchInv, [Next]_vars
  PROVE  WatchInv'
  <1>1. CASE ~Alive
    BY <1>1, DeadWatch DEF WatchInv
  <1>2. CASE Alive
    <2>0. Watch
      BY <1>2 DEF WatchInv
    <2>1. CASE UNCHANGED vars
      <3>1. /\ chan' = chan /\ UNCHANGED <<line, base, rec, pend, glitches, pushes, tick>>
            /\ resume'[Host] = resume[Host] /\ pc'[Host] # "off"
        BY <1>2, <2>1 DEF vars, engine, recovery, wire, image, Alive
      <3> QED BY <1>2, <2>0, <3>1, QuietWatch
    <2>2. CASE HostDies
      <3>1. pc' = [pc EXCEPT ![Host] = "off"] /\ pushes' = pushes /\ glitches' = glitches
        BY <2>2 DEF HostDies, image
      <3>2. ~Alive'
        BY <3>1, SeatFacts DEF Alive, ImageInv, Basics
      <3>3. PushesBounded
        BY <2>0, BudgetBounds DEF Watch
      <3>4. PushesBounded'
        BY <3>1, <3>3 DEF PushesBounded
      <3> QED BY <3>2, <3>4 DEF WatchInv
    <2>3. ASSUME NEW c \in Seats, Read(c) \/ Handle(c) \/ Pass(c) \/ Timeouts(c)
          PROVE  WatchInv'
      <3>1. CASE Read(c)
        BY <1>2, <2>0, <3>1, MoveWatch
      <3>2. CASE Handle(c)
        <4>1. \/ OnInput(c) \/ OnCrc(c) \/ OnReq(c) \/ OnBegin(c) \/ OnChunk(c) \/ OnEnd(c) \/ OnLeft(c)
          BY <3>2 DEF Handle
        <4> QED BY <1>2, <2>0, <4>1, OnInputWatch, OnCrcWatch, OnReqWatch, OnBeginWatch, OnChunkWatch,
                   OnEndWatch, LeavingWatch
      <3>3. CASE Pass(c)
        <4>1. \/ EnterPass(c) \/ HoldPass(c) \/ CaptureInput(c) \/ Stall(c) \/ Round(c) \/ RunTick(c)
              \/ Pending(c) /\ Wanted(c) /\ Push(c)
              \/ Pending(c) /\ ~(Wanted(c) /\ Push(c))
          BY <3>3 DEF Pass
        <4> QED BY <1>2, <2>0, <4>1, MoveWatch, HoldPassWatch, CaptureWatch, RunTickWatch, PushWatch
      <3>4. CASE Timeouts(c)
        BY <1>2, <3>4, LeavingWatch DEF Timeouts
      <3> QED BY <2>3, <3>1, <3>2, <3>3, <3>4
    <2> QED BY <2>1, <2>2, <2>3 DEF Next
  <1> QED BY <1>1, <1>2

-----------------------------------------------------------------------------
(***************************************************************************)
(* What is recorded, reported and asked for always belongs together, as    *)
(* long as the host lives: RS_ON_CRC compares a report only with a record  *)
(* of its own timeline, since RS_CLR_CRC has emptied the others and the    *)
(* tick RS_PUSH resumes at is past every tick that was run before.         *)
(***************************************************************************)
THEOREM WatchInvariant == Spec => []WatchInv
  <1>1. Init => WatchInv
    BY InitWatch
  <1>2. ImageInv /\ ImageInv' /\ StoryInv /\ WatchInv /\ [Next]_vars => WatchInv'
    BY WatchStepKeeps
  <1>3. Spec => []ImageInv /\ []StoryInv
    BY ImageInvariant, StoryInvariant
  <1> QED BY <1>1, <1>2, <1>3, PTL DEF Spec

(***************************************************************************)
(* No divergence goes unnoticed: two records (OWN_CRC) that disagree, with *)
(* both reports read, have made RS_ON_CRC remember a push or ask for one,  *)
(* and the request is under way, remembered by RS_ON_REQ, or answered by a *)
(* push that is.  A guest that has asked, and looks at no more checksums,  *)
(* is never left to wait for a push that does not come.                    *)
(***************************************************************************)
THEOREM DivergencesNoticed == Spec => []NoticedDivergence
  <1>1. ASSUME ImageInv, StoryInv, WatchInv
        PROVE  NoticedDivergence
    <2> SUFFICES ASSUME Alive PROVE NoticedDivergence
      BY DEF NoticedDivergence, Alive
    <2> DEFINE q == chan[Guest]
               p == chan[Host]
    <2>1. Noticed
      BY <1>1 DEF WatchInv, Watch
    <2>2. /\ q \in Seq(Frames) /\ p \in Seq(Frames) /\ line[Guest] \in Nat /\ line[Host] \in Nat
          /\ Label(q, line[Guest], Len(q) + 1) = line[Host]
      BY <1>1, Living
    <2>3. DOMAIN q = 1..Len(q) /\ DOMAIN p = 1..Len(p)
      BY <2>2, LenProperties
    <2>4. Repairing => Recovering
      <3>1. Requests(p) # {} => "RESYNC" \in Types(p)
        BY <2>3 DEF Requests, Types
      <3>2. (\E k \in 1..Len(q) : q[k].type = "END") <=> line[Guest] < line[Host]
        <4> HIDE DEF q
        <4> QED BY <2>2, ViewRange
      <3>3. line[Guest] < line[Host] => "END" \in Types(q)
        BY <2>3, <3>2 DEF Types
      <3> QED BY <3>1, <3>3 DEF Repairing, Recovering
    <2>5. ASSUME NEW c \in Seats, NEW f \in Crcs(chan[c])
          PROVE  Unreported(f.tick)
      <3>1. DOMAIN chan[c] = 1..Len(chan[c])
        BY <2>3, SeatFacts
      <3>2. PICK k \in 1..Len(chan[c]) : chan[c][k].type = "CRC" /\ f = chan[c][k]
        BY <2>5 DEF Crcs
      <3> QED BY <3>1, <3>2 DEF Unreported
    <2>6. ASSUME NEW i \in 0..(CrcSlots - 1), rec[Host][i].tick # -1, rec[Host][i].tick = rec[Guest][i].tick,
                 rec[Host][i].crc # rec[Guest][i].crc, ~Unreported(rec[Host][i].tick)
          PROVE  Recovering
      <3>1. i \in Slots
        BY DEF Slots
      <3>2. Repairing \/ \E c \in Seats : \E f \in Crcs(chan[c]) : f.tick = rec[Host][i].tick
        BY <2>1, <2>6, <3>1 DEF Noticed
      <3>3. ASSUME NEW c \in Seats, NEW f \in Crcs(chan[c]), f.tick = rec[Host][i].tick PROVE FALSE
        <4>1. Unreported(f.tick)
          BY <2>5
        <4> QED BY <2>6, <3>3, <4>1
      <3> QED BY <2>4, <3>2, <3>3
    <2>7. pend[Guest] => Recovering
      BY <2>1, <2>4 DEF Noticed
    <2> QED BY <2>6, <2>7 DEF NoticedDivergence
  <1> QED BY <1>1, ImageInvariant, StoryInvariant, WatchInvariant, PTL

(***************************************************************************)
(* No resync storm: RS_PUSH is run at most twice for every divergence,     *)
(* once for what the host sees itself and once for the guest's request,    *)
(* which may cross the push.  A timeline in which nothing went wrong costs *)
(* nothing, whatever reports and requests of older ones come in late.      *)
(***************************************************************************)
THEOREM PushesStayBounded == Spec => []PushesBounded
  <1>1. ImageInv /\ WatchInv => PushesBounded
    BY BudgetBounds DEF WatchInv, Watch
  <1> QED BY <1>1, ImageInvariant, WatchInvariant, PTL
=============================================================================
