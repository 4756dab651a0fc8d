---------------------------- MODULE RelayProofs -----------------------------
(***************************************************************************)
(* What the relay's tables and its consoles' screens promise, for any      *)
(* number of clients, names and seats and however the sends of a cascade   *)
(* of drops fail.                                                          *)
(*                                                                         *)
(* The tables turn out to agree in every state, not only between two       *)
(* events: drop() takes a client out of all of them before its first send. *)
(* What is in progress matters in two places only: the rest of a HELLO     *)
(* must find its name free and, in the Python, its client alive; and what  *)
(* a console has not been told yet must still be owed to it by a loop.     *)
(***************************************************************************)
EXTENDS Relay, FiniteSetTheorems, SequenceTheorems, TLAPS

\* What RelayGhostName shows to be needed: consoles of the Python server say
\* HELLO once.
NoRename == \A b \in Builds : b.impl = "python" => ~b.rehello

Has(ms, c) == \E i \in 1..Len(ms) : ms[i] = c

-----------------------------------------------------------------------------
(* The tables.                                                             *)

TypeInv == TypeOK /\ stack \in Seq(Calls)

NamesAgree ==
  /\ \A n \in Names : byName[n] # None => byName[n] \in live /\ name[byName[n]] = n
  /\ \A c \in live : name[c] # None => byName[name[c]] = c

RoomsAgree ==
  /\ \A r \in Rooms : members[r] # <<>> => Len(members[r]) >= 2
  /\ \A r \in Rooms : members[r] = <<>> => ~started[r]
  /\ \A r \in Rooms : \A i \in 1..Len(members[r]) :
       members[r][i] \in live /\ room[members[r][i]] = r
  /\ \A r \in Rooms : \A i, j \in 1..Len(members[r]) : members[r][i] = members[r][j] => i = j
  /\ \A c \in Clients : room[c] # NoRoom => Has(members[room[c]], c) /\ name[c] # None

\* The rest of a HELLO: nobody else has the name, and in the Python no send
\* in progress can reach the client.
HelloFits(st, dir, impl, lv, nm) ==
  \A k \in 1..Len(st) : st[k].op = "hello" =>
    /\ dir[st[k].name] \in {None, st[k].client}
    /\ impl = "python" =>
         /\ st[k].client \in lv /\ nm[st[k].client] = None
         /\ \A l \in 1..Len(st) : st[l].op = "each" => ~Has(st[l].to, st[k].client)

HelloSound(st) == HelloFits(st, byName, build.impl, live, name)

\* HELLO and JOIN are the outermost calls.
Outermost(st) == \A k \in 1..Len(st) : st[k].op \in {"hello", "join"} => k = Len(st)

TablesInv ==
  /\ TypeInv
  /\ NamesAgree /\ RoomsAgree
  /\ count = Identified(byName)
  /\ HelloSound(stack) /\ Outermost(stack)

-----------------------------------------------------------------------------
(* What the consoles are told.                                             *)

\* What the members of a room should have been told.
Proper(r) == IF started[r] THEN StartFrame(members[r]) ELSE RoomFrame(members[r])

Goodbyes == {Dissolved, PeerLeft}

Right(c) ==
  IF room[c] = NoRoom THEN told[c] \in Goodbyes ELSE told[c] = Proper(room[c])

\* A loop over the live list has run out, unless it is the innermost one,
\* and then it announces the room as it is.
LoopsSound(st) ==
  \A k \in 1..Len(st) : (st[k].op = "live" /\ st[k].what # Other) =>
    /\ st[k].but = None
    /\ \/ st[k].i > Len(members[st[k].room])
       \/ k = 1 /\ st[k].what = Proper(st[k].room)

\* A snapshot that is told goodbye has no room.
GoodbyesSound(st) ==
  \A k \in 1..Len(st) : (st[k].op = "each" /\ st[k].what # Other) =>
    /\ st[k].what \in Goodbyes
    /\ \A c \in Clients : Has(st[k].to, c) => room[c] = NoRoom

OwedGoodbye(st, c) ==
  /\ room[c] = NoRoom
  /\ \E k \in 1..Len(st) : st[k].op = "each" /\ st[k].what # Other /\ Has(st[k].to, c)

OwedRoster(st, c) ==
  /\ st # <<>> /\ st[1].op = "live" /\ st[1].what = Proper(st[1].room)
  /\ room[c] = st[1].room
  /\ \E j \in 1..Len(members[st[1].room]) : j >= st[1].i /\ members[st[1].room][j] = c

TruthOwed(st) == \A c \in live : Right(c) \/ OwedGoodbye(st, c) \/ OwedRoster(st, c)

ToldInv ==
  (build.impl = "python" /\ MaxSeats <= 3) =>
    LoopsSound(stack) /\ GoodbyesSound(stack) /\ TruthOwed(stack)

-----------------------------------------------------------------------------
(* Facts about the constants, lists of members and stacks.                 *)

LEMMA Constants ==
  /\ None \notin Clients /\ None \notin Names /\ IsFiniteSet(Clients) /\ IsFiniteSet(Names)
  /\ MaxSeats \in Nat /\ MaxSeats >= 2 /\ Cardinality(Clients) \in Nat
  /\ Rooms \subseteq Nat /\ NoRoom \notin Rooms
  /\ \A b \in Builds : b.impl \in {"python", "c"} /\ b.autoGo \in Nat /\ b.autoGo # 1
                       /\ b.rehello \in BOOLEAN
  <1>1. Cardinality(Clients) \in Nat
    BY RelayAssumption, FS_CardinalityType
  <1>2. Rooms \subseteq Nat /\ NoRoom \notin Rooms
    BY <1>1 DEF Rooms, NoRoom
  <1> QED BY RelayAssumption, <1>1, <1>2

LEMMA SeatedSeq ==
  ASSUME NEW s
  PROVE  s \in Seated <=> s \in Seq(Clients) /\ Len(s) <= MaxSeats
  <1>1. ASSUME s \in Seated PROVE s \in Seq(Clients) /\ Len(s) <= MaxSeats
    <2>1. PICK n \in 0..MaxSeats : s \in [1..n -> Clients]
      BY <1>1 DEF Seated
    <2>2. n \in Nat /\ n <= MaxSeats
      BY Constants
    <2>3. s \in Seq(Clients) /\ Len(s) = n
      BY <2>1, <2>2
    <2> QED BY <2>2, <2>3
  <1>2. ASSUME s \in Seq(Clients), Len(s) <= MaxSeats PROVE s \in Seated
    <2>1. Len(s) \in Nat /\ s \in [1..Len(s) -> Clients]
      BY <1>2, LenProperties
    <2>2. Len(s) \in 0..MaxSeats
      BY <1>2, <2>1, Constants
    <2> QED BY <2>1, <2>2 DEF Seated
  <1> QED BY <1>1, <1>2

Distinct(ms) == \A i, j \in 1..Len(ms) : ms[i] = ms[j] => i = j

\* A list with a member taken out, or without the one to take out.
LEMMA Untouched ==
  ASSUME NEW ms \in Seq(Clients), NEW c, ~Has(ms, c)
  PROVE  Without(ms, c) = ms
  <1>1. DOMAIN ms = 1..Len(ms)
    BY LenProperties
  <1> QED BY <1>1 DEF Without, Has

LEMMA Removed ==
  ASSUME NEW ms \in Seq(Clients), NEW c, Has(ms, c)
  PROVE  LET left == Without(ms, c) IN
         /\ left \in Seq(Clients) /\ Len(left) = Len(ms) - 1
         /\ \A x : Has(left, x) => Has(ms, x)
         /\ \A x : Has(ms, x) /\ x # c => Has(left, x)
         /\ Distinct(ms) => Distinct(left) /\ ~Has(left, c)
  <1> DEFINE n == Len(ms)
             seat == CHOOSE i \in DOMAIN ms : ms[i] = c
             at(i) == IF i < seat THEN i ELSE i + 1
             left == [i \in 1..(n - 1) |-> ms[at(i)]]
  <1>1. n \in Nat /\ DOMAIN ms = 1..n /\ \A i \in 1..n : ms[i] \in Clients
    BY LenProperties, ElementOfSeq
  <1>2. \E i \in DOMAIN ms : ms[i] = c
    BY <1>1 DEF Has
  <1>3. Without(ms, c) = left
    BY <1>2 DEF Without
  <1>4. seat \in 1..n /\ ms[seat] = c
    BY <1>1, <1>2
  <1> HIDE DEF seat, n
  <1>5. n >= 1 /\ n - 1 \in Nat /\ \A i \in 1..(n - 1) : at(i) \in 1..n /\ at(i) # seat
    BY <1>1, <1>4
  <1>6. left \in Seq(Clients) /\ Len(left) = n - 1
        /\ \A i \in 1..(n - 1) : left[i] = ms[at(i)]
    <2>1. \A i \in 1..(n - 1) : ms[at(i)] \in Clients
      BY <1>1, <1>5
    <2> HIDE DEF at
    <2> QED BY <1>5, <2>1
  <1>7. \A i, j \in 1..(n - 1) : at(i) = at(j) => i = j
    BY <1>4, <1>5
  <1>8. \A i \in 1..n : i # seat => \E j \in 1..(n - 1) : at(j) = i
    <2> SUFFICES ASSUME NEW i \in 1..n, i # seat PROVE \E j \in 1..(n - 1) : at(j) = i
      OBVIOUS
    <2>1. CASE i < seat
      <3>1. i \in 1..(n - 1) /\ at(i) = i
        BY <1>1, <1>4, <2>1
      <3> QED BY <3>1
    <2>2. CASE ~(i < seat)
      <3>1. i - 1 \in 1..(n - 1) /\ at(i - 1) = i
        BY <1>1, <1>4, <2>2
      <3> QED BY <3>1
    <2> QED BY <2>1, <2>2
  <1> HIDE DEF at, left
  <1>9. \A x : Has(left, x) => Has(ms, x)
    BY <1>5, <1>6 DEF Has, n
  <1>10. ASSUME NEW x, Has(ms, x), x # c PROVE Has(left, x)
    <2>1. PICK i \in 1..n : ms[i] = x
      BY <1>10 DEF Has, n
    <2>2. PICK j \in 1..(n - 1) : at(j) = i
      BY <1>4, <1>8, <1>10, <2>1
    <2> QED BY <1>6, <2>1, <2>2 DEF Has
  <1>11. ASSUME Distinct(ms) PROVE Distinct(left) /\ ~Has(left, c)
    <2>1. \A i, j \in 1..n : ms[i] = ms[j] => i = j
      BY <1>11 DEF Distinct, n
    <2>2. Distinct(left)
      BY <1>5, <1>6, <1>7, <2>1 DEF Distinct
    <2>3. ~Has(left, c)
      BY <1>4, <1>5, <1>6, <2>1 DEF Has
    <2> QED BY <2>2, <2>3
  <1> QED BY <1>3, <1>6, <1>9, <1>10, <1>11 DEF n

LEMMA WithoutSeated ==
  ASSUME NEW ms \in Seated, NEW c
  PROVE  Without(ms, c) \in Seated
  <1>1. ms \in Seq(Clients) /\ Len(ms) <= MaxSeats /\ Len(ms) \in Nat
    BY SeatedSeq, LenProperties
  <1>2. CASE ~Has(ms, c)
    BY <1>1, <1>2, Untouched
  <1>3. CASE Has(ms, c)
    <2>1. Without(ms, c) \in Seq(Clients) /\ Len(Without(ms, c)) = Len(ms) - 1
      BY <1>1, <1>3, Removed
    <2>2. Len(Without(ms, c)) <= MaxSeats
      BY <1>1, <2>1, Constants
    <2> QED BY <2>1, <2>2, SeatedSeq
  <1> QED BY <1>2, <1>3

\* A call is pushed.
LEMMA Pushed ==
  ASSUME NEW x \in Calls, NEW st \in Seq(Calls)
  PROVE  /\ <<x>> \o st \in Seq(Calls) /\ Len(<<x>> \o st) = Len(st) + 1
         /\ Len(st) \in Nat /\ (<<x>> \o st)[1] = x
         /\ \A k \in 1..Len(st) : (<<x>> \o st)[k + 1] = st[k]
         /\ \A k \in 1..(Len(st) + 1) : (<<x>> \o st)[k] = IF k = 1 THEN x ELSE st[k - 1]
  <1>1. <<x>> \in Seq(Calls) /\ Len(<<x>>) = 1 /\ <<x>>[1] = x /\ Len(st) \in Nat
    BY LenProperties
  <1> DEFINE y == <<x>>
  <1>2. y \in Seq(Calls) /\ Len(y) = 1 /\ y[1] = x
    BY <1>1
  <1> HIDE DEF y
  <1>3. /\ y \o st \in Seq(Calls) /\ Len(y \o st) = Len(y) + Len(st)
        /\ \A i \in 1..(Len(y) + Len(st)) : (y \o st)[i] = IF i <= Len(y) THEN y[i] ELSE st[i - Len(y)]
    BY <1>2, ConcatProperties
  <1>4. /\ y \o st \in Seq(Calls) /\ Len(y \o st) = Len(st) + 1
        /\ \A k \in 1..(Len(st) + 1) : (y \o st)[k] = IF k = 1 THEN x ELSE st[k - 1]
    BY <1>1, <1>2, <1>3
  <1>5. (y \o st)[1] = x /\ \A k \in 1..Len(st) : (y \o st)[k + 1] = st[k]
    BY <1>1, <1>4
  <1> QED BY <1>1, <1>4, <1>5 DEF y

\* The call on top.
LEMMA OnTop ==
  ASSUME TypeInv, stack # <<>>
  PROVE  /\ Len(stack) \in Nat /\ Len(stack) >= 1 /\ Head(stack) = stack[1]
         /\ Head(stack) \in Calls /\ Tail(stack) \in Seq(Calls)
         /\ Len(Tail(stack)) = Len(stack) - 1
         /\ \A k \in 1..Len(Tail(stack)) : Tail(stack)[k] = stack[k + 1]
  BY HeadTailProperties, EmptySeq, LenProperties DEF TypeInv

\* What the kinds of calls hold.
LEMMA CallTypes ==
  ASSUME NEW x \in Calls
  PROVE  /\ x.op \in {"each", "live", "hello", "join"}
         /\ x.op = "each" => x.to \in Seated /\ x.what \in Frames /\ x = Each(x.to, x.what)
         /\ x.op = "live" => /\ x.room \in Rooms /\ x.i \in 1..(MaxSeats + 1) /\ x.what \in Frames
                             /\ x.but \in Clients \cup {None}
         /\ x.op = "hello" => x.client \in Clients /\ x.name \in Names
         /\ x.op = "join" => x.room \in Rooms
  BY DEF Calls, Each

LEMMA FrameTypes ==
  /\ Dissolved \in Frames /\ PeerLeft \in Frames /\ Other \in Frames
  /\ \A ms \in Seated : RoomFrame(ms) \in Frames /\ StartFrame(ms) \in Frames
  /\ \A ms : RoomFrame(ms) # Other /\ StartFrame(ms) # Other
  /\ Dissolved # Other /\ PeerLeft # Other
  <1>1. <<>> \in Seq(Clients) /\ Len(<<>>) = 0
    BY EmptySeq
  <1>2. Len(<<>>) <= MaxSeats
    BY <1>1, Constants
  <1>3. <<>> \in Seated
    BY <1>1, <1>2, SeatedSeq
  <1> QED BY <1>3 DEF Dissolved, PeerLeft, Other, RoomFrame, StartFrame, Frames

LEMMA CallsMade ==
  /\ \A to \in Seated, what \in Frames : Each(to, what) \in Calls
  /\ \A r \in Rooms, i \in 1..(MaxSeats + 1), what \in Frames, but \in Clients \cup {None} :
       Live(r, i, what, but) \in Calls
  /\ \A c \in Clients, n \in Names : RestOfHello(c, n) \in Calls
  /\ \A r \in Rooms : RestOfJoin(r) \in Calls
  BY DEF Calls, Each, Live, RestOfHello, RestOfJoin

LEMMA LoopType ==
  ASSUME NEW r \in Rooms, NEW ms \in Seated, NEW what \in Frames, NEW but \in Clients \cup {None}
  PROVE  ToMembers(r, ms, what, but) \in Calls
  <1>1. 1 \in 1..(MaxSeats + 1)
    BY Constants
  <1>2. LiveLoop(r, what, but) \in Calls
    BY <1>1, CallsMade DEF LiveLoop
  <1>3. SnapshotLoop(ms, what, but) \in Calls
    BY WithoutSeated, CallsMade DEF SnapshotLoop
  <1> QED BY <1>2, <1>3 DEF ToMembers

LEMMA Counted ==
  ASSUME NEW f
  PROVE  Identified(f) \in 0..Cardinality(Names)
  <1> DEFINE T == {n \in Names : f[n] # None}
  <1>1. T \subseteq Names
    OBVIOUS
  <1> HIDE DEF T
  <1>2. Cardinality(T) <= Cardinality(Names) /\ Cardinality(T) \in Nat /\ Cardinality(Names) \in Nat
    BY <1>1, Constants, FS_Subset, FS_CardinalityType
  <1>3. Identified(f) = Cardinality(T)
    BY DEF Identified, T
  <1> QED BY <1>2, <1>3

\* The type invariant from its parts.
LEMMA StackTypes ==
  ASSUME NEW st \in Seq(Calls)
  PROVE  \A i \in DOMAIN st : st[i] \in Calls
  BY LenProperties, ElementOfSeq

-----------------------------------------------------------------------------
(* Types.                                                                  *)

LEMMA DropTypes ==
  ASSUME TypeInv, NEW c \in Clients, NEW rest \in Seq(Calls), Drop(c, rest)
  PROVE  TypeInv'
  <1> DEFINE r == room[c]
             left == Without(members[r], c)
  <1>1. r \in Rooms \cup {NoRoom} /\ (r # NoRoom => members[r] \in Seated)
    BY DEF TypeInv, TypeOK
  <1>2. r # NoRoom => left \in Seated
    BY <1>1, WithoutSeated
  <1>3. UNCHANGED <<build, name, told>> /\ live' \subseteq Clients
    BY DEF Drop, TypeInv, TypeOK
  <1>4. byName' \in [Names -> Clients \cup {None}]
    BY DEF Drop, TypeInv, TypeOK, Unnamed
  <1>5. count' \in 0..Cardinality(Names)
    BY Counted DEF Drop, TypeInv, TypeOK, Republished
  <1>6. /\ room' \in [Clients -> Rooms \cup {NoRoom}]
        /\ members' \in [Rooms -> Seated] /\ started' \in [Rooms -> BOOLEAN]
        /\ stack' \in Seq(Calls)
    <2>1. CASE r = NoRoom
      BY <2>1 DEF Drop, TypeInv, TypeOK
    <2>2. CASE r # NoRoom /\ EndsRoom(r, c)
      <3>1. <<>> \in Seated /\ Farewell(r) \in Frames
        BY FrameTypes DEF Farewell, Dissolved, RoomFrame, Frames
      <3>2. Each(left, Farewell(r)) \in Calls
        BY <1>2, <2>2, <3>1, CallsMade
      <3>3. /\ room' = [x \in Clients |-> IF room[x] = r THEN NoRoom ELSE room[x]]
            /\ members' = [members EXCEPT ![r] = <<>>]
            /\ started' = [started EXCEPT ![r] = FALSE]
            /\ stack' = <<Each(left, Farewell(r))>> \o rest
        BY <2>2 DEF Drop
      <3>4. stack' \in Seq(Calls)
        BY <3>2, <3>3, Pushed
      <3> QED BY <3>1, <3>3, <3>4 DEF TypeInv, TypeOK
    <2>3. CASE r # NoRoom /\ ~EndsRoom(r, c)
      <3>1. ToMembers(r, left, RoomFrame(left), None) \in Calls
        BY <1>1, <1>2, <2>3, FrameTypes, LoopType
      <3>2. /\ room' = [room EXCEPT ![c] = NoRoom]
            /\ members' = [members EXCEPT ![r] = left]
            /\ started' = started
            /\ stack' = <<ToMembers(r, left, RoomFrame(left), None)>> \o rest
        BY <2>3 DEF Drop
      <3>3. stack' \in Seq(Calls)
        BY <3>1, <3>2, Pushed
      <3> QED BY <1>2, <2>3, <3>2, <3>3 DEF TypeInv, TypeOK
    <2> QED BY <2>1, <2>2, <2>3
  <1>7. \A i \in DOMAIN stack' : stack'[i] \in Calls
    BY <1>6, StackTypes
  <1> QED BY <1>3, <1>4, <1>5, <1>6, <1>7 DEF TypeInv, TypeOK

LEMMA SendTypes ==
  ASSUME TypeInv, NEW m \in Clients, NEW what \in Frames, NEW rest \in Seq(Calls),
         Send(m, what, rest)
  PROVE  TypeInv'
  <1>1. CASE m \in live /\ Drop(m, rest)
    BY <1>1, DropTypes
  <1>2. CASE stack' = rest /\ UNCHANGED tables /\ told' \in [Clients -> Frames]
    <2>1. \A i \in DOMAIN stack' : stack'[i] \in Calls
      BY <1>2, StackTypes
    <2> QED BY <1>2, <2>1 DEF TypeInv, TypeOK, tables
  <1>3. \/ m \in live /\ Drop(m, rest)
        \/ stack' = rest /\ UNCHANGED tables /\ told' \in [Clients -> Frames]
    BY DEF Send, TypeInv, TypeOK
  <1> QED BY <1>1, <1>2, <1>3

LEMMA StartTypes ==
  ASSUME TypeInv, NEW r \in Rooms, NEW rest \in Seq(Calls), StartRoom(r, rest)
  PROVE  TypeInv'
  <1>1. members[r] \in Seated
    BY DEF TypeInv, TypeOK
  <1>2. ToMembers(r, members[r], StartFrame(members[r]), None) \in Calls
    BY <1>1, FrameTypes, LoopType
  <1>3. stack' \in Seq(Calls)
    BY <1>2, Pushed DEF StartRoom
  <1>4. \A i \in DOMAIN stack' : stack'[i] \in Calls
    BY <1>3, StackTypes
  <1>5. count' \in 0..Cardinality(Names)
    BY Counted DEF StartRoom
  <1> QED BY <1>3, <1>4, <1>5 DEF StartRoom, TypeInv, TypeOK

LEMMA ListType ==
  ASSUME NEW to \in Seated, to # <<>>
  PROVE  Head(to) \in Clients /\ Tail(to) \in Seated /\ Head(to) = to[1]
         /\ Len(to) \in Nat /\ Len(to) >= 1 /\ Len(Tail(to)) = Len(to) - 1
         /\ \A i \in 1..Len(Tail(to)) : Tail(to)[i] = to[i + 1]
  <1>1. to \in Seq(Clients) /\ Len(to) <= MaxSeats
    BY SeatedSeq
  <1>2. /\ Head(to) \in Clients /\ Tail(to) \in Seq(Clients) /\ Head(to) = to[1]
        /\ Len(to) \in Nat /\ Len(to) >= 1 /\ Len(Tail(to)) = Len(to) - 1
        /\ \A i \in 1..Len(Tail(to)) : Tail(to)[i] = to[i + 1]
    BY <1>1, HeadTailProperties, EmptySeq, LenProperties
  <1>3. Len(Tail(to)) <= MaxSeats
    BY <1>1, <1>2, Constants
  <1> QED BY <1>2, <1>3, SeatedSeq

LEMMA EachTypes ==
  ASSUME TypeInv, EachStep
  PROVE  TypeInv'
  <1> DEFINE call == Head(stack)
  <1>1. stack # <<>> /\ call.op = "each"
    BY DEF EachStep
  <1>2. call.to \in Seated /\ call.what \in Frames /\ Tail(stack) \in Seq(Calls)
    BY <1>1, OnTop, CallTypes
  <1>3. CASE call.to = <<>>
    <2>1. stack' = Tail(stack) /\ UNCHANGED <<tables, told>>
      BY <1>3 DEF EachStep
    <2>2. \A i \in DOMAIN Tail(stack) : Tail(stack)[i] \in Calls
      BY <1>2, StackTypes
    <2> QED BY <1>2, <2>1, <2>2 DEF TypeInv, TypeOK, tables
  <1>4. CASE call.to # <<>>
    <2>1. Head(call.to) \in Clients /\ Tail(call.to) \in Seated
      BY <1>2, <1>4, ListType
    <2>2. Each(Tail(call.to), call.what) \in Calls
      BY <1>2, <2>1, CallsMade
    <2>3. <<Each(Tail(call.to), call.what)>> \o Tail(stack) \in Seq(Calls)
      BY <1>2, <2>2, Pushed
    <2>4. Send(Head(call.to), call.what, <<Each(Tail(call.to), call.what)>> \o Tail(stack))
      BY <1>4 DEF EachStep
    <2> QED BY <1>2, <2>1, <2>3, <2>4, SendTypes
  <1> QED BY <1>3, <1>4

LEMMA AdvancedType ==
  ASSUME NEW x \in Calls, x.op = "live", x.i <= MaxSeats
  PROVE  /\ Advanced(x) \in Calls /\ Advanced(x).op = "live" /\ Advanced(x).i = x.i + 1
         /\ Advanced(x).room = x.room /\ Advanced(x).what = x.what /\ Advanced(x).but = x.but
  <1>1. /\ x \in [op : {"live"}, room : Rooms, i : 1..(MaxSeats + 1), what : Frames,
                  but : Clients \cup {None}]
    BY DEF Calls
  <1>2. x.i \in Nat /\ x.i + 1 \in 1..(MaxSeats + 1)
    BY <1>1, Constants
  <1> QED BY <1>1, <1>2 DEF Advanced, Calls

LEMMA MembersTypes ==
  ASSUME TypeInv, NEW r \in Rooms
  PROVE  /\ members[r] \in Seated /\ members[r] \in Seq(Clients)
         /\ Len(members[r]) \in Nat /\ Len(members[r]) <= MaxSeats
         /\ \A i \in 1..Len(members[r]) : members[r][i] \in Clients
         /\ DOMAIN members[r] = 1..Len(members[r])
  <1>1. members[r] \in Seated
    BY DEF TypeInv, TypeOK
  <1>2. members[r] \in Seq(Clients) /\ Len(members[r]) <= MaxSeats
    BY <1>1, SeatedSeq
  <1> QED BY <1>1, <1>2, LenProperties, ElementOfSeq

\* The state the innermost loop over a live list finds.
LEMMA LiveCall ==
  ASSUME TypeInv, stack # <<>>, Head(stack).op = "live"
  PROVE  LET call == Head(stack)
             ms == members[call.room]
             rest == <<Advanced(call)>> \o Tail(stack) IN
         /\ call \in Calls /\ call.room \in Rooms /\ call.i \in 1..(MaxSeats + 1)
         /\ call.what \in Frames
         /\ Tail(stack) \in Seq(Calls)
         /\ call.i <= Len(ms) =>
              /\ call.i \in 1..Len(ms) /\ ms[call.i] \in Clients
              /\ Advanced(call) \in Calls /\ Advanced(call).op = "live"
              /\ Advanced(call).i = call.i + 1 /\ Advanced(call).room = call.room
              /\ Advanced(call).what = call.what /\ Advanced(call).but = call.but
              /\ rest \in Seq(Calls)
  <1> DEFINE call == Head(stack)
             ms == members[call.room]
             rest == <<Advanced(call)>> \o Tail(stack)
  <1>1. /\ call \in Calls /\ call.room \in Rooms /\ call.i \in 1..(MaxSeats + 1)
        /\ call.what \in Frames /\ Tail(stack) \in Seq(Calls) /\ call.op = "live"
    BY OnTop, CallTypes
  <1>2. /\ Len(ms) \in Nat /\ Len(ms) <= MaxSeats /\ \A i \in 1..Len(ms) : ms[i] \in Clients
    BY <1>1, MembersTypes
  <1>3. ASSUME call.i <= Len(ms)
        PROVE  /\ call.i \in 1..Len(ms) /\ ms[call.i] \in Clients
               /\ Advanced(call) \in Calls /\ Advanced(call).op = "live"
               /\ Advanced(call).i = call.i + 1 /\ Advanced(call).room = call.room
               /\ Advanced(call).what = call.what /\ Advanced(call).but = call.but
               /\ rest \in Seq(Calls)
    <2> HIDE DEF call
    <2>1. call.i \in 1..Len(ms) /\ call.i <= MaxSeats
      BY <1>1, <1>2, <1>3, Constants
    <2>2. /\ Advanced(call) \in Calls /\ Advanced(call).op = "live"
          /\ Advanced(call).i = call.i + 1 /\ Advanced(call).room = call.room
          /\ Advanced(call).what = call.what /\ Advanced(call).but = call.but
      BY <1>1, <2>1, AdvancedType
    <2>3. rest \in Seq(Calls)
      BY <1>1, <2>2, Pushed
    <2> QED BY <1>2, <2>1, <2>2, <2>3
  <1> QED BY <1>1, <1>3

LEMMA LiveTypes ==
  ASSUME TypeInv, LiveStep
  PROVE  TypeInv'
  <1> DEFINE call == Head(stack)
             ms == members[call.room]
             rest == <<Advanced(call)>> \o Tail(stack)
  <1>1. stack # <<>> /\ call.op = "live"
    BY DEF LiveStep
  <1>2. /\ call.what \in Frames /\ Tail(stack) \in Seq(Calls)
        /\ call.i <= Len(ms) => ms[call.i] \in Clients /\ rest \in Seq(Calls)
    BY <1>1, LiveCall
  <1>3. CASE stack' \in Seq(Calls) /\ UNCHANGED <<tables, told>>
    <2>2. \A i \in DOMAIN stack' : stack'[i] \in Calls
      BY <1>3, StackTypes
    <2> QED BY <1>3, <2>2 DEF TypeInv, TypeOK, tables
  <1>4. CASE call.i <= Len(ms) /\ Send(ms[call.i], call.what, rest)
    BY <1>2, <1>4, SendTypes
  <1>5. Len(ms) \in Nat /\ call.i \in Nat
    BY <1>1, LiveCall, MembersTypes, Constants
  <1>6. \/ stack' = Tail(stack) /\ UNCHANGED <<tables, told>>
        \/ call.i <= Len(ms) /\ stack' = rest /\ UNCHANGED <<tables, told>>
        \/ call.i <= Len(ms) /\ Send(ms[call.i], call.what, rest)
    BY <1>5 DEF LiveStep
  <1> QED BY <1>2, <1>3, <1>4, <1>6

LEMMA SingleType ==
  ASSUME NEW c \in Clients
  PROVE  <<c>> \in Seated /\ Len(<<c>>) = 1 /\ <<c>>[1] = c
  <1> DEFINE s == <<c>>
  <1>1. s \in Seq(Clients) /\ Len(s) = 1 /\ s[1] = c
    OBVIOUS
  <1> HIDE DEF s
  <1>2. Len(s) <= MaxSeats
    BY <1>1, Constants
  <1>3. s \in Seated
    BY <1>1, <1>2, SeatedSeq
  <1> QED BY <1>1, <1>3 DEF s

LEMMA HelloTypes ==
  ASSUME TypeInv, HelloStep
  PROVE  TypeInv'
  <1> DEFINE call == Head(stack)
             c == call.client
  <1>1. stack # <<>> /\ call.op = "hello" /\ told' = told
    BY DEF HelloStep
  <1>2. c \in Clients /\ call.name \in Names /\ Tail(stack) \in Seq(Calls)
    BY <1>1, OnTop, CallTypes
  <1>3. CASE GivesUp(c)
    <2>1. stack' = Tail(stack) /\ UNCHANGED <<tables, told>>
      BY <1>3 DEF HelloStep
    <2>2. \A i \in DOMAIN Tail(stack) : Tail(stack)[i] \in Calls
      BY <1>2, StackTypes
    <2> QED BY <1>2, <2>1, <2>2 DEF TypeInv, TypeOK, tables
  <1>4. CASE ~GivesUp(c)
    <2>1. /\ byName' = Renamed(c, call.name)
          /\ count' = Identified(Renamed(c, call.name))
          /\ name' = [name EXCEPT ![c] = call.name]
          /\ stack' = <<Each(<<c>>, Other)>> \o Tail(stack)
          /\ UNCHANGED <<build, live, room, members, started>>
      BY <1>4 DEF HelloStep
    <2>2. Each(<<c>>, Other) \in Calls
      <3>1. <<c>> \in Seated
        BY <1>2, SingleType
      <3> QED BY <3>1, FrameTypes, CallsMade
    <2>3. stack' \in Seq(Calls)
      BY <1>2, <2>1, <2>2, Pushed
    <2>4. \A i \in DOMAIN stack' : stack'[i] \in Calls
      BY <2>3, StackTypes
    <2>5. count' \in 0..Cardinality(Names)
      BY <2>1, Counted
    <2>6. byName' \in [Names -> Clients \cup {None}]
      BY <1>2, <2>1 DEF Renamed, TypeInv, TypeOK
    <2> QED BY <1>1, <1>2, <2>1, <2>3, <2>4, <2>5, <2>6 DEF TypeInv, TypeOK
  <1> QED BY <1>3, <1>4

LEMMA JoinStepTypes ==
  ASSUME TypeInv, JoinStep
  PROVE  TypeInv'
  <1> DEFINE r == Head(stack).room
  <1>1. stack # <<>> /\ Head(stack).op = "join"
    BY DEF JoinStep
  <1>2. r \in Rooms /\ Tail(stack) \in Seq(Calls)
    BY <1>1, OnTop, CallTypes
  <1>3. CASE StartRoom(r, Tail(stack))
    BY <1>2, <1>3, StartTypes
  <1>4. CASE /\ stack' = Tail(stack) /\ count' = Identified(byName)
             /\ UNCHANGED <<build, live, name, byName, room, members, started, told>>
    <2>1. \A i \in DOMAIN Tail(stack) : Tail(stack)[i] \in Calls
      BY <1>2, StackTypes
    <2>2. count' \in 0..Cardinality(Names)
      BY <1>4, Counted
    <2> QED BY <1>2, <1>4, <2>1, <2>2 DEF TypeInv, TypeOK
  <1> QED BY <1>3, <1>4 DEF JoinStep

\* The list a JOIN leaves.
LEMMA JoinedList ==
  ASSUME TypeInv, NEW c \in Clients, NEW t \in Clients, NEW r \in Rooms,
         IF room[t] = NoRoom THEN members[r] = <<>> ELSE r = room[t],
         room[t] # NoRoom => Joinable(room[t])
  PROVE  LET ms == IF room[t] = NoRoom THEN <<t, c>> ELSE Append(members[r], c) IN
         /\ ms \in Seated
         /\ room[t] = NoRoom => Len(ms) = 2 /\ ms[1] = t /\ ms[2] = c
         /\ room[t] # NoRoom => /\ Len(ms) = Len(members[r]) + 1
                                /\ \A i \in 1..Len(members[r]) : ms[i] = members[r][i]
                                /\ ms[Len(ms)] = c
  <1>1. /\ members[r] \in Seq(Clients)
        /\ Len(members[r]) \in Nat /\ Len(members[r]) <= MaxSeats
    BY MembersTypes
  <1>2. CASE room[t] = NoRoom
    <2>1. <<t, c>> \in Seq(Clients) /\ Len(<<t, c>>) = 2 /\ <<t, c>>[1] = t /\ <<t, c>>[2] = c
      OBVIOUS
    <2>2. <<t, c>> \in Seated
      BY <2>1, SeatedSeq, Constants
    <2> QED BY <1>2, <2>1, <2>2
  <1>3. CASE room[t] # NoRoom
    <2> DEFINE ms == Append(members[r], c)
    <2>1. /\ ms \in Seq(Clients) /\ Len(ms) = Len(members[r]) + 1
          /\ \A i \in 1..Len(members[r]) : ms[i] = members[r][i]
          /\ ms[Len(members[r]) + 1] = c
      BY <1>1, AppendProperties
    <2>2. Len(members[r]) < MaxSeats
      BY <1>3 DEF Joinable
    <2> HIDE DEF ms
    <2>3. ms \in Seated
      BY <1>1, <2>1, <2>2, SeatedSeq, Constants
    <2> QED BY <1>3, <2>1, <2>3 DEF ms
  <1> QED BY <1>2, <1>3

LEMMA EventTypes ==
  ASSUME TypeInv, NEW c \in Clients
  PROVE  /\ Accept(c) => TypeInv'
         /\ Leave(c) => TypeInv'
         /\ (Query(c) \/ \E n \in Names : JoinRefused(c, n)) => TypeInv'
         /\ Go(c) => TypeInv'
         /\ RelayFrame(c) => TypeInv'
         /\ \A n \in Names : Hello(c, n) => TypeInv'
         /\ \A n \in Names : Join(c, n) => TypeInv'
  <1>0. <<>> \in Seq(Calls)
    BY EmptySeq
  <1>1. ASSUME NEW x \in Calls, stack' = <<x>>, UNCHANGED <<tables, told>>
        PROVE  TypeInv'
    <2>1. stack' \in Seq(Calls)
      BY <1>1
    <2>2. \A i \in DOMAIN stack' : stack'[i] \in Calls
      BY <2>1, StackTypes
    <2> QED BY <1>1, <2>1, <2>2 DEF TypeInv, TypeOK, tables
  <1>2. ASSUME Accept(c) PROVE TypeInv'
    BY <1>2, FrameTypes DEF Accept, TypeInv, TypeOK
  <1>3. ASSUME Leave(c) PROVE TypeInv'
    BY <1>0, <1>3, DropTypes DEF Leave
  <1>4. ASSUME Query(c) \/ \E n \in Names : JoinRefused(c, n) PROVE TypeInv'
    <2>2. <<c>> \in Seated
      BY SingleType
    <2>3. Each(<<c>>, Other) \in Calls
      BY <2>2, FrameTypes, CallsMade
    <2>4. stack' = <<Each(<<c>>, Other)>> /\ UNCHANGED <<tables, told>>
      BY <1>4 DEF Query, JoinRefused
    <2> QED BY <1>1, <2>3, <2>4
  <1>5. ASSUME Go(c) PROVE TypeInv'
    <2>1. room[c] \in Rooms /\ StartRoom(room[c], <<>>)
      BY <1>5 DEF Go, TypeInv, TypeOK
    <2> QED BY <1>0, <2>1, StartTypes
  <1>6. ASSUME RelayFrame(c) PROVE TypeInv'
    <2>1. room[c] \in Rooms
      BY <1>6 DEF RelayFrame, TypeInv, TypeOK
    <2>2. ToMembers(room[c], members[room[c]], Other, c) \in Calls
      BY <2>1, MembersTypes, FrameTypes, LoopType
    <2>3. stack' = <<ToMembers(room[c], members[room[c]], Other, c)>> /\ UNCHANGED <<tables, told>>
      BY <1>6 DEF RelayFrame
    <2> QED BY <1>1, <2>2, <2>3
  <1>7. ASSUME NEW n \in Names, Hello(c, n) PROVE TypeInv'
    <2>1. RestOfHello(c, n) \in Calls
      BY CallsMade
    <2>2. CASE byName[n] \notin {None, c}
      <3>1. byName[n] \in Clients /\ Drop(byName[n], <<RestOfHello(c, n)>>)
        BY <1>7, <2>2 DEF Hello, TypeInv, TypeOK
      <3>2. <<RestOfHello(c, n)>> \in Seq(Calls)
        BY <2>1
      <3> QED BY <3>1, <3>2, DropTypes
    <2>3. CASE byName[n] \in {None, c}
      <3>1. stack' = <<RestOfHello(c, n)>> /\ UNCHANGED <<tables, told>>
        BY <1>7, <2>3 DEF Hello
      <3> QED BY <1>1, <2>1, <3>1
    <2> QED BY <2>2, <2>3
  <1>8. ASSUME NEW n \in Names, Join(c, n) PROVE TypeInv'
    <2> DEFINE t == byName[n]
               list(r) == IF room[t] = NoRoom THEN <<t, c>> ELSE Append(members[r], c)
    <2>1. t \in Clients /\ (room[t] # NoRoom => Joinable(room[t]))
      BY <1>8 DEF Join, Unavailable, TypeInv, TypeOK
    <2>2. PICK r \in Rooms :
            /\ IF room[t] = NoRoom THEN members[r] = <<>> ELSE r = room[t]
            /\ members' = [members EXCEPT ![r] = list(r)]
            /\ room' = [room EXCEPT ![t] = r, ![c] = r]
            /\ stack' = <<ToMembers(r, list(r), RoomFrame(list(r)), None), RestOfJoin(r)>>
      BY <1>8 DEF Join
    <2>3. list(r) \in Seated
      BY <2>1, <2>2, JoinedList
    <2> HIDE DEF list
    <2>4. ToMembers(r, list(r), RoomFrame(list(r)), None) \in Calls /\ RestOfJoin(r) \in Calls
      BY <2>3, FrameTypes, LoopType, CallsMade
    <2>5. stack' \in Seq(Calls)
      BY <2>2, <2>4
    <2>6. \A i \in DOMAIN stack' : stack'[i] \in Calls
      BY <2>5, StackTypes
    <2>7. /\ UNCHANGED <<build, live, name, byName, started, count, told>>
      BY <1>8 DEF Join
    <2> QED BY <2>1, <2>2, <2>3, <2>5, <2>6, <2>7 DEF TypeInv, TypeOK
  <1> QED BY <1>2, <1>3, <1>4, <1>5, <1>6, <1>7, <1>8

LEMMA TypeStep ==
  ASSUME TypeInv, [Next]_vars
  PROVE  TypeInv'
  <1>1. CASE Event
    BY <1>1, EventTypes DEF Event
  <1>2. CASE Step
    BY <1>2, EachTypes, LiveTypes, HelloTypes, JoinStepTypes DEF Step
  <1>3. CASE UNCHANGED vars
    BY <1>3 DEF vars, tables, TypeInv, TypeOK
  <1> QED BY <1>1, <1>2, <1>3 DEF Next

LEMMA TypeInit ==
  ASSUME Init
  PROVE  TypeInv
  <1>1. <<>> \in Seq(Calls) /\ <<>> \in Seated
    BY EmptySeq, FrameTypes DEF Frames, Dissolved, RoomFrame
  <1>2. \A i \in DOMAIN stack : stack[i] \in Calls
    BY <1>1, StackTypes DEF Init
  <1>3. 0 \in 0..Cardinality(Names)
    BY Constants, FS_CardinalityType
  <1> QED BY <1>1, <1>2, <1>3, FrameTypes DEF Init, TypeInv, TypeOK

(***************************************************************************)
(* Every table of the relay keeps its type, whatever sends fail: a list of *)
(* members never outgrows MaxSeats, and the index of a loop over a list    *)
(* that drop() shortens under it runs at most one past the end.            *)
(***************************************************************************)
THEOREM TypeCorrect == Spec => []TypeOK
  <1>1. Init => TypeInv
    BY TypeInit
  <1>2. TypeInv /\ [Next]_vars => TypeInv'
    BY TypeStep
  <1>3. TypeInv => TypeOK
    BY DEF TypeInv
  <1> QED BY <1>1, <1>2, <1>3, PTL DEF Spec

-----------------------------------------------------------------------------
(* The tables agree.                                                       *)

LEMMA StackTail ==
  ASSUME NEW st \in Seq(Calls), st # <<>>, NEW dir, NEW impl, NEW lv, NEW nm
  PROVE  /\ HelloFits(st, dir, impl, lv, nm) => HelloFits(Tail(st), dir, impl, lv, nm)
         /\ Outermost(st) => Outermost(Tail(st))
  <1> DEFINE tl == Tail(st)
  <1>1. /\ Len(st) \in Nat /\ Len(st) >= 1 /\ Len(tl) = Len(st) - 1
        /\ \A k \in 1..Len(tl) : tl[k] = st[k + 1]
    BY HeadTailProperties, EmptySeq, LenProperties
  <1> HIDE DEF tl
  <1>2. \A k \in 1..Len(tl) : k + 1 \in 1..Len(st)
    BY <1>1
  <1>3. ASSUME HelloFits(st, dir, impl, lv, nm) PROVE HelloFits(tl, dir, impl, lv, nm)
    BY <1>1, <1>2, <1>3 DEF HelloFits
  <1>4. ASSUME Outermost(st) PROVE Outermost(tl)
    BY <1>1, <1>2, <1>4 DEF Outermost
  <1> QED BY <1>3, <1>4 DEF tl

LEMMA StackPush ==
  ASSUME NEW x \in Calls, NEW st \in Seq(Calls), x.op \in {"each", "live"},
         NEW dir, NEW impl, NEW lv, NEW nm
  PROVE  /\ (/\ HelloFits(st, dir, impl, lv, nm)
             /\ (impl = "python" /\ x.op = "each") =>
                  \A k \in 1..Len(st) : st[k].op = "hello" => ~Has(x.to, st[k].client))
              => HelloFits(<<x>> \o st, dir, impl, lv, nm)
         /\ Outermost(st) => Outermost(<<x>> \o st)
  <1> DEFINE up == <<x>> \o st
  <1>1. /\ Len(up) = Len(st) + 1 /\ Len(st) \in Nat
        /\ \A k \in 1..(Len(st) + 1) : up[k] = IF k = 1 THEN x ELSE st[k - 1]
    BY Pushed
  <1> HIDE DEF up
  <1>2. \A k \in 1..Len(up) : \/ k = 1 /\ up[k] = x
                              \/ k - 1 \in 1..Len(st) /\ up[k] = st[k - 1]
    BY <1>1
  <1>3. ASSUME HelloFits(st, dir, impl, lv, nm),
               (impl = "python" /\ x.op = "each") =>
                  \A k \in 1..Len(st) : st[k].op = "hello" => ~Has(x.to, st[k].client)
        PROVE  HelloFits(up, dir, impl, lv, nm)
    BY <1>2, <1>3 DEF HelloFits
  <1>4. ASSUME Outermost(st) PROVE Outermost(up)
    BY <1>1, <1>2, <1>4 DEF Outermost
  <1> QED BY <1>3, <1>4 DEF up

LEMMA LoopKind ==
  ASSUME NEW r, NEW ms, NEW what, NEW but
  PROVE  /\ ToMembers(r, ms, what, but).op \in {"each", "live"}
         /\ build.impl = "python" => ToMembers(r, ms, what, but) = Live(r, 1, what, but)
         /\ build.impl = "python" => ToMembers(r, ms, what, but).op = "live"
  BY DEF ToMembers, SnapshotLoop, LiveLoop, Each, Live

\* What the tables say between the steps of a cascade, the stack aside.
Agreed == TypeInv /\ NamesAgree /\ RoomsAgree /\ count = Identified(byName)

LEMMA DropRooms ==
  ASSUME Agreed, NEW m \in live, NEW rest \in Seq(Calls), Drop(m, rest)
  PROVE  RoomsAgree'
  <1> DEFINE r == room[m]
             left == Without(members[r], m)
  <1>1. m \in Clients /\ live' = live \ {m} /\ name' = name
    BY DEF Agreed, TypeInv, TypeOK, Drop
  <1>2. /\ room \in [Clients -> Rooms \cup {NoRoom}] /\ members \in [Rooms -> Seated]
        /\ started \in [Rooms -> BOOLEAN]
    BY DEF Agreed, TypeInv, TypeOK
  <1>3. RoomsAgree
    BY DEF Agreed
  <1>4. \A q \in Rooms : \A i \in 1..Len(members[q]) : members[q][i] \in Clients
    BY MembersTypes DEF Agreed
  <1>5. CASE r = NoRoom
    <2>1. UNCHANGED <<room, members, started>>
      BY <1>5 DEF Drop
    <2>2. \A q \in Rooms : \A i \in 1..Len(members[q]) : members[q][i] # m
      BY <1>3, <1>5, Constants DEF RoomsAgree
    <2> QED BY <1>1, <1>3, <2>1, <2>2 DEF RoomsAgree
  <1>6. CASE r # NoRoom /\ EndsRoom(r, m)
    <2>1. /\ room' = [x \in Clients |-> IF room[x] = r THEN NoRoom ELSE room[x]]
          /\ members' = [members EXCEPT ![r] = <<>>]
          /\ started' = [started EXCEPT ![r] = FALSE]
      BY <1>6 DEF Drop
    <2>2. r \in Rooms
      BY <1>1, <1>2, <1>6
    <2>3. Len(<<>>) = 0
      BY EmptySeq
    <2>4. /\ members'[r] = <<>> /\ ~started'[r]
          /\ \A q \in Rooms : q # r => members'[q] = members[q] /\ started'[q] = started[q]
      BY <1>2, <2>1, <2>2
    <2>5. \A q \in Rooms : q # r => \A i \in 1..Len(members[q]) :
            members[q][i] \in live' /\ room'[members[q][i]] = q
      BY <1>1, <1>3, <1>4, <2>1 DEF RoomsAgree
    <2>6. \A c \in Clients : room'[c] # NoRoom =>
            Has(members'[room'[c]], c) /\ name[c] # None
      BY <1>2, <1>3, <2>1, <2>4 DEF RoomsAgree
    <2>7. \A q \in Rooms : members'[q] # <<>> => Len(members'[q]) >= 2
      BY <1>3, <2>4 DEF RoomsAgree
    <2>8. \A q \in Rooms : members'[q] = <<>> => ~started'[q]
      BY <1>3, <2>4 DEF RoomsAgree
    <2>9. \A q \in Rooms : \A i, j \in 1..Len(members'[q]) :
            members'[q][i] = members'[q][j] => i = j
      BY <1>3, <2>3, <2>4 DEF RoomsAgree
    <2>10. \A q \in Rooms : \A i \in 1..Len(members'[q]) :
            members'[q][i] \in live' /\ room'[members'[q][i]] = q
      BY <2>3, <2>4, <2>5
    <2> QED BY <1>1, <2>6, <2>7, <2>8, <2>9, <2>10 DEF RoomsAgree
  <1>7. CASE r # NoRoom /\ ~EndsRoom(r, m)
    <2>1. /\ room' = [room EXCEPT ![m] = NoRoom]
          /\ members' = [members EXCEPT ![r] = left]
          /\ started' = started
      BY <1>7 DEF Drop
    <2>2. r \in Rooms /\ Has(members[r], m) /\ ~started[r]
      BY <1>1, <1>2, <1>3, <1>7 DEF RoomsAgree, EndsRoom
    <2>3. Distinct(members[r])
      BY <1>3, <2>2 DEF RoomsAgree, Distinct
    <2>4. members[r] \in Seq(Clients)
      BY <2>2, MembersTypes DEF Agreed
    <2>5. /\ left \in Seq(Clients) /\ Len(left) = Len(members[r]) - 1
          /\ \A x : Has(left, x) => Has(members[r], x)
          /\ \A x : Has(members[r], x) /\ x # m => Has(left, x)
          /\ Distinct(left) /\ ~Has(left, m)
      BY <2>2, <2>3, <2>4, Removed
    <2>6. Len(left) \in Nat /\ Len(left) >= 2
      BY <1>7, <2>5, LenProperties DEF EndsRoom
    <2> HIDE DEF left
    <2>7. /\ members'[r] = left /\ left # <<>>
          /\ \A q \in Rooms : q # r => members'[q] = members[q]
      <3>1. Len(<<>>) = 0
        BY EmptySeq
      <3> QED BY <1>2, <2>1, <2>2, <2>6, <3>1
    <2>8. \A q \in Rooms : members'[q] # <<>> => Len(members'[q]) >= 2
      BY <1>3, <2>6, <2>7 DEF RoomsAgree
    <2>9. \A q \in Rooms : members'[q] = <<>> => ~started'[q]
      BY <1>3, <2>1, <2>2, <2>7 DEF RoomsAgree
    <2>10. \A q \in Rooms : \A i, j \in 1..Len(members'[q]) :
            members'[q][i] = members'[q][j] => i = j
      BY SMTT(30), <1>3, <2>5, <2>7 DEF RoomsAgree, Distinct
    <2>11. \A q \in Rooms : \A i \in 1..Len(members'[q]) :
            members'[q][i] \in live' /\ room'[members'[q][i]] = q
      <3> SUFFICES ASSUME NEW q \in Rooms, NEW i \in 1..Len(members'[q])
                   PROVE  members'[q][i] \in live' /\ room'[members'[q][i]] = q
        OBVIOUS
      <3> DEFINE x == members'[q][i]
      <3>1. Has(members[q], x) /\ x # m
        <4>1. CASE q = r
          BY <2>5, <2>7, <4>1 DEF Has
        <4>2. CASE q # r
          <5>1. x = members[q][i] /\ i \in 1..Len(members[q])
            BY <2>7, <4>2
          <5>2. room[x] = q
            BY <1>3, <5>1 DEF RoomsAgree
          <5> QED BY <4>2, <5>1, <5>2 DEF Has
        <4> QED BY <4>1, <4>2
      <3>2. PICK j \in 1..Len(members[q]) : members[q][j] = x
        BY <3>1 DEF Has
      <3>3. x \in live /\ room[x] = q /\ x \in Clients
        BY <1>3, <1>4, <3>2 DEF RoomsAgree
      <3> HIDE DEF x
      <3>4. x \in live' /\ room'[x] = q
        BY <1>1, <1>2, <2>1, <3>1, <3>3
      <3> QED BY <3>4 DEF x
    <2>12. \A c \in Clients : room'[c] # NoRoom =>
            Has(members'[room'[c]], c) /\ name[c] # None
      <3> SUFFICES ASSUME NEW c \in Clients, room'[c] # NoRoom
                   PROVE  Has(members'[room'[c]], c) /\ name[c] # None
        OBVIOUS
      <3>1. c # m /\ room'[c] = room[c] /\ room[c] \in Rooms
        BY <1>1, <1>2, <2>1
      <3>2. Has(members[room[c]], c) /\ name[c] # None
        BY <1>3, <3>1 DEF RoomsAgree
      <3> QED BY <2>5, <2>7, <3>1, <3>2
    <2> QED BY <1>1, <2>8, <2>9, <2>10, <2>11, <2>12 DEF RoomsAgree
  <1> QED BY <1>5, <1>6, <1>7

\* What a drop leaves on top of what was in progress.
LEMMA DropPushes ==
  ASSUME TypeInv, NEW m \in Clients, NEW rest \in Seq(Calls), Drop(m, rest)
  PROVE  LET r == room[m]
             left == Without(members[r], m) IN
         \/ r = NoRoom /\ stack' = rest
         \/ /\ r \in Rooms /\ EndsRoom(r, m)
            /\ Each(left, Farewell(r)) \in Calls /\ left \in Seated
            /\ stack' = <<Each(left, Farewell(r))>> \o rest
         \/ /\ r \in Rooms /\ ~EndsRoom(r, m)
            /\ ToMembers(r, left, RoomFrame(left), None) \in Calls /\ left \in Seated
            /\ stack' = <<ToMembers(r, left, RoomFrame(left), None)>> \o rest
  <1> DEFINE r == room[m]
             left == Without(members[r], m)
  <1>1. r \in Rooms \cup {NoRoom} /\ (r # NoRoom => members[r] \in Seated)
    BY DEF TypeInv, TypeOK
  <1>2. r # NoRoom => left \in Seated
    BY <1>1, WithoutSeated
  <1>3. Farewell(r) \in Frames
    BY FrameTypes DEF Farewell
  <1>4. r # NoRoom => Each(left, Farewell(r)) \in Calls
    BY <1>2, <1>3, CallsMade
  <1>5. r # NoRoom => ToMembers(r, left, RoomFrame(left), None) \in Calls
    BY <1>1, <1>2, FrameTypes, LoopType
  <1> QED BY <1>1, <1>2, <1>4, <1>5 DEF Drop

\* Those who stay behind were members of the room, so they have a name.
LEMMA LeftOf ==
  ASSUME Agreed, NEW r \in Rooms, NEW m, NEW x \in Clients, Has(Without(members[r], m), x)
  PROVE  Has(members[r], x) /\ room[x] = r /\ x \in live /\ name[x] # None
  <1>1. members[r] \in Seq(Clients)
    BY MembersTypes DEF Agreed
  <1>2. Has(members[r], x)
    BY <1>1, Removed, Untouched
  <1>3. PICK i \in 1..Len(members[r]) : members[r][i] = x
    BY <1>2 DEF Has
  <1>4. room[x] = r /\ x \in live
    BY <1>3 DEF Agreed, RoomsAgree
  <1>5. r # NoRoom
    BY Constants
  <1>6. name[x] # None
    BY <1>4, <1>5 DEF Agreed, RoomsAgree
  <1> QED BY <1>2, <1>4, <1>6

LEMMA DropTables ==
  ASSUME Agreed, NEW m \in live, NEW rest \in Seq(Calls), Drop(m, rest),
         HelloFits(rest, Unnamed(m), build.impl, live \ {m}, name), Outermost(rest)
  PROVE  TablesInv'
  <1> DEFINE r == room[m]
             left == Without(members[r], m)
  <1>1. m \in Clients /\ m # None
    BY Constants DEF Agreed, TypeInv, TypeOK
  <1>2. TypeInv' /\ TypeInv
    BY <1>1, DropTypes DEF Agreed
  <1>3. RoomsAgree'
    BY DropRooms
  <1>4. live' = live \ {m} /\ byName' = Unnamed(m) /\ count' = Republished(Unnamed(m))
        /\ name' = name /\ build' = build
    BY DEF Drop
  <1>5. NamesAgree'
    <2>1. NamesAgree /\ byName \in [Names -> Clients \cup {None}]
          /\ name \in [Clients -> Names \cup {None}] /\ live \subseteq Clients
      BY DEF Agreed, TypeInv, TypeOK
    <2>2. \A n \in Names : byName'[n] = IF byName[n] = m THEN None ELSE byName[n]
      BY <1>4 DEF Unnamed
    <2> QED BY <1>1, <1>4, <2>1, <2>2 DEF NamesAgree
  <1>6. count' = Identified(byName)'
    <2>1. count = Identified(byName)
      BY DEF Agreed
    <2>2. Republished(Unnamed(m)) = Identified(Unnamed(m))
      BY <2>1 DEF Republished
    <2> QED BY <1>4, <2>2 DEF Identified
  <1>7. Outermost(stack)' /\ HelloSound(stack)'
    <2>1. HelloSound(stack)' <=> HelloFits(stack', Unnamed(m), build.impl, live \ {m}, name)
      BY <1>4 DEF HelloSound
    <2>2. Outermost(stack)' <=> Outermost(stack')
      BY DEF Outermost
    <2>3. Len(rest) \in Nat /\ \A k \in 1..Len(rest) : rest[k] \in Calls
      BY LenProperties, ElementOfSeq
    <2>4. \A k \in 1..Len(rest) : (build.impl = "python" /\ rest[k].op = "hello") =>
            rest[k].client \in Clients /\ name[rest[k].client] = None
      BY <2>3, CallTypes DEF HelloFits
    <2> DEFINE x == Each(left, Farewell(r))
               y == ToMembers(r, left, RoomFrame(left), None)
    <2>5. CASE stack' = rest
      BY <2>1, <2>2, <2>5
    <2>6. CASE r \in Rooms /\ x \in Calls /\ stack' = <<x>> \o rest
      <3>1. x.op = "each" /\ x.to = left
        BY DEF Each
      <3>2. build.impl = "python" =>
              \A k \in 1..Len(rest) : rest[k].op = "hello" => ~Has(x.to, rest[k].client)
        <4>1. \A z \in Clients : Has(left, z) => name[z] # None
          BY ZenonT(30), <2>6, LeftOf
        <4> QED BY <2>4, <3>1, <4>1
      <3> HIDE DEF x
      <3>3. Outermost(<<x>> \o rest) /\ HelloFits(<<x>> \o rest, Unnamed(m), build.impl, live \ {m}, name)
        BY <2>6, <3>1, <3>2, StackPush
      <3> QED BY <2>1, <2>2, <2>6, <3>3
    <2>7. CASE y \in Calls /\ stack' = <<y>> \o rest
      <3>1. y.op \in {"each", "live"} /\ (build.impl = "python" => y.op = "live")
        BY LoopKind
      <3> HIDE DEF y
      <3>2. Outermost(<<y>> \o rest) /\ HelloFits(<<y>> \o rest, Unnamed(m), build.impl, live \ {m}, name)
        BY <2>7, <3>1, StackPush
      <3> QED BY <2>1, <2>2, <2>7, <3>2
    <2> QED BY <1>1, <1>2, <2>5, <2>6, <2>7, DropPushes
  <1> QED BY <1>2, <1>3, <1>5, <1>6, <1>7 DEF TablesInv

\* Nothing of what is in progress waits for m: then it may be dropped.
LEMMA DropMayInterrupt ==
  ASSUME TypeInv, NEW m \in Clients, NEW rest \in Seq(Calls), HelloSound(rest),
         build.impl = "python" =>
           \A k \in 1..Len(rest) : rest[k].op = "hello" => rest[k].client # m
  PROVE  HelloFits(rest, Unnamed(m), build.impl, live \ {m}, name)
  <1>1. \A k \in 1..Len(rest) : rest[k] \in Calls
    BY ElementOfSeq
  <1>2. \A k \in 1..Len(rest) : rest[k].op = "hello" => rest[k].name \in Names
    BY <1>1, CallTypes
  <1>3. \A n \in Names : Unnamed(m)[n] \in {None, byName[n]}
    BY DEF Unnamed
  <1> QED BY <1>2, <1>3 DEF HelloSound, HelloFits

LEMMA SendTables ==
  ASSUME Agreed, NEW m \in Clients, NEW what \in Frames, NEW rest \in Seq(Calls),
         Send(m, what, rest), HelloSound(rest), Outermost(rest),
         build.impl = "python" =>
           \A k \in 1..Len(rest) : rest[k].op = "hello" => rest[k].client # m
  PROVE  TablesInv'
  <1>1. CASE m \in live /\ Drop(m, rest)
    <2>1. HelloFits(rest, Unnamed(m), build.impl, live \ {m}, name)
      BY DropMayInterrupt DEF Agreed
    <2> QED BY <1>1, <2>1, DropTables
  <1>2. CASE stack' = rest /\ UNCHANGED tables
    <2>1. TypeInv'
      BY SendTypes DEF Agreed
    <2>2. HelloSound(stack)' /\ Outermost(stack)'
      BY <1>2 DEF HelloSound, Outermost, tables
    <2>3. NamesAgree' /\ RoomsAgree' /\ count' = Identified(byName)'
      BY <1>2 DEF tables, Agreed, NamesAgree, RoomsAgree, Identified
    <2> QED BY <2>1, <2>2, <2>3 DEF TablesInv
  <1> QED BY <1>1, <1>2 DEF Send

LEMMA TablesAgreed ==
  ASSUME TablesInv
  PROVE  Agreed /\ TypeInv /\ HelloSound(stack) /\ Outermost(stack)
  BY DEF TablesInv, Agreed

\* Only what is in progress changes.
LEMMA OnlyStack ==
  ASSUME TablesInv, TypeInv', UNCHANGED tables,
         HelloSound(stack'), Outermost(stack')
  PROVE  TablesInv'
  <1>1. HelloSound(stack)' /\ Outermost(stack)'
    BY DEF HelloSound, Outermost, tables
  <1>2. NamesAgree' /\ RoomsAgree' /\ count' = Identified(byName)'
    BY DEF tables, TablesInv, NamesAgree, RoomsAgree, Identified
  <1> QED BY <1>1, <1>2 DEF TablesInv

LEMMA EachTables ==
  ASSUME TablesInv, EachStep
  PROVE  TablesInv'
  <1> DEFINE call == Head(stack)
             tl == Tail(stack)
  <1>1. stack # <<>> /\ call.op = "each" /\ stack \in Seq(Calls)
    BY DEF EachStep, TablesInv, TypeInv
  <1>2. /\ call.to \in Seated /\ call.what \in Frames /\ tl \in Seq(Calls)
        /\ call = stack[1] /\ Len(stack) \in Nat /\ Len(stack) >= 1
        /\ Len(tl) = Len(stack) - 1
        /\ \A k \in 1..Len(tl) : tl[k] = stack[k + 1]
    BY <1>1, OnTop, CallTypes DEF TablesInv
  <1>3. HelloSound(tl) /\ Outermost(tl)
    BY <1>1, TablesAgreed, StackTail DEF HelloSound
  <1>4. TypeInv'
    BY TablesAgreed, EachTypes
  <1>5. CASE call.to = <<>>
    <2>1. stack' = tl /\ UNCHANGED tables
      BY <1>5 DEF EachStep
    <2> QED BY <1>3, <1>4, <2>1, OnlyStack
  <1>6. CASE call.to # <<>>
    <2> DEFINE x == Each(Tail(call.to), call.what)
    <2>1. /\ Head(call.to) \in Clients /\ Tail(call.to) \in Seated
          /\ Head(call.to) = call.to[1]
          /\ Len(call.to) \in Nat /\ Len(call.to) >= 1 /\ Len(Tail(call.to)) = Len(call.to) - 1
          /\ \A i \in 1..Len(Tail(call.to)) : Tail(call.to)[i] = call.to[i + 1]
      BY <1>2, <1>6, ListType
    <2>2. x \in Calls /\ x.op = "each" /\ x.to = Tail(call.to)
      BY <1>2, <2>1, CallsMade DEF Each
    <2>3. Send(Head(call.to), call.what, <<x>> \o tl)
      BY <1>6 DEF EachStep
    <2>4. Has(call.to, Head(call.to)) /\ \A z : Has(Tail(call.to), z) => Has(call.to, z)
      BY <2>1 DEF Has
    <2>5. build.impl = "python" =>
            \A k \in 1..Len(tl) : tl[k].op = "hello" => ~Has(call.to, tl[k].client)
      <3>1. \A k \in 1..Len(tl) : k + 1 \in 1..Len(stack)
        BY <1>2
      <3>2. 1 \in 1..Len(stack)
        BY <1>2
      <3>3. HelloSound(stack)
        BY TablesAgreed
      <3> HIDE DEF tl, call
      <3> QED BY <1>1, <1>2, <3>1, <3>2, <3>3 DEF HelloSound, HelloFits
    <2> HIDE DEF x
    <2>6. /\ <<x>> \o tl \in Seq(Calls)
          /\ \A k \in 1..Len(<<x>> \o tl) :
               \/ (<<x>> \o tl)[k] = x
               \/ \E l \in 1..Len(tl) : (<<x>> \o tl)[k] = tl[l]
      <3> HIDE DEF tl
      <3>1. /\ <<x>> \o tl \in Seq(Calls) /\ Len(<<x>> \o tl) = Len(tl) + 1 /\ Len(tl) \in Nat
            /\ \A k \in 1..(Len(tl) + 1) : (<<x>> \o tl)[k] = IF k = 1 THEN x ELSE tl[k - 1]
        BY <1>2, <2>2, Pushed
      <3>2. \A k \in 1..(Len(tl) + 1) : k # 1 => k - 1 \in 1..Len(tl)
        BY <3>1
      <3> QED BY <3>1, <3>2
    <2>7. HelloSound(<<x>> \o tl) /\ Outermost(<<x>> \o tl)
      BY <1>2, <1>3, <2>2, <2>4, <2>5, StackPush DEF HelloSound
    <2>8. build.impl = "python" =>
            \A k \in 1..Len(<<x>> \o tl) : (<<x>> \o tl)[k].op = "hello" =>
              (<<x>> \o tl)[k].client # Head(call.to)
      BY <2>2, <2>4, <2>5, <2>6
    <2> QED BY <1>2, <2>1, <2>3, <2>6, <2>7, <2>8, TablesAgreed, SendTables
  <1> QED BY <1>5, <1>6

LEMMA LiveTables ==
  ASSUME TablesInv, LiveStep
  PROVE  TablesInv'
  <1> DEFINE call == Head(stack)
             tl == Tail(stack)
             ms == members[call.room]
             x == Advanced(call)
  <1>1. stack # <<>> /\ call.op = "live" /\ stack \in Seq(Calls)
    BY DEF LiveStep, TablesInv, TypeInv
  <1>2. /\ call.room \in Rooms /\ call.i \in 1..(MaxSeats + 1)
        /\ call.what \in Frames /\ tl \in Seq(Calls)
        /\ call.i <= Len(ms) =>
              /\ call.i \in 1..Len(ms) /\ ms[call.i] \in Clients
              /\ x \in Calls /\ x.op = "live"
              /\ <<x>> \o tl \in Seq(Calls)
    BY <1>1, LiveCall, TablesAgreed
  <1>3. HelloSound(tl) /\ Outermost(tl)
    BY <1>1, TablesAgreed, StackTail DEF HelloSound
  <1>4. TypeInv'
    BY TablesAgreed, LiveTypes
  <1>5. call.i <= Len(ms) => HelloSound(<<x>> \o tl) /\ Outermost(<<x>> \o tl)
    BY <1>2, <1>3, StackPush DEF HelloSound
  <1>6. CASE (stack' = tl \/ (call.i <= Len(ms) /\ stack' = <<x>> \o tl)) /\ UNCHANGED tables
    <2>1. HelloSound(stack') /\ Outermost(stack')
      BY <1>3, <1>5, <1>6
    <2> QED BY <1>4, <1>6, <2>1, OnlyStack
  <1>7. CASE call.i <= Len(ms) /\ Send(ms[call.i], call.what, <<x>> \o tl)
    <2> DEFINE m == ms[call.i]
    <2>1. m \in Clients /\ m \in live /\ room[m] = call.room
      BY <1>2, <1>7, TablesAgreed DEF Agreed, RoomsAgree
    <2>2. name[m] # None
      <3>1. room[m] # NoRoom
        BY <1>2, <2>1, Constants
      <3> QED BY <2>1, <3>1, TablesAgreed DEF Agreed, RoomsAgree
    <2> DEFINE rest == <<x>> \o tl
    <2> HIDE DEF m, rest
    <2>3. HelloSound(rest)
      BY <1>5, <1>7 DEF rest
    <2>4. build.impl = "python" =>
            \A k \in 1..Len(rest) : rest[k].op = "hello" => rest[k].client # m
      BY <2>2, <2>3 DEF HelloSound, HelloFits
    <2>5. Send(m, call.what, rest) /\ rest \in Seq(Calls) /\ Outermost(rest)
      BY <1>2, <1>5, <1>7 DEF m, rest
    <2> QED BY <1>2, <2>1, <2>3, <2>4, <2>5, TablesAgreed, SendTables
  <1>8. Len(ms) \in Nat /\ call.i \in Nat
    BY <1>2, MembersTypes, Constants, TablesAgreed
  <1> QED BY <1>6, <1>7, <1>8 DEF LiveStep

\* HELLO and JOIN have nothing beneath them.
LEMMA Alone ==
  ASSUME TablesInv, stack # <<>>, Head(stack).op \in {"hello", "join"}
  PROVE  Len(stack) = 1 /\ Tail(stack) = <<>> /\ Tail(stack) \in Seq(Calls)
  <1>1. /\ Len(stack) \in Nat /\ Len(stack) >= 1 /\ Head(stack) = stack[1]
        /\ Tail(stack) \in Seq(Calls) /\ Len(Tail(stack)) = Len(stack) - 1
    BY OnTop, TablesAgreed
  <1>2. 1 \in 1..Len(stack)
    BY <1>1
  <1>3. Len(stack) = 1
    BY <1>1, <1>2, TablesAgreed DEF Outermost
  <1>4. Len(Tail(stack)) = 0
    BY <1>1, <1>3
  <1> QED BY <1>1, <1>3, <1>4, EmptySeq

\* Stacks with no HELLO in progress.
LEMMA NoCall ==
  ASSUME NEW dir, NEW impl, NEW lv, NEW nm
  PROVE  HelloFits(<<>>, dir, impl, lv, nm) /\ Outermost(<<>>)
  BY EmptySeq DEF HelloFits, Outermost

LEMMA OneCall ==
  ASSUME NEW x, x.op \in {"each", "live"}, NEW dir, NEW impl, NEW lv, NEW nm
  PROVE  HelloFits(<<x>>, dir, impl, lv, nm) /\ Outermost(<<x>>)
  <1> DEFINE s == <<x>>
  <1>1. Len(s) = 1 /\ s[1] = x
    OBVIOUS
  <1> HIDE DEF s
  <1>2. \A k \in 1..Len(s) : s[k] = x
    BY <1>1
  <1>3. HelloFits(s, dir, impl, lv, nm) /\ Outermost(s)
    BY <1>2 DEF HelloFits, Outermost
  <1> QED BY <1>3 DEF s

LEMMA TwoCalls ==
  ASSUME NEW x, NEW y, x.op \in {"each", "live"}, y.op = "join",
         NEW dir, NEW impl, NEW lv, NEW nm
  PROVE  HelloFits(<<x, y>>, dir, impl, lv, nm) /\ Outermost(<<x, y>>)
  <1> DEFINE s == <<x, y>>
  <1>1. Len(s) = 2 /\ s[1] = x /\ s[2] = y
    OBVIOUS
  <1> HIDE DEF s
  <1>2. \A k \in 1..Len(s) : s[k] = x \/ (k = Len(s) /\ s[k] = y)
    BY <1>1
  <1>3. HelloFits(s, dir, impl, lv, nm) /\ Outermost(s)
    BY <1>2 DEF HelloFits, Outermost
  <1> QED BY <1>3 DEF s

LEMMA HelloTables ==
  ASSUME TablesInv, HelloStep
  PROVE  TablesInv'
  <1> DEFINE call == Head(stack)
             c == call.client
             n == call.name
  <1>1. stack # <<>> /\ call.op = "hello"
    BY DEF HelloStep
  <1>2. c \in Clients /\ n \in Names /\ Len(stack) = 1 /\ Tail(stack) = <<>> /\ call = stack[1]
    BY <1>1, OnTop, CallTypes, Alone, TablesAgreed
  <1>3. TypeInv'
    BY HelloTypes, TablesAgreed
  <1>4. CASE GivesUp(c)
    <2>1. stack' = <<>> /\ UNCHANGED tables
      BY <1>2, <1>4 DEF HelloStep
    <2>2. HelloSound(stack') /\ Outermost(stack')
      BY <2>1, NoCall DEF HelloSound
    <2> QED BY <1>3, <2>1, <2>2, OnlyStack
  <1>5. CASE ~GivesUp(c)
    <2>1. /\ byName' = Renamed(c, n)
          /\ count' = Identified(Renamed(c, n))
          /\ name' = [name EXCEPT ![c] = n]
          /\ stack' = <<Each(<<c>>, Other)>> \o <<>>
          /\ UNCHANGED <<build, live, room, members, started>>
      BY <1>2, <1>5 DEF HelloStep
    <2>2. byName[n] \in {None, c} /\ (build.impl = "python" => c \in live)
      <3>1. 1 \in 1..Len(stack)
        BY <1>2
      <3> HIDE DEF call
      <3> QED BY <1>1, <1>2, <3>1, TablesAgreed DEF HelloSound, HelloFits
    <2>3. c \in live
      <3>1. build.impl \in {"python", "c"}
        BY Constants, TablesAgreed DEF TypeInv, TypeOK
      <3> QED BY <1>5, <2>2, <3>1 DEF GivesUp
    <2>4. /\ byName \in [Names -> Clients \cup {None}] /\ live \subseteq Clients
          /\ name \in [Clients -> Names \cup {None}] /\ None \notin Clients /\ None \notin Names
      BY TablesAgreed, Constants DEF TypeInv, TypeOK
    <2>5. NamesAgree
      BY TablesAgreed DEF Agreed
    <2> HIDE DEF c, n
    <2>6. \A x \in Names : byName'[x] = IF x = n THEN c
                                        ELSE IF x = name[c] /\ byName[x] = c THEN None
                                        ELSE byName[x]
      BY <2>1 DEF Renamed
    <2>7. name'[c] = n /\ \A d \in Clients : d # c => name'[d] = name[d]
      BY <1>2, <2>1, <2>4
    <2>8. \A x \in Names : byName'[x] # None => byName'[x] \in live' /\ name'[byName'[x]] = x
      <3> SUFFICES ASSUME NEW x \in Names, byName'[x] # None
                   PROVE  byName'[x] \in live' /\ name'[byName'[x]] = x
        OBVIOUS
      <3>1. CASE x = n
        BY <2>1, <2>3, <2>6, <2>7, <3>1
      <3>2. CASE x # n
        <4>1. byName'[x] = byName[x] /\ byName[x] # None
          BY <2>6, <3>2
        <4>2. byName[x] \in live /\ name[byName[x]] = x
          BY <2>5, <4>1 DEF NamesAgree
        <4>3. byName[x] # c
          BY <2>6, <3>2, <4>1, <4>2
        <4> QED BY <2>1, <2>4, <2>7, <4>1, <4>2, <4>3
      <3> QED BY <3>1, <3>2
    <2>9. \A d \in live' : name'[d] # None => byName'[name'[d]] = d
      <3> SUFFICES ASSUME NEW d \in live, name'[d] # None
                   PROVE  byName'[name'[d]] = d
        BY <2>1
      <3>1. CASE d = c
        BY <1>2, <2>6, <2>7, <3>1 DEF n
      <3>2. CASE d # c
        <4>1. name'[d] = name[d] /\ name[d] \in Names
          BY <2>4, <2>7, <3>2
        <4>2. byName[name[d]] = d
          BY <2>5, <4>1, <2>4 DEF NamesAgree
        <4>3. name[d] # n
          BY <2>2, <2>4, <3>2, <4>2
        <4> QED BY <2>6, <3>2, <4>1, <4>2, <4>3
      <3> QED BY <3>1, <3>2
    <2>10. NamesAgree'
      BY <2>8, <2>9 DEF NamesAgree
    <2>11. RoomsAgree'
      <3>1. \A d \in Clients : name[d] # None => name'[d] # None
        BY <1>2, <2>4, <2>7 DEF n
      <3>2. RoomsAgree
        BY TablesAgreed DEF Agreed
      <3> QED BY <2>1, <3>1, <3>2 DEF RoomsAgree
    <2>12. HelloSound(stack)' /\ Outermost(stack)'
      <3> DEFINE x == Each(<<c>>, Other)
      <3>1. x.op = "each"
        BY DEF Each
      <3>2. stack' = <<x>>
        BY <2>1
      <3> HIDE DEF x
      <3>3. HelloFits(stack', byName', build'.impl, live', name') /\ Outermost(stack')
        <4>1. HelloFits(<<x>>, byName', build'.impl, live', name') /\ Outermost(<<x>>)
          BY <3>1, OneCall
        <4> QED BY <3>2, <4>1
      <3> QED BY <3>3 DEF HelloSound, Outermost
    <2>13. count' = Identified(byName)'
      BY <2>1 DEF Identified
    <2> QED BY <1>3, <2>10, <2>11, <2>12, <2>13 DEF TablesInv
  <1> QED BY <1>4, <1>5

LEMMA StartTables ==
  ASSUME TablesInv, NEW r \in Rooms, StartRoom(r, <<>>), members[r] # <<>>
  PROVE  TablesInv'
  <1>1. TypeInv'
    <2>1. <<>> \in Seq(Calls)
      BY EmptySeq
    <2> QED BY <2>1, StartTypes, TablesAgreed
  <1>2. /\ started' = [started EXCEPT ![r] = TRUE] /\ count' = Identified(byName)
        /\ UNCHANGED <<build, live, name, byName, room, members, told>>
    BY DEF StartRoom
  <1>3. RoomsAgree'
    <2>1. RoomsAgree /\ started \in [Rooms -> BOOLEAN]
      BY TablesAgreed DEF Agreed, TypeInv, TypeOK
    <2> QED BY <1>2, <2>1 DEF RoomsAgree
  <1>4. NamesAgree' /\ count' = Identified(byName)'
    BY <1>2, TablesAgreed DEF Agreed, NamesAgree, Identified
  <1>5. HelloSound(stack)' /\ Outermost(stack)'
    <2> DEFINE x == ToMembers(r, members[r], StartFrame(members[r]), None)
    <2>1. x.op \in {"each", "live"}
      BY LoopKind
    <2>2. stack' = <<x>>
      BY DEF StartRoom
    <2> HIDE DEF x
    <2>3. HelloFits(stack', byName', build'.impl, live', name') /\ Outermost(stack')
      <3>1. HelloFits(<<x>>, byName', build'.impl, live', name') /\ Outermost(<<x>>)
        BY <2>1, OneCall
      <3> QED BY <2>2, <3>1
    <2> QED BY <2>3 DEF HelloSound, Outermost
  <1> QED BY <1>1, <1>3, <1>4, <1>5 DEF TablesInv

LEMMA JoinStepTables ==
  ASSUME TablesInv, JoinStep
  PROVE  TablesInv'
  <1> DEFINE r == Head(stack).room
  <1>1. stack # <<>> /\ Head(stack).op = "join"
    BY DEF JoinStep
  <1>2. r \in Rooms /\ Tail(stack) = <<>>
    BY <1>1, OnTop, CallTypes, Alone, TablesAgreed
  <1>3. CASE build.autoGo > 0 /\ Len(members[r]) >= build.autoGo
    <2>1. StartRoom(r, <<>>)
      BY <1>2, <1>3 DEF JoinStep
    <2>2. members[r] # <<>>
      <3>1. build.autoGo \in Nat
        BY Constants, TablesAgreed DEF TypeInv, TypeOK
      <3>2. Len(members[r]) \in Nat
        BY <1>2, MembersTypes, TablesAgreed
      <3>3. Len(members[r]) # 0
        BY <1>3, <3>1, <3>2
      <3> QED BY <3>3, EmptySeq
    <2> QED BY <1>2, <2>1, <2>2, StartTables
  <1>4. CASE ~(build.autoGo > 0 /\ Len(members[r]) >= build.autoGo)
    <2>1. /\ stack' = <<>> /\ count' = Identified(byName)
          /\ UNCHANGED <<build, live, name, byName, room, members, started, told>>
      BY <1>2, <1>4 DEF JoinStep
    <2>2. count' = count
      BY <2>1 DEF TablesInv
    <2>3. HelloSound(stack') /\ Outermost(stack')
      BY <2>1, NoCall DEF HelloSound
    <2>4. TypeInv'
      BY JoinStepTypes, TablesAgreed
    <2> QED BY <2>1, <2>2, <2>3, <2>4, OnlyStack DEF tables
  <1> QED BY <1>3, <1>4

LEMMA AcceptTables ==
  ASSUME TablesInv, NEW c \in Clients, Accept(c)
  PROVE  TablesInv'
  <1>1. TypeInv'
    BY EventTypes, TablesAgreed
  <1>2. /\ stack = <<>> /\ c \notin live /\ \A n \in Names : byName[n] # c
        /\ room[c] = NoRoom
        /\ live' = live \cup {c} /\ name' = [name EXCEPT ![c] = None]
        /\ UNCHANGED <<build, byName, room, members, started, count, stack>>
    BY DEF Accept, Idle
  <1>3. /\ live \subseteq Clients /\ name \in [Clients -> Names \cup {None}]
    BY TablesAgreed DEF TypeInv, TypeOK
  <1>4. name'[c] = None /\ \A d \in Clients : d # c => name'[d] = name[d]
    BY <1>2, <1>3
  <1>5. NamesAgree'
    <2>1. NamesAgree
      BY TablesAgreed DEF Agreed
    <2> QED BY <1>2, <1>3, <1>4, <2>1 DEF NamesAgree
  <1>6. RoomsAgree'
    <2>1. RoomsAgree
      BY TablesAgreed DEF Agreed
    <2> QED BY <1>2, <1>4, <2>1 DEF RoomsAgree
  <1>7. count' = Identified(byName)'
    BY <1>2, TablesAgreed DEF Agreed, Identified
  <1>8. HelloSound(stack)' /\ Outermost(stack)'
    <2>1. HelloFits(<<>>, byName', build'.impl, live', name') /\ Outermost(<<>>)
      BY NoCall
    <2>2. stack' = <<>>
      BY <1>2
    <2> QED BY <2>1, <2>2 DEF HelloSound, Outermost
  <1> QED BY <1>1, <1>5, <1>6, <1>7, <1>8 DEF TablesInv

LEMMA LeaveTables ==
  ASSUME TablesInv, NEW c \in Clients, Leave(c)
  PROVE  TablesInv'
  <1>1. <<>> \in Seq(Calls)
    BY EmptySeq
  <1>2. HelloFits(<<>>, Unnamed(c), build.impl, live \ {c}, name) /\ Outermost(<<>>)
    BY NoCall
  <1>3. c \in live /\ Drop(c, <<>>)
    BY DEF Leave
  <1> QED BY <1>1, <1>2, <1>3, TablesAgreed, DropTables

\* One send, or one loop, and no change of the tables.
LEMMA AnswerTables ==
  ASSUME TablesInv, TypeInv', NEW x, x.op \in {"each", "live"}, stack' = <<x>>, UNCHANGED tables
  PROVE  TablesInv'
  <1>1. HelloSound(<<x>>) /\ Outermost(<<x>>)
    BY OneCall DEF HelloSound
  <1> QED BY <1>1, OnlyStack

LEMMA HelloEventTables ==
  ASSUME NoRename, TablesInv, NEW c \in Clients, NEW n \in Names, Hello(c, n)
  PROVE  TablesInv'
  <1> DEFINE x == RestOfHello(c, n)
             m == byName[n]
  <1>1. x.op = "hello" /\ x.client = c /\ x.name = n /\ x \in Calls
    BY CallsMade DEF RestOfHello
  <1>2. c \in live /\ (build.impl = "python" => name[c] = None)
    BY TablesAgreed DEF Hello, NoRename, TypeInv, TypeOK
  <1>3. Len(<<x>>) = 1 /\ <<x>>[1] = x /\ <<x>> \in Seq(Calls)
    BY <1>1
  <1> DEFINE s == <<x>>
  <1>4. Len(s) = 1 /\ s[1] = x /\ s \in Seq(Calls)
    BY <1>3
  <1> HIDE DEF s, x
  <1>5. \A k \in 1..Len(s) : k = Len(s) /\ s[k] = x
    BY <1>4
  <1>6. Outermost(s)
    BY <1>5 DEF Outermost
  <1>7. ASSUME NEW dir, NEW lv, dir[n] \in {None, c}, c \in lv
        PROVE  HelloFits(s, dir, build.impl, lv, name)
    BY <1>1, <1>2, <1>5, <1>7 DEF HelloFits
  <1>8. CASE m \notin {None, c}
    <2>1. Drop(m, s)
      BY <1>8 DEF Hello, s, x
    <2>2. m \in live /\ m \in Clients
      BY <1>8, TablesAgreed DEF Agreed, NamesAgree, TypeInv, TypeOK
    <2>3. Unnamed(m)[n] = None /\ c \in live \ {m}
      BY <1>2, <1>8 DEF Unnamed
    <2>4. HelloFits(s, Unnamed(m), build.impl, live \ {m}, name)
      BY <1>7, <2>3
    <2> QED BY <1>4, <1>6, <2>1, <2>2, <2>4, TablesAgreed, DropTables
  <1>9. CASE m \in {None, c}
    <2>1. stack' = s /\ UNCHANGED tables
      BY <1>9 DEF Hello, s, x
    <2>2. HelloSound(s)
      BY <1>2, <1>7, <1>9 DEF HelloSound
    <2>3. TypeInv'
      BY EventTypes, TablesAgreed
    <2> QED BY <1>6, <2>1, <2>2, <2>3, OnlyStack
  <1> QED BY <1>8, <1>9

LEMMA JoinTables ==
  ASSUME TablesInv, NEW c \in Clients, NEW n \in Names, Join(c, n)
  PROVE  TablesInv'
  <1> DEFINE t == byName[n]
             list(r) == IF room[t] = NoRoom THEN <<t, c>> ELSE Append(members[r], c)
  <1>1. /\ t \in Clients /\ t # c /\ (room[t] # NoRoom => Joinable(room[t]))
        /\ c \in live /\ name[c] # None /\ room[c] = NoRoom
        /\ UNCHANGED <<build, live, name, byName, started, count, told>>
    BY TablesAgreed DEF Join, Unavailable, TypeInv, TypeOK
  <1>2. t \in live /\ name[t] # None
    <2>1. t # None
      BY <1>1, Constants
    <2>2. t \in live /\ name[t] = n
      BY <2>1, TablesAgreed DEF Agreed, NamesAgree
    <2> QED BY <2>2, Constants
  <1>3. PICK r \in Rooms :
          /\ IF room[t] = NoRoom THEN members[r] = <<>> ELSE r = room[t]
          /\ members' = [members EXCEPT ![r] = list(r)]
          /\ room' = [room EXCEPT ![t] = r, ![c] = r]
          /\ stack' = <<ToMembers(r, list(r), RoomFrame(list(r)), None), RestOfJoin(r)>>
    BY DEF Join
  <1> DEFINE ms == list(r)
  <1>4. /\ ms \in Seated
        /\ room[t] = NoRoom => Len(ms) = 2 /\ ms[1] = t /\ ms[2] = c
        /\ room[t] # NoRoom => /\ Len(ms) = Len(members[r]) + 1
                               /\ \A i \in 1..Len(members[r]) : ms[i] = members[r][i]
                               /\ ms[Len(ms)] = c
    BY <1>1, <1>3, JoinedList, TablesAgreed
  <1>5. Len(members[r]) \in Nat /\ \A q \in Rooms : \A i \in 1..Len(members[q]) : members[q][i] \in Clients
    BY MembersTypes, TablesAgreed
  <1>6. RoomsAgree /\ members \in [Rooms -> Seated] /\ room \in [Clients -> Rooms \cup {NoRoom}]
    BY TablesAgreed DEF Agreed, TypeInv, TypeOK
  <1>7. members'[r] = ms /\ \A q \in Rooms : q # r => members'[q] = members[q]
    BY <1>3, <1>6
  <1>8. /\ room'[t] = r /\ room'[c] = r
        /\ \A d \in Clients : d # t /\ d # c => room'[d] = room[d]
    BY <1>1, <1>3, <1>6
  <1>9. TypeInv'
    BY EventTypes, TablesAgreed
  <1>10. room[t] # NoRoom => Has(members[r], t) /\ Len(members[r]) >= 2 /\ r = room[t]
    <2>1. Len(<<>>) = 0
      BY EmptySeq
    <2> HIDE DEF t, ms, list
    <2> QED BY <1>1, <1>3, <1>5, <1>6, <2>1 DEF RoomsAgree, Has
  <1>11. \A i \in 1..Len(members[r]) : members[r][i] # c
    BY <1>1, <1>6, Constants DEF RoomsAgree
  <1> HIDE DEF ms, t
  <1>12. Len(ms) >= 2 /\ Has(ms, t) /\ Has(ms, c)
    <2>1. CASE room[t] = NoRoom
      <3>1. Len(ms) = 2 /\ ms[1] = t /\ ms[2] = c
        BY <1>4, <2>1
      <3>2. 1 \in 1..Len(ms) /\ 2 \in 1..Len(ms) /\ Len(ms) >= 2
        BY <3>1
      <3> QED BY <3>1, <3>2 DEF Has
    <2>2. CASE room[t] # NoRoom
      <3>1. Len(ms) \in 1..Len(ms) /\ Len(ms) >= 2 /\ \A i \in 1..Len(members[r]) : i \in 1..Len(ms)
        BY <1>4, <1>5, <1>10, <2>2
      <3> QED BY <1>4, <1>10, <2>2, <3>1 DEF Has
    <2> QED BY <2>1, <2>2
  <1>13. \A i \in 1..Len(ms) : \/ ms[i] = c /\ i = Len(ms)
                               \/ ms[i] = t /\ i = 1 /\ room[t] = NoRoom
                               \/ i \in 1..Len(members[r]) /\ ms[i] = members[r][i] /\ room[t] # NoRoom
    <2>1. CASE room[t] = NoRoom
      <3>1. Len(ms) = 2 /\ ms[1] = t /\ ms[2] = c
        BY <1>4, <2>1
      <3>2. \A i \in 1..Len(ms) : i = 1 \/ i = Len(ms)
        BY <3>1
      <3> QED BY <2>1, <3>1, <3>2
    <2>2. CASE room[t] # NoRoom
      <3>1. \A i \in 1..Len(ms) : i = Len(ms) \/ i \in 1..Len(members[r])
        BY <1>4, <1>5, <2>2
      <3> QED BY <1>4, <2>2, <3>1
    <2> QED BY <2>1, <2>2
  <1>14. \A i, j \in 1..Len(ms) : ms[i] = ms[j] => i = j
    BY <1>1, <1>6, <1>11, <1>13 DEF RoomsAgree
  <1>15. \A i \in 1..Len(ms) : ms[i] \in live /\ room'[ms[i]] = r
    BY <1>1, <1>2, <1>5, <1>6, <1>8, <1>11, <1>13 DEF RoomsAgree
  <1>16. \A q \in Rooms : q # r => \A i \in 1..Len(members[q]) : room'[members[q][i]] = q
    <2> SUFFICES ASSUME NEW q \in Rooms, q # r, NEW i \in 1..Len(members[q])
                 PROVE  room'[members[q][i]] = q
      OBVIOUS
    <2>1. room[members[q][i]] = q /\ members[q][i] \in Clients /\ q # NoRoom
      BY <1>5, <1>6, Constants DEF RoomsAgree
    <2>2. members[q][i] # c /\ members[q][i] # t
      BY <1>1, <1>10, <2>1
    <2> QED BY <1>8, <2>1, <2>2
  <1>17. \A d \in Clients : room'[d] # NoRoom => Has(members'[room'[d]], d) /\ name[d] # None
    <2> SUFFICES ASSUME NEW d \in Clients, room'[d] # NoRoom
                 PROVE  Has(members'[room'[d]], d) /\ name[d] # None
      OBVIOUS
    <2>1. CASE d \in {t, c}
      BY <1>1, <1>2, <1>7, <1>8, <1>12, <2>1
    <2>2. CASE d \notin {t, c}
      <3>1. room'[d] = room[d] /\ room[d] \in Rooms
        BY <1>6, <1>8, <2>2
      <3>2. Has(members[room[d]], d) /\ name[d] # None
        BY <1>6, <3>1, Constants DEF RoomsAgree
      <3>3. CASE room[d] # r
        BY <1>7, <3>1, <3>2, <3>3
      <3>4. CASE room[d] = r
        <4>1. PICK i \in 1..Len(members[r]) : members[r][i] = d
          BY <3>2, <3>4 DEF Has
        <4>2. room[t] # NoRoom
          <5>1. Len(<<>>) = 0
            BY EmptySeq
          <5> QED BY <1>3, <1>5, <4>1, <5>1
        <4>3. i \in 1..Len(ms) /\ ms[i] = d
          BY <1>4, <1>5, <4>1, <4>2
        <4> QED BY <1>7, <3>1, <3>2, <3>4, <4>3 DEF Has
      <3> QED BY <3>3, <3>4
    <2> QED BY <2>1, <2>2
  <1>18. RoomsAgree'
    <2>1. ms # <<>>
      <3>1. Len(<<>>) = 0
        BY EmptySeq
      <3> QED BY <1>12, <3>1
    <2>2. \A q \in Rooms : members'[q] # <<>> => Len(members'[q]) >= 2
      BY <1>6, <1>7, <1>12 DEF RoomsAgree
    <2>3. \A q \in Rooms : members'[q] = <<>> => ~started'[q]
      BY <1>1, <1>6, <1>7, <2>1 DEF RoomsAgree
    <2>4. \A q \in Rooms : \A i \in 1..Len(members'[q]) :
            members'[q][i] \in live' /\ room'[members'[q][i]] = q
      BY <1>1, <1>6, <1>7, <1>15, <1>16 DEF RoomsAgree
    <2>5. \A q \in Rooms : \A i, j \in 1..Len(members'[q]) :
            members'[q][i] = members'[q][j] => i = j
      BY <1>6, <1>7, <1>14 DEF RoomsAgree
    <2> QED BY <1>1, <1>17, <2>2, <2>3, <2>4, <2>5 DEF RoomsAgree
  <1>19. NamesAgree' /\ count' = Identified(byName)'
    BY <1>1, TablesAgreed DEF Agreed, NamesAgree, Identified
  <1>20. HelloSound(stack)' /\ Outermost(stack)'
    <2> DEFINE x == ToMembers(r, list(r), RoomFrame(list(r)), None)
               y == RestOfJoin(r)
    <2>1. x.op \in {"each", "live"}
      BY LoopKind
    <2>2. y.op = "join"
      BY DEF RestOfJoin
    <2>3. stack' = <<x, y>>
      BY <1>3
    <2> HIDE DEF x, y
    <2>4. HelloFits(<<x, y>>, byName', build'.impl, live', name') /\ Outermost(<<x, y>>)
      BY <2>1, <2>2, TwoCalls
    <2> QED BY <2>3, <2>4 DEF HelloSound, Outermost
  <1> QED BY <1>9, <1>18, <1>19, <1>20 DEF TablesInv

LEMMA TablesStep ==
  ASSUME NoRename, TablesInv, [Next]_vars
  PROVE  TablesInv'
  <1>1. ASSUME NEW c \in Clients, Accept(c) \/ Leave(c) PROVE TablesInv'
    BY <1>1, AcceptTables, LeaveTables
  <1>2. ASSUME NEW c \in Clients, Query(c) \/ \E n \in Names : JoinRefused(c, n) PROVE TablesInv'
    <2> DEFINE x == Each(<<c>>, Other)
    <2>1. TypeInv'
      BY <1>2, EventTypes, TablesAgreed
    <2>2. x.op = "each" /\ stack' = <<x>> /\ UNCHANGED tables
      BY <1>2 DEF Query, JoinRefused, Each
    <2> HIDE DEF x
    <2> QED BY <2>1, <2>2, AnswerTables
  <1>3. ASSUME NEW c \in Clients, Go(c) PROVE TablesInv'
    <2>1. room[c] \in Rooms /\ StartRoom(room[c], <<>>) /\ Len(members[room[c]]) \in 2..MaxSeats
      BY <1>3, TablesAgreed DEF Go, TypeInv, TypeOK
    <2>2. members[room[c]] # <<>>
      BY <2>1, EmptySeq, Constants
    <2> QED BY <2>1, <2>2, StartTables
  <1>4. ASSUME NEW c \in Clients, RelayFrame(c) PROVE TablesInv'
    <2> DEFINE x == ToMembers(room[c], members[room[c]], Other, c)
    <2>1. TypeInv'
      BY <1>4, EventTypes, TablesAgreed
    <2>2. x.op \in {"each", "live"}
      BY LoopKind
    <2>3. stack' = <<x>> /\ UNCHANGED tables
      BY <1>4 DEF RelayFrame
    <2> HIDE DEF x
    <2> QED BY <2>1, <2>2, <2>3, AnswerTables
  <1>5. ASSUME NEW c \in Clients, NEW n \in Names, Hello(c, n) \/ Join(c, n) PROVE TablesInv'
    BY <1>5, HelloEventTables, JoinTables
  <1>6. CASE Event
    BY <1>1, <1>2, <1>3, <1>4, <1>5, <1>6 DEF Event
  <1>7. CASE Step
    BY <1>7, EachTables, LiveTables, HelloTables, JoinStepTables DEF Step
  <1>8. CASE UNCHANGED vars
    <2>1. TypeInv'
      BY <1>8, TypeStep, TablesAgreed
    <2>2. stack' = stack /\ UNCHANGED tables
      BY <1>8 DEF vars
    <2> QED BY <2>1, <2>2, TablesAgreed, OnlyStack
  <1> QED BY <1>6, <1>7, <1>8 DEF Next

LEMMA TablesInit ==
  ASSUME Init
  PROVE  TablesInv
  <1>1. TypeInv
    BY TypeInit
  <1>2. NamesAgree
    BY DEF Init, NamesAgree
  <1>3. RoomsAgree
    <2>1. Len(<<>>) = 0
      BY EmptySeq
    <2> QED BY <2>1 DEF Init, RoomsAgree
  <1>4. count = Identified(byName)
    <2>1. {n \in Names : byName[n] # None} = {}
      BY DEF Init
    <2>2. Identified(byName) = 0
      BY <2>1, FS_EmptySet DEF Identified
    <2> QED BY <2>2 DEF Init
  <1>5. HelloSound(stack) /\ Outermost(stack)
    <2>1. stack = <<>>
      BY DEF Init
    <2> QED BY <2>1, NoCall DEF HelloSound
  <1> QED BY <1>1, <1>2, <1>3, <1>4, <1>5 DEF TablesInv

(***************************************************************************)
(* The relay's tables agree in every state, in the middle of a cascade of  *)
(* failing sends too: by_name and the clients' names are inverse to each   *)
(* other, a room lists two or more distinct live clients that point back   *)
(* to it, nobody else does, and the count is the number of names.  For the *)
(* Python this takes consoles that say HELLO once (RelayGhostName shows    *)
(* what a second HELLO can do).                                            *)
(***************************************************************************)
THEOREM TablesInvariant ==
  ASSUME NoRename
  PROVE  Spec => []TablesInv
  <1>1. Init => TablesInv
    BY TablesInit
  <1>2. TablesInv /\ [Next]_vars => TablesInv'
    BY TablesStep
  <1> QED BY <1>1, <1>2, PTL DEF Spec

(***************************************************************************)
(* A name in by_name leads to the live client that bears it, and a client  *)
(* that has said HELLO is found under its name, whatever takeovers of a    *)
(* name and failing sends there were.                                      *)
(***************************************************************************)
THEOREM DirectorySound ==
  ASSUME NoRename
  PROVE  Spec => []Directory
  <1>1. TablesInv => Directory
    BY DEF TablesInv, NamesAgree, Directory
  <1> QED BY <1>1, TablesInvariant, PTL

(***************************************************************************)
(* Rooms hold between two and MaxSeats distinct live members that point    *)
(* back to them, and no client points to a room that does not list it.     *)
(***************************************************************************)
THEOREM RoomsStaySound ==
  ASSUME NoRename
  PROVE  Spec => []RoomsSound
  <1>1. ASSUME TablesInv PROVE RoomsSound
    <2>1. RoomsAgree
      BY <1>1 DEF TablesInv
    <2>2. \A r \in Rooms : DOMAIN members[r] = 1..Len(members[r])
            /\ Len(members[r]) \in Nat /\ Len(members[r]) <= MaxSeats
      BY <1>1, TablesAgreed, MembersTypes
    <2>3. \A c \in Clients : room[c] # NoRoom => room[c] \in Rooms
      BY <1>1, TablesAgreed DEF TypeInv, TypeOK
    <2>4. \A r \in Rooms : members[r] # <<>> => Len(members[r]) \in 2..MaxSeats
      BY <2>1, <2>2, Constants DEF RoomsAgree
    <2>5. \A r \in Rooms : \A i, j \in DOMAIN members[r] :
            /\ members[r][i] \in live
            /\ room[members[r][i]] = r
            /\ members[r][i] = members[r][j] => i = j
      BY <2>1, <2>2 DEF RoomsAgree
    <2>6. \A c \in Clients : room[c] # NoRoom =>
            \E i \in DOMAIN members[room[c]] : members[room[c]][i] = c
      BY <2>1, <2>2, <2>3 DEF RoomsAgree, Has
    <2> QED BY <2>4, <2>5, <2>6 DEF RoomsSound
  <1> QED BY <1>1, TablesInvariant, PTL

-----------------------------------------------------------------------------
(* What holds with renames too.                                            *)

\* The count, and that an empty room has not started.
Tallied ==
  /\ TypeInv
  /\ count = Identified(byName)
  /\ \A r \in Rooms : members[r] = <<>> => ~started[r]

NoneLeaves ==
  \A r \in Rooms : (started[r] /\ members'[r] # members[r]) => members'[r] = <<>>

LEMMA DropTallied ==
  ASSUME Tallied, NEW m \in Clients, NEW rest \in Seq(Calls), Drop(m, rest)
  PROVE  Tallied' /\ NoneLeaves
  <1> DEFINE r == room[m]
             left == Without(members[r], m)
  <1>1. TypeInv /\ TypeInv'
    BY DropTypes DEF Tallied
  <1>2. count' = Identified(byName)'
    <2>1. count = Identified(byName)
      BY DEF Tallied
    <2>2. Republished(Unnamed(m)) = Identified(Unnamed(m))
      BY <2>1 DEF Republished
    <2> QED BY <2>2 DEF Drop, Identified
  <1>3. /\ r \in Rooms \cup {NoRoom} /\ members \in [Rooms -> Seated]
        /\ started \in [Rooms -> BOOLEAN]
    BY <1>1 DEF TypeInv, TypeOK
  <1>4. \A q \in Rooms : members[q] = <<>> => ~started[q]
    BY DEF Tallied
  <1>5. CASE r = NoRoom
    <2>1. UNCHANGED <<members, started>>
      BY <1>5 DEF Drop
    <2> QED BY <1>1, <1>2, <1>4, <2>1 DEF Tallied, NoneLeaves
  <1>6. CASE r # NoRoom /\ EndsRoom(r, m)
    <2>1. members' = [members EXCEPT ![r] = <<>>] /\ started' = [started EXCEPT ![r] = FALSE]
      BY <1>6 DEF Drop
    <2> QED BY <1>1, <1>2, <1>3, <1>4, <1>6, <2>1 DEF Tallied, NoneLeaves
  <1>7. CASE r # NoRoom /\ ~EndsRoom(r, m)
    <2>1. members' = [members EXCEPT ![r] = left] /\ started' = started /\ ~started[r]
      BY <1>7 DEF Drop, EndsRoom
    <2> QED BY <1>1, <1>2, <1>3, <1>4, <1>7, <2>1 DEF Tallied, NoneLeaves
  <1> QED BY <1>5, <1>6, <1>7

LEMMA SendTallied ==
  ASSUME Tallied, NEW m \in Clients, NEW what \in Frames, NEW rest \in Seq(Calls),
         Send(m, what, rest)
  PROVE  Tallied' /\ NoneLeaves
  <1>1. TypeInv'
    BY SendTypes DEF Tallied
  <1>2. CASE UNCHANGED tables
    BY <1>1, <1>2 DEF tables, Tallied, NoneLeaves, Identified
  <1> QED BY <1>2, DropTallied DEF Send

LEMMA StartTallied ==
  ASSUME Tallied, NEW r \in Rooms, NEW rest \in Seq(Calls), StartRoom(r, rest),
         members[r] # <<>>
  PROVE  Tallied' /\ NoneLeaves
  <1>1. TypeInv' /\ TypeInv
    BY StartTypes DEF Tallied
  <1>2. /\ started' = [started EXCEPT ![r] = TRUE] /\ count' = Identified(byName)
        /\ byName' = byName /\ members' = members /\ started \in [Rooms -> BOOLEAN]
    BY <1>1 DEF StartRoom, TypeInv, TypeOK
  <1> QED BY <1>1, <1>2 DEF Tallied, NoneLeaves, Identified

LEMMA TalliedStep ==
  ASSUME Tallied, [Next]_vars
  PROVE  Tallied' /\ [NoneLeaves]_vars
  <1>1. TypeInv /\ TypeInv'
    BY TypeStep DEF Tallied
  <1>2. /\ \A r \in Rooms : /\ members[r] \in Seated /\ Len(members[r]) \in Nat
        /\ Len(<<>>) = 0 /\ <<>> \in Seq(Calls)
    BY <1>1, MembersTypes, EmptySeq
  <1>3. ASSUME UNCHANGED <<members, started, byName, count>> PROVE Tallied' /\ NoneLeaves
    BY <1>1, <1>3 DEF Tallied, NoneLeaves, Identified
  <1>4. ASSUME EachStep PROVE Tallied' /\ NoneLeaves
    <2> DEFINE call == Head(stack)
               x == Each(Tail(call.to), call.what)
    <2>1. stack # <<>> /\ call.op = "each"
      BY <1>4 DEF EachStep
    <2>2. call.to \in Seated /\ call.what \in Frames /\ Tail(stack) \in Seq(Calls)
      BY <1>1, <2>1, OnTop, CallTypes
    <2>3. CASE call.to = <<>>
      BY <1>3, <1>4, <2>3 DEF EachStep, tables
    <2>4. CASE call.to # <<>>
      <3>1. Head(call.to) \in Clients /\ Tail(call.to) \in Seated
        BY <2>2, <2>4, ListType
      <3>2. x \in Calls
        BY <2>2, <3>1, CallsMade
      <3>3. <<x>> \o Tail(stack) \in Seq(Calls)
        BY <2>2, <3>2, Pushed
      <3>4. Send(Head(call.to), call.what, <<x>> \o Tail(stack))
        BY <1>4, <2>4 DEF EachStep
      <3> QED BY <2>2, <3>1, <3>3, <3>4, SendTallied
    <2> QED BY <2>3, <2>4
  <1>5. ASSUME LiveStep PROVE Tallied' /\ NoneLeaves
    <2> DEFINE call == Head(stack)
               ms == members[call.room]
               rest == <<Advanced(call)>> \o Tail(stack)
    <2>1. stack # <<>> /\ call.op = "live"
      BY <1>5 DEF LiveStep
    <2>2. /\ call.what \in Frames /\ Len(ms) \in Nat /\ call.i \in Nat
          /\ call.i <= Len(ms) => ms[call.i] \in Clients /\ rest \in Seq(Calls)
      BY <1>1, <1>2, <2>1, LiveCall, Constants
    <2>3. CASE call.i <= Len(ms) /\ Send(ms[call.i], call.what, rest)
      BY <2>2, <2>3, SendTallied
    <2>4. CASE UNCHANGED tables
      BY <1>3, <2>4 DEF tables
    <2> QED BY <1>5, <2>2, <2>3, <2>4 DEF LiveStep
  <1>6. ASSUME HelloStep PROVE Tallied' /\ NoneLeaves
    <2>1. CASE UNCHANGED tables
      BY <1>3, <2>1 DEF tables
    <2>2. CASE ~UNCHANGED tables
      <3>1. UNCHANGED <<members, started>> /\ count' = Identified(byName)'
        BY <1>6, <2>2 DEF HelloStep, tables, Identified
      <3> QED BY <1>1, <3>1 DEF Tallied, NoneLeaves
    <2> QED BY <2>1, <2>2
  <1>7. ASSUME JoinStep PROVE Tallied' /\ NoneLeaves
    <2> DEFINE r == Head(stack).room
    <2>1. stack # <<>> /\ Head(stack).op = "join"
      BY <1>7 DEF JoinStep
    <2>2. r \in Rooms /\ Tail(stack) \in Seq(Calls) /\ build.autoGo \in Nat
      BY <1>1, <2>1, OnTop, CallTypes, Constants DEF TypeInv, TypeOK
    <2>3. CASE build.autoGo > 0 /\ Len(members[r]) >= build.autoGo
      <3>1. StartRoom(r, Tail(stack)) /\ members[r] # <<>>
        BY <1>2, <1>7, <2>2, <2>3 DEF JoinStep
      <3> QED BY <2>2, <3>1, StartTallied
    <2>4. CASE ~(build.autoGo > 0 /\ Len(members[r]) >= build.autoGo)
      <3>1. UNCHANGED <<members, started, byName>> /\ count' = Identified(byName)
        BY <1>7, <2>4 DEF JoinStep
      <3> QED BY <1>1, <3>1 DEF Tallied, NoneLeaves, Identified
    <2> QED BY <2>3, <2>4
  <1>8. ASSUME NEW c \in Clients,
               Accept(c) \/ Query(c) \/ RelayFrame(c) \/ \E n \in Names : JoinRefused(c, n)
        PROVE  Tallied' /\ NoneLeaves
    BY <1>3, <1>8 DEF Accept, Query, RelayFrame, JoinRefused, tables
  <1>9. ASSUME NEW c \in Clients, Leave(c) PROVE Tallied' /\ NoneLeaves
    BY <1>2, <1>9, DropTallied DEF Leave
  <1>10. ASSUME NEW c \in Clients, Go(c) PROVE Tallied' /\ NoneLeaves
    <2>1. room[c] \in Rooms /\ StartRoom(room[c], <<>>) /\ Len(members[room[c]]) \in 2..MaxSeats
      BY <1>1, <1>10 DEF Go, TypeInv, TypeOK
    <2>2. members[room[c]] # <<>>
      BY <1>2, <2>1, Constants
    <2> QED BY <1>2, <2>1, <2>2, StartTallied
  <1>11. ASSUME NEW c \in Clients, NEW n \in Names, Hello(c, n) PROVE Tallied' /\ NoneLeaves
    <2>1. CASE byName[n] \notin {None, c}
      <3>1. byName[n] \in Clients /\ Drop(byName[n], <<RestOfHello(c, n)>>)
        BY <1>1, <1>11, <2>1 DEF Hello, TypeInv, TypeOK
      <3>2. <<RestOfHello(c, n)>> \in Seq(Calls)
        BY CallsMade
      <3> QED BY <3>1, <3>2, DropTallied
    <2>2. CASE byName[n] \in {None, c}
      BY <1>3, <1>11, <2>2 DEF Hello, tables
    <2> QED BY <2>1, <2>2
  <1>12. ASSUME NEW c \in Clients, NEW n \in Names, Join(c, n) PROVE Tallied' /\ NoneLeaves
    <2> DEFINE t == byName[n]
               list(r) == IF room[t] = NoRoom THEN <<t, c>> ELSE Append(members[r], c)
    <2>1. /\ t \in Clients /\ (room[t] # NoRoom => ~started[room[t]])
          /\ UNCHANGED <<byName, started, count>>
      BY <1>1, <1>12 DEF Join, Unavailable, Joinable, TypeInv, TypeOK
    <2>2. PICK r \in Rooms :
            /\ IF room[t] = NoRoom THEN members[r] = <<>> ELSE r = room[t]
            /\ members' = [members EXCEPT ![r] = list(r)]
      BY <1>12 DEF Join
    <2>3. ~started[r]
      BY <2>1, <2>2 DEF Tallied
    <2> HIDE DEF list, t
    <2>4. \A q \in Rooms : q # r => members'[q] = members[q]
      BY <1>1, <2>2 DEF TypeInv, TypeOK
    <2>5. NoneLeaves /\ \A q \in Rooms : members'[q] = <<>> => ~started[q]
      BY <2>3, <2>4 DEF NoneLeaves, Tallied
    <2> QED BY <1>1, <2>1, <2>5 DEF Tallied, Identified
  <1>13. CASE Event
    BY <1>8, <1>9, <1>10, <1>11, <1>12, <1>13 DEF Event
  <1>14. CASE Step
    BY <1>4, <1>5, <1>6, <1>7, <1>14 DEF Step
  <1>15. CASE UNCHANGED vars
    BY <1>3, <1>15 DEF vars, tables
  <1> QED BY <1>13, <1>14, <1>15 DEF Next

(***************************************************************************)
(* The Lobby publisher has been given the number of names in by_name: no   *)
(* drop, takeover or rename changes by_name without telling it.            *)
(***************************************************************************)
THEOREM CountStaysCurrent == Spec => []CountCurrent
  <1>1. Init => Tallied
    BY TablesInit DEF Tallied, TablesInv, RoomsAgree
  <1>2. Tallied /\ [Next]_vars => Tallied'
    BY TalliedStep
  <1>3. Tallied => CountCurrent
    BY DEF Tallied, CountCurrent
  <1> QED BY <1>1, <1>2, <1>3, PTL DEF Spec

(***************************************************************************)
(* drop() never takes one player out of a match that goes on: the members  *)
(* of a started room stay, or all leave at once.                           *)
(***************************************************************************)
THEOREM MatchEndsAtOnce == Spec => AnyDropEndsMatch
  <1>1. Init => Tallied
    BY TablesInit DEF Tallied, TablesInv, RoomsAgree
  <1>2. Tallied /\ [Next]_vars => Tallied'
    BY TalliedStep
  <1>3. Tallied /\ [Next]_vars => [NoneLeaves]_vars
    BY TalliedStep
  <1> QED BY <1>1, <1>2, <1>3, PTL DEF Spec, AnyDropEndsMatch, NoneLeaves

-----------------------------------------------------------------------------
(* The consoles are told the truth.                                        *)

\* What must hold of the calls in progress for m to be dropped: a loop that
\* is not done will find its list too short.
LoopsGiveWay(st, m) ==
  \A k \in 1..Len(st) : (st[k].op = "live" /\ st[k].what # Other) =>
    /\ st[k].but = None
    /\ \/ st[k].i > Len(members[st[k].room])
       \/ st[k].room = room[m] /\ (EndsRoom(room[m], m) \/ st[k].i >= 3)

TruthAround(st, m) ==
  \A c \in live : c # m =>
    \/ Right(c) \/ OwedGoodbye(st, c)
    \/ room[c] = room[m] /\ room[m] # NoRoom

LEMMA PushedCalls ==
  ASSUME NEW x \in Calls, NEW rest \in Seq(Calls), NEW up, up = <<x>> \o rest
  PROVE  /\ Len(up) \in Nat /\ 1 \in 1..Len(up) /\ up # <<>> /\ up[1] = x
         /\ \A k \in 1..Len(up) : k # 1 => k - 1 \in 1..Len(rest) /\ up[k] = rest[k - 1]
         /\ \A l \in 1..Len(rest) : l + 1 \in 1..Len(up) /\ up[l + 1] = rest[l]
  <1>1. /\ Len(up) = Len(rest) + 1 /\ Len(rest) \in Nat /\ up[1] = x
        /\ \A k \in 1..Len(rest) : up[k + 1] = rest[k]
        /\ \A k \in 1..(Len(rest) + 1) : up[k] = IF k = 1 THEN x ELSE rest[k - 1]
    BY Pushed
  <1>2. up # <<>>
    BY <1>1, EmptySeq
  <1> HIDE DEF Calls
  <1>3. Len(up) \in Nat /\ 1 \in 1..Len(up)
    BY <1>1
  <1>4. \A k \in 1..Len(up) : k # 1 => k - 1 \in 1..Len(rest) /\ up[k] = rest[k - 1]
    BY <1>1
  <1>5. \A l \in 1..Len(rest) : l + 1 \in 1..Len(up)
    BY <1>1
  <1> QED BY <1>1, <1>2, <1>3, <1>4, <1>5

LEMMA RestTypes ==
  ASSUME NEW rest \in Seq(Calls)
  PROVE  \A k \in 1..Len(rest) : /\ rest[k].op = "live" => rest[k].room \in Rooms /\ rest[k].i \in Nat
                                                           /\ rest[k].i >= 1
                                 /\ rest[k].op = "each" => rest[k].to \in Seated
  <1>1. \A k \in 1..Len(rest) : rest[k] \in Calls
    BY ElementOfSeq
  <1>2. \A x \in Calls : /\ x.op = "live" => x.room \in Rooms /\ x.i \in 1..(MaxSeats + 1)
                         /\ x.op = "each" => x.to \in Seated
    BY CallTypes
  <1>3. \A i \in 1..(MaxSeats + 1) : i \in Nat /\ i >= 1
    BY Constants
  <1> QED BY <1>1, <1>2, <1>3

LEMMA DropTold ==
  ASSUME Agreed, build.impl = "python", MaxSeats <= 3, NEW m \in live,
         NEW rest \in Seq(Calls), Drop(m, rest),
         LoopsGiveWay(rest, m), GoodbyesSound(rest), TruthAround(rest, m)
  PROVE  LoopsSound(stack)' /\ GoodbyesSound(stack)' /\ TruthOwed(stack)'
  <1> DEFINE r == room[m]
             left == Without(members[r], m)
             up == stack'
  <1>1. m \in Clients /\ live' = live \ {m} /\ told' = told /\ live \subseteq Clients
    BY DEF Agreed, TypeInv, TypeOK, Drop
  <1>2. /\ room \in [Clients -> Rooms \cup {NoRoom}] /\ members \in [Rooms -> Seated]
        /\ started \in [Rooms -> BOOLEAN] /\ TypeInv
    BY DEF Agreed, TypeInv, TypeOK
  <1>3. \A k \in 1..Len(rest) : /\ rest[k].op = "live" => rest[k].room \in Rooms /\ rest[k].i \in Nat
                                                          /\ rest[k].i >= 1
                                /\ rest[k].op = "each" => rest[k].to \in Seated
    BY RestTypes
  <1>4. r \in Rooms =>
          /\ Has(members[r], m) /\ members[r] \in Seq(Clients) /\ Len(members[r]) \in Nat
          /\ Len(members[r]) <= MaxSeats
    <2>1. ASSUME r \in Rooms
          PROVE  /\ Has(members[r], m) /\ members[r] \in Seq(Clients) /\ Len(members[r]) \in Nat
                 /\ Len(members[r]) <= MaxSeats
      <3>1. r # NoRoom
        BY <2>1, Constants
      <3>2. Has(members[r], m)
        BY <1>1, <3>1 DEF Agreed, RoomsAgree
      <3> QED BY <1>2, <2>1, <3>2, MembersTypes
    <2> QED BY <2>1
  <1>5. r \in Rooms => /\ Len(left) = Len(members[r]) - 1
                       /\ \A x : Has(members[r], x) /\ x # m => Has(left, x)
    BY <1>4, Removed
  <1>6. \A c \in Clients : room[c] # NoRoom => room[c] \in Rooms /\ Has(members[room[c]], c)
    BY <1>2 DEF Agreed, RoomsAgree
  <1>7. CASE r = NoRoom
    <2>1. UNCHANGED <<room, members, started>> /\ stack' = rest
      BY <1>7 DEF Drop
    <2>2. LoopsSound(stack)'
      <3>1. \A k \in 1..Len(rest) : (rest[k].op = "live" /\ rest[k].what # Other) =>
              rest[k].but = None /\ rest[k].i > Len(members[rest[k].room])
        BY <1>3, <1>7, Constants DEF LoopsGiveWay
      <3> QED BY <2>1, <3>1 DEF LoopsSound
    <2>3. GoodbyesSound(stack)'
      BY <2>1 DEF GoodbyesSound
    <2>4. TruthOwed(stack)'
      <3> SUFFICES ASSUME NEW c \in live, c # m PROVE Right(c)' \/ OwedGoodbye(stack, c)'
        BY <1>1 DEF TruthOwed
      <3>1. Right(c) \/ OwedGoodbye(rest, c)
        BY <1>7 DEF TruthAround
      <3>2. Right(c) => Right(c)'
        BY <1>1, <2>1 DEF Right, Proper
      <3>3. OwedGoodbye(rest, c) => OwedGoodbye(stack, c)'
        BY <2>1 DEF OwedGoodbye
      <3> QED BY <3>1, <3>2, <3>3
    <2> QED BY <2>2, <2>3, <2>4
  <1>8. CASE r # NoRoom /\ EndsRoom(r, m)
    <2> DEFINE x == Each(left, Farewell(r))
    <2>1. r \in Rooms /\ x \in Calls /\ stack' = <<x>> \o rest
      BY <1>1, <1>2, <1>8, DropPushes, Constants
    <2>2. x.op = "each" /\ x.to = left /\ x.what = Farewell(r)
      BY DEF Each
    <2>3. Farewell(r) \in Goodbyes /\ Farewell(r) # Other
      BY FrameTypes DEF Farewell, Goodbyes
    <2> HIDE DEF x
    <2>4. /\ 1 \in 1..Len(up) /\ up # <<>> /\ up[1] = x
          /\ \A k \in 1..Len(up) : k # 1 => k - 1 \in 1..Len(rest) /\ up[k] = rest[k - 1]
          /\ \A l \in 1..Len(rest) : l + 1 \in 1..Len(up) /\ up[l + 1] = rest[l]
      BY <2>1, PushedCalls
    <2>5. /\ room' = [c \in Clients |-> IF room[c] = r THEN NoRoom ELSE room[c]]
          /\ members' = [members EXCEPT ![r] = <<>>]
          /\ started' = [started EXCEPT ![r] = FALSE]
      BY <1>8 DEF Drop
    <2>6. /\ Len(members'[r]) = 0
          /\ \A q \in Rooms : q # r => members'[q] = members[q] /\ started'[q] = started[q]
      BY <1>2, <2>1, <2>5, EmptySeq
    <2>7. \A c \in Clients : room'[c] = IF room[c] = r THEN NoRoom ELSE room[c]
      BY <2>5
    <2> HIDE DEF up
    <2>8. LoopsSound(stack)'
      <3> SUFFICES ASSUME NEW k \in 1..Len(up), up[k].op = "live", up[k].what # Other
                   PROVE  up[k].but = None /\ up[k].i > Len(members'[up[k].room])
        BY DEF LoopsSound, up
      <3>1. k # 1
        BY <2>2, <2>4
      <3>2. k - 1 \in 1..Len(rest) /\ up[k] = rest[k - 1]
        BY <2>4, <3>1
      <3>3. /\ up[k].but = None /\ up[k].room \in Rooms /\ up[k].i \in Nat /\ up[k].i >= 1
            /\ up[k].room # r => up[k].i > Len(members[up[k].room])
        BY <1>3, <3>2 DEF LoopsGiveWay
      <3>4. CASE up[k].room = r
        BY <2>6, <3>3, <3>4
      <3>5. CASE up[k].room # r
        BY <2>6, <3>3, <3>5
      <3> QED BY <3>4, <3>5, <3>3
    <2>9. GoodbyesSound(stack)'
      <3> SUFFICES ASSUME NEW k \in 1..Len(up), up[k].op = "each", up[k].what # Other
                   PROVE  /\ up[k].what \in Goodbyes
                          /\ \A c \in Clients : Has(up[k].to, c) => room'[c] = NoRoom
        BY DEF GoodbyesSound, up, Goodbyes, Dissolved, PeerLeft, RoomFrame
      <3>1. CASE k = 1
        <4>1. \A c \in Clients : Has(left, c) => room[c] = r
          BY <2>1, LeftOf
        <4> QED BY <2>2, <2>3, <2>4, <2>7, <3>1, <4>1
      <3>2. CASE k # 1
        <4>1. k - 1 \in 1..Len(rest) /\ up[k] = rest[k - 1]
          BY <2>4, <3>2
        <4>2. up[k].what \in Goodbyes /\ \A c \in Clients : Has(up[k].to, c) => room[c] = NoRoom
          BY <4>1 DEF GoodbyesSound
        <4> QED BY <2>7, <4>2
      <3> QED BY <3>1, <3>2
    <2>10. TruthOwed(stack)'
      <3> SUFFICES ASSUME NEW c \in live, c # m PROVE Right(c)' \/ OwedGoodbye(stack, c)'
        BY <1>1 DEF TruthOwed
      <3>1. CASE room[c] = r
        <4>1. Has(left, c) /\ room'[c] = NoRoom
          BY <1>1, <1>5, <1>6, <1>8, <2>1, <2>7, <3>1
        <4>2. OwedGoodbye(stack, c)'
          BY <2>2, <2>3, <2>4, <4>1 DEF OwedGoodbye, up
        <4> QED BY <4>2
      <3>2. CASE room[c] # r
        <4>1. Right(c) \/ OwedGoodbye(rest, c)
          BY <3>2 DEF TruthAround
        <4>2. room'[c] = room[c]
          BY <1>1, <2>7, <3>2
        <4>3. Right(c) => Right(c)'
          BY <1>1, <1>6, <2>6, <3>2, <4>2 DEF Right, Proper, Goodbyes, Dissolved, PeerLeft, RoomFrame, StartFrame
        <4>4. OwedGoodbye(rest, c) => OwedGoodbye(stack, c)'
          BY <2>4, <4>2 DEF OwedGoodbye, up
        <4> QED BY <4>1, <4>3, <4>4
      <3> QED BY <3>1, <3>2
    <2> QED BY <2>8, <2>9, <2>10
  <1>9. CASE r # NoRoom /\ ~EndsRoom(r, m)
    <2> DEFINE x == Live(r, 1, RoomFrame(left), None)
    <2>1. r \in Rooms /\ x \in Calls /\ stack' = <<x>> \o rest
      <3> DEFINE y == ToMembers(r, left, RoomFrame(left), None)
      <3>1. r \in Rooms /\ y \in Calls /\ stack' = <<y>> \o rest
        BY <1>1, <1>2, <1>9, DropPushes, Constants
      <3>2. y = x
        BY LoopKind
      <3> QED BY <3>1, <3>2
    <2>2. x.op = "live" /\ x.room = r /\ x.i = 1 /\ x.what = RoomFrame(left) /\ x.but = None
      BY DEF Live
    <2> HIDE DEF x
    <2>4. /\ 1 \in 1..Len(up) /\ up # <<>> /\ up[1] = x
          /\ \A k \in 1..Len(up) : k # 1 => k - 1 \in 1..Len(rest) /\ up[k] = rest[k - 1]
          /\ \A l \in 1..Len(rest) : l + 1 \in 1..Len(up) /\ up[l + 1] = rest[l]
      BY <2>1, PushedCalls
    <2>5. /\ room' = [room EXCEPT ![m] = NoRoom]
          /\ members' = [members EXCEPT ![r] = left]
          /\ started' = started /\ ~started[r]
      BY <1>9 DEF Drop, EndsRoom
    <2>6. members'[r] = left /\ \A q \in Rooms : q # r => members'[q] = members[q]
      BY <1>2, <2>1, <2>5
    <2>7. room'[m] = NoRoom /\ \A c \in Clients : c # m => room'[c] = room[c]
      BY <1>1, <1>2, <2>5
    <2> PICK q \in Rooms : q = r
      BY <2>1
    <2>8. Proper(q)' = RoomFrame(left)
      BY <2>5, <2>6 DEF Proper, RoomFrame
    <2>9. Len(left) \in Nat /\ Len(left) <= 2 /\ Len(left) < Len(members[r])
      BY <1>4, <1>5, <2>1, Constants
    <2> HIDE DEF up, left
    <2>10. LoopsSound(stack)'
      <3> SUFFICES ASSUME NEW k \in 1..Len(up), up[k].op = "live", up[k].what # Other
                   PROVE  /\ up[k].but = None
                          /\ \/ up[k].i > Len(members'[up[k].room])
                             \/ k = 1 /\ up[k].what = Proper(q)' /\ up[k].room = q
        BY DEF LoopsSound, up, Proper
      <3>1. CASE k = 1
        BY <2>2, <2>4, <2>8, <3>1
      <3>2. CASE k # 1
        <4>1. k - 1 \in 1..Len(rest) /\ up[k] = rest[k - 1]
          BY <2>4, <3>2
        <4>2. /\ up[k].but = None /\ up[k].room \in Rooms /\ up[k].i \in Nat
              /\ up[k].i > Len(members[up[k].room]) \/ (up[k].room = r /\ up[k].i >= 3)
          BY <1>3, <1>9, <4>1 DEF LoopsGiveWay
        <4>3. CASE up[k].room = r
          BY <1>4, <2>1, <2>6, <2>9, <4>2, <4>3
        <4>4. CASE up[k].room # r
          BY <2>6, <4>2, <4>4
        <4> QED BY <4>2, <4>3, <4>4
      <3> QED BY <3>1, <3>2
    <2>11. GoodbyesSound(stack)'
      <3> SUFFICES ASSUME NEW k \in 1..Len(up), up[k].op = "each", up[k].what # Other
                   PROVE  /\ up[k].what \in Goodbyes
                          /\ \A c \in Clients : Has(up[k].to, c) => room'[c] = NoRoom
        BY DEF GoodbyesSound, up, Goodbyes, Dissolved, PeerLeft, RoomFrame
      <3>1. k # 1
        BY <2>2, <2>4
      <3>2. k - 1 \in 1..Len(rest) /\ up[k] = rest[k - 1]
        BY <2>4, <3>1
      <3>3. up[k].what \in Goodbyes /\ \A c \in Clients : Has(up[k].to, c) => room[c] = NoRoom
        BY <3>2 DEF GoodbyesSound
      <3> QED BY <2>7, <3>3
    <2>12. TruthOwed(stack)'
      <3> SUFFICES ASSUME NEW c \in live, c # m
                   PROVE  Right(c)' \/ OwedGoodbye(stack, c)' \/ OwedRoster(stack, c)'
        BY <1>1 DEF TruthOwed
      <3>0. room'[c] = room[c] /\ c \in Clients
        BY <1>1, <2>7
      <3>1. CASE room[c] = r
        <4>1. Has(left, c) /\ room'[c] = r
          BY <1>5, <1>6, <1>9, <2>1, <3>0, <3>1
        <4>2. PICK j \in 1..Len(left) : left[j] = c
          BY <4>1 DEF Has
        <4>3. j >= 1
          BY <2>9
        <4>4. OwedRoster(stack, c)'
          BY <2>2, <2>4, <2>6, <2>8, <4>1, <4>2, <4>3 DEF OwedRoster, up
        <4> QED BY <4>4
      <3>2. CASE room[c] # r
        <4>1. Right(c) \/ OwedGoodbye(rest, c)
          BY <3>2 DEF TruthAround
        <4>3. Right(c) => Right(c)'
          BY <1>1, <1>6, <2>5, <2>6, <3>2, <3>0 DEF Right, Proper, Goodbyes, Dissolved, PeerLeft, RoomFrame, StartFrame
        <4>4. OwedGoodbye(rest, c) => OwedGoodbye(stack, c)'
          BY <2>4, <3>0 DEF OwedGoodbye, up
        <4> QED BY <4>1, <4>3, <4>4
      <3> QED BY <3>1, <3>2
    <2> QED BY <2>10, <2>11, <2>12
  <1> QED BY <1>7, <1>8, <1>9

ToldParts == LoopsSound(stack) /\ GoodbyesSound(stack) /\ TruthOwed(stack)

\* Nothing is told and nothing announced changes.
LEMMA ToldSame ==
  ASSUME UNCHANGED <<live, room, members, started, told>>,
         LoopsSound(stack'), GoodbyesSound(stack'), TruthOwed(stack')
  PROVE  ToldParts'
  <1>1. \A r : Proper(r)' = Proper(r)
    BY DEF Proper, StartFrame, RoomFrame
  <1>2. LoopsSound(stack)'
    BY <1>1 DEF LoopsSound, Proper
  <1>3. GoodbyesSound(stack)'
    BY DEF GoodbyesSound, Goodbyes, Dissolved, PeerLeft, RoomFrame
  <1>4. TruthOwed(stack)'
    BY DEF TruthOwed, Right, OwedGoodbye, OwedRoster, Proper, Goodbyes
  <1> QED BY <1>2, <1>3, <1>4 DEF ToldParts

\* Once m has been told something true, with the same calls left.
LEMMA ToldOne ==
  ASSUME UNCHANGED <<live, room, members, started>>, NEW m \in Clients, NEW what,
         told \in [Clients -> Frames], told' = [told EXCEPT ![m] = what],
         live \subseteq Clients,
         IF room[m] = NoRoom THEN what \in Goodbyes ELSE what = Proper(room[m]),
         LoopsSound(stack'), GoodbyesSound(stack'),
         \A c \in live : c # m => Right(c) \/ OwedGoodbye(stack', c) \/ OwedRoster(stack', c)
  PROVE  ToldParts'
  <1>1. told'[m] = what /\ \A c \in Clients : c # m => told'[c] = told[c]
    OBVIOUS
  <1>2. LoopsSound(stack)'
    BY DEF LoopsSound, Proper
  <1>3. GoodbyesSound(stack)'
    BY DEF GoodbyesSound, Goodbyes, Dissolved, PeerLeft, RoomFrame
  <1>4. TruthOwed(stack)'
    <2> SUFFICES ASSUME NEW c \in live
                 PROVE  Right(c)' \/ OwedGoodbye(stack, c)' \/ OwedRoster(stack, c)'
      BY DEF TruthOwed
    <2>1. CASE c = m
      BY <1>1, <2>1 DEF Right, Proper, Goodbyes
    <2>2. CASE c # m
      <3>1. Right(c) => Right(c)'
        BY <1>1, <2>2 DEF Right, Proper, Goodbyes
      <3>2. OwedGoodbye(stack', c) => OwedGoodbye(stack, c)'
        BY DEF OwedGoodbye
      <3>3. OwedRoster(stack', c) => OwedRoster(stack, c)'
        BY DEF OwedRoster, Proper
      <3> QED BY <2>2, <3>1, <3>2, <3>3
    <2> QED BY <2>1, <2>2
  <1> QED BY <1>2, <1>3, <1>4 DEF ToldParts

\* The calls under the innermost one, and the innermost one exchanged.
LEMMA BeneathTop ==
  ASSUME TypeInv, stack # <<>>, LoopsSound(stack), GoodbyesSound(stack)
  PROVE  LET tl == Tail(stack) IN
         /\ tl \in Seq(Calls) /\ Len(tl) \in Nat /\ 1 \in 1..Len(stack)
         /\ \A k \in 1..Len(tl) : k + 1 \in 1..Len(stack) /\ tl[k] = stack[k + 1]
         /\ \A k \in 1..Len(stack) : k # 1 => k - 1 \in 1..Len(tl) /\ stack[k] = tl[k - 1]
         /\ \A k \in 1..Len(tl) : (tl[k].op = "live" /\ tl[k].what # Other) =>
              tl[k].but = None /\ tl[k].i > Len(members[tl[k].room])
         /\ LoopsSound(tl) /\ GoodbyesSound(tl)
  <1> DEFINE tl == Tail(stack)
  <1>1. /\ Len(stack) \in Nat /\ Len(stack) >= 1 /\ tl \in Seq(Calls)
        /\ Len(tl) = Len(stack) - 1
        /\ \A k \in 1..Len(tl) : tl[k] = stack[k + 1]
    BY OnTop
  <1> HIDE DEF tl
  <1>2. /\ Len(tl) \in Nat /\ 1 \in 1..Len(stack)
        /\ \A k \in 1..Len(tl) : k + 1 \in 1..Len(stack) /\ tl[k] = stack[k + 1] /\ k + 1 # 1
        /\ \A k \in 1..Len(stack) : k # 1 => k - 1 \in 1..Len(tl) /\ (k - 1) + 1 = k
    BY <1>1
  <1>3. \A k \in 1..Len(stack) : k # 1 => stack[k] = tl[k - 1]
    BY <1>2
  <1>4. \A k \in 1..Len(tl) : (tl[k].op = "live" /\ tl[k].what # Other) =>
              tl[k].but = None /\ tl[k].i > Len(members[tl[k].room])
    <2> SUFFICES ASSUME NEW k \in 1..Len(tl), tl[k].op = "live", tl[k].what # Other
                 PROVE  tl[k].but = None /\ tl[k].i > Len(members[tl[k].room])
      OBVIOUS
    <2>1. k + 1 \in 1..Len(stack) /\ tl[k] = stack[k + 1] /\ k + 1 # 1
      BY <1>2
    <2> QED BY <2>1 DEF LoopsSound
  <1>5. LoopsSound(tl)
    BY <1>4 DEF LoopsSound
  <1>6. GoodbyesSound(tl)
    BY <1>2 DEF GoodbyesSound
  <1> QED BY <1>1, <1>2, <1>3, <1>4, <1>5, <1>6 DEF tl

\* The snapshot loop on top, and what it is when its first member is done.
LEMMA EachTold ==
  ASSUME TablesInv, build.impl = "python", MaxSeats <= 3, ToldParts, EachStep
  PROVE  ToldParts'
  <1> DEFINE call == Head(stack)
             tl == Tail(stack)
  <1>0. LoopsSound(stack) /\ GoodbyesSound(stack) /\ TruthOwed(stack)
    BY DEF ToldParts
  <1>1. stack # <<>> /\ call.op = "each" /\ call = stack[1] /\ TypeInv /\ Agreed
    BY OnTop, TablesAgreed DEF EachStep
  <1>2. /\ call.to \in Seated /\ call.what \in Frames
        /\ live \subseteq Clients /\ told \in [Clients -> Frames]
    BY <1>1, OnTop, CallTypes DEF TypeInv, TypeOK
  <1>3. /\ tl \in Seq(Calls) /\ 1 \in 1..Len(stack)
        /\ \A k \in 1..Len(tl) : k + 1 \in 1..Len(stack) /\ tl[k] = stack[k + 1]
        /\ \A k \in 1..Len(stack) : k # 1 => k - 1 \in 1..Len(tl) /\ stack[k] = tl[k - 1]
        /\ \A k \in 1..Len(tl) : (tl[k].op = "live" /\ tl[k].what # Other) =>
             tl[k].but = None /\ tl[k].i > Len(members[tl[k].room])
        /\ LoopsSound(tl) /\ GoodbyesSound(tl)
    BY <1>0, <1>1, BeneathTop
  <1> HIDE DEF call, tl
  <1>4. \A c \in live : \/ Right(c) \/ OwedGoodbye(tl, c)
                        \/ room[c] = NoRoom /\ call.what # Other /\ Has(call.to, c)
    <2> SUFFICES ASSUME NEW c \in live, ~Right(c)
                 PROVE  \/ OwedGoodbye(tl, c)
                        \/ room[c] = NoRoom /\ call.what # Other /\ Has(call.to, c)
      OBVIOUS
    <2>1. OwedGoodbye(stack, c)
      BY <1>0, <1>1 DEF TruthOwed, OwedRoster
    <2>2. PICK k \in 1..Len(stack) : stack[k].op = "each" /\ stack[k].what # Other /\ Has(stack[k].to, c)
      BY <2>1 DEF OwedGoodbye
    <2>3. CASE k = 1
      BY <1>1, <2>1, <2>2, <2>3 DEF OwedGoodbye
    <2>4. CASE k # 1
      <3>1. k - 1 \in 1..Len(tl) /\ stack[k] = tl[k - 1]
        BY <1>3, <2>4
      <3> QED BY <2>1, <2>2, <3>1 DEF OwedGoodbye
    <2> QED BY <2>3, <2>4
  <1>5. call.what # Other => call.what \in Goodbyes /\ \A c \in Clients : Has(call.to, c) => room[c] = NoRoom
    BY <1>0, <1>1, <1>3 DEF GoodbyesSound
  <1>6. CASE call.to = <<>>
    <2>1. stack' = tl /\ UNCHANGED <<live, room, members, started, told>>
      BY <1>6 DEF EachStep, tables, call, tl
    <2>2. \A c : ~Has(call.to, c)
      BY <1>6, EmptySeq DEF Has
    <2>3. TruthOwed(tl)
      BY <1>4, <2>2 DEF TruthOwed
    <2> QED BY <1>3, <2>1, <2>3, ToldSame
  <1>7. CASE call.to # <<>>
    <2> DEFINE x == Each(Tail(call.to), call.what)
               m == Head(call.to)
               rest == <<x>> \o tl
    <2>1. /\ m \in Clients /\ Tail(call.to) \in Seated /\ m = call.to[1]
          /\ Len(call.to) \in Nat /\ Len(call.to) >= 1 /\ Len(Tail(call.to)) = Len(call.to) - 1
          /\ \A i \in 1..Len(Tail(call.to)) : Tail(call.to)[i] = call.to[i + 1]
      BY <1>2, <1>7, ListType
    <2>2. x \in Calls /\ x.op = "each" /\ x.to = Tail(call.to) /\ x.what = call.what
      BY <1>2, <2>1, CallsMade DEF Each
    <2>3. Send(m, call.what, rest)
      BY <1>7 DEF EachStep, call, tl
    <2> DEFINE nx == Tail(call.to)
    <2> HIDE DEF x, nx
    <2>4. /\ Has(call.to, m) /\ \A z : Has(nx, z) => Has(call.to, z)
          /\ \A z : Has(call.to, z) /\ z # m => Has(nx, z)
      <3>1. 1 \in 1..Len(call.to) /\ \A i \in 1..Len(nx) : i + 1 \in 1..Len(call.to)
        BY <2>1 DEF nx
      <3>2. \A i \in 1..Len(call.to) : i # 1 => i - 1 \in 1..Len(nx) /\ call.to[i] = nx[i - 1]
        BY <2>1 DEF nx
      <3> QED BY ZenonT(30), <2>1, <3>1, <3>2 DEF Has, nx
    <2>5. /\ 1 \in 1..Len(rest) /\ rest # <<>> /\ rest[1] = x
          /\ \A k \in 1..Len(rest) : k # 1 => k - 1 \in 1..Len(tl) /\ rest[k] = tl[k - 1]
          /\ \A l \in 1..Len(tl) : l + 1 \in 1..Len(rest) /\ rest[l + 1] = tl[l]
      BY <1>3, <2>2, PushedCalls
    <2>6. rest \in Seq(Calls)
      BY <1>3, <2>2, Pushed
    <2> HIDE DEF rest, m
    <2>7. \A k \in 1..Len(rest) : (rest[k].op = "live" /\ rest[k].what # Other) =>
             rest[k].but = None /\ rest[k].i > Len(members[rest[k].room])
      <3> SUFFICES ASSUME NEW k \in 1..Len(rest), rest[k].op = "live", rest[k].what # Other
                   PROVE  rest[k].but = None /\ rest[k].i > Len(members[rest[k].room])
        OBVIOUS
      <3>1. k # 1
        BY <2>2, <2>5
      <3>2. k - 1 \in 1..Len(tl) /\ rest[k] = tl[k - 1]
        BY <2>5, <3>1
      <3> QED BY <1>3, <3>2
    <2>8. LoopsSound(rest) /\ LoopsGiveWay(rest, m)
      BY <2>7 DEF LoopsSound, LoopsGiveWay
    <2>9. GoodbyesSound(rest)
      <3> SUFFICES ASSUME NEW k \in 1..Len(rest), rest[k].op = "each", rest[k].what # Other
                   PROVE  /\ rest[k].what \in Goodbyes
                          /\ \A c \in Clients : Has(rest[k].to, c) => room[c] = NoRoom
        BY DEF GoodbyesSound
      <3>1. CASE k = 1
        BY <1>5, <2>2, <2>4, <2>5, <3>1 DEF nx
      <3>2. CASE k # 1
        BY SMTT(30), <1>3, <2>5, <3>2 DEF GoodbyesSound
      <3> QED BY <3>1, <3>2
    <2>10. \A c : OwedGoodbye(tl, c) => OwedGoodbye(rest, c)
      BY <2>5 DEF OwedGoodbye
    <2>11. \A c \in live : c # m => Right(c) \/ OwedGoodbye(rest, c)
      <3> SUFFICES ASSUME NEW c \in live, c # m, room[c] = NoRoom, call.what # Other, Has(call.to, c)
                   PROVE  OwedGoodbye(rest, c)
        BY <1>4, <2>10
      <3>1. Has(x.to, c)
        BY <2>2, <2>4 DEF nx
      <3> QED BY <2>2, <2>5, <3>1 DEF OwedGoodbye
    <2>12. CASE m \notin live /\ stack' = rest /\ UNCHANGED <<tables, told>>
      <3>1. TruthOwed(rest)
        BY <2>11, <2>12 DEF TruthOwed
      <3> QED BY <2>8, <2>9, <2>12, <3>1, ToldSame DEF tables
    <2>13. CASE m \in live /\ stack' = rest /\ UNCHANGED tables /\ call.what = Other /\ told' = told
      <3>1. TruthOwed(rest)
        BY <1>4, <2>10, <2>13 DEF TruthOwed
      <3> QED BY <2>8, <2>9, <2>13, <3>1, ToldSame DEF tables
    <2>14. CASE /\ m \in live /\ stack' = rest /\ UNCHANGED tables /\ call.what # Other
                /\ told' = [told EXCEPT ![m] = call.what]
      <3>1. room[m] = NoRoom /\ call.what \in Goodbyes
        BY <1>5, <2>1, <2>4, <2>14
      <3> QED BY <1>2, <2>1, <2>8, <2>9, <2>11, <2>14, <3>1, ToldOne DEF tables
    <2>15. CASE m \in live /\ Drop(m, rest)
      <3>1. TruthAround(rest, m)
        BY <2>11 DEF TruthAround
      <3> QED BY <1>1, <2>6, <2>8, <2>9, <2>15, <3>1, DropTold DEF ToldParts
    <2> QED BY <2>3, <2>12, <2>13, <2>14, <2>15 DEF Send
  <1> QED BY <1>6, <1>7

LEMMA LiveTold ==
  ASSUME TablesInv, build.impl = "python", MaxSeats <= 3, ToldParts, LiveStep
  PROVE  ToldParts'
  <1> DEFINE call == Head(stack)
             tl == Tail(stack)
             ms == members[call.room]
             x == Advanced(call)
             rest == <<x>> \o tl
             m == ms[call.i]
  <1>0. LoopsSound(stack) /\ GoodbyesSound(stack) /\ TruthOwed(stack)
    BY DEF ToldParts
  <1>1. stack # <<>> /\ call.op = "live" /\ call = stack[1] /\ TypeInv /\ Agreed
    BY OnTop, TablesAgreed DEF LiveStep
  <1>2. /\ call.room \in Rooms /\ call.i \in 1..(MaxSeats + 1)
        /\ live \subseteq Clients /\ told \in [Clients -> Frames]
        /\ call.i <= Len(ms) =>
              /\ call.i \in 1..Len(ms) /\ m \in Clients
              /\ x \in Calls /\ x.op = "live" /\ x.i = call.i + 1 /\ x.room = call.room
              /\ x.what = call.what /\ x.but = call.but
              /\ rest \in Seq(Calls)
    BY <1>1, LiveCall DEF TypeInv, TypeOK
  <1>3. /\ tl \in Seq(Calls) /\ 1 \in 1..Len(stack)
        /\ \A k \in 1..Len(stack) : k # 1 => k - 1 \in 1..Len(tl) /\ stack[k] = tl[k - 1]
        /\ \A k \in 1..Len(tl) : (tl[k].op = "live" /\ tl[k].what # Other) =>
             tl[k].but = None /\ tl[k].i > Len(members[tl[k].room])
        /\ LoopsSound(tl) /\ GoodbyesSound(tl)
    BY <1>0, <1>1, BeneathTop
  <1>4. call.i \in Nat /\ call.i >= 1 /\ Len(ms) \in Nat
    BY <1>1, <1>2, MembersTypes, Constants
  <1>5. \A c : OwedGoodbye(stack, c) => OwedGoodbye(tl, c)
    <2> HIDE DEF call, tl
    <2> SUFFICES ASSUME NEW c, OwedGoodbye(stack, c) PROVE OwedGoodbye(tl, c)
      OBVIOUS
    <2>1. PICK k \in 1..Len(stack) : stack[k].op = "each" /\ stack[k].what # Other /\ Has(stack[k].to, c)
      BY DEF OwedGoodbye
    <2>2. k # 1
      BY <1>1, <2>1
    <2>3. k - 1 \in 1..Len(tl) /\ stack[k] = tl[k - 1]
      BY <1>3, <2>2
    <2> QED BY <2>1, <2>3 DEF OwedGoodbye
  <1>6. call.what # Other =>
          call.but = None /\ (call.i > Len(ms) \/ call.what = Proper(call.room))
    BY <1>0, <1>1, <1>3 DEF LoopsSound
  <1>7. \A c \in live : \/ Right(c) \/ OwedGoodbye(tl, c)
                        \/ /\ call.what = Proper(call.room) /\ room[c] = call.room
                           /\ \E j \in 1..Len(ms) : j >= call.i /\ ms[j] = c
    BY <1>0, <1>1, <1>5 DEF TruthOwed, OwedRoster
  <1>8. Proper(call.room) # Other
    BY FrameTypes DEF Proper
  <1> HIDE DEF call, tl, x
  <1>9. CASE call.i > Len(ms)
    <2>1. stack' = tl /\ UNCHANGED <<live, room, members, started, told>>
      BY <1>9 DEF LiveStep, tables, call, tl
    <2>2. \A j \in 1..Len(ms) : ~(j >= call.i)
      BY <1>4, <1>9
    <2>3. TruthOwed(tl)
      BY <1>7, <2>2 DEF TruthOwed
    <2> QED BY <1>3, <2>1, <2>3, ToldSame
  <1>10. CASE call.i <= Len(ms)
    <2>1. /\ 1 \in 1..Len(rest) /\ rest # <<>> /\ rest[1] = x
          /\ \A k \in 1..Len(rest) : k # 1 => k - 1 \in 1..Len(tl) /\ rest[k] = tl[k - 1]
          /\ \A l \in 1..Len(tl) : l + 1 \in 1..Len(rest) /\ rest[l + 1] = tl[l]
      BY <1>2, <1>3, <1>10, PushedCalls
    <2>2. /\ call.i \in 1..Len(ms) /\ m \in Clients /\ m \in live /\ room[m] = call.room
          /\ x.op = "live" /\ x.i = call.i + 1 /\ x.room = call.room
          /\ x.what = call.what /\ x.but = call.but /\ rest \in Seq(Calls)
      BY <1>1, <1>2, <1>10 DEF Agreed, RoomsAgree
    <2> HIDE DEF rest
    <2>3. GoodbyesSound(rest)
      <3> SUFFICES ASSUME NEW k \in 1..Len(rest), rest[k].op = "each", rest[k].what # Other
                   PROVE  /\ rest[k].what \in Goodbyes
                          /\ \A c \in Clients : Has(rest[k].to, c) => room[c] = NoRoom
        BY DEF GoodbyesSound
      <3>1. k # 1
        BY <2>1, <2>2
      <3>2. k - 1 \in 1..Len(tl) /\ rest[k] = tl[k - 1]
        BY <2>1, <3>1
      <3> QED BY <1>3, <3>2 DEF GoodbyesSound
    <2>4. \A k \in 1..Len(rest) : (k # 1 /\ rest[k].op = "live" /\ rest[k].what # Other) =>
             rest[k].but = None /\ rest[k].i > Len(members[rest[k].room])
      <3> SUFFICES ASSUME NEW k \in 1..Len(rest), k # 1, rest[k].op = "live", rest[k].what # Other
                   PROVE  rest[k].but = None /\ rest[k].i > Len(members[rest[k].room])
        OBVIOUS
      <3>2. k - 1 \in 1..Len(tl) /\ rest[k] = tl[k - 1]
        BY <2>1
      <3> QED BY <1>3, <3>2
    <2>5. LoopsSound(rest)
      <3> SUFFICES ASSUME NEW k \in 1..Len(rest), rest[k].op = "live", rest[k].what # Other
                   PROVE  /\ rest[k].but = None
                          /\ \/ rest[k].i > Len(members[rest[k].room])
                             \/ k = 1 /\ rest[k].what = Proper(rest[k].room)
        BY DEF LoopsSound
      <3>1. CASE k # 1
        BY <2>4, <3>1
      <3>2. CASE k = 1
        <4>1. rest[k].what = call.what /\ rest[k].room = call.room /\ rest[k].but = call.but
          BY <2>1, <2>2, <3>2
        <4>2. ~(call.i > Len(ms))
          BY <1>4, <1>10
        <4> QED BY <1>6, <3>2, <4>1, <4>2
      <3> QED BY <3>1, <3>2
    <2>6. \A c : OwedGoodbye(tl, c) => OwedGoodbye(rest, c)
      BY <2>1 DEF OwedGoodbye
    <2>7. \A c \in live : c # m => Right(c) \/ OwedGoodbye(rest, c) \/ OwedRoster(rest, c)
      <3> SUFFICES ASSUME NEW c \in live, c # m, call.what = Proper(call.room), room[c] = call.room,
                          NEW j \in 1..Len(ms), j >= call.i, ms[j] = c
                   PROVE  OwedRoster(rest, c)
        BY <1>7, <2>6
      <3>1. j # call.i
        OBVIOUS
      <3>2. j >= x.i
        BY <1>4, <2>2, <3>1
      <3> QED BY <2>1, <2>2, <3>2 DEF OwedRoster
    <2>8. ms[call.i] = call.but => call.what = Other
      BY <1>6, <2>2, Constants
    <2>9. CASE call.what = Other
      <3>1. TruthOwed(rest)
        BY <1>7, <1>8, <2>6, <2>9 DEF TruthOwed
      <3>2. CASE stack' = rest /\ UNCHANGED <<live, room, members, started, told>>
        BY <2>3, <2>5, <3>1, <3>2, ToldSame
      <3>3. CASE Drop(m, rest)
        <4>1. LoopsGiveWay(rest, m)
          <5>1. rest[1].what = Other
            BY <2>1, <2>2, <2>9
          <5> QED BY <2>4, <5>1 DEF LoopsGiveWay
        <4>2. TruthAround(rest, m)
          BY <1>7, <1>8, <2>6, <2>9 DEF TruthAround
        <4> HIDE DEF m
        <4> QED BY <1>1, <2>2, <2>3, <3>3, <4>1, <4>2, DropTold DEF ToldParts
      <3>4. \/ stack' = rest /\ UNCHANGED <<live, room, members, started, told>>
            \/ Drop(m, rest)
        <4>1. ~(call.i > Len(ms))
          BY <1>4, <1>10
        <4>2. \/ stack' = rest /\ UNCHANGED <<tables, told>>
              \/ Send(m, call.what, rest)
          BY <4>1 DEF LiveStep, call, tl, x, rest
        <4> QED BY <2>9, <4>2 DEF Send, tables
      <3> QED BY <3>2, <3>3, <3>4
    <2>10. CASE call.what # Other
      <3>1. call.what = Proper(call.room) /\ call.what = Proper(room[m]) /\ room[m] # NoRoom
        BY <1>2, <1>4, <1>6, <1>10, <2>2, <2>10, Constants
      <3>2. CASE /\ stack' = rest /\ UNCHANGED tables
                 /\ told' = [told EXCEPT ![m] = call.what]
        <4>1. UNCHANGED <<live, room, members, started>>
          BY <3>2 DEF tables
        <4> HIDE DEF m
        <4> QED BY <1>2, <2>2, <2>3, <2>5, <2>7, <3>1, <3>2, <4>1, ToldOne
      <3>3. CASE Drop(m, rest)
        <4>1. LoopsGiveWay(rest, m)
          <5>1. rest[1].but = None /\ rest[1].room = room[m] /\ rest[1].i = call.i + 1
            BY <1>6, <2>1, <2>2, <2>10
          <5>2. EndsRoom(room[m], m) \/ call.i # 1
            BY <2>2 DEF EndsRoom
          <5>3. EndsRoom(room[m], m) \/ rest[1].i >= 3
            BY <1>4, <5>1, <5>2
          <5> HIDE DEF m
          <5> QED BY <2>4, <5>1, <5>3 DEF LoopsGiveWay
        <4>2. TruthAround(rest, m)
          BY <1>7, <2>2, <2>6, <3>1 DEF TruthAround
        <4> HIDE DEF m
        <4> QED BY <1>1, <2>2, <2>3, <3>3, <4>1, <4>2, DropTold DEF ToldParts
      <3>4. \/ stack' = rest /\ UNCHANGED tables /\ told' = [told EXCEPT ![m] = call.what]
            \/ Drop(m, rest)
        <4>1. ~(call.i > Len(ms)) /\ ms[call.i] # call.but
          BY <1>4, <1>10, <2>8, <2>10
        <4>2. Send(m, call.what, rest)
          BY <4>1 DEF LiveStep, call, tl, x, rest
        <4> QED BY <2>2, <2>10, <4>2 DEF Send
      <3> QED BY <3>2, <3>3, <3>4
    <2> QED BY <2>9, <2>10
  <1> QED BY <1>4, <1>9, <1>10

AllRight == \A c \in live : Right(c)

\* Between two events, and when a HELLO or a JOIN is all that is left,
\* nothing is owed to anybody.
LEMMA Settled ==
  ASSUME ToldParts, \A k \in 1..Len(stack) : stack[k].op \in {"hello", "join"}
  PROVE  AllRight
  <1> SUFFICES ASSUME NEW c \in live PROVE Right(c)
    BY DEF AllRight
  <1>1. ~OwedGoodbye(stack, c)
    BY DEF OwedGoodbye
  <1>2. ~OwedRoster(stack, c)
    <2> SUFFICES ASSUME OwedRoster(stack, c) PROVE FALSE
      OBVIOUS
    <2>1. stack # <<>> /\ stack[1].op = "live"
      BY DEF OwedRoster
    <2> QED BY <2>1 DEF OwedRoster
  <1> QED BY <1>1, <1>2 DEF ToldParts, TruthOwed

\* A stack with nothing in it that is about a room.
LEMMA QuietStack ==
  ASSUME NEW st, \A k \in 1..Len(st) : st[k].op \in {"each", "live"} => st[k].what = Other
  PROVE  LoopsSound(st) /\ GoodbyesSound(st) /\ (AllRight => TruthOwed(st))
         /\ \A m : LoopsGiveWay(st, m) /\ (AllRight => TruthAround(st, m))
  <1>1. LoopsSound(st)
    BY DEF LoopsSound
  <1>2. GoodbyesSound(st)
    BY DEF GoodbyesSound
  <1>3. AllRight => TruthOwed(st)
    BY DEF AllRight, TruthOwed
  <1>4. \A m : LoopsGiveWay(st, m) /\ (AllRight => TruthAround(st, m))
    BY DEF LoopsGiveWay, AllRight, TruthAround
  <1> QED BY <1>1, <1>2, <1>3, <1>4

\* A room is announced, and nobody else has anything to be told.
LEMMA Announced ==
  ASSUME TablesInv', NEW r \in Rooms, Len(stack') \in Nat, stack' # <<>>,
         stack'[1] = Live(r, 1, Proper(r)', None),
         \A k \in 1..Len(stack') : k # 1 => stack'[k].op = "join",
         \A c \in live' : room'[c] # r => Right(c)'
  PROVE  ToldParts'
  <1> DEFINE up == stack'
             x == up[1]
  <1>1. x.op = "live" /\ x.room = r /\ x.i = 1 /\ x.what = Proper(r)' /\ x.but = None
    BY DEF Live
  <1>2. \A k \in 1..Len(up) : k = 1 \/ up[k].op = "join"
    OBVIOUS
  <1>3. /\ live' \subseteq Clients /\ Len(members'[r]) \in Nat
        /\ \A c \in Clients : room'[c] # NoRoom => Has(members'[room'[c]], c)
    <2>1. (\A q \in Rooms : Len(members[q]) \in Nat)'
      <3>1. TypeInv'
        BY DEF TablesInv
      <3>2. (members \in [Rooms -> Seated])'
        BY <3>1 DEF TypeInv, TypeOK
      <3>3. \A q \in Rooms : members'[q] \in Seated
        BY <3>2
      <3>4. \A q \in Rooms : members'[q] \in Seq(Clients)
        BY <3>3, SeatedSeq
      <3> QED BY <3>4, LenProperties
    <2> QED BY <2>1 DEF TablesInv, RoomsAgree, TypeInv, TypeOK
  <1> HIDE DEF up
  <1>4. LoopsSound(stack)'
    <2> SUFFICES ASSUME NEW k \in 1..Len(up), up[k].op = "live", up[k].what # Other
                 PROVE  up[k].but = None /\ k = 1 /\ up[k].what = Proper(r)' /\ up[k].room = r
      BY DEF LoopsSound, up, Proper
    <2>1. k = 1
      BY <1>2
    <2> QED BY <1>1, <2>1
  <1>5. GoodbyesSound(stack)'
    <2>1. \A k \in 1..Len(up) : up[k].op # "each"
      BY <1>1, <1>2
    <2> QED BY <2>1 DEF GoodbyesSound, up
  <1>6. TruthOwed(stack)'
    <2> SUFFICES ASSUME NEW c \in live', room'[c] = r PROVE OwedRoster(stack, c)'
      BY DEF TruthOwed
    <2>1. PICK j \in 1..Len(members'[r]) : members'[r][j] = c
      BY <1>3, Constants DEF Has
    <2>2. j >= 1
      BY <1>3
    <2> QED BY <1>1, <2>1, <2>2 DEF OwedRoster, up, Proper
  <1> QED BY <1>4, <1>5, <1>6 DEF ToldParts

LEMMA StartTold ==
  ASSUME TablesInv, TablesInv', build.impl = "python", AllRight, NEW r \in Rooms,
         StartRoom(r, <<>>)
  PROVE  ToldParts'
  <1>1. /\ started' = [started EXCEPT ![r] = TRUE] /\ UNCHANGED <<live, room, members, told>>
    BY DEF StartRoom
  <1>2. started \in [Rooms -> BOOLEAN] /\ room \in [Clients -> Rooms \cup {NoRoom}]
        /\ live \subseteq Clients
    BY TablesAgreed DEF TypeInv, TypeOK
  <1>3. Proper(r)' = StartFrame(members[r])
    BY <1>1, <1>2 DEF Proper, StartFrame
  <1>4. stack' = <<Live(r, 1, Proper(r)', None)>>
    <2>1. ToMembers(r, members[r], StartFrame(members[r]), None)
            = Live(r, 1, StartFrame(members[r]), None)
      BY LoopKind
    <2>2. stack' = <<ToMembers(r, members[r], StartFrame(members[r]), None)>>
      BY DEF StartRoom
    <2> QED BY <1>3, <2>1, <2>2
  <1> DEFINE x == Live(r, 1, Proper(r)', None)
             up == stack'
  <1>5. Len(up) = 1 /\ up # <<>> /\ up[1] = x
    BY <1>4, EmptySeq
  <1>6. \A c \in live' : room'[c] # r => Right(c)'
    <2> SUFFICES ASSUME NEW c \in live, room[c] # r PROVE Right(c)'
      BY <1>1
    <2>1. Right(c) /\ room[c] \in Rooms \cup {NoRoom}
      BY <1>2 DEF AllRight
    <2> QED BY <1>1, <1>2, <2>1 DEF Right, Proper, Goodbyes, Dissolved, PeerLeft, RoomFrame, StartFrame
  <1> HIDE DEF x, up
  <1>7. Len(up) \in Nat /\ \A k \in 1..Len(up) : k # 1 => up[k].op = "join"
    BY <1>5
  <1> QED BY <1>5, <1>6, <1>7, Announced DEF x, up

LEMMA CallsTold ==
  ASSUME TablesInv, TablesInv', build.impl = "python", MaxSeats <= 3, ToldParts,
         HelloStep \/ JoinStep
  PROVE  ToldParts'
  <1>1. stack # <<>> /\ Head(stack).op \in {"hello", "join"}
    BY DEF HelloStep, JoinStep
  <1>2. Len(stack) = 1 /\ Tail(stack) = <<>> /\ Head(stack) = stack[1] /\ Head(stack) \in Calls
    BY <1>1, Alone, OnTop, TablesAgreed
  <1>3. \A k \in 1..Len(stack) : stack[k].op \in {"hello", "join"}
    <2>1. \A k \in 1..Len(stack) : k = 1
      BY <1>2
    <2> QED BY <1>1, <1>2, <2>1
  <1>4. AllRight
    BY <1>3, Settled
  <1>5. CASE UNCHANGED <<live, room, members, started, told>> /\ stack' = <<>>
    <2> DEFINE none == <<>>
    <2>1. \A k \in 1..Len(none) : FALSE
      BY EmptySeq
    <2> HIDE DEF none
    <2>2. LoopsSound(none) /\ GoodbyesSound(none) /\ TruthOwed(none)
      BY <1>4, <2>1, QuietStack
    <2> QED BY <1>5, <2>2, ToldSame DEF none
  <1>6. CASE HelloStep
    <2> DEFINE c == Head(stack).client
               x == Each(<<c>>, Other)
               s == <<x>>
    <2>1. UNCHANGED <<live, room, members, started, told>> /\ (stack' = <<>> \/ stack' = s)
      BY <1>2, <1>6 DEF HelloStep, tables
    <2>2. CASE stack' = s
      <3>1. x.what = Other /\ Len(s) = 1 /\ s[1] = x
        BY DEF Each
      <3> HIDE DEF s, x
      <3>2. \A k \in 1..Len(s) : s[k].what = Other
        BY <3>1
      <3>3. LoopsSound(s) /\ GoodbyesSound(s) /\ TruthOwed(s)
        BY <1>4, <3>2, QuietStack
      <3> QED BY <2>1, <2>2, <3>3, ToldSame
    <2> QED BY <1>5, <2>1, <2>2
  <1>7. CASE JoinStep
    <2> DEFINE r == Head(stack).room
    <2>1. \/ StartRoom(r, <<>>)
          \/ UNCHANGED <<live, room, members, started, told>> /\ stack' = <<>>
      BY <1>2, <1>7 DEF JoinStep
    <2>2. r \in Rooms
      BY <1>2, <1>7, CallTypes DEF JoinStep
    <2> QED BY <1>4, <1>5, <2>1, <2>2, StartTold
  <1> QED BY <1>6, <1>7

LEMMA EventTold ==
  ASSUME TablesInv, TablesInv', build.impl = "python", MaxSeats <= 3, ToldParts, Event
  PROVE  ToldParts'
  <1>1. stack = <<>>
    BY DEF Event, Accept, Leave, Query, Go, RelayFrame, Hello, JoinRefused, Join, Idle
  <1>2. AllRight
    <2>1. \A k \in 1..Len(stack) : FALSE
      BY <1>1, EmptySeq
    <2> QED BY <2>1, Settled
  <1>3. /\ TypeInv /\ Agreed /\ live \subseteq Clients /\ told \in [Clients -> Frames]
        /\ room \in [Clients -> Rooms \cup {NoRoom}] /\ members \in [Rooms -> Seated]
        /\ started \in [Rooms -> BOOLEAN]
    BY TablesAgreed DEF TypeInv, TypeOK
  <1>4. ASSUME NEW x, x.op \in {"each", "live"} => x.what = Other,
               stack' = <<x>>, UNCHANGED <<live, room, members, started, told>>
        PROVE  ToldParts'
    <2> DEFINE s == <<x>>
    <2>1. Len(s) = 1 /\ s[1] = x
      OBVIOUS
    <2> HIDE DEF s
    <2>2. \A k \in 1..Len(s) : s[k].op \in {"each", "live"} => s[k].what = Other
      BY <1>4, <2>1
    <2>3. LoopsSound(s) /\ GoodbyesSound(s) /\ TruthOwed(s)
      BY <1>2, <2>2, QuietStack
    <2> QED BY <1>4, <2>3, ToldSame DEF s
  <1>5. ASSUME NEW m \in live, NEW rest \in Seq(Calls), Drop(m, rest),
               \A k \in 1..Len(rest) : rest[k].op = "hello"
        PROVE  ToldParts'
    <2>1. LoopsGiveWay(rest, m) /\ GoodbyesSound(rest) /\ TruthAround(rest, m)
      <3>1. \A k \in 1..Len(rest) : rest[k].op \in {"each", "live"} => rest[k].what = Other
        BY <1>5
      <3> QED BY <1>2, <3>1, QuietStack
    <2> QED BY <1>3, <1>5, <2>1, DropTold DEF ToldParts
  <1>6. ASSUME NEW c \in Clients, Accept(c) PROVE ToldParts'
    <2>1. /\ live' = live \cup {c} /\ room[c] = NoRoom
          /\ told' = [told EXCEPT ![c] = Dissolved]
          /\ UNCHANGED <<room, members, started, stack>>
      BY <1>6 DEF Accept
    <2>2. \A d \in live' : Right(d)'
      <3> SUFFICES ASSUME NEW d \in live \cup {c} PROVE Right(d)'
        BY <2>1
      <3>1. CASE d = c
        BY <1>3, <2>1, <3>1 DEF Right, Goodbyes, Dissolved, PeerLeft, RoomFrame
      <3>2. CASE d # c
        <4>1. Right(d) /\ told'[d] = told[d]
          BY <1>2, <1>3, <2>1, <3>2 DEF AllRight
        <4> QED BY <2>1, <4>1 DEF Right, Proper, Goodbyes
      <3> QED BY <3>1, <3>2
    <2>3. \A k \in 1..Len(stack') : FALSE
      BY <1>1, <2>1, EmptySeq
    <2>4. LoopsSound(stack)'
      BY <2>3 DEF LoopsSound
    <2>5. GoodbyesSound(stack)'
      BY <2>3 DEF GoodbyesSound
    <2>6. TruthOwed(stack)'
      BY <2>2 DEF TruthOwed
    <2> QED BY <2>4, <2>5, <2>6 DEF ToldParts
  <1>7. ASSUME NEW c \in Clients, Leave(c) PROVE ToldParts'
    <2>1. c \in live /\ Drop(c, <<>>)
      BY <1>7 DEF Leave
    <2> DEFINE none == <<>>
    <2>2. none \in Seq(Calls) /\ \A k \in 1..Len(none) : FALSE
      BY EmptySeq
    <2>3. Drop(c, none)
      BY <2>1
    <2> HIDE DEF none
    <2> QED BY <1>5, <2>1, <2>2, <2>3
  <1>8. ASSUME NEW c \in Clients, Query(c) \/ \E n \in Names : JoinRefused(c, n) PROVE ToldParts'
    <2> DEFINE x == Each(<<c>>, Other)
    <2>1. x.what = Other /\ stack' = <<x>> /\ UNCHANGED <<live, room, members, started, told>>
      BY <1>8 DEF Query, JoinRefused, tables, Each
    <2> HIDE DEF x
    <2> QED BY <1>4, <2>1
  <1>9. ASSUME NEW c \in Clients, RelayFrame(c) PROVE ToldParts'
    <2> DEFINE x == ToMembers(room[c], members[room[c]], Other, c)
    <2>1. stack' = <<x>> /\ UNCHANGED <<live, room, members, started, told>>
      BY <1>9 DEF RelayFrame, tables
    <2>2. x.what = Other
      BY DEF ToMembers, SnapshotLoop, LiveLoop, Each, Live
    <2> HIDE DEF x
    <2> QED BY <1>4, <2>1, <2>2
  <1>10. ASSUME NEW c \in Clients, Go(c) PROVE ToldParts'
    <2>1. room[c] \in Rooms /\ StartRoom(room[c], <<>>)
      BY <1>3, <1>10 DEF Go
    <2> QED BY <1>2, <2>1, StartTold
  <1>11. ASSUME NEW c \in Clients, NEW n \in Names, Hello(c, n) PROVE ToldParts'
    <2> DEFINE x == RestOfHello(c, n)
               s == <<x>>
    <2>1. x.op = "hello" /\ x \in Calls
      BY CallsMade DEF RestOfHello
    <2>2. s \in Seq(Calls) /\ Len(s) = 1 /\ s[1] = x
      BY <2>1
    <2>3. CASE byName[n] \in {None, c}
      <3>1. stack' = <<x>> /\ UNCHANGED <<live, room, members, started, told>>
        BY <1>11, <2>3 DEF Hello, tables
      <3> HIDE DEF x
      <3> QED BY <1>4, <2>1, <3>1
    <2>4. CASE byName[n] \notin {None, c}
      <3>1. byName[n] \in live /\ Drop(byName[n], s)
        BY <1>3, <1>11, <2>4 DEF Hello, Agreed, NamesAgree
      <3> HIDE DEF s, x
      <3>2. \A k \in 1..Len(s) : s[k].op = "hello"
        BY <2>1, <2>2
      <3> QED BY <1>5, <2>2, <3>1, <3>2
    <2> QED BY <2>3, <2>4
  <1>12. ASSUME NEW c \in Clients, NEW n \in Names, Join(c, n) PROVE ToldParts'
    <2> DEFINE t == byName[n]
               list(r) == IF room[t] = NoRoom THEN <<t, c>> ELSE Append(members[r], c)
    <2>1. /\ t \in Clients /\ (room[t] # NoRoom => ~started[room[t]])
          /\ UNCHANGED <<live, started, told>>
      BY <1>3, <1>12 DEF Join, Unavailable, Joinable, TypeInv, TypeOK
    <2>2. PICK r \in Rooms :
            /\ IF room[t] = NoRoom THEN members[r] = <<>> ELSE r = room[t]
            /\ members' = [members EXCEPT ![r] = list(r)]
            /\ room' = [room EXCEPT ![t] = r, ![c] = r]
            /\ stack' = <<ToMembers(r, list(r), RoomFrame(list(r)), None), RestOfJoin(r)>>
      BY <1>12 DEF Join
    <2> HIDE DEF list
    <2>3. ~started[r]
      BY <1>3, <2>1, <2>2 DEF Agreed, RoomsAgree
    <2>4. members'[r] = list(r) /\ \A q \in Rooms : q # r => members'[q] = members[q]
      BY <1>3, <2>2
    <2>5. Proper(r)' = RoomFrame(list(r))
      BY <2>1, <2>3, <2>4 DEF Proper, RoomFrame
    <2> DEFINE x == Live(r, 1, Proper(r)', None)
               y == RestOfJoin(r)
               up == stack'
    <2>6. up = <<x, y>> /\ y.op = "join"
      <3>1. ToMembers(r, list(r), RoomFrame(list(r)), None) = Live(r, 1, RoomFrame(list(r)), None)
        BY LoopKind
      <3> QED BY <2>2, <2>5, <3>1 DEF RestOfJoin
    <2>7. \A d \in live' : room'[d] # r => Right(d)'
      <3> SUFFICES ASSUME NEW d \in live, room'[d] # r PROVE Right(d)'
        BY <2>1
      <3> HIDE DEF t
      <3>1. room'[d] = room[d] /\ room[d] # r
        BY <1>3, <2>1, <2>2
      <3>2. Right(d) /\ room[d] \in Rooms \cup {NoRoom}
        BY <1>2, <1>3 DEF AllRight
      <3> QED BY <2>1, <2>4, <3>1, <3>2 DEF Right, Proper, Goodbyes, Dissolved, PeerLeft, RoomFrame, StartFrame
    <2>8. Len(up) = 2 /\ up[1] = x /\ up[2] = y
      BY <2>6
    <2> HIDE DEF x, y, up
    <2>9. Len(up) \in Nat /\ up # <<>> /\ \A k \in 1..Len(up) : k # 1 => up[k].op = "join"
      <3>1. \A k \in 1..Len(up) : k = 1 \/ k = 2
        BY <2>8
      <3> QED BY <2>6, <2>8, <3>1, EmptySeq
    <2> QED BY <2>7, <2>8, <2>9, Announced DEF x, up
  <1> QED BY <1>6, <1>7, <1>8, <1>9, <1>10, <1>11, <1>12 DEF Event

LEMMA ToldStep ==
  ASSUME TablesInv, TablesInv', ToldInv, [Next]_vars
  PROVE  ToldInv'
  <1>1. build' = build
    <2>1. ASSUME NEW m, NEW rest, Drop(m, rest) PROVE build' = build
      BY <2>1 DEF Drop
    <2>2. ASSUME NEW m, NEW what, NEW rest, Send(m, what, rest) PROVE build' = build
      BY <2>1, <2>2 DEF Send, tables
    <2>3. ASSUME NEW r, NEW rest, StartRoom(r, rest) PROVE build' = build
      BY <2>3 DEF StartRoom
    <2>4. CASE Step
      <3>1. CASE EachStep
        BY <2>2, <3>1 DEF EachStep, tables
      <3>2. CASE LiveStep
        BY <2>2, <3>2 DEF LiveStep, tables
      <3>3. CASE HelloStep
        BY <3>3 DEF HelloStep, tables
      <3>4. CASE JoinStep
        BY <2>3, <3>4 DEF JoinStep
      <3> QED BY <2>4, <3>1, <3>2, <3>3, <3>4 DEF Step
    <2>5. ASSUME NEW c \in Clients, Accept(c) \/ Leave(c) \/ Query(c) \/ Go(c) \/ RelayFrame(c)
          PROVE  build' = build
      BY <2>1, <2>3, <2>5 DEF Accept, Leave, Query, Go, RelayFrame, tables
    <2>6. ASSUME NEW c \in Clients, NEW n \in Names, Hello(c, n) \/ JoinRefused(c, n) \/ Join(c, n)
          PROVE  build' = build
      BY <2>1, <2>6 DEF Hello, JoinRefused, Join, tables
    <2>7. CASE Event
      BY <2>5, <2>6, <2>7 DEF Event
    <2> QED BY <2>4, <2>7 DEF Next, vars, tables
  <1> SUFFICES ASSUME build.impl = "python", MaxSeats <= 3 PROVE ToldParts'
    BY <1>1 DEF ToldInv, ToldParts
  <1>2. ToldParts
    BY DEF ToldInv, ToldParts
  <1>3. CASE UNCHANGED vars
    BY <1>2, <1>3, ToldSame DEF vars, tables, ToldParts
  <1>4. CASE Step
    BY <1>2, <1>4, EachTold, LiveTold, CallsTold DEF Step
  <1>5. CASE Event
    BY <1>2, <1>5, EventTold
  <1> QED BY <1>3, <1>4, <1>5 DEF Next

(***************************************************************************)
(* In the Python server, with up to three seats, a console was last told   *)
(* the truth about its room: START with the members of its match, the      *)
(* roster of the room it waits in, or that it is in none.  In the middle   *)
(* of a cascade a loop in progress still owes it the frame, and a loop     *)
(* that announces a room that has changed runs out before it reaches       *)
(* anybody.                                                                *)
(***************************************************************************)
THEOREM ConsolesToldTruth ==
  ASSUME NoRename
  PROVE  Spec => []ToldTruth
  <1> DEFINE Inv == TablesInv /\ ToldInv
  <1>1. Init => Inv
    <2> SUFFICES ASSUME Init PROVE ToldInv
      BY TablesInit
    <2>1. \A k \in 1..Len(stack) : FALSE
      BY EmptySeq DEF Init
    <2>2. AllRight
      BY DEF Init, AllRight
    <2> QED BY <2>1, <2>2, QuietStack DEF ToldInv
  <1>2. Inv /\ [Next]_vars => Inv'
    BY TablesStep, ToldStep
  <1>3. Inv => ToldTruth
    <2> SUFFICES ASSUME TablesInv, ToldInv, build.impl = "python", MaxSeats <= 3, Idle
                 PROVE  \A c \in live :
                          /\ room[c] = NoRoom => told[c] \in {Dissolved, PeerLeft}
                          /\ (room[c] # NoRoom /\ ~started[room[c]]) => told[c] = RoomFrame(members[room[c]])
                          /\ (room[c] # NoRoom /\ started[room[c]]) => told[c] = StartFrame(members[room[c]])
      BY DEF ToldTruth, SurvivorsBackInLobby, RosterCurrent
    <2>1. \A k \in 1..Len(stack) : FALSE
      BY EmptySeq DEF Idle
    <2>2. AllRight
      BY <2>1, Settled DEF ToldInv, ToldParts
    <2> QED BY <2>2 DEF AllRight, Right, Proper, Goodbyes
  <1> QED BY <1>1, <1>2, <1>3, PTL DEF Spec
=============================================================================
