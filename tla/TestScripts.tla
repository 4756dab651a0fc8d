---------------------------- MODULE TestScripts -----------------------------
(***************************************************************************)
(* The scripts of the two server tests, as sequences of steps:             *)
(*                                                                         *)
(*  - the protocol gate, tools/bbnet_client_sim.py: simulated consoles     *)
(*    that assert every frame they get;                                    *)
(*  - the differential, tools/server_diff.py: scenarios that are played to *)
(*    both relays and only compared.                                       *)
(*                                                                         *)
(* ServerTests says what a step does.  A connection is known by the label  *)
(* the script gives it; payloads no assertion looks into are small tokens. *)
(***************************************************************************)
EXTENDS RelayCore

\* The steps.
BootStep(impl, autoGo) == [op |-> "boot", impl |-> impl, autoGo |-> autoGo]
Conn(c) == [op |-> "conn", who |-> c]
Tell(c, items) == [op |-> "tell", who |-> c, items |-> items]
Close(c) == [op |-> "close", who |-> c]
Expect(c, want) == [op |-> "expect", who |-> c, want |-> want]
Until(c, want) == [op |-> "until", who |-> c, want |-> want]
Refused(c) == [op |-> "refused", who |-> c]
Silence(c) == [op |-> "silence", who |-> c]
Pause == [op |-> "pause"]
OneSeed == [op |-> "oneseed"]
Stop(wants) == [op |-> "stop", wants |-> wants]
Sync == [op |-> "sync"]
Finish == [op |-> "finish"]
Compare(impl, name) == [op |-> "compare", impl |-> impl, name |-> name]

\* Frames from a console.
HelloF(ver, n) == [type |-> "HELLO", ver |-> ver, name |-> n]
ListF == [type |-> "LIST"]
JoinF(n) == [type |-> "JOIN", name |-> n]
GoF == [type |-> "GO"]
PingF == [type |-> "PING"]
ByeF == [type |-> "BYE"]
Data(type, what) == [type |-> type, data |-> what]
CrcF(seat, tick, crc) == [type |-> "CRC", seat |-> seat, tick |-> tick, crc |-> crc]
Part == [type |-> "PART"]
BadLen == [type |-> "BADLEN"]
Odd == [type |-> "$7F"]

Each(cs, steps(_)) == FlattenSeq([i \in DOMAIN cs |-> steps(cs[i])])
Upto(a, b) == [i \in 1..(b - a + 1) |-> a + i - 1]

-----------------------------------------------------------------------------
(* The protocol gate.                                                      *)

\* Cli(): connect and say HELLO.
Cli(c, ver) == <<Conn(c), Tell(c, <<HelloF(ver, c)>>)>>
Gets(type) == [type |-> type]

\* start_server(): a first connection only probes the port.
Start(autoGo) == <<BootStep("py", autoGo), Conn("PROBE"), Close("PROBE")>>

Enter(c) == Cli(c, 2) \o <<Expect(c, Gets("LOBBY"))>>
AllGet(cs, want) == Each(cs, LAMBDA c : <<Expect(c, want)>>)

\* lobby() and lobby_status(): EVE asks, and finds n listed like that.
Asks(n, status) ==
  <<Tell("EVE", <<ListF>>),
    Expect("EVE", [type |-> "LOBBY", entry |-> [name |-> n, status |-> status]])>>
St(n) == <<n >= Seats, n>>

Players == SubSeq(<<"ALICE", "BOB", "CAROL", "DAVE">>, 1, Seats)
Others(cs, c) == SelectSeq(cs, LAMBDA x : x # c)
Seat(c) == (CHOOSE i \in DOMAIN Players : Players[i] = c) - 1

\* Items 1 to 3 of scenario_main: hello, a refused old protocol, the room.
GateRoom ==
  Start(0)
  \o Cli("ALICE", 2) \o <<Expect("ALICE", LobbyFrame(<<>>))>>
  \o Cli("OLDGUY", 1) \o <<Refused("OLDGUY"), Close("OLDGUY")>>
  \o Each(Tail(Players), LAMBDA c : Cli(c, 2))
  \o AllGet(Tail(Players), Gets("LOBBY"))
  \o Enter("EVE")
  \o Asks("ALICE", St(1))
  \o <<Tell("BOB", <<JoinF("ALICE")>>)>>
  \o AllGet(<<"ALICE", "BOB">>, RoomFrame(<<"ALICE", "BOB">>))
  \o Asks("ALICE", St(2)) \o Asks("BOB", St(2))
  \o Each(Upto(3, Seats), LAMBDA i :
       <<Tell(Players[i], <<JoinF(IF i = 3 THEN "BOB" ELSE "ALICE")>>)>>
       \o AllGet(SubSeq(Players, 1, i), IF i = 3 THEN RoomFrame(SubSeq(Players, 1, i))
                                        ELSE [type |-> "ROOM", size |-> i]))
  \o Asks("ALICE", <<TRUE, Seats>>)
  \o <<Tell("EVE", <<JoinF("ALICE")>>), Expect("EVE", Gets("LOBBY"))>>

\* Items 4, 2b and 7b: a guest's GO and the host's, the started room.
GateStart ==
  <<Tell("BOB", <<GoF>>), Tell("ALICE", <<GoF>>)>>
  \o Each(Players, LAMBDA c : <<Expect(c, [type |-> "START", seat |-> Seat(c), who |-> Players])>>)
  \o <<OneSeed>>
  \o Asks("ALICE", <<TRUE, Seats>>)
  \o <<Tell("EVE", <<JoinF("ALICE")>>), Expect("EVE", Gets("LOBBY"))>>

\* crc() for every seat, BOB's perhaps different; each then sees the others'.
Round(tick, usual, bobs) ==
  Each(Players, LAMBDA c :
         <<Tell(c, <<CrcF(Seat(c), tick, IF c = "BOB" THEN bobs ELSE usual)>>)>>)
  \o Each(Players, LAMBDA c : AllGet([i \in 1..(Seats - 1) |-> c], Gets("CRC")))

\* Items 5 and 6: verbatim fanout, four agreed rounds and one that is not.
GateMatch ==
  <<Tell("ALICE", <<Data("INPUT", "five")>>)>>
  \o AllGet(Tail(Players), Data("INPUT", "five"))
  \o <<Silence("ALICE"), Tell("ALICE", <<Data("STATE", "begin")>>)>>
  \o AllGet(Tail(Players), Data("STATE", "begin"))
  \o Each(<<64, 128, 192, 256>>, LAMBDA t : Round(t, "beef", "beef"))
  \o Round(320, "1111", "2222")

\* Items 10, 8 and 9: the ways a room ends; then the server's log.
GateEnd ==
  LET tail == IF Seats >= 3 THEN "GUESTB" ELSE "GUESTC" IN
  <<Close("BOB")>>
  \o AllGet(Others(Players, "BOB"), PeerLeftFrame(1, "BOB"))
  \o <<Pause>>
  \o Asks("ALICE", <<FALSE, 1>>)
  \o Each(SubSeq(Players, 3, Seats), LAMBDA c : Asks(c, <<FALSE, 1>>))
  \o Each(<<"EVE">> \o SubSeq(Players, 3, Seats), LAMBDA c : <<Close(c)>>)
  \o Enter("GUESTA")
  \o <<Tell("GUESTA", <<JoinF("ALICE")>>)>>
  \o AllGet(<<"ALICE", "GUESTA">>, Gets("ROOM"))
  \o (IF Seats >= 3
      THEN Enter("GUESTB")
           \o <<Tell("GUESTB", <<JoinF("ALICE")>>)>>
           \o AllGet(<<"ALICE", "GUESTA", "GUESTB">>, Gets("ROOM"))
           \o <<Close("GUESTA"), Expect("ALICE", RoomFrame(<<"ALICE", "GUESTB">>)),
                Expect("GUESTB", Gets("ROOM"))>>
      ELSE <<Close("GUESTA"), Expect("ALICE", RoomFrame(<<>>))>>
           \o Enter("GUESTC")
           \o <<Tell("GUESTC", <<JoinF("ALICE")>>)>>
           \o AllGet(<<"ALICE", "GUESTC">>, Gets("ROOM")))
  \o <<Close("ALICE"), Expect(tail, RoomFrame(<<>>)), Close(tail),
       Stop({<<"match", <<>>>>, <<"CRC MISMATCH", <<320>>>>, <<"crc ok", <<256, 4>>>>,
             <<"peer left", <<>>>>})>>

\* scenario_autogo.
GateAutoGo ==
  Start(2)
  \o Enter("EVE") \o Enter("FRANK")
  \o <<Tell("FRANK", <<JoinF("EVE")>>)>>
  \o AllGet(<<"EVE", "FRANK">>, Gets("ROOM"))
  \o <<Expect("EVE", [type |-> "START", seat |-> 0, size |-> 2]),
       Expect("FRANK", [type |-> "START", seat |-> 1, size |-> 2]),
       Close("EVE"), Close("FRANK"), Stop({})>>

\* scenario_full: the joins are sent without waiting for each other.
GateFull ==
  LET last == Players[Seats] IN
  Start(Seats)
  \o Each(Players, LAMBDA c : Cli(c, 2)) \o AllGet(Players, Gets("LOBBY"))
  \o Each(Tail(Players), LAMBDA c : <<Tell(c, <<JoinF("ALICE")>>)>>)
  \o Each(Players, LAMBDA c : <<Until(c, [type |-> "START", seat |-> Seat(c), who |-> Players])>>)
  \o Enter("PZZZ")
  \o <<Tell("PZZZ", <<JoinF("ALICE")>>), Expect("PZZZ", Gets("LOBBY")),
       Tell(last, <<Data("INPUT", "seven")>>)>>
  \o AllGet(Others(Players, last), Data("INPUT", "seven"))
  \o <<Silence(last)>>
  \o Each(Players \o <<"PZZZ">>, LAMBDA c : <<Close(c)>>) \o <<Stop({})>>

Gate == GateRoom \o GateStart \o GateMatch \o GateEnd \o GateAutoGo \o GateFull

-----------------------------------------------------------------------------
(* The scenarios of the differential (protocol 2).                         *)

\* Ctx.hello(): connect, identify, and sync, which "is not optional".
Hello_racing(c) == <<Conn(c), Tell(c, <<HelloF(Proto, c)>>)>>
Hello(c) == <<Conn(c), Tell(c, <<HelloF(Proto, c)>>), Sync>>

Hellos(cs) == Each(cs, LAMBDA c : Hello(c))
Say(c, f) == <<Tell(c, <<f>>), Sync>>
AllSay(cs, f) == Each(cs, LAMBDA c : <<Tell(c, <<f>>)>>) \o <<Sync>>
Leaves(c) == <<Close(c), Sync>>
ToMatch == Say("BOB", JoinF("ALICE")) \o Say("ALICE", GoF)

Roster ==
  Hellos(<<"ALICE", "BOB", "CAROL", "DAVE">>)
  \o <<Conn("OLDGUY")>> \o Say("OLDGUY", HelloF(1, "OLDGUY"))
  \o AllSay(<<"ALICE", "BOB", "CAROL", "DAVE">>, ListF)
  \o Say("CAROL", HelloF(2, "CAROL2"))
  \o Hello("EVE") \o Say("EVE", HelloF(2, "BOB"))
  \o AllSay(<<"ALICE", "DAVE", "EVE">>, ListF)
  \o Leaves("ALICE")
  \o AllSay(<<"DAVE", "EVE">>, ListF)

RoomScenario ==
  Hellos(<<"ALICE", "BOB", "CAROL">>)
  \o Say("BOB", JoinF("ALICE")) \o Say("CAROL", ListF)
  \o Say("CAROL", JoinF(IF Seats >= 3 THEN "BOB" ELSE "ALICE"))
  \o Say("BOB", JoinF("ALICE"))
  \o Say("CAROL", JoinF("NOBODY"))
  \o Say("ALICE", JoinF("ALICE"))
  \o Hello("DAVE") \o Say("DAVE", JoinF("DAVE")) \o Say("DAVE", JoinF("THISNAMEISWAYTOOLONG"))

StartScenario ==
  Hellos(<<"ALICE", "BOB">>)
  \o Say("ALICE", GoF) \o Say("BOB", JoinF("ALICE")) \o Say("BOB", GoF)
  \o Say("ALICE", GoF) \o Say("ALICE", GoF)
  \o Hello("CAROL") \o Say("CAROL", JoinF("ALICE"))
  \o Say("ALICE", PingF)

\* CrcCap stands for 64: six ticks too many are reported by one seat, and
\* then the first and the last of them by the other.
RelayScenario ==
  LET first == 100
      last == 105 + CrcCap IN
  Hellos(<<"ALICE", "BOB">>)
  \o Say("ALICE", Data("INPUT", "one")) \o Say("BOB", JoinF("ALICE"))
  \o Say("ALICE", Data("INPUT", "one")) \o Say("ALICE", GoF)
  \o Say("ALICE", Data("INPUT", "seven")) \o Say("BOB", Data("STATE", "chunk"))
  \o Say("ALICE", Data("RESYNC", "five"))
  \o Each(<<0, 1, 2, 3>>, LAMBDA t :
       <<Tell("ALICE", <<CrcF(0, t, "2211")>>), Tell("BOB", <<CrcF(1, t, "2211")>>)>>)
  \o <<Sync, Tell("ALICE", <<CrcF(0, 9, "aa")>>), Tell("BOB", <<CrcF(1, 9, "bb")>>), Sync>>
  \o Each(Upto(first, last), LAMBDA t : <<Tell("ALICE", <<CrcF(0, t, "4433")>>)>>) \o <<Sync>>
  \o Say("BOB", CrcF(1, first, "4433")) \o Say("BOB", CrcF(1, last, "4433"))
  \o <<Tell("ALICE", <<CrcF(3, 200, "01")>>), Tell("BOB", <<CrcF(1, 200, "02")>>), Sync>>

Drops ==
  Hellos(<<"ALICE", "BOB">>) \o ToMatch \o Leaves("BOB")
  \o Hellos(<<"CAROL", "DAVE">>) \o Say("DAVE", JoinF("CAROL")) \o Leaves("CAROL")
  \o Hellos(<<"EVE", "FRANK">>) \o Say("FRANK", JoinF("EVE")) \o Leaves("FRANK")
  \o Hello("GRACE") \o Say("GRACE", ByeF)
  \o Hello("HEIDI") \o Say("HEIDI", HelloF(2, "!!"))

\* Frames in pieces; the sleeps between the pieces only make it likely that
\* they arrive apart.
Framing ==
  Hello("ALICE")
  \o <<Tell("ALICE", <<Part>>), Tell("ALICE", <<PingF>>), Sync>>
  \o <<Tell("ALICE", <<PingF, PingF>>), Sync>>
  \o <<Tell("ALICE", <<ListF>>), Tell("ALICE", <<ListF, ListF>>), Sync>>
  \o <<Tell("ALICE", <<Part>>), Tell("ALICE", <<Part>>), Tell("ALICE", <<JoinF("NOBODY")>>), Sync>>
  \o <<Conn("BADLEN")>> \o Say("BADLEN", BadLen)
  \o <<Conn("BADLEN2")>> \o Say("BADLEN2", BadLen)
  \o Hello("DAVE") \o Say("DAVE", Odd)

\* Not among the scenarios run by default: only with --scenario limits.
IPs == <<"IP0", "IP1", "IP2", "IP3", "IP4", "IP5", "IP6", "IP7", "IP8">>
Limits == Each(SubSeq(IPs, 1, PerIP + 1), LAMBDA c : <<Conn(c)>>) \o <<Sync>>

\* run() of one scenario against each relay, and compare().
Played(name, steps) ==
  Each(<<"py", "c">>, LAMBDA impl :
    <<BootStep(impl, 0)>> \o steps \o <<Sync, Finish, Compare(impl, name)>>)

Differential ==
  Played("roster", Roster) \o Played("rooms", RoomScenario) \o Played("start", StartScenario)
  \o Played("relay", RelayScenario) \o Played("drops", Drops) \o Played("framing", Framing)
  \o Played("limits", Limits)
=============================================================================
