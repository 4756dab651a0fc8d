----------------------- MODULE LobbyPublisherProofs -------------------------
(***************************************************************************)
(* Proofs about LobbyPublisher, for any set of player counts and for both  *)
(* implementations.                                                        *)
(***************************************************************************)
EXTENDS LobbyPublisher, TLAPS

(***************************************************************************)
(* What is true of the two threads in every state, part by part.           *)
(***************************************************************************)

\* The flags of a shutdown follow the main thread.
Flags ==
  /\ stopping <=> main # "running"
  /\ stopEvt => stopping
  /\ main \in {"joining", "posting", "exit"} => stopEvt
  /\ stopping => final \in Body /\ final.status = "offline"

\* Only a posting thread has a request under way, and whose it is shows.
Requests ==
  /\ wire["worker"] # Nothing => worker = "posting" /\ wire["worker"].status = "online"
  /\ wire["main"] # Nothing => main = "posting" /\ wire["main"].status = "offline"

\* In the Python a worker that may take a snapshot has rested.
Rested ==
  (impl = "python" /\ worker \in {"check", "asleep"} /\ ~stopping) => rested

IInv == TypeOK /\ NoLostWakeup /\ Flags /\ Requests /\ Rested

(***************************************************************************)
(* The parts hold when the publisher has been constructed.                 *)
(***************************************************************************)
LEMMA InitIInv == Init => IInv
  BY LobbyAssumption
  DEF Init, IInv, TypeOK, NoLostWakeup, Flags, Requests, Rested, Threads

(***************************************************************************)
(* Every step of main(), update() and shutdown() keeps them.               *)
(***************************************************************************)
LEMMA MainIInv ==
  ASSUME IInv, Main PROVE IInv'
  <1> USE LobbyAssumption
          DEF IInv, TypeOK, NoLostWakeup, Flags, Requests, Rested,
              Threads
  <1>1. CASE \E n \in Counts : Update(n)
    BY <1>1 DEF Update, Notified, Wakes
  <1>2. CASE Shutdown
    <2>1. Offline(cur) \in Body /\ Offline(cur).status = "offline"
      BY DEF Offline, Body
    <2> QED BY <1>2, <2>1 DEF Shutdown, Notified, Wakes
  <1>3. CASE SetStopEvent
    BY <1>3 DEF SetStopEvent
  <1>4. CASE FinalPost
    BY <1>4 DEF FinalPost
  <1>5. CASE Exit
    BY <1>5 DEF Exit
  <1>6. CASE TwelveSeconds
    BY <1>6 DEF TwelveSeconds
  <1> QED BY <1>1, <1>2, <1>3, <1>4, <1>5, <1>6 DEF Main

(***************************************************************************)
(* Every step of the worker keeps them.                                    *)
(***************************************************************************)
LEMMA WorkerIInv ==
  ASSUME IInv, Worker PROVE IInv'
  <1> USE LobbyAssumption
          DEF IInv, TypeOK, NoLostWakeup, Flags, Requests, Rested,
              Threads
  <1>1. CASE Check
    <2>1. Online(cur) \in Body /\ Online(cur).status = "online"
      BY DEF Online, Body
    <2> QED BY <1>1, <2>1 DEF Check, Alive
  <1>2. CASE Keepalive
    BY <1>2 DEF Keepalive, Overdue, Alive
  <1>3. CASE PostReturns
    BY <1>3 DEF PostReturns, Alive
  <1>4. CASE Debounce
    BY <1>4 DEF Debounce, Alive
  <1>5. CASE DebounceOver
    BY <1>5 DEF DebounceOver, Alive
  <1>6. CASE SpuriousWakeup
    BY <1>6 DEF SpuriousWakeup, Wakes, Alive
  <1> QED BY <1>1, <1>2, <1>3, <1>4, <1>5, <1>6 DEF Worker

(***************************************************************************)
(* The network and the clock keep them.                                    *)
(***************************************************************************)
LEMMA WorldIInv ==
  ASSUME IInv, World PROVE IInv'
  <1> USE LobbyAssumption
          DEF IInv, TypeOK, NoLostWakeup, Flags, Requests, Rested,
              Threads
  <1>1. CASE Second
    BY <1>1 DEF Second
  <1>2. ASSUME NEW t \in Threads, Arrive(t) PROVE IInv'
    BY <1>2 DEF Arrive
  <1>3. ASSUME NEW t \in Threads, Fail(t) PROVE IInv'
    BY <1>3 DEF Fail
  <1>4. ASSUME NEW b \in Body, LateArrives(b) PROVE IInv'
    BY <1>4 DEF LateArrives
  <1> QED BY <1>1, <1>2, <1>3, <1>4 DEF World

(***************************************************************************)
(* The inductive invariant: flags, requests and places of the two threads  *)
(* agree in every state of both implementations.                           *)
(***************************************************************************)
THEOREM PublisherInvariant == Spec => []IInv
  <1>1. IInv /\ UNCHANGED vars => IInv'
    BY DEF IInv, TypeOK, NoLostWakeup, Flags, Requests, Rested, vars
  <1>2. IInv /\ [Next]_vars => IInv'
    BY <1>1, MainIInv, WorkerIInv, WorldIInv DEF Next
  <1> QED BY InitIInv, <1>2, PTL DEF Spec

(***************************************************************************)
(* The publisher's lock, its flags, the snapshot and the bodies on the     *)
(* wire keep their types in both threads.                                  *)
(***************************************************************************)
THEOREM TypeCorrect == Spec => []TypeOK
  <1>1. IInv => TypeOK BY DEF IInv
  <1> QED BY PublisherInvariant, <1>1, PTL

(***************************************************************************)
(* No wakeup is lost, in the Python and in the C.                          *)
(***************************************************************************)
THEOREM WakeupsKept == Spec => []NoLostWakeup
  <1>1. IInv => NoLostWakeup BY DEF IInv
  <1> QED BY PublisherInvariant, <1>1, PTL

(***************************************************************************)
(* In the Python the worker posts at most once per second, whatever the    *)
(* churn.  (In the C port an update ends the debounce.)                    *)
(***************************************************************************)
THEOREM RateLimited == Spec => OncePerSecond
  <1>1. ASSUME IInv, [Next]_vars
        PROVE  [(impl = "python" /\ worker # "posting" /\ worker' = "posting") => rested]_vars
    <2> SUFFICES ASSUME Next, impl = "python", worker # "posting", worker' = "posting"
                 PROVE  rested
      BY <1>1
    <2>1. CASE Main
      BY <2>1 DEF Main, Update, Shutdown, SetStopEvent, TwelveSeconds, FinalPost,
                  Exit, Notified
    <2>2. CASE Worker
      BY <1>1, <2>2 DEF Worker, Check, Keepalive, PostReturns, Debounce,
                        DebounceOver, SpuriousWakeup, IInv, Rested
    <2>3. CASE World
      BY <2>3 DEF World, Second, Arrive, Fail, LateArrives
    <2> QED BY <2>1, <2>2, <2>3 DEF Next
  <1> QED BY PublisherInvariant, <1>1, PTL DEF Spec, OncePerSecond
=============================================================================
