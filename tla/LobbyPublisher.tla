--------------------------- MODULE LobbyPublisher ---------------------------
(***************************************************************************)
(* The FujiNet Lobby publisher: the relay's main thread hands the newest   *)
(* player count to one worker thread, which POSTs it to the Lobby service  *)
(* (LobbyPublisher in server/intv_relay_server.py, and server/c/src/       *)
(* lobby.c where the two differ).                                          *)
(*                                                                         *)
(* A critical section of either thread is one step.  Waiting on a          *)
(* condition is a place of its own, because what ends the wait is the      *)
(* question: in the Python the worker's one-second debounce waits on an    *)
(* Event that only shutdown sets; in C it waits on the same condition      *)
(* variable as the idle worker, which every update signals.                *)
(*                                                                         *)
(* A request is a body on the wire.  It arrives at the Lobby or fails, and *)
(* either way the thread that sent it goes on.  A request the thread gave  *)
(* up may still be under way, and the Lobby may take it at any later time. *)
(* The time-outs of a POST are per socket operation and do not cover name  *)
(* resolution, so nothing bounds how long it lasts.  The failure counter   *)
(* and the fixed fields of the body are left out.                          *)
(***************************************************************************)
EXTENDS Integers

CONSTANTS
  Counts,     \* player counts
  Nothing     \* no body

Body == [count : Counts, status : {"online", "offline"}]

ASSUME LobbyAssumption ==
  /\ 0 \in Counts
  /\ Nothing \notin Body

Threads == {"worker", "main"}

VARIABLES
  impl,       \* the implementation that runs: "python" or "c"
  worker,     \* where the worker thread is
  main,       \* where the main thread is
  cur,        \* payload["curplayers"]
  dirty,      \* _dirty
  stopping,   \* _stopping; the payload's status is offline from then on
  stopEvt,    \* _stop_evt
  final,      \* the snapshot shutdown took
  wire,       \* the request each thread has under way
  view,       \* what the Lobby was last told
  late,       \* requests given up that may still arrive
  rested,     \* a second has passed since the worker's last POST ended
  waited      \* the twelve seconds of shutdown's join have passed

vars == <<impl, worker, main, cur, dirty, stopping, stopEvt, final, wire, view, late,
          rested, waited>>

TypeOK ==
  /\ impl \in {"python", "c"}
  /\ worker \in {"check", "asleep", "posting", "posted", "debounce", "done"}
  /\ main \in {"running", "stopping", "joining", "posting", "exit"}
  /\ cur \in Counts
  /\ dirty \in BOOLEAN /\ stopping \in BOOLEAN /\ stopEvt \in BOOLEAN
  /\ final \in Body \cup {Nothing}
  /\ wire \in [Threads -> Body \cup {Nothing}]
  /\ view \in Body \cup {Nothing}
  /\ late \subseteq Body
  /\ rested \in BOOLEAN /\ waited \in BOOLEAN

\* The worker has been started; main() calls update(0) next.
Init ==
  /\ impl \in {"python", "c"}
  /\ worker = "check"
  /\ main = "running"
  /\ cur = 0
  /\ dirty = FALSE
  /\ stopping = FALSE
  /\ stopEvt = FALSE
  /\ final = Nothing
  /\ wire = [t \in Threads |-> Nothing]
  /\ view = Nothing
  /\ late = {}
  /\ rested = TRUE
  /\ waited = FALSE

Online_toomany(n) == [count |-> n + 1, status |-> "online"]
Online(n) == [count |-> n, status |-> "online"]
Offline(n) == [count |-> n, status |-> "offline"]

-----------------------------------------------------------------------------
(* What wakes the worker.                                                  *)

\* The waits the condition variable ends.
Wakes_shared == {"asleep", "debounce"}
Wakes_none == {}
Wakes == IF impl = "c" THEN {"asleep", "debounce"} ELSE {"asleep"}
Notified == IF worker \in Wakes THEN "check" ELSE worker

-----------------------------------------------------------------------------
(* The main thread.                                                        *)

\* update(): lobby_update is called on every change of the directory.
Update(n) ==
  /\ main = "running"
  /\ cur' = n
  /\ dirty' = TRUE
  /\ worker' = Notified
  /\ UNCHANGED <<impl, main, stopping, stopEvt, final, wire, view, late,
                 rested, waited>>

\* shutdown(), its critical section.  The C port sets stop_evt in it too.
Shutdown ==
  /\ main = "running"
  /\ main' = "stopping"
  /\ stopping' = TRUE
  /\ stopEvt' = (impl = "c")
  /\ final' = Offline(cur)
  /\ worker' = Notified
  /\ UNCHANGED <<impl, cur, dirty, wire, view, late, rested, waited>>

\* _stop_evt.set(): ends the debounce.
SetStopEvent ==
  /\ main = "stopping"
  /\ main' = "joining"
  /\ stopEvt' = TRUE
  /\ worker' = IF worker = "debounce" THEN "check" ELSE worker
  /\ UNCHANGED <<impl, cur, dirty, stopping, final, wire, view, late, rested,
                 waited>>

\* _worker.join(timeout=12) returns: the worker is done, or its time is over.
JoinReturns_patient == worker = "done"
JoinReturns == worker = "done" \/ waited

\* The time-out of the join.
TwelveSeconds ==
  /\ main = "joining"
  /\ ~waited
  /\ waited' = TRUE
  /\ UNCHANGED <<impl, worker, main, cur, dirty, stopping, stopEvt, final,
                 wire, view,
                 late, rested>>

\* The last POST, from the main thread.
FinalPost ==
  /\ main = "joining"
  /\ JoinReturns
  /\ main' = "posting"
  /\ wire' = [wire EXCEPT !["main"] = final]
  /\ UNCHANGED <<impl, worker, cur, dirty, stopping, stopEvt, final, view,
                 late, rested, waited>>

\* The process ends, and the worker with it (a daemon thread; detached in C).
Exit ==
  /\ main = "posting"
  /\ wire["main"] = Nothing
  /\ main' = "exit"
  /\ UNCHANGED <<impl, worker, cur, dirty, stopping, stopEvt, final, wire,
                 view, late, rested, waited>>

-----------------------------------------------------------------------------
(* The worker thread.                                                      *)

Alive == main # "exit"

\* The critical section of _run: sleep, stop, or take a snapshot and post it.
Check ==
  /\ Alive
  /\ worker = "check"
  /\ dirty' = FALSE
  /\ \/ /\ ~dirty /\ ~stopping
        /\ worker' = "asleep"
        /\ UNCHANGED wire
     \/ /\ stopping
        /\ worker' = "done"
        /\ UNCHANGED wire
     \/ /\ dirty /\ ~stopping
        /\ worker' = "posting"
        /\ wire' = [wire EXCEPT !["worker"] = Online(cur)]
  /\ UNCHANGED <<impl, main, cur, stopping, stopEvt, final, view, late, rested,
                 waited>>

\* The wait times out after KEEPALIVE_SECS: re-POST as-is.
Overdue_kept == dirty
Overdue == TRUE
Keepalive ==
  /\ Alive
  /\ worker = "asleep"
  /\ dirty' = Overdue
  /\ worker' = "check"
  /\ UNCHANGED <<impl, main, cur, stopping, stopEvt, final, wire, view, late,
                 rested, waited>>

\* The POST returns, successful or not.
PostReturns ==
  /\ Alive
  /\ worker = "posting"
  /\ wire["worker"] = Nothing
  /\ worker' = "posted"
  /\ rested' = FALSE
  /\ UNCHANGED <<impl, main, cur, dirty, stopping, stopEvt, final, wire, view,
                 late, waited>>

\* The debounce begins, unless the stop event is set already.
Debounce ==
  /\ Alive
  /\ worker = "posted"
  /\ worker' = IF stopEvt THEN "check" ELSE "debounce"
  /\ UNCHANGED <<impl, main, cur, dirty, stopping, stopEvt, final, wire, view,
                 late, rested, waited>>

\* The debounce times out.
DebounceOver ==
  /\ Alive
  /\ worker = "debounce"
  /\ rested
  /\ worker' = "check"
  /\ UNCHANGED <<impl, main, cur, dirty, stopping, stopEvt, final, wire, view,
                 late, rested, waited>>

\* pthread_cond_timedwait may return for no reason.
SpuriousWakeup ==
  /\ Alive
  /\ impl = "c"
  /\ worker \in Wakes
  /\ worker' = "check"
  /\ UNCHANGED <<impl, main, cur, dirty, stopping, stopEvt, final, wire, view,
                 late, rested, waited>>

-----------------------------------------------------------------------------
(* The world outside.                                                      *)

\* A request reaches the Lobby.
Arrive(t) ==
  /\ wire[t] # Nothing
  /\ view' = wire[t]
  /\ wire' = [wire EXCEPT ![t] = Nothing]
  /\ UNCHANGED <<impl, worker, main, cur, dirty, stopping, stopEvt, final,
                 late, rested, waited>>

\* A request fails for the thread that sent it: it is refused or lost, or it
\* is given up and stays under way.
Fail(t) ==
  /\ wire[t] # Nothing
  /\ wire' = [wire EXCEPT ![t] = Nothing]
  /\ late' \in {late, late \cup {wire[t]}}
  /\ UNCHANGED <<impl, worker, main, cur, dirty, stopping, stopEvt, final,
                 view, rested,
                 waited>>

\* A request that was given up reaches the Lobby after all (another one with
\* the same body may still be under way).
LateArrives(b) ==
  /\ b \in late
  /\ view' = b
  /\ late' \in {late, late \ {b}}
  /\ UNCHANGED <<impl, worker, main, cur, dirty, stopping, stopEvt, final,
                 wire, rested,
                 waited>>

\* A second passes.
Second ==
  /\ ~rested
  /\ rested' = TRUE
  /\ UNCHANGED <<impl, worker, main, cur, dirty, stopping, stopEvt, final,
                 wire, view, late, waited>>

-----------------------------------------------------------------------------
Main == \/ \E n \in Counts : Update(n)
        \/ Shutdown \/ SetStopEvent \/ TwelveSeconds \/ FinalPost \/ Exit
Worker == \/ Check \/ Keepalive \/ PostReturns \/ Debounce \/ DebounceOver
          \/ SpuriousWakeup
World == \/ Second
         \/ \E t \in Threads : Arrive(t) \/ Fail(t)
         \/ \E b \in Body : LateArrives(b)

Next == Main \/ Worker \/ World

Spec == Init /\ [][Next]_vars

(***************************************************************************)
(* Threads run and timers expire; the keepalive deadline is absolute, so   *)
(* waking up and going back to sleep does not put it off. While the relay  *)
(* runs a request of the worker ends, and the Lobby is not down for ever:  *)
(* a worker that keeps posting gets through now and then. Of a request     *)
(* that meets a shutdown nothing is assumed; it may hang.                  *)
(***************************************************************************)
Fairness ==
  /\ WF_vars(Check) /\ SF_vars(Keepalive) /\ WF_vars(PostReturns)
  /\ WF_vars(Debounce) /\ WF_vars(DebounceOver) /\ WF_vars(Second)
  /\ WF_vars(SetStopEvent) /\ WF_vars(TwelveSeconds) /\ WF_vars(FinalPost)
  /\ SF_vars(Arrive("worker") /\ ~stopping)

FairSpec == Spec /\ Fairness

-----------------------------------------------------------------------------
(* Properties.                                                             *)

(***************************************************************************)
(* "At most once per second": the Python worker starts no POST within a    *)
(* second of the end of its last one, whatever the churn of updates.  (In  *)
(* C an update that comes during the debounce ends it.)                    *)
(***************************************************************************)
OncePerSecond ==
  [][(impl = "python" /\ worker # "posting" /\ worker' = "posting") => rested]_vars

(***************************************************************************)
(* No wakeup is lost: the worker does not sit out the keepalive interval   *)
(* with an update to publish or a shutdown to obey, nor the debounce when  *)
(* it has been told to stop, wherever it was when the news came.           *)
(***************************************************************************)
NoLostWakeup ==
  /\ worker = "asleep" => ~dirty /\ ~stopping
  /\ worker = "debounce" => ~stopEvt

(***************************************************************************)
(* A shutdown sends its "offline" whatever the worker is doing when it     *)
(* comes: asleep, in its debounce, about to post, or in a POST that never  *)
(* ends (join(timeout=12), pthread_timedjoin_np).                          *)
(***************************************************************************)
SaysGoodbye == stopping ~> main \in {"posting", "exit"}

(***************************************************************************)
(* The newest count gets published, however often the POSTs before it      *)
(* failed: the keepalive repairs a lost update.                            *)
(***************************************************************************)
Published ==
  \A n \in Counts :
    (dirty /\ cur = n) ~> (view = Online(n) \/ cur # n \/ stopping)
=============================================================================
