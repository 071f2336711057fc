------------------------------ MODULE Detector ------------------------------
(***************************************************************************)
(* Failure detection: every worker's heartbeat thread (worker.cc) against  *)
(* the coordinator's monitor thread (coordinator.cc).                      *)
(*                                                                         *)
(* Time is counted in ticks, SEC of them to a second, because the code     *)
(* truncates elapsed time to whole seconds before it compares.  A thread   *)
(* that sleeps wakes at the end of its sleep or up to MaxDelay ticks       *)
(* later; MaxDelay also covers the RPC and the waiting for the mutexes.    *)
(* Absolute time is not kept: age[w] is the present time minus             *)
(* lastHeartbeat_[w].                                                      *)
(***************************************************************************)
EXTENDS Integers

CONSTANTS Worker,    \* the worker processes
          SEC,       \* ticks per second
          MaxDelay   \* longest lateness of a thread or an RPC, in ticks

\* The heartbeat gap must stay below the 4 whole seconds at which the
\* monitor gives a worker up; with sleep(2) that leaves less than 2 seconds.
ASSUME DetectorAssumption ==
  /\ SEC \in Nat \ {0}
  /\ MaxDelay \in Nat
  /\ MaxDelay < 2 * SEC

VARIABLES
  proc,       \* proc[w]: "serving", "shutdown" (admin_workerUp false), "crashed"
  timer,      \* timer[w]: ticks since w's heartbeat thread went to sleep
  inflight,   \* inflight[w]: a Heartbeat RPC of w has been sent, not handled
  age,        \* age[w]: ticks since lastHeartbeat_[w], at most Stale
  alive,      \* the workers whose isAlive entry is true
  mpc,        \* monitor thread: "asleep", or "sampled" once it has read now
  mtimer,     \* ticks since the monitor went to sleep
  sampleAge,  \* ticks since the monitor read now
  since,      \* history: ticks since proc[w] started or stopped serving
  beating     \* history: a heartbeat of w was handled since w is serving

senderVars == <<proc, timer, inflight>>
monitorVars == <<alive, mpc, mtimer, sampleAge>>
historyVars == <<since, beating>>
vars == <<proc, timer, inflight, age, alive, mpc, mtimer, sampleAge, since, beating>>

HEARTBEAT_INTERVAL == 2 * SEC

MONITOR_PERIOD == 3 * SEC

\* An age the monitor judges down whatever its sampling delay.  lastHeartbeat_
\* starts an hour in the past, and larger ages are not told apart.
Stale == 4 * SEC + MaxDelay

\* A worker that stopped serving this long ago is marked down: the heartbeat
\* in flight, an age just under 4 seconds sampled and written late, one more
\* period, and the next sample written late.
DetectionBound == 7 * SEC - 1 + 4 * MaxDelay

\* A worker that has been serving this long is marked alive: its first
\* heartbeat, one more period of the monitor, and the update written late.
AdmissionBound == 3 * SEC + 3 * MaxDelay

SinceCap == DetectionBound + 1

Capped(n, cap) == IF n < cap THEN n + 1 ELSE cap

Serving(w) == proc[w] = "serving"

\* duration_cast<seconds>: truncation toward zero.
WholeSeconds(ticks) ==
  IF ticks >= 0 THEN ticks \div SEC ELSE -((-ticks) \div SEC)

-----------------------------------------------------------------------------
Init ==
  /\ proc = [w \in Worker |-> "crashed"]
  /\ timer = [w \in Worker |-> HEARTBEAT_INTERVAL]
  /\ inflight = [w \in Worker |-> FALSE]
  /\ age = [w \in Worker |-> Stale]
  /\ alive = {}
  /\ mpc = "asleep"
  /\ mtimer = 0
  /\ sampleAge = 0
  /\ since = [w \in Worker |-> SinceCap]
  /\ beating = [w \in Worker |-> FALSE]

(* The heartbeat thread: while up, a synchronous Heartbeat, then sleep(2). *)

SendHeartbeat(w) ==
  /\ Serving(w)
  /\ ~inflight[w]
  /\ timer[w] >= HEARTBEAT_INTERVAL
  /\ inflight' = [inflight EXCEPT ![w] = TRUE]
  /\ UNCHANGED <<proc, timer, age, monitorVars, historyVars>>

\* Mutation: the handler acknowledges without recording the time.
HeartbeatUnrecorded(w) ==
  /\ inflight[w]
  /\ inflight' = [inflight EXCEPT ![w] = FALSE]
  /\ timer' = [timer EXCEPT ![w] = 0]
  /\ beating' = [beating EXCEPT ![w] = Serving(w)]
  /\ UNCHANGED <<proc, age, monitorVars, since>>

\* The handler records the time; the RPC returns and the thread sleeps.
Heartbeat(w) ==
  /\ inflight[w]
  /\ inflight' = [inflight EXCEPT ![w] = FALSE]
  /\ age' = [age EXCEPT ![w] = 0]
  /\ timer' = [timer EXCEPT ![w] = 0]
  /\ beating' = [beating EXCEPT ![w] = Serving(w)]
  /\ UNCHANGED <<proc, monitorVars, since>>

(* The worker's life: admin SHUTDOWN and RESTART, process death and launch. *)
(* A worker serves again only when its recovery is over.                    *)

SetProc(w, p) ==
  /\ proc' = [proc EXCEPT ![w] = p]
  /\ since' = [since EXCEPT ![w] = IF Serving(w) \/ p = "serving" THEN 0 ELSE @]
  /\ beating' = [beating EXCEPT ![w] = FALSE]

Shutdown(w) ==
  /\ Serving(w)
  /\ SetProc(w, "shutdown")
  /\ UNCHANGED <<timer, inflight, age, monitorVars>>

Restart(w) ==
  /\ proc[w] = "shutdown"
  /\ SetProc(w, "serving")
  /\ UNCHANGED <<timer, inflight, age, monitorVars>>

\* A request already sent may still reach the coordinator.
Crash(w) ==
  /\ proc[w] # "crashed"
  /\ SetProc(w, "crashed")
  /\ \E sent \in {inflight[w], FALSE} : inflight' = [inflight EXCEPT ![w] = sent]
  /\ UNCHANGED <<timer, age, monitorVars>>

\* A new process beats at once.  Its recovery takes longer than a request
\* its predecessor left behind.
Launch(w) ==
  /\ proc[w] = "crashed"
  /\ ~inflight[w]
  /\ SetProc(w, "serving")
  /\ timer' = [timer EXCEPT ![w] = HEARTBEAT_INTERVAL]
  /\ UNCHANGED <<inflight, age, monitorVars>>

(* The monitor thread: sleep(3), read the clock, then take both mutexes. *)

MonitorSample ==
  /\ mpc = "asleep"
  /\ mtimer >= MONITOR_PERIOD
  /\ mpc' = "sampled"
  /\ sampleAge' = 0
  /\ UNCHANGED <<senderVars, age, alive, mtimer, historyVars>>

\* Mutation: >= for >.
IsDownAtThree(w) == WholeSeconds(age[w] - sampleAge) >= 3

IsDown(w) == WholeSeconds(age[w] - sampleAge) > 3

\* Mutations: the pass only sets isAlive, only clears it, or does not sleep.
MonitorOnlyAdds ==
  /\ mpc = "sampled"
  /\ alive' = alive \cup {w \in Worker : ~IsDown(w)}
  /\ mpc' = "asleep"
  /\ mtimer' = 0
  /\ sampleAge' = 0
  /\ UNCHANGED <<senderVars, age, historyVars>>

MonitorOnlyClears ==
  /\ mpc = "sampled"
  /\ alive' = {w \in alive : ~IsDown(w)}
  /\ mpc' = "asleep"
  /\ mtimer' = 0
  /\ sampleAge' = 0
  /\ UNCHANGED <<senderVars, age, historyVars>>

MonitorNoSleep ==
  /\ mpc = "sampled"
  /\ alive' = {w \in Worker : ~IsDown(w)}
  /\ mpc' = "asleep"
  /\ mtimer' = mtimer
  /\ sampleAge' = 0
  /\ UNCHANGED <<senderVars, age, historyVars>>

MonitorUpdate ==
  /\ mpc = "sampled"
  /\ alive' = {w \in Worker : ~IsDown(w)}
  /\ mpc' = "asleep"
  /\ mtimer' = 0
  /\ sampleAge' = 0
  /\ UNCHANGED <<senderVars, age, historyVars>>

(* Time passes unless a thread is as late as it may be. *)

SenderInTime(w) ==
  (Serving(w) \/ inflight[w]) => timer[w] < HEARTBEAT_INTERVAL + MaxDelay

MonitorInTime ==
  IF mpc = "asleep" THEN mtimer < MONITOR_PERIOD + MaxDelay
                    ELSE sampleAge < MaxDelay

Tick ==
  /\ \A w \in Worker : SenderInTime(w)
  /\ MonitorInTime
  /\ timer' = [w \in Worker |-> IF Serving(w) \/ inflight[w]
                                THEN timer[w] + 1
                                ELSE Capped(timer[w], HEARTBEAT_INTERVAL)]
  /\ age' = [w \in Worker |-> Capped(age[w], Stale)]
  /\ since' = [w \in Worker |-> Capped(since[w], SinceCap)]
  /\ mtimer' = mtimer + 1
  /\ sampleAge' = IF mpc = "sampled" THEN sampleAge + 1 ELSE 0
  /\ UNCHANGED <<proc, inflight, alive, mpc, beating>>

Next ==
  \/ \E w \in Worker : \/ SendHeartbeat(w) \/ Heartbeat(w)
                       \/ Shutdown(w) \/ Restart(w)
                       \/ Crash(w) \/ Launch(w)
  \/ MonitorSample
  \/ MonitorUpdate
  \/ Tick

Spec == Init /\ [][Next]_vars

\* Threads run and the clock advances; nobody has to stop or start a worker.
Fairness ==
  /\ \A w \in Worker : WF_vars(SendHeartbeat(w)) /\ WF_vars(Heartbeat(w))
  /\ WF_vars(MonitorSample)
  /\ WF_vars(MonitorUpdate)
  /\ WF_vars(Tick)

FairSpec == Spec /\ Fairness

-----------------------------------------------------------------------------
\* Every variable of the two threads stays within the range its sleeps and
\* the lateness bound give it.
TypeOK ==
  /\ proc \in [Worker -> {"serving", "shutdown", "crashed"}]
  /\ timer \in [Worker -> 0..HEARTBEAT_INTERVAL + MaxDelay]
  /\ inflight \in [Worker -> BOOLEAN]
  /\ age \in [Worker -> 0..Stale]
  /\ alive \subseteq Worker
  /\ mpc \in {"asleep", "sampled"}
  /\ mtimer \in 0..MONITOR_PERIOD + 2 * MaxDelay
  /\ sampleAge \in 0..MaxDelay
  /\ since \in [Worker -> 0..SinceCap]
  /\ beating \in [Worker -> BOOLEAN]

\* The monitor never takes a worker down that is serving and has beaten since
\* it began to serve: truncation, the comparison with 3 and the clock read
\* before the mutexes leave room for the longest gap between two heartbeats.
NoFalseDown ==
  [][\A w \in Worker : w \in alive /\ beating[w] => w \in alive']_vars

\* isAlive of a worker that has not served for longer than DetectionBound is
\* false: Lookup stops naming it, and its restart is not sent to itself.
DetectedInTime ==
  \A w \in Worker : ~Serving(w) /\ since[w] > DetectionBound => w \notin alive

\* isAlive of a worker that has been serving for longer than AdmissionBound
\* is true: the coordinator routes to it again.
AdmittedInTime ==
  \A w \in Worker : Serving(w) /\ since[w] > AdmissionBound => w \in alive

\* The inductive invariant behind the three properties above.  While a
\* heartbeat thread sleeps its timer is the age of its last heartbeat; a
\* serving worker of which that is not true is about to send its first one.
\* Each pass of the monitor renews what isAlive says about since.
SenderInv ==
  \A w \in Worker :
    /\ timer[w] < HEARTBEAT_INTERVAL => age[w] = timer[w]
    /\ Serving(w) /\ age[w] # timer[w] => timer[w] >= HEARTBEAT_INTERVAL + since[w]
    /\ beating[w] => Serving(w) /\ age[w] = timer[w]
    /\ inflight[w] => timer[w] >= HEARTBEAT_INTERVAL
    /\ inflight[w] /\ ~Serving(w) => timer[w] >= HEARTBEAT_INTERVAL + since[w]
    /\ ~Serving(w) /\ ~inflight[w] /\ age[w] < Stale => since[w] <= age[w] + MaxDelay

MonitorInv ==
  /\ mpc = "asleep" => sampleAge = 0 /\ mtimer <= MONITOR_PERIOD + MaxDelay
  /\ mpc = "sampled" => mtimer <= MONITOR_PERIOD + MaxDelay + sampleAge
  /\ \A w \in Worker :
       /\ ~Serving(w) /\ w \in alive => since[w] <= mtimer + 4 * SEC - 1 + 2 * MaxDelay
       /\ Serving(w) /\ w \notin alive => since[w] <= mtimer + MaxDelay

IInv == TypeOK /\ SenderInv /\ MonitorInv

\* A worker that dies and is not launched again ends up marked down for good,
\* and one that goes on serving ends up marked alive for good.
ViewConverges ==
  \A w \in Worker :
    /\ (<>[](proc[w] = "crashed")) => <>[](w \notin alive)
    /\ (<>[](proc[w] = "serving")) => <>[](w \in alive)
=============================================================================
