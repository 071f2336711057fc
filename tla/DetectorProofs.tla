--------------------------- MODULE DetectorProofs ---------------------------
(***************************************************************************)
(* The bounds of the failure detector, for any set of workers, any clock   *)
(* resolution and any lateness below two seconds.                          *)
(***************************************************************************)
EXTENDS Detector, TLAPS

\* Whole seconds exceed 3 exactly from 4 * SEC ticks on: what truncation makes
\* of the comparison in monitorThreadFunc.
LEMMA DownMeansFourSeconds ==
  \A x \in Int : WholeSeconds(x) > 3 <=> x >= 4 * SEC
<1> SUFFICES ASSUME NEW x \in Int
             PROVE  WholeSeconds(x) > 3 <=> x >= 4 * SEC
  OBVIOUS
<1>1. CASE x >= 0
  <2>1. PICK q \in Nat, r \in 0..SEC-1 : x = SEC * q + r /\ x \div SEC = q
    BY <1>1, DetectorAssumption
  <2>2. q > 3 => SEC * q >= SEC * 4
    BY DetectorAssumption
  <2>3. q <= 3 => SEC * q <= SEC * 3
    BY DetectorAssumption
  <2> QED
    BY <1>1, <2>1, <2>2, <2>3, DetectorAssumption DEF WholeSeconds
<1>2. CASE x < 0
  <2>1. (-x) \div SEC \in Nat
    BY <1>2, DetectorAssumption
  <2> QED
    BY <1>2, <2>1, DetectorAssumption DEF WholeSeconds
<1> QED BY <1>1, <1>2

-----------------------------------------------------------------------------
LEMMA InitInv == Init => IInv
  BY DetectorAssumption
  DEF Init, IInv, TypeOK, SenderInv, MonitorInv, Serving, HEARTBEAT_INTERVAL,
      MONITOR_PERIOD, Stale, SinceCap, DetectionBound

LEMMA SetProcType ==
  ASSUME TypeOK, NEW w \in Worker, NEW p \in {"serving", "shutdown", "crashed"},
         SetProc(w, p)
  PROVE  /\ proc' \in [Worker -> {"serving", "shutdown", "crashed"}]
         /\ since' \in [Worker -> 0..SinceCap]
         /\ beating' \in [Worker -> BOOLEAN]
  BY DetectorAssumption DEF TypeOK, SetProc, SinceCap, DetectionBound

LEMMA NextType == IInv /\ [Next]_vars => TypeOK'
<1> SUFFICES ASSUME IInv, [Next]_vars PROVE TypeOK'
  OBVIOUS
<1> USE DetectorAssumption DEF IInv
<1>1. CASE UNCHANGED vars
  BY <1>1 DEF vars, TypeOK
<1>2. ASSUME NEW w \in Worker, SendHeartbeat(w) PROVE TypeOK'
  BY <1>2 DEF SendHeartbeat, TypeOK, monitorVars, historyVars
<1>3. ASSUME NEW w \in Worker, Heartbeat(w) PROVE TypeOK'
  BY <1>3 DEF Heartbeat, TypeOK, monitorVars, Serving, Stale, HEARTBEAT_INTERVAL
<1>4. ASSUME NEW w \in Worker, Shutdown(w) PROVE TypeOK'
  BY <1>4, SetProcType DEF Shutdown, TypeOK, monitorVars
<1>5. ASSUME NEW w \in Worker, Restart(w) PROVE TypeOK'
  BY <1>5, SetProcType DEF Restart, TypeOK, monitorVars
<1>6. ASSUME NEW w \in Worker, Crash(w) PROVE TypeOK'
  BY <1>6, SetProcType DEF Crash, TypeOK, monitorVars
<1>7. ASSUME NEW w \in Worker, Launch(w) PROVE TypeOK'
  BY <1>7, SetProcType DEF Launch, TypeOK, monitorVars, HEARTBEAT_INTERVAL
<1>8. CASE MonitorSample
  BY <1>8 DEF MonitorSample, TypeOK, senderVars, historyVars
<1>9. CASE MonitorUpdate
  BY <1>9 DEF MonitorUpdate, TypeOK, senderVars, historyVars, MONITOR_PERIOD
<1>10. CASE Tick
  BY <1>10 DEF Tick, TypeOK, MonitorInv, SenderInTime, MonitorInTime, Capped,
               Stale, SinceCap, DetectionBound, HEARTBEAT_INTERVAL, MONITOR_PERIOD
<1> QED
  BY <1>1, <1>2, <1>3, <1>4, <1>5, <1>6, <1>7, <1>8, <1>9, <1>10 DEF Next

LEMMA NextSender == IInv /\ [Next]_vars => SenderInv'
<1> SUFFICES ASSUME IInv, [Next]_vars PROVE SenderInv'
  OBVIOUS
<1> USE DetectorAssumption
    DEF IInv, TypeOK, SenderInv, Serving, HEARTBEAT_INTERVAL, Stale, SinceCap, DetectionBound
<1>1. CASE UNCHANGED vars
  BY <1>1 DEF vars
<1>2. ASSUME NEW v \in Worker, SendHeartbeat(v) PROVE SenderInv'
  BY <1>2 DEF SendHeartbeat, monitorVars, historyVars
<1>3. ASSUME NEW v \in Worker, Heartbeat(v) PROVE SenderInv'
  BY <1>3 DEF Heartbeat, monitorVars
<1>4. ASSUME NEW v \in Worker, Shutdown(v) PROVE SenderInv'
  BY <1>4 DEF Shutdown, SetProc, monitorVars
<1>5. ASSUME NEW v \in Worker, Restart(v) PROVE SenderInv'
  BY <1>5 DEF Restart, SetProc, monitorVars
<1>6. ASSUME NEW v \in Worker, Crash(v) PROVE SenderInv'
  <2>1. PICK sent \in BOOLEAN : /\ inflight' = [inflight EXCEPT ![v] = sent]
                                /\ sent => inflight[v]
    BY <1>6 DEF Crash
  <2>2. since'[v] \in {0, since[v]} /\ (Serving(v) => since'[v] = 0)
    BY <1>6 DEF Crash, SetProc
  <2> QED
    BY <1>6, <2>1, <2>2 DEF Crash, SetProc, monitorVars
<1>7. ASSUME NEW v \in Worker, Launch(v) PROVE SenderInv'
  BY <1>7 DEF Launch, SetProc, monitorVars
<1>8. CASE MonitorSample
  BY <1>8 DEF MonitorSample, senderVars, historyVars
<1>9. CASE MonitorUpdate
  BY <1>9 DEF MonitorUpdate, senderVars, historyVars
<1>10. CASE Tick
  BY <1>10 DEF Tick, SenderInTime, Capped
<1> QED
  BY <1>1, <1>2, <1>3, <1>4, <1>5, <1>6, <1>7, <1>8, <1>9, <1>10 DEF Next

LEMMA NextMonitor == IInv /\ [Next]_vars => MonitorInv'
<1> SUFFICES ASSUME IInv, [Next]_vars PROVE MonitorInv'
  OBVIOUS
<1> USE DetectorAssumption
    DEF IInv, TypeOK, MonitorInv, Serving, MONITOR_PERIOD, SinceCap, DetectionBound
<1>1. CASE UNCHANGED vars
  BY <1>1 DEF vars
<1>2. ASSUME NEW v \in Worker, SendHeartbeat(v) PROVE MonitorInv'
  BY <1>2 DEF SendHeartbeat, monitorVars, historyVars
<1>3. ASSUME NEW v \in Worker, Heartbeat(v) PROVE MonitorInv'
  BY <1>3 DEF Heartbeat, monitorVars
<1>4. ASSUME NEW v \in Worker, Shutdown(v) PROVE MonitorInv'
  BY <1>4 DEF Shutdown, SetProc, monitorVars
<1>5. ASSUME NEW v \in Worker, Restart(v) PROVE MonitorInv'
  BY <1>5 DEF Restart, SetProc, monitorVars
<1>6. ASSUME NEW v \in Worker, Crash(v) PROVE MonitorInv'
  BY <1>6 DEF Crash, SetProc, monitorVars
<1>7. ASSUME NEW v \in Worker, Launch(v) PROVE MonitorInv'
  BY <1>7 DEF Launch, SetProc, monitorVars
<1>8. CASE MonitorSample
  BY <1>8 DEF MonitorSample, senderVars, historyVars
<1>9. CASE MonitorUpdate
  <2>1. ASSUME NEW w \in Worker
        PROVE  w \in alive' <=> age[w] - sampleAge < 4 * SEC
    BY <1>9, DownMeansFourSeconds DEF MonitorUpdate, IsDown
  <2>2. ASSUME NEW w \in Worker, ~Serving(w), w \in alive'
        PROVE  since[w] <= 4 * SEC - 1 + 2 * MaxDelay
    BY <2>1, <2>2 DEF SenderInv, Stale, HEARTBEAT_INTERVAL
  <2>3. ASSUME NEW w \in Worker, Serving(w), w \notin alive'
        PROVE  since[w] <= MaxDelay
    BY <2>1, <2>3 DEF SenderInv, HEARTBEAT_INTERVAL
  <2> QED
    BY <1>9, <2>2, <2>3 DEF MonitorUpdate, senderVars, historyVars
<1>10. CASE Tick
  BY <1>10 DEF Tick, MonitorInTime, Capped
<1> QED
  BY <1>1, <1>2, <1>3, <1>4, <1>5, <1>6, <1>7, <1>8, <1>9, <1>10 DEF Next

LEMMA Invariance == Spec => []IInv
<1>1. IInv /\ [Next]_vars => IInv'
  BY NextType, NextSender, NextMonitor DEF IInv
<1> QED
  BY InitInv, <1>1, PTL DEF Spec

-----------------------------------------------------------------------------
\* The threads' counters stay in the ranges their sleeps and the lateness
\* bound give them.
THEOREM TypeCorrect == Spec => []TypeOK
  BY Invariance, PTL DEF IInv

\* The coordinator stops routing to a worker at most DetectionBound ticks
\* after it stopped serving.
THEOREM Detection == Spec => []DetectedInTime
<1>1. IInv => DetectedInTime
  BY DetectorAssumption
  DEF IInv, TypeOK, MonitorInv, DetectedInTime, DetectionBound, MONITOR_PERIOD
<1> QED
  BY Invariance, <1>1, PTL

\* The coordinator routes to a worker again at most AdmissionBound ticks
\* after it began to serve.
THEOREM Admission == Spec => []AdmittedInTime
<1>1. IInv => AdmittedInTime
  BY DetectorAssumption
  DEF IInv, TypeOK, MonitorInv, AdmittedInTime, AdmissionBound, MONITOR_PERIOD
<1> QED
  BY Invariance, <1>1, PTL

\* A pass of the monitor never takes down a serving worker that has beaten.
THEOREM NoFalseDowns == Spec => NoFalseDown
<1>1. IInv /\ [Next]_vars
        => [\A w \in Worker : w \in alive /\ beating[w] => w \in alive']_vars
  <2> SUFFICES ASSUME IInv, Next, NEW w \in Worker, w \in alive, beating[w]
               PROVE  w \in alive'
    OBVIOUS
  <2>1. CASE MonitorUpdate
    <3>1. age[w] <= HEARTBEAT_INTERVAL + MaxDelay
      BY DEF IInv, TypeOK, SenderInv
    <3>2. age[w] - sampleAge \in Int /\ age[w] - sampleAge < 4 * SEC
      BY <3>1, DetectorAssumption DEF IInv, TypeOK, HEARTBEAT_INTERVAL, Stale
    <3> QED
      BY <2>1, <3>2, DownMeansFourSeconds, DetectorAssumption DEF MonitorUpdate, IsDown
  <2>2. CASE ~MonitorUpdate
    <3>1. alive' = alive
      BY <2>2 DEF Next, SendHeartbeat, Heartbeat, Shutdown, Restart, Crash, Launch,
                  MonitorSample, Tick, monitorVars
    <3> QED BY <3>1
  <2> QED BY <2>1, <2>2
<1> QED
  BY Invariance, <1>1, PTL DEF Spec, NoFalseDown
=============================================================================
