------------------------------ MODULE Cluster -------------------------------
(***************************************************************************)
(* One tablet on its three holders, the coordinator that directs clients   *)
(* to one of them, and the clients: routing (coordinator.cc), replication  *)
(* and recovery (worker.cc) and the two-call client protocol of Lookup     *)
(* then Put or Get (kvs_client.h, client_pool.h).                          *)
(*                                                                         *)
(* The tablet is one cell; its values are the numbers of the writes, 0     *)
(* when it is absent.  What a worker's log and checkpoint would restore is *)
(* disk[w]; how they do it is the subject of Tablet.  Time is the subject  *)
(* of Detector: here lastHeartbeat_[w] is recent or not, and that of a     *)
(* serving worker that has sent a heartbeat stays recent (NoFalseDown).    *)
(* An RPC is handled before its sender is declared dead.                   *)
(***************************************************************************)
EXTENDS Ring

CONSTANTS
  TABLET,     \* the tablet modelled
  Writer,     \* clients that put
  Reader,     \* clients that get
  MaxWrites,  \* bound: number of puts
  Failing,    \* holders that may stop
  ColdStart,  \* whether the cluster may also begin with every worker down
  Comeback    \* which workers come back: "never"; "orderly", one at a time and
              \* not during a write; "any"

ASSUME ClusterAssumption ==
  /\ TABLET \in Workers
  /\ MaxWrites \in Nat
  /\ Writer \cap Reader = {}
  /\ Failing \subseteq Workers
  /\ ColdStart \in BOOLEAN
  /\ Comeback \in {"never", "orderly", "any"}

Holder == {w \in Workers : Holds(w, TABLET)}

Client == Writer \cup Reader

VARIABLES
  up,       \* up[w]: "serving"; "shutdown" by the admin, then "restarting";
            \* "crashed", then "launching", then "starting" (heartbeats sent,
            \* server not yet listening)
  mem,      \* mem[w]: the cell in memory
  disk,     \* disk[w]: the cell that local recovery would give
  src,      \* src[w]: the holder a recovering worker copies from, or ALLDEAD
  heard,    \* heard[w]: the recent heartbeat of w is from its present life
            \* ("now") or an earlier one ("before"), or there is none ("never")
  alive,    \* the holders whose isAlive entry is true
  pc,       \* pc[c]: "idle", "found" after Lookup, "replicate"
  at,       \* at[c]: the worker a client calls
  ver,      \* ver[c]: the number of the write a writer makes
  todo,     \* todo[c]: the replicas its handler has still to send it to
  started,  \* history: number of writes begun
  acked,    \* history: the largest number of an acknowledged write
  floor     \* history: floor[c]: acked when the client's operation began

workerVars == <<up, mem, disk, src>>
masterVars == <<heard, alive>>
clientVars == <<pc, at, ver, todo>>
historyVars == <<started, acked, floor>>
vars == <<up, mem, disk, src, heard, alive, pc, at, ver, todo, started, acked, floor>>

ComingBack == {w \in Holder : up[w] \in {"restarting", "launching", "starting"}}

Serving == {w \in Holder : up[w] = "serving"}

\* The coordinator's view is that of the workers, and none is coming back.
Settled == ComingBack = {} /\ alive = Serving

-----------------------------------------------------------------------------
\* Every worker serves and is known to, or none has been launched yet.
Init ==
  /\ \/ /\ up = [w \in Holder |-> "serving"]
        /\ heard = [w \in Holder |-> "now"]
        /\ alive = Holder
     \/ /\ ColdStart
        /\ up = [w \in Holder |-> "crashed"]
        /\ heard = [w \in Holder |-> "never"]
        /\ alive = {}
  /\ mem = [w \in Holder |-> 0]
  /\ disk = [w \in Holder |-> 0]
  /\ src = [w \in Holder |-> ALLDEAD]
  /\ pc = [c \in Client |-> "idle"]
  /\ at = [c \in Client |-> ALLDEAD]
  /\ ver = [c \in Client |-> 0]
  /\ todo = [c \in Client |-> <<>>]
  /\ started = 0
  /\ acked = 0
  /\ floor = [c \in Client |-> 0]

(* Coordinator *)

\* Mutation: RESTART sets admin_workerUp before it recovers.
HeartbeatEarly(w) ==
  /\ up[w] \in {"serving", "starting", "restarting"}
  /\ heard' = [heard EXCEPT ![w] = "now"]
  /\ UNCHANGED <<workerVars, alive, clientVars, historyVars>>

Heartbeat(w) ==
  /\ up[w] \in {"serving", "starting"}
  /\ heard' = [heard EXCEPT ![w] = "now"]
  /\ UNCHANGED <<workerVars, alive, clientVars, historyVars>>

\* Four seconds without a heartbeat.
Forget(w) ==
  /\ heard[w] = "before"
  /\ heard' = [heard EXCEPT ![w] = "never"]
  /\ UNCHANGED <<workerVars, alive, clientVars, historyVars>>

\* Mutation: isAlive is never cleared.
MonitorOnlyAdds ==
  /\ alive' = alive \cup {w \in Holder : heard[w] # "never"}
  /\ UNCHANGED <<workerVars, heard, clientVars, historyVars>>

monitorThreadFunc ==
  /\ alive' = {w \in Holder : heard[w] # "never"}
  /\ UNCHANGED <<workerVars, heard, clientVars, historyVars>>

\* Mutation: any live holder will do.
LookupAnyHolder(c) ==
  /\ pc[c] = "idle"
  /\ c \in Writer => started < MaxWrites /\ (Comeback = "orderly" => Settled)
  /\ \E w \in alive : at' = [at EXCEPT ![c] = w]
  /\ pc' = [pc EXCEPT ![c] = "found"]
  /\ floor' = [floor EXCEPT ![c] = acked]
  /\ UNCHANGED <<workerVars, masterVars, ver, todo, started, acked>>

\* Without a live holder the client's call fails and nothing happens.
Lookup(c) ==
  /\ pc[c] = "idle"
  /\ getCurrentPrimary(alive, TABLET) # ALLDEAD
  /\ c \in Writer => started < MaxWrites /\ (Comeback = "orderly" => Settled)
  /\ at' = [at EXCEPT ![c] = getCurrentPrimary(alive, TABLET)]
  /\ pc' = [pc EXCEPT ![c] = "found"]
  /\ floor' = [floor EXCEPT ![c] = acked]
  /\ UNCHANGED <<workerVars, masterVars, ver, todo, started, acked>>

-----------------------------------------------------------------------------
(* Requests *)

Return(c) ==
  /\ pc' = [pc EXCEPT ![c] = "idle"]
  /\ at' = [at EXCEPT ![c] = ALLDEAD]
  /\ ver' = [ver EXCEPT ![c] = 0]
  /\ todo' = [todo EXCEPT ![c] = <<>>]
  /\ floor' = [floor EXCEPT ![c] = 0]

\* The worker is shut down (UNAVAILABLE) or unreachable.
CallFails(c) ==
  /\ pc[c] = "found"
  /\ up[at[c]] # "serving"
  /\ Return(c)
  /\ UNCHANGED <<workerVars, masterVars, started, acked>>

Get(c) ==
  /\ c \in Reader
  /\ pc[c] = "found"
  /\ up[at[c]] = "serving"
  /\ Return(c)
  /\ UNCHANGED <<workerVars, masterVars, started, acked>>

\* Put up to the replication: applied to memory and logged.
Put(c) ==
  /\ c \in Writer
  /\ pc[c] = "found"
  /\ up[at[c]] = "serving"
  /\ started < MaxWrites
  /\ started' = started + 1
  /\ ver' = [ver EXCEPT ![c] = started + 1]
  /\ mem' = [mem EXCEPT ![at[c]] = started + 1]
  /\ disk' = [disk EXCEPT ![at[c]] = started + 1]
  /\ todo' = [todo EXCEPT ![c] = getReplicasForReplication(at[c], TABLET)]
  /\ pc' = [pc EXCEPT ![c] = "replicate"]
  /\ UNCHANGED <<up, src, masterVars, at, acked, floor>>

\* Mutations: only the first replica is written; a replica that is down is
\* waited for.
ReplicateFirstOnly(c) ==
  /\ pc[c] = "replicate"
  /\ todo[c] # <<>>
  /\ LET r == Head(todo[c]) IN
       \/ /\ up[r] = "serving"
          /\ mem' = [mem EXCEPT ![r] = ver[c]]
          /\ disk' = [disk EXCEPT ![r] = ver[c]]
       \/ /\ up[r] # "serving"
          /\ UNCHANGED <<mem, disk>>
  /\ todo' = [todo EXCEPT ![c] = <<>>]
  /\ UNCHANGED <<up, src, masterVars, pc, at, ver, historyVars>>

ReplicateWaiting(c) ==
  /\ pc[c] = "replicate"
  /\ todo[c] # <<>>
  /\ up[Head(todo[c])] = "serving"
  /\ mem' = [mem EXCEPT ![Head(todo[c])] = ver[c]]
  /\ disk' = [disk EXCEPT ![Head(todo[c])] = ver[c]]
  /\ todo' = [todo EXCEPT ![c] = Tail(todo[c])]
  /\ UNCHANGED <<up, src, masterVars, pc, at, ver, historyVars>>

\* ReplicatePut on the next replica; a refusal or an error is only logged.
ReplicatePut(c) ==
  /\ pc[c] = "replicate"
  /\ todo[c] # <<>>
  /\ LET r == Head(todo[c]) IN
       \/ /\ up[r] = "serving"
          /\ mem' = [mem EXCEPT ![r] = ver[c]]
          /\ disk' = [disk EXCEPT ![r] = ver[c]]
       \/ /\ up[r] # "serving"
          /\ UNCHANGED <<mem, disk>>
  /\ todo' = [todo EXCEPT ![c] = Tail(todo[c])]
  /\ UNCHANGED <<up, src, masterVars, pc, at, ver, historyVars>>

\* Mutation: acknowledged before it is replicated.
PutDoneEarly(c) ==
  /\ pc[c] = "replicate"
  /\ acked' = IF ver[c] > acked THEN ver[c] ELSE acked
  /\ Return(c)
  /\ UNCHANGED <<workerVars, masterVars, started>>

\* The Put handler returns OK.
PutDone(c) ==
  /\ pc[c] = "replicate"
  /\ todo[c] = <<>>
  /\ acked' = IF ver[c] > acked THEN ver[c] ELSE acked
  /\ Return(c)
  /\ UNCHANGED <<workerVars, masterVars, started>>

-----------------------------------------------------------------------------
(* Workers *)

\* Updates of other cells of the tablet reach MAX_UPDATE_COUNT: log and
\* checkpoint are replaced by what memory holds.
Checkpoint(w) ==
  /\ up[w] = "serving"
  /\ disk' = [disk EXCEPT ![w] = mem[w]]
  /\ UNCHANGED <<up, mem, src, masterVars, clientVars, historyVars>>

\* In an orderly cluster a worker stops only while no other one is coming
\* back, and never the last one.
MayStop(w) ==
  /\ w \in Failing
  /\ Comeback = "orderly" => ComingBack = {} /\ Serving \ {w} # {}

Stopped(w, how) ==
  /\ up' = [up EXCEPT ![w] = how]
  /\ heard' = [heard EXCEPT ![w] = IF heard[w] = "now" THEN "before" ELSE heard[w]]

Shutdown(w) ==
  /\ up[w] = "serving"
  /\ MayStop(w)
  /\ Stopped(w, "shutdown")
  /\ UNCHANGED <<mem, disk, src, alive, clientVars, historyVars>>

\* The process ends, and with it the handlers that run in it.
Die(w) ==
  /\ Stopped(w, "crashed")
  /\ mem' = [mem EXCEPT ![w] = 0]
  /\ src' = [src EXCEPT ![w] = ALLDEAD]
  /\ LET lost == {c \in Client : pc[c] = "replicate" /\ at[c] = w} IN
       /\ pc' = [c \in Client |-> IF c \in lost THEN "idle" ELSE pc[c]]
       /\ at' = [c \in Client |-> IF c \in lost THEN ALLDEAD ELSE at[c]]
       /\ ver' = [c \in Client |-> IF c \in lost THEN 0 ELSE ver[c]]
       /\ todo' = [c \in Client |-> IF c \in lost THEN <<>> ELSE todo[c]]
       /\ floor' = [c \in Client |-> IF c \in lost THEN 0 ELSE floor[c]]
  /\ UNCHANGED <<disk, alive, started, acked>>

Crash(w) ==
  /\ up[w] # "crashed"
  /\ MayStop(w)
  /\ Die(w)

MayComeBack ==
  \/ Comeback = "any"
  \/ /\ Comeback = "orderly"
     /\ Settled
     /\ \A c \in Writer : pc[c] = "idle"

\* recoverAllTablets asks the coordinator for a live holder (WorkerLookup).
WorkerLookup(w) ==
  /\ up[w] \in {"shutdown", "crashed"}
  /\ MayComeBack
  /\ up' = [up EXCEPT ![w] = IF up[w] = "shutdown" THEN "restarting" ELSE "launching"]
  /\ src' = [src EXCEPT ![w] = getCurrentPrimary(alive, TABLET)]
  /\ UNCHANGED <<mem, disk, masterVars, clientVars, historyVars>>

Recovered(w, v) ==
  /\ mem' = [mem EXCEPT ![w] = v]
  /\ src' = [src EXCEPT ![w] = ALLDEAD]
  /\ up' = [up EXCEPT ![w] = IF up[w] = "restarting" THEN "serving" ELSE "starting"]
  /\ UNCHANGED <<disk, masterVars, clientVars, historyVars>>

recoverFromLocal(w) ==
  /\ up[w] \in {"restarting", "launching"}
  /\ src[w] = ALLDEAD
  /\ Recovered(w, disk[w])

\* Mutations: the local state is preferred to the copy; memory is kept.
CopyNothing(w) ==
  /\ up[w] \in {"restarting", "launching"}
  /\ src[w] \notin {ALLDEAD, w}
  /\ Recovered(w, disk[w])

CopyNotApplied(w) ==
  /\ up[w] \in {"restarting", "launching"}
  /\ src[w] \notin {ALLDEAD, w}
  /\ Recovered(w, mem[w])

\* A failed CopyTablet answers "ERR ...", which leaves the tablet empty.
Copied(x) == IF up[x] = "serving" THEN mem[x] ELSE 0

CopyTablet(w) ==
  /\ up[w] \in {"restarting", "launching"}
  /\ src[w] \notin {ALLDEAD, w}
  /\ Recovered(w, Copied(src[w]))

\* The coordinator has not noticed that w stopped and names w itself, to which
\* w has no client: workerClientPtrs[host] is null and the process dies.
CopyFromSelf(w) ==
  /\ up[w] \in {"restarting", "launching"}
  /\ src[w] = w
  /\ Die(w)

\* RunServer, after StartHeartbeats.
Listen(w) ==
  /\ up[w] = "starting"
  /\ up' = [up EXCEPT ![w] = "serving"]
  /\ UNCHANGED <<mem, disk, src, masterVars, clientVars, historyVars>>

Master == monitorThreadFunc \/ \E w \in Holder : Heartbeat(w) \/ Forget(w)

Request(c) == CallFails(c) \/ Get(c) \/ Put(c) \/ ReplicatePut(c) \/ PutDone(c)

Recover(w) == recoverFromLocal(w) \/ CopyTablet(w) \/ CopyFromSelf(w) \/ Listen(w)

Next ==
  \/ Master
  \/ \E c \in Client : Lookup(c) \/ Request(c)
  \/ \E w \in Holder : Checkpoint(w) \/ Shutdown(w) \/ Crash(w) \/ WorkerLookup(w) \/ Recover(w)

Spec == Init /\ [][Next]_vars

\* Threads run; nobody has to call, to stop a worker or to start one.
Fairness ==
  /\ WF_vars(monitorThreadFunc)
  /\ \A w \in Holder : WF_vars(Heartbeat(w)) /\ WF_vars(Forget(w)) /\ WF_vars(Recover(w))
  /\ \A c \in Client : WF_vars(Request(c))

FairSpec == Spec /\ Fairness

-----------------------------------------------------------------------------
TypeOK ==
  /\ up \in [Holder -> {"serving", "shutdown", "restarting", "crashed", "launching", "starting"}]
  /\ mem \in [Holder -> 0..MaxWrites]
  /\ disk \in [Holder -> 0..MaxWrites]
  /\ src \in [Holder -> Holder \cup {ALLDEAD}]
  /\ heard \in [Holder -> {"now", "before", "never"}]
  /\ alive \in SUBSET Holder
  /\ pc \in [Client -> {"idle", "found", "replicate"}]
  /\ at \in [Client -> Holder \cup {ALLDEAD}]
  /\ ver \in [Client -> 0..MaxWrites]
  /\ todo \in [Client -> Seq(Holder)]
  /\ started \in 0..MaxWrites
  /\ acked \in 0..MaxWrites
  /\ floor \in [Client -> 0..MaxWrites]

\* A client that reads where Lookup sent it, however long ago that was, sees
\* at least every write acknowledged before it asked.
ReadsSeeAcked ==
  \A c \in Reader : pc[c] = "found" /\ up[at[c]] = "serving" => mem[at[c]] >= floor[c]

\* Clients in one worker's stead: the holder Lookup names and that answers has
\* every acknowledged write.
FailoverKeepsAcked ==
  LET p == getCurrentPrimary(alive, TABLET) IN
    p # ALLDEAD /\ up[p] = "serving" => mem[p] >= acked

\* A holder that never stops has every acknowledged write, however the others
\* stop and come back: a write is sent to all later holders, and none is made
\* at a later holder while this one is known to be alive.
SurvivorsKeepAcked ==
  \A w \in Holder \ Failing : mem[w] >= acked

\* A worker sends heartbeats, and so is readmitted, only once its tablets are
\* recovered.
HeartbeatsAfterRecovery ==
  \A w \in Holder : heard[w] = "now" => up[w] \in {"serving", "starting"}

\* "Replication is write-through from primary to replicas": while no worker has
\* failed, the holders agree whenever no write is under way.
ReplicasAgree ==
  Serving = Holder /\ (\A c \in Writer : pc[c] # "replicate") =>
    \A w, x \in Holder : mem[w] = mem[x]

\* Failover completes: when workers stop for good, Lookup in the end names a
\* serving holder as long as one is left, and ALLDEAD otherwise.
FailoverCompletes ==
  <>[](/\ Serving # {} => getCurrentPrimary(alive, TABLET) \in Serving
       /\ Serving = {} => getCurrentPrimary(alive, TABLET) = ALLDEAD)

\* Every call returns, whichever workers stop or come back meanwhile: the
\* nested replication calls of Put wait for nobody that is gone.
CallsReturn == \A c \in Client : pc[c] # "idle" ~> pc[c] = "idle"

-----------------------------------------------------------------------------
(* The inductive invariant behind SurvivorsKeepAcked and, when workers do  *)
(* not come back, FailoverKeepsAcked and ReadsSeeAcked, for one writer.    *)

\* The numbers of the writes are in the order of the writes.
OneWriter == \A a, b \in Writer : a = b

\* Serving holders that will not come back from anywhere: they have been
\* serving from the beginning.
Lasting == {w \in Holder : up[w] = "serving" /\ (w \notin Failing \/ Comeback = "never")}

\* The holders a write made at x is meant for.
Reach(x) ==
  LET r == getReplicasForReplication(x, TABLET)
  IN  {x} \cup {r[i] : i \in 1..Len(r)}

LastingInv ==
  /\ \A w \in Holder \ Failing : up[w] = "serving"
  /\ Comeback = "never" => \A w \in Holder : up[w] \in {"serving", "shutdown", "crashed"}
  /\ \A w \in Lasting : heard[w] = "now" /\ w \in alive /\ mem[w] >= acked

CallInv ==
  /\ acked <= started
  /\ \A c \in Client :
       /\ floor[c] <= acked
       /\ pc[c] # "idle" => at[c] \in Holder
       /\ pc[c] = "replicate" => c \in Writer

\* A write is routed to no holder behind a lasting one, and each lasting one
\* has it or will be sent it.
WriteInv ==
  \A c \in Writer :
    /\ pc[c] # "idle" => Lasting \subseteq Reach(at[c])
    /\ pc[c] = "replicate" =>
         /\ ver[c] = started
         /\ acked < started
         /\ \A w \in Lasting :
              mem[w] = started \/ \E i \in 1..Len(todo[c]) : todo[c][i] = w

IInv == TypeOK /\ LastingInv /\ CallInv /\ WriteInv

-----------------------------------------------------------------------------
(* What the README promises of the recovery path. *)

\* "Worker recovery prefers remote tablet copy; falls back to local
\* checkpoint/log replay": a recovery whose copy fails restores the local state.
FallsBackToLocal ==
  [][\A w \in Holder :
       up[w] \in {"restarting", "launching"} /\ up'[w] \in {"serving", "starting"}
         /\ (src[w] = ALLDEAD \/ up[src[w]] # "serving")
       => mem'[w] = disk[w]]_vars

\* "restart path recovers from replica copy when possible, otherwise local
\* checkpoint+log replay": an admin RESTART does not end in a dead process,
\* whatever holder the coordinator names for the copy.
RestartRecovers == \A w \in Holder : up[w] = "restarting" => src[w] # w
=============================================================================
