---------------------------- MODULE ClusterProofs ---------------------------
(***************************************************************************)
(* Proofs about Cluster for every ring, tablet and number of writes, with  *)
(* one writer and a cluster that begins with every worker serving.         *)
(***************************************************************************)
EXTENDS Cluster, RingProofs

-----------------------------------------------------------------------------
(* Routing and replication. *)

\* The holders are the three workers the coordinator tries.
LEMMA HolderIs ==
  /\ Holder = {TABLET, Succ1(TABLET), Succ2(TABLET)}
  /\ TABLET # Succ1(TABLET) /\ TABLET # Succ2(TABLET) /\ Succ1(TABLET) # Succ2(TABLET)
  /\ ALLDEAD \notin Holder
<1>1. ALLDEAD \notin Workers
  BY RingAssumption DEF ALLDEAD, Workers
<1> QED
  BY <1>1, PlacementAgrees, ClusterAssumption DEF Holder

\* Lookup names a live holder or none.
LEMMA PrimaryType ==
  ASSUME NEW a \in SUBSET Holder
  PROVE  getCurrentPrimary(a, TABLET) \in a \cup {ALLDEAD}
  BY DEF getCurrentPrimary

\* Writes are sent on to holders.
LEMMA ReplicasType ==
  ASSUME NEW x \in Holder
  PROVE  getReplicasForReplication(x, TABLET) \in Seq(Holder)
<1> DEFINE a == Succ1(TABLET)
           b == Succ2(TABLET)
<1>1. x \in {TABLET, a, b} /\ a \in Holder /\ b \in Holder
  BY HolderIs
<1>2. <<a, b>> \in Seq(Holder) /\ <<b>> \in Seq(Holder) /\ <<>> \in Seq(Holder)
  <2> HIDE DEF a, b
  <2> QED
    BY <1>1
<1> QED
  BY <1>1, <1>2, ReplicasFollow, ClusterAssumption

\* The elements of a sequence are its head and those of its tail.
LEMMA HeadTail ==
  ASSUME NEW S, NEW s \in Seq(S), s # <<>>
  PROVE  /\ Head(s) \in S /\ Tail(s) \in Seq(S)
         /\ \A w : (\E i \in 1..Len(s) : s[i] = w) =>
              Head(s) = w \/ \E i \in 1..Len(Tail(s)) : Tail(s)[i] = w
<1>1. Head(s) \in S /\ Tail(s) \in Seq(S)
  OBVIOUS
<1>2. ASSUME NEW i \in 1..Len(s)
      PROVE  s[i] = Head(s) \/ \E j \in 1..Len(Tail(s)) : Tail(s)[j] = s[i]
  <2>1. CASE i = 1
    BY <2>1
  <2>2. CASE i # 1
    <3>1. i - 1 \in 1..Len(Tail(s)) /\ Tail(s)[i - 1] = s[i]
      BY <2>2
    <3> QED
      BY <3>1
  <2> QED
    BY <2>1, <2>2
<1> QED
  BY <1>1, <1>2

\* A write made where Lookup names is meant for every holder that is alive.
LEMMA RoutedReach ==
  ASSUME NEW a \in SUBSET Holder, NEW w \in a
  PROVE  w \in Reach(getCurrentPrimary(a, TABLET))
<1>1. /\ Reach(TABLET) = {TABLET, Succ1(TABLET), Succ2(TABLET)}
      /\ Reach(Succ1(TABLET)) = {Succ1(TABLET), Succ2(TABLET)}
      /\ Succ2(TABLET) \in Reach(Succ2(TABLET))
  BY ReplicasFollow, ClusterAssumption DEF Reach
<1>2. w \in {TABLET, Succ1(TABLET), Succ2(TABLET)}
  BY HolderIs
<1>3. CASE TABLET \in a
  BY <1>1, <1>2, <1>3 DEF getCurrentPrimary
<1>4. CASE TABLET \notin a /\ Succ1(TABLET) \in a
  BY <1>1, <1>2, <1>4 DEF getCurrentPrimary
<1>5. CASE TABLET \notin a /\ Succ1(TABLET) \notin a
  BY <1>1, <1>2, <1>5 DEF getCurrentPrimary
<1> QED
  BY <1>3, <1>4, <1>5

-----------------------------------------------------------------------------
(* The inductive invariant. *)

\* The initial state satisfies the invariant.
LEMMA InitInv == ~ColdStart /\ Init => IInv
<1> SUFFICES ASSUME ~ColdStart, Init PROVE IInv
  OBVIOUS
<1>1. TypeOK
  BY ClusterAssumption DEF Init, TypeOK
<1>2. LastingInv
  BY DEF Init, LastingInv, Lasting
<1>3. CallInv
  BY DEF Init, CallInv
<1>4. WriteInv
  BY DEF Init, WriteInv, Client
<1> QED
  BY <1>1, <1>2, <1>3, <1>4 DEF IInv

\* A step that leaves clients, handlers and the cells of lasting holders alone
\* keeps what is known about a write under way.
LEMMA WriteInvKept ==
  ASSUME WriteInv, UNCHANGED <<pc, at, ver, todo, started, acked>>,
         Lasting' \subseteq Lasting, \A x \in Lasting' : mem'[x] = mem[x]
  PROVE  WriteInv'
<1> SUFFICES ASSUME NEW c \in Writer
             PROVE  /\ pc[c] # "idle" => Lasting' \subseteq Reach(at[c])
                    /\ pc[c] = "replicate" =>
                         /\ ver[c] = started
                         /\ acked < started
                         /\ \A w \in Lasting' :
                              mem[w] = started \/ \E i \in 1..Len(todo[c]) : todo[c][i] = w
  BY DEF WriteInv
<1> QED
  BY DEF WriteInv

\* The death of a worker ends the write it was making and no other.
LEMMA DieKept ==
  ASSUME IInv, NEW w \in Holder, Die(w)
  PROVE  WriteInv'
<1>1. Lasting' \subseteq Lasting \ {w}
  BY DEF IInv, Die, Stopped, TypeOK, Lasting
<1>2. \A x \in Lasting' : mem'[x] = mem[x]
  BY <1>1 DEF IInv, Die, TypeOK, Lasting
<1>3. started' = started /\ acked' = acked
  BY DEF Die
<1>4. ASSUME NEW c \in Writer, pc'[c] # "idle"
      PROVE  pc'[c] = pc[c] /\ at'[c] = at[c] /\ ver'[c] = ver[c] /\ todo'[c] = todo[c]
  <2>1. c \in Client
    BY DEF Client
  <2> QED
    BY <1>4, <2>1 DEF Die
<1> SUFFICES ASSUME NEW c \in Writer, pc'[c] # "idle"
             PROVE  /\ Lasting' \subseteq Reach(at'[c])
                    /\ pc'[c] = "replicate" =>
                         /\ ver'[c] = started'
                         /\ acked' < started'
                         /\ \A x \in Lasting' :
                              mem'[x] = started' \/ \E i \in 1..Len(todo'[c]) : todo'[c][i] = x
  BY DEF WriteInv
<1> QED
  BY <1>1, <1>2, <1>3, <1>4 DEF IInv, WriteInv

\* Every step keeps every variable in its type.
LEMMA NextType == IInv /\ [Next]_vars => TypeOK'
<1> SUFFICES ASSUME IInv, [Next]_vars PROVE TypeOK'
  OBVIOUS
<1> USE DEF IInv
<1>1. ASSUME NEW w \in Holder, Heartbeat(w) PROVE TypeOK'
  BY <1>1 DEF Heartbeat, TypeOK, workerVars, clientVars, historyVars
<1>2. ASSUME NEW w \in Holder, Forget(w) PROVE TypeOK'
  BY <1>2 DEF Forget, TypeOK, workerVars, clientVars, historyVars
<1>3. CASE monitorThreadFunc
  BY <1>3 DEF monitorThreadFunc, TypeOK, workerVars, clientVars, historyVars
<1>4. ASSUME NEW c \in Client, Lookup(c) PROVE TypeOK'
  BY <1>4, PrimaryType DEF Lookup, TypeOK, workerVars, masterVars
<1>5. ASSUME NEW c \in Client, CallFails(c) PROVE TypeOK'
  BY <1>5, ClusterAssumption DEF CallFails, Return, TypeOK, workerVars, masterVars
<1>6. ASSUME NEW c \in Client, Get(c) PROVE TypeOK'
  BY <1>6, ClusterAssumption DEF Get, Return, TypeOK, workerVars, masterVars
<1>7. ASSUME NEW c \in Client, Put(c) PROVE TypeOK'
  <2>1. at[c] \in Holder
    BY <1>7 DEF Put, CallInv
  <2>2. getReplicasForReplication(at[c], TABLET) \in Seq(Holder)
    BY <2>1, ReplicasType
  <2>3. started + 1 \in 0..MaxWrites
    BY <1>7, ClusterAssumption DEF Put, TypeOK
  <2>4. todo' \in [Client -> Seq(Holder)]
    BY <1>7, <2>2 DEF Put, TypeOK
  <2> QED
    BY <1>7, <2>1, <2>3, <2>4 DEF Put, TypeOK, masterVars
<1>8. ASSUME NEW c \in Client, ReplicatePut(c) PROVE TypeOK'
  <2>1. Head(todo[c]) \in Holder /\ Tail(todo[c]) \in Seq(Holder)
    BY <1>8, HeadTail DEF ReplicatePut, TypeOK
  <2>2. todo' \in [Client -> Seq(Holder)]
    BY <1>8, <2>1 DEF ReplicatePut, TypeOK
  <2>3. CASE up[Head(todo[c])] = "serving"
    <3> DEFINE r == Head(todo[c])
    <3>1. mem' = [mem EXCEPT ![r] = ver[c]] /\ disk' = [disk EXCEPT ![r] = ver[c]]
      BY <1>8, <2>3 DEF ReplicatePut
    <3>2. r \in Holder /\ ver[c] \in 0..MaxWrites
      BY <2>1 DEF TypeOK
    <3> HIDE DEF r
    <3>3. mem' \in [Holder -> 0..MaxWrites] /\ disk' \in [Holder -> 0..MaxWrites]
      BY <3>1, <3>2 DEF TypeOK
    <3> QED
      BY <1>8, <2>2, <3>3 DEF ReplicatePut, TypeOK, masterVars, historyVars
  <2>4. CASE up[Head(todo[c])] # "serving"
    BY <1>8, <2>2, <2>4 DEF ReplicatePut, TypeOK, masterVars, historyVars
  <2> QED
    BY <2>3, <2>4
<1>9. ASSUME NEW c \in Client, PutDone(c) PROVE TypeOK'
  BY <1>9, ClusterAssumption DEF PutDone, Return, TypeOK, workerVars, masterVars
<1>10. ASSUME NEW w \in Holder, Checkpoint(w) PROVE TypeOK'
  BY <1>10 DEF Checkpoint, TypeOK, masterVars, clientVars, historyVars
<1>11. ASSUME NEW w \in Holder, Shutdown(w) PROVE TypeOK'
  BY <1>11 DEF Shutdown, MayStop, Stopped, TypeOK, clientVars, historyVars
<1>12. ASSUME NEW w \in Holder, Crash(w) PROVE TypeOK'
  BY <1>12, ClusterAssumption DEF Crash, Die, Stopped, TypeOK
<1>13. ASSUME NEW w \in Holder, WorkerLookup(w) PROVE TypeOK'
  BY <1>13, PrimaryType DEF WorkerLookup, TypeOK, masterVars, clientVars, historyVars
<1>14. ASSUME NEW w \in Holder, recoverFromLocal(w) PROVE TypeOK'
  BY <1>14 DEF recoverFromLocal, Recovered, TypeOK, masterVars, clientVars,
           historyVars
<1>15. ASSUME NEW w \in Holder, CopyTablet(w) PROVE TypeOK'
  BY <1>15, ClusterAssumption
  DEF CopyTablet, Recovered, Copied, TypeOK, masterVars, clientVars, historyVars
<1>16. ASSUME NEW w \in Holder, CopyFromSelf(w) PROVE TypeOK'
  BY <1>16, ClusterAssumption DEF CopyFromSelf, Die, Stopped, TypeOK
<1>17. ASSUME NEW w \in Holder, Listen(w) PROVE TypeOK'
  BY <1>17 DEF Listen, TypeOK, masterVars, clientVars, historyVars
<1>18. CASE UNCHANGED vars
  BY <1>18 DEF vars, TypeOK
<1> QED
  BY <1>1, <1>2, <1>3, <1>4, <1>5, <1>6, <1>7, <1>8, <1>9,
     <1>10, <1>11, <1>12, <1>13, <1>14, <1>15, <1>16, <1>17, <1>18
  DEF Next, Master, Request, Recover

\* Lasting holders stay known and keep the acknowledged writes.
LEMMA NextLasting == OneWriter /\ IInv /\ [Next]_vars => LastingInv'
<1> SUFFICES ASSUME OneWriter, IInv, [Next]_vars PROVE LastingInv'
  OBVIOUS
<1> USE DEF IInv
<1>1. ASSUME NEW w \in Holder, Heartbeat(w) PROVE LastingInv'
  BY <1>1 DEF Heartbeat, TypeOK, LastingInv, Lasting, workerVars, clientVars,
           historyVars
<1>2. ASSUME NEW w \in Holder, Forget(w) PROVE LastingInv'
  BY <1>2 DEF Forget, TypeOK, LastingInv, Lasting, workerVars, clientVars,
           historyVars
<1>3. CASE monitorThreadFunc
  BY <1>3 DEF monitorThreadFunc, TypeOK, LastingInv, Lasting, workerVars,
           clientVars, historyVars
<1>4. ASSUME NEW c \in Client, Lookup(c) PROVE LastingInv'
  BY <1>4 DEF Lookup, TypeOK, LastingInv, Lasting, workerVars, masterVars
<1>5. ASSUME NEW c \in Client, CallFails(c) PROVE LastingInv'
  BY <1>5 DEF CallFails, Return, TypeOK, LastingInv, Lasting, workerVars,
           masterVars
<1>6. ASSUME NEW c \in Client, Get(c) PROVE LastingInv'
  BY <1>6 DEF Get, Return, TypeOK, LastingInv, Lasting, workerVars, masterVars
<1>7. ASSUME NEW c \in Client, Put(c) PROVE LastingInv'
  <2>1. started \in Nat /\ acked \in Nat /\ acked <= started /\ acked' = acked
    BY <1>7, ClusterAssumption DEF Put, TypeOK, CallInv
  <2>2. \A w \in Holder : mem'[w] = mem[w] \/ mem'[w] = started + 1
    BY <1>7 DEF Put, TypeOK
  <2>3. Lasting' = Lasting
    BY <1>7 DEF Put, Lasting
  <2>4. \A w \in Lasting : mem'[w] >= acked'
    <3> TAKE w \in Lasting
    <3>1. w \in Holder /\ mem[w] >= acked
      BY DEF LastingInv, Lasting
    <3> QED
      BY <2>1, <2>2, <3>1
  <2> QED
    BY <1>7, <2>3, <2>4 DEF Put, LastingInv, masterVars
<1>8. ASSUME NEW c \in Client, ReplicatePut(c) PROVE LastingInv'
  <2>1. started \in Nat /\ acked \in Nat /\ acked < started
        /\ acked' = acked /\ ver[c] = started
    BY <1>8, ClusterAssumption DEF ReplicatePut, TypeOK, CallInv, WriteInv, historyVars
  <2>2. \A w \in Holder : mem'[w] = mem[w] \/ mem'[w] = started
    BY <1>8, <2>1 DEF ReplicatePut, TypeOK
  <2>3. Lasting' = Lasting
    BY <1>8 DEF ReplicatePut, Lasting
  <2>4. \A w \in Lasting : mem'[w] >= acked'
    <3> TAKE w \in Lasting
    <3>1. w \in Holder /\ mem[w] >= acked
      BY DEF LastingInv, Lasting
    <3> QED
      BY <2>1, <2>2, <3>1
  <2> QED
    BY <1>8, <2>3, <2>4 DEF ReplicatePut, LastingInv, masterVars
<1>9. ASSUME NEW c \in Client, PutDone(c) PROVE LastingInv'
  <2>1. started \in Nat /\ acked \in Nat /\ acked < started /\ ver[c] = started
    BY <1>9, ClusterAssumption DEF PutDone, TypeOK, CallInv, WriteInv
  <2>2. acked' = started
    BY <1>9, <2>1 DEF PutDone
  <2>3. Lasting' = Lasting /\ mem' = mem
    BY <1>9 DEF PutDone, Lasting, workerVars
  <2>4. Len(todo[c]) = 0
    BY <1>9 DEF PutDone
  <2>5. \A w \in Lasting : mem[w] = started
    BY <1>9, <2>4 DEF PutDone, WriteInv, CallInv
  <2>6. \A w \in Lasting : mem'[w] >= acked'
    BY <2>1, <2>2, <2>3, <2>5
  <2> QED
    BY <1>9, <2>3, <2>6 DEF PutDone, LastingInv, masterVars, workerVars
<1>10. ASSUME NEW w \in Holder, Checkpoint(w) PROVE LastingInv'
  BY <1>10 DEF Checkpoint, TypeOK, LastingInv, Lasting, masterVars,
           clientVars, historyVars
<1>11. ASSUME NEW w \in Holder, Shutdown(w) PROVE LastingInv'
  BY <1>11 DEF Shutdown, MayStop, Stopped, TypeOK, LastingInv, Lasting,
           clientVars, historyVars
<1>12. ASSUME NEW w \in Holder, Crash(w) PROVE LastingInv'
  BY <1>12 DEF Crash, MayStop, Die, Stopped, TypeOK, LastingInv, Lasting
<1>13. ASSUME NEW w \in Holder, WorkerLookup(w) PROVE LastingInv'
  BY <1>13 DEF WorkerLookup, MayComeBack, TypeOK, LastingInv, Lasting,
           masterVars, clientVars, historyVars
<1>14. ASSUME NEW w \in Holder, recoverFromLocal(w) PROVE LastingInv'
  BY <1>14 DEF recoverFromLocal, Recovered, TypeOK, LastingInv, Lasting,
           masterVars, clientVars, historyVars
<1>15. ASSUME NEW w \in Holder, CopyTablet(w) PROVE LastingInv'
  BY <1>15 DEF CopyTablet, Recovered, Copied, TypeOK, LastingInv, Lasting,
           masterVars, clientVars, historyVars
<1>16. ASSUME NEW w \in Holder, CopyFromSelf(w) PROVE LastingInv'
  BY <1>16 DEF CopyFromSelf, Die, Stopped, TypeOK, LastingInv, Lasting
<1>17. ASSUME NEW w \in Holder, Listen(w) PROVE LastingInv'
  BY <1>17 DEF Listen, TypeOK, LastingInv, Lasting, masterVars, clientVars,
           historyVars
<1>18. CASE UNCHANGED vars
  BY <1>18 DEF vars, TypeOK, LastingInv, Lasting
<1> QED
  BY <1>1, <1>2, <1>3, <1>4, <1>5, <1>6, <1>7, <1>8, <1>9,
     <1>10, <1>11, <1>12, <1>13, <1>14, <1>15, <1>16, <1>17, <1>18
  DEF Next, Master, Request, Recover

\* Every step keeps what is known about calls.
LEMMA NextCall == IInv /\ [Next]_vars => CallInv'
<1> SUFFICES ASSUME IInv, [Next]_vars PROVE CallInv'
  OBVIOUS
<1> USE DEF IInv
<1>1. ASSUME NEW w \in Holder, Heartbeat(w) PROVE CallInv'
  BY <1>1 DEF Heartbeat, TypeOK, CallInv, workerVars, clientVars, historyVars
<1>2. ASSUME NEW w \in Holder, Forget(w) PROVE CallInv'
  BY <1>2 DEF Forget, TypeOK, CallInv, workerVars, clientVars, historyVars
<1>3. CASE monitorThreadFunc
  BY <1>3 DEF monitorThreadFunc, TypeOK, CallInv, workerVars, clientVars,
           historyVars
<1>4. ASSUME NEW c \in Client, Lookup(c) PROVE CallInv'
  <2>1. getCurrentPrimary(alive, TABLET) \in Holder
    BY <1>4, PrimaryType DEF Lookup, TypeOK
  <2> QED
    BY <1>4, <2>1, ClusterAssumption DEF Lookup, TypeOK, CallInv
<1>5. ASSUME NEW c \in Client, CallFails(c) PROVE CallInv'
  BY <1>5 DEF CallFails, Return, TypeOK, CallInv, workerVars, masterVars
<1>6. ASSUME NEW c \in Client, Get(c) PROVE CallInv'
  BY <1>6 DEF Get, Return, TypeOK, CallInv, workerVars, masterVars
<1>7. ASSUME NEW c \in Client, Put(c) PROVE CallInv'
  BY <1>7 DEF Put, TypeOK, CallInv, masterVars
<1>8. ASSUME NEW c \in Client, ReplicatePut(c) PROVE CallInv'
  BY <1>8 DEF ReplicatePut, TypeOK, CallInv, masterVars, historyVars
<1>9. ASSUME NEW c \in Client, PutDone(c) PROVE CallInv'
  <2>1. started \in Nat /\ acked \in Nat /\ acked < started /\ ver[c] = started
    BY <1>9, ClusterAssumption DEF PutDone, TypeOK, CallInv, WriteInv
  <2>2. acked' = started /\ started' = started /\ acked <= acked'
    BY <1>9, <2>1 DEF PutDone
  <2>3. floor \in [Client -> Nat] /\ \A d \in Client : floor'[d] = floor[d] \/ floor'[d] = 0
    BY <1>9, ClusterAssumption DEF PutDone, Return, TypeOK
  <2>4. \A d \in Client : floor'[d] <= acked'
    BY <2>1, <2>2, <2>3 DEF CallInv
  <2>5. \A d \in Client : /\ pc'[d] # "idle" => pc'[d] = pc[d] /\ at'[d] = at[d]
    BY <1>9 DEF PutDone, Return, TypeOK
  <2> QED
    BY <2>1, <2>2, <2>4, <2>5 DEF CallInv
<1>10. ASSUME NEW w \in Holder, Checkpoint(w) PROVE CallInv'
  BY <1>10 DEF Checkpoint, TypeOK, CallInv, masterVars, clientVars, historyVars
<1>11. ASSUME NEW w \in Holder, Shutdown(w) PROVE CallInv'
  BY <1>11 DEF Shutdown, MayStop, Stopped, TypeOK, CallInv, clientVars,
           historyVars
<1>12. ASSUME NEW w \in Holder, Crash(w) PROVE CallInv'
  BY <1>12 DEF Crash, MayStop, Die, Stopped, TypeOK, CallInv
<1>13. ASSUME NEW w \in Holder, WorkerLookup(w) PROVE CallInv'
  BY <1>13 DEF WorkerLookup, MayComeBack, TypeOK, CallInv, masterVars,
           clientVars, historyVars
<1>14. ASSUME NEW w \in Holder, recoverFromLocal(w) PROVE CallInv'
  BY <1>14 DEF recoverFromLocal, Recovered, TypeOK, CallInv, masterVars,
           clientVars, historyVars
<1>15. ASSUME NEW w \in Holder, CopyTablet(w) PROVE CallInv'
  BY <1>15 DEF CopyTablet, Recovered, Copied, TypeOK, CallInv, masterVars,
           clientVars, historyVars
<1>16. ASSUME NEW w \in Holder, CopyFromSelf(w) PROVE CallInv'
  BY <1>16 DEF CopyFromSelf, Die, Stopped, TypeOK, CallInv
<1>17. ASSUME NEW w \in Holder, Listen(w) PROVE CallInv'
  BY <1>17 DEF Listen, TypeOK, CallInv, masterVars, clientVars, historyVars
<1>18. CASE UNCHANGED vars
  BY <1>18 DEF vars, TypeOK, CallInv
<1> QED
  BY <1>1, <1>2, <1>3, <1>4, <1>5, <1>6, <1>7, <1>8, <1>9,
     <1>10, <1>11, <1>12, <1>13, <1>14, <1>15, <1>16, <1>17, <1>18
  DEF Next, Master, Request, Recover

\* Every step keeps what is known about a write under way.
LEMMA NextWrite == OneWriter /\ IInv /\ [Next]_vars => WriteInv'
<1> SUFFICES ASSUME OneWriter, IInv, [Next]_vars PROVE WriteInv'
  OBVIOUS
<1> USE DEF IInv
<1>1. ASSUME NEW w \in Holder, Heartbeat(w) PROVE WriteInv'
  <2>1. UNCHANGED <<pc, at, ver, todo, started, acked>>
    BY <1>1 DEF Heartbeat, clientVars, historyVars
  <2>2. Lasting' \subseteq Lasting
    BY <1>1 DEF Heartbeat, Lasting, LastingInv, TypeOK, workerVars
  <2>3. \A x \in Lasting' : mem'[x] = mem[x]
    BY <1>1, <2>2 DEF Heartbeat, TypeOK, Lasting, workerVars
  <2> QED
    BY <2>1, <2>2, <2>3, WriteInvKept
<1>2. ASSUME NEW w \in Holder, Forget(w) PROVE WriteInv'
  <2>1. UNCHANGED <<pc, at, ver, todo, started, acked>>
    BY <1>2 DEF Forget, clientVars, historyVars
  <2>2. Lasting' \subseteq Lasting
    BY <1>2 DEF Forget, Lasting, LastingInv, TypeOK, workerVars
  <2>3. \A x \in Lasting' : mem'[x] = mem[x]
    BY <1>2, <2>2 DEF Forget, TypeOK, Lasting, workerVars
  <2> QED
    BY <2>1, <2>2, <2>3, WriteInvKept
<1>3. CASE monitorThreadFunc
  <2>1. UNCHANGED <<pc, at, ver, todo, started, acked>>
    BY <1>3 DEF monitorThreadFunc, clientVars, historyVars
  <2>2. Lasting' \subseteq Lasting
    BY <1>3 DEF monitorThreadFunc, Lasting, LastingInv, TypeOK, workerVars
  <2>3. \A x \in Lasting' : mem'[x] = mem[x]
    BY <1>3, <2>2 DEF monitorThreadFunc, TypeOK, Lasting, workerVars
  <2> QED
    BY <2>1, <2>2, <2>3, WriteInvKept
<1>4. ASSUME NEW c \in Client, Lookup(c) PROVE WriteInv'
  <2>1. Lasting' = Lasting /\ \A w \in Lasting : w \in alive
    BY <1>4 DEF Lookup, Lasting, LastingInv, workerVars
  <2>2. Lasting \subseteq Reach(getCurrentPrimary(alive, TABLET))
    BY <2>1, RoutedReach DEF TypeOK
  <2>3. at'[c] = getCurrentPrimary(alive, TABLET) /\ pc'[c] = "found"
    BY <1>4 DEF Lookup, TypeOK
  <2>4. \A d \in Client : d # c => at'[d] = at[d] /\ pc'[d] = pc[d]
    BY <1>4 DEF Lookup, TypeOK
  <2> QED
    BY <1>4, <2>1, <2>2, <2>3, <2>4 DEF Lookup, WriteInv, workerVars, Client
<1>5. ASSUME NEW c \in Client, CallFails(c) PROVE WriteInv'
  BY <1>5 DEF CallFails, Return, TypeOK, LastingInv, CallInv, WriteInv,
           Lasting, Client, workerVars, masterVars
<1>6. ASSUME NEW c \in Client, Get(c) PROVE WriteInv'
  BY <1>6 DEF Get, Return, TypeOK, LastingInv, CallInv, WriteInv, Lasting,
           Client, workerVars, masterVars
<1>7. ASSUME NEW c \in Client, Put(c) PROVE WriteInv'
  <2> DEFINE r == getReplicasForReplication(at[c], TABLET)
  <2>1. c \in Writer /\ \A d \in Writer : d = c
    BY <1>7 DEF Put, OneWriter
  <2>2. started \in Nat /\ acked \in Nat /\ acked <= started 
        /\ acked' = acked /\ started' = started + 1
    BY <1>7, ClusterAssumption DEF Put, TypeOK, CallInv
  <2>3. /\ pc'[c] = "replicate" /\ at'[c] = at[c] /\ ver'[c] = started' /\ todo'[c] = r
        /\ Lasting' = Lasting
    BY <1>7, <2>2 DEF Put, TypeOK, Lasting
  <2>4. Lasting \subseteq Reach(at[c]) /\ at[c] \in Holder
    BY <1>7, <2>1 DEF Put, WriteInv, CallInv
  <2>5. mem'[at[c]] = started'
    BY <1>7, <2>2, <2>4 DEF Put, TypeOK
  <2>6. \A w \in Lasting : w = at[c] \/ \E i \in 1..Len(r) : r[i] = w
    BY <2>4 DEF Reach
  <2>7. \A w \in Lasting' : mem'[w] = started' \/ \E i \in 1..Len(todo'[c]) : todo'[c][i] = w
    BY <2>3, <2>5, <2>6
  <2>8. acked' < started'
    BY <2>2
  <2> QED
    BY <2>1, <2>3, <2>4, <2>7, <2>8 DEF WriteInv
<1>8. ASSUME NEW c \in Client, ReplicatePut(c) PROVE WriteInv'
  <2> DEFINE s == todo[c]
  <2>1. c \in Writer /\ \A d \in Writer : d = c
    BY <1>8 DEF ReplicatePut, CallInv, OneWriter
  <2>2. s \in Seq(Holder) /\ s # <<>> /\ Head(s) \in Holder
    BY <1>8, HeadTail DEF ReplicatePut, TypeOK
  <2>3. todo'[c] = Tail(s) /\ Lasting' = Lasting /\ pc' = pc /\ at' = at
        /\ ver' = ver /\ acked' = acked /\ started' = started
    BY <1>8 DEF ReplicatePut, TypeOK, Lasting, historyVars
  <2>4. ver[c] = started /\ acked < started /\ Lasting \subseteq Reach(at[c])
    BY <1>8, <2>1 DEF ReplicatePut, WriteInv
  <2>5. ASSUME NEW w \in Lasting
        PROVE  mem'[w] = started \/ \E i \in 1..Len(Tail(s)) : Tail(s)[i] = w
    <3>1. w \in Holder /\ up[w] = "serving"
      BY DEF Lasting
    <3>2. mem[w] = started => mem'[w] = started
      BY <1>8, <2>2, <2>4, <3>1 DEF ReplicatePut, TypeOK
    <3>3. Head(s) = w => mem'[w] = started
      BY <1>8, <2>2, <2>4, <3>1 DEF ReplicatePut, TypeOK
    <3>4. mem[w] = started \/ \E i \in 1..Len(s) : s[i] = w
      BY <1>8, <2>1 DEF ReplicatePut, WriteInv
    <3>5. (\E i \in 1..Len(s) : s[i] = w) =>
            Head(s) = w \/ \E i \in 1..Len(Tail(s)) : Tail(s)[i] = w
      BY <2>2, HeadTail
    <3> QED
      BY <3>2, <3>3, <3>4, <3>5
  <2>6. \A w \in Lasting' :
          mem'[w] = started' \/ \E i \in 1..Len(todo'[c]) : todo'[c][i] = w
    <3> HIDE DEF s
    <3> QED
      BY <2>3, <2>5
  <2>7. Lasting' \subseteq Reach(at'[c]) /\ ver'[c] = started' /\ acked' < started'
    BY <2>3, <2>4
  <2> QED
    BY <2>1, <2>6, <2>7 DEF WriteInv
<1>9. ASSUME NEW c \in Client, PutDone(c) PROVE WriteInv'
  <2>1. c \in Writer /\ \A d \in Writer : d = c
    BY <1>9 DEF PutDone, CallInv, OneWriter
  <2>2. pc'[c] = "idle"
    BY <1>9 DEF PutDone, Return, TypeOK
  <2> QED
    BY <2>1, <2>2 DEF WriteInv
<1>10. ASSUME NEW w \in Holder, Checkpoint(w) PROVE WriteInv'
  <2>1. UNCHANGED <<pc, at, ver, todo, started, acked>>
    BY <1>10 DEF Checkpoint, clientVars, historyVars
  <2>2. Lasting' \subseteq Lasting
    BY <1>10 DEF Checkpoint, Lasting, LastingInv, TypeOK, workerVars
  <2>3. \A x \in Lasting' : mem'[x] = mem[x]
    BY <1>10, <2>2 DEF Checkpoint, TypeOK, Lasting, workerVars
  <2> QED
    BY <2>1, <2>2, <2>3, WriteInvKept
<1>11. ASSUME NEW w \in Holder, Shutdown(w) PROVE WriteInv'
  <2>1. UNCHANGED <<pc, at, ver, todo, started, acked>>
    BY <1>11 DEF Shutdown, MayStop, Stopped, clientVars, historyVars
  <2>2. Lasting' \subseteq Lasting
    BY <1>11 DEF Shutdown, MayStop, Stopped, Lasting, LastingInv, TypeOK, workerVars
  <2>3. \A x \in Lasting' : mem'[x] = mem[x]
    BY <1>11, <2>2 DEF Shutdown, MayStop, Stopped, TypeOK, Lasting, workerVars
  <2> QED
    BY <2>1, <2>2, <2>3, WriteInvKept
<1>12. ASSUME NEW w \in Holder, Crash(w) PROVE WriteInv'
  BY <1>12, DieKept DEF Crash
<1>13. ASSUME NEW w \in Holder, WorkerLookup(w) PROVE WriteInv'
  <2>1. UNCHANGED <<pc, at, ver, todo, started, acked>>
    BY <1>13 DEF WorkerLookup, MayComeBack, clientVars, historyVars
  <2>2. Lasting' \subseteq Lasting
    BY <1>13 DEF WorkerLookup, MayComeBack, Lasting, LastingInv, TypeOK, workerVars
  <2>3. \A x \in Lasting' : mem'[x] = mem[x]
    BY <1>13, <2>2 DEF WorkerLookup, MayComeBack, TypeOK, Lasting, workerVars
  <2> QED
    BY <2>1, <2>2, <2>3, WriteInvKept
<1>14. ASSUME NEW w \in Holder, recoverFromLocal(w) PROVE WriteInv'
  <2>1. UNCHANGED <<pc, at, ver, todo, started, acked>>
    BY <1>14 DEF recoverFromLocal, Recovered, clientVars, historyVars
  <2>2. Lasting' \subseteq Lasting \ {w}
    BY <1>14 DEF recoverFromLocal, Recovered, Lasting, LastingInv, TypeOK, workerVars
  <2>3. \A x \in Lasting' : mem'[x] = mem[x]
    BY <1>14, <2>2 DEF recoverFromLocal, Recovered, TypeOK, Lasting, workerVars
  <2> QED
    BY <2>1, <2>2, <2>3, WriteInvKept
<1>15. ASSUME NEW w \in Holder, CopyTablet(w) PROVE WriteInv'
  <2>1. UNCHANGED <<pc, at, ver, todo, started, acked>>
    BY <1>15 DEF CopyTablet, Recovered, clientVars, historyVars
  <2>2. Lasting' \subseteq Lasting \ {w}
    BY <1>15 DEF CopyTablet, Recovered, Lasting, LastingInv, TypeOK, workerVars
  <2>3. \A x \in Lasting' : mem'[x] = mem[x]
    BY <1>15, <2>2 DEF CopyTablet, Recovered, TypeOK, Lasting, workerVars
  <2> QED
    BY <2>1, <2>2, <2>3, WriteInvKept
<1>16. ASSUME NEW w \in Holder, CopyFromSelf(w) PROVE WriteInv'
  BY <1>16, DieKept DEF CopyFromSelf
<1>17. ASSUME NEW w \in Holder, Listen(w) PROVE WriteInv'
  <2>1. UNCHANGED <<pc, at, ver, todo, started, acked>>
    BY <1>17 DEF Listen, clientVars, historyVars
  <2>2. Lasting' \subseteq Lasting
    BY <1>17 DEF Listen, Lasting, LastingInv, TypeOK, workerVars
  <2>3. \A x \in Lasting' : mem'[x] = mem[x]
    BY <1>17, <2>2 DEF Listen, TypeOK, Lasting, workerVars
  <2> QED
    BY <2>1, <2>2, <2>3, WriteInvKept
<1>18. CASE UNCHANGED vars
  BY <1>18 DEF vars, TypeOK, LastingInv, CallInv, WriteInv, Lasting, Client
<1> QED
  BY <1>1, <1>2, <1>3, <1>4, <1>5, <1>6, <1>7, <1>8, <1>9,
     <1>10, <1>11, <1>12, <1>13, <1>14, <1>15, <1>16, <1>17, <1>18
  DEF Next, Master, Request, Recover

\* The invariant holds at every step.
LEMMA Invariance == ASSUME OneWriter, ~ColdStart PROVE Spec => []IInv
<1>1. Init => IInv
  BY InitInv
<1>2. IInv /\ [Next]_vars => IInv'
  BY NextType, NextLasting, NextCall, NextWrite DEF IInv
<1> QED
  BY <1>1, <1>2, PTL DEF Spec

-----------------------------------------------------------------------------
(* What the code guarantees. *)

\* Every variable of the cluster keeps its type.
THEOREM TypeCorrect == ASSUME OneWriter, ~ColdStart PROVE Spec => []TypeOK
<1>1. IInv => TypeOK
  BY DEF IInv
<1> QED
  BY <1>1, Invariance, PTL

\* A holder that never stops has every acknowledged write, however the other
\* holders stop, come back and recover: Put replicates to every later holder,
\* and Lookup names none behind a live one.
THEOREM Survivors == ASSUME OneWriter, ~ColdStart PROVE Spec => []SurvivorsKeepAcked
<1>1. IInv => SurvivorsKeepAcked
  BY DEF IInv, LastingInv, Lasting, SurvivorsKeepAcked
<1> QED
  BY <1>1, Invariance, PTL

\* While workers only stop, the holder Lookup names has every acknowledged
\* write, if it answers.
THEOREM FailoverSafe ==
  ASSUME OneWriter, ~ColdStart, Comeback = "never"
  PROVE  Spec => []FailoverKeepsAcked
<1>1. IInv => FailoverKeepsAcked
  BY PrimaryType DEF IInv, TypeOK, LastingInv, Lasting, FailoverKeepsAcked
<1> QED
  BY <1>1, Invariance, PTL

\* While workers only stop, a Get sees every write acknowledged before its
\* Lookup, however late it is sent and whatever happened in between.
THEOREM ReadsSafe ==
  ASSUME OneWriter, ~ColdStart, Comeback = "never"
  PROVE  Spec => []ReadsSeeAcked
<1>1. IInv => ReadsSeeAcked
  <2> SUFFICES ASSUME IInv, NEW c \in Reader, pc[c] = "found", up[at[c]] = "serving"
               PROVE  mem[at[c]] >= floor[c]
    BY DEF ReadsSeeAcked
  <2>1. c \in Client /\ at[c] \in Holder /\ floor[c] <= acked
    BY DEF IInv, CallInv, Client
  <2>2. mem[at[c]] >= acked
    BY <2>1 DEF IInv, LastingInv, Lasting
  <2>3. mem[at[c]] \in Int /\ acked \in Int /\ floor[c] \in Int
    BY <2>1, ClusterAssumption DEF IInv, TypeOK
  <2>4. \A i, j, k \in Int : i >= j /\ k <= j => i >= k
    OBVIOUS
  <2> QED
    BY <2>1, <2>2, <2>3, <2>4
<1> QED
  BY <1>1, Invariance, PTL
=============================================================================
