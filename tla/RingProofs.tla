----------------------------- MODULE RingProofs -----------------------------
(***************************************************************************)
(* The coordinator's and the workers' arithmetic describe the same ring,   *)
(* for every number of tablets from 3 on.                                  *)
(***************************************************************************)
EXTENDS Ring, TLAPS

\* A number already in range is its own remainder.
LEMMA ModSmall == \A a \in 0..NUM_TABLETS-1 : a % NUM_TABLETS = a
  BY RingAssumption

\* One turn around the ring comes back to the same place.
LEMMA ModWrap == \A a \in 0..NUM_TABLETS-1 : (a + NUM_TABLETS) % NUM_TABLETS = a
  BY RingAssumption

\* The successors and predecessors without modular arithmetic.
LEMMA RingCases ==
  ASSUME NEW w \in Workers
  PROVE  /\ Succ1(w) = IF w = NUM_TABLETS THEN 1 ELSE w + 1
         /\ Succ2(w) = IF w >= NUM_TABLETS - 1 THEN w + 2 - NUM_TABLETS ELSE w + 2
         /\ prev1(w) = IF w = 1 THEN NUM_TABLETS ELSE w - 1
         /\ prev2(w) = IF w <= 2 THEN w + NUM_TABLETS - 2 ELSE w - 2
<1> USE RingAssumption DEF Workers
<1>1. Succ1(w) = IF w = NUM_TABLETS THEN 1 ELSE w + 1
  <2>1. CASE w = NUM_TABLETS
    <3>1. (0 + NUM_TABLETS) % NUM_TABLETS = 0
      BY ModWrap
    <3> QED BY <2>1, <3>1 DEF Succ1
  <2>2. CASE w # NUM_TABLETS
    <3>1. w % NUM_TABLETS = w
      BY <2>2, ModSmall
    <3> QED BY <2>2, <3>1 DEF Succ1
  <2> QED BY <2>1, <2>2
<1>2. Succ2(w) = IF w >= NUM_TABLETS - 1 THEN w + 2 - NUM_TABLETS ELSE w + 2
  <2>1. CASE w >= NUM_TABLETS - 1
    <3>1. ((w + 1 - NUM_TABLETS) + NUM_TABLETS) % NUM_TABLETS = w + 1 - NUM_TABLETS
      BY <2>1, ModWrap
    <3> QED BY <2>1, <3>1 DEF Succ2
  <2>2. CASE w < NUM_TABLETS - 1
    <3>1. (w + 1) % NUM_TABLETS = w + 1
      BY <2>2, ModSmall
    <3> QED BY <2>2, <3>1 DEF Succ2
  <2> QED BY <2>1, <2>2
<1>3. prev1(w) = IF w = 1 THEN NUM_TABLETS ELSE w - 1
  <2>1. CASE w = 1
    <3>1. (NUM_TABLETS - 1) % NUM_TABLETS = NUM_TABLETS - 1
      BY ModSmall
    <3> QED BY <2>1, <3>1 DEF prev1
  <2>2. CASE w # 1
    <3>1. ((w - 2) + NUM_TABLETS) % NUM_TABLETS = w - 2
      BY <2>2, ModWrap
    <3> QED BY <2>2, <3>1 DEF prev1
  <2> QED BY <2>1, <2>2
<1>4. prev2(w) = IF w <= 2 THEN w + NUM_TABLETS - 2 ELSE w - 2
  <2>1. CASE w <= 2
    <3>1. (w + NUM_TABLETS - 3) % NUM_TABLETS = w + NUM_TABLETS - 3
      BY <2>1, ModSmall
    <3> QED BY <2>1, <3>1 DEF prev2
  <2>2. CASE w > 2
    <3>1. ((w - 3) + NUM_TABLETS) % NUM_TABLETS = w - 3
      BY <2>2, ModWrap
    <3> QED BY <2>2, <3>1 DEF prev2
  <2> QED BY <2>1, <2>2
<1> QED BY <1>1, <1>2, <1>3, <1>4

-----------------------------------------------------------------------------
\* The workers that keep tablet t (worker.cc) are exactly the three the
\* coordinator looks for it on (coordinator.cc), and they are distinct.
THEOREM PlacementAgrees ==
  ASSUME NEW t \in Workers
  PROVE  /\ \A w \in Workers : Holds(w, t) <=> w \in {t, Succ1(t), Succ2(t)}
         /\ {t, Succ1(t), Succ2(t)} \subseteq Workers
         /\ t # Succ1(t) /\ t # Succ2(t) /\ Succ1(t) # Succ2(t)
<1> USE RingAssumption, RingCases
<1>1. ASSUME NEW w \in Workers
      PROVE  Holds(w, t) <=> t \in {w, prev1(w), prev2(w)}
  BY DEF Holds, getTabletNumberOnThisWorker, TABLET_NOT_FOUND
<1>2. ASSUME NEW w \in Workers
      PROVE  t \in {w, prev1(w), prev2(w)} <=> w \in {t, Succ1(t), Succ2(t)}
  BY DEF Workers
<1>3. /\ {t, Succ1(t), Succ2(t)} \subseteq Workers
      /\ t # Succ1(t) /\ t # Succ2(t) /\ Succ1(t) # Succ2(t)
  BY DEF Workers
<1> QED BY <1>1, <1>2, <1>3

\* Whatever the liveness view, getCurrentPrimary (and Lookup) names a worker
\* that the view has alive and that keeps the tablet, and finds one whenever
\* any of the three is alive.
THEOREM PrimaryHoldsTablet ==
  ASSUME NEW t \in Workers, NEW alive \in SUBSET Workers
  PROVE  LET p == getCurrentPrimary(alive, t)
         IN  /\ p # ALLDEAD => p \in alive /\ Holds(p, t)
             /\ p = ALLDEAD <=> \A w \in alive : ~Holds(w, t)
<1>1. ALLDEAD \notin Workers
  BY RingAssumption DEF ALLDEAD, Workers
<1> QED
  BY <1>1, PlacementAgrees DEF getCurrentPrimary

\* The worker replicates to the holders that come after it in the order in
\* which the coordinator tries them: the primary to both others, the second
\* choice to the third only, the third to nobody.
THEOREM ReplicasFollow ==
  ASSUME NEW t \in Workers
  PROVE  /\ getReplicasForReplication(t, t) = <<Succ1(t), Succ2(t)>>
         /\ getReplicasForReplication(Succ1(t), t) = <<Succ2(t)>>
         /\ getReplicasForReplication(Succ2(t), t) = <<>>
<1>1. Succ1(t) \in Workers /\ Succ2(t) \in Workers
  BY PlacementAgrees
<1>2. /\ prev1(t) # t
      /\ prev1(Succ1(t)) = t
      /\ prev1(Succ2(t)) = Succ1(t)
      /\ Succ1(Succ1(t)) = Succ2(t)
  BY <1>1, RingCases, RingAssumption DEF Workers
<1>3. t # Succ1(t) /\ t # Succ2(t) /\ Succ1(t) # Succ2(t)
  BY PlacementAgrees
<1>4. getReplicasForReplication(t, t) = <<Succ1(t), Succ2(t)>>
  BY <1>2 DEF getReplicasForReplication, Succ1, Succ2
<1>5. getReplicasForReplication(Succ1(t), t) = <<Succ2(t)>>
  <2>1. (Succ1(t) % NUM_TABLETS) + 1 = Succ2(t)
    BY <1>2 DEF Succ1
  <2> QED BY <1>2, <1>3, <2>1 DEF getReplicasForReplication
<1>6. getReplicasForReplication(Succ2(t), t) = <<>>
  BY <1>2, <1>3 DEF getReplicasForReplication
<1> QED BY <1>4, <1>5, <1>6

\* The tablets recoverAllTablets walks through are the ones the coordinator's
\* WorkerLookup answers for, in the same order.
THEOREM RecoveryOrderAgrees ==
  ASSUME NEW w \in Workers
  PROVE  recoveryOrder(w) = <<w, prev1(w), prev2(w)>>
<1>1. prev1(w) \in Workers
  BY RingCases, RingAssumption DEF Workers
<1>2. prev1(prev1(w)) = prev2(w)
  BY <1>1, RingCases, RingAssumption DEF Workers
<1> QED BY <1>2 DEF recoveryOrder
=============================================================================
