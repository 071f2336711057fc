-------------------------------- MODULE Ring --------------------------------
(***************************************************************************)
(* Placement of tablets on workers.  Tablet t and worker t share the       *)
(* numbers 1..NUM_TABLETS; worker w keeps its own tablet and those of its  *)
(* two ring predecessors, so tablet t lives on t and on its two ring       *)
(* successors.  The coordinator computes the successors, the workers       *)
(* compute the predecessors, each with modular arithmetic of its own; the  *)
(* lemmas of RingProofs say that the two computations agree.               *)
(***************************************************************************)
EXTENDS Integers, Sequences

CONSTANT NUM_TABLETS

\* The code fixes NUM_TABLETS at 6; three distinct holders need at least 3.
ASSUME RingAssumption == NUM_TABLETS \in Nat /\ NUM_TABLETS >= 3

Workers == 1..NUM_TABLETS

\* What getCurrentPrimary answers when no holder is alive, and Lookup's
\* UNAVAILABLE status.
ALLDEAD == 0

TABLET_NOT_FOUND == -1

-----------------------------------------------------------------------------
(* Coordinator side: where a tablet is looked for, first choice first. *)

Succ1(t) == (t % NUM_TABLETS) + 1

Succ2(t) == ((t + 1) % NUM_TABLETS) + 1

candidateIds(t) == <<t, Succ1(t), Succ2(t)>>

\* The first candidate whose isAlive entry is true.
getCurrentPrimary(alive, t) ==
  IF t \in alive THEN t
  ELSE IF Succ1(t) \in alive THEN Succ1(t)
  ELSE IF Succ2(t) \in alive THEN Succ2(t)
  ELSE ALLDEAD

-----------------------------------------------------------------------------
(* Worker side: which tablets a worker keeps and whom it replicates to. *)

prev1(w) == ((w + NUM_TABLETS - 2) % NUM_TABLETS) + 1

prev2(w) == ((w + NUM_TABLETS - 3) % NUM_TABLETS) + 1

\* The slot (1, 2 or 3) of tablet t on worker w.
getTabletNumberOnThisWorker(w, t) ==
  CASE t = w        -> 1
    [] t = prev1(w) -> 2
    [] t = prev2(w) -> 3
    [] OTHER        -> TABLET_NOT_FOUND

Holds(w, t) == getTabletNumberOnThisWorker(w, t) # TABLET_NOT_FOUND

\* The tablets recoverAllTablets restores, in the order of WorkerLookup's
\* three answers: each is computed from the one before it.
recoveryOrder(w) == <<w, prev1(w), prev1(prev1(w))>>

\* Mutations: the second replica is the first one again; every holder sends to
\* two more workers.
SameReplicaTwice(w, t) ==
  CASE t = w        -> <<(w % NUM_TABLETS) + 1, (w % NUM_TABLETS) + 1>>
    [] t = prev1(w) -> <<(w % NUM_TABLETS) + 1>>
    [] OTHER        -> <<>>

AlwaysTwoReplicas(w, t) == <<(w % NUM_TABLETS) + 1, ((w + 1) % NUM_TABLETS) + 1>>

\* A write at worker w is sent on to these workers, in this order.
getReplicasForReplication(w, t) ==
  CASE t = w        -> <<(w % NUM_TABLETS) + 1, ((w + 1) % NUM_TABLETS) + 1>>
    [] t = prev1(w) -> <<(w % NUM_TABLETS) + 1>>
    [] OTHER        -> <<>>
=============================================================================
