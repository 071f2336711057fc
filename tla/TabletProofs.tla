---------------------------- MODULE TabletProofs ----------------------------
(***************************************************************************)
(* Proofs about Tablet for every set of keys, values, threads and copies,  *)
(* every MAX_UPDATE_COUNT and every length of log, when calls on the       *)
(* tablet do not overlap.                                                  *)
(***************************************************************************)
EXTENDS Tablet, TLAPS

-----------------------------------------------------------------------------
(* Commands and logs. *)

\* A logged command names a cell and leaves a value or nothing there.
LEMMA EntryFacts ==
  ASSUME NEW e \in Entry
  PROVE  /\ e.key \in Key
         /\ Result(e) \in Value \cup {Absent}
         /\ e.cmd \in {"PUT", "CPUT", "DELETE"}
  BY DEF Entry, Result

\* A command applied to a table gives a table.
LEMMA AppliedType ==
  ASSUME NEW t \in Table, NEW e \in Entry
  PROVE  Applied(t, e) \in Table
  BY EntryFacts DEF Applied, Table

\* Replaying a log determines the value of a cell.
LEMMA OutcomeUnique ==
  ASSUME NEW l, NEW c, NEW n \in Nat, NEW k, NEW v, NEW w,
         Outcome(l, c, n, k, v), Outcome(l, c, n, k, w)
  PROVE  v = w
<1>1. CASE LastWrite(l, n, k, v) /\ LastWrite(l, n, k, w)
  <2>1. PICK i \in 1..n : /\ l[i].key = k /\ v = Result(l[i])
                          /\ \A m \in (i + 1)..n : l[m].key # k
    BY <1>1 DEF LastWrite
  <2>2. PICK j \in 1..n : /\ l[j].key = k /\ w = Result(l[j])
                          /\ \A m \in (j + 1)..n : l[m].key # k
    BY <1>1 DEF LastWrite
  <2>3. i = j
    BY <2>1, <2>2
  <2> QED
    BY <2>1, <2>2, <2>3
<1>2. CASE ~(LastWrite(l, n, k, v) /\ LastWrite(l, n, k, w))
  BY <1>2 DEF Outcome, LastWrite, Untouched
<1> QED
  BY <1>1, <1>2

\* One more command gives its cell its result and leaves the others alone.
LEMMA LastWriteNext ==
  ASSUME NEW l, NEW n \in Nat, NEW k, NEW v
  PROVE  /\ l[n + 1].key = k => LastWrite(l, n + 1, k, Result(l[n + 1]))
         /\ l[n + 1].key # k /\ LastWrite(l, n, k, v) => LastWrite(l, n + 1, k, v)
         /\ l[n + 1].key # k /\ Untouched(l, n, k) => Untouched(l, n + 1, k)
<1>1. ASSUME l[n + 1].key = k
      PROVE  LastWrite(l, n + 1, k, Result(l[n + 1]))
  BY <1>1 DEF LastWrite
<1>2. ASSUME l[n + 1].key # k, LastWrite(l, n, k, v)
      PROVE  LastWrite(l, n + 1, k, v)
  <2>1. PICK i \in 1..n : /\ l[i].key = k /\ v = Result(l[i])
                          /\ \A m \in (i + 1)..n : l[m].key # k
    BY <1>2 DEF LastWrite
  <2>2. \A m \in (i + 1)..(n + 1) : l[m].key # k
    BY <2>1, <1>2
  <2>3. i \in 1..(n + 1)
    OBVIOUS
  <2> QED
    BY <2>1, <2>2, <2>3 DEF LastWrite
<1>3. ASSUME l[n + 1].key # k, Untouched(l, n, k)
      PROVE  Untouched(l, n + 1, k)
  BY <1>3 DEF Untouched
<1> QED
  BY <1>1, <1>2, <1>3

\* Appending to a log does not change what its prefixes compute.
LEMMA AppendPrefix ==
  ASSUME NEW l \in Seq(Entry), NEW e \in Entry, NEW n \in 0..Len(l), NEW k, NEW v
  PROVE  /\ LastWrite(Append(l, e), n, k, v) <=> LastWrite(l, n, k, v)
         /\ Untouched(Append(l, e), n, k) <=> Untouched(l, n, k)
<1>1. \A i \in 1..n : Append(l, e)[i] = l[i]
  OBVIOUS
<1> QED
  BY <1>1 DEF LastWrite, Untouched

\* A command that succeeds on the outcome of a log extends the chain.
LEMMA ChainNext ==
  ASSUME NEW l, NEW c, NEW n \in Nat, Chain(l, c, n),
         l[n + 1].cmd = "CPUT" => Outcome(l, c, n, l[n + 1].key, l[n + 1].v1)
  PROVE  Chain(l, c, n + 1)
<1> SUFFICES ASSUME NEW i \in 1..(n + 1), l[i].cmd = "CPUT"
             PROVE  Outcome(l, c, i - 1, l[i].key, l[i].v1)
  BY DEF Chain
<1>1. CASE i = n + 1
  <2>1. i - 1 = n
    BY <1>1
  <2> QED
    BY <1>1, <2>1
<1>2. CASE i \in 1..n
  BY <1>2 DEF Chain
<1> QED
  BY <1>1, <1>2

\* Appending to a log keeps the chain of its commands.
LEMMA ChainAppend ==
  ASSUME NEW l \in Seq(Entry), NEW c, NEW e \in Entry, Chain(l, c, Len(l))
  PROVE  Chain(Append(l, e), c, Len(l))
<1> SUFFICES ASSUME NEW i \in 1..Len(l), Append(l, e)[i].cmd = "CPUT"
             PROVE  Outcome(Append(l, e), c, i - 1, Append(l, e)[i].key, Append(l, e)[i].v1)
  BY DEF Chain
<1>1. Append(l, e)[i] = l[i] /\ i - 1 \in 0..Len(l)
  OBVIOUS
<1>2. Outcome(l, c, i - 1, l[i].key, l[i].v1)
  BY <1>1 DEF Chain
<1> QED
  BY <1>1, <1>2, AppendPrefix DEF Outcome

-----------------------------------------------------------------------------
(* The inductive invariant. *)

\* The initial state satisfies the invariant.
LEMMA InitInv == Init => IInv
<1> SUFFICES ASSUME Init PROVE IInv
  OBVIOUS
<1>1. EmptyTable \in Table
  BY DEF EmptyTable, Table
<1>2. TypeOK
  BY <1>1 DEF Init, TypeOK
<1>3. HandlerInv
  BY DEF Init, HandlerInv, Quiet
<1>4. DiskInv
  BY DEF Init, DiskInv, Chain, Untouched, ExitOnlyUnchained
<1>5. RecoveryInv
  BY DEF Init, RecoveryInv
<1> QED
  BY <1>2, <1>3, <1>4, <1>5 DEF IInv

\* Every step keeps every variable in its type.
LEMMA NextType == IInv /\ [Next]_vars => TypeOK'
<1> SUFFICES ASSUME IInv, [Next]_vars PROVE TypeOK'
  OBVIOUS
<1>0. EmptyTable \in Table
  BY DEF EmptyTable, Table
<1> USE DEF IInv
<1>1. ASSUME NEW h \in Thread, ApplyToMemory(h) PROVE TypeOK'
  BY <1>1, AppliedType DEF ApplyToMemory, TypeOK, HandlerInv, Goto, disk, recovery, history
<1>2. ASSUME NEW h \in Thread, logCommand(h) PROVE TypeOK'
  BY <1>2, AppliedType DEF logCommand, TypeOK, HandlerInv, Goto, disk, recovery, history
<1>3. ASSUME NEW h \in Thread, CountUpdate(h) PROVE TypeOK'
  BY <1>3 DEF CountUpdate, TypeOK, Goto, disk, recovery, history
<1>4. ASSUME NEW h \in Thread, TestCount(h) PROVE TypeOK'
  BY <1>4, <1>0 DEF TestCount, TypeOK, Goto, Return, disk, recovery, history
<1>5. ASSUME NEW h \in Thread, serializeTablet(h) PROVE TypeOK'
  BY <1>5 DEF serializeTablet, TypeOK, Goto, disk, recovery, history
<1>6. ASSUME NEW h \in Thread, OpenCheckpoint(h) PROVE TypeOK'
  BY <1>6, <1>0 DEF OpenCheckpoint, TypeOK, Goto, disk, recovery, history
<1>7. ASSUME NEW h \in Thread, WriteCheckpoint(h) PROVE TypeOK'
  BY <1>7 DEF WriteCheckpoint, TypeOK, Goto, disk, recovery, history
<1>8. ASSUME NEW h \in Thread, CloseCheckpoint(h) PROVE TypeOK'
  BY <1>8 DEF CloseCheckpoint, TypeOK, Goto, disk, recovery, history
<1>9. ASSUME NEW h \in Thread, clearLog(h) PROVE TypeOK'
  BY <1>9 DEF clearLog, TypeOK, Goto, disk, recovery, history
<1>10. ASSUME NEW h \in Thread, ResetCount(h) PROVE TypeOK'
  BY <1>10, <1>0 DEF ResetCount, TypeOK, Goto, Return, disk, recovery, history
<1>11. ASSUME NEW h \in Thread, NEW e \in Entry, Begin(h, e) PROVE TypeOK'
  BY <1>11 DEF Begin, TypeOK, Goto, disk, recovery, history
<1>12. CASE Crash
  BY <1>12, <1>0 DEF Crash, Exit, TypeOK, disk
<1>13. CASE Shutdown
  BY <1>13 DEF Shutdown, TypeOK, disk, recovery, history
<1>14. CASE recoverFromLocal
  BY <1>14 DEF recoverFromLocal, TypeOK, disk, history
<1>15. CASE CheckpointFails
  BY <1>15, <1>0 DEF CheckpointFails, Exit, TypeOK, disk, history
<1>16. CASE ReplayEntry
  <2>1. rlog[ridx + 1] \in Entry
    BY <1>16 DEF ReplayEntry, TypeOK
  <2> QED
    BY <1>16, <2>1, AppliedType DEF ReplayEntry, TypeOK, disk, history
<1>17. CASE ReplayFails
  BY <1>17, <1>0 DEF ReplayFails, Exit, TypeOK, disk, history
<1>18. CASE FinishRecovery
  BY <1>18 DEF FinishRecovery, TypeOK, disk
<1>19. ASSUME NEW copy \in Copies, RecoverFromReplica(copy) PROVE TypeOK'
  BY <1>19, TabletAssumption DEF RecoverFromReplica, TypeOK, disk, recovery
<1>20. CASE UNCHANGED vars
  BY <1>20 DEF vars, TypeOK
<1> QED
  BY <1>1, <1>2, <1>3, <1>4, <1>5, <1>6, <1>7, <1>8, <1>9, <1>10, <1>11, <1>12, <1>13,
     <1>14, <1>15, <1>16, <1>17, <1>18, <1>19, <1>20 DEF Next, Handler

\* A synced log, replayed to its end, has rebuilt the table of logged writes.
LEMMA ReplayedIsTruth ==
  ASSUME IInv, status = "recovering", ridx = Len(rlog), synced
  PROVE  mem = truth
<1>1. ~Rewriting
  BY DEF IInv, HandlerInv, Quiet, Rewriting
<1>2. ASSUME NEW k \in Key PROVE mem[k] = truth[k]
  <2>1. Outcome(log, ckpt, Len(log), k, mem[k])
    BY DEF IInv, RecoveryInv
  <2>2. Outcome(log, ckpt, Len(log), k, truth[k])
    BY <1>1 DEF IInv, DiskInv, Outcome
  <2>3. Len(log) \in Nat
    BY DEF IInv, TypeOK
  <2> QED
    BY <2>1, <2>2, <2>3, OutcomeUnique
<1> QED
  BY <1>2 DEF IInv, TypeOK, Table

\* Every step keeps what is known about running handlers.
LEMMA NextHandler == Overlap = {} /\ IInv /\ [Next]_vars => HandlerInv'
<1> SUFFICES ASSUME Overlap = {}, IInv, [Next]_vars PROVE HandlerInv'
  OBVIOUS
<1> USE DEF IInv
<1>1. ASSUME NEW h \in Thread, ApplyToMemory(h) PROVE HandlerInv'
  BY <1>1 DEF ApplyToMemory, Goto, TypeOK, HandlerInv, Quiet, disk, recovery, history
<1>2. ASSUME NEW h \in Thread, logCommand(h) PROVE HandlerInv'
  BY <1>2 DEF logCommand, Goto, TypeOK, HandlerInv, Quiet, disk, recovery, history
<1>3. ASSUME NEW h \in Thread, CountUpdate(h) PROVE HandlerInv'
  BY <1>3 DEF CountUpdate, Goto, TypeOK, HandlerInv, Quiet, disk, recovery, history
<1>4. ASSUME NEW h \in Thread, TestCount(h) PROVE HandlerInv'
  BY <1>4 DEF TestCount, Goto, Return, TypeOK, HandlerInv, Quiet, disk, recovery, history
<1>5. ASSUME NEW h \in Thread, serializeTablet(h) PROVE HandlerInv'
  BY <1>5 DEF serializeTablet, Goto, TypeOK, HandlerInv, Quiet, disk, recovery, history
<1>6. ASSUME NEW h \in Thread, OpenCheckpoint(h) PROVE HandlerInv'
  BY <1>6 DEF OpenCheckpoint, Goto, TypeOK, HandlerInv, Quiet, disk, recovery, history
<1>7. ASSUME NEW h \in Thread, WriteCheckpoint(h) PROVE HandlerInv'
  BY <1>7 DEF WriteCheckpoint, Goto, TypeOK, HandlerInv, Quiet, disk, recovery, history
<1>8. ASSUME NEW h \in Thread, CloseCheckpoint(h) PROVE HandlerInv'
  BY <1>8 DEF CloseCheckpoint, Goto, TypeOK, HandlerInv, Quiet, disk, recovery, history
<1>9. ASSUME NEW h \in Thread, clearLog(h) PROVE HandlerInv'
  BY <1>9 DEF clearLog, Goto, TypeOK, HandlerInv, Quiet, disk, recovery, history
<1>10. ASSUME NEW h \in Thread, ResetCount(h) PROVE HandlerInv'
  BY <1>10 DEF ResetCount, Goto, Return, TypeOK, HandlerInv, Quiet, disk, recovery, history
<1>11. ASSUME NEW h \in Thread, NEW e \in Entry, Begin(h, e) PROVE HandlerInv'
  BY <1>11 DEF Begin, Goto, TypeOK, HandlerInv, Quiet, disk, recovery, history
<1>12. CASE Crash
  BY <1>12 DEF Crash, Exit, TypeOK, HandlerInv, Quiet, disk, recovery, history
<1>13. CASE Shutdown
  BY <1>13 DEF Shutdown, TypeOK, HandlerInv, Quiet, disk, recovery, history
<1>14. CASE recoverFromLocal
  BY <1>14 DEF recoverFromLocal, MayRecover, Alive, TypeOK, HandlerInv, Quiet, disk, recovery, history
<1>15. CASE CheckpointFails
  BY <1>15 DEF CheckpointFails, Exit, MayRecover, TypeOK, HandlerInv, Quiet, disk, recovery, history
<1>16. CASE ReplayEntry
  BY <1>16 DEF ReplayEntry, TypeOK, HandlerInv, Quiet, disk, recovery, history
<1>17. CASE ReplayFails
  BY <1>17 DEF ReplayFails, Exit, TypeOK, HandlerInv, Quiet, disk, recovery, history
<1>18. CASE FinishRecovery
  BY <1>18, ReplayedIsTruth DEF FinishRecovery, TypeOK, HandlerInv, Quiet, disk
<1>19. ASSUME NEW copy \in Copies, RecoverFromReplica(copy) PROVE HandlerInv'
  BY <1>19 DEF RecoverFromReplica, MayRecover, Alive, TypeOK, HandlerInv, Quiet, disk, recovery, history
<1>20. CASE UNCHANGED vars
  BY <1>20 DEF vars, TypeOK, HandlerInv, Quiet
<1> QED
  BY <1>1, <1>2, <1>3, <1>4, <1>5, <1>6, <1>7, <1>8, <1>9, <1>10, <1>11, <1>12, <1>13,
     <1>14, <1>15, <1>16, <1>17, <1>18, <1>19, <1>20 DEF Next, Handler

\* Every step keeps the relation between checkpoint, log and logged writes.
LEMMA NextDisk == Overlap = {} /\ IInv /\ [Next]_vars => DiskInv'
<1> SUFFICES ASSUME Overlap = {}, IInv, [Next]_vars PROVE DiskInv'
  OBVIOUS
<1> USE DEF IInv
<1>1. ASSUME NEW h \in Thread, ApplyToMemory(h) PROVE DiskInv'
  BY <1>1 DEF ApplyToMemory, Goto, TypeOK, HandlerInv, Quiet, DiskInv, ExitOnlyUnchained, Rewriting, disk, recovery, history
<1>2. ASSUME NEW h \in Thread, logCommand(h) PROVE DiskInv'
  <2> DEFINE e == req[h]
             n == Len(log)
  <2>1. /\ log \in Seq(Entry) /\ e \in Entry /\ n \in Nat
        /\ log' = Append(log, e) /\ Len(log') = n + 1 /\ log'[n + 1] = e
        /\ truth' = Applied(truth, e) /\ UNCHANGED <<ckpt, ckptFile, synced, chained, status>>
    BY <1>2 DEF logCommand, TypeOK, HandlerInv
  <2>2. ~Rewriting /\ ~Rewriting'
    BY <1>2 DEF logCommand, Goto, TypeOK, HandlerInv, Rewriting
  <2>3. ASSUME synced, NEW k \in Key PROVE Outcome(log, ckpt, n, k, truth[k])
    BY <2>2, <2>3 DEF DiskInv, Outcome
  <2>4. ASSUME synced, NEW k \in Key
        PROVE  Outcome(log', ckpt, n + 1, k, truth'[k])
    <3>1. Outcome(log', ckpt, n, k, truth[k])
      BY <2>1, <2>3, <2>4, AppendPrefix DEF Outcome
    <3>2. truth'[k] = IF k = e.key THEN Result(e) ELSE truth[k]
      BY <2>1 DEF Applied, TypeOK, Table
    <3> QED
      BY <2>1, <3>1, <3>2, LastWriteNext DEF Outcome
  <2>5. ASSUME chained PROVE Chain(log', ckpt, n + 1)
    <3>1. Chain(log', ckpt, n)
      BY <2>1, <2>5, ChainAppend DEF DiskInv
    <3>2. e.key \in Key /\ (e.cmd = "CPUT" => truth[e.key] = e.v1)
      BY <1>2, <2>1, EntryFacts DEF logCommand, HandlerInv, Admissible
    <3>3. Outcome(log, ckpt, n, e.key, truth[e.key])
      BY <2>3, <2>5, <3>2 DEF DiskInv
    <3>4. Outcome(log', ckpt, n, e.key, truth[e.key])
      BY <2>1, <3>3, AppendPrefix DEF Outcome
    <3> QED
      BY <2>1, <3>1, <3>2, <3>4, ChainNext
  <2> QED
    BY <2>1, <2>2, <2>4, <2>5 DEF DiskInv, ExitOnlyUnchained, Outcome
<1>3. ASSUME NEW h \in Thread, CountUpdate(h) PROVE DiskInv'
  BY <1>3 DEF CountUpdate, Goto, TypeOK, HandlerInv, Quiet, DiskInv, ExitOnlyUnchained, Rewriting, disk, recovery, history
<1>4. ASSUME NEW h \in Thread, TestCount(h) PROVE DiskInv'
  BY <1>4 DEF TestCount, Goto, Return, TypeOK, HandlerInv, Quiet, DiskInv, ExitOnlyUnchained, Rewriting, disk, recovery, history
<1>5. ASSUME NEW h \in Thread, serializeTablet(h) PROVE DiskInv'
  BY <1>5 DEF serializeTablet, Goto, TypeOK, HandlerInv, Quiet, DiskInv, ExitOnlyUnchained, Rewriting, disk, recovery, history
<1>6. ASSUME NEW h \in Thread, OpenCheckpoint(h) PROVE DiskInv'
  BY <1>6 DEF OpenCheckpoint, Goto, TypeOK, HandlerInv, Quiet, DiskInv, ExitOnlyUnchained, Rewriting, disk, recovery, history
<1>7. ASSUME NEW h \in Thread, WriteCheckpoint(h) PROVE DiskInv'
  BY <1>7 DEF WriteCheckpoint, Goto, TypeOK, HandlerInv, Quiet, DiskInv, ExitOnlyUnchained, Rewriting, disk, recovery, history
<1>8. ASSUME NEW h \in Thread, CloseCheckpoint(h) PROVE DiskInv'
  BY <1>8 DEF CloseCheckpoint, Goto, TypeOK, HandlerInv, Quiet, DiskInv, ExitOnlyUnchained, Rewriting, disk, recovery, history
<1>9. ASSUME NEW h \in Thread, clearLog(h) PROVE DiskInv'
  <2>1. status \in {"serving", "shutdown"} /\ ckpt = truth /\ ckptFile = "whole"
    BY <1>9 DEF clearLog, HandlerInv, Quiet
  <2>2. /\ Len(log') = 0 /\ synced' /\ chained'
        /\ UNCHANGED <<status, ckpt, ckptFile, truth>>
    BY <1>9 DEF clearLog
  <2>3. Chain(log', ckpt', Len(log')) /\ \A k \in Key : Untouched(log', Len(log'), k)
    BY <2>2 DEF Chain, Untouched
  <2> QED
    BY <2>1, <2>2, <2>3 DEF DiskInv, ExitOnlyUnchained
<1>10. ASSUME NEW h \in Thread, ResetCount(h) PROVE DiskInv'
  BY <1>10 DEF ResetCount, Goto, Return, TypeOK, HandlerInv, Quiet, DiskInv, ExitOnlyUnchained, Rewriting, disk, recovery, history
<1>11. ASSUME NEW h \in Thread, NEW e \in Entry, Begin(h, e) PROVE DiskInv'
  BY <1>11 DEF Begin, Goto, TypeOK, HandlerInv, Quiet, DiskInv, ExitOnlyUnchained, Rewriting, disk, recovery, history
<1>12. CASE Crash
  BY <1>12 DEF Crash, Exit, TypeOK, HandlerInv, Quiet, DiskInv, ExitOnlyUnchained, Rewriting, disk, recovery, history
<1>13. CASE Shutdown
  BY <1>13 DEF Shutdown, TypeOK, HandlerInv, Quiet, DiskInv, ExitOnlyUnchained, Rewriting, disk, recovery, history
<1>14. CASE recoverFromLocal
  BY <1>14 DEF recoverFromLocal, MayRecover, Alive, TypeOK, HandlerInv, Quiet, DiskInv, ExitOnlyUnchained, Rewriting, disk, recovery, history
<1>15. CASE CheckpointFails
  <2>1. Quiet /\ ~chained
    BY <1>15 DEF CheckpointFails, MayRecover, Alive, HandlerInv, DiskInv
  <2> QED
    BY <1>15, <2>1 DEF CheckpointFails, Exit, TypeOK, Quiet, DiskInv, ExitOnlyUnchained,
                     Rewriting, disk, history
<1>16. CASE ReplayEntry
  BY <1>16 DEF ReplayEntry, TypeOK, HandlerInv, Quiet, DiskInv, ExitOnlyUnchained, Rewriting, disk, recovery, history
<1>17. CASE ReplayFails
  <2>1. ~chained
    <3> SUFFICES ASSUME chained PROVE FALSE
      OBVIOUS
    <3> DEFINE e == log[ridx + 1]
    <3>1. /\ rlog = log /\ ridx \in Nat /\ ridx + 1 \in 1..Len(log)
          /\ e \in Entry /\ e.cmd = "CPUT" /\ mem[e.key] # e.v1
      BY <1>17 DEF ReplayFails, TypeOK, RecoveryInv, Admissible
    <3>2. Outcome(log, ckpt, (ridx + 1) - 1, e.key, e.v1)
      BY <3>1 DEF DiskInv, Chain
    <3>3. Outcome(log, ckpt, ridx, e.key, mem[e.key])
      BY <1>17, <3>1, EntryFacts DEF ReplayFails, RecoveryInv
    <3>4. (ridx + 1) - 1 = ridx
      BY <3>1
    <3> QED
      BY <3>1, <3>2, <3>3, <3>4, OutcomeUnique
  <2>2. ~Rewriting /\ ~Rewriting'
    BY <1>17 DEF ReplayFails, Exit, HandlerInv, Quiet, Rewriting
  <2> QED
    BY <1>17, <2>1, <2>2 DEF ReplayFails, Exit, DiskInv, ExitOnlyUnchained, disk, history
<1>18. CASE FinishRecovery
  <2>1. /\ UNCHANGED <<log, ckpt, ckptFile, pc>> /\ status' = "serving"
        /\ ridx = Len(log) /\ truth' = mem
    BY <1>18, ReplayedIsTruth DEF FinishRecovery, RecoveryInv, disk
  <2>2. \A k \in Key : Outcome(log, ckpt, Len(log), k, truth'[k])
    BY <1>18, <2>1 DEF FinishRecovery, RecoveryInv
  <2>3. Chain(log, ckpt, Len(log)) /\ ckptFile # "partial"
    BY <1>18, <2>1 DEF FinishRecovery, RecoveryInv
  <2> QED
    BY <1>18, <2>1, <2>2, <2>3 DEF FinishRecovery, DiskInv, ExitOnlyUnchained, Outcome
<1>19. ASSUME NEW copy \in Copies, RecoverFromReplica(copy) PROVE DiskInv'
  BY <1>19 DEF RecoverFromReplica, MayRecover, Alive, TypeOK, HandlerInv, Quiet, DiskInv, ExitOnlyUnchained, Rewriting, disk, recovery, history
<1>20. CASE UNCHANGED vars
  BY <1>20 DEF vars, TypeOK, HandlerInv, Quiet, DiskInv, ExitOnlyUnchained, Rewriting
<1> QED
  BY <1>1, <1>2, <1>3, <1>4, <1>5, <1>6, <1>7, <1>8, <1>9, <1>10, <1>11, <1>12, <1>13,
     <1>14, <1>15, <1>16, <1>17, <1>18, <1>19, <1>20 DEF Next, Handler

\* Every step keeps what is known about a recovery under way.
LEMMA NextRecovery == Overlap = {} /\ IInv /\ [Next]_vars => RecoveryInv'
<1> SUFFICES ASSUME Overlap = {}, IInv, [Next]_vars PROVE RecoveryInv'
  OBVIOUS
<1> USE DEF IInv
<1>1. ASSUME NEW h \in Thread, ApplyToMemory(h) PROVE RecoveryInv'
  BY <1>1 DEF ApplyToMemory, Goto, TypeOK, HandlerInv, Quiet, RecoveryInv, disk, recovery, history
<1>2. ASSUME NEW h \in Thread, logCommand(h) PROVE RecoveryInv'
  BY <1>2 DEF logCommand, Goto, TypeOK, HandlerInv, Quiet, RecoveryInv, disk, recovery, history
<1>3. ASSUME NEW h \in Thread, CountUpdate(h) PROVE RecoveryInv'
  BY <1>3 DEF CountUpdate, Goto, TypeOK, HandlerInv, Quiet, RecoveryInv, disk, recovery, history
<1>4. ASSUME NEW h \in Thread, TestCount(h) PROVE RecoveryInv'
  BY <1>4 DEF TestCount, Goto, Return, TypeOK, HandlerInv, Quiet, RecoveryInv, disk, recovery, history
<1>5. ASSUME NEW h \in Thread, serializeTablet(h) PROVE RecoveryInv'
  BY <1>5 DEF serializeTablet, Goto, TypeOK, HandlerInv, Quiet, RecoveryInv, disk, recovery, history
<1>6. ASSUME NEW h \in Thread, OpenCheckpoint(h) PROVE RecoveryInv'
  BY <1>6 DEF OpenCheckpoint, Goto, TypeOK, HandlerInv, Quiet, RecoveryInv, disk, recovery, history
<1>7. ASSUME NEW h \in Thread, WriteCheckpoint(h) PROVE RecoveryInv'
  BY <1>7 DEF WriteCheckpoint, Goto, TypeOK, HandlerInv, Quiet, RecoveryInv, disk, recovery, history
<1>8. ASSUME NEW h \in Thread, CloseCheckpoint(h) PROVE RecoveryInv'
  BY <1>8 DEF CloseCheckpoint, Goto, TypeOK, HandlerInv, Quiet, RecoveryInv, disk, recovery, history
<1>9. ASSUME NEW h \in Thread, clearLog(h) PROVE RecoveryInv'
  BY <1>9 DEF clearLog, Goto, TypeOK, HandlerInv, Quiet, RecoveryInv, disk, recovery, history
<1>10. ASSUME NEW h \in Thread, ResetCount(h) PROVE RecoveryInv'
  BY <1>10 DEF ResetCount, Goto, Return, TypeOK, HandlerInv, Quiet, RecoveryInv, disk, recovery, history
<1>11. ASSUME NEW h \in Thread, NEW e \in Entry, Begin(h, e) PROVE RecoveryInv'
  BY <1>11 DEF Begin, Goto, TypeOK, HandlerInv, Quiet, RecoveryInv, disk, recovery, history
<1>12. CASE Crash
  BY <1>12 DEF Crash, Exit, TypeOK, HandlerInv, Quiet, RecoveryInv, disk, recovery, history
<1>13. CASE Shutdown
  BY <1>13 DEF Shutdown, TypeOK, HandlerInv, Quiet, RecoveryInv, disk, recovery, history
<1>14. CASE recoverFromLocal
  <2>1. UNCHANGED <<log, ckpt, ckptFile>> /\ log \in Seq(Entry)
    BY <1>14 DEF recoverFromLocal, disk, TypeOK
  <2>2. \A k \in Key : Outcome(log, ckpt, 0, k, ckpt[k])
    BY DEF Outcome, Untouched
  <2>3. Chain(log, ckpt, 0)
    BY DEF Chain
  <2> QED
    BY <1>14, <2>1, <2>2, <2>3 DEF recoverFromLocal, RecoveryInv
<1>15. CASE CheckpointFails
  BY <1>15 DEF CheckpointFails, Exit, MayRecover, TypeOK, HandlerInv, Quiet, RecoveryInv, disk, recovery, history
<1>16. CASE ReplayEntry
  <2> DEFINE e == log[ridx + 1]
  <2>1. /\ rlog = log /\ ridx \in Nat /\ ridx + 1 \in 0..Len(log) /\ e \in Entry
        /\ mem' = Applied(mem, e) /\ ridx' = ridx + 1
        /\ UNCHANGED <<log, ckpt, ckptFile, rlog, status>>
    BY <1>16 DEF ReplayEntry, TypeOK, RecoveryInv, disk
  <2>2. ASSUME NEW k \in Key PROVE Outcome(log, ckpt, ridx + 1, k, mem'[k])
    <3>1. Outcome(log, ckpt, ridx, k, mem[k])
      BY <1>16 DEF ReplayEntry, RecoveryInv
    <3>2. mem'[k] = IF k = e.key THEN Result(e) ELSE mem[k]
      BY <2>1 DEF Applied, TypeOK, Table
    <3> QED
      BY <2>1, <3>1, <3>2, LastWriteNext DEF Outcome
  <2>3. Chain(log, ckpt, ridx + 1)
    <3>1. Chain(log, ckpt, ridx)
      BY <1>16 DEF ReplayEntry, RecoveryInv
    <3>2. e.cmd = "CPUT" => Outcome(log, ckpt, ridx, e.key, e.v1)
      BY <1>16, <2>1, EntryFacts DEF ReplayEntry, RecoveryInv, Admissible
    <3> QED
      BY <2>1, <3>1, <3>2, ChainNext
  <2> QED
    BY <2>1, <2>2, <2>3 DEF RecoveryInv
<1>17. CASE ReplayFails
  BY <1>17 DEF ReplayFails, Exit, TypeOK, HandlerInv, Quiet, RecoveryInv, disk, recovery, history
<1>18. CASE FinishRecovery
  BY <1>18 DEF FinishRecovery, TypeOK, HandlerInv, Quiet, RecoveryInv, disk, recovery, history
<1>19. ASSUME NEW copy \in Copies, RecoverFromReplica(copy) PROVE RecoveryInv'
  BY <1>19 DEF RecoverFromReplica, MayRecover, Alive, TypeOK, HandlerInv, Quiet, RecoveryInv, disk, recovery, history
<1>20. CASE UNCHANGED vars
  BY <1>20 DEF vars, TypeOK, HandlerInv, Quiet, RecoveryInv
<1> QED
  BY <1>1, <1>2, <1>3, <1>4, <1>5, <1>6, <1>7, <1>8, <1>9, <1>10, <1>11, <1>12, <1>13,
     <1>14, <1>15, <1>16, <1>17, <1>18, <1>19, <1>20 DEF Next, Handler

\* The invariant holds in every reachable state.
LEMMA Invariance == ASSUME Overlap = {} PROVE Spec => []IInv
<1>1. IInv /\ [Next]_vars => IInv'
  BY NextType, NextHandler, NextDisk, NextRecovery DEF IInv
<1> QED
  BY InitInv, <1>1, PTL DEF Spec

-----------------------------------------------------------------------------
(* The theorems. *)

\* Every variable keeps its type: the log is a sequence of well-formed
\* commands, the checkpoint is a table.
THEOREM TypeCorrect == ASSUME Overlap = {} PROVE Spec => []TypeOK
<1>1. IInv => TypeOK
  BY DEF IInv
<1> QED
  BY Invariance, <1>1, PTL

\* Between requests a serving worker holds exactly the table of its logged
\* writes (worker.cc, Put, CPut, Delete and their Replicate twins).
THEOREM ServesLogged == ASSUME Overlap = {} PROVE Spec => []ServesWhatIsLogged
<1>1. IInv => ServesWhatIsLogged
  BY DEF IInv, HandlerInv, ServesWhatIsLogged, Quiet
<1> QED
  BY Invariance, <1>1, PTL

\* clearLog drops only commands whose effect the checkpoint on disk holds.
THEOREM ClearsSaved == ASSUME Overlap = {} PROVE Spec => []ClearedIsSaved
<1>1. IInv => ClearedIsSaved
  BY DEF IInv, HandlerInv, ClearedIsSaved
<1> QED
  BY Invariance, <1>1, PTL

\* recoverFromLocal exits only when the log does not continue the checkpoint.
THEOREM ExitsUnchained == ASSUME Overlap = {} PROVE Spec => []ExitOnlyUnchained
<1>1. IInv => ExitOnlyUnchained
  BY DEF IInv, DiskInv
<1> QED
  BY Invariance, <1>1, PTL

\* recoverFromLocal and replayLogs rebuild the table of all logged writes,
\* for logs of any length and after any history of crashes.
THEOREM RecoversExactly == ASSUME Overlap = {} PROVE Spec => RecoveryExact
<1>1. IInv /\ [Next]_vars
        => [status = "recovering" /\ status' = "serving" /\ synced => mem' = truth]_vars
  <2> SUFFICES ASSUME IInv, Next, status = "recovering", status' = "serving", synced
               PROVE  mem' = truth
    OBVIOUS
  <2>1. FinishRecovery
    <3>1. ~ \E h \in Thread : Handler(h)
      BY DEF IInv, HandlerInv, Quiet, Handler, ApplyToMemory, logCommand, CountUpdate,
             TestCount, serializeTablet, OpenCheckpoint, WriteCheckpoint, CloseCheckpoint,
             clearLog, ResetCount
    <3> QED
      BY <3>1 DEF Next, Begin, Crash, Exit, Shutdown, recoverFromLocal, CheckpointFails,
                  ReplayEntry, ReplayFails, RecoverFromReplica, MayRecover, Alive
  <2> QED
    BY <2>1, ReplayedIsTruth DEF FinishRecovery
<1> QED
  BY Invariance, <1>1, PTL DEF Spec, RecoveryExact
=============================================================================
