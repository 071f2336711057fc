------------------------------- MODULE Tablet -------------------------------
(***************************************************************************)
(* One tablet on one worker (worker.cc): the table in memory, its command  *)
(* log, its checkpoint file, and the recovery that rebuilds the table.     *)
(*                                                                         *)
(* A request handler changes memory, appends to the log, counts, and at    *)
(* MAX_UPDATE_COUNT writes the checkpoint and clears the log.  The process *)
(* may die between any two of these steps.  The handlers take no lock, so  *)
(* every step is an action of its own; each step is taken to be atomic,    *)
(* although concurrent calls also race inside unordered_map and fstream.   *)
(* Put, CPut and Delete and their Replicate twins run the same steps on    *)
(* this state; sending to the replicas changes nothing here.               *)
(***************************************************************************)
EXTENDS Integers, Sequences

CONSTANTS
  Key,               \* cells of the tablet: (row, column) pairs
  Value,
  Absent,            \* no value at a cell
  Thread,            \* gRPC handler threads
  MAX_UPDATE_COUNT,  \* updates between two checkpoints
  MaxLog,            \* bound: requests start only on a shorter log
  Copies,            \* tables a CopyTablet from another holder may return
  Overlap            \* which calls may overlap a running handler: "handler"
                     \* (another handler, on another cell), "restart" (an
                     \* admin RESTART)

Table == [Key -> Value \cup {Absent}]

EmptyTable == [k \in Key |-> Absent]

\* CommandLog; a PUT or DELETE has "NULL" in the fields it does not use.
Entry ==
  [cmd : {"PUT"}, key : Key, v1 : Value, v2 : {Absent}]
    \cup [cmd : {"CPUT"}, key : Key, v1 : Value, v2 : Value]
    \cup [cmd : {"DELETE"}, key : Key, v1 : {Absent}, v2 : {Absent}]

ASSUME TabletAssumption ==
  /\ Absent \notin Value
  /\ MAX_UPDATE_COUNT \in Nat \ {0}
  /\ MaxLog \in Nat
  /\ Copies \subseteq Table
  /\ Overlap \subseteq {"handler", "restart"}

VARIABLES
  status,    \* "serving"; "shutdown" by the admin; "recovering"; "down";
             \* "badckpt", "badlog": recovery called exit()
  mem,       \* the table in memory
  count,     \* updateRequestCount of this tablet
  log,       \* the command log file
  ckptFile,  \* the checkpoint file: "none" (missing or empty), "partial", "whole"
  ckpt,      \* the table a whole checkpoint file holds
  pc,        \* where each handler thread is
  req,       \* the command each handler thread executes
  buf,       \* binaryData of each handler thread
  rlog,      \* the log as getLogs returned it to the recovery
  ridx,      \* entries of rlog replayed so far
  truth,     \* history: the table of all logged writes
  synced,    \* history: checkpoint and log account for memory: no copy from
             \* a replica since the last checkpoint, no crash inside one
  chained    \* history: the log continues the checkpoint on disk

vars == <<status, mem, count, log, ckptFile, ckpt, pc, req, buf, rlog, ridx,
          truth, synced, chained>>
disk == <<log, ckptFile, ckpt>>
recovery == <<rlog, ridx>>
history == <<truth, synced, chained>>

Alive == status \in {"serving", "shutdown", "recovering"}

Quiet == \A h \in Thread : pc[h] = "idle"

\* The value a command leaves at its cell.
Result(e) == CASE e.cmd = "PUT"    -> e.v1
               [] e.cmd = "CPUT"   -> e.v2
               [] e.cmd = "DELETE" -> Absent

\* CPut needs the cell to hold its current_value; the others always succeed.
Admissible(table, e) == e.cmd = "CPUT" => table[e.key] = e.v1

Applied(table, e) == [table EXCEPT ![e.key] = Result(e)]

-----------------------------------------------------------------------------
Init ==
  /\ status = "serving"
  /\ mem = EmptyTable
  /\ count = 0
  /\ log = <<>>
  /\ ckptFile = "none"
  /\ ckpt = EmptyTable
  /\ pc = [h \in Thread |-> "idle"]
  /\ req = [h \in Thread |-> <<>>]
  /\ buf = [h \in Thread |-> EmptyTable]
  /\ rlog = <<>>
  /\ ridx = 0
  /\ truth = EmptyTable
  /\ synced = TRUE
  /\ chained = TRUE

(* The handler.  A refused request (worker shut down, CPut mismatch)       *)
(* returns before it changes anything.                                     *)

Goto(h, l) == pc' = [pc EXCEPT ![h] = l]

\* The handler returns and its locals die.
Return(h) ==
  /\ Goto(h, "idle")
  /\ req' = [req EXCEPT ![h] = <<>>]
  /\ buf' = [buf EXCEPT ![h] = EmptyTable]

Begin(h, e) ==
  /\ status = "serving"
  /\ pc[h] = "idle"
  /\ "handler" \in Overlap \/ Quiet
  /\ \A g \in Thread : pc[g] # "idle" => req[g].key # e.key
  /\ Len(log) < MaxLog
  /\ Admissible(mem, e)
  /\ Goto(h, "apply")
  /\ req' = [req EXCEPT ![h] = e]
  /\ UNCHANGED <<status, mem, count, disk, buf, recovery, history>>

ApplyToMemory(h) ==
  /\ pc[h] = "apply"
  /\ mem' = Applied(mem, req[h])
  /\ Goto(h, "log")
  /\ UNCHANGED <<status, count, disk, req, buf, recovery, history>>

\* Flushed before it returns: a dead process does not lose it.
logCommand(h) ==
  /\ pc[h] = "log"
  /\ log' = Append(log, req[h])
  /\ truth' = Applied(truth, req[h])
  /\ Goto(h, "count")
  /\ UNCHANGED <<status, mem, count, ckptFile, ckpt, req, buf, recovery, synced, chained>>

CountUpdate(h) ==
  /\ pc[h] = "count"
  /\ count' = count + 1
  /\ Goto(h, "test")
  /\ UNCHANGED <<status, mem, disk, req, buf, recovery, history>>

\* Below the limit the request is answered.
TestCount(h) ==
  /\ pc[h] = "test"
  /\ \/ /\ count >= MAX_UPDATE_COUNT
        /\ Goto(h, "serialize")
        /\ UNCHANGED <<req, buf>>
     \/ /\ count < MAX_UPDATE_COUNT
        /\ Return(h)
  /\ UNCHANGED <<status, mem, count, disk, recovery, history>>

serializeTablet(h) ==
  /\ pc[h] = "serialize"
  /\ buf' = [buf EXCEPT ![h] = mem]
  /\ Goto(h, "open")
  /\ UNCHANGED <<status, mem, count, disk, req, recovery, history>>

\* Mutation: the file is truncated and the write is lost.
OpenWithoutWrite(h) ==
  /\ pc[h] = "open"
  /\ ckptFile' = "none"
  /\ ckpt' = EmptyTable
  /\ chained' = FALSE
  /\ Goto(h, "clear")
  /\ UNCHANGED <<status, mem, count, log, req, buf, recovery, truth, synced>>

\* commitCheckpoint: opening truncates the old checkpoint ...
OpenCheckpoint(h) ==
  /\ pc[h] = "open"
  /\ ckptFile' = "none"
  /\ ckpt' = EmptyTable
  /\ chained' = FALSE
  /\ Goto(h, "write")
  /\ UNCHANGED <<status, mem, count, log, req, buf, recovery, truth, synced>>

\* ... the stream's buffer may spill a part of the data ...
WriteCheckpoint(h) ==
  /\ pc[h] = "write"
  /\ ckptFile' = "partial"
  /\ Goto(h, "close")
  /\ UNCHANGED <<status, mem, count, log, ckpt, req, buf, recovery, history>>

\* ... and closing completes the file.
CloseCheckpoint(h) ==
  /\ pc[h] \in {"write", "close"}
  /\ ckptFile' = "whole"
  /\ ckpt' = buf[h]
  /\ Goto(h, "clear")
  /\ UNCHANGED <<status, mem, count, log, req, buf, recovery, history>>

\* Mutation: the log is kept.
KeepLog(h) ==
  /\ pc[h] = "clear"
  /\ synced' = TRUE
  /\ chained' = TRUE
  /\ Goto(h, "reset")
  /\ UNCHANGED <<status, mem, count, disk, req, buf, recovery, truth>>

clearLog(h) ==
  /\ pc[h] = "clear"
  /\ log' = <<>>
  /\ synced' = TRUE
  /\ chained' = TRUE
  /\ Goto(h, "reset")
  /\ UNCHANGED <<status, mem, count, ckptFile, ckpt, req, buf, recovery, truth>>

\* Mutation: the counter is lowered by one too many.
LowerCount(h) ==
  /\ pc[h] = "reset"
  /\ count' = count - (MAX_UPDATE_COUNT + 1)
  /\ Return(h)
  /\ UNCHANGED <<status, mem, disk, recovery, history>>

ResetCount(h) ==
  /\ pc[h] = "reset"
  /\ count' = 0
  /\ Return(h)
  /\ UNCHANGED <<status, mem, disk, recovery, history>>

Handler(h) ==
  \/ ApplyToMemory(h) \/ logCommand(h) \/ CountUpdate(h) \/ TestCount(h)
  \/ serializeTablet(h) \/ OpenCheckpoint(h) \/ WriteCheckpoint(h)
  \/ CloseCheckpoint(h) \/ clearLog(h) \/ ResetCount(h)

-----------------------------------------------------------------------------
(* The process: death at any moment, admin shutdown, recovery. *)

\* The process ends and its memory is gone.
Exit(reason) ==
  /\ status' = reason
  /\ mem' = EmptyTable
  /\ count' = 0
  /\ pc' = [h \in Thread |-> "idle"]
  /\ req' = [h \in Thread |-> <<>>]
  /\ buf' = [h \in Thread |-> EmptyTable]
  /\ rlog' = <<>>
  /\ ridx' = 0

Crash ==
  /\ Alive
  /\ Exit("down")
  /\ synced' = (synced /\ \A h \in Thread : pc[h] \notin {"write", "close"})
  /\ UNCHANGED <<disk, truth, chained>>

Shutdown ==
  /\ status = "serving"
  /\ status' = "shutdown"
  /\ UNCHANGED <<mem, count, disk, pc, req, buf, recovery, history>>

\* A launched process and an admin RESTART both call recoverAllTablets.
MayRecover == ~Alive \/ (status = "shutdown" /\ ("restart" \in Overlap \/ Quiet))

\* Mutation: a checkpoint makes the log superfluous.
RecoverCheckpointOnly ==
  /\ MayRecover
  /\ ckptFile # "partial"
  /\ mem' = ckpt
  /\ rlog' = IF ckptFile = "whole" THEN <<>> ELSE log
  /\ ridx' = 0
  /\ status' = "recovering"
  /\ UNCHANGED <<count, disk, pc, req, buf, history>>

\* recoverFromLocal, when no holder of the tablet is alive: the checkpoint is
\* loaded (an empty file counts as none) and the log read.
recoverFromLocal ==
  /\ MayRecover
  /\ ckptFile # "partial"
  /\ mem' = ckpt
  /\ rlog' = log
  /\ ridx' = 0
  /\ status' = "recovering"
  /\ UNCHANGED <<count, disk, pc, req, buf, history>>

\* deserializeTablet returns false and recoverFromLocal exits.
CheckpointFails ==
  /\ MayRecover
  /\ ckptFile = "partial"
  /\ Exit("badckpt")
  /\ UNCHANGED <<disk, history>>

\* Mutation: CPUT replayed with value1.
ReplayFirstValue ==
  /\ status = "recovering"
  /\ ridx < Len(rlog)
  /\ Admissible(mem, rlog[ridx + 1])
  /\ mem' = [mem EXCEPT ![rlog[ridx + 1].key] = rlog[ridx + 1].v1]
  /\ ridx' = ridx + 1
  /\ UNCHANGED <<status, count, disk, pc, req, buf, rlog, history>>

ReplayEntry ==
  /\ status = "recovering"
  /\ ridx < Len(rlog)
  /\ Admissible(mem, rlog[ridx + 1])
  /\ mem' = Applied(mem, rlog[ridx + 1])
  /\ ridx' = ridx + 1
  /\ UNCHANGED <<status, count, disk, pc, req, buf, rlog, history>>

\* replayLogs returns false and recoverFromLocal exits.
ReplayFails ==
  /\ status = "recovering"
  /\ ridx < Len(rlog)
  /\ ~Admissible(mem, rlog[ridx + 1])
  /\ Exit("badlog")
  /\ UNCHANGED <<disk, history>>

\* A table that is not the one of the logged writes is what the worker serves
\* from now on.
FinishRecovery ==
  /\ status = "recovering"
  /\ ridx = Len(rlog)
  /\ status' = "serving"
  /\ truth' = IF synced THEN truth ELSE mem
  /\ synced' = TRUE
  /\ chained' = TRUE
  /\ rlog' = <<>>
  /\ ridx' = 0
  /\ UNCHANGED <<mem, count, disk, pc, req, buf>>

\* recoverAllTablets with a live holder: memory is replaced; the log, the
\* checkpoint and the counter are left as they are.
RecoverFromReplica(copy) ==
  /\ MayRecover
  /\ mem' = copy
  /\ truth' = copy
  /\ status' = "serving"
  /\ synced' = FALSE
  /\ chained' = FALSE
  /\ UNCHANGED <<count, disk, pc, req, buf, recovery>>

Next ==
  \/ \E h \in Thread : Handler(h) \/ \E e \in Entry : Begin(h, e)
  \/ Crash
  \/ Shutdown
  \/ recoverFromLocal
  \/ CheckpointFails
  \/ ReplayEntry
  \/ ReplayFails
  \/ FinishRecovery
  \/ \E copy \in Copies : RecoverFromReplica(copy)

Spec == Init /\ [][Next]_vars

-----------------------------------------------------------------------------
TypeOK ==
  /\ status \in {"serving", "shutdown", "recovering", "down", "badckpt", "badlog"}
  /\ mem \in Table
  /\ count \in Nat
  /\ log \in Seq(Entry)
  /\ ckptFile \in {"none", "partial", "whole"}
  /\ ckpt \in Table
  /\ pc \in [Thread -> {"idle", "apply", "log", "count", "test", "serialize",
                        "open", "write", "close", "clear", "reset"}]
  /\ req \in [Thread -> Entry \cup {<<>>}]
  /\ buf \in [Thread -> Table]
  /\ rlog \in Seq(Entry)
  /\ ridx \in Nat
  /\ truth \in Table
  /\ synced \in BOOLEAN
  /\ chained \in BOOLEAN

\* A local recovery that completes gives back exactly the logged writes, hence
\* every acknowledged one, wherever the process died: between memory and log,
\* between checkpoint and clearLog, or during an earlier recovery.  Excused are
\* a crash while the checkpoint file was being rewritten and a table copied
\* from a replica since the last checkpoint (synced).
RecoveryExact ==
  [][status = "recovering" /\ status' = "serving" /\ synced => mem' = truth]_vars

\* Between requests, memory is the table of the logged writes: no request is
\* answered that log and checkpoint would not bring back.
ServesWhatIsLogged == status = "serving" /\ Quiet => mem = truth

\* When clearLog is about to drop the log, the checkpoint on disk holds every
\* logged write (a cell with a write in memory and not yet in the log may
\* already hold that one).
ClearedIsSaved ==
  \A h \in Thread : pc[h] = "clear" =>
    \A k \in Key : \/ ckpt[k] = truth[k]
                  \/ \E g \in Thread : pc[g] = "log" /\ req[g].key = k

\* Recovery gives up (exit) only when the log does not continue the checkpoint
\* on disk: a crash after commitCheckpoint opened the file and before clearLog,
\* or a table copied from a replica since the last checkpoint.
ExitOnlyUnchained == status \in {"badckpt", "badlog"} => ~chained

-----------------------------------------------------------------------------
(* The inductive invariant behind these properties, for calls that do not  *)
(* overlap.  It says without recursion what replaying a log computes: a    *)
(* cell has the result of the last command on it, or its checkpoint value. *)

LastWrite(l, n, k, v) ==
  \E i \in 1..n : /\ l[i].key = k
                 /\ v = Result(l[i])
                 /\ \A j \in (i + 1)..n : l[j].key # k

Untouched(l, n, k) == \A i \in 1..n : l[i].key # k

\* v is at k after the first n commands of l, starting from table c.
Outcome(l, c, n, k, v) ==
  LastWrite(l, n, k, v) \/ (Untouched(l, n, k) /\ v = c[k])

\* The first n commands of l succeed one after the other, starting from c.
Chain(l, c, n) ==
  \A i \in 1..n :
    l[i].cmd = "CPUT" => Outcome(l, c, i - 1, l[i].key, l[i].v1)

\* The checkpoint file is open for writing.
Rewriting == \E h \in Thread : pc[h] \in {"write", "close"}

HandlerInv ==
  /\ \A g, h \in Thread : pc[g] # "idle" /\ pc[h] # "idle" => g = h
  /\ status \notin {"serving", "shutdown"} => Quiet
  /\ \A h \in Thread :
       /\ pc[h] # "idle" => req[h] \in Entry
       /\ pc[h] \in {"apply", "log"} => Admissible(truth, req[h])
       /\ pc[h] = "log" => mem = Applied(truth, req[h])
       /\ pc[h] \in {"open", "write", "close"} => buf[h] = truth
       /\ pc[h] = "clear" => ckpt = truth /\ ckptFile = "whole"
       /\ pc[h] \in {"write", "close", "clear"} => ~chained
  /\ status \in {"serving", "shutdown"} /\ (\A h \in Thread : pc[h] # "log")
       => mem = truth

DiskInv ==
  /\ chained => synced
  /\ ckptFile = "partial" => ~chained
  /\ synced => \A k \in Key :
       \/ LastWrite(log, Len(log), k, truth[k])
       \/ Untouched(log, Len(log), k) /\ (Rewriting \/ truth[k] = ckpt[k])
  /\ chained => Chain(log, ckpt, Len(log))
  /\ ExitOnlyUnchained

RecoveryInv ==
  status = "recovering" =>
    /\ ckptFile # "partial"
    /\ rlog = log
    /\ ridx \in 0..Len(log)
    /\ \A k \in Key : Outcome(log, ckpt, ridx, k, mem[k])
    /\ Chain(log, ckpt, ridx)

IInv == TypeOK /\ HandlerInv /\ DiskInv /\ RecoveryInv

-----------------------------------------------------------------------------
(* What the README promises without the excuses above. *)

\* "in-memory serving with checkpoint + command-log recovery": a completed
\* local recovery gives back every logged write.
LoggedWritesSurvive ==
  [][status = "recovering" /\ status' = "serving" => mem' = truth]_vars

\* "falls back to local checkpoint/log replay": the replay of the log does not
\* fail.
LogReplays == status # "badlog"
=============================================================================
