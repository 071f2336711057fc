-------------------------------- MODULE Kvs --------------------------------
(***************************************************************************)
(* One row of the key-value store, as the frontends see it through         *)
(* KeyValueStoreClient (src/backend/kvs_client.h): a function from the     *)
(* columns the row has to their values. A row that does not exist is the   *)
(* function with no column: the worker creates the row at the first Put    *)
(* and erases it with its last column, and answers a missing row and a     *)
(* missing column with the same kind of error.                             *)
(*                                                                         *)
(* ERR stands for every answer that begins with "ERR": a missing column, a *)
(* CPut that lost, a worker that cannot be reached. How the worker logs,   *)
(* checkpoints and replicates a command is the subject of Tablet and       *)
(* Cluster.                                                                *)
(***************************************************************************)
EXTENDS Functions, TLC

CONSTANT ERR  \* an answer that begins with "ERR"

EmptyRow == << >>

Get(row, column) == IF column \in DOMAIN row THEN row[column] ELSE ERR

Put(row, column, value) == (column :> value) @@ row

\* CPut replaces the value only if the column holds the current one.
CPutApplies(row, column, current) ==
  column \in DOMAIN row /\ row[column] = current

CPut(row, column, current, value) ==
  IF CPutApplies(row, column, current) THEN Put(row, column, value) ELSE row

\* Deleting what is not there succeeds and changes nothing.
Delete(row, column) == Restrict(row, DOMAIN row \ {column})
=============================================================================
