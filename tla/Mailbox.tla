------------------------------ MODULE Mailbox ------------------------------
(***************************************************************************)
(* The mailboxes as the mail services keep them in the key-value store     *)
(* (src/frontend/email/email_service.cc, smtp_server.cc). A mailbox is a   *)
(* row: one column per message, named by the message's id and holding its  *)
(* body, and the column "meta" that holds the list of the ids. The list is *)
(* what the pages show; every change to it is a Get of the whole list      *)
(* followed by a Put of the changed one.                                   *)
(*                                                                         *)
(* A thread (of the web server or of the SMTP server) works through the    *)
(* tasks of one request, one call to the store per step. Calls of other    *)
(* threads come in between at will, and a call may fail: refused, or       *)
(* executed with the answer lost. A failed call looks like a missing       *)
(* column to the caller: both are ERR.                                     *)
(***************************************************************************)
EXTENDS Kvs, Integers, Sequences, SequencesExt

CONSTANTS
  Meta,       \* the column "meta"
  Box,        \* mailbox rows: inbox_email:<user>, sent_email:<user>
  Thread,     \* request threads
  MaxFaults   \* bound: calls to the store that fail, threads that die

VARIABLES
  row,     \* the rows of the store
  todo,    \* what each thread has still to do: a sequence of tasks
  pc,      \* "idle"; "run": at the next task; "get", "put": at the list
  cur,     \* currentMeta, as each thread read it
  faults,  \* faults so far
  batch,   \* history: deliveries of the request that were not warned about
  acked,   \* history: deliveries reported to their sender as done
  erased,  \* history: messages whose owner deleted them
  upset,   \* history: mailboxes whose list was written from a stale view
  failed   \* history: mailboxes on which a call failed or a request was cut
           \* short

threadVars == <<todo, pc, cur>>
history == <<batch, acked, erased, upset, failed>>
mailboxVars == <<row, threadVars, faults, history>>

\* Tasks. A web delivery that cannot store the body leaves the list alone and
\* warns the user; the SMTP server does not look at the answer.
DeliverTask(b, i, body, web) ==
  [op |-> "deliver", box |-> b, id |-> i, body |-> body, web |-> web]
RemoveTask(b, i) == [op |-> "remove", box |-> b, id |-> i]

\* renderInbox: the ids of the list, the empty list and a missing one alike.
Listed(b) == LET l == Get(row[b], Meta) IN IF l = ERR THEN {} ELSE ToSet(l)

\* viewEmail: a message can be read when the page lists it and its body is
\* there.
Readable(b) == Listed(b) \cap DOMAIN row[b]

MailboxInit ==
  /\ row = [b \in Box |-> EmptyRow]
  /\ todo = [t \in Thread |-> << >>]
  /\ pc = [t \in Thread |-> "idle"]
  /\ cur = [t \in Thread |-> << >>]
  /\ faults = 0
  /\ batch = [t \in Thread |-> {}]
  /\ acked = {}
  /\ erased = {}
  /\ upset = {}
  /\ failed = {}

\* A call on row b is answered, or fails within the bound.
Call(b, ok) ==
  IF ok THEN UNCHANGED <<faults, failed>>
  ELSE /\ faults < MaxFaults
       /\ faults' = faults + 1
       /\ failed' = failed \cup {b}

\* A write that is answered was executed; one that fails may have been.
Write(b, new, ok) ==
  /\ Call(b, ok)
  /\ \/ row' = [row EXCEPT ![b] = new]
     \/ ~ok /\ UNCHANGED row

Task(t) == Head(todo[t])

At(t, place, op) == pc[t] = place /\ todo[t] # << >> /\ Task(t).op = op

Goto(t, place) == pc' = [pc EXCEPT ![t] = place] /\ UNCHANGED todo

TaskDone(t) ==
  /\ todo' = [todo EXCEPT ![t] = Tail(@)]
  /\ pc' = [pc EXCEPT ![t] = "run"]

\* A request starts with its tasks laid out.
Start(t, tasks) ==
  /\ pc[t] = "idle"
  /\ pc' = [pc EXCEPT ![t] = "run"]
  /\ todo' = [todo EXCEPT ![t] = tasks]
  /\ batch' = [batch EXCEPT ![t] =
       {k \in ToSet(tasks) : k.op = "deliver"}]
  /\ UNCHANGED <<row, cur, faults, acked, erased, upset, failed>>

\* Mutation: the request is answered before its tasks are done.
ReplyEarly(t) ==
  /\ pc[t] = "run"
  /\ pc' = [pc EXCEPT ![t] = "idle"]
  /\ acked' = acked \cup batch[t]
  /\ batch' = [batch EXCEPT ![t] = {}]
  /\ UNCHANGED <<row, todo, cur, faults, erased, upset, failed>>

\* All tasks done: the request is answered.
Reply(t) ==
  /\ pc[t] = "run"
  /\ todo[t] = << >>
  /\ pc' = [pc EXCEPT ![t] = "idle"]
  /\ acked' = acked \cup batch[t]
  /\ batch' = [batch EXCEPT ![t] = {}]
  /\ UNCHANGED <<row, todo, cur, faults, erased, upset, failed>>

\* Mutation: webmail does not look at the answer either.
PutBodyUnchecked(t) ==
  /\ At(t, "run", "deliver")
  /\ LET k == Task(t) IN
     \E ok \in BOOLEAN : Write(k.box, Put(row[k.box], k.id, k.body), ok)
  /\ Goto(t, "get")
  /\ UNCHANGED <<cur, batch, acked, erased, upset>>

PutBody(t) ==
  /\ At(t, "run", "deliver")
  /\ LET k == Task(t) IN
     \E ok \in BOOLEAN :
        /\ Write(k.box, Put(row[k.box], k.id, k.body), ok)
        /\ IF k.web /\ ~ok
           THEN /\ TaskDone(t)
                /\ batch' = [batch EXCEPT ![t] = @ \ {k}]
           ELSE Goto(t, "get") /\ UNCHANGED batch
  /\ UNCHANGED <<cur, acked, erased, upset>>

\* Mutation: the list is left as it is.
DeleteBodyOnly(t) ==
  /\ At(t, "run", "remove")
  /\ LET k == Task(t) IN
     \E ok \in BOOLEAN :
        /\ Write(k.box, Delete(row[k.box], k.id), ok)
        /\ erased' = erased \cup {[box |-> k.box, id |-> k.id]}
  /\ TaskDone(t)
  /\ UNCHANGED <<cur, batch, acked, upset>>

DeleteBody(t) ==
  /\ At(t, "run", "remove")
  /\ LET k == Task(t) IN
     \E ok \in BOOLEAN :
        /\ Write(k.box, Delete(row[k.box], k.id), ok)
        /\ IF ok THEN Goto(t, "get") ELSE TaskDone(t)
        /\ erased' = erased \cup {[box |-> k.box, id |-> k.id]}
  /\ UNCHANGED <<cur, batch, acked, upset>>

\* removeFromMetadata returns on ERR, appendToMetadata takes it for "no list".
GetMeta(t) ==
  /\ pc[t] = "get"
  /\ LET k == Task(t) IN
     \E ok \in BOOLEAN :
        LET l == IF ok THEN Get(row[k.box], Meta) ELSE ERR IN
        /\ Call(k.box, ok)
        /\ cur' = [cur EXCEPT ![t] = l]
        /\ IF k.op = "remove" /\ l = ERR THEN TaskDone(t) ELSE Goto(t, "put")
  /\ UNCHANGED <<row, batch, acked, erased, upset>>

\* Mutation: the new message takes the place of the list.
OnlyNewMeta(l, k) ==
  IF k.op = "remove" THEN SelectSeq(l, LAMBDA i : i # k.id) ELSE <<k.id>>

NewMeta(l, k) ==
  CASE k.op = "remove"                        -> SelectSeq(l, LAMBDA i : i # k.id)
    [] k.op = "deliver" /\ l \in {ERR, << >>} -> <<k.id>>
    [] OTHER                                  -> Append(l, k.id)

\* The view of thread t is out of date: the list is not the one it read, or
\* the body it stored is gone, or the one it deleted is back.
Stale(t) ==
  LET k == Task(t) IN
  \/ Get(row[k.box], Meta) # cur[t]
  \/ Get(row[k.box], k.id) # IF k.op = "deliver" THEN k.body ELSE ERR

PutMeta(t) ==
  /\ pc[t] = "put"
  /\ LET k == Task(t) IN
     \E ok \in BOOLEAN :
        /\ Write(k.box, Put(row[k.box], Meta, NewMeta(cur[t], k)), ok)
        /\ upset' = IF Stale(t) THEN upset \cup {k.box} ELSE upset
  /\ TaskDone(t)
  /\ cur' = [cur EXCEPT ![t] = << >>]
  /\ UNCHANGED <<batch, acked, erased>>

\* The process dies: the threads in T stop where they are, and their clients
\* get no answer.
Die(T) ==
  /\ faults < MaxFaults
  /\ faults' = faults + 1
  /\ failed' = failed \cup {k.box : k \in
       {j \in UNION {ToSet(todo[t]) : t \in T} : j.op \in {"deliver", "remove"}}}
  /\ todo' = [t \in Thread |-> IF t \in T THEN << >> ELSE todo[t]]
  /\ pc' = [t \in Thread |-> IF t \in T THEN "idle" ELSE pc[t]]
  /\ cur' = [t \in Thread |-> IF t \in T THEN << >> ELSE cur[t]]
  /\ batch' = [t \in Thread |-> IF t \in T THEN {} ELSE batch[t]]
  /\ UNCHANGED <<row, acked, erased, upset>>
=============================================================================
