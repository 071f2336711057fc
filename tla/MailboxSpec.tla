---------------------------- MODULE MailboxSpec ----------------------------
(***************************************************************************)
(* What the mail system promises of the mailboxes, without the way they    *)
(* are kept: a mailbox maps the ids of its messages to their bodies; a     *)
(* delivery that was taken on stays pending until it has reached its       *)
(* mailbox, and is given up only if a call to the store failed or the      *)
(* process that had taken it on died; a message leaves a mailbox only when *)
(* its owner deletes it.                                                   *)
(*                                                                         *)
(* A mailbox becomes "upset" when its list of ids was overwritten by a     *)
(* thread whose view of the mailbox was out of date. Nothing is promised   *)
(* of it from then on, and nothing that happens to it touches another.     *)
(***************************************************************************)
EXTENDS Functions

CONSTANT Box

VARIABLES
  box,      \* the messages of each mailbox: a function from ids to bodies
  pending,  \* deliveries [box, id, body] taken on and not done yet
  upset,    \* mailboxes whose list was overwritten from a stale view
  failed    \* mailboxes on which a call failed or a request was cut short

vars == <<box, pending, upset, failed>>

Init ==
  /\ box = [b \in Box |-> << >>]
  /\ pending = {}
  /\ upset = {}
  /\ failed = {}

At(b, D) == {d \in D : d.box = b}

\* Taking on deliveries changes no mailbox.
Submit ==
  /\ pending \subseteq pending'
  /\ UNCHANGED <<box, upset>>

\* A pending delivery puts its message in the mailbox, at once or again.
Deliver(b) ==
  \E d \in At(b, pending) :
     /\ box' = [box EXCEPT ![b] =
          [i \in DOMAIN @ \cup {d.id} |-> IF i = d.id THEN d.body ELSE @[i]]]
     /\ pending' \in {pending, pending \ {d}}
     /\ UNCHANGED upset

GiveUp ==
  /\ pending' \subseteq pending
  /\ \A d \in pending \ pending' : d.box \in failed'
  /\ UNCHANGED <<box, upset>>

Remove(b) ==
  \E i \in DOMAIN box[b] :
     /\ box' = [box EXCEPT ![b] = Restrict(@, DOMAIN @ \ {i})]
     /\ UNCHANGED <<pending, upset>>

\* Whatever happens to an upset mailbox stays in that mailbox.
Upset(b) ==
  /\ upset' = upset \cup {b}
  /\ \A c \in Box \ {b} :
        box'[c] = box[c] /\ At(c, pending) \subseteq At(c, pending')

Next ==
  /\ failed \subseteq failed'
  /\ \/ Submit
     \/ GiveUp
     \/ \E b \in Box : Deliver(b) \/ Remove(b) \/ Upset(b)

Spec == Init /\ [][Next]_vars
=============================================================================
