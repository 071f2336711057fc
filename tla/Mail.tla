-------------------------------- MODULE Mail --------------------------------
(***************************************************************************)
(* Webmail (EmailService, src/frontend/email/email_service.cc) and the     *)
(* SMTP server (smtp_server.cc) on the same mailboxes. A web request       *)
(* delivers to a local inbox itself and hands mail for other hosts to the  *)
(* SMTP server over a connection of its own; other SMTP clients speak the  *)
(* dialogues of a given set, or a beginning of one. The end of DATA stores *)
(* the message for the local recipients one after the other, then relays   *)
(* it, then answers 250.                                                   *)
(***************************************************************************)
EXTENDS Mailbox, Smtp

CONSTANTS
  WebThread,  \* request threads of the web server
  Conn,       \* the SMTP connection sendViaSMTP of a web thread opens
  Daemon,     \* mailer-daemon@localhost
  Plain,      \* the subject of a message
  Dialogue,   \* what a free SMTP client may send: sequences of lines
  Time,       \* seconds the clock may show
  Limit       \* bounds: "send", messages sent by webmail; "delete", messages
              \* deleted; "connect", connections of free clients

VARIABLES
  script,  \* what the client has still to send on each connection
  count    \* how often each has happened

mailVars == <<script, count>>
vars == <<mailboxVars, smtpVars, mailVars>>

WebConn == {Conn[t] : t \in WebThread}

\* createMetadata: two messages with the same sender, recipient and subject
\* in one second have the same id.
MakeId(from, to, subject, time) ==
  [from |-> from, to |-> to, subject |-> subject, time |-> time]

Inbox(a) == <<"inbox", a>>
SentBox(a) == <<"sent", a>>

Counted(x) == count[x] < Limit[x] /\ count' = [count EXCEPT ![x] = @ + 1]

Init ==
  /\ MailboxInit
  /\ SmtpInit
  /\ script = [s \in Session |-> << >>]
  /\ count = [x \in DOMAIN Limit |-> 0]

-----------------------------------------------------------------------------
(* Webmail.                                                                *)

RelayTask(from, to) == [op |-> "relay", from |-> from, to |-> to]
SmtpTask(from, to) == [op |-> "smtp", from |-> from, to |-> to]

WebBody == <<"text">>

SendEmail(t, from, to, now) ==
  LET id == MakeId(from, to, Plain, now) IN
  /\ Counted("send")
  /\ Start(t, <<IF to \in Outsider THEN SmtpTask(from, to)
                ELSE DeliverTask(Inbox(to), id, WebBody, TRUE),
                DeliverTask(SentBox(from), id, WebBody, TRUE)>>)
  /\ UNCHANGED <<smtpVars, script>>

\* The user deletes a message that the page showed.
DeleteEmail(t, b) ==
  /\ Counted("delete")
  /\ \E i \in Listed(b) : Start(t, <<RemoveTask(b, i)>>)
  /\ UNCHANGED <<smtpVars, script>>

\* sendViaSMTP: the header is one line, then a blank one, then the body.
Script(from, to) ==
  <<[cmd |-> "MAIL", arg |-> from], [cmd |-> "RCPT", arg |-> to],
    [cmd |-> "DATA"], [cmd |-> "line", arg |-> "field"],
    [cmd |-> "line", arg |-> "blank"], [cmd |-> "line", arg |-> "text"],
    [cmd |-> "dot"], [cmd |-> "QUIT"]>>

\* connect fails when the SMTP server does not run; the user is warned.
ConnectSmtp(t) ==
  LET s == Conn[t] IN
  /\ At(t, "run", "smtp")
  /\ \/ /\ Connect(s)
        /\ script' = [script EXCEPT ![s] = Script(Task(t).from, Task(t).to)]
        /\ Goto(t, "smtp")
     \/ TaskDone(t) /\ UNCHANGED <<smtpVars, script>>
  /\ UNCHANGED <<row, cur, faults, history, count>>

\* It reads the answers but does not look at them, and reports success.
SmtpDone(t) ==
  /\ pc[t] = "smtp" /\ script[Conn[t]] = << >>
  /\ TaskDone(t)
  /\ UNCHANGED <<row, cur, faults, history, smtpVars, mailVars>>

-----------------------------------------------------------------------------
(* The SMTP server.                                                        *)

\* What the end of DATA does for the recipients, in order.
MessageTasks(s, now) ==
  LET m == smtp[s]
      Local(a) ==
        LET id == MakeId(m.senderEmail, a, Plain, now)
        IN <<DeliverTask(Inbox(a), id, m.bodyBlock, FALSE)>>
           \o IF m.senderEmail \in LocalUser
              THEN <<DeliverTask(SentBox(m.senderEmail), id, m.bodyBlock, FALSE)>>
              ELSE << >>
  IN FlattenSeq([i \in DOMAIN m.validRecipients |-> Local(m.validRecipients[i])])
     \o IF extraCreditNonLocal
        THEN [i \in DOMAIN m.nonLocalRecipients |->
                RelayTask(m.senderEmail, m.nonLocalRecipients[i])]
        ELSE << >>

EndMessage(s) ==
  EndData(s) /\ \E now \in Time : Start(s, MessageTasks(s, now))

\* A notice in the inbox of the sender.
sendDeliveryFailure(from, to, now) ==
  DeliverTask(Inbox(from), MakeId(Daemon, from, to, now), <<"failure">>, FALSE)

\* The relay takes the message, or cannot be reached: then the sender is sent
\* a delivery failure.
Relay(s) ==
  /\ At(s, "run", "relay")
  /\ \/ TaskDone(s)
     \/ \E now \in Time :
          /\ todo' = [todo EXCEPT ![s] =
               <<sendDeliveryFailure(Task(s).from, Task(s).to, now)>> \o Tail(@)]
          /\ UNCHANGED pc
  /\ UNCHANGED <<row, cur, faults, history, smtpVars, mailVars>>

Idle(s) == pc[s] = "idle"

ConnectClient(s) ==
  /\ s \notin WebConn
  /\ Counted("connect")
  /\ Idle(s) /\ Connect(s)
  /\ script' \in {[script EXCEPT ![s] = d] : d \in Dialogue}
  /\ UNCHANGED mailboxVars

\* A command read as a line of a message.
AsLine(c) == CASE c.cmd = "line"                       -> c.arg
               [] c.cmd \in {"MAIL", "MAIL?", "RCPT"} -> "field"
               [] OTHER                                -> "text"

\* The thread of a connection handles the next line of its client. In DATA
\* everything but the dot is the message; outside it, a line of a message is
\* an unknown command.
HandleNext(s) ==
  LET c == Head(script[s]) IN
  /\ smtp[s].open /\ script[s] # << >> /\ Idle(s)
  /\ script' = [script EXCEPT ![s] = Tail(@)]
  /\ \/ /\ \/ c.cmd = "MAIL" /\ Mail(s, c.arg)
           \/ c.cmd = "MAIL?" /\ MailMalformed(s, c.arg)
           \/ c.cmd = "RCPT" /\ (Rcpt(s, c.arg) \/ RcptRefused(s, c.arg))
           \/ c.cmd = "DATA" /\ (Data(s) \/ DataRefused(s))
           \/ c.cmd = "RSET" /\ Rset(s)
           \/ c.cmd \in {"NOOP", "line", "dot"} /\ Noop(s)
           \/ c.cmd = "QUIT" /\ Ready(s) /\ Close(s)
           \/ c.cmd # "dot" /\ DataLine(s, AsLine(c))
        /\ UNCHANGED mailboxVars
     \/ c.cmd = "dot" /\ EndMessage(s)
  /\ UNCHANGED count

\* The client goes away; what it has not sent is never sent.
Vanish(s) ==
  /\ s \notin WebConn
  /\ script[s] # << >>
  /\ script' = [script EXCEPT ![s] = << >>]
  /\ UNCHANGED <<mailboxVars, smtpVars, count>>

\* recv returns 0 after the last line.
Hangup(s) ==
  /\ script[s] = << >> /\ Idle(s)
  /\ Close(s)
  /\ UNCHANGED <<mailboxVars, mailVars>>

\* Mutation: the clients do not notice that the server has died.
SmtpDiesUnnoticed ==
  /\ \E s \in Session : smtp[s].open
  /\ Die(Session)
  /\ CloseAll
  /\ UNCHANGED mailVars

\* The server dies with all its connections.
SmtpDies ==
  /\ \E s \in Session : smtp[s].open
  /\ Die(Session)
  /\ CloseAll
  /\ script' = [s \in Session |-> << >>]
  /\ UNCHANGED count

\* A web thread dies, and with it its connection.
WebDies(t) ==
  /\ pc[t] # "idle"
  /\ Die({t})
  /\ script' = [script EXCEPT ![Conn[t]] = << >>]
  /\ UNCHANGED <<smtpVars, count>>

-----------------------------------------------------------------------------
ThreadStep(t) ==
  /\ \/ PutBody(t)
     \/ DeleteBody(t)
     \/ GetMeta(t)
     \/ PutMeta(t)
     \/ Reply(t)
  /\ UNCHANGED <<smtpVars, mailVars>>

\* Steps that wait for nobody outside the system.
Progress(t) ==
  \/ ThreadStep(t)
  \/ t \in Session /\ Relay(t)
  \/ t \in WebConn /\ (HandleNext(t) \/ Hangup(t))
  \/ t \in WebThread /\ (ConnectSmtp(t) \/ SmtpDone(t))

Next ==
  \/ \E t \in WebThread :
        \/ \E from \in LocalUser, to \in Address, now \in Time :
              SendEmail(t, from, to, now)
        \/ \E b \in Box : DeleteEmail(t, b)
        \/ WebDies(t)
  \/ \E s \in Session \ WebConn :
        ConnectClient(s) \/ HandleNext(s) \/ Vanish(s) \/ Hangup(s)
  \/ SmtpDies
  \/ \E t \in Thread : Progress(t)

Spec == Init /\ [][Next]_vars

\* No thread waits for another one or for a lock, and sendViaSMTP waits only
\* for a server that answers every line: what a thread has to do gets done.
FairSpec == Spec /\ \A t \in Thread : WF_vars(Progress(t))

-----------------------------------------------------------------------------
DeliverTasks == {k \in UNION {ToSet(todo[t]) : t \in Thread} : k.op = "deliver"}

\* The mailboxes implement MailboxSpec: a message is in a mailbox when the list
\* names it and its body is stored.
Abstract == INSTANCE MailboxSpec WITH
  box <- [b \in Box |-> [i \in Readable(b) |-> row[b][i]]],
  pending <- {[box |-> k.box, id |-> k.id, body |-> k.body] : k \in DeliverTasks}

\* What deliveries and deletions by any threads do to the mailboxes, call by
\* call, with calls that fail and processes that die, is what MailboxSpec
\* allows: a message is lost, or comes back, only in a mailbox whose list was
\* written from a stale view (appendToMetadata, removeFromMetadata).
ImplementsMailboxSpec == Abstract!Spec

\* What a sender was told is delivered is on the page of the mailbox, unless
\* its owner deleted it, a call failed or the list was written from a stale
\* view (sendEmail, end of DATA).
AckedIsListed ==
  \A k \in acked :
    \/ k.id \in Readable(k.box)
    \/ [box |-> k.box, id |-> k.id] \in erased
    \/ k.box \in upset \cup failed

\* Webmail warns: whatever fails and whoever interferes, a message it reports
\* without a warning is stored until its owner deletes it, listed or not
\* (sendEmail checks the Put of the body).
WebAckedIsStored ==
  \A k \in acked : k.web =>
    \/ k.id \in DOMAIN row[k.box]
    \/ [box |-> k.box, id |-> k.id] \in erased

\* At rest, a mailbox lists exactly the messages it stores: a delivery that is
\* not cut short leaves no body without entry, a deletion no entry without
\* body.
ListMatchesBodies ==
  \A b \in Box \ (upset \cup failed) :
    (\A t \in Thread : pc[t] \in {"get", "put"} => Task(t).box # b)
      => Listed(b) = DOMAIN row[b] \ {Meta}

\* The page of every web request is answered, also when the request waits for
\* the SMTP server and the server dies (sendViaSMTP).
WebRequestsFinish == \A t \in WebThread : pc[t] # "idle" ~> pc[t] = "idle"
=============================================================================
