------------------------------- MODULE MCMail -------------------------------
(* Mail for TLC: one web thread with its connection, one free SMTP client. *)
EXTENDS Mail

CONSTANTS alice, far, client, web, conn

MCThread == {client, web, conn}
MCSession == {client, conn}
MCConn == [t \in {web} |-> conn]
MCBox == {"inbox", "sent"} \X {alice, far}

MCLimit == [x \in {"send", "delete", "connect"} |-> 1]

C(c) == [cmd |-> c]
M(c, a) == [cmd |-> c, arg |-> a]

Text(ls) == [i \in DOMAIN ls |-> M("line", ls[i])]

\* A message with blank lines and with lines that hold a colon; two messages
\* on one connection, the second without MAIL and RCPT, and a third begun; a
\* message dropped with RSET and the next begun with a malformed MAIL, with
\* lines that look like commands; commands out of order.
MCDialogue ==
  {<<M("MAIL", far), M("RCPT", alice), C("DATA")>>
     \o Text(<<"blank", "field", "text", "blank", "field">>) \o <<C("dot"), C("QUIT")>>,
   <<M("MAIL", far), M("RCPT", alice), M("RCPT", far), C("DATA"), C("dot"),
     C("DATA"), M("line", "text"), C("dot"), M("MAIL", alice)>>,
   <<M("MAIL", alice), M("RCPT", alice), M("RCPT", far), C("RSET"), C("DATA"),
     M("MAIL?", alice), C("DATA"), C("NOOP"), M("MAIL", alice), C("dot")>>,
   <<C("NOOP"), M("RCPT", alice), M("MAIL", Nobody), M("MAIL", alice), C("DATA"),
     M("RCPT", alice), C("DATA"), C("dot")>>}

=============================================================================
