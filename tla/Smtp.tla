-------------------------------- MODULE Smtp --------------------------------
(***************************************************************************)
(* One connection of the SMTP server: the automaton of                     *)
(* SMTPServer::handle_client (src/frontend/email/smtp_server.cc). Its      *)
(* state is the thread's local variables; of the answers only their effect *)
(* is kept. What the end of DATA stores and relays is the business of      *)
(* Mail, which composes this module with Mailbox.                          *)
(*                                                                         *)
(* A line inside DATA is "blank", a "field" (it contains a colon) or       *)
(* "text" (it does not).                                                   *)
(***************************************************************************)
EXTENDS Integers, Sequences, SequencesExt

CONSTANTS
  Session,    \* connections
  LocalUser,  \* addresses that end in @localhost
  Outsider,   \* all other addresses
  Nobody      \* the empty senderEmail

Address == LocalUser \cup Outsider
Line == {"blank", "field", "text"}

VARIABLES
  extraCreditNonLocal,  \* the server was started with -x
  smtp,   \* the local variables of each connection's thread
  lines,  \* history: the lines sent since DATA
  since,  \* history: recipients accepted since the last accepted MAIL
  fresh   \* history: local recipients accepted since the last MAIL, RSET or
          \* end of DATA

smtpVars == <<extraCreditNonLocal, smtp, lines, since, fresh>>

NewSession ==
  [open |-> TRUE, senderEmail |-> Nobody, validRecipients |-> << >>,
   nonLocalRecipients |-> << >>, isDataRecptMode |-> FALSE,
   inHeaderSection |-> TRUE, bodyBlock |-> << >>]

Closed == [NewSession EXCEPT !.open = FALSE]

SmtpInit ==
  /\ extraCreditNonLocal \in BOOLEAN
  /\ smtp = [s \in Session |-> Closed]
  /\ lines = [s \in Session |-> << >>]
  /\ since = [s \in Session |-> {}]
  /\ fresh = [s \in Session |-> << >>]

Connect(s) ==
  /\ ~smtp[s].open
  /\ smtp' = [smtp EXCEPT ![s] = NewSession]
  /\ lines' = [lines EXCEPT ![s] = << >>]
  /\ since' = [since EXCEPT ![s] = {}]
  /\ fresh' = [fresh EXCEPT ![s] = << >>]
  /\ UNCHANGED extraCreditNonLocal

\* The connection reads commands.
Ready(s) == smtp[s].open /\ ~smtp[s].isDataRecptMode

\* A line that is answered and changes nothing: HELO and NOOP (250), a command
\* that is not known or not well formed (500), RCPT before MAIL and DATA before
\* MAIL or RCPT (503), a recipient of another host without -x (550).
Noop(s) == Ready(s) /\ UNCHANGED smtpVars

HasRecipient(s) ==
  \/ smtp[s].validRecipients # << >>
  \/ extraCreditNonLocal /\ smtp[s].nonLocalRecipients # << >>

\* Mutation: only the local recipients are cleared.
MailKeepsRelay(s, a) ==
  /\ Ready(s)
  /\ smtp' = [smtp EXCEPT ![s] = [@ EXCEPT !.senderEmail = a,
                                           !.validRecipients = << >>]]
  /\ since' = [since EXCEPT ![s] = {}]
  /\ fresh' = [fresh EXCEPT ![s] = << >>]
  /\ UNCHANGED <<extraCreditNonLocal, lines>>

\* "MAIL FROM:<>" is answered 250, too, and leaves senderEmail empty.
Mail(s, a) ==
  /\ Ready(s)
  /\ smtp' = [smtp EXCEPT ![s] = [@ EXCEPT !.senderEmail = a,
                                           !.validRecipients = << >>,
                                           !.nonLocalRecipients = << >>]]
  /\ since' = [since EXCEPT ![s] = {}]
  /\ fresh' = [fresh EXCEPT ![s] = << >>]
  /\ UNCHANGED <<extraCreditNonLocal, lines>>

\* MAIL FROM: without the angle brackets is answered 500 after senderEmail was
\* set to what followed the colon.
MailMalformed(s, a) ==
  /\ Ready(s)
  /\ smtp' = [smtp EXCEPT ![s].senderEmail = a]
  /\ UNCHANGED <<extraCreditNonLocal, lines, since, fresh>>

Rcpt(s, a) ==
  /\ Ready(s)
  /\ smtp[s].senderEmail # Nobody
  /\ \/ /\ a \in LocalUser
        /\ smtp' = [smtp EXCEPT ![s].validRecipients = Append(@, a)]
        /\ fresh' = [fresh EXCEPT ![s] = Append(@, a)]
     \/ /\ a \in Outsider
        /\ extraCreditNonLocal
        /\ smtp' = [smtp EXCEPT ![s].nonLocalRecipients = Append(@, a)]
        /\ UNCHANGED fresh
  /\ since' = [since EXCEPT ![s] = @ \cup {a}]
  /\ UNCHANGED <<extraCreditNonLocal, lines>>

RcptRefused(s, a) ==
  /\ \/ smtp[s].senderEmail = Nobody
     \/ a \in Outsider /\ ~extraCreditNonLocal
  /\ Noop(s)

\* Mutation: DATA asks for a sender only.
DataAfterMail(s) ==
  /\ Ready(s)
  /\ smtp[s].senderEmail # Nobody
  /\ smtp' = [smtp EXCEPT ![s] =
       [@ EXCEPT !.isDataRecptMode = TRUE, !.inHeaderSection = TRUE,
                 !.bodyBlock = << >>]]
  /\ lines' = [lines EXCEPT ![s] = << >>]
  /\ UNCHANGED <<extraCreditNonLocal, since, fresh>>

Data(s) ==
  /\ Ready(s)
  /\ smtp[s].senderEmail # Nobody /\ HasRecipient(s)
  /\ smtp' = [smtp EXCEPT ![s] =
       [@ EXCEPT !.isDataRecptMode = TRUE, !.inHeaderSection = TRUE,
                 !.bodyBlock = << >>]]
  /\ lines' = [lines EXCEPT ![s] = << >>]
  /\ UNCHANGED <<extraCreditNonLocal, since, fresh>>

DataRefused(s) ==
  /\ smtp[s].senderEmail = Nobody \/ ~HasRecipient(s)
  /\ Noop(s)

\* Mutation: lines with a colon are taken for header fields in the body too.
DataLineNoColon(s, l) ==
  /\ smtp[s].open /\ smtp[s].isDataRecptMode
  /\ lines' = [lines EXCEPT ![s] = Append(@, l)]
  /\ smtp' = IF l # "text" THEN smtp
             ELSE [smtp EXCEPT ![s] = [@ EXCEPT !.inHeaderSection = FALSE,
                                                !.bodyBlock = Append(smtp[s].bodyBlock, l)]]
  /\ UNCHANGED <<extraCreditNonLocal, since, fresh>>

\* A line of the message. Blank lines never get past the trimming at the head
\* of the loop, so the header ends at the first line without a colon.
DataLine(s, l) ==
  /\ smtp[s].open /\ smtp[s].isDataRecptMode
  /\ lines' = [lines EXCEPT ![s] = Append(@, l)]
  /\ smtp' =
       IF l = "blank" \/ (l = "field" /\ smtp[s].inHeaderSection) THEN smtp
       ELSE [smtp EXCEPT ![s] = [@ EXCEPT !.inHeaderSection = FALSE,
                                          !.bodyBlock = Append(smtp[s].bodyBlock, l)]]
  /\ UNCHANGED <<extraCreditNonLocal, since, fresh>>

\* Mutation: the recipients of the message stay.
EndDataKeepsRecipients(s) ==
  /\ smtp[s].open /\ smtp[s].isDataRecptMode
  /\ lines' = [lines EXCEPT ![s] = << >>]
  /\ smtp' = [smtp EXCEPT ![s] =
       [@ EXCEPT !.isDataRecptMode = FALSE, !.bodyBlock = << >>]]
  /\ fresh' = [fresh EXCEPT ![s] = << >>]
  /\ UNCHANGED <<extraCreditNonLocal, since>>

\* The lone dot. The answer is sent, and the next line read, only when the
\* message has been stored and relayed.
EndData(s) ==
  /\ smtp[s].open /\ smtp[s].isDataRecptMode
  /\ lines' = [lines EXCEPT ![s] = << >>]
  /\ smtp' = [smtp EXCEPT ![s] =
       [@ EXCEPT !.isDataRecptMode = FALSE, !.validRecipients = << >>,
                 !.bodyBlock = << >>]]
  /\ fresh' = [fresh EXCEPT ![s] = << >>]
  /\ UNCHANGED <<extraCreditNonLocal, since>>

Rset(s) ==
  /\ Ready(s)
  /\ smtp' = [smtp EXCEPT ![s] =
       [@ EXCEPT !.senderEmail = Nobody, !.validRecipients = << >>,
                 !.bodyBlock = << >>, !.isDataRecptMode = FALSE]]
  /\ fresh' = [fresh EXCEPT ![s] = << >>]
  /\ UNCHANGED <<extraCreditNonLocal, lines, since>>

\* QUIT, or the client goes away in any state.
Close(s) ==
  /\ smtp[s].open
  /\ smtp' = [smtp EXCEPT ![s] = Closed]
  /\ lines' = [lines EXCEPT ![s] = << >>]
  /\ since' = [since EXCEPT ![s] = {}]
  /\ fresh' = [fresh EXCEPT ![s] = << >>]
  /\ UNCHANGED extraCreditNonLocal

\* The server dies.
CloseAll ==
  /\ smtp' = [s \in Session |-> Closed]
  /\ lines' = [s \in Session |-> << >>]
  /\ since' = [s \in Session |-> {}]
  /\ fresh' = [s \in Session |-> << >>]
  /\ UNCHANGED extraCreditNonLocal

HandleLine(s) ==
  \/ Noop(s)
  \/ \E a \in Address \cup {Nobody} : Mail(s, a) \/ MailMalformed(s, a)
  \/ \E a \in Address : Rcpt(s, a) \/ RcptRefused(s, a)
  \/ Data(s)
  \/ DataRefused(s)
  \/ \E l \in Line : DataLine(s, l)
  \/ EndData(s)
  \/ Rset(s)

SmtpNext == CloseAll \/ \E s \in Session : Connect(s) \/ HandleLine(s) \/ Close(s)

\* Clients may send anything.
SmtpSpec == SmtpInit /\ [][SmtpNext]_smtpVars

-----------------------------------------------------------------------------
\* A message goes to the local recipients that were accepted for it, in their
\* order, and to nobody left over from an earlier message of the connection:
\* MAIL, RSET and the end of DATA clear validRecipients.
LocalRecipientsExact ==
  \A s \in Session : smtp[s].validRecipients = fresh[s]

\* A message is relayed only to recipients accepted since the last MAIL that
\* was answered 250 (not since the last RSET or the last message: neither
\* clears nonLocalRecipients).
RelayInTransaction ==
  \A s \in Session : ToSet(smtp[s].nonLocalRecipients) \subseteq since[s]

\* While a message is read there are a sender and a recipient, so the answer
\* "550 no valid recipients" at the end of DATA is never given; without -x
\* the recipient is a local one.
DataHasRecipient ==
  \A s \in Session : smtp[s].isDataRecptMode =>
    /\ smtp[s].senderEmail # Nobody
    /\ smtp[s].validRecipients # << >> \/ smtp[s].nonLocalRecipients # << >>
    /\ ~extraCreditNonLocal => smtp[s].validRecipients # << >>

\* Reference definition of the stored body: of the lines of this message that
\* are not blank, those from the first one without a colon on.
BodyOf(ls) ==
  LET nonblank == SelectSeq(ls, LAMBDA l : l # "blank")
      texts == {i \in DOMAIN nonblank : nonblank[i] = "text"}
  IN IF texts = {} THEN << >>
     ELSE SubSeq(nonblank, CHOOSE i \in texts : \A j \in texts : i <= j,
                 Len(nonblank))

\* What DATA has collected is the body of this message and of no other.
BodyExact ==
  \A s \in Session :
    smtp[s].isDataRecptMode => smtp[s].bodyBlock = BodyOf(lines[s])
=============================================================================
