----------------------------- MODULE SmtpProofs -----------------------------
(***************************************************************************)
(* What the SMTP automaton keeps about recipients, for every number of     *)
(* connections, every set of addresses and whatever clients send.          *)
(***************************************************************************)
EXTENDS Smtp, TLAPS

SessionState ==
  [open : BOOLEAN, senderEmail : Address \cup {Nobody},
   validRecipients : Seq(Address), nonLocalRecipients : Seq(Address),
   isDataRecptMode : BOOLEAN, inHeaderSection : BOOLEAN, bodyBlock : Seq(Line)]

SmtpTypeOK ==
  /\ extraCreditNonLocal \in BOOLEAN
  /\ smtp \in [Session -> SessionState]
  /\ lines \in [Session -> Seq(Line)]
  /\ since \in [Session -> SUBSET Address]
  /\ fresh \in [Session -> Seq(Address)]

\* What holds of one connection: m are its thread's variables, acc the
\* recipients accepted since MAIL, new the local ones of the message, x the
\* server's -x.
SessionOK(m, acc, new, x) ==
  /\ m.validRecipients = new
  /\ \A k \in DOMAIN m.nonLocalRecipients : m.nonLocalRecipients[k] \in acc
  /\ m.isDataRecptMode =>
       /\ m.senderEmail # Nobody
       /\ m.validRecipients # << >> \/ (x /\ m.nonLocalRecipients # << >>)

\* The inductive invariant.
SmtpInv ==
  /\ SmtpTypeOK
  /\ \A s \in Session : SessionOK(smtp[s], since[s], fresh[s], extraCreditNonLocal)

\* A closed connection holds nothing.
LEMMA ClosedOK ==
  /\ Closed \in SessionState /\ NewSession \in SessionState
  /\ \A acc, x : SessionOK(Closed, acc, << >>, x) /\ SessionOK(NewSession, acc, << >>, x)
<1>1. NewSession \in SessionState
  BY DEF NewSession, SessionState
<1>2. Closed \in SessionState
  BY <1>1 DEF Closed, SessionState
<1>3. ASSUME NEW m \in {NewSession, Closed}
      PROVE  /\ m.validRecipients = << >> /\ m.nonLocalRecipients = << >>
             /\ m.isDataRecptMode = FALSE
  BY DEF NewSession, Closed
<1>4. ASSUME NEW acc, NEW x, NEW m \in {NewSession, Closed}
      PROVE  SessionOK(m, acc, << >>, x)
  <2>1. m.nonLocalRecipients = << >> /\ m.validRecipients = << >> /\ ~m.isDataRecptMode
    BY <1>3
  <2>2. DOMAIN m.nonLocalRecipients = {}
    BY <2>1
  <2>3. \A k \in DOMAIN m.nonLocalRecipients : m.nonLocalRecipients[k] \in acc
    BY <2>2
  <2> QED BY <2>1, <2>3 DEF SessionOK
<1> QED BY <1>1, <1>2, <1>4

\* A step of connection s leaves the invariant of the others alone.
LEMMA OneSession ==
  ASSUME SmtpInv, NEW s \in Session, UNCHANGED extraCreditNonLocal,
         NEW m \in SessionState, NEW ls \in Seq(Line), NEW acc \in SUBSET Address,
         NEW new \in Seq(Address),
         smtp' = [smtp EXCEPT ![s] = m], lines' = [lines EXCEPT ![s] = ls],
         since' = [since EXCEPT ![s] = acc], fresh' = [fresh EXCEPT ![s] = new],
         SessionOK(m, acc, new, extraCreditNonLocal)
  PROVE  SmtpInv'
<1>1. SmtpTypeOK'
  BY DEF SmtpInv, SmtpTypeOK
<1>2. ASSUME NEW r \in Session
      PROVE  SessionOK(smtp'[r], since'[r], fresh'[r], extraCreditNonLocal)
  <2>1. CASE r = s
    <3>1. smtp'[r] = m /\ since'[r] = acc /\ fresh'[r] = new
      BY <2>1 DEF SmtpInv, SmtpTypeOK
    <3> QED BY <3>1
  <2>2. CASE r # s
    <3>1. smtp'[r] = smtp[r] /\ since'[r] = since[r] /\ fresh'[r] = fresh[r]
      BY <2>2 DEF SmtpInv, SmtpTypeOK
    <3> QED BY <3>1 DEF SmtpInv
  <2> QED BY <2>1, <2>2
<1> QED BY <1>1, <1>2 DEF SmtpInv

\* The invariant holds at the start, with every connection closed.
LEMMA SmtpInitInv == SmtpInit => SmtpInv
  BY ClosedOK DEF SmtpInit, SmtpInv, SmtpTypeOK

\* An answered line that changes nothing preserves the invariant.
LEMMA NoopInv == SmtpInv /\ UNCHANGED smtpVars => SmtpInv'
  BY DEF SmtpInv, SmtpTypeOK, smtpVars, SessionOK

\* The empty list is a list of addresses and of lines.
LEMMA EmptyList == << >> \in Seq(Address) /\ << >> \in Seq(Line)
  OBVIOUS

\* Replacing a value by itself changes nothing.
LEMMA SameValue ==
  ASSUME NEW S, NEW f \in [Session -> S], NEW s \in Session
  PROVE  f = [f EXCEPT ![s] = f[s]]
  OBVIOUS

\* What the invariant says of one connection.
LEMMA SessionFacts ==
  ASSUME SmtpInv, NEW s \in Session
  PROVE  /\ smtp[s] \in SessionState /\ lines[s] \in Seq(Line)
         /\ since[s] \in SUBSET Address /\ fresh[s] \in Seq(Address)
         /\ lines = [lines EXCEPT ![s] = lines[s]]
         /\ since = [since EXCEPT ![s] = since[s]]
         /\ fresh = [fresh EXCEPT ![s] = fresh[s]]
         /\ SessionOK(smtp[s], since[s], fresh[s], extraCreditNonLocal)
  BY SameValue DEF SmtpInv, SmtpTypeOK

\* MAIL, well formed or not, and RSET: there is no message yet.
LEMMA SenderInv ==
  ASSUME SmtpInv, NEW s \in Session
  PROVE  /\ \A a \in Address \cup {Nobody} : Mail(s, a) => SmtpInv'
         /\ \A a \in Address \cup {Nobody} : MailMalformed(s, a) => SmtpInv'
         /\ Rset(s) => SmtpInv'
<1> USE SessionFacts, EmptyList
<1>1. ASSUME NEW a \in Address \cup {Nobody}, Mail(s, a) PROVE SmtpInv'
  <2> DEFINE m == [smtp[s] EXCEPT !.senderEmail = a, !.validRecipients = << >>,
                                  !.nonLocalRecipients = << >>]
  <2>0. smtp[s] \in SessionState
    BY SessionFacts
  <2>1. m \in SessionState
    <3> HIDE SessionFacts
    <3> QED BY <2>0, EmptyList DEF SessionState
  <2>2. /\ m.validRecipients = << >> /\ m.nonLocalRecipients = << >>
        /\ m.isDataRecptMode = FALSE
    BY <1>1 DEF SessionState, Mail, Ready
  <2>3. SessionOK(m, {}, << >>, extraCreditNonLocal)
    <3>1. DOMAIN m.nonLocalRecipients = {}
      BY <2>2
    <3> QED BY <2>2, <3>1 DEF SessionOK
  <2>4. /\ smtp' = [smtp EXCEPT ![s] = m] /\ lines' = lines
        /\ since' = [since EXCEPT ![s] = {}] /\ fresh' = [fresh EXCEPT ![s] = << >>]
        /\ UNCHANGED extraCreditNonLocal
    BY <1>1 DEF Mail
  <2> HIDE DEF m
  <2> QED BY <2>1, <2>3, <2>4, OneSession
<1>2. ASSUME NEW a \in Address \cup {Nobody}, MailMalformed(s, a) PROVE SmtpInv'
  <2> DEFINE m == [smtp[s] EXCEPT !.senderEmail = a]
  <2>1. m \in SessionState
    BY DEF SessionState
  <2>2. /\ m.validRecipients = smtp[s].validRecipients
        /\ m.nonLocalRecipients = smtp[s].nonLocalRecipients
        /\ m.isDataRecptMode = FALSE
    BY <1>2 DEF SessionState, MailMalformed, Ready
  <2>3. SessionOK(m, since[s], fresh[s], extraCreditNonLocal)
    BY <2>2 DEF SessionOK
  <2>4. /\ smtp' = [smtp EXCEPT ![s] = m]
        /\ UNCHANGED <<extraCreditNonLocal, lines, since, fresh>>
    BY <1>2 DEF MailMalformed
  <2> HIDE DEF m
  <2> QED BY <2>1, <2>3, <2>4, OneSession
<1>3. ASSUME Rset(s) PROVE SmtpInv'
  <2> DEFINE m == [smtp[s] EXCEPT !.senderEmail = Nobody, !.validRecipients = << >>,
                                  !.bodyBlock = << >>, !.isDataRecptMode = FALSE]
  <2>1. m \in SessionState
    BY DEF SessionState
  <2>2. /\ m.validRecipients = << >>
        /\ m.nonLocalRecipients = smtp[s].nonLocalRecipients
        /\ m.isDataRecptMode = FALSE
    BY DEF SessionState
  <2>3. SessionOK(m, since[s], << >>, extraCreditNonLocal)
    BY <2>2 DEF SessionOK
  <2>4. /\ smtp' = [smtp EXCEPT ![s] = m] /\ fresh' = [fresh EXCEPT ![s] = << >>]
        /\ UNCHANGED <<extraCreditNonLocal, lines, since>>
    BY <1>3 DEF Rset
  <2> HIDE DEF m
  <2> QED BY <2>1, <2>3, <2>4, OneSession
<1> QED BY <1>1, <1>2, <1>3

\* RCPT adds the address to one of the lists and to what was accepted.
LEMMA RcptInv ==
  ASSUME SmtpInv, NEW s \in Session, NEW a \in Address, Rcpt(s, a)
  PROVE  SmtpInv'
<1> USE SessionFacts
<1> DEFINE acc == since[s] \cup {a}
<1>1. acc \in SUBSET Address /\ smtp[s].isDataRecptMode = FALSE
  BY DEF Rcpt, Ready, SessionState
<1>2. CASE /\ a \in LocalUser
           /\ smtp' = [smtp EXCEPT ![s].validRecipients = Append(@, a)]
           /\ fresh' = [fresh EXCEPT ![s] = Append(@, a)]
  <2> DEFINE v == Append(smtp[s].validRecipients, a)
             m == [smtp[s] EXCEPT !.validRecipients = v]
  <2>0. v \in Seq(Address) /\ Append(fresh[s], a) \in Seq(Address)
    BY DEF SessionState
  <2>1. m \in SessionState
    <3> HIDE DEF v
    <3> QED BY <2>0 DEF SessionState
  <2>2. /\ m.validRecipients = Append(smtp[s].validRecipients, a)
        /\ m.nonLocalRecipients = smtp[s].nonLocalRecipients
        /\ m.isDataRecptMode = FALSE
    BY <1>1 DEF SessionState
  <2>3. SessionOK(m, acc, Append(fresh[s], a), extraCreditNonLocal)
    BY <2>2 DEF SessionOK
  <2>4. /\ smtp' = [smtp EXCEPT ![s] = m]
        /\ fresh' = [fresh EXCEPT ![s] = Append(fresh[s], a)]
        /\ since' = [since EXCEPT ![s] = acc]
        /\ UNCHANGED <<extraCreditNonLocal, lines>>
    BY <1>2 DEF Rcpt
  <2> HIDE DEF m, acc
  <2> QED BY <1>1, <2>0, <2>1, <2>3, <2>4, OneSession
<1>3. CASE /\ a \in Outsider
           /\ extraCreditNonLocal
           /\ smtp' = [smtp EXCEPT ![s].nonLocalRecipients = Append(@, a)]
           /\ UNCHANGED fresh
  <2> DEFINE old == smtp[s].nonLocalRecipients
             v == Append(old, a)
             m == [smtp[s] EXCEPT !.nonLocalRecipients = v]
  <2>0. old \in Seq(Address) /\ v \in Seq(Address)
    BY DEF SessionState
  <2>1. m \in SessionState
    <3> HIDE DEF v
    <3> QED BY <2>0 DEF SessionState
  <2>2. /\ m.validRecipients = smtp[s].validRecipients
        /\ m.nonLocalRecipients = Append(old, a)
        /\ m.isDataRecptMode = FALSE
    BY <1>1 DEF SessionState
  <2>3. \A k \in DOMAIN Append(old, a) : Append(old, a)[k] \in acc
    <3>1. \A k \in DOMAIN old : old[k] \in since[s]
      BY DEF SessionOK
    <3> HIDE DEF old
    <3>2. DOMAIN Append(old, a) = 1..(Len(old) + 1) /\ DOMAIN old = 1..Len(old)
      BY <2>0
    <3>3. \A k \in 1..(Len(old) + 1) :
             Append(old, a)[k] = IF k <= Len(old) THEN old[k] ELSE a
      BY <2>0
    <3> QED BY <2>0, <3>1, <3>2, <3>3
  <2>4. SessionOK(m, acc, fresh[s], extraCreditNonLocal)
    BY <1>3, <2>2, <2>3 DEF SessionOK
  <2>5. /\ smtp' = [smtp EXCEPT ![s] = m]
        /\ since' = [since EXCEPT ![s] = acc]
        /\ UNCHANGED <<extraCreditNonLocal, lines, fresh>>
    BY <1>3 DEF Rcpt
  <2> HIDE DEF m, acc
  <2> QED BY <1>1, <2>1, <2>4, <2>5, OneSession
<1> QED BY <1>2, <1>3 DEF Rcpt

\* DATA, the lines of the message and the lone dot.
LEMMA DataInv ==
  ASSUME SmtpInv, NEW s \in Session
  PROVE  /\ Data(s) => SmtpInv'
         /\ \A l \in Line : DataLine(s, l) => SmtpInv'
         /\ EndData(s) => SmtpInv'
<1> USE SessionFacts, EmptyList
<1>1. ASSUME Data(s) PROVE SmtpInv'
  <2> DEFINE m == [smtp[s] EXCEPT !.isDataRecptMode = TRUE, !.inHeaderSection = TRUE,
                                  !.bodyBlock = << >>]
  <2>1. m \in SessionState
    BY DEF SessionState
  <2>2. /\ m.validRecipients = smtp[s].validRecipients
        /\ m.nonLocalRecipients = smtp[s].nonLocalRecipients
        /\ m.senderEmail = smtp[s].senderEmail
    BY DEF SessionState
  <2>3. SessionOK(m, since[s], fresh[s], extraCreditNonLocal)
    BY <1>1, <2>2 DEF SessionOK, Data, HasRecipient
  <2>4. /\ smtp' = [smtp EXCEPT ![s] = m] /\ lines' = [lines EXCEPT ![s] = << >>]
        /\ UNCHANGED <<extraCreditNonLocal, since, fresh>>
    BY <1>1 DEF Data
  <2> HIDE DEF m
  <2> QED BY <2>1, <2>3, <2>4, OneSession
<1>2. ASSUME NEW l \in Line, DataLine(s, l) PROVE SmtpInv'
  <2> DEFINE ls == Append(lines[s], l)
             b == Append(smtp[s].bodyBlock, l)
             m == [smtp[s] EXCEPT !.inHeaderSection = FALSE, !.bodyBlock = b]
  <2>0. ls \in Seq(Line) /\ b \in Seq(Line)
    BY DEF SessionState
  <2>1. m \in SessionState
    <3> HIDE DEF b
    <3>1. [smtp[s] EXCEPT !.bodyBlock = b] \in SessionState
      BY <2>0 DEF SessionState
    <3>2. m = [[smtp[s] EXCEPT !.bodyBlock = b] EXCEPT !.inHeaderSection = FALSE]
      BY DEF SessionState
    <3> QED BY <3>1, <3>2 DEF SessionState
  <2>2. /\ m.validRecipients = smtp[s].validRecipients
        /\ m.nonLocalRecipients = smtp[s].nonLocalRecipients
        /\ m.senderEmail = smtp[s].senderEmail
        /\ m.isDataRecptMode = smtp[s].isDataRecptMode
    BY DEF SessionState
  <2>3. SessionOK(m, since[s], fresh[s], extraCreditNonLocal)
    BY <2>2 DEF SessionOK
  <2>4. lines' = [lines EXCEPT ![s] = ls] /\ UNCHANGED <<extraCreditNonLocal, since, fresh>>
    BY <1>2 DEF DataLine
  <2>5. smtp = [smtp EXCEPT ![s] = smtp[s]]
    BY SameValue DEF SmtpInv, SmtpTypeOK
  <2>6. smtp' = smtp \/ smtp' = [smtp EXCEPT ![s] = m]
    BY <1>2 DEF DataLine
  <2> HIDE DEF m, ls, b
  <2>7. CASE smtp' = smtp
    BY <2>0, <2>4, <2>5, <2>7, OneSession
  <2>8. CASE smtp' = [smtp EXCEPT ![s] = m]
    BY <2>0, <2>1, <2>3, <2>4, <2>8, OneSession
  <2> QED BY <2>6, <2>7, <2>8
<1>3. ASSUME EndData(s) PROVE SmtpInv'
  <2> DEFINE m == [smtp[s] EXCEPT !.isDataRecptMode = FALSE, !.validRecipients = << >>,
                                  !.bodyBlock = << >>]
  <2>1. m \in SessionState
    BY DEF SessionState
  <2>2. /\ m.validRecipients = << >>
        /\ m.nonLocalRecipients = smtp[s].nonLocalRecipients
        /\ m.isDataRecptMode = FALSE
    BY DEF SessionState
  <2>3. SessionOK(m, since[s], << >>, extraCreditNonLocal)
    BY <2>2 DEF SessionOK
  <2>4. /\ smtp' = [smtp EXCEPT ![s] = m] /\ lines' = [lines EXCEPT ![s] = << >>]
        /\ fresh' = [fresh EXCEPT ![s] = << >>]
        /\ UNCHANGED <<extraCreditNonLocal, since>>
    BY <1>3 DEF EndData
  <2> HIDE DEF m
  <2> QED BY <2>1, <2>3, <2>4, OneSession
<1> QED BY <1>1, <1>2, <1>3

\* A connection opens or ends, or the server dies with all of them.
LEMMA ConnectionInv ==
  ASSUME SmtpInv
  PROVE  /\ \A s \in Session : Connect(s) \/ Close(s) => SmtpInv'
         /\ CloseAll => SmtpInv'
<1> USE EmptyList
<1>1. ASSUME NEW s \in Session, NEW m \in {NewSession, Closed},
             smtp' = [smtp EXCEPT ![s] = m], lines' = [lines EXCEPT ![s] = << >>],
             since' = [since EXCEPT ![s] = {}], fresh' = [fresh EXCEPT ![s] = << >>],
             UNCHANGED extraCreditNonLocal
      PROVE  SmtpInv'
  <2>1. m \in SessionState /\ SessionOK(m, {}, << >>, extraCreditNonLocal)
    BY ClosedOK
  <2> QED BY <1>1, <2>1, OneSession
<1>2. ASSUME NEW s \in Session, Connect(s) PROVE SmtpInv'
  BY <1>1, <1>2 DEF Connect
<1>3. ASSUME NEW s \in Session, Close(s) PROVE SmtpInv'
  BY <1>1, <1>3 DEF Close
<1>4. ASSUME CloseAll PROVE SmtpInv'
  BY <1>4, ClosedOK DEF CloseAll, SmtpInv, SmtpTypeOK
<1> QED BY <1>2, <1>3, <1>4

\* Every step of every connection preserves the invariant.
LEMMA SmtpStepInv == SmtpInv /\ [SmtpNext]_smtpVars => SmtpInv'
<1> SUFFICES ASSUME SmtpInv, [SmtpNext]_smtpVars PROVE SmtpInv'
  OBVIOUS
<1>1. ASSUME NEW s \in Session, HandleLine(s) PROVE SmtpInv'
  <2>1. CASE Noop(s)
    BY <2>1, NoopInv DEF Noop
  <2>2. CASE \E a \in Address : RcptRefused(s, a)
    BY <2>2, NoopInv DEF RcptRefused, Noop
  <2>3. CASE DataRefused(s)
    BY <2>3, NoopInv DEF DataRefused, Noop
  <2>4. CASE \/ \E a \in Address \cup {Nobody} : Mail(s, a) \/ MailMalformed(s, a)
             \/ Rset(s)
    BY <2>4, SenderInv
  <2>5. CASE \E a \in Address : Rcpt(s, a)
    BY <2>5, RcptInv
  <2>6. CASE Data(s) \/ (\E l \in Line : DataLine(s, l)) \/ EndData(s)
    BY <2>6, DataInv
  <2> QED BY <1>1, <2>1, <2>2, <2>3, <2>4, <2>5, <2>6 DEF HandleLine
<1>2. CASE CloseAll
  BY <1>2, ConnectionInv
<1>3. ASSUME NEW s \in Session, Connect(s) \/ Close(s) PROVE SmtpInv'
  BY <1>3, ConnectionInv
<1>4. CASE UNCHANGED smtpVars
  BY <1>4, NoopInv
<1> QED BY <1>1, <1>2, <1>3, <1>4 DEF SmtpNext

\* The inductive invariant holds whatever clients send on any connection.
THEOREM SmtpCorrect == SmtpSpec => []SmtpInv
  BY SmtpInitInv, SmtpStepInv, PTL DEF SmtpSpec

\* A message goes to exactly the local recipients accepted for it.
THEOREM LocalRecipientsExactHolds == SmtpSpec => []LocalRecipientsExact
<1>1. SmtpInv => LocalRecipientsExact
  BY DEF SmtpInv, LocalRecipientsExact, SessionOK
<1> QED BY <1>1, SmtpCorrect, PTL

\* A message is relayed only to recipients accepted since the last MAIL.
THEOREM RelayInTransactionHolds == SmtpSpec => []RelayInTransaction
<1>1. SmtpInv => RelayInTransaction
  <2> SUFFICES ASSUME SmtpInv, NEW s \in Session
               PROVE  ToSet(smtp[s].nonLocalRecipients) \subseteq since[s]
    BY DEF RelayInTransaction
  <2>1. \A k \in DOMAIN smtp[s].nonLocalRecipients :
           smtp[s].nonLocalRecipients[k] \in since[s]
    BY DEF SmtpInv, SessionOK
  <2> QED BY <2>1 DEF ToSet
<1> QED BY <1>1, SmtpCorrect, PTL

\* While a message is read it has a sender and a recipient: a local one if the
\* server was started without -x.
THEOREM DataHasRecipientHolds == SmtpSpec => []DataHasRecipient
<1>1. SmtpInv => DataHasRecipient
  BY DEF SmtpInv, DataHasRecipient, SessionOK, HasRecipient
<1> QED BY <1>1, SmtpCorrect, PTL
=============================================================================
