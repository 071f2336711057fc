------------------------------ MODULE Accounts ------------------------------
(***************************************************************************)
(* Accounts (src/frontend/user_account/user_account_service.cc) and        *)
(* sessions (generateSessionCookie, getUsernameFromSession, handleLogout   *)
(* in src/frontend/http_server.cc). An account is the column "password" of *)
(* the row <user>-userinfo; a session is a column of the row session-ids,  *)
(* named by the number in the cookie and holding the user. The column      *)
(* active-users of that row lists the sessions.                            *)
(*                                                                         *)
(* A request is a thread of some frontend that calls the store step by     *)
(* step; calls of the other threads, on any frontend, come in between. A   *)
(* call may fail. The numbers come from rand(), which no frontend seeds:   *)
(* each process draws 1, 2, 3, ... in the model.                           *)
(***************************************************************************)
EXTENDS Kvs, Integers, Sequences

CONSTANTS
  User,
  Password,
  NoPassword,  \* nothing was acknowledged for this account
  Active,      \* the column "active-users"
  Process,     \* the frontends
  Thread,      \* request threads
  Registered,  \* a function from the users that have an account at first to
               \* their passwords
  MaxFaults    \* bound: failed calls and stopped frontends

VARIABLES
  password,   \* the column "password" of each account
  sessions,   \* the row session-ids
  drawn,      \* numbers drawn by each process
  req,        \* the request of each thread
  pc,         \* its next call to the store, or "idle"
  seen,       \* active-users as the thread read it
  faults,
  told,       \* history: the password each account was last said to have
  cookies,    \* history: <<number, user>> handed out and not logged out
  ended,      \* history: numbers whose logout was confirmed, until drawn again
  upset,      \* history: users and numbers for which a call failed, or which
              \* two requests took to be free at the same time
  lost        \* history: users two of whose changes of password overlapped

history == <<told, cookies, ended, upset, lost>>
accountVars == <<password, sessions, drawn, req, pc, seen, faults, history>>

Blank == <<0, NoPassword>>

NoRequest == [op |-> "none"]

AccountsInit ==
  /\ password = [u \in User |-> IF u \in DOMAIN Registered THEN Registered[u] ELSE ERR]
  /\ sessions = EmptyRow
  /\ drawn = [p \in Process |-> 0]
  /\ req = [t \in Thread |-> NoRequest]
  /\ pc = [t \in Thread |-> "idle"]
  /\ seen = [t \in Thread |-> << >>]
  /\ faults = 0
  /\ told = [u \in User |-> IF u \in DOMAIN Registered THEN Registered[u]
                            ELSE NoPassword]
  /\ cookies = {}
  /\ ended = {}
  /\ upset = {}
  /\ lost = {}

\* A call fails within the bound.
Fails == faults < MaxFaults /\ faults' = faults + 1

\* A call about x is answered and x is not contested, or one of the two is not
\* so.
Call(x, ok, contested) ==
  /\ IF ok THEN UNCHANGED faults ELSE Fails
  /\ upset' = IF ok /\ ~contested THEN upset ELSE upset \cup {x}

\* A write that is answered was executed, one that fails may have been.
Effect(v, new, ok) == IF ok THEN {new} ELSE {v, new}

\* Some other thread is at one of these calls in a request for which P holds.
Other(t, places, P(_)) == \E o \in Thread \ {t} : pc[o] \in places /\ P(req[o])

Goto(t, place) == pc' = [pc EXCEPT ![t] = place] /\ UNCHANGED <<req, seen>>

\* The answer goes to the browser.
Done(t) ==
  /\ pc' = [pc EXCEPT ![t] = "idle"]
  /\ req' = [req EXCEPT ![t] = NoRequest]
  /\ seen' = [seen EXCEPT ![t] = << >>]

Begin(t, r) ==
  /\ pc[t] = "idle"
  /\ pc' = [pc EXCEPT ![t] = r.op]
  /\ req' = [req EXCEPT ![t] = r]
  /\ cookies' = IF r.op = "logout" THEN cookies \ {<<r.sid, r.user>>} ELSE cookies
  /\ UNCHANGED <<password, sessions, drawn, seen, faults, told, ended, upset, lost>>

\* The master knows no worker for the row, or cannot be reached: the request
\* fails, except that the page after a logout says the same as ever.
LookupFails(t) ==
  /\ \/ pc[t] \in {"signup", "login", "change", "logout"}
     \/ pc[t] = "draw" /\ req[t].sid = 0
  /\ Fails
  /\ IF pc[t] = "logout"
     THEN ended' = ended \cup {req[t].sid} /\ upset' = upset \cup {req[t].sid}
     ELSE UNCHANGED <<ended, upset>>
  /\ Done(t)
  /\ UNCHANGED <<password, sessions, drawn, told, cookies, lost>>

-----------------------------------------------------------------------------
(* UserAccountService.                                                     *)

\* signup: any error is taken for "no such user".
SignupGet(t) ==
  LET r == req[t] IN
  /\ pc[t] = "signup"
  /\ \E ok \in BOOLEAN :
       /\ Call(r.user, ok, Other(t, {"signup.put"}, LAMBDA o : o.user = r.user))
       /\ IF ok /\ password[r.user] # ERR THEN Done(t) ELSE Goto(t, "signup.put")
  /\ UNCHANGED <<password, sessions, drawn, told, cookies, ended, lost>>

SignupPut(t) ==
  LET r == req[t] IN
  /\ pc[t] = "signup.put"
  /\ \E ok \in BOOLEAN :
       /\ Call(r.user, ok, FALSE)
       /\ \E v \in Effect(password[r.user], r.new, ok) :
            password' = [password EXCEPT ![r.user] = v]
  /\ told' = [told EXCEPT ![r.user] = r.new]
  /\ Done(t)
  /\ UNCHANGED <<sessions, drawn, cookies, ended, lost>>

\* Mutation: the old password is not compared.
ChangeUnasked(t) ==
  /\ pc[t] = "change"
  /\ IF password[req[t].user] # ERR THEN Goto(t, "change.put") ELSE Done(t)
  /\ UNCHANGED <<password, sessions, drawn, faults, history>>

ChangeGet(t) ==
  LET r == req[t] IN
  /\ pc[t] = "change"
  /\ \/ /\ IF password[r.user] = r.old THEN Goto(t, "change.put") ELSE Done(t)
        /\ UNCHANGED faults
     \/ Fails /\ Done(t)
  /\ UNCHANGED <<password, sessions, drawn, history>>

\* Mutation: the new password is put without a condition.
ChangeAnyway(t) ==
  LET r == req[t] IN
  /\ pc[t] = "change.put"
  /\ password' = [password EXCEPT ![r.user] = r.new]
  /\ told' = [told EXCEPT ![r.user] = r.new]
  /\ Done(t)
  /\ UNCHANGED <<sessions, drawn, faults, cookies, ended, upset, lost>>

\* The answer to the CPut is not looked at: the change is confirmed.
ChangePut(t) ==
  LET r == req[t]
      cput == IF password[r.user] = r.old THEN r.new ELSE password[r.user]
  IN
  /\ pc[t] = "change.put"
  /\ \E ok \in BOOLEAN :
       /\ Call(r.user, ok, FALSE)
       /\ \E v \in Effect(password[r.user], cput, ok) :
            password' = [password EXCEPT ![r.user] = v]
  /\ told' = [told EXCEPT ![r.user] = r.new]
  /\ lost' = IF Other(t, {"change.put"}, LAMBDA o : o.user = r.user)
             THEN lost \cup {r.user} ELSE lost
  /\ Done(t)
  /\ UNCHANGED <<sessions, drawn, cookies, ended>>

\* authenticate.
Authenticate(t) ==
  LET r == req[t] IN
  /\ pc[t] = "login"
  /\ \/ /\ IF password[r.user] = r.old THEN Goto(t, "draw") ELSE Done(t)
        /\ UNCHANGED faults
     \/ Fails /\ Done(t)
  /\ UNCHANGED <<password, sessions, drawn, history>>

-----------------------------------------------------------------------------
(* generateSessionCookie.                                                  *)

\* Mutations: the number is not looked up; the same number is tried again.
DrawUnchecked(t) ==
  LET p == req[t].process
      n == drawn[p] + 1
  IN
  /\ pc[t] = "draw"
  /\ drawn' = [drawn EXCEPT ![p] = n]
  /\ req' = [req EXCEPT ![t].sid = n]
  /\ pc' = [pc EXCEPT ![t] = "active"]
  /\ UNCHANGED <<password, sessions, seen, faults, history>>

DrawSame(t) ==
  LET n == drawn[req[t].process] + 1 IN
  /\ pc[t] = "draw"
  /\ req' = [req EXCEPT ![t].sid = n]
  /\ \E ok \in BOOLEAN :
       /\ Call(n, ok, Other(t, {"active", "session.put"}, LAMBDA o : o.sid = n))
       /\ pc' = [pc EXCEPT ![t] = IF ok /\ Get(sessions, n) # ERR THEN "draw"
                                  ELSE "active"]
  /\ UNCHANGED <<password, sessions, drawn, seen, told, cookies, ended, lost>>

\* One turn of the loop: a number, and the look whether it is taken.
Draw(t) ==
  LET p == req[t].process
      n == drawn[p] + 1
  IN
  /\ pc[t] = "draw"
  /\ drawn' = [drawn EXCEPT ![p] = n]
  /\ req' = [req EXCEPT ![t].sid = n]
  /\ \E ok \in BOOLEAN :
       /\ Call(n, ok, Other(t, {"active", "session.put"}, LAMBDA o : o.sid = n))
       /\ pc' = [pc EXCEPT ![t] = IF ok /\ Get(sessions, n) # ERR THEN "draw"
                                  ELSE "active"]
  /\ UNCHANGED <<password, sessions, seen, told, cookies, ended, lost>>

\* Login and logout read the list the same way.
GetActive(t) ==
  /\ pc[t] \in {"active", "logout"}
  /\ \/ seen' = [seen EXCEPT ![t] = Get(sessions, Active)] /\ UNCHANGED faults
     \/ Fails /\ seen' = [seen EXCEPT ![t] = ERR]
  /\ pc' = [pc EXCEPT ![t] = IF @ = "active" THEN "session.put" ELSE "session.delete"]
  /\ UNCHANGED <<password, sessions, drawn, req, history>>

PutSession(t) ==
  LET r == req[t] IN
  /\ pc[t] = "session.put"
  /\ \E ok \in BOOLEAN :
       /\ Call(r.sid, ok, FALSE)
       /\ sessions' \in Effect(sessions, Put(sessions, r.sid, r.user), ok)
  /\ ended' = ended \ {r.sid}
  /\ Goto(t, "active.put")
  /\ UNCHANGED <<password, drawn, told, cookies, lost>>

\* The list is created with a Put and extended with a CPut whose answer is not
\* looked at; then the cookie is handed out.
PutActive(t) ==
  LET r == req[t]
      new == IF seen[t] = ERR THEN Put(sessions, Active, <<<<r.sid, r.user>>>>)
             ELSE CPut(sessions, Active, seen[t],
                       seen[t] \o <<Blank, <<r.sid, r.user>>>>)
  IN
  /\ pc[t] = "active.put"
  /\ \/ sessions' = new /\ UNCHANGED faults
     \/ Fails /\ sessions' \in Effect(sessions, new, FALSE)
  /\ cookies' = cookies \cup {<<r.sid, r.user>>}
  /\ Done(t)
  /\ UNCHANGED <<password, drawn, told, ended, upset, lost>>

-----------------------------------------------------------------------------
(* handleLogout.                                                           *)

\* The entries before that of session n; all of them if it is not there.
Before(l, n) ==
  LET here == {k \in DOMAIN l : l[k][1] = n}
  IN IF here = {} THEN l
     ELSE SubSeq(l, 1, (CHOOSE k \in here : \A j \in here : k <= j) - 1)

\* Mutation: only a session that is in the list is deleted.
DeleteListed(t) ==
  LET n == req[t].sid IN
  /\ pc[t] = "session.delete"
  /\ sessions' = IF seen[t] # ERR /\ \E k \in DOMAIN seen[t] : seen[t][k][1] = n
                 THEN Delete(sessions, n) ELSE sessions
  /\ ended' = ended \cup {n}
  /\ Goto(t, "active.cut")
  /\ UNCHANGED <<password, drawn, faults, told, cookies, upset, lost>>

DeleteSession(t) ==
  LET n == req[t].sid IN
  /\ pc[t] = "session.delete"
  /\ \E ok \in BOOLEAN :
       /\ Call(n, ok, FALSE)
       /\ sessions' \in Effect(sessions, Delete(sessions, n), ok)
  /\ ended' = ended \cup {n}
  /\ Goto(t, "active.cut")
  /\ UNCHANGED <<password, drawn, told, cookies, lost>>

\* The entries from that of this session on are cut off.
CutActive(t) ==
  LET new == IF seen[t] = ERR THEN sessions
             ELSE CPut(sessions, Active, seen[t], Before(seen[t], req[t].sid))
  IN
  /\ pc[t] = "active.cut"
  /\ \/ sessions' = new /\ UNCHANGED faults
     \/ Fails /\ sessions' \in Effect(sessions, new, FALSE)
  /\ Done(t)
  /\ UNCHANGED <<password, drawn, history>>

AccountStep(t) ==
  \/ SignupGet(t) \/ SignupPut(t)
  \/ ChangeGet(t) \/ ChangePut(t)
  \/ Authenticate(t) \/ Draw(t) \/ GetActive(t) \/ PutSession(t) \/ PutActive(t)
  \/ DeleteSession(t) \/ CutActive(t)
  \/ LookupFails(t)

\* The process p ends: its threads stop where they are, and their clients get
\* no answer.
EndProcess(p) ==
  LET T == {t \in Thread : pc[t] # "idle" /\ req[t].process = p} IN
  /\ req' = [t \in Thread |-> IF t \in T THEN NoRequest ELSE req[t]]
  /\ pc' = [t \in Thread |-> IF t \in T THEN "idle" ELSE pc[t]]
  /\ seen' = [t \in Thread |-> IF t \in T THEN << >> ELSE seen[t]]
  /\ drawn' = [drawn EXCEPT ![p] = 0]
  /\ UNCHANGED <<password, sessions, history>>

-----------------------------------------------------------------------------
\* The password an account was last confirmed to have is the one it has,
\* unless a call failed, two sign-ups for the name overlapped, or two changes
\* did (signup, changePassword).
AccountKept ==
  \A u \in User \ (upset \cup lost) : told[u] # NoPassword => password[u] = told[u]

\* The password of a confirmed account changes only through a request that
\* presented the password it has at that moment, also when changes overlap
\* (the CPut of changePassword); only a failed call or overlapping sign-ups let
\* a sign-up replace it.
PasswordByOwner ==
  [][\A u \in User \ upset :
       told[u] # NoPassword /\ password'[u] # password[u] =>
         \E t \in Thread : /\ pc[t] = "change.put"
                           /\ req[t].user = u /\ req[t].old = password[u]]_accountVars

\* A cookie stands for the user it was handed out to until they log out, on
\* every frontend and whichever frontends have stopped since; except for a
\* number that two logins drew at the same time, or about which a call failed
\* (generateSessionCookie, getUsernameFromSession).
CookieResolves ==
  \A c \in cookies : c[1] \notin upset => Get(sessions, c[1]) = c[2]

\* After a logout its cookie stands for nobody, until the number is drawn anew
\* (handleLogout).
LogoutEnds == \A n \in ended \ upset : Get(sessions, n) = ERR
=============================================================================
