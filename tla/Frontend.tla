------------------------------ MODULE Frontend ------------------------------
(***************************************************************************)
(* Clients, the load balancer and the frontends: a browser asks the        *)
(* balancer, is redirected to a frontend and has a request of Accounts     *)
(* handled there. Frontends are stopped (by the admin console's            *)
(* frontend-toggle, by SIGINT, or because they die) and started again; the *)
(* sessions are in the store and outlive them.                             *)
(***************************************************************************)
EXTENDS Balancer, Accounts

CONSTANTS
  Menu,        \* sets of sign-ups, logins and changes of password: in each
               \* behaviour browsers ask for those of one set, and logouts
  MaxRequests, \* bound: requests
  Watched      \* threads whose progress is checked; one will do, they are alike

\* A thread stands for a browser: for its request at the balancer, then for
\* that at a frontend.
ASSUME ThreadAssumption == Thread = Client

VARIABLES
  menu,  \* the set of this behaviour
  count  \* requests so far

clientVars == <<menu, count>>
vars == <<balancerVars, accountVars, clientVars>>

\* setup.sh starts the frontends and then the balancer.
Init ==
  /\ BalancerInit
  /\ alive = FRONTENDS
  /\ AccountsInit
  /\ menu \in Menu
  /\ count = 0

\* A browser turns to the balancer.
Ask(t) ==
  /\ pc[t] = "idle"
  /\ count < MaxRequests
  /\ SelectFrontend(t)
  /\ count' = count + 1
  /\ UNCHANGED <<accountVars, menu>>

Balance(t) == (Probe(t) \/ Advance(t)) /\ UNCHANGED <<accountVars, clientVars>>

Logouts == {[op |-> "logout", sid |-> c[1], user |-> c[2]] : c \in cookies}

\* It follows the redirection; the frontend may be down by now.
Arrive(t) ==
  /\ at[t] = "chosen"
  /\ Leave(t)
  /\ IF idx[t] \in alive
     THEN \E r \in menu \cup Logouts :
            Begin(t, [process |-> idx[t]] @@ r)
     ELSE UNCHANGED accountVars
  /\ UNCHANGED clientVars

Refused(t) ==
  /\ at[t] = "none"
  /\ Leave(t)
  /\ UNCHANGED <<accountVars, clientVars>>

Serve(t) == AccountStep(t) /\ UNCHANGED <<balancerVars, clientVars>>

Stop(f) ==
  /\ Fails
  /\ StopFrontend(f)
  /\ EndProcess(f)
  /\ UNCHANGED clientVars

\* A process that starts on a port in use ends at once; a new one draws the
\* same numbers as the one before.
Restart(f) == StartFrontend(f) /\ UNCHANGED <<accountVars, clientVars>>

Progress(t) == Balance(t) \/ Arrive(t) \/ Refused(t) \/ Serve(t)

Next ==
  \/ \E t \in Thread : Ask(t) \/ Progress(t)
  \/ \E f \in FRONTENDS : Stop(f) \/ Restart(f)

Spec == Init /\ [][Next]_vars

\* No thread waits for another one: every call to the store or to a frontend
\* returns or times out.
FairSpec == Spec /\ \A t \in Thread : WF_vars(Progress(t))

-----------------------------------------------------------------------------
\* Every request comes to an end: the balancer's search does, and so does the
\* loop of generateSessionCookie, however many numbers other frontends use up.
RequestsFinish ==
  \A t \in Watched : (at[t] # "idle" \/ pc[t] # "idle") ~> (at[t] = "idle" /\ pc[t] = "idle")
=============================================================================
