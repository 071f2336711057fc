------------------------------ MODULE Balancer ------------------------------
(***************************************************************************)
(* The load balancer (src/frontend/load_balancer.cc): every client request *)
(* is a thread that looks for a live frontend, round robin from            *)
(* next_frontend, and redirects the client there or answers 503. The       *)
(* mutex is held only while next_frontend is read or written, so           *)
(* selections overlap, and frontends stop and start while they are probed. *)
(***************************************************************************)
EXTENDS Integers

CONSTANTS
  N,      \* FRONTENDS.size()
  Client  \* the threads of the balancer

ASSUME NAssumption == N \in Nat \ {0}

FRONTENDS == 0..(N - 1)

VARIABLES
  alive,          \* the frontends that answer HEAD /health
  next_frontend,
  at,    \* where each thread is: "idle"; "probe"; "found" a live frontend;
         \* "chosen": redirected to it; "none": answered 503
  start, \* the locals of select_frontend
  i,
  idx,   \* the frontend probed last
  down,  \* history: frontends that were down when the selection began
  died,  \* history: frontends that have stopped since
  slow   \* history: frontends that did not answer in time

threadVars == <<start, i, idx, down, died, slow>>
balancerVars == <<alive, next_frontend, at, threadVars>>

BalancerInit ==
  /\ alive \in SUBSET FRONTENDS
  /\ next_frontend = 0
  /\ at = [c \in Client |-> "idle"]
  /\ start = [c \in Client |-> 0]
  /\ i = [c \in Client |-> 0]
  /\ idx = [c \in Client |-> 0]
  /\ down = [c \in Client |-> {}]
  /\ died = [c \in Client |-> {}]
  /\ slow = [c \in Client |-> {}]

SelectFrontend(c) ==
  /\ at[c] = "idle"
  /\ at' = [at EXCEPT ![c] = "probe"]
  /\ start' = [start EXCEPT ![c] = next_frontend]
  /\ down' = [down EXCEPT ![c] = FRONTENDS \ alive]
  /\ UNCHANGED <<alive, next_frontend, i, idx, died, slow>>

\* Mutation: the loop ends one frontend early.
NextProbeShort(c) ==
  IF i[c] + 1 < N - 1
  THEN i' = [i EXCEPT ![c] = @ + 1] /\ UNCHANGED at
  ELSE at' = [at EXCEPT ![c] = "none"] /\ UNCHANGED i

\* The loop goes on, or ends with nothing found.
NextProbe(c) ==
  IF i[c] + 1 < N
  THEN i' = [i EXCEPT ![c] = @ + 1] /\ UNCHANGED at
  ELSE at' = [at EXCEPT ![c] = "none"] /\ UNCHANGED i

\* is_alive: the frontend answers, or refuses the connection, or a timeout of
\* one second passes.
Probe(c) ==
  LET f == (start[c] + i[c]) % N IN
  /\ at[c] = "probe"
  /\ idx' = [idx EXCEPT ![c] = f]
  /\ \/ /\ f \in alive
        /\ at' = [at EXCEPT ![c] = "found"]
        /\ UNCHANGED <<i, slow>>
     \/ f \notin alive /\ NextProbe(c) /\ UNCHANGED slow
     \/ /\ f \in alive
        /\ NextProbe(c)
        /\ slow' = [slow EXCEPT ![c] = @ \cup {f}]
  /\ UNCHANGED <<alive, next_frontend, start, down, died>>

\* Mutation: the answer is read from next_frontend, outside the lock.
AdvanceShared(c) ==
  /\ at[c] = "found"
  /\ next_frontend' = (idx[c] + 1) % N
  /\ idx' = [idx EXCEPT ![c] = next_frontend]
  /\ at' = [at EXCEPT ![c] = "chosen"]
  /\ UNCHANGED <<alive, start, i, down, died, slow>>

Advance(c) ==
  /\ at[c] = "found"
  /\ next_frontend' = (idx[c] + 1) % N
  /\ at' = [at EXCEPT ![c] = "chosen"]
  /\ UNCHANGED <<alive, threadVars>>

\* The client has gone to the frontend, or has read the 503; the thread ends.
Leave(c) ==
  /\ at[c] \in {"chosen", "none"}
  /\ at' = [at EXCEPT ![c] = "idle"]
  /\ start' = [start EXCEPT ![c] = 0]
  /\ i' = [i EXCEPT ![c] = 0]
  /\ idx' = [idx EXCEPT ![c] = 0]
  /\ down' = [down EXCEPT ![c] = {}]
  /\ died' = [died EXCEPT ![c] = {}]
  /\ slow' = [slow EXCEPT ![c] = {}]
  /\ UNCHANGED <<alive, next_frontend>>

StopFrontend(f) ==
  /\ f \in alive
  /\ alive' = alive \ {f}
  /\ died' = [c \in Client |-> IF at[c] = "idle" THEN {} ELSE died[c] \cup {f}]
  /\ UNCHANGED <<next_frontend, at, start, i, idx, down, slow>>

StartFrontend(f) ==
  /\ f \notin alive
  /\ alive' = alive \cup {f}
  /\ UNCHANGED <<next_frontend, at, threadVars>>

BalancerNext ==
  \/ \E c \in Client : SelectFrontend(c) \/ Probe(c) \/ Advance(c) \/ Leave(c)
  \/ \E f \in FRONTENDS : StopFrontend(f) \/ StartFrontend(f)

BalancerSpec == BalancerInit /\ [][BalancerNext]_balancerVars

-----------------------------------------------------------------------------
\* 503 is answered only if each frontend was down, or too slow to answer, at
\* some moment of this very selection: whatever other threads do to
\* next_frontend meanwhile, the loop of select_frontend leaves none out.
NoFalse503 ==
  \A c \in Client : at[c] = "none" => FRONTENDS \subseteq down[c] \cup died[c] \cup slow[c]

\* A client is sent only to a frontend that was up at some moment of its own
\* selection: if it is down now, it has stopped since the selection began,
\* whatever the other threads have written to next_frontend.
SentToLive ==
  \A c \in Client : at[c] \in {"found", "chosen"} => idx[c] \in alive \cup died[c]
=============================================================================
