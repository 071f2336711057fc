--------------------------- MODULE BalancerProofs ---------------------------
(***************************************************************************)
(* The load balancer answers 503 and redirects rightly for every number of *)
(* frontends and of threads, with frontends stopping and starting at will. *)
(***************************************************************************)
EXTENDS Balancer, TLAPS

Place == {"idle", "probe", "found", "chosen", "none"}

BalancerTypeOK ==
  /\ alive \subseteq FRONTENDS
  /\ next_frontend \in FRONTENDS
  /\ at \in [Client -> Place]
  /\ start \in [Client -> FRONTENDS]
  /\ i \in [Client -> FRONTENDS]
  /\ idx \in [Client -> FRONTENDS]
  /\ down \in [Client -> SUBSET FRONTENDS]
  /\ died \in [Client -> SUBSET FRONTENDS]
  /\ slow \in [Client -> SUBSET FRONTENDS]

\* The frontends thread c has reason to leave out.
Excused(c) == down[c] \cup died[c] \cup slow[c]

\* The probes before the j-th found nothing, each for a reason.
ProbedInVain(c, j) == \A k \in 0..(j - 1) : (start[c] + k) % N \in Excused(c)

\* The inductive invariant. NoFalse503 needs to know what the loop has done so
\* far, and that a frontend that is down was down at the beginning or has
\* stopped since.
BalancerInv ==
  /\ BalancerTypeOK
  /\ \A c \in Client :
       /\ at[c] = "idle" => i[c] = 0
       /\ at[c] # "idle" => FRONTENDS \ alive \subseteq down[c] \cup died[c]
       /\ at[c] = "probe" => ProbedInVain(c, i[c])
       /\ at[c] = "none" => ProbedInVain(c, N)
  /\ SentToLive

\* The N probes of the loop go to all frontends, wherever it starts.
LEMMA LoopCoversAll ==
  ASSUME NEW s \in FRONTENDS, NEW f \in FRONTENDS
  PROVE  \E k \in 0..(N - 1) : (s + k) % N = f
<1> USE NAssumption DEF FRONTENDS
<1>1. CASE f >= s
  <2>1. f - s \in 0..(N - 1) /\ s + (f - s) = f /\ f % N = f
    BY <1>1
  <2> QED BY <2>1
<1>2. CASE f < s
  <2>1. (f + N) % N = f
    OBVIOUS
  <2>2. f - s + N \in 0..(N - 1) /\ s + (f - s + N) = f + N
    BY <1>2
  <2> QED BY <2>1, <2>2
<1> QED BY <1>1, <1>2

\* An index reduced modulo N is that of a frontend.
LEMMA ModInRange == \A x \in Nat : x % N \in FRONTENDS
  BY NAssumption DEF FRONTENDS

\* A thread that has probed all N frontends in vain has reason to leave out
\* each of them.
LEMMA VainCoversAll ==
  ASSUME NEW c \in Client, start[c] \in FRONTENDS, ProbedInVain(c, N)
  PROVE  FRONTENDS \subseteq Excused(c)
  BY LoopCoversAll DEF ProbedInVain

\* The invariant holds at the start, when no thread selects.
LEMMA InitInv == BalancerInit => BalancerInv
  BY NAssumption DEF BalancerInit, BalancerInv, BalancerTypeOK, SentToLive,
                     FRONTENDS, Place

\* The thread finds a reason to leave out the frontend it probed, and the loop
\* goes on or ends.
LEMMA ProbeInVain ==
  ASSUME BalancerInv, NEW c \in Client, at[c] = "probe", NextProbe(c),
         UNCHANGED <<alive, next_frontend, start, down, died>>,
         idx' \in [Client -> FRONTENDS], slow' \in [Client -> SUBSET FRONTENDS],
         \A d \in Client : slow[d] \subseteq slow'[d],
         \A d \in Client \ {c} : idx'[d] = idx[d],
         (start[c] + i[c]) % N \in Excused(c)'
  PROVE  BalancerInv'
<1> USE NAssumption DEF FRONTENDS
<1>1. BalancerTypeOK'
  BY DEF BalancerInv, BalancerTypeOK, NextProbe, Place
<1>2. \A d \in Client : Excused(d) \subseteq Excused(d)'
  BY DEF Excused
<1>3. \A k \in 0..i[c] : (start'[c] + k) % N \in Excused(c)'
  <2> SUFFICES ASSUME NEW k \in 0..i[c]
               PROVE  (start[c] + k) % N \in Excused(c)'
    OBVIOUS
  <2>1. i[c] \in Nat
    BY DEF BalancerInv, BalancerTypeOK
  <2>2. CASE k = i[c]
    BY <2>2
  <2>3. CASE k # i[c]
    <3>1. k \in 0..(i[c] - 1)
      BY <2>1, <2>3
    <3>2. ProbedInVain(c, i[c])
      BY DEF BalancerInv
    <3> QED BY <3>1, <3>2, <1>2 DEF ProbedInVain
  <2> QED BY <2>2, <2>3
<1>4. ASSUME NEW d \in Client
      PROVE  /\ at'[d] = "idle" => i'[d] = 0
             /\ at'[d] # "idle" => FRONTENDS \ alive' \subseteq down'[d] \cup died'[d]
             /\ at'[d] = "probe" => ProbedInVain(d, i[d])'
             /\ at'[d] = "none" => ProbedInVain(d, N)'
             /\ at'[d] \in {"found", "chosen"} => idx'[d] \in alive' \cup died'[d]
  <2>1. CASE d = c
    <3>1. at[c] # "idle" => FRONTENDS \ alive \subseteq down[c] \cup died[c]
      BY DEF BalancerInv
    <3>2. CASE i[c] + 1 < N
      <4>1. at'[c] = "probe" /\ i'[c] = i[c] + 1 /\ i[c] \in Nat
        BY <3>2 DEF NextProbe, BalancerInv, BalancerTypeOK
      <4>2. ProbedInVain(c, i[c])'
        BY <4>1, <1>3 DEF ProbedInVain
      <4> QED BY <2>1, <3>1, <4>1, <4>2
    <3>3. CASE ~(i[c] + 1 < N)
      <4>1. at'[c] = "none" /\ i[c] = N - 1
        BY <3>3 DEF NextProbe, BalancerInv, BalancerTypeOK
      <4>2. ProbedInVain(c, N)'
        BY <4>1, <1>3 DEF ProbedInVain
      <4> QED BY <2>1, <3>1, <4>1, <4>2
    <3> QED BY <3>2, <3>3
  <2>2. CASE d # c
    <3>1. at'[d] = at[d] /\ i'[d] = i[d] /\ idx'[d] = idx[d]
      BY <2>2 DEF NextProbe, BalancerInv, BalancerTypeOK
    <3>2. /\ at[d] = "idle" => i[d] = 0
          /\ at[d] # "idle" => FRONTENDS \ alive \subseteq down[d] \cup died[d]
          /\ at[d] = "probe" => ProbedInVain(d, i[d])
          /\ at[d] = "none" => ProbedInVain(d, N)
          /\ at[d] \in {"found", "chosen"} => idx[d] \in alive \cup died[d]
      BY DEF BalancerInv, SentToLive
    <3> QED BY <3>1, <3>2, <1>2 DEF ProbedInVain
  <2> QED BY <2>1, <2>2
<1> QED BY <1>1, <1>4 DEF BalancerInv, SentToLive

\* Every step of the balancer and of the frontends preserves the invariant.
LEMMA StepInv == BalancerInv /\ [BalancerNext]_balancerVars => BalancerInv'
<1> SUFFICES ASSUME BalancerInv, [BalancerNext]_balancerVars
             PROVE  BalancerInv'
  OBVIOUS
<1> USE NAssumption
<1>1. ASSUME NEW c \in Client, SelectFrontend(c) PROVE BalancerInv'
  BY <1>1 DEF SelectFrontend, BalancerInv, BalancerTypeOK, SentToLive, ProbedInVain,
              Excused, Place, FRONTENDS
<1>2. ASSUME NEW c \in Client, Probe(c) PROVE BalancerInv'
  <2> DEFINE f == (start[c] + i[c]) % N
  <2>1. f \in FRONTENDS
    BY ModInRange DEF BalancerInv, BalancerTypeOK, FRONTENDS
  <2>2. idx' = [idx EXCEPT ![c] = f]
    BY <1>2 DEF Probe
  <2>3. idx' \in [Client -> FRONTENDS] /\ \A d \in Client \ {c} : idx'[d] = idx[d]
    BY <2>1, <2>2 DEF BalancerInv, BalancerTypeOK
  <2>4. CASE /\ f \in alive
             /\ at' = [at EXCEPT ![c] = "found"]
             /\ UNCHANGED <<i, slow>>
    BY <1>2, <2>1, <2>2, <2>3, <2>4
       DEF Probe, BalancerInv, BalancerTypeOK, SentToLive, ProbedInVain, Excused, Place
  <2>5. CASE f \notin alive /\ NextProbe(c) /\ UNCHANGED slow
    <3>1. f \in Excused(c)'
      BY <1>2, <2>1, <2>5 DEF Probe, Excused, BalancerInv
    <3> QED BY <1>2, <2>3, <2>5, <3>1, ProbeInVain DEF Probe, BalancerInv, BalancerTypeOK
  <2>6. CASE /\ f \in alive
             /\ NextProbe(c)
             /\ slow' = [slow EXCEPT ![c] = @ \cup {f}]
    <3>1. /\ f \in Excused(c)'
          /\ slow' \in [Client -> SUBSET FRONTENDS]
          /\ \A d \in Client : slow[d] \subseteq slow'[d]
      BY <2>1, <2>6 DEF Excused, BalancerInv, BalancerTypeOK
    <3> QED BY <1>2, <2>3, <2>6, <3>1, ProbeInVain DEF Probe
  <2> QED BY <1>2, <2>4, <2>5, <2>6 DEF Probe
<1>3. ASSUME NEW c \in Client, Advance(c) PROVE BalancerInv'
  <2>1. next_frontend' \in FRONTENDS
    BY <1>3, ModInRange DEF Advance, BalancerInv, BalancerTypeOK, FRONTENDS
  <2> QED
    BY <1>3, <2>1 DEF Advance, threadVars, BalancerInv, BalancerTypeOK, SentToLive,
                      ProbedInVain, Excused, Place
<1>4. ASSUME NEW c \in Client, Leave(c) PROVE BalancerInv'
  BY <1>4 DEF Leave, BalancerInv, BalancerTypeOK, SentToLive, ProbedInVain, Excused,
              Place, FRONTENDS
<1>5. ASSUME NEW f \in FRONTENDS, StopFrontend(f) PROVE BalancerInv'
  <2>1. BalancerTypeOK'
    BY <1>5 DEF StopFrontend, BalancerInv, BalancerTypeOK
  <2>2. \A c \in Client : at[c] # "idle" => died'[c] = died[c] \cup {f}
    BY <1>5 DEF StopFrontend
  <2> QED
    BY <1>5, <2>1, <2>2 DEF StopFrontend, BalancerInv, SentToLive, ProbedInVain, Excused
<1>6. ASSUME NEW f \in FRONTENDS, StartFrontend(f) PROVE BalancerInv'
  BY <1>6 DEF StartFrontend, threadVars, BalancerInv, BalancerTypeOK, SentToLive,
              ProbedInVain, Excused
<1>7. CASE UNCHANGED balancerVars
  BY <1>7 DEF balancerVars, threadVars, BalancerInv, BalancerTypeOK, SentToLive,
              ProbedInVain, Excused
<1> QED BY <1>1, <1>2, <1>3, <1>4, <1>5, <1>6, <1>7 DEF BalancerNext

\* The inductive invariant holds in every reachable state.
THEOREM BalancerCorrect == BalancerSpec => []BalancerInv
  BY InitInv, StepInv, PTL DEF BalancerSpec

\* 503 is answered only if each frontend was down or too slow at some moment
\* of that selection (select_frontend), for every number of frontends and
\* threads.
THEOREM NoFalse503Holds == BalancerSpec => []NoFalse503
<1>1. BalancerInv => NoFalse503
  <2> SUFFICES ASSUME BalancerInv, NEW c \in Client, at[c] = "none"
               PROVE  FRONTENDS \subseteq Excused(c)
    BY DEF NoFalse503, Excused
  <2>1. start[c] \in FRONTENDS /\ ProbedInVain(c, N)
    BY DEF BalancerInv, BalancerTypeOK
  <2> QED BY <2>1, VainCoversAll
<1> QED BY <1>1, BalancerCorrect, PTL

\* A redirection leads to a frontend that was up during the selection.
THEOREM SentToLiveHolds == BalancerSpec => []SentToLive
<1>1. BalancerInv => SentToLive
  BY DEF BalancerInv
<1> QED BY <1>1, BalancerCorrect, PTL
=============================================================================
