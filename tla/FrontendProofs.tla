--------------------------- MODULE FrontendProofs ---------------------------
(***************************************************************************)
(* The balancer keeps its promises in the composed system: whatever        *)
(* browsers and frontends do, the balancer's part of a behaviour is a      *)
(* behaviour of Balancer.                                                  *)
(***************************************************************************)
EXTENDS Frontend, BalancerProofs

\* A step of the composed system is one of the balancer, or does not touch it.
LEMMA StepRefines == [Next]_vars => [BalancerNext]_balancerVars
<1> SUFFICES ASSUME [Next]_vars PROVE [BalancerNext]_balancerVars
  OBVIOUS
<1> USE ThreadAssumption
<1>1. ASSUME NEW t \in Thread, Ask(t) PROVE BalancerNext
  BY <1>1 DEF Ask, BalancerNext
<1>2. ASSUME NEW t \in Thread, Balance(t) PROVE BalancerNext
  BY <1>2 DEF Balance, BalancerNext
<1>3. ASSUME NEW t \in Thread, Arrive(t) \/ Refused(t) PROVE BalancerNext
  BY <1>3 DEF Arrive, Refused, BalancerNext
<1>4. ASSUME NEW t \in Thread, Serve(t) PROVE UNCHANGED balancerVars
  BY <1>4 DEF Serve
<1>5. ASSUME NEW f \in FRONTENDS, Stop(f) PROVE BalancerNext
  BY <1>5 DEF Stop, BalancerNext
<1>6. ASSUME NEW f \in FRONTENDS, Restart(f) PROVE BalancerNext
  BY <1>6 DEF Restart, BalancerNext
<1>7. CASE UNCHANGED vars
  BY <1>7 DEF vars
<1> QED BY <1>1, <1>2, <1>3, <1>4, <1>5, <1>6, <1>7 DEF Next, Progress

\* Frontend implements Balancer: a request that a frontend handles, and
\* frontends that stop with requests under way, add no step to the balancer's
\* (handle_client of load_balancer.cc ends with the redirection).
THEOREM FrontendImplementsBalancer == Spec => BalancerSpec
<1>1. Init => BalancerInit
  BY DEF Init
<1> QED BY <1>1, StepRefines, PTL DEF Spec, BalancerSpec

\* In the composed system, too, 503 means that every frontend was down or slow
\* during the selection, and a redirection leads to one that was up.
THEOREM ComposedBalancerCorrect == Spec => [](NoFalse503 /\ SentToLive)
  BY FrontendImplementsBalancer, NoFalse503Holds, SentToLiveHolds, PTL
=============================================================================
