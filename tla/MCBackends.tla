----------------------------- MODULE MCBackends -----------------------------
(***************************************************************************)
(* The breaker of one route that two processes call, the media endpoints,  *)
(* the policy gate of turns with tools and the background probes, side by  *)
(* side for TLC: the initial state says which of them runs.                *)
(***************************************************************************)
EXTENDS MCCircuitBreaker, MediaRoutes, MediaJobs, ToolGate, Qualification

CONSTANTS r1, r2, m1, m2

VARIABLE running

backendsVars == <<running, vars, mediaVars, jobVars, gateVars, probeVars>>

\* Two routes of two providers, the second one discovered.
TwoProviders == <<1, 2>>

\* The ones that do not run have one initial state.
BackendsInit ==
    /\ running \in {"breaker", "media", "jobs", "gate", "probes"}
    /\ Init
    /\ MediaInit
    /\ running # "media" => surface = "rerank" /\ cursor = 0 /\ \A b \in Backend : failed[b] = 0
    /\ JobInit
    /\ running # "jobs" => order = [kind |-> "video", provider |-> "zai", waits |-> TRUE]
    /\ GateInit
    /\ running # "gate" =>
         /\ rules = [mode |-> "audit", forced |-> {}] /\ approved = <<>>
         /\ asked = [style |-> "whole", tools |-> "other", choice |-> "auto",
                     wording |-> "plain", content |-> FALSE, contentApproved |-> FALSE]
    /\ ProbeInit
    /\ running # "probes" => kind = "tools"

Breaking == running = "breaker" /\ UNCHANGED <<running, mediaVars, jobVars, gateVars, probeVars>>
Routing ==
    running = "media" /\ MediaNext
    /\ UNCHANGED <<running, vars, jobVars, gateVars, probeVars>>
Making ==
    running = "jobs" /\ JobNext
    /\ UNCHANGED <<running, vars, mediaVars, gateVars, probeVars>>
Gating ==
    running = "gate" /\ GateNext
    /\ UNCHANGED <<running, vars, mediaVars, jobVars, probeVars>>
Qualifying ==
    running = "probes" /\ ProbeNext
    /\ UNCHANGED <<running, vars, mediaVars, jobVars, gateVars>>
BackendsNext == (Breaking /\ Next) \/ Routing \/ Making \/ Gating \/ Qualifying

\* Fairness of CircuitBreaker; the others may stop anywhere.
BackendsSpec ==
    /\ BackendsInit /\ [][BackendsNext]_backendsVars
    /\ WF_backendsVars(Breaking /\ Tick)
    /\ \A c \in Call : WF_backendsVars(Breaking /\ (Check(c) \/ Reserve(c) \/ Verdict(c)))
=============================================================================
