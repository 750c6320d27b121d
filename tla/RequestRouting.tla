---------------------------- MODULE RequestRouting ----------------------------
(***************************************************************************)
(* One chat request on its way through the candidates of a pool: the loop  *)
(* of _call_with_pool_fallback (tusker_gateway/endpoints.py), the stream   *)
(* pump of the chat handler that may call it again before any output is    *)
(* visible, and what the rest of the gateway does meanwhile to the         *)
(* cooldowns and breakers of the candidates.                               *)
(*                                                                         *)
(* CircuitBreaker models the breaker itself; here its verdict is any of    *)
(* those it can give.  Ranking among eligible candidates is any choice.    *)
(***************************************************************************)
EXTENDS Integers, Sequences, FiniteSets

CONSTANTS
    Cand,          \* (provider, model) pairs
    NoCand,        \* none of them
    Chain,         \* the requested pool and its fallback pools, in order
    ToolClass,     \* tool capability evidence of each candidate
    RequiresTools, \* the request carries tools
    Streaming,     \* the client asked for a stream
    MaxAttempts,   \* TUSKER_MAX_PROVIDER_ATTEMPTS
    MaxFailovers   \* TUSKER_MAX_PREVISIBLE_FAILOVERS

ASSUME CandAssumption ==
    /\ NoCand \notin Cand
    /\ IsFiniteSet(Cand)
    /\ ToolClass \in [Cand -> {"qualified", "structured", "curated"}]
ASSUME ChainAssumption ==
    /\ Chain \in Seq(SUBSET Cand)
    /\ Chain # <<>>
ASSUME LimitAssumption ==
    /\ MaxAttempts \in Nat \ {0}
    /\ MaxFailovers \in Nat \ {0}
    /\ RequiresTools \in BOOLEAN
    /\ Streaming \in BOOLEAN

VARIABLES
    pc,         \* where the coroutine of the request is
    selected,   \* the candidate at hand
    pending,    \* initial_selection: resolved for the semantic cache
    decision,   \* BreakerDecision.state of the candidate at hand
    excluded,   \* candidates this call of the loop will not try again
    pool,       \* pool_index, counted from 1; 0 when the request names its
                \* model and no pool
    recovery,   \* recovery_probe
    compat,     \* tool_compatibility_probe
    attempts,   \* attempts
    reason,     \* why the loop gave up
    cycles,     \* cycle_fallbacks
    origin,     \* the candidate whose failed stream led to this call
    visible,    \* stream_visible_output
    time,       \* "ample"; "short", under 0.25 s to the deadline; "over"
    status,     \* of each candidate: "ok", "cooling", or "blocked" by a shared
                \* capacity quarantine or a permanent failure
    unblocked,  \* history: candidates not blocked since the call began
    inCall,     \* history: dispatches of each candidate in this call
    dispatches, \* history: dispatches of each candidate in the request
    failures    \* history: failures recorded against each candidate

loop == <<selected, decision, excluded, pool, recovery, compat, attempts,
          reason>>
pump == <<cycles, origin, visible>>
env == <<time, status, unblocked>>
history == <<inCall, dispatches, failures>>
vars == <<pc, pending, loop, pump, env, history>>

Stage == {"select", "check", "admitted", "attempt", "pump", "ok", "failed",
          "cancelled"}
Final == {"ok", "failed", "cancelled"}
Reason == {"none", "exhausted", "limit", "denied", "error"}

LastPool == Len(Chain)

\* The request names its model: there are no other candidates.
Direct == pool = 0

\* Everyone that a pool of the chain lists.
Listed == UNION {Chain[i] : i \in DOMAIN Chain}

-----------------------------------------------------------------------------
(* Selection *)

\* Tool evidence that each pass of the loop accepts.
ToolsAllowed(c) ==
    RequiresTools => \/ ToolClass[c] = "qualified"
                     \/ ToolClass[c] = "structured" /\ recovery
                     \/ ToolClass[c] = "curated" /\ recovery /\ compat

\* allow_cooldown_probe ignores individual cooldowns but no quarantine.
Cool(c) == status[c] = "ok" \/ (recovery /\ status[c] = "cooling")

\* What PoolManager.select may return for the active pool.
Eligible == {c \in Chain[pool] \ excluded : ToolsAllowed(c) /\ Cool(c)}

\* Fault: a pass begins with the first fallback pool.
SecondPool == IF Len(Chain) > 1 THEN 2 ELSE 1

\* Where each pass over the chain begins.
FirstPool == 1

\* Fault: the recovery pass is not remembered.
RecoveryForgotten == FALSE

\* The recovery pass happens once.
RecoveryStarted == TRUE

Raise(why) ==
    /\ pc' = "failed"
    /\ reason' = why

\* Fault: a failure is recorded where it is caught and where it is handled.
BlameTwice(c) == failures' = [failures EXCEPT ![c] = @ + 2]

\* record_failure for a candidate.
Blame(c) == failures' = [failures EXCEPT ![c] = @ + 1]

\* The loop raises.  If it ran because a stream had failed, the handler raises
\* the error of that stream again and records it again.
GiveUp(why) ==
    /\ Raise(why)
    /\ IF origin = NoCand THEN UNCHANGED failures ELSE Blame(origin)

AtLimit == attempts >= MaxAttempts

LimitReached ==
    /\ pc = "select" /\ ~Direct
    /\ AtLimit
    /\ GiveUp("limit")
    /\ UNCHANGED <<pending, selected, decision, excluded, pool, recovery,
                   compat, attempts, pump, env, inCall, dispatches>>

Pick(c) ==
    /\ selected' = c
    /\ pc' = "check"
    /\ UNCHANGED <<decision, excluded, pool, recovery, compat, attempts,
                   reason, pump, env, history>>

\* The candidate the semantic cache resolved comes first, then the pool's.
SelectCandidate ==
    /\ pc = "select"
    /\ ~AtLimit \/ Direct
    /\ IF pending # NoCand
       THEN Pick(pending) /\ pending' = NoCand
       ELSE \E c \in Eligible : Pick(c) /\ UNCHANGED pending

\* Nobody is left in the active pool: the next pool of the chain, then the
\* recovery pass, then the pass that also accepts stale tool evidence.
NothingSelected ==
    /\ pc = "select" /\ ~Direct
    /\ ~AtLimit
    /\ pending = NoCand /\ Eligible = {}

NextPool ==
    /\ NothingSelected
    /\ pool < LastPool
    /\ pool' = pool + 1
    /\ UNCHANGED <<pc, pending, selected, decision, excluded, recovery, compat,
                   attempts, reason, pump, env, history>>

StartRecovery ==
    /\ NothingSelected
    /\ pool = LastPool
    /\ ~recovery
    /\ recovery' = RecoveryStarted
    /\ pool' = FirstPool
    /\ UNCHANGED <<pc, pending, selected, decision, excluded, compat, attempts,
                   reason, pump, env, history>>

StartCompatibility ==
    /\ NothingSelected
    /\ pool = LastPool
    /\ RequiresTools /\ recovery /\ ~compat
    /\ compat' = TRUE
    /\ pool' = FirstPool
    /\ UNCHANGED <<pc, pending, selected, decision, excluded, recovery,
                   attempts, reason, pump, env, history>>

Exhausted ==
    /\ NothingSelected
    /\ pool = LastPool
    /\ recovery
    /\ RequiresTools => compat
    /\ GiveUp("exhausted")
    /\ UNCHANGED <<pending, selected, decision, excluded, pool, recovery,
                   compat, attempts, pump, env, inCall, dispatches>>

-----------------------------------------------------------------------------
(* The breaker and the attempt *)

\* breaker.check admits the candidate, as a probe or not, or denies it.
Check ==
    /\ pc = "check"
    /\ \/ \E state \in {"closed", "half_open"} :
             /\ pc' = "admitted"
             /\ decision' = state
             /\ UNCHANGED <<excluded, reason>>
       \/ /\ ~Direct
          /\ pc' = "select"
          /\ excluded' = excluded \cup {selected}
          /\ UNCHANGED <<decision, reason>>
       \/ /\ Direct
          /\ Raise("denied")
          /\ UNCHANGED <<decision, excluded>>
    /\ UNCHANGED <<pending, selected, pool, recovery, compat, attempts, pump,
                   env, history>>

\* Every admitted candidate counts.
AttemptsAfter == attempts + 1

\* The attempt's task is created with what is left of the time.
Dispatch ==
    /\ pc = "admitted"
    /\ pc' = "attempt"
    /\ attempts' = IF Direct THEN attempts ELSE AttemptsAfter
    /\ inCall' = [inCall EXCEPT ![selected] = @ + 1]
    /\ dispatches' = [dispatches EXCEPT ![selected] = @ + 1]
    /\ UNCHANGED <<pending, selected, decision, excluded, pool, recovery,
                   compat, reason, pump, env, failures>>

\* The aggregate attempt budget, if one is configured, is spent.
BudgetSpent ==
    /\ pc = "admitted" /\ ~Direct
    /\ attempts' = AttemptsAfter
    /\ GiveUp("error")
    /\ UNCHANGED <<pending, selected, decision, excluded, pool, recovery,
                   compat, pump, env, inCall, dispatches>>

\* record_success; a stream goes on to the pump with its first frames.
AttemptSucceeds ==
    /\ pc = "attempt"
    /\ time = "ample"
    /\ pc' = IF Streaming THEN "pump" ELSE "ok"
    /\ UNCHANGED <<pending, loop, pump, env, history>>

\* Whatever went wrong, the candidate is not tried again in this call.
ExcludedAfter(kind) == excluded \cup {selected}

\* Errors that the loop survives.  Only those of the provider's health are
\* recorded: not a body that is too big (413), a local login that ran out, or
\* a response that the tool policy denied.
AttemptFails ==
    /\ pc = "attempt"
    /\ \E kind \in {"timeout", "rate_limit", "provider", "too_big", "login",
                    "policy"} :
         /\ time # "ample" => kind = "timeout"
         /\ IF kind \in {"timeout", "rate_limit", "provider"}
            THEN Blame(selected) ELSE UNCHANGED failures
         /\ IF Direct
            THEN Raise("error") /\ UNCHANGED excluded
            ELSE /\ pc' = "select"
                 /\ excluded' = ExcludedAfter(kind)
                 /\ UNCHANGED reason
    /\ UNCHANGED <<pending, selected, decision, pool, recovery, compat,
                   attempts, pump, env, inCall, dispatches>>

\* A consequential tool call that needs approval is never retried.
ApprovalRequired ==
    /\ pc = "attempt"
    /\ time = "ample"
    /\ GiveUp("error")
    /\ UNCHANGED <<pending, selected, decision, excluded, pool, recovery,
                   compat, attempts, pump, env, inCall, dispatches>>

-----------------------------------------------------------------------------
(* The stream pump *)

\* An assistant data frame reaches the client.
Show ==
    /\ pc = "pump"
    /\ ~visible
    /\ visible' = TRUE
    /\ UNCHANGED <<pc, pending, loop, cycles, origin, env, history>>

StreamEnds ==
    /\ pc = "pump"
    /\ pc' = "ok"
    /\ UNCHANGED <<pending, loop, pump, env, history>>

\* Fault: output that the client has seen does not stop a failover.
MayFailOverAnytime == cycles < MaxFailovers /\ ~Direct

\* A stream that failed may go to another model while nothing was shown.
MayFailOver == cycles < MaxFailovers /\ ~visible /\ ~Direct

\* Record the failure and call the loop again: the failed candidate alone is
\* excluded, and the attempts made so far count as one per failover.
FailOver ==
    /\ pc = "pump"
    /\ MayFailOver
    /\ Blame(selected)
    /\ cycles' = cycles + 1
    /\ origin' = selected
    /\ attempts' = IF cycles + 2 < MaxAttempts - 1 THEN cycles + 2
                                                   ELSE MaxAttempts - 1
    /\ pc' = "select"
    /\ excluded' = {selected}
    /\ pool' = FirstPool
    /\ recovery' = FALSE /\ compat' = FALSE
    /\ unblocked' = {c \in Cand : status[c] # "blocked"}
    /\ inCall' = [c \in Cand |-> 0]
    /\ UNCHANGED <<pending, selected, decision, reason, visible, time, status,
                   dispatches>>

\* The stream fails for good: the error is told in the stream.
StreamFails ==
    /\ pc = "pump"
    /\ Blame(selected)
    /\ Raise("error")
    /\ UNCHANGED <<pending, selected, decision, excluded, pool, recovery,
                   compat, attempts, pump, env, inCall, dispatches>>

\* The client went away, or a response stage of the gateway's own failed:
\* nobody is blamed.
PumpStops ==
    /\ pc = "pump"
    /\ Raise("error")
    /\ UNCHANGED <<pending, selected, decision, excluded, pool, recovery,
                   compat, attempts, pump, env, history>>

-----------------------------------------------------------------------------
(* The deadline and the rest of the gateway *)

TimePasses ==
    /\ pc \notin Final
    /\ time' = CASE time = "ample" -> "short" [] OTHER -> "over"
    /\ time' # time
    /\ UNCHANGED <<pc, pending, loop, pump, status, unblocked, history>>

\* asyncio.timeout cancels the handler; an attempt has timed out before that.
Cancel ==
    /\ time = "over"
    /\ pc \notin Final \cup {"attempt"}
    /\ pc' = "cancelled"
    /\ UNCHANGED <<pending, loop, pump, env, history>>

\* Other requests quarantine candidates, cooldowns end, operators clear them.
Disturb(c) ==
    /\ pc \notin Final
    /\ \E s \in {"ok", "cooling", "blocked"} \ {status[c]} :
         /\ status' = [status EXCEPT ![c] = s]
         /\ unblocked' = IF s = "blocked" THEN unblocked \ {c} ELSE unblocked
    /\ UNCHANGED <<pc, pending, loop, pump, time, history>>

-----------------------------------------------------------------------------

Init ==
    /\ \/ /\ pc = "select" /\ selected = NoCand
          /\ pool = FirstPool
          /\ pending \in Chain[1] \cup {NoCand}
       \/ /\ pc = "check" /\ selected \in Listed
          /\ pool = 0
          /\ pending = NoCand
    /\ decision = "closed"
    /\ excluded = {}
    /\ recovery = FALSE /\ compat = FALSE
    /\ attempts = 0
    /\ reason = "none"
    /\ cycles = 0
    /\ origin = NoCand
    /\ visible = FALSE
    /\ time = "ample"
    /\ status \in [Cand -> {"ok", "cooling", "blocked"}]
    /\ unblocked = {c \in Cand : status[c] # "blocked"}
    /\ inCall = [c \in Cand |-> 0]
    /\ dispatches = [c \in Cand |-> 0]
    /\ failures = [c \in Cand |-> 0]

Loop ==
    \/ LimitReached \/ SelectCandidate \/ NextPool \/ StartRecovery
    \/ StartCompatibility \/ Exhausted \/ Check \/ Dispatch \/ BudgetSpent

Attempt == AttemptSucceeds \/ AttemptFails \/ ApprovalRequired

Pump == StreamEnds \/ FailOver \/ StreamFails \/ PumpStops

Next ==
    \/ Loop \/ Attempt \/ Pump \/ Show \/ TimePasses \/ Cancel
    \/ \E c \in Cand : Disturb(c)

Spec == Init /\ [][Next]_vars

\* The coroutine goes on, and the idle budgets end every attempt and stream.
FairSpec == Spec /\ WF_vars(Loop \/ Attempt \/ Pump \/ Cancel)

-----------------------------------------------------------------------------
(* Properties *)

TypeOK ==
    /\ pc \in Stage
    /\ selected \in Cand \cup {NoCand}
    /\ pc \in {"check", "admitted", "attempt", "pump"} => selected \in Cand
    /\ pending \in Cand \cup {NoCand}
    /\ decision \in {"closed", "half_open"}
    /\ excluded \subseteq Cand
    /\ pool \in 0..LastPool
    /\ recovery \in BOOLEAN /\ compat \in BOOLEAN
    /\ attempts \in 0..MaxAttempts
    /\ reason \in Reason
    /\ cycles \in 0..MaxFailovers
    /\ origin \in Cand \cup {NoCand}
    /\ visible \in BOOLEAN
    /\ time \in {"ample", "short", "over"}
    /\ status \in [Cand -> {"ok", "cooling", "blocked"}]
    /\ unblocked \subseteq Cand
    /\ inCall \in [Cand -> Nat]
    /\ dispatches \in [Cand -> Nat]
    /\ failures \in [Cand -> Nat]

\* One call of the loop never dispatches a candidate twice, whatever the passes
\* over the chain, overlapping pools and the candidate resolved beforehand.
OncePerCall == \A c \in Cand : inCall[c] <= 1

\* The loop gives up for want of candidates only after it tried, or was denied,
\* every listed candidate that was at no time blocked and whose tool evidence
\* the last pass accepts.
ExhaustedMeansTried ==
    reason = "exhausted" =>
        \A c \in Listed \cap unblocked : ToolsAllowed(c) => c \in excluded

\* "this cap only bounds how many distinct candidates are tried": one call of
\* the loop makes at most MaxAttempts dispatches.
CallsAreBounded ==
    Cardinality({c \in Cand : inCall[c] > 0}) <= MaxAttempts

\* "consecutive_failures: trip after N consecutive failures": a dispatch is
\* recorded as at most one failure, save that a failover that finds nobody
\* records the failure of the stream it tried to replace a second time.
BlamedOncePerAttempt ==
    \A c \in Cand :
        failures[c] <= dispatches[c] +
            (IF c = origin /\ pc = "failed" THEN 1 ELSE 0)

\* Once the client has seen output no other candidate is tried: retries "must
\* not occur after client-visible stream output".
NeverSplices == [][visible => dispatches' = dispatches]_vars

\* The request ends, however the candidates fail and recover meanwhile.
Terminates == <>(pc \in Final)

\* "Bound per-request fallback work so one outage cannot stall OMP": no request
\* dispatches more than MaxAttempts times.
RequestIsBounded ==
    Cardinality({p \in Cand \X (1..(MaxAttempts + 1)) :
                    p[2] <= dispatches[p[1]]}) <= MaxAttempts

=============================================================================
