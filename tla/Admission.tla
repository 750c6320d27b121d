------------------------------ MODULE Admission ------------------------------
(***************************************************************************)
(* What one API key may spend: the token bucket of RateLimiter             *)
(* (tusker_gateway/rate_limit.py), the usage rows of BudgetTracker         *)
(* (tusker_gateway/budget.py) and the chat handler that consults both      *)
(* before it serves a request and books the tokens after                   *)
(* (tusker_gateway/endpoints.py, chat_completions_handler).                *)
(*                                                                         *)
(* Every store call runs in a worker thread: it reads the clock first and  *)
(* commits later, and a cancelled request leaves its thread running.  A    *)
(* member of Req is a place for one live request after another.            *)
(***************************************************************************)
EXTENDS Integers, Sequences, FiniteSetsExt

CONSTANTS
    Configs,   \* which of the two are configured, one choice per deployment
    Req,       \* requests of the key that may be live at a time
    MaxTime,   \* bound of the clock
    Rate,      \* RateLimitPolicy.rate_per_sec, per unit of time
    Burst,     \* RateLimitPolicy.burst
    Cost,      \* RateLimitPolicy.cost_per_request
    Period,    \* usage.period: daily, monthly and pool:<name>
    Span,      \* DAILY_WINDOW or MONTHLY_WINDOW of each period
    Caps,      \* the configured caps in the order check() reads them
    Estimate,  \* _estimated_tokens(messages)
    Charges,   \* total_tokens a provider may report
    Cancels,   \* requests may be cancelled
    MaxOutages \* bound: store calls that find the database down

ASSUME ConfigAssumption ==
    Configs \subseteq [ratelimit : BOOLEAN, budget : BOOLEAN]
ASSUME RateAssumption ==
    /\ MaxTime \in Nat /\ Rate \in Nat /\ Burst \in Nat
    /\ Cost \in Nat /\ Cost <= Burst
ASSUME BudgetAssumption ==
    /\ Span \in [Period -> Nat \ {0}]
    /\ Caps \in Seq([period : Period, cap : Nat])
    /\ Estimate \in Nat \ {0}
    /\ Charges \subseteq Nat \ {0}
ASSUME FaultAssumption == Cancels \in BOOLEAN /\ MaxOutages \in Nat

VARIABLES
    config,    \* request.app["ratelimit"] and request.app["budget"]
    clock,
    bucket,    \* the row of table buckets
    usage,     \* the rows of table usage, by period and window number
    pc,        \* where the handler of each request is
    gone,      \* its coroutine was cancelled while a thread was at work
    stamp,     \* time.time() at the start of its store call
    passed,    \* how many caps its budget check has found room under
    charge,    \* the tokens of its record(): used, later budget_charged
    cached,    \* its answer comes from a cache
    net,       \* history: what its transactions left on the usage rows
    lapsed,    \* history: an outage swallowed one of them
    outages,   \* history: store calls that found the database down
    admitted,  \* history: checks that took their cost from the bucket
    opened,    \* history: last_refill_at of the bucket's creation
    waited     \* history: how long checks took from clock to commit, in all

rateVars == <<bucket, admitted, opened, waited>>
budgetVars == <<usage, passed, charge, cached, net, lapsed>>
vars == <<config, clock, rateVars, budgetVars, outages, pc, gone,
          stamp>>

Times == 0..MaxTime

Stage == {"idle", "rating", "admitted", "checking", "serving", "recording",
          "charged", "refunding", "answered", "failed", "cancelled"}

\* The stages in which no coroutine or thread of the request is left.
Finished == {"idle", "answered", "failed", "cancelled"}

-----------------------------------------------------------------------------
(***************************************************************************)
(* The transaction of RateLimiter.check                                    *)
(***************************************************************************)

AtMost(limit, n) == IF n > limit THEN limit ELSE n

\* The first UPDATE.  It takes the clock of the check as it is, also when a
\* check with a later clock has committed before.
Refilled(b, now) ==
    [b EXCEPT !.tokens = IF b.last >= now THEN b.tokens
                         ELSE AtMost(Burst, b.tokens + (now - b.last) * Rate),
              !.last = now]

FullBucket(now) == [exists |-> TRUE, tokens |-> Burst, last |-> now]

\* Fault: the insertion replaces a bucket that is short of tokens.
BucketBeforeConsumingReplaced(now) ==
    IF bucket.exists /\ Refilled(bucket, now).tokens >= Cost
    THEN Refilled(bucket, now) ELSE FullBucket(now)

\* INSERT ... ON CONFLICT DO NOTHING creates the bucket the UPDATE missed.
BucketBeforeConsuming(now) ==
    IF bucket.exists THEN Refilled(bucket, now) ELSE FullBucket(now)

(***************************************************************************)
(* The transactions of BudgetTracker                                       *)
(***************************************************************************)

Window(p, now) == now \div Span[p]

\* _sum: the rows whose window began after now - window.
Used(p, now) ==
    MapThenSumSet(LAMBDA k : usage[p][k],
                  {k \in Times : k * Span[p] > now - Span[p]})

\* _bump of every period in one transaction.
Bumped(now, tokens) ==
    [p \in Period |-> [usage[p] EXCEPT ![Window(p, now)] = @ + tokens]]

\* Fault: the check leaves the tokens of the request itself out.
HasRoomBefore(p, cap, now) == Used(p, now) <= cap

HasRoom(p, cap, now) == Used(p, now) + Estimate <= cap

-----------------------------------------------------------------------------

Init ==
    /\ config \in Configs
    /\ clock = 0
    /\ bucket = [exists |-> FALSE, tokens |-> 0, last |-> 0]
    /\ usage = [p \in Period |-> [k \in Times |-> 0]]
    /\ pc = [r \in Req |-> "idle"]
    /\ gone = [r \in Req |-> FALSE]
    /\ stamp = [r \in Req |-> 0]
    /\ passed = [r \in Req |-> 0]
    /\ charge = [r \in Req |-> 0]
    /\ cached = [r \in Req |-> FALSE]
    /\ net = [r \in Req |-> 0]
    /\ lapsed = [r \in Req |-> FALSE]
    /\ outages = 0
    /\ admitted = 0
    /\ opened = 0
    /\ waited = 0

Goto(r, stage) == pc' = [pc EXCEPT ![r] = stage]

\* A store call starts in a worker thread and reads the clock.
CallStore(r, stage) ==
    /\ Goto(r, stage)
    /\ stamp' = [stamp EXCEPT ![r] = clock]

\* The coroutine has the outcome of its store call.
EndCall(r, stage) ==
    /\ Goto(r, stage)
    /\ stamp' = [stamp EXCEPT ![r] = 0]

Arrive(r) ==
    /\ pc[r] \in Finished
    /\ IF config.ratelimit THEN CallStore(r, "rating")
                           ELSE EndCall(r, "admitted")
    /\ gone' = [gone EXCEPT ![r] = FALSE]
    /\ passed' = [passed EXCEPT ![r] = 0]
    /\ charge' = [charge EXCEPT ![r] = 0]
    /\ cached' = [cached EXCEPT ![r] = FALSE]
    /\ net' = [net EXCEPT ![r] = 0]
    /\ lapsed' = [lapsed EXCEPT ![r] = FALSE]
    /\ UNCHANGED <<config, clock, outages, rateVars, usage>>

\* RateLimiter.check commits; too few tokens are a 429.
CheckRate(r) ==
    /\ pc[r] = "rating"
    /\ LET now == stamp[r]
           found == BucketBeforeConsuming(now)
           allowed == found.tokens >= Cost
       IN  /\ bucket' = [found EXCEPT !.tokens =
                            IF allowed THEN @ - Cost ELSE @]
           /\ admitted' = IF allowed THEN admitted + 1 ELSE admitted
           /\ opened' = IF bucket.exists THEN opened ELSE now
           /\ waited' = waited + (clock - now)
           /\ EndCall(r, IF gone[r] THEN "cancelled"
                         ELSE IF allowed THEN "admitted" ELSE "failed")
    /\ UNCHANGED <<config, clock, outages, budgetVars, gone>>

BeginBudgetCheck(r) ==
    /\ pc[r] = "admitted"
    /\ IF config.budget THEN CallStore(r, "checking")
                        ELSE EndCall(r, "serving")
    /\ UNCHANGED <<config, clock, outages, rateVars, budgetVars, gone>>

\* BudgetTracker.check reads one cap after the other, each on a connection of
\* its own, all with the clock of its start.
PassCap(r) ==
    /\ pc[r] = "checking"
    /\ passed[r] < Len(Caps)
    /\ LET next == Caps[passed[r] + 1]
       IN  HasRoom(next.period, next.cap, stamp[r])
    /\ passed' = [passed EXCEPT ![r] = @ + 1]
    /\ UNCHANGED <<config, clock, outages, rateVars, usage, charge, cached,
                   net, lapsed, pc, gone, stamp>>

Refuse(r) ==
    /\ pc[r] = "checking"
    /\ passed[r] < Len(Caps)
    /\ LET next == Caps[passed[r] + 1]
       IN  ~HasRoom(next.period, next.cap, stamp[r])
    /\ EndCall(r, "failed")
    /\ UNCHANGED <<config, clock, outages, rateVars, budgetVars, gone>>

PassBudget(r) ==
    /\ pc[r] = "checking"
    /\ passed[r] = Len(Caps)
    /\ EndCall(r, "serving")
    /\ UNCHANGED <<config, clock, outages, rateVars, budgetVars, gone>>

\* StorageUnavailableError instead of a transaction.
StoreIsDown ==
    /\ outages < MaxOutages
    /\ outages' = outages + 1

\* Either preflight raises StorageUnavailableError: 503, nothing was changed.
PreflightUnavailable(r) ==
    /\ StoreIsDown
    /\ pc[r] \in {"rating", "checking"}
    /\ EndCall(r, IF gone[r] THEN "cancelled" ELSE "failed")
    /\ UNCHANGED <<config, clock, rateVars, budgetVars, gone>>

\* A cache hit is charged for the prompt at least.
HitCache(r) ==
    /\ pc[r] = "serving"
    /\ config.budget
    /\ \E tokens \in Charges :
          charge' = [charge EXCEPT ![r] = IF tokens > Estimate THEN tokens
                                          ELSE Estimate]
    /\ cached' = [cached EXCEPT ![r] = TRUE]
    /\ CallStore(r, "recording")
    /\ UNCHANGED <<config, clock, outages, rateVars, usage, passed, net,
                   lapsed, gone>>

\* The provider answered, or its stream was opened: record the tokens it
\* reports, or the estimate.
ProviderAnswers(r) ==
    /\ pc[r] = "serving"
    /\ config.budget
    /\ \E tokens \in Charges \cup {Estimate} :
          charge' = [charge EXCEPT ![r] = tokens]
    /\ CallStore(r, "recording")
    /\ UNCHANGED <<config, clock, outages, rateVars, usage, passed, cached,
                   net, lapsed, gone>>

\* Without a budget an answer is not recorded.
AnswerUncounted(r) ==
    /\ pc[r] = "serving"
    /\ ~config.budget
    /\ Goto(r, "answered")
    /\ UNCHANGED <<config, clock, outages, rateVars, budgetVars, gone, stamp>>

\* budget_recorded is still false, so there is nothing to refund.
ProviderFails(r) ==
    /\ pc[r] = "serving"
    /\ Goto(r, "failed")
    /\ UNCHANGED <<config, clock, outages, rateVars, budgetVars, gone, stamp>>

\* Fault: a refund gives back the estimate.
BookedEstimate(r, sign) ==
    IF sign < 0 THEN -Estimate ELSE charge[r]

\* What record (sign 1) and refund (sign -1) put on the rows.
Booked(r, sign) == sign * charge[r]

\* The transaction of record or refund, swallowed when the store is down.
Book(r, sign) ==
    \/ /\ usage' = Bumped(stamp[r], Booked(r, sign))
       /\ net' = [net EXCEPT ![r] = @ + Booked(r, sign)]
       /\ UNCHANGED <<lapsed, outages>>
    \/ /\ StoreIsDown
       /\ lapsed' = [lapsed EXCEPT ![r] = TRUE]
       /\ UNCHANGED <<usage, net>>

\* budget_recorded is set whether or not the transaction was swallowed.
CommitRecord(r) ==
    /\ pc[r] = "recording"
    /\ Book(r, 1)
    /\ EndCall(r, CASE gone[r]                -> "cancelled"
                    [] ~gone[r] /\ cached[r]  -> "answered"
                    [] ~gone[r] /\ ~cached[r] -> "charged")
    /\ UNCHANGED <<config, clock, rateVars, passed, charge, cached, gone>>

\* The answer reached the client; nothing is booked any more.
Answer(r) ==
    /\ pc[r] = "charged"
    /\ Goto(r, "answered")
    /\ UNCHANGED <<config, clock, outages, rateVars, budgetVars, gone, stamp>>

\* The stream broke, its client left, or a step after record() raised.
BeginRefund(r) ==
    /\ pc[r] = "charged"
    /\ CallStore(r, "refunding")
    /\ UNCHANGED <<config, clock, outages, rateVars, budgetVars, gone>>

CommitRefund(r) ==
    /\ pc[r] = "refunding"
    /\ Book(r, -1)
    /\ EndCall(r, IF gone[r] THEN "cancelled" ELSE "failed")
    /\ UNCHANGED <<config, clock, rateVars, passed, charge, cached, gone>>

\* The request is cancelled.  A thread that writes goes on without it; once
\* record() returned, only a stream is refunded (BeginRefund).
Cancel(r) ==
    /\ Cancels
    /\ ~gone[r]
    /\ \/ /\ pc[r] \in {"rating", "recording", "refunding"}
          /\ gone' = [gone EXCEPT ![r] = TRUE]
          /\ UNCHANGED <<pc, stamp>>
       \/ /\ pc[r] \in {"admitted", "checking", "serving", "charged"}
          /\ EndCall(r, "cancelled")
          /\ UNCHANGED gone
    /\ UNCHANGED <<config, clock, outages, rateVars, budgetVars>>

Tick ==
    /\ clock < MaxTime
    /\ clock' = clock + 1
    /\ UNCHANGED <<config, outages, rateVars, budgetVars, pc, gone, stamp>>

Step(r) ==
    \/ Arrive(r) \/ CheckRate(r)
    \/ BeginBudgetCheck(r) \/ PassCap(r) \/ Refuse(r) \/ PassBudget(r)
    \/ PreflightUnavailable(r)
    \/ HitCache(r) \/ ProviderAnswers(r) \/ AnswerUncounted(r)
    \/ ProviderFails(r)
    \/ CommitRecord(r) \/ Answer(r) \/ BeginRefund(r) \/ CommitRefund(r)
    \/ Cancel(r)

Next == Tick \/ \E r \in Req : Step(r)

Spec == Init /\ [][Next]_vars

-----------------------------------------------------------------------------

\* Every variable keeps its type; the bucket never holds more than the burst
\* or less than nothing (rate_limit.py, RateLimiter.check).
TypeOK ==
    /\ config \in Configs
    /\ clock \in Times
    /\ bucket \in [exists : BOOLEAN, tokens : 0..Burst, last : Times]
    /\ usage \in [Period -> [Times -> Int]]
    /\ pc \in [Req -> Stage]
    /\ gone \in [Req -> BOOLEAN]
    /\ stamp \in [Req -> Times]
    /\ passed \in [Req -> 0..Len(Caps)]
    /\ charge \in [Req -> Nat]
    /\ cached \in [Req -> BOOLEAN]
    /\ net \in [Req -> Int]
    /\ lapsed \in [Req -> BOOLEAN]
    /\ outages \in 0..MaxOutages
    /\ admitted \in Nat
    /\ opened \in Times
    /\ waited \in Nat

\* The key is never admitted more often than the burst and the refill since
\* its first request pay for, but for the refill of the time that checks spent
\* between reading the clock and committing: a late commit moves
\* last_refill_at back (rate_limit.py:159-182).
AdmissionIsPaidFor ==
    admitted * Cost <= Burst + Rate * ((clock - opened) + waited)

\* A request that ends was charged exactly what it consumed when it was
\* answered, nothing when it failed, and one of the two when it was
\* cancelled, unless an outage swallowed one of its transactions
\* (endpoints.py: budget_recorded and budget_charged).
ChargedOnceOrNotAtAll ==
    \A r \in Req : ~lapsed[r] =>
        /\ pc[r] = "answered"  => /\ config.budget => charge[r] > 0
                                  /\ net[r] = charge[r]
        /\ pc[r] = "failed"    => net[r] = 0
        /\ pc[r] = "cancelled" => net[r] \in {0, charge[r]}

Largest == Max(Charges \cup {Estimate})

\* Nobody reserves what he found room for, so the requests that are live
\* together can overrun a cap; but each of them only once, by its own charge,
\* even when refunds of an earlier window's charges or swallowed records have
\* made rows negative and a check reads them with an old clock
\* (budget.py:146-215 against endpoints.py:7373-7403 and 7680-7685).
OverspendIsBounded ==
    \A i \in DOMAIN Caps :
        Used(Caps[i].period, clock)
            <= Max({Caps[i].cap - Estimate, 0})
               + Cardinality(Req) * Largest
=============================================================================
