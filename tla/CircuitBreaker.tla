--------------------------- MODULE CircuitBreaker ---------------------------
(***************************************************************************)
(* The persisted circuit breaker of one (provider, model) route:           *)
(* tusker_gateway/circuit_breaker.py, driven the way endpoints.py drives   *)
(* it.  Every public operation is a read of the row followed by a separate *)
(* write, each in its own database transaction, run in a worker thread;    *)
(* calls of one process and of several processes that share the database   *)
(* therefore interleave between the two.                                   *)
(*                                                                         *)
(* Time is relative: age is the number of seconds since the row's          *)
(* opened_at, saturated at MaxAge, which no cooldown exceeds, so that      *)
(* "now - opened_at >= cooldown" is decided exactly in a finite state      *)
(* space.  consecutive_failures saturates at its threshold, the only value *)
(* it is compared with.                                                    *)
(***************************************************************************)
EXTENDS Integers, FiniteSets

CONSTANTS
    Proc,                 \* gateway processes sharing the database
    Call,                 \* concurrent upstream calls (worker slots)
    ProcOf,               \* the process each call runs in
    ConsecutiveFailures,  \* BreakerPolicy.consecutive_failures
    WindowSize,           \* BreakerPolicy.window_size
    RatioNum, RatioDen,   \* BreakerPolicy.failure_ratio as a fraction
    CooldownSecs,         \* BreakerPolicy.cooldown_secs
    CooldownOverrides,    \* cooldown_secs arguments of record_failure, 0 = None
    MaxProbes,            \* BreakerPolicy.half_open_max_probes
    MaxAge,               \* bound: age saturates here
    MaxStarts,            \* bound: process starts after the first ones
    SilentEnds,           \* ways a call ends without a verdict, see EndSilently
    AllowOpenProbe        \* whether some calls pass allow_open_probe

ASSUME ProcAssumption ==
    /\ ProcOf \in [Call -> Proc]
    /\ IsFiniteSet(Call)

ASSUME PolicyAssumption ==
    /\ ConsecutiveFailures \in Nat \ {0}
    /\ WindowSize \in Nat \ {0}
    /\ RatioNum \in Nat /\ RatioDen \in Nat \ {0}
    /\ MaxProbes \in Nat \ {0}

ASSUME TimeAssumption ==
    /\ MaxAge \in Nat
    /\ MaxStarts \in Nat
    /\ CooldownSecs \in 1..MaxAge
    /\ CooldownOverrides \subseteq 0..MaxAge

ASSUME CallerAssumption ==
    /\ SilentEnds \subseteq {"cancelled", "unrecorded"}
    /\ AllowOpenProbe \in BOOLEAN

VARIABLES
    row,      \* the row of table breakers; state "absent" while there is none
    age,      \* seconds since row's opened_at, saturated at MaxAge
    pc,       \* where each call stands
    seen,     \* the part of the row a verdict read and its write depends on
    lease,    \* probe slot of a call: "current" while the half-open episode
              \* it was reserved in lasts, "stale" after it, "none" otherwise
    starts,   \* process starts so far
    streak,   \* history: failure verdicts written since the last success,
              \* saturated at ConsecutiveFailures
    left,     \* history: calls of the half-open episode that ended unrecorded
    lowered   \* history: a cancelled call lowered the flag of the episode

episode == <<left, lowered>>

vars == <<row, age, pc, seen, lease, starts, streak, left, lowered>>

BreakerState == {"absent", "closed", "open", "half_open"}

Row == [state    : BreakerState,
        consecutive : 0..ConsecutiveFailures,   \* consecutive_failures
        failures : 0..WindowSize,            \* window_failures
        total    : 0..WindowSize,            \* window_total
        cooldown : 0..MaxAge,                \* cooldown_secs, 0 = NULL
        inflight : {0, 1},                   \* half_open_probe_inflight
        probes   : 0..MaxProbes]             \* half_open_probes

Seen == [state : BreakerState, consecutive : 0..ConsecutiveFailures,
         failures : 0..WindowSize, total : 0..WindowSize]

\* No row yet: the columns have their declared defaults.
NoRow == [state |-> "absent", consecutive |-> 0, failures |-> 0, total |-> 0,
          cooldown |-> 0, inflight |-> 0, probes |-> 0]

ReadOf(r) == [state |-> r.state, consecutive |-> r.consecutive,
              failures |-> r.failures, total |-> r.total]

NothingSeen == ReadOf(NoRow)

Location == {"idle", "reserve_open", "reserve_half", "admitted",
             "success_write", "failure_write"}

(***************************************************************************)
(* Helpers on the row                                                      *)
(***************************************************************************)

Smaller(m, n) == IF m < n THEN m ELSE n

EffectiveCooldown(r) == IF r.cooldown # 0 THEN r.cooldown ELSE CooldownSecs

CooldownElapsed(r) == age >= EffectiveCooldown(r)

\* _roll_window halves both counters once the window is exceeded.
RolledTotal(r) ==
    IF r.total + 1 > WindowSize
    THEN IF (r.total + 1) \div 2 > 1 THEN (r.total + 1) \div 2 ELSE 1
    ELSE r.total + 1

RolledFailures(r, failed) ==
    IF r.total + 1 > WindowSize THEN (r.failures + failed) \div 2
                                ELSE r.failures + failed

NextConsecutive(r) == Smaller(r.consecutive + 1, ConsecutiveFailures)

\* should_trip of record_failure, computed from the row that was read.
ShouldTrip(r) ==
    \/ r.consecutive + 1 >= ConsecutiveFailures
    \/ /\ RolledTotal(r) >= WindowSize
       /\ RolledFailures(r, 1) * RatioDen >= RatioNum * RolledTotal(r)

(***************************************************************************)
(* The rows that each operation writes.  r is the row the UPDATE finds, s  *)
(* the one that was read before it.                                        *)
(***************************************************************************)

WithOverride(r, override) ==
    IF override = 0 THEN r ELSE [r EXCEPT !.cooldown = override]

RowAfterSuccess(r, s) ==
    IF s.state = "half_open"
    THEN [r EXCEPT !.state = "closed", !.consecutive = 0, !.failures = 0,
                   !.total = 0, !.cooldown = 0, !.inflight = 0, !.probes = 0]
    ELSE [r EXCEPT !.state = "closed", !.consecutive = 0,
                   !.failures = RolledFailures(s, 0),
                   !.total = RolledTotal(s), !.cooldown = 0]

Counted(r, s) == [r EXCEPT !.consecutive = NextConsecutive(s),
                           !.failures = RolledFailures(s, 1),
                           !.total = RolledTotal(s)]

RowAfterProbeFailure(r, override) ==
    WithOverride([r EXCEPT !.state = "open", !.inflight = 0, !.probes = 0],
                 override)

\* The first failure of a route is an upsert, which leaves half_open_probes out;
\* a failure that does not trip keeps the row's cooldown unless it inserts it.
RowAfterFailure(r, s, override) ==
    IF s.state = "half_open" THEN RowAfterProbeFailure(r, override)
    ELSE IF ShouldTrip(s)
    THEN WithOverride([Counted(r, s) EXCEPT !.state = "open",
             !.probes = IF s.state = "absent" THEN @ ELSE 0], override)
    ELSE WithOverride([Counted(r, s) EXCEPT !.state = "closed"],
             IF s.state = "absent" THEN override ELSE 0)

\* Fault: the UPDATE reserves a slot whether or not one is free.
ReserveWithoutLimit(r, from) == r.state \in from

\* Fault: an open row is never matched.
ReserveHalfOpenOnly(r, from) == r.state = "half_open" /\ r.probes < MaxProbes

\* WHERE clause of the UPDATE in _reserve_probe.
CanReserve(r, from) == r.state \in from /\ r.probes < MaxProbes

RowAfterReserve(r) ==
    [r EXCEPT !.state = "half_open", !.probes = @ + 1, !.inflight = 1]

\* Fault: a restart leaves the abandoned reservation in place.
StartupWithoutRecovery(r) == r

\* The recovery UPDATE at the end of _ensure_db.
RowAfterStartup(r) ==
    IF r.state = "half_open" /\ r.inflight = 1
    THEN [r EXCEPT !.state = "open", !.inflight = 0, !.probes = 0]
    ELSE r

\* Leases of the episode end when the row leaves HALF_OPEN.
LeasesAfter(state) ==
    [c \in Call |-> IF state # "half_open" /\ lease[c] = "current"
                    THEN "stale" ELSE lease[c]]

EpisodeOver == left' = 0 /\ lowered' = FALSE

-----------------------------------------------------------------------------

Init ==
    /\ row = NoRow
    /\ age = 0
    /\ pc = [c \in Call |-> "idle"]
    /\ seen = [c \in Call |-> NothingSeen]
    /\ lease = [c \in Call |-> "none"]
    /\ starts = 0
    /\ streak = 0
    /\ left = 0
    /\ lowered = FALSE

\* check(): CLOSED (or no row) admits at once; OPEN past its cooldown, or with
\* allow_open_probe, and HALF_OPEN go on to reserve a slot.  A denied call ends
\* without any change of state, which is a stuttering step.
Check(c) ==
    /\ pc[c] = "idle"
    /\ \/ /\ row.state \in {"absent", "closed"}
          /\ pc' = [pc EXCEPT ![c] = "admitted"]
       \/ /\ row.state = "open"
          /\ AllowOpenProbe \/ CooldownElapsed(row)
          /\ pc' = [pc EXCEPT ![c] = "reserve_open"]
       \/ /\ row.state = "half_open"
          /\ pc' = [pc EXCEPT ![c] = "reserve_half"]
    /\ UNCHANGED <<row, age, seen, lease, starts, streak, episode>>

\* _reserve_probe(): one conditional UPDATE; no matching row denies the call.
Reserve(c) ==
    /\ pc[c] \in {"reserve_open", "reserve_half"}
    /\ LET from == IF pc[c] = "reserve_open" THEN {"open", "half_open"}
                                             ELSE {"half_open"}
       IN IF CanReserve(row, from)
          THEN /\ row' = RowAfterReserve(row)
               /\ lease' = [lease EXCEPT ![c] = "current"]
               /\ pc' = [pc EXCEPT ![c] = "admitted"]
          ELSE /\ pc' = [pc EXCEPT ![c] = "idle"]
               /\ UNCHANGED <<row, lease>>
    /\ UNCHANGED <<age, seen, starts, streak, episode>>

\* The read of record_success(); without a row there is nothing to do.
ReadForSuccess(c) ==
    /\ pc[c] = "admitted"
    /\ IF row.state = "absent"
       THEN /\ pc' = [pc EXCEPT ![c] = "idle"]
            /\ lease' = [lease EXCEPT ![c] = "none"]
            /\ UNCHANGED seen
       ELSE /\ pc' = [pc EXCEPT ![c] = "success_write"]
            /\ seen' = [seen EXCEPT ![c] = ReadOf(row)]
            /\ UNCHANGED lease
    /\ UNCHANGED <<row, age, starts, streak, episode>>

\* The UPDATE of record_success().
WriteSuccess(c) ==
    /\ pc[c] = "success_write"
    /\ row' = RowAfterSuccess(row, seen[c])
    /\ lease' = [LeasesAfter(row'.state) EXCEPT ![c] = "none"]
    /\ pc' = [pc EXCEPT ![c] = "idle"]
    /\ seen' = [seen EXCEPT ![c] = NothingSeen]
    /\ streak' = 0
    /\ EpisodeOver
    /\ UNCHANGED <<age, starts>>

\* The read of record_failure().
ReadForFailure(c) ==
    /\ pc[c] = "admitted"
    /\ pc' = [pc EXCEPT ![c] = "failure_write"]
    /\ seen' = [seen EXCEPT ![c] = ReadOf(row)]
    /\ UNCHANGED <<row, age, lease, starts, streak, episode>>

\* The UPDATE (or the upsert of a first row) of record_failure(); a write of
\* OPEN also writes opened_at = now.
WriteFailure(c) ==
    /\ pc[c] = "failure_write"
    /\ \E override \in CooldownOverrides :
          row' = RowAfterFailure(row, seen[c], override)
    /\ age' = IF row'.state = "open" THEN 0 ELSE age
    /\ lease' = [LeasesAfter(row'.state) EXCEPT ![c] = "none"]
    /\ pc' = [pc EXCEPT ![c] = "idle"]
    /\ seen' = [seen EXCEPT ![c] = NothingSeen]
    /\ streak' = Smaller(streak + 1, ConsecutiveFailures)
    /\ EpisodeOver
    /\ UNCHANGED starts

\* release_probe() clears the flag and keeps half_open_probes.
Released == [row EXCEPT !.inflight = 0]

\* A call that ends without a verdict.  "cancelled": the CancelledError branch,
\* where release_probe() clears the in-flight flag of a half-open decision.
\* "unrecorded": a 413, an auth, approval or policy error, or a request-level
\* error of the embedding path, none of which touches the breaker.
EndSilently(c) ==
    /\ pc[c] = "admitted"
    /\ \/ /\ "cancelled" \in SilentEnds
          /\ row' = IF lease[c] # "none" THEN Released ELSE row
          /\ lowered' = (lowered \/ (lease[c] # "none" /\ row.state = "half_open"))
          /\ UNCHANGED left
       \/ /\ "unrecorded" \in SilentEnds
          /\ left' = IF lease[c] = "current" THEN left + 1 ELSE left
          /\ UNCHANGED <<row, lowered>>
    /\ pc' = [pc EXCEPT ![c] = "idle"]
    /\ lease' = [lease EXCEPT ![c] = "none"]
    /\ UNCHANGED <<age, seen, starts, streak>>

\* A process (re)starts: its calls are gone, _ensure_db() recovers the row.
Start(p) ==
    /\ starts < MaxStarts
    /\ starts' = starts + 1
    /\ row' = RowAfterStartup(row)
    /\ age' = IF row' # row THEN 0 ELSE age
    /\ pc' = [c \in Call |-> IF ProcOf[c] = p THEN "idle" ELSE pc[c]]
    /\ seen' = [c \in Call |-> IF ProcOf[c] = p THEN NothingSeen
                                ELSE seen[c]]
    /\ lease' = [c \in Call |-> IF ProcOf[c] = p THEN "none"
                                ELSE LeasesAfter(row'.state)[c]]
    /\ IF row'.state = "half_open" THEN UNCHANGED episode
                                   ELSE EpisodeOver
    /\ UNCHANGED streak

Tick ==
    /\ age < MaxAge
    /\ age' = age + 1
    /\ UNCHANGED <<row, pc, seen, lease, starts, streak, episode>>

Verdict(c) == \/ ReadForSuccess(c) \/ WriteSuccess(c)
              \/ ReadForFailure(c) \/ WriteFailure(c)

Next ==
    \/ \E c \in Call : Check(c) \/ Reserve(c) \/ Verdict(c) \/ EndSilently(c)
    \/ \E p \in Proc : Start(p)
    \/ Tick

Spec == Init /\ [][Next]_vars

\* Time passes, and traffic for the route continues: every worker slot keeps
\* asking and every admitted call gets its verdict, because each provider
\* attempt runs under a deadline (_await_attempt).
Fairness ==
    /\ WF_vars(Tick)
    /\ \A c \in Call : WF_vars(Check(c) \/ Reserve(c) \/ Verdict(c))

FairSpec == Spec /\ Fairness

-----------------------------------------------------------------------------
(* Properties *)

\* Type invariant: columns and program counters stay in their ranges.  For the
\* counters this includes that _roll_window keeps the window within its size.
TypeOK ==
    /\ row \in Row
    /\ age \in 0..MaxAge
    /\ pc \in [Call -> Location]
    /\ seen \in [Call -> Seen]
    /\ lease \in [Call -> {"none", "current", "stale"}]
    /\ starts \in 0..MaxStarts
    /\ streak \in 0..ConsecutiveFailures
    /\ left \in Nat
    /\ lowered \in BOOLEAN

Probing == {c \in Call : lease[c] = "current"}

\* However reads, reservations and verdicts interleave, and whichever process
\* restarts, one half-open episode admits at most half_open_max_probes calls
\* that are in flight together: the slot UPDATE of _reserve_probe is atomic,
\* and a row never enters HALF_OPEN while an earlier slot still counts.
ProbeLimit == Cardinality(Probing) <= MaxProbes

\* The comment of _reserve_probe: a row is OPEN only with no slot taken (every
\* reopen path resets the counter), so an expired breaker can be probed.
OpenHasNoProbes == row.state = "open" => row.probes = 0

\* A slot that a half-open row counts belongs to a call still in flight or to
\* one that ended unrecorded, and then the row's flag is up, by which the next
\* process start takes the slot back.  Neither holds once a cancelled call, of
\* this episode or of an earlier one, has lowered the flag: release_probe()
\* keeps half_open_probes, and no start recovers that row.
NoOrphanedSlot ==
    row.state = "half_open" /\ ~lowered =>
        /\ row.inflight = 1
        /\ row.probes <= Cardinality(Probing) + left

\* The state machine in the module's documentation: OPEN is left only to
\* HALF_OPEN and only once its cooldown has elapsed, HALF_OPEN is entered from
\* nowhere else.
DocumentedTransitions ==
    [][/\ row.state = "open" => \/ row'.state = "open"
                               \/ /\ row'.state = "half_open"
                                  /\ age >= EffectiveCooldown(row)
       /\ row'.state = "half_open" => row.state \in {"open", "half_open"}]_vars

\* While calls come one at a time, N failure verdicts with no success between
\* them never leave the breaker CLOSED ("trip after N consecutive failures",
\* BreakerPolicy), whatever cooldowns, restarts and unrecorded ends intervene.
TripsAfterThreshold ==
    streak = ConsecutiveFailures => row.state \in {"open", "half_open"}

\* An open breaker is eventually probed, while traffic continues: however
\* earlier episodes ended, also by a cancelled call, no slot of theirs stays
\* taken in an open row, and the cooldown does run out.
OpenIsProbed == row.state = "open" ~> row.state # "open"

=============================================================================
