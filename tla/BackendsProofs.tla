--------------------------- MODULE BackendsProofs ---------------------------
(***************************************************************************)
(* What the parts that look after the backends guarantee for any calls,    *)
(* processes, policies, routes and candidates: the circuit breaker, the    *)
(* probes' evidence that admits routes, the polling of media jobs, the     *)
(* embedding and rerank endpoints, and the gate of turns with tools.       *)
(*                                                                         *)
(* The parts share no state; each has its own specification.               *)
(***************************************************************************)
EXTENDS CircuitBreaker, MediaRoutes, MediaJobs, ToolGate, Qualification,
        FiniteSetTheorems, TLAPS

(***************************************************************************)
(* CircuitBreaker: its type, that a half-open episode never admits more    *)
(* probes than its limit, that an open row holds no probe slot, that no    *)
(* slot is orphaned while every call gets a verdict, and that calls which  *)
(* come one at a time see the documented state machine.                    *)
(***************************************************************************)

(***************************************************************************)
(* Type correctness.  The window counters stay in range only because the   *)
(* failures never outnumber the calls, in the row and in what was read.    *)
(***************************************************************************)

WindowOK ==
    /\ row.failures <= row.total
    /\ \A c \in Call : seen[c].failures <= seen[c].total

TypeInv == TypeOK /\ WindowOK

\* _roll_window keeps both counters in the window and in order.
LEMMA RolledWindow ==
    ASSUME NEW r, NEW bad \in {0, 1},
           r.total \in 0..WindowSize, r.failures \in 0..WindowSize,
           r.failures <= r.total
    PROVE  /\ RolledTotal(r) \in 0..WindowSize
           /\ RolledFailures(r, bad) \in 0..WindowSize
           /\ RolledFailures(r, bad) <= RolledTotal(r)
  BY PolicyAssumption DEF RolledTotal, RolledFailures, PolicyAssumption

\* An override is a cooldown and touches nothing else.
LEMMA OverrideKeeps ==
    ASSUME NEW r \in Row, NEW override \in CooldownOverrides \cup {0}
    PROVE  /\ WithOverride(r, override) \in Row
           /\ WithOverride(r, override).state = r.state
           /\ WithOverride(r, override).probes = r.probes
           /\ WithOverride(r, override).failures = r.failures
           /\ WithOverride(r, override).total = r.total
  BY TimeAssumption DEF WithOverride, Row, TimeAssumption

\* The row that record_success writes.
LEMMA SuccessRow ==
    ASSUME NEW r \in Row, NEW s \in Seen, r.failures <= r.total,
           s.failures <= s.total
    PROVE  /\ RowAfterSuccess(r, s) \in Row
           /\ RowAfterSuccess(r, s).failures <= RowAfterSuccess(r, s).total
           /\ RowAfterSuccess(r, s).state = "closed"
  <1>1. s.total \in 0..WindowSize /\ s.failures \in 0..WindowSize
    BY DEF Seen
  <1>2. /\ RolledTotal(s) \in 0..WindowSize
        /\ RolledFailures(s, 0) \in 0..WindowSize
        /\ RolledFailures(s, 0) <= RolledTotal(s)
    BY <1>1, RolledWindow
  <1>3. 0 \in 0..ConsecutiveFailures /\ 0 \in 0..WindowSize
        /\ 0 \in 0..MaxAge /\ 0 \in 0..MaxProbes
    BY PolicyAssumption, TimeAssumption DEF PolicyAssumption, TimeAssumption
  <1>4. CASE s.state = "half_open"
    <2>1. RowAfterSuccess(r, s) =
            [r EXCEPT !.state = "closed", !.consecutive = 0, !.failures = 0,
                      !.total = 0, !.cooldown = 0, !.inflight = 0, !.probes = 0]
      BY <1>4 DEF RowAfterSuccess
    <2>2. RowAfterSuccess(r, s) \in Row
      BY <1>3, <2>1 DEF Row, BreakerState
    <2>3. /\ RowAfterSuccess(r, s).state = "closed"
          /\ RowAfterSuccess(r, s).failures = 0
          /\ RowAfterSuccess(r, s).total = 0
      BY <2>1 DEF Row
    <2> QED BY <2>2, <2>3
  <1>5. CASE s.state # "half_open"
    <2> DEFINE t == RolledTotal(s)
               f == RolledFailures(s, 0)
    <2>1. RowAfterSuccess(r, s) =
            [r EXCEPT !.state = "closed", !.consecutive = 0, !.failures = f,
                      !.total = t, !.cooldown = 0]
      BY <1>5 DEF RowAfterSuccess
    <2> HIDE DEF t, f
    <2>2. t \in 0..WindowSize /\ f \in 0..WindowSize /\ f <= t
      BY <1>2 DEF t, f
    <2> QED BY <1>3, <2>1, <2>2 DEF Row, BreakerState
  <1> QED BY <1>4, <1>5

\* The row that record_failure writes is open or closed; it is open with free
\* slots unless it is the upsert of a first failure.
LEMMA FailureRow ==
    ASSUME NEW r \in Row, NEW s \in Seen, NEW override \in CooldownOverrides,
           r.failures <= r.total, s.failures <= s.total
    PROVE  LET q == RowAfterFailure(r, s, override) IN
           /\ q \in Row
           /\ q.failures <= q.total
           /\ q.state \in {"open", "closed"}
           /\ q.state = "open" => \/ q.probes = 0
                                  \/ s.state = "absent" /\ ShouldTrip(s)
  <1>1. s.total \in 0..WindowSize /\ s.failures \in 0..WindowSize
    BY DEF Seen
  <1>2. /\ RolledTotal(s) \in 0..WindowSize
        /\ RolledFailures(s, 1) \in 0..WindowSize
        /\ RolledFailures(s, 1) <= RolledTotal(s)
    BY <1>1, RolledWindow
  <1>3. NextConsecutive(s) \in 0..ConsecutiveFailures
    BY PolicyAssumption DEF NextConsecutive, Smaller, Seen, PolicyAssumption
  <1>4. 0 \in 0..MaxProbes
    BY PolicyAssumption DEF PolicyAssumption
  <1>5. CASE s.state = "half_open"
    <2> DEFINE t == [r EXCEPT !.state = "open", !.inflight = 0, !.probes = 0]
    <2>1. /\ t \in Row /\ t.state = "open" /\ t.probes = 0
          /\ t.failures = r.failures /\ t.total = r.total
      BY <1>4 DEF Row, BreakerState
    <2>2. RowAfterFailure(r, s, override) = WithOverride(t, override)
      BY <1>5 DEF RowAfterFailure, RowAfterProbeFailure
    <2> HIDE DEF t
    <2> QED BY <2>1, <2>2, OverrideKeeps
  <1>6. CASE s.state # "half_open" /\ ShouldTrip(s)
    <2> DEFINE t == [Counted(r, s) EXCEPT !.state = "open",
                        !.probes = IF s.state = "absent" THEN @ ELSE 0]
    <2>1. /\ t \in Row /\ t.state = "open"
          /\ s.state # "absent" => t.probes = 0
          /\ t.failures <= t.total
      BY <1>2, <1>3, <1>4 DEF Row, BreakerState, Counted
    <2>2. RowAfterFailure(r, s, override) = WithOverride(t, override)
      BY <1>6 DEF RowAfterFailure
    <2> HIDE DEF t
    <2> QED BY <2>1, <2>2, <1>6, OverrideKeeps
  <1>7. CASE s.state # "half_open" /\ ~ShouldTrip(s)
    <2> DEFINE t == [Counted(r, s) EXCEPT !.state = "closed"]
               o == IF s.state = "absent" THEN override ELSE 0
    <2>1. /\ t \in Row /\ t.state = "closed" /\ t.failures <= t.total
      BY <1>2, <1>3 DEF Row, BreakerState, Counted
    <2>2. RowAfterFailure(r, s, override) = WithOverride(t, o)
      BY <1>7 DEF RowAfterFailure
    <2>3. o \in CooldownOverrides \cup {0}
      OBVIOUS
    <2> HIDE DEF t, o
    <2> QED BY <2>1, <2>2, <2>3, OverrideKeeps
  <1> QED BY <1>5, <1>6, <1>7

\* The row after a startup: unchanged, or reopened with free slots.
LEMMA StartupRow ==
    ASSUME NEW r \in Row
    PROVE  /\ RowAfterStartup(r) \in Row
           /\ RowAfterStartup(r).failures = r.failures
           /\ RowAfterStartup(r).total = r.total
           /\ \/ RowAfterStartup(r) = r
              \/ RowAfterStartup(r).state = "open" /\ RowAfterStartup(r).probes = 0
  <1>1. 0 \in 0..MaxProbes
    BY PolicyAssumption DEF PolicyAssumption
  <1>2. CASE r.state = "half_open" /\ r.inflight = 1
    <2>1. RowAfterStartup(r) =
            [r EXCEPT !.state = "open", !.inflight = 0, !.probes = 0]
      BY <1>2 DEF RowAfterStartup
    <2> QED BY <1>1, <2>1 DEF Row, BreakerState
  <1>3. CASE ~(r.state = "half_open" /\ r.inflight = 1)
    BY <1>3 DEF RowAfterStartup
  <1> QED BY <1>2, <1>3

\* The row after a reservation has one slot more, within the limit.
LEMMA ReservedRow ==
    ASSUME NEW r \in Row, NEW from, CanReserve(r, from)
    PROVE  /\ RowAfterReserve(r) \in Row
           /\ RowAfterReserve(r).state = "half_open"
           /\ RowAfterReserve(r).probes = r.probes + 1
           /\ RowAfterReserve(r).failures = r.failures
           /\ RowAfterReserve(r).total = r.total
  <1>1. r.probes + 1 \in 0..MaxProbes
    BY PolicyAssumption DEF CanReserve, Row, PolicyAssumption
  <1>2. RowAfterReserve(r) =
          [r EXCEPT !.state = "half_open", !.probes = r.probes + 1, !.inflight = 1]
    BY DEF RowAfterReserve, Row
  <1> QED BY <1>1, <1>2 DEF Row, BreakerState

LEMMA TypeInit == Init => TypeInv
  <1> SUFFICES ASSUME Init PROVE TypeInv
    OBVIOUS
  <1>1. left \in Nat /\ lowered \in BOOLEAN
    BY DEF Init
  <1>2. /\ row \in Row /\ age \in 0..MaxAge
        /\ pc \in [Call -> Location] /\ seen \in [Call -> Seen]
        /\ lease \in [Call -> {"none", "current", "stale"}]
        /\ starts \in 0..MaxStarts /\ streak \in 0..ConsecutiveFailures
        /\ WindowOK
    BY PolicyAssumption, TimeAssumption
       DEF Init, WindowOK, NoRow, Row, Seen, ReadOf, NothingSeen, BreakerState,
           Location, PolicyAssumption, TimeAssumption
  <1> QED BY <1>1, <1>2 DEF TypeInv, TypeOK

\* What is read from a row, or from none, is in range.
LEMMA ReadRow ==
    /\ \A r \in Row : /\ ReadOf(r) \in Seen
                      /\ ReadOf(r).failures = r.failures
                      /\ ReadOf(r).total = r.total
                      /\ ReadOf(r).state = r.state
    /\ NothingSeen \in Seen
    /\ NothingSeen.failures <= NothingSeen.total
  BY PolicyAssumption DEF ReadOf, Row, Seen, NothingSeen, NoRow, BreakerState,
                          PolicyAssumption

LEMMA LeasesType ==
    ASSUME NEW state, lease \in [Call -> {"none", "current", "stale"}]
    PROVE  LeasesAfter(state) \in [Call -> {"none", "current", "stale"}]
  BY DEF LeasesAfter

LEMMA TypeStep == TypeInv /\ [Next]_vars => TypeInv'
  <1> SUFFICES ASSUME TypeInv, [Next]_vars PROVE TypeInv'
    OBVIOUS
  <1> USE DEF TypeInv, WindowOK, episode
  <1>t. /\ row \in Row /\ age \in 0..MaxAge
        /\ pc \in [Call -> Location] /\ seen \in [Call -> Seen]
        /\ lease \in [Call -> {"none", "current", "stale"}]
        /\ starts \in 0..MaxStarts /\ streak \in 0..ConsecutiveFailures
        /\ left \in Nat /\ lowered \in BOOLEAN
    BY DEF TypeOK
  <1>1. ASSUME NEW c \in Call, Check(c) PROVE TypeInv'
    BY <1>1, <1>t DEF Check, TypeOK, Location
  <1>2. ASSUME NEW c \in Call, Reserve(c) PROVE TypeInv'
    <2>1. row' \in Row /\ row'.failures <= row'.total
      BY <1>2, <1>t, ReservedRow DEF Reserve
    <2> QED BY <1>2, <2>1, <1>t DEF Reserve, TypeOK, Location
  <1>3. ASSUME NEW c \in Call, ReadForSuccess(c) PROVE TypeInv'
    BY <1>3, <1>t, ReadRow DEF ReadForSuccess, TypeOK, Location
  <1>4. ASSUME NEW c \in Call, WriteSuccess(c) PROVE TypeInv'
    <2>1. row' \in Row /\ row'.failures <= row'.total
      BY <1>4, <1>t, SuccessRow DEF WriteSuccess
    <2>2. lease' \in [Call -> {"none", "current", "stale"}]
      BY <1>4, <1>t, LeasesType DEF WriteSuccess
    <2>3. /\ seen' \in [Call -> Seen]
          /\ \A d \in Call : seen'[d].failures <= seen'[d].total
      BY <1>4, <1>t, ReadRow DEF WriteSuccess
    <2>4. streak' \in 0..ConsecutiveFailures
      BY <1>4, PolicyAssumption DEF WriteSuccess, PolicyAssumption
    <2> QED BY <1>4, <2>1, <2>2, <2>3, <2>4, <1>t
            DEF WriteSuccess, TypeOK, Location, EpisodeOver
  <1>5. ASSUME NEW c \in Call, ReadForFailure(c) PROVE TypeInv'
    BY <1>5, <1>t, ReadRow DEF ReadForFailure, TypeOK, Location
  <1>6. ASSUME NEW c \in Call, WriteFailure(c) PROVE TypeInv'
    <2>1. row' \in Row /\ row'.failures <= row'.total
      <3>1. PICK o \in CooldownOverrides : row' = RowAfterFailure(row, seen[c], o)
        BY <1>6 DEF WriteFailure
      <3> QED BY <3>1, <1>t, FailureRow
    <2>2. lease' \in [Call -> {"none", "current", "stale"}]
      BY <1>6, <1>t, LeasesType DEF WriteFailure
    <2>3. /\ seen' \in [Call -> Seen]
          /\ \A d \in Call : seen'[d].failures <= seen'[d].total
      BY <1>6, <1>t, ReadRow DEF WriteFailure
    <2>4. age' \in 0..MaxAge
      BY <1>6, <1>t, TimeAssumption DEF WriteFailure, TimeAssumption
    <2>5. streak' \in 0..ConsecutiveFailures
      BY <1>6, <1>t, PolicyAssumption
         DEF WriteFailure, Smaller, PolicyAssumption
    <2> QED BY <1>6, <2>1, <2>2, <2>3, <2>4, <2>5, <1>t
            DEF WriteFailure, TypeOK, Location, EpisodeOver
  <1>7. ASSUME NEW c \in Call, EndSilently(c) PROVE TypeInv'
    <2>1. row' \in Row /\ row'.failures = row.failures /\ row'.total = row.total
      BY <1>7, <1>t DEF EndSilently, Released, Row
    <2>2. left' \in Nat
      BY <1>7, <1>t DEF EndSilently, Released
    <2>3. lowered' \in BOOLEAN
      BY <1>7, <1>t, Zenon DEF EndSilently, Released
    <2> QED BY <1>7, <2>1, <2>2, <2>3, <1>t DEF EndSilently, Released, TypeOK, Location
  <1>8. ASSUME NEW p \in Proc, Start(p) PROVE TypeInv'
    <2>1. row' \in Row /\ row'.failures <= row'.total
      BY <1>8, <1>t, StartupRow DEF Start
    <2>2. lease' \in [Call -> {"none", "current", "stale"}]
      BY <1>8, <1>t, LeasesType DEF Start
    <2>3. /\ seen' \in [Call -> Seen]
          /\ \A d \in Call : seen'[d].failures <= seen'[d].total
      BY <1>8, <1>t, ReadRow DEF Start
    <2>4. /\ age' \in 0..MaxAge /\ starts' \in 0..MaxStarts
          /\ pc' \in [Call -> Location]
      BY <1>8, <1>t, TimeAssumption DEF Start, Location, TimeAssumption
    <2>5. left' \in Nat /\ lowered' \in BOOLEAN
      <3>1. UNCHANGED episode \/ EpisodeOver
        BY <1>8, Zenon DEF Start
      <3>2. CASE UNCHANGED episode
        BY <3>2, <1>t
      <3>3. CASE EpisodeOver
        BY <3>3 DEF EpisodeOver
      <3> QED BY <3>1, <3>2, <3>3
    <2>6. streak' \in 0..ConsecutiveFailures
      BY <1>8, <1>t DEF Start
    <2> QED BY <2>1, <2>2, <2>3, <2>4, <2>5, <2>6 DEF TypeOK
  <1>9. CASE Tick
    BY <1>9, <1>t, TimeAssumption DEF Tick, TypeOK, TimeAssumption
  <1>10. CASE UNCHANGED vars
    BY <1>10 DEF vars, TypeOK
  <1> QED
    BY <1>1, <1>2, <1>3, <1>4, <1>5, <1>6, <1>7, <1>8, <1>9, <1>10
       DEF Next, Verdict

\* Every column and program counter stays in its range, for every policy.
THEOREM TypeCorrect == Spec => []TypeOK
  <1>1. TypeInv => TypeOK
    BY DEF TypeInv
  <1> QED BY TypeInit, TypeStep, <1>1, PTL DEF Spec

(***************************************************************************)
(* The probe limit.  Slots are only added by _reserve_probe, together with *)
(* the counter; every write that leaves HALF_OPEN ends all leases of the   *)
(* episode.  Hence the counter bounds the calls that probe.                *)
(***************************************************************************)

SlotInv ==
    /\ row.state = "half_open" => Cardinality(Probing) <= row.probes
    /\ row.state # "half_open" => Probing = {}

LEMMA ProbingFinite ==
    /\ IsFiniteSet(Probing) /\ Cardinality(Probing) \in Nat
    /\ IsFiniteSet(Probing') /\ Cardinality(Probing') \in Nat
  <1>1. \A S \in SUBSET Call : IsFiniteSet(S) /\ Cardinality(S) \in Nat
    BY ProcAssumption, FS_Subset, FS_CardinalityType DEF ProcAssumption
  <1>2. Probing \in SUBSET Call /\ Probing' \in SUBSET Call
    BY DEF Probing
  <1> QED BY <1>1, <1>2

\* Ending leases cannot add a probing call.
LEMMA FewerProbing ==
    ASSUME Probing' \subseteq Probing
    PROVE  Cardinality(Probing') <= Cardinality(Probing)
  BY ProbingFinite, FS_Subset

\* A lease adds at most one.
LEMMA OneMoreProbing ==
    ASSUME NEW c, Probing' = Probing \cup {c}
    PROVE  Cardinality(Probing') <= Cardinality(Probing) + 1
  <1>1. Cardinality(Probing \cup {c}) =
          IF c \in Probing THEN Cardinality(Probing) ELSE Cardinality(Probing) + 1
    BY ProbingFinite, FS_AddElement
  <1> QED BY <1>1, ProbingFinite

LEMMA SlotStep == TypeInv /\ TypeInv' /\ SlotInv /\ [Next]_vars => SlotInv'
  <1> SUFFICES ASSUME TypeInv, TypeInv', SlotInv, [Next]_vars PROVE SlotInv'
    OBVIOUS
  <1>t. /\ row \in Row /\ row' \in Row
        /\ lease \in [Call -> {"none", "current", "stale"}]
        /\ seen \in [Call -> Seen]
        /\ row.failures <= row.total
        /\ \A c \in Call : seen[c].failures <= seen[c].total
    BY DEF TypeInv, TypeOK, WindowOK
  <1>0. row.probes \in Nat
    BY <1>t DEF Row
  <1>u. ASSUME row'.state = row.state, row'.probes = row.probes,
               Probing' \subseteq Probing
        PROVE  SlotInv'
    <2>1. Cardinality(Probing') <= Cardinality(Probing)
      BY <1>u, FewerProbing
    <2>2. row.state # "half_open" => Probing' = {}
      BY <1>u DEF SlotInv
    <2> QED BY <1>u, <1>0, <2>1, <2>2, ProbingFinite DEF SlotInv
  <1>v. ASSUME row'.state # "half_open", Probing' = {} PROVE SlotInv'
    BY <1>v DEF SlotInv
  <1>1. ASSUME NEW c \in Call, Check(c) PROVE SlotInv'
    BY <1>1, <1>u DEF Check, Probing
  <1>2. ASSUME NEW c \in Call, Reserve(c) PROVE SlotInv'
    <2>1. CASE UNCHANGED <<row, lease>>
      BY <2>1, <1>u DEF Probing
    <2>2. CASE lease' = [lease EXCEPT ![c] = "current"]
               /\ row' = RowAfterReserve(row)
               /\ \E from : CanReserve(row, from)
      <3>2. row'.state = "half_open" /\ row'.probes = row.probes + 1
        BY <2>2, <1>t, ReservedRow
      <3>3. Probing' = Probing \cup {c}
        BY <2>2, <1>t DEF Probing
      <3>4. Cardinality(Probing') <= Cardinality(Probing) + 1
        BY <3>3, OneMoreProbing
      <3>5. Cardinality(Probing) <= row.probes
        BY <1>0, FS_EmptySet DEF SlotInv
      <3>6. Cardinality(Probing') <= row'.probes
        <4> DEFINE m == Cardinality(Probing)
                   n == Cardinality(Probing')
        <4>1. m \in Nat /\ n \in Nat
          BY ProbingFinite
        <4>2. n <= m + 1 /\ m <= row.probes
          BY <3>4, <3>5
        <4> HIDE DEF m, n
        <4>3. n <= row.probes + 1
          BY <4>1, <4>2, <1>0
        <4> QED BY <4>3, <3>2 DEF n
      <3> QED BY <3>2, <3>6 DEF SlotInv
    <2> QED BY <1>2, <2>1, <2>2 DEF Reserve
  <1>3. ASSUME NEW c \in Call, ReadForSuccess(c) PROVE SlotInv'
    BY <1>3, <1>t, <1>u DEF ReadForSuccess, Probing
  <1>4. ASSUME NEW c \in Call, WriteSuccess(c) PROVE SlotInv'
    <2>1. row'.state = "closed"
      BY <1>4, <1>t, SuccessRow DEF WriteSuccess
    <2>2. Probing' = {}
      BY <1>4, <2>1, <1>t DEF WriteSuccess, LeasesAfter, Probing
    <2> QED BY <2>1, <2>2, <1>v
  <1>5. ASSUME NEW c \in Call, ReadForFailure(c) PROVE SlotInv'
    BY <1>5, <1>u DEF ReadForFailure, Probing
  <1>6. ASSUME NEW c \in Call, WriteFailure(c) PROVE SlotInv'
    <2>1. row'.state # "half_open"
      <3>1. PICK o \in CooldownOverrides : row' = RowAfterFailure(row, seen[c], o)
        BY <1>6 DEF WriteFailure
      <3> QED BY <3>1, <1>t, FailureRow
    <2>2. Probing' = {}
      BY <1>6, <2>1, <1>t DEF WriteFailure, LeasesAfter, Probing
    <2> QED BY <2>1, <2>2, <1>v
  <1>7. ASSUME NEW c \in Call, EndSilently(c) PROVE SlotInv'
    <2>1. row'.state = row.state /\ row'.probes = row.probes
      BY <1>7, <1>t DEF EndSilently, Released, Row
    <2>2. Probing' \subseteq Probing
      BY <1>7, <1>t DEF EndSilently, Released, Probing
    <2> QED BY <2>1, <2>2, <1>u
  <1>8. ASSUME NEW p \in Proc, Start(p) PROVE SlotInv'
    <2>1. Probing' \subseteq Probing
      BY <1>8, <1>t DEF Start, LeasesAfter, Probing
    <2>2. CASE row' = row
      BY <2>1, <2>2, <1>u
    <2>3. CASE row'.state = "open"
      <3>1. Probing' = {}
        BY <1>8, <2>3, <1>t DEF Start, LeasesAfter, Probing
      <3> QED BY <3>1, <2>3, <1>v
    <2> QED BY <1>8, <2>2, <2>3, <1>t, StartupRow DEF Start
  <1>9. CASE Tick
    BY <1>9, <1>u DEF Tick, Probing
  <1>10. CASE UNCHANGED vars
    BY <1>10, <1>u DEF vars, Probing
  <1> QED
    BY <1>1, <1>2, <1>3, <1>4, <1>5, <1>6, <1>7, <1>8, <1>9, <1>10
       DEF Next, Verdict

\* One half-open episode never has more than half_open_max_probes calls in
\* flight, for any number of calls and processes and any policy.
THEOREM ProbeLimitHolds == Spec => []ProbeLimit
  <1>1. Init => SlotInv
    BY DEF Init, SlotInv, NoRow, Probing
  <1>2. TypeInv /\ SlotInv => ProbeLimit
    <2> SUFFICES ASSUME TypeInv, SlotInv PROVE ProbeLimit
      OBVIOUS
    <2>1. row.probes \in 0..MaxProbes /\ MaxProbes \in Nat
      BY PolicyAssumption DEF TypeInv, TypeOK, Row, PolicyAssumption
    <2> QED BY <2>1, ProbingFinite, FS_EmptySet DEF SlotInv, ProbeLimit
  <1> QED BY TypeInit, TypeStep, SlotStep, <1>1, <1>2, PTL DEF Spec

(***************************************************************************)
(* An open row has its slots free: every path that opens it resets the     *)
(* counter, except the upsert of a first failure, which opens the row only *)
(* under a policy that trips at one failure.                               *)
(***************************************************************************)

TripsLater == ConsecutiveFailures > 1 /\ WindowSize > 1

\* What was read of an absent row is that nothing was counted.
AbsentIsEmpty ==
    /\ row.state = "absent" => row.consecutive = 0 /\ row.total = 0
    /\ \A c \in Call : seen[c].state = "absent" =>
                         seen[c].consecutive = 0 /\ seen[c].total = 0

FreeInv == OpenHasNoProbes /\ AbsentIsEmpty

LEMMA FirstFailureKeepsClosed ==
    ASSUME TripsLater, NEW s \in Seen, s.consecutive = 0, s.total = 0
    PROVE  ~ShouldTrip(s)
  BY PolicyAssumption
     DEF TripsLater, ShouldTrip, RolledTotal, PolicyAssumption

LEMMA FreeStep ==
    TripsLater /\ TypeInv /\ FreeInv /\ [Next]_vars => FreeInv'
  <1> SUFFICES ASSUME TripsLater, TypeInv, FreeInv, [Next]_vars PROVE FreeInv'
    OBVIOUS
  <1> USE DEF FreeInv, OpenHasNoProbes, AbsentIsEmpty
  <1>t. /\ row \in Row /\ seen \in [Call -> Seen]
        /\ row.failures <= row.total
        /\ \A c \in Call : seen[c].failures <= seen[c].total
    BY DEF TypeInv, TypeOK, WindowOK
  <1>n. NothingSeen.consecutive = 0 /\ NothingSeen.total = 0
    BY DEF NothingSeen, ReadOf, NoRow
  <1>1. ASSUME NEW c \in Call, Check(c) PROVE FreeInv'
    BY <1>1 DEF Check
  <1>2. ASSUME NEW c \in Call, Reserve(c) PROVE FreeInv'
    <2>1. row' = row \/ row'.state = "half_open"
      BY <1>2, <1>t, ReservedRow DEF Reserve
    <2> QED BY <1>2, <2>1 DEF Reserve
  <1>3. ASSUME NEW c \in Call, ReadForSuccess(c) PROVE FreeInv'
    BY <1>3, <1>t DEF ReadForSuccess, ReadOf
  <1>4. ASSUME NEW c \in Call, WriteSuccess(c) PROVE FreeInv'
    <2>1. row'.state = "closed"
      BY <1>4, <1>t, SuccessRow DEF WriteSuccess
    <2> QED BY <1>4, <2>1, <1>t, <1>n DEF WriteSuccess
  <1>5. ASSUME NEW c \in Call, ReadForFailure(c) PROVE FreeInv'
    BY <1>5, <1>t DEF ReadForFailure, ReadOf
  <1>6. ASSUME NEW c \in Call, WriteFailure(c) PROVE FreeInv'
    <2>1. PICK o \in CooldownOverrides : row' = RowAfterFailure(row, seen[c], o)
      BY <1>6 DEF WriteFailure
    <2>2. ~(seen[c].state = "absent" /\ ShouldTrip(seen[c]))
      BY <1>t, FirstFailureKeepsClosed
    <2>3. /\ row'.state \in {"open", "closed"}
          /\ row'.state = "open" => row'.probes = 0
      BY <2>1, <2>2, <1>t, FailureRow
    <2> QED BY <1>6, <2>3, <1>t, <1>n DEF WriteFailure
  <1>7. ASSUME NEW c \in Call, EndSilently(c) PROVE FreeInv'
    BY <1>7, <1>t DEF EndSilently, Released, Row
  <1>8. ASSUME NEW p \in Proc, Start(p) PROVE FreeInv'
    <2>1. row' = row \/ (row'.state = "open" /\ row'.probes = 0)
      BY <1>8, <1>t, StartupRow DEF Start
    <2> QED BY <1>8, <2>1, <1>n, <1>t DEF Start
  <1>9. CASE Tick
    BY <1>9 DEF Tick
  <1>10. CASE UNCHANGED vars
    BY <1>10 DEF vars
  <1> QED
    BY <1>1, <1>2, <1>3, <1>4, <1>5, <1>6, <1>7, <1>8, <1>9, <1>10
       DEF Next, Verdict

\* Under a policy that does not trip at its very first failure, an open row
\* never holds a probe slot, so its cooldown is all that delays the next probe.
THEOREM OpenRowIsFree == ASSUME TripsLater PROVE Spec => []OpenHasNoProbes
  <1>1. Init => FreeInv
    BY DEF Init, FreeInv, OpenHasNoProbes, AbsentIsEmpty, NoRow, NothingSeen,
           ReadOf
  <1>2. TypeInv /\ FreeInv /\ [Next]_vars => FreeInv'
    BY FreeStep
  <1>3. FreeInv => OpenHasNoProbes
    BY DEF FreeInv
  <1> QED BY TypeInit, TypeStep, <1>1, <1>2, <1>3, PTL DEF Spec

(***************************************************************************)
(* No slot is orphaned.  While the row is half-open a lease is lost by an  *)
(* unrecorded end, which left counts: a verdict takes the row out of       *)
(* HALF_OPEN, and so does the recovery at a start, as long as no cancelled *)
(* call lowered the flag.                                                  *)
(***************************************************************************)

\* Who has not been admitted has no slot.
NoEarlyLease ==
    \A c \in Call : pc[c] \in {"idle", "reserve_open", "reserve_half"} =>
                        lease[c] = "none"

\* An episode starts with nobody gone and its flag not lowered.
FreshEpisode == row.state # "half_open" => left = 0 /\ ~lowered

OrphanInv == NoEarlyLease /\ FreshEpisode /\ NoOrphanedSlot

\* The same slots and the same calls that probe, or no episode.
LEMMA NoOrphanKept ==
    ASSUME NoOrphanedSlot, FreshEpisode,
           \/ row'.state # "half_open" /\ EpisodeOver
           \/ row' = row /\ Probing' = Probing /\ UNCHANGED episode
    PROVE  NoOrphanedSlot' /\ FreshEpisode'
  BY DEF NoOrphanedSlot, FreshEpisode, EpisodeOver, episode

LEMMA OrphanStep ==
    TypeInv /\ TypeInv' /\ FreeInv /\ SlotInv /\ OrphanInv /\ [Next]_vars
        => OrphanInv'
  <1> SUFFICES ASSUME TypeInv, TypeInv', FreeInv, SlotInv, OrphanInv,
                      [Next]_vars
               PROVE  NoEarlyLease' /\ FreshEpisode' /\ NoOrphanedSlot'
    BY DEF OrphanInv
  <1>t. /\ row \in Row /\ row' \in Row
        /\ pc \in [Call -> Location] /\ seen \in [Call -> Seen]
        /\ lease \in [Call -> {"none", "current", "stale"}]
        /\ left \in Nat /\ lowered \in BOOLEAN
        /\ row.failures <= row.total
        /\ \A c \in Call : seen[c].failures <= seen[c].total
    BY DEF TypeInv, TypeOK, WindowOK
  <1>o. NoEarlyLease /\ FreshEpisode /\ NoOrphanedSlot
    BY DEF OrphanInv
  <1>1. ASSUME NEW c \in Call, Check(c)
        PROVE  NoEarlyLease' /\ FreshEpisode' /\ NoOrphanedSlot'
    <2>1. NoEarlyLease'
      BY <1>1, <1>t, <1>o DEF Check, NoEarlyLease
    <2>2. row' = row /\ Probing' = Probing /\ UNCHANGED episode
      BY <1>1 DEF Check, Probing
    <2> QED BY <2>1, <2>2, <1>o, NoOrphanKept
  <1>2. ASSUME NEW c \in Call, Reserve(c)
        PROVE  NoEarlyLease' /\ FreshEpisode' /\ NoOrphanedSlot'
    <2>0. lease[c] = "none"
      BY <1>2, <1>o DEF Reserve, NoEarlyLease
    <2>1. CASE UNCHANGED <<row, lease>>
      <3>1. NoEarlyLease'
        BY <1>2, <2>0, <2>1, <1>t, <1>o DEF Reserve, NoEarlyLease
      <3>2. row' = row /\ Probing' = Probing /\ UNCHANGED episode
        BY <1>2, <2>1 DEF Reserve, Probing
      <3> QED BY <3>1, <3>2, <1>o, NoOrphanKept
    <2>2. CASE /\ lease' = [lease EXCEPT ![c] = "current"]
               /\ pc' = [pc EXCEPT ![c] = "admitted"]
               /\ row' = RowAfterReserve(row)
               /\ row.state \in {"open", "half_open"}
      <3>1. NoEarlyLease'
        BY <2>2, <1>t, <1>o DEF NoEarlyLease
      <3>2. row'.inflight = 1 /\ row'.probes = row.probes + 1
        BY <2>2, <1>t DEF RowAfterReserve, Row
      <3>3. Probing' = Probing \cup {c} /\ c \notin Probing
        BY <2>0, <2>2, <1>t DEF Probing
      <3>4. Cardinality(Probing \cup {c}) = Cardinality(Probing) + 1
        BY <3>3, ProbingFinite, FS_AddElement
      <3>5. ~lowered => row.probes <= Cardinality(Probing) + left
        <4>1. CASE row.state = "half_open"
          BY <4>1, <1>o DEF NoOrphanedSlot
        <4>2. CASE row.state = "open"
          BY <4>2, <1>t, ProbingFinite DEF FreeInv, OpenHasNoProbes
        <4> QED BY <2>2, <4>1, <4>2
      <3>6. left' = left /\ lowered' = lowered
        BY <1>2 DEF Reserve, episode
      <3>7. ~lowered => row'.probes <= Cardinality(Probing') + left
        <4>1. Cardinality(Probing') = Cardinality(Probing) + 1
          BY <3>3, <3>4
        <4>2. row.probes \in Nat
          BY <1>t DEF Row
        <4> QED BY <4>1, <4>2, <3>2, <3>5, <1>t, ProbingFinite
      <3>8. row'.state = "half_open"
        BY <2>2, <1>t DEF RowAfterReserve, Row
      <3>9. NoOrphanedSlot'
        BY <3>2, <3>6, <3>7 DEF NoOrphanedSlot
      <3> QED BY <3>1, <3>8, <3>9 DEF FreshEpisode
    <2> QED BY <1>2, <2>1, <2>2 DEF Reserve, CanReserve
  <1>3. ASSUME NEW c \in Call, ReadForSuccess(c)
        PROVE  NoEarlyLease' /\ FreshEpisode' /\ NoOrphanedSlot'
    <2>1. NoEarlyLease'
      BY <1>3, <1>t, <1>o DEF ReadForSuccess, NoEarlyLease
    <2>2. row' = row /\ UNCHANGED episode
      BY <1>3 DEF ReadForSuccess
    <2>3. row.state # "half_open" \/ Probing' = Probing
      BY <1>3 DEF ReadForSuccess, Probing
    <2>4. CASE row.state # "half_open"
      BY <2>1, <2>2, <2>4, <1>o DEF FreshEpisode, NoOrphanedSlot, episode
    <2> QED BY <2>1, <2>2, <2>3, <2>4, <1>o, NoOrphanKept
  <1>4. ASSUME NEW c \in Call, WriteSuccess(c)
        PROVE  NoEarlyLease' /\ FreshEpisode' /\ NoOrphanedSlot'
    <2>1. row'.state # "half_open" /\ EpisodeOver
      BY <1>4, <1>t, SuccessRow DEF WriteSuccess
    <2>2. NoEarlyLease'
      BY <1>4, <1>t, <1>o DEF WriteSuccess, NoEarlyLease, LeasesAfter
    <2> QED BY <2>1, <2>2, <1>o, NoOrphanKept
  <1>5. ASSUME NEW c \in Call, ReadForFailure(c)
        PROVE  NoEarlyLease' /\ FreshEpisode' /\ NoOrphanedSlot'
    <2>1. NoEarlyLease'
      BY <1>5, <1>t, <1>o DEF ReadForFailure, NoEarlyLease
    <2>2. row' = row /\ Probing' = Probing /\ UNCHANGED episode
      BY <1>5 DEF ReadForFailure, Probing
    <2> QED BY <2>1, <2>2, <1>o, NoOrphanKept
  <1>6. ASSUME NEW c \in Call, WriteFailure(c)
        PROVE  NoEarlyLease' /\ FreshEpisode' /\ NoOrphanedSlot'
    <2>1. row'.state # "half_open" /\ EpisodeOver
      <3>1. PICK o \in CooldownOverrides : row' = RowAfterFailure(row, seen[c], o)
        BY <1>6 DEF WriteFailure
      <3> QED BY <3>1, <1>6, <1>t, FailureRow DEF WriteFailure
    <2>2. NoEarlyLease'
      BY <1>6, <1>t, <1>o DEF WriteFailure, NoEarlyLease, LeasesAfter
    <2> QED BY <2>1, <2>2, <1>o, NoOrphanKept
  <1>7. ASSUME NEW c \in Call, EndSilently(c)
        PROVE  NoEarlyLease' /\ FreshEpisode' /\ NoOrphanedSlot'
    <2>1. NoEarlyLease'
      BY <1>7, <1>t, <1>o DEF EndSilently, Released, NoEarlyLease
    <2>2. row'.state = row.state /\ row'.probes = row.probes
      BY <1>7, <1>t DEF EndSilently, Released, Row
    <2>3. CASE lease[c] = "none"
      <3>1. row' = row /\ Probing' = Probing /\ UNCHANGED episode
        BY <1>7, <2>3, <1>t DEF EndSilently, Released, Probing, episode
      <3> QED BY <2>1, <3>1, <1>o, NoOrphanKept
    <2>4. CASE /\ lease[c] # "none" /\ UNCHANGED left
               /\ lowered' = (lowered \/ row.state = "half_open")
      <3>1. CASE row.state = "half_open"
        BY <2>1, <2>2, <2>4, <3>1 DEF FreshEpisode, NoOrphanedSlot
      <3>2. CASE row.state # "half_open"
        BY <2>1, <2>2, <2>4, <3>2, <1>o, <1>t DEF FreshEpisode, NoOrphanedSlot
      <3> QED BY <3>1, <3>2
    <2>5. CASE lease[c] = "stale" /\ UNCHANGED <<row, lowered, left>>
      <3>1. Probing' = Probing /\ UNCHANGED episode
        BY <1>7, <2>5, <1>t DEF EndSilently, Released, Probing, episode
      <3> QED BY <2>1, <2>5, <3>1, <1>o, NoOrphanKept
    <2>6. CASE lease[c] = "current" /\ left' = left + 1 /\ UNCHANGED <<row, lowered>>
      <3>1. c \in Probing /\ row.state = "half_open"
        BY <2>6 DEF Probing, SlotInv
      <3>2. Probing' = Probing \ {c}
        BY <1>7, <1>t DEF EndSilently, Released, Probing
      <3>3. Cardinality(Probing') = Cardinality(Probing) - 1
        BY <3>1, <3>2, ProbingFinite, FS_RemoveElement
      <3>4. Cardinality(Probing') + left' = Cardinality(Probing) + left
        BY <2>6, <3>3, <1>t, ProbingFinite
      <3>5. NoOrphanedSlot'
        BY <2>6, <3>4, <1>o DEF NoOrphanedSlot
      <3> QED BY <2>1, <2>6, <3>1, <3>5 DEF FreshEpisode
    <2> QED BY <1>7, <1>t, <2>3, <2>4, <2>5, <2>6 DEF EndSilently, Released
  <1>8. ASSUME NEW p \in Proc, Start(p)
        PROVE  NoEarlyLease' /\ FreshEpisode' /\ NoOrphanedSlot'
    <2>1. row' = RowAfterStartup(row)
      BY <1>8 DEF Start
    <2>2. NoEarlyLease'
      BY <1>8, <1>t, <1>o DEF Start, NoEarlyLease, LeasesAfter
    <2>3. CASE row'.state # "half_open"
      <3>1. EpisodeOver
        BY <1>8, <2>3 DEF Start
      <3> QED BY <2>2, <2>3, <3>1, <1>o, NoOrphanKept
    <2>4. CASE row'.state = "half_open"
      <3>1. row' = row /\ UNCHANGED episode
        BY <1>8, <2>1, <2>4, <1>t, StartupRow DEF Start
      <3>2. row.inflight # 1
        BY <2>1, <2>4, <1>t DEF RowAfterStartup, Row
      <3>3. lowered
        BY <2>4, <3>1, <3>2, <1>o DEF NoOrphanedSlot
      <3> QED BY <2>2, <2>4, <3>1, <3>3 DEF FreshEpisode, NoOrphanedSlot, episode
    <2> QED BY <2>3, <2>4
  <1>9. CASE Tick
    <2>1. NoEarlyLease' /\ row' = row /\ Probing' = Probing /\ UNCHANGED episode
      BY <1>9, <1>o DEF Tick, NoEarlyLease, Probing
    <2> QED BY <2>1, <1>o, NoOrphanKept
  <1>10. CASE UNCHANGED vars
    <2>1. NoEarlyLease' /\ row' = row /\ Probing' = Probing /\ UNCHANGED episode
      BY <1>10, <1>o DEF vars, NoEarlyLease, Probing, episode
    <2> QED BY <2>1, <1>o, NoOrphanKept
  <1> QED
    BY <1>1, <1>2, <1>3, <1>4, <1>5, <1>6, <1>7, <1>8, <1>9, <1>10
       DEF Next, Verdict

\* Under a policy that does not trip at its very first failure, through any
\* verdicts that overlap, ends without a verdict and restarts: each slot a
\* half-open row counts belongs to a call in flight or to one that ended
\* unrecorded, and the next start will find the flag up, unless a cancelled
\* call has lowered it.
THEOREM NoSlotIsOrphaned ==
    ASSUME TripsLater
    PROVE  Spec => []NoOrphanedSlot
  <1>1. Init => FreeInv /\ SlotInv /\ OrphanInv
    <2> SUFFICES ASSUME Init PROVE FreeInv /\ SlotInv /\ OrphanInv
      OBVIOUS
    <2>1. row = NoRow /\ row.state = "absent"
      BY DEF Init, NoRow
    <2>2. /\ \A c \in Call : lease[c] = "none" /\ seen[c] = NothingSeen
          /\ left = 0 /\ lowered = FALSE
      BY DEF Init
    <2>3. SlotInv
      BY <2>1, <2>2 DEF SlotInv, Probing
    <2>4. FreeInv
      BY <2>1, <2>2 DEF FreeInv, OpenHasNoProbes, AbsentIsEmpty, NoRow,
                        NothingSeen, ReadOf
    <2> QED BY <2>1, <2>2, <2>3, <2>4
            DEF OrphanInv, NoEarlyLease, FreshEpisode, NoOrphanedSlot
  <1>2. TypeInv /\ FreeInv /\ [Next]_vars => FreeInv'
    BY FreeStep
  <1>3. TypeInv /\ TypeInv' /\ FreeInv /\ SlotInv /\ OrphanInv /\ [Next]_vars
            => OrphanInv'
    BY OrphanStep
  <1>4. OrphanInv => NoOrphanedSlot
    BY DEF OrphanInv
  <1> QED BY TypeInit, TypeStep, SlotStep, <1>1, <1>2, <1>3, <1>4, PTL DEF Spec

(***************************************************************************)
(* The documented state machine.  While calls of one process come one at a *)
(* time, a write finds the row that its call read, and nobody is admitted  *)
(* or given a verdict while the row is open.                               *)
(***************************************************************************)

Recording == {"success_write", "failure_write"}

\* What call c, the only one, knows of the row.
InStep(c) ==
    /\ pc[c] \in Recording \cup {"admitted"} => row.state # "open"
    /\ pc[c] \in Recording => seen[c] = ReadOf(row)
    /\ pc[c] = "reserve_open" => AllowOpenProbe \/ CooldownElapsed(row)

\* A closed row has counted the failures since the last success, too few.
StreakCounted ==
    row.state \in {"absent", "closed"} =>
        streak <= row.consecutive /\ row.consecutive < ConsecutiveFailures

\* A first call that fails, or one more, on a row that its call has read.
LEMMA SerialFailure ==
    ASSUME NEW r \in Row, NEW override \in CooldownOverrides,
           RowAfterFailure(r, ReadOf(r), override).state = "closed"
    PROVE  /\ r.state # "half_open"
           /\ RowAfterFailure(r, ReadOf(r), override).consecutive
                  = r.consecutive + 1
           /\ r.consecutive + 1 < ConsecutiveFailures
  <1> DEFINE s == ReadOf(r)
             o == IF s.state = "absent" THEN override ELSE 0
             t == [Counted(r, s) EXCEPT !.state = "closed"]
  <1>s. s.state = r.state /\ s.consecutive = r.consecutive
    BY DEF ReadOf
  <1>1. r.state # "half_open" /\ ~ShouldTrip(s)
    <2> DEFINE a == [r EXCEPT !.state = "open", !.inflight = 0, !.probes = 0]
               b == [Counted(r, s) EXCEPT !.state = "open",
                        !.probes = IF s.state = "absent" THEN @ ELSE 0]
    <2>1. a.state = "open" /\ b.state = "open"
      BY DEF Row, Counted
    <2>2. WithOverride(a, override).state = "open"
          /\ WithOverride(b, override).state = "open"
      BY <2>1 DEF WithOverride, Row, Counted
    <2> HIDE DEF a, b
    <2>3. CASE s.state = "half_open"
      <3>1. RowAfterFailure(r, s, override) = WithOverride(a, override)
        BY <2>3 DEF RowAfterFailure, RowAfterProbeFailure, a
      <3> QED BY <2>2, <3>1
    <2>4. CASE s.state # "half_open" /\ ShouldTrip(s)
      <3>1. RowAfterFailure(r, s, override) = WithOverride(b, override)
        BY <2>4 DEF RowAfterFailure, b
      <3> QED BY <2>2, <3>1
    <2> QED BY <2>3, <2>4, <1>s
  <1>2. RowAfterFailure(r, s, override) = WithOverride(t, o)
    BY <1>1, <1>s DEF RowAfterFailure
  <1>3. WithOverride(t, o).consecutive = NextConsecutive(s)
    BY DEF WithOverride, Counted, Row
  <1>4. r.consecutive + 1 < ConsecutiveFailures
    BY <1>1, <1>s, PolicyAssumption DEF ShouldTrip, Row, PolicyAssumption
  <1>5. NextConsecutive(s) = r.consecutive + 1
    BY <1>4, <1>s, PolicyAssumption DEF NextConsecutive, Smaller, Row, PolicyAssumption
  <1> QED BY <1>1, <1>2, <1>3, <1>4, <1>5

LEMMA SerialStep ==
    ASSUME NEW c, Call = {c}, Proc = {ProcOf[c]}
    PROVE  TypeInv /\ InStep(c) /\ StreakCounted /\ [Next]_vars
              => InStep(c)' /\ StreakCounted'
  <1> SUFFICES ASSUME TypeInv, InStep(c), StreakCounted, [Next]_vars
               PROVE  InStep(c)' /\ StreakCounted'
    OBVIOUS
  <1>t. /\ row \in Row /\ age \in 0..MaxAge
        /\ pc \in [Call -> Location] /\ seen \in [Call -> Seen]
        /\ streak \in 0..ConsecutiveFailures
        /\ row.failures <= row.total
        /\ \A d \in Call : seen[d].failures <= seen[d].total
    BY DEF TypeInv, TypeOK, WindowOK
  <1>p. ConsecutiveFailures \in Nat /\ ConsecutiveFailures > 0
    BY PolicyAssumption DEF PolicyAssumption
  <1> USE DEF InStep, StreakCounted, Recording
  <1>1. CASE Check(c)
    BY <1>1, <1>t DEF Check, CooldownElapsed, EffectiveCooldown
  <1>2. CASE Reserve(c)
    <2>1. \/ UNCHANGED row /\ pc' = [pc EXCEPT ![c] = "idle"]
          \/ row'.state = "half_open" /\ pc' = [pc EXCEPT ![c] = "admitted"]
      BY <1>2, <1>t, ReservedRow DEF Reserve
    <2> QED BY <1>2, <2>1, <1>t DEF Reserve
  <1>3. CASE ReadForSuccess(c) \/ ReadForFailure(c)
    BY <1>3, <1>t DEF ReadForSuccess, ReadForFailure
  <1>4. CASE WriteSuccess(c)
    <2>1. row'.state = "closed" /\ row'.consecutive = 0
      <3>1. row'.state = "closed"
        BY <1>4, <1>t, SuccessRow DEF WriteSuccess
      <3>2. RowAfterSuccess(row, seen[c]).consecutive = 0
        BY <1>t DEF RowAfterSuccess, Row
      <3> QED BY <1>4, <3>1, <3>2 DEF WriteSuccess
    <2>2. pc'[c] = "idle" /\ streak' = 0
      BY <1>4, <1>t DEF WriteSuccess
    <2> QED BY <2>1, <2>2, <1>p
  <1>5. CASE WriteFailure(c)
    <2>1. PICK o \in CooldownOverrides : row' = RowAfterFailure(row, ReadOf(row), o)
      BY <1>5 DEF WriteFailure
    <2>2. row'.state \in {"open", "closed"}
      <3>1. PICK q \in CooldownOverrides : row' = RowAfterFailure(row, seen[c], q)
        BY <1>5 DEF WriteFailure
      <3> QED BY <3>1, <1>t, FailureRow
    <2>3. pc'[c] = "idle" /\ streak' = Smaller(streak + 1, ConsecutiveFailures)
      BY <1>5, <1>t DEF WriteFailure
    <2>4. CASE row'.state = "closed"
      <3>1. /\ row.state # "half_open" /\ row'.consecutive = row.consecutive + 1
            /\ row.consecutive + 1 < ConsecutiveFailures
        BY <2>1, <2>4, <1>t, SerialFailure
      <3>2. row.state \in {"absent", "closed"} /\ row.consecutive \in Nat
        BY <1>5, <3>1, <1>t DEF WriteFailure, Row, BreakerState
      <3> QED BY <2>3, <3>1, <3>2, <1>t, <1>p DEF Smaller
    <2> QED BY <2>2, <2>3, <2>4
  <1>6. CASE EndSilently(c)
    <2>1. row'.state = row.state /\ row'.consecutive = row.consecutive
      BY <1>6, <1>t DEF EndSilently, Released, Row
    <2> QED BY <1>6, <2>1, <1>t DEF EndSilently, Released
  <1>7. CASE Start(ProcOf[c])
    <2>1. row'.state = "open" \/ row' = row
      BY <1>7, <1>t, StartupRow DEF Start
    <2>2. pc'[c] = "idle" /\ streak' = streak
      BY <1>7 DEF Start
    <2> QED BY <2>1, <2>2
  <1>8. CASE Tick
    <2>1. EffectiveCooldown(row) \in Nat /\ age \in Nat
      BY <1>t, TimeAssumption DEF EffectiveCooldown, Row, TimeAssumption
    <2>2. EffectiveCooldown(row)' = EffectiveCooldown(row) /\ age' = age + 1
      BY <1>8 DEF Tick, EffectiveCooldown
    <2>3. CooldownElapsed(row) => CooldownElapsed(row)'
      BY <2>1, <2>2 DEF CooldownElapsed
    <2> QED BY <1>8, <2>3 DEF Tick
  <1>9. CASE UNCHANGED vars
    BY <1>9 DEF vars, CooldownElapsed
  <1> QED
    BY <1>1, <1>2, <1>3, <1>4, <1>5, <1>6, <1>7, <1>8, <1>9 DEF Next, Verdict

LEMMA SerialInit ==
    ASSUME NEW c, Call = {c}
    PROVE  Init => InStep(c) /\ StreakCounted
  BY PolicyAssumption
  DEF Init, InStep, StreakCounted, Recording, NoRow, PolicyAssumption

\* While calls come one at a time, that many failures with no success between
\* them never leave the breaker closed, whatever overrides, restarts, cancelled
\* and unrecorded calls come between.
THEOREM TripsWhenSerial ==
    ASSUME NEW c, Call = {c}, Proc = {ProcOf[c]}
    PROVE  Spec => []TripsAfterThreshold
  <1>1. Init => InStep(c) /\ StreakCounted
    BY SerialInit
  <1>2. TypeInv /\ InStep(c) /\ StreakCounted /\ [Next]_vars
            => InStep(c)' /\ StreakCounted'
    BY SerialStep
  <1>3. TypeInv /\ StreakCounted => TripsAfterThreshold
    BY PolicyAssumption
    DEF TypeInv, TypeOK, Row, BreakerState, StreakCounted,
        TripsAfterThreshold, PolicyAssumption
  <1> QED BY TypeInit, TypeStep, <1>1, <1>2, <1>3, PTL DEF Spec

\* While calls come one at a time and none of them forces a probe, an open row
\* only becomes half-open, once its cooldown has passed, and no other row does.
THEOREM TransitionsWhenSerial ==
    ASSUME NEW c, Call = {c}, Proc = {ProcOf[c]}, ~AllowOpenProbe
    PROVE  Spec => DocumentedTransitions
  <1>1. Init => InStep(c) /\ StreakCounted
    BY SerialInit
  <1>2. TypeInv /\ InStep(c) /\ StreakCounted /\ [Next]_vars
            => InStep(c)' /\ StreakCounted'
    BY SerialStep
  <1>3. TypeInv /\ InStep(c) /\ [Next]_vars =>
          [/\ row.state = "open" => \/ row'.state = "open"
                                    \/ /\ row'.state = "half_open"
                                       /\ age >= EffectiveCooldown(row)
           /\ row'.state = "half_open" => row.state \in {"open", "half_open"}]_vars
    <2> SUFFICES ASSUME TypeInv, InStep(c), Next
                 PROVE  /\ row.state = "open" => \/ row'.state = "open"
                                                 \/ /\ row'.state = "half_open"
                                                    /\ age >= EffectiveCooldown(row)
                        /\ row'.state = "half_open" => row.state \in {"open", "half_open"}
      OBVIOUS
    <2>t. /\ row \in Row /\ seen \in [Call -> Seen]
          /\ row.failures <= row.total
          /\ \A d \in Call : seen[d].failures <= seen[d].total
      BY DEF TypeInv, TypeOK, WindowOK
    <2>1. CASE Reserve(c)
      <3>1. \/ UNCHANGED row
            \/ /\ row'.state = "half_open"
               /\ CanReserve(row, IF pc[c] = "reserve_open"
                                  THEN {"open", "half_open"} ELSE {"half_open"})
        BY <2>1, <2>t, ReservedRow DEF Reserve
      <3> QED BY <3>1 DEF CanReserve, InStep, CooldownElapsed
    <2>2. CASE WriteSuccess(c)
      <3>1. row'.state = "closed" /\ row.state # "open"
        BY <2>2, <2>t, SuccessRow DEF WriteSuccess, InStep, Recording
      <3> QED BY <3>1
    <2>3. CASE WriteFailure(c)
      <3>1. PICK q \in CooldownOverrides : row' = RowAfterFailure(row, seen[c], q)
        BY <2>3 DEF WriteFailure
      <3>2. row'.state \in {"open", "closed"} /\ row.state # "open"
        BY <2>3, <3>1, <2>t, FailureRow DEF WriteFailure, InStep, Recording
      <3> QED BY <3>2
    <2>4. CASE Check(c) \/ ReadForSuccess(c) \/ ReadForFailure(c) \/ Tick
      BY <2>4 DEF Check, ReadForSuccess, ReadForFailure, Tick
    <2>5. CASE EndSilently(c)
      BY <2>5, <2>t DEF EndSilently, Released, Row
    <2>6. CASE Start(ProcOf[c])
      BY <2>6, <2>t, StartupRow DEF Start
    <2> QED BY <2>1, <2>2, <2>3, <2>4, <2>5, <2>6 DEF Next, Verdict
  <1> QED BY TypeInit, TypeStep, <1>1, <1>2, <1>3, PTL
          DEF Spec, DocumentedTransitions


(***************************************************************************)
(* Qualification: the row of a route never says less than the last verdict *)
(* of its probes, but for what no verdict stands behind.                   *)
(***************************************************************************)

RowsTypes ==
    /\ kind \in Kind
    /\ evidence \in [Route -> Evidence] /\ proved \in [Route -> Evidence]

\* Catalogs write rows of two kinds only.
CatalogsStayOut == kind \notin {"modality", "media"} => discovering = {}

\* What the row says of a route that passed its last verdict.
PassesAreKept ==
    \A r \in Route : proved[r] = "passed" =>
        /\ kind = "composite" => evidence[r] = "passed"
        /\ kind = "structured" => evidence[r] \notin {"unsupported", "auth_failed"}
        /\ kind = "tools" /\ r \notin rejected => evidence[r] \in {"passed", "unavailable"}

EvidenceInv == RowsTypes /\ CatalogsStayOut /\ PassesAreKept

\* A reply gives one of four verdicts.
LEMMA StatusOfReply ==
    ASSUME NEW reply
    PROVE  /\ ToolsStatus(reply) \in Definitive \cup {"unavailable", "auth_failed"}
           /\ MediaStatus(reply) \in Definitive \cup {"unavailable"}
  <1>1. ToolsFailure(reply) \in {"unsupported", "auth_failed", "unavailable"}
    BY Zenon DEF ToolsFailure
  <1>2. ToolsStatus(reply) \in {"passed", "unsupported", ToolsFailure(reply)}
    BY Zenon DEF ToolsStatus
  <1>3. MediaStatus(reply) \in {"passed", "unsupported", "unavailable"}
    BY Zenon DEF MediaStatus
  <1> QED BY <1>1, <1>2, <1>3 DEF Definitive

\* What every probe does: it writes its verdict down, but for a pass that it
\* keeps, and notes it.
LEMMA VerdictKeepsEvidence ==
    ASSUME EvidenceInv,
           NEW status \in Definitive \cup {"unavailable", "auth_failed"}, Note(status),
           \/ /\ Store(status) /\ ~ Kept(Probed, status)
              /\ kind \in {"composite", "structured"} => Recordable(status)
           \/ Kept(Probed, status) /\ UNCHANGED evidence
           \/ kind \in {"modality", "media"} /\ \E s \in Evidence : Store(s),
           UNCHANGED <<kind, discovering>>
    PROVE  EvidenceInv'
  <1>1. status \in Evidence
    BY DEF Evidence
  <1>2. evidence' \in [Route -> Evidence] /\ proved' \in [Route -> Evidence]
    BY <1>1 DEF EvidenceInv, RowsTypes, Note, Store
  <1>3. RowsTypes' /\ CatalogsStayOut'
    BY <1>2 DEF EvidenceInv, RowsTypes, CatalogsStayOut
  <1>4. ASSUME NEW r \in Route, proved'[r] = "passed"
        PROVE  /\ kind = "composite" => evidence'[r] = "passed"
               /\ kind = "structured" => evidence'[r] \notin {"unsupported", "auth_failed"}
               /\ kind = "tools" /\ r \notin rejected' => evidence'[r] \in {"passed", "unavailable"}
    <2>1. CASE r # Probed
      BY <1>4, <2>1 DEF EvidenceInv, RowsTypes, PassesAreKept, Note, Store
    <2>2. CASE r = Probed /\ status \in Definitive
      BY <1>4, <2>2 DEF EvidenceInv, RowsTypes, PassesAreKept, Note, Store, Kept, Definitive
    <2>3. CASE r = Probed /\ status \notin Definitive
      BY <1>4, <2>3 DEF EvidenceInv, RowsTypes, PassesAreKept, Note, Store, Kept, Recordable,
                        Definitive
    <2> QED BY <2>1, <2>2, <2>3
  <1>5. PassesAreKept'
    BY <1>4 DEF PassesAreKept
  <1> QED BY <1>3, <1>5 DEF EvidenceInv

LEMMA ProbesKeepEvidence ==
    ASSUME EvidenceInv, NEW reply,
           \/ ProbeTools(reply) \/ ProbeModality(reply) \/ ProbeMedia(reply)
           \/ ProbeStructured(reply) \/ ProbeComposite(reply)
    PROVE  EvidenceInv'
  <1>1. ToolsStatus(reply) \in Definitive \cup {"unavailable", "auth_failed"}
    BY StatusOfReply
  <1>2. CASE ProbeTools(reply)
    BY <1>1, <1>2, VerdictKeepsEvidence DEF ProbeTools, Asking, Kept
  <1>3. CASE ProbeModality(reply)
    <2>1. \E s \in Evidence : Store(s)
      BY <1>1, <1>3 DEF ProbeModality, ModalityStatus, Evidence
    <2> QED BY <1>1, <1>3, <2>1, VerdictKeepsEvidence DEF ProbeModality, ModalityStatus, Asking
  <1>4. CASE ProbeMedia(reply)
    <2>1. MediaStatus(reply) \in Definitive \cup {"unavailable", "auth_failed"}
      BY StatusOfReply
    <2> QED BY <1>4, <2>1, VerdictKeepsEvidence DEF ProbeMedia, Asking, Kept
  <1>5. CASE ProbeStructured(reply)
    BY <1>1, <1>5, VerdictKeepsEvidence DEF ProbeStructured, StructuredStatus, Asking, Kept
  <1>6. CASE ProbeComposite(reply)
    <2>1. CASE Kept(Probed, ToolsStatus(reply))
      BY <1>1, <1>6, <2>1, VerdictKeepsEvidence DEF ProbeComposite, CompositeStatus, Asking, Kept
    <2>2. CASE ~ Kept(Probed, ToolsStatus(reply))
      BY <1>1, <1>6, <2>2, VerdictKeepsEvidence DEF ProbeComposite, CompositeStatus, Asking
    <2> QED BY <2>1, <2>2
  <1> QED BY <1>2, <1>3, <1>4, <1>5, <1>6

LEMMA OthersKeepEvidence ==
    ASSUME EvidenceInv,
           \/ \E disturbed \in BOOLEAN : Abort(disturbed)
           \/ \E r \in Route : ReadsRow(r) \/ Advertise(r)
           \/ Restart
    PROVE  EvidenceInv'
  <1>1. ASSUME NEW disturbed \in BOOLEAN, Abort(disturbed) PROVE EvidenceInv'
    <2>1. /\ kind \in {"structured", "composite"}
          /\ UNCHANGED <<kind, discovering, proved>>
      BY <1>1 DEF Abort, Note, Definitive
    <2>2. /\ evidence' \in [Route -> Evidence]
          /\ \A r \in Route : \/ evidence'[r] = evidence[r]
                              \/ evidence'[r] = "unavailable" /\ ~ Kept(r, "unavailable")
      BY <1>1 DEF Abort, EvidenceInv, RowsTypes, Evidence
    <2>3. RowsTypes' /\ CatalogsStayOut'
      BY <2>1, <2>2 DEF EvidenceInv, RowsTypes, CatalogsStayOut
    <2>4. PassesAreKept'
      BY <2>1, <2>2 DEF EvidenceInv, PassesAreKept, Kept
    <2> QED BY <2>3, <2>4 DEF EvidenceInv
  <1>2. ASSUME NEW r \in Route, ReadsRow(r) PROVE EvidenceInv'
    BY <1>2 DEF ReadsRow, EvidenceInv, RowsTypes, CatalogsStayOut, PassesAreKept
  <1>3. ASSUME NEW r \in Route, Advertise(r) PROVE EvidenceInv'
    <2>1. /\ kind \in {"modality", "media"} /\ UNCHANGED <<kind, proved>>
          /\ evidence' = [evidence EXCEPT ![r] = "advertised"]
      BY <1>3 DEF Advertise, EvidenceInv, CatalogsStayOut
    <2>2. RowsTypes'
      BY <2>1 DEF EvidenceInv, RowsTypes, Evidence
    <2> QED BY <2>1, <2>2 DEF EvidenceInv, CatalogsStayOut, PassesAreKept
  <1>4. CASE Restart
    BY <1>4 DEF Restart, EvidenceInv, RowsTypes, CatalogsStayOut, PassesAreKept
  <1> QED BY <1>1, <1>2, <1>3, <1>4

LEMMA EvidenceStep == EvidenceInv /\ [ProbeNext]_probeVars => EvidenceInv'
  <1> SUFFICES ASSUME EvidenceInv, [ProbeNext]_probeVars PROVE EvidenceInv'
    OBVIOUS
  <1>1. CASE UNCHANGED <<kind, evidence, discovering, proved, rejected>>
    BY <1>1 DEF EvidenceInv, RowsTypes, CatalogsStayOut, PassesAreKept
  <1>2. CASE \/ \E lapsed, cool \in SUBSET Route :
                   \/ StartTools(lapsed, cool) \/ StartModality(lapsed, cool)
                   \/ StartStructured(lapsed, cool) \/ NextRound(lapsed, cool)
             \/ \E lapsed \in SUBSET Route : StartComposite(lapsed)
             \/ StartMedia \/ EndCycle \/ SkipSpent \/ UNCHANGED probeVars
    BY <1>1, <1>2 DEF StartTools, StartModality, StartStructured, NextRound, StartComposite,
                      StartMedia, EndCycle, SkipSpent, Begin, probeVars
  <1> QED BY <1>2, ProbesKeepEvidence, OthersKeepEvidence DEF ProbeNext

LEMMA EvidenceInvariant == ProbeSpec => []EvidenceInv
  <1>1. ProbeInit => EvidenceInv
    BY DEF ProbeInit, EvidenceInv, RowsTypes, CatalogsStayOut, PassesAreKept, Evidence
  <1> QED BY <1>1, EvidenceStep, PTL DEF ProbeSpec

\* For any routes, providers and batches, a route whose last verdict was a pass
\* keeps getting the requests it proved itself for, whatever outages, quotas,
\* refusals of other routes and ends of cycles its later probes meet
\* (pools.py:909, 1096).
THEOREM ProvenRoutesStay == ProbeSpec => []ProvenStaysAdmitted
  <1>1. EvidenceInv => ProvenStaysAdmitted
    BY DEF EvidenceInv, PassesAreKept, ProvenStaysAdmitted, AdmitsImageTools,
           AdmitsStructured, AdmitsTools
  <1> QED BY <1>1, EvidenceInvariant, PTL

(***************************************************************************)
(* MediaJobs: a pause never goes past the deadline, so one request is all  *)
(* that a polling can last beyond it.                                      *)
(***************************************************************************)

WorkState == Lasting \cup {"done"} \cup Lost
JobPhase == {"new", "polling", "fetching", "answered", "charged", "failed"}

\* The record of the polling.
WaitType ==
    waiting \in [phase : JobPhase, time : 0 .. MaxWait + Slow, pause : Interval .. LongPause]

JobStates ==
    /\ work \in WorkState /\ promoted \in BOOLEAN
    /\ told \in {"none", "empty"} \cup WorkState

JobInv == WaitType /\ JobStates

\* The smaller of two numbers.
LEMMA SmallerOfTwo ==
    ASSUME NEW a \in Int, NEW b \in Int
    PROVE  Min({a, b}) = IF a <= b THEN a ELSE b
  BY DEF Min

\* Only the requests of the polling and its pauses take time.
LEMMA PollsStayInTime ==
    ASSUME WaitType, NEW took \in 0 .. Slow,
           PollsDone(took) \/ PollsFailed(took) \/ PollsOn(took)
    PROVE  WaitType'
  <1> USE TimesAssumption DEF TimesAssumption
  <1>1. /\ waiting.phase = "polling" /\ Remaining > 0
        /\ waiting.time \in Nat /\ waiting.pause \in Interval .. LongPause
    BY DEF PollsDone, PollsFailed, PollsOn, Polling, WaitType
  <1>2. waiting.time < MaxWait /\ waiting.time + took \in 0 .. MaxWait + Slow
    BY <1>1 DEF Remaining
  <1>3. CASE PollsDone(took) \/ PollsFailed(took)
    <2>1. PICK end \in JobPhase :
              waiting' = [waiting EXCEPT !.phase = end, !.time = @ + took]
      BY <1>3 DEF PollsDone, PollsFailed, Later, JobPhase
    <2> QED BY <1>2, <2>1 DEF WaitType
  <1>4. CASE PollsOn(took)
    <2> DEFINE p == Pause
               next == Min({(3 * waiting.pause) \div 2, LongPause})
    <2>1. p \in Nat /\ p <= Remaining
      BY <1>1, SmallerOfTwo DEF Pause, Remaining
    <2>2. (3 * waiting.pause) \div 2 \in Nat /\ (3 * waiting.pause) \div 2 >= waiting.pause
      BY <1>1
    <2>3. next \in Interval .. LongPause
      BY <1>1, <2>2, SmallerOfTwo
    <2>4. waiting' = [waiting EXCEPT !.time = waiting.time + took + p, !.pause = next]
      BY <1>4 DEF PollsOn
    <2>5. waiting.time + took + p \in 0 .. MaxWait + Slow
      BY <1>1, <2>1 DEF Remaining
    <2> HIDE DEF p, next
    <2> QED BY <2>3, <2>4, <2>5 DEF WaitType
  <1> QED BY <1>3, <1>4

LEMMA JobStep == JobInv /\ [JobNext]_jobVars => JobInv'
  <1> SUFFICES ASSUME JobInv, [JobNext]_jobVars PROVE JobInv'
    OBVIOUS
  <1>1. ASSUME NEW end \in JobPhase, Go(end) PROVE WaitType'
    BY <1>1 DEF Go, JobInv, WaitType
  <1>2. CASE UNCHANGED jobVars
    BY <1>2 DEF jobVars, JobInv, WaitType, JobStates
  <1>3. ASSUME NEW state \in {"running", "done"} \cup Lost, Proceeds(state) PROVE JobInv'
    <2>1. WaitType'
      BY <1>3 DEF Proceeds, JobInv, WaitType
    <2>2. work' \in WorkState /\ UNCHANGED <<told, promoted>>
      BY <1>3 DEF Proceeds, Rest, WorkState, Lasting
    <2> QED BY <2>1, <2>2 DEF JobInv, JobStates
  <1>4. ASSUME NEW state \in {"queued", "running", "done", "failed"}, Create(state) PROVE JobInv'
    <2>1. WaitType'
      BY <1>1, <1>4 DEF Create, JobPhase
    <2>2. JobStates'
      BY <1>4 DEF Create, Rest, JobInv, JobStates, WorkState, Lasting, Lost
    <2> QED BY <2>1, <2>2 DEF JobInv
  <1>5. CASE \/ CreateFails \/ GiveUp \/ PollFails \/ Refuses
             \/ \E end \in {"there", "missing", "broken"} : Finalise(end)
    <2>1. WaitType'
      BY <1>1, <1>5 DEF CreateFails, GiveUp, PollFails, Refuses, Finalise, Fail, JobPhase
    <2>2. UNCHANGED <<work, told, promoted>>
      BY <1>5 DEF CreateFails, GiveUp, PollFails, Refuses, Finalise, Fail, Rest
    <2> QED BY <2>1, <2>2 DEF JobInv, JobStates
  <1>6. ASSUME NEW reply \in Reply, Replies(reply) PROVE JobInv'
    <2>1. \E end \in {"answered", "failed"} : Go(end)
      BY <1>6 DEF Replies, Fail
    <2>2. /\ UNCHANGED <<work, promoted>>
          /\ told' = told \/ told' = "done" \/ told' = "empty"
      BY <1>6 DEF Replies, Rest, Fail
    <2> QED BY <1>1, <2>1, <2>2 DEF JobInv, JobStates, WorkState, JobPhase
  <1>7. ASSUME NEW end \in {"charged", "failed"}, Charges(end) PROVE JobInv'
    <2>1. WaitType'
      BY <1>1, <1>7 DEF Charges, JobPhase
    <2>2. UNCHANGED <<work, told>> /\ promoted' = TRUE
      BY <1>7 DEF Charges
    <2> QED BY <2>1, <2>2 DEF JobInv, JobStates
  <1>8. ASSUME NEW took \in 0 .. Slow, PollsDone(took) \/ PollsFailed(took) \/ PollsOn(took)
        PROVE  JobInv'
    <2>1. WaitType'
      BY <1>8, PollsStayInTime DEF JobInv
    <2>2. UNCHANGED <<work, promoted>> /\ told' \in {told, work}
      BY <1>8 DEF PollsDone, PollsFailed, PollsOn, Rest
    <2> QED BY <2>1, <2>2 DEF JobInv, JobStates
  <1>9. CASE (\E n \in 1..MaxPictures : Preview(n)) \/ ResultArrives
    <2>1. UNCHANGED <<work, waiting, told, promoted>>
      BY <1>9 DEF Preview, ResultArrives
    <2> QED BY <2>1 DEF JobInv, JobStates, WaitType
  <1>10. CASE StreamEnds \/ StreamFails
    <2>1. WaitType'
      BY <1>1, <1>10 DEF StreamEnds, StreamFails, Fail, JobPhase
    <2>2. UNCHANGED <<work, promoted>> /\ told' \in {told, "done"}
      BY <1>10 DEF StreamEnds, StreamFails, Fail
    <2> QED BY <2>1, <2>2 DEF JobInv, JobStates, WorkState
  <1> QED BY <1>2, <1>3, <1>4, <1>5, <1>6, <1>7, <1>8, <1>9, <1>10 DEF JobNext

LEMMA JobInvariant == JobSpec => []JobInv
  <1>1. ASSUME JobInit PROVE JobInv
    <2>1. WaitType
      BY <1>1, TimesAssumption DEF JobInit, WaitType, JobPhase, TimesAssumption
    <2>2. JobStates
      BY <1>1 DEF JobInit, JobStates, WorkState, Lasting
    <2> QED BY <2>1, <2>2 DEF JobInv
  <1> QED BY <1>1, JobStep, PTL DEF JobSpec

\* Type correctness, for any deadline, pauses and provider.
THEOREM JobsTypeCorrect == JobSpec => []JobTypeOK
  <1>1. ASSUME JobInv PROVE JobTypeOK
    <2>1. /\ waiting.phase \in JobPhase /\ waiting.time \in Nat
          /\ waiting.pause \in Interval .. LongPause
      BY <1>1, TimesAssumption DEF JobInv, WaitType, TimesAssumption
    <2> QED BY <1>1, <2>1 DEF JobInv, JobStates, WorkState, JobPhase, JobTypeOK
  <1> QED BY <1>1, JobInvariant, PTL

\* "did not finish within {max_wait}s" (video.py:287): for any deadline, pauses
\* and length of the requests, the polling ends at the latest one request past
\* the deadline.
THEOREM PollingIsBounded == JobSpec => []WaitIsBounded
  <1>1. ASSUME JobInv PROVE WaitIsBounded
    BY <1>1 DEF JobInv, WaitType, WaitIsBounded
  <1> QED BY <1>1, JobInvariant, PTL

(***************************************************************************)
(* ToolGate: of a turn that is held back the client has nothing before it  *)
(* is judged, and of the calls that are judged none is lost.               *)
(***************************************************************************)

\* Every call of a turn is among its calls: their ranks tell the places apart.
LEMMA CallsAreAll ==
    ASSUME NEW turn \in Seq(Part), NEW i \in DOMAIN turn, turn[i] \in ToolCall
    PROVE  \E k \in DOMAIN Calls(turn) : Calls(turn)[k] = turn[i]
  <1> DEFINE P == Places(turn)
             Upto(j) == {m \in P : m <= j}
  <1>1. IsFiniteSet(P) /\ P \subseteq Nat /\ i \in P
    <2>1. DOMAIN turn = 1..Len(turn) /\ Len(turn) \in Nat
      OBVIOUS
    <2>2. IsFiniteSet(1..Len(turn))
      BY <2>1, FS_Interval
    <2> QED BY <2>1, <2>2, FS_Subset DEF Places
  <1>2. \A j \in P : /\ IsFiniteSet(Upto(j)) /\ Upto(j) \subseteq P /\ j \in Upto(j)
                     /\ Cardinality(Upto(j)) \in Nat
    BY <1>1, FS_Subset, FS_CardinalityType
  <1>3. ASSUME NEW j \in P, NEW m \in P, j < m
        PROVE  Cardinality(Upto(j)) < Cardinality(Upto(m))
    <2>1. Upto(j) \subseteq Upto(m) /\ m \in Upto(m) /\ m \notin Upto(j)
      BY <1>1, <1>3
    <2> QED BY <1>2, <2>1, FS_Subset
  <1>4. \A j \in P : Rank(turn, j) = Cardinality(Upto(j))
    BY DEF Rank
  <1> HIDE DEF Upto, P
  <1>5. ASSUME NEW j \in P, Rank(turn, j) = Rank(turn, i) PROVE j = i
    <2>1. Cardinality(Upto(j)) = Cardinality(Upto(i)) /\ Cardinality(Upto(i)) \in Nat
      BY <1>1, <1>2, <1>4, <1>5
    <2>2. ~ (j < i) /\ ~ (i < j)
      BY <1>1, <1>3, <2>1
    <2>3. j \in Nat /\ i \in Nat
      BY <1>1
    <2> QED BY <2>2, <2>3
  <1>6. Rank(turn, i) \in 1..Cardinality(P)
    <2>1. Cardinality(Upto(i)) <= Cardinality(P) /\ Cardinality(P) \in Nat
      BY <1>1, <1>2, FS_Subset, FS_CardinalityType
    <2>2. Cardinality(Upto(i)) # 0
      BY <1>1, <1>2, FS_EmptySet
    <2>3. Rank(turn, i) = Cardinality(Upto(i)) /\ Cardinality(Upto(i)) \in Nat
      BY <1>1, <1>2, <1>4
    <2> QED BY <2>1, <2>2, <2>3
  <1>7. (CHOOSE j \in P : Rank(turn, j) = Rank(turn, i)) = i
    BY <1>1, <1>5
  <1> QED BY <1>6, <1>7 DEF Calls, P

\* What the calls of a turn show, the turn shows.
LEMMA CallsHaveAll ==
    ASSUME NEW turn \in Seq(Part), NEW kinds \in SUBSET ToolCall, Has(turn, kinds)
    PROVE  Has(Calls(turn), kinds) /\ Calls(turn) # <<>>
  <1>1. PICK i \in DOMAIN turn : turn[i] \in kinds
    BY DEF Has
  <1>2. PICK k \in DOMAIN Calls(turn) : Calls(turn)[k] = turn[i]
    BY <1>1, CallsAreAll
  <1>3. DOMAIN <<>> = {}
    OBVIOUS
  <1> QED BY <1>1, <1>2, <1>3 DEF Has

\* What a client can get.
Word == Part \cup {"question", "content question"}

\* What the client has when its turn is judged, and at the end.
GateTypes ==
    /\ phase \in {"choose", "turn", "over"} /\ candidate \in Candidate \cup {Nobody}
    /\ phase = "turn" => candidate \in Candidate
    /\ parts \in Seq(Part) /\ dropped \subseteq Candidate
    /\ suspicion \in [Candidate -> Nat] /\ blacklist \subseteq Candidate
    /\ shown \in Seq(Word)

\* The rules and the request, which no step changes.
GateGiven ==
    /\ rules \in [mode : {"approval", "adaptive", "audit"}, forced : {{}, Candidate}]
    /\ asked \in [style : {"stream", "whole"}, tools : {"acting", "other"},
                  choice : {"auto", "none", "required", "named"},
                  wording : {"plain", "explicit", "workflow"},
                  content : BOOLEAN, contentApproved : BOOLEAN]

\* A turn that is held back is not seen before it ends.
HeldIsUnseen == Held /\ phase # "over" => shown = <<>>

GateInv == GateTypes /\ GateGiven /\ HeldIsUnseen /\ NothingRiskyUnasked

\* A stream that is passed on as it comes is one whose request has no tools
\* that act.
LEMMA PassedOnAsItComes ==
    ASSUME GateGiven, ~ Held
    PROVE  /\ Streams /\ asked.tools = "other"
           /\ ~ (rules.mode = "approval" /\ asked.content)
  BY DEF GateGiven, Held

\* Nothing high-impact in what the client has: nothing to ask.
LEMMA HarmlessIsFine ==
    ASSUME GateGiven, UNCHANGED <<rules, asked>>, Held => ~ Has(shown', HighImpact)
    PROVE  NothingRiskyUnasked'
  <1>1. CASE Held
    BY <1>1 DEF NothingRiskyUnasked
  <1>2. CASE ~ Held
    BY <1>2, PassedOnAsItComes DEF NothingRiskyUnasked, Streams
  <1> QED BY <1>1, <1>2

\* A sequence of one entry.
LEMMA OneEntry ==
    ASSUME NEW S, NEW entry \in S
    PROVE  /\ <<entry>> \in Seq(S) /\ DOMAIN <<entry>> = {1} /\ <<entry>>[1] = entry
           /\ <<>> \o <<entry>> = <<entry>>
           /\ \A before \in Seq(S) : before \o <<entry>> \in Seq(S)
  OBVIOUS

LEMMA OneWord ==
    ASSUME NEW word \in {"question", "content question"}
    PROVE  ~ Has(<<word>>, HighImpact)
  <1>1. \A i \in DOMAIN <<word>> : <<word>>[i] = word
    <2>1. DOMAIN <<word>> = {1} /\ <<word>>[1] = word
      BY OneEntry
    <2> QED BY <2>1
  <1>2. word \notin HighImpact
    BY DEF HighImpact, ToolCall
  <1> QED BY <1>1, <1>2 DEF Has

\* Suspicion is added to the candidate whose turn it is.
LEMMA SuspicionTypes ==
    ASSUME GateTypes, phase = "turn",
           NoSuspicion \/ \E weight \in 1..3 : Suspect(weight)
    PROVE  suspicion' \in [Candidate -> Nat] /\ blacklist' \subseteq Candidate
  <1>1. CASE NoSuspicion
    BY <1>1 DEF NoSuspicion, GateTypes
  <1>2. ASSUME NEW weight \in 1..3, Suspect(weight)
        PROVE  suspicion' \in [Candidate -> Nat] /\ blacklist' \subseteq Candidate
    BY <1>2 DEF Suspect, GateTypes
  <1> QED BY <1>1, <1>2

\* A turn that ends or leaves its place to the next candidate, and shows nothing.
LEMMA SilentKeepsGate ==
    ASSUME GateInv, phase = "turn", UNCHANGED <<rules, asked, candidate, parts, shown>>,
           NoSuspicion \/ \E weight \in 1..3 : Suspect(weight),
           phase' \in {"choose", "over"}, dropped' \in {dropped, dropped \cup {candidate}}
    PROVE  GateInv'
  <1>1. suspicion' \in [Candidate -> Nat] /\ blacklist' \subseteq Candidate
    BY SuspicionTypes DEF GateInv
  <1>2. GateTypes'
    BY <1>1 DEF GateInv, GateTypes
  <1>3. GateGiven' /\ HeldIsUnseen'
    BY DEF GateInv, GateGiven, HeldIsUnseen, Held, Streams
  <1>4. ~ Has(<<>>, HighImpact)
    BY DEF Has
  <1>5. NothingRiskyUnasked'
    BY <1>4, HarmlessIsFine DEF GateInv, HeldIsUnseen
  <1> QED BY <1>2, <1>3, <1>5 DEF GateInv

LEMMA TurnKeepsGate ==
    ASSUME GateInv,
           \/ \E c \in Candidate : Choose(c)
           \/ \E part \in Part : Arrives(part)
    PROVE  GateInv'
  <1>1. ASSUME NEW c \in Candidate, Choose(c) PROVE GateInv'
    <2>1. /\ candidate' = c /\ phase' = "turn" /\ parts' = <<>> /\ phase = "choose"
          /\ UNCHANGED <<rules, asked, dropped, suspicion, blacklist, shown, used>>
      BY <1>1 DEF Choose
    <2>2. GateTypes'
      BY <2>1 DEF GateInv, GateTypes
    <2>3. GateGiven' /\ HeldIsUnseen'
      BY <2>1 DEF GateInv, GateGiven, HeldIsUnseen, Held, Streams
    <2>4. NothingRiskyUnasked'
      BY <2>1 DEF GateInv, NothingRiskyUnasked, Streams, Explicit, Requested
    <2> QED BY <2>2, <2>3, <2>4 DEF GateInv
  <1>2. ASSUME NEW part \in Part, Arrives(part) PROVE GateInv'
    <2>1. /\ parts' = Append(parts, part) /\ phase = "turn"
          /\ shown' = IF Held THEN shown ELSE shown \o <<part>>
          /\ UNCHANGED <<rules, asked, phase, candidate, dropped, suspicion, blacklist>>
      BY <1>2 DEF Arrives, Nothing, Show
    <2>2. shown' \in Seq(Word)
      <3>1. shown \in Seq(Word) /\ part \in Word
        BY DEF GateInv, GateTypes, Word
      <3>2. <<part>> \in Seq(Word)
        BY <3>1
      <3> QED BY <2>1, <3>1, <3>2
    <2>3. GateTypes'
      BY <2>1, <2>2 DEF GateInv, GateTypes
    <2>4. GateGiven' /\ HeldIsUnseen'
      BY <2>1 DEF GateInv, GateGiven, HeldIsUnseen, Held, Streams
    <2>5. ~ Has(<<>>, HighImpact)
      BY DEF Has
    <2>6. NothingRiskyUnasked'
      BY <2>1, <2>5, HarmlessIsFine DEF GateInv, HeldIsUnseen
    <2> QED BY <2>3, <2>4, <2>6 DEF GateInv
  <1> QED BY <1>1, <1>2

\* The client is asked: of a turn that was held back it sees the question only.
LEMMA AsksKeepsGate == GateInv /\ Asks => GateInv'
  <1> SUFFICES ASSUME GateInv, Asks PROVE GateInv'
    OBVIOUS
  <1>1. PICK word \in {"question", "content question"} : shown' = shown \o <<word>>
    BY DEF Asks, Show
  <1>2. /\ phase = "turn" /\ phase' = "over" /\ NoSuspicion
        /\ UNCHANGED <<rules, asked, candidate, parts, dropped>>
    BY DEF Asks, Lawful, Judging, End
  <1>3. shown' \in Seq(Word) /\ <<>> \o <<word>> = <<word>>
    <2>1. shown \in Seq(Word) /\ word \in Word
      BY DEF GateInv, GateTypes, Word
    <2>2. shown \o <<word>> \in Seq(Word) /\ <<>> \o <<word>> = <<word>>
      BY <2>1, OneEntry
    <2> QED BY <1>1, <2>2
  <1>4. suspicion' \in [Candidate -> Nat] /\ blacklist' \subseteq Candidate
    BY <1>2, SuspicionTypes DEF GateInv
  <1>5. GateTypes'
    BY <1>1, <1>2, <1>3, <1>4 DEF GateInv, GateTypes
  <1>6. GateGiven' /\ HeldIsUnseen'
    BY <1>2 DEF GateInv, GateGiven, HeldIsUnseen
  <1>7. Held => shown' = <<word>>
    <2>1. Held => shown = <<>>
      BY <1>2 DEF GateInv, HeldIsUnseen
    <2> QED BY <1>1, <1>3, <2>1
  <1>8. NothingRiskyUnasked'
    BY <1>2, <1>7, OneWord, HarmlessIsFine DEF GateInv
  <1> QED BY <1>5, <1>6, <1>8 DEF GateInv

\* A turn that neither has a question nor is stopped, and was approved by no one,
\* has no call of high impact but by the user's words or as the cleanup that was
\* asked for.
LEMMA UnaskedIsAllowed ==
    ASSUME GateInv, Lawful, ~ AsksAboutCalls, ~ Stopped, rules.mode # "audit",
           Has(parts, HighImpact), ~ Native
    PROVE  \/ rules.mode = "approval" /\ Explicit /\ ~ Has(parts, HighImpactByName)
           \/ rules.mode = "adaptive" /\ Requested /\ ~ Has(parts, HighImpact \ {"cleanup"})
           \/ /\ rules.mode = "adaptive" /\ Explicit
              /\ ~ Has(parts, HighImpactByName \ {"cleanup"})
  <1>1. \A kinds \in SUBSET ToolCall : Has(parts, kinds) => Has(Turn, kinds) /\ Turn # <<>>
    BY CallsHaveAll DEF GateInv, GateTypes, Turn
  <1>2. /\ HighImpact \in SUBSET ToolCall /\ HighImpactByName \in SUBSET ToolCall
        /\ HighImpact \ {"cleanup"} \in SUBSET ToolCall
        /\ HighImpactByName \ {"cleanup"} \in SUBSET ToolCall
    BY DEF HighImpact, HighImpactByName
  <1>3. Turn # <<>> /\ Has(Turn, HighImpact)
    BY <1>1, <1>2
  <1>4. ~ Questioned(Turn)
    BY <1>3 DEF AsksAboutCalls
  <1>5. ~ Refused(Turn, Native \/ (Turn = <<>> /\ asked.contentApproved), TextRisk)
    BY <1>3 DEF Stopped
  <1>6. rules.mode \in {"approval", "adaptive"}
    BY DEF GateInv, GateGiven
  <1>7. CASE rules.mode = "approval"
    <2>1. ~ Has(parts, HighImpactByName)
      BY <1>1, <1>2, <1>4, <1>7 DEF Questioned
    <2>2. Explicit
      BY <1>3, <1>5, <1>7 DEF Refused
    <2> QED BY <1>7, <2>1, <2>2
  <1>8. CASE rules.mode = "adaptive" /\ AdaptiveAsks(Turn, Requested)
    <2>1. ~ Has(parts, HighImpactByName)
      BY <1>1, <1>2, <1>4, <1>8 DEF Questioned
    <2>2. AdaptiveAsks(Turn, RequestSeen)
      BY <1>8 DEF AdaptiveAsks, RequestSeen
    <2>3. Explicit
      BY <1>3, <1>5, <1>8, <2>2 DEF Refused
    <2> QED BY <1>8, <2>1, <2>3 DEF Has
  <1>9. CASE rules.mode = "adaptive" /\ ~ AdaptiveAsks(Turn, Requested)
    <2>1. PICK i \in DOMAIN Turn : Turn[i] \in HighImpact
      BY <1>3 DEF Has
    <2>2. Requested
      BY <1>9, <2>1 DEF AdaptiveAsks
    <2>3. ~ Has(Turn, HighImpact \ {"cleanup"})
      BY <1>9 DEF AdaptiveAsks, Has
    <2> QED BY <1>1, <1>2, <1>9, <2>2, <2>3
  <1> QED BY <1>6, <1>7, <1>8, <1>9

LEMMA PassesOnKeepsGate == GateInv /\ PassesOn => GateInv'
  <1> SUFFICES ASSUME GateInv, PassesOn PROVE GateInv'
    OBVIOUS
  <1>1. /\ Lawful /\ ~ AsksAboutCalls /\ ~ Stopped /\ NoSuspicion /\ SpendApproval
        /\ phase = "turn" /\ phase' = "over"
        /\ shown' = IF Held THEN shown \o parts ELSE shown
        /\ UNCHANGED <<rules, asked, candidate, parts, dropped>>
    BY DEF PassesOn, Lawful, Judging, End, Show, Nothing
  <1>2. shown \in Seq(Word) /\ parts \in Seq(Part) /\ parts \in Seq(Word)
    <2>1. shown \in Seq(Word) /\ parts \in Seq(Part) /\ Part \subseteq Word
      BY DEF GateInv, GateTypes, Word
    <2> QED BY <2>1
  <1>3. suspicion' \in [Candidate -> Nat] /\ blacklist' \subseteq Candidate
    BY <1>1, SuspicionTypes DEF GateInv
  <1>4. shown' \in Seq(Word)
    BY <1>1, <1>2
  <1>5. GateTypes'
    BY <1>1, <1>3, <1>4 DEF GateInv, GateTypes
  <1>6. GateGiven' /\ HeldIsUnseen'
    BY <1>1 DEF GateInv, GateGiven, HeldIsUnseen
  <1>7. Held => shown' = parts
    <2>1. Held => shown = <<>>
      BY <1>1 DEF GateInv, HeldIsUnseen
    <2>2. <<>> \o parts = parts
      BY <1>2
    <2> QED BY <1>1, <2>1, <2>2
  <1>8. ASSUME Held, Has(parts, HighImpact), rules.mode # "audit"
        PROVE  NothingRiskyUnasked'
    <2>1. shown' = parts /\ UNCHANGED <<rules, asked>>
      BY <1>1, <1>7, <1>8
    <2>2. ~ Has(parts, {"denied"})
      <3>1. {"denied"} \in SUBSET ToolCall
        BY DEF ToolCall
      <3>2. ~ Has(Turn, {"denied"})
        BY <1>1, <1>8 DEF Lawful, IsDenied
      <3> QED BY <1>2, <3>1, <3>2, CallsHaveAll DEF Turn
    <2>3. CASE Native
      <3>1. used' = Calls(parts)
        BY <1>1, <2>3 DEF SpendApproval, Native, Turn
      <3> QED BY <2>1, <2>2, <3>1 DEF NothingRiskyUnasked
    <2>4. CASE ~ Native
      BY <1>1, <1>8, <2>1, <2>2, <2>4, UnaskedIsAllowed
         DEF NothingRiskyUnasked, Explicit, Requested
    <2> QED BY <2>3, <2>4
  <1>9. ASSUME Held => ~ Has(parts, HighImpact)
        PROVE  NothingRiskyUnasked'
    BY <1>1, <1>7, <1>9, HarmlessIsFine DEF GateInv
  <1>10. ASSUME rules.mode = "audit" PROVE NothingRiskyUnasked'
    BY <1>1, <1>10 DEF NothingRiskyUnasked
  <1>11. NothingRiskyUnasked'
    BY <1>8, <1>9, <1>10
  <1> QED BY <1>5, <1>6, <1>11 DEF GateInv

\* One step of the gate.
LEMMA GateKeeps == GateInv /\ [GateNext]_gateVars => GateInv'
  <1> SUFFICES ASSUME GateInv, [GateNext]_gateVars PROVE GateInv'
    OBVIOUS
  <1>1. ASSUME NEW c \in Candidate, Choose(c) PROVE GateInv'
    BY <1>1, TurnKeepsGate
  <1>2. ASSUME NEW part \in Part, Arrives(part) PROVE GateInv'
    BY <1>2, TurnKeepsGate
  <1>3. CASE TooLong
    <2>1. /\ phase = "turn" /\ phase' \in {"choose", "over"} /\ NoSuspicion
          /\ dropped' \in {dropped, dropped \cup {candidate}}
          /\ UNCHANGED <<rules, asked, candidate, parts, shown>>
      BY <1>3 DEF TooLong, Drops, End, NextCandidate, Nothing
    <2> QED BY <2>1, SilentKeepsGate
  <1>4. CASE ContractBroken
    <2>1. /\ phase = "turn" /\ phase' \in {"choose", "over"} /\ NoSuspicion
          /\ dropped' \in {dropped, dropped \cup {candidate}}
          /\ UNCHANGED <<rules, asked, candidate, parts, shown>>
      BY <1>4 DEF ContractBroken, Drops, End, NextCandidate, Nothing
    <2> QED BY <2>1, SilentKeepsGate
  <1>5. CASE Asks
    BY <1>5, AsksKeepsGate
  <1>6. CASE Stops
    <2>1. /\ phase = "turn" /\ phase' \in {"choose", "over"} /\ Suspect(1)
          /\ dropped' \in {dropped, dropped \cup {candidate}}
          /\ UNCHANGED <<rules, asked, candidate, parts, shown>>
      BY <1>6 DEF Stops, Lawful, Judging, End, Nothing
    <2> QED BY <2>1, SilentKeepsGate
  <1>7. CASE Unusable
    <2>1. /\ phase = "turn" /\ phase' \in {"choose", "over"} /\ NoSuspicion
          /\ dropped' \in {dropped, dropped \cup {candidate}}
          /\ UNCHANGED <<rules, asked, candidate, parts, shown>>
      BY <1>7 DEF Unusable, Lawful, Judging, NextCandidate, Nothing
    <2> QED BY <2>1, SilentKeepsGate
  <1>8. CASE PassesOn
    BY <1>8, PassesOnKeepsGate
  <1>9. ASSUME NEW weight \in {2, 3}, Denies(weight) PROVE GateInv'
    <2>1. /\ phase = "turn" /\ phase' \in {"choose", "over"} /\ Suspect(weight)
          /\ dropped' \in {dropped, dropped \cup {candidate}}
          /\ UNCHANGED <<rules, asked, candidate, parts, shown>>
      BY <1>9 DEF Denies, Judging, Drops, End, NextCandidate, Nothing
    <2>2. \E w \in 1..3 : Suspect(w)
      BY <2>1
    <2> QED BY <2>1, <2>2, SilentKeepsGate
  <1>10. CASE UNCHANGED gateVars
    <2>1. UNCHANGED <<rules, asked, phase, candidate, parts, dropped, suspicion,
                      blacklist, shown, used>>
      BY <1>10 DEF gateVars
    <2>2. GateTypes' /\ GateGiven' /\ HeldIsUnseen'
      BY <2>1 DEF GateInv, GateTypes, GateGiven, HeldIsUnseen, Held, Streams
    <2>3. NothingRiskyUnasked'
      BY <2>1 DEF GateInv, NothingRiskyUnasked, Streams, Explicit, Requested
    <2> QED BY <2>2, <2>3 DEF GateInv
  <1> QED BY <1>1, <1>2, <1>3, <1>4, <1>5, <1>6, <1>7, <1>8, <1>9, <1>10 DEF GateNext

LEMMA GateInvariant == GateSpec => []GateInv
  <1>1. GateInit => GateInv
    <2> SUFFICES ASSUME GateInit PROVE GateInv
      OBVIOUS
    <2>1. GateTypes /\ GateGiven /\ HeldIsUnseen
      BY DEF GateInit, GateTypes, GateGiven, HeldIsUnseen
    <2>2. ~ Has(<<>>, HighImpact)
      BY DEF Has
    <2>3. NothingRiskyUnasked
      BY <2>2 DEF GateInit, NothingRiskyUnasked
    <2> QED BY <2>1, <2>3 DEF GateInv
  <1> QED BY <1>1, GateKeeps, PTL DEF GateSpec

\* What the gate keeps of a request and its candidates (buffered turns, counts
\* of suspicion, the run's blacklist) has its type (_prepare_stream_result).
THEOREM GateTypeCorrect == GateSpec => []GateTypeOK
  <1>1. GateInv => GateTypeOK
    BY DEF GateInv, GateTypes, GateTypeOK, Word
  <1> QED BY <1>1, GateInvariant, PTL

\* However many candidates are tried, whatever they say, streamed or whole: a call
\* of high impact reaches the client only by the approval of just those calls,
\* used up for them, by the user's words or as the cleanup that was asked for
\* (_prepare_stream_result, _validate_complete_tool_response).
THEOREM RiskyCallsAreAsked == GateSpec => []NothingRiskyUnasked
  <1>1. GateInv => NothingRiskyUnasked
    BY DEF GateInv
  <1> QED BY <1>1, GateInvariant, PTL

-----------------------------------------------------------------------------
(***************************************************************************)
(* MediaRoutes: a request is refused only after every backend it may use   *)
(* has been called or passed over, whatever the other requests do to the   *)
(* round robin meanwhile.  A call's list is fixed when it begins, so what  *)
(* it has tried is the part of that list up to the place where it stands.  *)
(***************************************************************************)

MediaPhase == {"new", "checked", "blocked", "calling", "charging", "refused",
               "broken", "answered", "left"}
MediaCall ==
    [phase : MediaPhase, size : Nat, pin : Backend \cup {Unpinned}, start : Backend,
     at : 0..Backends, passed : SUBSET Backend]

\* The backends at the first n places of a call's list.
Tried(call, n) == {At(call, q) : q \in 0..(n - 1)}

CallStands(call) ==
    /\ call.phase \in {"new", "checked", "blocked"} => call.passed = {}
    /\ call.phase = "calling" =>
         call.at < Many(call) /\ call.passed = Tried(call, call.at + 1)
    /\ call.phase = "refused" => call.passed = Listed(call)

MediaInv ==
    /\ MediaTypeOK
    /\ media \in [MediaReq -> MediaCall] /\ \A r \in MediaReq : CallStands(media[r])

\* Places of a ring of n.
LEMMA Around ==
    ASSUME NEW n \in Nat \ {0}
    PROVE  /\ \A x \in Nat : x % n \in 0..(n - 1)
           /\ \A x \in 0..(n - 1) : x % n = x
           /\ \A x \in 0..(n - 1) : (x + n) % n = x
  <1>1. ASSUME NEW x \in Nat PROVE x % n \in 0..(n - 1)
    OBVIOUS
  <1>2. ASSUME NEW x \in 0..(n - 1) PROVE x % n = x
    OBVIOUS
  <1>3. ASSUME NEW x \in 0..(n - 1) PROVE (x + n) % n = x
    BY SMTT(30)
  <1> QED BY <1>1, <1>2, <1>3

\* The list of a call has every backend that the call may use, and no other.
LEMMA ListsAreWhole ==
    ASSUME NEW call \in MediaCall
    PROVE  /\ Many(call) \in 1..Backends
           /\ \A q \in Nat : At(call, q) \in Backend
           /\ Tried(call, Many(call)) = Listed(call)
  <1>1. CASE call.pin = Unpinned
    <2>1. Many(call) = Backends
      <3>1. Cardinality(0..(Backends - 1)) = Backends
        BY BackendsAssumption, FS_Interval
      <3> QED BY <1>1, <3>1 DEF Many, Listed, Backend
    <2>2. call.start \in Backend /\ Backends \in Nat \ {0}
      BY BackendsAssumption DEF MediaCall
    <2>3. ASSUME NEW q \in Nat PROVE At(call, q) \in Backend
      <3>1. call.start + q \in Nat
        BY <2>2 DEF Backend
      <3> QED BY <1>1, <2>2, <3>1, Around DEF At, Backend
    <2>4. ASSUME NEW b \in Backend PROVE b \in Tried(call, Backends)
      <3>1. CASE b >= call.start
        <4>1. /\ b - call.start \in 0..(Backends - 1)
              /\ call.start + (b - call.start) = b /\ b \in 0..(Backends - 1)
          BY <2>2, <3>1 DEF Backend
        <4>2. At(call, b - call.start) = b
          BY <1>1, <2>2, <4>1, Around DEF At
        <4> QED BY <4>1, <4>2 DEF Tried
      <3>2. CASE b < call.start
        <4> DEFINE q == b + Backends - call.start
        <4>1. /\ q \in 0..(Backends - 1) /\ call.start + q = b + Backends
          BY <2>2, <3>2 DEF Backend
        <4>2. At(call, q) = b
          <5>1. \A x \in 0..(Backends - 1) : (x + Backends) % Backends = x
            BY <2>2, Around
          <5>2. (b + Backends) % Backends = b
            BY <5>1 DEF Backend
          <5> QED BY <1>1, <4>1, <5>2 DEF At
        <4> QED BY <4>1, <4>2 DEF Tried
      <3> QED BY <2>2, <3>1, <3>2 DEF Backend
    <2>5. Tried(call, Backends) \subseteq Backend
      BY <2>2, <2>3 DEF Tried
    <2> QED BY <1>1, <2>1, <2>2, <2>3, <2>4, <2>5 DEF Listed
  <1>2. CASE call.pin # Unpinned
    <2>1. Many(call) = 1
      BY <1>2, FS_Singleton DEF Many, Listed
    <2>2. \A q \in Nat : At(call, q) = call.pin
      BY <1>2 DEF At
    <2>3. call.pin \in Backend
      BY <1>2 DEF MediaCall
    <2>4. Tried(call, 1) = {call.pin}
      BY <2>2 DEF Tried
    <2> QED BY <1>2, <2>1, <2>2, <2>3, <2>4, BackendsAssumption DEF Listed
  <1> QED BY <1>1, <1>2

\* Every set of places has a first one.
LEMMA FirstPlace ==
    ASSUME NEW T, T \subseteq Nat, T # {}
    PROVE  Min(T) \in T /\ \A y \in T : Min(T) <= y
  <1> DEFINE A == {0..x : x \in T}
  <1>1. A \subseteq FiniteSubsetsOf(Nat) /\ A # {}
    <2>1. \A x \in T : IsFiniteSet(0..x) /\ 0..x \in SUBSET Nat
      BY FS_Interval
    <2> QED BY <2>1 DEF FiniteSubsetsOf
  <1>2. PICK B \in A : \A C \in A : ~ (<<C, B>> \in StrictSubsetOrdering(Nat))
    BY <1>1, FS_StrictSubsetOrderingWellFounded, WFMin
  <1>3. PICK x \in T : B = 0..x
    BY <1>2
  <1>4. ASSUME NEW y \in T, y < x PROVE FALSE
    <2>1. 0..y \in SUBSET Nat /\ 0..x \in SUBSET Nat
      BY <1>4
    <2>2. 0..y \subseteq 0..x /\ x \in 0..x /\ x \notin 0..y
      BY <1>4
    <2>3. <<0..y, 0..x>> \in StrictSubsetOrdering(Nat)
      BY <2>1, <2>2 DEF StrictSubsetOrdering
    <2> QED BY <1>2, <1>3, <2>3
  <1>5. \A y \in T : x <= y
    BY <1>4
  <1> QED BY <1>5 DEF Min

\* From place p on the list is walked to the next backend that is called, or to
\* its end.
LEMMA WalksOn ==
    ASSUME NEW r \in MediaReq, NEW call \in MediaCall, NEW p \in 0..Many(call),
           call.passed = Tried(call, p), media \in [MediaReq -> MediaCall],
           NEW cool, NEW known, Goes(r, call, p, cool, known)
    PROVE  \E to \in MediaCall :
              /\ media' = [media EXCEPT ![r] = to] /\ CallStands(to)
              /\ to.phase \in {"calling", "refused"}
  <1>0. /\ Many(call) \in 1..Backends /\ Backends \in Nat
        /\ \A q \in Nat : At(call, q) \in Backend
        /\ Tried(call, Many(call)) = Listed(call)
    BY ListsAreWhole, BackendsAssumption
  <1>1. PICK open \in SUBSET (p..(Many(call) - 1)) :
          LET next == IF open = {} THEN Many(call) ELSE Min(open)
              over == {At(call, q) : q \in p..Min({next, Many(call) - 1})}
          IN media' = [media EXCEPT ![r] =
                [call EXCEPT !.phase = IF open = {} THEN "refused" ELSE "calling",
                             !.at = next, !.passed = @ \cup over]]
    BY DEF Goes
  <1> DEFINE next == IF open = {} THEN Many(call) ELSE Min(open)
             last == Min({next, Many(call) - 1})
             over == {At(call, q) : q \in p..last}
             to == [call EXCEPT !.phase = IF open = {} THEN "refused" ELSE "calling",
                                !.at = next, !.passed = @ \cup over]
  <1>2. /\ open # {} => next \in p..(Many(call) - 1)
        /\ open = {} => next = Many(call)
    <2>1. open \subseteq p..(Many(call) - 1) /\ open \subseteq Nat
      BY <1>0
    <2>2. open # {} => Min(open) \in open
      BY <2>1, FirstPlace
    <2> QED BY <2>1, <2>2
  <1>3. next \in 0..Many(call)
    BY <1>0, <1>2
  <1>4. last = IF open = {} THEN Many(call) - 1 ELSE next
    <2>1. {next, Many(call) - 1} \subseteq Nat
      BY <1>0, <1>3
    <2>2. last \in {next, Many(call) - 1} /\ last <= next /\ last <= Many(call) - 1
      BY <2>1, FirstPlace
    <2> QED BY <1>0, <1>2, <1>3, <2>2
  <1> HIDE DEF next, last
  <1>5. call.passed \cup over = Tried(call, last + 1)
    <2>1. last \in Nat /\ p \in Nat /\ p <= last + 1
      BY <1>0, <1>2, <1>3, <1>4
    <2>2. \A q : q \in 0..((last + 1) - 1) <=> q \in 0..(p - 1) \/ q \in p..last
      BY <2>1
    <2> DEFINE before == 0..(p - 1)
               after == p..last
               all == 0..((last + 1) - 1)
    <2>3. \A q : q \in all <=> q \in before \/ q \in after
      BY <2>2
    <2>4. call.passed = {At(call, q) : q \in before}
      BY DEF Tried
    <2>5. over = {At(call, q) : q \in after}
      OBVIOUS
    <2>6. Tried(call, last + 1) = {At(call, q) : q \in all}
      BY DEF Tried
    <2> HIDE DEF before, after, all, over
    <2> QED BY <2>3, <2>4, <2>5, <2>6
  <1>6. to \in MediaCall
    <2>1. over \subseteq Backend
      BY <1>0, <1>4, <1>3
    <2>2. next \in 0..Backends
      BY <1>0, <1>3
    <2> QED BY <2>1, <2>2 DEF MediaCall, MediaPhase
  <1>7. /\ to.pin = call.pin /\ to.start = call.start /\ to.at = next
        /\ to.passed = call.passed \cup over
        /\ to.phase = IF open = {} THEN "refused" ELSE "calling"
    BY DEF MediaCall
  <1>8. /\ \A q : At(to, q) = At(call, q)
        /\ Listed(to) = Listed(call) /\ Many(to) = Many(call)
        /\ \A n : Tried(to, n) = Tried(call, n)
    BY <1>7 DEF At, Listed, Many, Tried
  <1>9. media' = [media EXCEPT ![r] = to]
    BY <1>1 DEF next, last
  <1> HIDE DEF to, over
  <1>10. CASE open = {}
    <2>1. to.phase = "refused" /\ to.passed = Listed(to)
      BY <1>0, <1>4, <1>5, <1>7, <1>8, <1>10
    <2> QED BY <1>6, <1>9, <2>1 DEF CallStands
  <1>11. CASE open # {}
    <2>1. to.phase = "calling" /\ to.at < Many(to)
      BY <1>0, <1>2, <1>7, <1>8, <1>11
    <2>2. to.passed = Tried(to, to.at + 1)
      BY <1>4, <1>5, <1>7, <1>8, <1>11
    <2> QED BY <1>6, <1>9, <2>1, <2>2 DEF CallStands
  <1> QED BY <1>10, <1>11

\* A walk that begins or goes on leaves the calls of the others alone.
LEMMA WalkKeepsCalls ==
    ASSUME MediaInv, NEW r \in MediaReq, NEW call \in MediaCall,
           NEW p \in 0..Many(call), call.passed = Tried(call, p),
           NEW cool, NEW known, Goes(r, call, p, cool, known)
    PROVE  media' \in [MediaReq -> MediaCall] /\ \A q \in MediaReq : CallStands(media'[q])
  <1>1. PICK to \in MediaCall : media' = [media EXCEPT ![r] = to] /\ CallStands(to)
    BY WalksOn DEF MediaInv
  <1> QED BY <1>1 DEF MediaInv

\* So does a change of phase that neither begins a walk nor ends one.
LEMMA PhaseKeepsCalls ==
    ASSUME MediaInv, NEW r \in MediaReq,
           NEW to \in {"checked", "blocked", "charging", "broken", "answered", "left"},
           to \in {"checked", "blocked"} => media[r].phase = "new",
           Phase(r, to)
    PROVE  media' \in [MediaReq -> MediaCall] /\ \A q \in MediaReq : CallStands(media'[q])
  <1> DEFINE call == [media[r] EXCEPT !.phase = to]
  <1>1. media[r] \in MediaCall /\ CallStands(media[r]) /\ to \in MediaPhase
    BY DEF MediaInv, MediaPhase
  <1>2. call \in MediaCall /\ call.phase = to /\ call.passed = media[r].passed
    BY <1>1 DEF MediaCall
  <1>3. CallStands(call)
    BY <1>1, <1>2 DEF CallStands
  <1>4. media' = [media EXCEPT ![r] = call]
    BY DEF Phase
  <1> HIDE DEF call
  <1> QED BY <1>2, <1>3, <1>4 DEF MediaInv

\* A request's walk begins where the round robin stands, in its own list.
LEMMA StartKeepsCalls ==
    ASSUME MediaInv, NEW r \in MediaReq, NEW pin \in Backend \cup {Unpinned},
           NEW size \in Nat, Started(r, pin, size)
    PROVE  MediaInv'
  <1> DEFINE listed == [media[r] EXCEPT !.size = size, !.pin = pin]
             call == [listed EXCEPT !.start = First % Many(listed)]
  <1>1. media[r] \in MediaCall /\ CallStands(media[r]) /\ media[r].phase = "checked"
    BY DEF MediaInv, Started
  <1>2. listed \in MediaCall /\ listed.pin = pin /\ listed.passed = {}
    BY <1>1 DEF MediaCall, CallStands
  <1> HIDE DEF listed
  <1>3. Many(listed) \in 1..Backends /\ Backends \in Nat
    BY <1>2, ListsAreWhole, BackendsAssumption
  <1>4. First % Many(listed) \in Backend
    <2> DEFINE n == Many(listed)
    <2>1. cursor \in Nat
      <3>1. cursor \in Backend
        BY DEF MediaInv, MediaTypeOK
      <3>2. Backend \subseteq Nat
        BY <1>3 DEF Backend
      <3> QED BY <3>1, <3>2
    <2>2. First \in Nat
      BY <2>1 DEF First
    <2>3. n \in Nat \ {0} /\ n <= Backends
      BY <1>3
    <2> HIDE DEF n
    <2>4. \A x \in Nat : x % n \in 0..(n - 1)
      BY <2>3, Around
    <2>5. First % n \in 0..(n - 1)
      BY <2>2, <2>4
    <2>6. First % n \in Backend
      BY <1>3, <2>3, <2>5 DEF Backend
    <2> QED BY <2>6 DEF n
  <1>5. call \in MediaCall /\ call.passed = {}
    BY <1>2, <1>4 DEF MediaCall
  <1>6. Goes(r, call, 0, cooling, ceiling)
    BY DEF Started, listed
  <1>7. UNCHANGED <<surface, cursor, cooling, failed, ceiling, refusers>>
    BY DEF Started
  <1> HIDE DEF call
  <1>8. 0 \in 0..Many(call) /\ call.passed = Tried(call, 0)
    <2>1. Many(call) \in 1..Backends
      BY <1>5, ListsAreWhole
    <2>2. 0..(0 - 1) = {}
      OBVIOUS
    <2> QED BY <1>3, <1>5, <2>1, <2>2 DEF Tried
  <1>9. media' \in [MediaReq -> MediaCall] /\ \A q \in MediaReq : CallStands(media'[q])
    BY <1>5, <1>6, <1>8, WalkKeepsCalls
  <1> QED BY <1>7, <1>9 DEF MediaInv, MediaTypeOK

\* What every call in progress has: a backend at its place.
LEMMA CallingStands ==
    ASSUME MediaInv, NEW r \in MediaReq, Calling(r)
    PROVE  /\ media[r] \in MediaCall /\ Current(r) \in Backend
           /\ Many(media[r]) \in 1..Backends
           /\ media[r].at + 1 \in 0..Many(media[r])
           /\ media[r].passed = Tried(media[r], media[r].at + 1)
  <1>1. media[r] \in MediaCall /\ CallStands(media[r])
    BY DEF MediaInv
  <1>2. media[r].at < Many(media[r]) /\ media[r].passed = Tried(media[r], media[r].at + 1)
    BY <1>1 DEF CallStands, Calling
  <1>3. media[r].at \in Nat
    BY <1>1, BackendsAssumption DEF MediaCall
  <1>4. Many(media[r]) \in 1..Backends /\ Current(r) \in Backend /\ Backends \in Nat
    BY <1>1, <1>3, ListsAreWhole, BackendsAssumption DEF Current
  <1> QED BY <1>1, <1>2, <1>3, <1>4

\* The round robin goes on to a backend, after a list of one to the first.
LEMMA AfterIsBackend ==
    ASSUME MediaInv, NEW r \in MediaReq, Calling(r)
    PROVE  After(r) \in Backend
  <1>1. /\ Many(media[r]) \in 1..Backends /\ Backends \in Nat
        /\ media[r].start \in Nat /\ media[r].at \in Nat
    BY CallingStands, BackendsAssumption DEF MediaCall, Backend
  <1> DEFINE n == Many(media[r])
             place == media[r].start + media[r].at + 1
  <1>2. n \in Nat \ {0} /\ n <= Backends /\ place \in Nat
    BY <1>1
  <1>3. After(r) = place % n
    BY DEF After
  <1> HIDE DEF n, place
  <1>4. \A x \in Nat : x % n \in 0..(n - 1)
    BY <1>2, Around
  <1>5. place % n \in 0..(n - 1)
    BY <1>2, <1>4
  <1> QED BY <1>1, <1>2, <1>3, <1>5 DEF Backend

\* What a backend tells of the sizes it takes.
LEMMA CeilingTypes ==
    ASSUME NEW b \in Backend, NEW size \in Nat, ceiling \in [Backend -> Nat]
    PROVE  Accepted(b, size) \in [Backend -> Nat] /\ Rejected(b, size) \in [Backend -> Nat]
  <1>1. Max({Floor, size - Margin}) \in Nat
    <2>1. Floor \in Nat /\ size - Margin \in Int
      BY SizeAssumption
    <2>2. \E x \in {Floor, size - Margin} : \A y \in {Floor, size - Margin} : x >= y
      BY <2>1
    <2>3. /\ Max({Floor, size - Margin}) \in {Floor, size - Margin}
          /\ Max({Floor, size - Margin}) >= Floor
      BY <2>2 DEF Max
    <2> QED BY <2>1, <2>3
  <1> QED BY <1>1 DEF Accepted, Rejected

\* The answers of backends.
LEMMA AnswersKeepMedia ==
    ASSUME MediaInv, NEW r \in MediaReq,
           \/ Embedded(r) \/ Reranked(r) \/ Breaks(r) \/ RerankRefuses(r)
           \/ \E status \in {400, 413} : EmbedRefuses(r, status)
           \/ \E cools \in BOOLEAN : Fails(r, cools)
    PROVE  MediaInv'
  <1> DEFINE b == Current(r)
             AllStand == media' \in [MediaReq -> MediaCall] /\ \A q \in MediaReq : CallStands(media'[q])
  <1>1. /\ Calling(r) /\ b \in Backend /\ media[r] \in MediaCall
        /\ media[r].at + 1 \in 0..Many(media[r])
        /\ media[r].passed = Tried(media[r], media[r].at + 1)
        /\ media[r].size \in Nat
    <2>1. Calling(r)
      BY DEF Embedded, Reranked, Breaks, RerankRefuses, EmbedRefuses, Fails
    <2>2. media[r] \in MediaCall
      BY <2>1, CallingStands
    <2> QED BY <2>1, <2>2, CallingStands DEF MediaCall
  <1>2. /\ surface \in {"embed", "embed by priority", "rerank"}
        /\ cursor \in Backend /\ cooling \in SUBSET Backend
        /\ failed \in [Backend -> 0..2]
        /\ ceiling \in [Backend -> Nat] /\ refusers \in SUBSET Backend
    BY DEF MediaInv, MediaTypeOK
  <1>3. \A cool, known : Goes(r, media[r], media[r].at + 1, cool, known) => AllStand
    BY <1>1, WalkKeepsCalls
  <1>4. \A to \in {"charging", "broken"} : Phase(r, to) => AllStand
    BY PhaseKeepsCalls
  <1>5. After(r) \in Backend
    BY <1>1, AfterIsBackend
  <1>6. \A size \in Nat : Accepted(b, size) \in [Backend -> Nat] /\ Rejected(b, size) \in [Backend -> Nat]
    BY <1>1, <1>2, CeilingTypes
  <1> HIDE DEF b, AllStand
  <1>7. CASE Embedded(r)
    <2>1. AllStand
      BY <1>4, <1>7 DEF Embedded
    <2>2. cursor' \in Backend /\ ceiling' \in [Backend -> Nat]
      BY <1>1, <1>2, <1>5, <1>6, <1>7 DEF Embedded, b
    <2> QED BY <1>2, <1>7, <2>1, <2>2 DEF Embedded, MediaInv, MediaTypeOK, AllStand
  <1>8. CASE Reranked(r)
    <2>1. AllStand
      BY <1>4, <1>8 DEF Reranked
    <2>2. cursor' \in Backend
      BY <1>5, <1>8 DEF Reranked
    <2>3. failed' \in [Backend -> 0..2]
      <3>1. failed' = [failed EXCEPT ![b] = 0] /\ 0 \in 0..2
        BY <1>8 DEF Reranked, b
      <3> QED BY <1>2, <3>1
    <2> QED BY <1>2, <1>8, <2>1, <2>2, <2>3 DEF Reranked, MediaInv, MediaTypeOK, AllStand
  <1>9. CASE Breaks(r)
    <2>1. AllStand
      BY <1>4, <1>9 DEF Breaks
    <2> QED BY <1>2, <1>9, <2>1 DEF Breaks, MediaInv, MediaTypeOK, AllStand
  <1>10. CASE RerankRefuses(r)
    <2>1. AllStand
      BY <1>3, <1>10 DEF RerankRefuses
    <2> QED BY <1>2, <1>10, <2>1 DEF RerankRefuses, MediaInv, MediaTypeOK, AllStand
  <1>11. ASSUME NEW status \in {400, 413}, EmbedRefuses(r, status) PROVE MediaInv'
    <2>1. AllStand
      BY <1>3, <1>11 DEF EmbedRefuses
    <2>2. ceiling' \in [Backend -> Nat] /\ refusers' \subseteq Backend
      BY <1>1, <1>2, <1>6, <1>11 DEF EmbedRefuses, b
    <2> QED BY <1>2, <1>11, <2>1, <2>2 DEF EmbedRefuses, MediaInv, MediaTypeOK, AllStand
  <1>12. ASSUME NEW cools \in BOOLEAN, Fails(r, cools) PROVE MediaInv'
    <2>1. AllStand
      BY <1>3, <1>12 DEF Fails
    <2>2. cooling' \subseteq Backend
      BY <1>1, <1>2, <1>12 DEF Fails, b
    <2>3. failed' \in [Backend -> 0..2]
      <3> DEFINE run == IF failed[b] = 2 THEN 0 ELSE failed[b] + 1
      <3>1. failed' = [failed EXCEPT ![b] = run]
        BY <1>12 DEF Fails, b
      <3>2. failed[b] \in 0..2
        BY <1>1, <1>2
      <3>3. run \in 0..2
        BY <3>2
      <3> QED BY <1>2, <3>1, <3>3
    <2> QED BY <1>2, <1>12, <2>1, <2>2, <2>3 DEF Fails, MediaInv, MediaTypeOK, AllStand
  <1> QED BY <1>7, <1>8, <1>9, <1>10, <1>11, <1>12

LEMMA MediaKeeps == MediaInv /\ [MediaNext]_mediaVars => MediaInv'
  <1> SUFFICES ASSUME MediaInv, [MediaNext]_mediaVars PROVE MediaInv'
    OBVIOUS
  <1>1. ASSUME NEW r \in MediaReq,
               NEW to \in {"checked", "blocked", "answered", "broken", "left"},
               to \in {"checked", "blocked"} => media[r].phase = "new", Phase(r, to), Still
        PROVE  MediaInv'
    <2>1. media' \in [MediaReq -> MediaCall] /\ \A q \in MediaReq : CallStands(media'[q])
      BY <1>1, PhaseKeepsCalls
    <2> QED BY <1>1, <2>1 DEF Still, MediaInv, MediaTypeOK
  <1>2. ASSUME NEW r \in MediaReq, NEW verdict \in {"checked", "blocked"},
               Preflight(r, verdict)
        PROVE  MediaInv'
    BY <1>1, <1>2 DEF Preflight
  <1>3. ASSUME NEW r \in MediaReq, EmbeddingsHandler(r) \/ RerankHandlerSteps(r)
        PROVE  MediaInv'
    <2>1. ASSUME NEW pin \in Backend \cup {Unpinned}, NEW size \in Size,
                 BeginEmbed(r, pin, size)
          PROVE  MediaInv'
      BY <2>1, SizeAssumption, StartKeepsCalls DEF BeginEmbed
    <2>2. ASSUME NEW pin \in Backend \cup {Unpinned}, BeginRerank(r, pin)
          PROVE  MediaInv'
      BY <2>2, StartKeepsCalls DEF BeginRerank
    <2>3. ASSUME NEW cools \in BOOLEAN, EmbedFails(r, cools) \/ RerankFails(r, cools)
          PROVE  MediaInv'
      BY <2>3, AnswersKeepMedia DEF EmbedFails, RerankFails
    <2> QED BY <1>3, <2>1, <2>2, <2>3, AnswersKeepMedia DEF EmbeddingsHandler, RerankHandlerSteps
  <1>5. ASSUME NEW r \in MediaReq, NEW end \in {"answered", "broken"}, Charge(r, end)
        PROVE  MediaInv'
    BY <1>1, <1>5 DEF Charge
  <1>6. ASSUME NEW r \in MediaReq, Leaves(r) PROVE MediaInv'
    BY <1>1, <1>6 DEF Leaves
  <1>7. ASSUME NEW b \in Backend, Cool(b) PROVE MediaInv'
    BY <1>7 DEF Cool, MediaInv, MediaTypeOK
  <1>8. CASE UNCHANGED mediaVars
    BY <1>8 DEF mediaVars, MediaInv, MediaTypeOK
  <1> QED BY <1>2, <1>3, <1>5, <1>6, <1>7, <1>8 DEF MediaNext

LEMMA MediaInvariant == MediaSpec => []MediaInv
  <1>1. MediaInit => MediaInv
    <2> SUFFICES ASSUME MediaInit PROVE MediaInv
      OBVIOUS
    <2>1. Fresh \in MediaCall /\ CallStands(Fresh)
      BY BackendsAssumption DEF Fresh, MediaCall, MediaPhase, CallStands, Backend, Unpinned
    <2>2. media \in [MediaReq -> MediaCall] /\ \A r \in MediaReq : CallStands(media[r])
      BY <2>1 DEF MediaInit
    <2>3. MediaTypeOK
      BY DEF MediaInit, MediaTypeOK
    <2> QED BY <2>2, <2>3 DEF MediaInv
  <1> QED BY <1>1, MediaKeeps, PTL DEF MediaSpec

\* The round robin, the cooldowns, the runs of failures and the learned ceilings
\* are those of configured backends (embed.py, rerank.py).
THEOREM MediaTypeCorrect == MediaSpec => []MediaTypeOK
  <1>1. MediaInv => MediaTypeOK
    BY DEF MediaInv
  <1> QED BY <1>1, MediaInvariant, PTL

\* For any number of backends and of overlapping requests: whoever is refused has
\* had each backend of its list called or passed over (embed.py:660,
\* rerank.py:706).
THEOREM RefusalsAreEarned == MediaSpec => []RefusedByAll
  <1>1. MediaInv => RefusedByAll
    BY DEF MediaInv, CallStands, RefusedByAll
  <1> QED BY <1>1, MediaInvariant, PTL
=============================================================================
