---------------------------- MODULE RoutingProofs ----------------------------
(***************************************************************************)
(* The path of one request, for any values of the constants.               *)
(*                                                                         *)
(* RequestRouting (any candidates, chain of pools, tool evidence and       *)
(* limits): its type, that a call of the loop tries nobody twice, that it  *)
(* gives up only when nothing usable is left, that no provider follows     *)
(* output the client has seen, that a call's dispatches are bounded and    *)
(* that none of them counts as two failures.                               *)
(* AutoCatalog: its type, that the operator's models stay in every pool    *)
(* and that a provider's outage takes none of its models away.             *)
(* StreamTurn: that the texts of a turn arrive whole and in order, that    *)
(* its calls stay apart however the provider numbers them and that the     *)
(* blocks of the client's message follow the turn.                         *)
(***************************************************************************)
EXTENDS RequestRouting, AutoCatalog, StreamTurn,
        FiniteSetTheorems, SequenceTheorems, WellFoundedInduction, TLAPS

(***************************************************************************)
(* Type correctness.  attempts stays within its limit because a candidate  *)
(* is only ever selected below it.                                         *)
(***************************************************************************)

BelowLimit == pc \in {"check", "admitted"} /\ ~Direct => attempts < MaxAttempts

\* A request that names its model never selects.
DirectNeverSelects == Direct => pc # "select"

TypeInv == TypeOK /\ BelowLimit /\ DirectNeverSelects

\* The pools hold candidates, and there is a first one.
LEMMA PoolsHoldCandidates ==
    /\ FirstPool \in DOMAIN Chain
    /\ DOMAIN Chain = 1..LastPool
    /\ LastPool \in Nat \ {0}
    /\ \A i \in DOMAIN Chain : Chain[i] \subseteq Cand
  <1>1. Chain \in Seq(SUBSET Cand) /\ Chain # <<>>
    BY ChainAssumption DEF ChainAssumption
  <1> QED BY <1>1 DEF FirstPool, LastPool

\* Recording a failure keeps the count of failures a function to Nat.
LEMMA BlameType ==
    ASSUME NEW c \in Cand, failures \in [Cand -> Nat], Blame(c)
    PROVE  failures' \in [Cand -> Nat]
  BY DEF Blame

\* Giving up leaves the loop for good, with a reason.
LEMMA GiveUpType ==
    ASSUME TypeInv, NEW why \in Reason, GiveUp(why)
    PROVE  /\ failures' \in [Cand -> Nat]
           /\ pc' = "failed"
           /\ reason' \in Reason
  <1>1. CASE origin = NoCand
    BY <1>1 DEF GiveUp, Raise, TypeInv, TypeOK
  <1>2. CASE origin # NoCand
    BY <1>2, BlameType DEF GiveUp, Raise, TypeInv, TypeOK
  <1> QED BY <1>1, <1>2

\* The type holds at first.
LEMMA TypeInit == Init => TypeInv
  <1> SUFFICES ASSUME Init PROVE TypeInv
    OBVIOUS
  <1>1. MaxAttempts \in Nat \ {0} /\ MaxFailovers \in Nat \ {0}
    BY LimitAssumption DEF LimitAssumption
  <1>2. Listed \subseteq Cand /\ Chain[1] \subseteq Cand
    BY PoolsHoldCandidates DEF Listed, FirstPool
  <1>3. pc \in {"select", "check"} /\ selected \in Cand \cup {NoCand}
    BY <1>2 DEF Init
  <1>4. pending \in Cand \cup {NoCand}
    BY <1>2, PoolsHoldCandidates DEF Init, FirstPool
  <1>5. pc \in {"check", "admitted", "attempt", "pump"} => selected \in Cand
    BY <1>2 DEF Init
  <1>6. /\ unblocked \subseteq Cand /\ excluded \subseteq Cand
        /\ inCall \in [Cand -> Nat] /\ dispatches \in [Cand -> Nat]
        /\ failures \in [Cand -> Nat]
    BY DEF Init
  <1>7. pool \in 0..LastPool
    BY PoolsHoldCandidates DEF Init, FirstPool
  <1>8. attempts \in 0..MaxAttempts /\ cycles \in 0..MaxFailovers
    BY <1>1 DEF Init
  <1>9. TypeOK
    BY <1>3, <1>4, <1>5, <1>6, <1>7, <1>8 DEF Init, TypeOK, Stage, Reason
  <1>10. BelowLimit /\ DirectNeverSelects
    BY <1>1 DEF Init, BelowLimit, DirectNeverSelects, Direct, FirstPool
  <1> QED BY <1>9, <1>10 DEF TypeInv

\* Every step preserves the type.
LEMMA TypeStep == TypeInv /\ [Next]_vars => TypeInv'
  <1> SUFFICES ASSUME TypeInv, [Next]_vars PROVE TypeInv'
    OBVIOUS
  <1> USE DEF TypeInv, TypeOK, BelowLimit, DirectNeverSelects, Direct, AtLimit,
              Stage, Reason
  <1>pools. LastPool \in Nat \ {0} /\ FirstPool = 1
    BY PoolsHoldCandidates DEF FirstPool
  <1>limits. MaxAttempts \in Nat \ {0} /\ MaxFailovers \in Nat \ {0}
    BY LimitAssumption DEF LimitAssumption
  <1>1. CASE LimitReached
    BY <1>1, GiveUpType DEF LimitReached, pump, env
  <1>2. CASE SelectCandidate
    <2>1. /\ pc' = "check" /\ selected' \in Cand
          /\ pending' \in Cand \cup {NoCand}
      <3>1. pool \in DOMAIN Chain
        BY <1>2, PoolsHoldCandidates DEF SelectCandidate
      <3> QED BY <1>2, <3>1, PoolsHoldCandidates DEF SelectCandidate, Pick, Eligible
    <2>2. Direct \/ attempts < MaxAttempts
      BY <1>2, <1>limits DEF SelectCandidate
    <2> QED BY <1>2, <2>1, <2>2 DEF SelectCandidate, Pick, pump, env, history
  <1>3. CASE NextPool
    BY <1>3, <1>pools DEF NextPool, NothingSelected, AtLimit, pump, env, history
  <1>4. CASE StartRecovery
    BY <1>4, <1>pools
    DEF StartRecovery, NothingSelected, RecoveryStarted, pump, env, history
  <1>5. CASE StartCompatibility
    BY <1>5, <1>pools
    DEF StartCompatibility, NothingSelected, pump, env, history
  <1>6. CASE Exhausted
    BY <1>6, GiveUpType DEF Exhausted, NothingSelected, pump, env
  <1>7. CASE Check
    BY <1>7 DEF Check, Raise, pump, env, history
  <1>8. CASE Dispatch
    BY <1>8, <1>limits DEF Dispatch, AttemptsAfter, pump, env
  <1>9. CASE BudgetSpent
    BY <1>9, <1>limits, GiveUpType DEF BudgetSpent, AttemptsAfter, pump, env
  <1>10. CASE AttemptSucceeds
    BY <1>10 DEF AttemptSucceeds, loop, pump, env, history
  <1>11. CASE AttemptFails
    <2>1. /\ failures' \in [Cand -> Nat]
          /\ pc' \in {"failed", "select"} /\ reason' \in Reason
          /\ excluded' \subseteq Cand /\ (Direct => pc' = "failed")
      BY <1>11, BlameType DEF AttemptFails, Raise, ExcludedAfter
    <2> QED BY <1>11, <2>1 DEF AttemptFails, pump, env
  <1>12. CASE ApprovalRequired
    BY <1>12, GiveUpType DEF ApprovalRequired, pump, env
  <1>13. CASE Show
    BY <1>13 DEF Show, loop, env, history
  <1>14. CASE StreamEnds
    BY <1>14 DEF StreamEnds, loop, pump, env, history
  <1>15. CASE FailOver
    <2>1. failures' \in [Cand -> Nat]
      BY <1>15, BlameType DEF FailOver
    <2>2. attempts' \in 0..MaxAttempts /\ cycles' \in 0..MaxFailovers
      BY <1>15, <1>limits DEF FailOver, MayFailOver
    <2>3. /\ excluded' \subseteq Cand /\ unblocked' \subseteq Cand
          /\ inCall' \in [Cand -> Nat] /\ pool' = 1 /\ pc' = "select"
      BY <1>15, <1>pools DEF FailOver
    <2>4. /\ recovery' \in BOOLEAN /\ compat' \in BOOLEAN
          /\ origin' \in Cand \cup {NoCand}
          /\ UNCHANGED <<pending, selected, decision, reason, visible, time,
                         status, dispatches>>
      BY <1>15 DEF FailOver
    <2> QED BY <2>1, <2>2, <2>3, <2>4, <1>pools
  <1>16. CASE StreamFails
    BY <1>16, BlameType DEF StreamFails, Raise, pump, env
  <1>17. CASE PumpStops
    BY <1>17 DEF PumpStops, Raise, pump, env, history
  <1>18. CASE TimePasses
    <2>1. time' \in {"ample", "short", "over"}
      BY <1>18 DEF TimePasses
    <2> QED BY <1>18, <2>1 DEF TimePasses, loop, pump, history
  <1>19. CASE Cancel
    BY <1>19 DEF Cancel, loop, pump, env, history
  <1>20. ASSUME NEW c \in Cand, Disturb(c) PROVE TypeInv'
    BY <1>20 DEF Disturb, loop, pump, history
  <1>21. CASE UNCHANGED vars
    BY <1>21 DEF vars, loop, pump, env, history
  <1> QED BY <1>1, <1>2, <1>3, <1>4, <1>5, <1>6, <1>7, <1>8, <1>9, <1>10,
             <1>11, <1>12, <1>13, <1>14, <1>15, <1>16, <1>17, <1>18, <1>19,
             <1>20, <1>21
          DEF Next, Loop, Attempt, Pump

\* Every variable keeps its type, for any chain of pools and any limits.
THEOREM TypeCorrect == Spec => []TypeOK
  <1>1. TypeInv => TypeOK
    BY DEF TypeInv
  <1> QED BY <1>1, TypeInit, TypeStep, PTL DEF Spec

(***************************************************************************)
(* A call of the loop tries nobody twice.  A candidate that was dispatched *)
(* is excluded, or is the one at hand; a candidate just selected was not.  *)
(***************************************************************************)

\* Who was dispatched in this call is excluded or still at hand.
DispatchedOnce ==
    /\ \A c \in Cand : inCall[c] > 0 =>
          /\ inCall[c] = 1
          /\ \/ c \in excluded
             \/ c = selected /\ pc \notin {"select", "check", "admitted"}
    /\ pc \in {"check", "admitted"} => inCall[selected] = 0

\* The candidate resolved beforehand comes before every dispatch.
PendingFirst ==
    pending # NoCand => /\ pc \in {"select", "failed", "cancelled"}
                        /\ \A c \in Cand : inCall[c] = 0

OnceInv == TypeInv /\ DispatchedOnce /\ PendingFirst

\* The bookkeeping of dispatches survives every step.
LEMMA OnceStep == OnceInv /\ [Next]_vars => OnceInv'
  <1> SUFFICES ASSUME OnceInv, [Next]_vars PROVE OnceInv'
    OBVIOUS
  <1>type. TypeInv'
    BY TypeStep DEF OnceInv
  <1> SUFFICES DispatchedOnce' /\ PendingFirst'
    BY <1>type DEF OnceInv
  <1> USE DEF OnceInv, DispatchedOnce, PendingFirst
  <1>calls. inCall \in [Cand -> Nat]
    BY DEF TypeInv, TypeOK
  <1>1. CASE LimitReached
    BY <1>1 DEF LimitReached, GiveUp, Raise, pump, env
  <1>2. CASE SelectCandidate
    <2>1. CASE pending # NoCand
      BY <1>2, <2>1, <1>calls DEF SelectCandidate, Pick, history, TypeInv, TypeOK
    <2>2. CASE pending = NoCand
      <3>1. PICK c \in Eligible : Pick(c) /\ UNCHANGED pending
        BY <1>2, <2>2 DEF SelectCandidate
      <3>2. c \in Cand /\ c \notin excluded
        <4>1. pool \in DOMAIN Chain
          BY <1>2, PoolsHoldCandidates
          DEF SelectCandidate, TypeInv, TypeOK, DirectNeverSelects, Direct
        <4> QED BY <4>1, PoolsHoldCandidates DEF Eligible
      <3>3. inCall[c] = 0
        BY <1>2, <3>2, <1>calls DEF SelectCandidate
      <3> QED BY <1>2, <2>2, <3>1, <3>3 DEF SelectCandidate, Pick, history
    <2> QED BY <2>1, <2>2
  <1>3. CASE NextPool \/ StartRecovery \/ StartCompatibility
    BY <1>3 DEF NextPool, StartRecovery, StartCompatibility, NothingSelected,
                history
  <1>4. CASE Exhausted
    BY <1>4 DEF Exhausted, NothingSelected, GiveUp, Raise
  <1>5. CASE Check
    BY <1>5 DEF Check, Raise, history, TypeInv, TypeOK
  <1>6. CASE Dispatch
    <2>1. selected \in Cand /\ inCall[selected] = 0
      BY <1>6 DEF Dispatch, TypeInv, TypeOK
    <2>2. inCall' = [inCall EXCEPT ![selected] = 1]
      BY <1>6, <2>1 DEF Dispatch
    <2> QED BY <1>6, <1>calls, <2>1, <2>2 DEF Dispatch
  <1>7. CASE BudgetSpent
    BY <1>7 DEF BudgetSpent, GiveUp, Raise
  <1>8. CASE AttemptSucceeds
    BY <1>8 DEF AttemptSucceeds, loop, history
  <1>9. CASE AttemptFails
    BY <1>9 DEF AttemptFails, Raise, ExcludedAfter
  <1>10. CASE ApprovalRequired
    BY <1>10 DEF ApprovalRequired, GiveUp, Raise
  <1>11. CASE Show
    BY <1>11 DEF Show, loop, history
  <1>12. CASE StreamEnds
    BY <1>12 DEF StreamEnds, loop, history
  <1>13. CASE FailOver
    BY <1>13 DEF FailOver
  <1>14. CASE StreamFails \/ PumpStops
    BY <1>14 DEF StreamFails, PumpStops, Raise, history
  <1>15. CASE TimePasses
    BY <1>15 DEF TimePasses, loop, history
  <1>16. CASE Cancel
    BY <1>16 DEF Cancel, loop, history
  <1>17. ASSUME NEW c \in Cand, Disturb(c)
         PROVE  DispatchedOnce' /\ PendingFirst'
    BY <1>17 DEF Disturb, loop, history
  <1>18. CASE UNCHANGED vars
    BY <1>18 DEF vars, loop, history
  <1> QED BY <1>1, <1>2, <1>3, <1>4, <1>5, <1>6, <1>7, <1>8, <1>9, <1>10,
             <1>11, <1>12, <1>13, <1>14, <1>15, <1>16, <1>17, <1>18
          DEF Next, Loop, Attempt, Pump

\* However the pools overlap and however selection, breaker and cache choose,
\* one call of the loop dispatches no candidate twice.
THEOREM TriedOnce == Spec => []OncePerCall
  <1>1. Init => OnceInv
    <2> SUFFICES ASSUME Init PROVE OnceInv
      OBVIOUS
    <2>1. TypeInv
      BY TypeInit
    <2>2. \A c \in Cand : inCall[c] = 0
      BY DEF Init
    <2>3. DispatchedOnce
      BY <2>1, <2>2 DEF DispatchedOnce, TypeInv, TypeOK
    <2>4. PendingFirst
      BY <2>2 DEF Init, PendingFirst
    <2> QED BY <2>1, <2>3, <2>4 DEF OnceInv
  <1>2. OnceInv => OncePerCall
    BY DEF OnceInv, OncePerCall, DispatchedOnce, TypeInv, TypeOK
  <1> QED BY <1>1, <1>2, OnceStep, PTL DEF Spec

(***************************************************************************)
(* The loop gives up only when nothing usable is left.  In the last pass   *)
(* everyone usable in the pools already left behind is excluded: selection *)
(* ignores cooldowns in that pass, so only a quarantine hides a candidate. *)
(***************************************************************************)

LastPass == recovery /\ (RequiresTools => compat)

\* Everyone usable in the pools before the active one is excluded.
Swept ==
    LastPass => \A i \in 1..(pool - 1) : \A c \in Chain[i] \cap unblocked :
                    ToolsAllowed(c) => c \in excluded

\* Who was never blocked is not blocked now.
HistoryRight == \A c \in unblocked : status[c] # "blocked"

\* Having given up is final.
GivenUp ==
    /\ reason # "none" => pc = "failed"
    /\ ExhaustedMeansTried

SweepInv == TypeInv /\ Swept /\ HistoryRight /\ GivenUp

\* A pool without an eligible candidate has nobody usable left in the last pass.
LEMMA PoolSwept ==
    ASSUME SweepInv, LastPass, NothingSelected
    PROVE  \A i \in 1..pool : \A c \in Chain[i] \cap unblocked :
               ToolsAllowed(c) => c \in excluded
  <1> SUFFICES ASSUME NEW i \in 1..pool, NEW c \in Chain[i] \cap unblocked,
                      ToolsAllowed(c)
               PROVE  c \in excluded
    OBVIOUS
  <1>1. pool \in 1..LastPool /\ LastPool \in Nat
    BY PoolsHoldCandidates DEF SweepInv, TypeInv, TypeOK, NothingSelected, Direct
  <1>2. CASE i = pool
    <2>1. status[c] \in {"ok", "cooling"}
      BY DEF SweepInv, HistoryRight, TypeInv, TypeOK
    <2>2. Cool(c)
      BY <2>1 DEF Cool, LastPass
    <2> QED BY <1>2, <2>2 DEF NothingSelected, Eligible
  <1>3. CASE i # pool
    <2>1. i \in 1..(pool - 1)
      BY <1>1, <1>3
    <2> QED BY <2>1 DEF SweepInv, Swept
  <1> QED BY <1>2, <1>3

\* A step that moves on within the pass, excludes at most more candidates and
\* gives up for no want of candidates keeps the sweep.
LEMMA SweepKept ==
    ASSUME SweepInv,
           UNCHANGED <<pool, recovery, compat>>,
           unblocked' \subseteq unblocked,
           excluded \subseteq excluded'
    PROVE  Swept'
  BY DEF SweepInv, Swept, LastPass, ToolsAllowed

LEMMA SweepStep == SweepInv /\ [Next]_vars => SweepInv'
  <1> SUFFICES ASSUME SweepInv, [Next]_vars PROVE SweepInv'
    OBVIOUS
  <1>type. TypeInv'
    BY TypeStep DEF SweepInv
  <1> SUFFICES Swept' /\ HistoryRight' /\ GivenUp'
    BY <1>type DEF SweepInv
  <1>pool. pool \in 0..LastPool /\ LastPool \in Nat
    BY PoolsHoldCandidates DEF SweepInv, TypeInv, TypeOK
  <1>1. CASE LimitReached
    <2>1. Swept'
      BY <1>1, SweepKept DEF LimitReached, env
    <2> QED BY <1>1, <2>1 DEF LimitReached, GiveUp, Raise, env, SweepInv,
                              HistoryRight, GivenUp, ExhaustedMeansTried
  <1>2. CASE SelectCandidate
    <2>1. Swept'
      BY <1>2, SweepKept DEF SelectCandidate, Pick, env
    <2> QED BY <1>2, <2>1 DEF SelectCandidate, Pick, env, SweepInv,
                              HistoryRight, GivenUp, ExhaustedMeansTried
  <1>3. CASE NextPool
    <2>1. Swept'
      <3>1. CASE LastPass
        <4>1. \A i \in 1..pool : \A c \in Chain[i] \cap unblocked :
                 ToolsAllowed(c) => c \in excluded
          BY <1>3, <3>1, PoolSwept DEF NextPool
        <4>2. pool' - 1 = pool
          BY <1>3, <1>pool DEF NextPool
        <4> QED BY <1>3, <4>1, <4>2 DEF NextPool, Swept, ToolsAllowed, env
      <3>2. CASE ~LastPass
        BY <1>3, <3>2 DEF NextPool, Swept, LastPass
      <3> QED BY <3>1, <3>2
    <2> QED BY <1>3, <2>1 DEF NextPool, NothingSelected, env, SweepInv,
                              HistoryRight, GivenUp, ExhaustedMeansTried
  <1>4. CASE StartRecovery \/ StartCompatibility
    <2>1. Swept'
      BY <1>4 DEF StartRecovery, StartCompatibility, FirstPool, Swept
    <2> QED BY <1>4, <2>1
            DEF StartRecovery, StartCompatibility, NothingSelected, env,
                SweepInv, HistoryRight, GivenUp, ExhaustedMeansTried
  <1>5. CASE Exhausted
    <2>1. LastPass
      BY <1>5 DEF Exhausted, LastPass
    <2>2. \A i \in DOMAIN Chain : \A c \in Chain[i] \cap unblocked :
              ToolsAllowed(c) => c \in excluded
      BY <1>5, <2>1, PoolSwept, PoolsHoldCandidates DEF Exhausted
    <2>3. \A c \in Listed \cap unblocked : ToolsAllowed(c) => c \in excluded
      BY <2>2 DEF Listed
    <2>4. GivenUp'
      BY <1>5, <2>3 DEF Exhausted, GiveUp, Raise, env, GivenUp,
                        ExhaustedMeansTried, ToolsAllowed
    <2>5. Swept'
      BY <1>5, SweepKept DEF Exhausted, env
    <2> QED BY <1>5, <2>4, <2>5 DEF Exhausted, env, SweepInv, HistoryRight
  <1>6. CASE Check \/ AttemptFails
    <2>1. Swept'
      BY <1>6, SweepKept DEF Check, AttemptFails, ExcludedAfter, Raise, env
    <2> QED BY <1>6, <2>1 DEF Check, AttemptFails, Raise, env, SweepInv,
                              HistoryRight, GivenUp, ExhaustedMeansTried
  <1>7. CASE Dispatch
    <2>1. Swept'
      BY <1>7, SweepKept DEF Dispatch, env
    <2> QED BY <1>7, <2>1 DEF Dispatch, env, SweepInv, HistoryRight, GivenUp,
                              ExhaustedMeansTried
  <1>8. CASE BudgetSpent \/ ApprovalRequired
    <2>1. Swept'
      BY <1>8, SweepKept DEF BudgetSpent, ApprovalRequired, env
    <2> QED BY <1>8, <2>1 DEF BudgetSpent, ApprovalRequired, GiveUp, Raise, env,
                              SweepInv, HistoryRight, GivenUp,
                              ExhaustedMeansTried
  <1>9. CASE AttemptSucceeds \/ Show \/ StreamEnds
    <2>1. Swept'
      BY <1>9, SweepKept DEF AttemptSucceeds, Show, StreamEnds, loop, env
    <2> QED BY <1>9, <2>1 DEF AttemptSucceeds, Show, StreamEnds, loop, env,
                              SweepInv, HistoryRight, GivenUp,
                              ExhaustedMeansTried
  <1>10. CASE FailOver
    BY <1>10 DEF FailOver, SweepInv, Swept, LastPass, HistoryRight, GivenUp,
                 ExhaustedMeansTried
  <1>11. CASE StreamFails \/ PumpStops
    <2>1. Swept'
      BY <1>11, SweepKept DEF StreamFails, PumpStops, env
    <2> QED BY <1>11, <2>1 DEF StreamFails, PumpStops, Raise, env, SweepInv,
                               HistoryRight, GivenUp, ExhaustedMeansTried
  <1>12. CASE TimePasses
    <2>1. Swept'
      BY <1>12, SweepKept DEF TimePasses, loop
    <2> QED BY <1>12, <2>1 DEF TimePasses, loop, Final, SweepInv, HistoryRight,
                               GivenUp, ExhaustedMeansTried
  <1>13. CASE Cancel
    <2>1. Swept'
      BY <1>13, SweepKept DEF Cancel, loop, env
    <2> QED BY <1>13, <2>1 DEF Cancel, loop, env, SweepInv, HistoryRight, GivenUp,
                               Final, ExhaustedMeansTried
  <1>14. ASSUME NEW c \in Cand, Disturb(c)
         PROVE  Swept' /\ HistoryRight' /\ GivenUp'
    <2>1. Swept'
      BY <1>14, SweepKept DEF Disturb, loop
    <2>2. HistoryRight'
      BY <1>14 DEF Disturb, SweepInv, HistoryRight, TypeInv, TypeOK
    <2> QED BY <1>14, <2>1, <2>2 DEF Disturb, loop, Final, SweepInv, GivenUp,
                                     ExhaustedMeansTried
  <1>15. CASE UNCHANGED vars
    <2>1. Swept'
      BY <1>15, SweepKept DEF vars, loop, env
    <2> QED BY <1>15, <2>1 DEF vars, loop, env, SweepInv, HistoryRight, GivenUp,
                               ExhaustedMeansTried, ToolsAllowed
  <1> QED BY <1>1, <1>2, <1>3, <1>4, <1>5, <1>6, <1>7, <1>8, <1>9, <1>10,
             <1>11, <1>12, <1>13, <1>14, <1>15
          DEF Next, Loop, Attempt, Pump

\* Whatever cools, recovers or is quarantined meanwhile, the loop reports no
\* healthy model only if it tried or was denied every listed candidate that was
\* never blocked and whose tool evidence the last pass accepts.
THEOREM NobodyPassedOver == Spec => []ExhaustedMeansTried
  <1>1. Init => SweepInv
    BY TypeInit DEF Init, SweepInv, Swept, LastPass, HistoryRight, GivenUp,
                    ExhaustedMeansTried
  <1>2. SweepInv => ExhaustedMeansTried
    BY DEF SweepInv, GivenUp
  <1> QED BY <1>1, <1>2, SweepStep, PTL DEF Spec

(***************************************************************************)
(* No provider follows output the client has seen: only the pump shows     *)
(* output, and only a failover leads from the pump back to a dispatch.     *)
(***************************************************************************)

ShownByPump == visible => pc \in {"pump", "ok", "failed", "cancelled"}

\* Nothing leads from shown output back into the loop.
LEMMA ShownStep == ShownByPump /\ [Next]_vars => ShownByPump'
  <1> SUFFICES ASSUME ShownByPump, [Next]_vars PROVE ShownByPump'
    OBVIOUS
  <1> USE DEF ShownByPump
  <1>1. CASE Loop
    BY <1>1 DEF Loop, LimitReached, SelectCandidate, Pick, NextPool,
                StartRecovery, StartCompatibility, Exhausted, NothingSelected,
                Check, Dispatch, BudgetSpent, GiveUp, Raise, pump
  <1>2. CASE Attempt
    BY <1>2 DEF Attempt, AttemptSucceeds, AttemptFails, ApprovalRequired,
                GiveUp, Raise, pump
  <1>3. CASE Pump
    BY <1>3 DEF Pump, StreamEnds, FailOver, MayFailOver, StreamFails,
                PumpStops, Raise, pump
  <1>4. CASE Show
    BY <1>4 DEF Show
  <1>5. CASE TimePasses \/ Cancel \/ UNCHANGED vars
    BY <1>5 DEF TimePasses, Cancel, vars, pump
  <1>6. ASSUME NEW c \in Cand, Disturb(c) PROVE ShownByPump'
    BY <1>6 DEF Disturb, pump
  <1> QED BY <1>1, <1>2, <1>3, <1>4, <1>5, <1>6 DEF Next

\* Once the client has seen output of a model, no other one is dispatched.
THEOREM NeverSpliced == Spec => NeverSplices
  <1>1. Init => ShownByPump
    BY DEF Init, ShownByPump
  <1>2. ShownByPump /\ [Next]_vars =>
            [visible => dispatches' = dispatches]_vars
    <2> SUFFICES ASSUME ShownByPump, visible, Next
                 PROVE  dispatches' = dispatches
      BY DEF vars, history
    <2>1. CASE Loop
      BY <2>1 DEF ShownByPump, Loop, LimitReached, SelectCandidate, NextPool,
                  StartRecovery, StartCompatibility, Exhausted,
                  NothingSelected, Check, Dispatch, BudgetSpent
    <2>2. CASE Attempt
      BY <2>2 DEF ShownByPump, Attempt, AttemptSucceeds, AttemptFails,
                  ApprovalRequired
    <2>3. CASE Pump \/ Show \/ TimePasses \/ Cancel
      BY <2>3 DEF Pump, StreamEnds, FailOver, StreamFails, PumpStops, Show,
                  TimePasses, Cancel, history
    <2>4. ASSUME NEW c \in Cand, Disturb(c) PROVE dispatches' = dispatches
      BY <2>4 DEF Disturb, history
    <2> QED BY <2>1, <2>2, <2>3, <2>4 DEF Next
  <1> QED BY <1>1, <1>2, ShownStep, PTL DEF Spec, NeverSplices

(***************************************************************************)
(* A call of the loop dispatches at most MaxAttempts candidates: each one  *)
(* it dispatches counts as an attempt, and a request that names its model  *)
(* dispatches that one only.                                               *)
(***************************************************************************)

\* The candidates dispatched in this call.
Tried == {c \in Cand : inCall[c] > 0}

\* Every dispatch was counted.
Counted ==
    /\ Direct => Tried \subseteq {selected}
    /\ Direct /\ pc \in {"check", "admitted"} => Tried = {}
    /\ ~Direct => Cardinality(Tried) <= attempts

CountInv == TypeInv /\ Counted

LEMMA TriedIsFinite == IsFiniteSet(Tried) /\ Cardinality(Tried) \in Nat
  <1>1. IsFiniteSet(Tried)
    BY CandAssumption, FS_Subset DEF CandAssumption, Tried
  <1> QED BY <1>1, FS_CardinalityType

\* A step that dispatches nobody and neither forgets an attempt nor selects
\* anew keeps the count.
LEMMA CountKept ==
    ASSUME CountInv,
           UNCHANGED <<inCall, pool>>,
           attempts' \in Nat, attempts' >= attempts,
           Direct => selected' = selected,
           Direct /\ pc' \in {"check", "admitted"} => pc \in {"check", "admitted"}
    PROVE  Counted'
  <1>1. attempts \in Nat
    BY LimitAssumption DEF LimitAssumption, CountInv, TypeInv, TypeOK
  <1>2. Tried' = Tried
    BY DEF Tried
  <1> QED BY <1>1, <1>2, TriedIsFinite DEF CountInv, Counted, Direct

LEMMA CountStep == CountInv /\ [Next]_vars => CountInv'
  <1> SUFFICES ASSUME CountInv, [Next]_vars PROVE CountInv'
    OBVIOUS
  <1>type. TypeInv'
    BY TypeStep DEF CountInv
  <1> SUFFICES Counted'
    BY <1>type DEF CountInv
  <1>num. attempts \in Nat /\ attempts' \in Nat /\ (Direct => pc # "select")
    BY <1>type, LimitAssumption
    DEF LimitAssumption, CountInv, TypeInv, TypeOK, DirectNeverSelects
  <1>1. CASE Dispatch
    <2>1. Tried' = Tried \cup {selected}
      BY <1>1 DEF Dispatch, Tried, CountInv, TypeInv, TypeOK
    <2>2. CASE Direct
      BY <1>1, <2>1, <2>2 DEF Dispatch, CountInv, Counted, Direct
    <2>3. CASE ~Direct
      <3>1. Cardinality(Tried') <= Cardinality(Tried) + 1
        <4>1. Cardinality(Tried \cup {selected})
                  = IF selected \in Tried THEN Cardinality(Tried)
                                          ELSE Cardinality(Tried) + 1
          BY TriedIsFinite, FS_AddElement
        <4>2. Cardinality(Tried') \in {Cardinality(Tried), Cardinality(Tried) + 1}
          BY <2>1, <4>1
        <4> QED BY <4>2, TriedIsFinite
      <3>2. attempts' = attempts + 1 /\ ~Direct'
        BY <1>1, <2>3 DEF Dispatch, AttemptsAfter, Direct
      <3>3. Cardinality(Tried') \in Nat
        BY <2>1, TriedIsFinite, FS_AddElement, FS_CardinalityType
      <3> QED BY <2>3, <3>1, <3>2, <3>3, <1>num, TriedIsFinite
              DEF CountInv, Counted
    <2> QED BY <2>2, <2>3
  <1>2. CASE FailOver
    <2>1. Tried' = {} /\ ~Direct'
      BY <1>2 DEF FailOver, Tried, FirstPool, Direct
    <2> QED BY <2>1, <1>num, FS_EmptySet DEF Counted
  <1>3. CASE SelectCandidate
    BY <1>3, <1>num, CountKept DEF SelectCandidate, Pick, history
  <1>4. CASE NextPool \/ StartRecovery \/ StartCompatibility
    <2>1. ~Direct /\ ~Direct' /\ UNCHANGED <<inCall, attempts>>
      <3>1. pool' # 0
        BY <1>4 DEF NextPool, StartRecovery, StartCompatibility, FirstPool,
                    CountInv, TypeInv, TypeOK
      <3> QED BY <1>4, <3>1 DEF NextPool, StartRecovery, StartCompatibility,
                  NothingSelected, Direct, history
    <2>2. Tried' = Tried
      BY <2>1 DEF Tried
    <2> QED BY <2>1, <2>2 DEF CountInv, Counted
  <1>5. CASE LimitReached \/ Exhausted
    BY <1>5, <1>num, CountKept
    DEF LimitReached, Exhausted, NothingSelected, GiveUp, Raise, pump, env
  <1>6. CASE Check
    BY <1>6, <1>num, CountKept DEF Check, Raise, history
  <1>7. CASE BudgetSpent \/ ApprovalRequired
    BY <1>7, <1>num, CountKept
    DEF BudgetSpent, ApprovalRequired, AttemptsAfter, GiveUp, Raise
  <1>8. CASE AttemptSucceeds \/ Show \/ StreamEnds \/ TimePasses \/ Cancel
    BY <1>8, <1>num, CountKept
    DEF AttemptSucceeds, Show, StreamEnds, TimePasses, Cancel, loop, history
  <1>9. CASE AttemptFails
    BY <1>9, <1>num, CountKept DEF AttemptFails, Raise
  <1>10. CASE StreamFails \/ PumpStops
    BY <1>10, <1>num, CountKept DEF StreamFails, PumpStops, Raise, history
  <1>11. ASSUME NEW c \in Cand, Disturb(c) PROVE Counted'
    BY <1>11, <1>num, CountKept DEF Disturb, loop, history
  <1>12. CASE UNCHANGED vars
    BY <1>12, <1>num, CountKept DEF vars, loop, history
  <1> QED BY <1>1, <1>2, <1>3, <1>4, <1>5, <1>6, <1>7, <1>8, <1>9, <1>10,
             <1>11, <1>12
          DEF Next, Loop, Attempt, Pump

\* However selection, breaker and failures interleave, one call of the loop
\* dispatches at most MaxAttempts candidates.
THEOREM CallsStayBounded == Spec => []CallsAreBounded
  <1>1. Init => CountInv
    <2> SUFFICES ASSUME Init PROVE Counted
      BY TypeInit DEF CountInv
    <2>1. Tried = {} /\ attempts = 0
      BY DEF Init, Tried
    <2> QED BY <2>1, FS_EmptySet DEF Counted
  <1>2. CountInv => CallsAreBounded
    <2> SUFFICES ASSUME CountInv PROVE Cardinality(Tried) <= MaxAttempts
      BY DEF CallsAreBounded, Tried
    <2>1. MaxAttempts \in Nat \ {0} /\ attempts \in 0..MaxAttempts
      BY LimitAssumption DEF LimitAssumption, CountInv, TypeInv, TypeOK
    <2>2. CASE Direct
      <3>1. Cardinality({selected}) = 1 /\ IsFiniteSet({selected})
        BY FS_Singleton
      <3>2. Cardinality(Tried) <= 1
        BY <2>2, <3>1, FS_Subset DEF CountInv, Counted
      <3> QED BY <2>1, <3>2, TriedIsFinite
    <2>3. CASE ~Direct
      BY <2>1, <2>3, TriedIsFinite DEF CountInv, Counted
    <2> QED BY <2>2, <2>3
  <1> QED BY <1>1, <1>2, CountStep, PTL DEF Spec

(***************************************************************************)
(* A dispatch is recorded as at most one failure.  A candidate that is at  *)
(* hand has a dispatch to its name that no failure was recorded for; only  *)
(* a call that gives up after a failover records one without.              *)
(***************************************************************************)

\* Failures never get ahead of dispatches before the request has failed.
Accounted ==
    /\ pc # "failed" => \A c \in Cand : failures[c] <= dispatches[c]
    /\ pc \in {"attempt", "pump"} => failures[selected] < dispatches[selected]
    /\ BlamedOncePerAttempt

BlameInv == TypeInv /\ Accounted

\* Nothing is recorded and nobody dispatched.
LEMMA AccountKept ==
    ASSUME BlameInv,
           UNCHANGED <<failures, dispatches, origin>>,
           pc # "failed",
           pc' \in {"attempt", "pump"} => /\ pc \in {"attempt", "pump"}
                                          /\ selected' = selected
    PROVE  Accounted'
  BY DEF BlameInv, Accounted, BlamedOncePerAttempt, TypeInv, TypeOK

\* Giving up records at most one failure more, that of the origin.
LEMMA GiveUpAccounts ==
    ASSUME BlameInv, pc # "failed", NEW why, GiveUp(why),
           UNCHANGED <<dispatches, origin>>
    PROVE  Accounted'
  <1>1. CASE origin = NoCand
    BY <1>1 DEF GiveUp, Raise, BlameInv, Accounted, BlamedOncePerAttempt,
                TypeInv, TypeOK
  <1>2. CASE origin # NoCand
    BY <1>2 DEF GiveUp, Raise, Blame, BlameInv, Accounted,
                BlamedOncePerAttempt, TypeInv, TypeOK
  <1> QED BY <1>1, <1>2

\* The failure of the candidate at hand is the one its dispatch had left.
LEMMA BlameAccounts ==
    ASSUME BlameInv, pc \in {"attempt", "pump"}, Blame(selected),
           pc' \notin {"attempt", "pump"},
           UNCHANGED dispatches
    PROVE  Accounted'
  BY DEF Blame, BlameInv, Accounted, BlamedOncePerAttempt, TypeInv, TypeOK

LEMMA BlameStep == BlameInv /\ [Next]_vars => BlameInv'
  <1> SUFFICES ASSUME BlameInv, [Next]_vars PROVE BlameInv'
    OBVIOUS
  <1>type. TypeInv'
    BY TypeStep DEF BlameInv
  <1> SUFFICES Accounted'
    BY <1>type DEF BlameInv
  <1>1. CASE LimitReached \/ Exhausted
    BY <1>1, GiveUpAccounts DEF LimitReached, Exhausted, NothingSelected, pump
  <1>2. CASE BudgetSpent \/ ApprovalRequired
    BY <1>2, GiveUpAccounts DEF BudgetSpent, ApprovalRequired, pump
  <1>3. CASE SelectCandidate
    BY <1>3, AccountKept DEF SelectCandidate, Pick, pump, history
  <1>4. CASE NextPool \/ StartRecovery \/ StartCompatibility
    BY <1>4, AccountKept
    DEF NextPool, StartRecovery, StartCompatibility, NothingSelected, pump,
        history
  <1>5. CASE Check
    BY <1>5, AccountKept DEF Check, Raise, pump, history
  <1>6. CASE Dispatch
    BY <1>6 DEF Dispatch, pump, BlameInv, Accounted, BlamedOncePerAttempt,
                TypeInv, TypeOK
  <1>7. CASE AttemptSucceeds \/ Show \/ StreamEnds
    BY <1>7, AccountKept
    DEF AttemptSucceeds, Show, StreamEnds, loop, pump, history
  <1>8. CASE AttemptFails
    <2>1. /\ pc = "attempt" /\ pc' \in {"select", "failed"}
          /\ UNCHANGED <<dispatches, origin>>
          /\ Blame(selected) \/ UNCHANGED failures
      BY <1>8 DEF AttemptFails, Raise, pump
    <2> QED BY <2>1, BlameAccounts, AccountKept
  <1>9. CASE FailOver \/ StreamFails
    BY <1>9, BlameAccounts DEF FailOver, StreamFails, Raise
  <1>10. CASE PumpStops
    BY <1>10, AccountKept DEF PumpStops, Raise, pump, history
  <1>11. CASE TimePasses \/ Cancel
    BY <1>11, AccountKept DEF TimePasses, Cancel, Final, loop, pump, history
  <1>12. ASSUME NEW c \in Cand, Disturb(c) PROVE Accounted'
    BY <1>12, AccountKept DEF Disturb, Final, loop, pump, history
  <1>13. CASE UNCHANGED vars
    BY <1>13 DEF vars, loop, pump, history, BlameInv, Accounted,
                 BlamedOncePerAttempt
  <1> QED BY <1>1, <1>2, <1>3, <1>4, <1>5, <1>6, <1>7, <1>8, <1>9, <1>10,
             <1>11, <1>12, <1>13
          DEF Next, Loop, Attempt, Pump

\* However attempts, streams, failovers and the deadline end, no dispatch counts
\* as two failures, save the stream that a failover could not replace.
THEOREM BlamedOnce == Spec => []BlamedOncePerAttempt
  <1>1. Init => BlameInv
    BY TypeInit DEF Init, BlameInv, Accounted, BlamedOncePerAttempt
  <1>2. BlameInv => BlamedOncePerAttempt
    BY DEF BlameInv, Accounted
  <1> QED BY <1>1, <1>2, BlameStep, PTL DEF Spec

-----------------------------------------------------------------------------
(***************************************************************************)
(* AutoCatalog.  Pools, managers and registries are only added, and an old *)
(* pool or manager keeps what the operator listed and what was there when  *)
(* it was made.                                                            *)
(***************************************************************************)

PoolObject == [models : SUBSET Model, listed : SUBSET Listable]
PoolManager == [pool : Nat, static : SUBSET Model, models : SUBSET Model, registry : Nat]
Registry == [entries : [Client -> SUBSET Model], free : SUBSET Model]
RefreshLoop ==
    [pc : {"boot", "booted", "fetch", "hook", "replace", "wait"}, todo : SUBSET Client,
     manager : Nat, registry : Nat, models : SUBSET Model]

CatalogTypes ==
    /\ upstream \in [Client -> SUBSET Model] /\ seen \in [Client -> SUBSET Model]
    /\ failed \in SUBSET Model
    /\ pools \in Seq(PoolObject) /\ managers \in Seq(PoolManager) /\ registries \in Seq(Registry)
    /\ refresh \in RefreshLoop /\ events \in 0..MaxEvents
    /\ hooks \in SUBSET [manager : Nat, models : SUBSET Model]

\* Whoever refers to a pool, a manager or a registry refers to one that there is.
References ==
    /\ \A g \in DOMAIN managers : /\ managers[g].pool \in DOMAIN pools
                                  /\ managers[g].registry \in DOMAIN registries
    /\ live \in DOMAIN managers /\ candidate \in {0} \cup DOMAIN managers /\ candidate # live
    /\ refresh.manager \in DOMAIN managers /\ refresh.registry \in DOMAIN registries
    /\ \A h \in hooks : h.manager \in DOMAIN managers

\* The operator's models are in every list that a pool has or may get.
OperatorsOf(P, M, g) == P[M[g].pool].listed
OfOperator(g) == OperatorsOf(pools, managers, g)
NowOfOperator(g) == OperatorsOf(pools', managers', g)
ListsKeepThem ==
    /\ \A p \in DOMAIN pools : pools[p].listed \subseteq pools[p].models
    /\ \A g \in DOMAIN managers :
         OfOperator(g) \subseteq managers[g].static /\ OfOperator(g) \subseteq managers[g].models
    /\ refresh.pc = "replace" => OfOperator(refresh.manager) \subseteq refresh.models
    /\ \A h \in hooks : OfOperator(h.manager) \subseteq h.models

\* What a refresh must not take: what was there before, or is eligible by what the
\* sources listed when they were last fetched.
Wanted(m) ==
    \/ m \in managers[1].static
    \/ /\ m \in seen[ProviderOf[m]] /\ m \notin failed
       /\ ProviderOf[m] \in Priced \/ m \in seen[ModelsDev]

\* With the first registry alone its loop extends the first manager, which
\* nobody but it does while that manager is in use.
FirstRegistry ==
    /\ hooks = {} /\ refresh.manager = 1 /\ candidate # 1
    /\ registries[1].entries = seen
    /\ refresh.pc \in {"boot", "booted"} => candidate = 0 /\ live = 1
    /\ refresh.pc = "hook" =>
         \A m \in seen[ModelsDev] : m \in seen[ProviderOf[m]] => m \in registries[1].free
    /\ live = 1 =>
         /\ managers[1].static \subseteq pools[Pool(1)].models
         /\ refresh.pc \in {"boot", "booted"} => managers[1].models = managers[1].static
         /\ refresh.pc = "replace" => \A m \in Model : Wanted(m) => m \in refresh.models

CatalogInv ==
    /\ CatalogTypes /\ References /\ ListsKeepThem
    /\ Len(registries) = 1 => FirstRegistry

LEMMA OneReplaced ==
    ASSUME NEW S, NEW q \in Seq(S), NEW i \in DOMAIN q, NEW e \in S
    PROVE  LET t == [q EXCEPT ![i] = e]
           IN /\ t \in Seq(S) /\ DOMAIN t = DOMAIN q /\ Len(t) = Len(q)
              /\ \A j \in DOMAIN q : t[j] = IF j = i THEN e ELSE q[j]
  <1>1. DOMAIN q = 1..Len(q)
    OBVIOUS
  <1>2. [q EXCEPT ![i] = e] \in Seq(S) /\ Len([q EXCEPT ![i] = e]) = Len(q)
    BY <1>1, ExceptSeq
  <1> QED BY <1>2

LEMMA OneAdded ==
    ASSUME NEW S, NEW q \in Seq(S), NEW e \in S
    PROVE  LET t == Append(q, e)
           IN /\ t \in Seq(S) /\ DOMAIN t = DOMAIN q \cup {Len(q) + 1}
              /\ Len(t) = Len(q) + 1 /\ Len(q) + 1 \notin DOMAIN q
              /\ t[Len(q) + 1] = e /\ \A j \in DOMAIN q : t[j] = q[j]
  OBVIOUS

LEMMA OldStays ==
    ASSUME NEW S, NEW q \in Seq(S), NEW e
    PROVE  Len(Append(q, e)) = Len(q) + 1 /\ \A j \in DOMAIN q : Append(q, e)[j] = q[j]
  <1>1. q \in Seq(S \cup {e})
    OBVIOUS
  <1> QED BY <1>1, OneAdded

LEMMA AllEntries ==
    ASSUME NEW S, NEW T, NEW q \in Seq(S), \A j \in DOMAIN q : q[j] \in T
    PROVE  q \in Seq(T)
  OBVIOUS

\* What extending a manager's pool does to pools and managers.
LEMMA ExtendsOne ==
    ASSUME CatalogTypes, References, NEW g \in DOMAIN managers, NEW models \in SUBSET Model,
           Extend(g, models)
    PROVE  /\ pools' \in Seq(PoolObject) /\ DOMAIN pools' = DOMAIN pools
           /\ managers' \in Seq(PoolManager) /\ DOMAIN managers' = DOMAIN managers
           /\ \A p \in DOMAIN pools :
                /\ pools'[p].listed = pools[p].listed
                /\ pools'[p].models = IF p = Pool(g) THEN models ELSE pools[p].models
           /\ \A h \in DOMAIN managers :
                /\ managers'[h].pool = managers[h].pool
                /\ managers'[h].static = managers[h].static
                /\ managers'[h].registry = managers[h].registry
                /\ h # g => managers'[h].models = managers[h].models
                /\ managers'[h].models \in {managers[h].models, models}
  <1>1. Pool(g) \in DOMAIN pools /\ pools \in Seq(PoolObject)
    BY DEF References, CatalogTypes, Pool
  <1>2. /\ pools' = [pools EXCEPT ![Pool(g)].models = models]
        /\ managers' = IF models = pools[Pool(g)].models THEN managers
                       ELSE [managers EXCEPT ![g].models = models]
    BY DEF Extend, Rebuilt
  <1>3. pools' \in Seq(PoolObject) /\ DOMAIN pools' = DOMAIN pools
    <2> DEFINE object == [pools[Pool(g)] EXCEPT !.models = models]
    <2>1. object \in PoolObject
      <3>1. pools[Pool(g)] \in PoolObject
        BY <1>1
      <3> QED BY <3>1 DEF PoolObject
    <2>2. pools' = [pools EXCEPT ![Pool(g)] = object]
      BY <1>2
    <2> HIDE DEF object
    <2> QED BY <1>1, <2>1, <2>2, OneReplaced
  <1>4. managers' \in Seq(PoolManager) /\ DOMAIN managers' = DOMAIN managers
    <2> DEFINE manager == [managers[g] EXCEPT !.models = models]
    <2>0. managers \in Seq(PoolManager)
      BY DEF CatalogTypes
    <2>1. manager \in PoolManager
      <3>1. managers[g] \in PoolManager
        BY <2>0
      <3> QED BY <3>1 DEF PoolManager
    <2>2. managers' \in {managers, [managers EXCEPT ![g] = manager]}
      BY <1>2
    <2> HIDE DEF manager
    <2> QED BY <2>0, <2>1, <2>2, OneReplaced
  <1>5. \A p \in DOMAIN pools :
          /\ pools'[p].listed = pools[p].listed
          /\ pools'[p].models = IF p = Pool(g) THEN models ELSE pools[p].models
    BY <1>1, <1>2 DEF PoolObject
  <1>6. \A h \in DOMAIN managers :
          /\ managers'[h].pool = managers[h].pool
          /\ managers'[h].static = managers[h].static
          /\ managers'[h].registry = managers[h].registry
          /\ h # g => managers'[h].models = managers[h].models
          /\ managers'[h].models \in {managers[h].models, models}
    BY <1>2 DEF CatalogTypes, PoolManager
  <1> QED BY <1>3, <1>4, <1>5, <1>6

\* What an extended pool has.
LEMMA ExtendedHas ==
    ASSUME CatalogTypes, References, ListsKeepThem, NEW g \in DOMAIN managers
    PROVE  /\ Extended(g) \in SUBSET Model /\ OfOperator(g) \subseteq Extended(g)
           /\ pools[Pool(g)].models \cap managers[g].static \subseteq Extended(g)
           /\ EligibleNow(registries[managers[g].registry]) \subseteq
                managers[g].static \cup Extended(g)
  <1>1. Pool(g) \in DOMAIN pools /\ managers[g] \in PoolManager
    BY DEF CatalogTypes, References, Pool
  <1>2. pools[Pool(g)] \in PoolObject
    BY <1>1 DEF CatalogTypes
  <1>3. EligibleNow(registries[managers[g].registry]) \subseteq Model
    BY DEF EligibleNow
  <1>4. Extended(g) \in SUBSET Model
    BY <1>1, <1>2, <1>3 DEF Extended, PoolObject
  <1>5. OfOperator(g) \subseteq pools[Pool(g)].models \cap managers[g].static
    BY <1>1 DEF ListsKeepThem, OfOperator, OperatorsOf, Pool
  <1> QED BY <1>4, <1>5 DEF Extended

\* Pool and manager of an extension keep the operator's models.
LEMMA ExtendKeepsLists ==
    ASSUME CatalogTypes, References, ListsKeepThem, NEW g \in DOMAIN managers,
           NEW models \in SUBSET Model, OfOperator(g) \subseteq models, Extend(g, models)
    PROVE  /\ \A p \in DOMAIN pools' : pools'[p].listed \subseteq pools'[p].models
           /\ \A h \in DOMAIN managers' :
                /\ NowOfOperator(h) \subseteq managers'[h].static
                /\ NowOfOperator(h) \subseteq managers'[h].models
           /\ \A h \in DOMAIN managers : NowOfOperator(h) = OfOperator(h)
  <1> DEFINE P == pools'
             M == managers'
  <1>1. /\ DOMAIN P = DOMAIN pools /\ DOMAIN M = DOMAIN managers
        /\ \A p \in DOMAIN pools :
             /\ P[p].listed = pools[p].listed
             /\ P[p].models = IF p = Pool(g) THEN models ELSE pools[p].models
        /\ \A h \in DOMAIN managers :
             /\ M[h].pool = managers[h].pool /\ M[h].static = managers[h].static
             /\ h # g => M[h].models = managers[h].models
             /\ M[h].models \in {managers[h].models, models}
    BY ExtendsOne
  <1>2. \A h \in DOMAIN managers : managers[h].pool \in DOMAIN pools
    BY DEF References
  <1>3. \A h \in DOMAIN managers : P[M[h].pool].listed = pools[managers[h].pool].listed
    BY <1>1, <1>2
  <1>4. \A h \in DOMAIN managers : NowOfOperator(h) = OfOperator(h)
    BY <1>3 DEF OfOperator, NowOfOperator, OperatorsOf, Pool
  <1>5. \A p \in DOMAIN P : P[p].listed \subseteq P[p].models
    BY <1>1 DEF ListsKeepThem, OfOperator, OperatorsOf, Pool
  <1>6. \A h \in DOMAIN managers :
          OfOperator(h) \subseteq M[h].static /\ OfOperator(h) \subseteq M[h].models
    BY <1>1 DEF ListsKeepThem
  <1> QED BY <1>1, <1>4, <1>5, <1>6

\* The loop extends its manager with a list that has the operator's models.
LEMMA ExtendsKeep ==
    ASSUME CatalogTypes, References, ListsKeepThem, NEW g \in DOMAIN managers,
           NEW models \in SUBSET Model, OfOperator(g) \subseteq models, Extend(g, models),
           UNCHANGED <<upstream, failed, registries, live, candidate, events, seen>>,
           refresh' \in RefreshLoop, refresh'.manager \in DOMAIN managers,
           refresh'.registry \in DOMAIN registries, refresh'.pc = "replace" => refresh' = refresh,
           hooks' \subseteq hooks
    PROVE  CatalogTypes' /\ References' /\ ListsKeepThem'
  <1>1. CatalogTypes'
    BY ExtendsOne DEF CatalogTypes
  <1>2. References'
    BY ExtendsOne DEF References
  <1>3. /\ \A p \in DOMAIN pools' : pools'[p].listed \subseteq pools'[p].models
        /\ \A h \in DOMAIN managers' :
             NowOfOperator(h) \subseteq managers'[h].static /\ NowOfOperator(h) \subseteq managers'[h].models
        /\ \A h \in DOMAIN managers : NowOfOperator(h) = OfOperator(h)
    BY ExtendKeepsLists
  <1>4. refresh'.pc = "replace" => NowOfOperator(refresh'.manager) \subseteq refresh'.models
    BY <1>3 DEF ListsKeepThem, References
  <1>5. \A h \in hooks' : NowOfOperator(h.manager) \subseteq h.models
    BY <1>3 DEF ListsKeepThem, References
  <1> QED BY <1>1, <1>2, <1>3, <1>4, <1>5 DEF ListsKeepThem, OfOperator, NowOfOperator

\* A manager that is built has the operator's models from the start.
LEMMA BuiltKeeps ==
    ASSUME CatalogTypes, References, ListsKeepThem, BuildAgain \/ BuildNew
    PROVE  CatalogTypes' /\ References' /\ ListsKeepThem'
  <1> DEFINE n == Len(managers) + 1
  <1>1. PICK object, models, added :
          /\ Built(object, models)
          /\ \/ /\ object = Pool(live) /\ models = pools[Pool(live)].models /\ pools' = pools
             \/ /\ object = Len(pools) + 1 /\ models \in SUBSET Listable
                /\ pools' = Append(pools, added) /\ added = [models |-> models, listed |-> models]
    BY DEF BuildAgain, BuildNew
  <1> DEFINE added1 == [pool |-> object, static |-> models, models |-> models,
                        registry |-> managers[live].registry]
  <1>2. /\ managers' = Append(managers, added1) /\ candidate' = n
        /\ UNCHANGED <<upstream, failed, deployment, registries, live, refresh, hooks, seen>>
        /\ events < MaxEvents /\ events' = events + 1
    BY <1>1 DEF Built, Happen
  <1>3. /\ live \in DOMAIN managers /\ managers \in Seq(PoolManager) /\ pools \in Seq(PoolObject)
        /\ Pool(live) \in DOMAIN pools /\ managers[live].registry \in DOMAIN registries
        /\ registries \in Seq(Registry)
    BY DEF CatalogTypes, References, Pool
  <1>4. models \in SUBSET Model
    <2>1. pools[Pool(live)] \in PoolObject
      BY <1>3
    <2> QED BY <1>1, <2>1, ListedAssumption DEF PoolObject
  <1>5. /\ pools' \in Seq(PoolObject) /\ object \in DOMAIN pools' /\ object \in Nat
        /\ DOMAIN pools \subseteq DOMAIN pools'
        /\ \A p \in DOMAIN pools : pools'[p] = pools[p]
        /\ \A p \in DOMAIN pools' : pools'[p].listed \subseteq pools'[p].models
        /\ pools'[object].listed \subseteq models
    <2>1. CASE pools' = pools /\ object = Pool(live) /\ models = pools[Pool(live)].models
      BY <1>3, <2>1 DEF ListsKeepThem
    <2>2. CASE /\ object = Len(pools) + 1 /\ models \in SUBSET Listable
               /\ pools' = Append(pools, added) /\ added = [models |-> models, listed |-> models]
      <3>1. added \in PoolObject /\ added.listed = models /\ added.models = models
        BY <1>4, <2>2 DEF PoolObject
      <3>2. /\ pools' \in Seq(PoolObject) /\ DOMAIN pools' = DOMAIN pools \cup {object}
            /\ pools'[object] = added /\ \A p \in DOMAIN pools : pools'[p] = pools[p]
        BY <1>3, <2>2, <3>1, OneAdded
      <3>3. object \in Nat
        BY <1>3, <2>2
      <3> QED BY <3>1, <3>2, <3>3 DEF ListsKeepThem
    <2> QED BY <1>1, <2>1, <2>2
  <1>6. added1 \in PoolManager /\ added1.pool = object /\ added1.static = models
        /\ added1.models = models /\ added1.registry = managers[live].registry
    <2>1. managers[live].registry \in Nat
      BY <1>3
    <2> QED BY <1>4, <1>5, <2>1 DEF PoolManager
  <1> HIDE DEF added1
  <1>7. /\ managers' \in Seq(PoolManager) /\ DOMAIN managers' = DOMAIN managers \cup {n}
        /\ managers'[n] = added1 /\ \A g \in DOMAIN managers : managers'[g] = managers[g]
    BY <1>2, <1>3, <1>6, OneAdded
  <1> HIDE DEF n
  <1>8. CatalogTypes'
    <2>1. events' \in 0..MaxEvents
      BY <1>2, EventsAssumption DEF CatalogTypes
    <2> QED BY <1>2, <1>5, <1>7, <2>1 DEF CatalogTypes
  <1>9. References'
    <2>1. n \notin DOMAIN managers
      BY <1>3 DEF n
    <2>2. live' \in DOMAIN managers' /\ candidate' \in DOMAIN managers' /\ candidate' # live'
      BY <1>2, <1>3, <1>7, <2>1
    <2>3. \A g \in DOMAIN managers' : /\ managers'[g].pool \in DOMAIN pools'
                                      /\ managers'[g].registry \in DOMAIN registries'
      BY <1>2, <1>3, <1>5, <1>6, <1>7 DEF References
    <2> QED BY <1>2, <1>7, <2>2, <2>3 DEF References
  <1>10. \A g \in DOMAIN managers : NowOfOperator(g) = OfOperator(g)
    BY <1>5, <1>7 DEF References, NowOfOperator, OfOperator, OperatorsOf
  <1>11. NowOfOperator(n) \subseteq models
    BY <1>5, <1>6, <1>7 DEF NowOfOperator, OperatorsOf
  <1>12. \A g \in DOMAIN managers' :
           NowOfOperator(g) \subseteq managers'[g].static /\ NowOfOperator(g) \subseteq managers'[g].models
    BY <1>6, <1>7, <1>10, <1>11 DEF ListsKeepThem
  <1>13. refresh'.pc = "replace" => NowOfOperator(refresh'.manager) \subseteq refresh'.models
    BY <1>2, <1>10 DEF ListsKeepThem, References
  <1>14. \A h \in hooks' : NowOfOperator(h.manager) \subseteq h.models
    BY <1>2, <1>10 DEF ListsKeepThem, References
  <1> QED BY <1>5, <1>8, <1>9, <1>12, <1>13, <1>14 DEF ListsKeepThem, OfOperator, NowOfOperator

\* A manager that is put to use is extended first; its registry may be new.
LEMMA PublishKeeps ==
    ASSUME CatalogTypes, References, ListsKeepThem, Publish
    PROVE  CatalogTypes' /\ References' /\ ListsKeepThem'
  <1> DEFINE g == candidate
             models == Extended(g)
             rebuilt == Rebuilt(g, models)
             r == Len(registries) + 1
  <1>1. /\ g \in DOMAIN managers /\ live' = g /\ candidate' = 0
        /\ pools' = [pools EXCEPT ![Pool(g)].models = models]
        /\ UNCHANGED <<upstream, failed, deployment, events, seen>>
    BY DEF Publish, CatalogRebuilt, References
  <1>2. \/ /\ registries' = Append(registries, NewRegistry)
           /\ managers' = [rebuilt EXCEPT ![g].registry = r]
           /\ refresh' = LoopFor(g, r)
           /\ hooks' = IF refresh.pc = "replace"
                       THEN hooks \cup {[manager |-> refresh.manager, models |-> refresh.models]}
                       ELSE hooks
        \/ managers' = rebuilt /\ UNCHANGED <<registries, refresh, hooks>>
    BY DEF Publish, CatalogRebuilt, NewManager
  <1>3. models \in SUBSET Model /\ OfOperator(g) \subseteq models
    BY <1>1, ExtendedHas
  <1> HIDE DEF g, models
  <1>4. /\ pools' \in Seq(PoolObject) /\ DOMAIN pools' = DOMAIN pools
        /\ \A p \in DOMAIN pools :
             /\ pools'[p].listed = pools[p].listed
             /\ pools'[p].models = IF p = Pool(g) THEN models ELSE pools[p].models
    <2> DEFINE object == [pools[Pool(g)] EXCEPT !.models = models]
    <2>1. Pool(g) \in DOMAIN pools /\ pools \in Seq(PoolObject)
      BY <1>1 DEF CatalogTypes, References, Pool
    <2>2. pools[Pool(g)] \in PoolObject
      BY <2>1
    <2>3. object \in PoolObject /\ object.listed = pools[Pool(g)].listed /\ object.models = models
      BY <1>3, <2>2 DEF PoolObject
    <2>4. pools' = [pools EXCEPT ![Pool(g)] = object]
      BY <1>1
    <2> HIDE DEF object
    <2> QED BY <2>1, <2>3, <2>4, OneReplaced
  <1>5. /\ rebuilt \in Seq(PoolManager) /\ DOMAIN rebuilt = DOMAIN managers
        /\ \A h \in DOMAIN managers :
             /\ rebuilt[h].pool = managers[h].pool /\ rebuilt[h].static = managers[h].static
             /\ rebuilt[h].registry = managers[h].registry
             /\ rebuilt[h].models = managers[h].models \/ (h = g /\ rebuilt[h].models = models)
    <2> DEFINE manager == [managers[g] EXCEPT !.models = models]
    <2>1. managers \in Seq(PoolManager)
      BY DEF CatalogTypes
    <2>2. managers[g] \in PoolManager
      BY <1>1, <2>1
    <2>3. /\ manager \in PoolManager /\ manager.pool = managers[g].pool
          /\ manager.static = managers[g].static /\ manager.registry = managers[g].registry
          /\ manager.models = models
      BY <1>3, <2>2 DEF PoolManager
    <2>4. rebuilt \in {managers, [managers EXCEPT ![g] = manager]}
      BY DEF Rebuilt
    <2> HIDE DEF manager, rebuilt
    <2>5. CASE rebuilt = managers
      BY <2>1, <2>5
    <2>6. CASE rebuilt = [managers EXCEPT ![g] = manager]
      <3>1. /\ rebuilt \in Seq(PoolManager) /\ DOMAIN rebuilt = DOMAIN managers
            /\ \A h \in DOMAIN managers : rebuilt[h] = IF h = g THEN manager ELSE managers[h]
        BY <1>1, <2>1, <2>3, <2>6, OneReplaced
      <3> QED BY <2>3, <3>1
    <2> QED BY <2>4, <2>5, <2>6
  <1> HIDE DEF rebuilt
  <1>6. /\ managers' \in Seq(PoolManager) /\ DOMAIN managers' = DOMAIN managers
        /\ \A h \in DOMAIN managers :
             /\ managers'[h].pool = managers[h].pool /\ managers'[h].static = managers[h].static
             /\ managers'[h].models = managers[h].models \/ (h = g /\ managers'[h].models = models)
             /\ managers'[h].registry \in {managers[h].registry, r}
             /\ managers' = rebuilt => managers'[h].registry = managers[h].registry
    <2> DEFINE manager == [rebuilt[g] EXCEPT !.registry = r]
    <2>1. CASE managers' = [rebuilt EXCEPT ![g].registry = r]
      <3>1. rebuilt[g] \in PoolManager /\ r \in Nat
        BY <1>1, <1>5 DEF CatalogTypes
      <3>2. /\ manager \in PoolManager /\ manager.pool = rebuilt[g].pool
            /\ manager.static = rebuilt[g].static /\ manager.models = rebuilt[g].models
            /\ manager.registry = r
        BY <3>1 DEF PoolManager
      <3>3. managers' = [rebuilt EXCEPT ![g] = manager]
        BY <2>1
      <3> HIDE DEF manager, r
      <3>4. /\ managers' \in Seq(PoolManager) /\ DOMAIN managers' = DOMAIN rebuilt
            /\ \A h \in DOMAIN rebuilt : managers'[h] = IF h = g THEN manager ELSE rebuilt[h]
        BY <1>1, <1>5, <3>2, <3>3, OneReplaced
      <3> QED BY <1>5, <3>2, <3>4
    <2>2. CASE managers' = rebuilt
      BY <1>5, <2>2
    <2> QED BY <1>2, <2>1, <2>2
  <1>7. \/ /\ registries' \in Seq(Registry) /\ DOMAIN registries' = DOMAIN registries \cup {r}
           /\ refresh' \in RefreshLoop /\ refresh'.manager = g /\ refresh'.registry = r
           /\ refresh'.pc = "fetch"
           /\ hooks' \subseteq [manager : Nat, models : SUBSET Model]
           /\ \A h \in hooks' :
                \/ h \in hooks
                \/ /\ refresh.pc = "replace"
                   /\ h.manager = refresh.manager /\ h.models = refresh.models
        \/ UNCHANGED <<registries, refresh, hooks>> /\ managers' = rebuilt
    <2>1. CASE managers' = rebuilt /\ UNCHANGED <<registries, refresh, hooks>>
      BY <2>1
    <2>2. CASE /\ registries' = Append(registries, NewRegistry)
               /\ refresh' = LoopFor(g, r)
               /\ hooks' = IF refresh.pc = "replace"
                           THEN hooks \cup {[manager |-> refresh.manager, models |-> refresh.models]}
                           ELSE hooks
      <3>1. NewRegistry \in Registry
        BY DEF NewRegistry, Registry
      <3>2. registries' \in Seq(Registry) /\ DOMAIN registries' = DOMAIN registries \cup {r}
        BY <2>2, <3>1, OneAdded DEF CatalogTypes
      <3>3. g \in Nat /\ r \in Nat
        BY <1>1 DEF CatalogTypes
      <3>4. /\ refresh' \in RefreshLoop /\ refresh'.manager = g /\ refresh'.registry = r
            /\ refresh'.pc = "fetch"
        BY <2>2, <3>3 DEF LoopFor, RefreshLoop
      <3>5. [manager |-> refresh.manager, models |-> refresh.models]
               \in [manager : Nat, models : SUBSET Model]
        BY DEF CatalogTypes, RefreshLoop
      <3>6. hooks' \subseteq [manager : Nat, models : SUBSET Model]
        BY <2>2, <3>5 DEF CatalogTypes
      <3>7. \A h \in hooks' :
                \/ h \in hooks
                \/ /\ refresh.pc = "replace"
                   /\ h.manager = refresh.manager /\ h.models = refresh.models
        BY <2>2
      <3> QED BY <3>2, <3>4, <3>6, <3>7
    <2> QED BY <1>2, <2>1, <2>2
  <1>8. CatalogTypes'
    BY <1>1, <1>4, <1>6, <1>7 DEF CatalogTypes
  <1>9. References'
    <2>1. 0 \notin DOMAIN managers
      BY DEF CatalogTypes
    <2>2. live' \in DOMAIN managers' /\ candidate' = 0 /\ candidate' # live'
      BY <1>1, <1>6, <2>1
    <2>3. DOMAIN registries \subseteq DOMAIN registries'
      BY <1>7
    <2>4. \A h \in DOMAIN managers' : /\ managers'[h].pool \in DOMAIN pools'
                                      /\ managers'[h].registry \in DOMAIN registries'
      BY <1>4, <1>6, <1>7 DEF References
    <2>5. \A h \in hooks' : h.manager \in DOMAIN managers'
      BY <1>6, <1>7 DEF References
    <2>6. refresh'.manager \in DOMAIN managers' /\ refresh'.registry \in DOMAIN registries'
      BY <1>1, <1>6, <1>7 DEF References
    <2> QED BY <2>2, <2>4, <2>5, <2>6 DEF References
  <1>10. \A h \in DOMAIN managers : NowOfOperator(h) = OfOperator(h)
    BY <1>4, <1>6 DEF References, NowOfOperator, OfOperator, OperatorsOf
  <1>11. \A p \in DOMAIN pools' : pools'[p].listed \subseteq pools'[p].models
    BY <1>3, <1>4 DEF ListsKeepThem, OfOperator, OperatorsOf, Pool
  <1>12. \A h \in DOMAIN managers' :
           NowOfOperator(h) \subseteq managers'[h].static /\ NowOfOperator(h) \subseteq managers'[h].models
    BY <1>3, <1>6, <1>10 DEF ListsKeepThem
  <1>13. refresh'.pc = "replace" => NowOfOperator(refresh'.manager) \subseteq refresh'.models
    BY <1>7, <1>10 DEF ListsKeepThem, References
  <1>14. \A h \in hooks' : NowOfOperator(h.manager) \subseteq h.models
    BY <1>7, <1>10 DEF ListsKeepThem, References
  <1> QED BY <1>8, <1>9, <1>11, <1>12, <1>13, <1>14 DEF ListsKeepThem, OfOperator, NowOfOperator

\* A step that leaves pools and managers alone.
LEMMA QuietKeeps ==
    ASSUME CatalogTypes, References, ListsKeepThem, UNCHANGED <<pools, managers, live, hooks, candidate>>,
           upstream' \in [Client -> SUBSET Model], seen' \in [Client -> SUBSET Model],
           failed' \in SUBSET Model, events' \in 0..MaxEvents,
           registries' \in Seq(Registry), DOMAIN registries' = DOMAIN registries,
           refresh' \in RefreshLoop, UNCHANGED <<refresh.manager, refresh.registry>>,
           refresh'.pc = "replace" =>
             \/ refresh' = refresh
             \/ OfOperator(refresh.manager) \subseteq refresh'.models
    PROVE  CatalogTypes' /\ References' /\ ListsKeepThem'
  <1>1. CatalogTypes' /\ References'
    BY DEF CatalogTypes, References
  <1>2. \A g : NowOfOperator(g) = OfOperator(g)
    BY DEF NowOfOperator, OfOperator, OperatorsOf
  <1>3. refresh'.pc = "replace" => NowOfOperator(refresh'.manager) \subseteq refresh'.models
    BY <1>2 DEF ListsKeepThem
  <1> QED BY <1>1, <1>2, <1>3 DEF ListsKeepThem, OfOperator, NowOfOperator

\* A fetch replaces the entries of one registry, if any.
LEMMA FetchTypes ==
    ASSUME CatalogTypes, References, NEW c \in Client
    PROVE  /\ [registries EXCEPT ![refresh.registry] = AfterFetch(@, c)] \in Seq(Registry)
           /\ DOMAIN [registries EXCEPT ![refresh.registry] = AfterFetch(@, c)] = DOMAIN registries
           /\ [registries EXCEPT ![refresh.registry] = AfterError(@, c)] = registries
           /\ [refresh EXCEPT !.todo = @ \ {c}] \in RefreshLoop
  <1> DEFINE old == registries[refresh.registry]
             new == AfterFetch(old, c)
  <1>1. /\ registries \in Seq(Registry) /\ refresh.registry \in DOMAIN registries
        /\ upstream[c] \in SUBSET Model /\ refresh \in RefreshLoop
    BY DEF CatalogTypes, References
  <1>2. old \in Registry
    BY <1>1
  <1>3. new \in Registry
    BY <1>1, <1>2 DEF AfterFetch, Registry
  <1>4. [registries EXCEPT ![refresh.registry] = AfterFetch(@, c)]
          = [registries EXCEPT ![refresh.registry] = new]
    OBVIOUS
  <1> HIDE DEF new
  <1>5. /\ [registries EXCEPT ![refresh.registry] = new] \in Seq(Registry)
        /\ DOMAIN [registries EXCEPT ![refresh.registry] = new] = DOMAIN registries
    BY <1>1, <1>3, OneReplaced
  <1>6. [registries EXCEPT ![refresh.registry] = AfterError(@, c)] = registries
    BY <1>1 DEF AfterError
  <1>7. [refresh EXCEPT !.todo = @ \ {c}] \in RefreshLoop
    BY <1>1 DEF RefreshLoop
  <1> QED BY <1>4, <1>5, <1>6, <1>7

LEMMA PricesTypes ==
    ASSUME CatalogTypes, References, PricesFilled
    PROVE  registries' \in Seq(Registry) /\ DOMAIN registries' = DOMAIN registries
  <1> DEFINE old == registries[refresh.registry]
             new == [old EXCEPT !.free = @ \cup {m \in old.entries[ModelsDev] :
                                                  m \in old.entries[ProviderOf[m]]}]
  <1>1. /\ registries \in Seq(Registry) /\ refresh.registry \in DOMAIN registries
    BY DEF CatalogTypes, References
  <1>2. old \in Registry
    BY <1>1
  <1>3. old.entries[ModelsDev] \in SUBSET Model
    BY <1>2 DEF Registry, Client
  <1>4. new \in Registry
    BY <1>2, <1>3 DEF Registry
  <1>5. registries' = [registries EXCEPT ![refresh.registry] = new]
    BY DEF PricesFilled
  <1> HIDE DEF new
  <1> QED BY <1>1, <1>4, <1>5, OneReplaced

LEMMA CatalogKeeps ==
    ASSUME CatalogTypes, References, ListsKeepThem, [CatalogNext]_catalogVars
    PROVE  CatalogTypes' /\ References' /\ ListsKeepThem'
  <1> DEFINE Goal == CatalogTypes' /\ References' /\ ListsKeepThem'
  <1>0. /\ upstream \in [Client -> SUBSET Model] /\ seen \in [Client -> SUBSET Model]
        /\ failed \in SUBSET Model /\ events \in 0..MaxEvents /\ refresh \in RefreshLoop
        /\ registries \in Seq(Registry)
    BY DEF CatalogTypes
  <1>a. Happen => events' \in 0..MaxEvents
    BY <1>0, EventsAssumption DEF Happen
  <1>1. ASSUME NEW c \in Client, ListingChanges(c) PROVE Goal
    <2>1. PICK m \in Model : upstream' = [upstream EXCEPT ![c] = IF m \in @ THEN @ \ {m} ELSE @ \cup {m}]
      BY <1>1 DEF ListingChanges, Of
    <2>2. upstream' \in [Client -> SUBSET Model]
      BY <1>0, <2>1
    <2> QED BY <1>0, <1>a, <1>1, <2>2, QuietKeeps DEF ListingChanges
  <1>2. ASSUME NEW c \in Client, FetchSucceeds(c) PROVE Goal
    <2>1. seen' \in [Client -> SUBSET Model]
      BY <1>0, <1>2 DEF FetchSucceeds
    <2>2. registries' \in Seq(Registry) /\ DOMAIN registries' = DOMAIN registries
          /\ refresh' \in RefreshLoop
      BY <1>2, FetchTypes DEF FetchSucceeds, Fetched
    <2>3. UNCHANGED <<refresh.manager, refresh.registry>> /\ refresh'.pc # "replace"
      BY <1>0, <1>2 DEF FetchSucceeds, Fetched, Fetching, RefreshLoop
    <2> QED BY <1>0, <1>2, <2>1, <2>2, <2>3, QuietKeeps DEF FetchSucceeds, Fetched
  <1>3. ASSUME NEW c \in Client, FetchFails(c) PROVE Goal
    <2>2. registries' = registries /\ refresh' \in RefreshLoop
      BY <1>3, FetchTypes DEF FetchFails, Fetched
    <2>3. UNCHANGED <<refresh.manager, refresh.registry>> /\ refresh'.pc # "replace"
      BY <1>0, <1>3 DEF FetchFails, Fetched, Fetching, RefreshLoop
    <2> QED BY <1>0, <1>a, <1>3, <2>2, <2>3, QuietKeeps DEF FetchFails, Fetched
  <1>4. ASSUME NEW m \in Model, ModelFails(m) PROVE Goal
    BY <1>0, <1>a, <1>4, QuietKeeps DEF ModelFails
  <1>5. CASE PricesFilled
    <2>1. refresh' \in RefreshLoop /\ UNCHANGED <<refresh.manager, refresh.registry>>
          /\ refresh'.pc # "replace"
      BY <1>0, <1>5 DEF PricesFilled, RefreshLoop
    <2> QED BY <1>0, <1>5, <2>1, PricesTypes, QuietKeeps DEF PricesFilled
  <1>6. CASE BootTimesOut
    <2>1. refresh' \in RefreshLoop /\ UNCHANGED <<refresh.manager, refresh.registry>>
          /\ refresh'.pc # "replace"
      BY <1>0, <1>6 DEF BootTimesOut, RefreshLoop
    <2> QED BY <1>0, <1>a, <1>6, <2>1, QuietKeeps DEF BootTimesOut
  <1>7. CASE Booted
    <2>1. live \in DOMAIN managers /\ live \in Nat
      BY DEF References, CatalogTypes
    <2>2. Extended(live) \in SUBSET Model /\ OfOperator(live) \subseteq Extended(live)
      BY <2>1, ExtendedHas
    <2>3. /\ refresh' \in RefreshLoop /\ refresh'.manager \in DOMAIN managers
          /\ refresh'.registry \in DOMAIN registries /\ refresh'.pc # "replace"
      BY <1>0, <1>7, <2>1 DEF Booted, LoopFor, RefreshLoop, References
    <2> QED BY <1>7, <2>1, <2>2, <2>3, ExtendsKeep DEF Booted
  <1>8. CASE HookReads
    <2>1. /\ Extended(refresh.manager) \in SUBSET Model
          /\ OfOperator(refresh.manager) \subseteq Extended(refresh.manager)
      BY ExtendedHas DEF References
    <2>2. /\ refresh' \in RefreshLoop /\ UNCHANGED <<refresh.manager, refresh.registry>>
          /\ refresh'.models = Extended(refresh.manager)
      BY <1>0, <1>8, <2>1 DEF HookReads, RefreshLoop
    <2> QED BY <1>0, <1>8, <2>1, <2>2, QuietKeeps DEF HookReads
  <1>9. CASE HookReplaces
    <2>1. /\ refresh.manager \in DOMAIN managers /\ refresh.models \in SUBSET Model
          /\ OfOperator(refresh.manager) \subseteq refresh.models
      BY <1>0, <1>9 DEF HookReplaces, References, ListsKeepThem, RefreshLoop
    <2>2. /\ refresh' \in RefreshLoop /\ refresh'.manager \in DOMAIN managers
          /\ refresh'.registry \in DOMAIN registries /\ refresh'.pc # "replace"
      BY <1>0, <1>9 DEF HookReplaces, References, RefreshLoop
    <2> QED BY <1>9, <2>1, <2>2, ExtendsKeep DEF HookReplaces
  <1>10. CASE WaitEnds
    <2>1. /\ refresh' \in RefreshLoop /\ UNCHANGED <<refresh.manager, refresh.registry>>
          /\ refresh'.pc # "replace"
      BY <1>0, <1>10 DEF WaitEnds, LoopFor, RefreshLoop
    <2> QED BY <1>0, <1>10, <2>1, QuietKeeps DEF WaitEnds
  <1>11. ASSUME NEW h \in hooks, OldHookReplaces(h) PROVE Goal
    <2>1. /\ h.manager \in DOMAIN managers /\ h.models \in SUBSET Model
          /\ OfOperator(h.manager) \subseteq h.models
      BY DEF References, ListsKeepThem, CatalogTypes
    <2>2. refresh' = refresh /\ hooks' \subseteq hooks
      BY <1>11 DEF OldHookReplaces
    <2> QED BY <1>0, <1>11, <2>1, <2>2, ExtendsKeep DEF OldHookReplaces, References
  <1>12. CASE UNCHANGED catalogVars
    BY <1>0, <1>12, QuietKeeps DEF catalogVars
  <1> QED BY <1>1, <1>2, <1>3, <1>4, <1>5, <1>6, <1>7, <1>8, <1>9, <1>10, <1>11, <1>12,
             BuiltKeeps, PublishKeeps DEF CatalogNext, Fetches

\* While there is one registry, everyone refers to it.
LEMMA OneRegistry ==
    ASSUME CatalogTypes, References, Len(registries) = 1
    PROVE  /\ DOMAIN registries = {1} /\ refresh.registry = 1 /\ registries[1] \in Registry
           /\ \A g \in DOMAIN managers : managers[g].registry = 1
  <1>1. DOMAIN registries = {1}
    BY DEF CatalogTypes
  <1>2. registries[1] \in Registry
    <2>1. registries \in Seq(Registry) /\ 1 \in DOMAIN registries
      BY <1>1 DEF CatalogTypes
    <2> QED BY <2>1
  <1> QED BY <1>1, <1>2 DEF References

\* Steps of the refresh loop and of what it reads.
LEMMA RefreshKeepsFirst ==
    ASSUME CatalogInv, Len(registries) = 1,
           \/ \E c \in Client : ListingChanges(c) \/ Fetches(c)
           \/ \E m \in Model : ModelFails(m)
           \/ PricesFilled \/ BootTimesOut \/ WaitEnds
    PROVE  FirstRegistry'
  <1>0. /\ DOMAIN registries = {1} /\ refresh.registry = 1 /\ registries[1] \in Registry
        /\ refresh \in RefreshLoop /\ FirstRegistry
        /\ \A p \in Model : ProviderOf[p] \in Client /\ ModelsDev \in Client
        /\ seen \in [Client -> SUBSET Model]
    BY OneRegistry, ProviderAssumption DEF CatalogInv, CatalogTypes, Client
  <1>1. ASSUME NEW c \in Client, ListingChanges(c) PROVE FirstRegistry'
    BY <1>0, <1>1 DEF ListingChanges, FirstRegistry, Wanted, Pool
  <1>2. ASSUME NEW m \in Model, ModelFails(m) PROVE FirstRegistry'
    BY <1>0, <1>2 DEF ModelFails, FirstRegistry, Wanted, Pool
  <1>3. ASSUME NEW c \in Client, FetchSucceeds(c) PROVE FirstRegistry'
    <2>1. /\ UNCHANGED <<pools, managers, live, hooks, candidate, failed>>
          /\ refresh.pc \in {"boot", "fetch"} /\ seen' = [seen EXCEPT ![c] = upstream[c]]
          /\ refresh'.pc = refresh.pc /\ refresh'.manager = refresh.manager
      BY <1>0, <1>3 DEF FetchSucceeds, Fetched, Fetching, RefreshLoop
    <2>2. registries'[1].entries = [seen EXCEPT ![c] = upstream[c]]
      <3>1. registries'[1] = AfterFetch(registries[1], c)
        BY <1>0, <1>3 DEF FetchSucceeds
      <3> QED BY <1>0, <3>1 DEF AfterFetch, FirstRegistry
    <2> QED BY <1>0, <2>1, <2>2 DEF FirstRegistry, Pool
  <1>4. ASSUME NEW c \in Client, FetchFails(c) PROVE FirstRegistry'
    <2>1. /\ UNCHANGED <<pools, managers, live, hooks, candidate, failed, seen>>
          /\ refresh.pc \in {"boot", "fetch"}
          /\ refresh'.pc = refresh.pc /\ refresh'.manager = refresh.manager
      BY <1>0, <1>4 DEF FetchFails, Fetched, Fetching, RefreshLoop
    <2>2. registries' = registries
      BY <1>4, FetchTypes DEF FetchFails, CatalogInv
    <2> QED BY <1>0, <2>1, <2>2 DEF FirstRegistry, Pool
  <1>5. CASE PricesFilled
    <2>1. /\ UNCHANGED <<pools, managers, live, hooks, candidate, failed, seen>>
          /\ refresh'.pc = IF refresh.pc = "boot" THEN "booted" ELSE "hook"
          /\ refresh.pc \in {"boot", "fetch"}
          /\ refresh'.manager = refresh.manager
      BY <1>0, <1>5 DEF PricesFilled, RefreshLoop
    <2> DEFINE zero == {m \in registries[1].entries[ModelsDev] :
                          m \in registries[1].entries[ProviderOf[m]]}
    <2>2. registries'[1].entries = seen /\ registries'[1].free = registries[1].free \cup zero
      <3>1. registries' = [registries EXCEPT ![1].free = @ \cup zero]
        BY <1>0, <1>5 DEF PricesFilled
      <3> HIDE DEF zero
      <3> QED BY <1>0, <3>1 DEF Registry, FirstRegistry
    <2>3. \A m \in seen[ModelsDev] : m \in seen[ProviderOf[m]] => m \in registries'[1].free
      BY <1>0, <2>2 DEF FirstRegistry
    <2> QED BY <1>0, <2>1, <2>2, <2>3 DEF FirstRegistry, Pool
  <1>6. CASE BootTimesOut
    <2>1. /\ UNCHANGED <<pools, managers, registries, live, hooks, candidate, failed, seen>>
          /\ refresh'.pc = "booted" /\ refresh.pc = "boot" /\ refresh'.manager = refresh.manager
      BY <1>0, <1>6 DEF BootTimesOut, RefreshLoop
    <2> QED BY <1>0, <2>1 DEF FirstRegistry, Pool
  <1>7. CASE WaitEnds
    <2>1. /\ UNCHANGED <<pools, managers, registries, live, hooks, candidate, failed, seen>>
          /\ refresh'.pc = "fetch" /\ refresh'.manager = refresh.manager
      BY <1>7 DEF WaitEnds, LoopFor
    <2> QED BY <1>0, <2>1 DEF FirstRegistry, Pool
  <1> QED BY <1>1, <1>2, <1>3, <1>4, <1>5, <1>6, <1>7 DEF Fetches

\* All that is wanted is in what the first manager is extended with.
LEMMA WantedIsExtended ==
    ASSUME CatalogInv, Len(registries) = 1, live = 1, refresh.pc = "hook", NEW m \in Model,
           Wanted(m)
    PROVE  m \in Extended(1)
  <1>1. /\ registries[1].entries = seen /\ managers[1].registry = 1 /\ 1 \in DOMAIN managers
        /\ managers[1].static \subseteq pools[Pool(1)].models
        /\ \A n \in seen[ModelsDev] : n \in seen[ProviderOf[n]] => n \in registries[1].free
    BY OneRegistry DEF CatalogInv, FirstRegistry, References
  <1>2. CASE m \in managers[1].static
    BY <1>1, <1>2 DEF Extended
  <1>3. CASE m \notin managers[1].static
    <2>1. m \in EligibleNow(registries[1])
      BY <1>1, <1>3 DEF Wanted, EligibleNow, CostsNothing
    <2> QED BY <1>1, <1>3, <2>1 DEF Extended
  <1> QED BY <1>2, <1>3

\* Steps that read or write pools.
LEMMA PoolsKeepFirst ==
    ASSUME CatalogInv, Len(registries) = 1, Len(registries') = 1,
           \/ Booted \/ HookReads \/ HookReplaces \/ BuildAgain \/ BuildNew \/ Publish
           \/ \E h \in hooks : OldHookReplaces(h)
    PROVE  FirstRegistry'
  <1>0. /\ FirstRegistry /\ CatalogTypes /\ References /\ ListsKeepThem
        /\ refresh \in RefreshLoop /\ 1 \in DOMAIN managers
        /\ \A g \in DOMAIN managers : managers[g].registry = 1
    BY OneRegistry DEF CatalogInv, CatalogTypes, FirstRegistry, References
  <1>1. CASE Booted
    <2>1. /\ live = 1 /\ candidate = 0 /\ hooks = {}
          /\ UNCHANGED <<registries, live, hooks, candidate, failed, seen>>
          /\ refresh'.pc = "fetch" /\ refresh'.manager = 1
          /\ Extend(1, Extended(1))
      BY <1>0, <1>1 DEF Booted, FirstRegistry, LoopFor
    <2>2. Extended(1) \in SUBSET Model /\ managers[1].static \subseteq Extended(1)
      BY <1>0, <2>1, ExtendedHas DEF FirstRegistry
    <2>3. /\ Pool(1) \in DOMAIN pools /\ managers'[1].pool = managers[1].pool
          /\ managers'[1].static = managers[1].static
          /\ pools'[Pool(1)].models = Extended(1)
      BY <1>0, <2>1, <2>2, ExtendsOne DEF References, Pool
    <2>4. managers'[1].static \subseteq pools'[managers'[1].pool].models
      BY <2>2, <2>3 DEF Pool
    <2> QED BY <1>0, <2>1, <2>4 DEF FirstRegistry, Pool
  <1>2. CASE HookReads
    <2>1. /\ UNCHANGED <<pools, managers, registries, live, hooks, candidate, failed, seen>>
          /\ refresh.pc = "hook" /\ refresh'.pc = "replace" /\ refresh'.manager = refresh.manager
          /\ refresh'.models = Extended(refresh.manager) /\ refresh.manager = 1
      BY <1>0, <1>2 DEF HookReads, RefreshLoop, FirstRegistry
    <2>2. live = 1 => \A m \in Model : Wanted(m) => m \in refresh'.models
      BY <2>1, WantedIsExtended
    <2>3. \A m : Wanted(m)' <=> Wanted(m)
      BY <2>1 DEF Wanted
    <2> QED BY <1>0, <2>1, <2>2, <2>3 DEF FirstRegistry, Pool
  <1>3. CASE HookReplaces
    <2>1. /\ hooks = {} /\ refresh.manager = 1 /\ refresh.pc = "replace"
          /\ UNCHANGED <<registries, live, hooks, candidate, failed, seen>>
          /\ refresh'.pc = "wait" /\ refresh'.manager = 1
          /\ Extend(1, refresh.models) /\ refresh.models \in SUBSET Model
      BY <1>0, <1>3 DEF HookReplaces, FirstRegistry, RefreshLoop
    <2>2. live = 1 => managers[1].static \subseteq refresh.models
      <3>1. managers[1] \in PoolManager
        BY <1>0 DEF CatalogTypes
      <3>2. managers[1].static \subseteq Model
        BY <3>1 DEF PoolManager
      <3>3. live = 1 => \A m \in Model : Wanted(m) => m \in refresh.models
        BY <1>0, <2>1 DEF FirstRegistry
      <3> QED BY <3>2, <3>3 DEF Wanted
    <2>3. /\ Pool(1) \in DOMAIN pools /\ managers'[1].pool = managers[1].pool
          /\ managers'[1].static = managers[1].static
          /\ pools'[Pool(1)].models = refresh.models
      BY <1>0, <2>1, ExtendsOne DEF References, Pool
    <2>4. live = 1 => managers'[1].static \subseteq pools'[managers'[1].pool].models
      BY <2>2, <2>3 DEF Pool
    <2> QED BY <1>0, <2>1, <2>4 DEF FirstRegistry, Pool
  <1>4. CASE BuildAgain \/ BuildNew
    <2>1. PICK object, models : /\ Built(object, models)
                                /\ pools' = pools \/ \E e : pools' = Append(pools, e)
      BY <1>4 DEF BuildAgain, BuildNew
    <2>2. /\ refresh.pc \notin {"boot", "booted"} /\ candidate' = Len(managers) + 1
          /\ UNCHANGED <<failed, registries, live, refresh, hooks, seen>>
          /\ \E e : managers' = Append(managers, e)
      BY <2>1 DEF Built
    <2>3. /\ managers'[1] = managers[1] /\ candidate' # 1
      BY <1>0, <2>2, OldStays DEF CatalogTypes
    <2>4. pools'[managers[1].pool] = pools[managers[1].pool]
      <3>1. pools \in Seq(PoolObject) /\ managers[1].pool \in DOMAIN pools
        BY <1>0 DEF CatalogTypes, References
      <3>2. \A e : Append(pools, e)[managers[1].pool] = pools[managers[1].pool]
        BY <3>1, OldStays
      <3> QED BY <2>1, <3>2
    <2>5. \A m : Wanted(m)' <=> Wanted(m)
      BY <2>2, <2>3 DEF Wanted
    <2> QED BY <1>0, <2>2, <2>3, <2>4, <2>5 DEF FirstRegistry, Pool
  <1>5. CASE Publish
    <2>1. candidate # 0 /\ live' = candidate /\ candidate' = 0 /\ seen' = seen
      BY <1>5 DEF Publish, CatalogRebuilt
    <2>2. registries' # Append(registries, NewRegistry)
      <3>1. Len(Append(registries, NewRegistry)) = Len(registries) + 1
        BY <1>0, OldStays DEF CatalogTypes
      <3> QED BY <3>1
    <2>3. UNCHANGED <<registries, refresh, hooks>>
      BY <1>5, <2>2 DEF Publish, CatalogRebuilt
    <2> QED BY <1>0, <2>1, <2>3 DEF FirstRegistry
  <1>6. ~ \E h \in hooks : OldHookReplaces(h)
    BY <1>0 DEF FirstRegistry
  <1> QED BY <1>1, <1>2, <1>3, <1>4, <1>5, <1>6

\* Registries are only added.
LEMMA OneRegistryBefore ==
    ASSUME CatalogTypes, CatalogTypes', References, [CatalogNext]_catalogVars, Len(registries') = 1
    PROVE  Len(registries) = 1
  <1>1. Len(registries) \in Nat \ {0} /\ registries \in Seq(Registry)
    BY DEF CatalogTypes, References
  <1>2. \/ registries' \in {registries, Append(registries, NewRegistry)}
        \/ DOMAIN registries' = DOMAIN registries
    BY DEF CatalogNext, catalogVars, ListingChanges, Fetches, FetchSucceeds, FetchFails,
           ModelFails, PricesFilled, BootTimesOut, Booted, HookReads, HookReplaces,
           WaitEnds, OldHookReplaces, BuildAgain, BuildNew, Built, Publish, CatalogRebuilt
  <1>3. registries' \in Seq(Registry)
    BY DEF CatalogTypes
  <1>4. Len(Append(registries, NewRegistry)) = Len(registries) + 1
    BY <1>1, OldStays
  <1> QED BY <1>1, <1>2, <1>3, <1>4

LEMMA CatalogStep == CatalogInv /\ [CatalogNext]_catalogVars => CatalogInv'
  <1> SUFFICES ASSUME CatalogInv, [CatalogNext]_catalogVars PROVE CatalogInv'
    OBVIOUS
  <1>1. CatalogTypes' /\ References' /\ ListsKeepThem'
    BY CatalogKeeps DEF CatalogInv
  <1>2. Len(registries') = 1 => Len(registries) = 1
    BY <1>1, OneRegistryBefore DEF CatalogInv
  <1>3. ASSUME Len(registries') = 1, UNCHANGED catalogVars PROVE FirstRegistry'
    BY <1>2, <1>3 DEF catalogVars, CatalogInv, FirstRegistry, Wanted, Pool
  <1>4. Len(registries') = 1 => FirstRegistry'
    BY <1>2, <1>3, RefreshKeepsFirst, PoolsKeepFirst DEF CatalogNext
  <1> QED BY <1>1, <1>4 DEF CatalogInv

LEMMA CatalogStart == CatalogInit => CatalogInv
  <1> SUFFICES ASSUME CatalogInit PROVE CatalogInv
    OBVIOUS
  <1>1. PICK listed \in SUBSET Listable :
          /\ pools = <<[models |-> listed, listed |-> listed]>>
          /\ managers = <<[pool |-> 1, static |-> listed, models |-> listed, registry |-> 1]>>
    BY DEF CatalogInit
  <1>2. /\ registries = <<NewRegistry>> /\ live = 1 /\ hooks = {} /\ candidate = 0 /\ events = 0
        /\ refresh = [LoopFor(1, 1) EXCEPT !.pc = "boot"] /\ failed = {}
        /\ seen = [c \in Client |-> {}]
    BY DEF CatalogInit
  <1>3. listed \in SUBSET Model
    BY ListedAssumption
  <1>4. NewRegistry \in Registry /\ NewRegistry.entries = seen
    BY <1>2 DEF NewRegistry, Registry
  <1>5. /\ refresh \in RefreshLoop /\ refresh.pc = "boot" /\ refresh.manager = 1
        /\ refresh.registry = 1
    BY <1>2 DEF LoopFor, RefreshLoop
  <1>6. upstream \in [Client -> SUBSET Model]
    BY DEF CatalogInit, Of
  <1>7. /\ DOMAIN pools = {1} /\ DOMAIN managers = {1} /\ DOMAIN registries = {1}
        /\ pools[1] = [models |-> listed, listed |-> listed]
        /\ managers[1] = [pool |-> 1, static |-> listed, models |-> listed, registry |-> 1]
        /\ registries[1] = NewRegistry
    BY <1>1, <1>2
  <1>8. pools \in Seq(PoolObject) /\ managers \in Seq(PoolManager) /\ registries \in Seq(Registry)
    <2>1. [models |-> listed, listed |-> listed] \in PoolObject
      BY <1>3 DEF PoolObject
    <2>2. [pool |-> 1, static |-> listed, models |-> listed, registry |-> 1] \in PoolManager
      BY <1>3 DEF PoolManager
    <2> QED BY <1>1, <1>2, <1>4, <2>1, <2>2
  <1>9. CatalogTypes
    BY <1>2, <1>5, <1>6, <1>8, EventsAssumption DEF CatalogTypes
  <1>10. References
    BY <1>2, <1>5, <1>7 DEF References
  <1>11. ListsKeepThem
    BY <1>2, <1>5, <1>7 DEF ListsKeepThem, OfOperator, OperatorsOf
  <1>12. FirstRegistry
    BY <1>2, <1>4, <1>5, <1>7 DEF FirstRegistry, Pool
  <1> QED BY <1>9, <1>10, <1>11, <1>12 DEF CatalogInv

LEMMA CatalogInvariant == CatalogSpec => []CatalogInv
  BY CatalogStart, CatalogStep, PTL DEF CatalogSpec

\* Pools, managers, registries and the refresh loop keep their types, and all
\* that refers to one of them refers to one that there is (catalog.py, pools.py).
THEOREM CatalogTypeCorrect == CatalogSpec => []CatalogTypeOK
  <1>1. CatalogInv => CatalogTypeOK
    <2> SUFFICES ASSUME CatalogInv PROVE CatalogTypeOK
      OBVIOUS
    <2>1. pools \in Seq([models : SUBSET Model, listed : SUBSET Listable])
          /\ registries \in Seq([entries : [Client -> SUBSET Model], free : SUBSET Model])
      BY DEF CatalogInv, CatalogTypes, PoolObject, Registry
    <2>2. \A g \in DOMAIN managers :
            managers[g] \in [pool : DOMAIN pools, static : SUBSET Model, models : SUBSET Model,
                             registry : DOMAIN registries]
      <3>1. ASSUME NEW g \in DOMAIN managers
            PROVE  /\ managers[g] \in PoolManager
                   /\ managers[g].pool \in DOMAIN pools /\ managers[g].registry \in DOMAIN registries
        BY DEF CatalogInv, CatalogTypes, References
      <3> QED BY <3>1 DEF PoolManager
    <2>3. managers \in Seq([pool : DOMAIN pools, static : SUBSET Model, models : SUBSET Model,
                           registry : DOMAIN registries])
      BY <2>2, AllEntries DEF CatalogInv, CatalogTypes
    <2>4. refresh \in [pc : {"boot", "booted", "fetch", "hook", "replace", "wait"},
                      todo : SUBSET Client, manager : DOMAIN managers,
                      registry : DOMAIN registries, models : SUBSET Model]
      BY DEF CatalogInv, CatalogTypes, References, RefreshLoop
    <2>5. hooks \subseteq [manager : DOMAIN managers, models : SUBSET Model]
      BY DEF CatalogInv, CatalogTypes, References
    <2> QED BY <2>1, <2>3, <2>4, <2>5 DEF CatalogInv, CatalogTypes, References, CatalogTypeOK
  <1> QED BY <1>1, CatalogInvariant, PTL

\* Whatever hooks of old and new managers do to a pool that they share, and
\* however catalogs, failures and reloads come: the live pool has all that the
\* operator listed (PoolManager.extend_pools_with_auto_catalog).
THEOREM OperatorsModelsStay == CatalogSpec => []StaticStays
  <1>1. CatalogInv => StaticStays
    BY DEF CatalogInv, References, ListsKeepThem, OfOperator, OperatorsOf, StaticStays, Pool
  <1> QED BY <1>1, CatalogInvariant, PTL

\* A refresh takes from the live pool only what its source, or models.dev, did not
\* list when it was last fetched, or what failed; an outage takes nothing
\* (CatalogClient.refresh, extend_pools_with_auto_catalog).
THEOREM OutagesPruneNothing == CatalogSpec => OutagePrunesNothing
  <1> DEFINE Kept ==
        (live' = live /\ Len(registries') = 1) =>
            \A m \in managers[live].models \ managers'[live].models :
                \/ m \notin seen[ProviderOf[m]] \/ m \in failed
                \/ ProviderOf[m] \notin Priced /\ m \notin seen[ModelsDev]
  <1>1. CatalogInv /\ CatalogInv' /\ [CatalogNext]_catalogVars => [Kept]_catalogVars
    <2> SUFFICES ASSUME CatalogInv, CatalogInv', [CatalogNext]_catalogVars,
                        live' = live, Len(registries') = 1,
                        NEW m \in managers[live].models \ managers'[live].models
                 PROVE  \/ m \notin seen[ProviderOf[m]] \/ m \in failed
                        \/ ProviderOf[m] \notin Priced /\ m \notin seen[ModelsDev]
      OBVIOUS
    <2>1. /\ CatalogTypes /\ References /\ ListsKeepThem /\ FirstRegistry /\ Len(registries) = 1
          /\ live \in DOMAIN managers /\ managers \in Seq(PoolManager) /\ 1 \in DOMAIN managers
      BY OneRegistryBefore DEF CatalogInv, CatalogTypes, References, FirstRegistry
    <2>2. managers[live] \in PoolManager /\ m \in Model
      <3>1. managers[live] \in PoolManager
        BY <2>1
      <3> QED BY <3>1 DEF PoolManager
    <2>3. CASE Booted
      <3>1. live = 1 /\ managers[1].models = managers[1].static /\ Extend(1, Extended(1))
        BY <2>1, <2>3 DEF Booted, FirstRegistry
      <3>2. Extended(1) \in SUBSET Model /\ managers[1].static \subseteq Extended(1)
        BY <2>1, <3>1, ExtendedHas DEF FirstRegistry
      <3>3. managers'[1].models \in {managers[1].models, Extended(1)}
        BY <2>1, <3>1, <3>2, ExtendsOne
      <3> QED BY <3>1, <3>2, <3>3
    <2>4. CASE HookReplaces
      <3>1. /\ refresh.manager = 1 /\ refresh.pc = "replace" /\ Extend(1, refresh.models)
            /\ refresh.models \in SUBSET Model
        BY <2>1, <2>4 DEF HookReplaces, FirstRegistry, CatalogTypes, RefreshLoop
      <3>2. /\ live # 1 => managers'[live].models = managers[live].models
            /\ managers'[1].models \in {managers[1].models, refresh.models}
        BY <2>1, <3>1, ExtendsOne
      <3>3. live = 1 /\ m \notin refresh.models
        BY <3>2
      <3>4. ~ Wanted(m)
        BY <2>1, <2>2, <3>1, <3>3 DEF FirstRegistry
      <3> QED BY <3>4 DEF Wanted
    <2>5. CASE BuildAgain \/ BuildNew
      <3>1. \E e : managers' = Append(managers, e)
        BY <2>5 DEF BuildAgain, BuildNew, Built
      <3>2. managers'[live] = managers[live]
        BY <2>1, <3>1, OldStays
      <3> QED BY <3>2
    <2>6. CASE Publish
      BY <2>1, <2>6 DEF Publish, CatalogRebuilt, References
    <2>7. ~ \E h \in hooks : OldHookReplaces(h)
      BY <2>1 DEF FirstRegistry
    <2>8. managers' # managers
      OBVIOUS
    <2> QED BY <2>3, <2>4, <2>5, <2>6, <2>7, <2>8
            DEF CatalogNext, catalogVars, ListingChanges, Fetches, FetchSucceeds, FetchFails,
                Fetched, ModelFails, PricesFilled, BootTimesOut, HookReads, WaitEnds
  <1> HIDE DEF Kept
  <1>2. CatalogSpec => [][Kept]_catalogVars
    BY <1>1, CatalogInvariant, PTL DEF CatalogSpec
  <1> QED BY <1>2 DEF OutagePrunesNothing, Kept

-----------------------------------------------------------------------------
(***************************************************************************)
(* StreamTurn: the texts of a turn.  What a channel was sent and what its  *)
(* restorer holds are together what it was fed, so nothing is lost and the *)
(* order is kept; a finish leaves the restorers empty.                     *)
(***************************************************************************)

Texts == Seq(Nat)
Frame == TextFrames \cup CallFrames

TextTypes ==
    /\ turn \in [wants : {"answer", "tools", "call"}, restoring : BOOLEAN, style : Style]
    /\ frames \in Nat /\ endedAt \in Nat /\ endedAt <= frames
    /\ held \in [Channel -> Texts] /\ fed \in [Channel -> Texts] /\ got \in [Channel -> Texts]

NothingIsLost ==
    /\ \A c \in Channel : got[c] \o held[c] = fed[c]
    /\ ~ turn.restoring => \A c \in Channel : held[c] = <<>>

FinishedWhole ==
    /\ finish # "none" => \A c \in Channel, n \in 1..endedAt : n \in Range(fed[c]) => n \in Range(got[c])
    /\ finish # "none" /\ frames = endedAt => heldArgs = {}
    /\ outcome = "done" => got = fed /\ heldArgs = {}

TextInv == TextTypes /\ NothingIsLost /\ FinishedWhole

LEMMA FrameType ==
    ASSUME NEW f \in Frame
    PROVE  f.channel \in Channel /\ f.text \in {"none", "part", "next", "end", "open", "good", "bad"}
  BY DEF Frame, TextFrames, CallFrames, TurnFrame, Channel

\* What comes out of a restorer and what stays in it is what was in it and what
\* was fed.
LEMMA FeedSplits ==
    ASSUME TextInv, NEW f \in Frame, NEW n \in Nat
    PROVE  /\ Feed(f, n).send \in Texts /\ Feed(f, n).keep \in Texts
           /\ Feed(f, n).send \o Feed(f, n).keep
                = held[f.channel] \o (IF Sends(f) THEN <<n>> ELSE <<>>)
           /\ ~ turn.restoring => Feed(f, n).keep = <<>>
  <1> DEFINE had == held[f.channel]
  <1>0. /\ had \in Texts /\ <<n>> \in Texts /\ <<>> \in Texts
        /\ ~ turn.restoring => had = <<>>
        /\ turn.restoring \in BOOLEAN
        /\ f.text \in {"none", "part", "next", "end", "open", "good", "bad"}
    BY FrameType DEF TextInv, TextTypes, NothingIsLost, Texts
  <1>1. /\ had \o <<>> = had /\ <<>> \o had = had /\ Append(had, n) = had \o <<n>>
        /\ had \o <<n>> \in Texts /\ <<>> \o <<n>> = <<n>> /\ <<n>> \o <<>> = <<n>>
        /\ (had \o <<n>>) \o <<>> = had \o <<n>> /\ <<>> \o (had \o <<n>>) = had \o <<n>>
    BY <1>0, ConcatEmptySeq, AppendIsConcat, ConcatProperties DEF Texts
  <1> HIDE DEF had
  <1>2. CASE ~ Sends(f)
    <2>1. Feed(f, n) = [keep |-> had, send |-> <<>>]
      BY <1>2 DEF Feed, had
    <2>2. Feed(f, n).send = <<>> /\ Feed(f, n).keep = had
      BY <2>1
    <2>3. (IF Sends(f) THEN <<n>> ELSE <<>>) = <<>>
      BY <1>2
    <2> QED BY <1>0, <1>1, <2>2, <2>3 DEF had
  <1>3. CASE Sends(f) /\ ~ turn.restoring
    <2>1. Feed(f, n) = [keep |-> <<>>, send |-> <<n>>]
      BY <1>3 DEF Feed
    <2> QED BY <1>0, <1>1, <1>3, <2>1 DEF had
  <1>4. CASE Sends(f) /\ turn.restoring /\ f.text = "part"
    <2>1. Feed(f, n) = [keep |-> Append(had, n), send |-> <<>>]
      BY <1>4 DEF Feed, had
    <2> QED BY <1>0, <1>1, <1>4, <2>1 DEF had
  <1>5. CASE Sends(f) /\ turn.restoring /\ f.text = "next"
    <2>1. Feed(f, n) = [keep |-> <<n>>, send |-> had]
      BY <1>5 DEF Feed, had
    <2> QED BY <1>0, <1>1, <1>5, <2>1 DEF had
  <1>6. CASE Sends(f) /\ turn.restoring /\ f.text = "end"
    <2>1. Feed(f, n) = [keep |-> <<>>, send |-> Append(had, n)]
      BY <1>6 DEF Feed, had
    <2> QED BY <1>0, <1>1, <1>6, <2>1 DEF had
  <1>7. Sends(f) => f.text \in {"part", "next", "end"}
    BY DEF Sends
  <1> QED BY <1>0, <1>2, <1>3, <1>4, <1>5, <1>6, <1>7

\* A channel of which more is sent.
LEMMA MoreSent ==
    ASSUME NEW s \in Texts, NEW t \in Texts, NEW u \in Texts
    PROVE  /\ s \o t \in Texts /\ (s \o t) \o u = s \o (t \o u)
           /\ Range(s) \subseteq Range(s \o t)
           /\ s \o <<>> = s /\ <<>> \in Texts
  BY ConcatProperties, ConcatAssociative, RangeConcatenation, ConcatEmptySeq DEF Texts

\* What a frame does to the texts.
LEMMA FrameTexts ==
    ASSUME TextInv, NEW f \in Frame, FrameArrives(f)
    PROVE  /\ frames' = frames + 1 /\ turn' = turn /\ outcome' = "streaming"
           /\ fed' = IF Sends(f) THEN [fed EXCEPT ![f.channel] = Append(@, frames + 1)] ELSE fed
           /\ LET text == Feed(f, frames + 1)
                  kept == [held EXCEPT ![f.channel] = text.keep]
                  sent == [got EXCEPT ![f.channel] = @ \o text.send]
              IN IF First(f)
                 THEN /\ held' = NoTexts /\ got' = [c \in Channel |-> sent[c] \o kept[c]]
                      /\ heldArgs' = {} /\ endedAt' = frames + 1 /\ finish' # "none"
                 ELSE /\ held' = kept /\ got' = [c \in Channel |-> sent[c] \o <<>>]
                      /\ endedAt' = endedAt /\ finish' = finish
  <1> DEFINE text == Feed(f, frames + 1)
             kept == [held EXCEPT ![f.channel] = text.keep]
             sent == [got EXCEPT ![f.channel] = @ \o text.send]
             tails == IF First(f) THEN TailsOf(kept) ELSE NoTexts
  <1>1. /\ frames' = frames + 1 /\ turn' = turn /\ outcome' = "streaming" /\ Receive(f)
        /\ fed' = IF Sends(f) THEN [fed EXCEPT ![f.channel] = Append(@, frames + 1)] ELSE fed
        /\ endedAt' = IF First(f) THEN frames + 1 ELSE endedAt
    BY DEF FrameArrives
  <1>2. /\ finish' = (IF First(f) THEN FinishReason(SawCall(f)) ELSE finish)
        /\ held' = (IF First(f) THEN [c \in Channel |-> IF tails[c] = <<>> THEN kept[c] ELSE <<>>] ELSE kept)
        /\ got' = Joined(sent, tails)
        /\ First(f) => heldArgs' = {}
    BY <1>1 DEF Receive
  <1>3. CASE First(f)
    <2>1. tails = kept
      BY <1>3 DEF TailsOf
    <2> HIDE DEF kept, sent, tails
    <2>2. held' = NoTexts /\ got' = [c \in Channel |-> sent[c] \o kept[c]]
      BY <1>2, <1>3, <2>1 DEF NoTexts, Joined
    <2>3. finish' # "none"
      BY <1>2, <1>3 DEF FinishReason
    <2> QED BY <1>1, <1>2, <1>3, <2>2, <2>3 DEF kept, sent
  <1>4. CASE ~ First(f)
    <2>1. tails = NoTexts
      BY <1>4
    <2> HIDE DEF kept, sent, tails
    <2>2. got' = [c \in Channel |-> sent[c] \o <<>>]
      BY <1>2, <2>1 DEF NoTexts, Joined
    <2> QED BY <1>1, <1>2, <1>4, <2>2 DEF kept, sent
  <1> QED BY <1>3, <1>4

LEMMA FrameKeepsText ==
    ASSUME TextInv, NEW f \in Frame, FrameArrives(f)
    PROVE  TextInv'
  <1> DEFINE n == frames + 1
             ch == f.channel
             send == Feed(f, n).send
             keep == Feed(f, n).keep
             new == IF Sends(f) THEN <<n>> ELSE <<>>
             sent == [got EXCEPT ![ch] = @ \o send]
             kept == [held EXCEPT ![ch] = keep]
  <1>1. /\ frames \in Nat /\ n \in Nat /\ ch \in Channel /\ new \in Texts
        /\ held \in [Channel -> Texts] /\ fed \in [Channel -> Texts] /\ got \in [Channel -> Texts]
        /\ endedAt \in Nat /\ endedAt <= frames
    BY FrameType DEF TextInv, TextTypes, Texts
  <1>2. /\ send \in Texts /\ keep \in Texts /\ send \o keep = held[ch] \o new
        /\ ~ turn.restoring => keep = <<>>
    BY <1>1, FeedSplits
  <1>3. /\ frames' = n /\ turn' = turn /\ outcome' = "streaming"
        /\ fed' = IF Sends(f) THEN [fed EXCEPT ![ch] = Append(@, n)] ELSE fed
        /\ IF First(f)
           THEN /\ held' = NoTexts /\ got' = [c \in Channel |-> sent[c] \o kept[c]]
                /\ heldArgs' = {} /\ endedAt' = n /\ finish' # "none"
           ELSE /\ held' = kept /\ got' = [c \in Channel |-> sent[c] \o <<>>]
                /\ endedAt' = endedAt /\ finish' = finish
    BY FrameTexts
  <1>4. Sends(f) => fed[ch] \o <<n>> = Append(fed[ch], n)
    BY <1>1, AppendIsConcat DEF Texts
  <1>5. /\ fed' \in [Channel -> Texts] /\ fed'[ch] = fed[ch] \o new
        /\ \A c \in Channel : c # ch => fed'[c] = fed[c]
    <2>1. CASE Sends(f)
      <3>1. fed[ch] \o <<n>> \in Texts
        BY <1>1, <2>1, MoreSent
      <3> QED BY <1>1, <1>3, <1>4, <2>1, <3>1
    <2>2. CASE ~ Sends(f)
      <3>1. fed' = fed /\ new = <<>>
        BY <1>3, <2>2
      <3>2. fed[ch] \o <<>> = fed[ch]
        BY <1>1, MoreSent
      <3> QED BY <1>1, <3>1, <3>2
    <2> QED BY <2>1, <2>2
  <1> HIDE DEF n, ch, send, keep, new
  <1>6. /\ sent \in [Channel -> Texts] /\ kept \in [Channel -> Texts]
        /\ sent[ch] = got[ch] \o send /\ kept[ch] = keep
        /\ \A c \in Channel : c # ch => sent[c] = got[c] /\ kept[c] = held[c]
    BY <1>1, <1>2, MoreSent
  <1> HIDE DEF sent, kept
  <1>7. \A c \in Channel : sent[c] \o kept[c] = fed'[c]
    <2>1. \A c \in Channel : got[c] \o held[c] = fed[c]
      BY DEF TextInv, NothingIsLost
    <2>4. got[ch] \in Texts /\ held[ch] \in Texts
      BY <1>1
    <2>5. ASSUME NEW s \in Texts, NEW t \in Texts, NEW u \in Texts
          PROVE  (s \o t) \o u = s \o (t \o u)
      BY ConcatAssociative DEF Texts
    <2>2. (got[ch] \o send) \o keep = got[ch] \o (send \o keep)
      BY <1>2, <2>4, <2>5
    <2>3. got[ch] \o (held[ch] \o new) = (got[ch] \o held[ch]) \o new
      BY <1>1, <2>4, <2>5
    <2> QED BY <1>1, <1>2, <1>5, <1>6, <2>1, <2>2, <2>3
  <1>8. \A c \in Channel : Range(got[c]) \subseteq Range(sent[c])
    <2>1. got[ch] \in Texts
      BY <1>1
    <2>2. Range(got[ch]) \subseteq Range(got[ch] \o send)
      BY <1>2, <2>1, MoreSent
    <2> QED BY <1>6, <2>2
  <1>9. CASE First(f)
    <2>1. /\ held' = NoTexts /\ got' = [c \in Channel |-> sent[c] \o kept[c]]
          /\ heldArgs' = {} /\ endedAt' = n /\ finish' # "none"
      BY <1>3, <1>9
    <2>2. got' = fed' /\ \A c \in Channel : got'[c] = fed'[c] /\ held'[c] = <<>>
      BY <1>5, <1>7, <2>1 DEF NoTexts
    <2>6. got' \in [Channel -> Texts] /\ held' \in [Channel -> Texts]
      <3>1. <<>> \in Texts
        BY DEF Texts
      <3> QED BY <1>5, <2>1, <2>2, <3>1 DEF NoTexts
    <2>3. TextTypes'
      BY <1>1, <1>3, <1>5, <2>1, <2>6 DEF TextInv, TextTypes
    <2>4. NothingIsLost'
      <3>1. \A c \in Channel : fed'[c] \o <<>> = fed'[c]
        BY <1>5, MoreSent
      <3> QED BY <2>2, <3>1 DEF NothingIsLost
    <2>5. FinishedWhole'
      BY <1>3, <2>1, <2>2 DEF FinishedWhole
    <2> QED BY <2>3, <2>4, <2>5 DEF TextInv
  <1>10. CASE ~ First(f)
    <2>1. /\ held' = kept /\ got' = [c \in Channel |-> sent[c] \o <<>>]
          /\ endedAt' = endedAt /\ finish' = finish
      BY <1>3, <1>10
    <2>2. \A c \in Channel : sent[c] \o <<>> = sent[c]
      BY <1>6, MoreSent
    <2>3. got' = sent /\ held' = kept
      BY <1>6, <2>1, <2>2
    <2>4. TextTypes'
      BY <1>1, <1>3, <1>5, <1>6, <2>1, <2>3 DEF TextInv, TextTypes, n
    <2>5. NothingIsLost'
      <3>1. ~ turn.restoring => \A c \in Channel : kept[c] = <<>>
        BY <1>2, <1>6 DEF TextInv, NothingIsLost
      <3> QED BY <1>3, <1>7, <2>3, <3>1 DEF NothingIsLost
    <2>6. FinishedWhole'
      <3>1. ASSUME finish # "none", NEW c \in Channel, NEW k \in 1..endedAt, k \in Range(fed'[c])
            PROVE  k \in Range(got'[c])
        <4>1. k # n
          BY <1>1, <3>1 DEF n
        <4>2. k \in Range(fed[c])
          <5>1. CASE c # ch
            BY <1>5, <3>1, <5>1
          <5>2. CASE c = ch
            <6>1. Range(fed[c] \o new) = Range(fed[c]) \cup Range(new)
              BY <1>1, RangeConcatenation DEF Texts
            <6>2. Range(new) \subseteq {n}
              BY DEF new, Range
            <6> QED BY <1>5, <3>1, <4>1, <5>2, <6>1, <6>2
          <5> QED BY <5>1, <5>2
        <4>3. k \in Range(got[c])
          BY <3>1, <4>2 DEF TextInv, FinishedWhole
        <4> QED BY <1>8, <2>3, <4>3
      <3>2. frames' # endedAt'
        BY <1>1, <1>3, <2>1 DEF n
      <3> QED BY <1>3, <2>1, <3>1, <3>2 DEF FinishedWhole
    <2> QED BY <2>4, <2>5, <2>6 DEF TextInv
  <1> QED BY <1>9, <1>10

\* The tails go out after the turn's end, or with [DONE].
LEMMA FlushKeepsText ==
    ASSUME TextInv, outcome = "streaming", NEW last \in BOOLEAN, Flush(last),
           UNCHANGED <<turn, frames, fed>>, last => finish = "none"
    PROVE  /\ TextTypes' /\ NothingIsLost' /\ got' = fed' /\ heldArgs' = {}
           /\ finish' # "none" =>
                \A c \in Channel, k \in 1..endedAt' : k \in Range(fed'[c]) => k \in Range(got'[c])
  <1>1. /\ held' = [c \in Channel |-> IF held[c] = <<>> THEN held[c] ELSE <<>>]
        /\ heldArgs' = {} /\ got' = Joined(got, held)
        /\ endedAt' = IF last THEN frames ELSE endedAt
    BY DEF Flush, TailsOf
  <1>2. \A c \in Channel : held'[c] = <<>> /\ got'[c] = fed[c]
    BY <1>1 DEF TextInv, NothingIsLost, Joined
  <1>3. held' = NoTexts /\ got' = fed
    BY <1>1, <1>2 DEF NoTexts, Joined, TextInv, TextTypes
  <1>4. TextTypes'
    BY <1>1, <1>3 DEF TextInv, TextTypes, NoTexts, Texts
  <1>5. \A c \in Channel : fed[c] \o <<>> = fed[c]
    BY MoreSent DEF TextInv, TextTypes
  <1>6. NothingIsLost'
    BY <1>2, <1>3, <1>5 DEF NothingIsLost
  <1> QED BY <1>1, <1>3, <1>4, <1>6

\* A turn that stops where it is.
LEMMA StoppedKeepsText ==
    ASSUME TextInv, NEW how, Ends(how), Untouched, how # "done"
    PROVE  TextInv'
  <1>1. UNCHANGED <<turn, frames, fed, held, heldArgs, finish, got, endedAt>> /\ outcome' # "done"
    BY DEF Ends, Untouched
  <1>2. TextTypes'
    BY <1>1 DEF TextInv, TextTypes
  <1>3. NothingIsLost'
    BY <1>1 DEF TextInv, NothingIsLost
  <1>4. FinishedWhole'
    BY <1>1 DEF TextInv, FinishedWhole
  <1> QED BY <1>2, <1>3, <1>4 DEF TextInv

LEMMA EndsAreNotDone == EndRefused # "done"
  BY DEF EndRefused

LEMMA TextStep ==
    ASSUME TextInv, TurnNext
    PROVE  TextInv'
  <1>1. ASSUME NEW f \in Frame, Arrives(f) PROVE TextInv'
    <2>1. CASE FrameArrives(f)
      BY <1>1, <2>1, FrameKeepsText
    <2>2. CASE FrameRefused(f)
      <3>1. PICK how : Ends(how) /\ Untouched /\ how # "done"
        <4> DEFINE send == Feed(f, frames + 1).send
                   shown == saw.visible \/ (f.channel = "content" /\ send # <<>>)
        <4>1. Ends(Refused(f, shown, send)) /\ Untouched
          BY <2>2 DEF FrameRefused
        <4> HIDE DEF send, shown
        <4>2. Refused(f, shown, send) # "done"
          BY DEF Refused
        <4> QED BY <4>1, <4>2
      <3> QED BY <3>1, StoppedKeepsText
    <2> QED BY <1>1, <2>1, <2>2 DEF Arrives
  <1>2. CASE DoneArrives
    <2> DEFINE last == EndRefused = "none" /\ finish = "none"
               how == IF EndRefused = "none" THEN "streaming" ELSE EndRefused
    <2>1. outcome = "streaming" /\ Flush(last) /\ Ends(how)
      BY <1>2 DEF DoneArrives
    <2>2. last \in BOOLEAN /\ (last => finish = "none") /\ how # "done"
      BY EndsAreNotDone
    <2> HIDE DEF last, how
    <2>3. UNCHANGED <<turn, frames, fed>> /\ outcome' # "done"
      BY <2>1, <2>2 DEF Ends
    <2>4. /\ TextTypes' /\ NothingIsLost' /\ got' = fed' /\ heldArgs' = {}
          /\ finish' # "none" =>
               \A c \in Channel, k \in 1..endedAt' : k \in Range(fed'[c]) => k \in Range(got'[c])
      BY <2>1, <2>2, <2>3, FlushKeepsText
    <2>5. FinishedWhole'
      BY <2>3, <2>4 DEF FinishedWhole
    <2> QED BY <2>4, <2>5 DEF TextInv
  <1>3. CASE StreamCloses
    <2> DEFINE last == finish = "none"
    <2>1. outcome = "streaming" /\ Flush(last) /\ Ends("done")
      BY <1>3 DEF StreamCloses
    <2>2. last \in BOOLEAN /\ (last => finish = "none")
      OBVIOUS
    <2> HIDE DEF last
    <2>3. UNCHANGED <<turn, frames, fed>>
      BY <2>1 DEF Ends
    <2>4. /\ TextTypes' /\ NothingIsLost' /\ got' = fed' /\ heldArgs' = {}
          /\ finish' # "none" =>
               \A c \in Channel, k \in 1..endedAt' : k \in Range(fed'[c]) => k \in Range(got'[c])
      BY <2>1, <2>2, <2>3, FlushKeepsText
    <2>5. FinishedWhole'
      BY <2>4 DEF FinishedWhole
    <2> QED BY <2>4, <2>5 DEF TextInv
  <1>4. CASE TurnRefused
    BY <1>4, EndsAreNotDone, StoppedKeepsText DEF TurnRefused
  <1>5. CASE Breaks \/ Loops \/ EnvelopeTooLong
    <2>1. PICK how \in {"broken", "loop", "malformed"} : Ends(how) /\ Untouched
      BY <1>5 DEF Breaks, Loops, EnvelopeTooLong
    <2> QED BY <2>1, StoppedKeepsText
  <1> QED BY <1>1, <1>2, <1>3, <1>4, <1>5 DEF TurnNext, Frame

LEMMA TextInvariant == TurnSpec => []TextInv
  <1>1. TurnInit => TextInv
    <2> SUFFICES ASSUME TurnInit PROVE TextInv
      OBVIOUS
    <2>1. <<>> \in Texts /\ <<>> \o <<>> = <<>>
      BY MoreSent DEF Texts
    <2>2. TextTypes
      BY <2>1 DEF TurnInit, TextTypes, NoTexts
    <2>3. NothingIsLost
      BY <2>1 DEF TurnInit, NothingIsLost, NoTexts
    <2>4. FinishedWhole
      BY DEF TurnInit, FinishedWhole
    <2> QED BY <2>2, <2>3, <2>4 DEF TextInv
  <1>2. TextInv /\ [TurnNext]_turnVars => TextInv'
    <2>1. CASE UNCHANGED turnVars
      BY <2>1 DEF turnVars, TextInv, TextTypes, NothingIsLost, FinishedWhole
    <2> QED BY <2>1, TextStep
  <1> QED BY <1>1, <1>2, PTL DEF TurnSpec

\* A text is the beginning of itself with more behind it.
LEMMA BeginsWith ==
    ASSUME NEW s \in Texts, NEW t \in Texts
    PROVE  IsPrefix(s, s \o t)
  <1>1. s \in Seq(Nat) /\ t \in Seq(Nat)
    BY DEF Texts
  <1>2. /\ s \o t \in Seq(Nat) /\ Len(s \o t) = Len(s) + Len(t)
        /\ \A i \in 1..Len(s) : (s \o t)[i] = s[i]
    BY <1>1, ConcatProperties
  <1>3. Len(s) \in Nat /\ Len(t) \in Nat
    BY <1>1
  <1>4. SubSeq(s \o t, 1, Len(s)) = s
    <2>1. /\ SubSeq(s \o t, 1, Len(s)) \in Seq(Nat)
          /\ Len(SubSeq(s \o t, 1, Len(s))) = Len(s)
          /\ \A i \in 1..Len(s) : SubSeq(s \o t, 1, Len(s))[i] = (s \o t)[i]
      BY <1>2, <1>3, SubSeqProperties
    <2> QED BY <1>1, <1>2, <2>1, SeqEqual
  <1> QED BY <1>2, <1>3, <1>4 DEF IsPrefix

\* TextArrivesWhole: what a client is sent of a channel is the beginning of
\* what the provider said on it; when the finish is sent nothing that came
\* before it is held back, and when the stream closes everything has gone
\* (_BufferedRestorer.feed, _text_tail_frames).
THEOREM TextsArriveWhole == TurnSpec => []TextArrivesWhole
  <1>1. TextInv => TextArrivesWhole
    <2> SUFFICES ASSUME TextInv PROVE TextArrivesWhole
      OBVIOUS
    <2>1. ASSUME NEW c \in Channel PROVE IsPrefix(got[c], fed[c])
      <3>1. got[c] \in Texts /\ held[c] \in Texts /\ got[c] \o held[c] = fed[c]
        BY DEF TextInv, TextTypes, NothingIsLost
      <3>2. IsPrefix(got[c], got[c] \o held[c])
        BY <3>1, BeginsWith
      <3> QED BY <3>1, <3>2
    <2> QED BY <2>1 DEF TextArrivesWhole, TextInv, FinishedWhole
  <1> QED BY <1>1, TextInvariant, PTL

(***************************************************************************)
(* Folds over sequences: what FoldLeft comes to is the last of the values  *)
(* that begin with the base and follow one another by the step.  The steps *)
(* of StreamTurn's folds are numbered, so that the argument is made once.  *)
(***************************************************************************)

Less == {ss \in Nat \X Nat : ss[1] < ss[2]}

LEMMA LessIsWellFounded == IsWellFoundedOn(Less, Nat)
  BY NatLessThanWellFounded DEF Less, OpToRel

\* A set of numbers that holds 0 and the successors of its numbers holds all.
LEMMA Climb ==
    ASSUME NEW G, 0 \in G, \A n \in Nat : n \in G => n + 1 \in G
    PROVE  Nat \subseteq G
  <1> SUFFICES ASSUME ~ (Nat \subseteq G) PROVE FALSE
    OBVIOUS
  <1> DEFINE T == Nat \ G
  <1>1. PICK m \in T : \A n \in T : <<n, m>> \notin Less
    <2>1. T \subseteq Nat /\ T # {}
      OBVIOUS
    <2> HIDE DEF T
    <2> QED BY <2>1, LessIsWellFounded, WFMin
  <1>2. \A n \in T : ~ (n < m)
    BY <1>1 DEF Less
  <1>3. m # 0 /\ m \in Nat
    OBVIOUS
  <1>4. m - 1 \in Nat /\ m - 1 < m /\ (m - 1) + 1 = m
    BY <1>3
  <1> QED BY <1>2, <1>4

FoldStep(kind, v, x) ==
    CASE kind = "entry" -> AddEntry(v, x)
      [] kind = "call"  -> AddCall(v, x)
      [] kind = "out"   -> Translate(v, x)

Folded(kind, base, q, g, s) ==
    IF s = {} THEN base ELSE LET i == Max(s) IN FoldStep(kind, g[s \ {i}], q[i])

IsFold(kind, base, q, g) == g = [s \in SUBSET DOMAIN q |-> Folded(kind, base, q, g, s)]

\* The values of a fold, the base being the 0th.
Runs(kind, base, q, a) ==
    /\ a[0] = base
    /\ \A n \in 1..Len(q) : a[n] = FoldStep(kind, a[n - 1], q[n])

LEMMA MaxOfSome ==
    ASSUME NEW n \in Nat, NEW s \in SUBSET (1..n), s # {}
    PROVE  Max(s) \in s /\ \A k \in s : k <= Max(s)
  <1> DEFINE G == {m \in Nat : \A t \in SUBSET (1..m) : t # {} => \E k \in t : \A j \in t : j <= k}
  <1>1. 0 \in G
    <2>1. 1..0 = {}
      OBVIOUS
    <2> QED BY <2>1
  <1>2. ASSUME NEW m \in Nat, m \in G PROVE m + 1 \in G
    <2>1. ASSUME NEW t \in SUBSET (1..(m + 1)), t # {}
          PROVE  \E k \in t : \A j \in t : j <= k
      <3>1. CASE m + 1 \in t
        BY <3>1
      <3>2. CASE m + 1 \notin t
        <4>1. t \in SUBSET (1..m)
          BY <3>2
        <4> QED BY <1>2, <2>1, <4>1
      <3> QED BY <3>1, <3>2
    <2> QED BY <2>1
  <1> HIDE DEF G
  <1>3. n \in G
    BY <1>1, <1>2, Climb
  <1>4. PICK m \in s : \A k \in s : k <= m
    BY <1>3 DEF G
  <1> QED BY <1>4 DEF Max

LEMMA FoldExists ==
    ASSUME NEW kind, NEW base, NEW X, NEW q \in Seq(X)
    PROVE  \E g : IsFold(kind, base, q, g)
  <1> DEFINE D == DOMAIN q
             Fits(g, n) == \A s \in SUBSET D : s \subseteq 1..n => g[s] = Folded(kind, base, q, g, s)
             G == {n \in Nat : \E g : g = [s \in SUBSET D |-> g[s]] /\ Fits(g, n)}
  <1>d. D = 1..Len(q) /\ Len(q) \in Nat
    OBVIOUS
  <1>1. 0 \in G
    <2> DEFINE g == [s \in SUBSET D |-> base]
    <2>1. Fits(g, 0)
      BY DEF Folded
    <2>2. g = [s \in SUBSET D |-> g[s]]
      OBVIOUS
    <2> HIDE DEF g, Fits
    <2> QED BY <2>1, <2>2
  <1>2. ASSUME NEW n \in Nat, n \in G PROVE n + 1 \in G
    <2>1. PICK g : g = [s \in SUBSET D |-> g[s]] /\ Fits(g, n)
      BY <1>2
    <2> DEFINE h == [s \in SUBSET D |-> Folded(kind, base, q, g, s)]
    <2>2. h = [s \in SUBSET D |-> h[s]]
      OBVIOUS
    <2>3. ASSUME NEW s \in SUBSET D, s \subseteq 1..(n + 1)
          PROVE  h[s] = Folded(kind, base, q, h, s)
      <3>1. CASE s = {}
        BY <3>1 DEF Folded
      <3>2. CASE s # {}
        <4> DEFINE i == Max(s)
        <4>1. i \in s /\ \A k \in s : k <= i
          BY <1>d, <3>2, MaxOfSome
        <4> HIDE DEF i
        <4>2. s \ {i} \subseteq 1..n /\ s \ {i} \in SUBSET D
          BY <1>d, <2>3, <4>1
        <4>3. g[s \ {i}] = h[s \ {i}]
          BY <2>1, <4>2
        <4>4. /\ h[s] = FoldStep(kind, g[s \ {i}], q[i])
              /\ Folded(kind, base, q, h, s) = FoldStep(kind, h[s \ {i}], q[i])
          BY <3>2 DEF Folded, i
        <4> QED BY <4>3, <4>4
      <3> QED BY <3>1, <3>2
    <2>4. Fits(h, n + 1)
      BY <2>3
    <2> HIDE DEF h, Fits
    <2> QED BY <2>2, <2>4
  <1> HIDE DEF G
  <1>3. Len(q) \in G
    BY <1>1, <1>2, <1>d, Climb
  <1>4. PICK g : g = [s \in SUBSET D |-> g[s]] /\ Fits(g, Len(q))
    BY <1>3 DEF G
  <1>5. g = [s \in SUBSET D |-> Folded(kind, base, q, g, s)]
    BY <1>4, <1>d
  <1> QED BY <1>5 DEF IsFold

LEMMA FoldRuns ==
    ASSUME NEW kind, NEW base, NEW X, NEW q \in Seq(X), NEW g, IsFold(kind, base, q, g)
    PROVE  \E a : Runs(kind, base, q, a) /\ g[DOMAIN q] = a[Len(q)]
  <1> DEFINE a == [n \in 0..Len(q) |-> g[1..n]]
  <1>1. DOMAIN q = 1..Len(q) /\ Len(q) \in Nat
    OBVIOUS
  <1>2. \A s \in SUBSET (1..Len(q)) : g[s] = Folded(kind, base, q, g, s)
    BY <1>1 DEF IsFold
  <1>3. a[0] = base
    <2>1. 1..0 = {} /\ {} \in SUBSET (1..Len(q)) /\ 0 \in 0..Len(q)
      BY <1>1
    <2>2. g[{}] = base
      BY <1>2, <2>1 DEF Folded
    <2>3. a[0] = g[1..0]
      BY <2>1
    <2> QED BY <2>1, <2>2, <2>3
  <1>4. ASSUME NEW n \in 1..Len(q)
        PROVE  a[n] = FoldStep(kind, a[n - 1], q[n])
    <2>1. n \in Nat /\ n \in 1..n /\ 1..n \in SUBSET (1..Len(q))
      OBVIOUS
    <2>2. Max(1..n) = n
      <3>1. Max(1..n) \in 1..n /\ n <= Max(1..n)
        BY <2>1, MaxOfSome
      <3> QED BY <3>1
    <2>3. (1..n) \ {n} = 1..(n - 1)
      BY <2>1
    <2>4. g[1..n] = FoldStep(kind, g[(1..n) \ {n}], q[n])
      BY <1>2, <2>1, <2>2 DEF Folded
    <2> QED BY <2>1, <2>3, <2>4
  <1> HIDE DEF a
  <1>5. Runs(kind, base, q, a)
    BY <1>3, <1>4 DEF Runs
  <1>6. g[DOMAIN q] = a[Len(q)]
    BY <1>1 DEF a
  <1> QED BY <1>5, <1>6

\* What follows from one of the values to the next holds of the last.
LEMMA IndexedRuns ==
    ASSUME NEW X, NEW m, NEW q \in Seq(X)
    PROVE  \E a : Runs("entry", [index |-> m, sent |-> <<>>], q, a) /\ Indexed(m, q) = a[Len(q)]
  <1> DEFINE base == [index |-> m, sent |-> <<>>]
             Rec(g) == [s \in SUBSET DOMAIN q |-> IF s = {} THEN base
                            ELSE LET x == Max(s) IN AddEntry(g[s \ {x}], q[x])]
             it == CHOOSE g : g = Rec(g)
  <1>1. Indexed(m, q) = it[DOMAIN q]
    BY DEF Indexed, FoldLeft, MapThenFoldSet
  <1>2. \A g : IsFold("entry", base, q, g) <=> g = Rec(g)
    <2>1. ASSUME NEW g PROVE Rec(g) = [s \in SUBSET DOMAIN q |-> Folded("entry", base, q, g, s)]
      BY DEF Folded, FoldStep
    <2> QED BY <2>1 DEF IsFold
  <1> HIDE DEF Rec, base
  <1>3. IsFold("entry", base, q, it)
    BY <1>2, FoldExists
  <1> HIDE DEF it
  <1>4. \E a : Runs("entry", base, q, a) /\ Indexed(m, q) = a[Len(q)]
    BY <1>1, <1>3, FoldRuns
  <1> QED BY <1>4 DEF base

\* A frame has no entry, one or two.
Sent(i, e) == [index |-> i, call |-> e.call]

LEMMA IndexedFew ==
    ASSUME NEW m
    PROVE  /\ Indexed(m, <<>>) = [index |-> m, sent |-> <<>>]
           /\ \A e : Indexed(m, <<e>>) =
                LET i == ChosenIndex(m, e, 1, {})
                IN  [index |-> Book(m, e, 1, i), sent |-> <<Sent(i, e)>>]
           /\ \A e, d : Indexed(m, <<e, d>>) =
                LET i == ChosenIndex(m, e, 1, {})
                    m1 == Book(m, e, 1, i)
                    j == ChosenIndex(m1, d, 2, {i})
                IN  [index |-> Book(m1, d, 2, j), sent |-> <<Sent(i, e), Sent(j, d)>>]
  <1> DEFINE base == [index |-> m, sent |-> <<>>]
  <1>a. ASSUME NEW v, NEW e, v = base
        PROVE  AddEntry(v, e) =
                LET i == ChosenIndex(m, e, 1, {})
                IN  [index |-> Book(m, e, 1, i), sent |-> <<Sent(i, e)>>]
    <2>1. v.index = m /\ v.sent = <<>> /\ Len(v.sent) + 1 = 1
      BY <1>a
    <2>2. {s.index : s \in Range(v.sent)} = {}
      BY <2>1 DEF Range
    <2>3. Append(v.sent, Sent(ChosenIndex(m, e, 1, {}), e)) = <<Sent(ChosenIndex(m, e, 1, {}), e)>>
      BY <2>1
    <2> QED BY <2>1, <2>2, <2>3 DEF AddEntry, Sent
  <1>1. Indexed(m, <<>>) = base
    <2>1. <<>> \in Seq({}) /\ Len(<<>>) = 0
      OBVIOUS
    <2> QED BY <2>1, IndexedRuns DEF Runs
  <1>2. ASSUME NEW e
        PROVE  Indexed(m, <<e>>) = AddEntry(base, e)
    <2>1. <<e>> \in Seq({e}) /\ Len(<<e>>) = 1 /\ <<e>>[1] = e /\ 1 - 1 = 0 /\ 1 \in 1..1
      OBVIOUS
    <2>2. PICK a : Runs("entry", base, <<e>>, a) /\ Indexed(m, <<e>>) = a[1]
      BY <2>1, IndexedRuns
    <2>3. a[1] = FoldStep("entry", a[0], e) /\ a[0] = base
      BY <2>1, <2>2 DEF Runs
    <2> QED BY <2>2, <2>3 DEF FoldStep
  <1>3. ASSUME NEW e, NEW d
        PROVE  Indexed(m, <<e, d>>) = AddEntry(AddEntry(base, e), d)
    <2>1. /\ <<e, d>> \in Seq({e, d}) /\ Len(<<e, d>>) = 2 /\ <<e, d>>[1] = e /\ <<e, d>>[2] = d
          /\ 1 - 1 = 0 /\ 2 - 1 = 1 /\ 1 \in 1..2 /\ 2 \in 1..2
      OBVIOUS
    <2>2. PICK a : Runs("entry", base, <<e, d>>, a) /\ Indexed(m, <<e, d>>) = a[2]
      BY <2>1, IndexedRuns
    <2>3. a[1] = FoldStep("entry", a[0], e) /\ a[0] = base /\ a[2] = FoldStep("entry", a[1], d)
      BY <2>1, <2>2 DEF Runs
    <2> QED BY <2>2, <2>3 DEF FoldStep
  <1>4. ASSUME NEW e, NEW d
        PROVE  LET i == ChosenIndex(m, e, 1, {})
                   m1 == Book(m, e, 1, i)
                   j == ChosenIndex(m1, d, 2, {i})
               IN  AddEntry(AddEntry(base, e), d)
                     = [index |-> Book(m1, d, 2, j), sent |-> <<Sent(i, e), Sent(j, d)>>]
    <2> DEFINE i == ChosenIndex(m, e, 1, {})
               m1 == Book(m, e, 1, i)
               v == AddEntry(base, e)
    <2>1. v = [index |-> m1, sent |-> <<Sent(i, e)>>]
      BY <1>a
    <2> HIDE DEF v, m1, i
    <2>2. v.index = m1 /\ v.sent = <<Sent(i, e)>> /\ Len(v.sent) + 1 = 2
      BY <2>1
    <2>3. {s.index : s \in Range(v.sent)} = {i}
      <3>1. Range(v.sent) = {Sent(i, e)}
        BY <2>2 DEF Range
      <3> QED BY <3>1 DEF Sent
    <2>4. ASSUME NEW x PROVE Append(v.sent, x) = <<Sent(i, e), x>>
      <3>1. ASSUME NEW y PROVE Append(<<y>>, x) = <<y, x>>
        <4>1. /\ <<y>> \in Seq({x, y}) /\ x \in {x, y} /\ Len(<<y>>) = 1
              /\ <<y, x>> \in Seq({x, y}) /\ Len(<<y, x>>) = 2
          OBVIOUS
        <4>2. /\ Append(<<y>>, x) \in Seq({x, y}) /\ Len(Append(<<y>>, x)) = 2
              /\ Append(<<y>>, x)[1] = y /\ Append(<<y>>, x)[2] = x
          BY <4>1, AppendProperties
        <4>3. \A n \in 1..2 : Append(<<y>>, x)[n] = <<y, x>>[n]
          <5>1. \A n \in 1..2 : n = 1 \/ n = 2
            OBVIOUS
          <5> QED BY <4>2, <5>1
        <4> QED BY <4>1, <4>2, <4>3, SeqEqual
      <3> QED BY <2>2, <3>1
    <2>5. AddEntry(v, d) = [index |-> Book(m1, d, 2, ChosenIndex(m1, d, 2, {i})),
                            sent |-> <<Sent(i, e), Sent(ChosenIndex(m1, d, 2, {i}), d)>>]
      BY <2>2, <2>3, <2>4 DEF AddEntry, Sent
    <2> QED BY <2>5 DEF v, m1, i
  <1> QED BY <1>1, <1>2, <1>3, <1>4, <1>a

(***************************************************************************)
(* The books of the calls.  Indexes are given out without gaps; the call   *)
(* that an index was opened for stays its name.                            *)
(***************************************************************************)

Books ==
    [of : [CallId -> Idx \cup {Nowhere}], owner : [Idx -> Int], name : [Idx -> CallId \cup {0}],
     last : [1..2 -> Idx \cup {Nowhere}], next : Nat]

BookedEntry == [id : CallId \cup {0}, index : Idx \cup {Nowhere}, name : CallId \cup {0}, call : CallId]

\* B are the calls that have been booked.
GoodBooks(m, B) ==
    /\ m \in Books /\ B \subseteq CallId
    /\ \A i \in Idx : /\ m.owner[i] # 0 <=> i < m.next
                      /\ m.name[i] # 0 => i < m.next /\ m.name[i] \in B
                      /\ m.owner[i] > 0 => m.owner[i] \in B
    /\ \A c \in CallId : m.of[c] # Nowhere => m.of[c] < m.next /\ c \in B
    /\ \A p \in 1..2 : m.last[p] # Nowhere => m.last[p] < m.next
    /\ \A c \in B : \E i \in Idx : i < m.next /\ m.name[i] = c
    /\ B # {} => m.last[1] # Nowhere
    /\ turn.style \in {"ids", "zeroids"} => \A c \in B : m.of[c] # Nowhere

Opens(e, B) == e.call \notin B /\ e.name = e.call
GoesOn(e, B) == e.call \in B /\ e.name = 0

GoodEntry(e, m, B) ==
    /\ e \in BookedEntry /\ e.id \in {0, e.call}
    /\ e.index <= m.next /\ (GoesOn(e, B) => e.index < m.next)
    /\ Opens(e, B) \/ GoesOn(e, B)
    /\ turn.style \in {"ids", "zeroids"} => e.id = e.call

\* An entry that needs no new index.
Settled(e, m, B, p) ==
    GoesOn(e, B) /\ (IF e.id = 0 THEN m.last[p] # Nowhere ELSE m.of[e.call] # Nowhere)

LEMMA Numbers ==
    /\ Nowhere \in Int /\ Nowhere < 0 /\ Nowhere \notin Idx
    /\ \A i \in Idx : i \in Nat /\ i < Calls + MaxFrames
    /\ \A n \in Nat : n < Calls + MaxFrames => n \in Idx
    /\ \A c \in CallId : c \in Nat /\ c > 0 /\ c # Nowhere
    /\ Calls \in Nat /\ MaxFrames \in Nat
  BY TurnAssumption DEF Nowhere, Idx, CallId

LEMMA FreeIsNext ==
    ASSUME NEW m, NEW B, GoodBooks(m, B), m.next < Calls + MaxFrames
    PROVE  Free(m) = m.next /\ m.next \in Idx
  <1>1. m.next \in Nat /\ m.next \in Idx /\ m.owner[m.next] = 0
    BY Numbers DEF GoodBooks, Books
  <1>2. \E i \in Idx : i >= m.next /\ m.owner[i] = 0 /\ \A j \in Idx : j >= m.next /\ m.owner[j] = 0 => i <= j
    BY <1>1, Numbers
  <1>3. /\ Free(m) \in Idx /\ Free(m) >= m.next /\ m.owner[Free(m)] = 0
        /\ \A j \in Idx : j >= m.next /\ m.owner[j] = 0 => Free(m) <= j
    BY <1>2 DEF Free
  <1> QED BY <1>1, <1>3, Numbers

\* The index of an entry is one that is in use, or the next; an entry that
\* opens a call takes one that has no name.
LEMMA IndexIsNear ==
    ASSUME NEW m, NEW B, GoodBooks(m, B), NEW e, GoodEntry(e, m, B), NEW p \in 1..2, NEW used,
           m.next < Calls + MaxFrames \/ Settled(e, m, B, p)
    PROVE  LET i == ChosenIndex(m, e, p, used)
           IN  /\ i \in Idx /\ i <= m.next
               /\ Opens(e, B) => m.name[i] = 0
               /\ e.id # 0 /\ m.of[e.call] # Nowhere => i = m.of[e.call]
               /\ Settled(e, m, B, p) => i < m.next
  <1> DEFINE i == ChosenIndex(m, e, p, used)
             known == IF e.id = 0 THEN Nowhere ELSE m.of[e.id]
             last == m.last[p]
  <1>1. /\ m.next \in Nat /\ last \in Idx \cup {Nowhere} /\ known \in Idx \cup {Nowhere}
        /\ e.index \in Idx \cup {Nowhere} /\ e.index <= m.next
        /\ last # Nowhere => last < m.next
        /\ known # Nowhere => known < m.next /\ e.call \in B
        /\ e.call \in CallId /\ e.id \in {0, e.call}
    BY DEF GoodBooks, Books, GoodEntry, BookedEntry
  <1>2. CASE known # Nowhere
    <2>1. i = known
      BY <1>2 DEF ChosenIndex
    <2> QED BY <1>1, <1>2, <2>1, Numbers DEF Opens, Settled
  <1>3. CASE known = Nowhere /\ Explicit(m, e, used)
    <2>1. i = e.index /\ e.index # Nowhere
      BY <1>3 DEF ChosenIndex, Explicit
    <2>2. Opens(e, B) => m.name[e.index] = 0
      <3> SUFFICES ASSUME e.call \notin B, e.name = e.call PROVE m.name[e.index] = 0
        BY DEF Opens
      <3>1. e.index \in Idx
        BY <1>1, <2>1
      <3>2. \/ m.owner[e.index] = 0
            \/ m.owner[e.index] = e.call
            \/ e.name \in {0, m.name[e.index]}
        BY <1>1, <1>3 DEF Explicit
      <3>3. m.owner[e.index] # e.call
        BY <1>1, <3>1, Numbers DEF GoodBooks
      <3>4. e.name # 0 /\ m.name[e.index] # e.call
        BY <1>1, <3>1, Numbers DEF GoodBooks
      <3>5. m.owner[e.index] = 0
        BY <3>2, <3>3, <3>4
      <3> QED BY <3>1, <3>5 DEF GoodBooks
    <2>3. known = Nowhere => ~ (e.id # 0 /\ m.of[e.call] # Nowhere)
      BY <1>1
    <2>5. Settled(e, m, B, p) => i < m.next
      BY <2>1 DEF Settled, GoodEntry
    <2> QED BY <1>1, <1>3, <2>1, <2>2, <2>3, <2>5
  <1>4. CASE /\ known = Nowhere /\ ~ Explicit(m, e, used) /\ e.id = 0
             /\ last # Nowhere /\ (e.name = 0 \/ m.name[last] \in {0, e.name})
    <2>1. i = last
      BY <1>4 DEF ChosenIndex
    <2>2. Opens(e, B) => m.name[last] = 0
      <3> SUFFICES ASSUME e.call \notin B, e.name = e.call PROVE m.name[last] = 0
        BY DEF Opens
      <3>1. e.name # 0 /\ m.name[last] # e.call /\ last \in Idx
        BY <1>1, <1>4, Numbers DEF GoodBooks
      <3> QED BY <1>4, <3>1
    <2> QED BY <1>1, <1>4, <2>1, <2>2, Numbers DEF Settled
  <1>5. CASE /\ known = Nowhere /\ ~ Explicit(m, e, used)
             /\ ~ (/\ e.id = 0 /\ last # Nowhere
                  /\ (e.name = 0 \/ m.name[last] \in {0, e.name}))
    <2>1. i = Free(m)
      BY <1>5 DEF ChosenIndex
    <2>2. m.next < Calls + MaxFrames
      BY <1>1, <1>5 DEF GoesOn, Settled
    <2>3. i = m.next /\ m.next \in Idx
      BY <2>1, <2>2, FreeIsNext
    <2>4. m.name[m.next] = 0
      BY <2>3, <1>1 DEF GoodBooks
    <2>5. ~ Settled(e, m, B, p) /\ ~ (e.id # 0 /\ m.of[e.call] # Nowhere)
      BY <1>1, <1>5 DEF Settled, GoesOn
    <2> QED BY <1>1, <2>3, <2>4, <2>5
  <1> QED BY <1>2, <1>3, <1>4, <1>5

\* The books n, in which e has index i, after m.
Follows(n, m, B, e, p, i) ==
    /\ GoodBooks(n, B \cup {e.call})
    /\ n.next = (IF i = m.next THEN m.next + 1 ELSE m.next)
    /\ n.last[p] = i
    /\ n.name = (IF e.name = 0 THEN m.name ELSE [m.name EXCEPT ![i] = e.name])
    /\ n.owner = (IF m.owner[i] # 0 THEN m.owner
                  ELSE [m.owner EXCEPT ![i] = IF e.id = 0 THEN -1 - i ELSE e.id])
    /\ n.of = (IF e.id = 0 THEN m.of ELSE [m.of EXCEPT ![e.id] = i])

LEMMA BookKeeps ==
    ASSUME NEW m, NEW B, GoodBooks(m, B), NEW e, GoodEntry(e, m, B), NEW p \in 1..2,
           p = 2 => m.last[1] # Nowhere,
           NEW i \in Idx, i <= m.next, Opens(e, B) => m.name[i] = 0,
           e.id # 0 /\ m.of[e.call] # Nowhere => i = m.of[e.call]
    PROVE  Follows(Book(m, e, p, i), m, B, e, p, i)
  <1> DEFINE n == Book(m, e, p, i)
             C == B \cup {e.call}
  <1>1. /\ n.of = (IF e.id = 0 THEN m.of ELSE [m.of EXCEPT ![e.id] = i])
        /\ n.owner = (IF m.owner[i] # 0 THEN m.owner
                      ELSE [m.owner EXCEPT ![i] = IF e.id = 0 THEN -1 - i ELSE e.id])
        /\ n.name = (IF e.name = 0 THEN m.name ELSE [m.name EXCEPT ![i] = e.name])
        /\ n.last = [m.last EXCEPT ![p] = i]
        /\ n.next = (IF m.next > i THEN m.next ELSE i + 1)
    BY DEF Book
  <1>2. n = [of |-> n.of, owner |-> n.owner, name |-> n.name, last |-> n.last, next |-> n.next]
    BY DEF Book
  <1> HIDE DEF n
  <1>3. /\ m.next \in Nat /\ i \in Nat
        /\ m.of \in [CallId -> Idx \cup {Nowhere}] /\ m.owner \in [Idx -> Int]
        /\ m.name \in [Idx -> CallId \cup {0}] /\ m.last \in [1..2 -> Idx \cup {Nowhere}]
        /\ e.call \in CallId /\ e.id \in {0, e.call} /\ e.name \in CallId \cup {0}
        /\ e.call \in Nat /\ e.call > 0 /\ i # Nowhere
    BY Numbers DEF GoodBooks, Books, GoodEntry, BookedEntry
  <1>4. n.next = (IF i = m.next THEN m.next + 1 ELSE m.next) /\ n.next \in Nat /\ i < n.next /\ m.next <= n.next
        /\ \A j \in Nat : j < n.next <=> j < m.next \/ j = i
    BY <1>1, <1>3
  <1>5. n \in Books
    <2>1. /\ n.of \in [CallId -> Idx \cup {Nowhere}] /\ n.name \in [Idx -> CallId \cup {0}]
          /\ n.last \in [1..2 -> Idx \cup {Nowhere}]
      BY <1>1, <1>3
    <2>2. n.owner \in [Idx -> Int]
      <3>1. (IF e.id = 0 THEN -1 - i ELSE e.id) \in Int
        BY <1>3
      <3> QED BY <1>1, <1>3, <3>1
    <2> QED BY <1>2, <1>4, <2>1, <2>2 DEF Books
  <1>6. e.name # 0 => e.name = e.call
    BY DEF GoodEntry, Opens, GoesOn
  <1>7. ASSUME NEW j \in Idx
        PROVE  /\ n.owner[j] # 0 <=> j < n.next
               /\ n.name[j] # 0 => j < n.next /\ n.name[j] \in C
               /\ n.owner[j] > 0 => n.owner[j] \in C
    <2>1. j \in Nat
      BY Numbers
    <2>2. /\ m.owner[j] # 0 <=> j < m.next
          /\ m.name[j] # 0 => j < m.next /\ m.name[j] \in B
          /\ m.owner[j] > 0 => m.owner[j] \in B
      BY DEF GoodBooks
    <2>3. CASE j # i
      BY <1>1, <1>3, <1>4, <2>1, <2>2, <2>3
    <2>4. CASE j = i
      <3>1. (IF e.id = 0 THEN -1 - i ELSE e.id) # 0
            /\ ((IF e.id = 0 THEN -1 - i ELSE e.id) > 0 => (IF e.id = 0 THEN -1 - i ELSE e.id) = e.call)
        BY <1>3
      <3>2. n.owner[i] # 0 /\ (n.owner[i] > 0 => n.owner[i] \in C)
        BY <1>1, <1>3, <2>2, <2>4, <3>1
      <3>3. n.name[i] # 0 => n.name[i] \in C
        BY <1>1, <1>3, <1>6, <2>2, <2>4
      <3> QED BY <1>4, <2>4, <3>2, <3>3
    <2> QED BY <2>3, <2>4
  <1>8. \A c \in CallId : n.of[c] # Nowhere => n.of[c] < n.next /\ c \in C
    <2> SUFFICES ASSUME NEW c \in CallId, n.of[c] # Nowhere PROVE n.of[c] < n.next /\ c \in C
      OBVIOUS
    <2>1. m.of[c] # Nowhere => m.of[c] < m.next /\ c \in B /\ m.of[c] \in Nat
      BY <1>3, Numbers DEF GoodBooks
    <2>2. CASE e.id # 0 /\ c = e.id
      BY <1>1, <1>3, <1>4, <2>2
    <2>3. CASE ~ (e.id # 0 /\ c = e.id)
      BY <1>1, <1>3, <1>4, <2>1, <2>3
    <2> QED BY <2>2, <2>3
  <1>9. \A q \in 1..2 : n.last[q] # Nowhere => n.last[q] < n.next
    <2> SUFFICES ASSUME NEW q \in 1..2, n.last[q] # Nowhere PROVE n.last[q] < n.next
      OBVIOUS
    <2>1. m.last[q] # Nowhere => m.last[q] < m.next /\ m.last[q] \in Nat
      BY <1>3, Numbers DEF GoodBooks
    <2>2. n.last[q] = IF q = p THEN i ELSE m.last[q]
      BY <1>1, <1>3
    <2> QED BY <1>3, <1>4, <2>1, <2>2
  <1>10. \A c \in C : \E j \in Idx : j < n.next /\ n.name[j] = c
    <2>1. ASSUME NEW c \in B PROVE \E j \in Idx : j < n.next /\ n.name[j] = c
      <3>1. PICK j \in Idx : j < m.next /\ m.name[j] = c
        BY <2>1 DEF GoodBooks
      <3>2. m.name[j] # 0
        BY <1>3, <3>1, <2>1, Numbers DEF GoodBooks
      <3>3. j \in Nat
        BY Numbers
      <3>4. n.name[j] = c
        <4>1. CASE e.name = 0
          BY <1>1, <3>1, <4>1
        <4>2. CASE e.name # 0
          <5>1. m.name[i] = 0
            BY <4>2 DEF GoodEntry, GoesOn
          <5>2. j # i
            BY <3>2, <5>1
          <5> QED BY <1>1, <1>3, <3>1, <4>2, <5>2
        <4> QED BY <4>1, <4>2
      <3> QED BY <1>4, <3>1, <3>3, <3>4
    <2>2. CASE Opens(e, B)
      <3>1. n.name[i] = e.call
        BY <1>1, <1>3, <2>2 DEF Opens
      <3> QED BY <1>4, <2>1, <3>1
    <2>3. CASE GoesOn(e, B)
      BY <2>1, <2>3 DEF GoesOn
    <2> QED BY <2>2, <2>3 DEF GoodEntry
  <1>11. n.last[1] # Nowhere
    <2>1. p = 1 \/ p = 2
      OBVIOUS
    <2> QED BY <1>1, <1>3, <2>1
  <1>12. turn.style \in {"ids", "zeroids"} => \A c \in C : n.of[c] # Nowhere
    <2> SUFFICES ASSUME turn.style \in {"ids", "zeroids"}, NEW c \in C PROVE n.of[c] # Nowhere
      OBVIOUS
    <2>1. e.id = e.call /\ n.of = [m.of EXCEPT ![e.call] = i]
      BY <1>1, <1>3 DEF GoodEntry
    <2>2. CASE c = e.call
      BY <1>3, <2>1, <2>2
    <2>3. CASE c # e.call
      BY <1>3, <2>1, <2>3 DEF GoodBooks
    <2> QED BY <2>2, <2>3
  <1>13. GoodBooks(n, C)
    <2>1. C \subseteq CallId
      BY <1>3 DEF GoodBooks
    <2> QED BY <1>5, <1>7, <1>8, <1>9, <1>10, <1>11, <1>12, <2>1 DEF GoodBooks
  <1>14. n.last[p] = i
    BY <1>1, <1>3
  <1> QED BY <1>1, <1>4, <1>13, <1>14 DEF n, Follows

\* Every call has an index of its own.
LEMMA NamesAreMany ==
    ASSUME NEW m, NEW B, GoodBooks(m, B), NEW k \in Nat, 1..k \subseteq B
    PROVE  k <= m.next
  <1> DEFINE P(c, i) == i \in Idx /\ i < m.next /\ m.name[i] = c
             f == [c \in 1..k |-> CHOOSE i \in Idx : P(c, i)]
             N == 0..(m.next - 1)
  <1>1. \A c \in 1..k : P(c, f[c])
    <2> SUFFICES ASSUME NEW c \in 1..k PROVE P(c, f[c])
      OBVIOUS
    <2>1. \E i \in Idx : P(c, i)
      BY DEF GoodBooks
    <2> QED BY <2>1
  <1>2. m.next \in Nat
    BY DEF GoodBooks, Books
  <1>3. f \in [1..k -> N]
    <2>1. ASSUME NEW c \in 1..k PROVE f[c] \in N
      <3>1. f[c] \in Idx /\ f[c] < m.next
        BY <1>1
      <3> HIDE DEF f
      <3>2. f[c] \in Nat
        BY <3>1, Numbers
      <3> QED BY <1>2, <3>1, <3>2
    <2> HIDE DEF N
    <2> QED BY <2>1
  <1>4. \A c, d \in 1..k : f[c] = f[d] => c = d
    BY <1>1
  <1> HIDE DEF f, P
  <1>5. IsFiniteSet(1..k) /\ Cardinality(1..k) = k
    <2>1. Cardinality(1..k) = IF 1 > k THEN 0 ELSE k - 1 + 1
      BY FS_Interval
    <2> QED BY <2>1, FS_Interval
  <1>6. IsFiniteSet(N) /\ Cardinality(N) = m.next
    <2>1. m.next - 1 \in Int /\ 0 \in Int
      BY <1>2
    <2>2. Cardinality(N) = (IF 0 > m.next - 1 THEN 0 ELSE (m.next - 1) - 0 + 1) /\ IsFiniteSet(N)
      BY <2>1, FS_Interval
    <2> HIDE DEF N
    <2> QED BY <1>2, <2>2
  <1> HIDE DEF N
  <1>7. ~ (m.next < k)
    BY <1>3, <1>4, <1>5, <1>6, FS_PigeonHole
  <1> QED BY <1>2, <1>7

\* What the next entry does to the books.
LEMMA EntryKeeps ==
    ASSUME NEW m, NEW B, GoodBooks(m, B), NEW e, GoodEntry(e, m, B), NEW p \in 1..2, NEW used,
           p = 2 => m.last[1] # Nowhere,
           m.next < Calls + MaxFrames \/ Settled(e, m, B, p)
    PROVE  LET i == ChosenIndex(m, e, p, used)
               n == Book(m, e, p, i)
           IN  /\ i \in Idx /\ i <= m.next
               /\ Follows(n, m, B, e, p, i)
               /\ Opens(e, B) => m.name[i] = 0
               /\ e.id # 0 /\ m.of[e.call] # Nowhere => i = m.of[e.call]
               /\ Settled(e, m, B, p) => n.next = m.next
  <1> DEFINE i == ChosenIndex(m, e, p, used)
  <1>1. /\ i \in Idx /\ i <= m.next
        /\ Opens(e, B) => m.name[i] = 0
        /\ e.id # 0 /\ m.of[e.call] # Nowhere => i = m.of[e.call]
        /\ Settled(e, m, B, p) => i < m.next
    BY IndexIsNear
  <1> HIDE DEF i
  <1>2. m.next \in Nat /\ i \in Nat
    BY <1>1, Numbers DEF GoodBooks, Books
  <1>3. Settled(e, m, B, p) => i # m.next
    BY <1>1, <1>2
  <1> DEFINE n == Book(m, e, p, i)
  <1>4. Follows(n, m, B, e, p, i)
    BY <1>1, BookKeeps
  <1>5. Settled(e, m, B, p) => n.next = m.next
    BY <1>3, <1>4 DEF Follows
  <1> HIDE DEF n
  <1> QED BY <1>1, <1>4, <1>5 DEF i, n

(***************************************************************************)
(* Calls that are not tangled: an index has the parts of the call that     *)
(* named it, and no two indexes have one name.                             *)
(***************************************************************************)

Apart(m, B, src, latest) ==
    /\ \A i \in Idx : src[i] = IF i < m.next THEN {m.name[i]} ELSE {}
    /\ \A i \in Idx : i < m.next => m.name[i] # 0
    /\ \A i, j \in Idx : i < m.next /\ j < m.next /\ m.name[i] = m.name[j] => i = j
    /\ \A c \in CallId : m.of[c] # Nowhere => m.name[m.of[c]] = c
    /\ turn.style \notin {"bare", "numbered"} => \A i \in Idx : m.owner[i] >= 0
    /\ turn.style \in IdLess /\ B # {} => m.name[m.last[1]] = latest
    /\ turn.style = "numbered" /\ B \subseteq NativeCall =>
         \A i \in Idx : i < m.next => m.name[i] = i + 1 /\ m.owner[i] < 0

\* An entry that says, in its style, which call it belongs to.
Plain(e, m, B, p, used, latest) ==
    /\ turn.style \in IdLess => p = 1 /\ used = {} /\ (GoesOn(e, B) => e.call = latest)
    /\ GoesOn(e, B) /\ e.id = 0 =>
         \/ turn.style = "bare" /\ e.index = Nowhere
         \/ turn.style \in {"standard", "zero"}
         \/ turn.style = "numbered" /\ B \subseteq NativeCall /\ e.index = e.call - 1 /\ e.index \notin used
    /\ GoesOn(e, B) /\ e.id # 0 => m.of[e.call] # Nowhere
    /\ Opens(e, B) /\ e.id = 0 => turn.style \in {"bare", "numbered"}
    /\ Opens(e, B) /\ turn.style = "numbered" /\ B \cup {e.call} \subseteq NativeCall => e.call = m.next + 1 /\ e.id = 0

\* The index i is the call's own, or the next for a call that opens.
Finds(e, m, B, i) == IF Opens(e, B) THEN i = m.next ELSE i < m.next /\ m.name[i] = e.call

LEMMA PlainEntryFindsItsCall ==
    ASSUME NEW m, NEW B, GoodBooks(m, B), NEW e, GoodEntry(e, m, B), NEW p \in 1..2, NEW used,
           p = 2 => m.last[1] # Nowhere,
           m.next < Calls + MaxFrames \/ Settled(e, m, B, p),
           NEW src, NEW latest, Apart(m, B, src, latest), Plain(e, m, B, p, used, latest)
    PROVE  LET i == ChosenIndex(m, e, p, used)
           IN  Finds(e, m, B, i)
  <1> DEFINE i == ChosenIndex(m, e, p, used)
  <1>1. /\ i \in Idx /\ i <= m.next
        /\ Opens(e, B) => m.name[i] = 0
        /\ e.id # 0 /\ m.of[e.call] # Nowhere => i = m.of[e.call]
    BY IndexIsNear
  <1>2. m.next \in Nat /\ i \in Nat
    BY <1>1, Numbers DEF GoodBooks, Books
  <1>3. CASE Opens(e, B)
    <2>1. ~ (i < m.next)
      BY <1>1, <1>3 DEF Apart
    <2> HIDE DEF i
    <2> QED BY <1>1, <1>2, <1>3, <2>1 DEF i, Finds
  <1>4. CASE GoesOn(e, B) /\ e.id # 0
    <2>1. m.of[e.call] # Nowhere /\ e.call \in CallId
      BY <1>4 DEF Plain, GoodEntry, BookedEntry
    <2>2. i = m.of[e.call]
      BY <1>1, <1>4, <2>1
    <2>3. m.of[e.call] < m.next /\ m.name[m.of[e.call]] = e.call
      BY <2>1 DEF GoodBooks, Apart
    <2> QED BY <1>4, <2>2, <2>3 DEF Opens, GoesOn, Finds
  <1>5. CASE GoesOn(e, B) /\ e.id = 0 /\ turn.style \in IdLess
    <2>1. p = 1 /\ used = {} /\ e.call = latest /\ e.name = 0 /\ B # {}
      BY <1>5 DEF Plain, GoesOn
    <2>2. m.last[1] # Nowhere /\ m.last[1] < m.next /\ m.name[m.last[1]] = latest
      BY <1>5, <2>1 DEF GoodBooks, Apart
    <2>3. ~ Explicit(m, e, used)
      <3>1. CASE e.index = Nowhere
        BY <3>1 DEF Explicit
      <3>2. CASE e.index # Nowhere
        <4>1. e.index \in Idx /\ e.index < m.next
          BY <1>5, <3>2 DEF GoodEntry, BookedEntry
        <4>2. m.owner[e.index] # 0
          BY <4>1 DEF GoodBooks
        <4>3. turn.style \notin {"bare", "numbered"}
          BY <1>5, <3>2 DEF Plain, IdLess
        <4>4. m.owner[e.index] >= 0 /\ m.owner[e.index] \in Int
          BY <4>1, <4>3 DEF Apart, GoodBooks, Books
        <4> QED BY <1>5, <4>2, <4>4 DEF Explicit
      <3> QED BY <3>1, <3>2
    <2>4. i = m.last[1]
      BY <1>5, <2>1, <2>2, <2>3 DEF ChosenIndex
    <2> QED BY <1>5, <2>1, <2>2, <2>4 DEF Opens, GoesOn, Finds
  <1>6. CASE GoesOn(e, B) /\ e.id = 0 /\ turn.style \notin IdLess
    <2>1. turn.style = "numbered" /\ B \subseteq NativeCall /\ e.index = e.call - 1 /\ e.index \notin used /\ e.name = 0
      BY <1>6 DEF Plain, IdLess, GoesOn
    <2>2. e.index \in Idx \cup {Nowhere} /\ e.call \in CallId /\ e.index < m.next
      BY <1>6 DEF GoodEntry, BookedEntry
    <2>3. e.index # Nowhere
      BY <2>1, <2>2, Numbers DEF Nowhere
    <2>4. e.index \in Idx /\ m.name[e.index] = e.index + 1 /\ m.owner[e.index] < 0
      BY <2>1, <2>2, <2>3 DEF Apart
    <2>5. Explicit(m, e, used)
      BY <2>1, <2>3, <2>4 DEF Explicit
    <2>6. i = e.index
      BY <1>6, <2>5 DEF ChosenIndex
    <2>7. e.index + 1 = e.call
      BY <2>1, <2>2, Numbers
    <2> QED BY <1>6, <2>2, <2>4, <2>6, <2>7 DEF Opens, GoesOn, Finds
  <1> QED BY <1>3, <1>4, <1>5, <1>6 DEF GoodEntry, Finds

With(src, i, call) == [src EXCEPT ![i] = @ \cup {call}]

LEMMA PlainEntryKeepsApart ==
    ASSUME NEW m, NEW B, GoodBooks(m, B), NEW e, GoodEntry(e, m, B), NEW p \in 1..2, NEW used,
           NEW src \in [Idx -> SUBSET CallId], NEW latest, Apart(m, B, src, latest),
           Plain(e, m, B, p, used, latest), NEW i \in Idx,
           Finds(e, m, B, i), NEW n, Follows(n, m, B, e, p, i)
    PROVE  Apart(n, B \cup {e.call}, With(src, i, e.call), e.call)
  <1> DEFINE C == B \cup {e.call}
             t == [src EXCEPT ![i] = @ \cup {e.call}]
  <1>1. /\ m.next \in Nat /\ i \in Nat /\ i # Nowhere
        /\ m.of \in [CallId -> Idx \cup {Nowhere}] /\ m.owner \in [Idx -> Int]
        /\ m.name \in [Idx -> CallId \cup {0}] /\ m.last \in [1..2 -> Idx \cup {Nowhere}]
        /\ e.call \in CallId /\ e.id \in {0, e.call} /\ e.name \in CallId \cup {0}
        /\ e.call \in Nat /\ e.call > 0
    BY Numbers DEF GoodBooks, Books, GoodEntry, BookedEntry
  <1>2. /\ Opens(e, B) => e.call \notin B /\ e.name = e.call /\ i = m.next
        /\ ~ Opens(e, B) => GoesOn(e, B) /\ e.call \in B /\ e.name = 0 /\ i < m.next /\ m.name[i] = e.call
    BY DEF Opens, GoesOn, GoodEntry, Finds
  <1>3. /\ n.next = (IF Opens(e, B) THEN m.next + 1 ELSE m.next)
        /\ \A j \in Nat : j < n.next <=> j < m.next \/ j = i
    BY <1>1, <1>2 DEF Follows
  <1>4. /\ n.name = (IF Opens(e, B) THEN [m.name EXCEPT ![i] = e.call] ELSE m.name)
        /\ n.name[i] = e.call
        /\ \A j \in Idx : j # i => n.name[j] = m.name[j]
    BY <1>1, <1>2 DEF Follows
  <1>5. \A j \in Idx : t[j] = IF j < n.next THEN {n.name[j]} ELSE {}
    <2> SUFFICES ASSUME NEW j \in Idx PROVE t[j] = IF j < n.next THEN {n.name[j]} ELSE {}
      OBVIOUS
    <2>1. j \in Nat /\ src[j] = IF j < m.next THEN {m.name[j]} ELSE {}
      BY Numbers DEF Apart
    <2>2. CASE j # i
      BY <1>3, <1>4, <2>1, <2>2
    <2>3. CASE j = i
      <3>1. t[j] = src[j] \cup {e.call}
        BY <2>3
      <3>2. src[j] \subseteq {e.call}
        BY <1>1, <1>2, <2>1, <2>3
      <3> QED BY <1>3, <1>4, <2>1, <2>3, <3>1, <3>2
    <2> QED BY <2>2, <2>3
  <1>6. \A j \in Idx : j < n.next => n.name[j] # 0
    BY <1>1, <1>3, <1>4, Numbers DEF Apart
  <1>7. \A j, k \in Idx : j < n.next /\ k < n.next /\ n.name[j] = n.name[k] => j = k
    <2>1. ASSUME NEW j \in Idx, j < m.next PROVE Opens(e, B) => m.name[j] # e.call
      BY <1>2, <2>1 DEF GoodBooks, Apart
    <2>2. ASSUME NEW j \in Idx, j < n.next, n.name[j] = e.call PROVE j = i
      <3>1. j \in Nat
        BY Numbers
      <3>2. CASE j # i
        <4>1. j < m.next /\ m.name[j] = e.call
          BY <1>3, <1>4, <2>2, <3>1, <3>2
        <4> QED BY <1>2, <2>1, <4>1 DEF Apart
      <3> QED BY <3>2
    <2> SUFFICES ASSUME NEW j \in Idx, NEW k \in Idx, j < n.next, k < n.next, n.name[j] = n.name[k]
                 PROVE  j = k
      OBVIOUS
    <2>3. CASE j = i \/ k = i
      BY <1>4, <2>2, <2>3
    <2>4. CASE j # i /\ k # i
      <3>1. j < m.next /\ k < m.next /\ m.name[j] = m.name[k]
        BY <1>3, <1>4, <2>4, Numbers
      <3> QED BY <3>1 DEF Apart
    <2> QED BY <2>3, <2>4
  <1>8. \A c \in CallId : n.of[c] # Nowhere => n.name[n.of[c]] = c
    <2> SUFFICES ASSUME NEW c \in CallId, n.of[c] # Nowhere PROVE n.name[n.of[c]] = c
      OBVIOUS
    <2>1. CASE e.id # 0 /\ c = e.call
      BY <1>1, <1>4, <2>1 DEF Follows
    <2>2. CASE ~ (e.id # 0 /\ c = e.call)
      <3>1. n.of[c] = m.of[c]
        BY <1>1, <2>2 DEF Follows
      <3>2. m.of[c] < m.next /\ c \in B /\ m.name[m.of[c]] = c /\ m.of[c] \in Idx
        BY <1>1, <3>1 DEF GoodBooks, Apart
      <3>3. CASE m.of[c] = i
        <4>1. ~ Opens(e, B)
          BY <1>1, <1>2, <3>2, <3>3
        <4> QED BY <1>4, <3>1, <3>2, <4>1
      <3>4. CASE m.of[c] # i
        BY <1>4, <3>1, <3>2, <3>4
      <3> QED BY <3>3, <3>4
    <2> QED BY <2>1, <2>2
  <1>9. turn.style \notin {"bare", "numbered"} => \A j \in Idx : n.owner[j] >= 0
    <2> SUFFICES ASSUME turn.style \notin {"bare", "numbered"}, NEW j \in Idx PROVE n.owner[j] >= 0
      OBVIOUS
    <2>1. m.owner[j] >= 0 /\ (m.owner[i] = 0 => i >= m.next)
      BY <1>1 DEF GoodBooks, Apart
    <2>2. m.owner[i] = 0 => Opens(e, B)
      BY <1>1, <1>2, <2>1
    <2>3. m.owner[i] = 0 => e.id = e.call
      BY <1>1, <2>2 DEF Plain
    <2>4. CASE m.owner[i] # 0
      BY <2>1, <2>4 DEF Follows
    <2>5. CASE m.owner[i] = 0
      <3>1. n.owner = [m.owner EXCEPT ![i] = e.call]
        BY <1>1, <2>3, <2>5 DEF Follows
      <3> QED BY <1>1, <2>1, <3>1
    <2> QED BY <2>4, <2>5
  <1>10. turn.style \in IdLess /\ C # {} => n.name[n.last[1]] = e.call
    <2> SUFFICES ASSUME turn.style \in IdLess PROVE n.name[n.last[1]] = e.call
      OBVIOUS
    <2>1. p = 1
      BY DEF Plain
    <2> QED BY <1>4, <2>1 DEF Follows
  <1>11. turn.style = "numbered" /\ C \subseteq NativeCall =>
           \A j \in Idx : j < n.next => n.name[j] = j + 1 /\ n.owner[j] < 0
    <2> SUFFICES ASSUME turn.style = "numbered", C \subseteq NativeCall, NEW j \in Idx, j < n.next
                 PROVE  n.name[j] = j + 1 /\ n.owner[j] < 0
      OBVIOUS
    <2>1. j \in Nat /\ (j < m.next => m.name[j] = j + 1 /\ m.owner[j] < 0)
      BY Numbers DEF Apart
    <2>2. CASE j # i
      <3>1. j < m.next /\ n.name[j] = m.name[j]
        BY <1>3, <1>4, <2>1, <2>2
      <3>2. n.owner[j] = m.owner[j]
        BY <1>1, <2>2 DEF Follows
      <3> QED BY <2>1, <3>1, <3>2
    <2>3. CASE j = i /\ Opens(e, B)
      <3>1. e.call = m.next + 1 /\ e.id = 0 /\ i = m.next
        BY <1>2, <2>3 DEF Plain
      <3>2. m.owner[i] = 0
        BY <1>1, <3>1 DEF GoodBooks
      <3>3. n.owner[i] = -1 - i
        BY <1>1, <3>1, <3>2 DEF Follows
      <3> QED BY <1>1, <1>4, <2>3, <3>1, <3>3
    <2>4. CASE j = i /\ ~ Opens(e, B)
      <3>1. j < m.next /\ n.name[j] = m.name[j]
        BY <1>2, <1>4, <2>4
      <3>2. n.owner = m.owner
        BY <2>1, <2>4, <3>1 DEF Follows
      <3> QED BY <2>1, <3>1, <3>2
    <2> QED BY <2>2, <2>3, <2>4
  <1> HIDE DEF t
  <1> QED BY <1>5, <1>6, <1>7, <1>8, <1>9, <1>10, <1>11 DEF Apart, With, t

\* What a plain entry does, with the index that is chosen for it.
LEMMA PlainEntry ==
    ASSUME NEW m, NEW B, GoodBooks(m, B), NEW e, GoodEntry(e, m, B), NEW p \in 1..2, NEW used,
           p = 2 => m.last[1] # Nowhere,
           m.next < Calls + MaxFrames \/ Settled(e, m, B, p),
           NEW src \in [Idx -> SUBSET CallId], NEW latest, Apart(m, B, src, latest),
           Plain(e, m, B, p, used, latest), NEW i, i = ChosenIndex(m, e, p, used)
    PROVE  Apart(Book(m, e, p, i), B \cup {e.call}, With(src, i, e.call), e.call)
  <1> DEFINE n == Book(m, e, p, i)
  <1>1. i \in Idx /\ Follows(n, m, B, e, p, i)
    BY EntryKeeps
  <1>2. Finds(e, m, B, i)
    BY PlainEntryFindsItsCall
  <1> HIDE DEF n
  <1>3. Apart(n, B \cup {e.call}, With(src, i, e.call), e.call)
    BY <1>1, <1>2, PlainEntryKeepsApart
  <1> QED BY <1>3 DEF n

(***************************************************************************)
(* The entries of a frame, and what they leave.                            *)
(***************************************************************************)

SentOf(f) ==
    LET native == Indexed(index, f.entries)
        found == Indexed(native.index, IF Promoted(f) THEN <<TextCall(frames + 1)>> ELSE <<>>)
    IN  native.sent \o found.sent
BooksOf(f) ==
    LET native == Indexed(index, f.entries)
    IN  Indexed(native.index, IF Promoted(f) THEN <<TextCall(frames + 1)>> ELSE <<>>).index
NewCalls(f) ==
    IF Promoted(f) THEN <<TextCall(frames + 1).id>>
    ELSE [i \in DOMAIN f.entries |-> f.entries[i].call]

\* The provider has opened its first k calls; an entry of a frame at most
\* opens a further one, or takes an index for a part that has no place.
BooksInv ==
    /\ turn.style \in Style /\ frames \in 0..MaxFrames
    /\ GoodBooks(index, begun.calls)
    /\ \E k \in 0..Calls : begun.calls \cap NativeCall = 1..k /\ index.next <= k + frames
    /\ \A c \in begun.calls : c <= Calls + frames
    /\ sources \in [Idx -> SUBSET CallId]

ApartInv == ~ tangled => Apart(index, begun.calls, sources, begun.latest)

First1(e) == ChosenIndex(index, e, 1, {})
After1(e) == Book(index, e, 1, First1(e))
Then2(e, d) == ChosenIndex(After1(e), d, 2, {First1(e)})
After2(e, d) == Book(After1(e), d, 2, Then2(e, d))

HasRoom(e, m, B, p) == m.next < Calls + MaxFrames \/ Settled(e, m, B, p)

OneEntry(f, e) ==
    /\ GoodEntry(e, index, begun.calls) /\ HasRoom(e, index, begun.calls, 1)
    /\ SentOf(f) = <<Sent(First1(e), e)>> /\ BooksOf(f) = After1(e) /\ NewCalls(f) = <<e.call>>
    /\ e.call <= Calls + frames + 1
    /\ \E k \in 0..Calls :
         /\ (begun.calls \cup {e.call}) \cap NativeCall = 1..k
         /\ After1(e).next <= k + frames + 1
    /\ ~ tangled /\ ~ Tangles(f) => Plain(e, index, begun.calls, 1, {}, begun.latest)

TwoEntries(f, e, d) ==
    LET B == begun.calls \cup {e.call}
    IN /\ GoodEntry(e, index, begun.calls) /\ HasRoom(e, index, begun.calls, 1)
       /\ GoodEntry(d, After1(e), B) /\ HasRoom(d, After1(e), B, 2)
       /\ SentOf(f) = <<Sent(First1(e), e), Sent(Then2(e, d), d)>>
       /\ BooksOf(f) = After2(e, d) /\ NewCalls(f) = <<e.call, d.call>>
       /\ e.call <= Calls /\ d.call <= Calls
       /\ \E k \in 0..Calls :
            /\ (B \cup {d.call}) \cap NativeCall = 1..k
            /\ After2(e, d).next <= k + frames + 1
       /\ ~ tangled /\ ~ Tangles(f) =>
            /\ Plain(e, index, begun.calls, 1, {}, begun.latest)
            /\ Plain(d, After1(e), B, 2, {First1(e)}, e.call)

LEMMA EntryForms ==
    ASSUME turn.style \in Style \ {"text"}, NEW c \in NativeCall
    PROVE  /\ Opening(c) \in BookedEntry /\ Opening(c).id \in {0, c}
           /\ Opening(c).name = c /\ Opening(c).call = c /\ Opening(c).index <= c - 1
           /\ Opening(c).id = 0 <=> turn.style \in {"bare", "numbered"}
           /\ More(c) \in BookedEntry /\ More(c).id \in {0, c}
           /\ More(c).name = 0 /\ More(c).call = c /\ More(c).index <= c - 1
           /\ More(c).id = c <=> turn.style \in {"ids", "zeroids"}
           /\ turn.style = "bare" => More(c).index = Nowhere
           /\ turn.style = "numbered" => More(c).index = c - 1
  <1>1. /\ c \in Nat /\ c > 0 /\ c \in CallId /\ c - 1 \in Idx /\ 0 \in Idx /\ Nowhere <= c - 1 /\ 0 <= c - 1
        /\ c # 0
    BY TurnAssumption DEF NativeCall, CallId, Idx, Nowhere
  <1>2. CASE turn.style = "standard"
    BY <1>1, <1>2 DEF Opening, More, Entry, BookedEntry
  <1>3. CASE turn.style = "ids"
    BY <1>1, <1>3 DEF Opening, More, Entry, BookedEntry
  <1>4. CASE turn.style \in {"zero", "zeroids"}
    BY <1>1, <1>4 DEF Opening, More, Entry, BookedEntry
  <1>5. CASE turn.style = "bare"
    BY <1>1, <1>5 DEF Opening, More, Entry, BookedEntry
  <1>6. CASE turn.style = "numbered"
    BY <1>1, <1>6 DEF Opening, More, Entry, BookedEntry
  <1> QED BY <1>2, <1>3, <1>4, <1>5, <1>6 DEF Style

\* A part of a call goes on with it.
LEMMA MoreGoesOn ==
    ASSUME turn.style \in Style \ {"text"}, NEW m, NEW B, GoodBooks(m, B), NEW k \in 0..Calls, 1..k \subseteq B,
           NEW c \in 1..k
    PROVE  /\ GoodEntry(More(c), m, B) /\ GoesOn(More(c), B) /\ Settled(More(c), m, B, 1)
           /\ m.next < Calls + MaxFrames => HasRoom(More(c), m, B, 2)
  <1>1. c \in NativeCall /\ c \in Nat /\ c \in B /\ k \in Nat /\ c <= k
    BY TurnAssumption DEF NativeCall
  <1>2. k <= m.next /\ m.next \in Nat
    BY <1>1, NamesAreMany DEF GoodBooks, Books
  <1>3. /\ More(c) \in BookedEntry /\ More(c).id \in {0, c}
        /\ More(c).name = 0 /\ More(c).call = c /\ More(c).index <= c - 1
        /\ More(c).id = c <=> turn.style \in {"ids", "zeroids"}
    BY <1>1, EntryForms
  <1>4. More(c).index \in Int
    BY <1>3, Numbers DEF BookedEntry
  <1>5. GoesOn(More(c), B)
    BY <1>1, <1>3 DEF GoesOn
  <1>6. More(c).index < m.next
    BY <1>1, <1>2, <1>3, <1>4
  <1>7. GoodEntry(More(c), m, B)
    BY <1>1, <1>2, <1>3, <1>4, <1>5, <1>6 DEF GoodEntry
  <1>8. Settled(More(c), m, B, 1)
    <2>1. m.last[1] # Nowhere
      BY <1>1 DEF GoodBooks
    <2>2. More(c).id # 0 => m.of[c] # Nowhere
      BY <1>1, <1>3 DEF GoodBooks
    <2> QED BY <1>3, <1>5, <2>1, <2>2 DEF Settled
  <1> QED BY <1>5, <1>7, <1>8 DEF HasRoom

\* The next call of the provider is new.
LEMMA OpeningOpens ==
    ASSUME turn.style \in Style \ {"text"}, NEW m, NEW B, GoodBooks(m, B), NEW k \in Nat,
           B \cap NativeCall = 1..k, k + 1 \in NativeCall
    PROVE  /\ GoodEntry(Opening(k + 1), m, B) /\ Opens(Opening(k + 1), B)
           /\ (B \cup {k + 1}) \cap NativeCall = 1..(k + 1)
  <1>1. k + 1 \notin B
    BY DEF NativeCall
  <1>2. k <= m.next /\ m.next \in Nat
    <2>1. 1..k \subseteq B
      OBVIOUS
    <2> QED BY <2>1, NamesAreMany DEF GoodBooks, Books
  <1>3. /\ Opening(k + 1) \in BookedEntry /\ Opening(k + 1).id \in {0, k + 1}
        /\ Opening(k + 1).name = k + 1 /\ Opening(k + 1).call = k + 1 /\ Opening(k + 1).index <= (k + 1) - 1
        /\ Opening(k + 1).id = 0 <=> turn.style \in {"bare", "numbered"}
    BY EntryForms
  <1>4. Opening(k + 1).index \in Int
    BY <1>3, Numbers DEF BookedEntry
  <1>5. Opens(Opening(k + 1), B) /\ ~ GoesOn(Opening(k + 1), B)
    BY <1>1, <1>3 DEF Opens, GoesOn
  <1>6. Opening(k + 1).index <= m.next
    BY <1>2, <1>3, <1>4
  <1>7. GoodEntry(Opening(k + 1), m, B)
    BY <1>3, <1>5, <1>6 DEF GoodEntry
  <1>8. (B \cup {k + 1}) \cap NativeCall = 1..(k + 1)
    <2>1. 1..(k + 1) = (1..k) \cup {k + 1}
      OBVIOUS
    <2> QED BY <2>1
  <1> QED BY <1>5, <1>7, <1>8

\* A provider that numbers its calls and has no other has as many indexes.
LEMMA NumberedIsFull ==
    ASSUME NEW m, NEW B, GoodBooks(m, B), NEW src, NEW latest, Apart(m, B, src, latest),
           turn.style = "numbered", B \subseteq NativeCall, NEW k \in Nat, B \cap NativeCall = 1..k,
           m.next <= Calls + MaxFrames
    PROVE  m.next = k
  <1>1. k <= m.next /\ m.next \in Nat
    <2>1. 1..k \subseteq B
      OBVIOUS
    <2> QED BY <2>1, NamesAreMany DEF GoodBooks, Books
  <1>2. ASSUME k < m.next PROVE FALSE
    <2>1. k < Calls + MaxFrames
      BY <1>1, <1>2, TurnAssumption
    <2>2. k \in Idx
      BY <2>1, Numbers
    <2>3. m.name[k] = k + 1 /\ m.name[k] # 0
      BY <1>2, <2>2 DEF Apart
    <2>4. m.name[k] \in B
      BY <2>2, <2>3 DEF GoodBooks
    <2>5. k + 1 \in 1..k
      BY <2>3, <2>4
    <2> QED BY <2>5
  <1> QED BY <1>1, <1>2

LEMMA NothingSent ==
    ASSUME NEW f, f.entries = <<>>, ~ Promoted(f)
    PROVE  SentOf(f) = <<>> /\ BooksOf(f) = index /\ NewCalls(f) = <<>>
  <1>1. Indexed(index, <<>>) = [index |-> index, sent |-> <<>>]
    BY IndexedFew
  <1>2. BooksOf(f) = index
    BY <1>1 DEF BooksOf
  <1>3. <<>> \o <<>> = <<>>
    <2>1. <<>> \in Seq({})
      OBVIOUS
    <2> QED BY <2>1, ConcatEmptySeq
  <1>4. SentOf(f) = <<>>
    BY <1>1, <1>3 DEF SentOf
  <1>5. NewCalls(f) = <<>>
    BY DEF NewCalls
  <1> QED BY <1>2, <1>4, <1>5

LEMMA OneSent ==
    ASSUME NEW f, NEW e, f.entries = <<e>> \/ (Promoted(f) /\ e = TextCall(frames + 1) /\ e.call = e.id)
    PROVE  SentOf(f) = <<Sent(First1(e), e)>> /\ BooksOf(f) = After1(e) /\ NewCalls(f) = <<e.call>>
  <1> DEFINE s == <<Sent(First1(e), e)>>
  <1>1. s \o <<>> = s /\ <<>> \o s = s
    <2>1. s \in Seq({Sent(First1(e), e)})
      OBVIOUS
    <2> HIDE DEF s
    <2> QED BY <2>1, ConcatEmptySeq
  <1>2. \A m : Indexed(m, <<>>) = [index |-> m, sent |-> <<>>]
    BY IndexedFew
  <1>3. Indexed(index, <<e>>) = [index |-> After1(e), sent |-> s]
    BY IndexedFew DEF First1, After1
  <1> HIDE DEF s
  <1>4. CASE f.entries = <<e>>
    <2>1. ~ Promoted(f)
      BY <1>4 DEF Promoted
    <2>2. Indexed(index, f.entries).index = After1(e) /\ Indexed(index, f.entries).sent = s
      BY <1>3, <1>4
    <2>3. BooksOf(f) = After1(e)
      BY <1>2, <2>1, <2>2 DEF BooksOf
    <2>4. SentOf(f) = s \o <<>>
      <3>1. Indexed(Indexed(index, f.entries).index, <<>>).sent = <<>>
        BY <1>2
      <3> QED BY <2>1, <2>2, <3>1 DEF SentOf
    <2>5. NewCalls(f) = <<e.call>>
      BY <1>4, <2>1 DEF NewCalls
    <2> QED BY <1>1, <2>3, <2>4, <2>5 DEF s
  <1>5. CASE Promoted(f) /\ e = TextCall(frames + 1) /\ e.call = e.id
    <2>1. f.entries = <<>>
      BY <1>5 DEF Promoted
    <2>2. Indexed(index, f.entries).index = index /\ Indexed(index, f.entries).sent = <<>>
      BY <1>2, <2>1
    <2>3. BooksOf(f) = After1(e)
      BY <1>3, <1>5, <2>2 DEF BooksOf
    <2>4. SentOf(f) = <<>> \o s
      BY <1>3, <1>5, <2>2 DEF SentOf
    <2>5. NewCalls(f) = <<e.call>>
      BY <1>5 DEF NewCalls
    <2> QED BY <1>1, <2>3, <2>4, <2>5 DEF s
  <1> QED BY <1>4, <1>5

LEMMA TwoSent ==
    ASSUME NEW f, NEW e, NEW d, f.entries = <<e, d>>
    PROVE  /\ SentOf(f) = <<Sent(First1(e), e), Sent(Then2(e, d), d)>>
           /\ BooksOf(f) = After2(e, d) /\ NewCalls(f) = <<e.call, d.call>>
  <1> DEFINE s == <<Sent(First1(e), e), Sent(Then2(e, d), d)>>
  <1>1. s \o <<>> = s
    <2>1. s \in Seq({Sent(First1(e), e), Sent(Then2(e, d), d)})
      OBVIOUS
    <2> HIDE DEF s
    <2> QED BY <2>1, ConcatEmptySeq
  <1>2. \A m : Indexed(m, <<>>) = [index |-> m, sent |-> <<>>]
    BY IndexedFew
  <1>3. Indexed(index, <<e, d>>) = [index |-> After2(e, d), sent |-> s]
    BY IndexedFew DEF First1, After1, Then2, After2
  <1> HIDE DEF s
  <1>4. ~ Promoted(f)
    BY DEF Promoted
  <1>5. Indexed(index, f.entries).index = After2(e, d) /\ Indexed(index, f.entries).sent = s
    BY <1>3
  <1>6. BooksOf(f) = After2(e, d)
    BY <1>2, <1>4, <1>5 DEF BooksOf
  <1>7. SentOf(f) = s \o <<>>
    <2>1. Indexed(Indexed(index, f.entries).index, <<>>).sent = <<>>
      BY <1>2
    <2> QED BY <1>4, <1>5, <2>1 DEF SentOf
  <1>8. NewCalls(f) = <<e.call, d.call>>
    <2> DEFINE q == <<e, d>>
               c == [i \in DOMAIN q |-> q[i].call]
               g == <<e.call, d.call>>
               X == {e.call, d.call}
    <2>1. DOMAIN q = 1..2 /\ q[1] = e /\ q[2] = d
      OBVIOUS
    <2>2. g \in Seq(X) /\ Len(g) = 2 /\ g[1] = e.call /\ g[2] = d.call
      OBVIOUS
    <2>3. \A i \in 1..2 : i = 1 \/ i = 2
      OBVIOUS
    <2> HIDE DEF q, g
    <2>4. c = [i \in 1..2 |-> c[i]] /\ c[1] = e.call /\ c[2] = d.call
      BY <2>1
    <2> HIDE DEF c
    <2>5. g = [i \in 1..2 |-> g[i]]
      BY <2>2
    <2>6. c = g
      BY <2>2, <2>3, <2>4, <2>5
    <2> QED BY <1>4, <2>6 DEF NewCalls, c, g, q
  <1> QED BY <1>1, <1>6, <1>7, <1>8 DEF s

LEMMA OneMore ==
    ASSUME BooksInv, frames < MaxFrames, turn.style \in Style \ {"text"}, NEW f,
           NEW k \in 0..Calls, begun.calls \cap NativeCall = 1..k, index.next <= k + frames,
           NEW c \in 1..k, f.entries = <<More(c)>>
    PROVE  OneEntry(f, More(c))
  <1> DEFINE e == More(c)
             B == begun.calls
  <1>1. /\ GoodBooks(index, B) /\ frames \in Nat /\ Calls \in Nat /\ 1..k \subseteq B /\ c \in B
        /\ c \in NativeCall /\ c <= Calls /\ c \in Nat /\ index.next \in Nat /\ B \cup {c} = B
    BY TurnAssumption DEF BooksInv, GoodBooks, Books, NativeCall
  <1>2. GoodEntry(e, index, B) /\ GoesOn(e, B) /\ Settled(e, index, B, 1)
    BY <1>1, MoreGoesOn
  <1>3. SentOf(f) = <<Sent(First1(e), e)>> /\ BooksOf(f) = After1(e) /\ NewCalls(f) = <<e.call>>
    BY OneSent
  <1>4. /\ e.name = 0 /\ e.call = c /\ e.id \in {0, c}
        /\ e.id = c <=> turn.style \in {"ids", "zeroids"}
        /\ turn.style = "bare" => e.index = Nowhere
        /\ turn.style = "numbered" => e.index = c - 1
    BY <1>1, EntryForms
  <1>5. After1(e).next = index.next
    BY <1>1, <1>2, EntryKeeps DEF After1, First1
  <1>6. ASSUME ~ Tangles(f)
        PROVE  Plain(e, index, B, 1, {}, begun.latest)
    <2>1. turn.style \in IdLess => c = begun.latest
      BY <1>1, <1>6 DEF Tangles
    <2>2. turn.style = "numbered" => B \subseteq NativeCall
      <3>1. f.entries # <<>>
        OBVIOUS
      <3> QED BY <1>6, <3>1 DEF Tangles
    <2>3. e.id # 0 => index.of[c] # Nowhere
      BY <1>1, <1>4 DEF GoodBooks
    <2>4. e.id = 0 => turn.style \in {"standard", "zero", "bare", "numbered"}
      BY <1>1, <1>4 DEF Style
    <2>5. ~ Opens(e, B)
      BY <1>2 DEF Opens, GoesOn
    <2> HIDE DEF e
    <2> QED BY <1>4, <2>1, <2>2, <2>3, <2>4, <2>5 DEF Plain
  <1> HIDE DEF e
  <1>7. /\ (B \cup {e.call}) \cap NativeCall = 1..k
        /\ After1(e).next <= k + frames + 1
    BY <1>1, <1>4, <1>5
  <1>8. e.call <= Calls + frames + 1
    BY <1>1, <1>4
  <1> QED BY <1>2, <1>3, <1>6, <1>7, <1>8 DEF OneEntry, HasRoom, e

LEMMA OneOpened ==
    ASSUME BooksInv, ApartInv, frames < MaxFrames, turn.style \in Style \ {"text"}, NEW f,
           NEW k \in 0..Calls, begun.calls \cap NativeCall = 1..k, index.next <= k + frames,
           k + 1 \in NativeCall, f.entries = <<Opening(k + 1)>>
    PROVE  OneEntry(f, Opening(k + 1))
  <1> DEFINE e == Opening(k + 1)
             B == begun.calls
  <1>1. /\ GoodBooks(index, B) /\ frames \in Nat /\ Calls \in Nat /\ k \in Nat /\ k + 1 <= Calls
        /\ index.next \in Nat /\ MaxFrames \in Nat /\ k + 1 \in 0..Calls
    BY TurnAssumption DEF BooksInv, GoodBooks, Books, NativeCall
  <1>2. GoodEntry(e, index, B) /\ Opens(e, B) /\ (B \cup {k + 1}) \cap NativeCall = 1..(k + 1)
    BY <1>1, OpeningOpens
  <1>3. SentOf(f) = <<Sent(First1(e), e)>> /\ BooksOf(f) = After1(e) /\ NewCalls(f) = <<e.call>>
    BY OneSent
  <1>4. /\ e.call = k + 1
        /\ e.id = 0 <=> turn.style \in {"bare", "numbered"}
    BY <1>1, EntryForms
  <1>5. index.next < Calls + MaxFrames
    BY <1>1
  <1>6. After1(e).next <= index.next + 1 /\ After1(e).next \in Nat
    <2>1. Follows(After1(e), index, B, e, 1, First1(e))
      BY <1>1, <1>2, <1>5, EntryKeeps DEF After1, First1
    <2>2. After1(e).next = (IF First1(e) = index.next THEN index.next + 1 ELSE index.next)
      BY <2>1 DEF Follows
    <2> QED BY <1>1, <2>2
  <1>7. ASSUME ~ tangled, ~ Tangles(f)
        PROVE  Plain(e, index, B, 1, {}, begun.latest)
    <2>1. ~ GoesOn(e, B)
      BY <1>2 DEF Opens, GoesOn
    <2>2. turn.style = "numbered" /\ B \cup {e.call} \subseteq NativeCall => e.call = index.next + 1 /\ e.id = 0
      <3> SUFFICES ASSUME turn.style = "numbered", B \subseteq NativeCall PROVE e.call = index.next + 1 /\ e.id = 0
        OBVIOUS
      <3>1. Apart(index, B, sources, begun.latest) /\ index.next <= Calls + MaxFrames
        BY <1>1, <1>7 DEF ApartInv
      <3>2. index.next = k
        BY <1>1, <3>1, NumberedIsFull
      <3> HIDE DEF e
      <3> QED BY <1>4, <3>2
    <2> HIDE DEF e
    <2> QED BY <1>4, <2>1, <2>2 DEF Plain
  <1> HIDE DEF e
  <1>8. /\ (B \cup {e.call}) \cap NativeCall = 1..(k + 1)
        /\ After1(e).next <= (k + 1) + frames + 1
        /\ e.call <= Calls + frames + 1
    BY <1>1, <1>2, <1>4, <1>6
  <1>9. HasRoom(e, index, B, 1)
    BY <1>5 DEF HasRoom
  <1> QED BY <1>1, <1>2, <1>3, <1>7, <1>8, <1>9 DEF OneEntry, e

LEMMA OneInText ==
    ASSUME BooksInv, frames < MaxFrames, NEW f, Promoted(f)
    PROVE  OneEntry(f, TextCall(frames + 1))
  <1> DEFINE e == TextCall(frames + 1)
             B == begun.calls
             id == Calls + (frames + 1)
  <1>1. PICK k \in 0..Calls : B \cap NativeCall = 1..k /\ index.next <= k + frames
    BY DEF BooksInv
  <1>2. /\ GoodBooks(index, B) /\ frames \in Nat /\ Calls \in Nat /\ k \in Nat /\ k <= Calls
        /\ index.next \in Nat /\ MaxFrames \in Nat
    BY TurnAssumption DEF BooksInv, GoodBooks, Books
  <1>3. e.id = id /\ e.index = 0 /\ e.name = id /\ e.call = id /\ e = [id |-> id, index |-> 0, name |-> id, call |-> id]
    BY DEF TextCall, Entry
  <1>4. id \in CallId /\ 0 \in Idx /\ id \notin NativeCall /\ id # 0 /\ id \in Nat
    BY <1>2 DEF CallId, Idx, NativeCall
  <1>5. id \notin B
    <2>1. \A c \in B : c <= Calls + frames
      BY DEF BooksInv
    <2> QED BY <1>2, <2>1
  <1>6. e \in BookedEntry
    BY <1>3, <1>4 DEF BookedEntry
  <1> HIDE DEF e
  <1>7. Opens(e, B) /\ ~ GoesOn(e, B)
    BY <1>3, <1>5 DEF Opens, GoesOn
  <1>8. GoodEntry(e, index, B)
    BY <1>2, <1>3, <1>6, <1>7 DEF GoodEntry
  <1>9. index.next < Calls + MaxFrames
    BY <1>1, <1>2
  <1>10. After1(e).next <= index.next + 1 /\ After1(e).next \in Nat
    <2>1. Follows(After1(e), index, B, e, 1, First1(e))
      BY <1>2, <1>8, <1>9, EntryKeeps DEF After1, First1
    <2>2. After1(e).next = (IF First1(e) = index.next THEN index.next + 1 ELSE index.next)
      BY <2>1 DEF Follows
    <2> QED BY <1>2, <2>2
  <1>11. SentOf(f) = <<Sent(First1(e), e)>> /\ BooksOf(f) = After1(e) /\ NewCalls(f) = <<e.call>>
    BY <1>3, OneSent DEF e
  <1>12. Plain(e, index, B, 1, {}, begun.latest)
    BY <1>3, <1>4, <1>7 DEF Plain
  <1>13. /\ (B \cup {e.call}) \cap NativeCall = 1..k
         /\ After1(e).next <= k + frames + 1
         /\ e.call <= Calls + frames + 1
    BY <1>1, <1>2, <1>3, <1>4, <1>10
  <1> QED BY <1>8, <1>9, <1>11, <1>12, <1>13 DEF OneEntry, HasRoom, e

LEMMA TwoMore ==
    ASSUME BooksInv, ApartInv, frames < MaxFrames, turn.style \in Style \ {"text"}, NEW f,
           NEW k \in 0..Calls, begun.calls \cap NativeCall = 1..k, index.next <= k + frames,
           NEW c \in 1..k, NEW b \in 1..k, b # c, f.entries = <<More(c), More(b)>>
    PROVE  TwoEntries(f, More(c), More(b))
  <1> DEFINE e == More(c)
             d == More(b)
             B == begun.calls
             i == First1(e)
             m == After1(e)
             n == After2(e, d)
  <1>1. /\ GoodBooks(index, B) /\ frames \in Nat /\ Calls \in Nat /\ k \in Nat /\ 1..k \subseteq B /\ c \in B /\ b \in B
        /\ c \in NativeCall /\ c <= Calls /\ c \in Nat /\ index.next \in Nat /\ B \cup {c} = B
        /\ b \in NativeCall /\ b <= Calls /\ b \in Nat /\ B \cup {b} = B /\ MaxFrames \in Nat /\ k <= Calls
    BY TurnAssumption DEF BooksInv, GoodBooks, Books, NativeCall
  <1>2. GoodEntry(e, index, B) /\ GoesOn(e, B) /\ Settled(e, index, B, 1)
    BY <1>1, MoreGoesOn
  <1>3. /\ SentOf(f) = <<Sent(First1(e), e), Sent(Then2(e, d), d)>>
        /\ BooksOf(f) = n /\ NewCalls(f) = <<e.call, d.call>>
    BY TwoSent
  <1>4. /\ e.name = 0 /\ e.call = c /\ e.id \in {0, c}
        /\ e.id = c <=> turn.style \in {"ids", "zeroids"}
        /\ turn.style = "bare" => e.index = Nowhere
        /\ turn.style = "numbered" => e.index = c - 1
        /\ d.name = 0 /\ d.call = b /\ d.id \in {0, b}
        /\ d.id = b <=> turn.style \in {"ids", "zeroids"}
        /\ turn.style = "bare" => d.index = Nowhere
        /\ turn.style = "numbered" => d.index = b - 1
    BY <1>1, EntryForms
  <1>5. m.next = index.next /\ Follows(m, index, B, e, 1, i) /\ i \in Idx
    BY <1>1, <1>2, EntryKeeps DEF After1, First1
  <1>6. GoodBooks(m, B) /\ m.last[1] = i /\ i # Nowhere
    BY <1>1, <1>4, <1>5, Numbers DEF Follows
  <1>7. GoodEntry(d, m, B) /\ GoesOn(d, B) /\ m.next < Calls + MaxFrames /\ HasRoom(d, m, B, 2)
    <2>1. m.next < Calls + MaxFrames
      BY <1>1, <1>5
    <2> HIDE DEF m
    <2> QED BY <1>1, <1>6, <2>1, MoreGoesOn
  <1>8. n.next <= m.next + 1 /\ n.next \in Nat
    <2>1. Follows(n, m, B, d, 2, Then2(e, d))
      BY <1>6, <1>7, EntryKeeps DEF After2, Then2
    <2>2. n.next = (IF Then2(e, d) = m.next THEN m.next + 1 ELSE m.next)
      BY <2>1 DEF Follows
    <2> QED BY <1>1, <1>5, <2>2
  <1>9. ASSUME ~ tangled, ~ Tangles(f)
        PROVE  /\ Plain(e, index, B, 1, {}, begun.latest)
               /\ Plain(d, m, B, 2, {i}, c)
    <2>1. turn.style \notin IdLess
      <3>1. Len(f.entries) > 1
        OBVIOUS
      <3> QED BY <1>9, <3>1 DEF Tangles
    <2>2. turn.style = "numbered" => B \subseteq NativeCall
      <3>1. f.entries # <<>>
        OBVIOUS
      <3> QED BY <1>9, <3>1 DEF Tangles
    <2>3. (e.id # 0 => index.of[c] # Nowhere) /\ (d.id # 0 => m.of[b] # Nowhere)
      BY <1>1, <1>4, <1>6 DEF GoodBooks
    <2>4. (e.id = 0 => turn.style = "numbered") /\ (d.id = 0 => turn.style = "numbered")
      BY <1>1, <1>4, <2>1 DEF Style, IdLess
    <2>5. ~ Opens(e, B) /\ ~ Opens(d, B)
      BY <1>2, <1>7 DEF Opens, GoesOn
    <2>6. Apart(index, B, sources, begun.latest)
      BY <1>9 DEF ApartInv
    <2> HIDE DEF e, d, m, i
    <2>7. Plain(e, index, B, 1, {}, begun.latest)
      BY <1>4, <2>1, <2>2, <2>3, <2>4, <2>5 DEF Plain
    <2>8. turn.style = "numbered" => i = c - 1
      <3>1. i < index.next /\ index.name[i] = c
        BY <1>1, <1>2, <1>4, <2>5, <2>6, <2>7, PlainEntryFindsItsCall DEF i, First1, Finds
      <3>2. turn.style = "numbered" => index.name[i] = i + 1
        BY <1>5, <2>2, <2>6, <3>1 DEF Apart
      <3> QED BY <1>1, <1>5, <3>1, <3>2, Numbers
    <2>9. turn.style = "numbered" => b - 1 # i
      BY <1>1, <2>8
    <2> QED BY <1>4, <2>1, <2>2, <2>3, <2>4, <2>5, <2>7, <2>9 DEF Plain
  <1> HIDE DEF e, d, m, n, i
  <1>10. n.next <= k + frames + 1
    BY <1>1, <1>5, <1>8
  <1>11. B \cup {e.call} = B /\ B \cup {d.call} = B /\ e.call <= Calls /\ d.call <= Calls
    BY <1>1, <1>4
  <1>12. HasRoom(e, index, B, 1)
    BY <1>2 DEF HasRoom
  <1>13. /\ GoodEntry(e, index, begun.calls) /\ HasRoom(e, index, begun.calls, 1)
         /\ GoodEntry(d, After1(e), B \cup {e.call}) /\ HasRoom(d, After1(e), B \cup {e.call}, 2)
    BY <1>2, <1>7, <1>11, <1>12 DEF m
  <1>14. \E l \in 0..Calls : ((B \cup {e.call}) \cup {d.call}) \cap NativeCall = 1..l /\ After2(e, d).next <= l + frames + 1
    BY <1>10, <1>11 DEF n
  <1>15. ~ tangled /\ ~ Tangles(f) =>
            /\ Plain(e, index, begun.calls, 1, {}, begun.latest)
            /\ Plain(d, After1(e), B \cup {e.call}, 2, {First1(e)}, e.call)
    BY <1>4, <1>9, <1>11 DEF m, i
  <1> QED BY <1>3, <1>11, <1>13, <1>14, <1>15 DEF TwoEntries, e, d, n

LEMMA TwoOpened ==
    ASSUME BooksInv, ApartInv, frames < MaxFrames, turn.style \in Style \ {"text"}, NEW f,
           NEW k \in 0..Calls, begun.calls \cap NativeCall = 1..k, index.next <= k + frames,
           k + 1 \in NativeCall, (k + 1) + 1 \in NativeCall,
           f.entries = <<Opening(k + 1), Opening((k + 1) + 1)>>
    PROVE  TwoEntries(f, Opening(k + 1), Opening((k + 1) + 1))
  <1> DEFINE l == k + 1
             e == Opening(l)
             d == Opening(l + 1)
             B == begun.calls
             C == B \cup {l}
             i == First1(e)
             m == After1(e)
             n == After2(e, d)
  <1>1. /\ GoodBooks(index, B) /\ frames \in Nat /\ Calls \in Nat /\ k \in Nat /\ l \in Nat /\ l + 1 <= Calls
        /\ index.next \in Nat /\ MaxFrames \in Nat /\ l + 1 \in 0..Calls /\ l \in 0..Calls
    BY TurnAssumption DEF BooksInv, GoodBooks, Books, NativeCall
  <1>2. GoodEntry(e, index, B) /\ Opens(e, B) /\ C \cap NativeCall = 1..l
    BY <1>1, OpeningOpens
  <1>3. /\ SentOf(f) = <<Sent(First1(e), e), Sent(Then2(e, d), d)>>
        /\ BooksOf(f) = n /\ NewCalls(f) = <<e.call, d.call>>
    BY TwoSent
  <1>4. /\ e.call = l /\ d.call = l + 1
        /\ e.id = 0 <=> turn.style \in {"bare", "numbered"}
        /\ d.id = 0 <=> turn.style \in {"bare", "numbered"}
    BY <1>1, EntryForms
  <1>5. index.next < Calls + MaxFrames
    BY <1>1
  <1>6. Follows(m, index, B, e, 1, i) /\ i \in Idx
    BY <1>1, <1>2, <1>5, EntryKeeps DEF After1, First1
  <1>7. /\ GoodBooks(m, C) /\ m.last[1] = i /\ i # Nowhere
        /\ m.next = (IF i = index.next THEN index.next + 1 ELSE index.next) /\ m.next \in Nat
        /\ m.next < Calls + MaxFrames
    <2> HIDE DEF m, i, e, l
    <2>1. m.next = (IF i = index.next THEN index.next + 1 ELSE index.next)
      BY <1>6 DEF Follows
    <2>2. l = k + 1
      BY DEF l
    <2>3. m.next \in Nat /\ m.next < Calls + MaxFrames
      BY <1>1, <2>1, <2>2
    <2>4. GoodBooks(m, C) /\ m.last[1] = i
      BY <1>4, <1>6 DEF Follows
    <2> QED BY <1>6, <2>1, <2>3, <2>4, Numbers
  <1> HIDE DEF m
  <1>8. GoodEntry(d, m, C) /\ Opens(d, C) /\ (C \cup {l + 1}) \cap NativeCall = 1..(l + 1)
    <2> HIDE DEF l, C
    <2> QED BY <1>1, <1>2, <1>7, OpeningOpens DEF l
  <1>9. n.next <= m.next + 1 /\ n.next \in Nat
    <2>1. Follows(n, m, C, d, 2, Then2(e, d))
      BY <1>7, <1>8, EntryKeeps DEF After2, Then2, m
    <2>2. n.next = (IF Then2(e, d) = m.next THEN m.next + 1 ELSE m.next)
      BY <2>1 DEF Follows
    <2> QED BY <1>7, <2>2
  <1>10. ASSUME ~ tangled, ~ Tangles(f)
        PROVE  /\ Plain(e, index, B, 1, {}, begun.latest)
               /\ Plain(d, m, C, 2, {i}, l)
    <2>1. turn.style \notin IdLess
      <3>1. Len(f.entries) > 1
        OBVIOUS
      <3> QED BY <1>10, <3>1 DEF Tangles
    <2>2. ~ GoesOn(e, B) /\ ~ GoesOn(d, C)
      BY <1>2, <1>8 DEF Opens, GoesOn
    <2>3. Apart(index, B, sources, begun.latest) /\ index.next <= Calls + MaxFrames
      BY <1>1, <1>5, <1>10 DEF ApartInv
    <2>4. turn.style = "numbered" /\ B \subseteq NativeCall => index.next = k
      BY <1>1, <2>3, NumberedIsFull
    <2> HIDE DEF e, d, i
    <2>5. Plain(e, index, B, 1, {}, begun.latest)
      BY <1>4, <2>1, <2>2, <2>4 DEF Plain
    <2>6. i = index.next
      BY <1>1, <1>2, <1>5, <2>3, <2>5, PlainEntryFindsItsCall DEF i, First1, Finds
    <2>7. turn.style = "numbered" /\ C \subseteq NativeCall => d.call = m.next + 1 /\ d.id = 0
      BY <1>4, <1>7, <2>4, <2>6
    <2> QED BY <1>4, <2>1, <2>2, <2>5, <2>7 DEF Plain
  <1> HIDE DEF e, d, n, i
  <1>11. n.next <= (l + 1) + frames + 1
    BY <1>1, <1>7, <1>9
  <1>12. B \cup {e.call} = C /\ C \cup {d.call} = C \cup {l + 1} /\ e.call <= Calls /\ d.call <= Calls
    BY <1>1, <1>4
  <1>13. HasRoom(e, index, B, 1) /\ HasRoom(d, m, C, 2)
    BY <1>5, <1>7 DEF HasRoom
  <1>14. /\ GoodEntry(e, index, begun.calls) /\ HasRoom(e, index, begun.calls, 1)
         /\ GoodEntry(d, After1(e), B \cup {e.call}) /\ HasRoom(d, After1(e), B \cup {e.call}, 2)
    BY <1>2, <1>8, <1>12, <1>13 DEF m
  <1>15. \E q \in 0..Calls : ((B \cup {e.call}) \cup {d.call}) \cap NativeCall = 1..q /\ After2(e, d).next <= q + frames + 1
    BY <1>1, <1>8, <1>11, <1>12 DEF n
  <1>16. ~ tangled /\ ~ Tangles(f) =>
            /\ Plain(e, index, begun.calls, 1, {}, begun.latest)
            /\ Plain(d, After1(e), B \cup {e.call}, 2, {First1(e)}, e.call)
    BY <1>4, <1>10, <1>12 DEF m, i
  <1> QED BY <1>3, <1>12, <1>14, <1>15, <1>16 DEF TwoEntries, e, d, n

LEMMA FrameShapes ==
    ASSUME BooksInv, ApartInv, frames < MaxFrames, NEW f,
           f \in TextFrames \/ (turn.style # "text" /\ f \in CallFrames)
    PROVE  \/ SentOf(f) = <<>> /\ BooksOf(f) = index /\ NewCalls(f) = <<>>
           \/ \E e : OneEntry(f, e)
           \/ \E e, d : TwoEntries(f, e, d)
  <1>1. PICK k \in 0..Calls : begun.calls \cap NativeCall = 1..k /\ index.next <= k + frames
    BY DEF BooksInv
  <1>2. CASE f.entries = <<>>
    <2>1. CASE Promoted(f)
      BY <2>1, OneInText
    <2>2. CASE ~ Promoted(f)
      BY <1>2, <2>2, NothingSent
    <2> QED BY <2>1, <2>2
  <1>3. CASE f.entries # <<>>
    <2>1. f \notin TextFrames
      BY <1>3 DEF TextFrames, TurnFrame
    <2>2. f.entries \in Entries /\ turn.style \in Style \ {"text"}
      BY <2>1 DEF CallFrames, TurnFrame, BooksInv
    <2> DEFINE opened == begun.calls \cap NativeCall
               next == Cardinality(opened) + 1
    <2>3. next = k + 1 /\ k \in Nat
      <3>1. k \in Nat /\ 1 \in Int /\ k \in Int
        BY TurnAssumption
      <3>2. Cardinality(1..k) = IF 1 > k THEN 0 ELSE k - 1 + 1
        BY <3>1, FS_Interval
      <3>3. Cardinality(1..k) = k
        BY <3>1, <3>2
      <3>4. Cardinality(opened) = k
        BY <1>1, <3>3
      <3> QED BY <3>1, <3>4
    <2>4. f.entries \in
            {<<>>} \cup {<<More(c)>> : c \in opened}
            \cup {<<Opening(c)>> : c \in {next} \cap NativeCall}
            \cup {<<Opening(c), Opening(c + 1)>> : c \in {q \in {next} : {q, q + 1} \subseteq NativeCall}}
            \cup UNION {{<<More(c), More(d)>> : d \in opened \ {c}} : c \in opened}
      BY <2>2 DEF Entries
    <2> HIDE DEF next
    <2>5. \/ \E c \in opened : f.entries = <<More(c)>>
          \/ k + 1 \in NativeCall /\ f.entries = <<Opening(k + 1)>>
          \/ k + 1 \in NativeCall /\ (k + 1) + 1 \in NativeCall /\ f.entries = <<Opening(k + 1), Opening((k + 1) + 1)>>
          \/ \E c \in opened : \E d \in opened \ {c} : f.entries = <<More(c), More(d)>>
      BY <1>3, <2>3, <2>4
    <2>6. CASE \E c \in opened : f.entries = <<More(c)>>
      BY <1>1, <2>2, <2>6, OneMore
    <2>7. CASE k + 1 \in NativeCall /\ f.entries = <<Opening(k + 1)>>
      BY <1>1, <2>2, <2>7, OneOpened
    <2>8. CASE k + 1 \in NativeCall /\ (k + 1) + 1 \in NativeCall /\ f.entries = <<Opening(k + 1), Opening((k + 1) + 1)>>
      BY <1>1, <2>2, <2>8, TwoOpened
    <2>9. CASE \E c \in opened : \E d \in opened \ {c} : f.entries = <<More(c), More(d)>>
      <3>1. PICK c \in 1..k : \E d \in (1..k) \ {c} : f.entries = <<More(c), More(d)>>
        BY <1>1, <2>9
      <3>2. PICK d \in (1..k) \ {c} : f.entries = <<More(c), More(d)>>
        BY <3>1
      <3>3. d # c /\ d \in 1..k
        OBVIOUS
      <3> QED BY <1>1, <2>2, <3>2, <3>3, TwoMore
    <2> QED BY <2>5, <2>6, <2>7, <2>8, <2>9
  <1> QED BY <1>2, <1>3

\* What a frame with calls does to the books and the histories.
Booked(f) ==
    /\ index' = BooksOf(f) /\ sources' = Under(sources, SentOf(f))
    /\ begun' = [calls |-> begun.calls \cup Range(NewCalls(f)),
                 latest |-> IF NewCalls(f) = <<>> THEN begun.latest ELSE Last(NewCalls(f))]
    /\ tangled' = (tangled \/ Tangles(f))
    /\ frames' = frames + 1 /\ UNCHANGED turn

LEMMA FrameBooks ==
    ASSUME NEW f, FrameArrives(f)
    PROVE  Booked(f) /\ frames < MaxFrames
  <1>1. index' = BooksOf(f) /\ sources' = Under(sources, SentOf(f))
    BY DEF FrameArrives, Receive, BooksOf, SentOf
  <1>2. begun' = [calls |-> begun.calls \cup Range(NewCalls(f)),
                  latest |-> IF NewCalls(f) = <<>> THEN begun.latest ELSE Last(NewCalls(f))]
    BY DEF FrameArrives, NewCalls
  <1> QED BY <1>1, <1>2 DEF Booked, FrameArrives

LEMMA OneBooked ==
    ASSUME BooksInv, ApartInv, frames < MaxFrames, NEW f, NEW e, OneEntry(f, e), Booked(f)
    PROVE  BooksInv' /\ ApartInv'
  <1> DEFINE B == begun.calls
             i == First1(e)
             n == After1(e)
             src == [sources EXCEPT ![i] = @ \cup {e.call}]
  <1>1. /\ i \in Idx /\ Follows(n, index, B, e, 1, i)
    BY EntryKeeps DEF OneEntry, HasRoom, First1, After1, BooksInv
  <1>2. begun'.calls = B \cup {e.call} /\ begun'.latest = e.call
    <2>1. Range(<<e.call>>) = {e.call} /\ Last(<<e.call>>) = e.call /\ <<e.call>> # <<>>
      BY DEF Range, Last
    <2> QED BY <2>1 DEF Booked, OneEntry
  <1>3. index' = n /\ e.call \in CallId
    BY DEF Booked, OneEntry, GoodEntry, BookedEntry
  <1>4. sources' = src
    <2> DEFINE q == <<Sent(i, e)>>
    <2>1. Range(q) = {Sent(i, e)}
      BY DEF Range
    <2>2. SentOf(f) = q
      BY DEF OneEntry
    <2> HIDE DEF q
    <2>3. ASSUME NEW j \in Idx
          PROVE  sources[j] \cup {x.call : x \in {y \in Range(q) : y.index = j}} = src[j]
      <3>1. sources \in [Idx -> SUBSET CallId]
        BY DEF BooksInv
      <3>2. Sent(i, e).index = i /\ Sent(i, e).call = e.call
        BY DEF Sent
      <3>3. {x.call : x \in {y \in Range(q) : y.index = j}} = IF j = i THEN {e.call} ELSE {}
        BY <2>1, <3>2
      <3> HIDE DEF i
      <3> QED BY <3>1, <3>3
    <2>4. sources' = [j \in Idx |-> sources[j] \cup {x.call : x \in {y \in Range(q) : y.index = j}}]
      BY <2>2 DEF Booked, Under
    <2>5. src = [j \in Idx |-> src[j]]
      BY DEF BooksInv
    <2> QED BY <2>3, <2>4, <2>5
  <1>5. src \in [Idx -> SUBSET CallId]
    <2>1. sources \in [Idx -> SUBSET CallId]
      BY DEF BooksInv
    <2> HIDE DEF i
    <2> QED BY <1>1, <1>3, <2>1
  <1> HIDE DEF i, n, src
  <1>6. BooksInv'
    <2>1. /\ turn.style \in Style /\ frames \in Nat /\ MaxFrames \in Nat
          /\ \A c \in B : c <= Calls + frames
      BY TurnAssumption DEF BooksInv
    <2>2. frames' = frames + 1 /\ turn' = turn /\ frames' \in 0..MaxFrames
      BY <2>1 DEF Booked
    <2>3. GoodBooks(n, B \cup {e.call})
      BY <1>1 DEF Follows
    <2>4. GoodBooks(index, begun.calls)'
      BY <1>2, <1>3, <2>2, <2>3 DEF GoodBooks
    <2>5. PICK k \in 0..Calls : (B \cup {e.call}) \cap NativeCall = 1..k /\ n.next <= k + frames + 1
      BY DEF OneEntry, n
    <2>6. \E q \in 0..Calls : begun'.calls \cap NativeCall = 1..q /\ index'.next <= q + frames'
      <3>1. n.next <= k + frames'
        BY <2>1, <2>2, <2>3, <2>5, TurnAssumption DEF GoodBooks, Books
      <3> QED BY <1>2, <1>3, <2>5, <3>1
    <2>7. \A c \in begun'.calls : c <= Calls + frames'
      <3>1. B \subseteq CallId /\ e.call <= Calls + frames + 1
        BY DEF OneEntry, BooksInv, GoodBooks
      <3> QED BY <1>2, <1>3, <2>1, <2>2, <3>1, Numbers
    <2> QED BY <1>4, <1>5, <2>1, <2>2, <2>4, <2>6, <2>7 DEF BooksInv
  <1>7. ApartInv'
    <2> SUFFICES ASSUME ~ tangled' PROVE Apart(index, begun.calls, sources, begun.latest)'
      BY DEF ApartInv
    <2>1. ~ tangled /\ ~ Tangles(f)
      BY DEF Booked
    <2>2. /\ Plain(e, index, B, 1, {}, begun.latest) /\ Apart(index, B, sources, begun.latest)
          /\ GoodEntry(e, index, B) /\ HasRoom(e, index, B, 1) /\ GoodBooks(index, B)
      BY <2>1 DEF OneEntry, ApartInv, BooksInv
    <2>3. sources \in [Idx -> SUBSET CallId] /\ i = ChosenIndex(index, e, 1, {})
      BY DEF BooksInv, i, First1
    <2>4. Apart(n, B \cup {e.call}, src, e.call)
      <3>1. 1 \in 1..2 /\ (1 = 2 => index.last[1] # Nowhere)
        OBVIOUS
      <3>2. Apart(Book(index, e, 1, i), B \cup {e.call}, With(sources, i, e.call), e.call)
        BY <2>2, <2>3, <3>1, PlainEntry DEF HasRoom
      <3> QED BY <3>2 DEF src, With, n, After1, i
    <2>5. turn' = turn
      BY DEF Booked
    <2> QED BY <1>2, <1>3, <1>4, <2>4, <2>5 DEF Apart
  <1> QED BY <1>6, <1>7

LEMMA SourcesOfTwo ==
    ASSUME NEW src \in [Idx -> SUBSET CallId], NEW i \in Idx, NEW e, NEW j \in Idx, NEW d,
           e.call \in CallId, d.call \in CallId
    PROVE  /\ Under(src, <<Sent(i, e), Sent(j, d)>>) = With(With(src, i, e.call), j, d.call)
           /\ With(src, i, e.call) \in [Idx -> SUBSET CallId]
           /\ With(With(src, i, e.call), j, d.call) \in [Idx -> SUBSET CallId]
  <1> DEFINE q == <<Sent(i, e), Sent(j, d)>>
             t == With(src, i, e.call)
             u == With(t, j, d.call)
  <1>1. t \in [Idx -> SUBSET CallId] /\ \A k \in Idx : t[k] = src[k] \cup (IF k = i THEN {e.call} ELSE {})
    BY DEF With
  <1> HIDE DEF t
  <1>2. u \in [Idx -> SUBSET CallId] /\ \A k \in Idx : u[k] = t[k] \cup (IF k = j THEN {d.call} ELSE {})
    BY <1>1 DEF With
  <1> HIDE DEF u
  <1>3. Range(q) = {Sent(i, e), Sent(j, d)}
    BY DEF Range
  <1>4. /\ Sent(i, e).index = i /\ Sent(i, e).call = e.call
        /\ Sent(j, d).index = j /\ Sent(j, d).call = d.call
    BY DEF Sent
  <1>5. Under(src, q) = [k \in Idx |-> src[k] \cup {x.call : x \in {y \in Range(q) : y.index = k}}]
    BY DEF Under
  <1> HIDE DEF q
  <1>6. ASSUME NEW k \in Idx
        PROVE  src[k] \cup {x.call : x \in {y \in Range(q) : y.index = k}} = u[k]
    <2>1. {x.call : x \in {y \in Range(q) : y.index = k}}
            = (IF k = i THEN {e.call} ELSE {}) \cup (IF k = j THEN {d.call} ELSE {})
      BY <1>3, <1>4
    <2> QED BY <1>1, <1>2, <2>1
  <1>7. u = [k \in Idx |-> u[k]]
    BY <1>2
  <1>8. Under(src, q) = u
    BY <1>5, <1>6, <1>7
  <1> QED BY <1>1, <1>2, <1>8 DEF q, t, u

LEMMA TwoBooked ==
    ASSUME BooksInv, ApartInv, frames < MaxFrames, NEW f, NEW e, NEW d, TwoEntries(f, e, d), Booked(f)
    PROVE  BooksInv' /\ ApartInv'
  <1> DEFINE B == begun.calls
             i == First1(e)
             m == After1(e)
             j == Then2(e, d)
             n == After2(e, d)
             C == B \cup {e.call}
  <1>1. i \in Idx /\ Follows(m, index, B, e, 1, i)
    BY EntryKeeps DEF TwoEntries, HasRoom, First1, After1, BooksInv
  <1>2. GoodBooks(m, C) /\ m.last[1] # Nowhere
    BY <1>1, Numbers DEF Follows
  <1> HIDE DEF m, i
  <1>3. /\ GoodEntry(d, m, C) /\ HasRoom(d, m, C, 2) /\ 2 \in 1..2 /\ j = ChosenIndex(m, d, 2, {i})
        /\ n = Book(m, d, 2, j)
    BY DEF TwoEntries, Then2, After2, m, i
  <1> HIDE DEF C, n
  <1>4. j \in Idx /\ Follows(n, m, C, d, 2, j)
    BY <1>2, <1>3, EntryKeeps DEF HasRoom
  <1> HIDE DEF j
  <1>5. e.call \in CallId /\ d.call \in CallId
    BY DEF TwoEntries, GoodEntry, BookedEntry
  <1>6. begun'.calls = C \cup {d.call} /\ begun'.latest = d.call
    <2>1. Range(<<e.call, d.call>>) = {e.call, d.call} /\ Last(<<e.call, d.call>>) = d.call /\ <<e.call, d.call>> # <<>>
      BY DEF Range, Last
    <2> QED BY <2>1 DEF Booked, TwoEntries, C
  <1>7. index' = n /\ frames' = frames + 1 /\ turn' = turn
    BY DEF Booked, TwoEntries, n
  <1> DEFINE src == With(sources, i, e.call)
             srd == With(src, j, d.call)
  <1>8. sources' = srd /\ src \in [Idx -> SUBSET CallId] /\ srd \in [Idx -> SUBSET CallId]
    <2>1. sources \in [Idx -> SUBSET CallId]
      BY DEF BooksInv
    <2>2. sources' = Under(sources, <<Sent(i, e), Sent(j, d)>>)
      BY DEF Booked, TwoEntries, i, j
    <2> QED BY <1>1, <1>4, <1>5, <2>1, <2>2, SourcesOfTwo
  <1> HIDE DEF src, srd
  <1>9. BooksInv'
    <2>1. /\ turn.style \in Style /\ frames \in Nat /\ MaxFrames \in Nat
          /\ \A c \in B : c <= Calls + frames
      BY TurnAssumption DEF BooksInv
    <2>2. frames' \in 0..MaxFrames
      BY <1>7, <2>1
    <2>3. GoodBooks(n, C \cup {d.call})
      BY <1>4 DEF Follows
    <2>4. GoodBooks(index, begun.calls)'
      BY <1>6, <1>7, <2>3 DEF GoodBooks
    <2>5. PICK k \in 0..Calls : (C \cup {d.call}) \cap NativeCall = 1..k /\ n.next <= k + frames + 1
      BY DEF TwoEntries, n, C
    <2>6. \E q \in 0..Calls : begun'.calls \cap NativeCall = 1..q /\ index'.next <= q + frames'
      <3>1. n.next <= k + frames'
        BY <1>7, <2>1, <2>3, <2>5, TurnAssumption DEF GoodBooks, Books
      <3> QED BY <1>6, <1>7, <2>5, <3>1
    <2>7. \A c \in begun'.calls : c <= Calls + frames'
      <3>1. B \subseteq CallId /\ e.call <= Calls /\ d.call <= Calls
        BY DEF TwoEntries, BooksInv, GoodBooks
      <3>2. begun'.calls = B \cup {e.call, d.call}
        BY <1>6 DEF C
      <3> HIDE DEF B
      <3> QED BY <1>5, <1>7, <2>1, <3>1, <3>2, Numbers
    <2> QED BY <1>7, <1>8, <2>1, <2>2, <2>4, <2>6, <2>7 DEF BooksInv
  <1>10. ApartInv'
    <2> SUFFICES ASSUME ~ tangled' PROVE Apart(index, begun.calls, sources, begun.latest)'
      BY DEF ApartInv
    <2>1. ~ tangled /\ ~ Tangles(f)
      BY DEF Booked
    <2>2. /\ Plain(e, index, B, 1, {}, begun.latest) /\ Apart(index, B, sources, begun.latest)
          /\ GoodEntry(e, index, B) /\ HasRoom(e, index, B, 1) /\ GoodBooks(index, B)
          /\ Plain(d, m, C, 2, {i}, e.call)
      BY <2>1 DEF TwoEntries, ApartInv, BooksInv, m, i, C
    <2>3. sources \in [Idx -> SUBSET CallId] /\ i = ChosenIndex(index, e, 1, {}) /\ m = Book(index, e, 1, i)
      BY DEF BooksInv, i, m, First1, After1
    <2>4. Apart(m, C, src, e.call)
      <3>1. 1 \in 1..2 /\ (1 = 2 => index.last[1] # Nowhere)
        OBVIOUS
      <3>2. Apart(Book(index, e, 1, i), B \cup {e.call}, With(sources, i, e.call), e.call)
        BY <2>2, <2>3, <3>1, PlainEntry DEF HasRoom
      <3> QED BY <2>3, <3>2 DEF src, C
    <2>5. Apart(n, C \cup {d.call}, srd, d.call)
      <3>1. Apart(Book(m, d, 2, j), C \cup {d.call}, With(src, j, d.call), d.call)
        BY <1>2, <1>3, <1>8, <2>2, <2>4, PlainEntry DEF HasRoom
      <3> QED BY <1>3, <3>1 DEF srd
    <2> QED BY <1>6, <1>7, <1>8, <2>5 DEF Apart
  <1> QED BY <1>9, <1>10

LEMMA NothingBooked ==
    ASSUME BooksInv, ApartInv, frames < MaxFrames, NEW f, Booked(f),
           SentOf(f) = <<>>, BooksOf(f) = index, NewCalls(f) = <<>>
    PROVE  BooksInv' /\ ApartInv'
  <1>1. sources' = sources
    <2>1. sources \in [Idx -> SUBSET CallId] /\ Range(<<>>) = {}
      BY DEF BooksInv, Range
    <2>2. Under(sources, <<>>) = [i \in Idx |-> sources[i]]
      BY <2>1 DEF Under
    <2> QED BY <2>1, <2>2 DEF Booked
  <1>2. begun'.calls = begun.calls /\ begun'.latest = begun.latest
    <2>1. Range(<<>>) = {}
      BY DEF Range
    <2> QED BY <2>1 DEF Booked
  <1>3. /\ index' = index /\ frames' = frames + 1 /\ turn' = turn
        /\ frames \in Nat /\ MaxFrames \in Nat /\ Calls \in Nat
    BY TurnAssumption DEF Booked, BooksInv
  <1>6. tangled => tangled'
    BY Zenon DEF Booked
  <1>4. BooksInv'
    <2>1. GoodBooks(index, begun.calls)'
      BY <1>2, <1>3 DEF BooksInv, GoodBooks
    <2>2. PICK k \in 0..Calls : begun.calls \cap NativeCall = 1..k /\ index.next <= k + frames
      BY DEF BooksInv
    <2>3. index.next <= k + frames'
      BY <1>3, <2>2 DEF BooksInv, GoodBooks, Books
    <2>4. \E q \in 0..Calls : begun'.calls \cap NativeCall = 1..q /\ index'.next <= q + frames'
      BY <1>2, <1>3, <2>2, <2>3
    <2>5. \A c \in begun'.calls : c <= Calls + frames'
      BY <1>2, <1>3, Numbers DEF BooksInv, GoodBooks
    <2>6. frames' \in 0..MaxFrames
      BY <1>3
    <2> QED BY <1>1, <1>3, <2>1, <2>4, <2>5, <2>6 DEF BooksInv
  <1>5. ApartInv'
    BY <1>1, <1>2, <1>3, <1>6 DEF ApartInv, Apart
  <1> QED BY <1>4, <1>5

LEMMA BooksStart ==
    ASSUME TurnInit
    PROVE  BooksInv /\ ApartInv
  <1>1. turn.style \in Style /\ frames = 0 /\ begun.calls = {} /\ index = NewIndex /\ sources = [i \in Idx |-> {}]
    BY DEF TurnInit
  <1>2. /\ index \in Books /\ index.next = 0
        /\ \A c \in CallId : index.of[c] = Nowhere
        /\ \A i \in Idx : index.owner[i] = 0 /\ index.name[i] = 0
        /\ \A p \in 1..2 : index.last[p] = Nowhere
    BY <1>1 DEF NewIndex, Books
  <1>3. GoodBooks(index, begun.calls)
    BY <1>1, <1>2, Numbers DEF GoodBooks
  <1>4. BooksInv
    <2>1. 0 \in 0..Calls /\ {} \cap NativeCall = 1..0 /\ 0 \in 0..MaxFrames
      BY TurnAssumption
    <2>2. index.next <= 0 + frames
      BY <1>1, <1>2
    <2> QED BY <1>1, <1>3, <2>1, <2>2 DEF BooksInv
  <1>5. Apart(index, begun.calls, sources, begun.latest)
    <2>1. \A i \in Idx : ~ (i < index.next)
      BY <1>2, Numbers
    <2> QED BY <1>1, <1>2, <2>1 DEF Apart
  <1> QED BY <1>4, <1>5 DEF ApartInv

LEMMA BooksStep ==
    ASSUME BooksInv, ApartInv, [TurnNext]_turnVars
    PROVE  BooksInv' /\ ApartInv'
  <1> DEFINE Same == UNCHANGED <<turn, frames, begun, index, sources, tangled>>
  <1>1. ASSUME Same PROVE BooksInv' /\ ApartInv'
    BY <1>1 DEF BooksInv, ApartInv, GoodBooks, Apart
  <1>2. ASSUME NEW f, FrameArrives(f), f \in (IF turn.style = "text" THEN TextFrames ELSE CallFrames)
        PROVE  BooksInv' /\ ApartInv'
    <2>1. Booked(f) /\ frames < MaxFrames
      BY <1>2, FrameBooks
    <2>2. \/ SentOf(f) = <<>> /\ BooksOf(f) = index /\ NewCalls(f) = <<>>
          \/ \E e : OneEntry(f, e)
          \/ \E e, d : TwoEntries(f, e, d)
      BY <1>2, <2>1, FrameShapes
    <2> QED BY <2>1, <2>2, NothingBooked, OneBooked, TwoBooked
  <1>3. ASSUME NEW how, Ends(how) PROVE Same
    BY <1>3 DEF Ends
  <1>4. ASSUME NEW f, FrameRefused(f) PROVE Same
    BY <1>4 DEF FrameRefused, Ends
  <1>5. CASE turn.style = "text" /\ \E f \in TextFrames : Arrives(f)
    BY <1>1, <1>2, <1>4, <1>5 DEF Arrives
  <1>6. CASE turn.style # "text" /\ \E f \in CallFrames : Arrives(f)
    BY <1>1, <1>2, <1>4, <1>6 DEF Arrives
  <1>7. CASE DoneArrives
    BY <1>1, <1>7 DEF DoneArrives, Ends
  <1>8. CASE StreamCloses
    BY <1>1, <1>8 DEF StreamCloses, Ends
  <1>9. CASE TurnRefused
    BY <1>1, <1>9 DEF TurnRefused, Ends
  <1>10. CASE Breaks \/ Loops \/ EnvelopeTooLong
    BY <1>1, <1>10 DEF Breaks, Loops, EnvelopeTooLong, Ends
  <1>11. CASE UNCHANGED turnVars
    BY <1>1, <1>11 DEF turnVars
  <1> QED BY <1>5, <1>6, <1>7, <1>8, <1>9, <1>10, <1>11 DEF TurnNext

LEMMA ApartCallsStayApart ==
    ASSUME BooksInv, ApartInv
    PROVE  CallsStayApart
  <1> SUFFICES ASSUME ~ tangled
               PROVE  /\ \A i \in Idx : Cardinality(sources[i]) <= 1
                      /\ \A i, j \in Idx : i # j => sources[i] \cap sources[j] = {}
    BY DEF CallsStayApart
  <1>1. \A i \in Idx : sources[i] = IF i < index.next THEN {index.name[i]} ELSE {}
    BY DEF ApartInv, Apart
  <1>2. ASSUME NEW i \in Idx PROVE Cardinality(sources[i]) <= 1
    <2>1. Cardinality({index.name[i]}) = 1 /\ Cardinality({}) = 0
      BY FS_Singleton, FS_EmptySet
    <2> QED BY <1>1, <2>1
  <1>3. ASSUME NEW i \in Idx, NEW j \in Idx, i # j PROVE sources[i] \cap sources[j] = {}
    <2>1. CASE i < index.next /\ j < index.next
      <3>1. index.name[i] # index.name[j]
        BY <1>3, <2>1 DEF ApartInv, Apart
      <3>2. sources[i] = {index.name[i]} /\ sources[j] = {index.name[j]}
        BY <1>1, <2>1
      <3> QED BY <3>1, <3>2
    <2>2. CASE ~ (i < index.next /\ j < index.next)
      <3>1. sources[i] = {} \/ sources[j] = {}
        BY <1>1, <2>2
      <3> QED BY <3>1
    <2> QED BY <2>1, <2>2
  <1> QED BY <1>2, <1>3

\* No client "merges adjacent calls" (_normalize_native_stream_tool_calls):
\* in whatever style the provider numbers its calls, an index carries one call
\* and a call has one index, as long as parts without an id belong to the call
\* that was last.
THEOREM CallsKeepApart == TurnSpec => []CallsStayApart
  <1>1. TurnInit => BooksInv /\ ApartInv
    BY BooksStart
  <1>2. (BooksInv /\ ApartInv) /\ [TurnNext]_turnVars => (BooksInv /\ ApartInv)'
    BY BooksStep
  <1>3. BooksInv /\ ApartInv => CallsStayApart
    BY ApartCallsStayApart
  <1> QED BY <1>1, <1>2, <1>3, PTL DEF TurnSpec

(***************************************************************************)
(* The message of the translator: a tidy one has open text at its end only *)
(* and a block for each index of a set.                                    *)
(***************************************************************************)

BlockType == [call : Idx \cup {Nowhere}, open : BOOLEAN]
MessageType == [started : BOOLEAN, blocks : Seq(BlockType), reason : {"end_turn", "tool_use"}]

\* The calls of an Out have indexes, and may say which call they are.
SentCalls == [index : Idx, call : CallId] \cup [index : Idx]
Outs == [content : BOOLEAN, calls : Seq(SentCalls), finish : {"none", "stop", "tool_calls"}]

Indexes(calls) == {x.index : x \in Range(calls)}
AllIndexes(q) == UNION {Indexes(o.calls) : o \in Range(q)}
CallsOf(t) == {t.blocks[b].call : b \in DOMAIN t.blocks} \ {Nowhere}

\* J are the indexes that have blocks.
Shaped(t, J) ==
    /\ t \in MessageType /\ (~ t.started => t.blocks = <<>>)
    /\ OpenText(t) \subseteq {Len(t.blocks)}
    /\ CallsOf(t) = J

Tidy(t, J) == Shaped(t, J) /\ (t.reason = "tool_use" <=> J # {})

LEMMA AppendedBlock ==
    ASSUME NEW t \in MessageType, NEW b \in BlockType, NEW u, u = [t EXCEPT !.blocks = Append(@, b)]
    PROVE  /\ u \in MessageType /\ (t.started => u.started) /\ u.reason = t.reason
           /\ Len(t.blocks) \in Nat /\ Len(u.blocks) = Len(t.blocks) + 1
           /\ u.blocks[Len(u.blocks)] = b
           /\ CallsOf(u) = CallsOf(t) \cup ({b.call} \ {Nowhere})
           /\ OpenText(u) = OpenText(t) \cup (IF b = Block(Nowhere) THEN {Len(u.blocks)} ELSE {})
  <1> DEFINE q == t.blocks
             r == Append(q, b)
             l == Len(q)
  <1>1. q \in Seq(BlockType) /\ l \in Nat
    BY DEF MessageType
  <1>2. u.blocks = r /\ u.started = t.started /\ u.reason = t.reason /\ u = [t EXCEPT !.blocks = r]
    BY DEF MessageType
  <1> HIDE DEF q
  <1>3. /\ r \in Seq(BlockType) /\ Len(r) = l + 1 /\ r[l + 1] = b
        /\ \A i \in 1..l : r[i] = q[i]
    BY <1>1, AppendProperties
  <1>4. DOMAIN q = 1..l /\ DOMAIN r = (1..l) \cup {l + 1} /\ l + 1 \notin 1..l
    BY <1>1, <1>3
  <1> HIDE DEF r, l
  <1>5. u \in MessageType
    BY <1>2, <1>3 DEF MessageType
  <1>6. {r[i].call : i \in DOMAIN r} = {q[i].call : i \in DOMAIN q} \cup {b.call}
    BY <1>3, <1>4
  <1>7. {i \in DOMAIN r : r[i] = Block(Nowhere)}
          = {i \in DOMAIN q : q[i] = Block(Nowhere)} \cup (IF b = Block(Nowhere) THEN {l + 1} ELSE {})
    BY <1>3, <1>4
  <1>8. CallsOf(u) = CallsOf(t) \cup ({b.call} \ {Nowhere})
    BY <1>2, <1>6 DEF CallsOf, q
  <1>9. OpenText(u) = OpenText(t) \cup (IF b = Block(Nowhere) THEN {l + 1} ELSE {})
    BY <1>2, <1>7 DEF OpenText, q
  <1> QED BY <1>1, <1>2, <1>3, <1>5, <1>8, <1>9 DEF l, q

LEMMA BlockKinds ==
    /\ \A i \in Idx \cup {Nowhere} : Block(i) \in BlockType /\ Block(i).call = i
    /\ \A i \in Idx : Block(i) # Block(Nowhere)
  <1>1. \A i : Block(i).call = i
    BY DEF Block
  <1>2. \A i \in Idx \cup {Nowhere} : Block(i) \in BlockType
    BY DEF Block, BlockType
  <1> QED BY <1>1, <1>2, Numbers

LEMMA StartKeeps ==
    ASSUME NEW t, NEW J, Shaped(t, J), NEW out \in Outs
    PROVE  /\ Shaped(StartMessage(t, out), J) /\ StartMessage(t, out).started
           /\ StartMessage(t, out).reason = t.reason
  <1> DEFINE u == StartMessage(t, out)
  <1>1. CASE t.started
    BY <1>1 DEF StartMessage
  <1>2. CASE ~ t.started
    <2> DEFINE q == IF out.calls # <<>> /\ ~ out.content THEN <<>> ELSE <<Block(Nowhere)>>
    <2>1. t.blocks = <<>> /\ t \in MessageType /\ CallsOf(t) = J
      BY <1>2 DEF Shaped
    <2>2. u = [t EXCEPT !.started = TRUE, !.blocks = q]
      BY <1>2 DEF StartMessage
    <2>3. q = <<>> \/ q = <<Block(Nowhere)>>
      OBVIOUS
    <2> HIDE DEF q, u
    <2>4. u.started /\ u.blocks = q /\ u.reason = t.reason
      BY <2>1, <2>2 DEF MessageType
    <2>5. q \in Seq(BlockType)
      <3>1. <<>> \in Seq(BlockType)
        OBVIOUS
      <3>2. Block(Nowhere) \in BlockType
        BY BlockKinds
      <3>3. <<Block(Nowhere)>> \in Seq(BlockType)
        BY <3>2
      <3> QED BY <2>3, <3>1, <3>3
    <2>6. u \in MessageType
      BY <2>1, <2>2, <2>5 DEF MessageType
    <2>7. CallsOf(u) = {} /\ J = {}
      <3>1. J = {}
        BY <2>1 DEF CallsOf
      <3>2. CASE q = <<>>
        BY <2>4, <3>1, <3>2 DEF CallsOf
      <3>3. CASE q = <<Block(Nowhere)>>
        BY <2>4, <3>1, <3>3, BlockKinds DEF CallsOf
      <3> QED BY <2>3, <3>2, <3>3
    <2>8. OpenText(u) \subseteq {Len(u.blocks)}
      <3>1. OpenText(u) \subseteq DOMAIN q
        BY <2>4 DEF OpenText
      <3>2. CASE q = <<>>
        BY <3>1, <3>2
      <3>3. CASE q = <<Block(Nowhere)>>
        <4>1. Len(q) = 1 /\ DOMAIN q = {1}
          BY <3>3
        <4> QED BY <2>4, <3>1, <4>1
      <3> QED BY <2>3, <3>2, <3>3
    <2>9. Shaped(u, J)
      BY <2>4, <2>6, <2>7, <2>8 DEF Shaped
    <2> QED BY <2>4, <2>9 DEF u
  <1> QED BY <1>1, <1>2

LEMMA TextKeeps ==
    ASSUME NEW t, NEW J, Shaped(t, J), t.started, NEW out
    PROVE  /\ Shaped(AddText(t, out), J) /\ AddText(t, out).started
           /\ AddText(t, out).reason = t.reason
  <1> DEFINE u == [t EXCEPT !.blocks = Append(@, Block(Nowhere))]
  <1>1. CASE ~ out.content \/ OpenText(t) # {}
    BY <1>1 DEF AddText
  <1>2. CASE ~ (~ out.content \/ OpenText(t) # {})
    <2>1. AddText(t, out) = u /\ t \in MessageType /\ OpenText(t) = {} /\ CallsOf(t) = J
      BY <1>2 DEF AddText, Shaped
    <2> DEFINE b == Block(Nowhere)
    <2>2. b.call = Nowhere /\ b = Block(Nowhere)
      BY BlockKinds
    <2>5. b \in BlockType /\ u = [t EXCEPT !.blocks = Append(@, b)] /\ t \in MessageType
      BY BlockKinds DEF Shaped
    <2> HIDE DEF u, b
    <2>3. /\ u \in MessageType /\ u.started /\ u.reason = t.reason
          /\ CallsOf(u) = CallsOf(t) \cup ({b.call} \ {Nowhere})
          /\ OpenText(u) = OpenText(t) \cup (IF b = Block(Nowhere) THEN {Len(u.blocks)} ELSE {})
      BY <2>5, AppendedBlock
    <2>4. Shaped(u, J)
      BY <2>1, <2>2, <2>3 DEF Shaped
    <2> QED BY <2>1, <2>3, <2>4 DEF u
  <1> QED BY <1>1, <1>2

LEMMA StopKeeps ==
    ASSUME NEW t, NEW J, Shaped(t, J), t.started
    PROVE  /\ Shaped(StopText(t), J) /\ StopText(t).started
           /\ StopText(t).reason = t.reason /\ OpenText(StopText(t)) = {}
  <1> DEFINE q == t.blocks
             r == [b \in DOMAIN q |-> IF b \in OpenText(t) THEN [q[b] EXCEPT !.open = FALSE] ELSE q[b]]
             u == StopText(t)
  <1>1. t \in MessageType /\ q \in Seq(BlockType) /\ Len(q) \in Nat /\ DOMAIN q = 1..Len(q)
    BY DEF Shaped, MessageType
  <1>2. u = [t EXCEPT !.blocks = r]
    BY DEF StopText
  <1>3. ASSUME NEW b \in DOMAIN q
        PROVE  r[b] \in BlockType /\ r[b].call = q[b].call /\ r[b] # Block(Nowhere)
    <2>1. q[b] \in BlockType
      BY <1>1
    <2>2. CASE b \in OpenText(t)
      <3>1. r[b] = [q[b] EXCEPT !.open = FALSE]
        BY <2>2
      <3>2. r[b] \in BlockType /\ r[b].call = q[b].call /\ r[b].open = FALSE
        BY <2>1, <3>1 DEF BlockType
      <3>3. Block(Nowhere).open = TRUE
        BY DEF Block
      <3> QED BY <3>2, <3>3
    <2>3. CASE b \notin OpenText(t)
      BY <2>1, <2>3 DEF OpenText
    <2> QED BY <2>2, <2>3
  <1>4. DOMAIN r = DOMAIN q
    OBVIOUS
  <1>5. r \in [1..Len(q) -> BlockType]
    BY <1>1, <1>3
  <1> HIDE DEF r, q
  <1>6. r \in Seq(BlockType) /\ Len(r) = Len(q)
    BY <1>1, <1>5, SeqDef
  <1>7. u.blocks = r /\ u.started = t.started /\ u.reason = t.reason /\ u \in MessageType
    BY <1>1, <1>2, <1>6 DEF MessageType
  <1>8. CallsOf(u) = CallsOf(t)
    BY <1>3, <1>4, <1>7 DEF CallsOf, q
  <1>9. OpenText(u) = {}
    BY <1>3, <1>4, <1>7 DEF OpenText
  <1> HIDE DEF u
  <1>10. Shaped(u, J)
    BY <1>7, <1>8, <1>9 DEF Shaped
  <1> QED BY <1>7, <1>9, <1>10 DEF u

\* The sequence of values of the translator's folds.
LEMMA CallsRuns ==
    ASSUME NEW X, NEW t, NEW q \in Seq(X)
    PROVE  \E a : Runs("call", t, q, a) /\ FoldLeft(AddCall, t, q) = a[Len(q)]
  <1> DEFINE Rec(g) == [s \in SUBSET DOMAIN q |-> IF s = {} THEN t
                            ELSE LET x == Max(s) IN AddCall(g[s \ {x}], q[x])]
             it == CHOOSE g : g = Rec(g)
  <1>1. FoldLeft(AddCall, t, q) = it[DOMAIN q]
    BY DEF FoldLeft, MapThenFoldSet
  <1>2. \A g : IsFold("call", t, q, g) <=> g = Rec(g)
    <2>1. ASSUME NEW g PROVE Rec(g) = [s \in SUBSET DOMAIN q |-> Folded("call", t, q, g, s)]
      BY DEF Folded, FoldStep
    <2> QED BY <2>1 DEF IsFold
  <1> HIDE DEF Rec
  <1>3. IsFold("call", t, q, it)
    BY <1>2, FoldExists
  <1> HIDE DEF it
  <1> QED BY <1>1, <1>3, FoldRuns

LEMMA OutsRuns ==
    ASSUME NEW X, NEW t, NEW q \in Seq(X)
    PROVE  \E a : Runs("out", t, q, a) /\ FoldLeft(Translate, t, q) = a[Len(q)]
  <1> DEFINE Rec(g) == [s \in SUBSET DOMAIN q |-> IF s = {} THEN t
                            ELSE LET x == Max(s) IN Translate(g[s \ {x}], q[x])]
             it == CHOOSE g : g = Rec(g)
  <1>1. FoldLeft(Translate, t, q) = it[DOMAIN q]
    BY DEF FoldLeft, MapThenFoldSet
  <1>2. \A g : IsFold("out", t, q, g) <=> g = Rec(g)
    <2>1. ASSUME NEW g PROVE Rec(g) = [s \in SUBSET DOMAIN q |-> Folded("out", t, q, g, s)]
      BY DEF Folded, FoldStep
    <2> QED BY <2>1 DEF IsFold
  <1> HIDE DEF Rec
  <1>3. IsFold("out", t, q, it)
    BY <1>2, FoldExists
  <1> HIDE DEF it
  <1> QED BY <1>1, <1>3, FoldRuns

LEMMA CallKeeps ==
    ASSUME NEW t, NEW J, Shaped(t, J), t.started, OpenText(t) = {}, NEW call, call.index \in Idx
    PROVE  /\ Shaped(AddCall(t, call), J \cup {call.index}) /\ OpenText(AddCall(t, call)) = {}
           /\ AddCall(t, call).started /\ AddCall(t, call).reason = t.reason
  <1> DEFINE i == call.index
             b == Block(i)
             u == [t EXCEPT !.blocks = Append(@, b)]
  <1>1. t \in MessageType /\ CallsOf(t) = J /\ i # Nowhere
    BY Numbers DEF Shaped
  <1>2. CASE \E k \in DOMAIN t.blocks : t.blocks[k].call = call.index
    <2>1. AddCall(t, call) = t
      BY <1>2 DEF AddCall
    <2>2. i \in J
      BY <1>1, <1>2 DEF CallsOf
    <2>3. J \cup {call.index} = J
      BY <2>2
    <2> QED BY <2>1, <2>3
  <1>3. CASE ~ \E k \in DOMAIN t.blocks : t.blocks[k].call = call.index
    <2>1. AddCall(t, call) = u /\ u = [t EXCEPT !.blocks = Append(@, b)]
      BY <1>3 DEF AddCall
    <2>2. b \in BlockType /\ b.call = i /\ b # Block(Nowhere)
      BY BlockKinds
    <2> HIDE DEF u, b
    <2>3. /\ u \in MessageType /\ u.started /\ u.reason = t.reason
          /\ CallsOf(u) = CallsOf(t) \cup ({b.call} \ {Nowhere})
          /\ OpenText(u) = OpenText(t) \cup (IF b = Block(Nowhere) THEN {Len(u.blocks)} ELSE {})
      BY <1>1, <2>1, <2>2, AppendedBlock
    <2>4. OpenText(u) = {} /\ CallsOf(u) = J \cup {i}
      BY <1>1, <2>2, <2>3
    <2>6. Shaped(u, J \cup {i})
      BY <2>3, <2>4 DEF Shaped
    <2> QED BY <2>1, <2>3, <2>4, <2>6
  <1> QED BY <1>2, <1>3

LEMMA AllCallsKeep ==
    ASSUME NEW t, NEW J, Shaped(t, J), t.started, OpenText(t) = {}, NEW q \in Seq(SentCalls)
    PROVE  LET u == FoldLeft(AddCall, t, q)
           IN  Shaped(u, J \cup Indexes(q)) /\ u.started /\ OpenText(u) = {} /\ u.reason = t.reason
  <1>1. PICK a : Runs("call", t, q, a) /\ FoldLeft(AddCall, t, q) = a[Len(q)]
    BY CallsRuns
  <1> DEFINE To(n) == J \cup {q[x].index : x \in 1..n}
             Fine(n) == Shaped(a[n], To(n)) /\ a[n].started /\ OpenText(a[n]) = {} /\ a[n].reason = t.reason
             G == {n \in Nat : n <= Len(q) => Fine(n)}
  <1>2. Len(q) \in Nat /\ DOMAIN q = 1..Len(q) /\ \A n \in 1..Len(q) : q[n].index \in Idx
    BY DEF SentCalls
  <1>3. 0 \in G
    <2>1. a[0] = t /\ To(0) = J
      BY <1>1 DEF Runs
    <2> HIDE DEF To
    <2> QED BY <2>1
  <1> HIDE DEF Fine
  <1>4. ASSUME NEW n \in Nat, n \in G PROVE n + 1 \in G
    <2> SUFFICES ASSUME n + 1 <= Len(q) PROVE Fine(n + 1)
      OBVIOUS
    <2> DEFINE call == q[n + 1]
    <2>1. Fine(n) /\ n + 1 \in 1..Len(q) /\ (n + 1) - 1 = n
      <3>1. n <= Len(q) /\ n + 1 \in 1..Len(q) /\ (n + 1) - 1 = n
        BY <1>2
      <3> QED BY <1>4, <3>1
    <2>2. a[n + 1] = FoldStep("call", a[n], call)
      <3>1. a[n + 1] = FoldStep("call", a[(n + 1) - 1], q[n + 1])
        BY <1>1, <2>1 DEF Runs
      <3> QED BY <2>1, <3>1
    <2>3. a[n + 1] = AddCall(a[n], call) /\ call.index \in Idx
      BY <1>2, <2>1, <2>2 DEF FoldStep
    <2>4. To(n + 1) = To(n) \cup {call.index}
      <3>1. 1..(n + 1) = (1..n) \cup {n + 1}
        OBVIOUS
      <3> QED BY <3>1
    <2> HIDE DEF To, call
    <2>5. /\ Shaped(AddCall(a[n], call), To(n) \cup {call.index}) /\ OpenText(AddCall(a[n], call)) = {}
          /\ AddCall(a[n], call).started /\ AddCall(a[n], call).reason = a[n].reason
      BY <2>1, <2>3, CallKeeps DEF Fine
    <2> QED BY <2>1, <2>3, <2>4, <2>5 DEF Fine
  <1> HIDE DEF G
  <1>5. Len(q) \in G
    BY <1>2, <1>3, <1>4, Climb
  <1>6. Fine(Len(q))
    BY <1>2, <1>5 DEF G
  <1>7. To(Len(q)) = J \cup Indexes(q)
    BY <1>2 DEF Indexes, Range
  <1> HIDE DEF To
  <1> QED BY <1>1, <1>6, <1>7 DEF Fine

LEMMA OutKeeps ==
    ASSUME NEW t, NEW J, Shaped(t, J), NEW out \in Outs
    PROVE  LET u == Translate(t, out)
           IN  /\ Shaped(u, J \cup Indexes(out.calls))
               /\ u.reason = (IF out.finish # "none" THEN StopReason(out.finish)
                              ELSE IF out.calls # <<>> THEN "tool_use" ELSE t.reason)
  <1> DEFINE v == AddText(StartMessage(t, out), out)
             w == AddCalls(v, out)
             K == J \cup Indexes(out.calls)
  <1>1. Shaped(v, J) /\ v.started /\ v.reason = t.reason
    BY StartKeeps, TextKeeps
  <1> HIDE DEF v
  <1>2. Shaped(w, K) /\ w.reason = (IF out.calls # <<>> THEN "tool_use" ELSE t.reason)
    <2>1. CASE out.calls = <<>>
      <3>1. w = v /\ Indexes(out.calls) = {}
        BY <2>1 DEF AddCalls, Indexes, Range
      <3>2. K = J
        BY <3>1
      <3> HIDE DEF w, K
      <3> QED BY <1>1, <2>1, <3>1, <3>2
    <2>2. CASE out.calls # <<>>
      <3> DEFINE x == FoldLeft(AddCall, StopText(v), out.calls)
      <3>1. w = [x EXCEPT !.reason = "tool_use"]
        BY <2>2 DEF AddCalls
      <3>2. Shaped(StopText(v), J) /\ StopText(v).started /\ OpenText(StopText(v)) = {}
        BY <1>1, StopKeeps
      <3>3. out.calls \in Seq(SentCalls)
        BY DEF Outs
      <3>4. Shaped(x, K)
        BY <3>2, <3>3, AllCallsKeep
      <3> HIDE DEF x, w, K
      <3>5. /\ w \in MessageType /\ w.blocks = x.blocks /\ (w.started <=> x.started)
            /\ w.reason = "tool_use"
        BY <3>1, <3>4 DEF Shaped, MessageType
      <3>6. CallsOf(w) = CallsOf(x) /\ OpenText(w) = OpenText(x)
        BY <3>5 DEF CallsOf, OpenText
      <3>7. Shaped(w, K)
        BY <3>4, <3>5, <3>6 DEF Shaped
      <3> QED BY <2>2, <3>5, <3>7
    <2> QED BY <2>1, <2>2
  <1>3. Translate(t, out) = IF out.finish = "none" THEN w ELSE [w EXCEPT !.reason = StopReason(out.finish)]
    BY DEF Translate, w, v
  <1> HIDE DEF w, K
  <1>4. CASE out.finish = "none"
    BY <1>2, <1>3, <1>4 DEF K
  <1>5. CASE out.finish # "none"
    <2> DEFINE u == [w EXCEPT !.reason = StopReason(out.finish)]
    <2>1. StopReason(out.finish) \in {"end_turn", "tool_use"}
      BY DEF StopReason
    <2>2. /\ u \in MessageType /\ u.blocks = w.blocks /\ (u.started <=> w.started)
          /\ u.reason = StopReason(out.finish)
      BY <1>2, <2>1 DEF Shaped, MessageType
    <2>3. Translate(t, out) = u
      BY <1>3, <1>5
    <2> HIDE DEF u
    <2>4. CallsOf(u) = CallsOf(w) /\ OpenText(u) = OpenText(w)
      BY <2>2 DEF CallsOf, OpenText
    <2>5. Shaped(u, K)
      BY <1>2, <2>2, <2>4 DEF Shaped
    <2> QED BY <1>5, <2>2, <2>3, <2>5 DEF K
  <1> QED BY <1>4, <1>5

\* Outs that are sent for the calls I, J with those of theirs: a finish says
\* whether there is any.
Sendable(q, I, J) ==
    /\ q \in Seq(Outs) /\ J = I \cup AllIndexes(q)
    /\ \A o \in Range(q) : o.finish # "none" => (o.finish = "tool_calls" <=> J # {})

LEMMA OutsKeep ==
    ASSUME NEW t, NEW I, Tidy(t, I), NEW q, NEW J, Sendable(q, I, J)
    PROVE  Tidy(FoldLeft(Translate, t, q), J)
  <1>1. q \in Seq(Outs) /\ J = I \cup AllIndexes(q)
    BY DEF Sendable
  <1>2. PICK a : Runs("out", t, q, a) /\ FoldLeft(Translate, t, q) = a[Len(q)]
    BY <1>1, OutsRuns
  <1> DEFINE To(n) == I \cup UNION {Indexes(q[x].calls) : x \in 1..n}
             Fine(n) == /\ Shaped(a[n], To(n))
                        /\ a[n].reason = "tool_use" => J # {}
                        /\ To(n) # {} => a[n].reason = "tool_use"
             G == {n \in Nat : n <= Len(q) => Fine(n)}
  <1>3. /\ Len(q) \in Nat /\ DOMAIN q = 1..Len(q)
        /\ \A n \in 1..Len(q) : q[n] \in Outs /\ q[n] \in Range(q)
    BY <1>1 DEF Range
  <1>4. \A n \in 1..Len(q) : Indexes(q[n].calls) \subseteq J
    BY <1>1, <1>3 DEF AllIndexes
  <1>5. 0 \in G
    <2>1. a[0] = t /\ To(0) = I
      BY <1>2 DEF Runs
    <2>2. I \subseteq J
      BY <1>1
    <2> HIDE DEF To
    <2> QED BY <2>1, <2>2 DEF Tidy
  <1> HIDE DEF Fine
  <1>6. ASSUME NEW n \in Nat, n \in G PROVE n + 1 \in G
    <2> SUFFICES ASSUME n + 1 <= Len(q) PROVE Fine(n + 1)
      OBVIOUS
    <2> DEFINE out == q[n + 1]
    <2>1. Fine(n) /\ n + 1 \in 1..Len(q) /\ (n + 1) - 1 = n
      <3>1. n <= Len(q) /\ n + 1 \in 1..Len(q) /\ (n + 1) - 1 = n
        BY <1>3
      <3> QED BY <1>6, <3>1
    <2>2. a[n + 1] = FoldStep("out", a[n], out)
      <3>1. a[n + 1] = FoldStep("out", a[(n + 1) - 1], q[n + 1])
        BY <1>2, <2>1 DEF Runs
      <3> QED BY <2>1, <3>1
    <2>3. a[n + 1] = Translate(a[n], out) /\ out \in Outs /\ out \in Range(q) /\ Indexes(out.calls) \subseteq J
      BY <1>3, <1>4, <2>1, <2>2 DEF FoldStep
    <2>4. To(n + 1) = To(n) \cup Indexes(out.calls)
      <3>1. 1..(n + 1) = (1..n) \cup {n + 1}
        OBVIOUS
      <3> QED BY <3>1
    <2>5. To(n + 1) \subseteq J
      <3>1. \A x \in 1..(n + 1) : x \in 1..Len(q)
        BY <1>3, <2>1
      <3> QED BY <1>1, <1>4, <3>1
    <2> HIDE DEF To, out
    <2>6. /\ Shaped(a[n + 1], To(n + 1))
          /\ a[n + 1].reason = (IF out.finish # "none" THEN StopReason(out.finish)
                                ELSE IF out.calls # <<>> THEN "tool_use" ELSE a[n].reason)
      <3>1. Shaped(a[n], To(n))
        BY <2>1 DEF Fine
      <3>2. /\ Shaped(Translate(a[n], out), To(n) \cup Indexes(out.calls))
            /\ Translate(a[n], out).reason
                 = (IF out.finish # "none" THEN StopReason(out.finish)
                    ELSE IF out.calls # <<>> THEN "tool_use" ELSE a[n].reason)
        BY <2>3, <3>1, OutKeeps
      <3> QED BY <2>3, <2>4, <3>2
    <2>7. out.finish # "none" => (out.finish = "tool_calls" <=> J # {})
      BY <2>3 DEF Sendable
    <2>8. CASE out.finish # "none"
      BY <2>5, <2>6, <2>7, <2>8 DEF StopReason, Fine
    <2>9. CASE out.finish = "none" /\ out.calls = <<>>
      <3>1. Indexes(out.calls) = {}
        BY <2>9 DEF Indexes, Range
      <3> QED BY <2>1, <2>4, <2>6, <2>9, <3>1 DEF Fine
    <2>10. CASE out.finish = "none" /\ out.calls # <<>>
      <3>1. out.calls \in Seq(SentCalls)
        BY <2>3 DEF Outs
      <3>2. Indexes(out.calls) # {}
        <4>1. Len(out.calls) \in Nat /\ Len(out.calls) # 0 /\ DOMAIN out.calls = 1..Len(out.calls)
          BY <2>10, <3>1, EmptySeq
        <4>2. 1 \in DOMAIN out.calls
          BY <4>1
        <4> QED BY <4>2 DEF Indexes, Range
      <3>3. J # {}
        BY <2>3, <3>2
      <3> QED BY <2>6, <2>10, <3>3 DEF Fine
    <2> QED BY <2>8, <2>9, <2>10
  <1> HIDE DEF G
  <1>7. Len(q) \in G
    BY <1>3, <1>5, <1>6, Climb
  <1>8. Fine(Len(q))
    BY <1>3, <1>7 DEF G
  <1>9. To(Len(q)) = J
    <2>1. AllIndexes(q) = UNION {Indexes(q[x].calls) : x \in 1..Len(q)}
      BY <1>3 DEF AllIndexes, Range
    <2> QED BY <1>1, <2>1
  <1> HIDE DEF To
  <1> QED BY <1>2, <1>8, <1>9 DEF Fine, Tidy

\* Outs for the calls K that end the turn, if at all, with one reason.
Parts(q, K, why) ==
    /\ q \in Seq(Outs) /\ AllIndexes(q) = K
    /\ \A o \in Range(q) : o.finish \in {"none", why}

LEMMA NoParts == ASSUME NEW why PROVE Parts(<<>>, {}, why)
  <1>1. <<>> \in Seq(Outs) /\ Range(<<>>) = {}
    BY DEF Range
  <1> QED BY <1>1 DEF Parts, AllIndexes

LEMMA OnePart ==
    ASSUME NEW content \in BOOLEAN, NEW calls \in Seq(SentCalls), NEW why \in {"stop", "tool_calls"},
           NEW last \in {"none", why}
    PROVE  Parts(<<Out(content, calls, last)>>, Indexes(calls), why)
  <1> DEFINE o == Out(content, calls, last)
  <1>1. o \in Outs /\ o.calls = calls /\ o.finish = last
    BY DEF Out, Outs
  <1> HIDE DEF o
  <1>2. <<o>> \in Seq(Outs) /\ Range(<<o>>) = {o}
    BY <1>1 DEF Range
  <1>3. AllIndexes(<<o>>) = Indexes(calls)
    BY <1>1, <1>2 DEF AllIndexes
  <1>4. \A x \in Range(<<o>>) : x.finish \in {"none", why}
    BY <1>1, <1>2
  <1> QED BY <1>2, <1>3, <1>4 DEF Parts, o

LEMMA SilentPart ==
    ASSUME NEW content \in BOOLEAN, NEW why \in {"stop", "tool_calls"}, NEW last \in {"none", why}
    PROVE  Parts(<<Out(content, <<>>, last)>>, {}, why)
  <1>1. <<>> \in Seq(SentCalls) /\ Indexes(<<>>) = {}
    BY DEF Indexes, Range
  <1>2. Parts(<<Out(content, <<>>, last)>>, Indexes(<<>>), why)
    BY <1>1, OnePart
  <1> QED BY <1>1, <1>2

LEMMA JoinedParts ==
    ASSUME NEW why, NEW q, NEW K, Parts(q, K, why), NEW r, NEW L, Parts(r, L, why)
    PROVE  Parts(q \o r, K \cup L, why)
  <1>1. q \in Seq(Outs) /\ r \in Seq(Outs)
    BY DEF Parts
  <1>2. q \o r \in Seq(Outs) /\ Range(q \o r) = Range(q) \cup Range(r)
    BY <1>1, ConcatProperties, RangeConcatenation
  <1>3. AllIndexes(q \o r) = AllIndexes(q) \cup AllIndexes(r)
    BY <1>2 DEF AllIndexes
  <1> QED BY <1>2, <1>3 DEF Parts

LEMMA PartsAreSendable ==
    ASSUME NEW q, NEW K, NEW why, Parts(q, K, why), NEW I, NEW J, J = I \cup K,
           why = "tool_calls" <=> J # {}
    PROVE  Sendable(q, I, J)
  BY DEF Parts, Sendable

LEMMA SomeSequence ==
    ASSUME NEW S, IsFiniteSet(S)
    PROVE  SetToSeq(S) \in Seq(S)
  <1> DEFINE n == Cardinality(S)
  <1>1. n \in Nat /\ ExistsBijection(1..n, S)
    BY FS_CardinalityType
  <1> HIDE DEF n
  <1>2. PICK f : f \in Bijection(1..n, S)
    BY <1>1 DEF ExistsBijection
  <1>3. f \in [1..n -> S] /\ IsInjective(f)
    BY <1>2 DEF Bijection, Injection
  <1>4. SetToSeq(S) \in [1..n -> S]
    BY <1>3 DEF SetToSeq, n
  <1> QED BY <1>1, <1>4, SeqDef

\* The tails are of calls whose arguments are held.
LEMMA TailParts ==
    ASSUME NEW texts, NEW args \in SUBSET Idx, NEW why \in {"stop", "tool_calls"}
    PROVE  \E L \in SUBSET args : Parts(Tails(texts, args), L, why)
  <1> DEFINE S == {[index |-> i] : i \in args}
             a == IF texts["content"] = <<>> THEN <<>> ELSE <<Out(TRUE, <<>>, "none")>>
             b == IF args = {} THEN <<>> ELSE <<Out(FALSE, SetToSeq(S), "none")>>
  <1>1. IsFiniteSet(args)
    <2>1. IsFiniteSet(Idx)
      <3>1. 0 \in Int /\ Calls + MaxFrames - 1 \in Int
        BY Numbers
      <3>2. IsFiniteSet(0..(Calls + MaxFrames - 1))
        BY <3>1, FS_Interval
      <3> QED BY <3>2 DEF Idx
    <2> QED BY <2>1, FS_Subset
  <1>2. IsFiniteSet(S)
    <2> DEFINE g == [i \in args |-> [index |-> i]]
    <2>1. g \in Surjection(args, S)
      BY DEF Surjection
    <2> HIDE DEF g, S
    <2> QED BY <1>1, <2>1, FS_Surjection
  <1>3. SetToSeq(S) \in Seq(S) /\ S \subseteq SentCalls
    <2>1. S \subseteq SentCalls
      BY DEF SentCalls
    <2> HIDE DEF S
    <2> QED BY <1>2, <2>1, SomeSequence
  <1>4. SetToSeq(S) \in Seq(SentCalls) /\ Indexes(SetToSeq(S)) \subseteq args
    <2>1. Range(SetToSeq(S)) \subseteq S
      <3> HIDE DEF S
      <3> QED BY <1>3, RangeOfSeq
    <2>2. \A x \in S : x.index \in args
      OBVIOUS
    <2> HIDE DEF S
    <2>3. SetToSeq(S) \in Seq(SentCalls)
      BY <1>3, SeqMonotonic
    <2> QED BY <2>1, <2>2, <2>3 DEF Indexes
  <1>5. Parts(a, {}, why)
    BY NoParts, SilentPart
  <1> HIDE DEF S
  <1>6. PICK L \in SUBSET args : Parts(b, L, why)
    <2>1. CASE args = {}
      BY <2>1, NoParts
    <2>2. CASE args # {}
      <3>1. Parts(<<Out(FALSE, SetToSeq(S), "none")>>, Indexes(SetToSeq(S)), why)
        BY <1>4, OnePart
      <3> QED BY <1>4, <2>2, <3>1
    <2> QED BY <2>1, <2>2
  <1>7. Tails(texts, args) = a \o b
    BY DEF Tails, S
  <1> HIDE DEF a, b
  <1>8. Parts(a \o b, {} \cup L, why)
    BY <1>5, <1>6, JoinedParts
  <1>9. {} \cup L = L
    OBVIOUS
  <1> QED BY <1>7, <1>8, <1>9

(***************************************************************************)
(* The message of a turn has a block for each index that has been sent.    *)
(***************************************************************************)

Known == {i \in Idx : sources[i] # {}}

MessageInv ==
    /\ Tidy(message, Known)
    /\ heldArgs \subseteq Known
    /\ saw \in [opening : BOOLEAN, visible : BOOLEAN, call : BOOLEAN, done : BOOLEAN]
    /\ saw.call <=> Known # {}

\* What a frame sends has indexes, and it sends something if it has a call.
LEMMA FrameSends ==
    ASSUME BooksInv, ApartInv, frames < MaxFrames, NEW f,
           f \in TextFrames \/ (turn.style # "text" /\ f \in CallFrames)
    PROVE  /\ SentOf(f) \in Seq([index : Idx, call : CallId])
           /\ SentOf(f) # <<>> <=> f.entries # <<>> \/ Promoted(f)
  <1>1. \A i \in Idx : \A e : e.call \in CallId => Sent(i, e) \in [index : Idx, call : CallId]
    BY DEF Sent
  <1>2. NewCalls(f) = <<>> <=> ~ (f.entries # <<>> \/ Promoted(f))
    <2>1. CASE Promoted(f)
      BY <2>1 DEF NewCalls
    <2>2. CASE ~ Promoted(f)
      <3>1. f.entries = <<>> \/ (\E e : f.entries = <<e>>) \/ (\E e, d : f.entries = <<e, d>>)
        BY DEF TextFrames, CallFrames, TurnFrame, Entries
      <3>2. NewCalls(f) = [i \in DOMAIN f.entries |-> f.entries[i].call]
        BY <2>2 DEF NewCalls
      <3>3. CASE f.entries = <<>>
        BY <2>2, <3>2, <3>3
      <3>4. CASE (\E e : f.entries = <<e>>) \/ (\E e, d : f.entries = <<e, d>>)
        <4>1. 1 \in DOMAIN f.entries /\ f.entries # <<>>
          <5>1. /\ \A e : 1 \in DOMAIN <<e>> /\ <<e>> # <<>>
                /\ \A e, d : 1 \in DOMAIN <<e, d>> /\ <<e, d>> # <<>>
            OBVIOUS
          <5> QED BY <3>4, <5>1
        <4>2. 1 \in DOMAIN NewCalls(f)
          BY <3>2, <4>1
        <4> QED BY <4>1, <4>2
      <3> QED BY <3>1, <3>3, <3>4
    <2> QED BY <2>1, <2>2
  <1>3. CASE SentOf(f) = <<>> /\ BooksOf(f) = index /\ NewCalls(f) = <<>>
    BY <1>2, <1>3
  <1>4. ASSUME NEW e, OneEntry(f, e)
        PROVE  SentOf(f) \in Seq([index : Idx, call : CallId]) /\ SentOf(f) # <<>> /\ NewCalls(f) # <<>>
    <2>1. First1(e) \in Idx
      BY <1>4, EntryKeeps DEF OneEntry, HasRoom, First1, BooksInv
    <2>2. e.call \in CallId
      BY <1>4 DEF OneEntry, GoodEntry, BookedEntry
    <2>3. Sent(First1(e), e) \in [index : Idx, call : CallId]
      BY <1>1, <2>1, <2>2
    <2>4. SentOf(f) = <<Sent(First1(e), e)>> /\ NewCalls(f) = <<e.call>>
      BY <1>4 DEF OneEntry
    <2> QED BY <2>3, <2>4
  <1>5. ASSUME NEW e, NEW d, TwoEntries(f, e, d)
        PROVE  SentOf(f) \in Seq([index : Idx, call : CallId]) /\ SentOf(f) # <<>> /\ NewCalls(f) # <<>>
    <2>1. First1(e) \in Idx /\ Follows(After1(e), index, begun.calls, e, 1, First1(e))
      BY <1>5, EntryKeeps DEF TwoEntries, HasRoom, First1, After1, BooksInv
    <2>2. e.call \in CallId /\ d.call \in CallId
      BY <1>5 DEF TwoEntries, GoodEntry, BookedEntry
    <2>3. Then2(e, d) \in Idx
      <3> DEFINE m == After1(e)
                 C == begun.calls \cup {e.call}
                 i == First1(e)
      <3>1. GoodBooks(m, C) /\ m.last[1] # Nowhere
        BY <2>1, Numbers DEF Follows
      <3>2. GoodEntry(d, m, C) /\ HasRoom(d, m, C, 2) /\ 2 \in 1..2
        BY <1>5 DEF TwoEntries
      <3> HIDE DEF m, C, i
      <3>3. ChosenIndex(m, d, 2, {i}) \in Idx
        BY <3>1, <3>2, EntryKeeps DEF HasRoom
      <3> QED BY <3>3 DEF Then2, m, i
    <2>4. /\ Sent(First1(e), e) \in [index : Idx, call : CallId]
          /\ Sent(Then2(e, d), d) \in [index : Idx, call : CallId]
      BY <1>1, <2>1, <2>2, <2>3
    <2>5. SentOf(f) = <<Sent(First1(e), e), Sent(Then2(e, d), d)>> /\ NewCalls(f) = <<e.call, d.call>>
      BY <1>5 DEF TwoEntries
    <2> QED BY <2>4, <2>5
  <1>6. SentOf(f) \in Seq([index : Idx, call : CallId]) /\ (SentOf(f) # <<>> <=> NewCalls(f) # <<>>)
    <2>1. <<>> \in Seq([index : Idx, call : CallId])
      OBVIOUS
    <2> QED BY <1>3, <1>4, <1>5, <2>1, FrameShapes
  <1> QED BY <1>2, <1>6

LEMMA NativeIsSent ==
    ASSUME NEW f, f \in TextFrames \cup CallFrames
    PROVE  Range(Indexed(index, f.entries).sent) \subseteq Range(SentOf(f))
  <1> DEFINE native == Indexed(index, f.entries)
             none == <<>>
  <1>1. f.entries = <<>> \/ (\E e : f.entries = <<e>>) \/ (\E e, d : f.entries = <<e, d>>)
    BY DEF TextFrames, CallFrames, TurnFrame, Entries
  <1>2. CASE Promoted(f)
    <2>1. native.sent = <<>>
      BY <1>2, IndexedFew DEF Promoted
    <2> QED BY <2>1 DEF Range
  <1>3. CASE ~ Promoted(f)
    <2>1. \E X : native.sent \in Seq(X)
      <3>1. CASE f.entries = <<>>
        <4>1. native.sent = <<>>
          BY <3>1, IndexedFew
        <4>2. <<>> \in Seq({})
          OBVIOUS
        <4> QED BY <4>1, <4>2
      <3>2. CASE \E e : f.entries = <<e>>
        <4>1. PICK e : f.entries = <<e>>
          BY <3>2
        <4>2. native.sent = <<Sent(ChosenIndex(index, e, 1, {}), e)>>
          <5>1. Indexed(index, <<e>>) = [index |-> After1(e), sent |-> <<Sent(First1(e), e)>>]
            BY IndexedFew DEF First1, After1
          <5> QED BY <4>1, <5>1 DEF First1
        <4>3. \A x : <<x>> \in Seq({x})
          OBVIOUS
        <4> HIDE DEF native
        <4> QED BY <4>2, <4>3
      <3>3. CASE \E e, d : f.entries = <<e, d>>
        <4>1. PICK e, d : f.entries = <<e, d>>
          BY <3>3
        <4> DEFINE i == ChosenIndex(index, e, 1, {})
                   x == Sent(i, e)
                   y == Sent(ChosenIndex(Book(index, e, 1, i), d, 2, {i}), d)
        <4>2. native.sent = <<x, y>>
          <5>1. Indexed(index, <<e, d>>) = [index |-> After2(e, d), sent |-> <<x, y>>]
            BY IndexedFew DEF First1, After1, Then2, After2
          <5> QED BY <4>1, <5>1
        <4> HIDE DEF native, x, y
        <4>3. <<x, y>> \in Seq({x, y})
          OBVIOUS
        <4> QED BY <4>2, <4>3
      <3> QED BY <1>1, <3>1, <3>2, <3>3
    <2>2. SentOf(f) = native.sent \o <<>>
      <3>1. Indexed(native.index, <<>>).sent = <<>>
        BY IndexedFew
      <3> QED BY <1>3, <3>1 DEF SentOf
    <2>3. SentOf(f) = native.sent
      <3> HIDE DEF native
      <3> QED BY <2>1, <2>2, ConcatEmptySeq
    <2> QED BY <2>3
  <1> QED BY <1>2, <1>3

\* What a frame is sent as: its text, prose, its calls, and at the end the tails.
FrameOuts(silent, c, prose, sent, last, texts, args, why) ==
    (IF silent THEN <<>> ELSE <<Out(c, <<>>, "none")>>)
    \o (IF prose THEN <<Out(TRUE, <<>>, "none")>> ELSE <<>>)
    \o (IF sent = <<>> THEN <<>> ELSE <<Out(FALSE, sent, "none")>>)
    \o (IF last THEN Append(Tails(texts, args), Out(FALSE, <<>>, why)) ELSE <<>>)

LEMMA FrameParts ==
    ASSUME NEW sent \in Seq(SentCalls), NEW why \in {"stop", "tool_calls"}, NEW c \in BOOLEAN,
           NEW silent, NEW prose, NEW last, NEW texts, NEW args \in SUBSET Idx
    PROVE  \E L \in SUBSET args :
             Parts(FrameOuts(silent, c, prose, sent, last, texts, args, why), Indexes(sent) \cup L, why)
  <1> DEFINE q == IF silent THEN <<>> ELSE <<Out(c, <<>>, "none")>>
             r == IF prose THEN <<Out(TRUE, <<>>, "none")>> ELSE <<>>
             s == IF sent = <<>> THEN <<>> ELSE <<Out(FALSE, sent, "none")>>
             u == IF last THEN Append(Tails(texts, args), Out(FALSE, <<>>, why)) ELSE <<>>
  <1>1. Parts(q, {}, why) /\ Parts(r, {}, why)
    BY NoParts, SilentPart
  <1>2. Parts(s, Indexes(sent), why)
    <2>1. CASE sent = <<>>
      <3>1. Indexes(sent) = {}
        BY <2>1 DEF Indexes, Range
      <3> QED BY <2>1, <3>1, NoParts
    <2>2. CASE sent # <<>>
      BY <2>2, OnePart
    <2> QED BY <2>1, <2>2
  <1>3. \E L \in SUBSET args : Parts(u, L, why)
    <2>1. CASE ~ last
      BY <2>1, NoParts
    <2>2. CASE last
      <3> DEFINE o == Out(FALSE, <<>>, why)
                 v == Tails(texts, args)
      <3>1. PICK L \in SUBSET args : Parts(v, L, why)
        BY TailParts
      <3>2. Parts(<<o>>, {}, why)
        BY SilentPart
      <3>3. u = Append(v, o)
        BY <2>2
      <3> HIDE DEF u, v, o
      <3>4. o \in Outs /\ v \in Seq(Outs)
        BY <3>1, <3>2 DEF Parts
      <3>5. u = v \o <<o>>
        BY <3>3, <3>4, AppendIsConcat
      <3>6. Parts(u, L \cup {}, why)
        BY <3>1, <3>2, <3>5, JoinedParts
      <3>7. L \cup {} = L
        OBVIOUS
      <3> QED BY <3>6, <3>7
    <2> QED BY <2>1, <2>2
  <1> HIDE DEF q, r, s, u
  <1>4. PICK L \in SUBSET args : Parts(u, L, why)
    BY <1>3
  <1>5. Parts(q \o r, {} \cup {}, why)
    BY <1>1, JoinedParts
  <1>6. Parts((q \o r) \o s, ({} \cup {}) \cup Indexes(sent), why)
    BY <1>2, <1>5, JoinedParts
  <1>7. Parts(((q \o r) \o s) \o u, (({} \cup {}) \cup Indexes(sent)) \cup L, why)
    BY <1>4, <1>6, JoinedParts
  <1>8. (({} \cup {}) \cup Indexes(sent)) \cup L = Indexes(sent) \cup L
    OBVIOUS
  <1> QED BY <1>4, <1>7, <1>8 DEF FrameOuts, q, r, s, u

LEMMA FramesAreSendable ==
    ASSUME NEW sent \in Seq(SentCalls), NEW why \in {"stop", "tool_calls"}, NEW c \in BOOLEAN,
           NEW silent, NEW prose, NEW last, NEW texts, NEW args \in SUBSET Idx,
           NEW I, NEW J, J = I \cup Indexes(sent), args \subseteq J, why = "tool_calls" <=> J # {}
    PROVE  Sendable(FrameOuts(silent, c, prose, sent, last, texts, args, why), I, J)
  <1> DEFINE q == FrameOuts(silent, c, prose, sent, last, texts, args, why)
  <1>1. PICK L \in SUBSET args : Parts(q, Indexes(sent) \cup L, why)
    BY FrameParts
  <1>2. J = I \cup (Indexes(sent) \cup L)
    BY <1>1
  <1> HIDE DEF q
  <1>3. Sendable(q, I, J)
    BY <1>1, <1>2, PartsAreSendable
  <1> QED BY <1>3 DEF q

LEMMA KnownGrows ==
    ASSUME BooksInv, NEW sent \in Seq([index : Idx, call : CallId]), sources' = Under(sources, sent)
    PROVE  Known' = Known \cup Indexes(sent)
  <1>1. ASSUME NEW i \in Idx
        PROVE  sources'[i] # {} <=> sources[i] # {} \/ i \in Indexes(sent)
    <2>1. sources'[i] = sources[i] \cup {x.call : x \in {y \in Range(sent) : y.index = i}}
      BY DEF Under
    <2> QED BY <2>1 DEF Indexes
  <1>2. Indexes(sent) \subseteq Idx
    <2>1. Range(sent) \subseteq [index : Idx, call : CallId]
      BY RangeOfSeq
    <2> QED BY <2>1 DEF Indexes
  <1> QED BY <1>1, <1>2 DEF Known

LEMMA FrameMessage ==
    ASSUME BooksInv, ApartInv, MessageInv, NEW f, FrameArrives(f),
           f \in TextFrames \/ (turn.style # "text" /\ f \in CallFrames)
    PROVE  MessageInv'
  <1> DEFINE sent == SentOf(f)
             text == Feed(f, frames + 1)
             kept == [held EXCEPT ![f.channel] = text.keep]
             args == heldArgs \cup (IF turn.restoring THEN {x.index : x \in Range(Indexed(index, f.entries).sent)} ELSE {})
             tails == IF First(f) THEN TailsOf(kept) ELSE NoTexts
             why == FinishReason(SawCall(f))
             silent == text.send = <<>>
             c == f.channel = "content"
             last == First(f)
             outs(prose) == FrameOuts(silent, c, prose, sent, last, tails, args, why)
             showing(prose) == saw.visible \/ prose \/ (f.channel = "content" /\ text.send # <<>>)
  <1>1. /\ frames < MaxFrames
        /\ sources' = Under(sources, sent)
        /\ heldArgs' = IF First(f) THEN {} ELSE args
        /\ \E prose \in BOOLEAN :
             /\ message' = FoldLeft(Translate, message, outs(prose))
             /\ saw' = [saw EXCEPT !.opening = @ \/ Marked(f), !.visible = showing(prose), !.call = SawCall(f)]
    BY DEF FrameArrives, Receive, SentOf, FrameOuts
  <1> HIDE DEF outs, showing
  <1>2. PICK prose \in BOOLEAN :
             /\ message' = FoldLeft(Translate, message, outs(prose))
             /\ saw' = [saw EXCEPT !.opening = @ \/ Marked(f), !.visible = showing(prose), !.call = SawCall(f)]
    BY <1>1
  <1>3. sent \in Seq([index : Idx, call : CallId]) /\ (sent # <<>> <=> f.entries # <<>> \/ Promoted(f))
    BY <1>1, FrameSends
  <1>4. Known' = Known \cup Indexes(sent)
    <2> HIDE DEF sent
    <2> QED BY <1>1, <1>3, KnownGrows
  <1>5. args \subseteq Known'
    <2>1. Range(Indexed(index, f.entries).sent) \subseteq Range(sent)
      BY NativeIsSent
    <2>2. {x.index : x \in Range(Indexed(index, f.entries).sent)} \subseteq Indexes(sent)
      <3> HIDE DEF sent
      <3> QED BY <2>1 DEF Indexes
    <2> HIDE DEF sent
    <2> QED BY <1>4, <2>2 DEF MessageInv
  <1>6. Indexes(sent) # {} <=> sent # <<>>
    <2> HIDE DEF sent
    <2>1. CASE sent = <<>>
      BY <2>1 DEF Indexes, Range
    <2>2. CASE sent # <<>>
      <3>1. Len(sent) \in Nat /\ Len(sent) # 0 /\ DOMAIN sent = 1..Len(sent)
        BY <1>3, <2>2, EmptySeq
      <3>2. 1 \in DOMAIN sent
        BY <3>1
      <3> QED BY <2>2, <3>2 DEF Indexes, Range
    <2> QED BY <2>1, <2>2
  <1>7. SawCall(f) \in BOOLEAN /\ (SawCall(f) <=> Known' # {})
    <2>1. saw.call \in BOOLEAN /\ (saw.call <=> Known # {})
      BY DEF MessageInv
    <2> QED BY <1>3, <1>4, <1>6, <2>1 DEF SawCall
  <1>8. /\ why \in {"stop", "tool_calls"} /\ (why = "tool_calls" <=> Known' # {})
    BY <1>7 DEF FinishReason
  <1>9. /\ silent \in BOOLEAN /\ c \in BOOLEAN /\ last \in BOOLEAN /\ args \in SUBSET Idx
        /\ sent \in Seq(SentCalls)
    <2>1. silent \in BOOLEAN /\ c \in BOOLEAN
      OBVIOUS
    <2>2. last \in BOOLEAN
      BY DEF First, TextFrames, CallFrames, TurnFrame
    <2>3. args \in SUBSET Idx
      <3> HIDE DEF args
      <3> QED BY <1>5 DEF Known
    <2>4. sent \in Seq(SentCalls)
      <3>1. [index : Idx, call : CallId] \subseteq SentCalls
        BY DEF SentCalls
      <3> HIDE DEF sent
      <3> QED BY <1>3, <3>1, SeqMonotonic
    <2> QED BY <2>1, <2>2, <2>3, <2>4
  <1> HIDE DEF silent, c, last, args, sent, tails, why
  <1>13. Sendable(outs(prose), Known, Known')
    BY <1>4, <1>5, <1>8, <1>9, FramesAreSendable DEF outs
  <1>14. Tidy(message', Known')
    BY <1>2, <1>13, OutsKeep DEF MessageInv
  <1>15. heldArgs' \subseteq Known'
    BY <1>1, <1>5
  <1>16. /\ saw' \in [opening : BOOLEAN, visible : BOOLEAN, call : BOOLEAN, done : BOOLEAN]
         /\ saw'.call = SawCall(f)
    <2>1. showing(prose) \in BOOLEAN
      BY DEF showing
    <2>2. saw \in [opening : BOOLEAN, visible : BOOLEAN, call : BOOLEAN, done : BOOLEAN]
      BY DEF MessageInv
    <2>3. (saw.opening \/ Marked(f)) \in BOOLEAN
      OBVIOUS
    <2> QED BY <1>2, <1>7, <2>1, <2>2, <2>3
  <1>17. (Tidy(message, Known))'
    BY <1>14 DEF Tidy, Shaped, CallsOf, OpenText
  <1> QED BY <1>7, <1>15, <1>16, <1>17 DEF MessageInv

LEMMA FlushKeeps ==
    ASSUME MessageInv, NEW last \in BOOLEAN, Flush(last)
    PROVE  Tidy(message', Known) /\ heldArgs' = {}
  <1> DEFINE why == FinishReason(saw.call)
             u == Tails(TailsOf(held), heldArgs)
             v == IF last THEN <<Out(FALSE, <<>>, why)>> ELSE <<>>
  <1>1. message' = FoldLeft(Translate, message, u \o v) /\ heldArgs' = {}
    BY DEF Flush
  <1>2. why \in {"stop", "tool_calls"} /\ (why = "tool_calls" <=> Known # {})
    BY DEF MessageInv, FinishReason
  <1> HIDE DEF why
  <1>3. heldArgs \in SUBSET Idx /\ heldArgs \subseteq Known /\ Tidy(message, Known)
    BY DEF MessageInv, Known
  <1>4. PICK L \in SUBSET heldArgs : Parts(u, L, why)
    BY <1>2, <1>3, TailParts
  <1>5. Parts(v, {}, why)
    BY <1>2, NoParts, SilentPart
  <1> HIDE DEF u, v
  <1>6. Parts(u \o v, L \cup {}, why)
    BY <1>4, <1>5, JoinedParts
  <1>7. Known = Known \cup (L \cup {})
    BY <1>3
  <1>8. Sendable(u \o v, Known, Known)
    BY <1>2, <1>6, <1>7, PartsAreSendable
  <1> QED BY <1>1, <1>3, <1>8, OutsKeep

LEMMA MessageStep ==
    ASSUME BooksInv, ApartInv, MessageInv, [TurnNext]_turnVars
    PROVE  MessageInv'
  <1>1. ASSUME UNCHANGED <<message, heldArgs, saw, sources>> PROVE MessageInv'
    BY <1>1 DEF MessageInv, Tidy, Shaped, CallsOf, OpenText, Known
  <1>2. ASSUME NEW last \in BOOLEAN, Flush(last), UNCHANGED sources,
               saw' \in [opening : BOOLEAN, visible : BOOLEAN, call : BOOLEAN, done : BOOLEAN],
               saw'.call = saw.call
        PROVE  MessageInv'
    <2>1. Tidy(message', Known) /\ heldArgs' = {}
      BY <1>2, FlushKeeps
    <2>2. Known' = Known
      BY <1>2 DEF Known
    <2>3. (Tidy(message, Known))'
      BY <2>1, <2>2 DEF Tidy, Shaped, CallsOf, OpenText
    <2> QED BY <1>2, <2>1, <2>2, <2>3 DEF MessageInv
  <1>3. ASSUME NEW f, FrameRefused(f) PROVE MessageInv'
    BY <1>1, <1>3 DEF FrameRefused, Ends, Untouched
  <1>4. CASE turn.style = "text" /\ \E f \in TextFrames : Arrives(f)
    BY <1>3, <1>4, FrameMessage DEF Arrives
  <1>5. CASE turn.style # "text" /\ \E f \in CallFrames : Arrives(f)
    BY <1>3, <1>5, FrameMessage DEF Arrives
  <1>6. CASE DoneArrives
    <2> DEFINE last == EndRefused = "none" /\ finish = "none"
    <2>1. Flush(last) /\ saw' = [saw EXCEPT !.done = TRUE] /\ UNCHANGED sources
      BY <1>6 DEF DoneArrives, Ends
    <2>2. saw \in [opening : BOOLEAN, visible : BOOLEAN, call : BOOLEAN, done : BOOLEAN]
      BY DEF MessageInv
    <2>3. /\ saw' \in [opening : BOOLEAN, visible : BOOLEAN, call : BOOLEAN, done : BOOLEAN]
          /\ saw'.call = saw.call
      BY <2>1, <2>2
    <2>4. last \in BOOLEAN
      OBVIOUS
    <2> HIDE DEF last
    <2> QED BY <1>2, <2>1, <2>3, <2>4
  <1>7. CASE StreamCloses
    <2> DEFINE last == finish = "none"
    <2>1. Flush(last) /\ saw' = saw /\ UNCHANGED sources
      BY <1>7 DEF StreamCloses, Ends
    <2>2. saw \in [opening : BOOLEAN, visible : BOOLEAN, call : BOOLEAN, done : BOOLEAN]
      BY DEF MessageInv
    <2>3. last \in BOOLEAN
      OBVIOUS
    <2> HIDE DEF last
    <2> QED BY <1>2, <2>1, <2>2, <2>3
  <1>8. CASE TurnRefused
    BY <1>1, <1>8 DEF TurnRefused, Ends, Untouched
  <1>9. CASE Breaks \/ Loops \/ EnvelopeTooLong
    BY <1>1, <1>9 DEF Breaks, Loops, EnvelopeTooLong, Ends, Untouched
  <1>10. CASE UNCHANGED turnVars
    BY <1>1, <1>10 DEF turnVars
  <1> QED BY <1>4, <1>5, <1>6, <1>7, <1>8, <1>9, <1>10 DEF TurnNext

LEMMA MessageStart ==
    ASSUME TurnInit
    PROVE  MessageInv
  <1>1. /\ message = NewMessage /\ heldArgs = {} /\ sources = [i \in Idx |-> {}]
        /\ saw = [opening |-> FALSE, visible |-> FALSE, call |-> FALSE, done |-> FALSE]
    BY DEF TurnInit
  <1>2. Known = {}
    BY <1>1 DEF Known
  <1>3. /\ message.blocks = <<>> /\ message.reason = "end_turn" /\ message \in MessageType
    BY <1>1 DEF NewMessage, MessageType
  <1>4. OpenText(message) = {} /\ CallsOf(message) = {}
    BY <1>3 DEF OpenText, CallsOf
  <1>5. Tidy(message, Known)
    BY <1>2, <1>3, <1>4 DEF Tidy, Shaped
  <1> QED BY <1>1, <1>2, <1>5 DEF MessageInv

\* Text blocks close before a tool's begins, the message has a block for each
\* index that was sent and no other, and it stops for its tools if it has any.
THEOREM BlocksKeepUp == TurnSpec => []BlocksFollowTheTurn
  <1> DEFINE Inv == BooksInv /\ ApartInv /\ MessageInv
  <1>1. TurnInit => Inv
    BY BooksStart, MessageStart
  <1>2. Inv /\ [TurnNext]_turnVars => Inv'
    BY BooksStep, MessageStep
  <1>3. Inv => BlocksFollowTheTurn
    BY DEF MessageInv, Tidy, Shaped, CallsOf, Known, BlocksFollowTheTurn
  <1> QED BY <1>1, <1>2, <1>3, PTL DEF TurnSpec
=============================================================================
