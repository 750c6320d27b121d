----------------------------- MODULE Maintenance -----------------------------
(***************************************************************************)
(* The scheduler of the background probes (maintenance.py,                 *)
(* qualification_maintenance_loop): one task that sleeps until the next of *)
(* three cadences and runs the cycles that are due, one after another.     *)
(* What a cycle does is in Qualification.                                  *)
(*                                                                         *)
(* The clocks count what is left of them.                                  *)
(***************************************************************************)
EXTENDS Integers, FiniteSets

CONSTANTS
    Enabled,   \* of {"modality", "composite"}
    Initial,   \* the initial delays of all three, by cycle
    Every,     \* their intervals
    Pools,     \* number of pools in the rotation
    Longest    \* bound on the time that a cycle takes

Optional == {"modality", "composite"}
Cycle == {"tools"} \cup Optional

\* With a longer interval for the tools than for the modality probes the loop
\* wakes for these, starts the tools' delay anew, and never gets to them.
ASSUME MaintenanceAssumption ==
    /\ Enabled \subseteq Optional /\ Pools \in Nat \ {0} /\ Longest \in Nat
    /\ Initial \in [Cycle -> Nat] /\ Every \in [Cycle -> Nat \ {0}]
    /\ "modality" \in Enabled => Every["tools"] < Every["modality"]

VARIABLES
    state,     \* "plans", "sleeps", "works", "stopped"
    first,     \* first_cycle
    left,      \* until the next modality and composite cycles
    sleep,     \* until the loop wakes
    toolDue,   \* tool_due
    duties,    \* the cycles it has still to run
    pool       \* pool_index

loopVars == <<state, first, left, sleep, toolDue, duties, pool>>

Earlier(t, d) == IF t > d THEN t - d ELSE 0
Pass(d) == left' = [c \in Optional |-> Earlier(left[c], d)]

ToolDelay == IF first THEN Initial["tools"] ELSE Every["tools"]
Delays == {ToolDelay} \cup {left[c] : c \in Enabled}

\* The loop takes its delay, and with it what it will do about the tools.
Plan ==
    /\ state = "plans" /\ state' = "sleeps" /\ first' = FALSE
    /\ sleep' \in Delays /\ \A d \in Delays : sleep' <= d
    /\ toolDue' = ("modality" \in Enabled => ToolDelay <= left["modality"])
    /\ UNCHANGED <<left, duties, pool>>

Sleeps ==
    /\ state = "sleeps" /\ sleep > 0
    /\ sleep' = sleep - 1 /\ Pass(1)
    /\ UNCHANGED <<state, first, toolDue, duties, pool>>

Wake ==
    /\ state = "sleeps" /\ sleep = 0 /\ state' = "works"
    /\ duties' = {c \in Enabled : left[c] = 0} \cup (IF toolDue THEN {"tools"} ELSE {})
    /\ UNCHANGED <<first, left, sleep, toolDue, pool>>

\* A cycle that fails is written down; the structured probes follow the tools'.
RunTools(d) ==
    /\ state = "works" /\ "tools" \in duties
    /\ duties' = duties \ {"tools"} /\ pool' = (pool + 1) % Pools /\ Pass(d)
    /\ UNCHANGED <<state, first, sleep, toolDue>>

\* Fault: a cycle that fails is not scheduled anew.
RescheduleWhenDone(c, d, ok) ==
    left' = [[o \in Optional |-> Earlier(left[o], d)] EXCEPT ![c] = IF ok THEN Every[c] ELSE @]

Reschedule(c, d, ok) ==
    left' = [[o \in Optional |-> Earlier(left[o], d)] EXCEPT ![c] = Every[c]]

RunComposite(d, ok) ==
    /\ state = "works" /\ "tools" \notin duties /\ "composite" \in duties
    /\ duties' = duties \ {"composite"} /\ Reschedule("composite", d, ok)
    /\ UNCHANGED <<state, first, sleep, toolDue, pool>>

RunModality(d, ok) ==
    /\ state = "works" /\ duties = {"modality"}
    /\ duties' = {} /\ Reschedule("modality", d, ok)
    /\ UNCHANGED <<state, first, sleep, toolDue, pool>>

Again ==
    /\ state = "works" /\ duties = {} /\ state' = "plans"
    /\ UNCHANGED <<first, left, sleep, toolDue, duties, pool>>

\* The event of the shutdown is seen before a delay, in it and after the duties.
Stop ==
    /\ state = "sleeps" \/ (state = "works" /\ duties = {})
    /\ state' = "stopped"
    /\ UNCHANGED <<first, left, sleep, toolDue, duties, pool>>

LoopInit ==
    /\ state = "plans" /\ first = TRUE /\ left = [c \in Optional |-> Initial[c]]
    /\ sleep = 0 /\ toolDue = FALSE /\ duties = {} /\ pool = 0

LoopSteps ==
    \/ Plan \/ Sleeps \/ Wake \/ Again
    \/ \E d \in 0 .. Longest :
          \/ RunTools(d)
          \/ \E ok \in BOOLEAN : RunComposite(d, ok) \/ RunModality(d, ok)

LoopNext == LoopSteps \/ Stop

LoopSpec == LoopInit /\ [][LoopNext]_loopVars /\ WF_loopVars(LoopSteps)

-----------------------------------------------------------------------------
LoopTypeOK ==
    /\ state \in {"plans", "sleeps", "works", "stopped"} /\ first \in BOOLEAN
    /\ left \in [Optional -> Nat] /\ sleep \in Nat /\ toolDue \in BOOLEAN
    /\ duties \subseteq Cycle /\ pool \in 0 .. Pools - 1

\* Until the gateway stops every pool gets its tool probes again and again, and
\* so do the other cycles, whatever fails and however long it takes
\* (maintenance.py:423, :689).
NoCycleStarves ==
    /\ \A n \in 0 .. Pools - 1 : []<>(state = "stopped" \/ (pool = n /\ "tools" \in duties))
    /\ \A c \in Enabled : []<>(state = "stopped" \/ c \in duties)

\* maintenance.py:599: "The tool cycle is due only when we just woke from the tool
\* cadence".  A composite cycle that wakes the loop first brings it forward.
ToolsKeepTheirCadence ==
    [][state = "plans" /\ toolDue' => sleep' = ToolDelay]_loopVars
=============================================================================
