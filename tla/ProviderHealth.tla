--------------------------- MODULE ProviderHealth ---------------------------
(***************************************************************************)
(* What a gateway process knows of one provider's health: cooldown         *)
(* windows of its models, of all of it and of its capacity group, its run  *)
(* of failures and the models that are gone for good (cooldown.py), with   *)
(* the mirror of the windows in a database that other processes share      *)
(* (persistent_cooldown.py) and the calls that report outcomes             *)
(* (passthrough.py, endpoints.py).                                         *)
(*                                                                         *)
(* A window is the time that is left of it, 0 when it is over.  A write to *)
(* the database may fail, and the code carries on without it.              *)
(***************************************************************************)
EXTENDS Integers

CONSTANTS
    Model,      \* models of the provider; none is "provider" or "group"
    Longest     \* bound on a window

ASSUME ModelAssumption == Model \cap {"provider", "group"} = {}
ASSUME LongestAssumption == Longest \in Nat \ {0}

VARIABLES
    scoped,     \* the provider is in MODEL_SCOPED_COOLDOWN_PROVIDERS
    memory,     \* windows in CooldownTracker
    stored,     \* windows in the tables
    failures,   \* _recent_failures, reset at the third
    gone,       \* PERMANENTLY_FAILED_MODELS of the process
    goneStored, \* rows of permanent_failures and the time left of them
    up,         \* the process runs
    owed        \* history: windows this process was told and could store

healthVars == <<scoped, memory, stored, failures, gone, goneStored, up, owed>>

Shared == {"provider", "group"}
Scope == Shared \cup Model
Window == 0..Longest

Longer(a, b) == IF a >= b THEN a ELSE b

\* What a call is told: windows, 0 where there is none.
Of(scopes, secs) == [s \in Scope |-> IF s \in scopes THEN secs ELSE 0]
And(a, b) == [s \in Scope |-> Longer(a[s], b[s])]

\* Fault: a shared window is overwritten as a model's is.
SetLast(windows, told) == [s \in Scope |-> IF told[s] = 0 THEN windows[s] ELSE told[s]]

\* The last word of a model's window stands, the longest of a shared one
\* (CooldownTracker.cooldown and cooldown_group, and the upserts alike).
Set(windows, told) ==
    [s \in Scope |-> IF told[s] = 0 THEN windows[s]
                     ELSE IF s \in Shared THEN Longer(windows[s], told[s]) ELSE told[s]]

\* The scopes that a cooldown of one model sets, in memory and in the tables.
ScopesOf(m) == {m} \cup (IF scoped THEN {} ELSE {"provider"})

\* Windows go to memory, and to the tables unless those fail; the group's has
\* a connection of its own.
Writes(told) == {S \in {{"group"}, Scope \ {"group"}} : \E s \in S : told[s] > 0}
Tell(told) ==
    /\ memory' = Set(memory, told)
    /\ \E lost \in SUBSET Writes(told) :
         LET kept == [s \in Scope |-> IF s \in UNION lost THEN 0 ELSE told[s]]
         IN /\ stored' = Set(stored, kept)
            /\ owed' = [s \in Shared |-> Longer(owed[s], kept[s])]

\* record_failure: the third of a run cools the provider.
CountFailure == failures' = (failures + 1) % 3

Third == failures = 2

SameGone == UNCHANGED <<gone, goneStored>>
Running == UNCHANGED <<scoped, up>>

Mark(m) == gone' = gone \cup {m}
MarkStored(m) ==
    /\ Mark(m)
    /\ \/ goneStored' = [goneStored EXCEPT ![m] = Longest]
       \/ UNCHANGED goneStored

-----------------------------------------------------------------------------
(* Outcomes.                                                                 *)

\* A 429, or an answer that the endpoint quarantines (an unusable tool call,
\* a reasoning loop).
CoolModel(m, secs) ==
    /\ up
    /\ Tell(Of(ScopesOf(m), secs))
    /\ UNCHANGED failures /\ SameGone /\ Running

\* The third failure of a run cools the provider; an error that speaks of
\* capacity quarantines the group.
ThirdStrike == Of(IF Third THEN {"provider"} ELSE {}, Longest)
NoCapacity(full) == Of(IF full THEN {"group"} ELSE {}, Longest)

\* A stream that fails with a 5xx, a timeout, a lost connection or a quota
\* cools its model and counts.
StreamFails(m, secs, full) ==
    /\ up
    /\ CountFailure
    /\ Tell(And(NoCapacity(full), And(Of(ScopesOf(m), secs), ThirdStrike)))
    /\ SameGone /\ Running

\* Another error of a stream does not count; 404, 410 and a withdrawn model
\* mark it.
StreamRefused(m, isGone, full) ==
    /\ up
    /\ Tell(NoCapacity(full))
    /\ IF isGone THEN MarkStored(m) ELSE SameGone
    /\ UNCHANGED failures /\ Running

\* Every error of a whole response counts, and none cools its model.
ResponseFails(m, isGone, full) ==
    /\ up
    /\ CountFailure
    /\ Tell(And(NoCapacity(full), ThirdStrike))
    /\ IF isGone THEN MarkStored(m) ELSE SameGone
    /\ Running

\* The endpoint marks those, 401 and 403 in memory only.
EndpointMarks(m) ==
    /\ up
    /\ Mark(m)
    /\ UNCHANGED <<memory, stored, owed, failures, goneStored>> /\ Running

\* This process is full itself (_reserve_capacity): in memory only.
Busy(secs) ==
    /\ up
    /\ memory' = Set(memory, Of({"group"}, secs))
    /\ UNCHANGED <<stored, owed, failures>> /\ SameGone /\ Running

\* A response that ends well clears the run of failures; the endpoint clears
\* the marker of a model that answers.
Completed ==
    /\ up
    /\ failures' = 0
    /\ UNCHANGED <<memory, stored, owed>> /\ SameGone /\ Running
Answered(m) ==
    /\ up
    /\ gone' = gone \ {m}
    /\ UNCHANGED <<memory, stored, owed, failures, goneStored>> /\ Running

-----------------------------------------------------------------------------
(* The store, the start of a process and time.                               *)

\* hydrate, hydrate_providers and, when the pools are built, hydrate_groups:
\* what is left of each row is told to an empty tracker; a model's row counts
\* for the provider too unless it is scoped.
Rehydrated ==
    LET ofModels == {0} \cup {stored[m] : m \in IF scoped THEN {} ELSE Model}
        longest == CHOOSE w \in ofModels : \A v \in ofModels : v <= w
    IN [s \in Scope |-> IF s = "provider" THEN Longer(stored[s], longest) ELSE stored[s]]

\* A marker that is hydrated has no end, whatever its row says.
Start ==
    /\ ~ up
    /\ up' = TRUE
    /\ memory' = Rehydrated
    /\ gone' = {m \in Model : goneStored[m] > 0}
    /\ UNCHANGED <<scoped, stored, failures, goneStored, owed>>

\* A rebuild of the pools reads the groups again.
RebuildPools ==
    /\ up
    /\ memory' = Set(memory, Of({"group"}, stored["group"]))
    /\ UNCHANGED <<stored, owed, failures>> /\ SameGone /\ Running

Stop ==
    /\ up
    /\ up' = FALSE
    /\ memory' = [s \in Scope |-> 0]
    /\ failures' = 0
    /\ gone' = {}
    /\ UNCHANGED <<scoped, stored, goneStored, owed>>

\* Another process stores a window or a marker of its own.
OtherStores(scopes, secs) ==
    /\ stored' = Set(stored, Of(scopes, secs))
    /\ UNCHANGED <<memory, owed, failures>> /\ SameGone /\ Running
OtherMarks(m) ==
    /\ goneStored' = [goneStored EXCEPT ![m] = Longest]
    /\ UNCHANGED <<memory, stored, owed, failures, gone>> /\ Running

Passed(windows) == [s \in DOMAIN windows |-> IF windows[s] = 0 THEN 0 ELSE windows[s] - 1]

\* Rows that are over count as purged.
HealthTick ==
    /\ memory' = Passed(memory) /\ stored' = Passed(stored)
    /\ goneStored' = Passed(goneStored) /\ owed' = Passed(owed)
    /\ UNCHANGED <<failures, gone>> /\ Running

-----------------------------------------------------------------------------
HealthInit ==
    /\ scoped \in BOOLEAN
    /\ memory = [s \in Scope |-> 0]
    /\ stored = [s \in Scope |-> 0]
    /\ failures = 0
    /\ gone = {}
    /\ goneStored = [m \in Model |-> 0]
    /\ up = FALSE
    /\ owed = [s \in Shared |-> 0]

HealthNext ==
    \/ \E secs \in 1..Longest :
         \/ \E m \in Model : \/ CoolModel(m, secs)
                            \/ \E full \in BOOLEAN : StreamFails(m, secs, full)
                            \/ OtherStores(ScopesOf(m), secs)
         \/ Busy(secs)
         \/ \E s \in Shared : OtherStores({s}, secs)
    \/ \E m \in Model :
         \/ \E isGone, full \in BOOLEAN :
              StreamRefused(m, isGone, full) \/ ResponseFails(m, isGone, full)
         \/ EndpointMarks(m) \/ Answered(m) \/ OtherMarks(m)
    \/ Completed \/ Start \/ RebuildPools \/ Stop \/ HealthTick

HealthSpec == HealthInit /\ [][HealthNext]_healthVars

-----------------------------------------------------------------------------
HealthTypeOK ==
    /\ scoped \in BOOLEAN /\ up \in BOOLEAN
    /\ memory \in [Scope -> Window] /\ stored \in [Scope -> Window]
    /\ failures \in 0..2
    /\ gone \subseteq Model /\ goneStored \in [Model -> Window]
    /\ owed \in [Shared -> Window]

\* CooldownTracker.is_cooldown
InCooldown(m) == \E s \in {m} \cup Shared : memory[s] > 0

\* A window of the provider or of its group that the process was told and
\* stored keeps every model out until it is over: no later, shorter answer,
\* no restart and no other process's write ends it (cooldown.py, "Keep the
\* longest active provider-wide window"; persistent_cooldown.py,
\* "_upsert_provider").
SharedWindowsAreServed ==
    up => \A s \in Shared : /\ memory[s] >= owed[s]
                            /\ owed[s] > 0 => \A m \in Model : InCooldown(m)
=============================================================================
