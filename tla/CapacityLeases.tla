--------------------------- MODULE CapacityLeases ---------------------------
(***************************************************************************)
(* The capacity gate of PassthroughClient.chat: a process admits a bounded *)
(* number of concurrent calls per provider group (provider_usage.py), and  *)
(* passthrough.py takes a lease before it calls the provider and releases  *)
(* it on the ways out: a process-backed adapter, a streamed HTTP response  *)
(* and a whole one.                                                        *)
(*                                                                         *)
(* All of it runs on the event loop of one process; a step ends where the  *)
(* code awaits.  A call is cancelled when its attempt times out or when    *)
(* its client leaves.                                                      *)
(***************************************************************************)
EXTENDS Integers, FiniteSets

CONSTANTS
    Call,       \* calls of the process, each made once
    Group,      \* capacity groups
    Ungrouped,  \* stands for the group of a route that has none
    GroupOf,    \* capacity_group_for_route of each call
    Limit       \* capacity_limit of each group; 0 is unlimited

ASSUME GroupAssumption == Ungrouped \notin Group /\ IsFiniteSet(Call)
ASSUME GroupOfAssumption == GroupOf \in [Call -> Group \cup {Ungrouped}]
ASSUME LimitAssumption == Limit \in [Group -> Nat]

VARIABLES
    active,     \* CapacityController._active
    lease,      \* CapacityLease of each call
    quarantined,\* groups with a cooldown that is active
    at,         \* where each call is
    abandoned   \* history: cancelled before its stream was handed over

leaseVars == <<active, lease, quarantined, at, abandoned>>

Transport == {"adapter", "stream", "whole"}
\* Awaiting, in order: adapter.chat, the response headers, the first events,
\* the record of a failure, the body of a whole response; a stream that the
\* caller has but is not reading, one it is reading, one that is closing.
Place == {"new", "adapter", "headers", "prefetch", "recording", "whole",
          "handed", "reading", "closing", "ended"}
Talking == {"adapter", "headers", "prefetch", "whole", "handed", "reading"}

GroupsOf(c) == {GroupOf[c]} \cap Group
Counted(c) == \E g \in GroupsOf(c) : Limit[g] > 0

\* Fault: release does not remember that it ran.
ReleaseAgain(c) ==
    /\ active' = [g \in Group |->
          IF g \in GroupsOf(c) /\ active[g] > 0 THEN active[g] - 1 ELSE active[g]]
    /\ lease' = [lease EXCEPT ![c] = "released"]

\* CapacityLease.release; of a lease that is none or was released it does
\* nothing, so that a stream, its guard and its finalizer may each call it.
Release(c) ==
    /\ lease' = [lease EXCEPT ![c] = IF @ = "held" THEN "released" ELSE @]
    /\ active' = [g \in Group |->
          IF g \in GroupsOf(c) /\ lease[c] = "held" /\ Counted(c)
          THEN IF active[g] <= 1 THEN 0 ELSE active[g] - 1
          ELSE active[g]]

Keep == UNCHANGED <<active, lease>>
Go(c, place) == at' = [at EXCEPT ![c] = place]
End(c) == Go(c, "ended")
SameQuarantine == UNCHANGED quarantined
NotAbandoned == UNCHANGED abandoned

\* _quarantine_capacity_failure: the group of the route, or the one that the
\* error's text names.
MayQuarantine == \E G \in {{}} \cup {{g} : g \in Group} : quarantined' = quarantined \cup G

\* Where chat() waits first, by the transport of the route.
Waits(t) == CASE t = "adapter" -> "adapter" [] t = "stream" -> "headers" [] t = "whole" -> "whole"

-----------------------------------------------------------------------------
(* _reserve_capacity                                                         *)

Full(g) == Limit[g] > 0 /\ active[g] >= Limit[g]

ReserveNothing(c, t) ==
    /\ at[c] = "new" /\ GroupsOf(c) = {}
    /\ Go(c, Waits(t))
    /\ Keep /\ SameQuarantine /\ NotAbandoned

\* A group under quarantine rejects; so does a full one, which then sends the
\* calls that follow elsewhere for a moment.
Reject(c) ==
    /\ at[c] = "new"
    /\ \E g \in GroupsOf(c) :
         /\ g \in quarantined \/ Full(g)
         /\ quarantined' = quarantined \cup {g}
    /\ End(c)
    /\ Keep /\ NotAbandoned

Reserve(c, t) ==
    /\ at[c] = "new"
    /\ \E g \in GroupsOf(c) :
         /\ g \notin quarantined /\ ~ Full(g)
         /\ active' = IF Limit[g] = 0 THEN active ELSE [active EXCEPT ![g] = @ + 1]
         /\ lease' = [lease EXCEPT ![c] = "held"]
    /\ Go(c, Waits(t))
    /\ SameQuarantine /\ NotAbandoned

-----------------------------------------------------------------------------
(* The three transports.                                                     *)

AdapterStreams(c) ==
    at[c] = "adapter" /\ Go(c, "handed") /\ Keep /\ SameQuarantine /\ NotAbandoned

\* A whole answer, an error or a cancellation.
AdapterEnds(c) ==
    at[c] = "adapter" /\ Release(c) /\ End(c) /\ SameQuarantine /\ NotAbandoned

\* `finally` covers the whole response, its errors and its cancellation.
WholeEnds(c) ==
    at[c] = "whole" /\ Release(c) /\ End(c) /\ MayQuarantine /\ NotAbandoned

\* A request that fails gives the slot back, and then records its failure.
RequestFails(c) ==
    at[c] = "headers" /\ Release(c) /\ Go(c, "recording") /\ SameQuarantine /\ NotAbandoned

HeadersArrive(c) ==
    at[c] = "headers" /\ Go(c, "prefetch") /\ Keep /\ SameQuarantine /\ NotAbandoned

PrefetchRateLimited(c) ==
    at[c] = "prefetch" /\ Release(c) /\ End(c) /\ SameQuarantine /\ NotAbandoned

\* A prefetch that fails does it the other way round.
PrefetchFails(c) ==
    at[c] = "prefetch" /\ Go(c, "recording") /\ Keep /\ SameQuarantine /\ NotAbandoned

FailureRecorded(c) ==
    at[c] = "recording" /\ Release(c) /\ End(c) /\ MayQuarantine /\ NotAbandoned

PrefetchSucceeds(c) ==
    at[c] = "prefetch" /\ Go(c, "handed") /\ Keep /\ SameQuarantine /\ NotAbandoned

\* Up to here `except Exception` is all that releases, and a CancelledError
\* is none.
CancelBeforeHandOver(c) ==
    /\ at[c] \in {"headers", "prefetch", "recording"}
    /\ End(c)
    /\ abandoned' = abandoned \cup {c}
    /\ Keep /\ SameQuarantine

-----------------------------------------------------------------------------
(* A stream in the hands of its caller: _LeaseGuardedStream around either    *)
(* the adapter's iterator or _stream_events.                                 *)

ReadOn(c) ==
    at[c] = "handed" /\ Go(c, "reading") /\ Keep /\ SameQuarantine /\ NotAbandoned

Frame(c) ==
    at[c] = "reading" /\ Go(c, "handed") /\ Keep /\ SameQuarantine /\ NotAbandoned

\* It is exhausted, fails or is cancelled: _stream_events releases, and the
\* guard after it.
StreamEnds(c) ==
    at[c] = "reading" /\ Release(c) /\ Go(c, "closing") /\ MayQuarantine /\ NotAbandoned

\* aclose() gives the slot back first and closes the wrapped stream then.
CloseStream(c) ==
    at[c] = "handed" /\ Release(c) /\ Go(c, "closing") /\ SameQuarantine /\ NotAbandoned

\* The finalizer of a stream that nobody closes.
DropStream(c) ==
    at[c] = "handed" /\ Release(c) /\ Go(c, "closing") /\ SameQuarantine /\ NotAbandoned

\* The wrapped stream's own `finally`.
WrappedCloses(c) ==
    at[c] = "closing" /\ Release(c) /\ End(c) /\ SameQuarantine /\ NotAbandoned

QuarantineEnds(g) ==
    /\ g \in quarantined
    /\ quarantined' = quarantined \ {g}
    /\ UNCHANGED <<active, lease, at, abandoned>>

-----------------------------------------------------------------------------
LeaseInit ==
    /\ active = [g \in Group |-> 0]
    /\ lease = [c \in Call |-> "none"]
    /\ quarantined = {}
    /\ at = [c \in Call |-> "new"]
    /\ abandoned = {}

CallSteps(c) ==
    \/ \E t \in Transport : ReserveNothing(c, t) \/ Reserve(c, t)
    \/ Reject(c)
    \/ AdapterStreams(c) \/ AdapterEnds(c)
    \/ WholeEnds(c)
    \/ RequestFails(c) \/ HeadersArrive(c)
    \/ PrefetchRateLimited(c) \/ PrefetchFails(c) \/ PrefetchSucceeds(c)
    \/ FailureRecorded(c) \/ CancelBeforeHandOver(c)
    \/ ReadOn(c) \/ Frame(c) \/ StreamEnds(c)
    \/ CloseStream(c) \/ DropStream(c) \/ WrappedCloses(c)

LeaseNext == (\E c \in Call : CallSteps(c)) \/ (\E g \in Group : QuarantineEnds(g))

LeaseSpec == LeaseInit /\ [][LeaseNext]_leaseVars

-----------------------------------------------------------------------------
LeaseTypeOK ==
    /\ active \in [Group -> 0..Cardinality(Call)]
    /\ lease \in [Call -> {"none", "held", "released"}]
    /\ quarantined \subseteq Group
    /\ at \in [Call -> Place]
    /\ abandoned \subseteq Call

Bounded == {g \in Group : Limit[g] > 0}

\* The bounded groups are pools of slots: a lease takes one and gives it back
\* once, whichever of the stream, its guard and its finalizer releases first
\* (provider_usage.py CapacityLease, CapacityController).
Slots == INSTANCE CapacitySlots
    WITH Bounded <- Bounded, Holder <- Call, Bound <- Limit,
         used <- [g \in Bounded |-> active[g]],
         holders <- [g \in Bounded |->
                        {c \in Call : GroupOf[c] = g /\ lease[c] = "held"}]
LeasesAreSlots == Slots!SlotsSpec

\* A slot is held from the call of the provider to the end of its response,
\* whole or streamed (docs/gateway-model-routing.md, "Process-backed CLI
\* capacity gate"), and a call that is over holds none, unless it was cancelled
\* between the request and the hand-over of its stream (_lease_released_stream,
\* _guard_stream_lease, the `finally` and `except` clauses of chat).
SlotsFollowCalls ==
    \A c \in Call :
        /\ at[c] \in Talking /\ GroupsOf(c) # {} => lease[c] = "held"
        /\ at[c] = "ended" /\ c \notin abandoned => lease[c] # "held"

\* tests/test_provider_usage.py:318 says that no slot stays taken for the life
\* of the process.
NoSlotIsStranded == \A c \in Call : at[c] = "ended" => lease[c] # "held"
=============================================================================
