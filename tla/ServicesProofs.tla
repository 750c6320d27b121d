--------------------------- MODULE ServicesProofs ---------------------------
(***************************************************************************)
(* What the services around a request guarantee for any calls, windows,    *)
(* approvals and events: the capacity gate and the pools of slots that it  *)
(* implements, the cooldown windows that are served, the approvals that    *)
(* end with their lifetimes, and the audit log whose chain verifies.       *)
(*                                                                         *)
(* The four share no state; each part has its own specification.           *)
(***************************************************************************)
EXTENDS CapacityLeases, ProviderHealth, Approvals, AuditLog,
        FiniteSetTheorems, SequenceTheorems, TLAPS

(***************************************************************************)
(* CapacityLeases: a call holds its slot from the request to the end of its *)
(* response and no longer, and the counters of the bounded groups behave as *)
(* the abstract pools of slots that CapacitySlots describes.               *)
(***************************************************************************)

HoldersOf(g) == {c \in Call : GroupOf[c] = g /\ lease[c] = "held"}

\* The types without the bound of the counters, which follows from SlotCount.
PlainTypes ==
    /\ active \in [Group -> Nat]
    /\ lease \in [Call -> {"none", "held", "released"}]
    /\ quarantined \subseteq Group
    /\ at \in [Call -> Place]
    /\ abandoned \subseteq Call

\* A counter counts the leases that are held; without a limit nothing counts.
SlotCount ==
    \A g \in Group :
        active[g] = IF Limit[g] > 0 THEN Cardinality(HoldersOf(g)) ELSE 0

\* A call that has not begun has no lease, and only grouped calls get one.
NewIsFree ==
    \A c \in Call : /\ at[c] = "new" => lease[c] = "none"
                    /\ lease[c] = "held" => GroupsOf(c) # {}

LeaseInv == PlainTypes /\ SlotCount /\ NewIsFree /\ SlotsFollowCalls

LEMMA HoldersAreFinite ==
    ASSUME NEW g
    PROVE  /\ IsFiniteSet(HoldersOf(g))
           /\ Cardinality(HoldersOf(g)) \in Nat
           /\ Cardinality(HoldersOf(g)) <= Cardinality(Call)
  <1>1. HoldersOf(g) \in SUBSET Call
    BY DEF HoldersOf
  <1> QED BY <1>1, GroupAssumption, FS_Subset, FS_CardinalityType DEF GroupAssumption

\* What a call does to the counters and its lease, whatever step it takes.
LEMMA StepEffects ==
    ASSUME NEW c \in Call, CallSteps(c)
    PROVE  \/ UNCHANGED <<active, lease>>
           \/ Release(c)
           \/ \E t \in Transport : Reserve(c, t)
  <1>1. CASE \E t \in Transport : ReserveNothing(c, t) \/ Reserve(c, t)
    BY <1>1 DEF ReserveNothing, Keep
  <1>2. CASE Reject(c) \/ AdapterStreams(c) \/ HeadersArrive(c) \/ PrefetchFails(c)
             \/ PrefetchSucceeds(c) \/ CancelBeforeHandOver(c) \/ ReadOn(c) \/ Frame(c)
    BY <1>2 DEF Reject, AdapterStreams, HeadersArrive, PrefetchFails, PrefetchSucceeds,
                CancelBeforeHandOver, ReadOn, Frame, Keep
  <1>3. CASE AdapterEnds(c) \/ WholeEnds(c) \/ RequestFails(c) \/ PrefetchRateLimited(c)
             \/ FailureRecorded(c) \/ StreamEnds(c) \/ CloseStream(c) \/ DropStream(c)
             \/ WrappedCloses(c)
    BY <1>3 DEF AdapterEnds, WholeEnds, RequestFails, PrefetchRateLimited,
                FailureRecorded, StreamEnds, CloseStream, DropStream, WrappedCloses
  <1> QED BY <1>1, <1>2, <1>3 DEF CallSteps

\* A release ends the lease that is held, and no other.
LEMMA ReleaseEndsLease ==
    ASSUME PlainTypes, NEW c \in Call, Release(c)
    PROVE  /\ lease' \in [Call -> {"none", "held", "released"}]
           /\ lease'[c] # "held"
           /\ \A d \in Call \ {c} : lease'[d] = lease[d]
           /\ lease[c] # "held" => lease' = lease
  BY DEF PlainTypes, Release

\* The counter of a bounded group follows its holders through a release ...
LEMMA ReleaseCounts ==
    ASSUME PlainTypes, SlotCount, NewIsFree, NEW c \in Call, Release(c), NEW g \in Group
    PROVE  /\ active'[g] \in Nat
           /\ active'[g] = IF Limit[g] > 0 THEN Cardinality(HoldersOf(g)') ELSE 0
           /\ HoldersOf(g)' = HoldersOf(g) \ {c}
           /\ c \in HoldersOf(g) /\ Limit[g] > 0 => active'[g] = active[g] - 1
  <1>1. HoldersOf(g)' = HoldersOf(g) \ {c}
    BY ReleaseEndsLease DEF HoldersOf
  <1>2. /\ IsFiniteSet(HoldersOf(g))
        /\ Cardinality(HoldersOf(g)) \in Nat
        /\ c \in HoldersOf(g) => Cardinality(HoldersOf(g)) >= 1
        /\ Cardinality(HoldersOf(g) \ {c}) =
              IF c \in HoldersOf(g) THEN Cardinality(HoldersOf(g)) - 1
                                    ELSE Cardinality(HoldersOf(g))
    <2>1. IsFiniteSet(HoldersOf(g)) /\ Cardinality(HoldersOf(g)) \in Nat
      BY HoldersAreFinite
    <2>2. c \in HoldersOf(g) => Cardinality(HoldersOf(g)) # 0
      <3>1. Cardinality(HoldersOf(g)) = 0 <=> HoldersOf(g) = {}
        BY <2>1, FS_EmptySet
      <3> QED BY <3>1
    <2>3. c \in HoldersOf(g) => Cardinality(HoldersOf(g)) >= 1
      BY <2>1, <2>2
    <2> QED BY <2>1, <2>3, FS_RemoveElement
  <1>3. active'[g] = IF g \in GroupsOf(c) /\ lease[c] = "held" /\ Counted(c)
                     THEN IF active[g] <= 1 THEN 0 ELSE active[g] - 1
                     ELSE active[g]
    BY DEF Release
  <1>4. c \in HoldersOf(g) <=> g \in GroupsOf(c) /\ lease[c] = "held"
    BY DEF HoldersOf, GroupsOf
  <1>5. g \in GroupsOf(c) => (Counted(c) <=> Limit[g] > 0)
    BY DEF Counted, GroupsOf
  <1>6. Limit[g] \in Nat
    BY LimitAssumption DEF LimitAssumption
  <1>7. active[g] = IF Limit[g] > 0 THEN Cardinality(HoldersOf(g)) ELSE 0
    BY DEF SlotCount
  <1>8. CASE c \in HoldersOf(g) /\ Limit[g] > 0
    BY <1>8, <1>1, <1>2, <1>3, <1>4, <1>5, <1>7
  <1>9. CASE ~ (c \in HoldersOf(g) /\ Limit[g] > 0)
    <2>1. active'[g] = active[g]
      BY <1>9, <1>3, <1>4, <1>5
    <2> QED BY <2>1, <1>9, <1>1, <1>2, <1>6, <1>7
  <1> QED BY <1>8, <1>9, <1>1

\* ... and through a reservation, which finds a slot free.
LEMMA ReserveCounts ==
    ASSUME PlainTypes, SlotCount, NewIsFree,
           NEW c \in Call, NEW t \in Transport, Reserve(c, t), NEW g \in Group
    PROVE  /\ active'[g] \in Nat
           /\ active'[g] = IF Limit[g] > 0 THEN Cardinality(HoldersOf(g)') ELSE 0
           /\ lease' = [lease EXCEPT ![c] = "held"]
           /\ lease[c] = "none"
           /\ GroupOf[c] = g => /\ c \notin HoldersOf(g)
                                /\ HoldersOf(g)' = HoldersOf(g) \cup {c}
                                /\ Limit[g] > 0 => active[g] < Limit[g]
                                /\ Limit[g] > 0 => active'[g] = active[g] + 1
           /\ GroupOf[c] # g => HoldersOf(g)' = HoldersOf(g) /\ active'[g] = active[g]
  <1>1. PICK h \in GroupsOf(c) :
           /\ ~ Full(h)
           /\ active' = IF Limit[h] = 0 THEN active ELSE [active EXCEPT ![h] = @ + 1]
           /\ lease' = [lease EXCEPT ![c] = "held"]
    BY DEF Reserve
  <1>2. h = GroupOf[c] /\ h \in Group
    BY DEF GroupsOf
  <1>3. lease[c] = "none"
    BY DEF Reserve, NewIsFree
  <1>4. Limit[g] \in Nat /\ active[g] \in Nat
    BY LimitAssumption DEF LimitAssumption, PlainTypes
  <1>5. active[g] = IF Limit[g] > 0 THEN Cardinality(HoldersOf(g)) ELSE 0
    BY DEF SlotCount
  <1>6. CASE GroupOf[c] = g
    <2>1. c \notin HoldersOf(g) /\ HoldersOf(g)' = HoldersOf(g) \cup {c}
      BY <1>1, <1>3, <1>6 DEF HoldersOf, PlainTypes
    <2>2. Cardinality(HoldersOf(g)') = Cardinality(HoldersOf(g)) + 1
      BY <2>1, HoldersAreFinite, FS_AddElement
    <2>3. active'[g] = IF Limit[g] = 0 THEN active[g] ELSE active[g] + 1
      BY <1>1, <1>2, <1>6 DEF PlainTypes
    <2>4. Limit[g] > 0 => active[g] < Limit[g]
      BY <1>1, <1>2, <1>4, <1>6 DEF Full
    <2> QED BY <2>1, <2>2, <2>3, <2>4, <1>1, <1>3, <1>4, <1>5, <1>6
  <1>7. CASE GroupOf[c] # g
    <2>1. HoldersOf(g)' = HoldersOf(g)
      BY <1>1, <1>7 DEF HoldersOf, PlainTypes
    <2>2. active'[g] = active[g]
      BY <1>1, <1>2, <1>7 DEF PlainTypes
    <2> QED BY <2>1, <2>2, <1>1, <1>3, <1>4, <1>5, <1>7
  <1> QED BY <1>6, <1>7

\* The types and the count survive every step of a call.
LEMMA CallKeepsCount ==
    ASSUME PlainTypes, SlotCount, NewIsFree, NEW c \in Call, CallSteps(c)
    PROVE  PlainTypes' /\ SlotCount'
  <1>1. quarantined' \subseteq Group /\ at' \in [Call -> Place] /\ abandoned' \subseteq Call
    <2> USE DEF PlainTypes, Go, End, SameQuarantine, NotAbandoned, MayQuarantine, Place
    <2>1. CASE \E t \in Transport : ReserveNothing(c, t) \/ Reserve(c, t)
      BY <2>1 DEF ReserveNothing, Reserve, Waits, Transport
    <2>2. CASE Reject(c)
      <3>1. quarantined' \subseteq Group
        BY <2>2 DEF Reject, GroupsOf
      <3> QED BY <3>1, <2>2 DEF Reject
    <2>3. CASE AdapterStreams(c) \/ AdapterEnds(c) \/ WholeEnds(c)
      BY <2>3 DEF AdapterStreams, AdapterEnds, WholeEnds
    <2>4. CASE RequestFails(c) \/ HeadersArrive(c) \/ PrefetchRateLimited(c)
               \/ PrefetchFails(c) \/ PrefetchSucceeds(c)
      BY <2>4 DEF RequestFails, HeadersArrive, PrefetchRateLimited, PrefetchFails,
                  PrefetchSucceeds
    <2>5. CASE FailureRecorded(c) \/ CancelBeforeHandOver(c) \/ ReadOn(c) \/ Frame(c)
      BY <2>5 DEF FailureRecorded, CancelBeforeHandOver, ReadOn, Frame
    <2>6. CASE StreamEnds(c) \/ CloseStream(c) \/ DropStream(c) \/ WrappedCloses(c)
      BY <2>6 DEF StreamEnds, CloseStream, DropStream, WrappedCloses
    <2> QED BY <2>1, <2>2, <2>3, <2>4, <2>5, <2>6 DEF CallSteps
  <1>2. CASE UNCHANGED <<active, lease>>
    <2>1. \A g : HoldersOf(g)' = HoldersOf(g)
      BY <1>2 DEF HoldersOf
    <2> QED BY <1>1, <1>2, <2>1 DEF PlainTypes, SlotCount
  <1>3. CASE Release(c)
    <2>1. \A g \in Group : /\ active'[g] \in Nat
                           /\ active'[g] = IF Limit[g] > 0 THEN Cardinality(HoldersOf(g)') ELSE 0
      BY <1>3, ReleaseCounts
    <2>2. active' = [g \in Group |-> active'[g]]
      BY <1>3 DEF Release
    <2>3. active' \in [Group -> Nat]
      BY <2>1, <2>2
    <2>4. lease' \in [Call -> {"none", "held", "released"}]
      BY <1>3, ReleaseEndsLease
    <2> QED BY <1>1, <2>1, <2>3, <2>4 DEF PlainTypes, SlotCount
  <1>4. CASE \E t \in Transport : Reserve(c, t)
    <2>1. PICK t \in Transport : Reserve(c, t)
      BY <1>4
    <2>2. \A g \in Group : /\ active'[g] \in Nat
                           /\ active'[g] = IF Limit[g] > 0 THEN Cardinality(HoldersOf(g)') ELSE 0
      BY <2>1, ReserveCounts
    <2>3. active' = [g \in Group |-> active'[g]]
      BY <2>1 DEF Reserve, PlainTypes
    <2>4. active' \in [Group -> Nat]
      BY <2>2, <2>3
    <2>5. lease' \in [Call -> {"none", "held", "released"}]
      BY <2>1 DEF Reserve, PlainTypes
    <2> QED BY <1>1, <2>2, <2>4, <2>5 DEF PlainTypes, SlotCount
  <1> QED BY <1>2, <1>3, <1>4, StepEffects

\* A step moves its call from one place to the next with the lease that the
\* place calls for.
LEMMA CallKeepsLease ==
    ASSUME PlainTypes, NewIsFree, SlotsFollowCalls, NEW c \in Call, CallSteps(c)
    PROVE  NewIsFree' /\ SlotsFollowCalls'
  <1>1. \A d \in Call \ {c} : /\ lease'[d] = lease[d] /\ at'[d] = at[d]
                              /\ d \in abandoned' <=> d \in abandoned
    <2>1. \A d \in Call \ {c} : lease'[d] = lease[d]
      <3>1. CASE UNCHANGED <<active, lease>>
        BY <3>1
      <3>2. CASE Release(c)
        BY <3>2, ReleaseEndsLease
      <3>3. CASE \E t \in Transport : Reserve(c, t)
        BY <3>3 DEF Reserve, PlainTypes
      <3> QED BY <3>1, <3>2, <3>3, StepEffects
    <2>2. \A d \in Call \ {c} : at'[d] = at[d] /\ (d \in abandoned' <=> d \in abandoned)
      BY DEF CallSteps, ReserveNothing, Reserve, Reject, AdapterStreams, AdapterEnds,
             WholeEnds, RequestFails, HeadersArrive, PrefetchRateLimited, PrefetchFails,
             PrefetchSucceeds, FailureRecorded, CancelBeforeHandOver, ReadOn, Frame,
             StreamEnds, CloseStream, DropStream, WrappedCloses, Go, End, NotAbandoned,
             PlainTypes
    <2> QED BY <2>1, <2>2
  <1>2. /\ at'[c] = "new" => lease'[c] = "none"
        /\ lease'[c] = "held" => GroupsOf(c) # {}
        /\ at'[c] \in Talking /\ GroupsOf(c) # {} => lease'[c] = "held"
        /\ at'[c] = "ended" /\ c \notin abandoned' => lease'[c] # "held"
    <2> USE DEF Go, End, Keep, NotAbandoned, Talking
    <2>0. /\ at[c] = "new" => lease[c] = "none"
          /\ lease[c] = "held" => GroupsOf(c) # {}
          /\ at[c] \in Talking /\ GroupsOf(c) # {} => lease[c] = "held"
          /\ at \in [Call -> Place] /\ lease \in [Call -> {"none", "held", "released"}]
      BY DEF NewIsFree, SlotsFollowCalls, PlainTypes
    <2>1. CASE \E t \in Transport : ReserveNothing(c, t) \/ Reserve(c, t)
      BY <2>0, <2>1 DEF ReserveNothing, Reserve, Waits, Transport
    <2>2. CASE Reject(c)
      BY <2>0, <2>2 DEF Reject
    <2>3. CASE AdapterStreams(c) \/ HeadersArrive(c) \/ PrefetchFails(c)
               \/ PrefetchSucceeds(c) \/ ReadOn(c) \/ Frame(c)
      BY <2>0, <2>3 DEF AdapterStreams, HeadersArrive, PrefetchFails, PrefetchSucceeds,
                        ReadOn, Frame
    <2>4. CASE CancelBeforeHandOver(c)
      BY <2>0, <2>4 DEF CancelBeforeHandOver
    <2>5. CASE AdapterEnds(c) \/ WholeEnds(c) \/ RequestFails(c) \/ PrefetchRateLimited(c)
               \/ FailureRecorded(c) \/ StreamEnds(c) \/ CloseStream(c) \/ DropStream(c)
               \/ WrappedCloses(c)
      <3>1. Release(c) /\ at'[c] \in {"ended", "recording", "closing"}
        BY <2>0, <2>5 DEF AdapterEnds, WholeEnds, RequestFails, PrefetchRateLimited,
                FailureRecorded, StreamEnds, CloseStream, DropStream, WrappedCloses
      <3>2. lease'[c] # "held"
        BY <3>1, ReleaseEndsLease
      <3> QED BY <3>1, <3>2
    <2> QED BY <2>1, <2>2, <2>3, <2>4, <2>5 DEF CallSteps
  <1>3. \A d \in Call : GroupsOf(d)' = GroupsOf(d)
    BY DEF GroupsOf
  <1> QED BY <1>1, <1>2, <1>3 DEF NewIsFree, SlotsFollowCalls

LEMMA LeaseInvHolds == LeaseSpec => []LeaseInv
  <1>1. LeaseInit => LeaseInv
    <2> SUFFICES ASSUME LeaseInit PROVE LeaseInv
      OBVIOUS
    <2>1. PlainTypes /\ NewIsFree /\ SlotsFollowCalls
      BY DEF LeaseInit, PlainTypes, NewIsFree, SlotsFollowCalls, Place, Talking
    <2>2. \A g \in Group : HoldersOf(g) = {} /\ active[g] = 0
      BY DEF LeaseInit, HoldersOf
    <2>3. SlotCount
      BY <2>2, FS_EmptySet DEF SlotCount
    <2> QED BY <2>1, <2>3 DEF LeaseInv
  <1>2. LeaseInv /\ [LeaseNext]_leaseVars => LeaseInv'
    <2> SUFFICES ASSUME LeaseInv, [LeaseNext]_leaseVars PROVE LeaseInv'
      OBVIOUS
    <2>1. CASE \E c \in Call : CallSteps(c)
      BY <2>1, CallKeepsCount, CallKeepsLease DEF LeaseInv
    <2>2. CASE (\E g \in Group : QuarantineEnds(g)) \/ UNCHANGED leaseVars
      <3>1. UNCHANGED <<active, lease, at, abandoned>> /\ quarantined' \subseteq quarantined
        BY <2>2 DEF QuarantineEnds, leaseVars
      <3>2. \A g : HoldersOf(g)' = HoldersOf(g)
        BY <3>1 DEF HoldersOf
      <3>3. \A c : GroupsOf(c)' = GroupsOf(c)
        BY DEF GroupsOf
      <3> QED BY <3>1, <3>2, <3>3
              DEF LeaseInv, PlainTypes, SlotCount, NewIsFree, SlotsFollowCalls
    <2> QED BY <2>1, <2>2 DEF LeaseNext
  <1> QED BY <1>1, <1>2, PTL DEF LeaseSpec

\* Type correctness, for any calls, groups and limits: no counter of
\* CapacityController leaves the range of the calls in flight.
THEOREM LeasesTypeCorrect == LeaseSpec => []LeaseTypeOK
  <1>1. LeaseInv => LeaseTypeOK
    <2> SUFFICES ASSUME LeaseInv PROVE LeaseTypeOK
      OBVIOUS
    <2>1. \A g \in Group : active[g] \in 0..Cardinality(Call)
      BY HoldersAreFinite, GroupAssumption, FS_CardinalityType
         DEF LeaseInv, SlotCount, GroupAssumption
    <2> QED BY <2>1 DEF LeaseInv, PlainTypes, LeaseTypeOK
  <1> QED BY <1>1, LeaseInvHolds, PTL

\* passthrough.py's chat() holds the slot of a call from its request to the end
\* of its response, by whichever transport, and no call that is over holds one,
\* except those that were cancelled before their stream was handed over.
THEOREM SlotsFollowTheirCalls == LeaseSpec => []SlotsFollowCalls
  <1>1. LeaseInv => SlotsFollowCalls
    BY DEF LeaseInv
  <1> QED BY <1>1, LeaseInvHolds, PTL

\* Every step of the gate is a step of the abstract pools, or none of theirs.
LEMMA StepsAreSlotSteps ==
    ASSUME LeaseInv, [LeaseNext]_leaseVars
    PROVE  [Slots!SlotsNext]_(Slots!slotsVars)
  <1> DEFINE mappedUsed == [g \in Bounded |-> active[g]]
             mappedHolders == [g \in Bounded |-> HoldersOf(g)]
  <1>1. \A g \in Bounded : g \in Group /\ Limit[g] > 0
    BY DEF Bounded
  <1>2. CASE UNCHANGED <<active, lease>>
    <2>1. UNCHANGED <<mappedUsed, mappedHolders>>
      BY <1>2 DEF HoldersOf, Bounded
    <2> QED BY <2>1 DEF Slots!slotsVars, HoldersOf
  <1>3. CASE \E c \in Call : CallSteps(c) /\ ~ UNCHANGED <<active, lease>>
    <2>1. PICK c \in Call : CallSteps(c) /\ ~ UNCHANGED <<active, lease>>
      BY <1>3
    <2> DEFINE g == GroupOf[c]
    <2>2. PlainTypes /\ SlotCount /\ NewIsFree
      BY DEF LeaseInv
    <2>3. CASE Release(c)
      <3>1. \A h \in Bounded : HoldersOf(h)' = HoldersOf(h) \ {c}
        BY <2>2, <2>3, <1>1, ReleaseCounts
      <3>2. CASE g \in Bounded /\ lease[c] = "held"
        <4>1. c \in HoldersOf(g) /\ active'[g] = active[g] - 1
          BY <3>2, <2>2, <2>3, <1>1, ReleaseCounts DEF HoldersOf
        <4>2. \A h \in Bounded : h # g => active'[h] = active[h] /\ c \notin HoldersOf(h)
          BY <2>3, <1>1 DEF Release, GroupsOf, HoldersOf
        <4>3. mappedUsed' = [mappedUsed EXCEPT ![g] = @ - 1]
          BY <4>1, <4>2, <3>2 DEF Bounded
        <4>4. mappedHolders' = [mappedHolders EXCEPT ![g] = @ \ {c}]
          <5>1. \A h \in Bounded : h # g => HoldersOf(h)' = HoldersOf(h)
            BY <4>2, <3>1
          <5> QED BY <5>1, <3>1, <3>2 DEF Bounded
        <4>5. Slots!GiveBack(g, c)
          BY <4>1, <4>3, <4>4, <3>2 DEF Slots!GiveBack, HoldersOf
        <4> QED BY <4>5, <3>2 DEF Slots!SlotsNext
      <3>3. CASE ~ (g \in Bounded /\ lease[c] = "held")
        <4>1. \A h \in Bounded : active'[h] = active[h] /\ c \notin HoldersOf(h)
          BY <3>3, <2>3, <1>1 DEF Release, GroupsOf, HoldersOf
        <4>2. UNCHANGED <<mappedUsed, mappedHolders>>
          BY <4>1, <3>1 DEF Bounded
        <4> QED BY <4>2 DEF Slots!slotsVars, HoldersOf
      <3> QED BY <3>2, <3>3
    <2>4. CASE \E t \in Transport : Reserve(c, t)
      <3>1. PICK t \in Transport : Reserve(c, t)
        BY <2>4
      <3>2. \A h \in Bounded : h # g => HoldersOf(h)' = HoldersOf(h) /\ active'[h] = active[h]
        BY <3>1, <2>2, <1>1, ReserveCounts
      <3>3. CASE g \in Bounded
        <4>1. /\ c \notin HoldersOf(g) /\ HoldersOf(g)' = HoldersOf(g) \cup {c}
              /\ active[g] < Limit[g] /\ active'[g] = active[g] + 1
          BY <3>1, <3>3, <2>2, <1>1, ReserveCounts
        <4>2. mappedUsed' = [mappedUsed EXCEPT ![g] = @ + 1]
          BY <4>1, <3>2, <3>3 DEF Bounded
        <4>3. mappedHolders' = [mappedHolders EXCEPT ![g] = @ \cup {c}]
          BY <4>1, <3>2, <3>3 DEF Bounded
        <4>4. Slots!Take(g, c)
          BY <4>1, <4>2, <4>3, <3>3 DEF Slots!Take, HoldersOf
        <4> QED BY <4>4, <3>3 DEF Slots!SlotsNext
      <3>4. CASE g \notin Bounded
        <4>1. UNCHANGED <<mappedUsed, mappedHolders>>
          BY <3>2, <3>4 DEF Bounded
        <4> QED BY <4>1 DEF Slots!slotsVars, HoldersOf
      <3> QED BY <3>3, <3>4
    <2> QED BY <2>1, <2>3, <2>4, StepEffects
  <1> QED BY <1>2, <1>3 DEF LeaseNext, QuarantineEnds, leaseVars

\* The gate of provider_usage.py implements the pools of CapacitySlots: a slot
\* of a bounded group is taken only when one is free and given back once, in
\* whatever order a stream, its guard and its finalizer release it.
THEOREM GateImplementsSlots == LeaseSpec => LeasesAreSlots
  <1>1. LeaseInit => Slots!SlotsInit
    <2> SUFFICES ASSUME LeaseInit PROVE Slots!SlotsInit
      OBVIOUS
    <2>1. \A g \in Bounded : active[g] = 0 /\ HoldersOf(g) = {}
      BY DEF LeaseInit, Bounded, HoldersOf
    <2> QED BY <2>1 DEF Slots!SlotsInit, HoldersOf
  <1> QED BY <1>1, StepsAreSlotSteps, LeaseInvHolds, PTL
          DEF LeaseSpec, LeasesAreSlots, Slots!SlotsSpec

-----------------------------------------------------------------------------
(***************************************************************************)
(* ProviderHealth: a shared window that a process was told and could store *)
(* is served in full.                                                      *)
(***************************************************************************)

\* Every set of natural numbers that is not empty has a least one.
LEMMA LeastNatural ==
    ASSUME NEW T, T \subseteq Nat, T # {}
    PROVE  \E x \in T : \A y \in T : x <= y
  <1> DEFINE A == {0..x : x \in T}
  <1>1. A \subseteq FiniteSubsetsOf(Nat) /\ A # {}
    <2>1. \A x \in T : IsFiniteSet(0..x) /\ 0..x \in SUBSET Nat
      BY FS_Interval
    <2>2. \A x \in T : 0..x \in FiniteSubsetsOf(Nat)
      BY <2>1 DEF FiniteSubsetsOf
    <2> QED BY <2>2
  <1>2. PICK B \in A : \A C \in A : ~ (<<C, B>> \in StrictSubsetOrdering(Nat))
    BY <1>1, FS_StrictSubsetOrderingWellFounded, WFMin
  <1>3. PICK x \in T : B = 0..x
    BY <1>2
  <1>4. ASSUME NEW y \in T, y < x PROVE FALSE
    <2>1. 0..y \in SUBSET Nat /\ 0..x \in SUBSET Nat
      BY <1>4
    <2>2. 0..y \subseteq 0..x /\ x \in 0..x /\ x \notin 0..y
      BY <1>4
    <2>3. 0..y # 0..x
      BY <2>2
    <2>4. <<0..y, 0..x>> \in StrictSubsetOrdering(Nat)
      BY <2>1, <2>2, <2>3 DEF StrictSubsetOrdering
    <2> QED BY <1>2, <1>3, <2>4
  <1> QED BY <1>4

\* Windows have a longest among them.
LEMMA LongestWindow ==
    ASSUME NEW W \in SUBSET Window, W # {}
    PROVE  \E w \in W : \A v \in W : v <= w
  <1> DEFINE L == {Longest - v : v \in W}
  <1>0. Longest \in Nat
    BY LongestAssumption DEF LongestAssumption
  <1>a. \A v \in W : v \in Int /\ Longest - v \in Nat
    BY <1>0 DEF Window
  <1>1. L \subseteq Nat /\ L # {}
    BY <1>a
  <1>2. PICK x \in L : \A y \in L : x <= y
    BY <1>1, LeastNatural
  <1>3. PICK w \in W : x = Longest - w
    BY <1>2
  <1>4. ASSUME NEW v \in W PROVE v <= w
    <2>1. Longest - w <= Longest - v
      BY <1>2, <1>3
    <2> QED BY <2>1, <1>0, <1>a
  <1> QED BY <1>4

Windows == [Scope -> Window]

\* What is told may shorten a model's window and never a shared one, which
\* afterwards lasts at least as long as was told.
LEMMA SetWindows ==
    ASSUME NEW w \in Windows, NEW t \in Windows
    PROVE  /\ Set(w, t) \in Windows
           /\ \A s \in Shared : Set(w, t)[s] >= w[s] /\ Set(w, t)[s] >= t[s]
  BY LongestAssumption DEF LongestAssumption, Set, Windows, Window, Longer, Scope

LEMMA ToldWindows ==
    /\ \A scopes : \A secs \in Window : Of(scopes, secs) \in Windows
    /\ \A a, b \in Windows : And(a, b) \in Windows
    /\ ThirdStrike \in Windows
    /\ \A full \in BOOLEAN : NoCapacity(full) \in Windows
  <1>1. \A scopes : \A secs \in Window : Of(scopes, secs) \in Windows
    BY LongestAssumption DEF LongestAssumption, Of, Windows, Window
  <1>2. \A a, b \in Windows : And(a, b) \in Windows
    BY DEF And, Windows, Longer
  <1>3. Longest \in Window
    BY LongestAssumption DEF LongestAssumption, Window
  <1> QED BY <1>1, <1>2, <1>3 DEF ThirdStrike, NoCapacity

LEMMA RehydratedWindows ==
    ASSUME stored \in Windows
    PROVE  /\ Rehydrated \in Windows
           /\ \A s \in Shared : Rehydrated[s] >= stored[s]
  <1> DEFINE ofModels == {0} \cup {stored[m] : m \in IF scoped THEN {} ELSE Model}
             longest == CHOOSE w \in ofModels : \A v \in ofModels : v <= w
  <1>1. ofModels \in SUBSET Window /\ ofModels # {}
    BY LongestAssumption DEF LongestAssumption, Windows, Window, Scope
  <1>2. \E w \in ofModels : \A v \in ofModels : v <= w
    BY <1>1, LongestWindow
  <1>3. longest \in Window
    BY <1>1, <1>2
  <1>4. Rehydrated = [s \in Scope |-> IF s = "provider" THEN Longer(stored[s], longest)
                                      ELSE stored[s]]
    BY DEF Rehydrated
  <1> HIDE DEF longest
  <1> QED BY <1>3, <1>4 DEF Windows, Window, Longer, Scope, Shared

\* The tables hold what the process is owed, and so does its memory while it
\* runs.
OwedInv ==
    \A s \in Shared : stored[s] >= owed[s] /\ (up => memory[s] >= owed[s])

HealthInv == HealthTypeOK /\ OwedInv

LEMMA TellKeepsOwed ==
    ASSUME HealthInv, NEW told \in Windows, Tell(told), up
    PROVE  /\ memory' \in Windows /\ stored' \in Windows /\ owed' \in [Shared -> Window]
           /\ \A s \in Shared : stored'[s] >= owed'[s] /\ memory'[s] >= owed'[s]
  <1>1. PICK lost \in SUBSET Writes(told) :
           LET kept == [s \in Scope |-> IF s \in UNION lost THEN 0 ELSE told[s]]
           IN /\ stored' = Set(stored, kept)
              /\ owed' = [s \in Shared |-> Longer(owed[s], kept[s])]
    BY DEF Tell
  <1> DEFINE kept == [s \in Scope |-> IF s \in UNION lost THEN 0 ELSE told[s]]
  <1>2. memory \in Windows /\ stored \in Windows /\ owed \in [Shared -> Window]
    BY DEF HealthInv, HealthTypeOK, Windows
  <1>3. kept \in Windows /\ \A s \in Shared : kept[s] <= told[s] /\ kept[s] \in Window
    BY LongestAssumption DEF LongestAssumption, Windows, Window, Scope
  <1>4. stored' = Set(stored, kept) /\ owed' = [s \in Shared |-> Longer(owed[s], kept[s])]
    BY <1>1
  <1> HIDE DEF kept
  <1>5. /\ memory' \in Windows
        /\ \A s \in Shared : memory'[s] >= memory[s] /\ memory'[s] >= told[s]
    BY <1>2, SetWindows DEF Tell
  <1>6. /\ stored' \in Windows
        /\ \A s \in Shared : stored'[s] >= stored[s] /\ stored'[s] >= kept[s]
    BY <1>2, <1>3, <1>4, SetWindows
  <1>7. owed' \in [Shared -> Window]
    BY <1>2, <1>3, <1>4 DEF Longer
  <1>8. ASSUME NEW s \in Shared
        PROVE  stored'[s] >= owed'[s] /\ memory'[s] >= owed'[s]
    <2>1. s \in Scope /\ stored[s] >= owed[s] /\ memory[s] >= owed[s]
      BY DEF HealthInv, OwedInv, Scope
    <2>2. owed'[s] = IF owed[s] >= kept[s] THEN owed[s] ELSE kept[s]
      BY <1>4 DEF Longer
    <2>3. /\ memory[s] \in Int /\ memory'[s] \in Int /\ stored[s] \in Int /\ stored'[s] \in Int
          /\ owed[s] \in Int /\ kept[s] \in Int /\ told[s] \in Int
      BY <2>1, <1>2, <1>3, <1>5, <1>6 DEF Windows, Window
    <2> QED BY <2>1, <2>2, <2>3, <1>3, <1>5, <1>6
  <1> QED BY <1>5, <1>6, <1>7, <1>8

\* The markers of models that are gone keep their types.
LEMMA MarkerTypes ==
    ASSUME HealthTypeOK, NEW m \in Model, SameGone \/ MarkStored(m)
    PROVE  gone' \subseteq Model /\ goneStored' \in [Model -> Window]
  BY LongestAssumption DEF LongestAssumption, HealthTypeOK, SameGone, MarkStored, Mark, Window

\* One step per group of actions: what a call reports, what stays in the
\* process, what comes from the tables, and time.
LEMMA HealthStep ==
    ASSUME HealthInv, [HealthNext]_healthVars
    PROVE  HealthInv'
  <1>0. /\ memory \in Windows /\ stored \in Windows /\ owed \in [Shared -> Window]
        /\ scoped \in BOOLEAN /\ up \in BOOLEAN /\ failures \in 0..2
        /\ gone \subseteq Model /\ goneStored \in [Model -> Window]
        /\ \A secs \in 1..Longest : secs \in Window
        /\ (failures + 1) % 3 \in 0..2
    BY LongestAssumption DEF LongestAssumption, HealthInv, HealthTypeOK, Windows, Window
  <1>1. ASSUME NEW m \in Model, NEW told \in Windows, up, Tell(told), Running,
               SameGone \/ MarkStored(m), failures' \in 0..2
        PROVE  HealthInv'
    BY <1>0, <1>1, TellKeepsOwed, MarkerTypes
       DEF HealthInv, HealthTypeOK, OwedInv, Windows, Running
  <1>2. ASSUME NEW secs \in 1..Longest, NEW m \in Model, CoolModel(m, secs)
        PROVE  HealthInv'
    BY <1>0, <1>1, <1>2, ToldWindows DEF CoolModel
  <1>3. ASSUME NEW secs \in 1..Longest, NEW m \in Model, NEW full \in BOOLEAN,
               StreamFails(m, secs, full)
        PROVE  HealthInv'
    <2>1. And(NoCapacity(full), And(Of(ScopesOf(m), secs), ThirdStrike)) \in Windows
      BY <1>0, ToldWindows
    <2> QED BY <1>0, <1>1, <1>3, <2>1 DEF StreamFails, CountFailure
  <1>4. ASSUME NEW m \in Model, NEW isGone \in BOOLEAN, NEW full \in BOOLEAN,
               StreamRefused(m, isGone, full) \/ ResponseFails(m, isGone, full)
        PROVE  HealthInv'
    <2>1. NoCapacity(full) \in Windows /\ And(NoCapacity(full), ThirdStrike) \in Windows
      BY ToldWindows
    <2> QED BY <1>0, <1>1, <1>4, <2>1 DEF StreamRefused, ResponseFails, CountFailure
  <1>5. CASE \/ \E m \in Model : EndpointMarks(m) \/ Answered(m) \/ OtherMarks(m)
             \/ Completed \/ UNCHANGED healthVars
    BY <1>0, <1>5, LongestAssumption
       DEF LongestAssumption, EndpointMarks, Answered, OtherMarks, Completed, healthVars,
           Mark, SameGone, Running, HealthInv, HealthTypeOK, OwedInv, Window
  <1>6. ASSUME NEW told \in Windows, memory' = Set(memory, told),
               UNCHANGED <<stored, owed, failures>>, SameGone, Running
        PROVE  HealthInv'
    <2>1. /\ memory' \in Windows
          /\ \A s \in Shared : memory'[s] >= memory[s]
      BY <1>0, <1>6, SetWindows
    <2>2. \A s \in Shared : up' => memory'[s] >= owed'[s]
      <3> SUFFICES ASSUME NEW s \in Shared, up' PROVE memory'[s] >= owed'[s]
        OBVIOUS
      <3>1. memory[s] >= owed[s] /\ owed' = owed
        BY <1>6 DEF HealthInv, OwedInv, Running
      <3>2. memory[s] \in Int /\ memory'[s] \in Int /\ owed[s] \in Int
        BY <1>0, <2>1 DEF Windows, Window, Scope
      <3> QED BY <2>1, <3>1, <3>2
    <2> QED BY <1>6, <2>1, <2>2 DEF HealthInv, HealthTypeOK, OwedInv, Windows, SameGone, Running
  <1>7. CASE (\E secs \in 1..Longest : Busy(secs)) \/ RebuildPools
    <2>1. stored["group"] \in Window
      BY <1>0 DEF Windows, Scope, Shared
    <2> QED BY <1>0, <1>6, <1>7, <2>1, ToldWindows DEF Busy, RebuildPools
  <1>8. ASSUME NEW secs \in 1..Longest, NEW scopes, OtherStores(scopes, secs)
        PROVE  HealthInv'
    <2>1. /\ stored' \in Windows
          /\ \A s \in Shared : stored'[s] >= stored[s]
      BY <1>0, <1>8, SetWindows, ToldWindows DEF OtherStores
    <2>2. \A s \in Shared : stored'[s] >= owed'[s]
      <3> SUFFICES ASSUME NEW s \in Shared PROVE stored'[s] >= owed'[s]
        OBVIOUS
      <3>1. stored[s] >= owed[s] /\ owed' = owed
        BY <1>8 DEF HealthInv, OwedInv, OtherStores
      <3>2. stored[s] \in Int /\ stored'[s] \in Int /\ owed[s] \in Int
        BY <1>0, <2>1 DEF Windows, Window, Scope
      <3> QED BY <2>1, <3>1, <3>2
    <2> QED BY <1>8, <2>1, <2>2
            DEF OtherStores, HealthInv, HealthTypeOK, OwedInv, Windows, SameGone, Running
  <1>9. CASE Start
    <2>1. /\ memory' \in Windows
          /\ \A s \in Shared : memory'[s] >= stored[s]
      BY <1>0, <1>9, RehydratedWindows DEF Start
    <2>2. \A s \in Shared : memory'[s] >= owed'[s]
      <3> SUFFICES ASSUME NEW s \in Shared PROVE memory'[s] >= owed'[s]
        OBVIOUS
      <3>1. stored[s] >= owed[s] /\ owed' = owed
        BY <1>9 DEF HealthInv, OwedInv, Start
      <3>2. stored[s] \in Int /\ memory'[s] \in Int /\ owed[s] \in Int
        BY <1>0, <2>1 DEF Windows, Window, Scope
      <3> QED BY <2>1, <3>1, <3>2
    <2> QED BY <1>0, <1>9, <2>1, <2>2 DEF Start, HealthInv, HealthTypeOK, OwedInv, Windows
  <1>10. CASE Stop
    <2>1. 0 \in Window
      BY LongestAssumption DEF LongestAssumption, Window
    <2>2. memory' \in Windows /\ ~ up'
      BY <2>1, <1>10 DEF Stop, Windows
    <2>3. OwedInv'
      BY <2>2, <1>10 DEF Stop, HealthInv, OwedInv
    <2>4. scoped' \in BOOLEAN /\ up' \in BOOLEAN
      BY <1>0, <1>10 DEF Stop
    <2>5. /\ failures' \in 0..2 /\ gone' \subseteq Model
          /\ goneStored' \in [Model -> Window] /\ owed' \in [Shared -> Window]
          /\ stored' \in Windows
      BY <1>0, <1>10 DEF Stop
    <2> QED BY <2>2, <2>3, <2>4, <2>5 DEF HealthInv, HealthTypeOK, Windows
  <1>11. CASE HealthTick
    <2>1. /\ \A w \in Windows : Passed(w) \in Windows
          /\ Passed(goneStored) \in [Model -> Window] /\ Passed(owed) \in [Shared -> Window]
      BY <1>0, LongestAssumption DEF LongestAssumption, Passed, Windows, Window
    <2>2. \A s \in Shared : /\ stored'[s] = IF stored[s] = 0 THEN 0 ELSE stored[s] - 1
                            /\ memory'[s] = IF memory[s] = 0 THEN 0 ELSE memory[s] - 1
                            /\ owed'[s] = IF owed[s] = 0 THEN 0 ELSE owed[s] - 1
                            /\ stored[s] \in Nat /\ memory[s] \in Nat /\ owed[s] \in Nat
      BY <1>0, <1>11, LongestAssumption
         DEF LongestAssumption, HealthTick, Passed, Windows, Window, Scope
    <2>3. OwedInv'
      BY <2>2, <1>11 DEF HealthTick, HealthInv, OwedInv, Running
    <2> QED BY <1>0, <1>11, <2>1, <2>3
            DEF HealthTick, HealthInv, HealthTypeOK, Windows, Running
  <1> QED BY <1>2, <1>3, <1>4, <1>5, <1>7, <1>8, <1>9, <1>10, <1>11 DEF HealthNext

LEMMA HealthInvHolds == HealthSpec => []HealthInv
  <1>1. HealthInit => HealthInv
    <2> SUFFICES ASSUME HealthInit PROVE HealthInv
      OBVIOUS
    <2>1. 0 \in Window
      BY LongestAssumption DEF LongestAssumption, Window
    <2>2. HealthTypeOK
      <3>1. scoped \in BOOLEAN /\ up \in BOOLEAN
        BY DEF HealthInit
      <3>2. /\ memory \in [Scope -> Window] /\ stored \in [Scope -> Window]
            /\ failures \in 0..2 /\ gone \subseteq Model
            /\ goneStored \in [Model -> Window] /\ owed \in [Shared -> Window]
        BY <2>1 DEF HealthInit
      <3> QED BY <3>1, <3>2 DEF HealthTypeOK
    <2>3. OwedInv
      BY DEF HealthInit, OwedInv, Scope
    <2> QED BY <2>2, <2>3 DEF HealthInv
  <1> QED BY <1>1, HealthStep, PTL DEF HealthSpec

\* Type correctness, for any models and any bound on windows: no sum, maximum
\* or countdown leaves the range.
THEOREM HealthTypeCorrect == HealthSpec => []HealthTypeOK
  <1>1. HealthInv => HealthTypeOK
    BY DEF HealthInv
  <1> QED BY <1>1, HealthInvHolds, PTL

\* cooldown.py and persistent_cooldown.py: a provider's or group's window that
\* was told and stored keeps every model out until it is over, through shorter
\* answers, restarts and other processes' writes.
THEOREM SharedWindowsServed == HealthSpec => []SharedWindowsAreServed
  <1>1. HealthInv => SharedWindowsAreServed
    <2> SUFFICES ASSUME HealthInv, up, NEW s \in Shared
                 PROVE  /\ memory[s] >= owed[s]
                        /\ owed[s] > 0 => \A m \in Model : InCooldown(m)
      BY DEF SharedWindowsAreServed
    <2>1. memory[s] >= owed[s]
      BY DEF HealthInv, OwedInv
    <2>2. memory[s] \in Int /\ owed[s] \in Int
      BY DEF HealthInv, HealthTypeOK, Window, Scope
    <2>3. owed[s] > 0 => memory[s] > 0
      BY <2>1, <2>2
    <2> QED BY <2>1, <2>3 DEF InCooldown
  <1> QED BY <1>1, HealthInvHolds, PTL

-----------------------------------------------------------------------------
(***************************************************************************)
(* Approvals: an answer that comes after a lifetime has ended lets nothing *)
(* pass.                                                                   *)
(***************************************************************************)

Stages == Lookup \cup {"idle", "dispatch"}
ReqType == [at : Stages, looked : BOOLEAN, proc : Proc \cup {Unasked},
            transcript : [Id -> Words]]

CopyTypes ==
    /\ pending \in [Proc -> [Id -> Lives]]
    /\ row \in [Id -> Lives]
    /\ life \in [Id -> Lives]

\* A request under way has its process.
ReqInv ==
    /\ req \in [Req -> ReqType]
    /\ \A r \in Req : req[r].at # "idle" => req[r].proc \in Proc

\* Neither lifetime of a copy outlasts the approval's own.
Within(copy, whole) == copy.idle <= whole.idle /\ copy.abs <= whole.abs
LifeInv ==
    \A i \in Id : /\ Within(row[i], life[i])
                  /\ \A p \in Proc : Within(pending[p][i], life[i])

RestTypes ==
    /\ kind \in [Id -> {"none", "calls", "content"}]
    /\ word \in [Id -> Words]
    /\ accepted \in [Id -> 0..2]

ApprovalInv == CopyTypes /\ ReqInv /\ LifeInv /\ RestTypes /\ late = FALSE

LEMMA LivesTypes ==
    /\ Gone \in Lives /\ Whole \in Lives
    /\ \A c \in Lives : c.idle \in 0..Idle /\ c.abs \in 0..Absolute
    /\ \A c \in Lives : Within(Gone, c) /\ Within(c, c)
    /\ \A c \in Lives : Aged(c) \in Lives
    /\ \A c, d \in Lives : Within(c, d) => Within(Aged(c), Aged(d))
    /\ \A c \in Lives : Extended(c) \in Lives
    /\ \A c, d \in Lives : Within(c, d) /\ Alive(c) => Alive(d)
  <1>0. Idle \in Nat /\ Absolute \in Nat /\ Idle <= Absolute
    BY LifetimeAssumption DEF LifetimeAssumption
  <1>1. Gone \in Lives /\ Whole \in Lives
    BY <1>0 DEF Gone, Whole, Lives
  <1>2. \A c \in Lives : c.idle \in 0..Idle /\ c.abs \in 0..Absolute
    BY DEF Lives
  <1>3. \A c \in Lives : Within(Gone, c) /\ Within(c, c)
    BY <1>0 DEF Within, Gone, Lives
  <1>4. ASSUME NEW c \in Lives
        PROVE  /\ Aged(c) \in Lives
               /\ \A d \in Lives : Within(c, d) => Within(Aged(c), Aged(d))
    BY <1>0 DEF Aged, Less, Lives, Within
  <1>5. \A c \in Lives : Extended(c) \in Lives
    BY <1>0 DEF Extended, Lives
  <1>6. \A c, d \in Lives : Within(c, d) /\ Alive(c) => Alive(d)
    BY <1>0 DEF Within, Alive, Lives
  <1> QED BY <1>1, <1>2, <1>3, <1>4, <1>5, <1>6

\* A handler goes on to its next function, or ends.
LEMMA HandlersMove ==
    ASSUME ReqInv, NEW r \in Req,
           \/ Finish(r)
           \/ \E f \in Stages : Goto(r, f) /\ req[r].at # "idle"
           \/ req' = [req EXCEPT ![r].looked = TRUE]
    PROVE  ReqInv'
  <1>1. Resting \in ReqType /\ Resting.at = "idle"
    BY DEF Resting, ReqType, Stages, Words
  <1>2. CASE Finish(r)
    BY <1>1, <1>2 DEF Finish, ReqInv
  <1>3. CASE \E f \in Stages : Goto(r, f) /\ req[r].at # "idle"
    <2>1. PICK f \in Stages : Goto(r, f)
      BY <1>3
    <2>2. req[r] \in ReqType /\ req[r].proc \in Proc
      BY <1>3 DEF ReqInv
    <2>3. req' = [req EXCEPT ![r] = [req[r] EXCEPT !.at = f, !.looked = FALSE]]
      BY <2>1 DEF Goto
    <2>4. /\ [req[r] EXCEPT !.at = f, !.looked = FALSE] \in ReqType
          /\ [req[r] EXCEPT !.at = f, !.looked = FALSE].proc = req[r].proc
      BY <2>2 DEF ReqType
    <2> QED BY <2>2, <2>3, <2>4 DEF ReqInv
  <1>4. CASE req' = [req EXCEPT ![r].looked = TRUE]
    BY <1>4 DEF ReqInv, ReqType
  <1> QED BY <1>2, <1>3, <1>4

\* Copies that are read from the table, or forgotten, do not outlast it.
Copies ==
    /\ life' = life
    /\ \A i \in Id : row'[i] \in {row[i], Gone}
    /\ \A p \in Proc, i \in Id : pending'[p][i] \in {pending[p][i], row[i], Gone}
    /\ row' \in [Id -> Lives]
    /\ pending' \in [Proc -> [Id -> Lives]]

LEMMA CopiesKept ==
    ASSUME CopyTypes, LifeInv, Copies
    PROVE  CopyTypes' /\ LifeInv'
  <1>1. \A i \in Id : life[i] \in Lives
    BY DEF CopyTypes
  <1>2. \A i \in Id : Within(row'[i], life'[i])
    BY <1>1, LivesTypes DEF Copies, LifeInv
  <1>3. \A p \in Proc, i \in Id : Within(pending'[p][i], life'[i])
    BY <1>1, LivesTypes DEF Copies, LifeInv
  <1> QED BY <1>2, <1>3 DEF Copies, CopyTypes, LifeInv

LEMMA ForgetCopies ==
    ASSUME CopyTypes, NEW r \in Req, NEW i \in Id, Forget(r, i), life' = life
    PROVE  Copies
  BY LivesTypes DEF CopyTypes, Forget, Copies

LEMMA LookUpCopies ==
    ASSUME CopyTypes, NEW r \in Req, LookUp(r) \/ LookUpFails(r)
    PROVE  Copies
  <1> DEFINE p == req[r].proc
             seen == [i \in Id |-> Rehydrate(p, i)]
             over == {i \in Id : seen[i].abs > 0 /\ ~ Alive(seen[i])}
  <1>1. ASSUME p \in Proc, NEW i \in Id
        PROVE  seen[i] \in {pending[p][i], row[i]} /\ seen[i] \in Lives
    BY <1>1 DEF Rehydrate, CopyTypes
  <1>2. CASE LookUp(r)
    <2>1. /\ pending' = [pending EXCEPT ![p] = [i \in Id |-> IF i \in over THEN Gone ELSE seen[i]]]
          /\ row' = [i \in Id |-> IF i \in over \/ ~ Alive(row[i]) THEN Gone ELSE row[i]]
          /\ life' = life
      BY <1>2 DEF LookUp
    <2> HIDE DEF seen, over
    <2>2. row' \in [Id -> Lives] /\ \A i \in Id : row'[i] \in {row[i], Gone}
      BY <2>1, LivesTypes DEF CopyTypes
    <2>3. /\ pending' \in [Proc -> [Id -> Lives]]
          /\ \A q \in Proc, i \in Id : pending'[q][i] \in {pending[q][i], row[i], Gone}
      BY <2>1, <1>1, LivesTypes DEF CopyTypes
    <2> QED BY <2>1, <2>2, <2>3 DEF Copies
  <1>3. CASE LookUpFails(r)
    BY <1>3, LivesTypes DEF LookUpFails, CopyTypes, Copies
  <1> QED BY <1>2, <1>3

\* What is accepted is alive in the process, so it is alive.
LEMMA AcceptedIsAlive ==
    ASSUME ApprovalInv, NEW r \in Req, req[r].at # "idle", NEW i \in Id,
           Alive(Here(r)[i]), Accept(i)
    PROVE  accepted' \in [Id -> 0..2] /\ late' = FALSE
  <1>1. req[r].proc \in Proc
    BY DEF ApprovalInv, ReqInv
  <1>2. Within(Here(r)[i], life[i]) /\ Here(r)[i] \in Lives /\ life[i] \in Lives
    BY <1>1 DEF ApprovalInv, LifeInv, CopyTypes, Here
  <1>3. Alive(life[i])
    BY <1>2, LivesTypes
  <1>4. accepted' \in [Id -> 0..2]
    BY DEF ApprovalInv, RestTypes, Accept
  <1>5. late' = FALSE
    BY <1>3 DEF ApprovalInv, Accept
  <1> QED BY <1>4, <1>5

\* A handler that settles an answer, or finds none.
LEMMA Settles ==
    ASSUME ApprovalInv, NEW r \in Req, UNCHANGED <<kind, word, life>>, ReqInv',
           \/ Copies /\ NoneAccepted
           \/ \E i \in Id : /\ req[r].at # "idle" /\ Alive(Here(r)[i])
                            /\ Forget(r, i) /\ Accept(i)
    PROVE  ApprovalInv'
  <1>1. CopyTypes' /\ LifeInv'
    BY CopiesKept, ForgetCopies DEF ApprovalInv
  <1>2. accepted' \in [Id -> 0..2] /\ late' = FALSE
    <2>1. CASE NoneAccepted
      BY <2>1 DEF NoneAccepted, ApprovalInv, RestTypes
    <2>2. CASE \E i \in Id : /\ req[r].at # "idle" /\ Alive(Here(r)[i])
                             /\ Forget(r, i) /\ Accept(i)
      BY <2>2, AcceptedIsAlive
    <2> QED BY <2>1, <2>2
  <1> QED BY <1>1, <1>2 DEF ApprovalInv, RestTypes

LEMMA KnownIsAlive ==
    ASSUME NEW r, NEW k, NEW i \in Known(r, k)
    PROVE  i \in Id /\ Alive(Here(r)[i])
  BY DEF Known

\* The handlers that look for an answer.
LEMMA AnswersSettle ==
    ASSUME ApprovalInv, NEW r \in Req,
           \/ Replay(r) \/ Denied(r) \/ NothingToReplay(r)
           \/ ContentAllowed(r) \/ ContentNotAllowed(r)
           \/ CallAllowed(r) \/ CallNotAllowed(r)
           \/ AnswersPlainly(r) \/ ProposesCall(r) \/ Lost(r)
    PROVE  ApprovalInv'
  <1>1. UNCHANGED <<kind, word, life>>
    BY DEF Replay, Denied, NothingToReplay, ContentAllowed, ContentNotAllowed, CallAllowed,
           CallNotAllowed, AnswersPlainly, ProposesCall, Lost
  <1>2. req[r].at # "idle"
    BY DEF Replay, Denied, NothingToReplay, ContentAllowed, ContentNotAllowed, CallAllowed,
           CallNotAllowed, AnswersPlainly, ProposesCall, Lost, Decides
  <1>3. \/ Finish(r)
        \/ \E f \in Stages : Goto(r, f)
    BY DEF Replay, Denied, NothingToReplay, ContentAllowed, ContentNotAllowed, CallAllowed,
           CallNotAllowed, AnswersPlainly, ProposesCall, Lost, AfterReplay, Stages, Lookup
  <1>4. ReqInv'
    BY <1>2, <1>3, HandlersMove DEF ApprovalInv
  <1>5. CASE UNCHANGED <<pending, row>> /\ NoneAccepted
    <2>1. Copies
      BY <1>1, <1>5 DEF Copies, ApprovalInv, CopyTypes
    <2> QED BY <2>1, <1>1, <1>4, <1>5, Settles
  <1>6. CASE \E i \in Id : Forget(r, i) /\ NoneAccepted
    <2>1. Copies
      BY <1>1, <1>6, ForgetCopies DEF ApprovalInv
    <2> QED BY <2>1, <1>1, <1>4, <1>6, Settles
  <1>7. CASE \E i \in Id : Alive(Here(r)[i]) /\ Forget(r, i) /\ Accept(i)
    BY <1>1, <1>2, <1>4, <1>7, Settles
  <1>8. CASE Replay(r) \/ ContentAllowed(r) \/ CallAllowed(r)
    <2>1. \E i \in Id : Alive(Here(r)[i]) /\ Forget(r, i) /\ Accept(i)
      BY <1>8, KnownIsAlive
         DEF Replay, ContentAllowed, CallAllowed, Replayable, ContentAnswered
    <2> QED BY <2>1, <1>7
  <1>9. CASE Denied(r) \/ ContentNotAllowed(r) \/ CallNotAllowed(r)
    <2>1. \/ UNCHANGED <<pending, row>> /\ NoneAccepted
          \/ \E i \in Id : Forget(r, i) /\ NoneAccepted
      BY <1>9 DEF Denied, ContentNotAllowed, CallNotAllowed, Replayable, ContentAnswered, Known
    <2> QED BY <2>1, <1>5, <1>6
  <1>10. CASE NothingToReplay(r) \/ AnswersPlainly(r) \/ ProposesCall(r) \/ Lost(r)
    BY <1>5, <1>10 DEF NothingToReplay, AnswersPlainly, ProposesCall, Lost, NoneAccepted
  <1> QED BY <1>8, <1>9, <1>10

\* A new approval, in one process and perhaps in the table, begins whole.
LEMMA ProposalsAreWhole ==
    ASSUME ApprovalInv, NEW r \in Req, NEW i \in Id, NEW k \in {"calls", "content"},
           NEW keep \in BOOLEAN, Propose(r, i, k, keep), NoneAccepted
    PROVE  ApprovalInv'
  <1>1. ReqInv'
    BY HandlersMove DEF ApprovalInv, Propose, Shown
  <1>2. RestTypes' /\ late' = FALSE
    BY DEF ApprovalInv, RestTypes, Propose, Shown, NoneAccepted, Words
  <1>3. CopyTypes'
    BY LivesTypes DEF ApprovalInv, CopyTypes, Propose
  <1>4. \A c \in Lives : Within(c, Whole)
    BY LivesTypes, LifetimeAssumption DEF LifetimeAssumption, Within, Whole
  <1>5. /\ life'[i] = Whole /\ row'[i] \in Lives
        /\ \A p \in Proc : pending'[p][i] \in Lives
    BY <1>3 DEF ApprovalInv, CopyTypes, Propose
  <1>6. \A j \in Id \ {i} : /\ life'[j] = life[j] /\ row'[j] = row[j]
                            /\ \A p \in Proc : pending'[p][j] = pending[p][j]
    BY DEF ApprovalInv, CopyTypes, Propose
  <1>7. LifeInv'
    BY <1>4, <1>5, <1>6 DEF ApprovalInv, LifeInv
  <1> QED BY <1>1, <1>2, <1>3, <1>7 DEF ApprovalInv

\* A question that is asked again extends the idle lifetime, of the copy no
\* further than the approval's.
LEMMA ExtensionsAreBounded ==
    ASSUME ApprovalInv, NEW r \in Req, req[r].at # "idle", NEW i \in Id, NEW written \in BOOLEAN,
           pending' = [pending EXCEPT ![req[r].proc][i] = Extended(Here(r)[i])],
           row' = IF written THEN [row EXCEPT ![i] = Extended(Here(r)[i])] ELSE row,
           life' = [life EXCEPT ![i] = [@ EXCEPT !.idle = Idle]],
           Shown(r, i), UNCHANGED kind, NoneAccepted
    PROVE  ApprovalInv'
  <1> DEFINE copy == Extended(Here(r)[i])
  <1>0. Idle \in Nat /\ Absolute \in Nat /\ Idle <= Absolute
    BY LifetimeAssumption DEF LifetimeAssumption
  <1>1. req[r].proc \in Proc /\ CopyTypes /\ LifeInv
    BY DEF ApprovalInv, ReqInv
  <1>2. /\ Here(r)[i] \in Lives /\ life[i] \in Lives /\ row[i] \in Lives
        /\ Within(Here(r)[i], life[i]) /\ Within(row[i], life[i])
        /\ \A p \in Proc : pending[p][i] \in Lives /\ Within(pending[p][i], life[i])
    BY <1>1 DEF Here, CopyTypes, LifeInv
  <1>3. /\ copy \in Lives /\ copy.abs = Here(r)[i].abs /\ copy.idle <= Idle
        /\ life'[i] \in Lives /\ life'[i].abs = life[i].abs /\ life'[i].idle = Idle
    <2>1. copy \in Lives /\ copy.idle \in 0..Idle
      BY <1>2, LivesTypes
    <2>2. copy.abs = Here(r)[i].abs
      BY <1>2 DEF Extended, Lives
    <2>3. life'[i] = [life[i] EXCEPT !.idle = Idle]
      BY <1>1 DEF CopyTypes
    <2>4. life'[i] \in Lives /\ life'[i].abs = life[i].abs /\ life'[i].idle = Idle
      BY <1>0, <1>2, <2>3 DEF Lives
    <2> QED BY <1>0, <2>1, <2>2, <2>4
  <1> HIDE DEF copy
  <1>4. \A c \in Lives : Within(c, life[i]) => Within(c, life'[i])
    BY <1>0, <1>3, LivesTypes DEF Within
  <1>5. Within(copy, life'[i])
    BY <1>2, <1>3 DEF Within
  <1>6. /\ row' \in [Id -> Lives] /\ row'[i] \in {row[i], copy}
        /\ \A j \in Id \ {i} : row'[j] = row[j]
    BY <1>1, <1>3 DEF CopyTypes, copy
  <1>7. /\ pending' \in [Proc -> [Id -> Lives]]
        /\ \A p \in Proc : /\ pending'[p][i] \in {pending[p][i], copy}
                           /\ \A j \in Id \ {i} : pending'[p][j] = pending[p][j]
    BY <1>1, <1>3 DEF CopyTypes, copy
  <1>8. life' \in [Id -> Lives] /\ \A j \in Id \ {i} : life'[j] = life[j]
    BY <1>1, <1>3 DEF CopyTypes
  <1>9. CopyTypes' /\ LifeInv'
    <2>1. Within(row'[i], life'[i]) /\ \A p \in Proc : Within(pending'[p][i], life'[i])
      BY <1>2, <1>4, <1>5, <1>6, <1>7
    <2>2. \A j \in Id \ {i} : /\ Within(row'[j], life'[j])
                              /\ \A p \in Proc : Within(pending'[p][j], life'[j])
      BY <1>1, <1>6, <1>7, <1>8 DEF LifeInv
    <2> QED BY <2>1, <2>2, <1>6, <1>7, <1>8 DEF CopyTypes, LifeInv
  <1>10. ReqInv'
    BY HandlersMove DEF ApprovalInv, Shown
  <1>11. RestTypes' /\ late' = FALSE
    BY DEF ApprovalInv, RestTypes, Shown, NoneAccepted, Words
  <1> QED BY <1>9, <1>10, <1>11 DEF ApprovalInv

LEMMA HandlerKeepsLives ==
    ASSUME ApprovalInv, NEW r \in Req, Handler(r)
    PROVE  ApprovalInv'
  <1>1. CASE \/ Replay(r) \/ Denied(r) \/ NothingToReplay(r)
             \/ ContentAllowed(r) \/ ContentNotAllowed(r)
             \/ CallAllowed(r) \/ CallNotAllowed(r)
             \/ AnswersPlainly(r) \/ ProposesCall(r) \/ Lost(r)
    BY <1>1, AnswersSettle
  <1>2. CASE LookUp(r) \/ LookUpFails(r)
    <2>1. ReqInv'
      BY <1>2, HandlersMove DEF LookUp, LookUpFails, ApprovalInv
    <2>2. Copies /\ NoneAccepted /\ UNCHANGED <<kind, word, life>>
      BY <1>2, LookUpCopies DEF ApprovalInv, LookUp, LookUpFails, NoneAccepted
    <2> QED BY <2>1, <2>2, Settles
  <1>3. CASE AskForCalls(r)
    <2>1. PICK written \in BOOLEAN :
            \/ \E i \in Id : Propose(r, i, "calls", written)
            \/ \E i \in Known(r, "calls") :
                 /\ pending' = [pending EXCEPT ![req[r].proc][i] = Extended(Here(r)[i])]
                 /\ row' = IF written THEN [row EXCEPT ![i] = Extended(Here(r)[i])] ELSE row
                 /\ life' = [life EXCEPT ![i] = [@ EXCEPT !.idle = Idle]]
                 /\ Shown(r, i)
                 /\ UNCHANGED kind
      BY <1>3 DEF AskForCalls
    <2>2. NoneAccepted /\ req[r].at # "idle"
      BY <1>3 DEF AskForCalls, Decides
    <2>3. CASE \E i \in Id : Propose(r, i, "calls", written)
      BY <2>2, <2>3, ProposalsAreWhole
    <2>4. CASE \E i \in Known(r, "calls") :
                 /\ pending' = [pending EXCEPT ![req[r].proc][i] = Extended(Here(r)[i])]
                 /\ row' = IF written THEN [row EXCEPT ![i] = Extended(Here(r)[i])] ELSE row
                 /\ life' = [life EXCEPT ![i] = [@ EXCEPT !.idle = Idle]]
                 /\ Shown(r, i)
                 /\ UNCHANGED kind
      BY <2>2, <2>4, KnownIsAlive, ExtensionsAreBounded
    <2> QED BY <2>1, <2>3, <2>4
  <1>4. CASE AskForContent(r)
    <2>1. NoneAccepted
      BY <1>4 DEF AskForContent
    <2>2. CASE \E i \in Id : Propose(r, i, "content", FALSE)
      BY <2>1, <2>2, ProposalsAreWhole
    <2>3. CASE \E i \in Known(r, "content") : Shown(r, i) /\ UNCHANGED <<kind, pending, row, life>>
      <3>1. ReqInv'
        BY <2>3, HandlersMove DEF ApprovalInv, Shown
      <3>2. RestTypes' /\ late' = FALSE
        BY <2>1, <2>3 DEF ApprovalInv, RestTypes, Shown, NoneAccepted, Words, Known
      <3>3. CopyTypes' /\ LifeInv'
        BY <2>3 DEF ApprovalInv, CopyTypes, LifeInv
      <3> QED BY <3>1, <3>2, <3>3 DEF ApprovalInv
    <2> QED BY <1>4, <2>2, <2>3 DEF AskForContent
  <1> QED BY <1>1, <1>2, <1>3, <1>4 DEF Handler

LEMMA ApprovalStep ==
    ASSUME ApprovalInv, [ApprovalNext]_approvalVars
    PROVE  ApprovalInv'
  <1>1. CASE \E r \in Req : Handler(r)
    BY <1>1, HandlerKeepsLives
  <1>2. ASSUME NEW r \in Req, NEW p \in Proc, Send(r, p)
        PROVE  ApprovalInv'
    <2>1. [Resting EXCEPT !.at = "replay", !.proc = p, !.transcript = word] \in ReqType
      BY DEF Resting, ReqType, Stages, Lookup, ApprovalInv, RestTypes
    <2>2. [Resting EXCEPT !.at = "replay", !.proc = p, !.transcript = word].proc = p
      BY DEF Resting
    <2>3. ReqInv'
      BY <1>2, <2>1, <2>2 DEF Send, ApprovalInv, ReqInv
    <2> QED BY <1>2, <2>3 DEF Send, ApprovalInv, CopyTypes, LifeInv, RestTypes
  <1>3. ASSUME NEW i \in Id, NEW w \in Words, Answer(i, w)
        PROVE  ApprovalInv'
    BY <1>3 DEF Answer, ApprovalInv, CopyTypes, LifeInv, RestTypes, ReqInv
  <1>4. ASSUME NEW p \in Proc, ApprovalRestart(p)
        PROVE  ApprovalInv'
    <2>1. Resting \in ReqType /\ Resting.at = "idle"
      BY DEF Resting, ReqType, Stages, Words
    <2>2. ReqInv'
      BY <1>4, <2>1 DEF ApprovalRestart, ApprovalInv, ReqInv
    <2>3. Copies
      BY <1>4, LivesTypes DEF ApprovalRestart, ApprovalInv, CopyTypes, Copies
    <2>4. CopyTypes' /\ LifeInv'
      BY <2>3, CopiesKept DEF ApprovalInv
    <2> QED BY <1>4, <2>2, <2>4 DEF ApprovalRestart, ApprovalInv, RestTypes
  <1>5. CASE ApprovalTick
    <2>1. CopyTypes'
      BY <1>5, LivesTypes DEF ApprovalTick, ApprovalInv, CopyTypes
    <2>2. LifeInv'
      BY <1>5, LivesTypes DEF ApprovalTick, ApprovalInv, CopyTypes, LifeInv
    <2> QED BY <1>5, <2>1, <2>2 DEF ApprovalTick, ApprovalInv, RestTypes, ReqInv
  <1>6. CASE UNCHANGED approvalVars
    BY <1>6 DEF approvalVars, ApprovalInv, CopyTypes, LifeInv, RestTypes, ReqInv
  <1> QED BY <1>1, <1>2, <1>3, <1>4, <1>5, <1>6 DEF ApprovalNext

LEMMA ApprovalInvHolds == ApprovalSpec => []ApprovalInv
  <1>1. ApprovalInit => ApprovalInv
    <2> SUFFICES ASSUME ApprovalInit PROVE ApprovalInv
      OBVIOUS
    <2>1. CopyTypes /\ LifeInv
      BY LivesTypes DEF ApprovalInit, CopyTypes, LifeInv
    <2>2. Resting \in ReqType /\ Resting.at = "idle"
      BY DEF Resting, ReqType, Stages, Words
    <2>3. ReqInv /\ RestTypes
      BY <2>2 DEF ApprovalInit, ReqInv, RestTypes, Words
    <2> QED BY <2>1, <2>3 DEF ApprovalInit, ApprovalInv
  <1> QED BY <1>1, ApprovalStep, PTL DEF ApprovalSpec

\* Type correctness, for any processes, requests, approvals and lifetimes.
THEOREM ApprovalsTypeCorrect == ApprovalSpec => []ApprovalTypeOK
  <1>1. ApprovalInv => ApprovalTypeOK
    BY DEF ApprovalInv, CopyTypes, ReqInv, ReqType, Stages, RestTypes, ApprovalTypeOK
  <1> QED BY <1>1, ApprovalInvHolds, PTL

\* No process of native_question.py accepts an approval after its idle or its
\* absolute lifetime, whatever copy of it was read, extended or kept.
THEOREM LateAnswersAreIgnored == ApprovalSpec => []LateAnswersDoNothing
  <1>1. ApprovalInv => LateAnswersDoNothing
    BY DEF ApprovalInv, LateAnswersDoNothing
  <1> QED BY <1>1, ApprovalInvHolds, PTL

-----------------------------------------------------------------------------
(***************************************************************************)
(* AuditLog: a request that goes on under the fail-closed setting has its  *)
(* event in the file, and the chain verifies as long as no buffer is       *)
(* flushed behind another writer.                                          *)
(***************************************************************************)

LineType == [event : Event \cup {NoEvent}, prev : Seq(Event),
             form : {"whole", "torn", "garbled"}]
Holding == {"reading", "writing", "unlocking"}

LogTypes ==
    /\ log \in Seq(LineType)
    /\ \A i \in 1..Len(log) : log[i].form = "whole" => log[i].event \in Event
    /\ flock \in Event \cup {NoEvent}
    /\ step \in [Event -> Appending \cup {"new", "resting", "kept", "lost", "dead"}]
    /\ prev \in [Event -> Seq(Event)]
    /\ buffer \in [Event -> {"none", "line", "rest"}]
    /\ failed \in [Event -> {"no", "os", "other"}]
    /\ reply \in [Event -> {"none", "sent", "refused", "cut"}]
    /\ overtaken \in BOOLEAN

TryCount ==
    /\ tries \in [Event -> 0..Attempts]
    /\ \A e \in Event : /\ step[e] = "new" => tries[e] = 0
                        /\ step[e] = "resting" => tries[e] < Attempts

\* Only the holder of flock reads the tail and writes after it.
LockInv == \A e \in Event : step[e] \in Holding => flock = e

\* A writer that has read the tail has not read an unfinished line.
TailInv == \A e \in Event : step[e] = "writing" => ~ Torn

\* What the writer has read is still the tail.
FreshInv ==
    ~ overtaken => \A e \in Event :
        step[e] = "writing" =>
          /\ log # <<>> => Tail1.form = "whole"
          /\ prev[e] = IF log = <<>> THEN Genesis ELSE HashOf(Tail1)

InFile(e) == \E i \in 1..Len(log) : log[i].form = "whole" /\ log[i].event = e

\* An attempt that has not failed is in the file before its reply is chosen.
RecordInv == \A e \in Event :
    /\ step[e] \in {"unlocking", "closing"} /\ failed[e] = "no" => InFile(e)
    /\ FailClosed /\ reply[e] = "sent" => InFile(e)

AuditInv == LogTypes /\ TryCount /\ LockInv /\ TailInv /\ FreshInv /\ RecordInv
            /\ ChainIsUnbroken

(***************************************************************************)
(* How the file grows.                                                     *)
(***************************************************************************)

\* Lines that are whole stay where they are.
Grows(t) ==
    /\ t \in Seq(LineType)
    /\ \A i \in 1..Len(t) : t[i].form = "whole" => t[i].event \in Event
    /\ \A i \in 1..Len(log) : log[i].form = "whole" => i \in 1..Len(t) /\ t[i] = log[i]

LEMMA AppendedLine ==
    ASSUME LogTypes, NEW line \in LineType,
           line.form = "whole" => line.event \in Event
    PROVE  /\ Grows(Append(log, line))
           /\ Len(Append(log, line)) = Len(log) + 1
           /\ \A i \in 1..Len(log) : Append(log, line)[i] = log[i]
           /\ Append(log, line)[Len(log) + 1] = line
  <1>1. /\ Append(log, line) \in Seq(LineType)
        /\ Len(log) \in Nat
        /\ Len(Append(log, line)) = Len(log) + 1
        /\ \A i \in 1..Len(log) : Append(log, line)[i] = log[i]
        /\ Append(log, line)[Len(log) + 1] = line
    BY DEF LogTypes
  <1>2. \A i \in 1..(Len(log) + 1) : i \in 1..Len(log) \/ i = Len(log) + 1
    BY <1>1
  <1>3. Grows(Append(log, line))
    BY <1>1, <1>2 DEF Grows, LogTypes
  <1> QED BY <1>1, <1>3

LEMMA ReplacedLine ==
    ASSUME LogTypes, Torn, NEW line \in LineType,
           line.form = "whole" => line.event \in Event
    PROVE  /\ Grows(Replaced(line))
           /\ Len(log) \in Nat \ {0}
           /\ Len(Replaced(line)) = Len(log)
           /\ Replaced(line)[Len(log)] = line
  <1>1. Len(log) \in Nat \ {0} /\ log \in Seq(LineType)
    BY EmptySeq DEF LogTypes, Torn
  <1>2. Len(log) \in 1..Len(log)
    BY <1>1
  <1>3. /\ Replaced(line) \in Seq(LineType)
        /\ Len(Replaced(line)) = Len(log)
        /\ \A j \in 1..Len(log) : Replaced(line)[j] = IF j = Len(log) THEN line ELSE log[j]
    BY <1>1, <1>2, ExceptSeq DEF Replaced
  <1>4. log[Len(log)].form = "torn"
    BY DEF Torn, Tail1
  <1>5. Grows(Replaced(line))
    BY <1>2, <1>3, <1>4 DEF Grows, LogTypes
  <1> QED BY <1>1, <1>2, <1>3, <1>5

LEMMA LinesOfWriters ==
    ASSUME LogTypes, NEW e \in Event
    PROVE  /\ Line(e, "whole") \in LineType /\ Line(e, "whole").event = e
           /\ Line(e, "torn") \in LineType
           /\ Line(e, "torn").form = "torn" /\ Line(e, "whole").form = "whole"
           /\ Line(e, "whole").prev = prev[e]
           /\ Garbled \in LineType /\ Garbled.form = "garbled"
           /\ [Garbled EXCEPT !.form = "torn"] \in LineType
           /\ [Garbled EXCEPT !.form = "torn"].form = "torn"
  <1>1. Genesis \in Seq(Event)
    BY EmptySeq DEF Genesis
  <1> QED BY <1>1 DEF LogTypes, Line, Garbled, LineType

\* The three ways of writing let the file grow; none leaves a torn line where
\* there was none, except a write that fails.
LEMMA WritesGrow ==
    ASSUME LogTypes, NEW e \in Event
    PROVE  /\ Grows(log) /\ Grows(WithLine(e)) /\ Grows(WithHead(e)) /\ Grows(WithRest(e))
           /\ ~ Torn => /\ Len(WithLine(e)) = Len(log) + 1
                        /\ WithLine(e)[Len(log) + 1] = Line(e, "whole")
                        /\ \A i \in 1..Len(log) : WithLine(e)[i] = log[i]
           /\ ~ Torn => /\ Len(WithHead(e)) = Len(log) + 1
                        /\ WithHead(e)[Len(log) + 1] = Line(e, "torn")
                        /\ \A i \in 1..Len(log) : WithHead(e)[i] = log[i]
  <1>1. Grows(log)
    BY DEF Grows, LogTypes
  <1>2. CASE Torn
    BY <1>1, <1>2, ReplacedLine, LinesOfWriters DEF WithLine, WithHead, WithRest
  <1>3. CASE ~ Torn
    BY <1>1, <1>3, AppendedLine, LinesOfWriters DEF WithLine, WithHead, WithRest
  <1> QED BY <1>2, <1>3

\* A flush of what a failed write has left never leaves a torn tail.
LEMMA FlushesAreNotTorn ==
    ASSUME LogTypes, NEW e \in Event, log' \in {WithLine(e), WithRest(e)}
    PROVE  ~ Torn'
  <1>1. Len(log) \in Nat
    BY LenProperties DEF LogTypes
  <1>2. CASE Torn
    <2>1. PICK line \in LineType : /\ log' = Replaced(line)
                                   /\ line.form # "torn"
                                   /\ line.form = "whole" => line.event \in Event
      BY <1>2, LinesOfWriters DEF WithLine, WithRest
    <2>2. Len(log') = Len(log) /\ log'[Len(log)] = line
      BY <2>1, <1>2, ReplacedLine
    <2> QED BY <2>1, <2>2 DEF Torn, Tail1
  <1>3. CASE ~ Torn
    <2>1. PICK line \in LineType : /\ log' = Append(log, line)
                                   /\ line.form # "torn"
                                   /\ line.form = "whole" => line.event \in Event
      BY <1>3, LinesOfWriters DEF WithLine, WithRest
    <2>2. Len(log') = Len(log) + 1 /\ log'[Len(log) + 1] = line
      BY <2>1, AppendedLine
    <2> QED BY <2>1, <2>2 DEF Torn, Tail1
  <1> QED BY <1>2, <1>3

\* An event that is in the file stays in it.
LEMMA RecordsStay ==
    ASSUME LogTypes, Grows(log'), NEW e \in Event, InFile(e)
    PROVE  InFile(e)'
  BY DEF InFile, Grows

(***************************************************************************)
(* The steps of a writer, one lemma for each part of the invariant.        *)
(***************************************************************************)

Writing(e) == WriteSucceeds(e) \/ FsyncFails(e) \/ WriteFails(e)
Step(e) == Begin(e) \/ ReadTail(e) \/ Writing(e) \/ Unlock(e) \/ Close(e)

\* The hash that is read belongs to a whole line or is the first one.
LEMMA HashRead ==
    ASSUME LogTypes, log = <<>> \/ Tail1.form = "whole"
    PROVE  (IF log = <<>> THEN Genesis ELSE HashOf(Tail1)) \in Seq(Event)
  <1>1. CASE log = <<>>
    BY <1>1, EmptySeq DEF Genesis
  <1>2. CASE log # <<>>
    <2>1. Len(log) \in 1..Len(log)
      BY <1>2, EmptySeq DEF LogTypes
    <2>2. Tail1 \in LineType /\ Tail1.event \in Event
      BY <1>2, <2>1, ElementOfSeq DEF Tail1, LogTypes
    <2> QED BY <1>2, <2>2 DEF HashOf, LineType
  <1> QED BY <1>1, <1>2

LEMMA StepGrows ==
    ASSUME LogTypes, NEW e \in Event, Step(e)
    PROVE  Grows(log')
  BY WritesGrow DEF Step, Begin, ReadTail, Writing, WriteSucceeds, FsyncFails, WriteFails,
                    Unlock, Close

LEMMA StepTypes ==
    ASSUME LogTypes, TryCount, NEW e \in Event, Step(e)
    PROVE  LogTypes' /\ TryCount'
  <1>1. /\ log' \in Seq(LineType)
        /\ \A i \in 1..Len(log') : log'[i].form = "whole" => log'[i].event \in Event
    BY StepGrows DEF Grows
  <1> USE DEF LogTypes, TryCount, AuditGoto, Appending
  <1>2. CASE Begin(e)
    <2>1. tries[e] < Attempts
      BY <1>2, AttemptsAssumption DEF Begin, AttemptsAssumption
    <2>2. tries[e] + 1 \in 0..Attempts
      BY <2>1, AttemptsAssumption DEF AttemptsAssumption
    <2> QED BY <1>1, <1>2, <2>2 DEF Begin
  <1>3. CASE ReadTail(e)
    BY <1>1, <1>3, HashRead DEF ReadTail, Tip
  <1>4. CASE Writing(e)
    BY <1>1, <1>4 DEF Writing, WriteSucceeds, FsyncFails, WriteFails
  <1>5. CASE Unlock(e)
    BY <1>1, <1>5 DEF Unlock
  <1>6. CASE Close(e)
    <2>1. Genesis \in Seq(Event)
      BY EmptySeq DEF Genesis
    <2>2. overtaken' \in BOOLEAN
      BY <1>6 DEF Close
    <2>3. reply' \in [Event -> {"none", "sent", "refused", "cut"}]
      BY <1>6 DEF Close, Replies
    <2>4. step' \in [Event -> Appending \cup {"new", "resting", "kept", "lost", "dead"}]
      <3>1. PICK w \in {"resting", "kept", "lost"} : step' = [step EXCEPT ![e] = w]
        BY <1>6 DEF Close
      <3> QED BY <3>1
    <2>5. TryCount'
      BY <1>6, AttemptsAssumption DEF Close, MayRetry, AttemptsAssumption
    <2> QED BY <1>1, <1>6, <2>1, <2>2, <2>3, <2>4, <2>5 DEF Close
  <1> QED BY <1>2, <1>3, <1>4, <1>5, <1>6 DEF Step

LEMMA StepLocks ==
    ASSUME LogTypes, LockInv, NEW e \in Event, Step(e)
    PROVE  LockInv'
  <1> USE DEF LogTypes, LockInv, AuditGoto, Holding
  <1>1. CASE Begin(e)
    BY <1>1, EventAssumption DEF Begin, LockIsFree, EventAssumption
  <1>2. CASE ReadTail(e)
    BY <1>2 DEF ReadTail
  <1>3. CASE Writing(e)
    BY <1>3 DEF Writing, WriteSucceeds, FsyncFails, WriteFails
  <1>4. CASE Unlock(e)
    BY <1>4 DEF Unlock
  <1>5. CASE Close(e)
    BY <1>5 DEF Close
  <1> QED BY <1>1, <1>2, <1>3, <1>4, <1>5 DEF Step

\* Who is about to write after the step was so before it, or has just read.
LEMMA WritersBefore ==
    ASSUME LogTypes, NEW e \in Event, Step(e), NEW f \in Event, step'[f] = "writing"
    PROVE  \/ f = e /\ ReadTail(e) /\ (log = <<>> \/ Tail1.form = "whole")
           \/ f # e /\ step[f] = "writing" /\ prev'[f] = prev[f]
  BY DEF Step, Begin, ReadTail, Writing, WriteSucceeds, FsyncFails, WriteFails, Unlock,
         Close, AuditGoto, LogTypes

\* While somebody is writing, nobody else changes the file, unless it flushes.
LEMMA OthersLeaveTheFile ==
    ASSUME LogTypes, LockInv, NEW e \in Event, Step(e),
           NEW f \in Event, step[f] = "writing", f # e
    PROVE  \/ log' = log
           \/ log' \in {WithLine(e), WithRest(e)} /\ overtaken'
  <1>1. step[e] \notin Holding
    BY DEF LockInv, Holding
  <1>2. ~ Undisturbed(e)
    BY DEF Undisturbed
  <1> QED BY <1>1, <1>2 DEF Step, Begin, ReadTail, Writing, WriteSucceeds, FsyncFails,
                            WriteFails, Unlock, Close, Holding

LEMMA StepTail ==
    ASSUME LogTypes, LockInv, TailInv, NEW e \in Event, Step(e)
    PROVE  TailInv'
  <1> SUFFICES ASSUME NEW f \in Event, step'[f] = "writing" PROVE ~ Torn'
    BY DEF TailInv
  <1>1. CASE ReadTail(e) /\ (log = <<>> \/ Tail1.form = "whole")
    BY <1>1 DEF ReadTail, Torn, Tail1
  <1>2. CASE f # e /\ step[f] = "writing"
    <2>1. CASE log' = log
      BY <1>2, <2>1 DEF TailInv, Torn, Tail1
    <2>2. CASE log' \in {WithLine(e), WithRest(e)}
      BY <2>2, FlushesAreNotTorn
    <2> QED BY <1>2, <2>1, <2>2, OthersLeaveTheFile
  <1> QED BY <1>1, <1>2, WritersBefore

LEMMA StepFresh ==
    ASSUME LogTypes, LockInv, FreshInv, NEW e \in Event, Step(e)
    PROVE  FreshInv'
  <1> SUFFICES ASSUME ~ overtaken', NEW f \in Event, step'[f] = "writing"
               PROVE  /\ log' # <<>> => Tail1'.form = "whole"
                      /\ prev'[f] = IF log' = <<>> THEN Genesis ELSE HashOf(Tail1')
    BY DEF FreshInv, Genesis, HashOf
  <1>1. ~ overtaken
    BY DEF Step, Begin, ReadTail, Writing, WriteSucceeds, FsyncFails, WriteFails, Unlock,
           Close
  <1>2. CASE f = e /\ ReadTail(e) /\ (log = <<>> \/ Tail1.form = "whole")
    BY <1>2 DEF ReadTail, Tip, Tail1, LogTypes, Genesis, HashOf
  <1>3. CASE f # e /\ step[f] = "writing" /\ prev'[f] = prev[f]
    <2>1. log' = log
      BY <1>3, OthersLeaveTheFile
    <2> QED BY <1>1, <1>3, <2>1 DEF FreshInv, Tail1
  <1> QED BY <1>2, <1>3, WritersBefore

LEMMA StepRecords ==
    ASSUME LogTypes, TailInv, RecordInv, NEW e \in Event, Step(e)
    PROVE  RecordInv'
  <1>1. Grows(log')
    BY StepGrows
  <1>2. \A f \in Event : InFile(f) => InFile(f)'
    BY <1>1, RecordsStay
  <1>3. \A f \in Event \ {e} : step'[f] = step[f] /\ failed'[f] = failed[f] /\ reply'[f] = reply[f]
    BY DEF Step, Begin, ReadTail, Writing, WriteSucceeds, FsyncFails, WriteFails, Unlock,
           Close, AuditGoto, LogTypes
  <1>4. /\ step'[e] \in {"unlocking", "closing"} /\ failed'[e] = "no" => InFile(e)'
        /\ FailClosed /\ reply'[e] = "sent" => InFile(e)'
    <2> USE DEF AuditGoto, LogTypes, RecordInv
    <2>1. CASE Begin(e)
      BY <2>1, <1>2 DEF Begin
    <2>2. CASE ReadTail(e)
      BY <2>2, <1>2 DEF ReadTail
    <2>3. CASE WriteSucceeds(e)
      <3>1. ~ Torn /\ log' = WithLine(e)
        BY <2>3 DEF WriteSucceeds, TailInv
      <3>2. Len(log) \in Nat
        BY LenProperties
      <3>3. Len(log') = Len(log) + 1 /\ log'[Len(log) + 1] = Line(e, "whole")
        BY <3>1, WritesGrow
      <3>4. Len(log) + 1 \in 1..Len(log')
        BY <3>2, <3>3
      <3>5. Line(e, "whole").form = "whole" /\ Line(e, "whole").event = e
        BY LinesOfWriters
      <3>6. \E i \in 1..Len(log') : log'[i].form = "whole" /\ log'[i].event = e
        BY <3>3, <3>4, <3>5
      <3>7. InFile(e)'
        BY <3>6 DEF InFile
      <3> QED BY <3>7
    <2>4. CASE FsyncFails(e) \/ WriteFails(e)
      BY <2>4, <1>2 DEF FsyncFails, WriteFails
    <2>5. CASE Unlock(e)
      BY <2>5, <1>2 DEF Unlock
    <2>6. CASE Close(e)
      <3>1. step'[e] \notin {"unlocking", "closing"}
        BY <2>6 DEF Close
      <3>2. FailClosed /\ reply'[e] = "sent" => reply[e] = "sent" \/ failed[e] = "no"
        BY <2>6 DEF Close, Replies
      <3> QED BY <3>1, <3>2, <2>6, <1>2 DEF Close
    <2> QED BY <2>1, <2>2, <2>3, <2>4, <2>5, <2>6 DEF Step, Writing
  <1> QED BY <1>2, <1>3, <1>4 DEF RecordInv

\* One line more, after the tail whose hash it has.
LEMMA StepChain ==
    ASSUME LogTypes, TailInv, FreshInv, ChainIsUnbroken, NEW e \in Event, Step(e)
    PROVE  ChainIsUnbroken'
  <1> SUFFICES ASSUME ~ overtaken'
               PROVE  \A i \in DOMAIN log' :
                        /\ log'[i].form = "whole" \/ (log'[i].form = "torn" /\ i = Len(log'))
                        /\ log'[i].prev = IF i = 1 THEN Genesis ELSE HashOf(log'[i - 1])
    BY DEF ChainIsUnbroken, Genesis, HashOf
  <1>1. ~ overtaken
    BY DEF Step, Begin, ReadTail, Writing, WriteSucceeds, FsyncFails, WriteFails, Unlock,
           Close
  <1>2. CASE log' = log
    BY <1>1, <1>2 DEF ChainIsUnbroken
  <1>3. ASSUME log' \in {WithLine(e), WithHead(e)}, ~ Torn, prev[e] = Tip
        PROVE  \A i \in DOMAIN log' :
                 /\ log'[i].form = "whole" \/ (log'[i].form = "torn" /\ i = Len(log'))
                 /\ log'[i].prev = IF i = 1 THEN Genesis ELSE HashOf(log'[i - 1])
    <2>1. log' \in {WithLine(e), WithHead(e)}
      BY <1>3
    <2>2. ~ Torn
      BY <1>3
    <2>3. prev[e] = IF log = <<>> THEN Genesis ELSE HashOf(Tail1)
      BY <1>3 DEF Tip
    <2>4. PICK line \in {Line(e, "whole"), Line(e, "torn")} :
             /\ Len(log') = Len(log) + 1
             /\ log'[Len(log) + 1] = line
             /\ \A i \in 1..Len(log) : log'[i] = log[i]
      BY <2>1, <2>2, WritesGrow
    <2>5. /\ Len(log) \in Nat /\ DOMAIN log = 1..Len(log) /\ DOMAIN log' = 1..Len(log')
          /\ log = <<>> <=> Len(log) = 0
      <3>1. log' \in Seq(LineType)
        BY StepGrows DEF Grows
      <3> QED BY <3>1, LenProperties, EmptySeq DEF LogTypes
    <2>6. \A i \in 1..Len(log) : /\ log'[i].form = "whole"
                                 /\ log'[i].prev = IF i = 1 THEN Genesis ELSE HashOf(log'[i - 1])
      <3>1. \A i \in 1..Len(log) :
               /\ log[i].form = "whole"
               /\ log[i].prev = IF i = 1 THEN Genesis ELSE HashOf(log[i - 1])
        BY <1>1, <2>2, <2>5 DEF ChainIsUnbroken, Torn, Tail1
      <3>2. \A i \in 1..Len(log) : i # 1 => i - 1 \in 1..Len(log)
        BY <2>5
      <3> QED BY <3>1, <3>2, <2>4
    <2>7. line.prev = IF Len(log) + 1 = 1 THEN Genesis ELSE HashOf(log'[Len(log)])
      <3>1. line.prev = prev[e]
        BY <2>4 DEF Line
      <3>2. CASE Len(log) = 0
        BY <3>1, <3>2, <2>3, <2>5
      <3>3. CASE Len(log) # 0
        <4>1. log'[Len(log)] = Tail1
          BY <3>3, <2>4, <2>5 DEF Tail1
        <4> QED BY <3>1, <3>3, <4>1, <2>3, <2>5
      <3> QED BY <3>2, <3>3
    <2>8. line.form \in {"whole", "torn"}
      BY <2>4 DEF Line
    <2> QED
      <3> TAKE i \in DOMAIN log'
      <3>1. i \in 1..Len(log) \/ i = Len(log) + 1
        BY <2>4, <2>5
      <3>2. CASE i \in 1..Len(log)
        <4>1. log'[i].form = "whole"
          BY <3>2, <2>6
        <4> QED BY <4>1, <3>2, <2>6
      <3>3. CASE i = Len(log) + 1
        <4>1. i - 1 = Len(log) /\ log'[i] = line /\ i = Len(log')
          BY <3>3, <2>4, <2>5
        <4> QED BY <4>1, <3>3, <2>7, <2>8
      <3> QED BY <3>1, <3>2, <3>3
  <1>4. ASSUME log' = WithRest(e), Torn, Tail1 = Line(e, "torn")
        PROVE  \A i \in DOMAIN log' :
                 /\ log'[i].form = "whole" \/ (log'[i].form = "torn" /\ i = Len(log'))
                 /\ log'[i].prev = IF i = 1 THEN Genesis ELSE HashOf(log'[i - 1])
    <2>1. log' = [log EXCEPT ![Len(log)] = Line(e, "whole")]
      BY <1>4 DEF WithRest, Replaced
    <2>2. /\ Len(log) \in Nat /\ DOMAIN log = 1..Len(log)
          /\ Len(log) # 0
      BY <1>4, LenProperties, EmptySeq DEF LogTypes, Torn
    <2>3. /\ DOMAIN log' = 1..Len(log)
          /\ log'[Len(log)] = Line(e, "whole")
          /\ \A i \in 1..Len(log) : i # Len(log) => log'[i] = log[i]
      <3>1. Len(log) \in DOMAIN log
        BY <2>2
      <3>2. /\ DOMAIN log' = DOMAIN log
            /\ log'[Len(log)] = Line(e, "whole")
            /\ \A i \in DOMAIN log : i # Len(log) => log'[i] = log[i]
        BY <2>1, <3>1, Zenon
      <3> QED BY <3>2, <2>2
    <2>4. Line(e, "whole").form = "whole" /\ Line(e, "whole").prev = log[Len(log)].prev
      BY <1>4 DEF Line, Tail1
    <2>5. \A i \in 1..Len(log) :
             /\ i # Len(log) => log[i].form = "whole"
             /\ log[i].prev = IF i = 1 THEN Genesis ELSE HashOf(log[i - 1])
      BY <1>1, <2>2 DEF ChainIsUnbroken
    <2> SUFFICES ASSUME NEW i \in 1..Len(log)
                 PROVE  /\ log'[i].form = "whole"
                        /\ log'[i].prev = IF i = 1 THEN Genesis ELSE HashOf(log'[i - 1])
      BY <2>3
    <2>6. log'[i].form = "whole" /\ log'[i].prev = log[i].prev
      BY <2>3, <2>4, <2>5
    <2>7. i # 1 => log'[i - 1] = log[i - 1]
      <3>1. i # 1 => i - 1 \in 1..Len(log) /\ i - 1 # Len(log)
        BY <2>2
      <3> QED BY <3>1, <2>3
    <2> QED BY <2>5, <2>6, <2>7
  <1>5. \/ log' = log
        \/ step[e] = "writing" /\ log' \in {WithLine(e), WithHead(e)}
        \/ log' = WithLine(e) /\ ~ Torn /\ prev[e] = Tip
        \/ log' = WithRest(e) /\ Torn /\ Tail1 = Line(e, "torn")
    <2>1. CASE Close(e)
      <3>1. \/ log' = log
            \/ /\ log' = IF buffer[e] = "line" THEN WithLine(e) ELSE WithRest(e)
               /\ buffer[e] \in {"line", "rest"}
               /\ Undisturbed(e)
        BY <2>1 DEF Close, LogTypes
      <3> QED BY <3>1 DEF Undisturbed
    <2>2. CASE ~ Close(e)
      BY <2>2 DEF Step, Begin, ReadTail, Writing, WriteSucceeds, FsyncFails, WriteFails, Unlock
    <2> QED BY <2>1, <2>2
  <1>6. step[e] = "writing" => ~ Torn /\ prev[e] = Tip
    BY <1>1 DEF TailInv, FreshInv, Tip
  <1> QED BY <1>2, <1>3, <1>4, <1>5, <1>6

\* The death of a process stops its writers and takes their bytes along.
LEMMA DeathKeepsAll ==
    ASSUME AuditInv, NEW p, Dies(p)
    PROVE  AuditInv'
  <1>1. UNCHANGED <<log, failed, tries, reply, overtaken>>
    BY DEF Dies
  <1>2. LogTypes' /\ TryCount'
    <2>1. Genesis \in Seq(Event)
      BY EmptySeq DEF Genesis
    <2> QED BY <1>1, <2>1 DEF AuditInv, LogTypes, TryCount, Dies, Appending
  <1>3. \A e \in Event :
           \/ step'[e] = "dead"
           \/ /\ step'[e] = step[e]
              /\ step[e] \in Holding => Home[e] # p /\ prev'[e] = prev[e]
    BY DEF AuditInv, LogTypes, Dies, Holding
  <1>4. LockInv'
    BY <1>3 DEF AuditInv, LockInv, Dies, Holding
  <1>5. TailInv' /\ FreshInv'
    <2>1. \A e \in Event : step'[e] = "writing" => step[e] = "writing" /\ prev'[e] = prev[e]
      <3> TAKE e \in Event
      <3>1. CASE step'[e] = "dead"
        BY <3>1
      <3>2. CASE step'[e] # "dead"
        BY <3>2, <1>3 DEF Holding
      <3> QED BY <3>1, <3>2
    <2>2. (Torn <=> Torn') /\ Tail1' = Tail1
      BY <1>1 DEF Torn, Tail1
    <2>3. TailInv'
      BY <2>1, <2>2 DEF AuditInv, TailInv
    <2>4. FreshInv'
      BY <1>1, <2>1, <2>2 DEF AuditInv, FreshInv
    <2> QED BY <2>3, <2>4
  <1>6. RecordInv'
    <2>1. \A e \in Event : step'[e] \in {"unlocking", "closing"} => step'[e] = step[e]
      <3> TAKE e \in Event
      <3>1. CASE step'[e] = "dead"
        BY <3>1
      <3>2. CASE step'[e] # "dead"
        BY <3>2, <1>3
      <3> QED BY <3>1, <3>2
    <2>2. \A e \in Event : InFile(e) <=> InFile(e)'
      BY <1>1 DEF InFile
    <2> QED BY <1>1, <2>1, <2>2 DEF AuditInv, RecordInv
  <1>7. ChainIsUnbroken'
    BY <1>1 DEF AuditInv, ChainIsUnbroken
  <1> QED BY <1>2, <1>4, <1>5, <1>6, <1>7 DEF AuditInv

LEMMA AuditInvHolds == AuditSpec => []AuditInv
  <1>1. AuditInit => AuditInv
    <2> SUFFICES ASSUME AuditInit PROVE AuditInv
      OBVIOUS
    <2>1. log = <<>> /\ Len(log) = 0 /\ log \in Seq(LineType) /\ Genesis \in Seq(Event)
      BY EmptySeq DEF AuditInit, Genesis
    <2>2. LogTypes
      <3>1. \A i \in 1..Len(log) : log[i].form = "whole" => log[i].event \in Event
        BY <2>1
      <3>2. /\ step \in [Event -> Appending \cup {"new", "resting", "kept", "lost", "dead"}]
            /\ prev \in [Event -> Seq(Event)]
        BY <2>1 DEF AuditInit
      <3> QED BY <2>1, <3>1, <3>2 DEF AuditInit, LogTypes
    <2>5. TryCount
      BY AttemptsAssumption DEF AuditInit, TryCount, AttemptsAssumption
    <2>3. LockInv /\ TailInv /\ FreshInv /\ RecordInv
      BY DEF AuditInit, LockInv, TailInv, FreshInv, RecordInv, Holding
    <2>4. ChainIsUnbroken
      BY <2>1 DEF ChainIsUnbroken
    <2> QED BY <2>2, <2>3, <2>4, <2>5 DEF AuditInv
  <1>2. AuditInv /\ [AuditNext]_auditVars => AuditInv'
    <2> SUFFICES ASSUME AuditInv, [AuditNext]_auditVars PROVE AuditInv'
      OBVIOUS
    <2>1. CASE \E e \in Event : Step(e)
      BY <2>1, StepTypes, StepLocks, StepTail, StepFresh, StepRecords, StepChain DEF AuditInv
    <2>2. CASE \E p \in {Home[e] : e \in Event} : Dies(p)
      BY <2>2, DeathKeepsAll
    <2>3. CASE UNCHANGED auditVars
      BY <2>3 DEF auditVars, AuditInv, LogTypes, TryCount, LockInv, TailInv, FreshInv,
                  RecordInv, InFile, ChainIsUnbroken, Torn, Tail1
    <2> QED BY <2>1, <2>2, <2>3 DEF AuditNext, Step, Writing
  <1> QED BY <1>1, <1>2, PTL DEF AuditSpec

\* Type correctness, for any events, processes and number of attempts.
THEOREM AuditTypeCorrect == AuditSpec => []AuditTypeOK
  <1>1. AuditInv => AuditTypeOK
    <2> SUFFICES ASSUME AuditInv PROVE AuditTypeOK
      OBVIOUS
    <2>1. \A i \in DOMAIN log : log[i] \in LineType
      BY LenProperties, ElementOfSeq DEF AuditInv, LogTypes
    <2> QED BY <2>1 DEF AuditInv, LogTypes, TryCount, AuditTypeOK, LineType
  <1> QED BY <1>1, AuditInvHolds, PTL

\* The file of audit.py verifies up to a torn last line, whatever appends fail,
\* retry, die and are flushed after their lock was given back, as long as no
\* buffer is flushed behind another writer, which had the lock in between.
THEOREM ChainStaysUnbroken == AuditSpec => []ChainIsUnbroken
  <1>1. AuditInv => ChainIsUnbroken
    BY DEF AuditInv
  <1> QED BY <1>1, AuditInvHolds, PTL

\* Under TUSKER_AUDIT_FAIL_CLOSED a request that goes on has its event in a
\* whole line of the file, also when buffers were flushed late.
THEOREM AnswersAreRecorded == AuditSpec => []AnsweredIsRecorded
  <1>1. AuditInv => AnsweredIsRecorded
    BY LenProperties DEF AuditInv, LogTypes, RecordInv, InFile, AnsweredIsRecorded
  <1> QED BY <1>1, AuditInvHolds, PTL
=============================================================================
