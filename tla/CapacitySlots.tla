---------------------------- MODULE CapacitySlots ----------------------------
(***************************************************************************)
(* What the capacity gate promises of every bounded provider group: a      *)
(* holder takes a slot when one is free and gives it back once, so the     *)
(* slots in use are as many as their holders and no more than the limit.   *)
(***************************************************************************)
EXTENDS Integers

CONSTANTS Bounded, Holder, Bound

VARIABLES used, holders

slotsVars == <<used, holders>>

SlotsInit ==
    /\ used = [g \in Bounded |-> 0]
    /\ holders = [g \in Bounded |-> {}]

Take(g, h) ==
    /\ h \notin holders[g]
    /\ used[g] < Bound[g]
    /\ used' = [used EXCEPT ![g] = @ + 1]
    /\ holders' = [holders EXCEPT ![g] = @ \cup {h}]

GiveBack(g, h) ==
    /\ h \in holders[g]
    /\ used' = [used EXCEPT ![g] = @ - 1]
    /\ holders' = [holders EXCEPT ![g] = @ \ {h}]

SlotsNext == \E g \in Bounded, h \in Holder : Take(g, h) \/ GiveBack(g, h)

SlotsSpec == SlotsInit /\ [][SlotsNext]_slotsVars
=============================================================================
