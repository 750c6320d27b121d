------------------------------ MODULE MCStreams ------------------------------
(***************************************************************************)
(* The turns of a stream and the catalogs of a pool, side by side for TLC: *)
(* the initial state says which of them runs.                              *)
(***************************************************************************)
EXTENDS StreamTurn, AutoCatalog, TLC

CONSTANTS a, b, go, or

\* One provider has prices in its catalog, the other leaves them to models.dev.
MCProviderOf == a :> go @@ b :> or

VARIABLE running

mcVars == <<running, turnVars, catalogVars>>

\* The one that does not run has one initial state.
Init ==
    /\ TurnInit /\ CatalogInit
    /\ running \in {"turn", "catalog"}
    /\ running = "turn" => /\ deployment = [pools |-> "environment", rebuilds |-> FALSE]
                           /\ pools[1].models = Listable
    /\ running = "catalog" => turn = [wants |-> "answer", restoring |-> FALSE, style |-> "text"]

Turning == running = "turn" /\ TurnNext /\ UNCHANGED <<running, catalogVars>>
Alone == running = "catalog" /\ UNCHANGED <<running, turnVars>>

Next == Turning \/ (CatalogNext /\ Alone)

\* CatalogFairness; a turn may stop anywhere.
Fairness ==
    /\ \A c \in Client : WF_mcVars(Fetches(c) /\ Alone)
    /\ WF_mcVars(PricesFilled /\ Alone) /\ WF_mcVars(Booted /\ Alone)
    /\ WF_mcVars(HookReads /\ Alone) /\ WF_mcVars(HookReplaces /\ Alone)
    /\ WF_mcVars(WaitEnds /\ Alone) /\ WF_mcVars(Publish /\ Alone)
    /\ WF_mcVars(\E h \in hooks : OldHookReplaces(h) /\ Alone)

Spec == Init /\ [][Next]_mcVars /\ Fairness

\* Both keep to the types of their variables.
StreamsTypeOK == TurnTypeOK /\ CatalogTypeOK
=============================================================================
