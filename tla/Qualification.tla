---------------------------- MODULE Qualification ----------------------------
(***************************************************************************)
(* The background probes of what a route can do: calls of tools, answers   *)
(* of a given structure, images, images with tools, embeddings             *)
(* (tool_qualification.py, structured_qualification.py,                    *)
(* modality_qualification.py, media_qualification.py, the cycles of        *)
(* maintenance.py), the rows they keep (tool_capability.py,                *)
(* model_capability.py) and the gates of pool selection that read them     *)
(* (pools.py).                                                             *)
(*                                                                         *)
(* The rows of the kinds do not touch each other: kind is the one of this  *)
(* behaviour.  Maintenance says when a cycle of it runs.  The versions of  *)
(* the probes stay what they are.                                          *)
(***************************************************************************)
EXTENDS Integers, Sequences, FiniteSets, SequencesExt

CONSTANTS
    Route,      \* routes, numbered in the order of their names
    ProviderOf, \* their providers
    Found,      \* the auto-discovered ones; the others are curated
    Limit,      \* of a batch
    MaxRounds   \* TUSKER_STRUCTURED_QUALIFICATION_MAX_ROUNDS

ASSUME QualificationAssumption ==
    Route \subseteq Nat /\ Found \subseteq Route /\ {Limit, MaxRounds} \subseteq Nat \ {0}

VARIABLES
    kind,        \* of this behaviour
    evidence,    \* the row of each route
    batch,       \* the routes that the cycle has still to probe
    round,       \* of the cycle, 0 without one
    spent,       \* provider_quota_exhausted
    barred,      \* mark_permanently_failed
    discovering, \* routes whose row a catalog refresh has read, to write it
    proved,      \* history: the last verdict of a probe
    rejected     \* history: routes whose credential a probe found refused

probeVars == <<kind, evidence, batch, round, spent, barred, discovering, proved, rejected>>

Kind == {"tools", "structured", "modality", "composite", "media"}

\* "unsupported" has the failed tool contracts, too.
Definitive == {"passed", "unsupported"}
Evidence == Definitive \cup {"none", "advertised", "unavailable", "auth_failed"}

-----------------------------------------------------------------------------
(* What can come of a probe, and what it says of the route.                  *)

\* Credential refused; account without quota, or unpaid; rejected as a thing the
\* model cannot do; outages, too many requests, time out.
Failure == {"refused", "quota", "billing", "cannot", "down"}

\* An error in a stream without a call, which says nothing of the model.
StreamError == "stream error"

\* As asked for, not as asked for, or neither.
ToolsReply == Failure \cup {"good", "wrong", StreamError}
CompositeReply == ToolsReply
StructuredReply == Failure \cup {"good", "wrong"}
ModalityReply == Failure \cup {"good", "wrong"}
MediaReply == Failure \cup {"good", "wrong"}

ToolsFailure(reply) ==
    CASE reply = "cannot"  -> "unsupported"
      [] reply = "refused" -> "auth_failed"
      [] OTHER             -> "unavailable"

ToolsStatus(reply) ==
    CASE reply = "good"  -> "passed"
      [] reply = "wrong" -> "unsupported"
      [] OTHER           -> ToolsFailure(reply)

\* They differ in the words they look for.
CompositeStatus(reply) == ToolsStatus(reply)
StructuredStatus(reply) == ToolsStatus(reply)
ModalityStatus(reply) == ToolsStatus(reply)

MediaStatus(reply) ==
    CASE reply = "good"   -> "passed"
      [] reply = "cannot" -> "unsupported"
      [] OTHER            -> "unavailable"

-----------------------------------------------------------------------------
(* Batches.                                                                  *)

Unseen(r) == evidence[r] = "none"

\* The _needs_probe of each kind; lapsed are the rows whose time is up, which is
\* another for what was unavailable and for what was refused.
ToolsDue(lapsed) == {r \in Route : Unseen(r)} \cup lapsed
StructuredDue(lapsed) == {r \in Route : Unseen(r)} \cup lapsed
ModalityDue(lapsed) == {r \in Route : evidence[r] \in {"none", "advertised"}} \cup lapsed
CompositeDue(lapsed) == {r \in Route : evidence[r] \in {"none", "unavailable"}} \cup lapsed

InOrder(S) == SetToSortSeq(S, <)

\* _probe_priority; which of the evidence is the oldest is left open by lapsed.
UnseenFirst(S) == InOrder({r \in S : Unseen(r)}) \o InOrder({r \in S : ~ Unseen(r)})

\* One of each provider, then the next of each.
ByProvider(S) ==
    LET Place(r) == Cardinality({q \in S : ProviderOf[q] = ProviderOf[r] /\ q < r})
    IN  SetToSortSeq(S, LAMBDA r, q : \/ Place(r) < Place(q)
                                      \/ Place(r) = Place(q) /\ ProviderOf[r] < ProviderOf[q])

\* _interleave_probe_candidates
Interleaved(S) ==
    LET unproven == {r \in S : evidence[r] \in Definitive \cup {"none"}}
    IN  ByProvider(unproven) \o ByProvider(S \ unproven)

Bounded(seq) == IF Len(seq) <= Limit THEN seq ELSE SubSeq(seq, 1, Limit)

\* Routes in a cooldown or for good without a credential are not asked.
Asked(due, cooling) == due \ (barred \cup cooling)

Begin(seq) ==
    /\ round = 0 /\ round' = 1 /\ spent' = {} /\ batch' = seq
    /\ UNCHANGED <<kind, evidence, barred, discovering, proved, rejected>>

StartTools(lapsed, cooling) ==
    kind = "tools" /\ Begin(Bounded(InOrder(Asked(ToolsDue(lapsed), cooling))))

StartModality(lapsed, cooling) ==
    kind = "modality" /\ Begin(Bounded(InOrder(Asked(ModalityDue(lapsed), cooling))))

\* These two skip nobody.
StartComposite(lapsed) == kind = "composite" /\ Begin(Bounded(Interleaved(CompositeDue(lapsed))))
StartMedia == kind = "media" /\ Begin(Bounded(InOrder(Route)))

\* run_structured_maintenance_cycle passes no limit on.
StructuredBatch(lapsed, cooling) == UnseenFirst(Asked(StructuredDue(lapsed), cooling))
StartStructured(lapsed, cooling) ==
    kind = "structured" /\ Begin(StructuredBatch(lapsed, cooling))

\* qualified_count: what selection would choose among the fresh passes.
Qualified(fresh) == {r \in fresh \ barred : evidence[r] = "passed"}

\* While fewer than two are qualified the cycle goes round again.
NextRound(lapsed, cooling) ==
    /\ kind = "structured" /\ round \in 1 .. MaxRounds - 1 /\ batch = <<>>
    /\ Cardinality(Qualified(Route \ (lapsed \cup cooling))) < 2
    /\ batch' = StructuredBatch(lapsed, cooling) /\ round' = round + 1
    /\ UNCHANGED <<kind, evidence, spent, barred, discovering, proved, rejected>>

EndCycle ==
    /\ round > 0 /\ batch = <<>> /\ round' = 0
    /\ UNCHANGED <<kind, evidence, batch, spent, barred, discovering, proved, rejected>>

-----------------------------------------------------------------------------
(* Probes, one at a time.                                                    *)

Probed == Head(batch)
Asking(k) == kind = k /\ batch # <<>> /\ batch' = Tail(batch)

Store(status) == evidence' = [evidence EXCEPT ![Probed] = status]

\* History
Note(status) ==
    /\ proved' = IF status \in Definitive THEN [proved EXCEPT ![Probed] = status] ELSE proved
    /\ rejected' = IF status = "auth_failed" THEN rejected \cup {Probed} ELSE rejected

\* _record_durable_auth_failure
Bar(status) == barred' = IF status = "auth_failed" THEN barred \cup {Probed} ELSE barred

\* A provider without quota is not asked again in this cycle.
ProbeTools(reply) ==
    /\ Asking("tools") /\ ProviderOf[Probed] \notin spent
    /\ Store(ToolsStatus(reply)) /\ Bar(ToolsStatus(reply)) /\ Note(ToolsStatus(reply))
    /\ spent' = IF reply = "quota" THEN spent \cup {ProviderOf[Probed]} ELSE spent
    /\ UNCHANGED <<kind, round, discovering>>

SkipSpent ==
    /\ Asking("tools") /\ ProviderOf[Probed] \in spent
    /\ UNCHANGED <<kind, evidence, round, spent, barred, discovering, proved, rejected>>

\* Here a refusal is written down as unavailable.
ProbeModality(reply) ==
    LET status == ModalityStatus(reply)
    IN  /\ Asking("modality")
        /\ Store(IF status = "auth_failed" THEN "unavailable" ELSE status)
        /\ Bar(status) /\ Note(status)
        /\ UNCHANGED <<kind, round, spent, discovering>>

ProbeMedia(reply) ==
    /\ Asking("media") /\ Store(MediaStatus(reply)) /\ Note(MediaStatus(reply))
    /\ UNCHANGED <<kind, round, spent, barred, discovering>>

\* ModelCapabilityDB.record takes no auth_failed.
Recordable(status) == status # "auth_failed"

ProbeStructured(reply) ==
    /\ Asking("structured") /\ Recordable(StructuredStatus(reply))
    /\ Store(StructuredStatus(reply)) /\ Note(StructuredStatus(reply))
    /\ UNCHANGED <<kind, round, spent, barred, discovering>>

\* Fault: what was unavailable is written over a pass.
KeptNever(r, status) == FALSE

\* _composite_probe_keeps_passing_evidence
Kept(r, status) == kind = "composite" /\ evidence[r] = "passed" /\ status = "unavailable"

\* Too many requests are answered by one more probe, whose reply counts.
ProbeComposite(reply) ==
    LET status == CompositeStatus(reply)
    IN  /\ Asking("composite") /\ Recordable(status)
        /\ IF Kept(Probed, status) THEN UNCHANGED evidence ELSE Store(status)
        /\ Note(status)
        /\ UNCHANGED <<kind, round, spent, barred, discovering>>

\* The ValueError of record ends the gather of either kind; a probe that has
\* begun meanwhile may lose its session.
Abort(disturbed) ==
    /\ kind \in {"structured", "composite"} /\ batch # <<>>
    /\ Note("auth_failed")
    /\ evidence' = [r \in Route |->
                      IF /\ disturbed /\ Len(batch) > 1 /\ r = batch[2]
                         /\ ~ Kept(r, "unavailable")
                      THEN "unavailable" ELSE evidence[r]]
    /\ batch' = <<>> /\ round' = 0
    /\ UNCHANGED <<kind, spent, barred, discovering>>

\* The gateway stops, and starts later: the rows are kept.
Restart ==
    /\ round > 0 /\ round' = 0 /\ batch' = <<>> /\ spent' = {} /\ discovering' = {}
    /\ UNCHANGED <<kind, evidence, barred, proved, rejected>>

-----------------------------------------------------------------------------
(* Catalogs write what they advertise, on a connection of their own, in two  *)
(* statements.                                                               *)

ReadsRow(r) ==
    /\ kind \in {"modality", "media"} /\ evidence[r] \notin Definitive
    /\ discovering' = discovering \cup {r}
    /\ UNCHANGED <<kind, evidence, batch, round, spent, barred, proved, rejected>>

Advertise(r) ==
    /\ r \in discovering /\ discovering' = discovering \ {r}
    /\ evidence' = [evidence EXCEPT ![r] = "advertised"]
    /\ UNCHANGED <<kind, batch, round, spent, barred, proved, rejected>>

-----------------------------------------------------------------------------
(* The gates of pool selection.                                              *)

\* _tool_capability_allowed with require_qualified
AdmitsTools(r) ==
    \/ evidence[r] = "passed"
    \/ evidence[r] = "unavailable" /\ r \notin Found

\* _image_tools_evidence_allows
AdmitsImageTools(r) ==
    \/ evidence[r] = "passed"
    \/ evidence[r] # "unsupported" /\ r \notin Found

\* The hard denial that select makes of _structured_output_status.
AdmitsStructured(r) == evidence[r] # "unsupported"

\* _input_modalities_allowed, _model_capabilities, where the catalog's own row
\* says nothing.
AdmitsModality(r) == evidence[r] \in {"passed", "advertised"}

-----------------------------------------------------------------------------
ProbeInit ==
    /\ kind \in Kind
    /\ evidence = [r \in Route |-> "none"] /\ proved = evidence
    /\ batch = <<>> /\ round = 0
    /\ spent = {} /\ barred = {} /\ discovering = {} /\ rejected = {}

ProbeNext ==
    \/ \E lapsed, cooling \in SUBSET Route :
          \/ StartTools(lapsed, cooling) \/ StartModality(lapsed, cooling)
          \/ StartStructured(lapsed, cooling) \/ NextRound(lapsed, cooling)
    \/ \E lapsed \in SUBSET Route : StartComposite(lapsed)
    \/ StartMedia \/ EndCycle \/ SkipSpent \/ Restart
    \/ \E reply \in ToolsReply : ProbeTools(reply)
    \/ \E reply \in CompositeReply : ProbeComposite(reply)
    \/ \E reply \in StructuredReply : ProbeStructured(reply)
    \/ \E reply \in ModalityReply : ProbeModality(reply)
    \/ \E reply \in MediaReply : ProbeMedia(reply)
    \/ \E disturbed \in BOOLEAN : Abort(disturbed)
    \/ \E r \in Route : ReadsRow(r) \/ Advertise(r)

ProbeSpec == ProbeInit /\ [][ProbeNext]_probeVars

-----------------------------------------------------------------------------
QualificationTypeOK ==
    /\ kind \in Kind /\ evidence \in [Route -> Evidence]
    /\ batch \in Seq(Route) /\ round \in 0 .. MaxRounds
    /\ spent \subseteq {ProviderOf[r] : r \in Route}
    /\ barred \subseteq Route /\ discovering \subseteq Route /\ rejected \subseteq Route
    /\ proved \in [Route -> Evidence]

\* A route whose last verdict was a pass keeps getting the requests it proved
\* itself for, whatever outages, quotas, refusals of other routes and ends of
\* cycles its later probes meet (pools.py:909, 1096): image-plus-tool requests
\* and structured ones every route, tools the curated ones.
ProvenStaysAdmitted ==
    \A r \in Route : proved[r] = "passed" /\ r \notin rejected =>
        /\ kind = "composite" => AdmitsImageTools(r)
        /\ kind = "structured" => AdmitsStructured(r)
        /\ kind = "tools" /\ r \notin Found => AdmitsTools(r)

\* pools.py:1100: "Definitive outcomes (unsupported contract, no tool call,
\* 401/403) still deny".
DenialStands ==
    \A r \in Route : proved[r] = "unsupported" =>
        /\ kind = "tools" => ~ AdmitsTools(r)
        /\ kind = "composite" => ~ AdmitsImageTools(r)

\* tool_qualification.py:815: "keeps future maintenance cycles from re-probing
\* the route and keeps pool selection from routing real traffic into the same
\* 403".
RefusedIsBarred == kind # "media" => rejected \subseteq barred

\* tool_qualification.py:846: "Routes without any evidence come first".
UnseenComeFirst ==
    kind = "composite" /\ round = 1 /\ spent = {} =>
        \A i \in DOMAIN batch : ~ Unseen(batch[i]) =>
            \A r \in Route : Unseen(r) => r \in Range(SubSeq(batch, 1, i))

\* model_capability.py:249: "A catalog refresh or capability discovery must not
\* downgrade a concrete live probe."
ProbeIsNotDowngraded ==
    [][\A r \in Route : evidence[r] \in Definitive => evidence'[r] # "advertised"]_probeVars
=============================================================================
