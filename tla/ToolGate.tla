------------------------------ MODULE ToolGate ------------------------------
(***************************************************************************)
(* What a provider's turn with tools must pass before the client sees it   *)
(* (endpoints.py: _prepare_stream_result, _validate_complete_tool_response *)
(* and the policy functions they call; safety.py): the request's contract, *)
(* the denials, the questions and the high-impact approvals, over complete *)
(* answers and over streams, which are held back or passed on as they      *)
(* come.                                                                   *)
(*                                                                         *)
(* One request and the candidates that are tried for it.  Approvals models *)
(* how an answer is found in the transcript; here the transcript approves  *)
(* at most one list of calls, once.                                        *)
(***************************************************************************)
EXTENDS Integers, Sequences, FiniteSets

CONSTANTS
    Candidate,  \* (provider, model) pairs
    Nobody,     \* none of them
    MaxParts,   \* bound on the parts of a candidate's turn
    Threshold   \* TUSKER_SUSPICIOUS_MODEL_THRESHOLD

ASSUME ToolGateAssumption == Nobody \notin Candidate /\ Threshold \in Nat \ {0}

VARIABLES
    rules,      \* the operator's: mode, candidates denied by force (greylist)
    asked,      \* the request
    approved,   \* list of calls that the transcript approves, <<>> for none
    phase,      \* "choose", "turn", "judged", "over"
    candidate,  \* whose turn it is
    parts,      \* buffered: the parts of its turn so far
    dropped,    \* excluded
    suspicion,  \* _suspicious_counts
    blacklist,  \* _runtime_blacklist
    shown,       \* what the client has got, in order
    used        \* history: the approval that was used up for what it saw

gateVars == <<rules, asked, approved, phase, candidate, parts, dropped,
              suspicion, blacklist, shown, used>>

\* Calls: harmless; high impact by the tool's name or its arguments; a recursive
\* delete of disposable paths; high impact by the operator's own instrument
\* tokens; never allowed.
ToolCall == {"read", "risky", "cleanup", "token", "denied"}
Part == ToolCall \cup {"text"}

\* The calls of a turn, in their order.
Places(turn) == {i \in DOMAIN turn : turn[i] \in ToolCall}
Rank(turn, i) == Cardinality({j \in Places(turn) : j <= i})
Calls(turn) ==
    [k \in 1..Cardinality(Places(turn)) |->
        turn[CHOOSE i \in Places(turn) : Rank(turn, i) = k]]

\* _high_impact_call_kind, with the operator's tokens and without.
HighImpact == ToolCall \ {"read"}
HighImpactByName == HighImpact \ {"token"}

Has(turn, kinds) == \E i \in DOMAIN turn : turn[i] \in kinds
Forced == candidate \in rules.forced
Streams == asked.style = "stream"

-----------------------------------------------------------------------------
(* The rules.                                                                *)

\* buffer_before_client: tools_may_produce_high_impact, or a risky text.
Held ==
    ~ Streams \/ asked.tools = "acting"
              \/ (rules.mode = "approval" /\ asked.content)

\* _validate_tool_call_contract: undeclared tools are the client's matter.
BreaksContract(calls) ==
    \/ asked.choice = "none" /\ calls # <<>>
    \/ asked.choice = "required" /\ calls = <<>>
    \/ asked.choice = "named" /\ (calls = <<>> \/ \E i \in DOMAIN calls : calls[i] # "read")

\* _deterministic_tool_denial; in audit mode it is only written down.
IsDenied(calls) == rules.mode # "audit" /\ Has(calls, {"denied"})

\* The user asked for it in so many words, or for a build: to the adaptive mode
\* a signal, no waiver.
Explicit == asked.wording = "explicit"
Requested == Explicit \/ asked.wording = "workflow"

\* The enforcement of a stream whose content was approved is given no messages,
\* in which it could see the build that was asked for.
RequestSeen == Requested /\ (Explicit \/ ~ (Streams /\ asked.contentApproved))

\* _adaptive_requires_approval, _adaptive_safe_cleanup
AdaptiveAsks(calls, requested) ==
    \E i \in DOMAIN calls :
        /\ calls[i] \in HighImpact
        /\ \/ Forced
           \/ ~ (calls[i] = "cleanup" /\ requested)

\* question_response_for_calls has no question for a call that only the
\* operator's tokens make one of high impact.
Questioned(calls) ==
    /\ \/ rules.mode = "approval"
       \/ rules.mode = "adaptive" /\ AdaptiveAsks(calls, Requested)
    /\ Has(calls, HighImpactByName)

\* _enforce_high_impact_approval, where calls or the request's text are risky.
Refused(calls, native, text) ==
    /\ Has(calls, HighImpact) \/ text
    /\ \/ rules.mode = "approval"
       \/ rules.mode = "adaptive" /\ AdaptiveAsks(calls, RequestSeen)
    /\ ~ native
    /\ ~ Explicit \/ Forced

\* record_suspicious_behavior
Suspect(weight) ==
    /\ suspicion' = [suspicion EXCEPT ![candidate] = @ + weight]
    /\ blacklist' = IF suspicion'[candidate] >= Threshold THEN blacklist \cup {candidate}
                    ELSE blacklist
NoSuspicion == UNCHANGED <<suspicion, blacklist>>

-----------------------------------------------------------------------------
(* A candidate's turn.                                                       *)

\* Pool selection leaves out who is excluded or on a blacklist.
Choose(c) ==
    /\ phase = "choose" /\ c \notin dropped \cup blacklist
    /\ candidate' = c /\ phase' = "turn" /\ parts' = <<>>
    /\ UNCHANGED <<rules, asked, approved, dropped, suspicion, blacklist, shown, used>>

Show(what) == shown' = shown \o what
Nothing == UNCHANGED shown
End == phase' = "over"

\* A part that is not held goes to the client before it is looked at.
Arrives(part) ==
    /\ phase = "turn" /\ Len(parts) < MaxParts
    /\ parts' = Append(parts, part)
    /\ IF Held THEN Nothing ELSE Show(<<part>>)
    /\ UNCHANGED <<rules, asked, approved, phase, candidate, dropped,
                   suspicion, blacklist, used>>

\* A whole answer whose candidate fails leaves the next candidate to be tried;
\* of a stream the client is told.
NextCandidate == phase' = "choose" /\ dropped' = dropped \cup {candidate}
Drops == IF Streams THEN End /\ UNCHANGED dropped ELSE NextCandidate

\* _tool_stream_preflight_max_bytes
TooLong ==
    /\ phase = "turn" /\ Streams /\ parts # <<>>
    /\ Drops /\ NoSuspicion /\ Nothing
    /\ UNCHANGED <<rules, asked, approved, candidate, parts, used>>

Turn == Calls(parts)

ContractBroken ==
    /\ phase = "turn" /\ BreaksContract(Turn)
    /\ Drops /\ NoSuspicion /\ Nothing
    /\ UNCHANGED <<rules, asked, approved, candidate, parts, used>>

Judging == phase = "turn" /\ ~ BreaksContract(Turn)

Denies(weight) ==
    /\ Judging /\ IsDenied(Turn)
    /\ Suspect(weight) /\ Drops /\ Nothing
    /\ UNCHANGED <<rules, asked, approved, candidate, parts, used>>

\* Fault: the approval of other calls counts.
NativeByAny == Turn # <<>> /\ approved # <<>>

\* question_authorized: the approval of exactly these calls, once.
Native == Turn # <<>> /\ approved = Turn

SpendApproval ==
    IF Native THEN approved' = <<>> /\ used' = approved ELSE UNCHANGED <<approved, used>>

AsksAboutCalls == Turn # <<>> /\ Questioned(Turn) /\ ~ Native

\* The content's approval is the stream's own; a whole answer with calls goes
\* by the approval of its calls.
AsksAboutContent ==
    /\ rules.mode = "approval" /\ asked.content
    /\ IF Streams \/ Turn = <<>> THEN ~ asked.contentApproved ELSE ~ Native

Lawful == Judging /\ ~ IsDenied(Turn)

Asks ==
    /\ Lawful /\ (AsksAboutCalls \/ AsksAboutContent)
    /\ SpendApproval /\ NoSuspicion
    /\ Show(IF AsksAboutCalls THEN <<"question">> ELSE <<"content question">>)
    /\ End
    /\ UNCHANGED <<rules, asked, candidate, parts, dropped>>

\* A stream without calls has nothing to enforce.
TextRisk == asked.content /\ ~ (Streams /\ asked.contentApproved)
Stopped ==
    /\ ~ (Streams /\ Turn = <<>>)
    /\ Refused(Turn, Native \/ (Turn = <<>> /\ asked.contentApproved), TextRisk)

\* Never retry a consequential action with another model.
Stops ==
    /\ Lawful /\ ~ AsksAboutCalls /\ ~ AsksAboutContent /\ Stopped
    /\ SpendApproval /\ Suspect(1) /\ Nothing /\ End
    /\ UNCHANGED <<rules, asked, candidate, parts, dropped>>

\* An answer without a call or a word is of no use.
Unusable ==
    /\ Lawful /\ ~ AsksAboutCalls /\ ~ AsksAboutContent /\ ~ Stopped
    /\ parts = <<>>
    /\ NextCandidate /\ NoSuspicion /\ Nothing
    /\ UNCHANGED <<rules, asked, approved, candidate, parts, used>>

PassesOn ==
    /\ Lawful /\ ~ AsksAboutCalls /\ ~ AsksAboutContent /\ ~ Stopped
    /\ parts # <<>>
    /\ SpendApproval /\ NoSuspicion /\ End
    /\ IF Held THEN Show(parts) ELSE Nothing
    /\ UNCHANGED <<rules, asked, candidate, parts, dropped>>

-----------------------------------------------------------------------------
GateInit ==
    /\ rules \in [mode : {"approval", "adaptive", "audit"}, forced : {{}, Candidate}]
    /\ asked \in [style : {"stream", "whole"}, tools : {"acting", "other"},
                  choice : {"auto", "none", "required", "named"},
                  wording : {"plain", "explicit", "workflow"},
                  content : BOOLEAN, contentApproved : BOOLEAN]
    /\ asked.contentApproved => asked.content
    /\ approved \in {<<>>, <<"risky">>}
    /\ phase = "choose" /\ candidate = Nobody /\ parts = <<>> /\ dropped = {}
    /\ suspicion = [c \in Candidate |-> 0] /\ blacklist = {}
    /\ shown = <<>> /\ used = <<>>

GateNext ==
    \/ \E c \in Candidate : Choose(c)
    \/ \E part \in Part : Arrives(part)
    \/ TooLong \/ ContractBroken \/ Asks \/ Stops \/ Unusable \/ PassesOn
    \/ \E weight \in {2, 3} : Denies(weight)

GateSpec == GateInit /\ [][GateNext]_gateVars

-----------------------------------------------------------------------------
GateTypeOK ==
    /\ phase \in {"choose", "turn", "over"} /\ candidate \in Candidate \cup {Nobody}
    /\ parts \in Seq(Part) /\ dropped \subseteq Candidate
    /\ suspicion \in [Candidate -> Nat] /\ blacklist \subseteq Candidate
    /\ shown \in Seq(Part \cup {"question", "content question"})

\* Where a request's own tools can act, a call of high impact reaches the
\* client alone by the approval of just those calls, by the user's words where
\* those count, or as the cleanup that was asked for; whichever candidate made
\* it, streamed or whole (config.py:45, endpoints.py:3505).
NothingRiskyUnasked ==
    \/ rules.mode = "audit" \/ ~ Has(shown, HighImpact)
    \/ /\ Streams /\ asked.tools = "other"
       /\ ~ (rules.mode = "approval" /\ asked.content)
    \/ /\ ~ Has(shown, {"denied"})
       /\ \/ used = Calls(shown)
          \/ /\ rules.mode = "approval" /\ Explicit
             /\ ~ Has(shown, HighImpactByName)
          \/ /\ rules.mode = "adaptive" /\ Requested
             /\ ~ Has(shown, HighImpact \ {"cleanup"})
          \/ /\ rules.mode = "adaptive" /\ Explicit
             /\ ~ Has(shown, HighImpactByName \ {"cleanup"})

\* endpoints.py:3444: "When no assistant output has reached the client yet, the
\* stream loop recovers by re-dispatching to one alternative candidate".
UnseenIsRetried == phase = "over" => shown # <<>> \/ dropped \cup {candidate} = Candidate
=============================================================================
