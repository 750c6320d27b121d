----------------------------- MODULE MediaRoutes -----------------------------
(***************************************************************************)
(* The embeddings and rerank endpoints: their preflight, the loop over the *)
(* configured backends (providers/embed.py, providers/rerank.py) and the   *)
(* sizes that the breaker has learned a backend takes (circuit_breaker.py).*)
(*                                                                         *)
(* The requests of one endpoint in one process, on its event loop: a step  *)
(* ends where the code awaits.  Backends are numbered in their configured  *)
(* order, each of a provider of its own; the rest of the gateway moves     *)
(* their cooldowns.                                                        *)
(***************************************************************************)
EXTENDS Integers, FiniteSets, FiniteSetsExt

CONSTANTS
    Backends,   \* how many backends the request's model has
    MediaReq,   \* requests, each made once
    Size,       \* sizes of bodies
    Floor,      \* MIN_PAYLOAD_CEILING_BYTES
    Margin      \* PAYLOAD_CEILING_MARGIN_BYTES

ASSUME BackendsAssumption == Backends \in Nat \ {0}
ASSUME SizeAssumption == Size \subseteq Nat \ {0} /\ Floor \in Nat \ {0} /\ Margin \in Nat

VARIABLES
    surface,  \* "embed", "embed by priority" or "rerank"
    cursor,   \* of the round robin
    cooling,  \* backends whose model or provider is in a cooldown
    failed,   \* _recent_failures of each backend's provider
    ceiling,  \* payload_ceiling_bytes of each backend, 0 is NULL
    media,    \* the requests
    refusers  \* history: backends that refused a body for its size

mediaVars == <<surface, cursor, cooling, failed, ceiling, media, refusers>>

Backend == 0..(Backends - 1)
Unpinned == Backends
Fresh == [phase |-> "new", size |-> 0, pin |-> Unpinned, start |-> 0, at |-> 0, passed |-> {}]

Phase(r, phase) == media' = [media EXCEPT ![r].phase = phase]

-----------------------------------------------------------------------------
(* The loop over the backends.                                               *)

\* Fault: the rotation is read again at each step of the loop.
AtCursor(call, p) == IF call.pin = Unpinned THEN (cursor + p) % Backends ELSE call.pin

\* ordered[p], of a list that was rotated when the request came; a request that
\* names a provider or one of its models has a list of one.
At(call, p) == IF call.pin = Unpinned THEN (call.start + p) % Backends ELSE call.pin

Listed(call) == IF call.pin = Unpinned THEN Backend ELSE {call.pin}
Many(call) == Cardinality(Listed(call))

TooBig(b, size, known) == known[b] # 0 /\ known[b] < size

\* The filters and the breaker, from position p on: the backend that is called
\* next, or the end of the list.  The capability gate and the breaker deny
\* whom they like.
Goes(r, call, p, cool, known) ==
    \E denied \in SUBSET Backend :
        LET Passes(q) == LET b == At(call, q)
                         IN b \notin denied \cup cool /\ ~ TooBig(b, call.size, known)
            open == {q \in p..(Many(call) - 1) : Passes(q)}
            next == IF open = {} THEN Many(call) ELSE Min(open)
            over == {At(call, q) : q \in p..Min({next, Many(call) - 1})}
        IN media' = [media EXCEPT ![r] =
                [call EXCEPT !.phase = IF open = {} THEN "refused" ELSE "calling",
                             !.at = next, !.passed = @ \cup over]]

First == IF surface = "embed by priority" THEN 0 ELSE cursor

\* backends_for_model and the start of the loop, once the body has passed
\* validation.
Started(r, pin, size) ==
    /\ media[r].phase = "checked"
    /\ LET call == [media[r] EXCEPT !.size = size, !.pin = pin]
       IN Goes(r, [call EXCEPT !.start = First % Many(call)], 0, cooling, ceiling)
    /\ UNCHANGED <<surface, cursor, cooling, failed, ceiling, refusers>>

\* EmbedHandler.embed
BeginEmbed(r, pin, size) == surface # "rerank" /\ Started(r, pin, size)

\* RerankHandler.rerank: the size of the body is never looked at.
BeginRerank(r, pin) == surface = "rerank" /\ Started(r, pin, 0)

Calling(r) == media[r].phase = "calling"
Current(r) == At(media[r], media[r].at)

-----------------------------------------------------------------------------
(* What the backend answers: _call_backend and _normalize_response.          *)

\* Only ever widens; the first size that is accepted becomes the ceiling.
Accepted(b, size) == IF ceiling[b] >= size THEN ceiling ELSE [ceiling EXCEPT ![b] = size]

\* Only ever narrows.
Rejected(b, size) ==
    LET candidate == Max({Floor, size - Margin})
    IN IF ceiling[b] # 0 /\ ceiling[b] <= candidate THEN ceiling
       ELSE [ceiling EXCEPT ![b] = candidate]

\* Of the request's own list: a pinned request sends the round robin back to 0.
After(r) == (media[r].start + media[r].at + 1) % Many(media[r])

\* The run of failures of an embedder goes on after its success.
Embedded(r) ==
    /\ Calling(r) /\ surface # "rerank"
    /\ ceiling' = Accepted(Current(r), media[r].size)
    /\ cursor' = IF surface = "embed" THEN After(r) ELSE cursor
    /\ Phase(r, "charging")
    /\ UNCHANGED <<surface, cooling, failed, refusers>>

Reranked(r) ==
    /\ Calling(r) /\ surface = "rerank"
    /\ failed' = [failed EXCEPT ![Current(r)] = 0]
    /\ cursor' = After(r)
    /\ Phase(r, "charging")
    /\ UNCHANGED <<surface, cooling, ceiling, refusers>>

\* A status that speaks of the request: nobody is blamed, and a 413 teaches the
\* embedder its ceiling.
EmbedRefuses(r, status) ==
    /\ Calling(r) /\ surface # "rerank"
    /\ LET b == Current(r)
           size == media[r].size
           known == IF status = 413 THEN Rejected(b, size) ELSE ceiling
       IN /\ ceiling' = known
          /\ refusers' = IF status = 413 THEN refusers \cup {b} ELSE refusers
          /\ Goes(r, media[r], media[r].at + 1, cooling, known)
    /\ UNCHANGED <<surface, cursor, cooling, failed>>

RerankRefuses(r) ==
    /\ Calling(r) /\ surface = "rerank"
    /\ Goes(r, media[r], media[r].at + 1, cooling, ceiling)
    /\ UNCHANGED <<surface, cursor, cooling, failed, ceiling, refusers>>

\* _mark_failure of either handler: the backend's model cools if the error says
\* for how long, or at the third in a row its provider.
Fails(r, cools) ==
    /\ Calling(r)
    /\ LET b == Current(r)
           third == failed[b] = 2
           cool == IF cools \/ third THEN cooling \cup {b} ELSE cooling
       IN /\ cooling' = cool
          /\ failed' = [failed EXCEPT ![b] = IF third THEN 0 ELSE @ + 1]
          /\ Goes(r, media[r], media[r].at + 1, cool, ceiling)
    /\ UNCHANGED <<surface, cursor, ceiling, refusers>>

EmbedFails(r, cools) == surface # "rerank" /\ Fails(r, cools)

\* Here an answer without usable results is a failure, too.
RerankFails(r, cools) == surface = "rerank" /\ Fails(r, cools)

\* An embedding that is no list of numbers, or an answer that is no object,
\* raises an error that is no GatewayError, past the loop.
Breaks(r) ==
    /\ Calling(r) /\ surface # "rerank"
    /\ Phase(r, "broken")
    /\ UNCHANGED <<surface, cursor, cooling, failed, ceiling, refusers>>

-----------------------------------------------------------------------------
(* The handlers around it.                                                   *)

Still == UNCHANGED <<surface, cursor, cooling, failed, ceiling, refusers>>

\* _media_preflight: rate limit, budget, guardrails; any may block.
Preflight(r, verdict) == media[r].phase = "new" /\ Phase(r, verdict) /\ Still

\* A budget that cannot be written to costs the client its answer.
Charge(r, end) == media[r].phase = "charging" /\ Phase(r, end) /\ Still

\* The client leaves, or the deadline ends the request.
Leaves(r) == media[r].phase \in {"checked", "calling", "charging"} /\ Phase(r, "left") /\ Still

\* Other requests cool a backend, or its window ends.
Cool(b) ==
    /\ cooling' = IF b \in cooling THEN cooling \ {b} ELSE cooling \cup {b}
    /\ UNCHANGED <<surface, cursor, failed, ceiling, media, refusers>>

-----------------------------------------------------------------------------
MediaInit ==
    /\ surface \in {"embed", "embed by priority", "rerank"}
    /\ cursor \in Backend /\ cooling = {}
    /\ \E n \in 0..2 : failed = [b \in Backend |-> n]
    /\ ceiling = [b \in Backend |-> 0]
    /\ media = [r \in MediaReq |-> Fresh]
    /\ refusers = {}

EmbeddingsHandler(r) ==
    \/ \E pin \in Backend \cup {Unpinned}, size \in Size : BeginEmbed(r, pin, size)
    \/ \E status \in {400, 413} : EmbedRefuses(r, status)
    \/ \E cools \in BOOLEAN : EmbedFails(r, cools)
    \/ Embedded(r) \/ Breaks(r)

RerankHandlerSteps(r) ==
    \/ \E pin \in Backend \cup {Unpinned} : BeginRerank(r, pin)
    \/ \E cools \in BOOLEAN : RerankFails(r, cools)
    \/ RerankRefuses(r) \/ Reranked(r)

MediaNext ==
    \/ \E r \in MediaReq :
         \/ \E verdict \in {"checked", "blocked"} : Preflight(r, verdict)
         \/ EmbeddingsHandler(r) \/ RerankHandlerSteps(r)
         \/ \E end \in {"answered", "broken"} : Charge(r, end)
         \/ Leaves(r)
    \/ \E b \in Backend : Cool(b)

MediaSpec == MediaInit /\ [][MediaNext]_mediaVars

-----------------------------------------------------------------------------
MediaTypeOK ==
    /\ surface \in {"embed", "embed by priority", "rerank"}
    /\ cursor \in Backend /\ cooling \subseteq Backend
    /\ failed \in [Backend -> 0..2]
    /\ ceiling \in [Backend -> Nat] /\ refusers \subseteq Backend

\* A request is refused only after each backend has been called or passed over
\* once, wherever the round robin stood when it came and wherever other
\* requests have moved it since (embed.py:660, rerank.py:706).
RefusedByAll ==
    \A r \in MediaReq :
        media[r].phase = "refused" => media[r].passed = Listed(media[r])

\* circuit_breaker.py:537: "a route is only skipped for a payload we have
\* positive evidence it cannot take."
SkippedOnEvidence ==
    \A b \in Backend, size \in Size :
        TooBig(b, size, ceiling) => b \in refusers
=============================================================================
