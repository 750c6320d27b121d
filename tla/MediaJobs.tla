------------------------------ MODULE MediaJobs ------------------------------
(***************************************************************************)
(* Media that a provider takes time to make.  A video is a job at its      *)
(* provider, which the gateway creates, polls until a deadline and fetches *)
(* (providers/video.py); an image of Codex is the end of a stream of       *)
(* previews and repeated results (providers/image_generation.py).          *)
(*                                                                         *)
(* One request.  Times are counted from the start of the polling; what a   *)
(* provider's job can become is the provider's matter.                     *)
(***************************************************************************)
EXTENDS Integers, FiniteSets, FiniteSetsExt

CONSTANTS
    MaxWait,   \* max_wait of the polling
    Interval,  \* poll_interval, the first pause
    LongPause, \* the longest pause, 30 s
    Slow,      \* longest request: the session's timeout, max_wait + 60
    MaxPictures\* bound on the different images of a stream

ASSUME TimesAssumption ==
    /\ MaxWait \in Nat \ {0} /\ Slow \in Nat
    /\ Interval \in Nat \ {0} /\ LongPause \in Nat /\ Interval <= LongPause

VARIABLES
    order,    \* the request: kind, provider, whether the client waits for the end
    work,     \* the job at the provider
    waiting,  \* what the gateway does: phase, time, pause before the next poll
    told,     \* state of the job that the client's answer rests on, "none" before
    stream,   \* image events so far: previews and results, and if it has ended
    images,   \* b64_images
    promoted  \* the model's capability has been recorded as passed

jobVars == <<order, work, waiting, told, stream, images, promoted>>

Lasting == {"queued", "running"}
Lost == {"failed", "cancelled", "expired"}

-----------------------------------------------------------------------------
(* The providers of videos: the states that their polling takes for a        *)
(* failure, if the answer to the creation may be one, and if a job without   *)
(* its video is an answer.  Google has an operation that is done, with an    *)
(* error or without; MiniMax and Z.AI have a signed URL that is handed on.   *)

OpenAIJob == [failed |-> {"failed"}, born |-> TRUE, bare |-> TRUE]
OpenRouterJob == [failed |-> Lost, born |-> TRUE, bare |-> FALSE]
GoogleJob == [failed |-> Lost, born |-> FALSE, bare |-> FALSE]
MiniMaxJob == [failed |-> {"failed", "cancelled"}, born |-> TRUE, bare |-> TRUE]
ZaiJob == [failed |-> {"failed"}, born |-> TRUE, bare |-> TRUE]

VideoProvider == {"openai", "openrouter", "google", "minimax", "zai"}

Job(p) ==
    CASE p = "openai" -> OpenAIJob
      [] p = "openrouter" -> OpenRouterJob
      [] p = "google" -> GoogleJob
      [] p = "minimax" -> MiniMaxJob
      [] p = "zai" -> ZaiJob

(* The providers that answer at once: which replies below 400 they pass on.  *)

Reply == {"media", "other", "empty"}

OpenAIImage == Reply
OpenRouterImage == {"media", "other"}
GoogleImage == {"media"}
ZaiImage == Reply
MiniMaxImage == {"media"}
AlibabaImage == {"media"}
WorkersImage == {"media"}
OpenAISpeech == Reply
OpenRouterSpeech == Reply
GroqSpeech == Reply
XiaomiSpeech == {"media"}
WorkersSpeech == Reply \* of an audio/ content type

Passes(kind, p) ==
    CASE kind = "image" /\ p = "openai" -> OpenAIImage
      [] kind = "image" /\ p = "openrouter" -> OpenRouterImage
      [] kind = "image" /\ p = "google" -> GoogleImage
      [] kind = "image" /\ p = "zai" -> ZaiImage
      [] kind = "image" /\ p = "minimax" -> MiniMaxImage
      [] kind = "image" /\ p = "alibaba" -> AlibabaImage
      [] kind = "image" /\ p = "workers-ai" -> WorkersImage
      [] kind = "speech" /\ p = "openai" -> OpenAISpeech
      [] kind = "speech" /\ p = "openrouter" -> OpenRouterSpeech
      [] kind = "speech" /\ p = "groq" -> GroqSpeech
      [] kind = "speech" /\ p = "xiaomi" -> XiaomiSpeech
      [] kind = "speech" /\ p = "workers-ai" -> WorkersSpeech

ImageProvider == {"openai", "openrouter", "google", "zai", "minimax", "alibaba", "workers-ai"}
SpeechProvider == {"openai", "openrouter", "groq", "xiaomi", "workers-ai"}

Provider == order.provider
Go(phase) == waiting' = [waiting EXCEPT !.phase = phase]
Later(phase, took) == waiting' = [waiting EXCEPT !.phase = phase, !.time = @ + took]
Rest == UNCHANGED <<stream, images, promoted>>
Video == order.kind = "video"
New == waiting.phase = "new"
Fail == Go("failed") /\ UNCHANGED told

-----------------------------------------------------------------------------
(* The provider.                                                             *)

Proceeds(state) ==
    /\ ~ New /\ Video
    /\ \/ work = "queued" /\ state \in {"running"} \cup Lost
       \/ work = "running" /\ state \in {"done"} \cup Lost
    /\ work' = state
    /\ UNCHANGED <<order, waiting, told>> /\ Rest

-----------------------------------------------------------------------------
(* VideoHandler.                                                             *)

\* _call_*: the answer to the creation has the job's state already.
Create(state) ==
    /\ New /\ Video
    /\ state = "failed" => Job(Provider).born
    /\ work' = state
    /\ \/ ~ order.waits /\ Go("answered") /\ told' = state
       \/ order.waits /\ state = "done" /\ Go("fetching") /\ told' = state
       \/ order.waits /\ state # "done" /\ Go("polling") /\ UNCHANGED told
    /\ UNCHANGED order /\ Rest

\* No key, a prompt that is missing, an error status, an answer without an id
\* or, of Google, with an error.
CreateFails == New /\ Video
    /\ Fail /\ UNCHANGED <<order, work>> /\ Rest

Remaining == MaxWait - waiting.time
Polling == waiting.phase = "polling"

GiveUp == Polling /\ Remaining <= 0 /\ Fail /\ UNCHANGED <<order, work>> /\ Rest

\* The request is refused, or its answer is no answer.
PollFails ==
    Polling /\ Remaining > 0 /\ Fail /\ UNCHANGED <<order, work>> /\ Rest

\* Fault: the pause does not stop at the deadline.
PauseInFull == waiting.pause

\* The time left is that before the request.
Pause == Min({waiting.pause, Remaining})

PollsDone(took) ==
    /\ Polling /\ Remaining > 0 /\ work = "done"
    /\ Later("fetching", took) /\ told' = work
    /\ UNCHANGED <<order, work>> /\ Rest

PollsFailed(took) ==
    /\ Polling /\ Remaining > 0 /\ work \in Job(Provider).failed
    /\ Later("failed", took)
    /\ UNCHANGED <<order, work, told>> /\ Rest

\* Anything else is polled again after a pause.
PollsOn(took) ==
    /\ Polling /\ Remaining > 0 /\ work \notin {"done"} \cup Job(Provider).failed
    /\ waiting' = [waiting EXCEPT !.time = @ + took + Pause,
                                  !.pause = Min({(3 * @) \div 2, LongPause})]
    /\ UNCHANGED <<order, work, told>> /\ Rest

\* _finalise_*: no video to be had, or one that is too large or at a URL that
\* is not safe.
Finalise(end) ==
    /\ waiting.phase = "fetching"
    /\ Go(IF end = "there" \/ (end = "missing" /\ Job(Provider).bare) THEN "answered" ELSE "failed")
    /\ UNCHANGED <<order, work, told>> /\ Rest

-----------------------------------------------------------------------------
(* Images and speech in one request.                                         *)

Direct == New /\ order.kind \in {"image", "speech"} /\ Provider # "codex"

Replies(reply) ==
    /\ Direct
    /\ IF reply \in Passes(order.kind, Provider)
       THEN Go("answered") /\ told' = IF reply = "media" THEN "done" ELSE "empty"
       ELSE Fail
    /\ UNCHANGED <<order, work>> /\ Rest

\* Not allowed, refused, or larger than the gateway reads.
Refuses == Direct /\ Fail /\ UNCHANGED <<order, work>> /\ Rest

-----------------------------------------------------------------------------
(* ImageGenerationHandler._call_openai_codex.                                *)

Streaming == Provider = "codex" /\ New /\ ~ stream.ended

\* _append_image_result
Added(picture) == IF picture \in images THEN images ELSE images \cup {picture}

Result == [kind |-> "result", n |-> 1]

\* A preview counts only while there is no image.
Preview(n) ==
    /\ Streaming /\ n \notin stream.previews
    /\ stream' = [stream EXCEPT !.previews = @ \cup {n}]
    /\ images' = IF images = {} THEN {[kind |-> "preview", n |-> n]} ELSE images
    /\ UNCHANGED <<order, work, waiting, told, promoted>>

\* The result comes with the call, with the finished item and with the whole
\* response, once or again.
ResultArrives ==
    /\ Streaming
    /\ stream' = [stream EXCEPT !.results = TRUE]
    /\ images' = Added(Result)
    /\ UNCHANGED <<order, work, waiting, told, promoted>>

StreamEnds ==
    /\ Streaming
    /\ stream' = [stream EXCEPT !.ended = TRUE]
    /\ IF images = {} THEN Fail ELSE Go("answered") /\ told' = "done"
    /\ UNCHANGED <<order, work, images, promoted>>

\* An error status, a broken stream or one that is too large.
StreamFails ==
    /\ Streaming
    /\ stream' = [stream EXCEPT !.ended = TRUE] /\ Fail
    /\ UNCHANGED <<order, work, images, promoted>>

-----------------------------------------------------------------------------
(* images_handler, tts_handler and video_handler.                            *)

\* _record_media_capabilities, then _record_media_budget, which may fail.
Charges(end) ==
    /\ waiting.phase = "answered"
    /\ Go(end) /\ promoted' = TRUE
    /\ UNCHANGED <<order, work, told, stream, images>>

JobInit ==
    /\ order \in [kind : {"video"}, provider : VideoProvider, waits : BOOLEAN]
                 \cup [kind : {"image"}, provider : ImageProvider \cup {"codex"}, waits : {TRUE}]
                 \cup [kind : {"speech"}, provider : SpeechProvider, waits : {TRUE}]
    /\ work = "queued"
    /\ waiting = [phase |-> "new", time |-> 0, pause |-> Interval]
    /\ told = "none"
    /\ stream = [previews |-> {}, results |-> FALSE, ended |-> FALSE]
    /\ images = {} /\ promoted = FALSE

JobNext ==
    \/ \E state \in {"running", "done"} \cup Lost : Proceeds(state)
    \/ \E state \in {"queued", "running", "done", "failed"} : Create(state)
    \/ \E reply \in Reply : Replies(reply)
    \/ Refuses \/ CreateFails \/ GiveUp \/ PollFails
    \/ \E end \in {"charged", "failed"} : Charges(end)
    \/ \E took \in 0..Slow : PollsDone(took) \/ PollsFailed(took) \/ PollsOn(took)
    \/ \E end \in {"there", "missing", "broken"} : Finalise(end)
    \/ \E n \in 1..MaxPictures : Preview(n)
    \/ ResultArrives \/ StreamEnds \/ StreamFails

JobSpec == JobInit /\ [][JobNext]_jobVars

-----------------------------------------------------------------------------
JobTypeOK ==
    /\ work \in Lasting \cup {"done"} \cup Lost
    /\ waiting.phase \in {"new", "polling", "fetching", "answered", "charged", "failed"}
    /\ waiting.time \in Nat /\ waiting.pause \in Interval..LongPause
    /\ promoted \in BOOLEAN
    /\ told \in {"none", "empty", "done"} \cup Lasting \cup Lost

\* "did not finish within {max_wait}s" (video.py:287): however slow the polls
\* and whatever the pauses have grown to, one request past the deadline is the
\* latest end of the polling.
WaitIsBounded == waiting.time <= MaxWait + Slow

\* A client that waits for a video is answered, and charged, for a job that is
\* done, however its states and the polls fall (video.py _poll_*); one that
\* waits for an image of Codex gets the result among the images, if it came,
\* whatever came before it (image_generation.py:486).
AnswerIsFinal ==
    waiting.phase \in {"answered", "charged"} /\ order.waits =>
        /\ Video => told = "done" /\ work = "done"
        /\ stream.results => Result \in images

\* image_generation.py:441: "The image_generation tool doesn't accept n; for n>1
\* callers get a single image".
OneImage == waiting.phase = "answered" /\ Provider = "codex" => Cardinality(images) = 1

\* endpoints.py:8867: "Promote capabilities after a successful real media
\* request."
EvidenceIsMedia == promoted => told = "done"
=============================================================================
