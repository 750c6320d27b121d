------------------------------ MODULE StreamTurn ------------------------------
(***************************************************************************)
(* One streamed turn: the frames of a provider pass _normalize_stream,     *)
(* which indexes the tool calls, takes tool markup out of the text, holds  *)
(* back the ends of texts that may be part of a redacted value and decides *)
(* how the turn finishes (endpoints.py, redaction.py), and then the        *)
(* translator of the Anthropic front end (translators/anthropic.py).       *)
(*                                                                         *)
(* One choice; the provider keeps to one style of numbering its calls.     *)
(* Texts are known by the number of their frame; a text ends within a word *)
(* ("part", "next" if another word ends in it before) or after one         *)
(* ("end"), opens a tool envelope or closes one, well formed or not.       *)
(***************************************************************************)
EXTENDS Integers, Sequences, FiniteSets, SequencesExt

CONSTANTS
    Calls,    \* bound on the provider's calls
    MaxFrames \* bound on its frames

ASSUME TurnAssumption == Calls \in Nat /\ MaxFrames \in Nat

VARIABLES
    turn,      \* the request and the provider: [wants, restoring, style]
    frames,    \* frames the provider has sent
    begun,     \* the calls of the turn, and the one with the latest part
    index,     \* the books of _normalize_native_stream_tool_calls
    envelope,  \* _ToolCallStripper holds an open tool envelope
    held,      \* texts in the restorer of each channel
    heldArgs,  \* indexes whose restorer holds the end of the arguments
    saw,       \* what the turn has had: opening markup, visible text, a call, [DONE]
    finish,    \* emitted_finish_reason, "none" before
    outcome,   \* how the turn ended, "streaming" before
    message,   \* the Anthropic message: started, blocks, stop reason
    fed,       \* history: texts of each channel that are no markup
    got,       \* history: texts of each channel that were sent
    sources,   \* history: the calls whose parts were sent under each index
    tangled,   \* history: parts without an id whose call only the provider knows
    endedAt    \* history: the frame that sent the finish, 0 before

turnVars == <<turn, frames, begun, index, envelope, held, heldArgs, saw, finish,
              outcome, message, fed, got, sources, tangled, endedAt>>

NativeCall == 1..Calls
Channel == {"content", "reasoning"}
Style == {"standard", "ids", "zero", "zeroids", "bare", "numbered", "text"}
CallId == 1..(Calls + MaxFrames)   \* the provider's, and those found in text
Idx == 0..(Calls + MaxFrames - 1)
Nowhere == -1

Tools == turn.wants # "answer"
Required == turn.wants = "call"

-----------------------------------------------------------------------------
(* _normalize_native_stream_tool_calls.  An id is a number, 0 if there is    *)
(* none, -1 - i for the one made up for index i; a name is the call's id.    *)

NewIndex == [of |-> [c \in CallId |-> Nowhere], owner |-> [i \in Idx |-> 0],
             name |-> [i \in Idx |-> 0], last |-> [p \in 1..2 |-> Nowhere], next |-> 0]

Entry(id, i, name, call) == [id |-> id, index |-> i, name |-> name, call |-> call]

\* How a style opens a call and goes on with it.
Opening(c) ==
    CASE turn.style = "standard" -> Entry(c, c - 1, c, c)
      [] turn.style = "ids"      -> Entry(c, Nowhere, c, c)
      [] turn.style \in {"zero", "zeroids"} -> Entry(c, 0, c, c)
      [] turn.style = "bare"     -> Entry(0, Nowhere, c, c)
      [] turn.style = "numbered" -> Entry(0, c - 1, c, c)
More(c) ==
    CASE turn.style \in {"standard", "numbered"} -> Entry(0, c - 1, 0, c)
      [] turn.style = "ids"      -> Entry(c, Nowhere, 0, c)
      [] turn.style = "zero"     -> Entry(0, 0, 0, c)
      [] turn.style = "zeroids"  -> Entry(c, 0, 0, c)
      [] turn.style = "bare"     -> Entry(0, Nowhere, 0, c)

Free(m) == CHOOSE i \in Idx : /\ i >= m.next /\ m.owner[i] = 0
                              /\ \A j \in Idx : j >= m.next /\ m.owner[j] = 0 => i <= j

\* An index that the provider names is taken if no entry of the frame has it
\* and it is nobody's, this call's, or that of a call without an id.
Explicit(m, e, used) ==
    /\ e.index # Nowhere /\ e.index \notin used
    /\ \/ m.owner[e.index] \in {0, e.id}
       \/ m.owner[e.index] < 0 /\ e.name \in {0, m.name[e.index]}

\* Fault: an id that is known does not decide.
ChosenByIndex(m, e, position, used) ==
    CASE Explicit(m, e, used) -> e.index
      [] ~ Explicit(m, e, used) /\ m.last[position] # Nowhere -> m.last[position]
      [] OTHER -> Free(m)

ChosenIndex(m, e, position, used) ==
    LET known == IF e.id = 0 THEN Nowhere ELSE m.of[e.id]
        last == m.last[position]
    IN CASE known # Nowhere -> known
         [] known = Nowhere /\ Explicit(m, e, used) -> e.index
         [] /\ known = Nowhere /\ ~ Explicit(m, e, used) /\ e.id = 0
            /\ last # Nowhere /\ (e.name = 0 \/ m.name[last] \in {0, e.name}) -> last
         [] OTHER -> Free(m)

Book(m, e, position, i) ==
    [of    |-> IF e.id = 0 THEN m.of ELSE [m.of EXCEPT ![e.id] = i],
     owner |-> IF m.owner[i] # 0 THEN m.owner
               ELSE [m.owner EXCEPT ![i] = IF e.id = 0 THEN -1 - i ELSE e.id],
     name  |-> IF e.name = 0 THEN m.name ELSE [m.name EXCEPT ![i] = e.name],
     last  |-> [m.last EXCEPT ![position] = i],
     next  |-> IF m.next > i THEN m.next ELSE i + 1]

\* The entries of a frame one after the other, with what was sent so far.
AddEntry(acc, e) ==
    LET i == ChosenIndex(acc.index, e, Len(acc.sent) + 1, {s.index : s \in Range(acc.sent)})
    IN [index |-> Book(acc.index, e, Len(acc.sent) + 1, i),
        sent |-> Append(acc.sent, [index |-> i, call |-> e.call])]
Indexed(m, entries) == FoldLeft(AddEntry, [index |-> m, sent |-> <<>>], entries)

-----------------------------------------------------------------------------
(* The translator.  A block's index is its place in the sequence.            *)

NewMessage == [started |-> FALSE, blocks |-> <<>>, reason |-> "end_turn"]
Block(i) == [call |-> i, open |-> TRUE]

Out(content, calls, why) == [content |-> content, calls |-> calls, finish |-> why]

StartMessage(t, out) ==
    IF t.started THEN t
    ELSE [t EXCEPT !.started = TRUE,
                   !.blocks = IF out.calls # <<>> /\ ~ out.content THEN <<>>
                              ELSE <<Block(Nowhere)>>]

OpenText(t) == {b \in DOMAIN t.blocks : t.blocks[b] = Block(Nowhere)}

\* A delta goes to the open text block, or a new one begins.
AddText(t, out) ==
    IF ~ out.content \/ OpenText(t) # {} THEN t
    ELSE [t EXCEPT !.blocks = Append(@, Block(Nowhere))]

\* Fault: a tool's block begins before the text's has stopped.
LeaveText(t) == t

\* Text blocks stop before a tool's begins.
StopText(t) ==
    [t EXCEPT !.blocks = [b \in DOMAIN @ |-> IF b \in OpenText(t) THEN [@[b] EXCEPT !.open = FALSE] ELSE @[b]]]

AddCall(t, call) ==
    IF \E b \in DOMAIN t.blocks : t.blocks[b].call = call.index THEN t
    ELSE [t EXCEPT !.blocks = Append(@, Block(call.index))]

AddCalls(t, out) ==
    IF out.calls = <<>> THEN t
    ELSE [FoldLeft(AddCall, StopText(t), out.calls) EXCEPT !.reason = "tool_use"]

StopReason(why) == IF why = "tool_calls" THEN "tool_use" ELSE "end_turn"
Translate(t, out) ==
    LET u == AddCalls(AddText(StartMessage(t, out), out), out)
    IN IF out.finish = "none" THEN u ELSE [u EXCEPT !.reason = StopReason(out.finish)]
-----------------------------------------------------------------------------
(* Frames.                                                                   *)

TurnFrame(channel, text, entries, ends) ==
    [channel |-> channel, text |-> text, entries |-> entries, ends |-> ends]

TextFrames == {TurnFrame(c, t, <<>>, b) : c \in Channel, b \in BOOLEAN,
                                      t \in {"part", "next", "end", "open", "good", "bad"}}

\* A frame opens the next call, or two, or goes on with one that is open or
\* with all of them; it may bring a copy of the call as text.
Entries ==
    LET opened == begun.calls \cap NativeCall
        next == Cardinality(opened) + 1
    IN {<<>>} \cup {<<More(c)>> : c \in opened}
       \cup {<<Opening(c)>> : c \in {next} \cap NativeCall}
       \cup {<<Opening(c), Opening(c + 1)>> : c \in {k \in {next} : {k, k + 1} \subseteq NativeCall}}
       \cup UNION {{<<More(c), More(d)>> : d \in opened \ {c}} : c \in opened}
CallFrames == {TurnFrame("content", t, es, b) : t \in {"none", "end", "good"}, es \in Entries, b \in BOOLEAN}

Sends(f) == f.text \in {"part", "next", "end"} /\ ~ envelope
Promoted(f) == f.text = "good" /\ f.entries = <<>>
Marked(f) == f.text \in {"open", "good", "bad"}
First(f) == f.ends /\ finish = "none"
SawCall(f) == saw.call \/ f.entries # <<>> \/ Promoted(f)

\* _BufferedRestorer.feed: the last word is held until its end has come.
Feed(f, n) ==
    LET had == held[f.channel]
    IN CASE ~ Sends(f)                     -> [keep |-> had, send |-> <<>>]
         [] Sends(f) /\ ~ turn.restoring   -> [keep |-> <<>>, send |-> <<n>>]
         [] Sends(f) /\ turn.restoring /\ f.text = "part" -> [keep |-> Append(had, n), send |-> <<>>]
         [] Sends(f) /\ turn.restoring /\ f.text = "next" -> [keep |-> <<n>>, send |-> had]
         [] OTHER                          -> [keep |-> <<>>, send |-> Append(had, n)]

\* A call that is found in the text has an index of 0 and an id of its own.
TextCall(n) == LET id == Calls + n IN Entry(id, 0, id, id)

\* Why a frame ends the turn, if it does; prose is what an envelope without a
\* call leaves of its text.
Refused(f, visible, send) ==
    CASE f.text = "bad" /\ f.entries = <<>> /\ ~ saw.call /\ Required -> "required"
      [] f.text = "bad" /\ f.entries = <<>> /\ ~ saw.call /\ turn.wants = "tools" -> "malformed"
      [] First(f) /\ Tools /\ (saw.opening \/ Marked(f)) /\ ~ SawCall(f) -> "malformed"
      [] First(f) /\ ~ Tools /\ ~ SawCall(f) /\ ~ visible /\ send = <<>> -> "empty"
      [] OTHER -> "none"

FinishReason(called) == IF called THEN "tool_calls" ELSE "stop"

\* What the restorers hold, before a finish.
Tails(texts, args) ==
    (IF texts["content"] = <<>> THEN <<>> ELSE <<Out(TRUE, <<>>, "none")>>)
    \o (IF args = {} THEN <<>> ELSE <<Out(FALSE, SetToSeq({[index |-> i] : i \in args}), "none")>>)

NoTexts == [c \in Channel |-> <<>>]
Joined(texts, more) == [c \in Channel |-> texts[c] \o more[c]]
Under(s, sent) == [i \in Idx |-> s[i] \cup {x.call : x \in {y \in Range(sent) : y.index = i}}]

\* Fault: what is held stays held.
TailsKept(texts) == NoTexts

TailsOf(texts) == texts

\* The books, texts and calls that a frame makes, and the frames it is sent as.
Receive(f) ==
    LET n == frames + 1
        native == Indexed(index, f.entries)
        text == Feed(f, n)
        found == Indexed(native.index, IF Promoted(f) THEN <<TextCall(n)>> ELSE <<>>)
        sent == native.sent \o found.sent
        kept == [held EXCEPT ![f.channel] = text.keep]
        args == heldArgs \cup (IF turn.restoring THEN {x.index : x \in Range(native.sent)} ELSE {})
        tails == IF First(f) THEN TailsOf(kept) ELSE NoTexts
    IN \E prose \in (IF f.text = "bad" THEN BOOLEAN ELSE {FALSE}) :
         LET visible == saw.visible \/ prose \/ (f.channel = "content" /\ text.send # <<>>)
             why == FinishReason(SawCall(f))
             outs == (IF text.send = <<>> THEN <<>> ELSE <<Out(f.channel = "content", <<>>, "none")>>)
                     \o (IF prose THEN <<Out(TRUE, <<>>, "none")>> ELSE <<>>)
                     \o (IF sent = <<>> THEN <<>> ELSE <<Out(FALSE, sent, "none")>>)
                     \o (IF First(f) THEN Append(Tails(tails, args), Out(FALSE, <<>>, why)) ELSE <<>>)
         IN /\ Refused(f, visible, text.send) = "none"
            /\ index' = found.index
            /\ saw' = [saw EXCEPT !.opening = @ \/ Marked(f), !.visible = visible, !.call = SawCall(f)]
            /\ finish' = IF First(f) THEN why ELSE finish
            /\ held' = IF First(f) THEN [c \in Channel |-> IF tails[c] = <<>> THEN kept[c] ELSE <<>>] ELSE kept
            /\ heldArgs' = IF First(f) THEN {} ELSE args
            /\ got' = Joined([got EXCEPT ![f.channel] = @ \o text.send], tails)
            /\ message' = FoldLeft(Translate, message, outs)
            /\ sources' = Under(sources, sent)

\* A text within an open envelope stays in it.
Strips(f) == envelope' = (f.text = "open" \/ (envelope /\ f.text \notin {"good", "bad"}))

\* Parts without an id are taken for the call that was last at their place; an
\* index of theirs does not count if a call with an id, as one from the text, has it.
IdLess == {"standard", "zero", "bare"}
Tangles(f) ==
    \/ turn.style \in IdLess /\ Len(f.entries) > 1
    \/ turn.style \in IdLess /\ \E c \in NativeCall : f.entries = <<More(c)>> /\ c # begun.latest
    \/ turn.style = "numbered" /\ f.entries # <<>> /\ begun.calls \ NativeCall # {}

FrameArrives(f) ==
    /\ outcome = "streaming" /\ frames < MaxFrames
    /\ frames' = frames + 1
    /\ Receive(f)
    /\ Strips(f)
    /\ LET calls == IF Promoted(f) THEN <<TextCall(frames + 1).id>>
                    ELSE [i \in DOMAIN f.entries |-> f.entries[i].call]
       IN begun' = [calls |-> begun.calls \cup Range(calls),
                   latest |-> IF calls = <<>> THEN begun.latest ELSE Last(calls)]
    /\ fed' = IF Sends(f) THEN [fed EXCEPT ![f.channel] = Append(@, frames + 1)] ELSE fed
    /\ tangled' = (tangled \/ Tangles(f))
    /\ endedAt' = IF First(f) THEN frames + 1 ELSE endedAt
    /\ UNCHANGED <<turn, outcome>>

Ends(how) ==
    /\ outcome' = how
    /\ UNCHANGED <<turn, frames, begun, index, fed, sources, tangled>>

Untouched == UNCHANGED <<envelope, held, heldArgs, saw, finish, message, got, endedAt>>

\* A frame that the turn cannot end with, or go on with.
FrameRefused(f) ==
    /\ outcome = "streaming" /\ frames < MaxFrames
    /\ LET send == Feed(f, frames + 1).send
           visible == saw.visible \/ (f.channel = "content" /\ send # <<>>)
       IN /\ Refused(f, visible, send) # "none"
          /\ Ends(Refused(f, visible, send))
    /\ Untouched

\* The provider's end, marked or not, without what the turn needs.
EndRefused ==
    CASE Required /\ ~ saw.call -> "required"
      [] turn.wants = "tools" /\ saw.opening /\ ~ saw.call -> "malformed"
      [] turn.wants = "tools" /\ ~ saw.opening /\ ~ saw.call /\ ~ saw.visible -> "unusable"
      [] ~ Tools /\ ~ saw.call /\ ~ saw.visible -> "empty"
      [] OTHER -> "none"

\* What is held is sent, then a finish if there was none.
Flush(last) ==
    LET tails == TailsOf(held)
        outs == Tails(tails, heldArgs) \o (IF last THEN <<Out(FALSE, <<>>, FinishReason(saw.call))>> ELSE <<>>)
    IN /\ held' = [c \in Channel |-> IF tails[c] = <<>> THEN held[c] ELSE <<>>]
       /\ heldArgs' = {}
       /\ got' = Joined(got, tails)
       /\ finish' = IF last THEN FinishReason(saw.call) ELSE finish
       /\ endedAt' = IF last THEN frames ELSE endedAt
       /\ message' = FoldLeft(Translate, message, outs)

\* [DONE]: the tails go out before the turn is judged.
DoneArrives ==
    /\ outcome = "streaming" /\ ~ saw.done
    /\ envelope' = FALSE
    /\ Flush(EndRefused = "none" /\ finish = "none")
    /\ saw' = [saw EXCEPT !.done = TRUE]
    /\ Ends(IF EndRefused = "none" THEN "streaming" ELSE EndRefused)

\* The stream ends: the tails go out after it; the message is closed.
StreamCloses ==
    /\ outcome = "streaming" /\ EndRefused = "none"
    /\ Flush(finish = "none")
    /\ Ends("done")
    /\ UNCHANGED <<envelope, saw>>

TurnRefused ==
    /\ outcome = "streaming" /\ EndRefused # "none"
    /\ Ends(EndRefused)
    /\ Untouched

\* The provider fails; its reasoning repeats itself; an envelope stays open
\* for too long.
Breaks == outcome = "streaming" /\ Ends("broken") /\ Untouched
Loops ==
    /\ outcome = "streaming" /\ fed["reasoning"] # <<>>
    /\ finish = "none" /\ ~ saw.done /\ ~ saw.call
    /\ Ends("loop")
    /\ Untouched
EnvelopeTooLong == outcome = "streaming" /\ envelope /\ Ends("malformed") /\ Untouched

TurnInit ==
    /\ turn \in [wants : {"answer", "tools", "call"}, restoring : BOOLEAN, style : Style]
    /\ frames = 0 /\ begun = [calls |-> {}, latest |-> 0] /\ index = NewIndex /\ envelope = FALSE
    /\ held = NoTexts /\ heldArgs = {}
    /\ saw = [opening |-> FALSE, visible |-> FALSE, call |-> FALSE, done |-> FALSE]
    /\ finish = "none" /\ outcome = "streaming" /\ message = NewMessage
    /\ fed = NoTexts /\ got = NoTexts
    /\ sources = [i \in Idx |-> {}] /\ tangled = FALSE /\ endedAt = 0

Arrives(f) == FrameArrives(f) \/ FrameRefused(f)

TurnNext ==
    \/ turn.style = "text" /\ \E f \in TextFrames : Arrives(f)
    \/ turn.style # "text" /\ \E f \in CallFrames : Arrives(f)
    \/ DoneArrives \/ StreamCloses \/ TurnRefused
    \/ Breaks \/ Loops \/ EnvelopeTooLong

TurnSpec == TurnInit /\ [][TurnNext]_turnVars

-----------------------------------------------------------------------------
TurnTypeOK ==
    /\ turn \in [wants : {"answer", "tools", "call"}, restoring : BOOLEAN, style : Style]
    /\ frames \in 0..MaxFrames /\ begun \in [calls : SUBSET CallId, latest : 0..(Calls + MaxFrames)]
    /\ heldArgs \subseteq Idx /\ envelope \in BOOLEAN /\ tangled \in BOOLEAN
    /\ index.next \in 0..(Calls + MaxFrames) /\ DOMAIN index.owner = Idx
    /\ finish \in {"none", "stop", "tool_calls"}
    /\ outcome \in {"streaming", "done", "empty", "unusable", "malformed", "required", "loop", "broken"}
    /\ endedAt \in 0..MaxFrames

\* "Never discard buffered plaintext or emit it after finish_reason"
\* (_text_tail_frames): the texts of a channel arrive in order, those before
\* the finish have arrived when it is sent, also as the ends of arguments, and
\* all have when the stream closes.
TextArrivesWhole ==
    /\ \A c \in Channel : IsPrefix(got[c], fed[c])
    /\ finish # "none" => \A c \in Channel, n \in 1..endedAt : n \in Range(fed[c]) => n \in Range(got[c])
    /\ finish # "none" /\ frames = endedAt => heldArgs = {}
    /\ outcome = "done" => got = fed /\ heldArgs = {}

\* A client never "merges adjacent calls" (_normalize_native_stream_tool_calls):
\* each index carries one call and each call one index, found in the text or
\* native and however the provider numbers its parts, as long as a part
\* without an id belongs to the call that was last.
CallsStayApart ==
    ~ tangled =>
      /\ \A i \in Idx : Cardinality(sources[i]) <= 1
      /\ \A i, j \in Idx : i # j => sources[i] \cap sources[j] = {}

\* "Text blocks must close before Anthropic starts a tool_use block", and a
\* message has a block for every index of the turn and stops for its tools if
\* it has any (translate_openai_chunk_to_anthropic over _normalize_stream).
BlocksFollowTheTurn ==
    /\ OpenText(message) \subseteq {Len(message.blocks)}
    /\ {message.blocks[b].call : b \in DOMAIN message.blocks} \ {Nowhere} = {i \in Idx : sources[i] # {}}
    /\ outcome = "done" => (message.reason = "tool_use" <=> \E i \in Idx : sources[i] # {})
=============================================================================
