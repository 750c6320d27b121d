------------------------------- MODULE CliTurn -------------------------------
(***************************************************************************)
(* One turn of a command line transport that starts a CLI of its own       *)
(* (provider_adapters: claude_code.py, opencode_cli.py, kilo_cli.py and    *)
(* their stream, cli_streaming.py), the CLI that it reads, the bridge that *)
(* writes a tool call into the file of the request, the clock and the      *)
(* client.                                                                 *)
(*                                                                         *)
(* A line of output is its kind: "text", "noise", "long" (more than the    *)
(* 64 KiB that a stream reader takes for a line) or the kind of an error.  *)
(***************************************************************************)
EXTENDS Integers, Sequences, FiniteSets

CONSTANTS
    Lines,      \* kinds of lines that the CLI prints
    MaxLines    \* bound on its lines

Errors == {"retired", "auth", "quota", "broken"}

ASSUME CliAssumption == Lines \subseteq {"text", "noise", "long"} \cup Errors /\ MaxLines \in Nat

VARIABLES
    task,       \* the request: [cli, streams, tools, answered]
    again,      \* the turn is in the run of _prose_completion
    step,       \* where the transport is
    why,        \* why it stops the CLI
    proc,       \* the CLI: "none", "runs", "resists" (it ignores SIGTERM), "gone"
    nonzero,    \* its return code is not 0
    printed,    \* its lines
    read,       \* how many of them the stream has read
    callFile,   \* the call in the file: "none", "fresh", "repeat"
    polled,     \* what _read_tool_call returned, "none" before
    sent,       \* what the client got, in order
    ended       \* how the turn ended, "no" before

cliVars == <<task, again, step, why, proc, nonzero, printed, read, callFile, polled, sent, ended>>

Claude == task.cli = "claude"
\* A run shows the tools of the request; the one for the prose shows none and
\* does not stream.
Offered == task.tools /\ ~again
Streamed == task.streams /\ ~again
Runs == proc \in {"runs", "resists"}

Printed(kind) == \E i \in 1 .. Len(printed) : printed[i] = kind

Finish(how) == step' = "done" /\ ended' = how

\* _stop_process begins: SIGTERM goes to the group of the CLI at once.
Halt(reason) ==
    /\ step' = "stops" /\ why' = reason
    /\ proc' = IF proc = "runs" THEN "gone" ELSE proc

-----------------------------------------------------------------------------
(* The CLI and its bridge                                                  *)

Prints(kind) ==
    /\ Runs /\ Len(printed) < MaxLines /\ printed' = Append(printed, kind)
    /\ UNCHANGED <<task, again, step, why, proc, nonzero, read, callFile, polled, sent, ended>>

\* The first call of a run wins: _publish_call links its file, which fails when
\* there is one.
CallWritten(c) ==
    /\ Runs /\ Offered /\ callFile = "none" /\ callFile' = c
    /\ UNCHANGED <<task, again, step, why, proc, nonzero, printed, read, polled, sent, ended>>

Exit(bad) ==
    /\ Runs /\ proc' = "gone" /\ nonzero' = bad
    /\ UNCHANGED <<task, again, step, why, printed, read, callFile, polled, sent, ended>>

-----------------------------------------------------------------------------
(* Starting and stopping it                                                *)

Spawn ==
    /\ step = "starts"
    /\ \/ Finish("failed") /\ UNCHANGED proc
       \/ proc' \in {"runs", "resists"} /\ step' = "waits" /\ UNCHANGED ended
    /\ nonzero' = FALSE /\ printed' = <<>> /\ read' = 0
    /\ callFile' = "none" /\ polled' = "none" /\ why' = "none"
    /\ UNCHANGED <<task, again, sent>>

\* Fault: a CLI that does not heed SIGTERM is waited for.
GoneByItself == step = "stops" /\ proc = "gone"

\* A CLI that is not gone after three seconds is killed.
GoneOrKilled == step = "stops"

\* A call that the transcript has an answer to is not handed out by Claude: the
\* CLI runs once more, without the tools.
Repeats == Claude /\ task.answered /\ callFile = "repeat"

CliStopped ==
    /\ GoneOrKilled /\ proc' = "gone"
    /\ IF why = "call" /\ Repeats
       THEN again' = TRUE /\ step' = "starts" /\ UNCHANGED <<sent, ended>>
       ELSE /\ UNCHANGED again
            /\ IF why = "call"
               THEN Finish("call") /\ sent' = Append(sent, IF Streamed THEN "finish" ELSE "call")
               ELSE Finish(why) /\ UNCHANGED sent
    /\ UNCHANGED <<task, why, nonzero, printed, read, callFile, polled>>

-----------------------------------------------------------------------------
(* The whole answer                                                        *)

\* The poll of the file, every 30 ms and once more after the CLI is gone.
FileRead ==
    /\ step = "waits" /\ ~Streamed /\ Offered /\ polled = "none" /\ callFile # "none"
    /\ polled' = callFile
    /\ UNCHANGED <<task, again, step, why, proc, nonzero, printed, read, callFile, sent, ended>>

\* asyncio.wait returns with the first of the two tasks: when the CLI was first
\* the poll is cancelled.
FirstOfTwo ==
    /\ step = "waits" /\ ~Streamed /\ (polled # "none" \/ proc = "gone")
    /\ IF polled # "none" THEN Halt("call") ELSE step' = "reads" /\ UNCHANGED <<why, proc>>
    /\ UNCHANGED <<task, again, nonzero, printed, read, callFile, polled, sent, ended>>

\* What the output of a whole run says: Claude asks the CLI about its login
\* when nothing in it tells; OpenCode looks for a credential first; Kilo knows a
\* retired model only.
RunFailure ==
    IF Printed("retired") /\ ~(task.cli = "opencode" /\ Printed("auth")) THEN "retired"
    ELSE IF task.cli = "kilo" THEN "failed"
    ELSE IF Printed("auth") THEN "auth"
    ELSE IF Printed("quota") THEN "quota" ELSE "failed"

\* Claude reports an error with return code 0, too.
RunFailed == nonzero \/ (Claude /\ \E kind \in Errors : Printed(kind))

WholeAnswer ==
    /\ step = "reads"
    /\ \/ /\ RunFailed
          /\ \/ Finish(RunFailure)
             \/ Claude /\ RunFailure = "failed" /\ Finish("auth")
          /\ UNCHANGED sent
       \/ /\ ~RunFailed /\ ~Printed("text")
          /\ Finish(IF again THEN "loops" ELSE "empty") /\ UNCHANGED sent
       \/ /\ ~RunFailed /\ Printed("text")
          /\ Finish("text")
          /\ sent' = sent \o IF task.streams THEN <<"text", "finish">> ELSE <<"text">>
    /\ UNCHANGED <<task, again, why, proc, nonzero, printed, read, callFile, polled>>

-----------------------------------------------------------------------------
(* The stream                                                              *)

\* A pass of the loop of stream_cli_jsonl: it waits for a line, at most 50 ms,
\* and looks at the file before it looks at the line.
HasLine == read < Len(printed)
AtEnd == proc = "gone" /\ ~HasLine

\* Fault: the end of the output is looked at first.
CallBeforeTheEnd == callFile # "none" /\ ~AtEnd

CallSeen == callFile # "none"

\* The error that ends the stream: Kilo ignores all but a retired model.
Raised(kind) ==
    CASE kind = "long" -> "unclassified"
      [] kind = "broken" -> "failed"
      [] OTHER -> kind
Fatal(kind) == kind = "long" \/ (kind \in Errors /\ (task.cli = "kilo" => kind = "retired"))

SendCall ==
    /\ step = "waits" /\ Streamed /\ Offered /\ CallSeen
    /\ Halt("call") /\ read' = IF HasLine THEN read + 1 ELSE read
    /\ sent' = IF Repeats THEN sent ELSE Append(sent, "call")
    /\ UNCHANGED <<task, again, nonzero, printed, callFile, polled, ended>>

TakeLine ==
    /\ step = "waits" /\ Streamed /\ HasLine /\ ~(Offered /\ CallSeen)
    /\ read' = read + 1
    /\ LET kind == printed[read + 1] IN
       /\ IF Fatal(kind) THEN Halt(Raised(kind)) ELSE UNCHANGED <<step, why, proc>>
       /\ sent' = IF kind = "text" THEN Append(sent, "text") ELSE sent
    /\ UNCHANGED <<task, again, nonzero, printed, callFile, polled, ended>>

\* The CLI is gone: its standard error may name a retired model, a credential or
\* a limit, which Claude's stream does not read.
OutputEnds ==
    /\ step = "waits" /\ Streamed /\ AtEnd /\ ~(Offered /\ CallSeen)
    /\ \/ /\ nonzero /\ UNCHANGED sent
          /\ \E how \in {"failed", "retired", "auth", "quota"} :
                /\ Claude => how = "failed"
                /\ task.cli = "kilo" => how \in {"failed", "retired"}
                /\ Finish(how)
       \/ ~nonzero /\ sent = <<>> /\ Finish("empty") /\ UNCHANGED sent
       \/ ~nonzero /\ sent # <<>> /\ Finish("text") /\ sent' = Append(sent, "finish")
    /\ UNCHANGED <<task, again, why, proc, nonzero, printed, read, callFile, polled>>

-----------------------------------------------------------------------------
(* The clock and the client                                                *)

\* The time of a run is over; a whole answer that is there is taken.
RunTimesOut ==
    /\ step = "waits" /\ (~Streamed => proc # "gone" /\ polled = "none")
    /\ Halt("timeout")
    /\ UNCHANGED <<task, again, nonzero, printed, read, callFile, polled, sent, ended>>

\* Fault: a cancellation stops the CLI of a stream only.
HandledInStreams == Streamed /\ step = "waits"

\* A stream, and a run with tools, stops its CLI on a cancellation, and anew on
\* one that comes while it does so, but not in the handler that is its last.
CancelIsHandled ==
    \/ Streamed /\ (step = "waits" \/ why = "timeout" \/ (why = "call" /\ ~Repeats))
    \/ ~Streamed /\ Offered

\* The request is cancelled, by its deadline or because the client left; a
\* stream is closed.
RunCancelled ==
    /\ step \in {"waits", "stops"} /\ why # "cancelled"
    /\ IF CancelIsHandled
       THEN Halt("cancelled") /\ UNCHANGED ended
       ELSE Finish("cancelled") /\ UNCHANGED <<why, proc>>
    /\ UNCHANGED <<task, again, nonzero, printed, read, callFile, polled, sent>>

-----------------------------------------------------------------------------
CliInit ==
    /\ task \in [cli : {"claude", "opencode", "kilo"}, streams : BOOLEAN, tools : BOOLEAN,
                 answered : BOOLEAN]
    /\ task.answered => Claude /\ task.tools
    /\ again = FALSE /\ step = "starts" /\ why = "none"
    /\ proc = "none" /\ nonzero = FALSE /\ printed = <<>> /\ read = 0
    /\ callFile = "none" /\ polled = "none" /\ sent = <<>> /\ ended = "no"

\* What the transport does, its deadline included.
CliSteps ==
    \/ Spawn \/ CliStopped \/ FirstOfTwo \/ WholeAnswer
    \/ SendCall \/ TakeLine \/ OutputEnds \/ RunTimesOut

CliNext ==
    \/ CliSteps \/ FileRead \/ RunCancelled
    \/ \E kind \in Lines : Prints(kind)
    \/ \E c \in {"fresh", "repeat"} : CallWritten(c)
    \/ \E bad \in BOOLEAN : Exit(bad)

CliSpec == CliInit /\ [][CliNext]_cliVars /\ WF_cliVars(CliSteps)

-----------------------------------------------------------------------------
CliTypeOK ==
    /\ task \in [cli : {"claude", "opencode", "kilo"}, streams : BOOLEAN, tools : BOOLEAN,
                 answered : BOOLEAN]
    /\ again \in BOOLEAN /\ nonzero \in BOOLEAN
    /\ step \in {"starts", "waits", "stops", "reads", "done"}
    /\ proc \in {"none", "runs", "resists", "gone"}
    /\ printed \in Seq(Lines) /\ read \in 0 .. Len(printed)
    /\ {callFile, polled} \subseteq {"none", "fresh", "repeat"}
    /\ sent \in Seq({"text", "call", "finish"})

\* "Stop and wait for its tool result" (mcp_stdio.py:129): a call that the CLI
\* made before it ended is what the client gets, and never the text next to it.
\* That is so for a stream; for a whole answer see CallsOutrankText.
StreamedCallsOutrankText ==
    ended = "text" /\ task.streams /\ ~again => callFile = "none"
CallsOutrankText == ended = "text" /\ ~again => callFile = "none"

\* A CLI with tools, or of a stream, that heeds SIGTERM is gone when its turn is
\* over, however it ended and whatever came while it was being stopped.  One
\* without is not: see NoProcessIsLeft.
GuardedRunsLeaveNone ==
    ended # "no" /\ (task.streams \/ task.tools) /\ ~again => proc # "runs"
NoProcessIsLeft == ended # "no" => proc # "runs"

\* "Map a non-zero CLI exit to the matching provider error" (opencode_cli.py:200):
\* a turn that fails does so with an error the gateway knows.
FailuresAreClassified == ended # "unclassified"

\* Every turn that has a CLI ends, whatever that does and whether or not it heeds
\* SIGTERM; so does the one for the prose.
TurnsEnd == step = "waits" ~> ended # "no"
=============================================================================
