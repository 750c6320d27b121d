----------------------------- MODULE WarmBroker -----------------------------
(***************************************************************************)
(* The warm servers of OpenCode (opencode_cli.py, _ensure_warm_service,    *)
(* _warm_events, _warm_idle_watchdog) and of Kilo (kilo_cli.py,            *)
(* _warm_tool_chat; kilo_worker.py): requests that share one server, the   *)
(* sessions that the server runs for them, and the bridge (mcp_stdio.py)   *)
(* that it spawned, which finds the request of a tool call through the     *)
(* file active.json.                                                       *)
(*                                                                         *)
(* A session is named by its request; a call by the session that made it   *)
(* and the request whose manifest it was looked up in.                     *)
(***************************************************************************)
EXTENDS Integers

CONSTANTS
    Req,           \* requests
    NoReq,
    IdleSecs       \* TUSKER_OPENCODE_WARM_IDLE_SECS, 0 to keep the server

ASSUME WarmAssumption == NoReq \notin Req /\ IdleSecs \in Nat

VARIABLES
    transport,  \* "opencode" or "kilo"
    wants,      \* what each request wants: "tools" or "text"
    believed,   \* _WARM_SERVICE_URL is set
    service,    \* the server: "ours", "foreign" (without the bridge) or "down"
    at,         \* where each request is
    answer,     \* what it ends with: "none", "text", "call", "error", "cancelled"
    pointer,    \* the request that active.json names, or NoReq
    file,       \* the call in the file of each request
    session,    \* the session of each request: "none", "live", "over"
    known,      \* the requests under way that saw the id of theirs
    strays,     \* history: those whose session went on, or whose call was still
                \* in the bridge, when they gave the lock back
    bridge,     \* the call that the bridge is at
    idle,       \* time since _WARM_LAST_USE, or since the watchdog began
    dog         \* the watchdog: "off", "sleeps", "stops"

serverVars == <<believed, service, dog>>
bridgeVars == <<pointer, file, session, known, strays, bridge>>
warmVars == <<transport, wants, serverVars, at, answer, bridgeVars, idle>>

NoCall == [by |-> NoReq, with |-> NoReq]
OpenCode == transport = "opencode"

\* Fault: the lock of the requests is given back with the answer.
HoldsToAnswer == {"opens", "runs"}

\* Who has the lock of the requests, and whether that and the lock of the server
\* are free.
Holds == {"opens", "runs", "leaves", "ends"}

RequestLockFree == \A r \in Req : at[r] \notin Holds
ServiceLockFree == dog # "stops" /\ \A r \in Req : at[r] \notin {"checks", "restarts"}

Moves(r, place) == at' = [at EXCEPT ![r] = place]

\* A server that stops takes its sessions and its bridge along.
SessionsStop ==
    /\ bridge' = NoCall
    /\ session' = [r \in Req |-> IF session[r] = "live" THEN "over" ELSE session[r]]

-----------------------------------------------------------------------------
(* _ensure_warm_service                                                    *)

\* The server that was started is asked for; a new one begins with no pointer.
Ensure(r) ==
    /\ at[r] = "asks" /\ ServiceLockFree
    /\ IF believed THEN Moves(r, "checks") /\ UNCHANGED pointer
       ELSE Moves(r, "restarts") /\ pointer' = NoReq
    /\ UNCHANGED <<transport, wants, serverVars, answer, file, session, known, strays, bridge, idle>>

\* "service status" may also fail, or take more than 30 seconds.
Checked(r) ==
    /\ at[r] = "checks"
    /\ \/ service = "ours" /\ Moves(r, "queues") /\ UNCHANGED <<believed, pointer>>
       \/ Moves(r, "restarts") /\ believed' = FALSE /\ pointer' = NoReq
    /\ UNCHANGED <<transport, wants, service, dog, answer, file, session, known, strays, bridge, idle>>

\* "service stop" and "service start", with a watchdog if there is none; with no
\* server the request runs a CLI of its own.
Restarted(r, up) ==
    /\ at[r] = "restarts" /\ SessionsStop
    /\ service' = (IF up THEN "ours" ELSE "down") /\ believed' = up
    /\ IF up /\ dog = "off" /\ IdleSecs > 0 THEN dog' = "sleeps" /\ idle' = 0
       ELSE UNCHANGED <<dog, idle>>
    /\ Moves(r, IF up THEN "queues" ELSE "alone")
    /\ UNCHANGED <<transport, wants, answer, pointer, file, known, strays>>

-----------------------------------------------------------------------------
(* A request with the lock                                                 *)

Enter(r) ==
    /\ at[r] = "queues" /\ RequestLockFree
    /\ pointer' = (IF wants[r] = "tools" THEN r ELSE NoReq)
    /\ idle' = 0 /\ Moves(r, IF OpenCode THEN "runs" ELSE "opens")
    /\ UNCHANGED <<transport, wants, serverVars, answer, file, session, known, strays, bridge>>

\* The client of OpenCode has a session, on a server that it starts if it finds
\* none; that one knows nothing of the bridge.
Attach(r) ==
    /\ at[r] = "runs" /\ session[r] = "none"
    /\ session' = [session EXCEPT ![r] = "live"]
    /\ service' = IF service = "down" THEN "foreign" ELSE service
    /\ UNCHANGED <<transport, wants, believed, dog, at, answer, pointer, file, known, strays, bridge, idle>>

\* The first event that the client prints has the id.
SessionNamed(r) ==
    /\ at[r] = "runs" /\ session[r] # "none" /\ known' = known \cup {r}
    /\ UNCHANGED <<transport, wants, serverVars, at, answer, pointer, file, session, strays, bridge, idle>>

\* Kilo's session is opened before anything is asked of it.
SessionOpened(r) ==
    /\ at[r] = "opens" /\ service = "ours" /\ Moves(r, "runs")
    /\ session' = [session EXCEPT ![r] = "live"] /\ known' = known \cup {r}
    /\ UNCHANGED <<transport, wants, serverVars, answer, pointer, file, strays, bridge, idle>>

Departs(r, with) == Moves(r, "leaves") /\ answer' = [answer EXCEPT ![r] = with]

\* A request that leaves ends its session, if it has seen its id and the server
\* obeys.
SessionClosed(r) ==
    /\ session' = session \/ (r \in known /\ session' = [session EXCEPT ![r] = "over"])
    /\ UNCHANGED bridge

\* The call in its file goes before the output; OpenCode's session is
\* interrupted and its client stopped.
CallFound(r) ==
    /\ at[r] = "runs" /\ wants[r] = "tools" /\ file[r] # NoCall
    /\ Departs(r, "call") /\ SessionClosed(r)
    /\ UNCHANGED <<transport, wants, serverVars, pointer, file, known, strays, idle>>

TurnEnded(r) ==
    /\ at[r] = "runs" /\ session[r] = "over" /\ file[r] = NoCall
    /\ \E with \in {"text", "error"} : Departs(r, with)
    /\ UNCHANGED <<transport, wants, serverVars, bridgeVars, idle>>

\* Fault: the time begins with the first event.
TimedFromTheFirstEvent(r) == at[r] = "runs" /\ r \in known

Timed(r) == at[r] \in {"opens", "runs"}

\* No client, no session, or no end in time.
TurnTimesOut(r) ==
    /\ Timed(r) /\ Departs(r, "error")
    /\ UNCHANGED <<transport, wants, serverVars, bridgeVars, idle>>

\* A request that is cancelled while it waits for a lock or a server just goes.
Abandoned(r) ==
    /\ IF at[r] \in {"opens", "runs"} THEN Departs(r, "cancelled")
       ELSE /\ at[r] \in {"asks", "checks", "restarts", "queues"}
            /\ Moves(r, "done") /\ answer' = [answer EXCEPT ![r] = "cancelled"]
    /\ UNCHANGED <<transport, wants, serverVars, bridgeVars, idle>>

\* OpenCode lets go of the bridge and then deletes its session, Kilo the other
\* way round.
LetGo(r) == pointer' = (IF wants[r] = "tools" THEN NoReq ELSE pointer) /\ UNCHANGED <<session, bridge>>
Delete(r) == SessionClosed(r) /\ UNCHANGED pointer

Left(r) ==
    /\ at[r] = "leaves" /\ Moves(r, "ends")
    /\ IF OpenCode THEN LetGo(r) ELSE Delete(r)
    /\ UNCHANGED <<transport, wants, serverVars, answer, file, known, strays, idle>>

\* What failed before anything was sent is done again by a CLI of its own.
Ended(r) ==
    /\ at[r] = "ends"
    /\ IF OpenCode THEN Delete(r) ELSE LetGo(r)
    /\ known' = known \ {r}
    /\ strays' = IF session'[r] = "live" \/ bridge.by = r THEN strays \cup {r} ELSE strays
    /\ \/ answer[r] = "error" /\ Moves(r, "alone")
       \/ (answer[r] = "error" => OpenCode) /\ Moves(r, "done")
    /\ UNCHANGED <<transport, wants, serverVars, answer, file, idle>>

-----------------------------------------------------------------------------
(* The server, its bridge and the watchdog                                 *)

\* A call that the bridge finds no request for is refused.
CallArrives(s) ==
    /\ service = "ours" /\ session[s] = "live" /\ wants[s] = "tools"
    /\ bridge = NoCall /\ pointer # NoReq
    /\ bridge' = [by |-> s, with |-> pointer]
    /\ UNCHANGED <<transport, wants, serverVars, at, answer, pointer, file, session, known, strays, idle>>

\* _publish_call looks for the request once more; the first call has the file.
CallPublished ==
    /\ bridge # NoCall /\ bridge' = NoCall
    /\ file' = IF pointer # NoReq /\ file[pointer] = NoCall
               THEN [file EXCEPT ![pointer] = bridge] ELSE file
    /\ UNCHANGED <<transport, wants, serverVars, at, answer, pointer, session, known, strays, idle>>

SessionOver(s) ==
    /\ session[s] = "live" /\ bridge.by # s /\ session' = [session EXCEPT ![s] = "over"]
    /\ UNCHANGED <<transport, wants, serverVars, at, answer, pointer, file, known, strays, bridge, idle>>

ServiceDies ==
    /\ service # "down" /\ service' = "down" /\ SessionsStop
    /\ UNCHANGED <<transport, wants, believed, dog, at, answer, pointer, file, known, strays, idle>>

TimePasses ==
    /\ dog = "sleeps" /\ idle < IdleSecs /\ idle' = idle + 1
    /\ UNCHANGED <<transport, wants, serverVars, at, answer, bridgeVars>>

DogWakes ==
    /\ dog = "sleeps" /\ idle = IdleSecs /\ ServiceLockFree
    /\ dog' = IF believed THEN "stops" ELSE "off"
    /\ UNCHANGED <<transport, wants, believed, service, at, answer, bridgeVars, idle>>

DogStops ==
    /\ dog = "stops" /\ dog' = "off"
    /\ service' = "down" /\ believed' = FALSE /\ SessionsStop
    /\ UNCHANGED <<transport, wants, at, answer, pointer, file, known, strays, idle>>

-----------------------------------------------------------------------------
\* Kilo's worker started its server; its text goes to another one, which has no
\* bridge and no lock.
WarmInit ==
    /\ transport \in {"opencode", "kilo"}
    /\ wants \in [Req -> IF OpenCode THEN {"tools", "text"} ELSE {"tools"}]
    /\ believed = FALSE /\ service = (IF OpenCode THEN "down" ELSE "ours")
    /\ at = [r \in Req |-> IF OpenCode THEN "asks" ELSE "queues"]
    /\ answer = [r \in Req |-> "none"] /\ pointer = NoReq
    /\ file = [r \in Req |-> NoCall] /\ session = [r \in Req |-> "none"]
    /\ known = {} /\ strays = {} /\ bridge = NoCall /\ idle = 0 /\ dog = "off"

\* What a request does, its deadline included.
WarmSteps(r) ==
    \/ Ensure(r) \/ Checked(r) \/ \E up \in BOOLEAN : Restarted(r, up)
    \/ Enter(r) \/ CallFound(r) \/ TurnEnded(r) \/ TurnTimesOut(r) \/ Left(r) \/ Ended(r)

WatchdogSteps == DogWakes \/ DogStops

WarmNext ==
    \/ \E r \in Req : \/ WarmSteps(r) \/ Abandoned(r) \/ Attach(r) \/ SessionNamed(r)
                      \/ SessionOpened(r) \/ CallArrives(r) \/ SessionOver(r)
    \/ WatchdogSteps \/ CallPublished \/ ServiceDies \/ TimePasses

WarmFairness ==
    /\ \A r \in Req : WF_warmVars(WarmSteps(r))
    /\ WF_warmVars(WatchdogSteps) /\ WF_warmVars(CallPublished)

WarmSpec == WarmInit /\ [][WarmNext]_warmVars /\ WarmFairness

-----------------------------------------------------------------------------
BridgeCall == [by : Req \cup {NoReq}, with : Req \cup {NoReq}]
WarmTypeOK ==
    /\ transport \in {"opencode", "kilo"} /\ wants \in [Req -> {"tools", "text"}]
    /\ believed \in BOOLEAN /\ service \in {"ours", "foreign", "down"}
    /\ at \in [Req -> {"asks", "checks", "restarts", "queues", "alone", "done"} \cup Holds]
    /\ answer \in [Req -> {"none", "text", "call", "error", "cancelled"}]
    /\ pointer \in Req \cup {NoReq} /\ file \in [Req -> BridgeCall] /\ bridge \in BridgeCall
    /\ session \in [Req -> {"none", "live", "over"}] /\ known \subseteq Req
    /\ strays \subseteq Req /\ idle \in 0 .. IdleSecs /\ dog \in {"off", "sleeps", "stops"}

\* "a concurrent request could otherwise observe another request's tools"
\* (opencode_cli.py:338): the call that a request returns to its client was made
\* for that request, with its tools, whatever was cancelled, timed out or
\* restarted before, unless it comes from a session that went on after its own
\* request had given the lock back.
CallsReachTheirRequest ==
    \A r \in Req : answer[r] = "call" =>
        file[r] = [by |-> r, with |-> r] \/ file[r].by \in strays \ {r}

\* Once one request is under way every one ends, with the lock of the requests,
\* the lock of the server, the watchdog and the sessions of the others in its way.
WarmTurnsEnd ==
    (\E r \in Req : at[r] \notin {"asks", "queues"})
        ~> (\A r \in Req : at[r] \in {"alone", "done"})

\* "releases the server once traffic stops" (docs/provider-adapters.md:210).
IdleMeansNoTraffic == [][DogStops => \A r \in Req : at[r] # "runs"]_warmVars

\* "any other service (for example one auto-started by a client) is replaced"
\* (opencode_cli.py:235), but not the one that runs a turn.
RestartsSpareTheTurn ==
    [][\A q \in Req, up \in BOOLEAN :
          Restarted(q, up) => \A r \in Req : at[r] = "runs" => session[r] # "live"]_warmVars
=============================================================================
