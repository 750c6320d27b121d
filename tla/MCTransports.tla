---------------------------- MODULE MCTransports ----------------------------
(***************************************************************************)
(* The scheduler of the background probes, a turn of a command line        *)
(* transport, the turns on its warm servers, and the commands that enrol   *)
(* seats, side by side for TLC: the initial state says which of them runs. *)
(***************************************************************************)
EXTENDS Maintenance, CliTurn, WarmBroker, Enrolment, TLC

CONSTANTS q1, q2, p1, p2, ann, bob, cat

VARIABLE running

transportsVars == <<running, loopVars, cliVars, warmVars, enrolVars>>

\* The tools' probes first and the most often.
FirstDelays == [tools |-> 1, modality |-> 2, composite |-> 2]
Intervals == [tools |-> 2, modality |-> 4, composite |-> 3]

\* Ann has a seat and Bob has one of Copilot; Cat is new.
Providers == ann :> Codex @@ bob :> "copilot" @@ cat :> Codex

Idle ==
    /\ state = "stopped" /\ first = FALSE /\ left = [c \in Optional |-> 0]
    /\ sleep = 0 /\ toolDue = FALSE /\ duties = {} /\ pool = 0

\* The ones that do not run have one initial state.
TransportsInit ==
    /\ running \in {"loop", "cli", "warm", "enrol"}
    /\ IF running = "loop" THEN LoopInit ELSE Idle
    /\ CliInit
    /\ running # "cli" =>
         task = [cli |-> "kilo", streams |-> FALSE, tools |-> FALSE, answered |-> FALSE]
    /\ WarmInit
    /\ running # "warm" => transport = "kilo"
    /\ EnrolInit
    /\ running # "enrol" => job = [w \in Writer |-> [kind |-> "rotate", login |-> ann]]

Looping == running = "loop" /\ UNCHANGED <<running, cliVars, warmVars, enrolVars>>
Turning == running = "cli" /\ UNCHANGED <<running, loopVars, warmVars, enrolVars>>
Warming == running = "warm" /\ UNCHANGED <<running, loopVars, cliVars, enrolVars>>
Enrolling == running = "enrol" /\ UNCHANGED <<running, loopVars, cliVars, warmVars>>

TransportsNext ==
    \/ Looping /\ LoopNext
    \/ Turning /\ CliNext
    \/ Warming /\ WarmNext
    \/ Enrolling /\ EnrolNext

\* The scheduler goes on until it is stopped; a turn has a deadline.
TransportsSpec ==
    /\ TransportsInit /\ [][TransportsNext]_transportsVars
    /\ WF_transportsVars((Looping /\ LoopSteps) \/ (Turning /\ CliSteps))
    /\ \A r \in Req : WF_transportsVars(Warming /\ WarmSteps(r))
    /\ WF_transportsVars(Warming /\ WatchdogSteps)
=============================================================================
