----------------------------- MODULE Approvals -----------------------------
(***************************************************************************)
(* Native approvals (native_question.py, approval_store.py): a high-impact *)
(* tool call, or a risky phrase of the user, is answered with a question   *)
(* to the client; the approval is kept in the process and, for a call, in  *)
(* a table that the processes share, and the answer is looked for in the   *)
(* transcript that the client's next request carries.                      *)
(*                                                                         *)
(* One conversation, whose requests (retries among them) reach any         *)
(* process.  A function of native_question.py runs in one go on the event  *)
(* loop of its process, but the table is read, written and cleaned in      *)
(* transactions of their own.  Lifetimes count down, 0 is over.            *)
(***************************************************************************)
EXTENDS Integers

CONSTANTS
    Proc,     \* processes
    Req,      \* requests that the client has under way
    MaxId,    \* bound on approvals
    Idle,     \* _TTL_SECS
    Absolute, \* _ABSOLUTE_TTL_SECS
    Risky,    \* those whose user text asks for a content approval
    Unasked   \* stands for no process

ASSUME LifetimeAssumption == Idle \in Nat \ {0} /\ Absolute \in Nat /\ Idle <= Absolute
ASSUME ProcAssumption == Unasked \notin Proc
ASSUME BoundAssumption == MaxId \in Nat \ {0} /\ Risky \subseteq Req

VARIABLES
    pending,  \* _PENDING of each process
    row,      \* the shared table
    kind,     \* scope of each approval, "none" before it is proposed
    word,     \* the client's last answer to each question
    req,      \* the requests: phase, process and transcript
    life,     \* history: what is left of each approval's two lifetimes
    accepted, \* history: how often each approval let its action pass
    late      \* history: one was accepted out of its lifetimes

approvalVars == <<pending, row, kind, word, req, life, accepted, late>>

Id == 1..MaxId
Gone == [idle |-> 0, abs |-> 0]
Whole == [idle |-> Idle, abs |-> Absolute]
Lives == [idle : 0..Idle, abs : 0..Absolute]
Alive(copy) == copy.idle > 0 /\ copy.abs > 0
Words == {"unseen", "unanswered", "allow", "deny", "other"}
Parses(w) == w \in {"allow", "deny"}   \* _extract_answer

\* Phases of a handler: a function of native_question looks the approvals up
\* and then decides.  "content", "asking" and "reasking" follow without an
\* await on what precedes them.
Lookup == {"replay", "content", "calls", "asking", "recheck", "reasking"}
Resting == [at |-> "idle", looked |-> FALSE, proc |-> Unasked,
            transcript |-> [i \in Id |-> "unseen"]]

Decides(r, f) == req[r].at = f /\ req[r].looked
InSync(r) == req[r].looked \/ req[r].at \in {"content", "asking", "reasking"}
FreeFor(r) == \A s \in Req \ {r} : req[s].proc = req[r].proc => ~ InSync(s)

Goto(r, f) == req' = [req EXCEPT ![r].at = f, ![r].looked = FALSE]
Finish(r) == req' = [req EXCEPT ![r] = Resting]
Here(r) == pending[req[r].proc]
Known(r, k) == {i \in Id : kind[i] = k /\ Alive(Here(r)[i])}

Less(n) == IF n = 0 THEN 0 ELSE n - 1
Aged(copy) == [idle |-> Less(copy.idle), abs |-> Less(copy.abs)]

-----------------------------------------------------------------------------
(* The client: it answers every question it has seen before it goes on, and  *)
(* may send the same transcript twice.                                       *)

Answer(i, w) ==
    /\ word[i] = "unanswered"
    /\ w \in {"allow", "deny", "other"}
    /\ word' = [word EXCEPT ![i] = w]
    /\ UNCHANGED <<pending, row, kind, req, life, accepted, late>>

Send(r, p) ==
    /\ req[r] = Resting
    /\ \A i \in Id : word[i] # "unanswered"
    /\ req' = [req EXCEPT ![r] = [Resting EXCEPT !.at = "replay", !.proc = p, !.transcript = word]]
    /\ UNCHANGED <<pending, row, kind, word, life, accepted, late>>

-----------------------------------------------------------------------------
(* _prune and _hydrate_pending, which every function begins with.            *)

\* An approval that the process has is not read again (setdefault).
Rehydrate(p, i) == IF pending[p][i].abs > 0 \/ ~ Alive(row[i]) THEN pending[p][i] ELSE row[i]

LookUp(r) ==
    /\ req[r].at \in Lookup /\ ~ req[r].looked
    /\ req' = [req EXCEPT ![r].looked = TRUE]
    /\ FreeFor(r)
    /\ LET p == req[r].proc
           seen == [i \in Id |-> Rehydrate(p, i)]
           over == {i \in Id : seen[i].abs > 0 /\ ~ Alive(seen[i])}
       IN /\ pending' = [pending EXCEPT ![p] = [i \in Id |-> IF i \in over THEN Gone ELSE seen[i]]]
          /\ row' = [i \in Id |-> IF i \in over \/ ~ Alive(row[i]) THEN Gone ELSE row[i]]
    /\ UNCHANGED <<kind, word, life, accepted, late>>

\* The table cannot be reached: the process goes on with what it has.
LookUpFails(r) ==
    /\ req[r].at \in Lookup /\ ~ req[r].looked
    /\ req' = [req EXCEPT ![r].looked = TRUE]
    /\ FreeFor(r)
    /\ LET p == req[r].proc
       IN pending' = [pending EXCEPT ![p] = [i \in Id |-> IF Alive(@[i]) THEN @[i] ELSE Gone]]
    /\ UNCHANGED <<row, kind, word, life, accepted, late>>

\* An answered approval leaves the process and, a call's, the table if that
\* can be reached.
Forget(r, i) ==
    /\ pending' = [pending EXCEPT ![req[r].proc][i] = Gone]
    /\ \/ kind[i] = "calls" /\ row' = [row EXCEPT ![i] = Gone]
       \/ UNCHANGED row

Accept(i) ==
    /\ accepted' = [accepted EXCEPT ![i] = IF @ = 2 THEN 2 ELSE @ + 1]
    /\ late' = (late \/ ~ Alive(life[i]))
NoneAccepted == UNCHANGED <<accepted, late>>

-----------------------------------------------------------------------------
(* Binding an answer to an approval.                                         *)

Questions(r) == {i \in Id : req[r].transcript[i] # "unseen"}

\* A question that the process does not know counts for the one approval of a
\* call that is pending.
Bound(r) ==
    (Questions(r) \cap {i \in Id : Alive(Here(r)[i])})
    \cup {i \in Known(r, "calls") : Known(r, "calls") = {i}
                                    /\ \E q \in Questions(r) : ~ Alive(Here(r)[q])}

\* The first of some answers that says allow or deny.
FirstWord(r, ids) ==
    LET said == {i \in ids : Parses(req[r].transcript[i])}
    IN IF said = {} THEN "none"
       ELSE req[r].transcript[CHOOSE i \in said : \A j \in said : i <= j]

\* Its own answer, or else the first one that belongs to no known question.
WordFor(r, i, unbound) ==
    IF Parses(req[r].transcript[i]) THEN req[r].transcript[i] ELSE FirstWord(r, unbound)

ReplayWord(r, i) == WordFor(r, i, Questions(r) \ Bound(r))
Replayable(r) == {i \in Known(r, "calls") \cap Bound(r) : ReplayWord(r, i) # "none"}

\* replay_approved_tool_response: the call that was approved goes to the
\* client without another round trip.
Replay(r) ==
    /\ Decides(r, "replay")
    /\ \E i \in Replayable(r) :
         /\ ReplayWord(r, i) = "allow"
         /\ Forget(r, i) /\ Accept(i)
    /\ Finish(r)
    /\ UNCHANGED <<kind, word, life>>

AfterReplay(r) == IF r \in Risky THEN "content" ELSE "dispatch"

Denied(r) ==
    /\ Decides(r, "replay")
    /\ \E i \in Replayable(r) : ReplayWord(r, i) = "deny" /\ Forget(r, i)
    /\ Goto(r, AfterReplay(r))
    /\ NoneAccepted
    /\ UNCHANGED <<kind, word, life>>

NothingToReplay(r) ==
    /\ Decides(r, "replay")
    /\ Replayable(r) = {}
    /\ Goto(r, AfterReplay(r))
    /\ UNCHANGED <<pending, row, kind, word, life, accepted, late>>

-----------------------------------------------------------------------------
(* Questions.                                                                *)

\* The client sees a question again if it is asked again, unless it is lost.
Shown(r, i) ==
    /\ Finish(r)
    /\ word' = word \/ word' = [word EXCEPT ![i] = "unanswered"]

\* Fault: an approval that is asked for again lives on for good.
Renewed(copy) == [idle |-> Idle, abs |-> IF copy.abs > 0 THEN Absolute ELSE 0]

\* A repeated question extends the idle expiry up to the absolute one.
Extended(copy) == [copy EXCEPT !.idle = IF Idle <= copy.abs THEN Idle ELSE copy.abs]

Propose(r, i, k, keep) ==
    /\ kind[i] = "none" /\ \A j \in Id : j < i => kind[j] # "none"
    /\ kind' = [kind EXCEPT ![i] = k]
    /\ pending' = [pending EXCEPT ![req[r].proc][i] = Whole]
    /\ row' = IF keep THEN [row EXCEPT ![i] = Whole] ELSE row
    /\ life' = [life EXCEPT ![i] = Whole]
    /\ Shown(r, i)

\* question_response_for_calls: the same call has one approval, which is
\* stored if the table can be reached.
AskForCalls(r) ==
    /\ Decides(r, "asking")
    /\ \E stored \in BOOLEAN :
         \/ /\ Known(r, "calls") = {}
            /\ \E i \in Id : Propose(r, i, "calls", stored)
         \/ \E i \in Known(r, "calls") :
              LET copy == Extended(Here(r)[i])
              IN /\ pending' = [pending EXCEPT ![req[r].proc][i] = copy]
                 /\ row' = IF stored THEN [row EXCEPT ![i] = copy] ELSE row
                 /\ life' = [life EXCEPT ![i] = [@ EXCEPT !.idle = Idle]]
                 /\ Shown(r, i)
                 /\ UNCHANGED kind
    /\ NoneAccepted

\* question_response_for_content: a question that is pending is shown again
\* as it is.
AskForContent(r) ==
    /\ Decides(r, "reasking")
    /\ \/ \E i \in Known(r, "content") : Shown(r, i) /\ UNCHANGED <<kind, pending, row, life>>
       \/ /\ Known(r, "content") = {}
          /\ \E i \in Id : Propose(r, i, "content", FALSE)
    /\ NoneAccepted

\* question_authorized_for_content: any answer of the transcript will do.
ContentWord(r, i) == WordFor(r, i, Questions(r))
ContentAnswered(r) == {i \in Known(r, "content") : ContentWord(r, i) # "none"}

\* The content's approval lets the request go to a provider in the preflight,
\* and its answer to the client afterwards.
ContentAllowed(r) ==
    /\ Decides(r, "content") \/ Decides(r, "recheck")
    /\ \E i \in ContentAnswered(r) :
         ContentWord(r, i) = "allow" /\ Forget(r, i) /\ Accept(i)
    /\ IF req[r].at = "content" THEN Goto(r, "dispatch") ELSE Finish(r)
    /\ UNCHANGED <<kind, word, life>>

\* The preflight asks, and so does the check of a provider's answer; after a
\* denial under a new id.
ContentNotAllowed(r) ==
    /\ Decides(r, "content") \/ Decides(r, "recheck")
    /\ \/ \E i \in ContentAnswered(r) : ContentWord(r, i) = "deny" /\ Forget(r, i)
       \/ ContentAnswered(r) = {} /\ UNCHANGED <<pending, row>>
    /\ Goto(r, "reasking")
    /\ NoneAccepted
    /\ UNCHANGED <<kind, word, life>>

\* An answer without a high-impact call is checked again if the text is risky.
AnswersPlainly(r) ==
    /\ req[r].at = "dispatch"
    /\ IF r \in Risky THEN Goto(r, "recheck") ELSE Finish(r)
    /\ UNCHANGED <<pending, row, kind, word, life, accepted, late>>

\* The provider proposes the call.
ProposesCall(r) ==
    /\ req[r].at = "dispatch"
    /\ Goto(r, "calls")
    /\ UNCHANGED <<pending, row, kind, word, life, accepted, late>>

\* question_authorized: a call that the transcript answers passes or is
\* asked for again.
OwnWord(r, i) == Parses(req[r].transcript[i])
CallAllowed(r) ==
    /\ Decides(r, "calls")
    /\ \E i \in Known(r, "calls") :
         req[r].transcript[i] = "allow" /\ Forget(r, i) /\ Accept(i)
    /\ Finish(r)
    /\ UNCHANGED <<kind, word, life>>

CallNotAllowed(r) ==
    /\ Decides(r, "calls")
    /\ \/ \E i \in Known(r, "calls") : req[r].transcript[i] = "deny" /\ Forget(r, i)
       \/ (\A i \in Known(r, "calls") : ~ OwnWord(r, i)) /\ UNCHANGED <<pending, row>>
    /\ Goto(r, "asking")
    /\ NoneAccepted
    /\ UNCHANGED <<kind, word, life>>

\* The provider fails or the client hangs up.
Lost(r) ==
    /\ req[r].at = "dispatch"
    /\ Finish(r)
    /\ UNCHANGED <<pending, row, kind, word, life, accepted, late>>

ApprovalRestart(p) ==
    /\ \E i \in Id : pending[p][i] # Gone
    /\ pending' = [pending EXCEPT ![p] = [i \in Id |-> Gone]]
    /\ req' = [r \in Req |-> IF req[r].proc = p THEN Resting ELSE req[r]]
    /\ UNCHANGED <<row, kind, word, life, accepted, late>>

\* Time passes between functions.
ApprovalTick ==
    /\ \A r \in Req : ~ InSync(r)
    /\ pending' = [p \in Proc |-> [i \in Id |-> Aged(pending[p][i])]]
    /\ row' = [i \in Id |-> Aged(row[i])]
    /\ life' = [i \in Id |-> Aged(life[i])]
    /\ UNCHANGED <<kind, word, req, accepted, late>>

-----------------------------------------------------------------------------
ApprovalInit ==
    /\ pending = [p \in Proc |-> [i \in Id |-> Gone]]
    /\ row = [i \in Id |-> Gone]
    /\ kind = [i \in Id |-> "none"]
    /\ word = [i \in Id |-> "unseen"]
    /\ req = [r \in Req |-> Resting]
    /\ life = [i \in Id |-> Gone]
    /\ accepted = [i \in Id |-> 0]
    /\ late = FALSE

Handler(r) ==
    \/ LookUp(r) \/ LookUpFails(r)
    \/ Replay(r) \/ Denied(r) \/ NothingToReplay(r)
    \/ ContentAllowed(r) \/ ContentNotAllowed(r) \/ AskForContent(r)
    \/ AnswersPlainly(r) \/ ProposesCall(r) \/ Lost(r)
    \/ CallAllowed(r) \/ CallNotAllowed(r) \/ AskForCalls(r)

ApprovalNext ==
    \/ \E r \in Req : Handler(r) \/ \E p \in Proc : Send(r, p)
    \/ \E i \in Id, w \in Words : Answer(i, w)
    \/ \E p \in Proc : ApprovalRestart(p)
    \/ ApprovalTick

ApprovalSpec == ApprovalInit /\ [][ApprovalNext]_approvalVars

-----------------------------------------------------------------------------
ApprovalTypeOK ==
    /\ pending \in [Proc -> [Id -> Lives]] /\ row \in [Id -> Lives] /\ life \in [Id -> Lives]
    /\ kind \in [Id -> {"none", "calls", "content"}]
    /\ word \in [Id -> Words]
    /\ req \in [Req -> [at : Lookup \cup {"idle", "dispatch"}, looked : BOOLEAN,
                     proc : Proc \cup {Unasked}, transcript : [Id -> Words]]]
    /\ accepted \in [Id -> 0..2] /\ late \in BOOLEAN

\* "Approvals have both a 5-minute idle expiry and a 15-minute absolute
\* lifetime" (docs/enterprise-controls.md): no process accepts one after
\* either has ended, whatever copy of it the process has read, extended or
\* kept from before (_prune, _hydrate_pending, question_response_for_calls).
LateAnswersDoNothing == ~ late

\* The action is "bound to the opaque question call id until the next request
\* returns the answer" (native_question.py:5): what is accepted has been
\* allowed.
AcceptedIsAllowed == \A i \in Id : accepted[i] > 0 => word[i] = "allow"
=============================================================================
