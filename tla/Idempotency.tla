----------------------------- MODULE Idempotency -----------------------------
(***************************************************************************)
(* Duplicate suppression for one Idempotency-Key: the record that          *)
(* tusker_gateway/idempotency.py keeps in table idempotency_records, the   *)
(* worker threads that run its SQL, and the middleware coroutines of the   *)
(* requests that carry the key.  Records of different keys are             *)
(* independent.  Each request chooses its lease token before it claims, so *)
(* the request itself stands for its token and for its response body.      *)
(*                                                                         *)
(* Time is relative: row.lock is the time left until locked_until and      *)
(* row.ttl the time left until expires_at, both zero once it has passed.   *)
(***************************************************************************)
EXTENDS Integers, FiniteSets

CONSTANTS
    Req,          \* requests that carry the key, each sent once
    Nobody,       \* no request
    HashOf,       \* _canonical_request_hash of each request
    LockSecs,     \* IdempotencyConfig.lock_secs
    TtlSecs,      \* IdempotencyConfig.ttl_secs
    AtomicClaim,  \* TRUE: SQLite, BEGIN IMMEDIATE locks the database;
                  \* FALSE: PostgreSQL, where the claim reads before it writes
    Prompt,       \* TRUE: renewals and worker threads beat the lock
    Faults        \* which faults may happen, subset of FaultKinds

FaultKinds == {"crash", "storage", "cancel_late"}

ASSUME ReqAssumption == Nobody \notin Req
ASSUME TimeAssumption ==
    /\ LockSecs \in Nat \ {0}
    /\ TtlSecs \in Nat \ {0}
    /\ LockSecs <= TtlSecs
ASSUME ModeAssumption ==
    /\ AtomicClaim \in BOOLEAN
    /\ Prompt \in BOOLEAN
    /\ Faults \subseteq FaultKinds

VARIABLES
    row,       \* the record of the key
    pc,        \* the coroutine of each request
    thread,    \* the worker thread that runs its claim
    found,     \* the record a PostgreSQL claim has read
    claim,     \* the Claim.state that the thread returned
    reply,     \* whose response a request was given
    lost,      \* lease_lost of each request
    patience,  \* time left in which an orphaned claim is polled for
    completed  \* history: requests whose response was ever stored

vars == <<row, pc, thread, found, claim, reply, lost, patience, completed>>

Hashes == {HashOf[r] : r \in Req}

Record == [state : {"absent", "processing", "complete"},
           token : Req \cup {Nobody},   \* lease_token, also names the hash
           owner : Req \cup {Nobody},   \* the request whose hash is stored
           body  : Req \cup {Nobody},   \* response_body
           lock  : 0..LockSecs,
           ttl   : 0..TtlSecs]

NoRecord == [state |-> "absent", token |-> Nobody, owner |-> Nobody,
             body |-> Nobody, lock |-> 0, ttl |-> 0]

ClaimState == {"none", "claimed", "conflict", "in_progress", "replay",
               "unavailable"}

Stage == {"new", "claiming", "handling", "settling", "releasing", "polling",
          "done", "left", "crashed"}

(***************************************************************************)
(* The transactions of IdempotencyStore                                    *)
(***************************************************************************)

\* DELETE ... WHERE expires_at <= now, the first statement of claim().
Unexpired(record) ==
    IF record.state # "absent" /\ record.ttl = 0 THEN NoRecord ELSE record

Insertion(r) == [state |-> "processing", token |-> r, owner |-> r,
                 body |-> Nobody, lock |-> LockSecs, ttl |-> TtlSecs]

\* The UPDATE of a takeover names only the key: it changes whatever is there.
Takeover(record, r) ==
    IF record.state = "absent" THEN record
    ELSE [record EXCEPT !.token = r, !.lock = LockSecs, !.ttl = TtlSecs]

\* Fault: a claim ignores that the lease of a processing record is held.
VerdictIgnoringLock(record, r) ==
    CASE record.state = "absent"                -> "insert"
      [] HashOf[record.owner] # HashOf[r]       -> "conflict"
      [] record.state = "complete"              -> "replay"
      [] OTHER                                  -> "takeover"

\* What claim() decides from the record it selected.
Verdict(record, r) ==
    CASE record.state = "absent"                -> "insert"
      [] /\ record.state # "absent"
         /\ HashOf[record.owner] # HashOf[r]    -> "conflict"
      [] /\ record.state = "complete"
         /\ HashOf[record.owner] = HashOf[r]    -> "replay"
      [] /\ record.state = "processing"
         /\ HashOf[record.owner] = HashOf[r]
         /\ record.lock > 0                     -> "in_progress"
      [] OTHER                                  -> "takeover"

\* Fault: a stale holder's statement matches any record of the key.
HoldsAnyRecord(r) == row.state # "absent"

\* WHERE clause of complete(), abandon() and renew().
Holds(r) ==
    /\ row.state = "processing"
    /\ row.token = r
    /\ HashOf[row.owner] = HashOf[r]

-----------------------------------------------------------------------------

Init ==
    /\ row = NoRecord
    /\ pc = [r \in Req |-> "new"]
    /\ thread = [r \in Req |-> "none"]
    /\ found = [r \in Req |-> NoRecord]
    /\ claim = [r \in Req |-> "none"]
    /\ reply = [r \in Req |-> Nobody]
    /\ lost = [r \in Req |-> FALSE]
    /\ patience = [r \in Req |-> 0]
    /\ completed = {}

\* The middleware hands claim() to a worker thread and awaits it.
Arrive(r) ==
    /\ pc[r] = "new"
    /\ pc' = [pc EXCEPT ![r] = "claiming"]
    /\ thread' = [thread EXCEPT ![r] = "running"]
    /\ UNCHANGED <<row, found, claim, reply, lost, patience, completed>>

ThreadReturns(r, state, body) ==
    /\ thread' = [thread EXCEPT ![r] = "done"]
    /\ claim' = [claim EXCEPT ![r] = state]
    /\ reply' = [reply EXCEPT ![r] = body]

\* claim() as one transaction that excludes every other one.
ClaimAtomically(r) ==
    /\ AtomicClaim
    /\ thread[r] = "running"
    /\ LET record == Unexpired(row) IN
       CASE Verdict(record, r) = "insert" ->
              row' = Insertion(r) /\ ThreadReturns(r, "claimed", Nobody)
         [] Verdict(record, r) = "takeover" ->
              row' = Takeover(record, r) /\ ThreadReturns(r, "claimed", Nobody)
         [] Verdict(record, r) = "replay" ->
              row' = record /\ ThreadReturns(r, "replay", record.body)
         [] OTHER ->
              row' = record /\ ThreadReturns(r, Verdict(record, r), Nobody)
    /\ UNCHANGED <<pc, found, lost, patience, completed>>

\* PostgreSQL runs the same statements under READ COMMITTED: the record is
\* selected without a lock, and only then inserted or updated.
ClaimReads(r) ==
    /\ ~AtomicClaim
    /\ thread[r] = "running"
    /\ LET record == Unexpired(row) IN
       /\ row' = record
       /\ CASE Verdict(record, r) \in {"insert", "takeover"} ->
                 /\ found' = [found EXCEPT ![r] = record]
                 /\ thread' = [thread EXCEPT ![r] = "writing"]
                 /\ UNCHANGED <<claim, reply>>
            [] Verdict(record, r) = "replay" ->
                 ThreadReturns(r, "replay", record.body) /\ UNCHANGED found
            [] OTHER ->
                 /\ ThreadReturns(r, Verdict(record, r), Nobody)
                 /\ UNCHANGED found
    /\ UNCHANGED <<pc, lost, patience, completed>>

\* An INSERT that meets a record violates the primary key, a storage error.
ClaimWrites(r) ==
    /\ thread[r] = "writing"
    /\ IF found[r].state # "absent"
       THEN row' = Takeover(row, r) /\ ThreadReturns(r, "claimed", Nobody)
       ELSE IF row.state = "absent"
       THEN row' = Insertion(r) /\ ThreadReturns(r, "claimed", Nobody)
       ELSE row' = row /\ ThreadReturns(r, "unavailable", Nobody)
    /\ found' = [found EXCEPT ![r] = NoRecord]
    /\ UNCHANGED <<pc, lost, patience, completed>>

\* The database fails under the claim: nothing is written.
ClaimFails(r) ==
    /\ "storage" \in Faults
    /\ thread[r] \in {"running", "writing"}
    /\ ThreadReturns(r, "unavailable", Nobody)
    /\ found' = [found EXCEPT ![r] = NoRecord]
    /\ UNCHANGED <<row, pc, lost, patience, completed>>

\* The coroutine resumes with the Claim: it runs the handler, or it answers
\* with the replay, with 409 or with 503.
ReceiveClaim(r) ==
    /\ pc[r] = "claiming"
    /\ thread[r] = "done"
    /\ pc' = [pc EXCEPT ![r] = IF claim[r] = "claimed" THEN "handling"
                                                       ELSE "done"]
    /\ UNCHANGED <<row, thread, found, claim, reply, lost, patience, completed>>

\* Where a cancelled claim goes.
OrphanedClaim == "polling"

\* Fault: no background task takes over from the brief polls.
BriefPolls == 0

\* For how long the record of a cancelled claim is polled for.
PollingTime == LockSecs

\* A deadline or a disconnect cancels the coroutine inside claim(); the thread
\* goes on.  _abandon_orphaned_claim, then its background task, poll for the
\* record for lock_secs.
CancelClaim(r) ==
    /\ pc[r] = "claiming"
    /\ pc' = [pc EXCEPT ![r] = OrphanedClaim]
    /\ patience' = [patience EXCEPT ![r] = PollingTime]
    /\ UNCHANGED <<row, thread, found, claim, reply, lost, completed>>

\* A poll that finds the record deletes it.
ReleaseOrphan(r) ==
    /\ pc[r] = "polling"
    /\ Holds(r)
    /\ row' = NoRecord
    /\ pc' = [pc EXCEPT ![r] = "done"]
    /\ UNCHANGED <<thread, found, claim, reply, lost, patience, completed>>

\* The polls end with their deadline, or with the first storage error, which
\* leaves a reservation that may still be committed.
StopPolling(r) ==
    /\ pc[r] = "polling"
    /\ \/ patience[r] = 0 /\ pc' = [pc EXCEPT ![r] = "done"]
       \/ "storage" \in Faults /\ pc' = [pc EXCEPT ![r] = "left"]
    /\ UNCHANGED <<row, thread, found, claim, reply, lost, patience, completed>>

\* renew_lease: extend the lease, or learn that it is lost and stop.
Renew(r) ==
    /\ pc[r] \in {"handling", "releasing"} /\ ~lost[r]
    /\ \/ /\ Holds(r)
          /\ row' = [row EXCEPT !.lock = LockSecs, !.ttl = TtlSecs]
          /\ UNCHANGED lost
       \/ /\ ~Holds(r) \/ "storage" \in Faults
          /\ lost' = [lost EXCEPT ![r] = TRUE]
          /\ UNCHANGED row
    /\ UNCHANGED <<pc, thread, found, claim, reply, patience, completed>>

\* The handler returns: a storable 2xx response goes on to be stored, any
\* other response or an exception gives the reservation back; if the lease was
\* found lost the client gets 409 and the record is left alone, also when it
\* was a storage error that ended the renewals.
HandlerReturns(r) ==
    /\ pc[r] = "handling"
    /\ \/ /\ ~lost[r]
          /\ pc' = [pc EXCEPT ![r] = "settling"]
       \/ /\ pc' = [pc EXCEPT ![r] = "releasing"]
       \/ /\ lost[r]
          /\ pc' = [pc EXCEPT ![r] = "left"]
    /\ UNCHANGED <<row, thread, found, claim, reply, lost, patience, completed>>

\* complete(): store the response, or answer 409 because the lease is gone.
Complete(r) ==
    /\ pc[r] = "settling"
    /\ IF Holds(r)
       THEN /\ row' = [row EXCEPT !.state = "complete", !.body = r, !.lock = 0]
            /\ reply' = [reply EXCEPT ![r] = r]
            /\ completed' = completed \cup {r}
       ELSE UNCHANGED <<row, reply, completed>>
    /\ pc' = [pc EXCEPT ![r] = "done"]
    /\ UNCHANGED <<thread, found, claim, lost, patience>>

\* The response is not stored and the reservation stays: the database fails, or
\* a cancellation arrives after the handler returned, while the renewal task is
\* awaited.  (One that arrives later, in complete(), does not stop its thread.)
SettleFails(r) ==
    /\ Faults \cap {"storage", "cancel_late"} # {}
    /\ pc[r] = "settling"
    /\ pc' = [pc EXCEPT ![r] = "left"]
    /\ UNCHANGED <<row, thread, found, claim, reply, lost, patience, completed>>

\* _abandon_safely(): delete the record if it is still held; a storage error is
\* logged and the record stays.
Abandon(r) ==
    /\ pc[r] = "releasing"
    /\ \/ /\ row' = IF Holds(r) THEN NoRecord ELSE row
          /\ pc' = [pc EXCEPT ![r] = "done"]
       \/ /\ "storage" \in Faults
          /\ pc' = [pc EXCEPT ![r] = "left"]
          /\ UNCHANGED row
    /\ UNCHANGED <<thread, found, claim, reply, lost, patience, completed>>

\* The process of a request dies with its coroutine and its thread.
Crash(r) ==
    /\ "crash" \in Faults
    /\ pc[r] \notin {"new", "done", "left", "crashed"}
    /\ pc' = [pc EXCEPT ![r] = "crashed"]
    /\ thread' = [thread EXCEPT ![r] = "done"]
    /\ found' = [found EXCEPT ![r] = NoRecord]
    /\ UNCHANGED <<row, claim, reply, lost, patience, completed>>

\* The requests whose reservation is being worked on and renewed.
Busy == {r \in Req : /\ pc[r] \in {"claiming", "handling", "settling", "releasing"}
                     /\ ~lost[r]}

\* Under Prompt the lease of a busy holder is renewed before it runs out
\* (renew_lease fires at a third of lock_secs), and a claim commits before the
\* polls for it end (a claim waits at most 10 s for the database).
MayTick ==
    Prompt => /\ row.state = "processing" /\ row.token \in Busy => row.lock > 1
              /\ \A r \in Req : thread[r] \in {"running", "writing"}
                                  => patience[r] # 1
              /\ \A r \in Req : pc[r] = "polling" /\ Holds(r) => patience[r] # 1

Less(n) == IF n = 0 THEN 0 ELSE n - 1

Tick ==
    /\ MayTick
    /\ row' = [row EXCEPT !.lock = Less(@), !.ttl = Less(@)]
    /\ patience' = [r \in Req |-> Less(patience[r])]
    /\ <<row', patience'>> # <<row, patience>>
    /\ UNCHANGED <<pc, thread, found, claim, reply, lost, completed>>

Thread(r) == ClaimAtomically(r) \/ ClaimReads(r) \/ ClaimWrites(r) \/ ClaimFails(r)

Coroutine(r) ==
    \/ ReceiveClaim(r) \/ ReleaseOrphan(r) \/ StopPolling(r)
    \/ HandlerReturns(r) \/ Complete(r) \/ SettleFails(r) \/ Abandon(r)

Next ==
    \/ \E r \in Req : \/ Arrive(r) \/ Thread(r) \/ Coroutine(r) \/ Renew(r)
                      \/ CancelClaim(r) \/ Crash(r)
    \/ Tick

Spec == Init /\ [][Next]_vars

-----------------------------------------------------------------------------
(* Properties *)

\* Type invariant: the lock and the life time of a record keep to their limits.
TypeOK ==
    /\ row \in Record
    /\ pc \in [Req -> Stage]
    /\ thread \in [Req -> {"none", "running", "writing", "done"}]
    /\ found \in [Req -> Record]
    /\ claim \in [Req -> ClaimState]
    /\ reply \in [Req -> Req \cup {Nobody}]
    /\ lost \in [Req -> BOOLEAN]
    /\ patience \in [Req -> 0..LockSecs]
    /\ completed \subseteq Req

\* A handler runs, or its response waits to be stored, only while its request
\* holds the reservation: "the database transaction reserves the operation
\* before provider dispatch, so concurrent duplicates return 409; a completed
\* 2xx response is replayed".  So no two handlers of the key run at once, and
\* none runs again after the response was stored.
RunnerHoldsReservation ==
    \A r \in Req : pc[r] \in {"handling", "settling"} /\ ~lost[r] => Holds(r)

\* A replay hands out a response that was stored for the same request.
ReplayIsFaithful ==
    \A r \in Req : claim[r] = "replay" =>
        reply[r] \in completed /\ HashOf[reply[r]] = HashOf[r]

\* Once stored, a response is what the key answers until the record expires,
\* whatever stale holders, cancelled claims and takeovers still do.
CompletedIsFinal ==
    [][row.state = "complete" /\ row.ttl > 0 =>
         row'.state = "complete" /\ row'.body = row.body]_vars

\* A reservation belongs to a request that will still complete it or give it
\* back, also when its claim was cancelled before the thread committed it, or
\* it was left behind by one of the ends that cannot release it: a crash, a
\* storage error where it is renewed, stored or released, a cancellation while
\* the renewal task of a finished handler is awaited.  No other end leaves one.
ReservationIsOwned ==
    row.state = "processing" => pc[row.token] \notin {"new", "done"}

=============================================================================
