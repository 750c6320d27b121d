-------------------------- MODULE IdempotencyProofs --------------------------
(***************************************************************************)
(* Proofs about Idempotency for any number of requests, any hashes and any *)
(* lock and life times: a stored response is final and replays are         *)
(* faithful on both databases under every fault; where the claim is atomic *)
(* and renewals are prompt, only the holder of the reservation runs.       *)
(***************************************************************************)
EXTENDS Idempotency, TLAPS

LEMMA TypeInit == Init => TypeOK
  BY TimeAssumption DEF Init, TypeOK, Record, NoRecord, Stage, ClaimState,
                        TimeAssumption

\* The four verdicts of a claim and what each says of the record.
LEMMA VerdictCases ==
    ASSUME NEW record \in Record, NEW r \in Req
    PROVE  \/ Verdict(record, r) = "insert" /\ record.state = "absent"
           \/ Verdict(record, r) = "conflict" /\ record.state # "absent"
           \/ /\ Verdict(record, r) = "replay" /\ record.state = "complete"
              /\ HashOf[record.owner] = HashOf[r]
           \/ Verdict(record, r) = "in_progress" /\ record.state = "processing"
           \/ /\ Verdict(record, r) = "takeover" /\ record.state = "processing"
              /\ record.lock = 0 /\ HashOf[record.owner] = HashOf[r]
  BY DEF Verdict, Record

LEMMA RecordsAreTyped ==
    /\ NoRecord \in Record
    /\ \A r \in Req : Insertion(r) \in Record
    /\ \A record \in Record : Unexpired(record) \in Record
    /\ \A record \in Record, r \in Req : Takeover(record, r) \in Record
  <1>1. 0 \in 0..LockSecs /\ LockSecs \in 0..LockSecs
    BY TimeAssumption DEF TimeAssumption
  <1>2. 0 \in 0..TtlSecs /\ TtlSecs \in 0..TtlSecs
    BY TimeAssumption DEF TimeAssumption
  <1>3. NoRecord \in Record
    BY <1>1, <1>2 DEF NoRecord, Record
  <1>4. \A r \in Req : Insertion(r) \in Record
    BY <1>1, <1>2 DEF Insertion, Record
  <1>5. \A record \in Record : Unexpired(record) \in Record
    BY <1>3 DEF Unexpired
  <1>6. ASSUME NEW record \in Record, NEW r \in Req
        PROVE  Takeover(record, r) \in Record
    BY <1>1, <1>2 DEF Takeover, Record
  <1> QED
    BY <1>3, <1>4, <1>5, <1>6

\* Changing the lock and the life time, or completing, keeps a record typed.
LEMMA RecordUpdates ==
    ASSUME NEW record \in Record, NEW r \in Req
    PROVE  /\ [record EXCEPT !.lock = LockSecs, !.ttl = TtlSecs] \in Record
           /\ [record EXCEPT !.state = "complete", !.body = r, !.lock = 0]
                \in Record
  <1>1. 0 \in 0..LockSecs /\ LockSecs \in 0..LockSecs
    BY TimeAssumption DEF TimeAssumption
  <1>2. TtlSecs \in 0..TtlSecs
    BY TimeAssumption DEF TimeAssumption
  <1> QED
    BY <1>1, <1>2 DEF Record

LEMMA TypeStep == TypeOK /\ [Next]_vars => TypeOK'
  <1> SUFFICES ASSUME TypeOK, [Next]_vars PROVE TypeOK'
    OBVIOUS
  <1>t. row \in Record /\ found \in [Req -> Record]
    BY DEF TypeOK
  <1>1. ASSUME NEW r \in Req, Arrive(r) PROVE TypeOK'
    BY <1>1 DEF Arrive, TypeOK, Stage
  <1>r. ASSUME NEW r \in Req, NEW state \in ClaimState,
               NEW body \in Req \cup {Nobody}, ThreadReturns(r, state, body)
        PROVE  /\ thread' \in [Req -> {"none", "running", "writing", "done"}]
               /\ claim' \in [Req -> ClaimState]
               /\ reply' \in [Req -> Req \cup {Nobody}]
    BY <1>r DEF ThreadReturns, TypeOK
  <1>2. ASSUME NEW r \in Req, ClaimAtomically(r) PROVE TypeOK'
    <2> DEFINE record == Unexpired(row)
               v == Verdict(record, r)
    <2>1. record \in Record
      BY <1>t, RecordsAreTyped
    <2>2. v \in {"insert", "conflict", "replay", "in_progress", "takeover"}
      BY <2>1, VerdictCases
    <2>3. \/ row' = Insertion(r) /\ ThreadReturns(r, "claimed", Nobody)
          \/ row' = Takeover(record, r) /\ ThreadReturns(r, "claimed", Nobody)
          \/ row' = record /\ ThreadReturns(r, "replay", record.body)
          \/ /\ row' = record /\ ThreadReturns(r, v, Nobody)
             /\ v \in {"conflict", "in_progress"}
      BY <1>2, <2>2 DEF ClaimAtomically
    <2>4. row' \in Record /\ record.body \in Req \cup {Nobody}
      BY <2>1, <2>3, RecordsAreTyped DEF Record
    <2>5. /\ thread' \in [Req -> {"none", "running", "writing", "done"}]
          /\ claim' \in [Req -> ClaimState]
          /\ reply' \in [Req -> Req \cup {Nobody}]
      <3> HIDE DEF record, v
      <3> QED BY <2>3, <2>4, <1>r DEF ClaimState
    <2> QED BY <1>2, <2>4, <2>5 DEF ClaimAtomically, TypeOK
  <1>3. ASSUME NEW r \in Req, ClaimReads(r) PROVE TypeOK'
    <2> DEFINE record == Unexpired(row)
               v == Verdict(record, r)
    <2>1. record \in Record
      BY <1>t, RecordsAreTyped
    <2>2. v \in {"insert", "conflict", "replay", "in_progress", "takeover"}
      BY <2>1, VerdictCases
    <2>3. \/ /\ found' = [found EXCEPT ![r] = record]
             /\ thread' = [thread EXCEPT ![r] = "writing"]
             /\ UNCHANGED <<claim, reply>>
          \/ ThreadReturns(r, "replay", record.body) /\ UNCHANGED found
          \/ /\ ThreadReturns(r, v, Nobody) /\ UNCHANGED found
             /\ v \in {"conflict", "in_progress"}
      BY <1>3, <2>2 DEF ClaimReads
    <2>4. record.body \in Req \cup {Nobody}
      BY <2>1 DEF Record
    <2>5. /\ thread' \in [Req -> {"none", "running", "writing", "done"}]
          /\ claim' \in [Req -> ClaimState]
          /\ reply' \in [Req -> Req \cup {Nobody}]
          /\ found' \in [Req -> Record]
      <3> HIDE DEF record, v
      <3> QED BY <2>1, <2>3, <2>4, <1>r DEF ClaimState, TypeOK
    <2> QED BY <1>3, <2>1, <2>5 DEF ClaimReads, TypeOK
  <1>4. ASSUME NEW r \in Req, ClaimWrites(r) PROVE TypeOK'
    <2>1. /\ \/ ThreadReturns(r, "claimed", Nobody)
             \/ ThreadReturns(r, "unavailable", Nobody)
          /\ row' \in {Takeover(row, r), Insertion(r), row}
      BY <1>4 DEF ClaimWrites
    <2>2. row' \in Record
      BY <2>1, <1>t, RecordsAreTyped
    <2>3. /\ thread' \in [Req -> {"none", "running", "writing", "done"}]
          /\ claim' \in [Req -> ClaimState]
          /\ reply' \in [Req -> Req \cup {Nobody}]
      BY <2>1, <1>r DEF ClaimState
    <2> QED BY <1>4, <2>2, <2>3, RecordsAreTyped DEF ClaimWrites, TypeOK
  <1>5. ASSUME NEW r \in Req, ClaimFails(r) PROVE TypeOK'
    <2>1. /\ thread' \in [Req -> {"none", "running", "writing", "done"}]
          /\ claim' \in [Req -> ClaimState]
          /\ reply' \in [Req -> Req \cup {Nobody}]
      BY <1>5, <1>r DEF ClaimState, ClaimFails
    <2> QED BY <1>5, <2>1, RecordsAreTyped DEF ClaimFails, TypeOK
  <1>6. ASSUME NEW r \in Req, ReceiveClaim(r) PROVE TypeOK'
    BY <1>6 DEF ReceiveClaim, TypeOK, Stage
  <1>7. ASSUME NEW r \in Req, CancelClaim(r) PROVE TypeOK'
    <2>1. LockSecs \in 0..LockSecs
      BY TimeAssumption DEF TimeAssumption
    <2> QED
      BY <1>7, <2>1 DEF CancelClaim, OrphanedClaim, PollingTime, TypeOK, Stage
  <1>8. ASSUME NEW r \in Req, ReleaseOrphan(r) PROVE TypeOK'
    BY <1>8, RecordsAreTyped DEF ReleaseOrphan, TypeOK, Stage
  <1>9. ASSUME NEW r \in Req, StopPolling(r) PROVE TypeOK'
    BY <1>9 DEF StopPolling, TypeOK, Stage
  <1>10. ASSUME NEW r \in Req, Renew(r) PROVE TypeOK'
    <2>1. row' \in Record /\ lost' \in [Req -> BOOLEAN]
      BY <1>10, <1>t, RecordUpdates DEF Renew, TypeOK
    <2> QED BY <1>10, <2>1 DEF Renew, TypeOK
  <1>11. ASSUME NEW r \in Req, HandlerReturns(r) PROVE TypeOK'
    BY <1>11 DEF HandlerReturns, TypeOK, Stage
  <1>12. ASSUME NEW r \in Req, Complete(r) PROVE TypeOK'
    <2>1. row' \in Record
      BY <1>12, <1>t, RecordUpdates DEF Complete
    <2> QED BY <1>12, <2>1 DEF Complete, TypeOK, Stage
  <1>13. ASSUME NEW r \in Req, SettleFails(r) PROVE TypeOK'
    BY <1>13 DEF SettleFails, TypeOK, Stage
  <1>14. ASSUME NEW r \in Req, Abandon(r) PROVE TypeOK'
    BY <1>14, RecordsAreTyped DEF Abandon, TypeOK, Stage
  <1>15. ASSUME NEW r \in Req, Crash(r) PROVE TypeOK'
    BY <1>15, RecordsAreTyped DEF Crash, TypeOK, Stage
  <1>16. CASE Tick
    <2>1. \A n \in 0..LockSecs : Less(n) \in 0..LockSecs
      BY TimeAssumption DEF Less, TimeAssumption
    <2>2. \A n \in 0..TtlSecs : Less(n) \in 0..TtlSecs
      BY TimeAssumption DEF Less, TimeAssumption
    <2>3. row' \in Record
      BY <1>16, <1>t, <2>1, <2>2 DEF Tick, Record
    <2>4. patience' \in [Req -> 0..LockSecs]
      BY <1>16, <2>1 DEF Tick, TypeOK
    <2> QED BY <1>16, <2>3, <2>4 DEF Tick, TypeOK
  <1>17. CASE UNCHANGED vars
    BY <1>17 DEF vars, TypeOK
  <1> QED
    BY <1>1, <1>2, <1>3, <1>4, <1>5, <1>6, <1>7, <1>8, <1>9, <1>10, <1>11,
       <1>12, <1>13, <1>14, <1>15, <1>16, <1>17 DEF Next, Thread, Coroutine

\* The record, the coroutines and the threads keep to their ranges.
THEOREM TypeCorrect == Spec => []TypeOK
  BY TypeInit, TypeStep, PTL DEF Spec

-----------------------------------------------------------------------------
(* What a stored response is worth *)

\* A request that holds the record finds it processing, so the statements of
\* its coroutine never touch a complete record.
LEMMA CompleteIsKept ==
    TypeOK /\ [Next]_vars =>
        (row.state = "complete" /\ row.ttl > 0 =>
             row'.state = "complete" /\ row'.body = row.body)
  <1> SUFFICES ASSUME TypeOK, [Next]_vars, row.state = "complete", row.ttl > 0
               PROVE  row'.state = "complete" /\ row'.body = row.body
    OBVIOUS
  <1>t. row \in Record
    BY DEF TypeOK
  <1>u. Unexpired(row) = row
    BY DEF Unexpired
  <1>h. \A r \in Req : ~Holds(r)
    BY DEF Holds
  <1>v. \A r \in Req : Verdict(row, r) \in {"conflict", "replay"}
    BY <1>t, VerdictCases
  <1>w. \A r \in Req : /\ Takeover(row, r).state = "complete"
                       /\ Takeover(row, r).body = row.body
    BY <1>t DEF Takeover, Record
  <1>k. ASSUME NEW r \in Req, ClaimAtomically(r) \/ ClaimReads(r) PROVE row' = row
    <2>1. CASE ClaimAtomically(r)
      BY <2>1, <1>u, <1>v DEF ClaimAtomically
    <2>2. CASE ClaimReads(r)
      BY <2>2, <1>u DEF ClaimReads
    <2> QED BY <1>k, <2>1, <2>2
  <1>1. ASSUME NEW r \in Req, Thread(r)
        PROVE  row'.state = "complete" /\ row'.body = row.body
    <2>1. CASE ClaimWrites(r)
      BY <2>1, <1>w DEF ClaimWrites
    <2>2. CASE ClaimFails(r)
      BY <2>2 DEF ClaimFails
    <2> QED BY <1>1, <1>k, <2>1, <2>2 DEF Thread
  <1>2. ASSUME NEW r \in Req, Coroutine(r) PROVE row' = row
    BY <1>2, <1>h DEF Coroutine, ReceiveClaim, ReleaseOrphan, StopPolling,
                      HandlerReturns, Complete, SettleFails, Abandon
  <1>3. ASSUME NEW r \in Req,
               Arrive(r) \/ Renew(r) \/ CancelClaim(r) \/ Crash(r)
        PROVE  row' = row
    BY <1>3, <1>h DEF Arrive, Renew, CancelClaim, Crash
  <1>4. CASE Tick
    BY <1>4, <1>t DEF Tick, Record
  <1>5. CASE UNCHANGED vars
    BY <1>5 DEF vars
  <1> QED BY <1>1, <1>2, <1>3, <1>4, <1>5 DEF Next

\* Until its life time ends a stored response is what the key answers: no stale
\* holder, cancelled claim, takeover or crash changes or deletes it, on either
\* database.
THEOREM StoredResponseIsFinal == Spec => CompletedIsFinal
  <1>1. [][TypeOK]_vars /\ [][Next]_vars => CompletedIsFinal
    BY CompleteIsKept, PTL DEF CompletedIsFinal
  <1> QED BY <1>1, TypeCorrect, PTL DEF Spec

\* What makes replays faithful: the record of a stored response carries the body
\* of a request with the hash the record keeps.
StoredIsGenuine ==
    row.state = "complete" =>
        row.body \in completed /\ HashOf[row.body] = HashOf[row.owner]

ReplayInv == TypeOK /\ StoredIsGenuine /\ ReplayIsFaithful

LEMMA ReplayStep == ReplayInv /\ [Next]_vars => ReplayInv'
  <1> SUFFICES ASSUME ReplayInv, [Next]_vars PROVE ReplayInv'
    OBVIOUS
  <1>t. TypeOK' /\ row \in Record /\ TypeOK
    BY TypeStep DEF ReplayInv, TypeOK
  <1>r. /\ row.state = "complete" =>
             row.body \in completed /\ HashOf[row.body] = HashOf[row.owner]
        /\ \A r \in Req : claim[r] = "replay" =>
             reply[r] \in completed /\ HashOf[reply[r]] = HashOf[r]
    BY DEF ReplayInv, StoredIsGenuine, ReplayIsFaithful
  \* What a transaction that stores nothing can leave behind.
  <1>k. ASSUME completed' = completed,
               row'.state = "complete" =>
                  /\ row.state = "complete" /\ row'.body = row.body
                  /\ row'.owner = row.owner
        PROVE  StoredIsGenuine'
    BY <1>k, <1>r DEF StoredIsGenuine
  <1>n. NoRecord.state = "absent" /\ \A r \in Req : Insertion(r).state = "processing"
    BY DEF NoRecord, Insertion
  <1>u. Unexpired(row) \in {row, NoRecord}
    BY DEF Unexpired
  <1>w. \A record \in {row, NoRecord}, r \in Req :
           /\ Takeover(record, r).state = record.state
           /\ Takeover(record, r).body = record.body
           /\ Takeover(record, r).owner = record.owner
    BY <1>t, RecordsAreTyped DEF Takeover, Record
  \* A claim replays only a response stored for its own hash.
  <1>c. ASSUME NEW r \in Req, NEW state, NEW body, ThreadReturns(r, state, body),
               completed' = completed,
               state = "replay" => /\ body \in completed
                                   /\ HashOf[body] = HashOf[r]
        PROVE  ReplayIsFaithful'
    BY <1>c, <1>r, <1>t DEF ReplayIsFaithful, ThreadReturns, TypeOK
  <1>v. ASSUME NEW r \in Req, Verdict(Unexpired(row), r) = "replay"
        PROVE  /\ Unexpired(row).body \in completed
               /\ HashOf[Unexpired(row).body] = HashOf[r]
    BY <1>v, <1>r, <1>t, RecordsAreTyped, VerdictCases, <1>u, <1>n
  <1>1. ASSUME NEW r \in Req, ClaimAtomically(r)
        PROVE  StoredIsGenuine' /\ ReplayIsFaithful'
    <2> DEFINE record == Unexpired(row)
               v == Verdict(record, r)
    <2>1. v \in {"insert", "conflict", "replay", "in_progress", "takeover"}
      BY <1>t, RecordsAreTyped, VerdictCases
    <2>2. \/ row' = Insertion(r) /\ ThreadReturns(r, "claimed", Nobody)
          \/ row' = Takeover(record, r) /\ ThreadReturns(r, "claimed", Nobody)
          \/ /\ row' = record /\ ThreadReturns(r, "replay", record.body)
             /\ v = "replay"
          \/ /\ row' = record /\ ThreadReturns(r, v, Nobody)
             /\ v \in {"conflict", "in_progress"}
      BY <1>1, <2>1 DEF ClaimAtomically
    <2>3. completed' = completed
      BY <1>1 DEF ClaimAtomically
    <2>4. v = "replay" => record.body \in completed /\ HashOf[record.body] = HashOf[r]
      BY <1>v
    <2>5. /\ record \in {row, NoRecord}
          /\ Takeover(record, r).state = record.state
          /\ Takeover(record, r).body = record.body
          /\ Takeover(record, r).owner = record.owner
      BY <1>u, <1>w
    <2> HIDE DEF record, v
    <2>6. row'.state = "complete" =>
             /\ row.state = "complete" /\ row'.body = row.body
             /\ row'.owner = row.owner
      BY <2>2, <2>5, <1>n
    <2>7. ReplayIsFaithful'
      BY <2>2, <2>3, <2>4, <1>c
    <2> QED BY <2>3, <2>6, <2>7, <1>k
  <1>2. ASSUME NEW r \in Req, ClaimReads(r)
        PROVE  StoredIsGenuine' /\ ReplayIsFaithful'
    <2> DEFINE record == Unexpired(row)
               v == Verdict(record, r)
    <2>1. v \in {"insert", "conflict", "replay", "in_progress", "takeover"}
      BY <1>t, RecordsAreTyped, VerdictCases
    <2>2. \/ UNCHANGED <<claim, reply>>
          \/ ThreadReturns(r, "replay", record.body) /\ v = "replay"
          \/ ThreadReturns(r, v, Nobody) /\ v \in {"conflict", "in_progress"}
      BY <1>2, <2>1 DEF ClaimReads
    <2>3. completed' = completed /\ row' = record
      BY <1>2 DEF ClaimReads
    <2>4. v = "replay" => record.body \in completed /\ HashOf[record.body] = HashOf[r]
      BY <1>v
    <2>5. record \in {row, NoRecord}
      BY <1>u
    <2> HIDE DEF record, v
    <2>6. StoredIsGenuine'
      BY <2>3, <2>5, <1>n, <1>k
    <2>7. CASE UNCHANGED <<claim, reply>>
      BY <2>3, <2>6, <2>7, <1>r DEF ReplayIsFaithful
    <2> QED BY <2>2, <2>3, <2>4, <2>6, <2>7, <1>c
  <1>3. ASSUME NEW r \in Req, ClaimWrites(r) \/ ClaimFails(r)
        PROVE  StoredIsGenuine' /\ ReplayIsFaithful'
    <2>1. /\ completed' = completed
          /\ row' \in {row, Insertion(r), Takeover(row, r)}
          /\ \/ ThreadReturns(r, "claimed", Nobody)
             \/ ThreadReturns(r, "unavailable", Nobody)
      BY <1>3 DEF ClaimWrites, ClaimFails
    <2>2. StoredIsGenuine'
      BY <2>1, <1>n, <1>w, <1>k
    <2> QED BY <2>1, <2>2, <1>c
  <1>4. ASSUME NEW r \in Req, Complete(r)
        PROVE  StoredIsGenuine' /\ ReplayIsFaithful'
    <2>1. CASE Holds(r)
      <3>1. /\ row'.body = r /\ row'.owner = row.owner
            /\ reply' = [reply EXCEPT ![r] = r] /\ completed' = completed \cup {r}
            /\ HashOf[row.owner] = HashOf[r] /\ claim' = claim
        BY <1>4, <2>1, <1>t DEF Complete, Holds, Record
      <3> QED BY <3>1, <1>r, <1>t DEF StoredIsGenuine, ReplayIsFaithful, TypeOK
    <2>2. CASE ~Holds(r)
      BY <1>4, <2>2, <1>r DEF Complete, StoredIsGenuine, ReplayIsFaithful
    <2> QED BY <2>1, <2>2
  <1>5. ASSUME NEW r \in Req, \/ ReceiveClaim(r) \/ ReleaseOrphan(r) \/ StopPolling(r)
                              \/ HandlerReturns(r) \/ SettleFails(r) \/ Abandon(r)
                              \/ Arrive(r) \/ CancelClaim(r) \/ Crash(r)
        PROVE  StoredIsGenuine' /\ ReplayIsFaithful'
    <2>1. /\ row' \in {row, NoRecord}
          /\ claim' = claim /\ reply' = reply /\ completed' = completed
      BY <1>5 DEF ReceiveClaim, ReleaseOrphan, StopPolling, HandlerReturns,
                  SettleFails, Abandon, Arrive, CancelClaim, Crash
    <2> QED BY <2>1, <1>r, <1>n, <1>k DEF ReplayIsFaithful
  <1>6. ASSUME NEW r \in Req, Renew(r)
        PROVE  StoredIsGenuine' /\ ReplayIsFaithful'
    <2>1. /\ row'.state = row.state /\ row'.body = row.body
          /\ row'.owner = row.owner
          /\ claim' = claim /\ reply' = reply /\ completed' = completed
      BY <1>6, <1>t DEF Renew, Record
    <2> QED BY <2>1, <1>r, <1>k DEF ReplayIsFaithful
  <1>7. ASSUME Tick PROVE StoredIsGenuine' /\ ReplayIsFaithful'
    <2>1. /\ row'.state = row.state /\ row'.body = row.body
          /\ row'.owner = row.owner
          /\ claim' = claim /\ reply' = reply /\ completed' = completed
      BY <1>7, <1>t DEF Tick, Record
    <2> QED BY <2>1, <1>r, <1>k DEF ReplayIsFaithful
  <1>8. ASSUME UNCHANGED vars PROVE StoredIsGenuine' /\ ReplayIsFaithful'
    BY <1>8, <1>r DEF vars, StoredIsGenuine, ReplayIsFaithful
  <1> QED
    BY <1>t, <1>1, <1>2, <1>3, <1>4, <1>5, <1>6, <1>7, <1>8
       DEF Next, Thread, Coroutine, ReplayInv

\* Whoever is given a replay is given a response that was stored for a request
\* with the same hash, under every fault and on either database.
THEOREM ReplaysAreFaithful == Spec => []ReplayIsFaithful
  <1>1. Init => StoredIsGenuine
    BY DEF Init, StoredIsGenuine, NoRecord
  <1>2. Init => ReplayIsFaithful
    BY DEF Init, ReplayIsFaithful
  <1>3. Init => ReplayInv
    BY <1>1, <1>2, TypeInit DEF ReplayInv
  <1>4. ReplayInv => ReplayIsFaithful
    BY DEF ReplayInv
  <1> QED BY <1>3, <1>4, ReplayStep, PTL DEF Spec

-----------------------------------------------------------------------------
(* Who may run the handler: an atomic claim and prompt renewals *)

\* A request that was granted the key and was not told that it lost it.
Granted(r) ==
    \/ pc[r] = "claiming" /\ thread[r] = "done" /\ claim[r] = "claimed"
    \/ pc[r] \in {"handling", "settling"} /\ ~lost[r]

GrantsHold == \A r \in Req : Granted(r) => Holds(r)

\* The record of a request at work is still locked, so no claim takes it over.
LeaseIsLive ==
    row.state = "processing" =>
        /\ row.token \in Req /\ pc[row.token] # "new"
        /\ row.lock <= row.ttl
        /\ row.token \in Busy => row.lock > 0

\* A claim is one transaction, run only by requests that have arrived, and who
\* has not received its claim yet has no lease to lose.
ClaimsAreAtomic ==
    \A r \in Req : /\ thread[r] # "writing"
                   /\ pc[r] = "new" => thread[r] = "none"
                   /\ pc[r] \in {"new", "claiming"} => ~lost[r]

HolderInv == TypeOK /\ GrantsHold /\ LeaseIsLive /\ ClaimsAreAtomic

LEMMA HolderStep ==
    ASSUME AtomicClaim, Prompt
    PROVE  HolderInv /\ [Next]_vars => HolderInv'
  <1> SUFFICES ASSUME HolderInv, [Next]_vars
               PROVE  GrantsHold' /\ LeaseIsLive' /\ ClaimsAreAtomic'
    BY TypeStep DEF HolderInv
  <1>t. /\ row \in Record /\ pc \in [Req -> Stage] /\ lost \in [Req -> BOOLEAN]
        /\ thread \in [Req -> {"none", "running", "writing", "done"}]
        /\ claim \in [Req -> ClaimState]
    BY DEF HolderInv, TypeOK
  <1>g. \A r \in Req : Granted(r) => Holds(r)
    BY DEF HolderInv, GrantsHold
  <1>l. row.state = "processing" =>
           /\ row.token \in Req /\ pc[row.token] # "new"
           /\ row.lock <= row.ttl
           /\ row.token \in Busy => row.lock > 0
    BY DEF HolderInv, LeaseIsLive
  <1>a. \A r \in Req : /\ thread[r] # "writing"
                       /\ pc[r] = "new" => thread[r] = "none"
                       /\ pc[r] \in {"new", "claiming"} => ~lost[r]
    BY DEF HolderInv, ClaimsAreAtomic
  <1>time. LockSecs > 0 /\ LockSecs <= TtlSecs /\ LockSecs \in Nat /\ TtlSecs \in Nat
    BY TimeAssumption DEF TimeAssumption
  <1>busy. \A r \in Req : Granted(r) => r \in Busy
    BY <1>a DEF Granted, Busy
  <1>n. NoRecord.state = "absent"
    BY DEF NoRecord
  \* The holder is unique: the token names it.
  <1>only. \A p, q \in Req : Holds(p) /\ Holds(q) => p = q
    BY DEF Holds
  \* While somebody was granted the key, every claim leaves the record alone.
  <1>keep. ASSUME NEW p \in Req, Granted(p), NEW r \in Req
           PROVE  /\ Unexpired(row) = row
                  /\ Verdict(row, r) \in {"conflict", "in_progress"}
    <2>1. row.state = "processing" /\ row.lock > 0 /\ row.ttl > 0
      BY <1>keep, <1>g, <1>l, <1>busy, <1>t DEF Holds, Record
    <2> QED
      BY <2>1, <1>t, VerdictCases DEF Unexpired
  <1>1. ASSUME NEW r \in Req, ClaimAtomically(r)
        PROVE  GrantsHold' /\ LeaseIsLive' /\ ClaimsAreAtomic'
    <2> DEFINE record == Unexpired(row)
               v == Verdict(record, r)
    <2>0. record \in Record /\ record \in {row, NoRecord}
      BY <1>t, RecordsAreTyped DEF Unexpired
    <2>1. /\ v \in {"insert", "conflict", "replay", "in_progress", "takeover"}
          /\ v = "takeover" => /\ record.state = "processing"
                               /\ HashOf[record.owner] = HashOf[r]
      BY <2>0, VerdictCases
    <2>2. \/ /\ v = "insert" /\ row' = Insertion(r)
             /\ ThreadReturns(r, "claimed", Nobody)
          \/ /\ v = "takeover" /\ row' = Takeover(record, r)
             /\ ThreadReturns(r, "claimed", Nobody)
          \/ /\ v = "replay" /\ row' = record
             /\ ThreadReturns(r, "replay", record.body)
          \/ /\ v \in {"conflict", "in_progress"} /\ row' = record
             /\ ThreadReturns(r, v, Nobody)
      BY <1>1, <2>1 DEF ClaimAtomically
    <2>3. thread[r] = "running" /\ pc' = pc /\ lost' = lost
      BY <1>1 DEF ClaimAtomically
    <2>4. /\ Insertion(r).state = "processing" /\ Insertion(r).token = r
          /\ Insertion(r).owner = r
          /\ Insertion(r).lock = LockSecs /\ Insertion(r).ttl = TtlSecs
      BY DEF Insertion
    <2>5. record.state = "processing" =>
          /\ Takeover(record, r).state = "processing"
          /\ Takeover(record, r).token = r
          /\ Takeover(record, r).owner = record.owner
          /\ Takeover(record, r).lock = LockSecs
          /\ Takeover(record, r).ttl = TtlSecs
      BY <2>0 DEF Takeover, Record
    <2>6. \A p \in Req : Granted(p) => record = row /\ v \in {"conflict", "in_progress"}
      BY <1>keep
    <2>7. v \in {"insert", "takeover"} =>
             /\ row'.state = "processing" /\ row'.token = r
             /\ HashOf[row'.owner] = HashOf[r]
             /\ row'.lock = LockSecs /\ row'.ttl = TtlSecs
      BY <2>1, <2>2, <2>4, <2>5
    <2> HIDE DEF record, v
    <2>8. GrantsHold'
      <3> SUFFICES ASSUME NEW p \in Req, Granted(p)' PROVE Holds(p)'
        BY DEF GrantsHold
      <3>1. CASE Granted(p)
        <4>1. row' = row
          BY <2>2, <2>6, <3>1
        <4> QED BY <4>1, <3>1, <1>g DEF Holds
      <3>2. CASE ~Granted(p)
        <4>1. p = r /\ claim'[r] = "claimed"
          BY <2>2, <2>3, <3>2, <1>t DEF Granted, ThreadReturns
        <4>2. v \in {"insert", "takeover"}
          BY <4>1, <2>2, <1>t DEF ThreadReturns
        <4> QED BY <4>1, <4>2, <2>7 DEF Holds
      <3> QED BY <3>1, <3>2
    <2>9. LeaseIsLive'
      <3>1. CASE v \in {"insert", "takeover"}
        BY <3>1, <2>3, <2>7, <1>a, <1>time DEF LeaseIsLive
      <3>2. CASE v \notin {"insert", "takeover"}
        <4>1. row' \in {row, NoRecord}
          BY <3>2, <2>2, <2>0
        <4> QED BY <4>1, <2>3, <1>l, <1>n DEF LeaseIsLive, Busy
      <3> QED BY <3>1, <3>2
    <2>10. ClaimsAreAtomic'
      BY <2>2, <2>3, <1>a, <1>t DEF ClaimsAreAtomic, ThreadReturns
    <2> QED BY <2>8, <2>9, <2>10
  <1>2. ASSUME NEW r \in Req, ClaimReads(r) \/ ClaimWrites(r)
        PROVE  FALSE
    BY <1>2, <1>a DEF ClaimReads, ClaimWrites
  <1>3. ASSUME NEW r \in Req, ClaimFails(r)
        PROVE  GrantsHold' /\ LeaseIsLive' /\ ClaimsAreAtomic'
    <2>1. /\ UNCHANGED <<row, pc, lost>> /\ thread[r] = "running"
          /\ ThreadReturns(r, "unavailable", Nobody)
      BY <1>3, <1>a DEF ClaimFails
    <2>2. GrantsHold'
      BY <2>1, <1>g, <1>t DEF GrantsHold, Granted, Holds, ThreadReturns
    <2>3. LeaseIsLive'
      BY <2>1, <1>l DEF LeaseIsLive, Busy
    <2>4. ClaimsAreAtomic'
      BY <2>1, <1>a, <1>t DEF ClaimsAreAtomic, ThreadReturns
    <2> QED BY <2>2, <2>3, <2>4
  \* A step that only moves one request on, and grants it nothing new.
  <1>m. ASSUME NEW r \in Req, row' = row, UNCHANGED <<thread, claim, lost>>,
               NEW stage \in Stage, pc' = [pc EXCEPT ![r] = stage],
               stage \notin {"new", "claiming"}, Granted(r)' => Granted(r),
               stage \in {"handling", "settling", "releasing"}
                  => r \in Busy \/ lost[r]
        PROVE  GrantsHold' /\ LeaseIsLive' /\ ClaimsAreAtomic'
    <2>1. \A p \in Req : Granted(p)' => Granted(p)
      BY <1>m, <1>t DEF Granted
    <2>2. \A p \in Req : p \in Busy' => p \in Busy
      BY <1>m, <1>t DEF Busy
    <2>3. GrantsHold'
      BY <2>1, <1>g, <1>m DEF GrantsHold, Holds
    <2>4. LeaseIsLive'
      BY <2>2, <1>l, <1>m, <1>t DEF LeaseIsLive
    <2>5. ClaimsAreAtomic'
      BY <1>a, <1>m, <1>t DEF ClaimsAreAtomic
    <2> QED BY <2>3, <2>4, <2>5
  \* A step of the holder that ends its record and its run.
  <1>e. ASSUME NEW r \in Req, Holds(r), UNCHANGED <<thread, claim, lost>>,
               pc' = [pc EXCEPT ![r] = "done"], row'.state # "processing"
        PROVE  GrantsHold' /\ LeaseIsLive' /\ ClaimsAreAtomic'
    <2>1. \A p \in Req : Granted(p)' => Granted(p) /\ p # r
      BY <1>e, <1>t DEF Granted
    <2>2. GrantsHold'
      BY <2>1, <1>g, <1>e, <1>only DEF GrantsHold
    <2>3. LeaseIsLive'
      BY <1>e DEF LeaseIsLive
    <2>4. ClaimsAreAtomic'
      BY <1>a, <1>e, <1>t DEF ClaimsAreAtomic
    <2> QED BY <2>2, <2>3, <2>4
  <1>4. ASSUME NEW r \in Req, Arrive(r)
        PROVE  GrantsHold' /\ LeaseIsLive' /\ ClaimsAreAtomic'
    <2>1. /\ pc[r] = "new" /\ row' = row
          /\ pc' = [pc EXCEPT ![r] = "claiming"]
          /\ thread' = [thread EXCEPT ![r] = "running"]
          /\ UNCHANGED <<claim, lost>>
      BY <1>4 DEF Arrive
    <2>2. GrantsHold'
      BY <2>1, <1>g, <1>t DEF GrantsHold, Granted, Holds
    <2>3. LeaseIsLive'
      BY <2>1, <1>l, <1>t DEF LeaseIsLive, Busy
    <2>4. ClaimsAreAtomic'
      BY <2>1, <1>a, <1>t DEF ClaimsAreAtomic
    <2> QED BY <2>2, <2>3, <2>4
  <1>5. ASSUME NEW r \in Req, ReceiveClaim(r)
        PROVE  GrantsHold' /\ LeaseIsLive' /\ ClaimsAreAtomic'
    <2> DEFINE stage == IF claim[r] = "claimed" THEN "handling" ELSE "done"
    <2>1. /\ row' = row /\ UNCHANGED <<thread, claim, lost>> /\ stage \in Stage
          /\ pc' = [pc EXCEPT ![r] = stage] /\ r \in Busy
          /\ stage \notin {"new", "claiming"}
      BY <1>5, <1>a DEF ReceiveClaim, Stage, Busy
    <2>2. Granted(r)' => Granted(r)
      BY <1>5, <1>t DEF ReceiveClaim, Granted
    <2> QED BY <2>1, <2>2, <1>m
  <1>6. ASSUME NEW r \in Req, CancelClaim(r)
        PROVE  GrantsHold' /\ LeaseIsLive' /\ ClaimsAreAtomic'
    <2>1. /\ row' = row /\ UNCHANGED <<thread, claim, lost>>
          /\ pc' = [pc EXCEPT ![r] = "polling"]
          /\ Granted(r)' => Granted(r)
      BY <1>6, <1>t DEF CancelClaim, OrphanedClaim, Granted
    <2> QED BY <2>1, <1>m DEF Stage
  <1>7. ASSUME NEW r \in Req, StopPolling(r) \/ SettleFails(r)
        PROVE  GrantsHold' /\ LeaseIsLive' /\ ClaimsAreAtomic'
    <2>1. PICK stage \in {"done", "left"} : pc' = [pc EXCEPT ![r] = stage]
      BY <1>7 DEF StopPolling, SettleFails
    <2>2. row' = row /\ UNCHANGED <<thread, claim, lost>>
      BY <1>7 DEF StopPolling, SettleFails
    <2>3. Granted(r)' => Granted(r)
      BY <2>1, <1>t DEF Granted
    <2> QED BY <2>1, <2>2, <2>3, <1>m DEF Stage
  <1>8. ASSUME NEW r \in Req, HandlerReturns(r)
        PROVE  GrantsHold' /\ LeaseIsLive' /\ ClaimsAreAtomic'
    <2>1. PICK stage \in {"settling", "releasing", "left"} :
             /\ pc' = [pc EXCEPT ![r] = stage]
             /\ stage = "settling" => ~lost[r]
      BY <1>8 DEF HandlerReturns
    <2>2. row' = row /\ UNCHANGED <<thread, claim, lost>> /\ pc[r] = "handling"
      BY <1>8 DEF HandlerReturns
    <2>3. Granted(r)' => Granted(r)
      BY <2>1, <2>2, <1>t DEF Granted
    <2> QED BY <2>1, <2>2, <2>3, <1>m DEF Stage, Busy
  <1>9. ASSUME NEW r \in Req, Complete(r)
        PROVE  GrantsHold' /\ LeaseIsLive' /\ ClaimsAreAtomic'
    <2>1. /\ UNCHANGED <<thread, claim, lost>>
          /\ pc' = [pc EXCEPT ![r] = "done"]
          /\ Granted(r)' => Granted(r)
      BY <1>9, <1>t DEF Complete, Granted
    <2>2. CASE Holds(r)
      <3>1. row'.state = "complete"
        BY <1>9, <2>2, <1>t DEF Complete, Record
      <3> QED BY <2>1, <2>2, <3>1, <1>e
    <2>3. CASE ~Holds(r)
      <3>1. row' = row
        BY <1>9, <2>3 DEF Complete
      <3> QED BY <2>1, <3>1, <1>m DEF Stage
    <2> QED BY <2>2, <2>3
  <1>10. ASSUME NEW r \in Req, ReleaseOrphan(r)
         PROVE  GrantsHold' /\ LeaseIsLive' /\ ClaimsAreAtomic'
    BY <1>10, <1>n, <1>e DEF ReleaseOrphan
  <1>11. ASSUME NEW r \in Req, Abandon(r)
         PROVE  GrantsHold' /\ LeaseIsLive' /\ ClaimsAreAtomic'
    <2>1. UNCHANGED <<thread, claim, lost>>
      BY <1>11 DEF Abandon
    <2>2. CASE row' = row
      <3>1. PICK stage \in {"done", "left"} : pc' = [pc EXCEPT ![r] = stage]
        BY <1>11 DEF Abandon
      <3>2. Granted(r)' => Granted(r)
        BY <3>1, <1>t DEF Granted
      <3> QED BY <2>1, <2>2, <3>1, <3>2, <1>m DEF Stage
    <2>3. CASE row' # row
      <3>1. Holds(r) /\ row' = NoRecord /\ pc' = [pc EXCEPT ![r] = "done"]
        BY <1>11, <2>3 DEF Abandon
      <3> QED BY <2>1, <3>1, <1>n, <1>e
    <2> QED BY <2>2, <2>3
  <1>12. ASSUME NEW r \in Req, Renew(r)
         PROVE  GrantsHold' /\ LeaseIsLive' /\ ClaimsAreAtomic'
    <2>1. UNCHANGED <<pc, thread, claim>>
      BY <1>12 DEF Renew
    <2>2. CASE lost' = lost /\ row' = [row EXCEPT !.lock = LockSecs, !.ttl = TtlSecs]
      <3>1. /\ row'.state = row.state /\ row'.token = row.token
            /\ row'.owner = row.owner
            /\ row'.lock = LockSecs /\ row'.ttl = TtlSecs
        BY <2>2, <1>t DEF Record
      <3>2. GrantsHold'
        BY <2>1, <2>2, <3>1, <1>g DEF GrantsHold, Granted, Holds
      <3>3. LeaseIsLive'
        BY <2>1, <3>1, <1>l, <1>time DEF LeaseIsLive, Busy
      <3>4. ClaimsAreAtomic'
        BY <2>1, <2>2, <1>a DEF ClaimsAreAtomic
      <3> QED BY <3>2, <3>3, <3>4
    <2>3. CASE lost' = [lost EXCEPT ![r] = TRUE] /\ row' = row
      <3>1. GrantsHold'
        BY <2>1, <2>3, <1>g, <1>t DEF GrantsHold, Granted, Holds
      <3>2. LeaseIsLive'
        BY <2>1, <2>3, <1>l DEF LeaseIsLive, Busy
      <3>3. ClaimsAreAtomic'
        <4>1. pc[r] \in {"handling", "releasing"}
          BY <1>12 DEF Renew
        <4> QED BY <2>1, <2>3, <4>1, <1>a, <1>t DEF ClaimsAreAtomic
      <3> QED BY <3>1, <3>2, <3>3
    <2> QED BY <1>12, <2>2, <2>3 DEF Renew
  <1>13. ASSUME NEW r \in Req, Crash(r)
         PROVE  GrantsHold' /\ LeaseIsLive' /\ ClaimsAreAtomic'
    <2>1. /\ row' = row /\ UNCHANGED <<claim, lost>>
          /\ pc' = [pc EXCEPT ![r] = "crashed"]
          /\ thread' = [thread EXCEPT ![r] = "done"]
      BY <1>13 DEF Crash
    <2>2. GrantsHold'
      BY <2>1, <1>g, <1>t DEF GrantsHold, Granted, Holds
    <2>3. LeaseIsLive'
      BY <2>1, <1>l, <1>t DEF LeaseIsLive, Busy
    <2>4. ClaimsAreAtomic'
      BY <2>1, <1>a, <1>t DEF ClaimsAreAtomic
    <2> QED BY <2>2, <2>3, <2>4
  <1>14. ASSUME Tick PROVE GrantsHold' /\ LeaseIsLive' /\ ClaimsAreAtomic'
    <2>1. /\ UNCHANGED <<pc, thread, claim, lost>>
          /\ row' = [row EXCEPT !.lock = Less(@), !.ttl = Less(@)]
          /\ row.state = "processing" /\ row.token \in Busy => row.lock > 1
      BY <1>14 DEF Tick, MayTick
    <2>2. /\ row'.state = row.state /\ row'.token = row.token
          /\ row'.owner = row.owner
          /\ row'.lock = Less(row.lock) /\ row'.ttl = Less(row.ttl)
          /\ row.lock \in Nat /\ row.ttl \in Nat
      BY <2>1, <1>t, <1>time DEF Record
    <2>3. GrantsHold'
      BY <2>1, <2>2, <1>g DEF GrantsHold, Granted, Holds
    <2>4. LeaseIsLive'
      BY <2>1, <2>2, <1>l DEF LeaseIsLive, Busy, Less
    <2>5. ClaimsAreAtomic'
      BY <2>1, <1>a DEF ClaimsAreAtomic
    <2> QED BY <2>3, <2>4, <2>5
  <1>15. ASSUME UNCHANGED vars PROVE GrantsHold' /\ LeaseIsLive' /\ ClaimsAreAtomic'
    BY <1>15, <1>g, <1>l, <1>a
       DEF vars, GrantsHold, Granted, Holds, LeaseIsLive, Busy, ClaimsAreAtomic
  <1> QED
    BY <1>1, <1>2, <1>3, <1>4, <1>5, <1>6, <1>7, <1>8, <1>9, <1>10, <1>11,
       <1>12, <1>13, <1>14, <1>15 DEF Next, Thread, Coroutine

LEMMA HolderInit == Init => HolderInv
  <1> SUFFICES ASSUME Init PROVE HolderInv
    OBVIOUS
  <1>1. /\ row.state = "absent"
        /\ \A r \in Req : pc[r] = "new" /\ thread[r] = "none" /\ lost[r] = FALSE
    BY DEF Init, NoRecord
  <1>2. GrantsHold
    BY <1>1 DEF GrantsHold, Granted
  <1>3. LeaseIsLive /\ ClaimsAreAtomic
    BY <1>1 DEF LeaseIsLive, ClaimsAreAtomic
  <1> QED BY <1>2, <1>3, TypeInit DEF HolderInv

\* On SQLite, with renewals that beat the lease, at most one request of the key
\* runs its handler at a time, it holds the reservation, and no handler runs
\* while or after a response is stored; crashes, storage errors and
\* cancellations included.
THEOREM OnlyTheHolderRuns ==
    ASSUME AtomicClaim, Prompt
    PROVE  Spec => []RunnerHoldsReservation
  <1>1. Init => HolderInv
    BY HolderInit
  <1>2. HolderInv => RunnerHoldsReservation
    BY DEF HolderInv, GrantsHold, Granted, RunnerHoldsReservation
  <1>3. HolderInv /\ [Next]_vars => HolderInv'
    BY HolderStep
  <1> QED
    BY <1>1, <1>2, <1>3, PTL DEF Spec

-----------------------------------------------------------------------------
(* Who a reservation belongs to *)

\* The request of a reservation knows that it has it, and is not done with it
\* or was kept from releasing it.
Owned ==
    row.state = "processing" =>
        /\ pc[row.token] \notin {"new", "done"}
        /\ thread[row.token] = "done" /\ claim[row.token] = "claimed"
        /\ HashOf[row.owner] = HashOf[row.token]

\* A claim under way is awaited or polled for, or a storage error has ended the
\* polls; else the polls outlast it.
Awaited ==
    \A r \in Req :
        /\ thread[r] = "running" => pc[r] \in {"claiming", "polling", "left"}
        /\ pc[r] \in {"handling", "settling", "releasing"} => thread[r] = "done"
        /\ pc[r] = "polling" /\ (thread[r] = "running" \/ Holds(r))
              => patience[r] > 0

OwnerInv == HolderInv /\ Owned /\ Awaited

LEMMA OwnerStep ==
    ASSUME AtomicClaim, Prompt
    PROVE  OwnerInv /\ [Next]_vars => OwnerInv'
  <1> SUFFICES ASSUME OwnerInv, [Next]_vars
               PROVE  Owned' /\ Awaited'
    BY HolderStep DEF OwnerInv
  <1>t. /\ row \in Record /\ pc \in [Req -> Stage] /\ lost \in [Req -> BOOLEAN]
        /\ thread \in [Req -> {"none", "running", "writing", "done"}]
        /\ claim \in [Req -> ClaimState] /\ patience \in [Req -> 0..LockSecs]
    BY DEF OwnerInv, HolderInv, TypeOK
  <1>a. \A r \in Req : thread[r] # "writing" /\ (pc[r] = "new" => thread[r] = "none")
    BY DEF OwnerInv, HolderInv, ClaimsAreAtomic
  <1>l. row.state = "processing" => row.token \in Req
    BY DEF OwnerInv, HolderInv, LeaseIsLive
  <1>time. LockSecs \in Nat /\ LockSecs > 0
    BY TimeAssumption DEF TimeAssumption
  <1> USE DEF OwnerInv, Owned, Awaited
  \* The request named by a reservation holds it.
  <1>h. row.state = "processing" => Holds(row.token)
    BY DEF Holds
  \* A step of a request without a reservation that leaves the record alone.
  <1>m. ASSUME NEW r \in Req, row' = row, ~Holds(r),
               UNCHANGED <<thread, claim, lost>>,
               NEW stage \in {"handling", "settling", "releasing", "done"},
               pc' = [pc EXCEPT ![r] = stage], pc[r] # "new",
               thread[r] = "done", patience' = patience
        PROVE  Owned' /\ Awaited'
    BY <1>m, <1>t, <1>l, <1>h DEF Holds
  \* A step of a request with its reservation that goes on with it or is kept
  \* from releasing it.
  <1>k. ASSUME NEW r \in Req, row' = row, Holds(r),
               UNCHANGED <<thread, claim, lost>>,
               NEW stage \in {"handling", "settling", "releasing", "left"},
               pc' = [pc EXCEPT ![r] = stage], patience' = patience
        PROVE  Owned' /\ Awaited'
    BY <1>k, <1>t, <1>l, <1>h DEF Holds
  \* A step that is kept from releasing a reservation, be there one or not.
  <1>f. ASSUME NEW r \in Req, row' = row, UNCHANGED <<thread, claim, lost>>,
               pc' = [pc EXCEPT ![r] = "left"], patience' = patience
        PROVE  Owned' /\ Awaited'
    BY <1>f, <1>t, <1>l, <1>h DEF Holds
  \* A step that ends a reservation and the run of its request.
  <1>e. ASSUME NEW r \in Req, Holds(r), row'.state # "processing",
               UNCHANGED <<thread, claim, lost>>,
               pc' = [pc EXCEPT ![r] = "done"], patience' = patience
        PROVE  Owned' /\ Awaited'
    BY <1>e, <1>t, <1>l, <1>h DEF Holds
  <1>1. ASSUME NEW r \in Req, Arrive(r) PROVE Owned' /\ Awaited'
    BY <1>1, <1>t, <1>l, <1>a, <1>h DEF Arrive, Holds
  <1>2. ASSUME NEW r \in Req, ClaimAtomically(r) PROVE Owned' /\ Awaited'
    <2> DEFINE record == Unexpired(row)
               v == Verdict(record, r)
    <2>0. record \in Record /\ record \in {row, NoRecord}
      BY <1>t, RecordsAreTyped DEF Unexpired
    <2>1. /\ v \in {"insert", "conflict", "replay", "in_progress", "takeover"}
          /\ v = "takeover" => /\ record.state = "processing"
                               /\ HashOf[record.owner] = HashOf[r]
      BY <2>0, VerdictCases
    <2>2. \/ /\ v = "insert" /\ row' = Insertion(r)
             /\ ThreadReturns(r, "claimed", Nobody)
          \/ /\ v = "takeover" /\ row' = Takeover(record, r)
             /\ ThreadReturns(r, "claimed", Nobody)
          \/ /\ v \notin {"insert", "takeover"} /\ row' = record
             /\ \E state, body : ThreadReturns(r, state, body)
      BY <1>2, <2>1 DEF ClaimAtomically
    <2>3. /\ thread[r] = "running" /\ UNCHANGED <<pc, lost, patience>>
          /\ thread' = [thread EXCEPT ![r] = "done"]
          /\ \A q \in Req : q # r => claim'[q] = claim[q]
      BY <1>2, <2>2, <1>t DEF ClaimAtomically, ThreadReturns
    <2>4. v \in {"insert", "takeover"} =>
             /\ row'.state = "processing" /\ row'.token = r
             /\ HashOf[row'.owner] = HashOf[r] /\ claim'[r] = "claimed"
      <3>1. Insertion(r).state = "processing" /\ Insertion(r).token = r
            /\ Insertion(r).owner = r
        BY DEF Insertion
      <3>2. record.state = "processing" =>
               /\ Takeover(record, r).state = "processing"
               /\ Takeover(record, r).token = r
               /\ Takeover(record, r).owner = record.owner
        BY <2>0 DEF Takeover, Record
      <3> QED BY <2>1, <2>2, <3>1, <3>2, <1>t DEF ThreadReturns
    <2>5. v \notin {"insert", "takeover"} => row' = row \/ row'.state = "absent"
      BY <2>0, <2>2 DEF NoRecord
    <2> HIDE DEF record, v
    <2>6. CASE v \in {"insert", "takeover"}
      <3>1. Owned'
        BY <2>3, <2>4, <2>6, <1>t
      <3>2. \A q \in Req : Holds(q)' => q = r
        BY <2>4, <2>6 DEF Holds
      <3>3. Awaited'
        BY <2>3, <3>2, <1>t
      <3> QED BY <3>1, <3>3
    <2>7. CASE v \notin {"insert", "takeover"}
      <3>1. row.state = "processing" => row.token # r
        BY <2>3
      <3>2. Owned'
        BY <2>3, <2>5, <2>7, <3>1, <1>t, <1>l
      <3>3. \A q \in Req : Holds(q)' => Holds(q)
        BY <2>5, <2>7 DEF Holds
      <3>4. Awaited'
        BY <2>3, <3>3, <1>t
      <3> QED BY <3>2, <3>4
    <2> QED BY <2>6, <2>7
  <1>3. ASSUME NEW r \in Req, ClaimReads(r) \/ ClaimWrites(r)
        PROVE  FALSE
    BY <1>3, <1>a DEF ClaimReads, ClaimWrites
  <1>16. ASSUME NEW r \in Req, ClaimFails(r) PROVE Owned' /\ Awaited'
    <2>1. /\ UNCHANGED <<row, pc, lost, patience>> /\ thread[r] = "running"
          /\ ThreadReturns(r, "unavailable", Nobody)
      BY <1>16, <1>a DEF ClaimFails
    <2>2. row.state = "processing" => row.token # r
      BY <2>1
    <2> QED BY <2>1, <2>2, <1>t, <1>l DEF ThreadReturns, Holds
  <1>4. ASSUME NEW r \in Req, ReceiveClaim(r) PROVE Owned' /\ Awaited'
    <2>1. /\ row' = row /\ UNCHANGED <<thread, claim, lost, patience>>
          /\ pc[r] = "claiming" /\ thread[r] = "done"
      BY <1>4 DEF ReceiveClaim
    <2>2. CASE claim[r] = "claimed"
      <3>1. pc' = [pc EXCEPT ![r] = "handling"]
        BY <1>4, <2>2 DEF ReceiveClaim
      <3> QED BY <2>1, <3>1, <1>m, <1>k
    <2>3. CASE claim[r] # "claimed"
      <3>1. pc' = [pc EXCEPT ![r] = "done"] /\ ~Holds(r)
        BY <1>4, <2>3 DEF ReceiveClaim, Holds
      <3> QED BY <2>1, <3>1, <1>m
    <2> QED BY <2>2, <2>3
  <1>5. ASSUME NEW r \in Req, CancelClaim(r) PROVE Owned' /\ Awaited'
    BY <1>5, <1>t, <1>l, <1>h, <1>time
    DEF CancelClaim, OrphanedClaim, PollingTime, Holds
  <1>6. ASSUME NEW r \in Req, ReleaseOrphan(r) PROVE Owned' /\ Awaited'
    BY <1>6, <1>e DEF ReleaseOrphan, NoRecord
  <1>7. ASSUME NEW r \in Req, StopPolling(r) PROVE Owned' /\ Awaited'
    <2>1. /\ row' = row /\ UNCHANGED <<thread, claim, lost, patience>>
          /\ pc[r] = "polling"
      BY <1>7 DEF StopPolling
    <2>2. CASE patience[r] = 0 /\ pc' = [pc EXCEPT ![r] = "done"]
      <3>1. ~Holds(r) /\ thread[r] # "running" /\ thread[r] # "writing"
        BY <2>1, <2>2, <1>a
      <3> QED BY <2>1, <2>2, <3>1, <1>t, <1>l, <1>h DEF Holds
    <2>3. CASE pc' = [pc EXCEPT ![r] = "left"]
      BY <2>1, <2>3, <1>f
    <2> QED BY <1>7, <2>2, <2>3 DEF StopPolling
  <1>8. ASSUME NEW r \in Req, HandlerReturns(r) PROVE Owned' /\ Awaited'
    <2>1. PICK stage \in {"settling", "releasing", "left"} :
             pc' = [pc EXCEPT ![r] = stage]
      BY <1>8 DEF HandlerReturns
    <2>2. /\ row' = row /\ UNCHANGED <<thread, claim, lost, patience>>
          /\ pc[r] = "handling" /\ thread[r] = "done"
      BY <1>8 DEF HandlerReturns
    <2>3. CASE stage = "left"
      BY <2>1, <2>2, <2>3, <1>f
    <2>4. CASE stage # "left" /\ Holds(r)
      BY <2>1, <2>2, <2>4, <1>k
    <2>5. CASE stage # "left" /\ ~Holds(r)
      BY <2>1, <2>2, <2>5, <1>m
    <2> QED BY <2>3, <2>4, <2>5
  <1>9. ASSUME NEW r \in Req, Complete(r) PROVE Owned' /\ Awaited'
    <2>1. /\ UNCHANGED <<thread, claim, lost, patience>>
          /\ pc' = [pc EXCEPT ![r] = "done"] /\ pc[r] = "settling"
      BY <1>9 DEF Complete
    <2>2. CASE Holds(r)
      <3>1. row'.state = "complete"
        BY <1>9, <2>2, <1>t DEF Complete, Record
      <3> QED BY <2>1, <2>2, <3>1, <1>e
    <2>3. CASE ~Holds(r)
      BY <1>9, <2>1, <2>3, <1>m DEF Complete
    <2> QED BY <2>2, <2>3
  <1>10. ASSUME NEW r \in Req, SettleFails(r) PROVE Owned' /\ Awaited'
    BY <1>10, <1>f DEF SettleFails
  <1>11. ASSUME NEW r \in Req, Abandon(r) PROVE Owned' /\ Awaited'
    <2>1. UNCHANGED <<thread, claim, lost, patience>> /\ pc[r] = "releasing"
      BY <1>11 DEF Abandon
    <2>2. CASE /\ row' = IF Holds(r) THEN NoRecord ELSE row
               /\ pc' = [pc EXCEPT ![r] = "done"]
      <3>1. CASE Holds(r)
        BY <2>1, <2>2, <3>1, <1>e DEF NoRecord
      <3>2. CASE ~Holds(r)
        BY <2>1, <2>2, <3>2, <1>m
      <3> QED BY <3>1, <3>2
    <2>3. CASE row' = row /\ pc' = [pc EXCEPT ![r] = "left"]
      BY <2>1, <2>3, <1>f
    <2> QED BY <1>11, <2>2, <2>3 DEF Abandon
  <1>12. ASSUME NEW r \in Req, Renew(r) PROVE Owned' /\ Awaited'
    <2>1. UNCHANGED <<pc, thread, claim, patience>> /\ thread[r] = "done"
      BY <1>12 DEF Renew
    <2>2. CASE lost' = lost /\ row' = [row EXCEPT !.lock = LockSecs, !.ttl = TtlSecs]
      <3>1. /\ row'.state = row.state /\ row'.token = row.token
            /\ row'.owner = row.owner
        BY <2>2, <1>t DEF Record
      <3> QED BY <2>1, <2>2, <3>1 DEF Holds
    <2>3. CASE row' = row
      BY <2>1, <2>3 DEF Holds
    <2> QED BY <1>12, <2>2, <2>3 DEF Renew
  <1>13. ASSUME NEW r \in Req, Crash(r) PROVE Owned' /\ Awaited'
    BY <1>13, <1>t, <1>l, <1>h DEF Crash, Holds
  <1>14. ASSUME Tick PROVE Owned' /\ Awaited'
    <2>1. /\ UNCHANGED <<pc, thread, claim, lost>>
          /\ row' = [row EXCEPT !.lock = Less(@), !.ttl = Less(@)]
          /\ patience' = [r \in Req |-> Less(patience[r])]
          /\ \A r \in Req : thread[r] = "running" => patience[r] # 1
          /\ \A r \in Req : pc[r] = "polling" /\ Holds(r) => patience[r] # 1
      BY <1>14 DEF Tick, MayTick
    <2>2. /\ row'.state = row.state /\ row'.token = row.token
          /\ row'.owner = row.owner
      BY <2>1, <1>t DEF Record
    <2>3. \A r \in Req : Holds(r)' <=> Holds(r)
      BY <2>2 DEF Holds
    <2>4. \A n \in 0..LockSecs : n > 0 /\ n # 1 => Less(n) > 0
      BY <1>time DEF Less
    <2> QED BY <2>1, <2>2, <2>3, <2>4, <1>t
  <1>15. ASSUME UNCHANGED vars PROVE Owned' /\ Awaited'
    BY <1>15 DEF vars, Holds
  <1> QED
    BY <1>1, <1>2, <1>3, <1>4, <1>5, <1>6, <1>7, <1>8, <1>9, <1>10, <1>11,
       <1>12, <1>13, <1>14, <1>15, <1>16 DEF Next, Thread, Coroutine

\* On SQLite, with renewals and polls that last, under every fault: a reservation
\* belongs to a request that will complete it or give it back, or it was left by
\* a crash, by a storage error where it is renewed, stored or released, or by a
\* cancellation after its handler returned; cancelling a claim leaves none.
THEOREM ReservationsAreOwned ==
    ASSUME AtomicClaim, Prompt
    PROVE  Spec => []ReservationIsOwned
  <1>1. Init => OwnerInv
    <2> SUFFICES ASSUME Init PROVE OwnerInv
      OBVIOUS
    <2>1. /\ row.state = "absent"
          /\ \A r \in Req : pc[r] = "new" /\ thread[r] = "none" /\ lost[r] = FALSE
      BY DEF Init, NoRecord
    <2>2. Owned /\ Awaited
      BY <2>1 DEF Owned, Awaited
    <2> QED BY <2>2, HolderInit DEF OwnerInv
  <1>2. OwnerInv => ReservationIsOwned
    BY DEF OwnerInv, Owned, ReservationIsOwned
  <1>3. OwnerInv /\ [Next]_vars => OwnerInv'
    BY OwnerStep
  <1> QED
    BY <1>1, <1>2, <1>3, PTL DEF Spec

=============================================================================
