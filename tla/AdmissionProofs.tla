--------------------------- MODULE AdmissionProofs ---------------------------
(***************************************************************************)
(* What Admission guarantees for any number of live requests, any rate,    *)
(* burst, caps, charges and outages: its type, that admissions are paid    *)
(* for, that a request is charged once or not at all, and that a cap is    *)
(* overrun by one charge for each live request at most.                    *)
(***************************************************************************)
EXTENDS Admission, SequenceTheorems, FiniteSetTheorems, WellFoundedInduction,
        TLAPS

(***************************************************************************)
(* Type correctness                                                        *)
(***************************************************************************)

\* What a refill leaves in the bucket, and what it adds at most.
LEMMA RefillType ==
    ASSUME NEW b \in [exists : BOOLEAN, tokens : 0..Burst, last : Times],
           NEW now \in Times
    PROVE  /\ Refilled(b, now) \in
                 [exists : BOOLEAN, tokens : 0..Burst, last : Times]
           /\ Refilled(b, now).exists = b.exists
           /\ Refilled(b, now).last = now
           /\ b.last >= now => Refilled(b, now).tokens = b.tokens
           /\ b.last < now => Refilled(b, now).tokens
                                 <= b.tokens + (now - b.last) * Rate
  <1> DEFINE more == (now - b.last) * Rate
             left == IF b.last >= now THEN b.tokens
                     ELSE AtMost(Burst, b.tokens + more)
  <1>1. Rate \in Nat /\ Burst \in Nat /\ MaxTime \in Nat
    BY RateAssumption
  <1>2. Refilled(b, now) = [b EXCEPT !.tokens = left, !.last = now]
    BY DEF Refilled
  <1>3. now \in Nat /\ b.last \in Nat
    BY <1>1 DEF Times
  <1>4. b.last < now => more \in Nat
    <2>1. b.last < now => now - b.last \in Nat
      BY <1>3
    <2> QED BY <2>1, <1>1
  <1> HIDE DEF more
  <1>5. /\ left \in 0..Burst
        /\ b.last >= now => left = b.tokens
        /\ b.last < now => left <= b.tokens + more
    BY <1>1, <1>3, <1>4 DEF AtMost
  <1> HIDE DEF left
  <1> QED BY <1>2, <1>5 DEF more

\* The bucket a check consumes from is a bucket with the clock of the check.
LEMMA BucketType ==
    ASSUME TypeOK, NEW now \in Times
    PROVE  /\ BucketBeforeConsuming(now) \in
                 [exists : BOOLEAN, tokens : 0..Burst, last : Times]
           /\ BucketBeforeConsuming(now).exists
           /\ BucketBeforeConsuming(now).last = now
  <1>1. Burst \in Nat /\ MaxTime \in Nat
    BY RateAssumption
  <1>2. CASE bucket.exists
    BY <1>2, RefillType DEF BucketBeforeConsuming, TypeOK
  <1>3. CASE ~bucket.exists
    BY <1>1, <1>3 DEF BucketBeforeConsuming, FullBucket
  <1> QED BY <1>2, <1>3

\* What record and refund book is a number, and so are the rows after it.
LEMMA BookType ==
    ASSUME TypeOK, NEW r \in Req, NEW sign \in {1, -1}, Book(r, sign)
    PROVE  /\ usage' \in [Period -> [Times -> Int]]
           /\ net' \in [Req -> Int]
           /\ lapsed' \in [Req -> BOOLEAN]
           /\ outages' \in 0..MaxOutages
  <1>1. MaxOutages \in Nat
    BY FaultAssumption
  <1>2. Booked(r, sign) \in Int
    BY DEF Booked, TypeOK
  <1>3. Bumped(stamp[r], Booked(r, sign)) \in [Period -> [Times -> Int]]
    <2>1. ASSUME NEW p \in Period, NEW w, NEW n \in Int
          PROVE  [usage[p] EXCEPT ![w] = @ + n] \in [Times -> Int]
      <3>1. usage[p] \in [Times -> Int]
        BY DEF TypeOK
      <3>2. \A k \in Times : usage[p][k] \in Int /\ usage[p][k] + n \in Int
        BY <3>1
      <3> QED BY <3>1, <3>2
    <2> QED BY <1>2, <2>1 DEF Bumped
  <1>4. CASE UNCHANGED <<lapsed, outages>>
    BY <1>2, <1>3, <1>4 DEF Book, StoreIsDown, TypeOK
  <1>5. CASE StoreIsDown /\ lapsed' = [lapsed EXCEPT ![r] = TRUE]
             /\ UNCHANGED <<usage, net>>
    BY <1>1, <1>5 DEF StoreIsDown, TypeOK
  <1> QED BY <1>4, <1>5 DEF Book

\* The variables a store call or a move of the handler may change.
LEMMA MoveType ==
    ASSUME TypeOK, NEW r \in Req, NEW stage \in Stage,
           \/ Goto(r, stage) /\ UNCHANGED stamp
           \/ CallStore(r, stage)
           \/ EndCall(r, stage)
    PROVE  pc' \in [Req -> Stage] /\ stamp' \in [Req -> Times]
  <1>1. 0 \in Times
    BY RateAssumption DEF Times
  <1> QED BY <1>1 DEF Goto, CallStore, EndCall, TypeOK

\* No store call has read a clock of the future, and no bucket was refilled
\* in it.
PastOnly ==
    /\ \A r \in Req : stamp[r] <= clock
    /\ bucket.last <= clock
    /\ opened <= clock

TypeInv == TypeOK /\ PastOnly

\* The type holds at first.
LEMMA TypeInit == Init => TypeInv
  <1>1. 0 \in Times /\ 0 \in 0..Burst /\ 0 \in 0..MaxOutages
    BY RateAssumption, FaultAssumption DEF Times
  <1>2. 0 \in 0..Len(Caps)
    BY BudgetAssumption
  <1> QED BY <1>1, <1>2 DEF Init, TypeInv, TypeOK, PastOnly, Stage

\* Every step keeps the type.
LEMMA TypeNext == TypeInv /\ [Next]_vars => TypeOK'
  <1> SUFFICES ASSUME TypeOK, PastOnly, [Next]_vars PROVE TypeOK'
    BY DEF TypeInv
  <1> USE DEF rateVars, budgetVars
  <1>n. /\ MaxTime \in Nat /\ Burst \in Nat /\ Cost \in Nat /\ 0 \in Times
        /\ MaxOutages \in Nat /\ Estimate \in Nat /\ Charges \subseteq Nat
        /\ Len(Caps) \in Nat
    BY RateAssumption, BudgetAssumption, FaultAssumption DEF Times
  <1>stamps. /\ clock \in Nat
             /\ \A r \in Req : stamp[r] \in Nat /\ stamp[r] <= clock
    BY <1>n DEF TypeOK, PastOnly, Times
  <1>1. ASSUME NEW r \in Req, Arrive(r) PROVE TypeOK'
    <2>1. pc' \in [Req -> Stage] /\ stamp' \in [Req -> Times]
      BY <1>1, MoveType DEF Arrive, Stage
    <2>2. /\ passed' \in [Req -> 0..Len(Caps)] /\ charge' \in [Req -> Nat]
          /\ net' \in [Req -> Int]
      BY <1>1, <1>n DEF Arrive, TypeOK
    <2>3. /\ gone' \in [Req -> BOOLEAN] /\ cached' \in [Req -> BOOLEAN]
          /\ lapsed' \in [Req -> BOOLEAN]
      BY <1>1 DEF Arrive, TypeOK
    <2>4. UNCHANGED <<config, clock, outages, rateVars, usage>>
      BY <1>1 DEF Arrive
    <2> QED BY <2>1, <2>2, <2>3, <2>4 DEF TypeOK
  <1>2. ASSUME NEW r \in Req, CheckRate(r) PROVE TypeOK'
    <2> DEFINE now == stamp[r]
               found == BucketBeforeConsuming(now)
    <2>1. now \in Times
      BY DEF TypeOK
    <2>2. found \in [exists : BOOLEAN, tokens : 0..Burst, last : Times]
      BY <2>1, BucketType
    <2>3. bucket' = [found EXCEPT !.tokens = IF found.tokens >= Cost
                                             THEN @ - Cost ELSE @]
      BY <1>2 DEF CheckRate
    <2>4. PICK stage \in Stage : EndCall(r, stage)
      BY <1>2 DEF CheckRate, Stage
    <2>5. pc' \in [Req -> Stage] /\ stamp' \in [Req -> Times]
      BY <2>4, MoveType
    <2>6. clock - now \in Int /\ waited' = waited + (clock - now)
      BY <1>2, <1>n, <2>1 DEF CheckRate, TypeOK, Times
    <2>7. opened' \in Times /\ admitted' \in Nat
      BY <1>2, <2>1 DEF CheckRate, TypeOK
    <2> HIDE DEF found
    <2>8. bucket' \in [exists : BOOLEAN, tokens : 0..Burst, last : Times]
      BY <2>2, <2>3, <1>n
    <2>9. waited' \in Nat
      <3>1. clock - now >= 0
        BY <2>1, <1>stamps
      <3> QED BY <2>6, <3>1 DEF TypeOK
    <2>10. UNCHANGED <<config, clock, outages, budgetVars, gone>>
      BY <1>2 DEF CheckRate
    <2> QED BY <2>5, <2>7, <2>8, <2>9, <2>10 DEF TypeOK
  <1>3. ASSUME NEW r \in Req, BeginBudgetCheck(r) \/ Refuse(r) \/ PassBudget(r)
                              \/ AnswerUncounted(r) \/ ProviderFails(r)
                              \/ Answer(r) \/ BeginRefund(r)
        PROVE TypeOK'
    <2>1. PICK stage \in Stage : \/ Goto(r, stage) /\ UNCHANGED stamp
                                 \/ CallStore(r, stage) \/ EndCall(r, stage)
      BY <1>3 DEF BeginBudgetCheck, Refuse, PassBudget, AnswerUncounted,
                  ProviderFails, Answer, BeginRefund, Stage
    <2>2. pc' \in [Req -> Stage] /\ stamp' \in [Req -> Times]
      BY <2>1, MoveType
    <2>3. UNCHANGED <<config, clock, outages, rateVars, budgetVars, gone>>
      BY <1>3 DEF BeginBudgetCheck, Refuse, PassBudget, AnswerUncounted,
                  ProviderFails, Answer, BeginRefund
    <2> QED BY <2>2, <2>3 DEF TypeOK
  <1>4. ASSUME NEW r \in Req, PassCap(r) PROVE TypeOK'
    BY <1>4, <1>n DEF PassCap, TypeOK
  <1>5. ASSUME NEW r \in Req, PreflightUnavailable(r) PROVE TypeOK'
    <2>1. PICK stage \in Stage : EndCall(r, stage)
      BY <1>5 DEF PreflightUnavailable, Stage
    <2>2. pc' \in [Req -> Stage] /\ stamp' \in [Req -> Times]
      BY <2>1, MoveType
    <2>3. outages' \in 0..MaxOutages
      BY <1>5, <1>n DEF PreflightUnavailable, StoreIsDown, TypeOK
    <2> QED BY <1>5, <2>2, <2>3 DEF PreflightUnavailable, TypeOK
  <1>6. ASSUME NEW r \in Req, HitCache(r) \/ ProviderAnswers(r) PROVE TypeOK'
    <2>1. pc' \in [Req -> Stage] /\ stamp' \in [Req -> Times]
      BY <1>6, MoveType DEF HitCache, ProviderAnswers, Stage
    <2>2. cached' \in [Req -> BOOLEAN]
      BY <1>6 DEF HitCache, ProviderAnswers, TypeOK
    <2>3. PICK n \in Nat : charge' = [charge EXCEPT ![r] = n]
      <3>1. CASE HitCache(r)
        BY <3>1, <1>n DEF HitCache
      <3>2. CASE ProviderAnswers(r)
        BY <3>2, <1>n DEF ProviderAnswers
      <3> QED BY <1>6, <3>1, <3>2
    <2>4. charge' \in [Req -> Nat]
      BY <2>3 DEF TypeOK
    <2> QED BY <1>6, <2>1, <2>2, <2>4 DEF HitCache, ProviderAnswers, TypeOK
  <1>7. ASSUME NEW r \in Req, CommitRecord(r) \/ CommitRefund(r) PROVE TypeOK'
    <2>1. PICK sign \in {1, -1} : Book(r, sign)
      BY <1>7 DEF CommitRecord, CommitRefund
    <2>2. PICK stage \in Stage : EndCall(r, stage)
      BY <1>7 DEF CommitRecord, CommitRefund, Stage, TypeOK
    <2>3. pc' \in [Req -> Stage] /\ stamp' \in [Req -> Times]
      BY <2>2, MoveType
    <2>4. UNCHANGED <<config, clock, rateVars, passed, charge, cached, gone>>
      BY <1>7 DEF CommitRecord, CommitRefund
    <2> QED BY <2>1, <2>3, <2>4, BookType DEF TypeOK
  <1>8. ASSUME NEW r \in Req, Cancel(r) PROVE TypeOK'
    <2>1. pc' \in [Req -> Stage] /\ stamp' \in [Req -> Times]
      BY <1>8, MoveType DEF Cancel, Stage, TypeOK
    <2>2. gone' \in [Req -> BOOLEAN]
      BY <1>8 DEF Cancel, TypeOK
    <2> QED BY <1>8, <2>1, <2>2 DEF Cancel, TypeOK
  <1>9. CASE Tick
    BY <1>9, <1>n DEF Tick, TypeOK, Times
  <1>10. CASE UNCHANGED vars
    BY <1>10 DEF vars, TypeOK
  <1> QED BY <1>1, <1>2, <1>3, <1>4, <1>5, <1>6, <1>7, <1>8, <1>9, <1>10
          DEF Next, Step

\* No step takes a clock from the future.
LEMMA PastNext == TypeInv /\ [Next]_vars => PastOnly'
  <1> SUFFICES ASSUME TypeOK, PastOnly, [Next]_vars PROVE PastOnly'
    BY DEF TypeInv
  <1> USE DEF rateVars
  <1>n. /\ clock \in Nat /\ MaxTime \in Nat
        /\ \A r \in Req : stamp[r] \in Times /\ stamp[r] \in Nat
    BY RateAssumption DEF TypeOK, Times
  <1>1. ASSUME NEW r \in Req, CheckRate(r) PROVE PastOnly'
    <2>1. bucket'.last = stamp[r]
      BY <1>1, <1>n, BucketType DEF CheckRate
    <2>2. opened' \in {opened, stamp[r]} /\ clock' = clock
      BY <1>1 DEF CheckRate
    <2>3. stamp' = [stamp EXCEPT ![r] = 0]
      BY <1>1 DEF CheckRate, EndCall
    <2> QED BY <1>n, <2>1, <2>2, <2>3 DEF PastOnly, TypeOK
  <1>2. CASE Tick
    BY <1>2, <1>n DEF Tick, PastOnly, TypeOK, Times
  <1>3. ASSUME NEW r \in Req, Step(r), ~CheckRate(r) PROVE PastOnly'
    <2>1. UNCHANGED <<clock, rateVars>>
      BY <1>3 DEF Step, Arrive, BeginBudgetCheck, PassCap, Refuse, PassBudget,
                  PreflightUnavailable, HitCache, ProviderAnswers,
                  AnswerUncounted, ProviderFails, CommitRecord, Answer,
                  BeginRefund, CommitRefund, Cancel
    <2>2. PICK n \in {0, clock, stamp[r]} : stamp' = [stamp EXCEPT ![r] = n]
      BY <1>3 DEF Step, Arrive, BeginBudgetCheck, PassCap, Refuse, PassBudget,
                  PreflightUnavailable, HitCache, ProviderAnswers,
                  AnswerUncounted, ProviderFails, CommitRecord, Answer,
                  BeginRefund, CommitRefund, Cancel, EndCall, CallStore, TypeOK
    <2> QED BY <1>n, <2>1, <2>2 DEF PastOnly, TypeOK
  <1>4. CASE UNCHANGED vars
    BY <1>4 DEF vars, PastOnly
  <1> QED BY <1>1, <1>2, <1>3, <1>4 DEF Next

\* The type invariant, for any number of requests, limits and outages; the
\* bucket stays between empty and the burst.
THEOREM TypeCorrect == Spec => []TypeOK
  <1>1. Spec => []TypeInv
    BY TypeInit, TypeNext, PastNext, PTL DEF Spec, TypeInv
  <1> QED BY <1>1, PTL DEF TypeInv

(***************************************************************************)
(* Admissions are paid for.  The tokens in the bucket and those taken from *)
(* it never exceed what the burst and the refill up to last_refill_at      *)
(* provide; a commit with an old clock moves last_refill_at back by no     *)
(* more than the check waited.                                             *)
(***************************************************************************)

Provided(upTo) == Burst + Rate * ((upTo - opened) + waited)

Funded ==
    /\ bucket.exists  => bucket.tokens + admitted * Cost
                            <= Provided(bucket.last)
    /\ ~bucket.exists => admitted = 0 /\ opened = 0

\* Multiplication by a rate distributes and keeps the order.
LEMMA RateArithmetic ==
    ASSUME NEW a \in Nat, NEW x \in Int, NEW y \in Int
    PROVE  /\ a * x \in Int /\ a * y \in Int
           /\ a * (x + y) = a * x + a * y
           /\ x <= y => a * x <= a * y
           /\ x * a = a * x
  OBVIOUS

\* A check finds at most what is provided up to its commit.
LEMMA CheckIsFunded ==
    ASSUME TypeInv, Funded, NEW r \in Req, CheckRate(r)
    PROVE  Funded'
  <1> DEFINE now == stamp[r]
             found == BucketBeforeConsuming(now)
             supply == Burst + Rate * ((clock - opened') + waited)
  <1>n. /\ Rate \in Nat /\ Burst \in Nat /\ Cost \in Nat /\ now \in Nat
        /\ clock \in Nat /\ opened \in Nat /\ bucket.last \in Nat
        /\ waited \in Nat /\ admitted \in Nat /\ now <= clock
        /\ bucket.last <= clock /\ now \in Times
        /\ bucket \in [exists : BOOLEAN, tokens : 0..Burst, last : Times]
    BY RateAssumption DEF TypeInv, TypeOK, PastOnly, Times
  <1>1. /\ found.last = now /\ found.exists /\ found.tokens \in 0..Burst
        /\ found \in [exists : BOOLEAN, tokens : 0..Burst, last : Times]
    BY <1>n, BucketType DEF TypeInv
  <1>2. /\ opened' = IF bucket.exists THEN opened ELSE now
        /\ waited' = waited + (clock - now)
        /\ bucket' = [found EXCEPT !.tokens = IF found.tokens >= Cost
                                              THEN @ - Cost ELSE @]
        /\ admitted' = IF found.tokens >= Cost THEN admitted + 1 ELSE admitted
    BY DEF CheckRate
  <1>3. opened' \in Nat /\ supply \in Int
    BY <1>n, <1>2, RateArithmetic
  <1>4. found.tokens + admitted * Cost <= supply
    <2>1. CASE bucket.exists
      <3>1. found = Refilled(bucket, now)
        BY <2>1 DEF BucketBeforeConsuming
      <3>2. /\ bucket.last >= now => found.tokens = bucket.tokens
            /\ bucket.last < now => found.tokens
                                      <= bucket.tokens + (now - bucket.last) * Rate
        BY <1>n, <3>1, RefillType
      <3>3. bucket.tokens + admitted * Cost
              <= Burst + Rate * ((bucket.last - opened) + waited)
        BY <2>1 DEF Funded, Provided
      <3>4. supply = Burst + Rate * ((clock - opened) + waited)
        BY <2>1, <1>2
      <3> DEFINE before == (bucket.last - opened) + waited
                 after  == (clock - opened) + waited
                 paid   == admitted * Cost
      <3>5. paid \in Int /\ bucket.tokens \in Int
        BY <1>n, RateArithmetic
      <3>6. Rate * before \in Int /\ Rate * after \in Int
            /\ Rate * before <= Rate * after
        BY <1>n, RateArithmetic
      <3>7. CASE bucket.last >= now
        <4> HIDE DEF before, after, paid, found, supply
        <4>1. bucket.tokens + paid <= Burst + Rate * before
          BY <3>3 DEF before, paid
        <4>2. supply = Burst + Rate * after
          BY <3>4 DEF after
        <4>3. found.tokens + paid <= supply
          BY <4>1, <4>2, <3>2, <3>5, <3>6, <3>7, <1>n
        <4> QED BY <4>3 DEF paid
      <3>8. CASE bucket.last < now
        <4> DEFINE gap == now - bucket.last
                   rest == clock - now
        <4>1. gap \in Int /\ rest \in Nat /\ before \in Int
              /\ after = (before + gap) + rest
          BY <1>n
        <4>2. /\ Rate * (before + gap) = Rate * before + Rate * gap
              /\ gap * Rate = Rate * gap /\ Rate * gap \in Int
          BY <4>1, <1>n, RateArithmetic
        <4>3. Rate * (before + gap) <= Rate * after
          BY <4>1, <1>n, RateArithmetic
        <4>4. found.tokens <= bucket.tokens + gap * Rate
          BY <3>2, <3>8
        <4> HIDE DEF before, after, paid, found, supply, gap
        <4>5. bucket.tokens + paid <= Burst + Rate * before
          BY <3>3 DEF before, paid
        <4>6. supply = Burst + Rate * after
          BY <3>4 DEF after
        <4>7. found.tokens \in Int
          BY <1>1
        <4>8. found.tokens + paid <= supply
          BY <4>2, <4>3, <4>4, <4>5, <4>6, <4>7, <3>5, <3>6, <1>n
        <4> QED BY <4>8 DEF paid
      <3> QED BY <3>7, <3>8, <1>n
    <2>2. CASE ~bucket.exists
      <3>1. admitted * Cost = 0
        BY <2>2, <1>n DEF Funded
      <3>2. Rate * ((clock - opened') + waited) >= 0
        <4>1. (clock - opened') + waited \in Nat
          BY <2>2, <1>2, <1>n
        <4> QED BY <4>1, <1>n
      <3>3. found.tokens <= Burst /\ found.tokens \in Int
        BY <1>1, <1>n
      <3> DEFINE paid   == admitted * Cost
                 refill == Rate * ((clock - opened') + waited)
      <3>4. refill \in Int /\ supply = Burst + refill
        BY <1>3, <1>n, RateArithmetic
      <3> HIDE DEF found, paid, refill, supply
      <3>5. paid = 0 /\ refill >= 0
        BY <3>1, <3>2 DEF paid, refill
      <3>6. found.tokens + paid <= supply
        BY <3>3, <3>4, <3>5, <1>n
      <3> QED BY <3>6 DEF paid
    <2> QED BY <2>1, <2>2
  <1>5. bucket'.tokens + admitted' * Cost = found.tokens + admitted * Cost
    <2>1. (admitted + 1) * Cost = admitted * Cost + Cost
      BY <1>n, RateArithmetic
    <2>2. admitted * Cost \in Int
      BY <1>n, RateArithmetic
    <2> HIDE DEF found
    <2> QED BY <2>1, <2>2, <1>1, <1>2, <1>n
  <1>6. bucket'.exists /\ bucket'.last = now
    BY <1>1, <1>2
  <1>7. (now - opened') + waited' = (clock - opened') + waited
    BY <1>n, <1>2, <1>3
  <1> QED BY <1>4, <1>5, <1>6, <1>7 DEF Funded, Provided

\* The bucket is funded in every state.
LEMMA AlwaysFunded == Spec => []Funded
  <1>1. Spec => []TypeInv
    BY TypeInit, TypeNext, PastNext, PTL DEF Spec, TypeInv
  <1>2. Init => Funded
    BY DEF Init, Funded
  <1>3. TypeInv /\ Funded /\ [Next]_vars => Funded'
    <2> SUFFICES ASSUME TypeInv, Funded, [Next]_vars PROVE Funded'
      OBVIOUS
    <2>1. CASE \E r \in Req : CheckRate(r)
      BY <2>1, CheckIsFunded
    <2>2. CASE ~\E r \in Req : CheckRate(r)
      <3>1. UNCHANGED rateVars
        BY <2>2 DEF Next, Step, vars, Tick, Arrive, BeginBudgetCheck, PassCap,
             Refuse, PassBudget, PreflightUnavailable, HitCache,
             ProviderAnswers, AnswerUncounted, ProviderFails, CommitRecord,
             Answer, BeginRefund, CommitRefund, Cancel
      <3> QED BY <3>1 DEF rateVars, Funded, Provided
    <2> QED BY <2>1, <2>2
  <1> QED BY <1>1, <1>2, <1>3, PTL DEF Spec

\* However checks interleave and however late they commit, a key is admitted
\* only as often as its burst, the refill since its first request, and the
\* refill of the time checks waited pay for.
THEOREM AdmissionsArePaidFor == Spec => []AdmissionIsPaidFor
  <1>1. Spec => []TypeInv
    BY TypeInit, TypeNext, PastNext, PTL DEF Spec, TypeInv
  <1>2. TypeInv /\ Funded => AdmissionIsPaidFor
    <2> SUFFICES ASSUME TypeInv, Funded PROVE AdmissionIsPaidFor
      OBVIOUS
    <2>n. /\ Rate \in Nat /\ Burst \in Nat /\ Cost \in Nat
          /\ clock \in Nat /\ opened \in Nat /\ bucket.last \in Nat
          /\ waited \in Nat /\ admitted \in Nat /\ opened <= clock
          /\ bucket.last <= clock /\ bucket.tokens \in Nat
      BY RateAssumption DEF TypeInv, TypeOK, PastOnly, Times
    <2> DEFINE before == (bucket.last - opened) + waited
               after  == (clock - opened) + waited
               paid   == admitted * Cost
    <2>1. /\ paid \in Int /\ Rate * before \in Int /\ Rate * after \in Int
          /\ Rate * before <= Rate * after
      BY <2>n, RateArithmetic
    <2>2. CASE bucket.exists
      <3>1. bucket.tokens + paid <= Burst + Rate * before
        BY <2>2 DEF Funded, Provided
      <3> HIDE DEF before, after, paid
      <3>2. paid <= Burst + Rate * after
        BY <2>n, <2>1, <3>1
      <3> QED BY <3>2 DEF AdmissionIsPaidFor, paid, after
    <2>3. CASE ~bucket.exists
      <3>1. paid = 0
        BY <2>3, <2>n DEF Funded
      <3>2. after \in Nat
        BY <2>n
      <3>3. Rate * after >= 0
        BY <3>2, <2>n
      <3> HIDE DEF after, paid
      <3>4. paid <= Burst + Rate * after
        BY <2>n, <2>1, <3>1, <3>3
      <3> QED BY <3>4 DEF AdmissionIsPaidFor, paid, after
    <2> QED BY <2>2, <2>3
  <1> QED BY <1>1, <1>2, AlwaysFunded, PTL
(***************************************************************************)
(* Charged once or not at all.  What a request has left on the usage rows  *)
(* follows from how far its handler has come.                              *)
(***************************************************************************)

Booking(r) ==
    /\ pc[r] \in {"rating", "admitted", "checking", "serving"} =>
          charge[r] = 0 /\ net[r] = 0
    /\ pc[r] = "recording" => net[r] = 0
    /\ pc[r] \in {"charged", "refunding"} => net[r] = charge[r]
    /\ pc[r] \in {"recording", "charged", "refunding"} => charge[r] > 0
    /\ pc[r] = "answered" => /\ config.budget => charge[r] > 0
                             /\ net[r] = charge[r]
    /\ pc[r] = "failed" => net[r] = 0
    /\ pc[r] = "cancelled" => net[r] \in {0, charge[r]}

Books == \A r \in Req : ~lapsed[r] => Booking(r)

\* A step of one request leaves the books of the others alone.
LEMMA OthersKeepTheirBooks ==
    ASSUME TypeOK, Books, NEW r \in Req, Step(r),
           NEW q \in Req, q # r, ~lapsed'[q]
    PROVE  Booking(q)'
  <1>1. /\ pc'[q] = pc[q] /\ config' = config
        /\ charge'[q] = charge[q] /\ net'[q] = net[q] /\ lapsed'[q] = lapsed[q]
    BY DEF Step, Arrive, CheckRate, BeginBudgetCheck, PassCap, Refuse,
           PassBudget, PreflightUnavailable, HitCache, ProviderAnswers,
           AnswerUncounted, ProviderFails, CommitRecord, Answer, BeginRefund,
           CommitRefund, Cancel, Book, Goto, CallStore, EndCall, TypeOK,
           budgetVars
  <1> QED BY <1>1 DEF Books, Booking

\* A step of a request keeps its own books.
LEMMA OwnBooks ==
    ASSUME TypeOK, Books, NEW r \in Req, Step(r), ~lapsed'[r]
    PROVE  Booking(r)'
  <1> USE DEF budgetVars, Goto, CallStore, EndCall
  <1>n. /\ charge[r] \in Nat /\ net[r] \in Int /\ Estimate \in Nat \ {0}
        /\ Charges \subseteq Nat \ {0}
    BY BudgetAssumption DEF TypeOK
  <1>t. /\ DOMAIN pc = Req /\ DOMAIN charge = Req /\ DOMAIN net = Req
        /\ DOMAIN lapsed = Req
    BY DEF TypeOK
  <1>b. ~lapsed[r] => Booking(r)
    BY DEF Books
  <1>1. CASE Arrive(r)
    BY <1>1, <1>t DEF Arrive, Booking
  <1>2. CASE CheckRate(r)
    BY <1>2, <1>t, <1>b DEF CheckRate, Booking
  <1>3. CASE \/ BeginBudgetCheck(r) \/ PassCap(r) \/ Refuse(r) \/ PassBudget(r)
             \/ PreflightUnavailable(r) \/ ProviderFails(r)
    BY <1>3, <1>t, <1>b DEF BeginBudgetCheck, PassCap, Refuse, PassBudget,
       PreflightUnavailable, ProviderFails, Booking
  <1>4. CASE HitCache(r)
    <2>1. PICK n \in Nat \ {0} : charge' = [charge EXCEPT ![r] = n]
      BY <1>4, <1>n DEF HitCache
    <2> QED BY <1>4, <1>t, <1>b, <2>1 DEF HitCache, Booking
  <1>5. CASE ProviderAnswers(r)
    <2>1. PICK n \in Nat \ {0} : charge' = [charge EXCEPT ![r] = n]
      BY <1>5, <1>n DEF ProviderAnswers
    <2> QED BY <1>5, <1>t, <1>b, <2>1 DEF ProviderAnswers, Booking
  <1>6. CASE AnswerUncounted(r)
    BY <1>6, <1>t, <1>b DEF AnswerUncounted, Booking
  <1>7. CASE CommitRecord(r)
    <2>1. Booked(r, 1) = charge[r]
      BY <1>n DEF Booked
    <2>2. net' = [net EXCEPT ![r] = @ + charge[r]] /\ UNCHANGED lapsed
      BY <1>7, <1>t, <2>1 DEF CommitRecord, Book
    <2>3. net'[r] = charge[r] /\ charge' = charge /\ charge[r] > 0
      BY <1>7, <1>t, <1>b, <1>n, <2>2 DEF CommitRecord, Booking
    <2>4. pc'[r] \in {"cancelled", "answered", "charged"}
      BY <1>7, <1>t DEF CommitRecord, TypeOK
    <2> QED BY <2>3, <2>4 DEF Booking
  <1>8. CASE Answer(r) \/ BeginRefund(r)
    BY <1>8, <1>t, <1>b DEF Answer, BeginRefund, Booking
  <1>9. CASE CommitRefund(r)
    <2>1. Booked(r, -1) = -charge[r]
      BY <1>n DEF Booked
    <2>2. net' = [net EXCEPT ![r] = @ + (-charge[r])] /\ UNCHANGED lapsed
      BY <1>9, <1>t, <2>1 DEF CommitRefund, Book
    <2>3. net'[r] = 0
      BY <1>9, <1>t, <1>b, <1>n, <2>2 DEF CommitRefund, Booking
    <2>4. pc'[r] \in {"cancelled", "failed"}
      BY <1>9, <1>t DEF CommitRefund
    <2> QED BY <2>3, <2>4 DEF Booking
  <1>10. CASE Cancel(r)
    BY <1>10, <1>t, <1>b DEF Cancel, Booking
  <1> QED BY <1>1, <1>2, <1>3, <1>4, <1>5, <1>6, <1>7, <1>8, <1>9, <1>10
          DEF Step

\* Through failures, broken streams and cancellations, and with any charges,
\* a finished request has been charged what it consumed or nothing.
THEOREM ChargedOnce == Spec => []ChargedOnceOrNotAtAll
  <1>1. Spec => []TypeInv
    BY TypeInit, TypeNext, PastNext, PTL DEF Spec, TypeInv
  <1>2. Init => Books
    BY DEF Init, Books, Booking
  <1>3. TypeInv /\ Books /\ [Next]_vars => Books'
    <2> SUFFICES ASSUME TypeOK, Books, [Next]_vars,
                        NEW q \in Req, ~lapsed'[q]
                 PROVE  Booking(q)'
      BY DEF TypeInv, Books
    <2>1. ASSUME NEW r \in Req, Step(r) PROVE Booking(q)'
      BY <2>1, OthersKeepTheirBooks, OwnBooks
    <2>2. CASE Tick \/ UNCHANGED vars
      BY <2>2 DEF Tick, vars, budgetVars, Books, Booking
    <2> QED BY <2>1, <2>2 DEF Next
  <1>4. Books => ChargedOnceOrNotAtAll
    BY DEF Books, Booking, ChargedOnceOrNotAtAll
  <1> QED BY <1>1, <1>2, <1>3, <1>4, PTL DEF Spec

(***************************************************************************)
(* Overspending.  Sums and maxima are folds over finite sets: what they    *)
(* come to is shown by induction over the natural numbers, in the form of  *)
(* sets of them.                                                           *)
(***************************************************************************)

Less == {ss \in Nat \X Nat : ss[1] < ss[2]}

LEMMA LessIsWellFounded == IsWellFoundedOn(Less, Nat)
  BY NatLessThanWellFounded DEF Less, OpToRel

\* A set of numbers that holds 0 and the successors of its numbers holds all.
LEMMA Climb ==
    ASSUME NEW G, 0 \in G, \A n \in Nat : n \in G => n + 1 \in G
    PROVE  Nat \subseteq G
  <1> SUFFICES ASSUME ~ (Nat \subseteq G) PROVE FALSE
    OBVIOUS
  <1> DEFINE T == Nat \ G
  <1>1. PICK m \in T : \A n \in T : <<n, m>> \notin Less
    <2>1. T \subseteq Nat /\ T # {}
      OBVIOUS
    <2> HIDE DEF T
    <2> QED BY <2>1, LessIsWellFounded, WFMin
  <1>2. \A n \in T : ~ (n < m)
    BY <1>1 DEF Less
  <1>3. m # 0 /\ m \in Nat
    OBVIOUS
  <1>4. m - 1 \in Nat /\ m - 1 < m /\ (m - 1) + 1 = m
    BY <1>3
  <1> QED BY <1>2, <1>4

\* A finite set of numbers has a greatest one.
LEMMA Greatest ==
    ASSUME NEW S, S \subseteq Nat, IsFiniteSet(S), S # {}
    PROVE  Max(S) \in S /\ \A k \in S : k <= Max(S)
  <1> DEFINE G == {n \in Nat : \A T \in SUBSET Nat :
                     IsFiniteSet(T) /\ Cardinality(T) = n /\ T # {}
                       => \E m \in T : \A k \in T : k <= m}
  <1>1. 0 \in G
    BY FS_EmptySet
  <1>2. ASSUME NEW n \in Nat, n \in G PROVE n + 1 \in G
    <2> SUFFICES ASSUME NEW T \in SUBSET Nat, IsFiniteSet(T), Cardinality(T) = n + 1, T # {}
                 PROVE  \E m \in T : \A k \in T : k <= m
      OBVIOUS
    <2>1. PICK x \in T : TRUE
      OBVIOUS
    <2>2. IsFiniteSet(T \ {x}) /\ Cardinality(T \ {x}) = n
      <3>1. IsFiniteSet(T \ {x}) /\ Cardinality(T \ {x}) = Cardinality(T) - 1
        BY <2>1, FS_RemoveElement
      <3> QED BY <3>1
    <2>3. CASE T \ {x} = {}
      BY <2>3
    <2>4. CASE T \ {x} # {}
      <3>1. PICK m \in T \ {x} : \A k \in T \ {x} : k <= m
        BY <1>2, <2>2, <2>4
      <3>2. x \in Nat /\ m \in Nat /\ \A k \in T : k \in Nat
        OBVIOUS
      <3>3. CASE x <= m
        BY <3>1, <3>3
      <3>4. CASE ~ (x <= m)
        <4>1. \A k \in T : k <= x
          BY <3>1, <3>2, <3>4
        <4> QED BY <4>1
      <3> QED BY <3>3, <3>4
    <2> QED BY <2>3, <2>4
  <1> HIDE DEF G
  <1>3. Cardinality(S) \in Nat /\ Cardinality(S) \in G
    BY <1>1, <1>2, Climb, FS_CardinalityType
  <1>4. PICK m \in S : \A k \in S : k <= m
    BY <1>3 DEF G
  <1> QED BY <1>4 DEF Max

\* The recursion of a sum over a finite set of numbers is that of a function.
SumStep(u, g, s) ==
    IF s = {} THEN 0 ELSE LET x == CHOOSE z \in s : TRUE IN u[x] + g[s \ {x}]

IsSum(g, S, u) == g = [s \in SUBSET S |-> SumStep(u, g, s)]

LEMMA SumExists ==
    ASSUME NEW S, IsFiniteSet(S), NEW u \in [S -> Int]
    PROVE  \E g : IsSum(g, S, u)
  <1> DEFINE G == {n \in Nat : \E g \in [SUBSET S -> Int] :
                     \A s \in SUBSET S : Cardinality(s) <= n => g[s] = SumStep(u, g, s)}
  <1>c. \A s \in SUBSET S : IsFiniteSet(s) /\ Cardinality(s) \in Nat
                            /\ (Cardinality(s) = 0 <=> s = {})
    BY FS_Subset, FS_CardinalityType, FS_EmptySet
  <1>1. 0 \in G
    <2> DEFINE g == [s \in SUBSET S |-> 0]
    <2>1. \A s \in SUBSET S : Cardinality(s) <= 0 => g[s] = SumStep(u, g, s)
      BY <1>c DEF SumStep
    <2>2. g \in [SUBSET S -> Int]
      OBVIOUS
    <2> HIDE DEF g
    <2> QED BY <2>1, <2>2
  <1>2. ASSUME NEW n \in Nat, n \in G PROVE n + 1 \in G
    <2>1. PICK g \in [SUBSET S -> Int] :
             \A s \in SUBSET S : Cardinality(s) <= n => g[s] = SumStep(u, g, s)
      BY <1>2
    <2> DEFINE h == [s \in SUBSET S |-> SumStep(u, g, s)]
    <2>2. h \in [SUBSET S -> Int]
      BY DEF SumStep
    <2>3. ASSUME NEW s \in SUBSET S, Cardinality(s) <= n + 1
          PROVE  h[s] = SumStep(u, h, s)
      <3>1. CASE s = {}
        BY <3>1 DEF SumStep
      <3>2. CASE s # {}
        <4> DEFINE x == CHOOSE z \in s : TRUE
        <4>1. x \in s
          BY <3>2
        <4> HIDE DEF x
        <4>2. Cardinality(s \ {x}) = Cardinality(s) - 1
          BY <1>c, <4>1, FS_RemoveElement
        <4>3. Cardinality(s \ {x}) <= n /\ s \ {x} \in SUBSET S
          BY <1>c, <2>3, <4>2
        <4>4. g[s \ {x}] = h[s \ {x}]
          BY <2>1, <4>3
        <4>5. h[s] = u[x] + g[s \ {x}] /\ SumStep(u, h, s) = u[x] + h[s \ {x}]
          BY <3>2 DEF SumStep, x
        <4> QED BY <4>4, <4>5
      <3> QED BY <3>1, <3>2
    <2> HIDE DEF h
    <2> QED BY <2>2, <2>3
  <1> HIDE DEF G
  <1>3. Cardinality(S) \in G
    BY <1>1, <1>2, <1>c, Climb
  <1>4. PICK g \in [SUBSET S -> Int] :
           \A s \in SUBSET S : Cardinality(s) <= Cardinality(S) => g[s] = SumStep(u, g, s)
    BY <1>3 DEF G
  <1>5. \A s \in SUBSET S : Cardinality(s) <= Cardinality(S)
    BY FS_Subset
  <1>6. g = [s \in SUBSET S |-> SumStep(u, g, s)]
    BY <1>4, <1>5
  <1> QED BY <1>6 DEF IsSum

Term(u, w, s) == IF w \in s THEN u[w] ELSE 0

\* A sum of which only one term counts.
LEMMA OneTerm ==
    ASSUME NEW S, IsFiniteSet(S), NEW u \in [S -> Int], NEW w \in S,
           \A k \in S : k # w => u[k] = 0,
           NEW g, IsSum(g, S, u)
    PROVE  g[S] = u[w]
  <1>g. g = [s \in SUBSET S |-> SumStep(u, g, s)]
    BY DEF IsSum
  <1> DEFINE G == {n \in Nat : \A s \in SUBSET S : Cardinality(s) = n =>
                     g[s] = Term(u, w, s)}
  <1>c. \A s \in SUBSET S : IsFiniteSet(s) /\ Cardinality(s) \in Nat
                            /\ (Cardinality(s) = 0 <=> s = {})
    BY FS_Subset, FS_CardinalityType, FS_EmptySet
  <1>1. 0 \in G
    BY <1>c, <1>g DEF SumStep, Term
  <1>2. ASSUME NEW n \in Nat, n \in G, NEW s \in SUBSET S, Cardinality(s) = n + 1
        PROVE  g[s] = Term(u, w, s)
    <2>1. s # {}
      BY <1>2, <1>c
    <2> DEFINE x == CHOOSE z \in s : TRUE
    <2>2. x \in s
      BY <2>1
    <2>3. g[s] = u[x] + g[s \ {x}]
      BY <2>1, <1>g DEF SumStep
    <2> HIDE DEF x
    <2>4. Cardinality(s \ {x}) = n
      <3>1. IsFiniteSet(s)
        BY <1>c
      <3>2. Cardinality(s \ {x}) = Cardinality(s) - 1
        BY <2>2, <3>1, FS_RemoveElement
      <3> QED BY <1>2, <3>2
    <2>5. g[s \ {x}] = Term(u, w, s \ {x})
      BY <1>2, <2>4
    <2>6. u[x] \in Int /\ u[w] \in Int
      BY <2>2
    <2>7. x # w => u[x] = 0
      BY <2>2
    <2> QED BY <2>2, <2>3, <2>5, <2>6, <2>7 DEF Term
  <1>4. ASSUME NEW n \in Nat, n \in G PROVE n + 1 \in G
    <2>1. \A s \in SUBSET S : Cardinality(s) = n + 1 => g[s] = Term(u, w, s)
      BY <1>2, <1>4
    <2>2. n + 1 \in Nat
      OBVIOUS
    <2> QED BY <2>1, <2>2, Zenon
  <1> HIDE DEF G
  <1>3. Cardinality(S) \in G
    BY <1>1, <1>4, <1>c, Climb
  <1> QED BY <1>3 DEF G, Term

\* What a check adds up is such a sum of the rows of the period.
LEMMA UsedIsASum ==
    ASSUME TypeOK, NEW p \in Period, NEW now \in Times
    PROVE  LET S == {k \in Times : k * Span[p] > now - Span[p]}
           IN  \E g : IsSum(g, S, [k \in S |-> usage[p][k]]) /\ Used(p, now) = g[S]
  <1> DEFINE S == {k \in Times : k * Span[p] > now - Span[p]}
             u == [k \in S |-> usage[p][k]]
             Rec(g) == [s \in SUBSET S |-> IF s = {} THEN 0
                            ELSE LET x == CHOOSE z \in s : TRUE IN usage[p][x] + g[s \ {x}]]
             it == CHOOSE g : g = Rec(g)
  <1>1. Used(p, now) = it[S]
    BY DEF Used, MapThenSumSet, MapThenFoldSet
  <1>2. ASSUME NEW g PROVE Rec(g) = [s \in SUBSET S |-> SumStep(u, g, s)]
    <2>1. ASSUME NEW s \in SUBSET S, s # {}
          PROVE  (CHOOSE z \in s : TRUE) \in S
      BY <2>1
    <2> QED BY <2>1 DEF SumStep
  <1>3. u \in [S -> Int]
    BY DEF TypeOK
  <1>4. IsFiniteSet(S)
    <2>1. MaxTime \in Nat /\ IsFiniteSet(Times)
      BY RateAssumption, FS_Interval DEF Times
    <2> QED BY <2>1, FS_Subset
  <1> HIDE DEF S, u
  <1>5. \E g : IsSum(g, S, u)
    BY <1>3, <1>4, SumExists
  <1>6. \A g : IsSum(g, S, u) <=> g = Rec(g)
    BY <1>2 DEF IsSum
  <1> HIDE DEF Rec
  <1>7. IsSum(it, S, u)
    BY <1>5, <1>6
  <1> HIDE DEF it
  <1>8. \E g : IsSum(g, S, u) /\ Used(p, now) = g[S]
    BY <1>1, <1>7
  <1> QED BY <1>8 DEF S, u

(***************************************************************************)
(* Windows are numbered from 0 on.                                         *)
(***************************************************************************)

LEMMA Windows ==
    ASSUME NEW p \in Period, NEW now \in Times
    PROVE  /\ Window(p, now) \in Times /\ Window(p, now) \in Nat
           /\ \A k \in Times : k * Span[p] > now - Span[p] <=> k >= Window(p, now)
           /\ \A later \in Times : now <= later => Window(p, now) <= Window(p, later)
  <1>1. Span[p] \in Nat \ {0} /\ MaxTime \in Nat
    BY BudgetAssumption, RateAssumption
  <1>2. ASSUME NEW a \in Nat, NEW b \in Nat \ {0}
        PROVE  a \div b \in Nat /\ b * (a \div b) <= a /\ a < b * (a \div b) + b
    BY <1>2
  <1> QED BY <1>1, <1>2 DEF Window, Times

(***************************************************************************)
(* Who may still overrun a cap: whoever has found room under it, or reads  *)
(* it with a clock of an earlier window, and has not recorded his tokens.  *)
(* The row of the window and one charge for each of them stay within what  *)
(* the property allows: whoever passes a cap with the window's own clock   *)
(* has seen a row below it, and a new window begins with an empty row.     *)
(***************************************************************************)

Row(p) == usage[p][Window(p, clock)]

Spending(i) ==
    {r \in Req : \/ /\ pc[r] = "checking"
                    /\ \/ passed[r] >= i
                       \/ Window(Caps[i].period, stamp[r]) < Window(Caps[i].period, clock)
                 \/ pc[r] \in {"serving", "recording"}}

Room(i) == Max({Caps[i].cap - Estimate, 0})

NothingAhead == \A p \in Period, k \in Times : k > Window(p, clock) => usage[p][k] = 0
KnownCharges == \A r \in Req : pc[r] = "recording" => charge[r] <= Largest
ChecksBegin == \A r \in Req : pc[r] \in {"rating", "admitted"} => passed[r] = 0
BudgetsOnly ==
    ~ config.budget =>
      /\ \A p \in Period, k \in Times : usage[p][k] = 0
      /\ \A r \in Req : pc[r] \notin {"checking", "recording", "charged", "refunding"}

Covered(i) ==
    Row(Caps[i].period) + Cardinality(Spending(i)) * Largest
      <= Room(i) + Cardinality(Req) * Largest

SpendInv == NothingAhead /\ KnownCharges /\ ChecksBegin /\ BudgetsOnly

\* What a transaction of the tracker leaves on the rows: one of each period
\* has changed, that of the window in which the call began.
LEMMA BookedRows ==
    ASSUME TypeInv, NEW r \in Req, NEW sign \in {1, -1}, Book(r, sign), NEW p \in Period, NEW k \in Times
    PROVE  /\ usage'[p][k] \in {usage[p][k], usage[p][k] + Booked(r, sign)}
           /\ k # Window(p, stamp[r]) => usage'[p][k] = usage[p][k]
           /\ usage[p][k] \in Int /\ Booked(r, sign) \in Int
           /\ Booked(r, sign) = IF sign = 1 THEN charge[r] ELSE -charge[r]
           /\ charge[r] \in Nat
  <1>1. usage[p] \in [Times -> Int] /\ charge[r] \in Nat
    BY DEF TypeInv, TypeOK
  <1>2. Booked(r, sign) = IF sign = 1 THEN charge[r] ELSE -charge[r]
    BY <1>1 DEF Booked
  <1>3. CASE usage' = Bumped(stamp[r], Booked(r, sign))
    <2>1. usage'[p] = [usage[p] EXCEPT ![Window(p, stamp[r])] = @ + Booked(r, sign)]
      BY <1>3 DEF Bumped
    <2> QED BY <1>1, <1>2, <2>1
  <1>4. CASE usage' = usage
    BY <1>1, <1>2, <1>4
  <1> QED BY <1>3, <1>4 DEF Book

\* Which rows, clocks and stages a step changes.
LEMMA SpendStep ==
    ASSUME TypeInv, SpendInv, [Next]_vars, \A n \in Charges \cup {Estimate} : n <= Largest
    PROVE  SpendInv'
  <1> USE DEF rateVars, budgetVars
  <1>t. /\ pc \in [Req -> Stage] /\ stamp \in [Req -> Times] /\ charge \in [Req -> Nat]
        /\ passed \in [Req -> 0..Len(Caps)] /\ clock \in Times
        /\ \A r \in Req : stamp[r] <= clock
    BY DEF TypeInv, TypeOK, PastOnly
  <1>1. ASSUME NEW r \in Req, CommitRecord(r) \/ CommitRefund(r) PROVE SpendInv'
    <2>1. PICK sign \in {1, -1} : Book(r, sign)
      BY <1>1 DEF CommitRecord, CommitRefund
    <2>2. /\ UNCHANGED <<config, clock, passed, charge>>
          /\ pc' = [pc EXCEPT ![r] = pc'[r]]
          /\ pc'[r] \in {"cancelled", "answered", "charged", "failed"}
          /\ pc[r] \in {"recording", "refunding"}
      BY <1>1, <1>t DEF CommitRecord, CommitRefund, EndCall, Goto
    <2>3. NothingAhead'
      <3> SUFFICES ASSUME NEW p \in Period, NEW k \in Times, k > Window(p, clock)
                   PROVE  usage'[p][k] = 0
        BY <2>2 DEF NothingAhead, Window
      <3>1. Window(p, stamp[r]) <= Window(p, clock) /\ Window(p, stamp[r]) \in Nat /\ Window(p, clock) \in Nat
        BY <1>t, Windows
      <3>2. k \in Nat
        BY RateAssumption DEF Times
      <3>3. k # Window(p, stamp[r])
        BY <3>1, <3>2
      <3> QED BY <2>1, <3>3, BookedRows DEF SpendInv, NothingAhead
    <2>4. config.budget
      BY <2>2 DEF SpendInv, BudgetsOnly
    <2> QED BY <1>t, <2>2, <2>3, <2>4 DEF SpendInv, KnownCharges, ChecksBegin, BudgetsOnly
  <1>2. CASE Tick
    <2>1. clock' = clock + 1 /\ clock + 1 \in Times /\ UNCHANGED <<config, usage, pc, passed, charge>>
      BY <1>2, <1>t, RateAssumption DEF Tick, Times
    <2>2. ASSUME NEW p \in Period, NEW k \in Times, k > Window(p, clock + 1)
          PROVE  usage[p][k] = 0
      <3>1. clock <= clock + 1
        BY <1>t, RateAssumption DEF Times
      <3>2. Window(p, clock) <= Window(p, clock + 1) /\ Window(p, clock) \in Nat /\ Window(p, clock + 1) \in Nat
        BY <1>t, <2>1, <3>1, Windows
      <3>3. k \in Nat /\ k > Window(p, clock)
        BY <2>2, <3>2, RateAssumption DEF Times
      <3> QED BY <3>3 DEF SpendInv, NothingAhead
    <2>3. NothingAhead'
      BY <2>1, <2>2 DEF NothingAhead, Window
    <2> QED BY <2>1, <2>3 DEF SpendInv, KnownCharges, ChecksBegin, BudgetsOnly
  <1>3. ASSUME NEW r \in Req, HitCache(r) \/ ProviderAnswers(r) PROVE SpendInv'
    <2>1. /\ UNCHANGED <<config, clock, usage, passed>> /\ config.budget
          /\ pc' = [pc EXCEPT ![r] = "recording"]
      BY <1>3 DEF HitCache, ProviderAnswers, CallStore, Goto
    <2>2. PICK n \in Charges \cup {Estimate} : charge' = [charge EXCEPT ![r] = n]
      BY <1>3 DEF HitCache, ProviderAnswers
    <2> QED BY <1>t, <2>1, <2>2 DEF SpendInv, NothingAhead, Window, KnownCharges, ChecksBegin, BudgetsOnly
  <1>4. ASSUME NEW r \in Req, Arrive(r) PROVE SpendInv'
    <2>1. /\ UNCHANGED <<config, clock, usage>>
          /\ pc' = [pc EXCEPT ![r] = pc'[r]] /\ pc'[r] \in {"rating", "admitted"}
          /\ passed' = [passed EXCEPT ![r] = 0] /\ charge' = [charge EXCEPT ![r] = 0]
      BY <1>4, <1>t DEF Arrive, CallStore, EndCall, Goto
    <2> QED BY <1>t, <2>1 DEF SpendInv, NothingAhead, Window, KnownCharges, ChecksBegin, BudgetsOnly
  <1>5. ASSUME NEW r \in Req, PassCap(r) PROVE SpendInv'
    <2>1. /\ UNCHANGED <<config, clock, usage, pc, charge>> /\ pc[r] = "checking"
          /\ passed' = [passed EXCEPT ![r] = passed'[r]]
      BY <1>5, <1>t DEF PassCap
    <2> QED BY <1>t, <2>1 DEF SpendInv, NothingAhead, Window, KnownCharges, ChecksBegin, BudgetsOnly
  <1>6. ASSUME NEW r \in Req,
               \/ CheckRate(r) \/ BeginBudgetCheck(r) \/ Refuse(r) \/ PassBudget(r)
               \/ PreflightUnavailable(r) \/ AnswerUncounted(r) \/ ProviderFails(r)
               \/ Answer(r) \/ BeginRefund(r) \/ Cancel(r)
        PROVE SpendInv'
    <2>1. UNCHANGED <<config, clock, usage, passed, charge>>
      BY <1>6 DEF CheckRate, BeginBudgetCheck, Refuse, PassBudget, PreflightUnavailable,
                  AnswerUncounted, ProviderFails, Answer, BeginRefund, Cancel
    <2>2. /\ pc' = [pc EXCEPT ![r] = pc'[r]]
          /\ pc'[r] = "admitted" => pc[r] = "rating"
          /\ pc'[r] = "checking" => config.budget
          /\ pc'[r] = "refunding" => pc[r] \in {"charged", "refunding"}
          /\ pc'[r] = "recording" => pc[r] = "recording"
          /\ pc'[r] = "rating" => pc[r] = "rating"
          /\ pc'[r] # "charged"
      BY <1>6, <1>t DEF CheckRate, BeginBudgetCheck, Refuse, PassBudget, PreflightUnavailable,
                  AnswerUncounted, ProviderFails, Answer, BeginRefund, Cancel, CallStore, EndCall, Goto
    <2> QED BY <1>t, <2>1, <2>2 DEF SpendInv, NothingAhead, Window, KnownCharges, ChecksBegin, BudgetsOnly
  <1>7. CASE UNCHANGED vars
    BY <1>7 DEF vars, SpendInv, NothingAhead, Window, KnownCharges, ChecksBegin, BudgetsOnly
  <1> QED BY <1>1, <1>2, <1>3, <1>4, <1>5, <1>6, <1>7 DEF Next, Step

LEMMA CapTypes ==
    ASSUME NEW i \in DOMAIN Caps
    PROVE  /\ Caps[i].period \in Period /\ Caps[i].cap \in Nat
           /\ Room(i) \in Nat /\ Caps[i].cap - Estimate <= Room(i)
           /\ i \in Nat /\ i >= 1 /\ i <= Len(Caps)
  <1>1. Caps \in Seq([period : Period, cap : Nat]) /\ Estimate \in Nat
    BY BudgetAssumption
  <1>2. Caps[i] \in [period : Period, cap : Nat]
    <2>1. Caps \in Seq([period : Period, cap : Nat])
      BY BudgetAssumption
    <2>2. i \in 1..Len(Caps)
      BY <2>1
    <2> QED BY <2>1, <2>2, ElementOfSeq
  <1>3. i \in Nat /\ i >= 1 /\ i <= Len(Caps)
    BY <1>1
  <1>4. Room(i) \in {Caps[i].cap - Estimate, 0} /\ \A k \in {Caps[i].cap - Estimate, 0} : k <= Room(i)
    <2> DEFINE a == Caps[i].cap - Estimate
    <2>1. a \in Int
      BY <1>1, <1>2
    <2> HIDE DEF a
    <2>2. \E m \in {a, 0} : \A k \in {a, 0} : k <= m
      BY <2>1
    <2>3. Room(i) = CHOOSE m \in {a, 0} : \A k \in {a, 0} : k <= m
      BY DEF Room, Max, a
    <2> QED BY <2>2, <2>3 DEF a
  <1> QED BY <1>1, <1>2, <1>3, <1>4

LEMMA LargestIs ==
    ASSUME IsFiniteSet(Charges)
    PROVE  Largest \in Nat /\ \A n \in Charges \cup {Estimate} : n <= Largest
  <1> DEFINE S == Charges \cup {Estimate}
  <1>1. S \subseteq Nat /\ S # {}
    BY BudgetAssumption
  <1>2. IsFiniteSet(S)
    BY FS_AddElement
  <1> HIDE DEF S
  <1>3. Max(S) \in S /\ \A k \in S : k <= Max(S)
    BY <1>1, <1>2, Greatest
  <1> QED BY <1>1, <1>3 DEF Largest, S

\* Counting requests.
LEMMA Fewer ==
    ASSUME NEW A \in SUBSET Req, NEW B \in SUBSET A, IsFiniteSet(Req), NEW n \in Nat
    PROVE  /\ Cardinality(A) * n \in Nat /\ Cardinality(B) * n \in Nat /\ Cardinality(Req) * n \in Nat
           /\ Cardinality(B) * n <= Cardinality(A) * n
           /\ Cardinality(A) * n <= Cardinality(Req) * n
           /\ A # B => Cardinality(B) * n + n <= Cardinality(A) * n
  <1>1. IsFiniteSet(A) /\ IsFiniteSet(B) /\ Cardinality(B) <= Cardinality(A)
        /\ Cardinality(A) <= Cardinality(Req)
        /\ (A # B => Cardinality(B) # Cardinality(A))
    BY FS_Subset
  <1>2. Cardinality(A) \in Nat /\ Cardinality(B) \in Nat /\ Cardinality(Req) \in Nat
    BY <1>1, FS_CardinalityType
  <1>3. ASSUME NEW a \in Nat, NEW b \in Nat, a <= b
        PROVE  a * n <= b * n /\ a * n \in Nat
    BY <1>3
  <1>4. ASSUME NEW a \in Nat, NEW b \in Nat, a < b
        PROVE  a * n + n <= b * n
    <2>1. (a + 1) * n = a * n + n /\ a + 1 <= b /\ a + 1 \in Nat
      BY <1>4
    <2>2. (a + 1) * n <= b * n
      BY <2>1, <1>3
    <2> QED BY <2>1, <2>2
  <1> QED BY <1>1, <1>2, <1>3, <1>4

\* With nothing ahead, a sum with a clock of the window is the window's row.
LEMMA UsedIsTheRow ==
    ASSUME TypeOK, NothingAhead, NEW p \in Period, NEW now \in Times,
           Window(p, now) = Window(p, clock)
    PROVE  Used(p, now) = Row(p)
  <1> DEFINE S == {k \in Times : k * Span[p] > now - Span[p]}
             u == [k \in S |-> usage[p][k]]
             w == Window(p, clock)
  <1>1. clock \in Times /\ w \in Times /\ w \in Nat
    BY Windows DEF TypeOK
  <1>2. \A k \in Times : k \in S <=> k >= w
    BY Windows
  <1>3. PICK g : IsSum(g, S, u) /\ Used(p, now) = g[S]
    BY UsedIsASum
  <1>4. u \in [S -> Int]
    BY DEF TypeOK
  <1>5. IsFiniteSet(S)
    <2>1. MaxTime \in Nat /\ IsFiniteSet(Times)
      BY RateAssumption, FS_Interval DEF Times
    <2> QED BY <2>1, FS_Subset
  <1>6. w \in S
    BY <1>1, <1>2
  <1>7. \A k \in S : k # w => u[k] = 0
    <2>1. \A k \in S : k \in Times /\ k \in Nat /\ k >= w
      BY <1>2, RateAssumption DEF Times
    <2> QED BY <1>1, <2>1 DEF NothingAhead
  <1>8. u[w] = Row(p)
    BY <1>6 DEF Row
  <1> HIDE DEF S, u, w
  <1>9. g[S] = u[w]
    BY <1>3, <1>4, <1>5, <1>6, <1>7, OneTerm
  <1> QED BY <1>3, <1>8, <1>9

\* A step that lets nobody in and adds nothing to the row, one after which the
\* row is within the room, and one by which someone books at most a charge.
LEMMA StaysCovered ==
    ASSUME NEW i, Covered(i), IsFiniteSet(Req), Largest \in Nat, Room(i) \in Nat,
           NEW p, p = Caps[i].period, Row(p) \in Int, Row(p)' \in Int, Spending(i) \subseteq Req,
           Spending(i)' \subseteq Req,
           \/ Row(p)' <= Room(i)
           \/ Spending(i)' \subseteq Spending(i) /\ Row(p)' <= Row(p)
           \/ /\ Spending(i)' \subseteq Spending(i) /\ Spending(i)' # Spending(i)
              /\ Row(p)' <= Row(p) + Largest
    PROVE  Covered(i)'
  <1> DEFINE A == Spending(i)
             B == Spending(i)'
             row == Row(p)
             row2 == Row(p)'
             room == Room(i)
             all == Cardinality(Req) * Largest
             old == Cardinality(A) * Largest
             new == Cardinality(B) * Largest
  <1>1. /\ row \in Int /\ row2 \in Int /\ room \in Nat /\ Largest \in Nat
        /\ row + old <= room + all
    BY DEF Covered
  <1>2. Covered(i)' <=> row2 + new <= room + all
    BY DEF Covered, Room, Largest
  <1>3. B \subseteq Req /\ A \subseteq Req
    OBVIOUS
  <1>4. \/ row2 <= room
        \/ B \subseteq A /\ row2 <= row
        \/ B \subseteq A /\ B # A /\ row2 <= row + Largest
    OBVIOUS
  <1> HIDE DEF A, B, row, row2, room
  <1>5. new \in Nat /\ old \in Nat /\ all \in Nat /\ new <= all
    BY <1>1, <1>3, Fewer
  <1>6. B \subseteq A => new <= old /\ (B # A => new + Largest <= old)
    BY <1>1, <1>3, Fewer
  <1> HIDE DEF all, old, new
  <1>7. row2 + new <= room + all
    BY <1>1, <1>4, <1>5, <1>6
  <1> QED BY <1>2, <1>7

\* Every step leaves every cap covered.
LEMMA CoverStep ==
    ASSUME TypeInv, TypeInv', SpendInv, SpendInv', [Next]_vars, IsFiniteSet(Req), IsFiniteSet(Charges),
           NEW i \in DOMAIN Caps, Covered(i)
    PROVE  Covered(i)'
  <1> USE DEF rateVars, budgetVars
  <1> DEFINE p == Caps[i].period
  <1>t. /\ pc \in [Req -> Stage] /\ stamp \in [Req -> Times] /\ charge \in [Req -> Nat]
        /\ passed \in [Req -> 0..Len(Caps)] /\ clock \in Times /\ clock' \in Times
        /\ \A r \in Req : stamp[r] <= clock
        /\ usage \in [Period -> [Times -> Int]] /\ usage' \in [Period -> [Times -> Int]]
    BY DEF TypeInv, TypeOK, PastOnly
  <1>c. /\ p \in Period /\ Caps[i].cap \in Nat /\ Room(i) \in Nat /\ Caps[i].cap - Estimate <= Room(i)
        /\ i \in Nat /\ i >= 1 /\ i <= Len(Caps) /\ Estimate \in Nat
    BY CapTypes, BudgetAssumption
  <1>l. Largest \in Nat /\ \A n \in Charges \cup {Estimate} : n <= Largest
    BY LargestIs
  <1>w. /\ Window(p, clock) \in Times /\ Window(p, clock) \in Nat
        /\ Window(p, clock') \in Times /\ Window(p, clock') \in Nat
        /\ \A r \in Req : Window(p, stamp[r]) \in Nat /\ Window(p, stamp[r]) <= Window(p, clock)
    BY <1>t, <1>c, Windows
  <1>r. Row(p)' = usage'[p][Window(p, clock')]
    BY DEF Row, Window
  <1>s. /\ Spending(i) \subseteq Req /\ Spending(i)' \subseteq Req
        /\ Row(p) \in Int /\ Row(p)' \in Int
    BY <1>t, <1>c, <1>w, <1>r DEF Spending, Row
  <1> SUFFICES \/ Row(p)' <= Room(i)
               \/ Spending(i)' \subseteq Spending(i) /\ Row(p)' <= Row(p)
               \/ /\ Spending(i)' \subseteq Spending(i) /\ Spending(i)' # Spending(i)
                  /\ Row(p)' <= Row(p) + Largest
    BY <1>c, <1>l, <1>s, StaysCovered
  <1>p. \A r \in Req : r \in Spending(i)' <=>
               \/ /\ pc'[r] = "checking"
                  /\ passed'[r] >= i \/ Window(p, stamp'[r]) < Window(p, clock')
               \/ pc'[r] \in {"serving", "recording"}
    BY DEF Spending, Window
  <1>q. \A r \in Req : r \in Spending(i) <=>
               \/ /\ pc[r] = "checking"
                  /\ passed[r] >= i \/ Window(p, stamp[r]) < Window(p, clock)
               \/ pc[r] \in {"serving", "recording"}
    BY DEF Spending
  <1>1. ASSUME NEW r \in Req, CommitRecord(r)
        PROVE  /\ Spending(i)' \subseteq Spending(i) /\ Spending(i)' # Spending(i)
               /\ Row(p)' <= Row(p) + Largest
    <2>1. /\ UNCHANGED <<clock, passed>> /\ Book(r, 1) /\ pc[r] = "recording"
          /\ pc' = [pc EXCEPT ![r] = pc'[r]] /\ pc'[r] \in {"cancelled", "answered", "charged"}
          /\ stamp' = [stamp EXCEPT ![r] = 0]
      BY <1>1, <1>t DEF CommitRecord, EndCall, Goto
    <2>2. Spending(i)' \subseteq Spending(i) /\ r \in Spending(i) /\ r \notin Spending(i)'
      BY <1>t, <1>s, <1>p, <1>q, <2>1
    <2>3. charge[r] \in Nat /\ charge[r] <= Largest
      BY <1>t, <2>1 DEF SpendInv, KnownCharges
    <2>4. Row(p)' \in {Row(p), Row(p) + charge[r]}
      BY <1>c, <1>r, <1>w, <2>1, BookedRows DEF Row
    <2> QED BY <1>l, <1>s, <2>2, <2>3, <2>4
  <1>2. ASSUME NEW r \in Req, CommitRefund(r)
        PROVE  Spending(i)' \subseteq Spending(i) /\ Row(p)' <= Row(p)
    <2>1. /\ UNCHANGED <<clock, passed>> /\ Book(r, -1)
          /\ pc' = [pc EXCEPT ![r] = pc'[r]] /\ pc'[r] \in {"cancelled", "failed"}
          /\ stamp' = [stamp EXCEPT ![r] = 0]
      BY <1>2, <1>t DEF CommitRefund, EndCall, Goto
    <2>2. Spending(i)' \subseteq Spending(i)
      BY <1>t, <1>s, <1>p, <1>q, <2>1
    <2>3. charge[r] \in Nat
      BY <1>t
    <2>4. Row(p)' \in {Row(p), Row(p) + (-charge[r])}
      <3>1. -1 \in {1, -1} /\ -1 # 1
        OBVIOUS
      <3>2. Booked(r, -1) = -charge[r]
        BY <1>c, <1>w, <2>1, <3>1, BookedRows
      <3>3. Row(p)' \in {Row(p), Row(p) + Booked(r, -1)}
        BY <1>c, <1>r, <1>w, <2>1, <3>1, BookedRows DEF Row
      <3> QED BY <3>2, <3>3
    <2> QED BY <1>s, <2>2, <2>3, <2>4
  <1>3. ASSUME Tick
        PROVE  Row(p)' <= Room(i) \/ (Spending(i)' \subseteq Spending(i) /\ Row(p)' <= Row(p))
    <2>1. clock' = clock + 1 /\ UNCHANGED <<usage, pc, stamp, passed>>
      BY <1>3 DEF Tick
    <2>2. CASE Window(p, clock') = Window(p, clock)
      <3>1. Spending(i)' \subseteq Spending(i) /\ Row(p)' = Row(p)
        BY <1>r, <1>s, <1>p, <1>q, <2>1, <2>2 DEF Row
      <3> QED BY <1>s, <3>1
    <2>3. CASE Window(p, clock') # Window(p, clock)
      <3>1. Window(p, clock) <= Window(p, clock')
        BY <1>t, <1>c, <2>1, RateAssumption, Windows DEF Times
      <3>2. usage[p][Window(p, clock')] = 0
        BY <1>c, <1>w, <2>3, <3>1 DEF SpendInv, NothingAhead
      <3> QED BY <1>c, <1>r, <2>1, <3>2
    <2> QED BY <2>2, <2>3
  <1>4. ASSUME NEW r \in Req, PassCap(r)
        PROVE  Row(p)' <= Room(i) \/ (Spending(i)' \subseteq Spending(i) /\ Row(p)' <= Row(p))
    <2>1. /\ UNCHANGED <<clock, usage, pc, stamp>> /\ pc[r] = "checking"
          /\ passed' = [passed EXCEPT ![r] = @ + 1]
          /\ HasRoom(Caps[passed[r] + 1].period, Caps[passed[r] + 1].cap, stamp[r])
      BY <1>4 DEF PassCap
    <2>2. Row(p)' = Row(p)
      BY <1>r, <2>1 DEF Row
    <2>3. CASE passed[r] + 1 = i /\ Window(p, stamp[r]) = Window(p, clock)
      <3>1. Used(p, stamp[r]) = Row(p)
        BY <1>t, <1>c, <2>3, UsedIsTheRow DEF TypeInv, SpendInv
      <3>2. Used(p, stamp[r]) + Estimate <= Caps[i].cap
        BY <2>1, <2>3 DEF HasRoom
      <3> QED BY <1>c, <1>s, <2>2, <3>1, <3>2
    <2>4. CASE ~ (passed[r] + 1 = i /\ Window(p, stamp[r]) = Window(p, clock))
      <3>1. passed[r] \in Nat /\ passed'[r] = passed[r] + 1
        BY <1>t, <2>1
      <3>2. \A q \in Req : q # r => passed'[q] = passed[q]
        BY <1>t, <2>1
      <3>3. Window(p, stamp[r]) < Window(p, clock) \/ passed[r] + 1 # i
        BY <1>w, <2>4
      <3>4. Spending(i)' \subseteq Spending(i)
        BY <1>c, <1>s, <1>p, <1>q, <2>1, <3>1, <3>2, <3>3
      <3> QED BY <1>s, <2>2, <3>4
    <2> QED BY <2>3, <2>4
  <1>5. ASSUME NEW r \in Req, BeginBudgetCheck(r)
        PROVE  Row(p)' <= Room(i) \/ (Spending(i)' \subseteq Spending(i) /\ Row(p)' <= Row(p))
    <2>1. UNCHANGED <<clock, usage, passed>> /\ pc[r] = "admitted"
      BY <1>5 DEF BeginBudgetCheck
    <2>2. Row(p)' = Row(p)
      BY <1>r, <2>1 DEF Row
    <2>3. CASE config.budget
      <3>1. pc' = [pc EXCEPT ![r] = "checking"] /\ stamp' = [stamp EXCEPT ![r] = clock]
        BY <1>5, <2>3 DEF BeginBudgetCheck, CallStore, Goto
      <3>2. passed[r] = 0
        BY <2>1 DEF SpendInv, ChecksBegin
      <3>4. r \notin Spending(i)'
        <4>1. pc'[r] = "checking" /\ stamp'[r] = clock /\ passed'[r] = 0 /\ clock' = clock
          BY <1>t, <2>1, <3>1, <3>2
        <4>2. ~ (0 >= i) /\ ~ (Window(p, clock) < Window(p, clock))
          BY <1>c, <1>w
        <4> HIDE DEF p
        <4> QED BY <1>p, <4>1, <4>2
      <3>5. \A q \in Req : q # r => pc'[q] = pc[q] /\ stamp'[q] = stamp[q] /\ passed'[q] = passed[q]
        BY <1>t, <2>1, <3>1
      <3>3. Spending(i)' \subseteq Spending(i)
        BY <1>s, <1>p, <1>q, <2>1, <3>4, <3>5
      <3> QED BY <1>s, <2>2, <3>3
    <2>4. CASE ~ config.budget
      <3>1. Row(p) = 0
        BY <1>c, <1>w, <2>4 DEF SpendInv, BudgetsOnly, Row
      <3> QED BY <1>c, <2>2, <3>1
    <2> QED BY <2>3, <2>4
  <1>6. ASSUME NEW r \in Req,
               \/ Arrive(r) \/ CheckRate(r) \/ Refuse(r) \/ PassBudget(r)
               \/ PreflightUnavailable(r) \/ HitCache(r) \/ ProviderAnswers(r)
               \/ AnswerUncounted(r) \/ ProviderFails(r)
               \/ Answer(r) \/ BeginRefund(r) \/ Cancel(r)
        PROVE  Spending(i)' \subseteq Spending(i) /\ Row(p)' <= Row(p)
    <2>1. UNCHANGED <<clock, usage>>
      BY <1>6 DEF Arrive, CheckRate, Refuse, PassBudget, PreflightUnavailable, HitCache, ProviderAnswers,
                  AnswerUncounted, ProviderFails, Answer, BeginRefund, Cancel
    <2>2. \A q \in Req : q # r => /\ passed'[q] = passed[q] /\ stamp'[q] = stamp[q] /\ pc'[q] = pc[q]
      BY <1>6, <1>t DEF Arrive, CheckRate, Refuse, PassBudget, PreflightUnavailable, HitCache, ProviderAnswers,
                  AnswerUncounted, ProviderFails, Answer, BeginRefund, Cancel, CallStore, EndCall, Goto
    <2>3. /\ pc'[r] # "checking"
          /\ pc'[r] \in {"serving", "recording"} =>
                 \/ pc[r] \in {"serving", "recording"}
                 \/ pc[r] = "checking" /\ passed[r] = Len(Caps)
      BY <1>6, <1>t DEF Arrive, CheckRate, Refuse, PassBudget, PreflightUnavailable, HitCache, ProviderAnswers,
                  AnswerUncounted, ProviderFails, Answer, BeginRefund, Cancel, CallStore, EndCall, Goto
    <2>4. Row(p)' = Row(p)
      BY <1>r, <2>1 DEF Row
    <2>5. ASSUME NEW q \in Req, q \in Spending(i)' PROVE q \in Spending(i)
      <3>1. CASE q # r
        BY <1>p, <1>q, <2>1, <2>2, <2>5, <3>1
      <3>2. CASE q = r
        <4>1. pc'[r] \in {"serving", "recording"}
          BY <1>p, <2>3, <2>5, <3>2
        <4> QED BY <1>c, <1>q, <2>3, <3>2, <4>1
      <3> QED BY <3>1, <3>2
    <2> QED BY <1>s, <2>4, <2>5
  <1>7. ASSUME UNCHANGED vars
        PROVE  Spending(i)' \subseteq Spending(i) /\ Row(p)' <= Row(p)
    <2>1. UNCHANGED <<clock, usage, pc, stamp, passed>>
      BY <1>7 DEF vars
    <2>2. Spending(i)' = Spending(i) /\ Row(p)' = Row(p)
      BY <2>1 DEF Spending, Row, Window
    <2> QED BY <1>s, <2>2
  <1> QED BY <1>1, <1>2, <1>3, <1>4, <1>5, <1>6, <1>7 DEF Next, Step

\* OverspendIsBounded, for any number of requests, any caps, windows, charges,
\* cancellations and outages: the tokens of the current window exceed what a
\* cap leaves by at most one largest charge for each request that may be live
\* (BudgetTracker.check and record, which nothing holds together).  Numbers
\* of requests and a largest charge are spoken of, so both sets are finite.
THEOREM OverspendBounded ==
    ASSUME IsFiniteSet(Req), IsFiniteSet(Charges)
    PROVE  Spec => []OverspendIsBounded
  <1> DEFINE AllCovered == \A i \in DOMAIN Caps : Covered(i)
             Inv == SpendInv /\ AllCovered
  <1>1. Spec => []TypeInv
    BY TypeInit, TypeNext, PastNext, PTL DEF Spec, TypeInv
  <1>2. Init => Inv
    <2> SUFFICES ASSUME Init PROVE Inv
      OBVIOUS
    <2>1. /\ usage = [q \in Period |-> [k \in Times |-> 0]] /\ pc = [r \in Req |-> "idle"]
          /\ clock = 0 /\ 0 \in Times
      BY RateAssumption DEF Init, Times
    <2>2. SpendInv
      BY <2>1 DEF SpendInv, NothingAhead, KnownCharges, ChecksBegin, BudgetsOnly
    <2>3. ASSUME NEW i \in DOMAIN Caps PROVE Covered(i)
      <3>1. Caps[i].period \in Period /\ Room(i) \in Nat
        BY CapTypes
      <3>2. Window(Caps[i].period, clock) \in Times
        BY <2>1, <3>1, Windows
      <3>3. Row(Caps[i].period) = 0
        BY <2>1, <3>1, <3>2 DEF Row
      <3>4. Spending(i) \in SUBSET Req /\ Req \in SUBSET Req
        BY DEF Spending
      <3>5. /\ Cardinality(Spending(i)) * Largest \in Nat /\ Cardinality(Req) * Largest \in Nat
            /\ Cardinality(Spending(i)) * Largest <= Cardinality(Req) * Largest
        BY <3>4, LargestIs, Fewer
      <3> QED BY <3>1, <3>3, <3>5 DEF Covered
    <2> QED BY <2>2, <2>3
  <1>3. TypeInv /\ TypeInv' /\ Inv /\ [Next]_vars => Inv'
    <2> SUFFICES ASSUME TypeInv, TypeInv', Inv, [Next]_vars PROVE Inv'
      OBVIOUS
    <2>1. SpendInv'
      BY SpendStep, LargestIs
    <2>2. ASSUME NEW i \in DOMAIN Caps PROVE Covered(i)'
      BY <2>1, CoverStep
    <2> QED BY <2>1, <2>2
  <1>4. TypeInv /\ Inv => OverspendIsBounded
    <2> SUFFICES ASSUME TypeInv, Inv, NEW i \in DOMAIN Caps
                 PROVE  Used(Caps[i].period, clock) <= Max({Caps[i].cap - Estimate, 0}) + Cardinality(Req) * Largest
      BY DEF OverspendIsBounded
    <2>1. Caps[i].period \in Period /\ Room(i) \in Nat /\ clock \in Times
      BY CapTypes DEF TypeInv, TypeOK
    <2>2. Used(Caps[i].period, clock) = Row(Caps[i].period)
      BY <2>1, UsedIsTheRow DEF TypeInv, SpendInv
    <2>3. Row(Caps[i].period) \in Int
      BY <2>1, Windows DEF Row, TypeInv, TypeOK
    <2>4. Spending(i) \in SUBSET Req /\ Req \in SUBSET Req
      BY DEF Spending
    <2>5. Cardinality(Spending(i)) * Largest \in Nat /\ Cardinality(Req) * Largest \in Nat
      BY <2>4, LargestIs, Fewer
    <2>6. Row(Caps[i].period) + Cardinality(Spending(i)) * Largest <= Room(i) + Cardinality(Req) * Largest
      BY DEF Covered
    <2> DEFINE row == Row(Caps[i].period)
               mine == Cardinality(Spending(i)) * Largest
               all == Cardinality(Req) * Largest
               room == Room(i)
    <2>7. row <= room + all
      <3>1. row \in Int /\ mine \in Nat /\ all \in Nat /\ room \in Nat /\ row + mine <= room + all
        BY <2>1, <2>3, <2>5, <2>6
      <3> HIDE DEF row, mine, all, room
      <3> QED BY <3>1
    <2> QED BY <2>2, <2>7 DEF Room
  <1> QED BY <1>1, <1>2, <1>3, <1>4, PTL DEF Spec
=============================================================================
