------------------------- MODULE TokenRotationProofs -------------------------
(***************************************************************************)
(* Proofs about TokenRotation for any number of processes, seats, claims,  *)
(* generations and faults: seats that can be told apart are never mixed    *)
(* up, and the live refresh token of a seat stays in the shared row,       *)
(* unless its rotation is underway or a fault or an overlapping write lost *)
(* it.                                                                     *)
(***************************************************************************)
EXTENDS TokenRotation, TLAPS

Refreshing == {"reading", "read", "sent", "answered"}

\* A seat's last generation is never refreshed, and never expires.
Bounded ==
    /\ \A s \in Seat : live[s] <= MaxGen[s] /\ dead[s] <= MaxGen[s]
    /\ \A p \in Proc : job[p].stage \in Refreshing =>
           job[p].cred.gen < MaxGen[job[p].cred.seat]

TypeInv == TypeOK /\ Bounded

LEMMA GenFacts ==
    /\ \A g \in Gen : g \in Nat
    /\ \A s \in Seat : 0 \in Gen /\ MaxGen[s] \in Nat
    /\ \A s \in Seat, g \in Nat : g <= MaxGen[s] => g \in Gen
  <1>1. MaxGen \in [Seat -> Nat]
    BY BoundAssumption DEF BoundAssumption
  <1>2. \A s \in Seat : MaxGen[s] \in Nat
    BY <1>1
  <1>3. \A s \in Seat, g \in Nat : g <= MaxGen[s] => g \in Gen
    BY <1>2 DEF Gen
  <1>4. \A g \in Gen : g \in Nat
    BY <1>2 DEF Gen
  <1> QED
    BY <1>2, <1>3, <1>4

\* Members of the types, and how the actions change them.
LEMMA Copying ==
    /\ \A c \in Stored : Copy(c) \in Held /\ ~Copy(c).revoked
    /\ \A c \in Held : Bare(c) \in Stored
    /\ \A row \in Row : Copies(row) \in [Seat -> Held]
    /\ \A i \in Seat : First(i) \in Stored
  BY GenFacts DEF Copy, Copies, Bare, First, Stored, Held, Row

LEMMA JobFacts ==
    ASSUME TypeOK, NEW p \in Proc
    PROVE  /\ job[p].stage \in Stage => job[p] \in Job
           /\ job[p] = Idle => job[p].stage \notin Stage
           /\ job[p] # Idle => job[p] \in Job
  BY DEF TypeOK, Idle, Stage

LEMMA Entering ==
    ASSUME TypeOK, NEW p \in Proc, job[p] \in Job, NEW stage \in Stage,
           Enter(p, stage)
    PROVE  /\ job' \in [Proc -> Job \cup {Idle}]
           /\ \A q \in Proc \ {p} : job'[q] = job[q]
           /\ job'[p].stage = stage /\ job'[p].found = Unread
           /\ job'[p].at = job[p].at /\ job'[p].cred = job[p].cred
  BY DEF Enter, TypeOK, Job

LEMMA Leaving ==
    ASSUME TypeOK, NEW p \in Proc, Leave(p)
    PROVE  /\ job' \in [Proc -> Job \cup {Idle}]
           /\ \A q \in Proc \ {p} : job'[q] = job[q]
           /\ job'[p] = Idle /\ job'[p].stage = "idle"
  BY DEF Leave, TypeOK, Idle

LEMMA TypeInit == Init => TypeInv
  <1> SUFFICES ASSUME Init PROVE TypeInv
    OBVIOUS
  <1>1. \A s \in Seat : 0 \in Gen /\ 0 <= MaxGen[s]
    BY GenFacts
  <1>2. live \in [Seat -> Gen] /\ dead \in [Seat -> Gen]
    BY <1>1 DEF Init
  <1>3. store \in Row
    BY Copying DEF Init, Row
  <1>4. creds \in [Proc -> [Seat -> Held]]
    BY <1>3, Copying DEF Init
  <1>5. /\ failed \in [Proc -> SUBSET Seat]
        /\ job \in [Proc -> Job \cup {Idle}]
        /\ writes \subseteq Write
        /\ snapshot \in [Proc -> Row \cup {Unread}]
    BY DEF Init
  <1>6. faults \in 0..MaxFaults /\ excused \subseteq Seat
    BY BoundAssumption DEF Init, BoundAssumption
  <1>7. Bounded
    BY <1>1 DEF Init, Bounded, Idle, Refreshing
  <1> QED
    BY <1>2, <1>3, <1>4, <1>5, <1>6, <1>7 DEF TypeInv, TypeOK

LEMMA TypeStep == TypeInv /\ [Next]_vars => TypeInv'
  <1> SUFFICES ASSUME TypeInv, [Next]_vars PROVE TypeInv'
    OBVIOUS
  <1>t. TypeOK /\ Bounded
    BY DEF TypeInv
  <1>u. /\ live \in [Seat -> Gen] /\ dead \in [Seat -> Gen]
        /\ store \in Row
        /\ creds \in [Proc -> [Seat -> Held]]
        /\ failed \in [Proc -> SUBSET Seat]
        /\ job \in [Proc -> Job \cup {Idle}]
        /\ writes \subseteq Write
        /\ snapshot \in [Proc -> Row \cup {Unread}]
        /\ faults \in 0..MaxFaults /\ excused \subseteq Seat
    BY <1>t DEF TypeOK
  <1>v. /\ \A s \in Seat : live[s] <= MaxGen[s] /\ dead[s] <= MaxGen[s]
        /\ \A p \in Proc : job[p].stage \in Refreshing =>
               job[p].cred.gen < MaxGen[job[p].cred.seat]
    BY <1>t DEF Bounded
  <1>f. Fault => faults' \in 0..MaxFaults
    BY <1>u, BoundAssumption DEF Fault, BoundAssumption
  <1>w. \A w \in writes : /\ w.proc \in Proc
                          /\ w.expected \in Stored /\ w.replacement \in Stored
                          /\ w.row \in Row \cup {Unread}
    BY <1>u DEF Write
  <1>1. ASSUME NEW p \in Proc, NEW i \in Seat, Begin(p, i) PROVE TypeInv'
    <2>1. creds[p][i] \in Held
      BY <1>u
    <2>2. [stage |-> "reading", at |-> i, cred |-> creds[p][i],
           found |-> Unread] \in Job
      BY <2>1 DEF Job, Stage
    <2>3. job' \in [Proc -> Job \cup {Idle}]
      BY <1>1, <1>u, <2>2 DEF Begin
    <2>4. Bounded'
      BY <1>1, <1>u, <1>v DEF Begin, Bounded
    <2> QED BY <1>1, <1>u, <2>3, <2>4 DEF Begin, history, TypeInv, TypeOK
  <1>2. ASSUME NEW p \in Proc, ReadStore(p) PROVE TypeInv'
    <2>1. job[p] \in Job
      BY <1>2, <1>t, JobFacts DEF ReadStore, Stage
    <2>2. CASE Enter(p, "sent") /\ Fault
      <3>1. /\ job' \in [Proc -> Job \cup {Idle}]
            /\ \A q \in Proc \ {p} : job'[q] = job[q]
            /\ job'[p].cred = job[p].cred
        BY <2>1, <2>2, <1>t, Entering DEF Stage
      <3>2. Bounded'
        BY <1>2, <3>1, <1>v DEF ReadStore, Bounded, Refreshing
      <3> QED BY <1>2, <2>2, <1>f, <1>u, <3>1, <3>2 DEF ReadStore, TypeInv, TypeOK
    <2>3. CASE job' = [job EXCEPT ![p].stage = "read", ![p].found = store]
               /\ UNCHANGED faults
      <3>1. job'[p] = [job[p] EXCEPT !.stage = "read", !.found = store]
        BY <2>3, <1>u
      <3>2. job'[p] \in Job /\ job'[p].cred = job[p].cred
        BY <3>1, <2>1, <1>u DEF Job, Stage
      <3>3. job' \in [Proc -> Job \cup {Idle}]
        BY <2>3, <3>1, <3>2, <1>u
      <3>4. \A q \in Proc \ {p} : job'[q] = job[q]
        BY <2>3, <1>u
      <3>5. Bounded'
        BY <1>2, <3>2, <3>4, <1>v DEF ReadStore, Bounded, Refreshing
      <3> QED BY <1>2, <2>3, <1>u, <3>3, <3>5 DEF ReadStore, TypeInv, TypeOK
    <2> QED BY <1>2, <2>2, <2>3 DEF ReadStore
  <1>3. ASSUME NEW p \in Proc, Adopt(p) PROVE TypeInv'
    <2>1. job[p] \in Job
      BY <1>3, <1>t, JobFacts DEF Adopt, Stage
    <2> DEFINE i == job[p].at
    <2>2. PICK stored \in Adoptable(job[p].found, job[p].cred) :
             /\ creds' = [creds EXCEPT ![p][i] = Copy(stored)]
             /\ \/ /\ Expired(Copy(stored))
                   /\ job' = [job EXCEPT ![p].stage = "sent",
                                         ![p].found = Unread,
                                         ![p].cred = Copy(stored)]
                   /\ UNCHANGED failed
                \/ /\ ~Expired(Copy(stored))
                   /\ failed' = [failed EXCEPT ![p] = @ \ {i}]
                   /\ Leave(p)
      BY <1>3 DEF Adopt
    <2>3. stored \in Stored
      BY <2>1 DEF Adoptable, Job, Row, Unread
    <2>4. Copy(stored) \in Held /\ ~Copy(stored).revoked
      BY <2>3, Copying
    <2>5. i \in Seat
      BY <2>1 DEF Job
    <2>6. creds' \in [Proc -> [Seat -> Held]]
      BY <2>2, <2>4, <2>5, <1>u
    <2>7. CASE Leave(p) /\ failed' = [failed EXCEPT ![p] = @ \ {i}]
      <3>1. /\ job' \in [Proc -> Job \cup {Idle}]
            /\ \A q \in Proc \ {p} : job'[q] = job[q]
            /\ job'[p].stage = "idle"
        BY <2>7, <1>t, Leaving
      <3>2. Bounded'
        BY <1>3, <3>1, <1>v DEF Adopt, Bounded, Refreshing
      <3> QED BY <1>3, <2>6, <2>7, <1>u, <3>1, <3>2
                 DEF Adopt, history, TypeInv, TypeOK
    <2>8. CASE /\ Expired(Copy(stored))
               /\ job' = [job EXCEPT ![p].stage = "sent", ![p].found = Unread,
                                     ![p].cred = Copy(stored)]
               /\ UNCHANGED failed
      <3>1. job'[p] = [job[p] EXCEPT !.stage = "sent", !.found = Unread,
                                     !.cred = Copy(stored)]
        BY <2>8, <1>u
      <3>2. job'[p] \in Job /\ job'[p].cred = Copy(stored)
        BY <3>1, <2>1, <2>4 DEF Job, Stage
      <3>3. job' \in [Proc -> Job \cup {Idle}]
        BY <2>8, <3>1, <3>2, <1>u
      <3>4. \A q \in Proc \ {p} : job'[q] = job[q]
        BY <2>8, <1>u
      <3>5. Copy(stored).gen < MaxGen[Copy(stored).seat]
        <4>1. Copy(stored).seat \in Seat /\ Copy(stored).gen \in Nat
          BY <2>4, GenFacts DEF Held
        <4>2. /\ dead[Copy(stored).seat] \in Nat
              /\ dead[Copy(stored).seat] <= MaxGen[Copy(stored).seat]
              /\ MaxGen[Copy(stored).seat] \in Nat
          BY <4>1, <1>u, <1>v, GenFacts
        <4>3. Copy(stored).gen < dead[Copy(stored).seat]
          BY <2>8, <2>4 DEF Expired
        <4> QED BY <4>1, <4>2, <4>3
      <3>6. Bounded'
        BY <1>3, <3>2, <3>4, <3>5, <1>v DEF Adopt, Bounded, Refreshing
      <3> QED BY <1>3, <2>6, <2>8, <1>u, <3>3, <3>6
                 DEF Adopt, history, TypeInv, TypeOK
    <2> QED BY <2>2, <2>7, <2>8
  <1>4. ASSUME NEW p \in Proc, Refresh(p) PROVE TypeInv'
    <2>1. job[p] \in Job
      BY <1>4, <1>t, JobFacts DEF Refresh, Stage
    <2>2. /\ job' \in [Proc -> Job \cup {Idle}]
          /\ \A q \in Proc \ {p} : job'[q] = job[q]
          /\ job'[p].cred = job[p].cred
      BY <1>4, <2>1, <1>t, Entering DEF Refresh, Stage
    <2>3. Bounded'
      BY <1>4, <2>2, <1>v DEF Refresh, Bounded, Refreshing
    <2> QED BY <1>4, <1>u, <2>2, <2>3 DEF Refresh, history, TypeInv, TypeOK
  <1>5. ASSUME NEW p \in Proc, Authority(p) PROVE TypeInv'
    <2>1. job[p] \in Job
      BY <1>5, <1>t, JobFacts DEF Authority, Stage
    <2> DEFINE c == job[p].cred
    <2>2. c \in Held /\ c.seat \in Seat /\ c.gen \in Gen
      BY <2>1 DEF Job, Held
    <2>3. ASSUME NEW stage \in {"answered", "rejected"}, Enter(p, stage)
          PROVE  /\ job' \in [Proc -> Job \cup {Idle}]
                 /\ \A q \in Proc \ {p} : job'[q] = job[q]
                 /\ job'[p].cred = job[p].cred
      BY <2>1, <2>3, <1>t, Entering DEF Stage
    <2>4. CASE /\ c.gen = live[c.seat]
               /\ live' = [live EXCEPT ![c.seat] = @ + 1]
               /\ Enter(p, "answered")
      <3>1. live[c.seat] + 1 \in Nat /\ live[c.seat] + 1 <= MaxGen[c.seat]
        BY <1>5, <2>2, <2>4, <1>v, GenFacts DEF Authority, Refreshing
      <3>2. live' \in [Seat -> Gen]
        BY <2>2, <2>4, <3>1, <1>u, GenFacts
      <3>3. \A s \in Seat : live'[s] <= MaxGen[s]
        BY <2>2, <2>4, <3>1, <1>u, <1>v
      <3>4. Bounded'
        BY <1>5, <2>3, <2>4, <3>3, <1>v DEF Authority, Bounded, Refreshing
      <3> QED BY <1>5, <2>3, <2>4, <3>2, <3>4, <1>u
                 DEF Authority, history, TypeInv, TypeOK
    <2>5. CASE Enter(p, "rejected") /\ UNCHANGED live
      <3>1. Bounded'
        BY <1>5, <2>3, <2>5, <1>v DEF Authority, Bounded, Refreshing
      <3> QED BY <1>5, <2>3, <2>5, <3>1, <1>u DEF Authority, history, TypeInv, TypeOK
    <2> QED BY <1>5, <2>4, <2>5 DEF Authority
  <1>6. ASSUME NEW p \in Proc, Refreshed(p) PROVE TypeInv'
    <2>1. job[p] \in Job
      BY <1>6, <1>t, JobFacts DEF Refreshed, Stage
    <2> DEFINE c == job[p].cred
               next == [seat |-> c.seat, gen |-> c.gen + 1]
               write == [proc |-> p, expected |-> PreRefresh(c),
                         replacement |-> next, row |-> Unread]
    <2>2. c \in Held /\ c.seat \in Seat /\ c.gen \in Nat /\ job[p].at \in Seat
      BY <2>1, GenFacts DEF Job, Held
    <2>3. c.gen + 1 \in Nat /\ c.gen + 1 <= MaxGen[c.seat]
      BY <1>6, <2>2, <1>v, GenFacts DEF Refreshed, Refreshing
    <2>4. next \in Stored
      BY <2>2, <2>3, GenFacts DEF Stored
    <2>5. write \in Write
      BY <2>2, <2>4, Copying DEF Write, PreRefresh
    <2>6. /\ job' \in [Proc -> Job \cup {Idle}]
          /\ \A q \in Proc \ {p} : job'[q] = job[q]
          /\ job'[p].stage = "persisting"
      BY <1>6, <2>1, <1>t, Entering DEF Refreshed, Stage
    <2>7. creds' \in [Proc -> [Seat -> Held]]
      BY <1>6, <2>2, <2>4, <1>u, Copying DEF Refreshed
    <2>8. writes' \subseteq Write
      BY <1>6, <2>5, <1>u DEF Refreshed
    <2>9. Bounded'
      BY <1>6, <2>6, <1>v DEF Refreshed, Bounded, Refreshing
    <2>10. failed' \in [Proc -> SUBSET Seat]
      BY <1>6, <1>u DEF Refreshed
    <2> QED
      BY <1>6, <2>6, <2>7, <2>8, <2>9, <2>10, <1>u
         DEF Refreshed, history, TypeInv, TypeOK
  <1>7. ASSUME NEW p \in Proc, Persisted(p) \/ RefreshRefused(p) PROVE TypeInv'
    <2>1. /\ job' \in [Proc -> Job \cup {Idle}]
          /\ \A q \in Proc \ {p} : job'[q] = job[q]
          /\ job'[p].stage = "idle"
      BY <1>7, <1>t, Leaving DEF Persisted, RefreshRefused
    <2>2. Bounded'
      BY <1>7, <2>1, <1>v DEF Persisted, RefreshRefused, Bounded, Refreshing
    <2>3. failed' \in [Proc -> SUBSET Seat]
      <3>1. CASE Persisted(p)
        BY <3>1, <1>u DEF Persisted
      <3>2. CASE RefreshRefused(p)
        <4>1. job[p].at \in Seat
          BY <3>2, <1>t, JobFacts DEF RefreshRefused, Stage, Job
        <4> QED BY <3>2, <4>1, <1>u DEF RefreshRefused
      <3> QED BY <1>7, <3>1, <3>2
    <2> QED
      BY <1>7, <2>1, <2>2, <2>3, <1>u
         DEF Persisted, RefreshRefused, history, TypeInv, TypeOK
  <1>8. ASSUME NEW w \in writes, CasRead(w) PROVE TypeInv'
    <2>1. [w EXCEPT !.row = store] \in Write
      BY <1>u DEF Write
    <2>2. writes' \subseteq Write
      BY <1>8, <2>1, <1>u DEF CasRead
    <2>3. excused' \subseteq Seat
      BY <1>8, <1>u, <1>w DEF CasRead, Stored
    <2>4. Bounded'
      BY <1>8, <1>v DEF CasRead, local, Bounded
    <2> QED BY <1>8, <2>2, <2>3, <2>4, <1>u DEF CasRead, local, TypeInv, TypeOK
  <1>9. ASSUME NEW w \in writes, CasWrite(w) PROVE TypeInv'
    <2>1. w.row \in Row
      BY <1>9, <1>w DEF CasWrite
    <2>2. store' \in Row
      BY <1>9, <2>1, <1>w DEF CasWrite, Replaced, Row
    <2>3. excused' \subseteq Seat
      BY <1>9, <1>u DEF CasWrite, Row, Stored
    <2>4. Bounded'
      BY <1>9, <1>v DEF CasWrite, local, Bounded
    <2>5. writes' \subseteq Write
      BY <1>9, <1>u DEF CasWrite
    <2> QED
      BY <1>9, <2>2, <2>3, <2>4, <2>5, <1>u DEF CasWrite, local, TypeInv, TypeOK
  <1>10. ASSUME NEW w \in writes, CasFails(w) PROVE TypeInv'
    <2>1. excused' \subseteq Seat /\ writes' \subseteq Write
      BY <1>10, <1>u, <1>w DEF CasFails, Stored
    <2>2. Bounded'
      BY <1>10, <1>v DEF CasFails, local, Bounded
    <2> QED
      BY <1>10, <2>1, <2>2, <1>f, <1>u DEF CasFails, local, TypeInv, TypeOK
  <1>11. ASSUME NEW p \in Proc, ReloadRead(p) \/ ReloadApply(p) PROVE TypeInv'
    <2>1. snapshot' \in [Proc -> Row \cup {Unread}]
      BY <1>11, <1>u DEF ReloadRead, ReloadApply
    <2>2. creds' \in [Proc -> [Seat -> Held]]
      <3>1. CASE ReloadRead(p)
        BY <3>1, <1>u DEF ReloadRead, local
      <3>2. CASE ReloadApply(p)
        <4>1. snapshot[p] \in Row
          BY <3>2, <1>u DEF ReloadApply
        <4>2. Copies(snapshot[p]) \in [Seat -> Held]
          BY <4>1, Copying
        <4> QED BY <3>2, <4>2, <1>u DEF ReloadApply
      <3> QED BY <1>11, <3>1, <3>2
    <2>3. failed' \in [Proc -> SUBSET Seat]
      BY <1>11, <1>u DEF ReloadRead, ReloadApply, local
    <2>4. Bounded'
      BY <1>11, <1>v DEF ReloadRead, ReloadApply, local, Bounded
    <2> QED
      BY <1>11, <2>1, <2>2, <2>3, <2>4, <1>u
         DEF ReloadRead, ReloadApply, local, history, TypeInv, TypeOK
  <1>12. ASSUME NEW s \in Seat, Expire(s) PROVE TypeInv'
    <2>1. dead[s] + 1 \in Nat /\ dead[s] + 1 <= MaxGen[s]
      BY <1>12, <1>u, GenFacts DEF Expire
    <2>2. dead' \in [Seat -> Gen]
      BY <1>12, <2>1, <1>u, GenFacts DEF Expire
    <2>3. Bounded'
      BY <1>12, <2>1, <1>u, <1>v DEF Expire, local, Bounded
    <2> QED
      BY <1>12, <2>2, <2>3, <1>u DEF Expire, local, history, TypeInv, TypeOK
  <1>13. ASSUME NEW p \in Proc, NEW i \in Seat, Revoke(p, i) \/ RetryAllowed(p, i)
         PROVE  TypeInv'
    <2>1. creds' \in [Proc -> [Seat -> Held]]
      <3>1. [creds[p][i] EXCEPT !.revoked = TRUE] \in Held
        <4>1. creds[p][i] \in Held
          BY <1>u
        <4> QED BY <4>1 DEF Held
      <3>2. CASE Revoke(p, i)
        BY <3>1, <3>2, <1>u DEF Revoke
      <3>3. CASE RetryAllowed(p, i)
        BY <3>3, <1>u DEF RetryAllowed
      <3> QED BY <1>13, <3>2, <3>3
    <2>2. failed' \in [Proc -> SUBSET Seat]
      BY <1>13, <1>u DEF Revoke, RetryAllowed
    <2>3. Bounded'
      BY <1>13, <1>v DEF Revoke, RetryAllowed, Bounded
    <2> QED
      BY <1>13, <2>1, <2>2, <2>3, <1>u
         DEF Revoke, RetryAllowed, history, TypeInv, TypeOK
  <1>14. ASSUME NEW p \in Proc, LoseAnswer(p) \/ Cancel(p) \/ Restart(p)
         PROVE  TypeInv'
    <2>1. /\ job' \in [Proc -> Job \cup {Idle}]
          /\ \A q \in Proc \ {p} : job'[q] = job[q]
          /\ job'[p].stage = "idle"
      BY <1>14, <1>t, Leaving DEF LoseAnswer, Cancel, Restart
    <2>2. Bounded'
      BY <1>14, <2>1, <1>v DEF LoseAnswer, Cancel, Restart, Bounded, Refreshing
    <2>3. faults' \in 0..MaxFaults
      BY <1>14, <1>f DEF LoseAnswer, Cancel, Restart
    <2>4. Dropped(p) \subseteq Seat
      BY <1>t, JobFacts DEF Dropped, Job, Held, Stage
    <2>5. excused' \subseteq Seat
      BY <1>14, <2>4, <1>u, <1>w DEF LoseAnswer, Cancel, Restart, Stored
    <2>6. failed' \in [Proc -> SUBSET Seat]
      <3>1. CASE LoseAnswer(p)
        <4>1. job[p].at \in Seat
          BY <3>1, <1>t, JobFacts DEF LoseAnswer, Stage, Job
        <4> QED BY <3>1, <4>1, <1>u DEF LoseAnswer
      <3>2. CASE Cancel(p) \/ Restart(p)
        BY <3>2, <1>u DEF Cancel, Restart
      <3> QED BY <1>14, <3>1, <3>2
    <2>7. creds' \in [Proc -> [Seat -> Held]]
      BY <1>14, <1>u, Copying DEF LoseAnswer, Cancel, Restart
    <2>8. writes' \subseteq Write /\ snapshot' \in [Proc -> Row \cup {Unread}]
      BY <1>14, <1>u DEF LoseAnswer, Cancel, Restart
    <2> QED
      BY <1>14, <2>1, <2>2, <2>3, <2>5, <2>6, <2>7, <2>8, <1>u
         DEF LoseAnswer, Cancel, Restart, TypeInv, TypeOK
  <1>15. ASSUME UNCHANGED vars PROVE TypeInv'
    BY <1>15, <1>t DEF vars, local, history, TypeInv, TypeOK, Bounded
  <1> QED
    BY <1>1, <1>2, <1>3, <1>4, <1>5, <1>6, <1>7, <1>8, <1>9, <1>10, <1>11,
       <1>12, <1>13, <1>14, <1>15 DEF Next, GetToken, Cas

\* For any number of processes, seats and generations: the row and the copies
\* keep one credential for every position, and no credential is of a
\* generation that the authority never issues.
THEOREM TypeCorrect == Spec => []TypeOK
  <1>1. TypeInv => TypeOK
    BY DEF TypeInv
  <1> QED
    BY <1>1, TypeInit, TypeStep, PTL DEF Spec

-----------------------------------------------------------------------------
(* Seats are kept apart *)

Separate(row) == \A i \in Seat : row[i].seat = i

OwnTokens(list) == \A i \in Seat : ToldApart(i) => list[i].seat = i

RightSeat(j) == ToldApart(j.at) => j.cred.seat = j.at

\* The row, and what threads have read of it, has each seat at its own position;
\* so have the copies the seats that can be told apart, and get_token refreshes
\* the seat of its position.
SeatInv ==
    /\ Separate(store)
    /\ \A p \in Proc : OwnTokens(creds[p])
    /\ \A p \in Proc : snapshot[p] # Unread => Separate(snapshot[p])
    /\ \A p \in Proc : job[p] # Idle => RightSeat(job[p])
    /\ \A w \in writes : w.replacement.seat = w.expected.seat
    /\ \A w \in writes : w.row # Unread => Separate(w.row)

\* What matches a seat that is told apart from every other is of that seat.
LEMMA MatchesAreOwn ==
    ASSUME NEW a \in Stored \cup Held, NEW b \in Stored,
           ToldApart(a.seat), SameSeat(a, b)
    PROVE  b.seat = a.seat
  <1> DEFINE both == Carried[a.seat] \cap Carried[b.seat]
  <1>1. a.seat \in Seat /\ b.seat \in Seat
    BY DEF Stored, Held
  <1>2. CASE both = {} /\ Bare(a) = Bare(b)
    BY <1>2 DEF Bare
  <1>3. CASE \E f \in both : /\ \A g \in both : f <= g
                            /\ Claim[a.seat][f] = Claim[b.seat][f]
    BY <1>1, <1>3 DEF ToldApart
  <1> QED BY <1>2, <1>3 DEF SameSeat

LEMMA SeatInit == Init => SeatInv
  BY DEF Init, SeatInv, Separate, OwnTokens, First, Copies, Copy, Idle

LEMMA SeatStep ==
    ASSUME TypeInv, SeatInv, [Next]_vars
    PROVE  SeatInv'
  <1>t. TypeOK
    BY DEF TypeInv
  <1>u. /\ store \in Row
        /\ creds \in [Proc -> [Seat -> Held]]
        /\ job \in [Proc -> Job \cup {Idle}]
        /\ writes \subseteq Write
        /\ snapshot \in [Proc -> Row \cup {Unread}]
    BY <1>t DEF TypeOK
  <1>s. Separate(store)
    BY DEF SeatInv
  <1>c. \A p \in Proc : OwnTokens(creds[p])
    BY DEF SeatInv
  <1>n. \A p \in Proc : snapshot[p] # Unread => Separate(snapshot[p])
    BY DEF SeatInv
  <1>j. \A p \in Proc : job[p] # Idle => RightSeat(job[p])
    BY DEF SeatInv
  <1>w. \A w \in writes : /\ w.replacement.seat = w.expected.seat
                          /\ w.row # Unread => Separate(w.row)
    BY DEF SeatInv
  \* A job that goes on keeps its position and its credential's seat.
  <1>e. ASSUME NEW p \in Proc, NEW stage \in Stage, job[p] \in Job, Enter(p, stage)
        PROVE  \A q \in Proc : job'[q] # Idle => RightSeat(job'[q])
    <2>1. job[p].stage \in Stage /\ job[p] # Idle
      BY <1>e, <1>t, JobFacts DEF Job
    <2>2. /\ \A q \in Proc \ {p} : job'[q] = job[q]
          /\ job'[p].at = job[p].at /\ job'[p].cred = job[p].cred
      BY <1>e, <1>t, Entering
    <2> QED BY <2>1, <2>2, <1>j DEF RightSeat
  <1>l. ASSUME NEW p \in Proc, Leave(p)
        PROVE  \A q \in Proc : job'[q] # Idle => RightSeat(job'[q])
    BY <1>l, <1>t, <1>j, Leaving
  <1>1. ASSUME NEW p \in Proc, NEW i \in Seat, Begin(p, i) PROVE SeatInv'
    <2>1. \A q \in Proc : job'[q] # Idle => RightSeat(job'[q])
      BY <1>1, <1>u, <1>c, <1>j DEF Begin, OwnTokens, RightSeat
    <2> QED
      BY <1>1, <2>1, <1>s, <1>c, <1>n, <1>w DEF Begin, SeatInv, Separate
  <1>2. ASSUME NEW p \in Proc, ReadStore(p) PROVE SeatInv'
    <2>1. job[p] \in Job
      BY <1>2, <1>t, JobFacts DEF ReadStore, Stage
    <2>2. CASE Enter(p, "sent")
      BY <1>2, <2>1, <2>2, <1>e, <1>s, <1>c, <1>n, <1>w
         DEF ReadStore, SeatInv, Separate, OwnTokens, Stage
    <2>3. CASE job' = [job EXCEPT ![p].stage = "read", ![p].found = store]
      <3>1. job'[p] = [job[p] EXCEPT !.stage = "read", !.found = store]
        BY <2>3, <1>u
      <3>2. job'[p].cred = job[p].cred /\ job'[p].at = job[p].at
        BY <3>1, <2>1 DEF Job
      <3>3. \A q \in Proc \ {p} : job'[q] = job[q]
        BY <2>3, <1>u
      <3>4. job[p] # Idle
        BY <1>2, <1>t, JobFacts DEF ReadStore, Stage
      <3>5. \A q \in Proc : job'[q] # Idle => RightSeat(job'[q])
        BY <3>2, <3>3, <3>4, <1>j DEF RightSeat
      <3> QED
        BY <1>2, <3>5, <1>s, <1>c, <1>n, <1>w DEF ReadStore, SeatInv, Separate, OwnTokens
    <2> QED BY <1>2, <2>2, <2>3 DEF ReadStore
  <1>3. ASSUME NEW p \in Proc, Adopt(p) PROVE SeatInv'
    <2>1. job[p] \in Job /\ job[p] # Idle
      BY <1>3, <1>t, JobFacts DEF Adopt, Stage
    <2> DEFINE i == job[p].at
    <2>2. PICK stored \in Adoptable(job[p].found, job[p].cred) :
             /\ creds' = [creds EXCEPT ![p][i] = Copy(stored)]
             /\ \/ job' = [job EXCEPT ![p].stage = "sent",
                                      ![p].found = Unread,
                                      ![p].cred = Copy(stored)]
                \/ Leave(p)
      BY <1>3 DEF Adopt
    <2>0. stored \in Stored /\ SameSeat(job[p].cred, stored)
      BY <2>1, <2>2 DEF Adoptable, Job, Row, Unread
    <2>00. job[p].cred \in Held /\ i \in Seat
      BY <2>1 DEF Job
    <2>3. ToldApart(i) => Copy(stored).seat = i
      BY <2>0, <2>00, <2>1, <1>j, MatchesAreOwn DEF RightSeat, Copy
    <2>4. \A q \in Proc : OwnTokens(creds'[q])
      BY <2>2, <2>3, <1>c, <1>u DEF OwnTokens
    <2>5. CASE Leave(p)
      BY <1>3, <2>4, <2>5, <1>l, <1>s, <1>n, <1>w DEF Adopt, SeatInv, Separate
    <2>6. CASE job' = [job EXCEPT ![p].stage = "sent", ![p].found = Unread,
                                  ![p].cred = Copy(stored)]
      <3>1. job'[p] = [job[p] EXCEPT !.stage = "sent", !.found = Unread,
                                     !.cred = Copy(stored)]
        BY <2>6, <1>u
      <3>2. job'[p].cred = Copy(stored) /\ job'[p].at = i
        BY <3>1, <2>1 DEF Job
      <3>3. \A q \in Proc \ {p} : job'[q] = job[q]
        BY <2>6, <1>u
      <3>4. \A q \in Proc : job'[q] # Idle => RightSeat(job'[q])
        BY <3>2, <3>3, <2>3, <1>j DEF RightSeat
      <3> QED
        BY <1>3, <2>4, <3>4, <1>s, <1>n, <1>w DEF Adopt, SeatInv, Separate
    <2> QED BY <2>2, <2>5, <2>6
  <1>4. ASSUME NEW p \in Proc, Refresh(p) \/ Authority(p) PROVE SeatInv'
    <2>1. job[p] \in Job
      BY <1>4, <1>t, JobFacts DEF Refresh, Authority, Stage
    <2>2. PICK stage \in Stage : Enter(p, stage)
      BY <1>4 DEF Refresh, Authority, Stage
    <2>3. \A q \in Proc : job'[q] # Idle => RightSeat(job'[q])
      BY <2>1, <2>2, <1>e
    <2> QED
      BY <1>4, <2>3, <1>s, <1>c, <1>n, <1>w
         DEF Refresh, Authority, SeatInv, Separate
  <1>5. ASSUME NEW p \in Proc, Refreshed(p) PROVE SeatInv'
    <2>1. job[p] \in Job /\ job[p] # Idle
      BY <1>5, <1>t, JobFacts DEF Refreshed, Stage
    <2> DEFINE c == job[p].cred
               next == [seat |-> c.seat, gen |-> c.gen + 1]
               write == [proc |-> p, expected |-> PreRefresh(c),
                         replacement |-> next, row |-> Unread]
    <2>2. /\ creds' = [creds EXCEPT ![p][job[p].at] = Copy(next)]
          /\ writes' = writes \cup {write}
          /\ Enter(p, "persisting")
      BY <1>5 DEF Refreshed
    <2>3. ToldApart(job[p].at) => Copy(next).seat = job[p].at
      BY <2>1, <1>j DEF Copy, RightSeat
    <2>4. \A q \in Proc : OwnTokens(creds'[q])
      BY <2>2, <2>3, <1>c, <1>u DEF OwnTokens
    <2>5. /\ write.replacement.seat = write.expected.seat
          /\ write.row = Unread
      BY DEF PreRefresh, Bare
    <2>6. \A w \in writes' : /\ w.replacement.seat = w.expected.seat
                             /\ w.row # Unread => Separate(w.row)
      BY <2>2, <2>5, <1>w
    <2>7. \A q \in Proc : job'[q] # Idle => RightSeat(job'[q])
      BY <2>1, <2>2, <1>e DEF Stage
    <2> QED
      BY <1>5, <2>4, <2>6, <2>7, <1>s, <1>n DEF Refreshed, SeatInv, Separate
  <1>6. ASSUME NEW p \in Proc,
               Persisted(p) \/ RefreshRefused(p) \/ LoseAnswer(p) \/ Cancel(p)
        PROVE  SeatInv'
    <2>1. \A q \in Proc : job'[q] # Idle => RightSeat(job'[q])
      BY <1>6, <1>l DEF Persisted, RefreshRefused, LoseAnswer, Cancel
    <2> QED
      BY <1>6, <2>1, <1>s, <1>c, <1>n, <1>w
         DEF Persisted, RefreshRefused, LoseAnswer, Cancel, SeatInv, Separate
  <1>7. ASSUME NEW p \in Proc, Restart(p) PROVE SeatInv'
    <2>1. \A q \in Proc : job'[q] # Idle => RightSeat(job'[q])
      BY <1>7, <1>l DEF Restart
    <2>2. \A q \in Proc : OwnTokens(creds'[q])
      BY <1>7, <1>u, <1>c, <1>s DEF Restart, Separate, OwnTokens, Copies, Copy
    <2>3. \A q \in Proc : snapshot'[q] # Unread => Separate(snapshot'[q])
      BY <1>7, <1>u, <1>n DEF Restart
    <2>4. writes' \subseteq writes
      BY <1>7 DEF Restart
    <2> QED
      BY <1>7, <2>1, <2>2, <2>3, <2>4, <1>s, <1>w DEF Restart, SeatInv, Separate
  <1>8. ASSUME NEW w \in writes, CasRead(w) PROVE SeatInv'
    <2>1. [w EXCEPT !.row = store].row = store
      BY <1>u DEF Write
    <2>2. /\ [w EXCEPT !.row = store].replacement = w.replacement
          /\ [w EXCEPT !.row = store].expected = w.expected
      BY <1>u DEF Write
    <2>3. \A v \in writes' : /\ v.replacement.seat = v.expected.seat
                             /\ v.row # Unread => Separate(v.row)
      BY <1>8, <2>1, <2>2, <1>s, <1>w DEF CasRead
    <2> QED
      BY <1>8, <2>3, <1>s, <1>c, <1>n, <1>j DEF CasRead, local, SeatInv, Separate
  <1>9. ASSUME NEW w \in writes, CasWrite(w) PROVE SeatInv'
    <2>1. Separate(w.row) /\ w.expected.seat = w.replacement.seat
      BY <1>9, <1>w DEF CasWrite
    <2>2. Separate(store')
      BY <1>9, <2>1 DEF CasWrite, Replaced, CredEqual, Separate
    <2> QED
      BY <1>9, <2>2, <1>c, <1>n, <1>j, <1>w DEF CasWrite, local, SeatInv, Separate
  <1>10. ASSUME NEW w \in writes, CasFails(w) PROVE SeatInv'
    BY <1>10, <1>s, <1>c, <1>n, <1>j, <1>w DEF CasFails, local, SeatInv, Separate
  <1>11. ASSUME NEW p \in Proc, ReloadRead(p) PROVE SeatInv'
    <2>1. \A q \in Proc : snapshot'[q] # Unread => Separate(snapshot'[q])
      BY <1>11, <1>u, <1>n, <1>s DEF ReloadRead
    <2> QED
      BY <1>11, <2>1, <1>s, <1>c, <1>j, <1>w DEF ReloadRead, local, SeatInv, Separate
  <1>12. ASSUME NEW p \in Proc, ReloadApply(p) PROVE SeatInv'
    <2>1. Separate(snapshot[p])
      BY <1>12, <1>n DEF ReloadApply
    <2>2. \A q \in Proc : OwnTokens(creds'[q])
      BY <1>12, <2>1, <1>u, <1>c DEF ReloadApply, Separate, OwnTokens, Copies, Copy
    <2>3. \A q \in Proc : snapshot'[q] # Unread => Separate(snapshot'[q])
      BY <1>12, <1>u, <1>n DEF ReloadApply
    <2> QED
      BY <1>12, <2>2, <2>3, <1>s, <1>j, <1>w DEF ReloadApply, SeatInv, Separate
  <1>13. ASSUME NEW s \in Seat, Expire(s) PROVE SeatInv'
    BY <1>13, <1>s, <1>c, <1>n, <1>j, <1>w DEF Expire, local, SeatInv, Separate
  <1>14. ASSUME NEW p \in Proc, NEW i \in Seat, Revoke(p, i) \/ RetryAllowed(p, i)
         PROVE  SeatInv'
    <2>1. \A q \in Proc : OwnTokens(creds'[q])
      <3>1. CASE Revoke(p, i)
        <4>1. [creds[p][i] EXCEPT !.revoked = TRUE].seat = creds[p][i].seat
          <5>1. creds[p][i] \in Held
            BY <1>u
          <5> QED BY <5>1 DEF Held
        <4> QED BY <3>1, <4>1, <1>u, <1>c DEF Revoke, OwnTokens
      <3>2. CASE RetryAllowed(p, i)
        BY <3>2, <1>c DEF RetryAllowed
      <3> QED BY <1>14, <3>1, <3>2
    <2> QED
      BY <1>14, <2>1, <1>s, <1>n, <1>j, <1>w
         DEF Revoke, RetryAllowed, SeatInv, Separate
  <1>15. ASSUME UNCHANGED vars PROVE SeatInv'
    BY <1>15, <1>s, <1>c, <1>n, <1>j, <1>w DEF vars, local, SeatInv, Separate
  <1> QED
    BY <1>1, <1>2, <1>3, <1>4, <1>5, <1>6, <1>7, <1>8, <1>9, <1>10, <1>11,
       <1>12, <1>13, <1>14, <1>15 DEF Next, GetToken, Cas

\* However many processes adopt, refresh, persist and reload the seats of a
\* provider, and whatever claims their records carry: no seat's tokens are copied
\* over another's in the shared row, nor in a process over those of a seat that
\* its claims tell from every other one.
THEOREM SeatsAreNeverMixedUp == Spec => []SeatsStaySeparate
  <1>1. SeatInv => SeatsStaySeparate
    BY DEF SeatInv, Separate, OwnTokens, SeatsStaySeparate
  <1> QED
    BY <1>1, TypeInit, TypeStep, SeatInit, SeatStep, PTL DEF Spec

-----------------------------------------------------------------------------
(* The live refresh token is stored *)

\* A rotation that the authority has answered and nobody has heard of yet.
Answered ==
    {job[p].cred.seat : p \in {q \in Proc : job[q].stage = "answered"}}

\* Nobody holds a generation before its answer was received.
Known(c, issued, busy) ==
    /\ c.gen <= issued[c.seat]
    /\ c.seat \in busy => c.gen < issued[c.seat]

AllKnown(row, issued, busy) == \A i \in DOMAIN row : Known(row[i], issued, busy)

KnownInv ==
    /\ AllKnown(store, live, Answered)
    /\ \A p \in Proc, i \in Seat : Known(creds[p][i], live, Answered)
    /\ \A p \in Proc : job[p] # Idle => Known(job[p].cred, live, Answered)
    /\ \A p \in Proc : job[p] # Idle => AllKnown(job[p].found, live, Answered)
    /\ \A p \in Proc : AllKnown(snapshot[p], live, Answered)
    /\ \A w \in writes :
           /\ Known(w.replacement, live, Answered)
           /\ AllKnown(w.row, live, Answered)

\* An answered rotation is the latest one of its seat, and the only one.
AnswerInv ==
    /\ \A p \in Proc : job[p].stage = "answered" =>
           job[p].cred.gen + 1 = live[job[p].cred.seat]
    /\ \A p, q \in Proc :
           /\ job[p].stage = "answered" /\ job[q].stage = "answered"
           /\ job[p].cred.seat = job[q].cred.seat
           => p = q

\* A swap replaces a credential that its row has by the next generation.
WriteInv ==
    \A w \in writes :
        /\ w.replacement.gen = w.expected.gen + 1
        /\ w.row # Unread => \E i \in Seat : w.row[i] = w.expected

Rotating(s, g) ==
    \/ \E p \in Proc : /\ job[p].stage = "answered"
                       /\ job[p].cred.seat = s /\ job[p].cred.gen = g
    \/ \E w \in writes : w.expected.seat = s /\ w.expected.gen = g

\* From the stored generation to the live one, every rotation of a seat that
\* nothing has disturbed is on its way to the row.
ChainInv ==
    \A s \in Seat \ excused, g \in Nat :
        store[s].gen <= g /\ g < live[s] => Rotating(s, g)

LiveInv == TypeInv /\ SeatInv /\ KnownInv /\ AnswerInv /\ WriteInv /\ ChainInv

LEMMA LiveInit == Init => LiveInv
  <1> SUFFICES ASSUME Init PROVE LiveInv
    OBVIOUS
  <1>1. \A p \in Proc : job[p] = Idle /\ job[p].stage = "idle"
    BY DEF Init, Idle
  <1>2. \A c \in Stored \cup Held : c.gen = 0 => Known(c, live, Answered)
    BY <1>1 DEF Init, Known, Answered, Stored, Held
  <1>3. \A i \in Seat : First(i) \in Stored /\ First(i).gen = 0
    BY Copying DEF First
  <1>4. AllKnown(store, live, Answered)
    BY <1>2, <1>3 DEF Init, AllKnown
  <1>5. \A p \in Proc, i \in Seat : Known(creds[p][i], live, Answered)
    <2>1. \A i \in Seat : Copy(First(i)) \in Held /\ Copy(First(i)).gen = 0
      BY <1>3, Copying DEF Copy
    <2>2. \A p \in Proc, i \in Seat : creds[p][i] = Copy(First(i))
      BY DEF Init, Copies
    <2> QED BY <1>2, <2>1, <2>2
  <1>6. \A p \in Proc : AllKnown(snapshot[p], live, Answered)
    BY DEF Init, AllKnown, Unread
  <1>7. KnownInv
    BY <1>1, <1>4, <1>5, <1>6 DEF Init, KnownInv
  <1>8. AnswerInv /\ WriteInv
    BY <1>1 DEF Init, AnswerInv, WriteInv
  <1>9. ChainInv
    BY DEF Init, ChainInv, First
  <1> QED
    BY <1>7, <1>8, <1>9, TypeInit, SeatInit DEF LiveInv

\* Without a new answer, what was known is known, and answers stay the latest.
LEMMA Steady ==
    ASSUME UNCHANGED live,
           \A q \in Proc : job'[q].stage = "answered" => job'[q] = job[q],
           AnswerInv
    PROVE  /\ \A c : Known(c, live, Answered) => Known(c, live', Answered')
           /\ \A row : AllKnown(row, live, Answered) =>
                  AllKnown(row, live', Answered')
           /\ AnswerInv'
  <1>1. \A s : s \in Answered' => s \in Answered
    BY DEF Answered
  <1>2. \A c : Known(c, live, Answered) => Known(c, live', Answered')
    BY <1>1 DEF Known
  <1>3. \A row : AllKnown(row, live, Answered) => AllKnown(row, live', Answered')
    BY <1>2 DEF AllKnown
  <1>4. AnswerInv'
    BY DEF AnswerInv
  <1> QED BY <1>2, <1>3, <1>4

LEMMA KnownStep ==
    ASSUME TypeInv, KnownInv, AnswerInv, [Next]_vars
    PROVE  KnownInv' /\ AnswerInv'
  <1>t. TypeOK
    BY DEF TypeInv
  <1>u. /\ live \in [Seat -> Gen]
        /\ store \in Row
        /\ creds \in [Proc -> [Seat -> Held]]
        /\ job \in [Proc -> Job \cup {Idle}]
        /\ writes \subseteq Write
        /\ snapshot \in [Proc -> Row \cup {Unread}]
    BY <1>t DEF TypeOK
  <1>s. AllKnown(store, live, Answered)
    BY DEF KnownInv
  <1>c. \A p \in Proc, i \in Seat : Known(creds[p][i], live, Answered)
    BY DEF KnownInv
  <1>j. \A p \in Proc : job[p] # Idle => Known(job[p].cred, live, Answered)
    BY DEF KnownInv
  <1>f. \A p \in Proc : job[p] # Idle => AllKnown(job[p].found, live, Answered)
    BY DEF KnownInv
  <1>n. \A p \in Proc : AllKnown(snapshot[p], live, Answered)
    BY DEF KnownInv
  <1>w. \A w \in writes :
            /\ Known(w.replacement, live, Answered)
            /\ AllKnown(w.row, live, Answered)
    BY DEF KnownInv
  <1>z. AllKnown(Unread, live', Answered')
    BY DEF AllKnown, Unread
  <1>l. ASSUME NEW p \in Proc, Leave(p)
        PROVE  /\ \A q \in Proc \ {p} : job'[q] = job[q]
               /\ job'[p] = Idle /\ job'[p].stage # "answered"
    BY <1>l, <1>t, Leaving
  <1>1. ASSUME NEW p \in Proc, NEW i \in Seat, Begin(p, i)
        PROVE KnownInv' /\ AnswerInv'
    <2>1. /\ \A q \in Proc \ {p} : job'[q] = job[q]
          /\ job'[p].stage # "answered" /\ job'[p].cred = creds[p][i]
          /\ job'[p].found = Unread
      BY <1>1, <1>u DEF Begin
    <2>2. /\ \A c : Known(c, live, Answered) => Known(c, live', Answered')
          /\ \A row : AllKnown(row, live, Answered) => AllKnown(row, live', Answered')
          /\ AnswerInv'
      BY <1>1, <2>1, Steady DEF Begin
    <2> QED
      BY <1>1, <2>1, <2>2, <1>s, <1>c, <1>j, <1>f, <1>n, <1>w, <1>z
         DEF Begin, KnownInv
  <1>y. \A c : Known(c, live', Answered') => Known(Copy(c), live', Answered')
    BY DEF Known, Copy
  <1>2. ASSUME NEW p \in Proc, ReadStore(p) PROVE KnownInv' /\ AnswerInv'
    <2>1. job[p] \in Job /\ job[p] # Idle
      BY <1>2, <1>t, JobFacts DEF ReadStore, Stage
    <2>2. /\ \A q \in Proc \ {p} : job'[q] = job[q]
          /\ job'[p].stage # "answered" /\ job'[p].cred = job[p].cred
          /\ job'[p].found \in {Unread, store}
      <3>1. CASE Enter(p, "sent")
        BY <2>1, <3>1, <1>t, Entering DEF Stage
      <3>2. CASE job' = [job EXCEPT ![p].stage = "read", ![p].found = store]
        <4>1. job'[p] = [job[p] EXCEPT !.stage = "read", !.found = store]
          BY <3>2, <1>u
        <4>2. job'[p].cred = job[p].cred /\ job'[p].stage = "read"
              /\ job'[p].found = store
          BY <4>1, <2>1 DEF Job
        <4> QED BY <3>2, <4>2, <1>u
      <3> QED BY <1>2, <3>1, <3>2 DEF ReadStore
    <2>3. /\ \A c : Known(c, live, Answered) => Known(c, live', Answered')
          /\ \A row : AllKnown(row, live, Answered) => AllKnown(row, live', Answered')
          /\ AnswerInv'
      BY <1>2, <2>2, Steady DEF ReadStore
    <2>4. AllKnown(job'[p].found, live', Answered')
      BY <2>2, <2>3, <1>s, <1>z
    <2> QED
      BY <1>2, <2>1, <2>2, <2>3, <2>4, <1>s, <1>c, <1>j, <1>f, <1>n, <1>w
         DEF ReadStore, KnownInv
  <1>3. ASSUME NEW p \in Proc, Adopt(p) PROVE KnownInv' /\ AnswerInv'
    <2>1. job[p] \in Job /\ job[p] # Idle
      BY <1>3, <1>t, JobFacts DEF Adopt, Stage
    <2> DEFINE i == job[p].at
    <2>2. PICK stored \in Adoptable(job[p].found, job[p].cred) :
             /\ creds' = [creds EXCEPT ![p][i] = Copy(stored)]
             /\ \/ job' = [job EXCEPT ![p].stage = "sent",
                                      ![p].found = Unread,
                                      ![p].cred = Copy(stored)]
                \/ Leave(p)
      BY <1>3 DEF Adopt
    <2>3. Known(stored, live, Answered)
      BY <2>1, <1>f DEF Adoptable, AllKnown
    <2>4. /\ \A q \in Proc \ {p} : job'[q] = job[q]
          /\ job'[p].stage # "answered"
          /\ job'[p] # Idle => /\ job'[p].cred = Copy(stored)
                               /\ job'[p].found = Unread
      <3>1. CASE Leave(p)
        BY <3>1, <1>l
      <3>2. CASE job' = [job EXCEPT ![p].stage = "sent", ![p].found = Unread,
                                    ![p].cred = Copy(stored)]
        <4>1. job'[p] = [job[p] EXCEPT !.stage = "sent", !.found = Unread,
                                       !.cred = Copy(stored)]
          BY <3>2, <1>u
        <4>2. /\ job'[p].cred = Copy(stored) /\ job'[p].stage = "sent"
              /\ job'[p].found = Unread
          BY <4>1, <2>1 DEF Job
        <4> QED BY <3>2, <4>2, <1>u
      <3> QED BY <2>2, <3>1, <3>2
    <2>5. /\ \A c : Known(c, live, Answered) => Known(c, live', Answered')
          /\ \A row : AllKnown(row, live, Answered) => AllKnown(row, live', Answered')
          /\ AnswerInv'
      BY <1>3, <2>4, Steady DEF Adopt
    <2>6. Known(Copy(stored), live', Answered')
      BY <2>3, <2>5, <1>y
    <2>7. \A q \in Proc, j \in Seat :
             creds'[q][j] = creds[q][j] \/ creds'[q][j] = Copy(stored)
      BY <2>2, <1>u
    <2>8. \A q \in Proc, j \in Seat : Known(creds'[q][j], live', Answered')
      BY <2>5, <2>6, <2>7, <1>c
    <2>9. /\ \A q \in Proc : job'[q] # Idle => Known(job'[q].cred, live', Answered')
          /\ \A q \in Proc : job'[q] # Idle =>
                 AllKnown(job'[q].found, live', Answered')
      BY <2>4, <2>5, <2>6, <1>j, <1>f, <1>z
    <2> QED
      BY <1>3, <2>5, <2>8, <2>9, <1>s, <1>n, <1>w DEF Adopt, KnownInv
  <1>4. ASSUME NEW p \in Proc, NEW stage \in {"sent", "rejected"},
               job[p] # Idle, Enter(p, stage),
               UNCHANGED <<live, store, creds, writes, snapshot>>
        PROVE  KnownInv' /\ AnswerInv'
    <2>1. /\ \A q \in Proc \ {p} : job'[q] = job[q]
          /\ job'[p].stage # "answered" /\ job'[p].cred = job[p].cred
          /\ job'[p].found = Unread
      BY <1>4, <1>t, JobFacts, Entering DEF Stage
    <2>2. /\ \A c : Known(c, live, Answered) => Known(c, live', Answered')
          /\ \A row : AllKnown(row, live, Answered) => AllKnown(row, live', Answered')
          /\ AnswerInv'
      BY <1>4, <2>1, Steady
    <2> QED
      BY <1>4, <2>1, <2>2, <1>s, <1>c, <1>j, <1>f, <1>n, <1>w, <1>z DEF KnownInv
  <1>5. ASSUME NEW p \in Proc, Refresh(p) PROVE KnownInv' /\ AnswerInv'
    BY <1>5, <1>4, <1>t, JobFacts DEF Refresh, Stage
  <1>6. ASSUME NEW p \in Proc, Authority(p) PROVE KnownInv' /\ AnswerInv'
    <2>1. job[p] \in Job /\ job[p] # Idle
      BY <1>6, <1>t, JobFacts DEF Authority, Stage
    <2> DEFINE c == job[p].cred
               s == c.seat
    <2>2. CASE Enter(p, "rejected") /\ UNCHANGED live
      BY <1>6, <2>1, <2>2, <1>4 DEF Authority
    <2>3. CASE /\ c.gen = live[s]
               /\ live' = [live EXCEPT ![s] = @ + 1]
               /\ Enter(p, "answered")
      <3>1. /\ s \in Seat /\ c.gen \in Nat /\ \A r \in Seat : live[r] \in Nat
        BY <2>1, <1>u, GenFacts DEF Job, Held
      <3>2. s \notin Answered
        BY <2>1, <2>3, <3>1, <1>j DEF Known
      <3>3. /\ \A q \in Proc \ {p} : job'[q] = job[q]
            /\ job'[p].stage = "answered" /\ job'[p].cred = c
            /\ job'[p].found = Unread
        BY <2>1, <2>3, <1>t, Entering DEF Stage
      <3>4. /\ live'[s] = live[s] + 1
            /\ \A r \in Seat \ {s} : live'[r] = live[r]
        BY <2>3, <3>1, <1>u
      <3>5. \A r : r # s /\ r \in Answered' => r \in Answered
        BY <3>3 DEF Answered
      <3>6. \A d \in Stored \cup Held : d.seat \in Seat /\ d.gen \in Nat
        BY GenFacts DEF Stored, Held
      <3>7. ASSUME NEW d \in Stored \cup Held, Known(d, live, Answered)
            PROVE  Known(d, live', Answered')
        <4>1. CASE d.seat = s
          BY <3>1, <3>4, <3>6, <3>7, <4>1 DEF Known
        <4>2. CASE d.seat # s
          BY <3>4, <3>5, <3>6, <3>7, <4>2 DEF Known
        <4> QED BY <4>1, <4>2
      <3>8. ASSUME NEW row \in Row \cup {Unread}, AllKnown(row, live, Answered)
            PROVE  AllKnown(row, live', Answered')
        <4>1. \A i \in DOMAIN row : row[i] \in Stored
          BY DEF Row, Unread
        <4> QED BY <3>7, <3>8, <4>1 DEF AllKnown
      <3>9. /\ \A w \in writes : w.replacement \in Stored /\ w.row \in Row \cup {Unread}
            /\ \A q \in Proc : job[q] # Idle =>
                 job[q].cred \in Held /\ job[q].found \in Row \cup {Unread}
        BY <1>u, <1>t, JobFacts DEF Write, Job
      <3>10. AllKnown(store', live', Answered')
        BY <1>6, <3>8, <1>s, <1>u DEF Authority
      <3>11. \A q \in Proc, i \in Seat : Known(creds'[q][i], live', Answered')
        BY <1>6, <3>7, <1>c, <1>u DEF Authority
      <3>12. \A q \in Proc : job'[q] # Idle => Known(job'[q].cred, live', Answered')
        BY <2>1, <3>3, <3>7, <3>9, <1>j
      <3>13. \A q \in Proc : job'[q] # Idle =>
                 AllKnown(job'[q].found, live', Answered')
        BY <3>3, <3>8, <3>9, <1>f, <1>z
      <3>14. \A q \in Proc : AllKnown(snapshot'[q], live', Answered')
        BY <1>6, <3>8, <1>n, <1>u DEF Authority
      <3>15. \A w \in writes' :
                 /\ Known(w.replacement, live', Answered')
                 /\ AllKnown(w.row, live', Answered')
        BY <1>6, <3>7, <3>8, <3>9, <1>w DEF Authority
      <3>16. \A q \in Proc \ {p} : job[q].stage = "answered" =>
                 job[q].cred.seat # s /\ job[q].cred.seat \in Seat
        BY <3>2, <1>t, JobFacts DEF Answered, Stage, Job, Held
      <3>17. AnswerInv'
        <4>1. \A q \in Proc : job'[q].stage = "answered" =>
                 job'[q].cred.gen + 1 = live'[job'[q].cred.seat]
          BY <2>3, <3>3, <3>4, <3>16 DEF AnswerInv
        <4>2. \A q, r \in Proc :
                 /\ job'[q].stage = "answered" /\ job'[r].stage = "answered"
                 /\ job'[q].cred.seat = job'[r].cred.seat
                 => q = r
          BY <3>3, <3>16 DEF AnswerInv
        <4> QED BY <4>1, <4>2 DEF AnswerInv
      <3> QED
        BY <3>10, <3>11, <3>12, <3>13, <3>14, <3>15, <3>17 DEF KnownInv
    <2> QED BY <1>6, <2>2, <2>3 DEF Authority
  <1>7. ASSUME NEW p \in Proc, Refreshed(p) PROVE KnownInv' /\ AnswerInv'
    <2>1. job[p] \in Job /\ job[p] # Idle /\ job[p].stage = "answered"
      BY <1>7, <1>t, JobFacts DEF Refreshed, Stage
    <2> DEFINE c == job[p].cred
               next == [seat |-> c.seat, gen |-> c.gen + 1]
               write == [proc |-> p, expected |-> PreRefresh(c),
                         replacement |-> next, row |-> Unread]
    <2>2. /\ creds' = [creds EXCEPT ![p][job[p].at] = Copy(next)]
          /\ writes' = writes \cup {write}
          /\ Enter(p, "persisting")
      BY <1>7 DEF Refreshed
    <2>3. /\ \A q \in Proc \ {p} : job'[q] = job[q]
          /\ job'[p].stage # "answered" /\ job'[p].cred = c
          /\ job'[p].found = Unread
      BY <2>1, <2>2, <1>t, Entering DEF Stage
    <2>4. /\ \A d : Known(d, live, Answered) => Known(d, live', Answered')
          /\ \A row : AllKnown(row, live, Answered) => AllKnown(row, live', Answered')
          /\ AnswerInv'
      BY <1>7, <2>3, Steady DEF Refreshed
    <2>5. c.seat \notin Answered'
      BY <2>1, <2>3 DEF Answered, AnswerInv
    <2>6. c.gen + 1 = live[c.seat] /\ c.gen \in Nat
      BY <2>1, GenFacts DEF AnswerInv, Job, Held
    <2>7. Known(next, live', Answered')
      BY <1>7, <2>5, <2>6 DEF Known, Refreshed
    <2>8. \A q \in Proc, j \in Seat :
             creds'[q][j] = creds[q][j] \/ creds'[q][j] = Copy(next)
      BY <2>2, <1>u
    <2>9. \A q \in Proc, j \in Seat : Known(creds'[q][j], live', Answered')
      BY <2>4, <2>7, <2>8, <1>c, <1>y
    <2>10. \A w \in writes' :
               /\ Known(w.replacement, live', Answered')
               /\ AllKnown(w.row, live', Answered')
      <3>1. /\ Known(write.replacement, live', Answered')
            /\ AllKnown(write.row, live', Answered')
        BY <2>7, <1>z
      <3> QED BY <2>2, <2>4, <3>1, <1>w
    <2>11. /\ \A q \in Proc : job'[q] # Idle => Known(job'[q].cred, live', Answered')
           /\ \A q \in Proc : job'[q] # Idle =>
                  AllKnown(job'[q].found, live', Answered')
      BY <2>1, <2>3, <2>4, <1>j, <1>f, <1>z
    <2> QED
      BY <1>7, <2>4, <2>9, <2>10, <2>11, <1>s, <1>n DEF Refreshed, KnownInv
  <1>8. ASSUME NEW p \in Proc,
               Persisted(p) \/ RefreshRefused(p) \/ LoseAnswer(p) \/ Cancel(p)
        PROVE  KnownInv' /\ AnswerInv'
    <2>1. /\ \A q \in Proc \ {p} : job'[q] = job[q]
          /\ job'[p] = Idle /\ job'[p].stage # "answered"
      BY <1>8, <1>l DEF Persisted, RefreshRefused, LoseAnswer, Cancel
    <2>2. UNCHANGED <<live, store, creds, writes, snapshot>>
      BY <1>8 DEF Persisted, RefreshRefused, LoseAnswer, Cancel
    <2>3. /\ \A d : Known(d, live, Answered) => Known(d, live', Answered')
          /\ \A row : AllKnown(row, live, Answered) => AllKnown(row, live', Answered')
          /\ AnswerInv'
      BY <2>1, <2>2, Steady
    <2> QED
      BY <2>1, <2>2, <2>3, <1>s, <1>c, <1>j, <1>f, <1>n, <1>w DEF KnownInv
  <1>9. ASSUME NEW p \in Proc, Restart(p) PROVE KnownInv' /\ AnswerInv'
    <2>1. /\ \A q \in Proc \ {p} : job'[q] = job[q]
          /\ job'[p] = Idle /\ job'[p].stage # "answered"
      BY <1>9, <1>l DEF Restart
    <2>2. /\ \A d : Known(d, live, Answered) => Known(d, live', Answered')
          /\ \A row : AllKnown(row, live, Answered) => AllKnown(row, live', Answered')
          /\ AnswerInv'
      BY <1>9, <2>1, Steady DEF Restart
    <2>3. \A q \in Proc, i \in Seat : Known(creds'[q][i], live', Answered')
      <3>1. \A q \in Proc, i \in Seat :
               creds'[q][i] = creds[q][i] \/ creds'[q][i] = Copy(store[i])
        BY <1>9, <1>u DEF Restart, Copies
      <3>2. \A i \in Seat : Known(store[i], live, Answered)
        BY <1>s, <1>u DEF AllKnown, Row
      <3> QED BY <3>1, <3>2, <2>2, <1>c, <1>y
    <2>4. \A q \in Proc : AllKnown(snapshot'[q], live', Answered')
      BY <1>9, <2>2, <1>u, <1>n, <1>z DEF Restart
    <2>5. writes' \subseteq writes /\ store' = store
      BY <1>9 DEF Restart
    <2> QED
      BY <2>1, <2>2, <2>3, <2>4, <2>5, <1>s, <1>j, <1>f, <1>w DEF KnownInv
  <1>10. ASSUME UNCHANGED <<live, job>>
         PROVE  /\ \A d : Known(d, live, Answered) => Known(d, live', Answered')
                /\ \A row : AllKnown(row, live, Answered) =>
                       AllKnown(row, live', Answered')
                /\ AnswerInv'
    BY <1>10, Steady
  <1>11. ASSUME NEW w \in writes, CasRead(w) PROVE KnownInv' /\ AnswerInv'
    <2>1. /\ [w EXCEPT !.row = store].row = store
          /\ [w EXCEPT !.row = store].replacement = w.replacement
      BY <1>u DEF Write
    <2>2. UNCHANGED <<live, job, store, creds, snapshot>>
      BY <1>11 DEF CasRead, local
    <2>3. \A v \in writes' :
              /\ Known(v.replacement, live', Answered')
              /\ AllKnown(v.row, live', Answered')
      BY <1>11, <2>1, <2>2, <1>10, <1>s, <1>w DEF CasRead
    <2> QED
      BY <2>2, <2>3, <1>10, <1>s, <1>c, <1>j, <1>f, <1>n DEF KnownInv
  <1>12. ASSUME NEW w \in writes, CasWrite(w) PROVE KnownInv' /\ AnswerInv'
    <2>1. UNCHANGED <<live, job, creds, snapshot>> /\ writes' \subseteq writes
      BY <1>12 DEF CasWrite, local
    <2>2. w.row \in Row
      BY <1>12, <1>u DEF CasWrite, Write
    <2>3. \A i \in Seat : store'[i] = w.replacement \/ store'[i] = w.row[i]
      BY <1>12 DEF CasWrite, Replaced
    <2>4. \A i \in Seat :
              /\ Known(w.row[i], live, Answered)
              /\ Known(w.replacement, live, Answered)
      BY <2>2, <1>w DEF AllKnown, Row
    <2>5. DOMAIN store' = Seat
      BY <1>12 DEF CasWrite, Replaced
    <2>6. AllKnown(store', live', Answered')
      BY <2>1, <2>3, <2>4, <2>5, <1>10 DEF AllKnown
    <2> QED
      BY <2>1, <2>6, <1>10, <1>c, <1>j, <1>f, <1>n, <1>w DEF KnownInv
  <1>13. ASSUME UNCHANGED <<live, job, store>>, writes' \subseteq writes,
                \A q \in Proc, i \in Seat : Known(creds'[q][i], live', Answered'),
                \A q \in Proc : AllKnown(snapshot'[q], live', Answered')
         PROVE  KnownInv' /\ AnswerInv'
    BY <1>13, <1>10, <1>s, <1>j, <1>f, <1>w DEF KnownInv
  <1>14. ASSUME NEW w \in writes, CasFails(w) PROVE KnownInv' /\ AnswerInv'
    BY <1>14, <1>13, <1>10, <1>c, <1>n DEF CasFails, local
  <1>15. ASSUME NEW p \in Proc, ReloadRead(p) PROVE KnownInv' /\ AnswerInv'
    <2>1. UNCHANGED <<live, job, store, creds, writes>>
      BY <1>15 DEF ReloadRead, local
    <2>2. \A q \in Proc : AllKnown(snapshot'[q], live', Answered')
      BY <1>15, <2>1, <1>10, <1>u, <1>n, <1>s DEF ReloadRead
    <2> QED
      BY <2>1, <2>2, <1>13, <1>10, <1>c
  <1>16. ASSUME NEW p \in Proc, ReloadApply(p) PROVE KnownInv' /\ AnswerInv'
    <2>1. UNCHANGED <<live, job, store, writes>>
      BY <1>16 DEF ReloadApply
    <2>2. snapshot[p] \in Row
      BY <1>16, <1>u DEF ReloadApply
    <2>3. \A i \in Seat : Known(snapshot[p][i], live, Answered)
      BY <2>2, <1>n DEF AllKnown, Row
    <2>4. \A q \in Proc, i \in Seat :
             creds'[q][i] = creds[q][i] \/ creds'[q][i] = Copy(snapshot[p][i])
      BY <1>16, <1>u DEF ReloadApply, Copies
    <2>5. \A q \in Proc, i \in Seat : Known(creds'[q][i], live', Answered')
      BY <2>1, <2>3, <2>4, <1>10, <1>c, <1>y
    <2>6. \A q \in Proc : AllKnown(snapshot'[q], live', Answered')
      BY <1>16, <2>1, <1>10, <1>u, <1>n, <1>z DEF ReloadApply
    <2> QED BY <2>1, <2>5, <2>6, <1>13
  <1>17. ASSUME NEW s \in Seat, Expire(s) PROVE KnownInv' /\ AnswerInv'
    BY <1>17, <1>13, <1>10, <1>c, <1>n DEF Expire, local
  <1>18. ASSUME NEW p \in Proc, NEW i \in Seat, Revoke(p, i)
         PROVE  KnownInv' /\ AnswerInv'
    <2>1. UNCHANGED <<live, job, store, writes, snapshot>>
      BY <1>18 DEF Revoke
    <2>2. creds[p][i] \in Held
      BY <1>u
    <2> DEFINE revoked == [creds[p][i] EXCEPT !.revoked = TRUE]
    <2>3. revoked.seat = creds[p][i].seat /\ revoked.gen = creds[p][i].gen
      BY <2>2 DEF Held
    <2>4. Known(revoked, live, Answered)
      BY <2>3, <1>c DEF Known
    <2>5. \A q \in Proc, j \in Seat :
             creds'[q][j] = creds[q][j] \/ creds'[q][j] = revoked
      BY <1>18, <1>u DEF Revoke
    <2>6. \A q \in Proc, j \in Seat : Known(creds'[q][j], live', Answered')
      BY <2>1, <2>4, <2>5, <1>10, <1>c
    <2> QED BY <2>1, <2>6, <1>13, <1>10, <1>n
  <1>19. ASSUME NEW p \in Proc, NEW i \in Seat, RetryAllowed(p, i)
         PROVE  KnownInv' /\ AnswerInv'
    BY <1>19, <1>13, <1>10, <1>c, <1>n DEF RetryAllowed
  <1>20. ASSUME UNCHANGED vars PROVE KnownInv' /\ AnswerInv'
    BY <1>20, <1>13, <1>10, <1>c, <1>n DEF vars, local
  <1> QED
    BY <1>1, <1>2, <1>3, <1>5, <1>6, <1>7, <1>8, <1>9, <1>11, <1>12, <1>14,
       <1>15, <1>16, <1>17, <1>18, <1>19, <1>20 DEF Next, GetToken, Cas

LEMMA WriteStep ==
    ASSUME TypeInv, WriteInv, [Next]_vars
    PROVE  WriteInv'
  <1>u. /\ writes \subseteq Write
        /\ \A p \in Proc : job[p].stage = "answered" => job[p].cred.gen \in Nat
    BY JobFacts, GenFacts DEF TypeInv, TypeOK, Job, Held, Stage
  <1>w. \A w \in writes : /\ w.replacement.gen = w.expected.gen + 1
                          /\ w.row # Unread => \E i \in Seat : w.row[i] = w.expected
    BY DEF WriteInv
  <1>1. writes' \subseteq writes => WriteInv'
    BY <1>w DEF WriteInv
  <1>2. ASSUME NEW p \in Proc, Refreshed(p) PROVE WriteInv'
    <2> DEFINE c == job[p].cred
               write == [proc |-> p, expected |-> PreRefresh(c),
                         replacement |-> [seat |-> c.seat, gen |-> c.gen + 1],
                         row |-> Unread]
    <2>1. writes' = writes \cup {write}
      BY <1>2 DEF Refreshed
    <2>2. /\ write.replacement.gen = write.expected.gen + 1
          /\ write.row = Unread
      BY DEF PreRefresh, Bare
    <2> QED BY <2>1, <2>2, <1>w DEF WriteInv
  <1>3. ASSUME NEW w \in writes, CasRead(w) PROVE WriteInv'
    <2> DEFINE read == [w EXCEPT !.row = store]
    <2>1. /\ read.row = store /\ read.expected = w.expected
          /\ read.replacement = w.replacement
      BY <1>u DEF Write
    <2>2. CASE /\ \E i \in Seat : CredEqual(store[i], w.expected)
               /\ writes' = (writes \ {w}) \cup {read}
      BY <2>1, <2>2, <1>w DEF WriteInv, CredEqual
    <2>3. CASE writes' = writes \ {w}
      BY <2>3, <1>1
    <2> QED BY <1>3, <2>2, <2>3 DEF CasRead
  <1>4. ASSUME NEW w \in writes, CasWrite(w) \/ CasFails(w) PROVE WriteInv'
    BY <1>4, <1>1 DEF CasWrite, CasFails
  <1>5. ASSUME NEW p \in Proc, Restart(p) PROVE WriteInv'
    BY <1>5, <1>1 DEF Restart
  <1>6. ASSUME UNCHANGED writes PROVE WriteInv'
    BY <1>6, <1>1
  <1>7. ASSUME NEW p \in Proc,
               \/ ReadStore(p) \/ Adopt(p) \/ Refresh(p) \/ Authority(p)
               \/ Persisted(p) \/ RefreshRefused(p)
               \/ ReloadRead(p) \/ ReloadApply(p) \/ LoseAnswer(p) \/ Cancel(p)
               \/ \E i \in Seat : Begin(p, i) \/ Revoke(p, i) \/ RetryAllowed(p, i)
        PROVE  UNCHANGED writes
    BY <1>7 DEF ReadStore, Adopt, Refresh, Authority, Persisted, RefreshRefused,
                ReloadRead, ReloadApply, LoseAnswer, Cancel, Begin, Revoke,
                RetryAllowed
  <1>8. ASSUME NEW s \in Seat, Expire(s) PROVE UNCHANGED writes
    BY <1>8 DEF Expire
  <1>9. UNCHANGED vars => UNCHANGED writes
    BY DEF vars
  <1> QED
    BY <1>2, <1>3, <1>4, <1>5, <1>6, <1>7, <1>8, <1>9 DEF Next, GetToken, Cas

LEMMA ChainStep ==
    ASSUME LiveInv, [Next]_vars
    PROVE  ChainInv'
  <1>i. /\ TypeOK /\ SeatInv /\ KnownInv /\ AnswerInv /\ WriteInv /\ ChainInv
    BY DEF LiveInv, TypeInv
  <1>u. /\ live \in [Seat -> Gen]
        /\ store \in Row
        /\ job \in [Proc -> Job \cup {Idle}]
        /\ writes \subseteq Write
        /\ excused \subseteq Seat
    BY <1>i DEF TypeOK
  <1>n. \A i \in Seat : live[i] \in Nat /\ store[i].gen \in Nat /\ store[i].seat = i
    BY <1>u, <1>i, GenFacts DEF Row, Stored, SeatInv, Separate
  <1>m. \A w \in writes : /\ w.expected.seat \in Seat /\ w.expected.gen \in Nat
                          /\ w.expected \in Stored
    BY <1>u, GenFacts DEF Write, Stored
  <1>j. \A p \in Proc : job[p].stage = "answered" =>
           /\ job[p].cred \in Held
           /\ job[p].cred.seat \in Seat /\ job[p].cred.gen \in Nat
           /\ job[p].cred.gen + 1 = live[job[p].cred.seat]
    BY <1>i, JobFacts, GenFacts DEF Job, Held, Stage, AnswerInv
  <1>c. \A s \in Seat \ excused, g \in Nat :
           store[s].gen <= g /\ g < live[s] => Rotating(s, g)
    BY <1>i DEF ChainInv
  \* Nothing new is owed and no rotation of an undisturbed seat disappears.
  <1>a. ASSUME UNCHANGED <<live, store>>, excused \subseteq excused',
               \A s \in Seat \ excused', g \in Nat :
                   Rotating(s, g) => Rotating(s, g)'
        PROVE  ChainInv'
    BY <1>a, <1>c DEF ChainInv
  <1>b. ASSUME UNCHANGED <<live, store, writes, excused>>,
               \A q \in Proc : job[q].stage = "answered" => job'[q] = job[q]
        PROVE  ChainInv'
    <2>1. \A s \in Seat, g \in Nat : Rotating(s, g) => Rotating(s, g)'
      BY <1>b DEF Rotating
    <2> QED BY <1>a, <1>b, <2>1
  <1>1. ASSUME NEW p \in Proc,
               \/ ReadStore(p) \/ Adopt(p) \/ Refresh(p)
               \/ Persisted(p) \/ RefreshRefused(p)
               \/ \E i \in Seat : Begin(p, i)
        PROVE  ChainInv'
    <2>1. UNCHANGED <<live, store, writes, excused>>
      BY <1>1 DEF ReadStore, Adopt, Refresh, Persisted, RefreshRefused, Begin,
                  history
    <2>2. job[p].stage # "answered"
      BY <1>1 DEF ReadStore, Adopt, Refresh, Persisted, RefreshRefused, Begin,
                  Idle
    <2>3. \A q \in Proc \ {p} : job'[q] = job[q]
      BY <1>1, <1>u DEF ReadStore, Adopt, Refresh, Persisted, RefreshRefused,
                        Begin, Enter, Leave
    <2> QED BY <2>1, <2>2, <2>3, <1>b
  <1>2. ASSUME NEW p \in Proc,
               \/ ReloadRead(p) \/ ReloadApply(p)
               \/ \E i \in Seat : Revoke(p, i) \/ RetryAllowed(p, i)
        PROVE  ChainInv'
    BY <1>2, <1>b DEF ReloadRead, ReloadApply, Revoke, RetryAllowed, local, history
  <1>3. ASSUME NEW s \in Seat, Expire(s) PROVE ChainInv'
    BY <1>3, <1>b DEF Expire, local, history
  <1>4. ASSUME NEW p \in Proc, Authority(p) PROVE ChainInv'
    <2>1. job[p] \in Job /\ job[p].stage = "sent"
      BY <1>4, <1>i, JobFacts DEF Authority, Stage
    <2> DEFINE c == job[p].cred
    <2>2. ASSUME NEW stage \in Stage, Enter(p, stage)
          PROVE  /\ \A q \in Proc \ {p} : job'[q] = job[q]
                 /\ job'[p].stage = stage /\ job'[p].cred = c
      BY <2>1, <2>2, <1>i, Entering
    <2>3. UNCHANGED <<store, writes, excused>>
      BY <1>4 DEF Authority, history
    <2>4. CASE Enter(p, "rejected") /\ UNCHANGED live
      <3>1. \A q \in Proc \ {p} : job'[q] = job[q]
        BY <2>2, <2>4 DEF Stage
      <3> QED BY <2>1, <2>3, <2>4, <3>1, <1>b
    <2>5. CASE /\ c.gen = live[c.seat]
               /\ live' = [live EXCEPT ![c.seat] = @ + 1]
               /\ Enter(p, "answered")
      <3>1. c.seat \in Seat /\ c.gen \in Nat
        BY <2>1, GenFacts DEF Job, Held
      <3>2. /\ \A q \in Proc \ {p} : job'[q] = job[q]
            /\ job'[p].stage = "answered" /\ job'[p].cred = c
        BY <2>2, <2>5 DEF Stage
      <3>3. \A s \in Seat, g \in Nat : Rotating(s, g) => Rotating(s, g)'
        BY <2>1, <2>3, <3>2 DEF Rotating
      <3>4. ASSUME NEW s \in Seat, NEW g \in Nat, s = c.seat /\ g = c.gen
            PROVE  Rotating(s, g)'
        BY <3>2, <3>4 DEF Rotating
      <3>5. ASSUME NEW s \in Seat, NEW g \in Nat, g < live'[s]
            PROVE  \/ g < live[s]
                   \/ (s = c.seat /\ g = c.gen)
        <4>1. CASE s # c.seat
          BY <2>5, <3>1, <3>5, <4>1, <1>n
        <4>2. CASE s = c.seat
          BY <2>5, <3>1, <3>5, <4>2, <1>n
        <4> QED BY <4>1, <4>2
      <3>6. ASSUME NEW s \in Seat \ excused, NEW g \in Nat,
                   store[s].gen <= g, g < live'[s]
            PROVE  Rotating(s, g)'
        BY <3>3, <3>4, <3>5, <3>6, <1>c
      <3> QED BY <2>3, <3>6 DEF ChainInv
    <2> QED BY <1>4, <2>4, <2>5 DEF Authority
  <1>5. ASSUME NEW p \in Proc, Refreshed(p) PROVE ChainInv'
    <2>1. job[p] \in Job
      BY <1>5, <1>i, JobFacts DEF Refreshed, Stage
    <2> DEFINE c == job[p].cred
               write == [proc |-> p, expected |-> PreRefresh(c),
                         replacement |-> [seat |-> c.seat, gen |-> c.gen + 1],
                         row |-> Unread]
    <2>2. writes' = writes \cup {write}
      BY <1>5 DEF Refreshed
    <2>3. write.expected.seat = c.seat /\ write.expected.gen = c.gen
      BY DEF PreRefresh, Bare
    <2>4. \A q \in Proc \ {p} : job'[q] = job[q]
      BY <1>5, <2>1, <1>i, Entering DEF Refreshed, Stage
    <2>5. ASSUME NEW s \in Seat, NEW g \in Nat, Rotating(s, g)
          PROVE  Rotating(s, g)'
      BY <2>2, <2>3, <2>4, <2>5 DEF Rotating
    <2>6. UNCHANGED <<live, store, excused>>
      BY <1>5 DEF Refreshed, history
    <2> QED BY <2>5, <2>6, <1>a
  <1>6. ASSUME NEW p \in Proc, LoseAnswer(p) \/ Cancel(p) PROVE ChainInv'
    <2>1. /\ UNCHANGED <<live, store, writes>>
          /\ excused' = excused \cup Dropped(p)
      BY <1>6 DEF LoseAnswer, Cancel
    <2>2. \A q \in Proc \ {p} : job'[q] = job[q]
      BY <1>6, <1>i, Leaving DEF LoseAnswer, Cancel
    <2>3. ASSUME NEW s \in Seat \ excused', NEW g \in Nat, Rotating(s, g)
          PROVE  Rotating(s, g)'
      BY <2>1, <2>2, <2>3 DEF Rotating, Dropped
    <2> QED BY <2>1, <2>3, <1>a
  <1>7. ASSUME NEW p \in Proc, Restart(p) PROVE ChainInv'
    <2> DEFINE lost == {w \in writes : w.proc = p}
    <2>1. /\ UNCHANGED <<live, store>>
          /\ writes' = writes \ lost
          /\ excused' = excused \cup Dropped(p)
                                \cup {w.expected.seat : w \in lost}
      BY <1>7 DEF Restart
    <2>2. \A q \in Proc \ {p} : job'[q] = job[q]
      BY <1>7, <1>i, Leaving DEF Restart
    <2>3. ASSUME NEW s \in Seat \ excused', NEW g \in Nat, Rotating(s, g)
          PROVE  Rotating(s, g)'
      <3>1. \A w \in writes : w.expected.seat = s => w \in writes'
        BY <2>1, <2>3
      <3>2. job[p].stage = "answered" => job[p].cred.seat # s
        BY <2>1, <2>3 DEF Dropped
      <3> QED BY <2>2, <2>3, <3>1, <3>2 DEF Rotating
    <2> QED BY <2>1, <2>3, <1>a
  <1>8. ASSUME NEW w \in writes, CasRead(w) PROVE ChainInv'
    <2> DEFINE read == [w EXCEPT !.row = store]
    <2>1. UNCHANGED <<live, store, job>>
      BY <1>8 DEF CasRead, local
    <2>2. read.expected = w.expected
      BY <1>u DEF Write
    <2>3. CASE /\ writes' = (writes \ {w}) \cup {read}
               /\ UNCHANGED excused
      <3>1. \A s \in Seat, g \in Nat : Rotating(s, g) => Rotating(s, g)'
        BY <2>1, <2>2, <2>3 DEF Rotating
      <3> QED BY <2>1, <2>3, <3>1, <1>a
    <2>4. CASE /\ ~ \E i \in Seat : CredEqual(store[i], w.expected)
               /\ writes' = writes \ {w}
               /\ excused' = excused \cup
                     ({w.expected.seat} \cap {v.expected.seat : v \in writes'})
      <3>1. ASSUME NEW s \in Seat \ excused', NEW g \in Nat,
                   store[s].gen <= g, g < live[s]
            PROVE  Rotating(s, g)'
        <4>1. \A k \in Nat : store[s].gen <= k /\ k < live[s] => Rotating(s, k)
          BY <2>4, <3>1, <1>c
        <4>2. CASE s # w.expected.seat
          BY <2>1, <2>4, <3>1, <4>1, <4>2 DEF Rotating
        <4>3. CASE s = w.expected.seat
          <5>1. \A v \in writes : v.expected.seat = s => v = w
            BY <2>4, <3>1, <4>3
          \* The stored generation is not the one that w expects.
          <5>2. store[s].gen # w.expected.gen
            BY <2>4, <4>3, <1>n, <1>m, <1>u DEF CredEqual, Row, Stored
          <5>3. Rotating(s, store[s].gen)
            BY <3>1, <4>1, <1>n
          <5>4. PICK p \in Proc : /\ job[p].stage = "answered"
                                  /\ job[p].cred.seat = s
                                  /\ job[p].cred.gen = store[s].gen
            BY <5>1, <5>2, <5>3 DEF Rotating
          <5>5. g = store[s].gen
            BY <3>1, <5>4, <1>j, <1>n
          <5> QED BY <2>1, <5>4, <5>5 DEF Rotating
        <4> QED BY <4>2, <4>3
      <3> QED BY <2>1, <3>1 DEF ChainInv
    <2> QED BY <1>8, <2>3, <2>4 DEF CasRead
  <1>9. ASSUME NEW w \in writes, CasWrite(w) PROVE ChainInv'
    <2>1. /\ UNCHANGED <<live, job>> /\ writes' = writes \ {w}
          /\ store' = Replaced(w.row, w.expected, w.replacement)
          /\ excused' = excused \cup
                {store[i].seat : i \in {i \in Seat : store[i] # w.row[i]}}
      BY <1>9 DEF CasWrite, local
    <2>2. w.row # Unread /\ w.row \in Row /\ Separate(w.row)
      BY <1>9, <1>u, <1>i DEF CasWrite, Write, SeatInv
    <2>3. w.row[w.expected.seat] = w.expected
      BY <2>2, <1>i DEF WriteInv, Separate
    <2>4. ASSUME NEW s \in Seat \ excused', NEW g \in Nat,
                 store'[s].gen <= g, g < live'[s]
          PROVE  Rotating(s, g)'
      <3>1. store[s] = w.row[s] /\ s \notin excused
        BY <2>1, <2>4, <1>n
      <3>2. CASE s # w.expected.seat
        <4>1. store'[s] = store[s]
          BY <2>1, <2>2, <3>1, <3>2 DEF Replaced, CredEqual, Separate
        <4>2. Rotating(s, g)
          BY <2>1, <2>4, <3>1, <4>1, <1>c
        <4> QED BY <2>1, <3>2, <4>2 DEF Rotating
      <3>3. CASE s = w.expected.seat
        <4>1. store'[s].gen = w.expected.gen + 1
          BY <2>1, <2>3, <3>3, <1>i DEF Replaced, CredEqual, WriteInv
        <4>2. store[s].gen = w.expected.gen
          BY <2>3, <3>1, <3>3
        <4>3. g # w.expected.gen /\ store[s].gen <= g
          BY <2>4, <4>1, <4>2, <1>m
        <4>4. Rotating(s, g)
          BY <2>1, <2>4, <3>1, <4>3, <1>c
        <4> QED BY <2>1, <4>3, <4>4 DEF Rotating
      <3> QED BY <3>2, <3>3
    <2> QED BY <2>4 DEF ChainInv
  <1>10. ASSUME NEW w \in writes, CasFails(w) PROVE ChainInv'
    <2>1. /\ UNCHANGED <<live, store, job>> /\ writes' = writes \ {w}
          /\ excused' = excused \cup {w.expected.seat}
      BY <1>10 DEF CasFails, local
    <2>2. \A s \in Seat \ excused', g \in Nat : Rotating(s, g) => Rotating(s, g)'
      BY <2>1 DEF Rotating
    <2> QED BY <2>1, <2>2, <1>a
  <1>11. ASSUME UNCHANGED vars PROVE ChainInv'
    BY <1>11, <1>b DEF vars, local, history
  <1> QED
    BY <1>1, <1>2, <1>3, <1>4, <1>5, <1>6, <1>7, <1>8, <1>9, <1>10, <1>11
       DEF Next, GetToken, Cas

\* Whatever the number of processes, seats and generations: a single-use
\* refresh token that was rotated is in the shared row or on its way there,
\* unless a fault or an overlapping write lost it.
THEOREM LiveTokenIsNeverDropped == Spec => []LiveTokenIsStored
  <1>1. LiveInv /\ [Next]_vars => LiveInv'
    BY TypeStep, SeatStep, KnownStep, WriteStep, ChainStep DEF LiveInv
  <1>2. LiveInv => LiveTokenIsStored
    <2> SUFFICES ASSUME LiveInv, NEW s \in Seat \ excused, store[s].gen # live[s]
                 PROVE  Underway(s)
      BY DEF LiveTokenIsStored
    <2>1. store \in Row /\ live \in [Seat -> Gen]
      BY DEF LiveInv, TypeInv, TypeOK
    <2>2. store[s].gen \in Nat /\ live[s] \in Nat /\ store[s].seat = s
      BY <2>1, GenFacts DEF Row, Stored, LiveInv, SeatInv, Separate
    <2>3. store[s].gen <= live[s]
      BY <2>1, <2>2 DEF LiveInv, KnownInv, AllKnown, Known, Row
    <2>4. Rotating(s, store[s].gen)
      BY <2>2, <2>3 DEF LiveInv, ChainInv
    <2> QED BY <2>4 DEF Rotating, Underway
  <1> QED
    BY <1>1, <1>2, LiveInit, PTL DEF Spec

=============================================================================
