---------------------------- MODULE TokenRotation ----------------------------
(***************************************************************************)
(* The OAuth seats of one provider, shared by several gateway processes:   *)
(* CodexTokenRotator (tusker_gateway/passthrough.py), which keeps a copy   *)
(* of the credentials in each process and refreshes them, the row of       *)
(* tusker_config_oauth_credentials that the processes share                *)
(* (tusker_gateway/config_store.py), and the reload of the copies when the *)
(* configuration changes (tusker_gateway/config_runtime.py).               *)
(*                                                                         *)
(* The authority rotates refresh tokens: each works once and yields the    *)
(* next one.  A credential is therefore its seat and its generation; its   *)
(* refresh token is live while no later generation was issued, and later   *)
(* generations expire later.  Which seat a request is offered, cooldowns   *)
(* after a 429, the refresh margin before an expiry, and when the          *)
(* configuration is read again are any choice.                             *)
(*                                                                         *)
(* Whose a record is, the code can only tell by the claims in it: user,    *)
(* e-mail, label, and last the account, which a team shares.  Here a       *)
(* record carries the claims of the seat whose tokens it holds.  (The      *)
(* label and e-mail that an adoption keeps from the local copy are its own *)
(* already, unless it adopted another seat's tokens.)                      *)
(***************************************************************************)
EXTENDS Integers

CONSTANTS
    Proc,    \* gateway processes
    Seat,    \* seats of the provider, also the positions in its lists
    Fields,  \* how many claims are compared, the most specific one first
    Claim,   \* what each seat's records say in each of them
    NoClaim, \* a claim that a record does not carry
    MaxGen,  \* bound of each seat: generations issued to it after the first
    MaxFaults \* bound: lost answers, cancellations, crashes, storage errors

ASSUME SeatAssumption == Seat # {} /\ Seat \subseteq Nat
ASSUME ClaimAssumption == Fields \in Nat /\ DOMAIN Claim = Seat
ASSUME BoundAssumption == MaxGen \in [Seat -> Nat] /\ MaxFaults \in Nat

VARIABLES
    live,     \* the generation whose refresh token the authority accepts
    dead,     \* generations below it have expired
    store,    \* the shared row: one credential per position
    creds,    \* _creds of each process
    failed,   \* positions in _refresh_failed_until that are still waiting
    job,      \* where the holder of the rotator's lock is in get_token
    writes,   \* compare-and-swaps that worker threads are running
    snapshot, \* the row a reload of the configuration has read
    faults,   \* history: faults so far
    excused   \* history: seats whose rotation a fault or an overlap lost

local == <<creds, failed, job>>
history == <<faults, excused>>
vars == <<live, dead, store, local, writes, snapshot, history>>

Gen == UNION {0..MaxGen[s] : s \in Seat}

\* A stored credential, and one in memory: revoked once upstream answered 401
\* and invalidate_access_token set its expires_at_ms to 1.
Stored == [seat : Seat, gen : Gen]
Held == [seat : Seat, gen : Gen, revoked : BOOLEAN]
Row == [Seat -> Stored]

First(i) == [seat |-> i, gen |-> 0]
Copy(c) == [seat |-> c.seat, gen |-> c.gen, revoked |-> FALSE]
Copies(row) == [i \in Seat |-> Copy(row[i])]
Bare(c) == [seat |-> c.seat, gen |-> c.gen]

\* Nothing was read.
Unread == [i \in {} |-> First(i)]

\* The work on position at with cred, its local copy; found is the row that
\* _maybe_adopt_from_store has read.
Stage == {"reading", "read", "sent", "answered", "rejected", "persisting"}
Job == [stage : Stage, at : Seat, cred : Held, found : Row \cup {Unread}]
Idle == [stage |-> "idle"]

\* A thread of _cas_persist_credentials; row is Unread until it has read.
Write == [proc : Proc, expected : Stored, replacement : Stored,
          row : Row \cup {Unread}]

-----------------------------------------------------------------------------
(* Helpers *)

\* _is_expired.
Expired(c) == c.revoked \/ c.gen < dead[c.seat]

\* The claims that the records of a seat carry.
Carried == [s \in Seat |-> {f \in 1..Fields : Claim[s][f] # NoClaim}]

\* Fault: the account, which a team shares, is looked at first.
AccountFirst(a, b) ==
    LET both == Carried[a.seat] \cap Carried[b.seat]
    IN \/ both = {} /\ Bare(a) = Bare(b)
       \/ \E f \in both : /\ \A g \in both : g <= f
                          /\ Claim[a.seat][f] = Claim[b.seat][f]

\* _matches_identity: the most specific claim that both records carry decides,
\* and without one the refresh token.
SameSeat(a, b) ==
    LET both == Carried[a.seat] \cap Carried[b.seat]
    IN \/ both = {} /\ Bare(a) = Bare(b)
       \/ \E f \in both : /\ \A g \in both : f <= g
                          /\ Claim[a.seat][f] = Claim[b.seat][f]

\* Fault: a credential that was rotated past the local one is not adopted.
NotBehind(stored, c) == c.gen > stored.gen \/ c.revoked

\* The comparison of expires_at_ms.  A revoked credential expires at 1, so
\* everything that is stored looks newer.
ExpiresLater(stored, c) == stored.gen > c.gen \/ c.revoked

\* The first stored record that matches decides.  How long another seat's token
\* lasts is open.
Adoptable(row, c) ==
    {row[i] : i \in
        {i \in DOMAIN row :
            /\ SameSeat(c, row[i])
            /\ \A j \in DOMAIN row : j < i => ~SameSeat(c, row[j])
            /\ row[i] # Bare(c)
            /\ row[i].seat = c.seat => ExpiresLater(row[i], c)}}

\* Nothing that is stored surely expires later.
NothingNewer(row, c) ==
    \A stored \in Adoptable(row, c) : stored.seat # c.seat /\ ~c.revoked

\* Fault: the copy is taken after _refresh_one has changed the credential.
AfterRefresh(c) == [seat |-> c.seat, gen |-> c.gen + 1]

\* pre_refresh, the copy from before the refresh, which changes it in place.
PreRefresh(c) == Bare(c)

\* _cred_equal.
CredEqual(c, expected) == c = expected

\* The list that _cas_persist_credentials writes back.
Replaced(row, expected, replacement) ==
    [i \in Seat |-> IF CredEqual(row[i], expected) THEN replacement ELSE row[i]]

\* One more fault.
Fault == faults < MaxFaults /\ faults' = faults + 1

\* The lock is released, or the work goes on.
Leave(p) == job' = [job EXCEPT ![p] = Idle]
Enter(p, stage) == job' = [job EXCEPT ![p].stage = stage,
                                      ![p].found = Unread]

-----------------------------------------------------------------------------

Init ==
    /\ live = [s \in Seat |-> 0]
    /\ dead = [s \in Seat |-> 0]
    /\ store = [i \in Seat |-> First(i)]
    /\ creds = [p \in Proc |-> Copies(store)]
    /\ failed = [p \in Proc |-> {}]
    /\ job = [p \in Proc |-> Idle]
    /\ writes = {}
    /\ snapshot = [p \in Proc |-> Unread]
    /\ faults = 0
    /\ excused = {}

(***************************************************************************)
(* get_token of a seat whose access token has expired or is about to       *)
(***************************************************************************)

\* The lock is taken and the read of the store handed to a thread.  (Bound:
\* the last generation of a seat never comes near its expiry.)
Begin(p, i) ==
    /\ job[p] = Idle
    /\ i \notin failed[p]
    /\ creds[p][i].gen < MaxGen[creds[p][i].seat]
    /\ job' = [job EXCEPT ![p] = [stage |-> "reading", at |-> i,
                                  cred |-> creds[p][i], found |-> Unread]]
    /\ UNCHANGED <<live, dead, store, creds, failed, writes, snapshot, history>>

\* load_oauth_credentials; a failed read finds nothing to adopt.
ReadStore(p) ==
    /\ job[p].stage = "reading"
    /\ \/ /\ job' = [job EXCEPT ![p].stage = "read", ![p].found = store]
          /\ UNCHANGED faults
       \/ Enter(p, "sent") /\ Fault
    /\ UNCHANGED <<live, dead, store, creds, failed, writes, snapshot, excused>>

\* The coroutine resumes: it adopts the stored credential, and uses it unless
\* it has expired too, or it refreshes the one it holds.
Adopt(p) ==
    /\ job[p].stage = "read"
    /\ LET i == job[p].at
       IN \E stored \in Adoptable(job[p].found, job[p].cred) :
             /\ creds' = [creds EXCEPT ![p][i] = Copy(stored)]
             /\ \/ /\ Expired(Copy(stored))
                   /\ job' = [job EXCEPT ![p].stage = "sent",
                                         ![p].found = Unread,
                                         ![p].cred = Copy(stored)]
                   /\ UNCHANGED failed
                \/ /\ ~Expired(Copy(stored))
                   /\ failed' = [failed EXCEPT ![p] = @ \ {i}]
                   /\ Leave(p)
    /\ UNCHANGED <<live, dead, store, writes, snapshot, history>>

Refresh(p) ==
    /\ job[p].stage = "read"
    /\ NothingNewer(job[p].found, job[p].cred)
    /\ Enter(p, "sent")
    /\ UNCHANGED <<live, dead, store, creds, failed, writes, snapshot, history>>

\* The authority: a live refresh token is used up, any other is rejected
\* (refresh_token_reused).
Authority(p) ==
    /\ job[p].stage = "sent"
    /\ LET c == job[p].cred
       IN \/ /\ c.gen = live[c.seat]
             /\ live' = [live EXCEPT ![c.seat] = @ + 1]
             /\ Enter(p, "answered")
          \/ /\ c.gen # live[c.seat]
             /\ Enter(p, "rejected")
             /\ UNCHANGED live
    /\ UNCHANGED <<dead, store, creds, failed, writes, snapshot, history>>

\* The refreshed credential replaces whatever is at the position by now, and
\* a thread starts to persist it.
Refreshed(p) ==
    /\ job[p].stage = "answered"
    /\ LET c == job[p].cred
           next == [seat |-> c.seat, gen |-> c.gen + 1]
       IN /\ creds' = [creds EXCEPT ![p][job[p].at] = Copy(next)]
          /\ writes' = writes \cup
                {[proc |-> p, expected |-> PreRefresh(c), replacement |-> next,
                  row |-> Unread]}
          /\ failed' = [failed EXCEPT ![p] = @ \ {job[p].at}]
    /\ Enter(p, "persisting")
    /\ UNCHANGED <<live, dead, store, snapshot, history>>

\* _persist has its outcome.
Persisted(p) ==
    /\ job[p].stage = "persisting"
    /\ \A w \in writes : w.proc = p => w.expected # PreRefresh(job[p].cred)
    /\ Leave(p)
    /\ UNCHANGED <<live, dead, store, creds, failed, writes, snapshot, history>>

\* A refused refresh puts the position aside, for 24 hours.
RefreshRefused(p) ==
    /\ job[p].stage = "rejected"
    /\ failed' = [failed EXCEPT ![p] = @ \cup {job[p].at}]
    /\ Leave(p)
    /\ UNCHANGED <<live, dead, store, creds, writes, snapshot, history>>

-----------------------------------------------------------------------------
(***************************************************************************)
(* The compare-and-swap, in a worker thread.  The row is selected without  *)
(* a lock; the UPDATE that follows names only the provider.                *)
(***************************************************************************)

\* Without the expected credential in the row nothing is written.
CasRead(w) ==
    /\ w.row = Unread
    /\ \/ /\ \E i \in Seat : CredEqual(store[i], w.expected)
          /\ writes' = (writes \ {w}) \cup {[w EXCEPT !.row = store]}
          /\ UNCHANGED excused
       \/ /\ ~ \E i \in Seat : CredEqual(store[i], w.expected)
          /\ writes' = writes \ {w}
          /\ excused' = excused \cup
                ({w.expected.seat} \cap {v.expected.seat : v \in writes'})
    /\ UNCHANGED <<live, dead, store, local, snapshot, faults>>

CasWrite(w) ==
    /\ w.row # Unread
    /\ store' = Replaced(w.row, w.expected, w.replacement)
    /\ writes' = writes \ {w}
    /\ excused' = excused \cup
          {store[i].seat : i \in {i \in Seat : store[i] # w.row[i]}}
    /\ UNCHANGED <<live, dead, local, snapshot, faults>>

CasFails(w) ==
    /\ Fault
    /\ writes' = writes \ {w}
    /\ excused' = excused \cup {w.expected.seat}
    /\ UNCHANGED <<live, dead, store, local, snapshot>>

(***************************************************************************)
(* The reload of the configuration, at any time: whatever part of it was   *)
(* written, all tables are read and all rotators compared.                 *)
(***************************************************************************)

\* A thread reads the tables.
ReloadRead(p) ==
    /\ snapshot[p] = Unread
    /\ snapshot' = [snapshot EXCEPT ![p] = store]
    /\ UNCHANGED <<live, dead, store, local, writes, history>>

\* _rebuild_rotators: a pool that differs is replaced, without the lock.
ReloadApply(p) ==
    /\ snapshot[p] # Unread
    /\ snapshot' = [snapshot EXCEPT ![p] = Unread]
    /\ creds' = [creds EXCEPT ![p] = Copies(snapshot[p])]
    /\ failed' = [failed EXCEPT ![p] = IF creds'[p] = creds[p] THEN @ ELSE {}]
    /\ UNCHANGED <<live, dead, store, job, writes, history>>

-----------------------------------------------------------------------------
(***************************************************************************)
(* Time, the upstream and faults                                           *)
(***************************************************************************)

\* The oldest generation of a seat that has not expired expires.
Expire(s) ==
    /\ dead[s] < MaxGen[s]
    /\ dead[s] <= live[s]
    /\ dead' = [dead EXCEPT ![s] = @ + 1]
    /\ UNCHANGED <<live, store, local, writes, snapshot, history>>

\* Upstream answers 401 to an access token: invalidate_access_token.
Revoke(p, i) ==
    /\ job[p] = Idle
    /\ ~Expired(creds[p][i])
    /\ creds[p][i].gen < MaxGen[creds[p][i].seat]
    /\ creds' = [creds EXCEPT ![p][i].revoked = TRUE]
    /\ failed' = [failed EXCEPT ![p] = @ \ {i}]
    /\ UNCHANGED <<live, dead, store, job, writes, snapshot, history>>

RetryAllowed(p, i) ==
    /\ i \in failed[p]
    /\ failed' = [failed EXCEPT ![p] = @ \ {i}]
    /\ UNCHANGED <<live, dead, store, creds, job, writes, snapshot, history>>

\* The seat whose rotated token an interrupted get_token drops.
Dropped(p) == IF job[p].stage = "answered" THEN {job[p].cred.seat} ELSE {}

\* The token endpoint times out, before or after it rotated the token.
LoseAnswer(p) ==
    /\ Fault
    /\ job[p].stage \in {"sent", "answered"}
    /\ failed' = [failed EXCEPT ![p] = @ \cup {job[p].at}]
    /\ excused' = excused \cup Dropped(p)
    /\ Leave(p)
    /\ UNCHANGED <<live, dead, store, creds, writes, snapshot>>

\* The request is cancelled inside get_token; a write goes on in its thread.
Cancel(p) ==
    /\ Fault
    /\ job[p] # Idle
    /\ excused' = excused \cup Dropped(p)
    /\ Leave(p)
    /\ UNCHANGED <<live, dead, store, creds, failed, writes, snapshot>>

\* A process dies and starts again from the shared row.
Restart(p) ==
    /\ Fault
    /\ creds' = [creds EXCEPT ![p] = Copies(store)]
    /\ failed' = [failed EXCEPT ![p] = {}]
    /\ Leave(p)
    /\ LET lost == {w \in writes : w.proc = p}
       IN /\ writes' = writes \ lost
          /\ excused' = excused \cup Dropped(p)
                                \cup {w.expected.seat : w \in lost}
    /\ snapshot' = [snapshot EXCEPT ![p] = Unread]
    /\ UNCHANGED <<live, dead, store>>

-----------------------------------------------------------------------------

GetToken(p) ==
    \/ ReadStore(p) \/ Adopt(p) \/ Refresh(p) \/ Authority(p)
    \/ Refreshed(p) \/ Persisted(p) \/ RefreshRefused(p)

Cas == \E w \in writes : CasRead(w) \/ CasWrite(w)

Next ==
    \/ \E p \in Proc : \/ GetToken(p) \/ ReloadRead(p) \/ ReloadApply(p)
                       \/ LoseAnswer(p) \/ Cancel(p) \/ Restart(p)
                       \/ \E i \in Seat : \/ Begin(p, i) \/ Revoke(p, i)
                                          \/ RetryAllowed(p, i)
    \/ Cas \/ \E w \in writes : CasFails(w)
    \/ \E s \in Seat : Expire(s)

Spec == Init /\ [][Next]_vars

\* get_token's calls return (the token endpoint has a timeout of 10 s) and
\* threads run; traffic goes on, and round robin comes back to a position
\* whose token has expired once its failure cooldown is over.
Fairness ==
    /\ \A p \in Proc :
          /\ WF_vars(GetToken(p))
          /\ WF_vars(ReloadApply(p))
          /\ \A i \in Seat : SF_vars(Expired(creds[p][i]) /\ Begin(p, i))
          /\ WF_vars(\E i \in Seat : RetryAllowed(p, i))
    /\ WF_vars(Cas)

FairSpec == Spec /\ Fairness

-----------------------------------------------------------------------------
(* Properties *)

\* Type invariant: the row keeps all its positions, and nobody holds a
\* generation that was not issued.
TypeOK ==
    /\ live \in [Seat -> Gen] /\ dead \in [Seat -> Gen]
    /\ store \in Row
    /\ creds \in [Proc -> [Seat -> Held]]
    /\ failed \in [Proc -> SUBSET Seat]
    /\ job \in [Proc -> Job \cup {Idle}]
    /\ writes \subseteq Write
    /\ snapshot \in [Proc -> Row \cup {Unread}]
    /\ faults \in 0..MaxFaults
    /\ excused \subseteq Seat

\* No record of another seat is ever taken for one of this seat.
ToldApart(s) ==
    \A t \in Seat \ {s}, f \in Carried[s] :
        /\ f \in Carried[t]
        /\ \A g \in Carried[s] \cap Carried[t] : f <= g
        => Claim[s][f] # Claim[t][f]

\* No seat's tokens are copied over another's in the shared row, nor in any
\* process over those of a seat whose claims tell it from every other: the
\* incident in the comment of _matches_identity, where adoption left a pool with
\* three copies of one seat.  (Seats of a team without comparable claims are
\* still taken for one.)
SeatsStaySeparate ==
    \A i \in Seat : /\ store[i].seat = i
                    /\ ToldApart(i) => \A p \in Proc : creds[p][i].seat = i

Underway(s) ==
    \/ \E p \in Proc : job[p].stage = "answered" /\ job[p].cred.seat = s
    \/ \E w \in writes : w.expected.seat = s

\* The live refresh token of a seat is in the shared row, where a restart or
\* another process finds it, unless its rotation is underway or was lost to a
\* fault or to an overlapping write: single-use tokens are never dropped by
\* races of refresh, adoption, reload and cancellation alone.
LiveTokenIsStored ==
    \A s \in Seat \ excused : Underway(s) \/ store[s].gen = live[s]

\* A process whose access token of a seat has expired, also because another
\* process won the race to refresh it, gets a usable one again, if the claims of
\* the seat let it find its own record.
SeatRecovers ==
    \A p \in Proc, i \in Seat :
        ToldApart(i) /\ Expired(creds[p][i])
            ~> ~Expired(creds[p][i]) \/ i \in excused

\* A rotation that was committed is never undone: the stores are "safe for
\* rolling multi-pod writes" (docs/zero-downtime-deploys.md:55) and the swap
\* "leaves siblings intact" (tests/test_config_store.py:125).
RotationsAreKept == [][\A i \in Seat : store'[i].gen >= store[i].gen]_vars

=============================================================================
