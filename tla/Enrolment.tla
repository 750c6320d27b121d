------------------------------ MODULE Enrolment ------------------------------
(***************************************************************************)
(* The enrolment of OAuth seats: the commands of cli.py over               *)
(* copilot_enroll.py, the device flow of codex_oauth.py, the tool that     *)
(* writes to the config store (tools/enroll_codex_credential.py), and the  *)
(* rotators of the gateway, which save what they refreshed to the store    *)
(* and to auth.json (passthrough.py, _persist).  All of them are processes *)
(* that read the file or the row and later replace it.                     *)
(*                                                                         *)
(* A credential is the login it is of and the number of its tokens.        *)
(***************************************************************************)
EXTENDS Integers, FiniteSets

CONSTANTS
    Writer,      \* the processes
    NoWriter,
    Login,       \* the logins
    ProviderOf,  \* the provider of each
    Enrolled,    \* the logins that have a seat already
    MaxPolls,    \* CODEX_DEVICE_MAX_POLLS, and the polls in the Copilot deadline
    MaxGen       \* bound on the rotations of a seat

Codex == "openai-codex"

ASSUME EnrolmentAssumption ==
    /\ NoWriter \notin Writer /\ Enrolled \subseteq Login
    /\ MaxPolls \in Nat \ {0} /\ MaxGen \in Nat \ {0}

VARIABLES
    authFile,  \* the credentials in auth.json
    store,     \* the row of openai-codex in the config store
    mem,       \* the credentials that the gateway has in memory
    live,      \* the tokens of each login that work
    lock,      \* who has the lock of the file
    job,       \* what each process does: [kind, login]
    stage,     \* where it is
    polls,     \* its polls
    seen,      \* what it read
    wanted     \* what it writes: its credential, a provider's or all of them

enrolVars == <<authFile, store, mem, live, lock, job, stage, polls, seen, wanted>>

Of(provider, entries) == {e \in entries : ProviderOf[e.login] = provider}
OthersOf(provider, entries) == entries \ Of(provider, entries)
SameLogin(l, entries) == {e \in entries : e.login = l}

Kind(w) == job[w].kind
Goes(w, place) == stage' = [stage EXCEPT ![w] = place]
Sees(w, entries) == seen' = [seen EXCEPT ![w] = entries]
Wants(w, entries) == wanted' = [wanted EXCEPT ![w] = entries]

-----------------------------------------------------------------------------
(* Where each command begins                                               *)

\* codex-login and enroll start with the device flow; the tool reads the row
\* before it.
StartFlow(w) ==
    /\ stage[w] = "starts" /\ Kind(w) \in {"login", "enroll", "tool"} /\ Goes(w, "asks")
    /\ IF Kind(w) = "tool" THEN Sees(w, store) ELSE UNCHANGED seen
    /\ UNCHANGED <<authFile, store, mem, live, lock, job, polls, wanted>>

\* remove and import read the file without its lock, and replace all of it.
ReadWhole(w) ==
    /\ stage[w] = "starts" /\ Kind(w) \in {"remove", "import"}
    /\ Sees(w, authFile)
    /\ IF Kind(w) = "remove"
       THEN \/ /\ SameLogin(job[w].login, authFile) = {}
               /\ Goes(w, "done") /\ UNCHANGED wanted
            \/ \E e \in SameLogin(job[w].login, authFile) :
                  Wants(w, authFile \ {e}) /\ Goes(w, "waits")
       ELSE LET imported == [login |-> job[w].login, gen |-> live[job[w].login]] IN
            /\ Wants(w, authFile \cup {imported})
            /\ Goes(w, "waits")
    /\ UNCHANGED <<authFile, store, mem, live, lock, job, polls>>

\* The authority of Codex takes a refresh token once; the GitHub token that buys
\* Copilot's lasts.
Accepted(e) == ProviderOf[e.login] = Codex => e.gen = live[e.login]

\* _refresh_one
Refresh(w) ==
    /\ stage[w] = "starts" /\ Kind(w) = "rotate"
    /\ \/ \E e \in SameLogin(job[w].login, mem) :
             LET fresh == [e EXCEPT !.gen = live[e.login] + 1] IN
             /\ Accepted(e) /\ live[e.login] < MaxGen
             /\ live' = [live EXCEPT ![e.login] = @ + 1]
             /\ mem' = (mem \ {e}) \cup {fresh}
             /\ Sees(w, {e}) /\ Wants(w, {fresh}) /\ Goes(w, "stores")
       \/ Goes(w, "failed") /\ UNCHANGED <<live, mem, seen, wanted>>
    /\ UNCHANGED <<authFile, store, lock, job, polls>>

-----------------------------------------------------------------------------
(* The device flow                                                         *)

\* Refused, not reached, or an answer without a code.
AskCode(w) ==
    /\ stage[w] = "asks"
    /\ \/ Goes(w, "polls") \/ Goes(w, "failed")
    /\ UNCHANGED <<authFile, store, mem, live, lock, job, polls, seen, wanted>>

\* "slow_down" makes Copilot go on; the flow of Codex goes on only if the status
\* is one of its two for pending, too.
GoesOn(w, answer) == answer = "pending" \/ (answer = "slow_down" /\ Kind(w) = "enroll")

Poll(w, answer) ==
    /\ stage[w] = "polls"
    /\ polls' = [polls EXCEPT ![w] = @ + 1]
    /\ Goes(w, CASE GoesOn(w, answer) /\ polls'[w] < MaxPolls -> "polls"
                 [] answer = "code" -> "exchanges"
                 [] OTHER -> "failed")
    /\ UNCHANGED <<authFile, store, mem, live, lock, job, seen, wanted>>

\* The credential of the login that was authorized.
Issued(w) == [login |-> job[w].login, gen |-> live[job[w].login] + 1]

\* An exchange that fails ends the flow of Codex, whose code is used up; Copilot's
\* keeps the raw token instead.  Either way the seat is new.
Exchange(w) ==
    /\ stage[w] = "exchanges"
    /\ \/ /\ live[job[w].login] < MaxGen
          /\ live' = [live EXCEPT ![job[w].login] = @ + 1] /\ Wants(w, {Issued(w)})
          /\ Goes(w, IF Kind(w) = "tool" THEN "stores" ELSE "waits")
       \/ Kind(w) # "enroll" /\ Goes(w, "failed") /\ UNCHANGED <<live, wanted>>
    /\ UNCHANGED <<authFile, store, mem, lock, job, polls, seen>>

-----------------------------------------------------------------------------
(* The row of the store                                                    *)

\* What the new credential replaces: the entries of its login (collapse_duplicates, or
\* select_slot by its address), one that the operator named, or none; a second entry
\* of a login needs --allow-duplicate-account.
Slots(w) ==
    {SameLogin(job[w].login, seen[w]), {}} \cup {{e} : e \in seen[w]}

\* write_credentials replaces the list that was read before the device flow.  Refused,
\* a dry run or a storage error: nothing is written.  The file is optional.
EnrolInStore(w) ==
    /\ stage[w] = "stores" /\ Kind(w) = "tool"
    /\ \/ \E slot \in Slots(w) :
             /\ store' = (seen[w] \ slot) \cup wanted[w]
             /\ Wants(w, store') /\ \E place \in {"waits", "done"} : Goes(w, place)
       \/ Goes(w, "failed") /\ UNCHANGED <<store, wanted>>
    /\ UNCHANGED <<authFile, mem, live, lock, job, polls, seen>>

\* _persist: a credential that is no longer in the row, or an error, leaves the row
\* alone; the file, if there is one, is written all the same.
RotateInStore(w) ==
    /\ stage[w] = "stores" /\ Kind(w) = "rotate"
    /\ \E place \in {"waits", "done"} : Goes(w, place)
    /\ \/ /\ seen[w] \subseteq store
          /\ store' = (store \ seen[w]) \cup wanted[w]
       \/ UNCHANGED store
    /\ UNCHANGED <<authFile, mem, live, lock, job, polls, seen, wanted>>

\* A new generation of the store is installed.
Reload ==
    /\ mem' = OthersOf(Codex, mem) \cup store
    /\ UNCHANGED <<authFile, store, live, lock, job, stage, polls, seen, wanted>>

-----------------------------------------------------------------------------
(* The file                                                                *)

\* Fault: the lock is not waited for.
LockIgnored(w) == stage[w] = "waits"

LockFree(w) == stage[w] = "waits" /\ lock = NoWriter

\* _auth_file_lock; the document is read under it.
Acquire(w) ==
    /\ LockFree(w) /\ lock' = w /\ Sees(w, authFile) /\ Goes(w, "writes")
    /\ UNCHANGED <<authFile, store, mem, live, job, polls, wanted>>

\* The new document: with one credential more, with the pool of one provider
\* replaced, or all anew.
Document(w) ==
    CASE Kind(w) \in {"login", "enroll"} -> seen[w] \cup wanted[w]
      [] Kind(w) = "tool" -> OthersOf(Codex, seen[w]) \cup wanted[w]
      [] Kind(w) = "rotate" ->
            LET provider == ProviderOf[job[w].login] IN
            OthersOf(provider, seen[w]) \cup Of(provider, mem)
      [] OTHER -> wanted[w]

\* _write_hermes_doc replaces the file at once; a write that fails leaves it.
Replace(w) ==
    /\ stage[w] = "writes" /\ lock' = NoWriter
    /\ \/ authFile' = Document(w) /\ Goes(w, "done")
       \/ UNCHANGED authFile /\ Goes(w, "failed")
    /\ UNCHANGED <<store, mem, live, job, polls, seen, wanted>>

\* A process dies anywhere, and its lock goes with it.
Dies(w) ==
    /\ stage[w] \notin {"done", "failed"} /\ Goes(w, "failed")
    /\ lock' = IF lock = w THEN NoWriter ELSE lock
    /\ UNCHANGED <<authFile, store, mem, live, job, polls, seen, wanted>>

-----------------------------------------------------------------------------
EnrolInit ==
    /\ live = [l \in Login |-> 0]
    /\ authFile = [login : Enrolled, gen : {0}] /\ mem = authFile
    /\ store = Of(Codex, authFile)
    /\ lock = NoWriter
    /\ job \in [Writer -> [kind : {"login", "enroll", "tool", "rotate", "remove", "import"},
                           login : Login]]
    /\ \A w \in Writer :
          /\ Kind(w) \in {"login", "enroll", "tool"} => ProviderOf[job[w].login] = Codex
          /\ Kind(w) \in {"rotate", "remove"} => job[w].login \in Enrolled
          /\ Kind(w) = "import" => job[w].login \notin Enrolled
    /\ stage = [w \in Writer |-> "starts"] /\ polls = [w \in Writer |-> 0]
    /\ seen = [w \in Writer |-> {}] /\ wanted = [w \in Writer |-> {}]

EnrolNext ==
    \/ \E w \in Writer :
          \/ StartFlow(w) \/ ReadWhole(w) \/ Refresh(w) \/ AskCode(w) \/ Exchange(w)
          \/ EnrolInStore(w) \/ RotateInStore(w) \/ Acquire(w) \/ Replace(w) \/ Dies(w)
          \/ \E answer \in {"pending", "slow_down", "error", "code"} : Poll(w, answer)
    \/ Reload

EnrolSpec == EnrolInit /\ [][EnrolNext]_enrolVars

-----------------------------------------------------------------------------
Entry == [login : Login, gen : 0 .. MaxGen]
EnrolTypeOK ==
    /\ {authFile, store, mem} \subseteq SUBSET Entry /\ live \in [Login -> 0 .. MaxGen]
    /\ lock \in Writer \cup {NoWriter}
    /\ stage \in [Writer -> {"starts", "asks", "polls", "exchanges", "stores", "waits",
                          "writes", "done", "failed"}]
    /\ polls \in [Writer -> 0 .. MaxPolls]
    /\ seen \in [Writer -> SUBSET Entry] /\ wanted \in [Writer -> SUBSET Entry]

\* "Serialize auth-file read/modify/write transactions across workers"
\* (copilot_enroll.py:46): what a process saves, after whatever others saved and
\* lost meanwhile, is one more credential, or another pool of its provider, and
\* nothing else of the file is lost, brought back or changed; but for remove and
\* import, see NewSeatsLast.
SavesAreExact ==
    [][\A w \in Writer : stage[w] = "writes" /\ stage'[w] = "done" =>
          CASE Kind(w) \in {"login", "enroll"} -> authFile' = authFile \cup wanted[w]
            [] Kind(w) \in {"tool", "rotate"} ->
                  LET provider == ProviderOf[job[w].login] IN
                  OthersOf(provider, authFile') = OthersOf(provider, authFile)
            [] OTHER -> TRUE]_enrolVars

\* "Append one credential while preserving every existing auth pool"
\* (copilot_enroll.py:292): a seat that was added is in the file until it is
\* removed.
NewSeatsLast ==
    \A w \in Writer : Kind(w) \in {"login", "enroll"} /\ stage[w] = "done" =>
        \/ SameLogin(job[w].login, authFile) # {}
        \/ \E u \in Writer : Kind(u) = "remove" /\ job[u].login = job[w].login

\* The tool enrols its seat and no other one: the row keeps what the gateway has
\* rotated while the operator logged in.
EnrolmentKeepsTheRest ==
    [][\A w \in Writer :
          stage[w] = "stores" /\ stage'[w] # "stores" /\ Kind(w) = "tool" =>
          \A e \in store \ store' : e \in seen[w]]_enrolVars
=============================================================================
