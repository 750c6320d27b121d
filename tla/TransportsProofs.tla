-------------------------- MODULE TransportsProofs --------------------------
(***************************************************************************)
(* What the command line transports and the enrolment of seats guarantee   *)
(* for any requests, processes, logins and lines of output: the file of    *)
(* credentials that several processes rewrite, the turn of one CLI, and    *)
(* the warm server that requests share.                                    *)
(*                                                                         *)
(* The parts share no state; each has its own specification.               *)
(***************************************************************************)
EXTENDS CliTurn, WarmBroker, Enrolment, TLAPS

(***************************************************************************)
(* Enrolment: what a process saves is exact because what it read under the *)
(* lock is still the file when it writes, and because the pools that the   *)
(* tool and the rotators write are of one provider.                        *)
(***************************************************************************)

JobKind == {"login", "enroll", "tool", "rotate", "remove", "import"}
Stage == {"starts", "asks", "polls", "exchanges", "stores", "waits", "writes",
          "done", "failed"}

\* Every entry is of the provider.
Only(provider, entries) == \A e \in entries : ProviderOf[e.login] = provider

\* The tool enrols seats of Codex.
JobsAreGiven ==
    /\ job \in [Writer -> [kind : JobKind, login : Login]]
    /\ \A w \in Writer : Kind(w) = "tool" => ProviderOf[job[w].login] = Codex

PollsAreLeft ==
    \A w \in Writer : /\ stage[w] \in {"starts", "asks"} => polls[w] = 0
                      /\ stage[w] = "polls" => polls[w] < MaxPolls

\* Only the tool and the rotators get to the row.
StoresAreTheirs ==
    \A w \in Writer : stage[w] = "stores" => Kind(w) \in {"tool", "rotate"}

\* The row has seats of Codex, and so has all that the tool makes of it.
RowIsOfCodex ==
    /\ Only(Codex, store)
    /\ \A w \in Writer : Kind(w) = "tool" =>
          /\ Only(Codex, wanted[w])
          /\ stage[w] \in {"starts", "asks", "polls", "exchanges", "stores"} =>
                Only(Codex, seen[w])

\* A rotator replaces one credential by another one of its login.
RotatesOne ==
    \A w \in Writer : Kind(w) = "rotate" /\ stage[w] = "stores" =>
        /\ seen[w] # {}
        /\ \A e \in seen[w] \cup wanted[w] : e.login = job[w].login

\* The process that writes has the lock, and nobody has written since it read.
WritersAreAlone ==
    \A w \in Writer : stage[w] = "writes" => lock = w /\ seen[w] = authFile

EnrolInv ==
    /\ EnrolTypeOK /\ JobsAreGiven /\ PollsAreLeft /\ StoresAreTheirs
    /\ RowIsOfCodex /\ RotatesOne /\ WritersAreAlone

LEMMA EnrolStart == EnrolInit => EnrolInv
  <1> SUFFICES ASSUME EnrolInit PROVE EnrolInv
    OBVIOUS
  <1> USE EnrolmentAssumption DEF EnrolmentAssumption
  <1>1. {authFile, store, mem} \subseteq SUBSET Entry
    BY DEF EnrolInit, Entry, Of
  <1>2. EnrolTypeOK
    <2>1. live \in [Login -> 0 .. MaxGen] /\ polls \in [Writer -> 0 .. MaxPolls]
      BY DEF EnrolInit
    <2>2. stage \in [Writer -> Stage] /\ lock \in Writer \cup {NoWriter}
      BY DEF EnrolInit, Stage
    <2>3. seen \in [Writer -> SUBSET Entry] /\ wanted \in [Writer -> SUBSET Entry]
      BY DEF EnrolInit
    <2> QED BY <1>1, <2>1, <2>2, <2>3 DEF EnrolTypeOK, Stage
  <1>3. JobsAreGiven
    BY DEF EnrolInit, JobsAreGiven, JobKind, Kind
  <1>4. PollsAreLeft /\ StoresAreTheirs /\ RotatesOne /\ WritersAreAlone
    BY DEF EnrolInit, PollsAreLeft, StoresAreTheirs, RotatesOne, WritersAreAlone
  <1>5. Only(Codex, store)
    <2>1. store = Of(Codex, authFile)
      BY DEF EnrolInit
    <2> QED BY <2>1, Zenon DEF Only, Of
  <1>6. \A w \in Writer : seen[w] = {} /\ wanted[w] = {}
    BY DEF EnrolInit
  <1>7. RowIsOfCodex
    BY <1>5, <1>6 DEF RowIsOfCodex, Only
  <1> QED BY <1>2, <1>3, <1>4, <1>7 DEF EnrolInv

\* The stages of the others are what they were.
LEMMA OthersStay ==
    ASSUME EnrolInv, NEW w \in Writer, NEW place, Goes(w, place)
    PROVE  /\ stage'[w] = place
           /\ \A u \in Writer \ {w} : stage'[u] = stage[u]
  BY DEF EnrolInv, EnrolTypeOK, Goes

\* Steps of a command before it reads the row or the file, and those of the
\* device flow.
LEMMA FlowKeepsInv ==
    ASSUME EnrolInv, NEW w \in Writer,
           \/ StartFlow(w) \/ AskCode(w)
           \/ \E said \in {"pending", "slow_down", "error", "code"} : Poll(w, said)
    PROVE  EnrolInv'
  <1> USE EnrolmentAssumption DEF EnrolmentAssumption
  <1>1. CASE StartFlow(w)
    <2>1. /\ seen' \in [Writer -> SUBSET Entry]
          /\ stage' = [stage EXCEPT ![w] = "asks"]
          /\ UNCHANGED <<authFile, store, mem, live, lock, job, polls, wanted>>
          /\ \A u \in Writer \ {w} : seen'[u] = seen[u]
          /\ Kind(w) = "tool" => seen'[w] = store
          /\ stage[w] = "starts"
      BY <1>1 DEF StartFlow, Goes, Sees, EnrolInv, EnrolTypeOK
    <2>2. EnrolTypeOK'
      BY <2>1 DEF EnrolInv, EnrolTypeOK
    <2>3. JobsAreGiven' /\ PollsAreLeft' /\ StoresAreTheirs'
      BY <2>1 DEF EnrolInv, EnrolTypeOK, JobsAreGiven, PollsAreLeft, StoresAreTheirs, Kind
    <2>4. RowIsOfCodex' /\ RotatesOne' /\ WritersAreAlone'
      BY <2>1 DEF EnrolInv, EnrolTypeOK, RowIsOfCodex, RotatesOne, WritersAreAlone, Kind, Only
    <2> QED BY <2>2, <2>3, <2>4 DEF EnrolInv
  <1>2. CASE AskCode(w)
    <2>1. PICK place \in {"polls", "failed"} :
              /\ stage' = [stage EXCEPT ![w] = place]
              /\ stage[w] = "asks"
              /\ UNCHANGED <<authFile, store, mem, live, lock, job, polls, seen, wanted>>
      BY <1>2 DEF AskCode, Goes
    <2>2. EnrolTypeOK'
      BY <2>1 DEF EnrolInv, EnrolTypeOK
    <2>3. JobsAreGiven' /\ PollsAreLeft' /\ StoresAreTheirs'
      BY <2>1 DEF EnrolInv, EnrolTypeOK, JobsAreGiven, PollsAreLeft, StoresAreTheirs, Kind
    <2>4. RowIsOfCodex' /\ RotatesOne' /\ WritersAreAlone'
      BY <2>1 DEF EnrolInv, EnrolTypeOK, RowIsOfCodex, RotatesOne, WritersAreAlone, Kind, Only
    <2> QED BY <2>2, <2>3, <2>4 DEF EnrolInv
  <1>3. ASSUME NEW said, Poll(w, said) PROVE EnrolInv'
    <2> DEFINE next == CASE GoesOn(w, said) /\ polls'[w] < MaxPolls -> "polls"
                         [] said = "code" -> "exchanges"
                         [] OTHER -> "failed"
    <2>0. /\ next \in {"polls", "exchanges", "failed"}
          /\ next = "polls" => polls'[w] < MaxPolls
      OBVIOUS
    <2>1. PICK place \in {"polls", "exchanges", "failed"} :
              /\ stage' = [stage EXCEPT ![w] = place]
              /\ stage[w] = "polls"
              /\ polls' = [polls EXCEPT ![w] = @ + 1]
              /\ place = "polls" => polls'[w] < MaxPolls
              /\ UNCHANGED <<authFile, store, mem, live, lock, job, seen, wanted>>
      BY <1>3, <2>0 DEF Poll, Goes
    <2>2. polls[w] < MaxPolls /\ polls[w] \in Nat
      BY <2>1 DEF EnrolInv, EnrolTypeOK, PollsAreLeft
    <2>3. polls' \in [Writer -> 0 .. MaxPolls]
      BY <2>1, <2>2 DEF EnrolInv, EnrolTypeOK
    <2>4. EnrolTypeOK'
      BY <2>1, <2>3 DEF EnrolInv, EnrolTypeOK
    <2>5. JobsAreGiven' /\ PollsAreLeft' /\ StoresAreTheirs'
      BY <2>1, <2>2 DEF EnrolInv, EnrolTypeOK, JobsAreGiven, PollsAreLeft, StoresAreTheirs, Kind
    <2>6. RowIsOfCodex' /\ RotatesOne' /\ WritersAreAlone'
      BY <2>1 DEF EnrolInv, EnrolTypeOK, RowIsOfCodex, RotatesOne, WritersAreAlone, Kind, Only
    <2> QED BY <2>4, <2>5, <2>6 DEF EnrolInv
  <1> QED BY <1>1, <1>2, <1>3

\* remove and import read the file and make another one of it.
LEMMA ReadWholeKeepsInv ==
    ASSUME EnrolInv, NEW w \in Writer, ReadWhole(w)
    PROVE  EnrolInv'
  <1>1. [login |-> job[w].login, gen |-> live[job[w].login]] \in Entry
    BY DEF EnrolInv, EnrolTypeOK, JobsAreGiven, Entry
  <1>2. PICK place \in {"done", "waits"}, want \in SUBSET Entry :
            /\ stage' = [stage EXCEPT ![w] = place]
            /\ wanted' = [wanted EXCEPT ![w] = want]
            /\ seen' = [seen EXCEPT ![w] = authFile]
    <2>1. CASE Kind(w) = "remove"
      BY <2>1 DEF ReadWhole, Goes, Wants, Sees, EnrolInv, EnrolTypeOK
    <2>2. CASE Kind(w) # "remove"
      BY <2>2, <1>1 DEF ReadWhole, Goes, Wants, Sees, EnrolInv, EnrolTypeOK
    <2> QED BY <2>1, <2>2
  <1>3. /\ stage[w] = "starts" /\ Kind(w) \notin {"tool", "rotate"}
        /\ UNCHANGED <<authFile, store, mem, live, lock, job, polls>>
    BY DEF ReadWhole
  <1>4. EnrolTypeOK'
    BY <1>2, <1>3 DEF EnrolInv, EnrolTypeOK
  <1>5. JobsAreGiven' /\ PollsAreLeft' /\ StoresAreTheirs'
    BY <1>2, <1>3 DEF EnrolInv, EnrolTypeOK, JobsAreGiven, PollsAreLeft, StoresAreTheirs, Kind
  <1>6. RowIsOfCodex' /\ RotatesOne' /\ WritersAreAlone'
    BY <1>2, <1>3 DEF EnrolInv, EnrolTypeOK, RowIsOfCodex, RotatesOne, WritersAreAlone, Kind, Only
  <1> QED BY <1>4, <1>5, <1>6 DEF EnrolInv

LEMMA RefreshKeepsInv ==
    ASSUME EnrolInv, NEW w \in Writer, Refresh(w)
    PROVE  EnrolInv'
  <1> USE EnrolmentAssumption DEF EnrolmentAssumption
  <1>1. CASE /\ Goes(w, "failed")
             /\ UNCHANGED <<live, mem, seen, wanted, authFile, store, lock, job, polls>>
    <2>1. EnrolTypeOK' /\ PollsAreLeft' /\ StoresAreTheirs'
      BY <1>1 DEF Goes, EnrolInv, EnrolTypeOK, PollsAreLeft, StoresAreTheirs, Kind
    <2>2. JobsAreGiven' /\ RowIsOfCodex' /\ RotatesOne' /\ WritersAreAlone'
      BY <1>1 DEF Goes, EnrolInv, EnrolTypeOK, JobsAreGiven, RowIsOfCodex, RotatesOne,
                  WritersAreAlone, Kind, Only
    <2> QED BY <2>1, <2>2 DEF EnrolInv
  <1>2. ASSUME NEW e \in SameLogin(job[w].login, mem), live[e.login] < MaxGen,
               live' = [live EXCEPT ![e.login] = @ + 1],
               mem' = (mem \ {e}) \cup {[e EXCEPT !.gen = live[e.login] + 1]},
               Sees(w, {e}), Wants(w, {[e EXCEPT !.gen = live[e.login] + 1]}),
               Goes(w, "stores")
        PROVE  EnrolInv'
    <2> DEFINE fresh == [e EXCEPT !.gen = live[e.login] + 1]
    <2>1. e \in Entry /\ e.login = job[w].login /\ e \in mem
      BY DEF SameLogin, EnrolInv, EnrolTypeOK
    <2>2. live[e.login] + 1 \in 0 .. MaxGen
      BY <1>2, <2>1 DEF EnrolInv, EnrolTypeOK, Entry
    <2>3. fresh \in Entry /\ fresh.login = e.login
      BY <2>1, <2>2 DEF Entry
    <2> HIDE DEF fresh
    <2>4. /\ stage[w] = "starts" /\ Kind(w) = "rotate"
          /\ UNCHANGED <<authFile, store, lock, job, polls>>
      BY DEF Refresh
    <2>5. /\ seen' = [seen EXCEPT ![w] = {e}] /\ wanted' = [wanted EXCEPT ![w] = {fresh}]
          /\ mem' = (mem \ {e}) \cup {fresh} /\ stage' = [stage EXCEPT ![w] = "stores"]
      BY <1>2 DEF Sees, Wants, Goes, fresh
    <2>6. live' \in [Login -> 0 .. MaxGen]
      BY <1>2, <2>1, <2>2 DEF EnrolInv, EnrolTypeOK
    <2>7. EnrolTypeOK'
      BY <2>1, <2>3, <2>4, <2>5, <2>6 DEF EnrolInv, EnrolTypeOK
    <2>8. JobsAreGiven' /\ PollsAreLeft' /\ StoresAreTheirs'
      BY <2>4, <2>5 DEF EnrolInv, EnrolTypeOK, JobsAreGiven, PollsAreLeft, StoresAreTheirs, Kind
    <2>9. RowIsOfCodex' /\ WritersAreAlone'
      BY <2>4, <2>5 DEF EnrolInv, EnrolTypeOK, RowIsOfCodex, WritersAreAlone, Kind, Only
    <2>10. RotatesOne'
      BY <2>1, <2>3, <2>4, <2>5 DEF EnrolInv, EnrolTypeOK, RotatesOne, Kind
    <2> QED BY <2>7, <2>8, <2>9, <2>10 DEF EnrolInv
  <1> QED BY <1>1, <1>2 DEF Refresh

LEMMA ExchangeKeepsInv ==
    ASSUME EnrolInv, NEW w \in Writer, Exchange(w)
    PROVE  EnrolInv'
  <1> USE EnrolmentAssumption DEF EnrolmentAssumption
  <1>0. job[w].login \in Login /\ live[job[w].login] \in 0 .. MaxGen
    BY DEF EnrolInv, EnrolTypeOK, JobsAreGiven
  <1>1. /\ stage[w] = "exchanges"
        /\ UNCHANGED <<authFile, store, mem, lock, job, polls, seen>>
    BY DEF Exchange
  <1>2. CASE Goes(w, "failed") /\ UNCHANGED <<live, wanted>>
    <2>1. EnrolTypeOK' /\ PollsAreLeft' /\ StoresAreTheirs'
      BY <1>1, <1>2 DEF Goes, EnrolInv, EnrolTypeOK, PollsAreLeft, StoresAreTheirs, Kind
    <2>2. JobsAreGiven' /\ RowIsOfCodex' /\ RotatesOne' /\ WritersAreAlone'
      BY <1>1, <1>2 DEF Goes, EnrolInv, EnrolTypeOK, JobsAreGiven, RowIsOfCodex, RotatesOne,
                        WritersAreAlone, Kind, Only
    <2> QED BY <2>1, <2>2 DEF EnrolInv
  <1>3. CASE /\ live[job[w].login] < MaxGen
             /\ live' = [live EXCEPT ![job[w].login] = @ + 1] /\ Wants(w, {Issued(w)})
             /\ Goes(w, IF Kind(w) = "tool" THEN "stores" ELSE "waits")
    <2>1. Issued(w) \in Entry /\ Issued(w).login = job[w].login
      BY <1>0, <1>3 DEF Issued, Entry
    <2>2. live' \in [Login -> 0 .. MaxGen]
      BY <1>0, <1>3 DEF EnrolInv, EnrolTypeOK
    <2>3. PICK place \in {"stores", "waits"} :
              /\ stage' = [stage EXCEPT ![w] = place]
              /\ place = "stores" => Kind(w) = "tool"
      BY <1>3 DEF Goes
    <2>4. wanted' = [wanted EXCEPT ![w] = {Issued(w)}]
      BY <1>3 DEF Wants
    <2>5. EnrolTypeOK'
      BY <1>1, <2>1, <2>2, <2>3, <2>4 DEF EnrolInv, EnrolTypeOK
    <2>6. JobsAreGiven' /\ PollsAreLeft' /\ StoresAreTheirs'
      BY <1>1, <2>3 DEF EnrolInv, EnrolTypeOK, JobsAreGiven, PollsAreLeft, StoresAreTheirs, Kind
    <2>7. WritersAreAlone' /\ RotatesOne'
      BY <1>1, <2>3, <2>4 DEF EnrolInv, EnrolTypeOK, WritersAreAlone, RotatesOne, Kind
    <2>8. RowIsOfCodex'
      BY <1>1, <2>1, <2>3, <2>4 DEF EnrolInv, EnrolTypeOK, RowIsOfCodex, JobsAreGiven, Kind, Only
    <2> QED BY <2>5, <2>6, <2>7, <2>8 DEF EnrolInv
  <1> QED BY <1>2, <1>3 DEF Exchange

LEMMA StoringKeepsInv ==
    ASSUME EnrolInv, NEW w \in Writer, EnrolInStore(w) \/ RotateInStore(w)
    PROVE  EnrolInv'
  <1>1. PICK place \in {"waits", "done", "failed"} : stage' = [stage EXCEPT ![w] = place]
    BY DEF EnrolInStore, RotateInStore, Goes
  <1>2. /\ stage[w] = "stores"
        /\ UNCHANGED <<authFile, mem, live, lock, job, polls, seen>>
    BY DEF EnrolInStore, RotateInStore
  <1> DEFINE Row == /\ wanted' \in [Writer -> SUBSET Entry] /\ store' \in SUBSET Entry
                    /\ Only(Codex, store')
                    /\ \A u \in Writer \ {w} : wanted'[u] = wanted[u]
                    /\ Kind(w) = "tool" => Only(Codex, wanted'[w])
  <1>3. Row
    <2>1. CASE UNCHANGED <<store, wanted>>
      BY <2>1 DEF EnrolInv, EnrolTypeOK, RowIsOfCodex
    <2>2. ASSUME NEW slot \in Slots(w), store' = (seen[w] \ slot) \cup wanted[w],
                 Wants(w, store'), Kind(w) = "tool"
          PROVE  Row
      <3>1. store' \in SUBSET Entry /\ Only(Codex, store')
        BY <1>2, <2>2 DEF EnrolInv, EnrolTypeOK, RowIsOfCodex, Only
      <3> QED BY <3>1, <2>2 DEF Wants, EnrolInv, EnrolTypeOK
    <2>3. CASE /\ Kind(w) = "rotate" /\ UNCHANGED wanted
               /\ seen[w] \subseteq store
               /\ store' = (store \ seen[w]) \cup wanted[w]
      <3>1. ProviderOf[job[w].login] = Codex
        BY <1>2, <2>3 DEF EnrolInv, RotatesOne, RowIsOfCodex, Only
      <3>2. store' \in SUBSET Entry /\ Only(Codex, store')
        BY <1>2, <2>3, <3>1 DEF EnrolInv, EnrolTypeOK, RotatesOne, RowIsOfCodex, Only
      <3> QED BY <3>2, <2>3 DEF EnrolInv, EnrolTypeOK, RowIsOfCodex
    <2>4. CASE EnrolInStore(w)
      BY <2>1, <2>2, <2>4 DEF EnrolInStore
    <2>5. CASE RotateInStore(w)
      BY <2>1, <2>3, <2>5 DEF RotateInStore
    <2> QED BY <2>4, <2>5
  <1>4. EnrolTypeOK'
    BY <1>1, <1>2, <1>3 DEF EnrolInv, EnrolTypeOK
  <1>5. JobsAreGiven' /\ PollsAreLeft' /\ StoresAreTheirs'
    BY <1>1, <1>2 DEF EnrolInv, EnrolTypeOK, JobsAreGiven, PollsAreLeft, StoresAreTheirs, Kind
  <1>6. WritersAreAlone' /\ RotatesOne'
    BY <1>1, <1>2, <1>3 DEF EnrolInv, EnrolTypeOK, WritersAreAlone, RotatesOne, Kind
  <1>7. RowIsOfCodex'
    BY <1>1, <1>2, <1>3 DEF EnrolInv, EnrolTypeOK, RowIsOfCodex, Kind, Only
  <1> QED BY <1>4, <1>5, <1>6, <1>7 DEF EnrolInv

LEMMA ReloadKeepsInv == EnrolInv /\ Reload => EnrolInv'
  <1> SUFFICES ASSUME EnrolInv, Reload PROVE EnrolInv'
    OBVIOUS
  <1>1. mem' \in SUBSET Entry
    BY DEF Reload, EnrolInv, EnrolTypeOK, OthersOf, Of
  <1>2. EnrolTypeOK' /\ PollsAreLeft' /\ StoresAreTheirs'
    BY <1>1 DEF Reload, EnrolInv, EnrolTypeOK, PollsAreLeft, StoresAreTheirs, Kind
  <1>3. JobsAreGiven' /\ RowIsOfCodex' /\ RotatesOne' /\ WritersAreAlone'
    BY DEF Reload, EnrolInv, JobsAreGiven, RowIsOfCodex, RotatesOne, WritersAreAlone, Kind, Only
  <1> QED BY <1>2, <1>3 DEF EnrolInv

LEMMA AcquireKeepsInv ==
    ASSUME EnrolInv, NEW w \in Writer, Acquire(w)
    PROVE  EnrolInv'
  <1> USE EnrolmentAssumption DEF EnrolmentAssumption
  <1>1. /\ stage[w] = "waits" /\ lock = NoWriter /\ lock' = w
        /\ seen' = [seen EXCEPT ![w] = authFile]
        /\ stage' = [stage EXCEPT ![w] = "writes"]
        /\ UNCHANGED <<authFile, store, mem, live, job, polls, wanted>>
    BY DEF Acquire, LockFree, Sees, Goes
  <1>2. EnrolTypeOK'
    BY <1>1 DEF EnrolInv, EnrolTypeOK
  <1>3. JobsAreGiven' /\ PollsAreLeft' /\ StoresAreTheirs'
    BY <1>1 DEF EnrolInv, EnrolTypeOK, JobsAreGiven, PollsAreLeft, StoresAreTheirs, Kind
  <1>4. RowIsOfCodex' /\ RotatesOne'
    BY <1>1 DEF EnrolInv, EnrolTypeOK, RowIsOfCodex, RotatesOne, Kind, Only
  <1>5. WritersAreAlone'
    BY <1>1 DEF EnrolInv, EnrolTypeOK, WritersAreAlone
  <1> QED BY <1>2, <1>3, <1>4, <1>5 DEF EnrolInv

LEMMA DocumentIsOfEntries ==
    ASSUME EnrolInv, NEW w \in Writer
    PROVE  Document(w) \in SUBSET Entry
  <1>1. seen[w] \in SUBSET Entry /\ wanted[w] \in SUBSET Entry /\ mem \in SUBSET Entry
    BY DEF EnrolInv, EnrolTypeOK
  <1>2. CASE Kind(w) \in {"login", "enroll"}
    BY <1>1, <1>2 DEF Document
  <1>3. CASE Kind(w) = "tool"
    BY <1>1, <1>3 DEF Document, OthersOf, Of
  <1>4. CASE Kind(w) = "rotate"
    BY <1>1, <1>4 DEF Document, OthersOf, Of
  <1>5. CASE Kind(w) \notin {"login", "enroll", "tool", "rotate"}
    BY <1>1, <1>5 DEF Document
  <1> QED BY <1>2, <1>3, <1>4, <1>5

LEMMA LettingGoKeepsInv ==
    ASSUME EnrolInv, NEW w \in Writer, Replace(w) \/ Dies(w)
    PROVE  EnrolInv'
  <1> USE EnrolmentAssumption DEF EnrolmentAssumption
  <1>1. PICK place \in {"done", "failed"} : stage' = [stage EXCEPT ![w] = place]
    BY DEF Replace, Dies, Goes
  <1>2. UNCHANGED <<store, mem, live, job, polls, seen, wanted>>
    BY DEF Replace, Dies
  <1>3. authFile' \in SUBSET Entry /\ lock' \in Writer \cup {NoWriter}
    BY DocumentIsOfEntries DEF Replace, Dies, EnrolInv, EnrolTypeOK
  <1>4. EnrolTypeOK'
    BY <1>1, <1>2, <1>3 DEF EnrolInv, EnrolTypeOK
  <1>5. JobsAreGiven' /\ PollsAreLeft' /\ StoresAreTheirs'
    BY <1>1, <1>2 DEF EnrolInv, EnrolTypeOK, JobsAreGiven, PollsAreLeft, StoresAreTheirs, Kind
  <1>6. RowIsOfCodex' /\ RotatesOne'
    BY <1>1, <1>2 DEF EnrolInv, EnrolTypeOK, RowIsOfCodex, RotatesOne, Kind, Only
  <1>7. WritersAreAlone'
    <2>1. CASE Replace(w)
      BY <1>1, <1>2, <2>1 DEF Replace, EnrolInv, EnrolTypeOK, WritersAreAlone
    <2>2. CASE Dies(w)
      BY <1>1, <1>2, <2>2 DEF Dies, EnrolInv, EnrolTypeOK, WritersAreAlone
    <2> QED BY <2>1, <2>2
  <1> QED BY <1>4, <1>5, <1>6, <1>7 DEF EnrolInv

LEMMA EnrolStep == EnrolInv /\ [EnrolNext]_enrolVars => EnrolInv'
  <1> SUFFICES ASSUME EnrolInv, [EnrolNext]_enrolVars PROVE EnrolInv'
    OBVIOUS
  <1>1. CASE UNCHANGED enrolVars
    BY <1>1 DEF enrolVars, EnrolInv, EnrolTypeOK, JobsAreGiven, PollsAreLeft, StoresAreTheirs,
                RowIsOfCodex, RotatesOne, WritersAreAlone, Kind, Only
  <1>2. CASE Reload
    BY <1>2, ReloadKeepsInv
  <1>3. ASSUME NEW w \in Writer,
               \/ StartFlow(w) \/ ReadWhole(w) \/ Refresh(w) \/ AskCode(w) \/ Exchange(w)
               \/ EnrolInStore(w) \/ RotateInStore(w) \/ Acquire(w) \/ Replace(w) \/ Dies(w)
               \/ \E said \in {"pending", "slow_down", "error", "code"} : Poll(w, said)
        PROVE  EnrolInv'
    BY <1>3, FlowKeepsInv, ReadWholeKeepsInv, RefreshKeepsInv, ExchangeKeepsInv,
       StoringKeepsInv, AcquireKeepsInv, LettingGoKeepsInv
  <1> QED BY <1>1, <1>2, <1>3 DEF EnrolNext

LEMMA EnrolInvariant == EnrolSpec => []EnrolInv
  BY EnrolStart, EnrolStep, PTL DEF EnrolSpec

\* Type correctness: for any processes, logins, providers and bounds, the file,
\* the row and the credentials in memory hold credentials of the logins, and no
\* device flow polls more often than it may.
THEOREM EnrolTypeCorrect == EnrolSpec => []EnrolTypeOK
  <1>1. EnrolInv => EnrolTypeOK
    BY DEF EnrolInv
  <1> QED BY <1>1, EnrolInvariant, PTL

\* Only the write under the lock gets a command from "writes" to "done".
LEMMA OnlyReplaceSaves ==
    ASSUME EnrolInv, EnrolNext, NEW w \in Writer, stage[w] = "writes", stage'[w] = "done"
    PROVE  Replace(w) /\ authFile' = Document(w) /\ UNCHANGED <<job, wanted>>
  <1>1. stage' # stage
    OBVIOUS
  <1>2. PICK u \in Writer :
            \/ StartFlow(u) \/ ReadWhole(u) \/ Refresh(u) \/ AskCode(u) \/ Exchange(u)
            \/ EnrolInStore(u) \/ RotateInStore(u) \/ Acquire(u) \/ Replace(u) \/ Dies(u)
            \/ \E said \in {"pending", "slow_down", "error", "code"} : Poll(u, said)
    BY <1>1 DEF EnrolNext, Reload
  <1>3. \E place : Goes(u, place)
    <2>1. ASSUME NEW said, Poll(u, said) PROVE \E place : Goes(u, place)
      BY <2>1, Zenon DEF Poll
    <2> QED BY <1>2, <2>1 DEF StartFlow, ReadWhole, Refresh, AskCode, Exchange,
               EnrolInStore, RotateInStore, Acquire, Replace, Dies
  <1>4. u = w
    BY <1>3, OthersStay
  <1>5. Replace(w) \/ Dies(w)
    BY <1>2, <1>4 DEF StartFlow, ReadWhole, Refresh, AskCode, Exchange, EnrolInStore,
                RotateInStore, Acquire, Poll, LockFree
  <1>6. Replace(w)
    BY <1>5, OthersStay DEF Dies
  <1>7. ~Goes(w, "failed")
    BY OthersStay
  <1> QED BY <1>6, <1>7 DEF Replace

\* "Serialize auth-file read/modify/write transactions across workers"
\* (copilot_enroll.py:46): for any number of processes, what one of them saves is
\* one credential more, or another pool of its provider, and nothing else of the
\* file is lost, brought back or changed.
THEOREM SavesStayExact == EnrolSpec => SavesAreExact
  <1> DEFINE Exact(w) ==
        CASE Kind(w) \in {"login", "enroll"} -> authFile' = authFile \cup wanted[w]
          [] Kind(w) \in {"tool", "rotate"} ->
                LET provider == ProviderOf[job[w].login] IN
                OthersOf(provider, authFile') = OthersOf(provider, authFile)
          [] OTHER -> TRUE
        Saving == \A w \in Writer : stage[w] = "writes" /\ stage'[w] = "done" => Exact(w)
  <1>1. ASSUME EnrolInv, EnrolNext, NEW w \in Writer, stage[w] = "writes", stage'[w] = "done"
        PROVE  Exact(w)
    <2>1. authFile' = Document(w) /\ seen[w] = authFile
      BY <1>1, OnlyReplaceSaves DEF EnrolInv, WritersAreAlone
    <2>2. CASE Kind(w) \in {"login", "enroll"}
      BY <2>1, <2>2 DEF Document
    <2>3. CASE Kind(w) = "tool"
      <3>1. authFile' = OthersOf(Codex, authFile) \cup wanted[w]
        BY <2>1, <2>3 DEF Document
      <3>2. Only(Codex, wanted[w]) /\ ProviderOf[job[w].login] = Codex
        BY <1>1, <2>3 DEF EnrolInv, RowIsOfCodex, JobsAreGiven
      <3>3. OthersOf(Codex, authFile') = OthersOf(Codex, authFile)
        BY <3>1, <3>2 DEF OthersOf, Of, Only
      <3> QED BY <2>3, <3>2, <3>3
    <2>4. CASE Kind(w) = "rotate"
      <3> DEFINE provider == ProviderOf[job[w].login]
      <3>1. authFile' = OthersOf(provider, authFile) \cup Of(provider, mem)
        BY <2>1, <2>4 DEF Document
      <3>2. OthersOf(provider, authFile') = OthersOf(provider, authFile)
        BY <3>1 DEF OthersOf, Of
      <3> QED BY <2>4, <3>2
    <2>5. CASE Kind(w) \notin {"login", "enroll", "tool", "rotate"}
      BY <2>5
    <2> QED BY <2>2, <2>3, <2>4, <2>5
  <1> HIDE DEF Exact
  <1>2. EnrolInv /\ [EnrolNext]_enrolVars => [Saving]_enrolVars
    BY <1>1
  <1>3. EnrolSpec => [][Saving]_enrolVars
    BY <1>2, EnrolInvariant, PTL DEF EnrolSpec
  <1> QED BY <1>3 DEF SavesAreExact, Exact

(***************************************************************************)
(* CliTurn: a stream ends with a text only when its CLI is gone and left   *)
(* no call, and a CLI that heeds SIGTERM is not left behind by a run that  *)
(* streams or shows tools.                                                 *)
(***************************************************************************)

Reason == {"none", "call", "timeout", "cancelled", "retired", "auth", "quota", "failed",
           "unclassified"}

Ending == {"text", "empty", "loops", "failed", "retired", "auth", "quota", "cancelled"}

\* The types that tell where a turn is.
TurnTypes ==
    /\ task \in [cli : {"claude", "opencode", "kilo"}, streams : BOOLEAN, tools : BOOLEAN,
                 answered : BOOLEAN]
    /\ again \in BOOLEAN
    /\ step \in {"starts", "waits", "stops", "reads", "done"}
    /\ proc \in {"none", "runs", "resists", "gone"}
    /\ why \in Reason

\* Those of the output.
OutputTypes ==
    /\ nonzero \in BOOLEAN
    /\ printed \in Seq(Lines) /\ read \in 0 .. Len(printed)
    /\ {callFile, polled} \subseteq {"none", "fresh", "repeat"}
    /\ sent \in Seq({"text", "call", "finish"})

\* A turn that has ended is done; one that is read as a whole has a CLI that is
\* gone and does not stream.
StepsAreInOrder ==
    /\ ended = "no" <=> step # "done"
    /\ step = "starts" => proc \in {"none", "gone"}
    /\ step = "reads" => proc = "gone" /\ ~Streamed
    /\ step = "waits" => why = "none"
    /\ step = "stops" => proc # "runs"

\* A call is written in a run with tools only; a text ends a turn whose CLI is
\* gone.
CallsAreOffered ==
    /\ callFile # "none" /\ ~again => task.tools
    /\ ended = "text" => proc = "gone"

CliInv ==
    /\ TurnTypes /\ OutputTypes /\ StepsAreInOrder /\ CallsAreOffered
    /\ StreamedCallsOutrankText /\ GuardedRunsLeaveNone

\* What is known of a turn besides its output.
Books == StepsAreInOrder /\ CallsAreOffered /\ StreamedCallsOutrankText /\ GuardedRunsLeaveNone

LEMMA CliStart == CliInit => CliInv
  <1> SUFFICES ASSUME CliInit PROVE CliInv
    OBVIOUS
  <1>1. TurnTypes
    BY DEF CliInit, TurnTypes, Reason
  <1>2. OutputTypes
    <2>1. printed = <<>> /\ sent = <<>> /\ read = 0 /\ Len(printed) = 0
      BY DEF CliInit
    <2>2. printed \in Seq(Lines) /\ sent \in Seq({"text", "call", "finish"})
      BY <2>1
    <2>3. nonzero \in BOOLEAN /\ {callFile, polled} \subseteq {"none", "fresh", "repeat"}
      BY DEF CliInit
    <2> QED BY <2>1, <2>2, <2>3 DEF OutputTypes
  <1>3. Books
    BY DEF CliInit, Books, StepsAreInOrder, CallsAreOffered, StreamedCallsOutrankText,
           GuardedRunsLeaveNone
  <1> QED BY <1>1, <1>2, <1>3 DEF CliInv, Books

\* What the CLI does: it prints, calls and exits.
LEMMA CliKeepsInv ==
    ASSUME CliInv,
           \/ \E kind \in Lines : Prints(kind)
           \/ \E c \in {"fresh", "repeat"} : CallWritten(c)
           \/ \E bad \in BOOLEAN : Exit(bad)
    PROVE  CliInv'
  <1>1. ASSUME NEW kind \in Lines, Prints(kind) PROVE CliInv'
    <2>1. /\ printed' = Append(printed, kind)
          /\ UNCHANGED <<task, again, step, why, proc, nonzero, read, callFile, polled,
                         sent, ended>>
      BY <1>1 DEF Prints
    <2>2. TurnTypes'
      BY <2>1 DEF CliInv, TurnTypes
    <2>3. printed' \in Seq(Lines) /\ read \in 0 .. Len(printed')
      BY <2>1 DEF CliInv, OutputTypes
    <2>4. OutputTypes'
      BY <2>1, <2>3 DEF CliInv, OutputTypes
    <2>5. Books'
      BY <2>1 DEF CliInv, Books, StepsAreInOrder, CallsAreOffered, StreamedCallsOutrankText,
                  GuardedRunsLeaveNone, Streamed
    <2> QED BY <2>2, <2>4, <2>5 DEF CliInv, Books
  <1>2. ASSUME NEW c \in {"fresh", "repeat"}, CallWritten(c) PROVE CliInv'
    <2>1. /\ Runs /\ Offered /\ callFile = "none" /\ callFile' = c
          /\ UNCHANGED <<task, again, step, why, proc, nonzero, printed, read, polled,
                         sent, ended>>
      BY <1>2 DEF CallWritten
    <2>2. TurnTypes'
      BY <2>1 DEF CliInv, TurnTypes
    <2>3. OutputTypes'
      BY <2>1 DEF CliInv, OutputTypes
    <2>4. Books'
      BY <2>1 DEF CliInv, Books, StepsAreInOrder, CallsAreOffered, StreamedCallsOutrankText,
                  GuardedRunsLeaveNone, Streamed, Runs, Offered
    <2> QED BY <2>2, <2>3, <2>4 DEF CliInv, Books
  <1>3. ASSUME NEW bad \in BOOLEAN, Exit(bad) PROVE CliInv'
    <2>1. /\ Runs /\ proc' = "gone" /\ nonzero' = bad
          /\ UNCHANGED <<task, again, step, why, printed, read, callFile, polled, sent, ended>>
      BY <1>3 DEF Exit
    <2>2. TurnTypes'
      BY <2>1 DEF CliInv, TurnTypes
    <2>3. OutputTypes'
      BY <2>1, Zenon DEF CliInv, OutputTypes
    <2>4. Books'
      BY <2>1 DEF CliInv, Books, StepsAreInOrder, CallsAreOffered, StreamedCallsOutrankText,
                  GuardedRunsLeaveNone, Streamed, Runs
    <2> QED BY <2>2, <2>3, <2>4 DEF CliInv, Books
  <1> QED BY <1>1, <1>2, <1>3

\* A fatal line stops the CLI for one of the reasons there are.
LEMMA RaisedIsAReason ==
    ASSUME NEW kind, Fatal(kind)
    PROVE  Raised(kind) \in Reason \ {"none", "call"}
  <1>1. kind \in {"long", "retired", "auth", "quota", "broken"}
    BY DEF Fatal, Errors
  <1>2. CASE kind = "long"
    BY <1>2, Zenon DEF Raised, Reason
  <1>3. CASE kind = "broken"
    BY <1>3, Zenon DEF Raised, Reason
  <1>4. CASE kind \in {"retired", "auth", "quota"}
    BY <1>4 DEF Raised, Reason
  <1> QED BY <1>1, <1>2, <1>3, <1>4

LEMMA SpawnKeepsInv == CliInv /\ Spawn => CliInv'
  <1> SUFFICES ASSUME CliInv, Spawn PROVE CliInv'
    OBVIOUS
  <1>1. /\ step = "starts" /\ printed' = <<>> /\ read' = 0 /\ nonzero' = FALSE
        /\ callFile' = "none" /\ polled' = "none" /\ why' = "none"
        /\ UNCHANGED <<task, again, sent>>
        /\ \/ step' = "done" /\ ended' = "failed" /\ proc' = proc
           \/ proc' \in {"runs", "resists"} /\ step' = "waits" /\ ended' = ended
    BY DEF Spawn, Finish
  <1>2. TurnTypes'
    BY <1>1 DEF CliInv, TurnTypes, Reason
  <1>3. OutputTypes'
    <2>1. printed' \in Seq(Lines) /\ read' \in 0 .. Len(printed')
      BY <1>1
    <2> QED BY <1>1, <2>1 DEF CliInv, OutputTypes
  <1>4. Books'
    BY <1>1 DEF CliInv, Books, StepsAreInOrder, CallsAreOffered, StreamedCallsOutrankText,
                GuardedRunsLeaveNone, Streamed
  <1> QED BY <1>2, <1>3, <1>4 DEF CliInv, Books

LEMMA StoppedKeepsInv == CliInv /\ CliStopped => CliInv'
  <1> SUFFICES ASSUME CliInv, CliStopped PROVE CliInv'
    OBVIOUS
  <1>1. /\ step = "stops" /\ proc' = "gone"
        /\ UNCHANGED <<task, why, nonzero, printed, read, callFile, polled>>
        /\ \/ again' = TRUE /\ step' = "starts" /\ UNCHANGED <<sent, ended>>
           \/ /\ again' = again /\ step' = "done" /\ ended' = why
              /\ sent' \in {sent, Append(sent, "finish"), Append(sent, "call")}
    BY DEF CliStopped, GoneOrKilled, Finish
  <1>2. TurnTypes'
    BY <1>1 DEF CliInv, TurnTypes
  <1>3. OutputTypes'
    <2>1. sent' \in Seq({"text", "call", "finish"})
      BY <1>1 DEF CliInv, OutputTypes
    <2> QED BY <1>1, <2>1 DEF CliInv, OutputTypes
  <1>4. ended' # "text"
    BY <1>1 DEF CliInv, TurnTypes, Reason, StepsAreInOrder
  <1>5. ended' = "no" <=> step' # "done"
    BY <1>1 DEF CliInv, TurnTypes, Reason, StepsAreInOrder
  <1>6. Books'
    BY <1>1, <1>4, <1>5 DEF CliInv, Books, StepsAreInOrder, CallsAreOffered,
       StreamedCallsOutrankText, GuardedRunsLeaveNone, Streamed, TurnTypes
  <1> QED BY <1>2, <1>3, <1>6 DEF CliInv, Books

\* A transport that begins to stop its CLI.
LEMMA HaltKeepsInv ==
    ASSUME CliInv, NEW reason \in Reason, Halt(reason), step \in {"waits", "stops"},
           UNCHANGED <<task, again, nonzero, printed, callFile, polled, ended>>,
           read' \in 0 .. Len(printed), sent' \in Seq({"text", "call", "finish"})
    PROVE  CliInv'
  <1>1. TurnTypes'
    BY DEF CliInv, TurnTypes, Halt
  <1>2. OutputTypes'
    BY DEF CliInv, OutputTypes
  <1>3. Books'
    BY DEF CliInv, TurnTypes, Books, StepsAreInOrder, CallsAreOffered,
           StreamedCallsOutrankText, GuardedRunsLeaveNone, Streamed, Halt
  <1> QED BY <1>1, <1>2, <1>3 DEF CliInv, Books

LEMMA WholeKeepsInv == CliInv /\ (FileRead \/ FirstOfTwo) => CliInv'
  <1> SUFFICES ASSUME CliInv, FileRead \/ FirstOfTwo PROVE CliInv'
    OBVIOUS
  <1>1. CASE FileRead
    <2>1. /\ polled' = callFile
          /\ UNCHANGED <<task, again, step, why, proc, nonzero, printed, read, callFile,
                         sent, ended>>
      BY <1>1 DEF FileRead
    <2>2. TurnTypes' /\ Books'
      BY <2>1 DEF CliInv, TurnTypes, Books, StepsAreInOrder, CallsAreOffered,
                  StreamedCallsOutrankText, GuardedRunsLeaveNone, Streamed
    <2>3. OutputTypes'
      BY <2>1 DEF CliInv, OutputTypes
    <2> QED BY <2>2, <2>3 DEF CliInv, Books
  <1>2. CASE FirstOfTwo
    <2>1. /\ step = "waits" /\ ~Streamed /\ (polled # "none" \/ proc = "gone")
          /\ UNCHANGED <<task, again, nonzero, printed, read, callFile, polled, sent, ended>>
      BY <1>2 DEF FirstOfTwo
    <2>2. CASE Halt("call")
      <3>1. "call" \in Reason
        BY DEF Reason
      <3>2. read' \in 0 .. Len(printed) /\ sent' \in Seq({"text", "call", "finish"})
        BY <2>1 DEF CliInv, OutputTypes
      <3> QED BY <2>1, <2>2, <3>1, <3>2, HaltKeepsInv
    <2>3. CASE polled = "none" /\ step' = "reads" /\ UNCHANGED <<why, proc>>
      <3>1. TurnTypes' /\ Books'
        BY <2>1, <2>3 DEF CliInv, TurnTypes, Books, StepsAreInOrder, CallsAreOffered,
                          StreamedCallsOutrankText, GuardedRunsLeaveNone, Streamed
      <3>2. OutputTypes'
        BY <2>1, <2>3 DEF CliInv, OutputTypes
      <3> QED BY <3>1, <3>2 DEF CliInv, Books
    <2> QED BY <1>2, <2>2, <2>3 DEF FirstOfTwo
  <1> QED BY <1>1, <1>2

\* A turn that ends with no stop of its CLI: the CLI is gone, or was never
\* there to be stopped, and a text leaves no call in a stream.
LEMMA FinishKeepsInv ==
    ASSUME CliInv, NEW how \in Ending, Finish(how),
           proc \in {"none", "gone"} \/ (~Streamed /\ ~Offered) \/ step = "stops",
           how = "text" => proc = "gone" /\ (Streamed => callFile = "none"),
           UNCHANGED <<task, again, why, proc, nonzero, printed, read, callFile, polled>>,
           sent' \in Seq({"text", "call", "finish"})
    PROVE  CliInv'
  <1>1. TurnTypes'
    BY DEF CliInv, TurnTypes, Finish, Ending
  <1>2. OutputTypes'
    BY DEF CliInv, OutputTypes
  <1>3. how # "no"
    BY DEF Ending
  <1>4. Books'
    BY <1>3 DEF CliInv, TurnTypes, Books, StepsAreInOrder, CallsAreOffered,
           StreamedCallsOutrankText, GuardedRunsLeaveNone, Streamed, Offered, Finish
  <1> QED BY <1>1, <1>2, <1>4 DEF CliInv, Books

LEMMA WholeAnswerKeepsInv == CliInv /\ WholeAnswer => CliInv'
  <1> SUFFICES ASSUME CliInv, WholeAnswer PROVE CliInv'
    OBVIOUS
  <1>1. /\ proc = "gone" /\ ~Streamed
        /\ UNCHANGED <<task, again, why, proc, nonzero, printed, read, callFile, polled>>
    BY DEF WholeAnswer, CliInv, StepsAreInOrder
  <1>2. PICK how \in Ending : Finish(how)
    BY DEF WholeAnswer, RunFailure, Ending
  <1>3. sent' \in Seq({"text", "call", "finish"})
    <2>1. <<"text", "finish">> \in Seq({"text", "call", "finish"})
          /\ <<"text">> \in Seq({"text", "call", "finish"})
      OBVIOUS
    <2>2. \/ sent' = sent
          \/ \E more \in Seq({"text", "call", "finish"}) : sent' = sent \o more
      BY <2>1 DEF WholeAnswer
    <2>3. sent \in Seq({"text", "call", "finish"})
      BY DEF CliInv, OutputTypes
    <2>4. ASSUME NEW more \in Seq({"text", "call", "finish"}), sent' = sent \o more
          PROVE  sent' \in Seq({"text", "call", "finish"})
      BY <2>3, <2>4
    <2> QED BY <2>2, <2>3, <2>4
  <1> QED BY <1>1, <1>2, <1>3, FinishKeepsInv

LEMMA StreamKeepsInv == CliInv /\ (SendCall \/ TakeLine \/ OutputEnds) => CliInv'
  <1> SUFFICES ASSUME CliInv, SendCall \/ TakeLine \/ OutputEnds PROVE CliInv'
    OBVIOUS
  <1>1. /\ sent \in Seq({"text", "call", "finish"}) /\ printed \in Seq(Lines)
        /\ read \in 0 .. Len(printed)
    BY DEF CliInv, OutputTypes
  <1>2. CASE SendCall
    <2>1. read' \in 0 .. Len(printed)
      BY <1>1, <1>2 DEF SendCall, HasLine
    <2>2. sent' \in Seq({"text", "call", "finish"}) /\ "call" \in Reason
      BY <1>1, <1>2 DEF SendCall, Reason
    <2> QED BY <1>2, <2>1, <2>2, HaltKeepsInv DEF SendCall
  <1>3. CASE TakeLine
    <2> DEFINE kind == printed[read + 1]
    <2>1. read' \in 0 .. Len(printed)
      BY <1>1, <1>3 DEF TakeLine, HasLine
    <2>2. sent' \in Seq({"text", "call", "finish"})
      BY <1>1, <1>3 DEF TakeLine
    <2>3. CASE Fatal(kind)
      <3>1. Halt(Raised(kind)) /\ step = "waits"
            /\ UNCHANGED <<task, again, nonzero, printed, callFile, polled, ended>>
        BY <1>3, <2>3 DEF TakeLine
      <3> QED BY <2>1, <2>2, <2>3, <3>1, RaisedIsAReason, HaltKeepsInv
    <2>4. CASE ~Fatal(kind)
      <3>1. UNCHANGED <<task, again, step, why, proc, nonzero, printed, callFile, polled, ended>>
        BY <1>3, <2>4 DEF TakeLine
      <3>2. TurnTypes' /\ Books'
        BY <3>1 DEF CliInv, TurnTypes, Books, StepsAreInOrder, CallsAreOffered,
                    StreamedCallsOutrankText, GuardedRunsLeaveNone, Streamed
      <3>3. OutputTypes'
        BY <2>1, <2>2, <3>1 DEF CliInv, OutputTypes
      <3> QED BY <3>2, <3>3 DEF CliInv, Books
    <2> QED BY <2>3, <2>4
  <1>4. CASE OutputEnds
    <2>1. /\ Streamed /\ proc = "gone" /\ ~(Offered /\ callFile # "none")
          /\ UNCHANGED <<task, again, why, proc, nonzero, printed, read, callFile, polled>>
      BY <1>4 DEF OutputEnds, AtEnd, CallSeen
    <2>2. callFile = "none"
      BY <2>1 DEF Streamed, Offered, CliInv, CallsAreOffered
    <2>3. PICK how \in Ending : Finish(how)
      BY <1>4 DEF OutputEnds, Ending
    <2>4. sent' \in Seq({"text", "call", "finish"})
      <3>1. sent' = sent \/ sent' = Append(sent, "finish")
        BY <1>4 DEF OutputEnds
      <3> QED BY <1>1, <3>1
    <2> QED BY <2>1, <2>2, <2>3, <2>4, FinishKeepsInv
  <1> QED BY <1>2, <1>3, <1>4

\* The clock and the client.  A cancellation that no handler sees comes to a run
\* that neither streams nor shows tools, or to a CLI that is being stopped.
LEMMA InterruptsKeepInv == CliInv /\ (RunTimesOut \/ RunCancelled) => CliInv'
  <1> SUFFICES ASSUME CliInv, RunTimesOut \/ RunCancelled PROVE CliInv'
    OBVIOUS
  <1>1. /\ UNCHANGED <<task, again, nonzero, printed, read, callFile, polled, sent>>
        /\ read \in 0 .. Len(printed) /\ sent \in Seq({"text", "call", "finish"})
        /\ step \in {"waits", "stops"}
    BY DEF RunTimesOut, RunCancelled, CliInv, OutputTypes
  <1>2. CASE Halt("timeout") /\ UNCHANGED ended
    BY <1>1, <1>2, HaltKeepsInv DEF Reason
  <1>3. CASE Halt("cancelled") /\ UNCHANGED ended
    BY <1>1, <1>3, HaltKeepsInv DEF Reason
  <1>4. CASE ~CancelIsHandled /\ Finish("cancelled") /\ UNCHANGED <<why, proc>>
    <2>1. (~Streamed /\ ~Offered) \/ step = "stops"
      BY <1>1, <1>4 DEF CancelIsHandled
    <2>2. "cancelled" \in Ending
      BY DEF Ending
    <2> QED BY <1>1, <1>4, <2>1, <2>2, FinishKeepsInv
  <1> QED BY <1>2, <1>3, <1>4 DEF RunTimesOut, RunCancelled

LEMMA CliStep == CliInv /\ [CliNext]_cliVars => CliInv'
  <1> SUFFICES ASSUME CliInv, [CliNext]_cliVars PROVE CliInv'
    OBVIOUS
  <1>1. CASE UNCHANGED cliVars
    <2>1. TurnTypes' /\ OutputTypes'
      BY <1>1 DEF cliVars, CliInv, TurnTypes, OutputTypes
    <2>2. Books'
      BY <1>1 DEF cliVars, CliInv, Books, StepsAreInOrder, CallsAreOffered,
                  StreamedCallsOutrankText, GuardedRunsLeaveNone, Streamed
    <2> QED BY <2>1, <2>2 DEF CliInv, Books
  <1>2. CASE CliNext
    BY <1>2, SpawnKeepsInv, StoppedKeepsInv, WholeKeepsInv, WholeAnswerKeepsInv,
       StreamKeepsInv, InterruptsKeepInv, CliKeepsInv DEF CliNext, CliSteps
  <1> QED BY <1>1, <1>2

LEMMA CliInvariant == CliSpec => []CliInv
  BY CliStart, CliStep, PTL DEF CliSpec

\* Type correctness, whatever a CLI prints.
THEOREM CliTypeCorrect == CliSpec => []CliTypeOK
  <1>1. CliInv => CliTypeOK
    BY DEF CliInv, TurnTypes, OutputTypes, CliTypeOK
  <1> QED BY <1>1, CliInvariant, PTL

\* "Stop and wait for its tool result" (mcp_stdio.py:129): whatever is printed,
\* in whatever order, a stream that ends with a text had no call in its file.
THEOREM StreamsReportTheirCalls == CliSpec => []StreamedCallsOutrankText
  <1>1. CliInv => StreamedCallsOutrankText
    BY DEF CliInv
  <1> QED BY <1>1, CliInvariant, PTL

\* A run that streams or shows tools ends with its CLI gone, if that heeds
\* SIGTERM: after an answer, an error, a timeout, and any number of cancellations.
THEOREM GuardedRunsEndTheirs == CliSpec => []GuardedRunsLeaveNone
  <1>1. CliInv => GuardedRunsLeaveNone
    BY DEF CliInv
  <1> QED BY <1>1, CliInvariant, PTL

(***************************************************************************)
(* WarmBroker: the call that a request of the warm server returns is its   *)
(* own or a stray's, because active.json names a request only while it      *)
(* holds the lock, and so do the others that have a session or a call.      *)
(***************************************************************************)

\* The types of the bridge's side and of the server's.
BridgeTypes ==
    /\ pointer \in Req \cup {NoReq} /\ file \in [Req -> BridgeCall] /\ bridge \in BridgeCall
    /\ session \in [Req -> {"none", "live", "over"}] /\ known \subseteq Req
    /\ strays \subseteq Req

RequestTypes ==
    /\ transport \in {"opencode", "kilo"} /\ wants \in [Req -> {"tools", "text"}]
    /\ at \in [Req -> {"asks", "checks", "restarts", "queues", "alone", "done"} \cup Holds]
    /\ answer \in [Req -> {"none", "text", "call", "error", "cancelled"}]

ServerTypes ==
    /\ believed \in BOOLEAN /\ service \in {"ours", "foreign", "down"}
    /\ idle \in 0 .. IdleSecs /\ dog \in {"off", "sleeps", "stops"}

OneHolds == \A r, q \in Req : at[r] \in Holds /\ at[q] \in Holds => r = q

\* A session that outlasts the lock is a stray, and no stray has the lock.
SessionsAreHeld ==
    /\ \A r \in Req : session[r] = "live" => at[r] \in Holds \/ r \in strays
    /\ \A r \in strays : at[r] \in {"alone", "done"}

\* active.json names the request with the lock, until OpenCode lets go of it.
PointerIsHeld ==
    \A r \in Req : pointer = r =>
        /\ at[r] \in Holds /\ wants[r] = "tools"
        /\ at[r] = "ends" => ~OpenCode

OwnCall(r) == [by |-> r, with |-> r]

\* A call in the bridge is of the request with the lock, and has its manifest, or
\* is a stray's.
BridgeIsItsOwn ==
    bridge # NoCall => bridge.by \in strays \/ \E r \in Req : at[r] \in Holds /\ bridge = OwnCall(r)

FilesAreTheirOwn ==
    \A r \in Req : /\ file[r] \in {NoCall, OwnCall(r)} \/ file[r].by \in strays \ {r}
                   /\ answer[r] = "call" => file[r] # NoCall

WarmInv ==
    /\ BridgeTypes /\ RequestTypes /\ ServerTypes
    /\ OneHolds /\ SessionsAreHeld /\ PointerIsHeld /\ BridgeIsItsOwn /\ FilesAreTheirOwn

LEMMA WarmStart == WarmInit => WarmInv
  <1> SUFFICES ASSUME WarmInit PROVE WarmInv
    OBVIOUS
  <1> USE WarmAssumption DEF WarmAssumption
  <1>1. BridgeTypes
    BY DEF WarmInit, BridgeTypes, BridgeCall, NoCall
  <1>2. RequestTypes
    BY DEF WarmInit, RequestTypes, OpenCode
  <1>3. ServerTypes
    <2>1. believed \in BOOLEAN
      BY DEF WarmInit
    <2>2. /\ service \in {"ours", "foreign", "down"} /\ dog \in {"off", "sleeps", "stops"}
          /\ idle \in 0 .. IdleSecs
      BY DEF WarmInit
    <2> QED BY <2>1, <2>2 DEF ServerTypes
  <1>4. \A r \in Req : at[r] \notin Holds /\ session[r] = "none" /\ pointer # r
    BY DEF WarmInit, OpenCode, Holds
  <1>5. OneHolds /\ SessionsAreHeld /\ PointerIsHeld /\ BridgeIsItsOwn /\ FilesAreTheirOwn
    BY <1>4 DEF WarmInit, OneHolds, SessionsAreHeld, PointerIsHeld, BridgeIsItsOwn,
                FilesAreTheirOwn
  <1> QED BY <1>1, <1>2, <1>3, <1>5 DEF WarmInv

\* The server's variables keep their types in every step.
LEMMA ServerSteps == ServerTypes /\ [WarmNext]_warmVars => ServerTypes'
  <1> SUFFICES ASSUME ServerTypes, [WarmNext]_warmVars PROVE ServerTypes'
    OBVIOUS
  <1> USE WarmAssumption DEF WarmAssumption
  <1>1. CASE UNCHANGED <<serverVars, idle>>
    BY <1>1 DEF serverVars, ServerTypes
  <1>2. ASSUME NEW r \in Req, Checked(r) PROVE ServerTypes'
    BY <1>2 DEF Checked, ServerTypes
  <1>3. ASSUME NEW r \in Req, NEW up \in BOOLEAN, Restarted(r, up) PROVE ServerTypes'
    <2>1. service' \in {"ours", "foreign", "down"} /\ dog' \in {"off", "sleeps", "stops"}
          /\ idle' \in 0 .. IdleSecs
      BY <1>3 DEF Restarted, ServerTypes
    <2>2. believed' \in BOOLEAN
      BY <1>3 DEF Restarted
    <2> QED BY <2>1, <2>2 DEF ServerTypes
  <1>4. ASSUME NEW r \in Req, Enter(r) PROVE ServerTypes'
    BY <1>4 DEF Enter, serverVars, ServerTypes
  <1>5. ASSUME NEW r \in Req, Attach(r) PROVE ServerTypes'
    BY <1>5 DEF Attach, ServerTypes
  <1>6. CASE ServiceDies
    BY <1>6 DEF ServiceDies, ServerTypes
  <1>7. CASE TimePasses
    BY <1>7 DEF TimePasses, serverVars, ServerTypes
  <1>8. CASE DogWakes
    BY <1>8 DEF DogWakes, ServerTypes
  <1>9. CASE DogStops
    BY <1>9 DEF DogStops, ServerTypes
  <1>10. CASE CallPublished
    BY <1>1, <1>10 DEF CallPublished
  <1>11. ASSUME NEW r \in Req,
                \/ Ensure(r) \/ CallFound(r) \/ TurnEnded(r) \/ TurnTimesOut(r) \/ Left(r)
                \/ Ended(r) \/ Abandoned(r) \/ SessionNamed(r) \/ SessionOpened(r)
                \/ CallArrives(r) \/ SessionOver(r)
         PROVE  ServerTypes'
    BY <1>1, <1>11 DEF Ensure, CallFound, TurnEnded, TurnTimesOut, Left, Ended, Abandoned,
                       SessionNamed, SessionOpened, CallArrives, SessionOver
  <1>12. CASE UNCHANGED warmVars
    BY <1>1, <1>12 DEF warmVars
  <1> QED BY <1>2, <1>3, <1>4, <1>5, <1>6, <1>7, <1>8, <1>9, <1>10, <1>11, <1>12
          DEF WarmNext, WarmSteps, WatchdogSteps

\* What a request has with its call, its session and its manifest.
Shared == BridgeTypes /\ RequestTypes /\ OneHolds /\ SessionsAreHeld /\ PointerIsHeld
          /\ BridgeIsItsOwn /\ FilesAreTheirOwn

\* A request without the lock goes on to another place without it.
LEMMA OutsideKeepsShared ==
    ASSUME Shared, NEW r \in Req, at[r] \in {"asks", "checks", "restarts", "queues"},
           NEW place \in {"checks", "restarts", "queues", "alone", "done"}, Moves(r, place),
           NEW with \in {answer[r], "cancelled"}, answer' = [answer EXCEPT ![r] = with],
           UNCHANGED <<transport, wants, file, known, strays>>,
           pointer' \in {pointer, NoReq},
           UNCHANGED <<session, bridge>> \/ SessionsStop
    PROVE  Shared'
  <1> USE WarmAssumption DEF WarmAssumption
  <1>1. /\ at' = [at EXCEPT ![r] = place] /\ at'[r] \notin Holds
        /\ \A q \in Req \ {r} : at'[q] = at[q]
    BY DEF Moves, Holds, Shared, RequestTypes
  <1>2. \A q \in Req : at[q] \in Holds => q # r /\ at'[q] = at[q]
    BY <1>1 DEF Holds
  <1>3. RequestTypes'
    BY <1>1 DEF Shared, RequestTypes
  <1>4. /\ session' \in [Req -> {"none", "live", "over"}] /\ bridge' \in BridgeCall
        /\ bridge' # NoCall => bridge' = bridge
        /\ \A q \in Req : session'[q] = "live" => session[q] = "live"
    BY DEF Shared, BridgeTypes, SessionsStop, BridgeCall, NoCall
  <1>5. BridgeTypes'
    BY <1>4 DEF Shared, BridgeTypes
  <1>6. OneHolds' /\ PointerIsHeld'
    BY <1>1, <1>2 DEF Shared, OneHolds, PointerIsHeld, OpenCode
  <1>9. SessionsAreHeld'
    <2>1. r \notin strays
      BY DEF Shared, SessionsAreHeld
    <2> QED BY <1>1, <1>2, <1>4, <2>1 DEF Shared, BridgeTypes, SessionsAreHeld
  <1>7. BridgeIsItsOwn'
    BY <1>2, <1>4 DEF Shared, BridgeIsItsOwn, OwnCall
  <1>8. FilesAreTheirOwn'
    BY DEF Shared, RequestTypes, FilesAreTheirOwn
  <1> QED BY <1>3, <1>5, <1>6, <1>7, <1>8, <1>9 DEF Shared

\* The server and its sessions.
LEMMA SessionStepsKeepShared ==
    ASSUME Shared,
           \/ \E s \in Req : SessionNamed(s) \/ Attach(s) \/ SessionOver(s) \/ CallArrives(s)
           \/ ServiceDies \/ DogStops
    PROVE  Shared'
  <1> USE WarmAssumption DEF WarmAssumption
  <1>1. UNCHANGED <<transport, wants, at, answer, pointer, file, strays>>
    BY DEF SessionNamed, Attach, SessionOver, CallArrives, ServiceDies, DogStops
  <1>2. RequestTypes' /\ OneHolds' /\ PointerIsHeld' /\ FilesAreTheirOwn'
    BY <1>1 DEF Shared, RequestTypes, OneHolds, PointerIsHeld, FilesAreTheirOwn, OpenCode
  <1>3. BridgeTypes' /\ SessionsAreHeld' /\ BridgeIsItsOwn'
    <2>1. ASSUME NEW s \in Req, SessionNamed(s)
          PROVE  BridgeTypes' /\ SessionsAreHeld' /\ BridgeIsItsOwn'
      BY <1>1, <2>1 DEF SessionNamed, Shared, BridgeTypes, SessionsAreHeld, BridgeIsItsOwn,
                        OpenCode
    <2>2. ASSUME NEW s \in Req, Attach(s)
          PROVE  BridgeTypes' /\ SessionsAreHeld' /\ BridgeIsItsOwn'
      BY <1>1, <2>2 DEF Attach, Shared, BridgeTypes, SessionsAreHeld, BridgeIsItsOwn,
                        OpenCode, Holds
    <2>3. ASSUME NEW s \in Req, SessionOver(s)
          PROVE  BridgeTypes' /\ SessionsAreHeld' /\ BridgeIsItsOwn'
      <3>1. session' = [session EXCEPT ![s] = "over"] /\ bridge' = bridge /\ known' = known
        BY <2>3 DEF SessionOver
      <3>2. BridgeTypes' /\ SessionsAreHeld'
        BY <1>1, <3>1 DEF Shared, BridgeTypes, SessionsAreHeld, OpenCode
      <3>3. BridgeIsItsOwn'
        BY <1>1, <3>1 DEF Shared, BridgeIsItsOwn, OwnCall
      <3> QED BY <3>2, <3>3
    <2>4. ASSUME NEW s \in Req, CallArrives(s)
          PROVE  BridgeTypes' /\ SessionsAreHeld' /\ BridgeIsItsOwn'
      <3>1. /\ session[s] = "live" /\ pointer # NoReq
            /\ bridge' = [by |-> s, with |-> pointer] /\ UNCHANGED <<session, known>>
        BY <2>4 DEF CallArrives
      <3>2. s \in strays \/ (pointer = s /\ at[s] \in Holds)
        BY <3>1 DEF Shared, BridgeTypes, OneHolds, SessionsAreHeld, PointerIsHeld
      <3>3. BridgeTypes' /\ SessionsAreHeld'
        BY <1>1, <3>1 DEF Shared, BridgeTypes, BridgeCall, SessionsAreHeld, OpenCode
      <3> QED BY <1>1, <3>1, <3>2, <3>3 DEF BridgeIsItsOwn, OwnCall
    <2>5. CASE ServiceDies \/ DogStops
      <3>1. SessionsStop /\ known' = known
        BY <2>5 DEF ServiceDies, DogStops
      <3>2. BridgeTypes' /\ SessionsAreHeld'
        BY <1>1, <3>1 DEF SessionsStop, Shared, BridgeTypes, BridgeCall, NoCall,
                          SessionsAreHeld, OpenCode
      <3> QED BY <3>1, <3>2 DEF SessionsStop, BridgeIsItsOwn
    <2> QED BY <2>1, <2>2, <2>3, <2>4, <2>5
  <1> QED BY <1>2, <1>3 DEF Shared

\* A call gets into the file of the request with the lock.
LEMMA PublishKeepsShared == Shared /\ CallPublished => Shared'
  <1> SUFFICES ASSUME Shared, CallPublished PROVE Shared'
    OBVIOUS
  <1> USE WarmAssumption DEF WarmAssumption
  <1>1. /\ bridge # NoCall /\ bridge' = NoCall
        /\ UNCHANGED <<transport, wants, at, answer, pointer, session, known, strays>>
    BY DEF CallPublished
  <1>2. ASSUME NEW r \in Req, pointer = r
        PROVE  bridge = OwnCall(r) \/ bridge.by \in strays \ {r}
    <2>1. at[r] \in Holds /\ r \notin strays
      BY <1>2 DEF Shared, PointerIsHeld, SessionsAreHeld, Holds
    <2> QED BY <1>1, <2>1 DEF Shared, BridgeIsItsOwn, OneHolds
  <1>3. file' = file \/ \E r \in Req : pointer = r /\ file' = [file EXCEPT ![r] = bridge]
    BY DEF CallPublished, Shared, BridgeTypes
  <1>4. BridgeTypes'
    BY <1>1, <1>3 DEF Shared, BridgeTypes, BridgeCall, NoCall
  <1>5. FilesAreTheirOwn'
    <2>1. CASE file' = file
      BY <1>1, <2>1 DEF Shared, FilesAreTheirOwn, OwnCall
    <2>2. ASSUME NEW r \in Req, pointer = r, file' = [file EXCEPT ![r] = bridge]
          PROVE  FilesAreTheirOwn'
      <3>1. bridge # NoCall /\ (bridge = OwnCall(r) \/ bridge.by \in strays \ {r})
        BY <1>1, <1>2, <2>2
      <3> QED BY <1>1, <2>2, <3>1 DEF Shared, BridgeTypes, FilesAreTheirOwn, OwnCall
    <2> QED BY <1>3, <2>1, <2>2
  <1>6. BridgeTypes' /\ FilesAreTheirOwn'
    BY <1>4, <1>5
  <1>7. RequestTypes' /\ OneHolds' /\ SessionsAreHeld' /\ PointerIsHeld' /\ BridgeIsItsOwn'
    BY <1>1 DEF Shared, RequestTypes, OneHolds, SessionsAreHeld, PointerIsHeld,
                BridgeIsItsOwn, OpenCode
  <1> QED BY <1>6, <1>7 DEF Shared

\* A request takes the lock, or has it and keeps it; its session may begin.
LEMMA EnterKeepsShared ==
    ASSUME Shared, NEW r \in Req, Enter(r) \/ SessionOpened(r)
    PROVE  Shared'
  <1> USE WarmAssumption DEF WarmAssumption
  <1>1. /\ at'[r] \in {"opens", "runs"} /\ \A q \in Req \ {r} : at'[q] = at[q]
        /\ UNCHANGED <<transport, wants, answer, file, strays, bridge>>
        /\ r \notin strays
    BY DEF Enter, SessionOpened, Moves, Shared, RequestTypes, SessionsAreHeld
  <1>2. at' \in [Req -> {"asks", "checks", "restarts", "queues", "alone", "done"} \cup Holds]
    BY DEF Enter, SessionOpened, Moves, Shared, RequestTypes, Holds
  <1>3. RequestTypes' /\ FilesAreTheirOwn'
    BY <1>1, <1>2 DEF Shared, RequestTypes, FilesAreTheirOwn
  <1>4. \A q \in Req \ {r} : at'[q] \notin Holds
    BY <1>1 DEF Enter, SessionOpened, RequestLockFree, Shared, OneHolds, Holds
  <1>5. OneHolds'
    BY <1>4 DEF OneHolds
  <1>6. CASE Enter(r)
    <2>1. /\ UNCHANGED <<session, known>>
          /\ pointer' = IF wants[r] = "tools" THEN r ELSE NoReq
          /\ \A q \in Req : at[q] \notin Holds
      BY <1>6 DEF Enter, RequestLockFree
    <2>2. BridgeTypes'
      BY <1>1, <2>1 DEF Shared, BridgeTypes
    <2>3. PointerIsHeld'
      BY <1>1, <2>1 DEF PointerIsHeld, Holds
    <2>4. SessionsAreHeld' /\ BridgeIsItsOwn'
      BY <1>1, <2>1 DEF Shared, BridgeTypes, SessionsAreHeld, BridgeIsItsOwn
    <2> QED BY <1>3, <1>5, <2>2, <2>3, <2>4 DEF Shared
  <1>7. CASE SessionOpened(r)
    <2>1. /\ session' = [session EXCEPT ![r] = "live"] /\ known' = known \cup {r}
          /\ pointer' = pointer /\ at[r] = "opens"
      BY <1>7 DEF SessionOpened
    <2>2. BridgeTypes'
      BY <1>1, <2>1 DEF Shared, BridgeTypes
    <2>3. PointerIsHeld' /\ SessionsAreHeld'
      BY <1>1, <2>1 DEF Shared, BridgeTypes, PointerIsHeld, SessionsAreHeld, Holds, OpenCode
    <2>4. BridgeIsItsOwn'
      BY <1>1, <2>1 DEF Shared, BridgeTypes, BridgeIsItsOwn, OwnCall, Holds
    <2> QED BY <1>3, <1>5, <2>2, <2>3, <2>4 DEF Shared
  <1> QED BY <1>6, <1>7

\* No other session begins when one is closed.
LEMMA ClosedSession ==
    ASSUME Shared, NEW r \in Req, SessionClosed(r)
    PROVE  /\ session' \in [Req -> {"none", "live", "over"}] /\ bridge' = bridge
           /\ \A q \in Req : session'[q] = "live" => session[q] = "live"
    BY DEF SessionClosed, Shared, BridgeTypes

\* A request that begins to leave has the lock still.
LEMMA DepartKeepsShared ==
    ASSUME Shared, NEW r \in Req, at[r] \in {"opens", "runs"},
           NEW with \in {"text", "call", "error", "cancelled"}, Departs(r, with),
           with = "call" => file[r] # NoCall,
           UNCHANGED <<session, bridge>> \/ SessionClosed(r),
           UNCHANGED <<transport, wants, pointer, file, known, strays>>
    PROVE  Shared'
  <1> USE WarmAssumption DEF WarmAssumption
  <1>1. /\ at' = [at EXCEPT ![r] = "leaves"] /\ answer' = [answer EXCEPT ![r] = with]
    BY DEF Departs, Moves
  <1>2. RequestTypes' /\ FilesAreTheirOwn'
    BY <1>1 DEF Shared, RequestTypes, FilesAreTheirOwn, Holds
  <1>3. OneHolds' /\ PointerIsHeld'
    BY <1>1 DEF Shared, RequestTypes, OneHolds, PointerIsHeld, Holds, OpenCode
  <1>4. BridgeTypes' /\ SessionsAreHeld' /\ BridgeIsItsOwn'
    <2>1. /\ session' \in [Req -> {"none", "live", "over"}] /\ bridge' = bridge
          /\ \A q \in Req : session'[q] = "live" => session[q] = "live"
      BY ClosedSession DEF Shared, BridgeTypes
    <2>2. r \notin strays /\ at'[r] \in Holds /\ \A q \in Req \ {r} : at'[q] = at[q]
      BY <1>1 DEF Shared, RequestTypes, SessionsAreHeld, Holds
    <2>3. BridgeTypes' /\ SessionsAreHeld'
      BY <2>1, <2>2 DEF Shared, BridgeTypes, SessionsAreHeld
    <2>4. BridgeIsItsOwn'
      BY <2>1, <2>2 DEF Shared, BridgeIsItsOwn, OwnCall
    <2> QED BY <2>3, <2>4
  <1> QED BY <1>2, <1>3, <1>4 DEF Shared

\* OpenCode lets go of the bridge and then deletes its session, Kilo the other way
\* round; a session that is left when the lock is given back is a stray.
LEMMA LeavingKeepsShared ==
    ASSUME Shared, NEW r \in Req, Left(r) \/ Ended(r)
    PROVE  Shared'
  <1> USE WarmAssumption DEF WarmAssumption
  <1>1. /\ at[r] \in {"leaves", "ends"} /\ r \notin strays
        /\ UNCHANGED <<transport, wants, answer, file>>
        /\ known' \in {known, known \ {r}}
    BY DEF Left, Ended, Shared, SessionsAreHeld
  <1>2. /\ session' \in [Req -> {"none", "live", "over"}] /\ bridge' = bridge
        /\ \A q \in Req : session'[q] = "live" => session[q] = "live"
        /\ pointer' \in {pointer, NoReq}
    <2>1. CASE LetGo(r)
      BY <2>1 DEF LetGo, Shared, BridgeTypes
    <2>2. CASE Delete(r)
      BY <2>2, ClosedSession DEF Delete
    <2> QED BY <2>1, <2>2 DEF Left, Ended
  <1>3. \A q \in Req \ {r} : /\ at[q] \notin Holds /\ pointer # q
                             /\ session[q] = "live" => q \in strays
    BY <1>1 DEF Shared, OneHolds, SessionsAreHeld, PointerIsHeld, Holds
  <1>4. CASE Left(r)
    <2>1. at' = [at EXCEPT ![r] = "ends"] /\ strays' = strays
      BY <1>4 DEF Left, Moves
    <2>2. at'[r] \in Holds /\ \A q \in Req \ {r} : at'[q] = at[q]
      BY <2>1 DEF Shared, RequestTypes, Holds
    <2>3. RequestTypes' /\ FilesAreTheirOwn'
      BY <1>1, <2>1 DEF Shared, RequestTypes, FilesAreTheirOwn, Holds, OwnCall
    <2>4. OneHolds' /\ BridgeTypes' /\ SessionsAreHeld'
      BY <1>1, <1>2, <1>3, <2>1, <2>2 DEF Shared, OneHolds, BridgeTypes, SessionsAreHeld
    <2>5. BridgeIsItsOwn'
      BY <1>2, <2>1, <2>2 DEF Shared, BridgeIsItsOwn, OwnCall
    <2>6. pointer' = r => wants[r] = "tools" /\ ~OpenCode
      <3>1. CASE OpenCode
        BY <1>4, <3>1 DEF Left, LetGo, Shared, PointerIsHeld
      <3>2. CASE ~OpenCode
        BY <1>2, <3>2 DEF Shared, PointerIsHeld
      <3> QED BY <3>1, <3>2
    <2>7. PointerIsHeld'
      BY <1>1, <1>2, <1>3, <2>2, <2>6 DEF PointerIsHeld, OpenCode
    <2> QED BY <2>3, <2>4, <2>5, <2>7 DEF Shared
  <1>5. CASE Ended(r)
    <2>1. PICK place \in {"alone", "done"} : at' = [at EXCEPT ![r] = place]
      BY <1>5 DEF Ended, Moves
    <2>2. at'[r] \in {"alone", "done"} /\ \A q \in Req \ {r} : at'[q] = at[q]
      BY <2>1 DEF Shared, RequestTypes
    <2>3. /\ strays' \in {strays, strays \cup {r}}
          /\ session'[r] = "live" \/ bridge.by = r => r \in strays'
      BY <1>5 DEF Ended
    <2>4. RequestTypes' /\ FilesAreTheirOwn'
      <3>1. RequestTypes'
        BY <1>1, <2>1 DEF Shared, RequestTypes
      <3> QED BY <1>1, <2>3, <3>1 DEF Shared, FilesAreTheirOwn, OwnCall
    <2>5. \A q \in Req : at'[q] \notin Holds
      BY <1>3, <2>2 DEF Holds
    <2>6. OneHolds' /\ BridgeTypes'
      BY <1>1, <1>2, <2>3, <2>5 DEF Shared, OneHolds, BridgeTypes
    <2>7. SessionsAreHeld'
      <3>1. \A q \in Req : session'[q] = "live" => q \in strays'
        BY <1>2, <1>3, <2>3
      <3>2. \A q \in strays' : at'[q] \in {"alone", "done"}
        BY <2>2, <2>3 DEF Shared, BridgeTypes, SessionsAreHeld
      <3> QED BY <3>1, <3>2 DEF SessionsAreHeld
    <2>8. BridgeIsItsOwn'
      <3>1. bridge # NoCall => bridge.by \in strays \/ bridge.by = r
        BY <1>3 DEF Shared, BridgeIsItsOwn, OwnCall
      <3> QED BY <1>2, <2>3, <3>1 DEF BridgeIsItsOwn, NoCall
    <2>9. \A q \in Req : pointer' # q
      <3>1. CASE OpenCode
        BY <1>2, <1>3, <1>5, <3>1 DEF Ended, Shared, PointerIsHeld
      <3>2. CASE ~OpenCode
        BY <1>3, <1>5, <3>2 DEF Ended, LetGo, Shared, PointerIsHeld
      <3> QED BY <3>1, <3>2
    <2>10. PointerIsHeld'
      BY <2>9 DEF PointerIsHeld
    <2> QED BY <2>4, <2>6, <2>7, <2>8, <2>10 DEF Shared
  <1> QED BY <1>4, <1>5

LEMMA WarmStep == WarmInv /\ [WarmNext]_warmVars => WarmInv'
  <1> SUFFICES ASSUME WarmInv, [WarmNext]_warmVars PROVE WarmInv'
    OBVIOUS
  <1>1. Shared /\ ServerTypes'
    BY ServerSteps DEF WarmInv, Shared
  <1>2. SUFFICES Shared'
    BY <1>1 DEF WarmInv, Shared
  <1>3. CASE UNCHANGED <<transport, wants, at, answer, bridgeVars>>
    <2>1. BridgeTypes' /\ RequestTypes'
      BY <1>1, <1>3 DEF bridgeVars, Shared, BridgeTypes, RequestTypes
    <2>2. OneHolds' /\ SessionsAreHeld' /\ PointerIsHeld' /\ BridgeIsItsOwn'
      BY <1>1, <1>3 DEF bridgeVars, Shared, OneHolds, SessionsAreHeld, PointerIsHeld,
                        BridgeIsItsOwn, OpenCode
    <2>3. FilesAreTheirOwn'
      BY <1>1, <1>3 DEF bridgeVars, Shared, FilesAreTheirOwn
    <2> QED BY <2>1, <2>2, <2>3 DEF Shared
  <1>4. CASE UNCHANGED warmVars \/ TimePasses \/ DogWakes
    BY <1>3, <1>4 DEF warmVars, TimePasses, DogWakes
  <1>5. ASSUME NEW r \in Req,
               \/ Ensure(r) \/ Checked(r) \/ \E up \in BOOLEAN : Restarted(r, up)
               \/ Abandoned(r) /\ at[r] \notin {"opens", "runs"}
        PROVE  Shared'
    <2>1. at[r] \in {"asks", "checks", "restarts", "queues"}
      BY <1>5 DEF Ensure, Checked, Restarted, Abandoned
    <2>2. PICK place \in {"checks", "restarts", "queues", "alone", "done"} : Moves(r, place)
      BY <1>5 DEF Ensure, Checked, Restarted, Abandoned
    <2>3. PICK with \in {answer[r], "cancelled"} : answer' = [answer EXCEPT ![r] = with]
      BY <1>1, <1>5 DEF Ensure, Checked, Restarted, Abandoned, Shared, RequestTypes
    <2>4. /\ UNCHANGED <<transport, wants, file, known, strays>>
          /\ pointer' \in {pointer, NoReq}
          /\ UNCHANGED <<session, bridge>> \/ SessionsStop
      BY <1>5 DEF Ensure, Checked, Restarted, Abandoned, bridgeVars
    <2> QED BY <1>1, <2>1, <2>2, <2>3, <2>4, OutsideKeepsShared
  <1>6. ASSUME NEW r \in Req,
               \/ CallFound(r) \/ TurnEnded(r) \/ TurnTimesOut(r)
               \/ Abandoned(r) /\ at[r] \in {"opens", "runs"}
        PROVE  Shared'
    <2>1. at[r] \in {"opens", "runs"}
      BY <1>6 DEF CallFound, TurnEnded, TurnTimesOut, Timed
    <2>2. PICK with \in {"text", "call", "error", "cancelled"} :
              Departs(r, with) /\ (with = "call" => file[r] # NoCall)
      BY <1>6 DEF CallFound, TurnEnded, TurnTimesOut, Abandoned
    <2>3. /\ UNCHANGED <<session, bridge>> \/ SessionClosed(r)
          /\ UNCHANGED <<transport, wants, pointer, file, known, strays>>
      BY <1>6 DEF CallFound, TurnEnded, TurnTimesOut, Abandoned, bridgeVars
    <2> QED BY <1>1, <2>1, <2>2, <2>3, DepartKeepsShared
  <1>7. ASSUME NEW r \in Req,
               \/ Enter(r) \/ SessionOpened(r) \/ Left(r) \/ Ended(r) \/ SessionNamed(r)
               \/ Attach(r) \/ SessionOver(r) \/ CallArrives(r)
        PROVE  Shared'
    BY <1>1, <1>7, EnterKeepsShared, LeavingKeepsShared, SessionStepsKeepShared
  <1>8. CASE ServiceDies \/ DogStops \/ CallPublished
    BY <1>1, <1>8, SessionStepsKeepShared, PublishKeepsShared
  <1> QED BY <1>4, <1>5, <1>6, <1>7, <1>8 DEF WarmNext, WarmSteps, WatchdogSteps

LEMMA WarmInvariant == WarmSpec => []WarmInv
  <1>1. WarmInv /\ [WarmNext]_warmVars => WarmInv'
    BY WarmStep
  <1> QED BY <1>1, WarmStart, PTL DEF WarmSpec

\* "a concurrent request could otherwise observe another request's tools"
\* (opencode_cli.py:338): for any number of requests, however they are cancelled,
\* time out and find the server restarted, the call that one returns was made by
\* its session and looked up in its manifest, or it is of a session that went on
\* after its own request had given the lock back.
THEOREM CallsStayWithTheirRequest == WarmSpec => []CallsReachTheirRequest
  <1>1. WarmInv => CallsReachTheirRequest
    BY DEF WarmInv, FilesAreTheirOwn, OwnCall, CallsReachTheirRequest
  <1> QED BY <1>1, WarmInvariant, PTL
=============================================================================
