------------------------ MODULE ConfigRuntimeProofs ------------------------
(***************************************************************************)
(* What the shared configuration guarantees for any processes, tables,     *)
(* pools and number of writes: a snapshot that claims the generation of    *)
(* the database is the database, the primary pool can always be routed,    *)
(* and a conditional PATCH changes only the field it names.                *)
(***************************************************************************)
EXTENDS ConfigRuntime, TLAPS

(***************************************************************************)
(* Types of what is written and read.                                      *)
(***************************************************************************)

LEMMA Numbers == 0 \in Gen /\ 1 \in Gen /\ (Happens /\ generation \in Nat /\ faults \in Nat => This \in Gen)
  BY BoundAssumption DEF BoundAssumption, Gen, Happens, This

LEMMA SeedTypes ==
    /\ Nothing \in Tables /\ Seed \in Tables /\ NoPool \in PoolRow
  BY Numbers DEF Nothing, Seed, NoPool, Tables, PoolRow

LEMMA RowTypes ==
    ASSUME tables \in Tables, NEW t \in Simple, NEW g \in Gen
    PROVE  /\ WithRow(t, g) \in Tables
           /\ WithRow(t, g).pools = tables.pools /\ WithRow(t, g).there = tables.there
  BY DEF WithRow, Tables

LEMMA PoolTypes ==
    ASSUME tables \in Tables, NEW q \in Pool, NEW row \in PoolRow
    PROVE  /\ WithPool(q, row) \in Tables
           /\ WithPool(q, row).pools = [tables.pools EXCEPT ![q] = row]
           /\ WithPool(q, row).there = tables.there \cup {q}
  BY DEF WithPool, Tables

LEMMA DeletedTypes ==
    ASSUME tables \in Tables, NEW q \in Pool
    PROVE  LET t == [tables EXCEPT !.pools[q] = NoPool, !.there = @ \ {q}]
           IN  /\ t \in Tables
               /\ t.pools = [tables.pools EXCEPT ![q] = NoPool]
               /\ t.there = tables.there \ {q}
  BY SeedTypes DEF Tables

LEMMA SentRows ==
    ASSUME NEW q, This \in Gen
    PROVE  Rows(q) \subseteq PoolRow
  BY SeedTypes, Numbers DEF Rows, Row, PoolRow

LEMMA ReadTypes ==
    ASSUME tables \in Tables, NEW part \in Tables
    PROVE  /\ EarlyRead(part) \in Tables
           /\ \A t \in Early : EarlyRead(part).simple[t] = tables.simple[t]
           /\ LateRead(part) \in Tables
           /\ LateRead(part).pools = tables.pools
           /\ (\A t \in Early : part.simple[t] = tables.simple[t]) => LateRead(part) = tables
  <1>1. /\ EarlyRead(part) \in Tables
        /\ \A t \in Early : EarlyRead(part).simple[t] = tables.simple[t]
    BY DEF EarlyRead, Tables, Simple
  <1>2. LateRead(part) \in Tables /\ LateRead(part).pools = tables.pools
    BY DEF LateRead, Tables
  <1>3. ASSUME \A t \in Early : part.simple[t] = tables.simple[t]
        PROVE  LateRead(part) = tables
    <2> DEFINE s == [t \in Simple |-> IF t \in Early THEN part.simple[t] ELSE tables.simple[t]]
    <2>1. s = tables.simple
      BY <1>3 DEF Tables
    <2>2. LateRead(part) = [tables EXCEPT !.simple = s]
      BY DEF LateRead
    <2> HIDE DEF s
    <2> QED BY <2>1, <2>2 DEF Tables
  <1> QED BY <1>1, <1>2, <1>3

\* What the event loop is doing tells its record.
LEMMA LoopKinds ==
    ASSUME NEW l \in Loop
    PROVE  /\ l.pc \in {"publish", "rebuild"} => l \in Applying
           /\ l.pc = "patch" => l \in PatchInHand
           /\ l.pc \notin {"publish", "rebuild", "patch"} => l \in Waiting
  BY DEF Loop, Waiting, Applying, PatchInHand

LEMMA LoopTargets ==
    /\ Free \in Loop /\ Begun \in Reload /\ Idle \in Reload
    /\ \A pc \in {"free", "auth", "refresh", "reapply"} : [pc |-> pc] \in Loop
    /\ \A by \in {"boot", "poll", "admin"}, g \in Gen, pc \in {"publish", "rebuild"} :
          [pc |-> pc, by |-> by, gen |-> g] \in Loop
  BY Numbers, SeedTypes
     DEF Loop, Waiting, Applying, Free, Begun, Idle, Reading, Reload

(***************************************************************************)
(* Writes.  A write of this process or of another is one new generation    *)
(* of the tables, with a primary pool that has something in it.            *)
(***************************************************************************)

IsWrite(t) ==
    /\ Written(t)
    /\ t \in Tables
    /\ Primary \in tables.there /\ Routable(tables.pools[Primary])
          => Primary \in t.there /\ Routable(t.pools[Primary])

\* What a write does to its process.
Refreshing(p) ==
    /\ reload' = [reload EXCEPT ![p]["loop"] = Begun]
    /\ loop' = [loop EXCEPT ![p] = [pc |-> "refresh"]]

WriteStep ==
    \E t \in Tables :
       /\ IsWrite(t)
       /\ \/ UNCHANGED <<reload, loop>>
          \/ \E p \in Proc : /\ Refreshing(p)
                             /\ loop[p] = Free \/ loop[p].pc = "patch"
          \/ \E p \in Proc : /\ reload' = [reload EXCEPT ![p]["rotation"] = Begun]
                             /\ UNCHANGED loop

Writing(p) ==
    \/ \E v \in {0, This} : WritePatch(p, v)
    \/ \E t \in Managed : PutRow(p, t)
    \/ \E t \in Managed \cap Deletable : DeleteRow(p, t)
    \/ \E q \in Pool, e \in Seen : \E row \in Rows(q) : PutPool(p, q, row, e)
    \/ \E q \in Pool : DeletePool(p, q)
    \/ StoreRotation(p)

LEMMA RowWrites ==
    ASSUME TypeOK, NEW t \in Simple, NEW g \in {0, This}, Written(WithRow(t, g))
    PROVE  IsWrite(WithRow(t, g))
  <1>1. g \in Gen
    BY Numbers DEF Written, TypeOK, Gen
  <1> QED BY <1>1, RowTypes DEF IsWrite, TypeOK

LEMMA PoolWrites ==
    ASSUME TypeOK, NEW q \in Pool, NEW row \in PoolRow, Acceptable(q, row),
           Written(WithPool(q, row))
    PROVE  IsWrite(WithPool(q, row))
  <1>1. tables \in Tables /\ tables.pools \in [Pool -> PoolRow]
    BY DEF TypeOK, Tables
  <1>2. /\ WithPool(q, row) \in Tables
        /\ WithPool(q, row).pools = [tables.pools EXCEPT ![q] = row]
        /\ WithPool(q, row).there = tables.there \cup {q}
    BY <1>1, PoolTypes
  <1>3. Routable(tables.pools[Primary]) => Routable(WithPool(q, row).pools[Primary])
    BY <1>1, <1>2, PoolAssumption DEF PoolAssumption, Acceptable
  <1> QED BY <1>2, <1>3 DEF IsWrite

LEMMA WritesAreWriteSteps ==
    ASSUME TypeOK, NEW p \in Proc, Writing(p)
    PROVE  WriteStep
  <1>1. CASE \E v \in {0, This} : WritePatch(p, v)
    <2>1. PICK v \in {0, This} : WritePatch(p, v)
      BY <1>1
    <2> DEFINE row == [loop[p].existing EXCEPT ![loop[p].field] = v]
    <2>2. /\ loop[p].pc = "patch" /\ Acceptable(loop[p].pool, row)
          /\ Written(WithPool(loop[p].pool, row)) /\ Refreshing(p)
      BY <2>1 DEF WritePatch, AdminWrites, Start, Refreshing
    <2>3. loop[p] \in PatchInHand
      BY <2>2, LoopKinds DEF TypeOK
    <2>4. v \in Gen
      BY <2>2, Numbers DEF Written, TypeOK, Gen
    <2>5. row \in PoolRow /\ loop[p].pool \in Pool
      BY <2>3, <2>4 DEF PatchInHand, PoolRow
    <2> HIDE DEF row
    <2>6. IsWrite(WithPool(loop[p].pool, row)) /\ WithPool(loop[p].pool, row) \in Tables
      BY <2>2, <2>5, PoolWrites, PoolTypes DEF TypeOK
    <2> QED BY <2>2, <2>6 DEF WriteStep
  <1>2. CASE \E t \in Managed : PutRow(p, t) \/ (t \in Deletable /\ DeleteRow(p, t))
    <2>1. PICK t \in Managed, g \in {0, This} :
             Written(WithRow(t, g)) /\ Refreshing(p) /\ loop[p] = Free
      BY <1>2 DEF PutRow, DeleteRow, Requested, Serving, AdminWrites, Start, Refreshing
    <2>2. t \in Simple
      BY DEF Managed
    <2>3. IsWrite(WithRow(t, g))
      BY <2>1, <2>2, RowWrites
    <2> QED BY <2>1, <2>3 DEF WriteStep, IsWrite
  <1>3. CASE \E q \in Pool, e \in Seen : \E row \in Rows(q) : PutPool(p, q, row, e)
    <2>0. PICK q \in Pool, e \in Seen : \E row \in Rows(q) : PutPool(p, q, row, e)
      BY <1>3
    <2>1. PICK row \in Rows(q) :
             /\ Acceptable(q, row) /\ Written(WithPool(q, row))
             /\ Refreshing(p) /\ loop[p] = Free
      BY <2>0 DEF PutPool, Requested, Serving, AdminWrites, Start, Refreshing
    <2>2. This \in Gen
      BY <2>1, Numbers DEF Written, TypeOK, Gen
    <2>3. row \in PoolRow
      BY <2>2, SentRows
    <2>4. IsWrite(WithPool(q, row))
      BY <2>1, <2>3, PoolWrites
    <2> QED BY <2>1, <2>4 DEF WriteStep, IsWrite
  <1>4. CASE \E q \in Pool : DeletePool(p, q)
    <2>1. PICK q \in Pool : DeletePool(p, q)
      BY <1>4
    <2> DEFINE t == [tables EXCEPT !.pools[q] = NoPool, !.there = @ \ {q}]
    <2>2. q # Primary /\ Written(t) /\ Refreshing(p) /\ loop[p] = Free
      BY <2>1 DEF DeletePool, Requested, Serving, AdminWrites, Start, Refreshing
    <2>3. /\ t \in Tables
          /\ t.pools = [tables.pools EXCEPT ![q] = NoPool] /\ t.there = tables.there \ {q}
      BY DeletedTypes DEF TypeOK
    <2>4. tables.pools \in [Pool -> PoolRow]
      BY DEF TypeOK, Tables
    <2> HIDE DEF t
    <2>5. IsWrite(t)
      BY <2>2, <2>3, <2>4, PoolAssumption DEF IsWrite, PoolAssumption
    <2> QED BY <2>2, <2>3, <2>5 DEF WriteStep
  <1>5. CASE StoreRotation(p)
    <2>1. /\ Written(WithRow("oauth_credentials", This))
          /\ reload' = [reload EXCEPT ![p]["rotation"] = Begun] /\ UNCHANGED loop
      BY <1>5 DEF StoreRotation, Start
    <2>2. "oauth_credentials" \in Simple
      BY TableAssumption DEF TableAssumption, Simple
    <2>3. IsWrite(WithRow("oauth_credentials", This))
      BY <2>1, <2>2, RowWrites
    <2> QED BY <2>1, <2>3 DEF WriteStep, IsWrite
  <1> QED BY <1>1, <1>2, <1>3, <1>4, <1>5 DEF Writing

LEMMA ElsewhereIsWriteStep ==
    ASSUME TypeOK, WriteElsewhere
    PROVE  WriteStep
  <1>1. PICK t \in {WithRow(u, g) : u \in Simple, g \in {0, This}}
                   \cup UNION {{WithPool(q, row) : row \in Rows(q)} : q \in Pool} :
           /\ \A q \in Pool : t.pools[q] # tables.pools[q] => Acceptable(q, t.pools[q])
           /\ Written(t)
    BY DEF WriteElsewhere
  <1>2. UNCHANGED <<loop, reload>>
    BY DEF WriteElsewhere
  <1>3. CASE \E u \in Simple, g \in {0, This} : t = WithRow(u, g)
    BY <1>1, <1>2, <1>3, RowWrites DEF WriteStep, IsWrite
  <1>4. CASE \E q \in Pool : \E row \in Rows(q) : t = WithPool(q, row)
    <2>0. PICK q \in Pool : \E row \in Rows(q) : t = WithPool(q, row)
      BY <1>4
    <2>1. PICK row \in Rows(q) : t = WithPool(q, row)
      BY <2>0
    <2>2. This \in Gen
      BY <1>1, Numbers DEF Written, TypeOK, Gen
    <2>3. row \in PoolRow
      BY <2>2, SentRows
    <2>4. t \in Tables /\ t.pools = [tables.pools EXCEPT ![q] = row] /\ t.there = tables.there \cup {q}
      BY <2>1, <2>3, PoolTypes DEF TypeOK
    <2>5. IsWrite(t)
      <3>1. Routable(tables.pools[Primary]) => Routable(t.pools[Primary])
        BY <1>1, PoolAssumption DEF PoolAssumption, Acceptable
      <3> QED BY <1>1, <2>4, <3>1 DEF IsWrite
    <2> QED BY <1>2, <2>4, <2>5 DEF WriteStep
  <1> QED BY <1>1, <1>3, <1>4

\* Steps that write nothing.
Reads(p) ==
    \/ Reloading(p) \/ Running(p) \/ AuthenticateUnloaded(p) \/ RefusePatch(p)
    \/ \E q \in Pool, f \in Field, e \in Seen : ReadForPatch(p, q, f, e)
    \/ Faulty(p)

LEMMA StepKinds ==
    ASSUME TypeOK, Next
    PROVE  WriteStep \/ \E p \in Proc : Reads(p)
  BY WritesAreWriteSteps, ElsewhereIsWriteStep
     DEF Next, Acting, Patching, Administering, Writing, Reads

(***************************************************************************)
(* Type correctness.                                                       *)
(***************************************************************************)

\* A new value of one entry, of its type, keeps the type of the whole.
LEMMA ReloadUpdate ==
    ASSUME reload \in [Proc -> [Actor -> Reload]], NEW p \in Proc, NEW a \in Actor,
           NEW r \in Reload, reload' = [reload EXCEPT ![p][a] = r]
    PROVE  reload' \in [Proc -> [Actor -> Reload]]
  OBVIOUS

LEMMA LoopUpdate ==
    ASSUME loop \in [Proc -> Loop], NEW p \in Proc, NEW l \in Loop,
           loop' = [loop EXCEPT ![p] = l]
    PROVE  loop' \in [Proc -> Loop]
  OBVIOUS

LEMMA PollUpdate ==
    ASSUME poll \in [Proc -> Polling], NEW p \in Proc, NEW x \in Polling,
           poll' = [poll EXCEPT ![p] = x]
    PROVE  poll' \in [Proc -> Polling]
  OBVIOUS

LEMMA PhaseUpdate ==
    ASSUME poll \in [Proc -> Polling], NEW p \in Proc,
           NEW pc \in {"boot", "booting", "wait", "reading", "applying"},
           poll' = [poll EXCEPT ![p].pc = pc]
    PROVE  poll' \in [Proc -> Polling]
  BY DEF Polling

LEMMA WriteKeepsTypes ==
    ASSUME TypeOK, WriteStep
    PROVE  TypeOK'
  <1>1. PICK t \in Tables :
           /\ IsWrite(t)
           /\ \/ UNCHANGED <<reload, loop>>
              \/ \E p \in Proc : Refreshing(p)
              \/ \E p \in Proc : /\ reload' = [reload EXCEPT ![p]["rotation"] = Begun]
                                 /\ UNCHANGED loop
    BY DEF WriteStep
  <1>2. /\ tables' \in Tables
        /\ generation' \in Gen \ {0} /\ faults' \in Nat /\ generation' + faults' <= MaxEvents
        /\ UNCHANGED <<store, poll, known, app>>
    BY <1>1, BoundAssumption
       DEF IsWrite, Written, TypeOK, Happens, This, Gen, BoundAssumption
  <1>3. reload' \in [Proc -> [Actor -> Reload]] /\ loop' \in [Proc -> Loop]
    <2>1. "loop" \in Actor /\ "rotation" \in Actor
      BY DEF Actor
    <2>2. CASE UNCHANGED <<reload, loop>>
      BY <2>2 DEF TypeOK
    <2>3. CASE \E p \in Proc : Refreshing(p)
      <3>1. PICK p \in Proc : Refreshing(p)
        BY <2>3
      <3>2. [pc |-> "refresh"] \in Loop
        BY LoopTargets
      <3>3. reload' \in [Proc -> [Actor -> Reload]]
        BY <2>1, <3>1, LoopTargets, ReloadUpdate DEF Refreshing, TypeOK
      <3>4. loop' \in [Proc -> Loop]
        BY <3>1, <3>2, LoopUpdate DEF Refreshing, TypeOK
      <3> QED BY <3>3, <3>4
    <2>4. CASE \E p \in Proc : /\ reload' = [reload EXCEPT ![p]["rotation"] = Begun]
                               /\ UNCHANGED loop
      <3>1. PICK p \in Proc : reload' = [reload EXCEPT ![p]["rotation"] = Begun] /\ UNCHANGED loop
        BY <2>4
      <3>2. loop' \in [Proc -> Loop]
        BY <3>1 DEF TypeOK
      <3>3. reload' \in [Proc -> [Actor -> Reload]]
        BY <2>1, <3>1, LoopTargets, ReloadUpdate DEF TypeOK
      <3> QED BY <3>2, <3>3
    <2> QED BY <1>1, <2>2, <2>3, <2>4
  <1> QED BY <1>2, <1>3 DEF TypeOK

LEMMA ReloadKeepsTypes ==
    ASSUME TypeOK, NEW p \in Proc, Reloading(p)
    PROVE  TypeOK'
  <1>1. PICK a \in Actor : ReadGeneration(p, a) \/ ReadEarlyTables(p, a)
                           \/ ReadLateTables(p, a) \/ Install(p, a)
    BY DEF Reloading
  <1>2. /\ UNCHANGED <<generation, tables, loop, poll, known, app, faults>>
        /\ reload' \in [Proc -> [Actor -> Reload]]
        /\ store' \in [Proc -> [gen : Gen, tables : Tables]]
    <2>1. CASE ReadGeneration(p, a)
      <3>1. Reading(generation, Nothing, "compare") \in Reload
        BY SeedTypes DEF TypeOK, Reading, Reload
      <3> QED BY <2>1, <3>1 DEF TypeOK, ReadGeneration
    <2>2. CASE ReadEarlyTables(p, a)
      <3>1. reload[p][a] \in Reload
        BY DEF TypeOK
      <3>2. EarlyRead(Nothing) \in Tables
        BY SeedTypes, ReadTypes DEF TypeOK
      <3>3. Reading(reload[p][a].gen, EarlyRead(Nothing), "tables") \in Reload
        BY <3>1, <3>2 DEF Reading, Reload
      <3> QED BY <2>2, <3>3, LoopTargets DEF TypeOK, ReadEarlyTables
    <2>3. CASE ReadLateTables(p, a)
      <3>1. reload[p][a] \in Reload
        BY DEF TypeOK
      <3>2. LateRead(reload[p][a].part) \in Tables
        BY <3>1, ReadTypes DEF TypeOK, Reload
      <3>3. Reading(reload[p][a].gen, LateRead(reload[p][a].part), "install") \in Reload
        BY <3>1, <3>2 DEF Reading, Reload
      <3> QED BY <2>3, <3>3 DEF TypeOK, ReadLateTables
    <2>4. CASE Install(p, a)
      <3>1. Installed(p, a) \in [gen : Gen, tables : Tables]
        BY DEF TypeOK, Installed, Reload
      <3> QED BY <2>4, <3>1, LoopTargets DEF TypeOK, Install
    <2> QED BY <1>1, <2>1, <2>2, <2>3, <2>4
  <1> QED BY <1>2 DEF TypeOK

LEMMA RunKeepsTypes ==
    ASSUME TypeOK, NEW p \in Proc, Running(p) \/ AuthenticateUnloaded(p) \/ RefusePatch(p)
    PROVE  TypeOK'
  <1>0. /\ "poll" \in Actor /\ "loop" \in Actor
        /\ store[p].gen \in Gen /\ store[p].tables \in Tables /\ known[p] \in Gen
        /\ poll[p] \in Polling /\ loop[p] \in Loop
    BY DEF TypeOK, Actor
  <1>1. UNCHANGED <<generation, tables, store, faults>>
    BY DEF Running, Boot, Booted, StartPoll, PollResumes, Authenticate, Authenticated,
           Refreshed, Reapply, Publish, Rebuild, AuthenticateUnloaded, RefusePatch
  <1>2. reload' \in [Proc -> [Actor -> Reload]]
    <2>1. reload' = reload \/ \E a \in Actor : reload' = [reload EXCEPT ![p][a] = Begun]
      BY <1>0 DEF Running, Boot, Booted, StartPoll, PollResumes, Authenticate,
           Authenticated, Refreshed, Reapply, Publish, Rebuild, AuthenticateUnloaded,
           RefusePatch, Start
    <2>2. reload \in [Proc -> [Actor -> Reload]]
      BY DEF TypeOK
    <2>3. CASE \E a \in Actor : reload' = [reload EXCEPT ![p][a] = Begun]
      BY <2>2, <2>3, LoopTargets, ReloadUpdate
    <2> QED BY <2>1, <2>2, <2>3
  <1>3. known' \in [Proc -> Gen]
    <2>1. CASE Rebuild(p)
      <3>1. loop[p].gen \in Gen
        BY <2>1, <1>0, LoopKinds DEF Rebuild, Applying
      <3> QED BY <2>1, <3>1 DEF TypeOK, Rebuild, EndApply
    <2>2. CASE ~ Rebuild(p)
      BY <2>2, <1>0
         DEF TypeOK, Running, Boot, Booted, StartPoll, PollResumes, Authenticate,
             Authenticated, Refreshed, Reapply, Publish, AuthenticateUnloaded, RefusePatch
    <2> QED BY <2>1, <2>2
  <1>4. poll' \in [Proc -> Polling]
    <2>1. poll \in [Proc -> Polling]
      BY DEF TypeOK
    <2>2. CASE Boot(p) \/ Booted(p)
      BY <2>1, <2>2, PhaseUpdate DEF Boot, Booted
    <2>3. CASE StartPoll(p)
      <3>1. [pc |-> "reading", old |-> known[p]] \in Polling
        BY <1>0 DEF Polling
      <3> QED BY <2>1, <2>3, <3>1, PollUpdate DEF StartPoll
    <2>4. CASE PollResumes(p)
      <3>1. \A pc \in {"wait", "applying"} : [pc |-> pc, old |-> 0] \in Polling
        BY Numbers DEF Polling
      <3>2. \E x \in Polling : poll' = [poll EXCEPT ![p] = x]
        BY <2>4, <3>1 DEF PollResumes
      <3> QED BY <2>1, <3>2, PollUpdate
    <2>5. CASE Rebuild(p)
      <3>1. poll' = poll \/ poll' = [poll EXCEPT ![p].pc = "wait"]
        BY <2>1, <2>5 DEF Rebuild, EndApply, Polling
      <3> QED BY <2>1, <3>1, PhaseUpdate
    <2>6. CASE Authenticate(p) \/ Authenticated(p) \/ Refreshed(p) \/ Reapply(p) \/ Publish(p)
               \/ AuthenticateUnloaded(p) \/ RefusePatch(p)
      BY <2>1, <2>6 DEF Authenticate, Authenticated, Refreshed, Reapply, Publish,
                        AuthenticateUnloaded, RefusePatch
    <2> QED BY <2>2, <2>3, <2>4, <2>5, <2>6 DEF Running
  <1>5. loop' \in [Proc -> Loop]
    <2>1. CASE Publish(p)
      <3>1. loop[p] \in Applying /\ loop' = [loop EXCEPT ![p].pc = "rebuild"]
        BY <2>1, <1>0, LoopKinds DEF Publish
      <3>2. [loop[p] EXCEPT !.pc = "rebuild"] \in Loop
        BY <3>1 DEF Loop, Applying
      <3> QED BY <3>1, <3>2 DEF TypeOK
    <2>2. CASE ~ Publish(p)
      <3>1. loop' = loop \/ \E l \in Loop : loop' = [loop EXCEPT ![p] = l]
        <4>1. CASE Booted(p) \/ PollResumes(p) \/ Reapply(p)
          BY <4>1, <1>0, LoopTargets DEF Booted, PollResumes, Reapply
        <4>2. CASE AuthenticateUnloaded(p) \/ Refreshed(p)
          BY <4>2, LoopTargets DEF AuthenticateUnloaded, Refreshed
        <4>3. CASE Authenticated(p) \/ Rebuild(p) \/ RefusePatch(p)
          BY <4>3, LoopTargets DEF Authenticated, Rebuild, EndApply, RefusePatch
        <4>4. CASE Boot(p) \/ StartPoll(p) \/ Authenticate(p)
          BY <4>4 DEF Boot, StartPoll, Authenticate
        <4> QED BY <2>2, <4>1, <4>2, <4>3, <4>4 DEF Running
      <3>2. loop \in [Proc -> Loop]
        BY DEF TypeOK
      <3> QED BY <3>1, <3>2, LoopUpdate
    <2> QED BY <2>1, <2>2
  <1>6. app' \in [Proc -> [pools : [Pool -> PoolRow], services : [Simple -> Gen]]]
    <2>1. store[p].tables.pools \in [Pool -> PoolRow] /\ store[p].tables.simple \in [Simple -> Gen]
      BY <1>0 DEF Tables
    <2>2. CASE Publish(p)
      BY <2>1, <2>2 DEF TypeOK, Publish
    <2>3. CASE Rebuild(p)
      BY <2>1, <2>3 DEF TypeOK, Rebuild
    <2>4. CASE ~ Publish(p) /\ ~ Rebuild(p)
      <3>1. app' = app
        BY <2>4 DEF Running, Boot, Booted, StartPoll, PollResumes, Authenticate,
                Authenticated, Refreshed, Reapply, AuthenticateUnloaded, RefusePatch
      <3> QED BY <3>1 DEF TypeOK
    <2> QED BY <2>2, <2>3, <2>4
  <1> QED BY <1>1, <1>2, <1>3, <1>4, <1>5, <1>6 DEF TypeOK

LEMMA OthersKeepTypes ==
    ASSUME TypeOK, NEW p \in Proc,
           Faulty(p) \/ \E q \in Pool, f \in Field, e \in Seen : ReadForPatch(p, q, f, e)
    PROVE  TypeOK'
  <1>1. CASE \E q \in Pool, f \in Field, e \in Seen : ReadForPatch(p, q, f, e)
    <2>1. PICK q \in Pool, f \in Field, e \in Seen : ReadForPatch(p, q, f, e)
      BY <1>1
    <2>2. [pc |-> "patch", pool |-> q, field |-> f, expected |-> e,
           existing |-> tables.pools[q]] \in Loop
      BY DEF TypeOK, Seen, Loop, PatchInHand, Tables
    <2> QED BY <2>1, <2>2 DEF TypeOK, ReadForPatch
  <1>2. CASE ApplyFails(p)
    <2>1. loop[p] \in Applying
      BY <1>2, LoopKinds DEF ApplyFails, TypeOK
    <2>2. /\ poll' \in [Proc -> Polling] /\ loop' \in [Proc -> Loop]
          /\ known' = known
      BY <1>2, <2>1, LoopTargets DEF ApplyFails, EndApply, TypeOK, Polling
    <2>3. faults' \in Nat /\ generation' + faults' <= MaxEvents
      BY <1>2, BoundAssumption DEF ApplyFails, Happens, TypeOK, Gen, BoundAssumption
    <2> QED BY <1>2, <2>2, <2>3 DEF ApplyFails, TypeOK
  <1>3. CASE \E a \in Actor : ReloadFails(p, a)
    <2>1. PICK a \in Actor : ReloadFails(p, a)
      BY <1>3
    <2>2. reload' \in [Proc -> [Actor -> Reload]] /\ loop' \in [Proc -> Loop]
      <3>1. /\ reload' = [reload EXCEPT ![p][a] = Idle] \/ reload' = [reload EXCEPT ![p][a] = Begun]
            /\ loop' = loop \/ \E l \in Loop : loop' = [loop EXCEPT ![p] = l]
        BY <2>1, LoopTargets DEF ReloadFails, Start
      <3>2. loop \in [Proc -> Loop]
        BY DEF TypeOK
      <3>3. loop' \in [Proc -> Loop]
        BY <3>1, <3>2, LoopUpdate
      <3>4. reload' \in [Proc -> [Actor -> Reload]]
        BY <3>1, LoopTargets, ReloadUpdate DEF TypeOK
      <3> QED BY <3>3, <3>4
    <2>3. poll' \in [Proc -> Polling]
      BY <2>1, Numbers DEF ReloadFails, TypeOK, Polling
    <2>4. faults' \in Nat /\ generation' + faults' <= MaxEvents
      BY <2>1, BoundAssumption DEF ReloadFails, Happens, TypeOK, Gen, BoundAssumption
    <2> QED BY <2>1, <2>2, <2>3, <2>4 DEF ReloadFails, TypeOK
  <1> QED BY <1>1, <1>2, <1>3 DEF Faulty

LEMMA NextKeepsTypes ==
    ASSUME TypeOK, [Next]_vars
    PROVE  TypeOK'
  <1>1. CASE Next
    BY <1>1, StepKinds, WriteKeepsTypes, ReloadKeepsTypes, RunKeepsTypes, OthersKeepTypes
       DEF Reads
  <1>2. CASE UNCHANGED vars
    BY <1>2 DEF vars, TypeOK
  <1> QED BY <1>1, <1>2

LEMMA InitTypes == Init => TypeOK
  <1> SUFFICES ASSUME Init PROVE TypeOK
    OBVIOUS
  <1>1. Nothing.pools \in [Pool -> PoolRow] /\ Nothing.simple \in [Simple -> Gen]
    BY SeedTypes DEF Tables
  <1>2. generation \in Gen \ {0} /\ faults \in Nat /\ generation + faults <= MaxEvents
    BY BoundAssumption DEF Init, Gen, BoundAssumption
  <1>3. loop \in [Proc -> Loop] /\ reload \in [Proc -> [Actor -> Reload]]
    BY LoopTargets DEF Init
  <1>4. poll \in [Proc -> Polling] /\ known \in [Proc -> Gen]
    BY Numbers DEF Init, Polling
  <1> QED BY <1>1, <1>2, <1>3, <1>4, Numbers, SeedTypes DEF Init, TypeOK

\* Type correctness, for any processes, tables, pools and number of writes.
THEOREM TypeCorrect == Spec => []TypeOK
  BY InitTypes, NextKeepsTypes, PTL DEF Spec

(***************************************************************************)
(* What a reload has read, and what a PATCH has seen, is what the database *)
(* says as long as the generation is the one that came with it.  Every     *)
(* write makes a new generation, so it leaves nobody but the up-to-date    *)
(* with anything to claim.                                                 *)
(***************************************************************************)

Faithful(r, g, t) ==
    /\ r.gen <= g
    /\ r.pc \in {"compare", "tables", "install"} => r.gen # 0
    /\ r.pc = "tables" /\ r.gen = g => \A u \in Early : r.part.simple[u] = t.simple[u]
    /\ r.pc = "install" => Routable(r.part.pools[Primary])
    /\ r.pc = "install" /\ r.gen = g => r.part = t

Current(s, g, t) ==
    /\ s.gen <= g
    /\ s.gen = g => s.tables = t
    /\ s.gen = 0 => s.tables = Nothing
    /\ s.gen # 0 => Routable(s.tables.pools[Primary])

Informed(l, g, t) ==
    l.pc = "patch" /\ l.expected # None =>
        /\ l.expected <= g
        /\ l.expected = g => l.existing = t.pools[l.pool]

ReloadInv == \A p \in Proc, a \in Actor : Faithful(reload[p][a], generation, tables)
StoreInv == \A p \in Proc : Current(store[p], generation, tables)
PatchInv == \A p \in Proc : Informed(loop[p], generation, tables)
TableInv == Primary \in tables.there /\ Routable(tables.pools[Primary])
AppInv == \A p \in Proc : app[p].pools # Nothing.pools => Routable(app[p].pools[Primary])

ConfigInv == TypeOK /\ ReloadInv /\ StoreInv /\ PatchInv /\ TableInv /\ AppInv

LEMMA Fresh ==
    ASSUME NEW g \in Nat, NEW t
    PROVE  Faithful(Idle, g, t) /\ Faithful(Begun, g, t)
  BY DEF Faithful, Idle, Begun, Reading

\* A write leaves what was read before behind.
LEMMA WriteOutdates ==
    ASSUME NEW g \in Nat, NEW t, NEW u
    PROVE  /\ \A r : r.gen \in Nat /\ Faithful(r, g, t) => Faithful(r, g + 1, u)
           /\ \A s : s.gen \in Nat /\ Current(s, g, t) => Current(s, g + 1, u)
           /\ \A l : (l.pc = "patch" => l.expected \in Nat \cup {None}) /\ Informed(l, g, t)
                        => Informed(l, g + 1, u)
  <1>1. ASSUME NEW r, r.gen \in Nat, Faithful(r, g, t) PROVE Faithful(r, g + 1, u)
    BY <1>1 DEF Faithful
  <1>2. ASSUME NEW s, s.gen \in Nat, Current(s, g, t) PROVE Current(s, g + 1, u)
    BY <1>2 DEF Current
  <1>3. ASSUME NEW l, l.pc = "patch" => l.expected \in Nat \cup {None}, Informed(l, g, t)
        PROVE  Informed(l, g + 1, u)
    BY <1>3 DEF Informed
  <1> QED BY <1>1, <1>2, <1>3

LEMMA Ranges ==
    ASSUME TypeOK
    PROVE  /\ generation \in Nat \ {0}
           /\ \A p \in Proc, a \in Actor : reload[p][a] \in Reload /\ reload[p][a].gen \in Nat
           /\ \A p \in Proc : store[p].gen \in Nat /\ store[p].tables \in Tables
           /\ \A p \in Proc : /\ loop[p] \in Loop
                              /\ loop[p].pc = "patch" => loop[p].expected \in Nat \cup {None}
  <1>1. Gen \subseteq Nat
    BY BoundAssumption DEF Gen, BoundAssumption
  <1>2. \A p \in Proc : loop[p].pc = "patch" => loop[p] \in PatchInHand
    BY LoopKinds DEF TypeOK
  <1>3. generation \in Nat \ {0} /\ loop \in [Proc -> Loop]
    BY <1>1 DEF TypeOK
  <1>4. \A p \in Proc, a \in Actor : reload[p][a] \in Reload /\ reload[p][a].gen \in Nat
    <2>1. \A p \in Proc, a \in Actor : reload[p][a] \in Reload
      BY DEF TypeOK
    <2>2. \A r \in Reload : r.gen \in Nat
      BY <1>1 DEF Reload
    <2> QED BY <2>1, <2>2
  <1>5. \A p \in Proc : store[p].gen \in Nat /\ store[p].tables \in Tables
    BY <1>1 DEF TypeOK
  <1>6. \A p \in Proc : loop[p].pc = "patch" => loop[p].expected \in Nat \cup {None}
    BY <1>1, <1>2 DEF PatchInHand
  <1> QED BY <1>3, <1>4, <1>5, <1>6

LEMMA WriteKeepsInv ==
    ASSUME ConfigInv, WriteStep
    PROVE  ReloadInv' /\ StoreInv' /\ PatchInv' /\ TableInv' /\ AppInv'
  <1>1. PICK t \in Tables :
           /\ IsWrite(t)
           /\ \/ UNCHANGED <<reload, loop>>
              \/ \E p \in Proc : Refreshing(p)
              \/ \E p \in Proc : /\ reload' = [reload EXCEPT ![p]["rotation"] = Begun]
                                 /\ UNCHANGED loop
    BY DEF WriteStep
  <1>2. generation' = generation + 1 /\ tables' = t /\ UNCHANGED <<store, app>>
    BY <1>1 DEF IsWrite, Written, This
  <1>3. generation \in Nat /\ generation + 1 \in Nat
    BY Ranges DEF ConfigInv
  <1>4. TableInv'
    BY <1>1, <1>2 DEF ConfigInv, TableInv, IsWrite
  <1>5. AppInv'
    BY <1>2 DEF ConfigInv, AppInv
  <1>6. StoreInv'
    BY <1>2, <1>3, Ranges, WriteOutdates DEF ConfigInv, StoreInv
  <1>7. ReloadInv'
    <2> SUFFICES ASSUME NEW p \in Proc, NEW a \in Actor
                 PROVE  Faithful(reload'[p][a], generation + 1, t)
      BY <1>2 DEF ReloadInv
    <2>1. reload'[p][a] \in {reload[p][a], Begun}
      <3>1. \/ reload' = reload
            \/ \E q \in Proc, b \in {"loop", "rotation"} : reload' = [reload EXCEPT ![q][b] = Begun]
        BY <1>1 DEF Refreshing
      <3>2. reload \in [Proc -> [Actor -> Reload]]
        BY DEF ConfigInv, TypeOK
      <3> QED BY <3>1, <3>2
    <2>2. Faithful(reload[p][a], generation + 1, t)
      BY <1>3, Ranges, WriteOutdates DEF ConfigInv, ReloadInv
    <2> QED BY <2>1, <2>2, <1>3, Fresh
  <1>8. PatchInv'
    <2> SUFFICES ASSUME NEW p \in Proc
                 PROVE  Informed(loop'[p], generation + 1, t)
      BY <1>2 DEF PatchInv
    <2>1. loop'[p] \in {loop[p], [pc |-> "refresh"]}
      BY <1>1 DEF Refreshing, ConfigInv, TypeOK
    <2>2. Informed(loop[p], generation + 1, t)
      BY <1>3, Ranges, WriteOutdates DEF ConfigInv, PatchInv
    <2>3. Informed([pc |-> "refresh"], generation + 1, t)
      BY DEF Informed
    <2> QED BY <2>1, <2>2, <2>3
  <1> QED BY <1>4, <1>5, <1>6, <1>7, <1>8

LEMMA ReloadKeepsInv ==
    ASSUME ConfigInv, NEW p \in Proc, Reloading(p)
    PROVE  ReloadInv' /\ StoreInv' /\ PatchInv' /\ TableInv' /\ AppInv'
  <1>1. PICK a \in Actor : ReadGeneration(p, a) \/ ReadEarlyTables(p, a)
                           \/ ReadLateTables(p, a) \/ Install(p, a)
    BY DEF Reloading
  <1>2. UNCHANGED <<generation, tables, loop, app>>
    BY <1>1 DEF ReadGeneration, ReadEarlyTables, ReadLateTables, Install
  <1>3. TableInv' /\ AppInv' /\ PatchInv'
    BY <1>2 DEF ConfigInv, TableInv, AppInv, PatchInv
  <1> DEFINE r == reload[p][a]
  <1>4. /\ r \in Reload /\ r.gen \in Nat /\ generation \in Nat \ {0}
        /\ Faithful(r, generation, tables) /\ tables \in Tables
    BY Ranges DEF ConfigInv, ReloadInv, TypeOK
  <1>5. \E x : reload' = [reload EXCEPT ![p][a] = x] /\ Faithful(x, generation, tables)
    <2>1. CASE ReadGeneration(p, a)
      <3>1. Faithful(Reading(generation, Nothing, "compare"), generation, tables)
        BY <1>4 DEF Faithful, Reading
      <3> QED BY <2>1, <3>1 DEF ReadGeneration
    <2>2. CASE ReadEarlyTables(p, a)
      <3>1. r.gen # 0 /\ r.gen <= generation
        BY <2>2, <1>4 DEF ReadEarlyTables, Faithful
      <3>2. \A t \in Early : EarlyRead(Nothing).simple[t] = tables.simple[t]
        BY <1>4, SeedTypes, ReadTypes
      <3>3. Faithful(Reading(r.gen, EarlyRead(Nothing), "tables"), generation, tables)
        BY <3>1, <3>2 DEF Faithful, Reading
      <3>4. \/ reload' = [reload EXCEPT ![p][a] = Idle]
            \/ reload' = [reload EXCEPT ![p][a] = Reading(r.gen, EarlyRead(Nothing), "tables")]
        BY <2>2 DEF ReadEarlyTables
      <3> QED BY <3>3, <3>4, <1>4, Fresh
    <2>3. CASE ReadLateTables(p, a)
      <3>1. /\ r.gen # 0 /\ r.gen <= generation
            /\ r.gen = generation => \A u \in Early : r.part.simple[u] = tables.simple[u]
        BY <2>3, <1>4 DEF ReadLateTables, Faithful
      <3>2. r.part \in Tables
        BY <1>4 DEF Reload
      <3>3. /\ LateRead(r.part).pools = tables.pools
            /\ r.gen = generation => LateRead(r.part) = tables
        BY <1>4, <3>1, <3>2, ReadTypes
      <3>4. Routable(tables.pools[Primary])
        BY DEF ConfigInv, TableInv
      <3>5. Faithful(Reading(r.gen, LateRead(r.part), "install"), generation, tables)
        BY <3>1, <3>3, <3>4 DEF Faithful, Reading
      <3> QED BY <2>3, <3>5 DEF ReadLateTables
    <2>4. CASE Install(p, a)
      BY <2>4, <1>4, Fresh DEF Install
    <2> QED BY <1>1, <2>1, <2>2, <2>3, <2>4
  <1>6. ReloadInv'
    <2>1. PICK x : reload' = [reload EXCEPT ![p][a] = x] /\ Faithful(x, generation, tables)
      BY <1>5
    <2>2. \A q \in Proc, b \in Actor : reload'[q][b] \in {reload[q][b], x}
      BY <2>1 DEF ConfigInv, TypeOK
    <2> QED BY <1>2, <2>1, <2>2 DEF ConfigInv, ReloadInv
  <1>7. StoreInv'
    <2>1. CASE Install(p, a)
      <3>1. /\ r.gen # 0 /\ r.gen <= generation /\ Routable(r.part.pools[Primary])
            /\ r.gen = generation => r.part = tables
        BY <2>1, <1>4 DEF Install, Faithful
      <3>2. Current(Installed(p, a), generation, tables)
        BY <3>1 DEF Current, Installed
      <3>3. \A q \in Proc : store'[q] \in {store[q], Installed(p, a)}
        BY <2>1 DEF Install, ConfigInv, TypeOK
      <3> QED BY <1>2, <3>2, <3>3 DEF ConfigInv, StoreInv
    <2>2. CASE ~ Install(p, a)
      <3>1. store' = store
        BY <2>2, <1>1 DEF ReadGeneration, ReadEarlyTables, ReadLateTables
      <3> QED BY <1>2, <3>1 DEF ConfigInv, StoreInv
    <2> QED BY <2>1, <2>2
  <1> QED BY <1>3, <1>6, <1>7

\* What is left only starts or gives up reloads, and publishes a snapshot.
LEMMA OtherEffects ==
    ASSUME TypeOK, NEW p \in Proc, Reads(p), ~ Reloading(p)
    PROVE  /\ UNCHANGED <<generation, tables, store>>
           /\ \/ reload' = reload
              \/ \E a \in Actor, r \in {Idle, Begun} : reload' = [reload EXCEPT ![p][a] = r]
  <1>1. "poll" \in Actor /\ "loop" \in Actor
    BY DEF Actor
  <1>2. CASE Boot(p) \/ StartPoll(p) \/ Refreshed(p) \/ AuthenticateUnloaded(p)
    BY <1>1, <1>2 DEF Boot, StartPoll, Refreshed, AuthenticateUnloaded, Start
  <1>3. CASE Booted(p) \/ PollResumes(p) \/ Authenticate(p) \/ Authenticated(p) \/ Reapply(p)
             \/ Publish(p) \/ Rebuild(p) \/ RefusePatch(p)
    BY <1>3 DEF Booted, PollResumes, Authenticate, Authenticated, Reapply, Publish, Rebuild,
                RefusePatch
  <1>4. CASE \E q \in Pool, f \in Field, e \in Seen : ReadForPatch(p, q, f, e)
    BY <1>4 DEF ReadForPatch
  <1>5. CASE ApplyFails(p)
    BY <1>5 DEF ApplyFails
  <1>6. CASE \E a \in Actor : ReloadFails(p, a)
    BY <1>6 DEF ReloadFails, Start
  <1> QED BY <1>2, <1>3, <1>4, <1>5, <1>6 DEF Reads, Running, Faulty

LEMMA OtherPatches ==
    ASSUME TypeOK, NEW p \in Proc, Reads(p), ~ Reloading(p)
    PROVE  \A q \in Proc : Informed(loop[q], generation, tables)
                              => Informed(loop'[q], generation, tables)
  <1>0. loop \in [Proc -> Loop] /\ generation \in Nat
    BY Ranges DEF TypeOK
  <1>1. CASE \E q \in Pool, f \in Field, e \in Seen : ReadForPatch(p, q, f, e)
    <2>1. PICK q \in Pool, f \in Field, e \in Seen : ReadForPatch(p, q, f, e)
      BY <1>1
    <2> DEFINE l == [pc |-> "patch", pool |-> q, field |-> f, expected |-> e,
                     existing |-> tables.pools[q]]
    <2>2. loop' = [loop EXCEPT ![p] = l]
      BY <2>1 DEF ReadForPatch
    <2>3. Informed(l, generation, tables)
      BY <1>0 DEF Informed, Seen
    <2> HIDE DEF l
    <2> QED BY <1>0, <2>2, <2>3
  <1>2. CASE loop' = loop
    BY <1>2
  <1>3. CASE /\ ~ \E q \in Pool, f \in Field, e \in Seen : ReadForPatch(p, q, f, e)
             /\ loop' # loop
    <2>1. loop'[p].pc # "patch" /\ \A q \in Proc \ {p} : loop'[q] = loop[q]
      <3>1. CASE Booted(p) \/ PollResumes(p) \/ Authenticated(p) \/ Refreshed(p) \/ Reapply(p)
                 \/ AuthenticateUnloaded(p) \/ RefusePatch(p)
        BY <1>0, <1>3, <3>1 DEF Booted, PollResumes, Authenticated, Refreshed, Reapply,
                          AuthenticateUnloaded, RefusePatch, Free
      <3>2. CASE Publish(p)
        <4>1. loop[p] \in Applying
          BY <1>0, <3>2, LoopKinds DEF Publish
        <4> QED BY <1>0, <3>2, <4>1 DEF Publish, Applying
      <3>3. CASE Rebuild(p) \/ ApplyFails(p)
        BY <1>0, <3>3 DEF Rebuild, ApplyFails, EndApply, Free
      <3>4. CASE \E a \in Actor : ReloadFails(p, a)
        BY <1>0, <1>3, <3>4 DEF ReloadFails, Free
      <3>5. CASE Boot(p) \/ StartPoll(p) \/ Authenticate(p)
        BY <1>3, <3>5 DEF Boot, StartPoll, Authenticate
      <3> QED BY <1>3, <3>1, <3>2, <3>3, <3>4, <3>5 DEF Reads, Running, Faulty
    <2> QED BY <2>1 DEF Informed
  <1> QED BY <1>1, <1>2, <1>3

LEMMA OthersKeepInv ==
    ASSUME ConfigInv, NEW p \in Proc, Reads(p), ~ Reloading(p)
    PROVE  ReloadInv' /\ StoreInv' /\ PatchInv' /\ TableInv' /\ AppInv'
  <1>1. UNCHANGED <<generation, tables, store>>
    BY OtherEffects DEF ConfigInv
  <1>2. StoreInv' /\ TableInv'
    BY <1>1 DEF ConfigInv, StoreInv, TableInv
  <1>3. ReloadInv'
    <2>1. CASE reload' = reload
      BY <1>1, <2>1 DEF ConfigInv, ReloadInv
    <2>2. CASE \E a \in Actor, r \in {Idle, Begun} : reload' = [reload EXCEPT ![p][a] = r]
      <3>1. \A q \in Proc, b \in Actor : reload'[q][b] \in {reload[q][b], Idle, Begun}
        BY <2>2 DEF ConfigInv, TypeOK
      <3> QED BY <1>1, <3>1, Fresh, Ranges DEF ConfigInv, ReloadInv
    <2> QED BY <2>1, <2>2, OtherEffects DEF ConfigInv
  <1>4. PatchInv'
    BY <1>1, OtherPatches DEF ConfigInv, PatchInv
  <1>5. AppInv'
    <2>1. \A q \in Proc : app'[q].pools \in {app[q].pools, store[q].tables.pools}
      <3>0. app \in [Proc -> [pools : [Pool -> PoolRow], services : [Simple -> Gen]]]
        BY DEF ConfigInv, TypeOK
      <3>1. CASE Publish(p)
        BY <3>0, <3>1 DEF Publish
      <3>3. CASE Rebuild(p)
        BY <3>0, <3>3 DEF Rebuild
      <3>2. CASE ~ Publish(p) /\ ~ Rebuild(p)
        <4>1. app' = app
          BY <3>2 DEF Reads, Running, Boot, Booted, StartPoll, PollResumes, Authenticate,
                Authenticated, Refreshed, Reapply, AuthenticateUnloaded, RefusePatch, Faulty,
                ReadForPatch, ApplyFails, ReloadFails
        <4> QED BY <4>1
      <3> QED BY <3>1, <3>2, <3>3
    <2>2. \A q \in Proc : store[q].tables.pools # Nothing.pools
                             => Routable(store[q].tables.pools[Primary])
      BY DEF ConfigInv, StoreInv, Current
    <2> QED BY <2>1, <2>2 DEF ConfigInv, AppInv
  <1> QED BY <1>2, <1>3, <1>4, <1>5

LEMMA ConfigInvHolds == Spec => []ConfigInv
  <1>1. Init => ConfigInv
    <2> SUFFICES ASSUME Init PROVE ConfigInv
      OBVIOUS
    <2>1. TypeOK
      BY InitTypes
    <2>2. ReloadInv
      BY Fresh DEF Init, ReloadInv
    <2>3. StoreInv
      <3>1. \A p \in Proc : store[p].gen = 0 /\ store[p].tables = Nothing
        BY DEF Init
      <3>2. generation = 1
        BY DEF Init
      <3>3. \A s : s.gen = 0 /\ s.tables = Nothing => Current(s, 1, tables)
        BY DEF Current
      <3> QED BY <3>1, <3>2, <3>3 DEF StoreInv
    <2>4. PatchInv
      BY DEF Init, PatchInv, Informed, Free
    <2>5. TableInv
      BY PoolAssumption DEF Init, TableInv, Seed, Routable, Field, PoolAssumption
    <2>6. AppInv
      BY DEF Init, AppInv
    <2> QED BY <2>1, <2>2, <2>3, <2>4, <2>5, <2>6 DEF ConfigInv
  <1>2. ConfigInv /\ [Next]_vars => ConfigInv'
    <2> SUFFICES ASSUME ConfigInv, [Next]_vars PROVE ConfigInv'
      OBVIOUS
    <2>1. TypeOK'
      BY NextKeepsTypes DEF ConfigInv
    <2>2. CASE Next
      BY <2>1, <2>2, StepKinds, WriteKeepsInv, ReloadKeepsInv, OthersKeepInv DEF ConfigInv
    <2>3. CASE UNCHANGED vars
      BY <2>1, <2>3 DEF vars, ConfigInv, ReloadInv, StoreInv, PatchInv, TableInv, AppInv
    <2> QED BY <2>2, <2>3
  <1> QED BY <1>1, <1>2, PTL DEF Spec

\* config_store.py's reload_now: a snapshot that claims the generation of the
\* database is the database, for any processes, tables and overlapping reloads.
THEOREM SnapshotsAreExact == Spec => []SnapshotIsExact
  <1>1. ConfigInv => SnapshotIsExact
    BY DEF ConfigInv, StoreInv, Current, SnapshotIsExact
  <1> QED BY <1>1, ConfigInvHolds, PTL

\* upsert_pool and _apply: neither the table, nor a snapshot, nor what a
\* process routes by has a primary pool without anything in it.
THEOREM PrimaryIsRoutable == Spec => []PrimaryStaysRoutable
  <1>1. ConfigInv => PrimaryStaysRoutable
    BY DEF ConfigInv, StoreInv, TableInv, AppInv, Current, PrimaryStaysRoutable
  <1> QED BY <1>1, ConfigInvHolds, PTL

\* A write by which a process leaves a PATCH is that PATCH's.
LEMMA PatchStep ==
    ASSUME TypeOK, [Next]_vars, NEW p \in Proc, loop[p].pc = "patch", loop'[p].pc = "refresh"
    PROVE  \E v \in {0, This} : WritePatch(p, v)
  <1>1. loop \in [Proc -> Loop] /\ loop' # loop
    BY DEF TypeOK
  <1>2. PICK q \in Proc : Acting(q)
    BY <1>1 DEF Next, vars, WriteElsewhere
  <1>3. q = p
    <2> SUFFICES ASSUME q # p PROVE loop'[p] = loop[p]
      OBVIOUS
    <2>1. CASE Reads(q)
      <3>1. CASE Reloading(q)
        BY <3>1 DEF Reloading, ReadGeneration, ReadEarlyTables, ReadLateTables, Install
      <3>2. CASE Running(q)
        BY <1>1, <3>2 DEF Running, Boot, Booted, StartPoll, PollResumes, Authenticate,
                    Authenticated, Refreshed, Reapply, Publish, Rebuild, EndApply
      <3>3. CASE AuthenticateUnloaded(q) \/ RefusePatch(q) \/ ApplyFails(q)
                 \/ \E x \in Pool, f \in Field, e \in Seen : ReadForPatch(q, x, f, e)
        BY <1>1, <3>3 DEF AuthenticateUnloaded, RefusePatch, ApplyFails, EndApply, ReadForPatch
      <3>4. CASE \E a \in Actor : ReloadFails(q, a)
        BY <1>1, <3>4 DEF ReloadFails
      <3> QED BY <2>1, <3>1, <3>2, <3>3, <3>4 DEF Reads, Faulty
    <2>2. CASE Writing(q)
      BY <1>1, <2>2 DEF Writing, WritePatch, PutRow, DeleteRow, PutPool, DeletePool,
                        StoreRotation, AdminWrites
    <2> QED BY <1>2, <2>1, <2>2 DEF Acting, Patching, Administering, Writing, Reads
  <1>4. loop[p] # Free /\ loop'[p] # Free
    BY DEF Free
  <1>5. CASE Reloading(p)
    BY <1>1, <1>5 DEF Reloading, ReadGeneration, ReadEarlyTables, ReadLateTables, Install
  <1>6. CASE Running(p) \/ AuthenticateUnloaded(p)
    BY <1>1, <1>4, <1>6
       DEF Running, Boot, Booted, StartPoll, PollResumes, Authenticate, Authenticated,
           LoopReloaded, Refreshed, Reapply, Publish, Rebuild, AuthenticateUnloaded, Serving
  <1>7. CASE RefusePatch(p)
    BY <1>1, <1>4, <1>7 DEF RefusePatch
  <1>8. CASE Administering(p)
    BY <1>4, <1>8 DEF Administering, Requested, Serving, PutRow, DeleteRow, PutPool,
                      DeletePool, ReadForPatch
  <1>9. CASE StoreRotation(p)
    BY <1>1, <1>9 DEF StoreRotation
  <1>10. CASE ApplyFails(p)
    BY <1>10 DEF ApplyFails
  <1>11. CASE \E a \in Actor : ReloadFails(p, a)
    BY <1>1, <1>4, <1>11 DEF ReloadFails
  <1> QED BY <1>2, <1>3, <1>5, <1>6, <1>7, <1>8, <1>9, <1>10, <1>11
          DEF Acting, Patching, Faulty

\* admin.py's PATCH with If-Match: it changes nothing but the field it names,
\* whatever other processes wrote after it had read the pool.
THEOREM ConditionalPatchesAreExact == Spec => ConditionalPatchIsExact
  <1>1. ConfigInv /\ [Next]_vars =>
          [\A p \in Proc :
             (loop[p].pc = "patch" /\ loop'[p].pc = "refresh" /\ loop[p].expected # None)
               => \A q \in Pool, f \in Field :
                     (q # loop[p].pool \/ f # loop[p].field)
                         => tables'.pools[q][f] = tables.pools[q][f]]_vars
    <2> SUFFICES ASSUME ConfigInv, [Next]_vars, NEW p \in Proc,
                        loop[p].pc = "patch", loop'[p].pc = "refresh", loop[p].expected # None,
                        NEW q \in Pool, NEW f \in Field, q # loop[p].pool \/ f # loop[p].field
                 PROVE  tables'.pools[q][f] = tables.pools[q][f]
      OBVIOUS
    <2>1. PICK v \in {0, This} : WritePatch(p, v)
      BY PatchStep DEF ConfigInv
    <2> DEFINE l == loop[p]
               row == [l.existing EXCEPT ![l.field] = v]
    <2>2. l.expected = generation /\ tables' = WithPool(l.pool, row)
      BY <2>1 DEF WritePatch, PreconditionHolds, AdminWrites, Written
    <2>3. l.existing = tables.pools[l.pool]
      BY <2>2 DEF ConfigInv, PatchInv, Informed
    <2>4. l \in PatchInHand /\ tables \in Tables /\ v \in Gen
      BY <2>1, LoopKinds, Numbers DEF ConfigInv, TypeOK, WritePatch, AdminWrites, Written, Gen
    <2>5. row \in PoolRow /\ l.pool \in Pool
      BY <2>4 DEF PatchInHand, PoolRow
    <2>6. tables'.pools = [tables.pools EXCEPT ![l.pool] = row]
      BY <2>2, <2>4, <2>5, PoolTypes
    <2>7. tables.pools \in [Pool -> PoolRow]
      BY <2>4 DEF Tables
    <2>8. f # l.field => row[f] = l.existing[f]
      BY <2>4 DEF PatchInHand, PoolRow
    <2> HIDE DEF row, l
    <2> QED BY <2>3, <2>6, <2>7, <2>8 DEF l
  <1> QED BY <1>1, ConfigInvHolds, PTL DEF Spec, ConditionalPatchIsExact
=============================================================================
