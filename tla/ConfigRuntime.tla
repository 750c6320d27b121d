---------------------------- MODULE ConfigRuntime ----------------------------
(***************************************************************************)
(* The configuration that several gateway processes share: the tables and  *)
(* the generation counter of tusker_gateway/config_store.py, the admin     *)
(* API's writes to them (tusker_gateway/admin.py), the snapshot of the     *)
(* tables in each process, and tusker_gateway/config_runtime.py, which     *)
(* polls the generation and rebuilds the process's subsystems.             *)
(*                                                                         *)
(* Three actors of a process reload its snapshot: the poll's worker        *)
(* thread, the worker thread that stores a rotated OAuth credential, and   *)
(* the event loop inside an admin request.  A reload reads the generation  *)
(* on one connection and the tables, one SELECT each, on another.          *)
(*                                                                         *)
(* What a row says is the generation that wrote it, 0 if there is no row   *)
(* or the list is empty.  A generation 0 in a process means "nothing       *)
(* loaded".                                                                *)
(***************************************************************************)
EXTENDS Integers

CONSTANTS
    Proc,        \* gateway processes, shown in full
    Elsewhere,   \* BOOLEAN: others write too, of which only the writes are shown
    Admins,      \* those that are sent admin requests
    Rotators,    \* those that rotate an OAuth credential
    Early, Late, \* tables that _apply reads first, and those it reads last
    Pool,        \* pools of the configuration
    Primary,     \* the pool "code"
    MaxEvents,   \* bound: writes (the first is there at the start) and faults
    None         \* no If-Match header

ASSUME PoolAssumption == Primary \in Pool
ASSUME ProcAssumption == Admins \subseteq Proc /\ Rotators \subseteq Proc
ASSUME TableAssumption ==
    /\ Early \subseteq {"providers", "provider_settings", "provider_api_keys"}
    /\ "oauth_credentials" \in Late /\ Late \subseteq {"oauth_credentials", "client_keys"}
ASSUME ElsewhereAssumption == Elsewhere \in BOOLEAN
ASSUME BoundAssumption == MaxEvents \in Nat \ {0}
ASSUME NoneAssumption == None \notin Nat

VARIABLES
    generation, \* tusker_config_meta
    tables,     \* the other tables
    store,      \* ConfigStore of each process: generation and snapshot
    reload,     \* the reload each actor of a process is in
    loop,       \* what the event loop of each process is doing
    poll,       \* the coroutine of the poll: phase and its local old_gen
    known,      \* ConfigRuntime._generation
    app,        \* what the pool manager and the services were built from
    faults      \* history: reloads and rebuilds that failed

vars == <<generation, tables, store, reload, loop, poll, known, app,
          faults>>

Gen == 0..MaxEvents
Field == {"models", "fallback"}
PoolRow == [Field -> Gen]
NoPool == [f \in Field |-> 0]

\* A pool is there if it has a row; Primary's always has something in it.
Simple == Early \cup Late
Managed == Simple \ {"oauth_credentials"}
Deletable == {"providers", "client_keys"}
Tables == [simple : [Simple -> Gen], pools : [Pool -> PoolRow], there : SUBSET Pool]

Seed == [simple |-> [t \in Simple |-> 1],
         pools  |-> [q \in Pool |-> [f \in Field |-> 1]],
         there  |-> Pool]
Nothing == [simple |-> [t \in Simple |-> 0],
            pools  |-> [q \in Pool |-> NoPool],
            there  |-> {}]

Actor == {"poll", "rotation", "loop"}
Happens == generation + faults < MaxEvents

This == generation + 1   \* the generation that a write is about to make

Routable(row) == row["models"] # 0 \/ row["fallback"] # 0

\* upsert_pool refuses an empty primary pool before it touches the database.
Acceptable(q, row) == q = Primary => Routable(row)

-----------------------------------------------------------------------------
(* Reloads: ConfigStore.reload_now, a step per connection or SELECT.         *)

Reading(g, part, pc) == [pc |-> pc, gen |-> g, part |-> part]
Idle == Reading(0, Nothing, "idle")
Free == [pc |-> "free"]
Begun == Reading(0, Nothing, "generation")

Start(p, a) == reload' = [reload EXCEPT ![p][a] = Begun]

\* The generation comes first, from a connection of its own.
ReadGeneration(p, a) ==
    /\ reload[p][a].pc = "generation"
    /\ reload' = [reload EXCEPT ![p][a] = Reading(generation, Nothing, "compare")]
    /\ UNCHANGED <<generation, tables, store, loop, poll, known, app, faults>>

\* Fault: the generation is read after the tables, as old as they may be.
InstalledLate(p, a) == [gen |-> generation, tables |-> reload[p][a].part]

\* The snapshot is replaced under the store's lock, with the generation that
\* was read first.
Installed(p, a) == [gen |-> reload[p][a].gen, tables |-> reload[p][a].part]

EarlyRead(part) == [part EXCEPT !.simple =
    [t \in Simple |-> IF t \in Early THEN tables.simple[t] ELSE part.simple[t]]]
LateRead(part) == [tables EXCEPT !.simple =
    [t \in Simple |-> IF t \in Early THEN part.simple[t] ELSE tables.simple[t]]]

\* Nothing new ends a reload; otherwise _apply reads one table after another.
ReadEarlyTables(p, a) ==
    /\ reload[p][a].pc = "compare"
    /\ reload' = [reload EXCEPT ![p][a] =
          IF @.gen = store[p].gen THEN Idle
                                  ELSE Reading(@.gen, EarlyRead(Nothing), "tables")]
    /\ UNCHANGED <<generation, tables, store, loop, poll, known, app, faults>>

ReadLateTables(p, a) ==
    /\ reload[p][a].pc = "tables"
    /\ reload' = [reload EXCEPT ![p][a] = Reading(@.gen, LateRead(@.part), "install")]
    /\ UNCHANGED <<generation, tables, store, loop, poll, known, app, faults>>

Install(p, a) ==
    /\ reload[p][a].pc = "install"
    /\ store' = [store EXCEPT ![p] = Installed(p, a)]
    /\ reload' = [reload EXCEPT ![p][a] = Idle]
    /\ UNCHANGED <<generation, tables, loop, poll, known, app, faults>>

\* No database.  The poll tries again next time, a refresh after a write is
\* given up, apply_reload and a request go on with what there is.
ReloadFails(p, a) ==
    /\ reload[p][a].pc \in {"generation", "tables"}
    /\ Happens /\ faults' = faults + 1
    /\ poll' = [poll EXCEPT ![p] = IF a = "poll" THEN [pc |-> "wait", old |-> 0] ELSE @]
    /\ \/ /\ a # "loop"
          /\ reload' = [reload EXCEPT ![p][a] = Idle]
          /\ UNCHANGED loop
       \/ /\ a = "loop" /\ loop[p].pc = "refresh"
          /\ Start(p, a)
          /\ loop' = [loop EXCEPT ![p] = [pc |-> "reapply"]]
       \/ /\ a = "loop" /\ loop[p].pc # "refresh"
          /\ reload' = [reload EXCEPT ![p][a] = Idle]
          /\ loop' = [loop EXCEPT ![p] = Free]
    /\ UNCHANGED <<generation, tables, store, known, app>>

-----------------------------------------------------------------------------
(* What the event loop does; a handler runs to its end before another starts. *)

Serving(p) == loop[p] = Free /\ poll[p].pc \notin {"boot", "booting"}

\* The reload that the event loop is waiting for has ended.
LoopReloaded(p, pc) == loop[p].pc = pc /\ reload[p]["loop"] = Idle

\* initialize() loads the configuration before the first request.
Boot(p) ==
    /\ poll[p].pc = "boot"
    /\ poll' = [poll EXCEPT ![p].pc = "booting"]
    /\ Start(p, "poll")
    /\ UNCHANGED <<generation, tables, store, loop, known, app, faults>>

\* It takes the generation for known and then applies it.
Booted(p) ==
    /\ poll[p].pc = "booting"
    /\ loop[p] = Free
    /\ reload[p]["poll"] = Idle
    /\ known' = [known EXCEPT ![p] = store[p].gen]
    /\ loop' = [loop EXCEPT ![p] = [pc |-> "publish", by |-> "boot", gen |-> store[p].gen]]
    /\ poll' = [poll EXCEPT ![p].pc = "applying"]
    /\ UNCHANGED <<generation, tables, store, reload, app, faults>>

StartPoll(p) ==
    /\ poll[p].pc = "wait"
    /\ loop[p] = Free
    /\ poll' = [poll EXCEPT ![p] = [pc |-> "reading", old |-> known[p]]]
    /\ Start(p, "poll")
    /\ UNCHANGED <<generation, tables, store, loop, known, app, faults>>

\* The poll compares with the generation that was known before the reload.
PollResumes(p) ==
    /\ poll[p].pc = "reading"
    /\ loop[p] = Free
    /\ reload[p]["poll"] = Idle
    /\ IF store[p].gen = poll[p].old
       THEN /\ poll' = [poll EXCEPT ![p] = [pc |-> "wait", old |-> 0]]
            /\ UNCHANGED loop
       ELSE /\ poll' = [poll EXCEPT ![p] = [pc |-> "applying", old |-> 0]]
            /\ loop' = [loop EXCEPT ![p] =
                  [pc |-> "publish", by |-> "poll", gen |-> store[p].gen]]
    /\ UNCHANGED <<generation, tables, store, reload, known, app, faults>>

\* runtime_config, which the authentication of each request calls.
Authenticate(p) ==
    /\ Serving(p)
    /\ store[p].gen # 0
    /\ known[p] # store[p].gen
    /\ known' = [known EXCEPT ![p] = store[p].gen]
    /\ UNCHANGED <<generation, tables, store, reload, loop, poll, app, faults>>

AuthenticateUnloaded(p) ==
    /\ Serving(p)
    /\ store[p].gen = 0
    /\ loop' = [loop EXCEPT ![p] = [pc |-> "auth"]]
    /\ Start(p, "loop")
    /\ UNCHANGED <<generation, tables, store, poll, known, app, faults>>

Authenticated(p) ==
    /\ LoopReloaded(p, "auth")
    /\ known' = [known EXCEPT ![p] = store[p].gen]
    /\ loop' = [loop EXCEPT ![p] = Free]
    /\ UNCHANGED <<generation, tables, store, reload, poll, app, faults>>

\* After a write: _refresh_after_write, then the reload of apply_reload.
Refreshed(p) ==
    /\ LoopReloaded(p, "refresh")
    /\ Start(p, "loop")
    /\ loop' = [loop EXCEPT ![p] = [pc |-> "reapply"]]
    /\ UNCHANGED <<generation, tables, store, poll, known, app, faults>>

Reapply(p) ==
    /\ LoopReloaded(p, "reapply")
    /\ known' = [known EXCEPT ![p] = store[p].gen]
    /\ loop' = [loop EXCEPT ![p] = [pc |-> "publish", by |-> "admin", gen |-> store[p].gen]]
    /\ UNCHANGED <<generation, tables, store, reload, poll, app, faults>>

\* _apply: the new pools are built before anything is published ...
Publish(p) ==
    /\ loop[p].pc = "publish"
    /\ app' = [app EXCEPT ![p].pools = store[p].tables.pools]
    /\ loop' = [loop EXCEPT ![p].pc = "rebuild"]
    /\ UNCHANGED <<generation, tables, store, reload, poll, known, faults>>

\* The job by that applied a configuration has ended; only the poll commits the
\* generation afterwards.
EndApply(p, succeeded) ==
    /\ loop' = [loop EXCEPT ![p] = Free]
    /\ poll' = [poll EXCEPT ![p].pc = IF loop[p].by = "admin" THEN @ ELSE "wait"]
    /\ known' = [known EXCEPT ![p] =
          IF loop[p].by = "poll" /\ succeeded THEN loop[p].gen ELSE @]

\* ... and the rotators, catalog, capabilities and identities afterwards, each
\* from the snapshot as it is then; "services" is the last of them.
Rebuild(p) ==
    /\ loop[p].pc = "rebuild"
    /\ app' = [app EXCEPT ![p].services = store[p].tables.simple]
    /\ EndApply(p, TRUE)
    /\ UNCHANGED <<generation, tables, store, reload, faults>>

\* An exception: the configuration is refused, or published without services.
ApplyFails(p) ==
    /\ loop[p].pc \in {"publish", "rebuild"}
    /\ Happens /\ faults' = faults + 1
    /\ EndApply(p, FALSE)
    /\ UNCHANGED <<generation, tables, store, reload, app>>

-----------------------------------------------------------------------------
(* Writes: the row and the generation change in one transaction.             *)

Written(t) ==
    /\ Happens
    /\ generation' = This
    /\ tables' = t
    /\ UNCHANGED <<store, poll, known, app, faults>>

\* A write of an admin request, which then refreshes its process.
AdminWrites(p, t) ==
    /\ Written(t)
    /\ loop' = [loop EXCEPT ![p] = [pc |-> "refresh"]]
    /\ Start(p, "loop")

Requested(p) == p \in Admins /\ Serving(p)
WithRow(t, g) == [tables EXCEPT !.simple[t] = g]

\* A provider, its settings, its API key, or a client's key is made or changed ...
PutRow(p, t) == Requested(p) /\ AdminWrites(p, WithRow(t, This))

\* ... and a provider deleted, or a client's key revoked.
DeleteRow(p, t) ==
    /\ Requested(p)
    /\ tables.simple[t] # 0
    /\ AdminWrites(p, WithRow(t, 0))

\* Definitions that are sent: of Primary, with all, one or none of the fields.
Row(models, fallback) == [f \in Field |-> IF f = "models" THEN models ELSE fallback]
Rows(q) == {Row(This, This)} \cup (IF q = Primary THEN {Row(0, This), NoPool} ELSE {})
WithPool(q, row) == [tables EXCEPT !.pools[q] = row, !.there = @ \cup {q}]

\* Fault: If-Match is read and not compared.
NoPrecondition(expected) == TRUE

\* The generation is locked and compared before the row is written.
PreconditionHolds(expected) == expected \in {None, generation}

\* PUT: a complete definition.
PutPool(p, q, row, expected) ==
    /\ Requested(p)
    /\ Acceptable(q, row)
    /\ PreconditionHolds(expected)
    /\ AdminWrites(p, WithPool(q, row))

\* PATCH reads the pool and writes it back with the fields it was given.
ReadForPatch(p, q, field, expected) ==
    /\ Requested(p)
    /\ q \in tables.there
    /\ loop' = [loop EXCEPT ![p] = [pc |-> "patch", pool |-> q, field |-> field,
                                   expected |-> expected, existing |-> tables.pools[q]]]
    /\ UNCHANGED <<generation, tables, store, reload, poll, known, app, faults>>

WritePatch(p, value) ==
    /\ loop[p].pc = "patch"
    /\ LET row == [loop[p].existing EXCEPT ![loop[p].field] = value]
       IN  /\ Acceptable(loop[p].pool, row)
           /\ PreconditionHolds(loop[p].expected)
           /\ AdminWrites(p, WithPool(loop[p].pool, row))

\* 400, 409, or 503 when there is no database.
RefusePatch(p) ==
    /\ loop[p].pc = "patch"
    /\ loop' = [loop EXCEPT ![p] = Free]
    /\ UNCHANGED <<generation, tables, store, reload, poll, known, app, faults>>

DeletePool(p, q) ==
    /\ Requested(p)
    /\ q # Primary
    /\ q \in tables.there
    /\ AdminWrites(p, [tables EXCEPT !.pools[q] = NoPool, !.there = @ \ {q}])

\* A write of a process that is not in Proc; its rows are
\* whatever it accepts.
WriteElsewhere ==
    /\ Elsewhere
    /\ \E t \in {WithRow(u, g) : u \in Simple, g \in {0, This}}
             \cup UNION {{WithPool(q, row) : row \in Rows(q)} : q \in Pool} :
          /\ \A q \in Pool : t.pools[q] # tables.pools[q] => Acceptable(q, t.pools[q])
          /\ Written(t)
    /\ UNCHANGED <<loop, reload>>

\* _cas_persist_credentials, in a worker thread: it refreshes the store, and
\* nobody applies what that loads.
StoreRotation(p) ==
    /\ p \in Rotators
    /\ poll[p].pc \notin {"boot", "booting"}
    /\ reload[p]["rotation"] = Idle
    /\ Written(WithRow("oauth_credentials", This))
    /\ Start(p, "rotation")
    /\ UNCHANGED loop

-----------------------------------------------------------------------------
Init ==
    /\ generation = 1
    /\ tables = Seed
    /\ store = [p \in Proc |-> [gen |-> 0, tables |-> Nothing]]
    /\ reload = [p \in Proc |-> [a \in Actor |-> Idle]]
    /\ loop = [p \in Proc |-> Free]
    /\ poll = [p \in Proc |-> [pc |-> "boot", old |-> 0]]
    /\ known = [p \in Proc |-> 0]
    /\ app = [p \in Proc |-> [pools |-> Nothing.pools, services |-> Nothing.simple]]
    /\ faults = 0

Reloading(p) == \E a \in Actor :
    \/ ReadGeneration(p, a)
    \/ ReadEarlyTables(p, a)
    \/ ReadLateTables(p, a)
    \/ Install(p, a)

Running(p) ==
    \/ Boot(p)
    \/ Booted(p)
    \/ StartPoll(p)
    \/ PollResumes(p)
    \/ Authenticate(p)
    \/ Authenticated(p)
    \/ Refreshed(p)
    \/ Reapply(p)
    \/ Publish(p)
    \/ Rebuild(p)

Patching(p) == RefusePatch(p) \/ \E v \in {0, This} : WritePatch(p, v)

\* If-Match says what the client has seen; what is older now is refused, as is
\* what becomes older before the transaction.
Seen == {None, generation}

Administering(p) ==
    \/ \E t \in Managed : PutRow(p, t)
    \/ \E t \in Managed \cap Deletable : DeleteRow(p, t)
    \/ \E q \in Pool, e \in Seen : \E row \in Rows(q) : PutPool(p, q, row, e)
    \/ \E q \in Pool, f \in Field, e \in Seen : ReadForPatch(p, q, f, e)
    \/ \E q \in Pool : DeletePool(p, q)

Faulty(p) ==
    \/ \E a \in Actor : ReloadFails(p, a)
    \/ ApplyFails(p)

Acting(p) ==
    \/ Reloading(p)
    \/ Running(p)
    \/ AuthenticateUnloaded(p)
    \/ Patching(p)
    \/ Administering(p)
    \/ StoreRotation(p)
    \/ Faulty(p)

Next == WriteElsewhere \/ \E p \in Proc : Acting(p)


\* Threads run and handlers end.  A coroutine that is ready runs before what
\* becomes ready after it, so the poll gets its turn although the loop is busy
\* now and then (SF).  Nothing says that requests or writes come.
Fairness == \A p \in Proc :
    /\ \A a \in Actor : WF_vars(ReadGeneration(p, a) \/ ReadEarlyTables(p, a)
                                 \/ ReadLateTables(p, a) \/ Install(p, a))
    /\ WF_vars(Authenticated(p) \/ Refreshed(p) \/ Reapply(p)
                                \/ Publish(p) \/ Rebuild(p))
    /\ WF_vars(Patching(p))
    /\ SF_vars(Boot(p) \/ Booted(p) \/ StartPoll(p) \/ PollResumes(p))

Spec == Init /\ [][Next]_vars
FairSpec == Spec /\ Fairness

-----------------------------------------------------------------------------
(* Properties.                                                               *)

Reload == [pc : {"idle", "generation", "compare", "tables", "install"},
           gen : Gen, part : Tables]

Waiting == [pc : {"free", "auth", "refresh", "reapply"}]
Applying == [pc : {"publish", "rebuild"}, by : {"boot", "poll", "admin"}, gen : Gen]
PatchInHand == [pc : {"patch"}, pool : Pool, field : Field,
                expected : Gen \cup {None}, existing : PoolRow]
Loop == Waiting \cup Applying \cup PatchInHand
Polling == [pc : {"boot", "booting", "wait", "reading", "applying"}, old : Gen]

\* Type invariant.
TypeOK ==
    /\ generation \in Gen \ {0}
    /\ tables \in Tables
    /\ store \in [Proc -> [gen : Gen, tables : Tables]]
    /\ reload \in [Proc -> [Actor -> Reload]]
    /\ loop \in [Proc -> Loop]
    /\ poll \in [Proc -> Polling]
    /\ known \in [Proc -> Gen]
    /\ app \in [Proc -> [pools : [Pool -> PoolRow], services : [Simple -> Gen]]]
    /\ faults \in Nat /\ generation + faults <= MaxEvents

\* A snapshot that claims the generation of the database shows every table as
\* it is there, although reload_now reads them one by one, on another
\* connection, while other processes write and other threads of the process
\* reload: a stale table under a current generation would never be read again.
SnapshotIsExact == \A p \in Proc :
    store[p].gen = generation => store[p].tables = tables

\* Neither the table, nor a snapshot, nor what a process routes by ever has a
\* primary pool without a model or a fallback, whoever wrote, patched from an
\* old row, or failed in the middle of a rebuild.
PrimaryStaysRoutable ==
    /\ Primary \in tables.there /\ Routable(tables.pools[Primary])
    /\ \A p \in Proc :
        /\ store[p].gen # 0 => Routable(store[p].tables.pools[Primary])
        /\ app[p].pools # Nothing.pools => Routable(app[p].pools[Primary])

\* A PATCH that carries the generation its client saw changes nothing but the
\* field it names, whatever other processes wrote between its read of the pool
\* and its transaction.
ConditionalPatchIsExact == [][\A p \in Proc :
    (loop[p].pc = "patch" /\ loop'[p].pc = "refresh" /\ loop[p].expected # None)
        => \A q \in Pool, f \in Field :
              (q # loop[p].pool \/ f # loop[p].field)
                  => tables'.pools[q][f] = tables.pools[q][f]]_vars

\* When writes end, every process's snapshot ends up as the tables are and
\* stays so: outages and overlapping reloads that install old rows after new
\* ones only delay it.
SnapshotConverges == \A p \in Proc : <>[](store[p] = [gen |-> generation, tables |-> tables])

\* config_runtime.py on the poll: a failed rebuild "is retried on the next
\* poll instead of being silently skipped forever", so what a poll starts to
\* apply, or something newer, is what the services end up with.
RebuildIsRetried == \A p \in Proc :
    loop[p].pc = "publish" /\ loop[p].by = "poll" ~> app[p].services = store[p].tables.simple
=============================================================================
